---------------------------- MODULE MCCryptTree ----------------------------
(* Values for CryptTree: three names, one of which is too long when it is  *)
(* encrypted; slashes at the end and in the middle of their base64; modes  *)
(* that leave all, or take reading, or searching and writing.              *)
EXTENDS CryptTree, TLC

MCNames == {"a", "b", "c"}
MCPaths == {<<>>, <<"a">>, <<"b">>, <<"c">>, <<"a", "b">>}
MCAlphabet == {"+", "/", "x"}
MCBase64 == ("a" :> <<"x", "/">>) @@ ("b" :> <<"+", "/", "x">>)
            @@ ("c" :> <<"x", "x", "/", "x">>)
MCModes == {{"r", "w", "x"}, {"w", "x"}, {"r"}}

Symmetry == Permutations(Files)
=============================================================================
