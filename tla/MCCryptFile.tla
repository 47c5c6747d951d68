---------------------------- MODULE MCCryptFile ----------------------------
(* Inputs for CryptFile with blocks of two bytes: requests of less than a  *)
(* block, a block and more, some of which end like a padded block.         *)
EXTENDS CryptFile

MCData == {<<7>>, <<2, 2>>, <<7, 8, 1>>}
MCOffsets == 0 .. 2
MCSizes == 1 .. 5

(* One request of two whole blocks, and a read that asks for the first.    *)
MCPageData == {<<7, 8, 7, 8>>}
MCPageOffsets == {0}
MCPageSizes == {2}
=============================================================================
