-------------------------- MODULE MCMinitalkServer --------------------------
(* Instances of MinitalkServer for TLC.                                    *)
EXTENDS MinitalkServer, TLC

Symmetry == Permutations(Conns)
=============================================================================
