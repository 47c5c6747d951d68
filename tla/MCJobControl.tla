---------------------------- MODULE MCJobControl ----------------------------
(* Model values for JobControl: jobs are interchangeable.                  *)
EXTENDS JobControl

Symmetry == Permutations(Jobs)
=============================================================================
