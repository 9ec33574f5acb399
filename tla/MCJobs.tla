-------------------------------- MODULE MCJobs --------------------------------
(* Model-checking instances of Jobs. *)
EXTENDS Jobs, TLC

\* Job ids are interchangeable: the registry is keyed by them and never ordered.
Symmetry == Permutations(Jobs)
===============================================================================
