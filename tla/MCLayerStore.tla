---------------------------- MODULE MCLayerStore ----------------------------
(* Model-checking instances of LayerStore. *)
EXTENDS LayerStore, TLC

\* Servers, session ids and contents are interchangeable.
Symmetry == Permutations(Procs) \cup Permutations(Sids) \cup Permutations(Contents)
=============================================================================
