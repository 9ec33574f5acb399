------------------------------ MODULE MCWorkspace ------------------------------
(* Model-checking instances of Workspace. *)
EXTENDS Workspace, TLC

\* Sessions are interchangeable.
Symmetry == Permutations(Sids)

\* Every session links to a directory of its own, or makes no links.
OwnTargets == [s \in Sids |-> {s}]
NoTargets  == [s \in Sids |-> {}]
===============================================================================
