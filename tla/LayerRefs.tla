------------------------------- MODULE LayerRefs -------------------------------
(***************************************************************************)
(* What the layer store promises, without index, locks, files or crashes:  *)
(* sessions stack layers, a stacked layer exists, and only layers nobody   *)
(* stacks are collected.  Every operation is one step.                     *)
(***************************************************************************)
EXTENDS Naturals, Sequences

CONSTANTS
  Sids, Contents,
  MaxDepth  \* bound: layers a session may stack

VARIABLES
  stacks,  \* the committed layers of each session, oldest first
  layers   \* the layers that exist

vars == <<stacks, layers>>

Stacked == {c \in Contents : \E s \in Sids : \E i \in 1 .. Len(stacks[s]) :
                               stacks[s][i] = c}

Init == stacks = [s \in Sids |-> <<>>] /\ layers = {}

\* A snapshot of some upper is complete; nobody stacks it yet.
Stage(c) ==
  /\ c \notin layers
  /\ layers' = layers \cup {c}
  /\ UNCHANGED stacks

Commit(s, c) ==
  /\ c \in layers /\ Len(stacks[s]) < MaxDepth
  /\ stacks' = [stacks EXCEPT ![s] = Append(@, c)]
  /\ UNCHANGED layers

Rollback(s) ==
  /\ \E k \in 1 .. Len(stacks[s]) :
       stacks' = [stacks EXCEPT ![s] = SubSeq(@, 1, k)]
  /\ UNCHANGED layers

Destroy(s) ==
  /\ stacks' = [stacks EXCEPT ![s] = <<>>]
  /\ UNCHANGED layers

Collect(c) ==
  /\ c \in layers \ Stacked
  /\ layers' = layers \ {c}
  /\ UNCHANGED stacks

Next == \/ \E s \in Sids, c \in Contents : Commit(s, c)
        \/ \E s \in Sids : Rollback(s) \/ Destroy(s)
        \/ \E c \in Contents : Stage(c) \/ Collect(c)

Spec == Init /\ [][Next]_vars

TypeOK == /\ stacks \in [Sids -> Seq(Contents)]
          /\ layers \subseteq Contents

\* No session stacks a layer that does not exist.
Backed == Stacked \subseteq layers
================================================================================
