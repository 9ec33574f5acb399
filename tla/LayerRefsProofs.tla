---------------------------- MODULE LayerRefsProofs ----------------------------
(* The abstract store keeps every stacked layer, for any sessions and contents. *)
EXTENDS LayerRefs, TLAPS

\* The values of the abstract store keep their types.
LEMMA TypeCorrect == Spec => []TypeOK
<1>1. Init => TypeOK
  BY DEF Init, TypeOK
<1>2. TypeOK /\ [Next]_vars => TypeOK'
  <2> SUFFICES ASSUME TypeOK, [Next]_vars PROVE TypeOK'
    OBVIOUS
  <2> USE DEF TypeOK
  <2>1. ASSUME NEW s \in Sids, NEW c \in Contents, Commit(s, c) PROVE TypeOK'
    BY <2>1 DEF Commit
  <2>2. ASSUME NEW s \in Sids, Rollback(s) PROVE TypeOK'
    BY <2>2 DEF Rollback
  <2>3. ASSUME NEW s \in Sids, Destroy(s) PROVE TypeOK'
    BY <2>3 DEF Destroy
  <2>4. ASSUME NEW c \in Contents, Stage(c) \/ Collect(c) PROVE TypeOK'
    BY <2>4 DEF Stage, Collect
  <2>5. CASE UNCHANGED vars
    BY <2>5 DEF vars
  <2> QED
    BY <2>1, <2>2, <2>3, <2>4, <2>5 DEF Next
<1> QED
  BY <1>1, <1>2, PTL DEF Spec

\* A stacked layer exists, whatever is committed, rolled back, destroyed and
\* collected, in any order: what layers.gc and layers.commit are meant to keep.
THEOREM StackedExist == Spec => []Backed
<1>1. Init => Backed
  BY DEF Init, Backed, Stacked
<1>2. TypeOK /\ Backed /\ [Next]_vars => Backed'
  <2> SUFFICES ASSUME TypeOK, Backed, [Next]_vars PROVE Backed'
    OBVIOUS
  <2> USE DEF TypeOK, Backed, Stacked
  <2>1. ASSUME NEW s \in Sids, NEW c \in Contents, Commit(s, c) PROVE Backed'
    <3> SUFFICES ASSUME NEW d \in Contents, NEW t \in Sids,
                        NEW i \in 1 .. Len(stacks'[t]), stacks'[t][i] = d
                 PROVE d \in layers
      BY <2>1 DEF Commit
    <3>1. CASE t = s /\ i = Len(stacks[s]) + 1
      BY <2>1, <3>1 DEF Commit
    <3>2. CASE ~ (t = s /\ i = Len(stacks[s]) + 1)
      <4>1. i \in 1 .. Len(stacks[t]) /\ stacks[t][i] = d
        BY <2>1, <3>2 DEF Commit
      <4> QED
        BY <4>1
    <3> QED
      BY <3>1, <3>2
  <2>2. ASSUME NEW s \in Sids, Rollback(s) PROVE Backed'
    <3> PICK k \in 1 .. Len(stacks[s]) :
          stacks' = [stacks EXCEPT ![s] = SubSeq(@, 1, k)] /\ layers' = layers
      BY <2>2 DEF Rollback
    <3> SUFFICES ASSUME NEW d \in Contents, NEW t \in Sids,
                        NEW i \in 1 .. Len(stacks'[t]), stacks'[t][i] = d
                 PROVE d \in layers
      OBVIOUS
    <3>1. i \in 1 .. Len(stacks[t]) /\ stacks[t][i] = d
      OBVIOUS
    <3> QED
      BY <3>1
  <2>3. ASSUME NEW s \in Sids, Destroy(s) PROVE Backed'
    BY <2>3 DEF Destroy
  <2>4. ASSUME NEW c \in Contents, Stage(c) PROVE Backed'
    BY <2>4 DEF Stage
  <2>5. ASSUME NEW c \in Contents, Collect(c) PROVE Backed'
    BY <2>5 DEF Collect
  <2>6. CASE UNCHANGED vars
    BY <2>6 DEF vars
  <2> QED
    BY <2>1, <2>2, <2>3, <2>4, <2>5, <2>6 DEF Next
<1> QED
  BY <1>1, <1>2, TypeCorrect, PTL DEF Spec
================================================================================
