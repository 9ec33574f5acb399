---------------------------- MODULE WorkspaceProofs ----------------------------
(***************************************************************************)
(* Theorems about Workspace for any number of sessions, files, commits and *)
(* mishaps.                                                                *)
(***************************************************************************)
EXTENDS Workspace, SequenceTheorems, NaturalsInduction, WellFoundedInduction, TLAPS

IsSeq(q) == \E S : q \in Seq(S)

\* The variables are functions and sequences, and every stacked layer is there.
Shape ==
  /\ DOMAIN upper = Sids /\ \A s \in Sids : DOMAIN upper[s] = Paths
  /\ pc \in [Sids -> {"idle", "copy"}]
  /\ stray \in [Sids -> {"none", "running", "ended"}]
  /\ DOMAIN hash = Sids /\ DOMAIN cache = Sids
  /\ DOMAIN stack = Sids /\ \A s \in Sids : stack[s] \in Seq(DOMAIN store)
  /\ DOMAIN shots = Sids
  /\ \A s \in Sids : IsSeq(shots[s]) /\ Len(shots[s]) = Len(stack[s])
  /\ mishaps \in Nat

LEMMA ShapeInit == ASSUME Init PROVE Shape
<1>1. \A s \in Sids : stack[s] \in Seq(DOMAIN store)
  BY DEF Init
<1>2. \A s \in Sids : IsSeq(shots[s]) /\ Len(shots[s]) = Len(stack[s])
  <2>1. <<>> \in Seq({})
    OBVIOUS
  <2> QED BY <2>1 DEF Init, IsSeq
<1> QED BY <1>1, <1>2 DEF Init, Shape, Empty

\* No layer changes once it has its name.
LEMMA LayersStay ==
  ASSUME NEW s \in Sids, CommitCopy(s)
  PROVE  /\ DOMAIN store' = DOMAIN store \cup {hash[s]}
         /\ \A id \in DOMAIN store : store'[id] = store[id]
BY DEF CommitCopy, StoreWith

\* Not even one that env_commit could not finish, which adds at most itself.
LEMMA FailuresStay ==
  ASSUME NEW s \in Sids, CommitFails(s)
  PROVE  /\ DOMAIN store \subseteq DOMAIN store'
         /\ DOMAIN store' \subseteq DOMAIN store \cup {hash[s]}
         /\ \A id \in DOMAIN store : store'[id] = store[id]
         /\ \A id \in DOMAIN store' \ doubted' : id \in DOMAIN store \ doubted
BY DEF CommitFails, StoreWith

\* The actions of a session that leave the layers alone.
Stationary(s) == \/ Shell(s) \/ Packages(s) \/ Behind(s)
                 \/ CommitHash(s) \/ Rollback(s) \/ Reset(s)

LEMMA StationaryStores == \A s \in Sids : Stationary(s) => UNCHANGED <<store, doubted>>
BY DEF Stationary, Shell, Write, MakeLink, RedirectOut, RedirectAppend, Packages, Install,
       ListPackages, ListExpires, Behind, LeaveBehind, StrayWrites, StrayEnds, CommitHash,
       Rollback, Reset

\* A command or a process left behind changes one file.
LEMMA ChangesPut ==
  ASSUME NEW s \in Sids, NEW f, Changes(s, f)
  PROVE  \E e : Put(s, f, e)
BY DEF Changes

\* What env_gc and the jobs leave alone.
OutsideJobs == \E s \in Sids : Shell(s) \/ Packages(s) \/ Behind(s) \/ Env(s)
SomeGc == \E kept \in SUBSET DOMAIN store : Gc(kept)
KeptByJobs == UNCHANGED <<upper, stack, store, pc, hash, cache, stray, mishaps, shots,
                          doubted>>

\* A step is one of a session, of env_gc, or one of a job.
LEMMA Steps ==
  [Next]_vars => \/ OutsideJobs \/ SomeGc \/ KeptByJobs
BY DEF Next, vars, OutsideJobs, SomeGc, KeptByJobs

\* env_gc removes no stacked layer and changes none.
LEMMA GcStays ==
  ASSUME Shape, NEW kept \in SUBSET DOMAIN store, Gc(kept)
  PROVE  /\ DOMAIN store' = kept /\ \A id \in kept : store'[id] = store[id]
         /\ \A s \in Sids : stack'[s] = stack[s] /\ stack[s] \in Seq(kept)
<1>1. DOMAIN store' = kept /\ \A id \in kept : store'[id] = store[id]
  BY DEF Gc
<1>2. ASSUME NEW s \in Sids PROVE stack'[s] = stack[s] /\ stack[s] \in Seq(kept)
  <2>1. stack[s] \in Seq(DOMAIN store) /\ \A i \in 1 .. Len(stack[s]) : stack[s][i] \in kept
    BY DEF Gc, Shape
  <2>2. Len(stack[s]) \in Nat /\ stack[s] \in [1 .. Len(stack[s]) -> DOMAIN store]
    BY <2>1, LenProperties
  <2>3. stack[s] \in [1 .. Len(stack[s]) -> kept]
    BY <2>1, <2>2
  <2> QED BY <2>2, <2>3, SeqDef DEF Gc
<1> QED BY <1>1, <1>2

\* Every step keeps the shape.
LEMMA ShapeStep == ASSUME Shape, [Next]_vars PROVE Shape'
<1> USE DEF Shape
<1>1. ASSUME NEW s \in Sids, NEW f \in Files, Write(s, f) PROVE Shape'
  <2>1. PICK e : Put(s, f, e)
    BY <1>1, ChangesPut DEF Write
  <2> QED BY <1>1, <2>1 DEF Write, Put
<1>2. ASSUME NEW s \in Sids, NEW f \in Files, MakeLink(s, f) PROVE Shape'
  BY <1>2 DEF MakeLink, Put
<1>3. ASSUME NEW s \in Sids, NEW f \in Files, RedirectOut(s, f) PROVE Shape'
  BY <1>3 DEF RedirectOut, Put
<1>4. ASSUME NEW s \in Sids, NEW f \in Files, RedirectAppend(s, f) PROVE Shape'
  BY <1>4 DEF RedirectAppend, Put
<1>5. ASSUME NEW s \in Sids, Install(s) PROVE Shape'
  BY <1>5 DEF Install, Put, Invalidate
<1>6. ASSUME NEW s \in Sids, LeaveBehind(s) PROVE Shape'
  BY <1>6 DEF LeaveBehind
<1>7. ASSUME NEW s \in Sids, StrayWrites(s) PROVE Shape'
  BY <1>7, ChangesPut DEF StrayWrites, Put
<1>16. ASSUME NEW s \in Sids, StrayEnds(s) PROVE Shape'
  BY <1>16 DEF StrayEnds
<1>17. ASSUME NEW s \in Sids, CommitFails(s) PROVE Shape'
  <2>1. \A t \in Sids : stack'[t] \in Seq(DOMAIN store')
    BY <1>17, FailuresStay, SeqMonotonic DEF CommitFails
  <2>2. mishaps' \in Nat
    BY <1>17 DEF CommitFails
  <2>3. /\ UNCHANGED <<upper, stack, cache, stray, shots>>
        /\ pc' = [pc EXCEPT ![s] = "idle"] /\ hash' = [hash EXCEPT ![s] = Empty]
    BY <1>17 DEF CommitFails
  <2> QED BY <2>1, <2>2, <2>3
<1>8. ASSUME NEW s \in Sids, ListPackages(s) PROVE Shape'
  BY <1>8 DEF ListPackages
<1>9. ASSUME NEW s \in Sids, ListExpires(s) PROVE Shape'
  BY <1>9 DEF ListExpires, Invalidate
<1>10. ASSUME NEW s \in Sids, CommitHash(s) PROVE Shape'
  BY <1>10 DEF CommitHash
<1>11. ASSUME NEW s \in Sids, CommitCopy(s) PROVE Shape'
  <2>1. \A t \in Sids : stack'[t] \in Seq(DOMAIN store')
    <3>1. \A t \in Sids : stack[t] \in Seq(DOMAIN store')
      BY <1>11, LayersStay, SeqMonotonic
    <3>2. hash[s] \in DOMAIN store'
      BY <1>11, LayersStay
    <3>3. stack' = [stack EXCEPT ![s] = Append(@, hash[s])]
      BY <1>11 DEF CommitCopy
    <3>4. Append(stack[s], hash[s]) \in Seq(DOMAIN store')
      BY <3>1, <3>2, AppendProperties
    <3> HIDE DEF Shape
    <3> QED BY <3>1, <3>3, <3>4 DEF Shape
  <2>2. \A t \in Sids : IsSeq(shots'[t]) /\ Len(shots'[t]) = Len(stack'[t])
    <3>1. PICK S : shots[s] \in Seq(S)
      BY DEF IsSeq
    <3> DEFINE V == ViewOf(s)'
    <3>2. shots' = [shots EXCEPT ![s] = Append(@, V)]
      BY <1>11 DEF CommitCopy
    <3> HIDE DEF V
    <3>3. shots[s] \in Seq(S \cup {V})
      BY <3>1, SeqMonotonic
    <3>4. /\ Append(shots[s], V) \in Seq(S \cup {V})
          /\ Len(Append(shots[s], V)) = Len(shots[s]) + 1
      BY <3>3, AppendProperties
    <3>5. Len(Append(stack[s], hash[s])) = Len(stack[s]) + 1
      BY AppendProperties
    <3>6. ASSUME NEW t \in Sids, t # s
          PROVE  IsSeq(shots'[t]) /\ Len(shots'[t]) = Len(stack'[t])
      BY <1>11, <3>2, <3>6 DEF CommitCopy
    <3>7. IsSeq(shots'[s]) /\ Len(shots'[s]) = Len(stack'[s])
      BY <1>11, <3>2, <3>4, <3>5 DEF CommitCopy, IsSeq
    <3> QED BY <3>6, <3>7
  <2>3. DOMAIN upper' = Sids /\ \A t \in Sids : DOMAIN upper'[t] = Paths
    BY <1>11 DEF CommitCopy, Wipe, Empty
  <2> QED BY <1>11, <2>1, <2>2, <2>3 DEF CommitCopy, Wipe, Invalidate
<1>12. ASSUME NEW s \in Sids, Rollback(s) PROVE Shape'
  <2>1. PICK i \in 1 .. Len(stack[s]) :
          /\ stack' = [stack EXCEPT ![s] = SubSeq(@, 1, i)]
          /\ shots' = [shots EXCEPT ![s] = SubSeq(@, 1, i)]
    BY <1>12 DEF Rollback, FirstUses
  <2>2. \A j \in 1 .. i : stack[s][j] \in DOMAIN store
    BY <2>1, ElementOfSeq
  <2>3. SubSeq(stack[s], 1, i) \in Seq(DOMAIN store) /\ Len(SubSeq(stack[s], 1, i)) = i
    BY <2>1, <2>2, SubSeqProperties
  <2>4. PICK S : shots[s] \in Seq(S)
    BY DEF IsSeq
  <2>5. \A j \in 1 .. i : shots[s][j] \in S
    BY <2>1, <2>4, ElementOfSeq
  <2>6. SubSeq(shots[s], 1, i) \in Seq(S) /\ Len(SubSeq(shots[s], 1, i)) = i
    BY <2>1, <2>5, SubSeqProperties
  <2>7. \A t \in Sids : IsSeq(shots'[t]) /\ Len(shots'[t]) = Len(stack'[t])
    BY <2>1, <2>3, <2>6 DEF IsSeq
  <2>8. \A t \in Sids : stack'[t] \in Seq(DOMAIN store')
    BY <1>12, <2>1, <2>3 DEF Rollback
  <2>9. DOMAIN upper' = Sids /\ \A t \in Sids : DOMAIN upper'[t] = Paths
    BY <1>12 DEF Rollback, Wipe, Empty
  <2> QED BY <1>12, <2>1, <2>7, <2>8, <2>9 DEF Rollback, Wipe, Invalidate
<1>13. ASSUME NEW s \in Sids, Reset(s) PROVE Shape'
  BY <1>13 DEF Reset, Wipe, Invalidate, Empty
<1>14. CASE KeptByJobs
  BY <1>14 DEF KeptByJobs
<1>15. ASSUME NEW kept \in SUBSET DOMAIN store, Gc(kept) PROVE Shape'
  BY <1>15, GcStays DEF Gc
<1> QED
  BY <1>1, <1>2, <1>3, <1>4, <1>5, <1>6, <1>7, <1>8, <1>9, <1>10, <1>11, <1>12, <1>13,
     <1>14, <1>15, <1>16, <1>17, Steps
     DEF OutsideJobs, SomeGc, Shell, Packages, Behind, Env

\* The types that all three theorems rest on.
THEOREM WellShaped == Spec => []Shape
<1>1. Init => Shape
  BY ShapeInit
<1>2. Shape /\ [Next]_vars => Shape'
  BY ShapeStep
<1> QED BY <1>1, <1>2, PTL DEF Spec

-------------------------------------------------------------------------------
(* The names of the layers *)

\* The upper that a session is about to copy is what it hashed, unless a process was
\* left behind in it, and every layer that is not doubted is what its name says.
HonestInv ==
  /\ \A s \in Sids : pc[s] = "copy" /\ stray[s] = "none" => hash[s] = Manifest(upper[s])
  /\ \A id \in DOMAIN store \ doubted : Manifest(store[id]) = id

\* What a session does outside its copy leaves the uppers and hashes of others alone; its
\* own upper changes while it copies only if a process was left behind.
Quiet(s) ==
  /\ \A t \in Sids \ {s} : /\ upper'[t] = upper[t] /\ pc'[t] = pc[t] /\ hash'[t] = hash[t]
                            /\ stray'[t] = stray[t]
  /\ pc'[s] = "copy" /\ stray'[s] = "none" => hash'[s] = Manifest(upper'[s])

\* Every step keeps the names honest.
LEMMA HonestStep == ASSUME Shape, HonestInv, [Next]_vars PROVE HonestInv'
<1> USE DEF Shape
<1>1. ASSUME NEW s \in Sids, Shell(s) PROVE Quiet(s)
  <2>1. /\ pc[s] = "idle" /\ \A t \in Sids : t # s => upper'[t] = upper[t]
        /\ UNCHANGED <<stray, pc, hash>>
    BY <1>1, ChangesPut DEF Shell, Write, MakeLink, RedirectOut, RedirectAppend, Put
  <2> QED BY <2>1 DEF Quiet
<1>2. ASSUME NEW s \in Sids, Packages(s) PROVE Quiet(s)
  <2>1. CASE Install(s)
    BY <2>1 DEF Install, Put, Quiet
  <2>2. CASE ListPackages(s)
    BY <2>2 DEF ListPackages, Quiet
  <2>3. CASE ListExpires(s)
    BY <2>3 DEF ListExpires, HonestInv, Quiet, Manifest
  <2> QED BY <1>2, <2>1, <2>2, <2>3 DEF Packages
<1>3. ASSUME NEW s \in Sids, Behind(s) PROVE Quiet(s)
  <2>1. CASE LeaveBehind(s)
    BY <2>1 DEF LeaveBehind, Quiet
  <2>2. CASE StrayWrites(s)
    BY <2>2, ChangesPut DEF StrayWrites, Busy, Put, Quiet
  <2>3. CASE StrayEnds(s)
    BY <2>3 DEF StrayEnds, Quiet
  <2> QED BY <1>3, <2>1, <2>2, <2>3 DEF Behind
<1>4. ASSUME NEW s \in Sids, CommitHash(s) PROVE Quiet(s)
  BY <1>4 DEF CommitHash, Quiet, Manifest
<1>5. ASSUME NEW s \in Sids, Rollback(s) \/ Reset(s) PROVE Quiet(s)
  BY <1>5 DEF Rollback, Reset, Wipe, Quiet
<1>6. ASSUME NEW s \in Sids, CommitFails(s) PROVE Quiet(s)
  BY <1>6 DEF CommitFails, Quiet
<1>7. ASSUME NEW s \in Sids, CommitCopy(s) PROVE Quiet(s)
  BY <1>7 DEF CommitCopy, Wipe, Quiet
<1>8. ASSUME NEW s \in Sids, Quiet(s),
             \A id \in DOMAIN store' \ doubted' : Manifest(store'[id]) = id
      PROVE  HonestInv'
  <2>1. ASSUME NEW t \in Sids, pc'[t] = "copy" /\ stray'[t] = "none"
        PROVE  hash'[t] = Manifest(upper'[t])
    <3>1. CASE t = s
      BY <1>8, <2>1, <3>1 DEF Quiet
    <3>2. CASE t # s
      <4>1. pc[t] = "copy" /\ stray[t] = "none" /\ upper'[t] = upper[t] /\ hash'[t] = hash[t]
        BY <1>8, <2>1, <3>2 DEF Quiet
      <4> QED BY <4>1 DEF HonestInv
    <3> QED BY <3>1, <3>2
  <2>2. (\A t \in Sids : pc[t] = "copy" /\ stray[t] = "none" => hash[t] = Manifest(upper[t]))'
    BY <2>1 DEF Manifest
  <2>3. (\A id \in DOMAIN store \ doubted : Manifest(store[id]) = id)'
    BY <1>8 DEF Manifest
  <2> QED BY <2>2, <2>3 DEF HonestInv
<1>9. ASSUME NEW s \in Sids, Stationary(s) PROVE HonestInv'
  <2>1. UNCHANGED <<store, doubted>>
    BY <1>9, StationaryStores
  <2>2. Quiet(s)
    BY <1>1, <1>2, <1>3, <1>4, <1>5, <1>9 DEF Stationary
  <2> QED BY <1>8, <2>1, <2>2 DEF HonestInv
<1>10. ASSUME NEW s \in Sids, CommitFails(s) PROVE HonestInv'
  BY <1>6, <1>8, <1>10, FailuresStay DEF HonestInv
<1>11. ASSUME NEW s \in Sids, CommitCopy(s) PROVE HonestInv'
  <2>1. PICK copy \in Copies(upper[s]) : store' = StoreWith(s, copy)
    BY <1>11 DEF CommitCopy
  <2>2. Manifest(copy) = Manifest(upper[s])
    BY <2>1 DEF Copies, Manifest, Hashed, Nothing
  <2>3. \A id \in DOMAIN store' :
          store'[id] = IF id \in DOMAIN store THEN store[id] ELSE copy
    BY <2>1 DEF StoreWith
  <2>4. DOMAIN store' = DOMAIN store \cup {hash[s]}
    BY <1>11, LayersStay
  <2>5. doubted' = IF hash[s] \notin DOMAIN store /\ stray[s] # "none"
                   THEN doubted \cup {hash[s]} ELSE doubted
    BY <1>11 DEF CommitCopy
  <2>6. stray[s] = "none" => hash[s] = Manifest(upper[s])
    BY <1>11 DEF CommitCopy, HonestInv
  <2>7. \A id \in DOMAIN store \ doubted : Manifest(store[id]) = id
    BY DEF HonestInv
  <2>8. \A id \in DOMAIN store' \ doubted' : Manifest(store'[id]) = id
    BY <2>2, <2>3, <2>4, <2>5, <2>6, <2>7
  <2> QED BY <1>7, <1>8, <1>11, <2>8
<1>12. CASE KeptByJobs
  BY <1>12 DEF KeptByJobs, HonestInv, Manifest
<1>13. ASSUME NEW kept \in SUBSET DOMAIN store, Gc(kept) PROVE HonestInv'
  <2>1. doubted' = doubted \cap kept /\ UNCHANGED <<upper, pc, hash, stray>>
    BY <1>13 DEF Gc
  <2>2. DOMAIN store' = kept /\ \A id \in kept : store'[id] = store[id]
    BY <1>13, GcStays
  <2> QED BY <2>1, <2>2 DEF HonestInv, Manifest
<1> QED
  BY <1>9, <1>10, <1>11, <1>12, <1>13, Steps
     DEF OutsideJobs, SomeGc, Stationary, Env

\* A layer is stored under the hash of its files (_compute_commit_id), whatever the
\* sessions do, unless its copy failed or a process was left behind under it.
THEOREM NamesAreHashes == Spec => []LayersHonest
<1>1. Init => HonestInv
  BY DEF Init, HonestInv
<1>2. Shape /\ HonestInv /\ [Next]_vars => HonestInv'
  BY HonestStep
<1>3. HonestInv => LayersHonest
  BY DEF HonestInv, LayersHonest, Honest
<1> QED BY <1>1, <1>2, <1>3, WellShaped, PTL DEF Spec

-------------------------------------------------------------------------------
(* The cached package list *)

\* What a session sees of a path is unchanged by what another session does.
LEMMA OthersKeepView ==
  ASSUME Shape, NEW s \in Sids, NEW t \in Sids, t # s,
         Shell(s) \/ Packages(s) \/ Behind(s) \/ Env(s),
         NEW f \in Paths
  PROVE  View(t, f)' = View(t, f)
<1> USE DEF Shape
<1>1. upper'[t] = upper[t] /\ stack'[t] = stack[t]
  BY ChangesPut
     DEF Shell, Write, MakeLink, RedirectOut, RedirectAppend, Put, Packages, Install,
         ListPackages, ListExpires, Behind, LeaveBehind, StrayWrites, StrayEnds, Env,
         CommitHash, CommitCopy, CommitFails, Rollback, Reset, Wipe
<1>2. \A id \in DOMAIN store : store'[id] = store[id]
  <2>1. CASE CommitCopy(s)
    BY <2>1, LayersStay
  <2>2. CASE CommitFails(s)
    BY <2>2, FailuresStay
  <2>3. CASE Stationary(s)
    BY <2>3, StationaryStores
  <2> QED BY <2>1, <2>2, <2>3 DEF Stationary, Env
<1>3. \A i \in 1 .. Len(stack[t]) : stack[t][i] \in DOMAIN store
  BY ElementOfSeq
<1>4. Column(t, f)' = Column(t, f)
  BY <1>1, <1>2, <1>3 DEF Column
<1> QED BY <1>1, <1>4 DEF View

\* No session sees the difference when env_gc has run.
LEMMA GcKeepsView ==
  ASSUME Shape, NEW kept \in SUBSET DOMAIN store, Gc(kept), NEW t \in Sids, NEW f \in Paths
  PROVE  View(t, f)' = View(t, f)
<1>1. \A i \in 1 .. Len(stack[t]) : stack[t][i] \in kept
  BY GcStays, ElementOfSeq
<1>2. Column(t, f)' = Column(t, f)
  BY <1>1, GcStays DEF Column
<1> QED BY <1>2 DEF View, Gc

\* What the commands of shell_run do to files leaves the database alone.
LEMMA ShellKeepsDb ==
  ASSUME Shape, NEW s \in Sids, Shell(s)
  PROVE  View(s, Db)' = View(s, Db)
<1>1. PICK f \in Files : \E e : Put(s, f, e) /\ UNCHANGED <<stack, store>>
  BY ChangesPut DEF Shell, Write, MakeLink, RedirectOut, RedirectAppend
<1>2. f # Db /\ f \in Paths /\ Db \in Paths
  BY WorkspaceAssumption DEF Paths
<1>3. upper'[s][Db] = upper[s][Db]
  BY <1>1, <1>2 DEF Put, Shape
<1>4. Column(s, Db)' = Column(s, Db)
  BY <1>1 DEF Column
<1> QED BY <1>3, <1>4 DEF View

\* Every step keeps the list fresh.
LEMMA FreshStep == ASSUME Shape, ListFresh, [Next]_vars PROVE ListFresh'
<1> SUFFICES ASSUME NEW t \in Sids, cache'[t] # NoList, stray'[t] = "none"
             PROVE  cache'[t] = View(t, Db)'
  BY DEF ListFresh
<1> Db \in Paths
  BY DEF Paths
<1>1. CASE KeptByJobs
  <2>1. View(t, Db)' = View(t, Db)
    BY <1>1 DEF KeptByJobs, View, Column
  <2> QED BY <1>1, <2>1 DEF KeptByJobs, ListFresh
<1>8. ASSUME NEW kept \in SUBSET DOMAIN store, Gc(kept) PROVE cache'[t] = View(t, Db)'
  <2>1. View(t, Db)' = View(t, Db)
    BY <1>8, GcKeepsView
  <2> QED BY <1>8, <2>1 DEF Gc, ListFresh
<1>2. ASSUME NEW s \in Sids, s # t, Shell(s) \/ Packages(s) \/ Behind(s) \/ Env(s)
      PROVE  cache'[t] = View(t, Db)'
  <2>1. View(t, Db)' = View(t, Db)
    BY <1>2, OthersKeepView
  <2>2. cache'[t] = cache[t] /\ stray'[t] = stray[t]
    BY <1>2 DEF Shape, Shell, Write, MakeLink, RedirectOut, RedirectAppend, Packages,
       Install, ListPackages, ListExpires, Behind, LeaveBehind, StrayWrites, StrayEnds, Env,
       CommitHash, CommitCopy, CommitFails, Rollback, Reset, Wipe, Invalidate
  <2> QED BY <2>1, <2>2 DEF ListFresh
<1>3. CASE Shell(t)
  <2>1. cache' = cache /\ stray' = stray
    BY <1>3 DEF Shell, Write, MakeLink, RedirectOut, RedirectAppend
  <2> QED BY <1>3, <2>1, ShellKeepsDb DEF ListFresh
<1>4. CASE Install(t) \/ ListExpires(t) \/ CommitCopy(t) \/ Rollback(t) \/ Reset(t)
  <2>1. Invalidate(t)
    BY <1>4 DEF Install, ListExpires, CommitCopy, Rollback, Reset
  <2> QED BY <2>1 DEF Invalidate, Shape
<1>5. CASE Behind(t)
  BY <1>5 DEF Behind, LeaveBehind, StrayWrites, Busy, StrayEnds, Shape
<1>6. CASE ListPackages(t)
  <2>1. cache'[t] = View(t, Db) /\ UNCHANGED <<upper, stack, store>>
    BY <1>6 DEF ListPackages, Shape
  <2>2. View(t, Db)' = View(t, Db)
    BY <2>1 DEF View, Column
  <2> QED BY <2>1, <2>2
<1>7. CASE CommitHash(t)
  <2>1. cache' = cache /\ stray' = stray /\ UNCHANGED <<upper, stack, store>>
    BY <1>7 DEF CommitHash
  <2>2. View(t, Db)' = View(t, Db)
    BY <2>1 DEF View, Column
  <2> QED BY <2>1, <2>2 DEF ListFresh
<1>9. CASE CommitFails(t)
  <2>1. UNCHANGED <<upper, stack, cache, stray>>
    BY <1>9 DEF CommitFails
  <2>2. \A i \in 1 .. Len(stack[t]) : store'[stack[t][i]] = store[stack[t][i]]
    BY <1>9, FailuresStay, ElementOfSeq DEF Shape
  <2>3. View(t, Db)' = View(t, Db)
    BY <2>1, <2>2 DEF View, Column
  <2> QED BY <2>1, <2>3 DEF ListFresh
<1> QED
  BY <1>1, <1>2, <1>3, <1>4, <1>5, <1>6, <1>7, <1>8, <1>9, Steps
     DEF OutsideJobs, SomeGc, Packages, Env

\* "The list can never go stale across a mutation", unless something was left behind.
THEOREM ListStaysFresh == Spec => []ListFresh
<1>1. Init => ListFresh
  BY DEF Init, ListFresh
<1>2. Shape /\ ListFresh /\ [Next]_vars => ListFresh'
  BY FreshStep
<1> QED BY <1>1, <1>2, WellShaped, PTL DEF Spec

-------------------------------------------------------------------------------
(* Rollback and reset *)

\* What a session sees with an empty upper over the first i layers of its stack.
Prefix(s, i, f) == [j \in 1 .. i |-> store[stack[s][j]][f]]
Snap(s, i)      == [f \in Paths |-> Shown(Append(Prefix(s, i, f), Nothing))]

ShotsInv == \A s \in Sids : \A i \in 1 .. Len(stack[s]) : shots[s][i] = Snap(s, i)

\* A layer is there after the step, as it was.
Stays(id) == id \in DOMAIN store' /\ store'[id] = store[id]

\* A stacked layer stays.
LEMMA StackedStay ==
  ASSUME Shape, [Next]_vars, NEW s \in Sids, NEW i \in 1 .. Len(stack[s])
  PROVE  Stays(stack[s][i])
<1>1. stack[s][i] \in DOMAIN store
  BY ElementOfSeq DEF Shape
<1>2. ASSUME NEW t \in Sids, CommitCopy(t) PROVE Stays(stack[s][i])
  BY <1>1, <1>2, LayersStay DEF Stays
<1>3. ASSUME NEW kept \in SUBSET DOMAIN store, Gc(kept) PROVE Stays(stack[s][i])
  BY <1>3, GcStays, ElementOfSeq DEF Stays
<1>4. CASE store' = store
  BY <1>1, <1>4 DEF Stays
<1>5. ASSUME NEW t \in Sids, CommitFails(t) PROVE Stays(stack[s][i])
  BY <1>1, <1>5, FailuresStay DEF Stays
<1>6. ASSUME NEW t \in Sids, Stationary(t) PROVE Stays(stack[s][i])
  BY <1>4, <1>6, StationaryStores
<1> QED
  BY <1>2, <1>3, <1>4, <1>5, <1>6, Steps DEF OutsideJobs, SomeGc, KeptByJobs, Stationary, Env

\* The layers of a prefix stay, so what it shows stays.
LEMMA SnapStays ==
  ASSUME Shape, NEW s \in Sids, NEW i \in 1 .. Len(stack[s]),
         \A j \in 1 .. i : stack'[s][j] = stack[s][j] /\ Stays(stack[s][j])
  PROVE  Snap(s, i)' = Snap(s, i)
<1>2. ASSUME NEW f \in Paths PROVE Prefix(s, i, f)' = Prefix(s, i, f)
  BY DEF Prefix, Stays
<1> QED BY <1>2 DEF Snap

\* Every step keeps the snapshots.
LEMMA ShotsStep == ASSUME Shape, ShotsInv, [Next]_vars PROVE ShotsInv'
<1> SUFFICES ASSUME NEW t \in Sids, NEW i \in 1 .. Len(stack'[t])
             PROVE  shots'[t][i] = Snap(t, i)'
  BY DEF ShotsInv
<1>1. \A j \in 1 .. Len(stack[t]) : Stays(stack[t][j])
  BY StackedStay
<1>2. CASE stack'[t] = stack[t] /\ shots'[t] = shots[t]
  <2>1. Snap(t, i)' = Snap(t, i)
    BY <1>1, <1>2, SnapStays
  <2> QED BY <1>2, <2>1 DEF ShotsInv
<1>3. CASE CommitCopy(t)
  <2>1. stack'[t] = Append(stack[t], hash[t]) /\ shots'[t] = Append(shots[t], ViewOf(t)')
    BY <1>3 DEF CommitCopy, Shape
  <2>2. PICK S : shots[t] \in Seq(S)
    BY DEF Shape, IsSeq
  <2>3. stack[t] \in Seq(DOMAIN store') /\ hash[t] \in DOMAIN store'
    BY <1>3, LayersStay, SeqMonotonic DEF Shape
  <2>4. /\ Len(stack'[t]) = Len(stack[t]) + 1
        /\ \A j \in 1 .. Len(stack[t]) : stack'[t][j] = stack[t][j]
    BY <2>1, <2>3, AppendProperties
  <2>5. /\ Len(shots[t]) = Len(stack[t]) /\ Len(shots'[t]) = Len(shots[t]) + 1
        /\ \A j \in 1 .. Len(shots[t]) : shots'[t][j] = shots[t][j]
        /\ shots'[t][Len(shots[t]) + 1] = ViewOf(t)'
    <3> DEFINE V == ViewOf(t)'
    <3>1. shots[t] \in Seq(S \cup {V})
      BY <2>2, SeqMonotonic
    <3> HIDE DEF V
    <3>2. /\ Len(Append(shots[t], V)) = Len(shots[t]) + 1
          /\ \A j \in 1 .. Len(shots[t]) : Append(shots[t], V)[j] = shots[t][j]
          /\ Append(shots[t], V)[Len(shots[t]) + 1] = V
      BY <3>1, AppendProperties
    <3> QED BY <2>1, <3>2 DEF Shape, V
  <2>6. CASE i \in 1 .. Len(stack[t])
    <3>1. Snap(t, i)' = Snap(t, i)
      BY <1>1, <2>4, <2>6, SnapStays
    <3> QED BY <2>5, <2>6, <3>1 DEF ShotsInv
  <2>7. CASE i = Len(stack'[t])
    <3>1. upper'[t] = Empty
      BY <1>3 DEF CommitCopy, Wipe, Shape
    <3>2. ViewOf(t)' = Snap(t, i)'
      BY <2>7, <3>1 DEF ViewOf, View, Column, Snap, Prefix, Empty
    <3>3. i = Len(shots[t]) + 1
      BY <2>4, <2>5, <2>7
    <3> QED BY <2>5, <3>2, <3>3
  <2>8. Len(stack[t]) \in Nat
    BY LenProperties DEF Shape
  <2> QED BY <2>4, <2>6, <2>7, <2>8
<1>4. CASE Rollback(t)
  <2>1. PICK k \in 1 .. Len(stack[t]) :
          /\ stack'[t] = SubSeq(stack[t], 1, k) /\ shots'[t] = SubSeq(shots[t], 1, k)
    BY <1>4 DEF Rollback, FirstUses, Shape
  <2>2. PICK S : shots[t] \in Seq(S) /\ Len(shots[t]) = Len(stack[t])
    BY DEF Shape, IsSeq
  <2>3. /\ \A j \in 1 .. k : stack[t][j] \in DOMAIN store
        /\ \A j \in 1 .. k : shots[t][j] \in S
    BY <2>1, <2>2, ElementOfSeq DEF Shape
  <2>4. /\ Len(stack'[t]) = k
        /\ \A j \in 1 .. k : stack'[t][j] = stack[t][j]
    BY <2>1, <2>3, SubSeqProperties
  <2>5. \A j \in 1 .. k : shots'[t][j] = shots[t][j]
    BY <2>1, <2>3, SubSeqProperties
  <2>6. i \in 1 .. Len(stack[t]) /\ i \in 1 .. k
    BY <2>1, <2>2, <2>4
  <2>7. Snap(t, i)' = Snap(t, i)
    BY <1>1, <2>4, <2>6, SnapStays
  <2> QED BY <2>5, <2>6, <2>7 DEF ShotsInv
<1>5. CASE ~ CommitCopy(t) /\ ~ Rollback(t)
  <2>1. ASSUME NEW s \in Sids, \/ Shell(s) \/ Packages(s) \/ Behind(s)
                              \/ CommitHash(s) \/ CommitFails(s) \/ Reset(s)
        PROVE  UNCHANGED <<stack, shots>>
    BY <2>1 DEF Shell, Write, MakeLink, RedirectOut, RedirectAppend, Packages, Install,
       ListPackages, ListExpires, Behind, LeaveBehind, StrayWrites, StrayEnds, CommitHash,
       CommitFails, Reset
  <2>2. ASSUME NEW s \in Sids, s # t, CommitCopy(s) \/ Rollback(s)
        PROVE  stack'[t] = stack[t] /\ shots'[t] = shots[t]
    BY <2>2 DEF CommitCopy, Rollback, Shape
  <2>3. stack'[t] = stack[t] /\ shots'[t] = shots[t]
    BY <1>5, <2>1, <2>2, Steps DEF OutsideJobs, SomeGc, Gc, KeptByJobs, Env
  <2> QED BY <1>2, <2>3
<1> QED BY <1>3, <1>4, <1>5

\* env_rollback and env_reset show again exactly what the commit showed, for any
\* number of sessions that commit, share and roll back meanwhile.
THEOREM RollbackRestores == Spec => Restores
<1>1. Init => ShotsInv
  BY DEF Init, ShotsInv
<1>2. Shape /\ ShotsInv /\ [Next]_vars => ShotsInv'
  BY ShotsStep
<1>3. ASSUME Shape, ShotsInv, NEW s \in Sids, Rollback(s)
      PROVE  shots[s] # <<>> /\ ViewOf(s)' = shots[s][Len(stack'[s])]
  <2>1. PICK k \in 1 .. Len(stack[s]) : stack'[s] = SubSeq(stack[s], 1, k)
    BY <1>3 DEF Rollback, FirstUses, Shape
  <2>2. \A j \in 1 .. k : stack[s][j] \in DOMAIN store
    BY <1>3, <2>1, ElementOfSeq DEF Shape
  <2>3. Len(stack'[s]) = k /\ \A j \in 1 .. k : stack'[s][j] = stack[s][j]
    BY <2>1, <2>2, SubSeqProperties
  <2>4. upper'[s] = Empty /\ store' = store
    BY <1>3 DEF Rollback, Wipe, Shape
  <2>5. ViewOf(s)' = Snap(s, k)'
    BY <2>3, <2>4 DEF ViewOf, View, Column, Snap, Prefix, Empty
  <2>6. Snap(s, k)' = Snap(s, k)
    BY <1>3, <2>1, <2>2, <2>3, <2>4, SnapStays DEF Stays
  <2>7. Len(shots[s]) = Len(stack[s])
    BY <1>3 DEF Shape
  <2> QED BY <1>3, <2>1, <2>3, <2>5, <2>6, <2>7 DEF ShotsInv
<1>4. ASSUME Shape, ShotsInv, NEW s \in Sids, Reset(s), stack[s] # <<>>
      PROVE  shots[s] # <<>> /\ ViewOf(s)' = shots[s][Len(stack'[s])]
  <2>1. Len(stack[s]) \in Nat \ {0} /\ Len(shots[s]) = Len(stack[s])
    BY <1>4, EmptySeq DEF Shape
  <2>2. upper'[s] = Empty /\ store' = store /\ stack' = stack
    BY <1>4 DEF Reset, Wipe, Shape
  <2>3. ViewOf(s)' = Snap(s, Len(stack[s]))
    BY <2>2 DEF ViewOf, View, Column, Snap, Prefix, Empty
  <2> QED BY <1>4, <2>1, <2>2, <2>3 DEF ShotsInv
<1>5. Shape /\ ShotsInv /\ [Next]_vars =>
        [\A s \in Sids : stack[s] # <<>> /\ (Rollback(s) \/ Reset(s)) =>
           shots[s] # <<>> /\ ViewOf(s)' = shots[s][Len(stack'[s])]]_vars
  BY <1>3, <1>4
<1> QED BY <1>1, <1>2, <1>5, WellShaped, PTL DEF Spec, Restores

-------------------------------------------------------------------------------
(* Background jobs *)

JobShape == DOMAIN job = Sids /\ \A s \in Sids : job[s] # NoJob => IsSeq(job[s])

\* Every step keeps it.
LEMMA JobShapeStep == ASSUME Shape, JobShape, [Next]_vars PROVE JobShape'
<1>1. CASE job' = job
  BY <1>1 DEF JobShape, IsSeq
<1>2. ASSUME NEW s \in Sids, StartJob(s) PROVE JobShape'
  BY <1>2 DEF StartJob, JobShape, Shape, IsSeq
<1>3. ASSUME NEW s \in Sids, JobEnds(s) PROVE JobShape'
  BY <1>3 DEF JobEnds, JobShape, IsSeq
<1> QED BY <1>1, <1>2, <1>3 DEF Next, vars

\* A job goes on reading the layers it began with, for any number of sessions that
\* commit and collect, until its session rolls back behind them.
THEOREM JobsStandStill == Spec => JobSteady
<1>1. Init => JobShape
  BY DEF Init, JobShape
<1>2. Shape /\ JobShape /\ [Next]_vars => JobShape'
  BY JobShapeStep
<1>3. ASSUME Shape, JobShape, [Next]_vars, NEW s \in Sids,
             job[s] # NoJob, job'[s] = job[s], OnTop(s)
      PROVE  Reads(s)' = Reads(s)
  <2>1. Len(job[s]) \in Nat /\ Len(stack[s]) \in Nat
    BY <1>3, LenProperties DEF JobShape, Shape, IsSeq
  <2>2. ASSUME NEW i \in 1 .. Len(job[s]) PROVE store'[job[s][i]] = store[job[s][i]]
    <3>1. i \in 1 .. Len(stack[s]) /\ job[s][i] = stack[s][i]
      BY <1>3, <2>1 DEF OnTop
    <3> QED BY <1>3, <3>1, StackedStay DEF Stays
  <2> QED BY <1>3, <2>2 DEF Reads
<1>4. Shape /\ JobShape /\ [Next]_vars =>
        [\A s \in Sids : job[s] # NoJob /\ job'[s] = job[s] /\ OnTop(s) /\ OnTop(s)' =>
           Reads(s)' = Reads(s)]_vars
  BY <1>3
<1> QED BY <1>1, <1>2, <1>4, WellShaped, PTL DEF Spec, JobSteady

-------------------------------------------------------------------------------
(* Commits *)

\* A set of positions has a last one.
LEMMA Highest ==
  ASSUME NEW n \in Nat, NEW S \in SUBSET (1 .. n), S # {}
  PROVE  \E i \in S : \A j \in S : j <= i
<1> DEFINE R    == OpToRel(<, Nat)
           rest == {k \in Nat : k <= n /\ n - k \in S}
<1>1. PICK k \in rest : \A j \in rest : <<j, k>> \notin R
  <2>1. PICK i \in S : TRUE
    OBVIOUS
  <2>2. n - i \in rest /\ rest \subseteq Nat
    BY <2>1
  <2> HIDE DEF R, rest
  <2>3. IsWellFoundedOn(R, Nat)
    BY NatLessThanWellFounded DEF R
  <2> QED
    BY <2>2, <2>3, WFMin, Zenon
<1>2. \A j \in rest : ~ (j < k)
  BY <1>1 DEF OpToRel
<1> HIDE DEF R
<1>3. n - k \in S /\ k \in Nat
  BY <1>1
<1>4. ASSUME NEW i \in S PROVE i <= n - k
  <2>1. n - i \in rest
    OBVIOUS
  <2>2. ~ (n - i < k)
    BY <1>2, <2>1
  <2>3. i \in Nat /\ k \in Nat
    BY <1>3
  <2> HIDE DEF rest
  <2> QED
    BY <2>2, <2>3
<1> QED
  BY <1>3, <1>4

\* An entry that is put on top of others is what shows, unless there is nothing.
LEMMA TopOfAppend ==
  ASSUME NEW S, NEW q \in Seq(S), NEW x \in S
  PROVE  Top(Append(q, x)) = IF x.kind = "nothing" THEN Top(q) ELSE x
<1> DEFINE n == Len(q)
           r == Append(q, x)
           with == {i \in DOMAIN q : q[i].kind # "nothing"}
           new  == {i \in DOMAIN r : r[i].kind # "nothing"}
<1>1. /\ n \in Nat /\ DOMAIN q = 1 .. n /\ DOMAIN r = 1 .. n + 1
      /\ \A i \in 1 .. n : r[i] = q[i]
      /\ r[n + 1] = x
  BY AppendProperties, LenProperties
<1> HIDE DEF n, r
<1>2. CASE x.kind = "nothing"
  <2>1. new = with
    BY <1>1, <1>2
  <2>2. \A i \in with : r[i] = q[i]
    BY <1>1
  <2>3. Top(r) = Top(q)
    <3>1. CASE with = {}
      BY <2>1, <3>1 DEF Top
    <3>2. CASE with # {} /\ \E i \in with : \A j \in with : j <= i
      <4>1. (CHOOSE i \in with : \A j \in with : j <= i) \in with
        BY <3>2
      <4> QED
        BY <2>1, <2>2, <3>2, <4>1 DEF Top
    <3>3. with # {} => \E i \in with : \A j \in with : j <= i
      BY <1>1, Highest
    <3> QED
      BY <3>1, <3>2, <3>3
  <2> QED
    BY <1>2, <2>3 DEF r
<1>3. CASE x.kind # "nothing"
  <2>1. n + 1 \in new /\ \A j \in new : j \in Nat /\ j <= n + 1
    BY <1>1, <1>3
  <2>2. (CHOOSE i \in new : \A j \in new : j <= i) = n + 1
    BY <1>1, <2>1
  <2>3. Top(r) = r[n + 1]
    BY <2>1, <2>2 DEF Top
  <2> QED
    BY <1>1, <1>3, <2>3 DEF r
<1> QED
  BY <1>2, <1>3

\* After a commit a path shows what the new layer has, or else what the old ones have.
LEMMA ShownAfterCommit ==
  ASSUME Shape, NEW s \in Sids, CommitCopy(s), NEW f \in Paths
  PROVE  LET e == store'[hash[s]][f] IN
         View(s, f)' = CASE e.kind \in {"file", "link"} -> e
                         [] e.kind = "nothing" -> Below(s, f)
                         [] OTHER -> Nothing
<1> DEFINE e == store'[hash[s]][f]
           C == Column(s, f)
           S == {C[i] : i \in DOMAIN C} \cup {e, Nothing}
           n == Len(stack[s])
<1>1. n \in Nat /\ \A i \in 1 .. n : stack[s][i] \in DOMAIN store
  BY ElementOfSeq, LenProperties DEF Shape
<1>2. C \in Seq(S) /\ Len(C) = n
  <2>1. C \in [1 .. n -> S]
    BY DEF Column
  <2> QED
    BY <1>1, <2>1, SeqDef, LenProperties
<1>3. stack'[s] = Append(stack[s], hash[s]) /\ upper'[s] = Empty
  BY DEF CommitCopy, Wipe, Shape
<1>4. /\ Len(stack'[s]) = n + 1 /\ stack'[s][n + 1] = hash[s]
      /\ \A i \in 1 .. n : stack'[s][i] = stack[s][i]
  <2>1. stack[s] \in Seq(DOMAIN store') /\ hash[s] \in DOMAIN store'
    BY LayersStay, SeqMonotonic DEF Shape
  <2> QED
    BY <1>3, <2>1, AppendProperties
<1>5. Column(s, f)' = Append(C, e)
  <2>1. Column(s, f)' = [i \in 1 .. n + 1 |-> IF i = n + 1 THEN e ELSE C[i]]
    <3>1. \A i \in 1 .. n : store'[stack'[s][i]] = store[stack[s][i]]
      BY <1>1, <1>4, LayersStay
    <3> QED
      BY <1>1, <1>4, <3>1 DEF Column
  <2>2. Append(C, e) = [i \in 1 .. n + 1 |-> IF i = n + 1 THEN e ELSE C[i]]
    <3>1. /\ Append(C, e) \in Seq(S) /\ Len(Append(C, e)) = n + 1
          /\ \A i \in 1 .. n : Append(C, e)[i] = C[i]
          /\ Append(C, e)[n + 1] = e
      BY <1>2, AppendProperties
    <3> HIDE DEF C, e
    <3>2. Append(C, e) \in [1 .. n + 1 -> S]
      BY <3>1, LenProperties
    <3>3. \A i \in 1 .. n + 1 : Append(C, e)[i] = IF i = n + 1 THEN e ELSE C[i]
      BY <1>1, <3>1
    <3> QED
      BY <3>2, <3>3
  <2> QED
    BY <2>1, <2>2
<1>6. View(s, f)' = Shown(Append(Append(C, e), Nothing))
  BY <1>3, <1>5 DEF View, Empty
<1>7. Top(Append(Append(C, e), Nothing)) = Top(Append(C, e))
  <2>1. Append(C, e) \in Seq(S) /\ Nothing \in S /\ Nothing.kind = "nothing"
    BY <1>2, AppendProperties DEF Nothing
  <2> HIDE DEF C, e, S
  <2> QED
    BY <2>1, TopOfAppend
<1>8. Top(Append(C, e)) = IF e.kind = "nothing" THEN Top(C) ELSE e
  <2>1. e \in S
    OBVIOUS
  <2> HIDE DEF C, e, S
  <2> QED
    BY <1>2, <2>1, TopOfAppend
<1>9. Below(s, f) = Shown(C)
  BY DEF Below
<1> HIDE DEF C, e
<1> QED
  BY <1>6, <1>7, <1>8, <1>9 DEF Shown, e

\* Committed files stay as they were to be seen, and no path shows a file of another
\* session, although a commit may land on a layer that another session made.
THEOREM CommitsAreFaithful == Spec => CommitFaithful
<1> DEFINE Faithful(s) == CommitCopy(s) /\ hash[s] = Manifest(upper[s]) /\ Honest(hash[s]) =>
               \A f \in Paths :
                 /\ upper[s][f].kind = "file" => View(s, f)' = View(s, f)
                 /\ IF upper[s][f].kind = "link" THEN View(s, f)'.kind = "link"
                    ELSE View(s, f)' \in {View(s, f), Below(s, f), Nothing}
<1>1. ASSUME Shape, NEW s \in Sids, CommitCopy(s), hash[s] = Manifest(upper[s]),
             Honest(hash[s]), NEW f \in Paths
      PROVE  /\ upper[s][f].kind = "file" => View(s, f)' = View(s, f)
             /\ IF upper[s][f].kind = "link" THEN View(s, f)'.kind = "link"
                ELSE View(s, f)' \in {View(s, f), Below(s, f), Nothing}
  <2> DEFINE e == store'[hash[s]][f]
             u == upper[s][f]
  <2>1. View(s, f)' = CASE e.kind \in {"file", "link"} -> e
                        [] e.kind = "nothing" -> Below(s, f)
                        [] OTHER -> Nothing
    BY <1>1, ShownAfterCommit
  <2>2. u.kind = "file" => View(s, f) = u
    <3> DEFINE C == Column(s, f)
               S == {C[i] : i \in DOMAIN C} \cup {u}
    <3>1. C \in Seq(S)
      <4>1. Len(stack[s]) \in Nat /\ C \in [1 .. Len(stack[s]) -> S]
        BY <1>1, LenProperties DEF Shape, Column
      <4> QED
        BY <4>1, SeqDef
    <3>2. u \in S
      OBVIOUS
    <3> HIDE DEF C, S, u
    <3>3. Top(Append(C, u)) = IF u.kind = "nothing" THEN Top(C) ELSE u
      BY <3>1, <3>2, TopOfAppend
    <3> QED
      BY <3>3 DEF View, Shown, C, u
  <2>3. Hashed(e) = Hashed(u)
    <3>1. CASE hash[s] \in DOMAIN store
      <4>1. e = store[hash[s]][f]
        BY <1>1, <3>1, LayersStay
      <4>2. Manifest(store[hash[s]])[f] = Manifest(upper[s])[f]
        BY <1>1, <3>1 DEF Honest
      <4> QED
        BY <4>1, <4>2 DEF Manifest
    <3>2. CASE hash[s] \notin DOMAIN store
      <4>1. PICK copy \in Copies(upper[s]) : store' = StoreWith(s, copy)
        BY <1>1 DEF CommitCopy
      <4>2. e = copy[f]
        BY <3>2, <4>1 DEF StoreWith
      <4> QED
        BY <4>1, <4>2 DEF Copies, Hashed, Nothing
    <3> QED
      BY <3>1, <3>2
  <2> HIDE DEF e, u
  <2>4. /\ u.kind = "file" \/ e.kind = "file" => e = u
        /\ u.kind = "link" <=> e.kind = "link"
    BY <2>3 DEF Hashed, Nothing
  <2>5. u.kind = "file" => View(s, f)' = View(s, f)
    BY <2>1, <2>2, <2>4
  <2>6. u.kind = "link" => View(s, f)'.kind = "link"
    BY <2>1, <2>4
  <2>7. u.kind # "link" => View(s, f)' \in {View(s, f), Below(s, f), Nothing}
    BY <2>1, <2>2, <2>4
  <2> QED
    BY <2>5, <2>6, <2>7 DEF u
<1>2. Shape /\ [Next]_vars => [\A s \in Sids : Faithful(s)]_vars
  BY <1>1
<1> QED
  BY <1>2, WellShaped, PTL DEF Spec, CommitFaithful
===============================================================================
