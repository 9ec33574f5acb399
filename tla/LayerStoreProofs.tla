--------------------------- MODULE LayerStoreProofs ---------------------------
(***************************************************************************)
(* Theorems about LayerStore for every number of servers, sessions and     *)
(* contents.  Types and the lock are kept through every choice of          *)
(* environment events.  The counts of the index are exact, stacked layers  *)
(* exist, and LayerStore implements LayerRefs as long as no server is      *)
(* killed or signalled and servers start and stop one after the other.     *)
(* One server keeps what it has of its session, and its next start removes *)
(* the rest, although it may be stopped, signalled and killed at any step, *)
(* and copies and rmtrees may raise.                                       *)
(***************************************************************************)
EXTENDS LayerStore, FiniteSetTheorems, TLAPS

-------------------------------------------------------------------------------
(* The index operators *)

\* An index is a function from some commit ids to entries.  The provers work with
\* the set of them, which TLC could not enumerate.
Index == UNION {[D -> Entry] : D \in SUBSET Contents}

LEMMA IndexIff ==
  ASSUME NEW idx
  PROVE  idx \in Index <=> DOMAIN idx \subseteq Contents /\ idx \in [DOMAIN idx -> Entry]
  BY DEF Index

\* The places a stack uses a layer at are finitely many.
LEMMA UsesFinite ==
  ASSUME NEW stk \in Seq(Contents), NEW k \in Nat, NEW c
  PROVE  /\ IsFiniteSet(Uses(stk, k, c))
         /\ Cardinality(Uses(stk, k, c)) \in Nat
<1>1. IsFiniteSet(k + 1 .. Len(stk))
  BY FS_Interval
<1>2. Uses(stk, k, c) \in SUBSET (k + 1 .. Len(stk))
  BY DEF Uses
<1>3. IsFiniteSet(Uses(stk, k, c))
  BY <1>1, <1>2, FS_Subset
<1> QED
  BY <1>3, FS_CardinalityType

\* Counting a commit leaves an index.
LEMMA WithCommitIsIndex ==
  ASSUME NEW idx \in Index, NEW c \in Contents, NEW stk \in Seq(Contents)
  PROVE  IndexWithCommit(idx, c, stk) \in Index
<1>1. DOMAIN idx \subseteq Contents /\ idx \in [DOMAIN idx -> Entry]
  BY IndexIff
<1>2. stk # <<>> => stk[Len(stk)] \in Contents
  OBVIOUS
<1> DEFINE adopts == stk # <<>> /\ (c \in DOMAIN idx => idx[c].parent = NoContent)
           entry  == [refcount_sessions |->
                        IF c \in DOMAIN idx THEN idx[c].refcount_sessions + 1 ELSE 1,
                      refcount_layers |->
                        IF c \in DOMAIN idx THEN idx[c].refcount_layers ELSE 0,
                      parent |-> IF adopts THEN stk[Len(stk)]
                                 ELSE IF c \in DOMAIN idx THEN idx[c].parent
                                 ELSE NoContent]
           stored == [d \in DOMAIN idx \cup {c} |-> IF d = c THEN entry ELSE idx[d]]
<1>3. entry \in Entry
  BY <1>1, <1>2 DEF Entry
<1>4. stored \in [DOMAIN idx \cup {c} -> Entry]
  BY <1>1, <1>3
<1>5. \A e \in Entry : [e EXCEPT !.refcount_layers = @ + 1] \in Entry
  BY DEF Entry
<1> HIDE DEF stored, adopts
<1>6. IndexWithCommit(idx, c, stk) =
        [d \in DOMAIN idx \cup {c} |->
           IF adopts /\ d = stk[Len(stk)]
           THEN [stored[d] EXCEPT !.refcount_layers = @ + 1]
           ELSE stored[d]]
  BY DEF IndexWithCommit, stored, adopts
<1>7. IndexWithCommit(idx, c, stk) \in [DOMAIN idx \cup {c} -> Entry]
  BY <1>4, <1>5, <1>6
<1> QED
  BY <1>1, <1>7 DEF Index

\* Giving up places of a stack leaves an index with the same commit ids.
LEMMA WithoutIsIndex ==
  ASSUME NEW idx \in Index, NEW stk \in Seq(Contents), NEW k \in Nat
  PROVE  IndexWithout(idx, stk, k) \in Index
<1>1. DOMAIN idx \subseteq Contents /\ idx \in [DOMAIN idx -> Entry]
  BY IndexIff
<1>2. \A e \in Entry, n \in Nat :
        [e EXCEPT !.refcount_sessions = Minus(@, n)] \in Entry
  BY DEF Entry, Minus
<1>3. \A c \in DOMAIN idx : Cardinality(Uses(stk, k, c)) \in Nat
  BY UsesFinite
<1>4. IndexWithout(idx, stk, k) \in [DOMAIN idx -> Entry]
  BY <1>1, <1>2, <1>3 DEF IndexWithout
<1> QED
  BY <1>1, <1>4 DEF Index

\* Popping an entry leaves an index.
LEMMA PoppedIsIndex ==
  ASSUME NEW idx \in Index, NEW c
  PROVE  IndexPopped(idx, c) \in Index
<1>1. DOMAIN idx \subseteq Contents /\ idx \in [DOMAIN idx -> Entry]
  BY IndexIff
<1>2. \A d \in DOMAIN idx :
        [idx[d] EXCEPT !.refcount_layers = Minus(@, 1)] \in Entry
  BY <1>1 DEF Entry, Minus
<1>3. IndexPopped(idx, c) \in [DOMAIN idx \ {c} -> Entry]
  BY <1>1, <1>2 DEF IndexPopped
<1> QED
  BY <1>1, <1>3 DEF Index

\* The empty index is one.
LEMMA EmptyIsIndex == EmptyIndex \in Index
  BY DEF Index, EmptyIndex

\* A stack that holds a commit id has a first place where it does.
LEMMA FirstUseExists ==
  ASSUME NEW stk \in Seq(Contents), NEW i \in 1 .. Len(stk)
  PROVE  /\ FirstUse(stk, stk[i]) \in 1 .. Len(stk)
         /\ stk[FirstUse(stk, stk[i])] = stk[i]
<1> DEFINE T == {j \in 1 .. Len(stk) : stk[j] = stk[i]}
<1>1. T \subseteq Nat /\ T # {}
  OBVIOUS
<1>2. PICK x \in T : \A y \in T : ~ (<<y, x>> \in OpToRel(<, Nat))
  BY <1>1, NatLessThanWellFounded, WFMin, Zenon
<1>3. \A y \in T : ~ (y < x)
  BY <1>1, <1>2 DEF OpToRel
<1>4. \A j \in 1 .. x - 1 : stk[j] # stk[i]
  BY <1>3
<1> QED
  BY <1>4 DEF FirstUse

\* What meta.json may hold.
LEMMA MetaValues ==
  /\ NoMeta \in Meta /\ TornMeta \in Meta
  /\ \A stk \in Seq(Contents) : WholeMeta(stk) \in Meta
  BY DEF NoMeta, TornMeta, WholeMeta, Meta

\* Both ends of a stack are stacks.
LEMMA PartsOfStacks ==
  ASSUME NEW stk \in Seq(Contents), NEW n \in Nat
  PROVE  /\ Bottom(stk, n) \in Seq(Contents)
         /\ SubSeq(stk, n + 1, Len(stk)) \in Seq(Contents)
  BY DEF Bottom

-------------------------------------------------------------------------------
(* Types, the lock and lost updates *)

\* TypeOK with the set of indexes.
TypeInv == FieldsOK /\ index \in Index /\ mem \in [Procs -> Index]

\* The type invariant with the sets written as the lemmas above need them.
LEMMA TypeInvIff == TypeInv <=> TypeOK
<1>1. \A idx : idx \in Index <=> IsIndex(idx)
  BY DEF Index, IsIndex
<1>2. mem \in [Procs -> Index] <=>
        mem = [p \in Procs |-> mem[p]] /\ \A p \in Procs : mem[p] \in Index
  OBVIOUS
<1> QED
  BY <1>1, <1>2 DEF TypeInv, TypeOK, IndexesOK

\* The labels at which a process is inside its critical section.
Critical == {"commit.copy", "commit.save", "rollback.save", "gc.scan", "gc.pass",
             "gc.remove", "gc.rmtree", "destroy.save"}

CriticalHoldsLock == \A p \in Procs : pc[p] \in Critical => lock = p

Stacks(stk, c) == \E i \in 1 .. Len(stk) : c = stk[i]

\* What a commit or a rollback works on.
ArgOK ==
  \A p \in Procs :
    /\ pc[p] \in {"commit.lock", "commit.copy", "commit.save"} => arg[p] \in Contents
    /\ pc[p] \in {"rollback.lock", "rollback.save"} =>
         Stacks(stack[p], arg[p])

\* The inductive invariant: NoLostUpdate is inductive once the process that is
\* about to save the index is known to hold the lock.
LockInv == TypeInv /\ ArgOK /\ CriticalHoldsLock /\ NoLostUpdate

\* Every step keeps the types.
LEMMA TypeStep ==
  ASSUME LockInv, Next
  PROVE  TypeInv'
<1> PICK p \in Procs : Startup(p) \/ Commit(p) \/ Rollback(p) \/ Gc(p) \/ Destroy(p) \/ End(p)
  BY DEF Next
<1> USE SentinelAssumption DEF LockInv, TypeInv, FieldsOK, Labels, Modes, Goto
<1>1. ASSUME Start(p) PROVE TypeInv'
  BY <1>1 DEF Start, store, disk, gcvars, sweeping, Listing
<1>2. ASSUME SweepDone(p) PROVE TypeInv'
  BY <1>2 DEF SweepDone, store, disk, gcvars, sweeping
<1>3. ASSUME CreateDirs(p) PROVE TypeInv'
  BY <1>3 DEF CreateDirs, store, gcvars, sweeping
<1>4. ASSUME CreatePid(p) PROVE TypeInv'
  BY <1>4 DEF CreatePid, store, session, gcvars, sweeping
<1>5. ASSUME PersistOpen(p) PROVE TypeInv'
  <2>1. meta' \in [Sids -> Meta]
    BY <1>5, MetaValues DEF PersistOpen
  <2> QED
    BY <1>5, <2>1 DEF PersistOpen, store, session, gcvars, sweeping
<1>6. ASSUME PersistDump(p) PROVE TypeInv'
  <2>1. meta' \in [Sids -> Meta] /\ dir' \in [Sids -> {"unused", "there", "gone"}]
    BY <1>6, MetaValues DEF PersistDump
  <2> QED
    BY <1>6, <2>1 DEF PersistDump, store, session, gcvars, sweeping
<1>7. ASSUME RootGone(p) PROVE TypeInv'
  <2>1. CASE mode[p] = "creating"
    <3>1. Listing \subseteq Sids
      BY DEF Listing
    <3>2. todo' = [todo EXCEPT ![p] = Listing] /\ mode' = [mode EXCEPT ![p] = "exiting"]
      BY <1>7, <2>1 DEF RootGone, BeginShutdown
    <3> QED
      BY <1>7, <2>1, <3>1, <3>2 DEF RootGone, BeginShutdown, store, disk, gcvars, sweeping
  <2>2. CASE mode[p] # "creating"
    BY <1>7, <2>2 DEF RootGone, store, disk, gcvars, sweeping
  <2> QED
    BY <2>1, <2>2
<1>8. ASSUME CommitBegin(p) PROVE TypeInv'
  BY <1>8 DEF CommitBegin, store, disk, session, gcvars, sweeping
<1>9. ASSUME CommitDedupe(p) PROVE TypeInv'
  BY <1>9 DEF CommitDedupe, disk, session, gcvars, sweeping, Acquire, Load
<1>10. ASSUME CommitMakeDir(p) PROVE TypeInv'
  BY <1>10 DEF CommitMakeDir, disk, session, gcvars, sweeping, Acquire
<1>11. ASSUME CommitCopied(p) PROVE TypeInv'
  <2>1. layer' \in [Contents -> {"absent", "partial", "whole"}]
    BY <1>11 DEF CommitCopied
  <2> QED
    BY <1>11, <2>1 DEF CommitCopied, disk, session, gcvars, sweeping, Load
<1>12. ASSUME CommitCopyFails(p) PROVE TypeInv'
  BY <1>12 DEF CommitCopyFails, disk, session, gcvars, sweeping, Release, Event
<1>13. ASSUME CommitSave(p) PROVE TypeInv'
  <2>1. arg[p] \in Contents
    BY <1>13 DEF CommitSave, ArgOK
  <2>2. index' \in Index /\ mem' \in [Procs -> Index]
    BY <1>13, <2>1, WithCommitIsIndex, EmptyIsIndex DEF CommitSave, Forget
  <2>3. \A stk \in Seq(Contents) : Append(stk, arg[p]) \in Seq(Contents)
    BY <2>1
  <2>4. stack' \in [Procs -> Seq(Contents)] /\ held' \in [Sids -> Seq(Contents)]
    BY <1>13, <2>3 DEF CommitSave
  <2> QED
    BY <1>13, <2>2, <2>4 DEF CommitSave, disk, gcvars, sweeping, Release
<1>14. ASSUME RollbackBegin(p) PROVE TypeInv'
  BY <1>14 DEF RollbackBegin, store, disk, session, gcvars, sweeping
<1>15. ASSUME RollbackLock(p) PROVE TypeInv'
  BY <1>15 DEF RollbackLock, disk, session, gcvars, sweeping, Acquire, Load
<1>16. ASSUME RollbackSave(p) PROVE TypeInv'
  <2> DEFINE k == FirstUse(stack[p], arg[p])
  <2>1. PICK i \in 1 .. Len(stack[p]) : arg[p] = stack[p][i]
    BY <1>16 DEF RollbackSave, ArgOK, Stacks
  <2>2. k \in Nat
    BY <2>1, FirstUseExists
  <2>3. index' \in Index /\ mem' \in [Procs -> Index]
    BY <1>16, <2>2, WithoutIsIndex, EmptyIsIndex DEF RollbackSave, Forget
  <2>4. stack' \in [Procs -> Seq(Contents)] /\ held' \in [Sids -> Seq(Contents)]
    BY <1>16, <2>2, PartsOfStacks DEF RollbackSave
  <2> QED
    BY <1>16, <2>3, <2>4 DEF RollbackSave, gcvars, sweeping, Release
<1>17. ASSUME GcBegin(p) PROVE TypeInv'
  BY <1>17 DEF GcBegin, store, disk, session, gcvars, sweeping
<1>18. ASSUME GcLock(p) PROVE TypeInv'
  BY <1>18 DEF GcLock, disk, session, gcvars, sweeping, Acquire, Load, Listing
<1>19. ASSUME GcScan(p) PROVE TypeInv'
  BY <1>19 DEF GcScan, store, disk, session, sweeping, Listed, Meta
<1>20. ASSUME GcScanRaises(p) PROVE TypeInv'
  BY <1>20, EmptyIsIndex DEF GcScanRaises, disk, session, sweeping, GcLeave, Release,
     Forget
<1>21. ASSUME GcScanned(p) PROVE TypeInv'
  BY <1>21 DEF GcScanned, store, disk, session, gcvars, sweeping
<1>22. ASSUME GcPass(p) PROVE TypeInv'
  <2>1. Unreferenced(mem[p], live[p]) \subseteq Contents
    BY IndexIff DEF Unreferenced
  <2> QED
    BY <1>22, <2>1 DEF GcPass, store, disk, session, sweeping
<1>23. ASSUME GcPop(p) PROVE TypeInv'
  <2>1. mem' \in [Procs -> Index]
    BY <1>23, PoppedIsIndex DEF GcPop
  <2>2. /\ layer' \in [Contents -> {"absent", "partial", "whole"}]
        /\ arg' \in [Procs -> Contents \cup {NoContent}]
        /\ batch' \in [Procs -> SUBSET Contents]
    BY <1>23 DEF GcPop
  <2> QED
    BY <1>23, <2>1, <2>2 DEF GcPop, disk, session, sweeping
<1>24. ASSUME GcRemoved(p) PROVE TypeInv'
  BY <1>24 DEF GcRemoved, disk, session, gcvars, sweeping
<1>25. ASSUME GcRmtreeRaises(p) PROVE TypeInv'
  BY <1>25, EmptyIsIndex DEF GcRmtreeRaises, disk, session, sweeping, GcLeave, Release,
     Forget, Event
<1>26. ASSUME GcSave(p) PROVE TypeInv'
  BY <1>26, EmptyIsIndex DEF GcSave, disk, session, sweeping, GcLeave, Release, Forget
<1>27. ASSUME VisitSkip(p) PROVE TypeInv'
  BY <1>27 DEF VisitSkip, store, disk, session, gcvars, sweeping
<1>28. ASSUME VisitCondemn(p) PROVE TypeInv'
  <2>1. PICK s \in todo[p] :
           /\ todo' = [todo EXCEPT ![p] = @ \ {s}]
           /\ victim' = [victim EXCEPT ![p] = s]
           /\ vstack' = [vstack EXCEPT ![p] = meta[s].stack]
    BY <1>28 DEF VisitCondemn
  <2>2. meta[s].stack \in Seq(Contents)
    BY <2>1 DEF Meta
  <2> QED
    BY <1>28, <2>1, <2>2 DEF VisitCondemn, store, disk, session, gcvars
<1>29. ASSUME DestroyLock(p) PROVE TypeInv'
  BY <1>29 DEF DestroyLock, disk, session, gcvars, sweeping, Acquire, Load
<1>30. ASSUME DestroySave(p) PROVE TypeInv'
  <2>1. index' \in Index /\ mem' \in [Procs -> Index]
    BY <1>30, WithoutIsIndex, EmptyIsIndex DEF DestroySave, Forget
  <2>2. Len(vstack[p]) \in Nat
    OBVIOUS
  <2>3. held' \in [Sids -> Seq(Contents)]
    BY <1>30, <2>2, PartsOfStacks DEF DestroySave
  <2>4. vstack' \in [Procs -> Seq(Contents)] /\ pc' \in [Procs -> Labels]
    BY <1>30 DEF DestroySave
  <2> QED
    BY <1>30, <2>1, <2>3, <2>4 DEF DestroySave, disk, session, gcvars, Release
<1>31. ASSUME RmtreeList(p) PROVE TypeInv'
  BY <1>31 DEF RmtreeList, store, disk, session, gcvars
<1>32. ASSUME RmtreeUnlink(p) PROVE TypeInv'
  <2>1. PICK f \in left[p] :
           /\ left' = [left EXCEPT ![p] = @ \ {f}]
           /\ pid' = IF f = "pid" THEN [pid EXCEPT ![victim[p]] = NoProc] ELSE pid
           /\ meta' = IF f = "meta" THEN [meta EXCEPT ![victim[p]] = NoMeta] ELSE meta
    BY <1>32 DEF RmtreeUnlink
  <2>2. meta' \in [Sids -> Meta]
    BY <2>1, MetaValues
  <2>3. pid' \in [Sids -> Procs \cup {NoProc, DeadProc}]
    BY <2>1
  <2> QED
    BY <1>32, <2>1, <2>2, <2>3 DEF RmtreeUnlink, store, session, gcvars
<1>33. ASSUME RmtreeEnd(p) PROVE TypeInv'
  BY <1>33 DEF RmtreeEnd, store, session, gcvars
<1>34. ASSUME Exit(p) PROVE TypeInv'
  BY <1>34 DEF Exit, store, disk, gcvars, sweeping, BeginShutdown, Event, Listing
<1>35. ASSUME Sigterm(p) PROVE TypeInv'
  BY <1>35 DEF Sigterm, store, disk, gcvars, sweeping, BeginShutdown, Event, Listing
<1>36. ASSUME SigtermDone(p) PROVE TypeInv'
  BY <1>36 DEF SigtermDone, disk, gcvars, sweeping, BeginShutdown, Listing
<1>37. ASSUME ExitDone(p) PROVE TypeInv'
  <2>1. pid' \in [Sids -> Procs \cup {NoProc, DeadProc}]
    BY <1>37 DEF ExitDone, ProcessEnds
  <2> QED
    BY <1>37, <2>1, EmptyIsIndex DEF ExitDone, ProcessEnds, Forget
<1>38. ASSUME Kill(p) PROVE TypeInv'
  <2>1. pid' \in [Sids -> Procs \cup {NoProc, DeadProc}]
    BY <1>38 DEF Kill, ProcessEnds
  <2> QED
    BY <1>38, <2>1, EmptyIsIndex DEF Kill, ProcessEnds, Forget, Event
<1> QED
  BY <1>1, <1>2, <1>3, <1>4, <1>5, <1>6, <1>7, <1>8, <1>9, <1>10, <1>11, <1>12, <1>13,
     <1>14, <1>15, <1>16, <1>17, <1>18, <1>19, <1>20, <1>21, <1>22, <1>23, <1>24,
     <1>25, <1>26, <1>27, <1>28, <1>29, <1>30, <1>31, <1>32, <1>33, <1>34, <1>35,
     <1>36, <1>37, <1>38 DEF Startup, Commit, Rollback, Gc, Destroy, End

\* Every step keeps the lock and what is done under it.
LEMMA LockStep ==
  ASSUME LockInv, Next
  PROVE  (ArgOK /\ CriticalHoldsLock /\ NoLostUpdate)'
<1> PICK p \in Procs : Startup(p) \/ Commit(p) \/ Rollback(p) \/ Gc(p) \/ Destroy(p) \/ End(p)
  BY DEF Next
<1> USE SentinelAssumption DEF LockInv, TypeInv, FieldsOK, ArgOK, CriticalHoldsLock,
    Critical, NoLostUpdate, Goto, store
<1>1. ASSUME Start(p) PROVE (ArgOK /\ CriticalHoldsLock /\ NoLostUpdate)'
  BY <1>1 DEF Start, store, disk, gcvars, sweeping, Listing
<1>2. ASSUME SweepDone(p) PROVE (ArgOK /\ CriticalHoldsLock /\ NoLostUpdate)'
  BY <1>2 DEF SweepDone, store, disk, gcvars, sweeping
<1>3. ASSUME CreateDirs(p) PROVE (ArgOK /\ CriticalHoldsLock /\ NoLostUpdate)'
  BY <1>3 DEF CreateDirs, store, gcvars, sweeping
<1>4. ASSUME CreatePid(p) PROVE (ArgOK /\ CriticalHoldsLock /\ NoLostUpdate)'
  BY <1>4 DEF CreatePid, store, session, gcvars, sweeping
<1>5. ASSUME PersistOpen(p) PROVE (ArgOK /\ CriticalHoldsLock /\ NoLostUpdate)'
  BY <1>5 DEF PersistOpen, store, session, gcvars, sweeping, TornMeta, Meta
<1>6. ASSUME PersistDump(p) PROVE (ArgOK /\ CriticalHoldsLock /\ NoLostUpdate)'
  BY <1>6 DEF PersistDump, store, gcvars, sweeping, WholeMeta, Meta
<1>7. ASSUME RootGone(p) PROVE (ArgOK /\ CriticalHoldsLock /\ NoLostUpdate)'
  <2>1. lock' = lock /\ index' = index /\ arg' = arg /\ stack' = stack /\ mem' = mem
    BY <1>7 DEF RootGone
  <2>2. \A q \in Procs : pc'[q] = pc[q] \/ pc'[q] = "visit" \/ pc'[q] = "idle"
    BY <1>7 DEF RootGone, BeginShutdown
  <2>3. ArgOK'
    BY <2>1, <2>2
  <2>4. (CriticalHoldsLock /\ NoLostUpdate)'
    BY <2>1, <2>2
  <2> QED
    BY <2>3, <2>4
<1>8. ASSUME CommitBegin(p) PROVE (ArgOK /\ CriticalHoldsLock /\ NoLostUpdate)'
  BY <1>8 DEF CommitBegin, store, disk, session, gcvars, sweeping
<1>9. ASSUME CommitDedupe(p) PROVE (ArgOK /\ CriticalHoldsLock /\ NoLostUpdate)'
  BY <1>9 DEF CommitDedupe, disk, session, gcvars, sweeping, Acquire, Load
<1>10. ASSUME CommitMakeDir(p) PROVE (ArgOK /\ CriticalHoldsLock /\ NoLostUpdate)'
  BY <1>10 DEF CommitMakeDir, disk, session, gcvars, sweeping, Acquire
<1>11. ASSUME CommitCopied(p) PROVE (ArgOK /\ CriticalHoldsLock /\ NoLostUpdate)'
  <2>1. ArgOK'
    BY <1>11 DEF CommitCopied, session
  <2>2. (CriticalHoldsLock /\ NoLostUpdate)'
    BY <1>11 DEF CommitCopied, Load
  <2> QED
    BY <2>1, <2>2
<1>12. ASSUME CommitCopyFails(p) PROVE (ArgOK /\ CriticalHoldsLock /\ NoLostUpdate)'
  BY <1>12 DEF CommitCopyFails, disk, session, gcvars, sweeping, Release, Event
<1>13. ASSUME CommitSave(p) PROVE (ArgOK /\ CriticalHoldsLock /\ NoLostUpdate)'
  BY <1>13 DEF CommitSave, disk, gcvars, sweeping, Release, Forget, ArgOK
<1>14. ASSUME RollbackBegin(p) PROVE (ArgOK /\ CriticalHoldsLock /\ NoLostUpdate)'
  BY <1>14 DEF RollbackBegin, store, disk, session, gcvars, sweeping, Stacks
<1>15. ASSUME RollbackLock(p) PROVE (ArgOK /\ CriticalHoldsLock /\ NoLostUpdate)'
  BY <1>15 DEF RollbackLock, disk, session, gcvars, sweeping, Acquire, Load
<1>16. ASSUME RollbackSave(p) PROVE (ArgOK /\ CriticalHoldsLock /\ NoLostUpdate)'
  BY <1>16 DEF RollbackSave, gcvars, sweeping, Release, Forget
<1>17. ASSUME GcBegin(p) PROVE (ArgOK /\ CriticalHoldsLock /\ NoLostUpdate)'
  BY <1>17 DEF GcBegin, store, disk, session, gcvars, sweeping
<1>18. ASSUME GcLock(p) PROVE (ArgOK /\ CriticalHoldsLock /\ NoLostUpdate)'
  BY <1>18 DEF GcLock, disk, session, gcvars, sweeping, Acquire, Load, Listing
<1>19. ASSUME GcScan(p) PROVE (ArgOK /\ CriticalHoldsLock /\ NoLostUpdate)'
  <2>1. UNCHANGED <<pc, lock, arg, stack, mem, index>>
    BY <1>19 DEF GcScan, store, session
  <2> QED
    BY <2>1
<1>20. ASSUME GcScanRaises(p) PROVE (ArgOK /\ CriticalHoldsLock /\ NoLostUpdate)'
  BY <1>20 DEF GcScanRaises, disk, session, sweeping, GcLeave, Release, Forget
<1>21. ASSUME GcScanned(p) PROVE (ArgOK /\ CriticalHoldsLock /\ NoLostUpdate)'
  BY <1>21 DEF GcScanned, store, disk, session, gcvars, sweeping
<1>22. ASSUME GcPass(p) PROVE (ArgOK /\ CriticalHoldsLock /\ NoLostUpdate)'
  BY <1>22 DEF GcPass, store, disk, session, sweeping, Unreferenced
<1>23. ASSUME GcPop(p) PROVE (ArgOK /\ CriticalHoldsLock /\ NoLostUpdate)'
  BY <1>23 DEF GcPop, disk, session, sweeping
<1>24. ASSUME GcRemoved(p) PROVE (ArgOK /\ CriticalHoldsLock /\ NoLostUpdate)'
  BY <1>24 DEF GcRemoved, disk, session, gcvars, sweeping
<1>25. ASSUME GcRmtreeRaises(p) PROVE (ArgOK /\ CriticalHoldsLock /\ NoLostUpdate)'
  BY <1>25 DEF GcRmtreeRaises, disk, session, sweeping, GcLeave, Release, Forget, Event
<1>26. ASSUME GcSave(p) PROVE (ArgOK /\ CriticalHoldsLock /\ NoLostUpdate)'
  BY <1>26 DEF GcSave, disk, session, sweeping, GcLeave, Release, Forget
<1>27. ASSUME VisitSkip(p) PROVE (ArgOK /\ CriticalHoldsLock /\ NoLostUpdate)'
  BY <1>27 DEF VisitSkip, store, disk, session, gcvars, sweeping
<1>28. ASSUME VisitCondemn(p) PROVE (ArgOK /\ CriticalHoldsLock /\ NoLostUpdate)'
  BY <1>28 DEF VisitCondemn, store, disk, session, gcvars
<1>29. ASSUME DestroyLock(p) PROVE (ArgOK /\ CriticalHoldsLock /\ NoLostUpdate)'
  BY <1>29 DEF DestroyLock, disk, session, gcvars, sweeping, Acquire, Load
<1>30. ASSUME DestroySave(p) PROVE (ArgOK /\ CriticalHoldsLock /\ NoLostUpdate)'
  BY <1>30 DEF DestroySave, disk, session, gcvars, Release, Forget
<1>31. ASSUME RmtreeList(p) PROVE (ArgOK /\ CriticalHoldsLock /\ NoLostUpdate)'
  BY <1>31 DEF RmtreeList, store, disk, session, gcvars
<1>32. ASSUME RmtreeUnlink(p) PROVE (ArgOK /\ CriticalHoldsLock /\ NoLostUpdate)'
  BY <1>32 DEF RmtreeUnlink, store, session, gcvars, NoMeta, Meta
<1>33. ASSUME RmtreeEnd(p) PROVE (ArgOK /\ CriticalHoldsLock /\ NoLostUpdate)'
  BY <1>33 DEF RmtreeEnd, store, session, gcvars
<1>34. ASSUME Exit(p) PROVE (ArgOK /\ CriticalHoldsLock /\ NoLostUpdate)'
  BY <1>34 DEF Exit, store, disk, gcvars, sweeping, BeginShutdown, Event, Listing
<1>35. ASSUME Sigterm(p) PROVE (ArgOK /\ CriticalHoldsLock /\ NoLostUpdate)'
  BY <1>35 DEF Sigterm, store, disk, gcvars, sweeping, BeginShutdown, Event, Listing
<1>36. ASSUME SigtermDone(p) PROVE (ArgOK /\ CriticalHoldsLock /\ NoLostUpdate)'
  BY <1>36 DEF SigtermDone, disk, gcvars, sweeping, BeginShutdown, Listing
<1>37. ASSUME ExitDone(p) PROVE (ArgOK /\ CriticalHoldsLock /\ NoLostUpdate)'
  BY <1>37 DEF ExitDone, ProcessEnds, Forget
<1>38. ASSUME Kill(p) PROVE (ArgOK /\ CriticalHoldsLock /\ NoLostUpdate)'
  BY <1>38 DEF Kill, ProcessEnds, Forget, Event
<1> QED
  BY <1>1, <1>2, <1>3, <1>4, <1>5, <1>6, <1>7, <1>8, <1>9, <1>10, <1>11, <1>12, <1>13,
     <1>14, <1>15, <1>16, <1>17, <1>18, <1>19, <1>20, <1>21, <1>22, <1>23, <1>24,
     <1>25, <1>26, <1>27, <1>28, <1>29, <1>30, <1>31, <1>32, <1>33, <1>34, <1>35,
     <1>36, <1>37, <1>38 DEF Startup, Commit, Rollback, Gc, Destroy, End

\* So the invariant is inductive.
LEMMA LockInvInductive ==
  /\ Init => LockInv
  /\ LockInv /\ [Next]_vars => LockInv'
<1>1. Init => LockInv
  BY EmptyIsIndex, MetaValues, BoundAssumption
     DEF Init, LockInv, TypeInv, FieldsOK, ArgOK, CriticalHoldsLock, NoLostUpdate,
         Critical, Labels, Modes
<1>2. LockInv /\ Next => LockInv'
  BY TypeStep, LockStep DEF LockInv
<1>3. LockInv /\ UNCHANGED vars => LockInv'
  BY DEF LockInv, TypeInv, FieldsOK, ArgOK, CriticalHoldsLock, NoLostUpdate, vars
<1> QED
  BY <1>1, <1>2, <1>3

\* Every value stays in its type whatever the servers do, and whatever is killed,
\* signalled, or fails.
THEOREM TypeCorrect == Spec => []TypeOK
<1>1. LockInv => TypeOK
  BY TypeInvIff DEF LockInv
<1> QED
  BY <1>1, LockInvInductive, PTL DEF Spec

\* commit, rollback and destroy write back an index computed from the one on disk:
\* the flock of _index_lock loses no update, for any number of servers that are
\* killed, signalled and restarted at any step.
THEOREM NothingLost == Spec => []NoLostUpdate
<1>1. LockInv => NoLostUpdate
  BY DEF LockInv
<1> QED
  BY <1>1, LockInvInductive, PTL DEF Spec

-------------------------------------------------------------------------------
(* Orderly environments *)

\* Servers are stopped by their clients alone, and copies and rmtrees may raise.
Orderly == Events \subseteq {"exit", "io"} /\ ~Overlap

-------------------------------------------------------------------------------
(* Sessions: who uses them, and what their files say *)

\* Where the main thread may be while a directory is swept, a session is created,
\* and tools run.
Sweeping  == {"visit", "destroy.lock", "destroy.save", "rmtree", "unlink"}
Creating  == {"create.dirs", "create.pid", "persist", "dump"}
Committing == {"commit.lock", "commit.copy", "commit.save"}
Collecting == {"gc.scan", "gc.pass", "gc.remove", "gc.rmtree"}
Working   == Committing \cup Collecting
             \cup {"idle", "rollback.lock", "rollback.save", "gc.lock"}

\* The program counter goes with the mode, and no handler interrupts anything.
Phases ==
  \A p \in Procs :
    /\ mode[p] = "down" => pc[p] = "down"
    /\ pc[p] = "down" => mode[p] = "down"
    /\ mode[p] \in {"startup", "exiting"} => pc[p] \in Sweeping
    /\ mode[p] = "creating" => pc[p] \in Creating
    /\ mode[p] = "serving" => pc[p] \in Working \cup {"persist", "dump"}
    /\ mode[p] # "sigterm"

Busy(p) == mode[p] \in {"startup", "creating", "exiting"}

\* One server starts or stops at a time.
Alone == \A p, q \in Procs : Busy(p) /\ Busy(q) => p = q

\* The server has a session.
HasSession(p) == mode[p] = "serving" \/ (mode[p] = "creating" /\ pc[p] # "create.dirs")

\* The session of a server is its own: the directory is there, the pid file names
\* it, the index counts what the server believes, and meta.json is torn only while
\* it is being written.
OwnSession(p) ==
  LET s == sess[p] IN
  /\ s \in Sids
  /\ dir[s] = "there"
  /\ pid[s] = (IF pc[p] = "create.pid" THEN NoProc ELSE p)
  /\ held[s] = stack[p]
  /\ pc[p] = "dump" <=> meta[s].kind = "torn"
  /\ pc[p] \in Committing => Len(stack[p]) < MaxDepth

Owned == \A p \in Procs : HasSession(p) => OwnSession(p)

\* A server that has no session yet stacks nothing.
Fresh == \A p \in Procs :
           mode[p] \in {"down", "startup"} \/ pc[p] = "create.dirs" => stack[p] = <<>>

\* An id that was never used has nothing to its name; one that is listed was.
Unused ==
  /\ \A s \in Sids : dir[s] = "unused" =>
       pid[s] = NoProc /\ meta[s] = NoMeta /\ held[s] = <<>>
  /\ \A p \in Procs : \A s \in todo[p] : dir[s] # "unused"

Short == \A s \in Sids : Len(held[s]) <= MaxDepth

Persisting(s) == \E p \in Procs : HasSession(p) /\ sess[p] = s /\ pc[p] = "persist"
Dying(s) == \E p \in Procs : victim[p] = s /\ pc[p] \in {"rmtree", "unlink"}

\* A meta.json says what its session is counted for, but while its server is about
\* to write it, or while its directory is being removed.
Recorded ==
  \A s \in Sids :
    /\ meta[s].kind = "absent" => meta[s] = NoMeta
    /\ meta[s].kind = "torn" \/ held[s] = meta[s].stack \/ Persisting(s) \/ Dying(s)

\* A session that is being destroyed is in use by nobody.  It is counted for the
\* stack that destroy read until the index is saved, and for nothing after that.
VictimOK(p) ==
  LET s == victim[p] IN
  /\ s \in Sids
  /\ dir[s] # "unused"
  /\ \A q \in Procs : HasSession(q) => sess[q] # s
  /\ pc[p] \in {"destroy.lock", "destroy.save"} => held[s] = vstack[p]
  /\ pc[p] \in {"rmtree", "unlink"} => held[s] = <<>>
  /\ pc[p] = "unlink" /\ "meta" \notin left[p] => meta[s].kind = "absent"

Victims == \A p \in Procs : pc[p] \in Sweeping \ {"visit"} => VictimOK(p)

SessionInv == /\ Phases /\ Alone /\ Owned /\ Fresh
              /\ Unused /\ Short /\ Recorded /\ Victims

\* A step of a tool that touches neither sessions nor their files.
ToolStep(p) ==
  /\ pc[p] \in Working
  /\ \E l \in Working : /\ pc' = [pc EXCEPT ![p] = l]
                        /\ l \in Committing => Len(stack[p]) < MaxDepth
  /\ UNCHANGED <<disk, session, held, sweeping>>
  /\ \A q \in Procs : todo'[q] \subseteq todo[q] \cup Listing

\* Such a step keeps the invariant.
LEMMA ToolStepKeeps ==
  ASSUME TypeInv, SessionInv, NEW p \in Procs, ToolStep(p)
  PROVE  SessionInv'
<1> PICK l \in Working : /\ pc' = [pc EXCEPT ![p] = l]
                         /\ l \in Committing => Len(stack[p]) < MaxDepth
  BY DEF ToolStep
<1>1. /\ dir' = dir /\ pid' = pid /\ meta' = meta /\ mode' = mode /\ sess' = sess
      /\ stack' = stack /\ held' = held /\ victim' = victim /\ vstack' = vstack
      /\ left' = left
  BY DEF ToolStep, disk, session, sweeping
<1>2. pc \in [Procs -> Labels] /\ mode \in [Procs -> Modes]
  BY DEF TypeInv, FieldsOK
<1>3. pc[p] \in Working /\ mode[p] = "serving"
  BY <1>2 DEF ToolStep, SessionInv, Phases, Working, Sweeping, Creating, Committing,
     Collecting, Modes
<1>4. Phases' /\ Alone' /\ Fresh'
  BY <1>1, <1>2, <1>3 DEF SessionInv, Phases, Alone, Busy, Fresh, Working, Committing,
     Collecting
<1>5. \A q \in Procs : HasSession(q)' = HasSession(q)
  BY <1>1, <1>2, <1>3 DEF HasSession
<1>6. Owned'
  BY <1>1, <1>2, <1>3, <1>5 DEF SessionInv, Owned, OwnSession, Working, Committing,
     Collecting
<1>7. Unused' /\ Short'
  BY <1>1 DEF SessionInv, Unused, Short, ToolStep, Listing
<1>8. Recorded'
  <2>1. \A q \in Procs : pc[q] \in {"persist", "rmtree", "unlink"} => pc'[q] = pc[q]
    BY <1>2, <1>3 DEF Working, Committing, Collecting
  <2> QED
    BY <1>1, <1>5, <2>1 DEF SessionInv, Recorded, Persisting, Dying
<1>9. Victims'
  <2>1. \A q \in Procs : pc'[q] \in Sweeping => pc'[q] = pc[q]
    BY <1>2, <1>3 DEF Sweeping, Working, Committing, Collecting
  <2> QED
    BY <1>1, <1>5, <2>1 DEF SessionInv, Victims, VictimOK
<1> QED
  BY <1>4, <1>6, <1>7, <1>8, <1>9 DEF SessionInv

\* What the tools do before and after the index is saved, and all that gc does, are
\* steps of that kind.
LEMMA ToolSteps ==
  ASSUME TypeInv, SessionInv, NEW p \in Procs,
         \/ CommitBegin(p) \/ CommitDedupe(p) \/ CommitMakeDir(p)
         \/ CommitCopied(p) \/ CommitCopyFails(p)
         \/ RollbackBegin(p) \/ RollbackLock(p) \/ Gc(p)
  PROVE  ToolStep(p)
<1> USE DEF ToolStep, Working, Committing, Collecting, Goto, store, disk, session, sweeping
<1>1. todo \in [Procs -> SUBSET Sids]
  BY DEF TypeInv, FieldsOK
<1>2. CASE CommitBegin(p)
  BY <1>2 DEF CommitBegin
<1>3. ASSUME CommitDedupe(p) \/ CommitMakeDir(p) \/ CommitCopied(p) PROVE ToolStep(p)
  <2>1. Len(stack[p]) < MaxDepth
    <3>1. pc[p] \in Committing
      BY <1>3 DEF CommitDedupe, CommitMakeDir, CommitCopied
    <3>2. mode[p] = "serving"
      BY <3>1 DEF SessionInv, Phases, TypeInv, FieldsOK, Modes, Sweeping, Creating
    <3> QED
      BY <3>1, <3>2 DEF SessionInv, Owned, OwnSession, HasSession
  <2> QED
    BY <1>3, <2>1 DEF CommitDedupe, CommitMakeDir, CommitCopied
<1>4. CASE CommitCopyFails(p)
  BY <1>4 DEF CommitCopyFails
<1>5. CASE RollbackBegin(p) \/ RollbackLock(p)
  BY <1>5 DEF RollbackBegin, RollbackLock
<1>6. CASE Gc(p)
  <2>1. CASE GcBegin(p) \/ GcScanned(p) \/ GcPass(p)
    BY <2>1 DEF GcBegin, GcScanned, GcPass
  <2>2. CASE GcLock(p)
    BY <1>1, <2>2 DEF GcLock
  <2>3. CASE GcScan(p)
    <3>1. pc' = [pc EXCEPT ![p] = "gc.scan"] /\ pc[p] = "gc.scan"
      BY <2>3 DEF GcScan, TypeInv, FieldsOK
    <3>2. \A q \in Procs : todo'[q] \subseteq todo[q]
      BY <1>1, <2>3 DEF GcScan
    <3> QED
      BY <2>3, <3>1, <3>2 DEF GcScan
  <2>4. CASE GcScanRaises(p) \/ GcRmtreeRaises(p) \/ GcSave(p)
    BY <1>1, <2>4 DEF GcScanRaises, GcRmtreeRaises, GcSave, GcLeave
  <2>5. CASE GcPop(p) \/ GcRemoved(p)
    BY <2>5 DEF GcPop, GcRemoved
  <2> QED
    BY <1>6, <2>1, <2>2, <2>3, <2>4, <2>5 DEF Gc
<1> QED
  BY <1>2, <1>3, <1>4, <1>5, <1>6

\* A step of p that changes the files and the counts of session x at most, which no
\* other server uses or destroys.
StepAt(p, x) ==
  /\ \A q \in Procs \ {p} :
       /\ pc'[q] = pc[q] /\ mode'[q] = mode[q]
       /\ sess'[q] = sess[q] /\ stack'[q] = stack[q]
       /\ victim'[q] = victim[q] /\ vstack'[q] = vstack[q] /\ left'[q] = left[q]
       /\ HasSession(q) => sess[q] # x
       /\ pc[q] \in Sweeping \ {"visit"} => victim[q] # x
  /\ \A s \in Sids \ {x} : /\ dir'[s] = dir[s] /\ pid'[s] = pid[s]
                           /\ meta'[s] = meta[s] /\ held'[s] = held[s]
  /\ pc[p] = "persist" => sess[p] = x
  /\ pc[p] \in {"rmtree", "unlink"} => victim[p] = x
  /\ HasSession(p)' => sess'[p] = x \/ (HasSession(p) /\ sess'[p] = sess[p])

\* Such a step leaves the others their sessions and their victims, and says nothing
\* new of other sessions.
LEMMA OthersKeep ==
  ASSUME SessionInv, NEW p \in Procs, NEW x, StepAt(p, x)
  PROVE  /\ \A q \in Procs \ {p} : HasSession(q)' => OwnSession(q)'
         /\ \A q \in Procs \ {p} : pc'[q] \in Sweeping \ {"visit"} => VictimOK(q)'
         /\ \A s \in Sids \ {x} :
              /\ meta'[s].kind = "absent" => meta'[s] = NoMeta
              /\ meta'[s].kind = "torn" \/ held'[s] = meta'[s].stack
                 \/ Persisting(s)' \/ Dying(s)'
<1>1. \A q \in Procs \ {p} : HasSession(q)' <=> HasSession(q)
  BY DEF StepAt, HasSession
<1>2. \A q \in Procs \ {p} : HasSession(q)' => OwnSession(q)'
  BY <1>1 DEF SessionInv, Owned, OwnSession, StepAt
<1>3. ASSUME NEW q \in Procs \ {p}, pc'[q] \in Sweeping \ {"visit"}
      PROVE  VictimOK(q)'
  <2>1. pc[q] \in Sweeping \ {"visit"} /\ VictimOK(q)
    BY <1>3 DEF StepAt, SessionInv, Victims
  <2>2. victim'[q] = victim[q] /\ victim[q] \in Sids \ {x}
    BY <2>1 DEF StepAt, VictimOK
  <2>3. \A r \in Procs : HasSession(r)' => sess'[r] # victim[q]
    BY <1>1, <2>1, <2>2 DEF StepAt, VictimOK
  <2> QED
    BY <2>1, <2>2, <2>3 DEF StepAt, VictimOK
<1>4. ASSUME NEW s \in Sids \ {x}
      PROVE  /\ meta'[s].kind = "absent" => meta'[s] = NoMeta
             /\ meta'[s].kind = "torn" \/ held'[s] = meta'[s].stack
                \/ Persisting(s)' \/ Dying(s)'
  <2>1. meta'[s] = meta[s] /\ held'[s] = held[s]
    BY DEF StepAt
  <2>2. Persisting(s) => Persisting(s)'
    BY <1>1 DEF Persisting, StepAt
  <2>3. Dying(s) => Dying(s)'
    BY DEF Dying, StepAt
  <2> QED
    BY <2>1, <2>2, <2>3 DEF SessionInv, Recorded
<1> QED
  BY <1>2, <1>3, <1>4

\* What is left to show of such a step.
LEMMA StepKeeps ==
  ASSUME SessionInv, NEW p \in Procs, NEW x, StepAt(p, x),
         (Phases /\ Alone /\ Fresh /\ Unused /\ Short)',
         HasSession(p)' => OwnSession(p)',
         pc'[p] \in Sweeping \ {"visit"} => VictimOK(p)',
         x \in Sids =>
           /\ meta'[x].kind = "absent" => meta'[x] = NoMeta
           /\ meta'[x].kind = "torn" \/ held'[x] = meta'[x].stack
              \/ Persisting(x)' \/ Dying(x)'
  PROVE  SessionInv'
<1>1. Owned' /\ Victims' /\ Recorded'
  BY OthersKeep DEF Owned, Victims, Recorded
<1> QED
  BY <1>1 DEF SessionInv

\* No two servers have the same session, and a session in use is not destroyed.
LEMMA SessionsApart ==
  ASSUME TypeInv, SessionInv, NEW p \in Procs, HasSession(p)
  PROVE  \A q \in Procs \ {p} :
           /\ HasSession(q) => sess[q] # sess[p]
           /\ pc[q] \in Sweeping \ {"visit"} => victim[q] # sess[p]
<1>1. ASSUME NEW q \in Procs \ {p}, HasSession(q), sess[q] = sess[p] PROVE FALSE
  <2>1. OwnSession(p) /\ OwnSession(q)
    BY <1>1 DEF SessionInv, Owned
  <2>2. pc[p] = "create.pid" /\ pc[q] = "create.pid"
    BY <1>1, <2>1, SentinelAssumption DEF OwnSession
  <2>3. Busy(p) /\ Busy(q)
    BY <2>2 DEF SessionInv, Phases, Busy, TypeInv, FieldsOK, Modes, Sweeping, Working,
       Committing, Collecting
  <2> QED
    BY <1>1, <2>3 DEF SessionInv, Alone
<1>2. ASSUME NEW q \in Procs \ {p}, pc[q] \in Sweeping \ {"visit"}
      PROVE  victim[q] # sess[p]
  BY <1>2 DEF SessionInv, Victims, VictimOK
<1> QED
  BY <1>1, <1>2

\* Starting and creating a session keep the invariant.
LEMMA StartupKeeps ==
  ASSUME Orderly, TypeInv, SessionInv, NEW p \in Procs, Startup(p)
  PROVE  SessionInv'
<1> USE SentinelAssumption
    DEF TypeInv, FieldsOK, Goto, store, disk, session, gcvars, sweeping,
        Sweeping, Creating, Working, Committing, Collecting
<1>0. /\ Phases /\ Alone /\ Fresh /\ Unused /\ Short
      /\ \A q \in Procs : HasSession(q) => sess[q] \in Sids
  BY DEF SessionInv, Owned, OwnSession
<1>1. CASE Start(p)
  <2>1. (Phases /\ Alone /\ Fresh /\ Unused /\ Short)'
    BY <1>0, <1>1 DEF Start, Phases, Alone, Busy, Fresh, Quiet, Orderly, Unused, Short,
       Listing
  <2>2. ~ HasSession(p)'
    BY <1>1 DEF Start, HasSession
  <2>3. StepAt(p, NoSid)
    BY <1>0, <1>1, <2>2 DEF Start, StepAt, SessionInv, Victims, VictimOK
  <2> QED
    BY <1>1, <2>1, <2>2, <2>3, StepKeeps DEF Start
<1>2. CASE SweepDone(p)
  <2>1. (Phases /\ Alone /\ Fresh /\ Unused /\ Short)'
    BY <1>0, <1>2 DEF SweepDone, Phases, Alone, Busy, Fresh, Unused, Short
  <2>2. ~ HasSession(p)'
    BY <1>2 DEF SweepDone, HasSession
  <2>3. StepAt(p, NoSid)
    BY <1>0, <1>2, <2>2 DEF SweepDone, StepAt, SessionInv, Victims, VictimOK
  <2> QED
    BY <1>2, <2>1, <2>2, <2>3, StepKeeps DEF SweepDone
<1>3. CASE CreateDirs(p)
  <2> PICK s \in Sids : /\ dir[s] = "unused"
                        /\ dir' = [dir EXCEPT ![s] = "there"]
                        /\ sess' = [sess EXCEPT ![p] = s]
    BY <1>3 DEF CreateDirs
  <2>1. (Phases /\ Alone /\ Fresh /\ Unused /\ Short)'
    BY <1>0, <1>3 DEF CreateDirs, Phases, Alone, Busy, Fresh, Unused, Short
  <2>2. pid[s] = NoProc /\ meta[s] = NoMeta /\ held[s] = <<>> /\ stack[p] = <<>>
    BY <1>0, <1>3 DEF CreateDirs, Unused, Fresh
  <2>3. OwnSession(p)'
    BY <1>3, <2>2 DEF CreateDirs, OwnSession, NoMeta
  <2>4. StepAt(p, s)
    <3>1. \A q \in Procs : HasSession(q) => sess[q] # s
      BY DEF SessionInv, Owned, OwnSession
    <3>2. \A q \in Procs : pc[q] \in Sweeping \ {"visit"} => victim[q] # s
      BY DEF SessionInv, Victims, VictimOK
    <3> QED
      BY <1>3, <3>1, <3>2 DEF CreateDirs, StepAt
  <2> QED
    BY <1>3, <2>1, <2>2, <2>3, <2>4, StepKeeps DEF CreateDirs, NoMeta
<1>4. ASSUME CreatePid(p) \/ PersistOpen(p) \/ PersistDump(p) \/ RootGone(p)
      PROVE  HasSession(p) /\ OwnSession(p)
  BY <1>0, <1>4 DEF CreatePid, PersistOpen, PersistDump, RootGone, HasSession, Phases,
     SessionInv, Owned, Modes
<1>5. CASE CreatePid(p)
  <2>1. (Phases /\ Alone /\ Fresh /\ Unused /\ Short)'
    BY <1>0, <1>4, <1>5 DEF CreatePid, Phases, Alone, Busy, Fresh, Unused, Short
  <2>2. OwnSession(p)'
    BY <1>4, <1>5 DEF CreatePid, OwnSession
  <2>3. StepAt(p, sess[p])
    BY <1>4, <1>5, SessionsApart DEF CreatePid, StepAt
  <2>4. held[sess[p]] = meta[sess[p]].stack \/ Persisting(sess[p])'
    BY <1>4, <1>5 DEF CreatePid, Persisting, HasSession
  <2> QED
    BY <1>4, <1>5, <2>1, <2>2, <2>3, <2>4, StepKeeps DEF CreatePid, SessionInv, Recorded
<1>6. CASE PersistOpen(p)
  <2>1. (Phases /\ Alone /\ Fresh /\ Unused /\ Short)'
    BY <1>0, <1>4, <1>6 DEF PersistOpen, Phases, Alone, Busy, Fresh, Unused, Short,
       OwnSession
  <2>2. OwnSession(p)'
    BY <1>4, <1>6 DEF PersistOpen, OwnSession, TornMeta
  <2>3. StepAt(p, sess[p])
    BY <1>4, <1>6, SessionsApart DEF PersistOpen, StepAt
  <2>4. meta'[sess[p]].kind = "torn"
    BY <1>4, <1>6 DEF PersistOpen, TornMeta, OwnSession
  <2> QED
    BY <1>6, <2>1, <2>2, <2>3, <2>4, StepKeeps DEF PersistOpen
<1>7. CASE PersistDump(p)
  <2>1. dir' = dir
    BY <1>4, <1>7 DEF PersistDump, OwnSession
  <2>2. meta' = [meta EXCEPT ![sess[p]] = WholeMeta(stack[p])]
    BY <1>4, <1>7 DEF PersistDump, OwnSession
  <2>3. (Phases /\ Alone /\ Fresh /\ Unused /\ Short)'
    BY <1>0, <1>4, <1>7, <2>1, <2>2 DEF PersistDump, Phases, Alone, Busy, Fresh, Unused,
       Short, OwnSession
  <2>4. OwnSession(p)'
    BY <1>4, <1>7, <2>1, <2>2 DEF PersistDump, OwnSession, WholeMeta
  <2>5. StepAt(p, sess[p])
    BY <1>4, <1>7, <2>1, <2>2, SessionsApart DEF PersistDump, StepAt
  <2>6. meta'[sess[p]].kind = "whole" /\ held'[sess[p]] = meta'[sess[p]].stack
    BY <1>4, <1>7, <2>2 DEF PersistDump, WholeMeta, OwnSession
  <2> QED
    BY <1>7, <2>3, <2>4, <2>5, <2>6, StepKeeps DEF PersistDump
<1>8. ~ RootGone(p)
  BY <1>4 DEF RootGone, OwnSession
<1> QED
  BY <1>1, <1>2, <1>3, <1>5, <1>6, <1>7, <1>8 DEF Startup

\* The part of a stack that a rollback keeps is no longer than the stack.
LEMMA BottomShort ==
  ASSUME NEW stk \in Seq(Contents), NEW k \in Nat
  PROVE  /\ Len(Bottom(stk, k)) <= Len(stk)
         /\ Len(Bottom(stk, k)) <= k
         /\ \A i \in 1 .. Len(Bottom(stk, k)) : Bottom(stk, k)[i] = stk[i]
  BY DEF Bottom

\* Saving the index after a commit or a rollback keeps the invariant.
LEMMA SaveKeeps ==
  ASSUME LockInv, SessionInv, NEW p \in Procs, CommitSave(p) \/ RollbackSave(p)
  PROVE  SessionInv'
<1> USE DEF TypeInv, FieldsOK, Goto, disk, session, gcvars, sweeping,
        Sweeping, Creating, Working, Committing, Collecting
<1>0. /\ TypeInv /\ ArgOK
      /\ Phases /\ Alone /\ Fresh /\ Unused /\ Short
  BY DEF LockInv, SessionInv
<1>1. mode[p] = "serving"
  BY <1>0 DEF CommitSave, RollbackSave, Phases, Modes
<1>2. HasSession(p) /\ OwnSession(p)
  BY <1>1 DEF HasSession, SessionInv, Owned
<1>3. CASE CommitSave(p)
  <2>1. arg[p] \in Contents /\ Len(stack[p]) < MaxDepth
    BY <1>0, <1>2, <1>3 DEF CommitSave, ArgOK, OwnSession
  <2>2. /\ \A s \in Sids \ {sess[p]} : held'[s] = held[s]
        /\ held'[sess[p]] = Append(stack[p], arg[p]) /\ held'[sess[p]] = stack'[p]
        /\ Len(held'[sess[p]]) <= MaxDepth
    BY <1>0, <1>2, <1>3, <2>1, BoundAssumption DEF CommitSave, OwnSession
  <2>3. (Phases /\ Alone /\ Fresh /\ Unused /\ Short)'
    BY <1>0, <1>1, <1>2, <1>3, <2>2 DEF CommitSave, Phases, Alone, Busy, Fresh, Unused,
       Short, OwnSession
  <2>7. /\ sess' = sess /\ mode' = mode /\ dir' = dir /\ pid' = pid /\ meta' = meta
        /\ pc'[p] = "persist" /\ pc[p] = "commit.save"
    BY <1>0, <1>3 DEF CommitSave
  <2>4. OwnSession(p)'
    BY <1>2, <2>2, <2>7 DEF OwnSession
  <2>5. StepAt(p, sess[p])
    BY <1>0, <1>2, <1>3, <2>2, SessionsApart DEF CommitSave, StepAt
  <2>6. Persisting(sess[p])' /\ meta' = meta
    BY <1>1, <2>7 DEF Persisting, HasSession
  <2> QED
    BY <1>3, <2>3, <2>4, <2>5, <2>6, StepKeeps DEF CommitSave, SessionInv, Recorded
<1>4. CASE RollbackSave(p)
  <2> DEFINE k == FirstUse(stack[p], arg[p])
  <2>1. k \in Nat
    <3> PICK i \in 1 .. Len(stack[p]) : arg[p] = stack[p][i]
      BY <1>0, <1>4 DEF RollbackSave, ArgOK, Stacks
    <3>1. stack[p] \in Seq(Contents)
      BY <1>0
    <3> QED
      BY <3>1, FirstUseExists
  <2> HIDE DEF k
  <2>2. /\ \A s \in Sids \ {sess[p]} : held'[s] = held[s]
        /\ held'[sess[p]] = Bottom(stack[p], k) /\ held'[sess[p]] = stack'[p]
    BY <1>0, <1>2, <1>4 DEF RollbackSave, OwnSession, k
  <2>3. Len(held'[sess[p]]) <= MaxDepth
    <3>1. stack[p] \in Seq(Contents) /\ Len(stack[p]) <= MaxDepth
      BY <1>0, <1>2 DEF OwnSession, Short
    <3>2. Bottom(stack[p], k) \in Seq(Contents)
      BY <2>1, <3>1, PartsOfStacks
    <3>3. Len(Bottom(stack[p], k)) <= Len(stack[p])
      BY <2>1, <3>1, BottomShort
    <3> QED
      BY <2>2, <3>1, <3>2, <3>3, BoundAssumption
  <2>4. (Phases /\ Alone /\ Fresh /\ Unused /\ Short)'
    BY <1>0, <1>1, <1>2, <1>4, <2>2, <2>3 DEF RollbackSave, Phases, Alone, Busy, Fresh,
       Unused, Short, OwnSession
  <2>5. OwnSession(p)'
    BY <1>2, <1>4, <2>2 DEF RollbackSave, OwnSession
  <2>6. StepAt(p, sess[p])
    BY <1>0, <1>2, <1>4, <2>2, SessionsApart DEF RollbackSave, StepAt
  <2>7. Persisting(sess[p])' /\ meta' = meta
    <3>1. sess' = sess /\ mode' = mode /\ meta' = meta /\ pc'[p] = "persist"
      BY <1>0, <1>4 DEF RollbackSave
    <3> QED
      BY <1>1, <3>1 DEF Persisting, HasSession
  <2> QED
    BY <1>4, <2>4, <2>5, <2>6, <2>7, StepKeeps DEF RollbackSave, SessionInv, Recorded
<1> QED
  BY <1>3, <1>4

\* Destroying a session keeps the invariant.
LEMMA DestroyKeeps ==
  ASSUME Orderly, TypeInv, SessionInv, NEW p \in Procs, Destroy(p)
  PROVE  SessionInv'
<1> USE SentinelAssumption
    DEF TypeInv, FieldsOK, Goto, store, disk, session, gcvars, sweeping,
        Sweeping, Creating, Working, Committing, Collecting
<1>0. Phases /\ Alone /\ Fresh /\ Unused /\ Short
  BY DEF SessionInv
<1>1. /\ pc[p] \in Sweeping
      /\ mode[p] \in {"startup", "exiting"} /\ Busy(p) /\ ~ HasSession(p)
  BY <1>0 DEF Destroy, VisitSkip, VisitCondemn, DestroyLock, DestroySave, RmtreeList,
     RmtreeUnlink, RmtreeEnd, Phases, Busy, HasSession, Modes
<1>2. \A q \in Procs \ {p} : ~ (pc[q] \in Sweeping)
  <2>1. \A q \in Procs : pc[q] \in Sweeping => Busy(q)
    BY <1>0 DEF Phases, Busy, Modes
  <2> QED
    BY <1>0, <1>1, <2>1 DEF Alone
<1>3. \A q \in Procs : HasSession(q) => sess[q] \in Sids
  BY DEF SessionInv, Owned, OwnSession
<1>4. CASE VisitSkip(p)
  <2>1. (Phases /\ Alone /\ Fresh /\ Unused /\ Short)'
    BY <1>0, <1>1, <1>4 DEF VisitSkip, Phases, Alone, Busy, Fresh, Unused, Short
  <2>2. StepAt(p, NoSid)
    BY <1>1, <1>2, <1>3, <1>4 DEF VisitSkip, StepAt, HasSession
  <2> QED
    BY <1>1, <1>4, <2>1, <2>2, StepKeeps DEF VisitSkip, HasSession
<1>5. CASE VisitCondemn(p)
  <2> PICK s \in todo[p] : /\ Condemned(p, s) /\ meta[s].kind # "torn"
                           /\ todo' = [todo EXCEPT ![p] = @ \ {s}]
                           /\ victim' = [victim EXCEPT ![p] = s]
                           /\ vstack' = [vstack EXCEPT ![p] = meta[s].stack]
    BY <1>5 DEF VisitCondemn
  <2>1. (Phases /\ Alone /\ Fresh /\ Unused /\ Short)'
    BY <1>0, <1>1, <1>5 DEF VisitCondemn, Phases, Alone, Busy, Fresh, Unused, Short
  <2>2. \A q \in Procs : HasSession(q) => sess[q] # s
    <3> SUFFICES ASSUME NEW q \in Procs, HasSession(q), sess[q] = s PROVE FALSE
      OBVIOUS
    <3>1. OwnSession(q) /\ q # p
      BY <1>1 DEF SessionInv, Owned
    <3>2. pc[q] # "create.pid"
      BY <1>0, <1>1, <3>1 DEF Phases, Alone, Busy, Modes
    <3>3. pid[s] = q
      BY <3>1, <3>2 DEF OwnSession
    <3> QED
      BY <1>1, <3>1, <3>3 DEF Condemned
  <2>3. held[s] = meta[s].stack
    <3>1. ~ Persisting(s)
      BY <2>2 DEF Persisting
    <3>2. ~ Dying(s)
      BY <1>2, <1>5 DEF Dying, VisitCondemn
    <3> QED
      BY <3>1, <3>2 DEF SessionInv, Recorded
  <2>4. VictimOK(p)'
    BY <1>0, <1>1, <1>5, <2>2, <2>3 DEF VisitCondemn, VictimOK, HasSession, Unused
  <2>5. StepAt(p, NoSid)
    BY <1>1, <1>2, <1>3, <1>5 DEF VisitCondemn, StepAt, HasSession
  <2> QED
    BY <1>1, <1>5, <2>1, <2>4, <2>5, StepKeeps DEF VisitCondemn, HasSession
<1>6. CASE DestroyLock(p)
  <2>1. (Phases /\ Alone /\ Fresh /\ Unused /\ Short)'
    BY <1>0, <1>1, <1>6 DEF DestroyLock, Phases, Alone, Busy, Fresh, Unused, Short
  <2>2. VictimOK(p)'
    BY <1>1, <1>6 DEF DestroyLock, SessionInv, Victims, VictimOK, HasSession
  <2>3. StepAt(p, NoSid)
    BY <1>1, <1>2, <1>3, <1>6 DEF DestroyLock, StepAt, HasSession
  <2> QED
    BY <1>1, <1>6, <2>1, <2>2, <2>3, StepKeeps DEF DestroyLock, HasSession
<1>7. CASE DestroySave(p)
  <2>1. VictimOK(p) /\ held[victim[p]] = vstack[p]
    BY <1>7 DEF DestroySave, SessionInv, Victims, VictimOK
  <2>2. held' = [held EXCEPT ![victim[p]] = <<>>]
    <3>1. SubSeq(vstack[p], Len(vstack[p]) + 1, Len(vstack[p])) = <<>>
      OBVIOUS
    <3>2. held' = [held EXCEPT ![victim[p]] =
                     SubSeq(held[victim[p]], Len(vstack[p]) + 1, Len(held[victim[p]]))]
      BY <1>7 DEF DestroySave
    <3> QED
      BY <2>1, <3>1, <3>2
  <2>3. (Phases /\ Alone /\ Fresh /\ Unused /\ Short)'
    BY <1>0, <1>1, <1>7, <2>1, <2>2, BoundAssumption DEF DestroySave, Phases, Alone,
       Busy, Fresh, Unused, Short, VictimOK
  <2>4. VictimOK(p)'
    BY <1>1, <1>7, <2>1, <2>2 DEF DestroySave, VictimOK, HasSession
  <2>5. StepAt(p, victim[p])
    BY <1>1, <1>2, <1>7, <2>1, <2>2 DEF DestroySave, StepAt, VictimOK, HasSession
  <2>6. Dying(victim[p])'
    BY <1>7 DEF DestroySave, Dying
  <2> QED
    BY <1>1, <1>7, <2>3, <2>4, <2>5, <2>6, StepKeeps
       DEF DestroySave, HasSession, SessionInv, Recorded
<1>8. CASE RmtreeList(p)
  <2>1. (Phases /\ Alone /\ Fresh /\ Unused /\ Short)'
    BY <1>0, <1>1, <1>8 DEF RmtreeList, Phases, Alone, Busy, Fresh, Unused, Short
  <2>2. VictimOK(p)'
    BY <1>1, <1>8 DEF RmtreeList, SessionInv, Victims, VictimOK, HasSession
  <2>3. StepAt(p, victim[p])
    BY <1>1, <1>2, <1>8 DEF RmtreeList, StepAt, SessionInv, Victims, VictimOK, HasSession
  <2>4. Dying(victim[p])'
    BY <1>8 DEF RmtreeList, Dying
  <2> QED
    BY <1>1, <1>8, <2>1, <2>2, <2>3, <2>4, StepKeeps
       DEF RmtreeList, HasSession, SessionInv, Recorded
<1>9. CASE RmtreeUnlink(p)
  <2> PICK f \in left[p] :
        /\ left' = [left EXCEPT ![p] = @ \ {f}]
        /\ pid' = (IF f = "pid" THEN [pid EXCEPT ![victim[p]] = NoProc] ELSE pid)
        /\ meta' = (IF f = "meta" THEN [meta EXCEPT ![victim[p]] = NoMeta] ELSE meta)
    BY <1>9 DEF RmtreeUnlink
  <2>1. (Phases /\ Alone /\ Fresh /\ Unused /\ Short)'
    BY <1>0, <1>1, <1>9 DEF RmtreeUnlink, Phases, Alone, Busy, Fresh, Unused, Short
  <2>2. VictimOK(p) /\ pc[p] = "unlink"
    BY <1>9 DEF RmtreeUnlink, SessionInv, Victims
  <2>3. VictimOK(p)'
    BY <1>1, <1>9, <2>2 DEF RmtreeUnlink, VictimOK, HasSession, NoMeta
  <2>4. StepAt(p, victim[p])
    BY <1>1, <1>2, <1>9, <2>2 DEF RmtreeUnlink, StepAt, VictimOK, HasSession
  <2>5. Dying(victim[p])'
    BY <1>9 DEF RmtreeUnlink, Dying
  <2>6. meta'[victim[p]].kind = "absent" => meta'[victim[p]] = NoMeta
    BY <2>2 DEF SessionInv, Recorded, VictimOK
  <2> QED
    BY <1>1, <1>9, <2>1, <2>3, <2>4, <2>5, <2>6, StepKeeps DEF RmtreeUnlink, HasSession
<1>10. CASE RmtreeEnd(p)
  <2>1. VictimOK(p) /\ pc[p] = "unlink" /\ left[p] = {}
    BY <1>10 DEF RmtreeEnd, SessionInv, Victims
  <2>2. (Phases /\ Alone /\ Fresh /\ Unused /\ Short)'
    BY <1>0, <1>1, <1>10 DEF RmtreeEnd, Phases, Alone, Busy, Fresh, Unused, Short
  <2>3. StepAt(p, victim[p])
    BY <1>1, <1>2, <1>10, <2>1 DEF RmtreeEnd, StepAt, VictimOK, HasSession
  <2>4. meta[victim[p]] = NoMeta /\ held[victim[p]] = <<>>
    BY <2>1 DEF VictimOK, SessionInv, Recorded
  <2> QED
    BY <1>1, <1>10, <2>2, <2>3, <2>4, StepKeeps DEF RmtreeEnd, HasSession, NoMeta
<1> QED
  BY <1>4, <1>5, <1>6, <1>7, <1>8, <1>9, <1>10 DEF Destroy

\* Stopping keeps the invariant; nothing kills or signals a server.
LEMMA EndKeeps ==
  ASSUME Orderly, TypeInv, SessionInv, NEW p \in Procs, End(p)
  PROVE  SessionInv'
<1> USE SentinelAssumption
    DEF TypeInv, FieldsOK, Goto, store, disk, session, gcvars, sweeping,
        Sweeping, Creating, Working, Committing, Collecting
<1>0. /\ Phases /\ Alone /\ Fresh /\ Unused /\ Short
      /\ \A q \in Procs : HasSession(q) => sess[q] \in Sids
  BY DEF SessionInv, Owned, OwnSession
<1>1. ~ Sigterm(p) /\ ~ SigtermDone(p) /\ ~ Kill(p)
  BY <1>0 DEF Sigterm, SigtermDone, Kill, Event, Orderly, Phases
<1>2. CASE Exit(p)
  <2>1. (Phases /\ Alone /\ Fresh /\ Unused /\ Short)'
    BY <1>0, <1>2 DEF Exit, BeginShutdown, Phases, Alone, Busy, Fresh, Quiet, Orderly,
       Unused, Short, Listing
  <2>2. ~ HasSession(p)'
    BY <1>2 DEF Exit, BeginShutdown, HasSession
  <2>3. StepAt(p, NoSid)
    BY <1>0, <1>2, <2>2 DEF Exit, BeginShutdown, StepAt, SessionInv, Victims, VictimOK
  <2> QED
    BY <1>2, <2>1, <2>2, <2>3, StepKeeps DEF Exit, BeginShutdown
<1>3. CASE ExitDone(p)
  <2>1. mode[p] = "exiting" /\ pc[p] = "visit"
    BY <1>3 DEF ExitDone
  <2>2. /\ pc' = [pc EXCEPT ![p] = "down"] /\ mode' = [mode EXCEPT ![p] = "down"]
        /\ sess' = [sess EXCEPT ![p] = NoSid] /\ stack' = [stack EXCEPT ![p] = <<>>]
        /\ todo' = [todo EXCEPT ![p] = {}] /\ victim' = [victim EXCEPT ![p] = NoSid]
        /\ vstack' = [vstack EXCEPT ![p] = <<>>] /\ left' = [left EXCEPT ![p] = {}]
        /\ dir' = dir /\ meta' = meta /\ held' = held
        /\ pid' = [s \in Sids |-> IF pid[s] = p THEN DeadProc ELSE pid[s]]
    BY <1>3 DEF ExitDone, ProcessEnds
  <2>3. (Phases /\ Alone /\ Fresh /\ Unused /\ Short)'
    BY <1>0, <2>1, <2>2 DEF Phases, Alone, Busy, Fresh, Unused, Short
  <2>4. \A q \in Procs : HasSession(q)' <=> HasSession(q) /\ q # p
    BY <2>1, <2>2 DEF HasSession
  <2>5. Owned'
    <3> SUFFICES ASSUME NEW q \in Procs \ {p}, HasSession(q) PROVE OwnSession(q)'
      BY <2>4 DEF Owned
    <3>1. OwnSession(q)
      BY DEF SessionInv, Owned
    <3>2. pid'[sess[q]] = pid[sess[q]]
      BY <2>2, <3>1 DEF OwnSession
    <3> QED
      BY <2>2, <3>1, <3>2 DEF OwnSession
  <2>6. Victims'
    BY <2>1, <2>2, <2>4 DEF SessionInv, Victims, VictimOK
  <2>7. Recorded'
    <3>1. \A s : Persisting(s) => Persisting(s)'
      BY <2>1, <2>2, <2>4 DEF Persisting
    <3>2. \A s : Dying(s) => Dying(s)'
      BY <2>1, <2>2 DEF Dying
    <3> QED
      BY <2>2, <3>1, <3>2 DEF SessionInv, Recorded
  <2> QED
    BY <2>3, <2>5, <2>6, <2>7 DEF SessionInv
<1> QED
  BY <1>1, <1>2, <1>3 DEF End

\* So what is known of the sessions is inductive.
LEMMA SessionInvInductive ==
  ASSUME Orderly
  PROVE  /\ Init => SessionInv
         /\ LockInv /\ SessionInv /\ [Next]_vars => SessionInv'
<1>1. Init => SessionInv
  BY BoundAssumption
     DEF Init, SessionInv, Phases, Alone, Busy, Owned, HasSession, Fresh, Unused, Short,
         Recorded, NoMeta, Victims, Sweeping
<1>2. LockInv /\ SessionInv /\ Next => SessionInv'
  <2> SUFFICES ASSUME LockInv, SessionInv, NEW p \in Procs,
                      \/ Startup(p) \/ Commit(p) \/ Rollback(p) \/ Gc(p)
                      \/ Destroy(p) \/ End(p)
               PROVE  SessionInv'
    BY DEF Next
  <2>1. TypeInv
    BY DEF LockInv
  <2>2. CASE Startup(p) \/ Destroy(p) \/ End(p)
    BY <2>1, <2>2, StartupKeeps, DestroyKeeps, EndKeeps
  <2>3. CASE CommitSave(p) \/ RollbackSave(p)
    BY <2>3, SaveKeeps
  <2>4. CASE /\ Commit(p) \/ Rollback(p) \/ Gc(p)
             /\ ~ CommitSave(p) /\ ~ RollbackSave(p)
    <3>1. ToolStep(p)
      BY <2>1, <2>4, ToolSteps DEF Commit, Rollback
    <3> QED
      BY <2>1, <3>1, ToolStepKeeps
  <2> QED
    BY <2>2, <2>3, <2>4
<1>3. SessionInv /\ UNCHANGED vars => SessionInv'
  BY DEF vars, SessionInv, Phases, Alone, Busy, Owned, OwnSession, HasSession, Fresh,
     Unused, Short, Recorded, Persisting, Dying, Victims, VictimOK
<1> QED
  BY <1>1, <1>2, <1>3

-------------------------------------------------------------------------------
(* What the index operators do to the counts *)

Children(idx, c) == {d \in DOMAIN idx : idx[d].parent = c}

\* The layer counts of an index are those of its own parents.
Family(idx) ==
  /\ IsFiniteSet(DOMAIN idx)
  /\ \A c \in DOMAIN idx : /\ idx[c].parent \in DOMAIN idx \cup {NoContent}
                           /\ idx[c].refcount_layers = Cardinality(Children(idx, c))

\* Nothing refers to this entry: gc may remove it.
Free(idx, c) == /\ c \in DOMAIN idx
                /\ idx[c].refcount_sessions = 0 /\ idx[c].refcount_layers = 0

SessionsOf(idx, c) == IF c \in DOMAIN idx THEN idx[c].refcount_sessions ELSE 0

\* The children of an entry can be counted.
LEMMA ChildrenFinite ==
  ASSUME NEW idx, Family(idx), NEW c
  PROVE  /\ IsFiniteSet(Children(idx, c))
         /\ Cardinality(Children(idx, c)) \in Nat
<1>1. Children(idx, c) \in SUBSET DOMAIN idx
  BY DEF Children
<1>2. IsFiniteSet(Children(idx, c))
  BY <1>1, FS_Subset DEF Family
<1> QED
  BY <1>2, FS_CardinalityType

\* The committed layer gets the tip as its parent.
Adopts(idx, c, stk) ==
  stk # <<>> /\ (c \in DOMAIN idx => idx[c].parent = NoContent)

\* new is idx with one session more for c, and a child more for the tip if c adopts it.
CommitCounted(idx, c, stk, new) ==
  /\ DOMAIN new = DOMAIN idx \cup {c}
  /\ \A d \in DOMAIN new :
       /\ new[d].refcount_sessions = SessionsOf(idx, d) + (IF d = c THEN 1 ELSE 0)
       /\ new[d].refcount_layers =
            (IF d \in DOMAIN idx THEN idx[d].refcount_layers ELSE 0)
            + (IF Adopts(idx, c, stk) /\ d = stk[Len(stk)] THEN 1 ELSE 0)
       /\ new[d].parent = IF d = c /\ Adopts(idx, c, stk) THEN stk[Len(stk)]
                          ELSE IF d \in DOMAIN idx THEN idx[d].parent
                          ELSE NoContent

\* That is what a commit does to the index.
LEMMA WithCommitFields ==
  ASSUME NEW idx \in Index, NEW c \in Contents, NEW stk \in Seq(Contents)
  PROVE  CommitCounted(idx, c, stk, IndexWithCommit(idx, c, stk))
<1> DEFINE adopts == Adopts(idx, c, stk)
           entry  == [refcount_sessions |->
                        IF c \in DOMAIN idx THEN idx[c].refcount_sessions + 1 ELSE 1,
                      refcount_layers |->
                        IF c \in DOMAIN idx THEN idx[c].refcount_layers ELSE 0,
                      parent |-> IF adopts THEN stk[Len(stk)]
                                 ELSE IF c \in DOMAIN idx THEN idx[c].parent
                                 ELSE NoContent]
           stored == [d \in DOMAIN idx \cup {c} |-> IF d = c THEN entry ELSE idx[d]]
           new    == IndexWithCommit(idx, c, stk)
<1>1. new = [d \in DOMAIN idx \cup {c} |->
               IF adopts /\ d = stk[Len(stk)]
               THEN [stored[d] EXCEPT !.refcount_layers = @ + 1]
               ELSE stored[d]]
  BY DEF IndexWithCommit, Adopts
<1>2. \A d \in DOMAIN idx : idx[d] \in Entry
  BY IndexIff
<1>3. \A d \in DOMAIN idx \cup {c} : stored[d] \in Entry
  <2>1. stk # <<>> => stk[Len(stk)] \in Contents
    OBVIOUS
  <2> QED
    BY <1>2, <2>1 DEF Entry, Adopts
<1>4. \A d \in DOMAIN idx \cup {c} :
        /\ stored[d].refcount_sessions = SessionsOf(idx, d) + (IF d = c THEN 1 ELSE 0)
        /\ stored[d].refcount_layers = IF d \in DOMAIN idx THEN idx[d].refcount_layers
                                       ELSE 0
        /\ stored[d].parent = IF d = c /\ adopts THEN stk[Len(stk)]
                              ELSE IF d \in DOMAIN idx THEN idx[d].parent
                              ELSE NoContent
  BY <1>2 DEF SessionsOf, Entry
<1>5. \A e \in Entry : LET f == [e EXCEPT !.refcount_layers = @ + 1] IN
        /\ f.refcount_sessions = e.refcount_sessions
        /\ f.refcount_layers = e.refcount_layers + 1
        /\ f.parent = e.parent
  BY DEF Entry
<1>6. \A e \in Entry : e.refcount_layers \in Nat
  BY DEF Entry
<1> HIDE DEF stored, new, adopts
<1>7. DOMAIN new = DOMAIN idx \cup {c}
  BY <1>1
<1>8. ASSUME NEW d \in DOMAIN new
      PROVE  /\ new[d].refcount_sessions = SessionsOf(idx, d) + (IF d = c THEN 1 ELSE 0)
             /\ new[d].refcount_layers =
                  (IF d \in DOMAIN idx THEN idx[d].refcount_layers ELSE 0)
                  + (IF adopts /\ d = stk[Len(stk)] THEN 1 ELSE 0)
             /\ new[d].parent = IF d = c /\ adopts THEN stk[Len(stk)]
                                ELSE IF d \in DOMAIN idx THEN idx[d].parent
                                ELSE NoContent
  <2>1. CASE adopts /\ d = stk[Len(stk)]
    <3>1. new[d] = [stored[d] EXCEPT !.refcount_layers = @ + 1]
      BY <1>1, <1>7, <2>1
    <3> QED
      BY <1>3, <1>4, <1>5, <1>7, <2>1, <3>1
  <2>2. CASE ~ (adopts /\ d = stk[Len(stk)])
    <3>1. new[d] = stored[d]
      BY <1>1, <1>7, <2>2
    <3> QED
      BY <1>3, <1>4, <1>6, <1>7, <2>2, <3>1
  <2> QED
    BY <2>1, <2>2
<1> QED
  BY <1>7, <1>8 DEF new, adopts, CommitCounted

\* So the layer counts stay right if the tip is in the index.
LEMMA WithCommitFamily ==
  ASSUME NEW idx \in Index, Family(idx), NEW c \in Contents, NEW stk \in Seq(Contents),
         stk # <<>> => stk[Len(stk)] \in DOMAIN idx
  PROVE  Family(IndexWithCommit(idx, c, stk))
<1> DEFINE adopts == Adopts(idx, c, stk)
           tip == stk[Len(stk)]
           new == IndexWithCommit(idx, c, stk)
<1>1. /\ DOMAIN new = DOMAIN idx \cup {c}
      /\ \A d \in DOMAIN new :
           /\ new[d].refcount_layers =
                (IF d \in DOMAIN idx THEN idx[d].refcount_layers ELSE 0)
                + (IF adopts /\ d = tip THEN 1 ELSE 0)
           /\ new[d].parent = IF d = c /\ adopts THEN tip
                              ELSE IF d \in DOMAIN idx THEN idx[d].parent
                              ELSE NoContent
  <2>1. CommitCounted(idx, c, stk, new)
    BY WithCommitFields
  <2> QED
    BY <2>1 DEF CommitCounted
<1>2. adopts => tip \in DOMAIN idx
  BY DEF Adopts
<1>3. NoContent \notin DOMAIN idx \cup {c}
  BY IndexIff, SentinelAssumption
<1>4. c \in DOMAIN idx /\ adopts => idx[c].parent = NoContent
  BY DEF Adopts
<1> HIDE DEF new, adopts, tip
<1>5. IsFiniteSet(DOMAIN new)
  BY <1>1, FS_AddElement DEF Family
<1>6. \A d \in DOMAIN new : new[d].parent \in DOMAIN new \cup {NoContent}
  BY <1>1, <1>2 DEF Family
<1>7. ASSUME NEW d \in DOMAIN new
      PROVE  new[d].refcount_layers = Cardinality(Children(new, d))
  <2>1. IsFiniteSet(Children(idx, d)) /\ Cardinality(Children(idx, d)) \in Nat
    BY ChildrenFinite
  <2>2. (IF d \in DOMAIN idx THEN idx[d].refcount_layers ELSE 0)
          = Cardinality(Children(idx, d))
    <3>1. CASE d \in DOMAIN idx
      BY <3>1 DEF Family
    <3>2. CASE d \notin DOMAIN idx
      <4>1. Children(idx, d) = {}
        BY <1>1, <1>3, <3>2 DEF Children, Family
      <4> QED
        BY <3>2, <4>1, FS_EmptySet
    <3> QED
      BY <3>1, <3>2
  <2>3. CASE adopts /\ d = tip
    <3>1. Children(new, d) = Children(idx, d) \cup {c}
      BY <1>1, <1>2, <1>4, <2>3 DEF Children
    <3>2. c \notin Children(idx, d)
      BY <1>2, <1>3, <1>4, <2>3 DEF Children
    <3>3. Cardinality(Children(new, d)) = Cardinality(Children(idx, d)) + 1
      BY <2>1, <3>1, <3>2, FS_AddElement
    <3> QED
      BY <1>1, <2>2, <2>3, <3>3
  <2>4. CASE ~ (adopts /\ d = tip)
    <3>1. Children(new, d) = Children(idx, d)
      BY <1>1, <1>3, <1>4, <2>4 DEF Children
    <3> QED
      BY <1>1, <2>1, <2>2, <2>4, <3>1
  <2> QED
    BY <2>3, <2>4
<1> QED
  BY <1>5, <1>6, <1>7 DEF Family, new

\* Giving up places changes the sessions' counts alone.
LEMMA WithoutFields ==
  ASSUME NEW idx \in Index, NEW stk \in Seq(Contents), NEW k \in Nat
  PROVE  LET new == IndexWithout(idx, stk, k) IN
         /\ DOMAIN new = DOMAIN idx
         /\ \A c \in DOMAIN idx :
              /\ new[c].refcount_sessions =
                   Minus(idx[c].refcount_sessions, Cardinality(Uses(stk, k, c)))
              /\ new[c].refcount_layers = idx[c].refcount_layers
              /\ new[c].parent = idx[c].parent
<1>1. \A c \in DOMAIN idx : idx[c] \in Entry
  BY IndexIff
<1>2. \A e \in Entry : \A n : LET f == [e EXCEPT !.refcount_sessions = Minus(@, n)] IN
        /\ f.refcount_sessions = Minus(e.refcount_sessions, n)
        /\ f.refcount_layers = e.refcount_layers
        /\ f.parent = e.parent
  BY DEF Entry
<1>3. DOMAIN IndexWithout(idx, stk, k) = DOMAIN idx
  BY DEF IndexWithout
<1>4. \A c \in DOMAIN idx :
        IndexWithout(idx, stk, k)[c] =
          [idx[c] EXCEPT !.refcount_sessions = Minus(@, Cardinality(Uses(stk, k, c)))]
  BY DEF IndexWithout
<1> DEFINE new == IndexWithout(idx, stk, k)
<1> HIDE DEF new
<1>5. ASSUME NEW c \in DOMAIN idx
      PROVE  /\ new[c].refcount_sessions =
                  Minus(idx[c].refcount_sessions, Cardinality(Uses(stk, k, c)))
             /\ new[c].refcount_layers = idx[c].refcount_layers
             /\ new[c].parent = idx[c].parent
  <2> DEFINE n == Cardinality(Uses(stk, k, c))
  <2>1. idx[c] \in Entry /\ new[c] = [idx[c] EXCEPT !.refcount_sessions = Minus(@, n)]
    BY <1>1, <1>4 DEF new
  <2> HIDE DEF n
  <2>2. /\ new[c].refcount_sessions = Minus(idx[c].refcount_sessions, n)
        /\ new[c].refcount_layers = idx[c].refcount_layers
        /\ new[c].parent = idx[c].parent
    BY <1>2, <2>1
  <2> QED
    BY <2>2 DEF n
<1> QED
  BY <1>3, <1>5 DEF new

\* What destroy subtracts leaves the parents and the layer counts as they were.
LEMMA WithoutFamily ==
  ASSUME NEW idx \in Index, Family(idx), NEW stk \in Seq(Contents), NEW k \in Nat
  PROVE  Family(IndexWithout(idx, stk, k))
<1> DEFINE new == IndexWithout(idx, stk, k)
<1>1. /\ DOMAIN new = DOMAIN idx
      /\ \A c \in DOMAIN idx : /\ new[c].refcount_layers = idx[c].refcount_layers
                               /\ new[c].parent = idx[c].parent
  BY WithoutFields
<1> HIDE DEF new
<1>2. \A c : Children(new, c) = Children(idx, c)
  BY <1>1 DEF Children
<1> QED
  BY <1>1, <1>2 DEF Family, new

\* Popping an entry changes the layer count of its parent alone.
LEMMA PoppedFields ==
  ASSUME NEW idx \in Index, NEW c
  PROVE  LET new == IndexPopped(idx, c) IN
         /\ DOMAIN new = DOMAIN idx \ {c}
         /\ \A d \in DOMAIN new :
              /\ new[d].refcount_sessions = idx[d].refcount_sessions
              /\ new[d].refcount_layers = IF d = idx[c].parent
                                          THEN Minus(idx[d].refcount_layers, 1)
                                          ELSE idx[d].refcount_layers
              /\ new[d].parent = idx[d].parent
<1> DEFINE new == IndexPopped(idx, c)
<1>1. \A d \in DOMAIN idx : idx[d] \in Entry
  BY IndexIff
<1>2. \A e \in Entry : LET f == [e EXCEPT !.refcount_layers = Minus(@, 1)] IN
        /\ f.refcount_sessions = e.refcount_sessions
        /\ f.refcount_layers = Minus(e.refcount_layers, 1)
        /\ f.parent = e.parent
  BY DEF Entry
<1>3. DOMAIN new = DOMAIN idx \ {c}
  BY DEF IndexPopped
<1>4. \A d \in DOMAIN idx \ {c} :
        new[d] = IF d = idx[c].parent THEN [idx[d] EXCEPT !.refcount_layers = Minus(@, 1)]
                 ELSE idx[d]
  BY DEF IndexPopped
<1> HIDE DEF new
<1>5. \A d \in DOMAIN idx \ {c} :
        /\ new[d].refcount_sessions = idx[d].refcount_sessions
        /\ new[d].refcount_layers = IF d = idx[c].parent
                                    THEN Minus(idx[d].refcount_layers, 1)
                                    ELSE idx[d].refcount_layers
        /\ new[d].parent = idx[d].parent
  BY <1>1, <1>2, <1>4
<1> QED
  BY <1>3, <1>5 DEF new

\* Popping an entry that nothing refers to takes a child from its parent.
LEMMA PoppedFamily ==
  ASSUME NEW idx \in Index, Family(idx), NEW c, Free(idx, c)
  PROVE  LET new == IndexPopped(idx, c) IN
         /\ DOMAIN new = DOMAIN idx \ {c}
         /\ \A d \in DOMAIN new : new[d].refcount_sessions = idx[d].refcount_sessions
         /\ \A d \in DOMAIN new : Free(idx, d) => Free(new, d)
         /\ Family(new)
<1> DEFINE new == IndexPopped(idx, c)
<1>1. DOMAIN new = DOMAIN idx \ {c}
  BY PoppedFields
<1>2. \A d \in DOMAIN new :
        /\ new[d].refcount_sessions = idx[d].refcount_sessions
        /\ new[d].refcount_layers = IF d = idx[c].parent
                                    THEN Minus(idx[d].refcount_layers, 1)
                                    ELSE idx[d].refcount_layers
        /\ new[d].parent = idx[d].parent
  BY PoppedFields
<1> HIDE DEF new
<1>3. c \in DOMAIN idx /\ Children(idx, c) = {}
  <2>1. Cardinality(Children(idx, c)) = 0
    BY DEF Free, Family
  <2> QED
    BY <2>1, ChildrenFinite, FS_EmptySet DEF Free
<1>4. \A d \in DOMAIN new : Children(new, d) = Children(idx, d) \ {c}
  BY <1>1, <1>2 DEF Children
<1>5. ASSUME NEW d \in DOMAIN new
      PROVE  new[d].refcount_layers = Cardinality(Children(new, d))
  <2>1. IsFiniteSet(Children(idx, d)) /\ Cardinality(Children(idx, d)) \in Nat
    BY ChildrenFinite
  <2>2. Cardinality(Children(new, d)) =
          IF c \in Children(idx, d) THEN Cardinality(Children(idx, d)) - 1
          ELSE Cardinality(Children(idx, d))
    BY <1>4, <2>1, FS_RemoveElement
  <2>3. c \in Children(idx, d) => Cardinality(Children(idx, d)) # 0
    BY <2>1, FS_EmptySet
  <2>4. c \in Children(idx, d) <=> d = idx[c].parent
    BY <1>3 DEF Children
  <2>5. idx[d].refcount_layers = Cardinality(Children(idx, d))
    BY <1>1 DEF Family
  <2> QED
    BY <1>1, <1>2, <2>1, <2>2, <2>3, <2>4, <2>5 DEF Minus
<1>6. Family(new)
  <2>1. IsFiniteSet(DOMAIN new)
    BY <1>1, FS_RemoveElement DEF Family
  <2>2. \A d \in DOMAIN new : new[d].parent \in DOMAIN new \cup {NoContent}
    BY <1>1, <1>2, <1>3 DEF Family, Children
  <2> QED
    BY <1>5, <2>1, <2>2 DEF Family
<1>7. \A d \in DOMAIN new : Free(idx, d) => Free(new, d)
  BY <1>1, <1>2 DEF Free, Minus
<1> QED
  BY <1>1, <1>2, <1>6, <1>7 DEF new

-------------------------------------------------------------------------------
(* The places that sessions stack a layer at *)

\* The places of one session, as Places has them.
PlacesOf(s, U) == {<<s, i>> : i \in U}

\* A session has as many places as it has positions in its stack.
LEMMA PlacesOfCount ==
  ASSUME NEW s, NEW U, IsFiniteSet(U)
  PROVE  /\ IsFiniteSet(PlacesOf(s, U))
         /\ Cardinality(PlacesOf(s, U)) = Cardinality(U)
<1> DEFINE f == [i \in U |-> <<s, i>>]
<1>1. f \in Bijection(U, PlacesOf(s, U))
  <2>1. f \in [U -> PlacesOf(s, U)]
    BY DEF PlacesOf
  <2>2. \A a, b \in U : f[a] = f[b] => a = b
    OBVIOUS
  <2>3. \A y \in PlacesOf(s, U) : \E a \in U : f[a] = y
    BY DEF PlacesOf
  <2> HIDE DEF f
  <2> QED
    BY <2>1, <2>2, <2>3 DEF Bijection, Injection, Surjection, IsInjective
<1>2. ExistsBijection(U, PlacesOf(s, U))
  BY <1>1 DEF ExistsBijection
<1> QED
  BY <1>2, FS_Bijection

\* Every layer is stacked at finitely many places, as many as the index counts.
Tally(idx) ==
  \A c \in Contents : /\ IsFiniteSet(Places(c))
                      /\ Cardinality(Places(c)) = SessionsOf(idx, c)

\* The same of the next state, for an index that is to be saved.
TallyNext(idx) ==
  \A c \in Contents : /\ IsFiniteSet(Places(c)')
                      /\ Cardinality(Places(c)') = SessionsOf(idx, c)

\* What Places is when the stack of session s is h.
PlacesWith(s, h, c) ==
  {x \in Places(c) : x[1] # s}
    \cup PlacesOf(s, {i \in 1 .. MaxDepth : i <= Len(h) /\ h[i] = c})

\* Only the places of a session whose stack changes change.
LEMMA PlacesChange ==
  ASSUME NEW s \in Sids, NEW h \in Seq(Contents),
         held \in [Sids -> Seq(Contents)], held' = [held EXCEPT ![s] = h], NEW c
  PROVE  Places(c)' = PlacesWith(s, h, c)
<1>1. held' \in [Sids -> Seq(Contents)] /\ held'[s] = h
  OBVIOUS
<1>2. \A t \in Sids \ {s} : held'[t] = held[t]
  OBVIOUS
<1> DEFINE old == {x \in Places(c) : x[1] # s}
           own == PlacesOf(s, {i \in 1 .. MaxDepth : i <= Len(h) /\ h[i] = c})
<1>3. \A t, i : <<t, i>> \in own
                  <=> t = s /\ i \in 1 .. MaxDepth /\ i <= Len(h) /\ h[i] = c
  BY DEF PlacesOf
<1>4. \A t, i : <<t, i>> \in old
                  <=> t \in Sids \ {s} /\ i \in 1 .. MaxDepth
                      /\ i <= Len(held[t]) /\ held[t][i] = c
  BY DEF Places
<1>5. \A t, i : <<t, i>> \in Places(c)'
                  <=> t \in Sids /\ i \in 1 .. MaxDepth
                      /\ i <= Len(held'[t]) /\ held'[t][i] = c
  BY DEF Places
<1>6. \A t, i : <<t, i>> \in Places(c)' <=> <<t, i>> \in old \/ <<t, i>> \in own
  <2> HIDE DEF old, own
  <2> TAKE t, i
  <2>1. CASE t = s
    BY <1>1, <1>3, <1>4, <1>5, <2>1
  <2>2. CASE t \in Sids \ {s}
    BY <1>2, <1>3, <1>4, <1>5, <2>2
  <2>3. CASE t \notin Sids
    BY <1>3, <1>4, <1>5, <2>3
  <2> QED
    BY <2>1, <2>2, <2>3
<1>7. \A x \in Places(c)' \cup old \cup own : x = <<x[1], x[2]>>
  BY DEF Places, PlacesOf
<1>8. PlacesWith(s, h, c) = old \cup own
  BY DEF PlacesWith
<1> HIDE DEF old, own
<1> QED
  BY <1>6, <1>7, <1>8

\* The same for the stack that the session has.
LEMMA PlacesNow ==
  ASSUME NEW s \in Sids, held \in [Sids -> Seq(Contents)], NEW c
  PROVE  Places(c) = PlacesWith(s, held[s], c)
<1> DEFINE own == PlacesOf(s, {i \in 1 .. MaxDepth : i <= Len(held[s]) /\ held[s][i] = c})
<1>1. \A i : <<s, i>> \in own
               <=> i \in 1 .. MaxDepth /\ i <= Len(held[s]) /\ held[s][i] = c
  BY DEF PlacesOf
<1>2. \A i : <<s, i>> \in Places(c)
               <=> i \in 1 .. MaxDepth /\ i <= Len(held[s]) /\ held[s][i] = c
  BY DEF Places
<1>3. \A x \in Places(c) \cup own : x = <<x[1], x[2]>>
  BY DEF Places, PlacesOf
<1>4. \A x \in own : x[1] = s
  BY DEF PlacesOf
<1> QED
  BY <1>1, <1>2, <1>3, <1>4 DEF PlacesWith

\* A commit adds one place.
LEMMA TallyCommit ==
  ASSUME NEW s \in Sids, NEW c \in Contents, NEW idx \in Index, Tally(idx),
         held \in [Sids -> Seq(Contents)], Len(held[s]) < MaxDepth,
         held' = [held EXCEPT ![s] = Append(@, c)], NEW new,
         DOMAIN new = DOMAIN idx \cup {c},
         \A d \in DOMAIN new :
           new[d].refcount_sessions = SessionsOf(idx, d) + (IF d = c THEN 1 ELSE 0)
  PROVE  TallyNext(new)
<1> DEFINE n == Len(held[s]) + 1
           h == Append(held[s], c)
<1>1. h \in Seq(Contents) /\ held' = [held EXCEPT ![s] = h] /\ n \in 1 .. MaxDepth
  BY BoundAssumption
<1>2. SUFFICES ASSUME NEW d \in Contents
               PROVE  /\ IsFiniteSet(Places(d)')
                      /\ Cardinality(Places(d)') = SessionsOf(new, d)
  BY DEF TallyNext
<1>3. Places(d)' = PlacesWith(s, h, d) /\ Places(d) = PlacesWith(s, held[s], d)
  BY <1>1, PlacesChange, PlacesNow
<1>4. {i \in 1 .. MaxDepth : i <= Len(h) /\ h[i] = d} =
        {i \in 1 .. MaxDepth : i <= Len(held[s]) /\ held[s][i] = d}
          \cup (IF d = c THEN {n} ELSE {})
  BY <1>1
<1>5. Places(d)' = Places(d) \cup (IF d = c THEN {<<s, n>>} ELSE {})
  <2> DEFINE U == {i \in 1 .. MaxDepth : i <= Len(held[s]) /\ held[s][i] = d}
  <2> HIDE DEF U, h, n
  <2>1. PlacesOf(s, U \cup {n}) = PlacesOf(s, U) \cup {<<s, n>>}
    BY DEF PlacesOf
  <2>2. CASE d = c
    BY <1>3, <1>4, <2>1, <2>2 DEF PlacesWith, U
  <2>3. CASE d # c
    BY <1>3, <1>4, <2>3 DEF PlacesWith, U
  <2> QED
    BY <2>2, <2>3
<1>6. <<s, n>> \notin Places(d)
  BY DEF Places
<1>7. IsFiniteSet(Places(d)) /\ Cardinality(Places(d)) = SessionsOf(idx, d)
  BY DEF Tally
<1> HIDE DEF n, h
<1>8. CASE d = c
  <2>1. IsFiniteSet(Places(d)') /\ Cardinality(Places(d)') = Cardinality(Places(d)) + 1
    <3>1. Places(d)' = Places(d) \cup {<<s, n>>}
      BY <1>5, <1>8
    <3>2. /\ IsFiniteSet(Places(d) \cup {<<s, n>>})
          /\ Cardinality(Places(d) \cup {<<s, n>>}) = Cardinality(Places(d)) + 1
      BY <1>6, <1>7, FS_AddElement
    <3> QED
      BY <3>1, <3>2
  <2> QED
    BY <1>7, <1>8, <2>1 DEF SessionsOf
<1>9. CASE d # c
  <2>1. Places(d)' = Places(d)
    BY <1>5, <1>9
  <2>2. d \in DOMAIN idx => idx[d].refcount_sessions \in Nat
    BY IndexIff DEF Entry
  <2> QED
    BY <1>7, <1>9, <2>1, <2>2 DEF SessionsOf
<1> QED
  BY <1>8, <1>9

\* A rollback or a destroy takes away the places above the first k.
LEMMA TallyCut ==
  ASSUME NEW s \in Sids, NEW idx \in Index, Tally(idx),
         held \in [Sids -> Seq(Contents)], Len(held[s]) <= MaxDepth,
         NEW k \in Nat, NEW h \in Seq(Contents), held' = [held EXCEPT ![s] = h],
         \A i : i \in 1 .. Len(h) <=> i \in 1 .. Len(held[s]) /\ i <= k,
         \A i \in 1 .. Len(h) : h[i] = held[s][i]
  PROVE  TallyNext(IndexWithout(idx, held[s], k))
<1> DEFINE new == IndexWithout(idx, held[s], k)
<1>1. /\ DOMAIN new = DOMAIN idx
      /\ \A c \in DOMAIN idx :
           new[c].refcount_sessions =
             Minus(idx[c].refcount_sessions, Cardinality(Uses(held[s], k, c)))
  <2>1. held[s] \in Seq(Contents)
    OBVIOUS
  <2> QED
    BY <2>1, WithoutFields
<1> SUFFICES ASSUME NEW c \in Contents
             PROVE  /\ IsFiniteSet(Places(c)')
                    /\ Cardinality(Places(c)') = SessionsOf(new, c)
  BY DEF TallyNext
<1>2. held[s] \in Seq(Contents) /\ held' \in [Sids -> Seq(Contents)]
  OBVIOUS
<1> DEFINE U == Uses(held[s], k, c)
           gone == PlacesOf(s, U)
<1>3. IsFiniteSet(U) /\ Cardinality(U) \in Nat
  BY <1>2, UsesFinite
<1>4. IsFiniteSet(gone) /\ Cardinality(gone) = Cardinality(U)
  BY <1>3, PlacesOfCount
<1>5. IsFiniteSet(Places(c)) /\ Cardinality(Places(c)) = SessionsOf(idx, c)
  BY DEF Tally
<1>6. Places(c)' = PlacesWith(s, h, c) /\ Places(c) = PlacesWith(s, held[s], c)
  BY <1>2, PlacesChange, PlacesNow
<1>7. \A i : i \in U <=> i \in 1 .. Len(held[s]) /\ ~ (i <= k) /\ held[s][i] = c
  BY <1>2 DEF Uses
<1>8. gone \subseteq Places(c) /\ Places(c)' = Places(c) \ gone
  <2> DEFINE old == {i \in 1 .. MaxDepth : i <= Len(held[s]) /\ held[s][i] = c}
             kept == {i \in 1 .. MaxDepth : i <= Len(h) /\ h[i] = c}
  <2>1. \A i : i \in 1 .. Len(held[s]) <=> i \in 1 .. MaxDepth /\ i <= Len(held[s])
    BY <1>2, BoundAssumption
  <2>2. \A i : i \in 1 .. Len(h) <=> i \in 1 .. MaxDepth /\ i <= Len(h)
    <3>1. \A i \in 1 .. Len(h) : i \in 1 .. MaxDepth
      BY <2>1
    <3> QED
      BY <3>1
  <2>3. U \subseteq old /\ kept = old \ U
    <3>1. U \subseteq old
      BY <1>7, <2>1
    <3>2. \A i : i \in kept <=> i \in old /\ i \notin U
      BY <1>7, <2>1, <2>2
    <3> QED
      BY <3>1, <3>2
  <2> HIDE DEF old, kept, U
  <2>4. gone \subseteq PlacesOf(s, old) /\ PlacesOf(s, kept) = PlacesOf(s, old) \ gone
    BY <2>3 DEF PlacesOf
  <2>5. \A x \in gone : x[1] = s
    BY DEF PlacesOf
  <2> QED
    BY <1>6, <2>4, <2>5 DEF PlacesWith, old, kept
<1> HIDE DEF U, gone, new
<1>9. /\ IsFiniteSet(Places(c) \ gone)
      /\ Cardinality(Places(c) \ gone) = Cardinality(Places(c)) - Cardinality(Places(c) \cap gone)
  BY <1>5, FS_Difference
<1>10. /\ Places(c) \cap gone = gone
       /\ Cardinality(Places(c)) \in Nat /\ Cardinality(gone) <= Cardinality(Places(c))
  <2>1. Places(c) \cap gone = gone
    BY <1>8
  <2> QED
    BY <1>5, <1>8, <2>1, FS_CardinalityType, FS_Subset
<1>11. Cardinality(Places(c)') = Minus(Cardinality(Places(c)), Cardinality(U))
  <2>1. Cardinality(Places(c)') = Cardinality(Places(c) \ gone)
    BY <1>8
  <2>2. Cardinality(Places(c) \ gone) = Cardinality(Places(c)) - Cardinality(gone)
    BY <1>9, <1>10
  <2> QED
    BY <1>3, <1>4, <1>10, <2>1, <2>2 DEF Minus
<1>12. SessionsOf(new, c) = Minus(SessionsOf(idx, c), Cardinality(U))
  <2>1. CASE c \in DOMAIN idx
    BY <1>1, <2>1 DEF SessionsOf, U
  <2>2. CASE c \notin DOMAIN idx
    BY <1>1, <1>3, <2>2 DEF SessionsOf, Minus
  <2> QED
    BY <2>1, <2>2
<1> QED
  BY <1>5, <1>8, <1>9, <1>11, <1>12

-------------------------------------------------------------------------------
(* The counts of the index are exact *)

\* What a gc that got to label l knows of the index in its memory: the counts are
\* right, what is left to pop is free, and what is being removed was popped.
GcOK(idx, rest, c, l) ==
  /\ Tally(idx) /\ Family(idx)
  /\ l \in {"gc.remove", "gc.rmtree"} => \A d \in rest : Free(idx, d)
  /\ l = "gc.rmtree" => c \in Contents \ DOMAIN idx

Collectors ==
  \A p \in Procs : pc[p] \in Collecting => GcOK(mem[p], batch[p], arg[p], pc[p])

CountInv == Tally(index) /\ Family(index) /\ Collectors

\* A layer that a session stacks is in an index with the right counts.
LEMMA StackedIsCounted ==
  ASSUME NEW idx, Tally(idx), held \in [Sids -> Seq(Contents)], Short,
         NEW s \in Sids, NEW i \in 1 .. Len(held[s])
  PROVE  held[s][i] \in DOMAIN idx /\ <<s, i>> \in Places(held[s][i])
<1> DEFINE c == held[s][i]
<1>1. held[s] \in Seq(Contents) /\ c \in Contents
  OBVIOUS
<1>2. i \in 1 .. MaxDepth /\ i <= Len(held[s])
  BY <1>1, BoundAssumption DEF Short
<1>3. <<s, i>> \in Places(c)
  BY <1>2 DEF Places
<1>4. IsFiniteSet(Places(c)) /\ Cardinality(Places(c)) = SessionsOf(idx, c)
  BY <1>1 DEF Tally
<1>5. Cardinality(Places(c)) # 0
  BY <1>3, <1>4, FS_EmptySet
<1> QED
  BY <1>3, <1>4, <1>5 DEF SessionsOf

\* A step that leaves the index on disk alone keeps the counts if it does right by
\* its own gc.
LEMMA CountFrame ==
  ASSUME CountInv, NEW p \in Procs, index' = index, held' = held,
         \A q \in Procs \ {p} : /\ pc'[q] = pc[q] /\ mem'[q] = mem[q]
                                /\ batch'[q] = batch[q] /\ arg'[q] = arg[q],
         pc'[p] \in Collecting => GcOK(mem'[p], batch'[p], arg'[p], pc'[p])
  PROVE  CountInv'
<1>1. \A c : Places(c)' = Places(c)
  BY DEF Places
<1>2. Tally(index)' /\ Family(index)'
  BY <1>1 DEF CountInv, Tally, SessionsOf, Family, Children
<1>3. ASSUME NEW q \in Procs, pc'[q] \in Collecting
      PROVE  GcOK(mem'[q], batch'[q], arg'[q], pc'[q])
  BY <1>3 DEF CountInv, Collectors
<1>4. Collectors'
  BY <1>1, <1>3 DEF Collectors, GcOK, Tally, SessionsOf, Family, Children, Free
<1> QED
  BY <1>2, <1>4 DEF CountInv

\* A step that saves an index with the right counts keeps them, because no other
\* server is inside its critical section.
LEMMA CountSaved ==
  ASSUME CriticalHoldsLock, NEW p \in Procs, pc[p] \in Critical,
         \A q \in Procs \ {p} : pc'[q] = pc[q], pc'[p] \notin Collecting,
         TallyNext(index'), Family(index')
  PROVE  CountInv'
<1>1. Tally(index)' /\ Family(index)'
  BY DEF TallyNext, Tally, SessionsOf, Family, Children
<1>2. \A q \in Procs : pc'[q] \notin Collecting
  BY DEF CriticalHoldsLock, Critical, Collecting
<1> QED
  BY <1>1, <1>2 DEF CountInv, Collectors

\* The steps that save what was computed from the index on disk.
LEMMA SaveCounts ==
  ASSUME LockInv, SessionInv, CountInv, NEW p \in Procs,
         CommitSave(p) \/ RollbackSave(p) \/ DestroySave(p)
  PROVE  CountInv'
<1>1. /\ TypeInv /\ ArgOK /\ CriticalHoldsLock /\ NoLostUpdate
      /\ Phases /\ Owned /\ Short /\ Victims
      /\ Tally(index) /\ Family(index)
  BY DEF LockInv, SessionInv, CountInv
<1>2. /\ pc \in [Procs -> Labels] /\ mode \in [Procs -> Modes]
      /\ held \in [Sids -> Seq(Contents)] /\ stack \in [Procs -> Seq(Contents)]
      /\ index \in Index
  BY <1>1 DEF TypeInv, FieldsOK
<1>3. mem[p] = index /\ pc[p] \in Critical
  BY <1>1 DEF NoLostUpdate, CommitSave, RollbackSave, DestroySave, Critical
<1>4. pc'[p] \notin Collecting /\ \A q \in Procs \ {p} : pc'[q] = pc[q]
  BY <1>2 DEF CommitSave, RollbackSave, DestroySave, Goto, Collecting
<1>5. SUFFICES TallyNext(index') /\ Family(index')
  BY <1>1, <1>3, <1>4, CountSaved
<1>6. CommitSave(p) \/ RollbackSave(p) => OwnSession(p)
  BY <1>1, <1>2 DEF CommitSave, RollbackSave, Phases, Owned, HasSession, Modes, Sweeping,
     Creating
<1>7. CASE CommitSave(p)
  <2> DEFINE s == sess[p]
             c == arg[p]
             new == IndexWithCommit(index, c, held[s])
  <2>1. /\ s \in Sids /\ held[s] = stack[p] /\ Len(held[s]) < MaxDepth
        /\ c \in Contents
    BY <1>1, <1>6, <1>7 DEF OwnSession, CommitSave, ArgOK, Committing
  <2>2. index' = new /\ held' = [held EXCEPT ![s] = Append(@, c)]
    BY <1>3, <1>7, <2>1 DEF CommitSave
  <2>3. CommitCounted(index, c, held[s], new)
    BY <1>2, <2>1, WithCommitFields
  <2> HIDE DEF s, c, new
  <2>4. TallyNext(new)
    <3>1. /\ DOMAIN new = DOMAIN index \cup {c}
          /\ \A d \in DOMAIN new :
               new[d].refcount_sessions = SessionsOf(index, d) + (IF d = c THEN 1 ELSE 0)
      BY <2>3 DEF CommitCounted
    <3> QED
      BY <1>1, <1>2, <2>1, <2>2, <3>1, TallyCommit
  <2>5. held[s] # <<>> => held[s][Len(held[s])] \in DOMAIN index
    <3>1. held[s] # <<>> => Len(held[s]) \in 1 .. Len(held[s])
      BY <1>2, <2>1
    <3> QED
      BY <1>1, <1>2, <2>1, <3>1, StackedIsCounted
  <2>6. Family(new)
    BY <1>1, <1>2, <2>1, <2>5, WithCommitFamily DEF new
  <2> QED
    BY <2>2, <2>4, <2>6
<1>8. CASE RollbackSave(p)
  <2> DEFINE s == sess[p]
             k == FirstUse(stack[p], arg[p])
             new == IndexWithout(index, held[s], k)
  <2>1. s \in Sids /\ held[s] = stack[p] /\ held[s] \in Seq(Contents)
    BY <1>2, <1>6, <1>8 DEF OwnSession
  <2>2. k \in 1 .. Len(held[s])
    <3> PICK i \in 1 .. Len(stack[p]) : arg[p] = stack[p][i]
      BY <1>1, <1>8 DEF RollbackSave, ArgOK, Stacks
    <3> QED
      BY <2>1, FirstUseExists
  <2> HIDE DEF s, k
  <2>3. index' = new /\ held' = [held EXCEPT ![s] = Bottom(held[s], k)]
    BY <1>3, <1>8, <2>1 DEF RollbackSave, s, k
  <2>4. /\ Bottom(held[s], k) \in Seq(Contents)
        /\ \A i : i \in 1 .. Len(Bottom(held[s], k)) <=> i \in 1 .. Len(held[s]) /\ i <= k
        /\ \A i \in 1 .. Len(Bottom(held[s], k)) : Bottom(held[s], k)[i] = held[s][i]
    BY <2>1, <2>2 DEF Bottom
  <2>5. TallyNext(new)
    <3>1. Len(held[s]) <= MaxDepth /\ k \in Nat
      BY <1>1, <2>1, <2>2 DEF Short
    <3> QED
      BY <1>1, <1>2, <2>1, <2>3, <2>4, <3>1, TallyCut
  <2>6. Family(new)
    BY <1>1, <1>2, <2>1, <2>2, WithoutFamily
  <2> QED
    BY <2>3, <2>5, <2>6
<1>9. CASE DestroySave(p)
  <2> DEFINE s == victim[p]
             new == IndexWithout(index, held[s], 0)
  <2>1. s \in Sids /\ held[s] = vstack[p] /\ held[s] \in Seq(Contents)
    BY <1>1, <1>2, <1>9 DEF DestroySave, Victims, VictimOK, Sweeping
  <2> HIDE DEF s
  <2>2. index' = new /\ held' = [held EXCEPT ![s] = <<>>]
    <3>1. SubSeq(held[s], Len(held[s]) + 1, Len(held[s])) = <<>>
      BY <2>1
    <3> QED
      BY <1>3, <1>9, <2>1, <3>1 DEF DestroySave, s
  <2>3. TallyNext(new)
    <3>1. Len(held[s]) <= MaxDepth
      BY <1>1, <2>1 DEF Short
    <3> DEFINE h == <<>>
    <3>2. /\ h \in Seq(Contents) /\ held' = [held EXCEPT ![s] = h]
          /\ \A i : i \in 1 .. Len(h) <=> i \in 1 .. Len(held[s]) /\ i <= 0
          /\ \A i \in 1 .. Len(h) : h[i] = held[s][i]
      BY <2>1, <2>2
    <3> HIDE DEF h
    <3> QED
      BY <1>1, <1>2, <2>1, <3>1, <3>2, TallyCut
  <2>4. Family(new)
    BY <1>1, <1>2, <2>1, WithoutFamily
  <2> QED
    BY <2>2, <2>3, <2>4
<1> QED
  BY <1>7, <1>8, <1>9

\* The steps of gc: it removes what nothing refers to from the index in its memory.
LEMMA GcCounts ==
  ASSUME LockInv, CountInv, NEW p \in Procs, Gc(p)
  PROVE  CountInv'
<1>1. /\ TypeInv /\ CriticalHoldsLock
      /\ Tally(index) /\ Family(index) /\ Collectors
      /\ pc \in [Procs -> Labels] /\ mem \in [Procs -> Index]
      /\ batch \in [Procs -> SUBSET Contents]
      /\ arg \in [Procs -> Contents \cup {NoContent}]
  BY DEF LockInv, CountInv, TypeInv, FieldsOK
<1> USE DEF Goto, store, disk, session, gcvars, sweeping, Collecting
<1>2. pc[p] \in Collecting => GcOK(mem[p], batch[p], arg[p], pc[p])
  BY <1>1 DEF Collectors
<1>3. CASE GcBegin(p)
  BY <1>1, <1>3, CountFrame DEF GcBegin
<1>4. CASE GcLock(p)
  <2>1. GcOK(index, batch[p], arg[p], "gc.scan")
    BY <1>1 DEF GcOK
  <2> QED
    BY <1>1, <1>4, <2>1, CountFrame DEF GcLock, Load
<1>5. CASE GcScan(p)
  BY <1>1, <1>2, <1>5, CountFrame DEF GcScan
<1>6. CASE GcScanRaises(p) \/ GcRmtreeRaises(p)
  BY <1>1, <1>6, CountFrame DEF GcScanRaises, GcRmtreeRaises, GcLeave, Forget
<1>7. CASE GcScanned(p)
  <2>1. GcOK(mem[p], batch[p], arg[p], "gc.pass")
    BY <1>2, <1>7 DEF GcScanned, GcOK
  <2> QED
    BY <1>1, <1>7, <2>1, CountFrame DEF GcScanned
<1>8. CASE GcPass(p)
  <2>1. GcOK(mem[p], Unreferenced(mem[p], live[p]), arg[p], "gc.remove")
    BY <1>2, <1>8 DEF GcPass, GcOK, Unreferenced, Free
  <2> QED
    BY <1>1, <1>8, <2>1, CountFrame DEF GcPass
<1>9. CASE GcPop(p)
  <2> PICK c \in batch[p] : /\ arg' = [arg EXCEPT ![p] = c]
                            /\ batch' = [batch EXCEPT ![p] = @ \ {c}]
                            /\ mem' = [mem EXCEPT ![p] = IndexPopped(@, c)]
    BY <1>9 DEF GcPop
  <2> DEFINE idx == mem[p]
             new == IndexPopped(idx, c)
  <2>1. idx \in Index /\ c \in Contents
    BY <1>1
  <2>2. Tally(idx) /\ Family(idx) /\ \A d \in batch[p] : Free(idx, d)
    BY <1>2, <1>9 DEF GcPop, GcOK
  <2> HIDE DEF idx
  <2>3. /\ DOMAIN new = DOMAIN idx \ {c}
        /\ \A d \in DOMAIN new : new[d].refcount_sessions = idx[d].refcount_sessions
        /\ \A d \in DOMAIN new : Free(idx, d) => Free(new, d)
        /\ Family(new)
    BY <2>1, <2>2, PoppedFamily
  <2> HIDE DEF new
  <2>4. \A d \in Contents : SessionsOf(new, d) = SessionsOf(idx, d)
    BY <2>2, <2>3 DEF SessionsOf, Free
  <2>5. GcOK(new, batch[p] \ {c}, c, "gc.rmtree")
    BY <2>1, <2>2, <2>3, <2>4 DEF GcOK, Tally, Free
  <2>6. pc' = [pc EXCEPT ![p] = "gc.rmtree"] /\ index' = index /\ held' = held
    BY <1>9 DEF GcPop
  <2>7. GcOK(mem'[p], batch'[p], arg'[p], pc'[p])
    BY <1>1, <2>5, <2>6 DEF new, idx
  <2> QED
    BY <1>1, <2>6, <2>7, CountFrame
<1>10. CASE GcRemoved(p)
  <2>1. \A l \in {"gc.pass", "gc.remove"} : GcOK(mem[p], batch[p], NoContent, l)
    BY <1>2, <1>10 DEF GcRemoved, GcOK
  <2> QED
    BY <1>1, <1>10, <2>1, CountFrame DEF GcRemoved
<1>11. CASE GcSave(p)
  <2>1. index' = mem[p] /\ held' = held /\ pc' = [pc EXCEPT ![p] = "idle"]
    BY <1>11 DEF GcSave, GcLeave
  <2>2. Tally(mem[p]) /\ Family(mem[p]) /\ pc[p] = "gc.pass"
    BY <1>2, <1>11 DEF GcSave, GcOK
  <2>3. TallyNext(index') /\ Family(index')
    <3>1. \A c : Places(c)' = Places(c)
      BY <2>1 DEF Places
    <3> QED
      BY <2>1, <2>2, <3>1 DEF TallyNext, Tally
  <2> QED
    BY <1>1, <2>1, <2>2, <2>3, CountSaved DEF Critical
<1> QED
  BY <1>3, <1>4, <1>5, <1>6, <1>7, <1>8, <1>9, <1>10, <1>11 DEF Gc

\* The other steps touch neither the index nor the memory of a gc.
LEMMA OtherCounts ==
  ASSUME LockInv, CountInv, NEW p \in Procs,
         \/ Startup(p) \/ Commit(p) \/ Rollback(p) \/ Destroy(p) \/ End(p),
         ~ (CommitSave(p) \/ RollbackSave(p) \/ DestroySave(p))
  PROVE  CountInv'
<1>1. /\ pc \in [Procs -> Labels] /\ mem \in [Procs -> Index]
      /\ batch \in [Procs -> SUBSET Contents]
      /\ arg \in [Procs -> Contents \cup {NoContent}]
  BY DEF LockInv, TypeInv, FieldsOK
<1> SUFFICES /\ index' = index /\ held' = held
             /\ \A q \in Procs \ {p} : /\ pc'[q] = pc[q] /\ mem'[q] = mem[q]
                                       /\ batch'[q] = batch[q] /\ arg'[q] = arg[q]
             /\ pc'[p] \in Collecting => GcOK(mem'[p], batch'[p], arg'[p], pc'[p])
  BY CountFrame
<1> USE <1>1 DEF Goto, store, disk, session, gcvars, sweeping, Collecting
<1>2. CASE Start(p) \/ SweepDone(p) \/ CreateDirs(p) \/ CreatePid(p)
  BY <1>2 DEF Start, SweepDone, CreateDirs, CreatePid
<1>3. CASE PersistOpen(p) \/ PersistDump(p) \/ RootGone(p)
  BY <1>3 DEF PersistOpen, PersistDump, RootGone, BeginShutdown
<1>4. CASE CommitBegin(p) \/ CommitDedupe(p) \/ CommitMakeDir(p)
  BY <1>4 DEF CommitBegin, CommitDedupe, CommitMakeDir, Load
<1>5. CASE CommitCopied(p) \/ CommitCopyFails(p)
  BY <1>5 DEF CommitCopied, CommitCopyFails, Load
<1>6. CASE RollbackBegin(p) \/ RollbackLock(p) \/ DestroyLock(p)
  BY <1>6 DEF RollbackBegin, RollbackLock, DestroyLock, Load
<1>7. CASE VisitSkip(p) \/ VisitCondemn(p)
  BY <1>7 DEF VisitSkip, VisitCondemn
<1>8. CASE RmtreeList(p) \/ RmtreeUnlink(p) \/ RmtreeEnd(p)
  BY <1>8 DEF RmtreeList, RmtreeUnlink, RmtreeEnd
<1>9. CASE Exit(p) \/ Sigterm(p) \/ SigtermDone(p)
  BY <1>9 DEF Exit, Sigterm, SigtermDone, BeginShutdown
<1>10. CASE ExitDone(p) \/ Kill(p)
  BY <1>10 DEF ExitDone, Kill, ProcessEnds, Forget
<1> QED
  BY <1>2, <1>3, <1>4, <1>5, <1>6, <1>7, <1>8, <1>9, <1>10
     DEF Startup, Commit, Rollback, Destroy, End

\* The counts are right to begin with, and stay right.
LEMMA CountInvInductive ==
  ASSUME Orderly
  PROVE  /\ Init => CountInv
         /\ LockInv /\ SessionInv /\ CountInv /\ [Next]_vars => CountInv'
<1>1. Init => CountInv
  <2> SUFFICES ASSUME Init PROVE CountInv
    OBVIOUS
  <2>1. DOMAIN index = {}
    BY DEF Init, EmptyIndex
  <2>2. \A c : Places(c) = {}
    BY BoundAssumption DEF Init, Places
  <2>3. Tally(index)
    BY <2>1, <2>2, FS_EmptySet DEF Tally, SessionsOf
  <2>4. Family(index)
    BY <2>1, FS_EmptySet DEF Family
  <2>5. Collectors
    BY DEF Init, Collectors, Collecting
  <2> QED
    BY <2>3, <2>4, <2>5 DEF CountInv
<1>2. LockInv /\ SessionInv /\ CountInv /\ Next => CountInv'
  BY SaveCounts, GcCounts, OtherCounts DEF Next
<1>3. CountInv /\ UNCHANGED vars => CountInv'
  <2> SUFFICES ASSUME CountInv, UNCHANGED vars PROVE CountInv'
    OBVIOUS
  <2>1. \A c : Places(c)' = Places(c)
    BY DEF Places, vars
  <2>2. Tally(index)' /\ Family(index)'
    BY <2>1 DEF CountInv, Tally, SessionsOf, Family, Children, vars
  <2>3. Collectors'
    <3>1. pc' = pc /\ mem' = mem /\ batch' = batch /\ arg' = arg
      BY DEF vars
    <3>2. ASSUME NEW p \in Procs, GcOK(mem[p], batch[p], arg[p], pc[p])
          PROVE  GcOK(mem[p], batch[p], arg[p], pc[p])'
      BY <2>1, <3>1, <3>2 DEF GcOK, Tally, SessionsOf, Family, Children, Free
    <3> QED
      BY <3>1, <3>2 DEF CountInv, Collectors
  <2> QED
    BY <2>2, <2>3 DEF CountInv
<1> QED
  BY <1>1, <1>2, <1>3

\* The counts that the runs check.
LEMMA CountsRight ==
  ASSUME TypeInv, CountInv
  PROVE  SessionsCounted /\ ParentsCounted
<1>1. DOMAIN index \subseteq Contents
  BY IndexIff DEF TypeInv
<1>2. ASSUME NEW c \in DOMAIN index
      PROVE  index[c].refcount_sessions = Cardinality(Places(c))
  BY <1>1, <1>2 DEF CountInv, Tally, SessionsOf
<1>3. ASSUME NEW c \in Contents \ DOMAIN index PROVE Places(c) = {}
  <2>1. IsFiniteSet(Places(c)) /\ Cardinality(Places(c)) = 0
    BY <1>3 DEF CountInv, Tally, SessionsOf
  <2> QED
    BY <2>1, FS_EmptySet
<1>4. ParentsCounted
  BY DEF CountInv, Family, Children, ParentsCounted
<1> QED
  BY <1>2, <1>3, <1>4 DEF SessionsCounted

\* refcount_sessions of the index on disk counts exactly the places that sessions
\* stack a layer at, whatever tool of whatever server is half-way, for any number of
\* servers, as long as none is killed or signalled and they start and stop one after
\* the other: commit, rollback, destroy and gc neither lose nor invent a reference.
THEOREM SessionsCountedRight ==
  ASSUME Orderly
  PROVE  Spec => []SessionsCounted
<1>1. LockInv /\ CountInv => SessionsCounted
  BY CountsRight DEF LockInv
<1> QED
  BY <1>1, LockInvInductive, SessionInvInductive, CountInvInductive, PTL DEF Spec

\* refcount_layers of the index on disk counts exactly the entries whose parent it
\* is, under the same conditions: gc never removes a layer that another one is built
\* on, and never keeps one because of a child that is gone.
THEOREM ParentsCountedRight ==
  ASSUME Orderly
  PROVE  Spec => []ParentsCounted
<1>1. LockInv /\ CountInv => ParentsCounted
  BY CountsRight DEF LockInv
<1> QED
  BY <1>1, LockInvInductive, SessionInvInductive, CountInvInductive, PTL DEF Spec

\* A layer that a serving session stacks is counted for each of the places it is
\* stacked at, for any number of servers.
THEOREM ServedAreCounted ==
  ASSUME Orderly
  PROVE  Spec => []NeverUndercounted
<1>1. ASSUME LockInv, SessionInv, CountInv, NEW p \in Procs, InService(p),
             NEW c \in Contents, Cardinality(Uses(stack[p], 0, c)) > 0
      PROVE  /\ c \in DOMAIN index
             /\ index[c].refcount_sessions >= Cardinality(Uses(stack[p], 0, c))
  <2> DEFINE s == sess[p]
             U == Uses(stack[p], 0, c)
  <2>1. /\ s \in Sids /\ held[s] = stack[p] /\ stack[p] \in Seq(Contents)
        /\ Len(stack[p]) <= MaxDepth
    BY <1>1 DEF InService, HasSession, SessionInv, Owned, OwnSession, Short, LockInv,
       TypeInv, FieldsOK
  <2>2. IsFiniteSet(U) /\ Cardinality(U) \in Nat
    BY <2>1, UsesFinite
  <2>3. IsFiniteSet(PlacesOf(s, U)) /\ Cardinality(PlacesOf(s, U)) = Cardinality(U)
    BY <2>2, PlacesOfCount
  <2>4. PlacesOf(s, U) \subseteq Places(c)
    BY <2>1, BoundAssumption DEF PlacesOf, Places, Uses
  <2> HIDE DEF s, U
  <2>5. IsFiniteSet(Places(c)) /\ Cardinality(Places(c)) = SessionsOf(index, c)
    BY <1>1 DEF CountInv, Tally
  <2>6. Cardinality(PlacesOf(s, U)) <= Cardinality(Places(c))
    BY <2>4, <2>5, FS_Subset
  <2>7. Cardinality(U) > 0
    BY <1>1 DEF U
  <2>8. Cardinality(Places(c)) \in Nat
    BY <2>5, FS_CardinalityType
  <2>9. SessionsOf(index, c) >= Cardinality(U) /\ SessionsOf(index, c) # 0
    BY <2>2, <2>3, <2>5, <2>6, <2>7, <2>8
  <2> QED
    BY <2>9 DEF SessionsOf, U
<1>2. LockInv /\ SessionInv /\ CountInv => NeverUndercounted
  BY <1>1 DEF NeverUndercounted
<1> QED
  BY <1>2, LockInvInductive, SessionInvInductive, CountInvInductive, PTL DEF Spec

-------------------------------------------------------------------------------
(* The directories of stacked layers *)

Step(p) == Startup(p) \/ Commit(p) \/ Rollback(p) \/ Gc(p) \/ Destroy(p) \/ End(p)

\* Which steps change the layers and the stacks, and where they may come and go.
LEMMA StoreSteps ==
  ASSUME TypeInv, NEW p \in Procs, Step(p)
  PROVE  /\ \A q \in Procs \ {p} : pc'[q] = pc[q] /\ arg'[q] = arg[q]
         /\ \/ layer' = layer
            \/ CommitMakeDir(p) \/ CommitCopied(p) \/ GcPop(p) \/ GcRemoved(p)
         /\ held' = held \/ CommitSave(p) \/ RollbackSave(p) \/ DestroySave(p)
         /\ pc'[p] = "commit.copy" => CommitMakeDir(p)
         /\ pc'[p] = "commit.save" => CommitDedupe(p) \/ CommitCopied(p)
         /\ pc'[p] = "gc.rmtree" => GcPop(p)
         /\ pc[p] \in {"commit.copy", "gc.rmtree"} =>
              \/ CommitCopied(p) \/ CommitCopyFails(p)
              \/ GcRemoved(p) \/ GcRmtreeRaises(p)
              \/ Sigterm(p) \/ Kill(p)
<1>1. pc \in [Procs -> Labels] /\ arg \in [Procs -> Contents \cup {NoContent}]
  BY DEF TypeInv, FieldsOK
<1> USE <1>1 DEF Goto, store
<1>2. CASE Start(p) \/ SweepDone(p) \/ CreateDirs(p) \/ CreatePid(p)
  BY <1>2 DEF Start, SweepDone, CreateDirs, CreatePid
<1>3. CASE PersistOpen(p) \/ PersistDump(p) \/ RootGone(p)
  BY <1>3 DEF PersistOpen, PersistDump, RootGone, BeginShutdown
<1>4. CASE CommitBegin(p) \/ CommitDedupe(p) \/ CommitMakeDir(p)
  BY <1>4 DEF CommitBegin, CommitDedupe, CommitMakeDir
<1>5. CASE CommitCopied(p) \/ CommitCopyFails(p) \/ CommitSave(p)
  BY <1>5 DEF CommitCopied, CommitCopyFails, CommitSave
<1>6. CASE Rollback(p)
  BY <1>6 DEF Rollback, RollbackBegin, RollbackLock, RollbackSave
<1>7. CASE GcBegin(p) \/ GcLock(p) \/ GcScan(p) \/ GcScanRaises(p) \/ GcScanned(p)
  BY <1>7 DEF GcBegin, GcLock, GcScan, GcScanRaises, GcScanned, GcLeave
<1>8. CASE GcPass(p) \/ GcPop(p) \/ GcRemoved(p) \/ GcRmtreeRaises(p) \/ GcSave(p)
  BY <1>8 DEF GcPass, GcPop, GcRemoved, GcRmtreeRaises, GcSave, GcLeave
<1>9. CASE VisitSkip(p) \/ VisitCondemn(p) \/ DestroyLock(p) \/ DestroySave(p)
  BY <1>9 DEF VisitSkip, VisitCondemn, DestroyLock, DestroySave
<1>10. CASE RmtreeList(p) \/ RmtreeUnlink(p) \/ RmtreeEnd(p)
  BY <1>10 DEF RmtreeList, RmtreeUnlink, RmtreeEnd
<1>11. CASE Exit(p) \/ Sigterm(p) \/ SigtermDone(p)
  BY <1>11 DEF Exit, Sigterm, SigtermDone, BeginShutdown
<1>12. CASE ExitDone(p) \/ Kill(p)
  BY <1>12 DEF ExitDone, Kill, ProcessEnds
<1> QED
  BY <1>2, <1>3, <1>4, <1>5, <1>6, <1>7, <1>8, <1>9, <1>10, <1>11, <1>12
     DEF Step, Startup, Commit, Gc, Destroy, End

\* Only a commit stacks a layer, the one it committed, and gc works on layers that
\* nobody stacks.
LEMMA StackSteps ==
  ASSUME LockInv, SessionInv, CountInv, NEW p \in Procs, Step(p), NEW c \in Contents
  PROVE  /\ Places(c)' # {} => Places(c) # {} \/ (CommitSave(p) /\ c = arg[p])
         /\ GcPop(p) /\ c = arg'[p] => Places(c) = {}
         /\ GcRemoved(p) /\ c = arg[p] => Places(c) = {}
<1>1. /\ TypeInv /\ Phases /\ Owned /\ Short /\ Victims /\ Collectors
      /\ pc \in [Procs -> Labels] /\ mode \in [Procs -> Modes]
      /\ held \in [Sids -> Seq(Contents)] /\ stack \in [Procs -> Seq(Contents)]
      /\ vstack \in [Procs -> Seq(Contents)]
      /\ arg \in [Procs -> Contents \cup {NoContent}] /\ ArgOK
  BY DEF LockInv, SessionInv, CountInv, TypeInv, FieldsOK
<1>2. CommitSave(p) \/ RollbackSave(p) => OwnSession(p)
  BY <1>1 DEF CommitSave, RollbackSave, Phases, Owned, HasSession, Modes, Sweeping,
     Creating
<1>3. ASSUME CommitSave(p), Places(c)' # {}, c # arg[p] PROVE Places(c) # {}
  <2>1. PICK s \in Sids, i \in 1 .. MaxDepth : i <= Len(held'[s]) /\ held'[s][i] = c
    BY <1>3 DEF Places
  <2>2. arg[p] \in Contents
    BY <1>1, <1>3 DEF CommitSave, ArgOK
  <2>3. s = sess[p] => held'[s] = Append(held[s], arg[p])
    BY <1>1, <1>3 DEF CommitSave
  <2>4. s # sess[p] => held'[s] = held[s]
    BY <1>1, <1>3 DEF CommitSave
  <2>5. i <= Len(held[s]) /\ held[s][i] = c
    BY <1>1, <1>3, <2>1, <2>2, <2>3, <2>4
  <2>6. <<s, i>> \in Places(c)
    BY <2>1, <2>5 DEF Places
  <2> QED
    BY <2>6
<1>4. ASSUME RollbackSave(p), Places(c)' # {} PROVE Places(c) # {}
  <2>1. PICK s \in Sids, i \in 1 .. MaxDepth : i <= Len(held'[s]) /\ held'[s][i] = c
    BY <1>4 DEF Places
  <2>2. FirstUse(stack[p], arg[p]) \in Nat
    <3> PICK j \in 1 .. Len(stack[p]) : arg[p] = stack[p][j]
      BY <1>1, <1>4 DEF RollbackSave, ArgOK, Stacks
    <3>1. stack[p] \in Seq(Contents)
      BY <1>1
    <3> QED
      BY <3>1, FirstUseExists
  <2>3. s = sess[p] => held'[s] = Bottom(held[s], FirstUse(stack[p], arg[p]))
    BY <1>1, <1>4 DEF RollbackSave
  <2>4. s # sess[p] => held'[s] = held[s]
    BY <1>1, <1>4 DEF RollbackSave
  <2>5. i <= Len(held[s]) /\ held[s][i] = c
    <3>1. held[s] \in Seq(Contents)
      BY <1>1
    <3>2. CASE s = sess[p]
      <4> DEFINE h == Bottom(held[s], FirstUse(stack[p], arg[p]))
      <4>1. /\ h \in Seq(Contents) /\ Len(h) <= Len(held[s])
            /\ \A j \in 1 .. Len(h) : h[j] = held[s][j]
        BY <2>2, <3>1, PartsOfStacks, BottomShort
      <4>2. i <= Len(h) /\ h[i] = c
        BY <2>1, <2>3, <3>2
      <4> HIDE DEF h
      <4>3. Len(h) \in Nat /\ Len(held[s]) \in Nat /\ i \in Nat /\ i >= 1
        BY <3>1, <4>1
      <4> QED
        BY <4>1, <4>2, <4>3
    <3>3. CASE s # sess[p]
      BY <2>1, <2>4, <3>3
    <3> QED
      BY <3>2, <3>3
  <2>6. <<s, i>> \in Places(c)
    BY <2>1, <2>5 DEF Places
  <2> QED
    BY <2>6
<1>5. ASSUME DestroySave(p), Places(c)' # {} PROVE Places(c) # {}
  <2>1. PICK s \in Sids, i \in 1 .. MaxDepth : i <= Len(held'[s]) /\ held'[s][i] = c
    BY <1>5 DEF Places
  <2>2. held[victim[p]] = vstack[p] /\ victim[p] \in Sids
    BY <1>1, <1>5 DEF DestroySave, Victims, VictimOK, Sweeping
  <2>3. s # victim[p]
    <3>1. SubSeq(held[victim[p]], Len(held[victim[p]]) + 1, Len(held[victim[p]])) = <<>>
      BY <1>1, <2>2
    <3>2. held'[victim[p]] = <<>>
      BY <1>1, <1>5, <2>2, <3>1 DEF DestroySave
    <3> QED
      BY <2>1, <3>2
  <2>4. held'[s] = held[s]
    BY <1>1, <1>5, <2>3 DEF DestroySave
  <2>5. <<s, i>> \in Places(c)
    BY <2>1, <2>4 DEF Places
  <2> QED
    BY <2>5
<1>6. Places(c)' # {} => Places(c) # {} \/ (CommitSave(p) /\ c = arg[p])
  <2>1. held' = held => Places(c)' = Places(c)
    BY DEF Places
  <2> QED
    BY <1>1, <1>3, <1>4, <1>5, <2>1, StoreSteps
<1>7. ASSUME Tally(mem[p]), SessionsOf(mem[p], c) = 0 PROVE Places(c) = {}
  BY <1>7, FS_EmptySet DEF Tally
<1>8. ASSUME GcPop(p), c = arg'[p] PROVE Places(c) = {}
  <2>1. c \in batch[p]
    BY <1>1, <1>8 DEF GcPop
  <2>2. Tally(mem[p]) /\ Free(mem[p], c)
    BY <1>1, <1>8, <2>1 DEF GcPop, Collectors, GcOK, Collecting
  <2> QED
    BY <1>7, <2>2 DEF SessionsOf, Free
<1>9. ASSUME GcRemoved(p), c = arg[p] PROVE Places(c) = {}
  <2>1. Tally(mem[p]) /\ c \notin DOMAIN mem[p]
    BY <1>1, <1>9 DEF GcRemoved, Collectors, GcOK, Collecting
  <2> QED
    BY <1>7, <2>1 DEF SessionsOf
<1> QED
  BY <1>6, <1>8, <1>9

\* A layer that is stacked, or is about to be, has a directory.
PresentInv ==
  /\ \A c \in Contents : Places(c) # {} => layer[c] # "absent"
  /\ \A p \in Procs : pc[p] = "commit.save" => layer[arg[p]] # "absent"

\* A step keeps the directory of every layer that is counted or about to be counted.
LEMMA PresentStep ==
  ASSUME LockInv, SessionInv, CountInv, PresentInv, NEW p \in Procs, Step(p)
  PROVE  PresentInv'
<1>1. /\ TypeInv /\ ArgOK /\ CriticalHoldsLock
      /\ layer \in [Contents -> {"absent", "partial", "whole"}]
      /\ pc \in [Procs -> Labels]
      /\ arg \in [Procs -> Contents \cup {NoContent}]
      /\ batch \in [Procs -> SUBSET Contents]
  BY DEF LockInv, TypeInv, FieldsOK
<1>2. /\ \A q \in Procs \ {p} : pc'[q] = pc[q] /\ arg'[q] = arg[q]
      /\ \/ layer' = layer
         \/ CommitMakeDir(p) \/ CommitCopied(p) \/ GcPop(p) \/ GcRemoved(p)
      /\ pc'[p] = "commit.save" => CommitDedupe(p) \/ CommitCopied(p)
  BY <1>1, StoreSteps
\* A directory goes away at the end of an rmtree alone.
<1>3. ASSUME NEW c \in Contents, layer[c] # "absent", ~ (GcRemoved(p) /\ c = arg[p])
      PROVE  layer'[c] # "absent"
  <2>1. CASE CommitMakeDir(p) \/ CommitCopied(p)
    BY <1>1, <1>3, <2>1 DEF CommitMakeDir, CommitCopied
  <2>2. CASE GcPop(p)
    BY <1>1, <1>3, <2>2 DEF GcPop
  <2>3. CASE GcRemoved(p)
    BY <1>1, <1>3, <2>3 DEF GcRemoved
  <2> QED
    BY <1>2, <1>3, <2>1, <2>2, <2>3
<1>4. ASSUME NEW c \in Contents, Places(c)' # {} PROVE layer'[c] # "absent"
  <2>1. CASE Places(c) # {}
    <3>1. ~ (GcRemoved(p) /\ c = arg[p])
      BY <2>1, StackSteps
    <3> QED
      BY <1>3, <2>1, <3>1 DEF PresentInv
  <2>2. CASE Places(c) = {}
    <3>1. CommitSave(p) /\ c = arg[p]
      BY <1>4, <2>2, StackSteps
    <3> QED
      BY <3>1 DEF PresentInv, CommitSave
  <2> QED
    BY <2>1, <2>2
<1>5. ASSUME NEW q \in Procs, pc'[q] = "commit.save" PROVE layer'[arg'[q]] # "absent"
  <2>1. CASE q = p
    <3>1. CASE CommitDedupe(p)
      BY <1>1, <3>1, <2>1 DEF CommitDedupe, LayerThere, store
    <3>2. CASE CommitCopied(p)
      BY <1>1, <2>1, <3>2 DEF CommitCopied, ArgOK
    <3> QED
      BY <1>2, <1>5, <2>1, <3>1, <3>2
  <2>2. CASE q # p
    <3>1. pc[q] = "commit.save" /\ arg'[q] = arg[q] /\ arg[q] \in Contents
      BY <1>1, <1>2, <1>5, <2>2 DEF ArgOK
    <3>2. ~ GcRemoved(p)
      BY <1>1, <2>2, <3>1 DEF GcRemoved, CriticalHoldsLock, Critical
    <3> QED
      BY <1>3, <3>1, <3>2 DEF PresentInv
  <2> QED
    BY <2>1, <2>2
<1> QED
  BY <1>4, <1>5 DEF PresentInv

\* What a serving session stacks is in the index, and is stacked at a place.
LEMMA ServedIsStacked ==
  ASSUME TypeInv, SessionInv, CountInv, NEW p \in Procs, InService(p),
         NEW i \in 1 .. Len(stack[p])
  PROVE  /\ stack[p][i] \in Contents
         /\ stack[p][i] \in DOMAIN index /\ Places(stack[p][i]) # {}
<1>1. sess[p] \in Sids /\ held[sess[p]] = stack[p]
  BY DEF InService, HasSession, SessionInv, Owned, OwnSession
<1>2. held \in [Sids -> Seq(Contents)] /\ stack \in [Procs -> Seq(Contents)]
  BY DEF TypeInv, FieldsOK
<1>3. /\ held[sess[p]][i] \in DOMAIN index
      /\ <<sess[p], i>> \in Places(held[sess[p]][i])
  BY <1>1, <1>2, StackedIsCounted DEF CountInv, SessionInv
<1> QED
  BY <1>1, <1>2, <1>3

\* The directory of a layer that a serving session stacks exists, and the layer is in
\* the index, for any number of servers, although copies and rmtrees may raise.
THEOREM StackPresentRight ==
  ASSUME Orderly
  PROVE  Spec => []StackPresent
<1>1. Init => PresentInv
  BY BoundAssumption DEF Init, PresentInv, Places
<1>2. LockInv /\ SessionInv /\ CountInv /\ PresentInv /\ [Next]_vars => PresentInv'
  <2>1. PresentInv /\ UNCHANGED vars => PresentInv'
    BY DEF PresentInv, Places, vars
  <2> QED
    BY <2>1, PresentStep DEF Next, Step
<1>3. LockInv /\ SessionInv /\ CountInv /\ PresentInv => StackPresent
  BY ServedIsStacked DEF LockInv, PresentInv, StackPresent
<1> QED
  BY <1>1, <1>2, <1>3, LockInvInductive, SessionInvInductive, CountInvInductive, PTL
     DEF Spec

-------------------------------------------------------------------------------
(* Stacked layers are whole, and the store implements LayerRefs *)

\* Orderly, and every copy and rmtree succeeds.
Tidy == Events \subseteq {"exit"} /\ ~Overlap

\* Where a server leaves a layer half copied or half removed.
Halfway == {"commit.copy", "gc.rmtree"}

\* A layer is half there only while its server holds the lock, a stacked layer is
\* whole, and so is one that is about to be stacked.
LayerInv ==
  /\ \A c \in Contents : Places(c) # {} => layer[c] = "whole"
  /\ \A c \in Contents : layer[c] = "partial" =>
       \E p \in Procs : pc[p] \in Halfway /\ arg[p] = c
  /\ \A p \in Procs : /\ pc[p] = "commit.copy" => layer[arg[p]] = "partial"
                      /\ pc[p] = "commit.save" => layer[arg[p]] = "whole"
                      /\ pc[p] = "gc.rmtree" => layer[arg[p]] # "whole"

\* Nothing fails and nothing is signalled or killed.
LEMMA TidySteps ==
  ASSUME Tidy, LockInv, SessionInv, NEW p \in Procs
  PROVE  /\ ~ CommitCopyFails(p) /\ ~ GcRmtreeRaises(p) /\ ~ Sigterm(p) /\ ~ Kill(p)
         /\ Orderly
<1>1. \A kind : kind \in Events => kind = "exit"
  BY DEF Tidy
<1>2. ASSUME CommitCopyFails(p) PROVE dir[sess[p]] = "there"
  <2>1. mode \in [Procs -> Modes] /\ Phases /\ Owned /\ pc[p] = "commit.copy"
    BY <1>2 DEF CommitCopyFails, LockInv, TypeInv, FieldsOK, SessionInv
  <2>2. mode[p] = "serving"
    BY <2>1 DEF Phases, Modes, Sweeping, Creating
  <2> QED
    BY <2>1, <2>2 DEF Owned, OwnSession, HasSession
<1> QED
  BY <1>1, <1>2 DEF CommitCopyFails, GcRmtreeRaises, Sigterm, Kill, Event, Tidy, Orderly

\* Under the lock, one server at a time works on layers.
LEMMA LayerStep ==
  ASSUME Tidy, LockInv, SessionInv, CountInv, LayerInv, NEW p \in Procs, Step(p)
  PROVE  LayerInv'
<1>1. /\ TypeInv /\ ArgOK /\ CriticalHoldsLock /\ Collectors
      /\ layer \in [Contents -> {"absent", "partial", "whole"}]
      /\ pc \in [Procs -> Labels] /\ lock \in Procs \cup {NoProc}
      /\ arg \in [Procs -> Contents \cup {NoContent}]
      /\ batch \in [Procs -> SUBSET Contents]
  BY DEF LockInv, CountInv, TypeInv, FieldsOK
<1>2. /\ \A q \in Procs \ {p} : pc'[q] = pc[q] /\ arg'[q] = arg[q]
      /\ \/ layer' = layer
         \/ CommitMakeDir(p) \/ CommitCopied(p) \/ GcPop(p) \/ GcRemoved(p)
      /\ pc'[p] = "commit.copy" => CommitMakeDir(p)
      /\ pc'[p] = "commit.save" => CommitDedupe(p) \/ CommitCopied(p)
      /\ pc'[p] = "gc.rmtree" => GcPop(p)
      /\ pc[p] \in Halfway => CommitCopied(p) \/ GcRemoved(p)
  BY <1>1, StoreSteps, TidySteps DEF Halfway
<1>3. ASSUME CommitMakeDir(p) \/ CommitCopied(p) \/ GcPop(p) \/ GcRemoved(p)
      PROVE  \A q \in Procs \ {p} : pc[q] \notin Halfway \cup {"commit.save"}
  BY <1>1, <1>3, SentinelAssumption
     DEF CommitMakeDir, CommitCopied, GcPop, GcRemoved, Acquire, CriticalHoldsLock,
         Critical, Halfway
\* What a step does to one layer.
<1>4. CASE CommitMakeDir(p)
  <2>1. layer[arg[p]] = "absent" /\ layer' = [layer EXCEPT ![arg[p]] = "partial"]
        /\ arg[p] \in Contents
    BY <1>1, <1>4 DEF CommitMakeDir, LayerThere, ArgOK
  <2>2. pc'[p] = "commit.copy" /\ arg' = arg
    BY <1>1, <1>4 DEF CommitMakeDir, Goto
  <2>3. \A c \in Contents : Places(c)' # {} => Places(c) # {}
    BY <1>4, StackSteps DEF CommitMakeDir, CommitSave
  <2> QED
    BY <1>1, <1>2, <1>3, <1>4, <2>1, <2>2, <2>3 DEF LayerInv, Halfway
<1>5. CASE CommitCopied(p)
  <2>1. layer[arg[p]] = "partial" /\ layer' = [layer EXCEPT ![arg[p]] = "whole"]
        /\ arg[p] \in Contents
    BY <1>1, <1>5 DEF CommitCopied, LayerInv, ArgOK
  <2>2. pc'[p] = "commit.save" /\ arg' = arg
    BY <1>1, <1>5 DEF CommitCopied, Goto
  <2>3. \A c \in Contents : Places(c)' # {} => Places(c) # {}
    BY <1>5, StackSteps DEF CommitCopied, CommitSave
  <2> QED
    BY <1>1, <1>2, <1>3, <1>5, <2>1, <2>2, <2>3 DEF LayerInv, Halfway
<1>6. CASE GcPop(p)
  <2>1. PICK c \in Contents : 
          /\ arg' = [arg EXCEPT ![p] = c]
          /\ layer' = [layer EXCEPT ![c] = IF @ = "absent" THEN @ ELSE "partial"]
    BY <1>1, <1>6 DEF GcPop
  <2>2. pc'[p] = "gc.rmtree" /\ pc[p] = "gc.remove"
    BY <1>1, <1>6 DEF GcPop, Goto
  <2>3. \A d \in Contents : Places(d)' # {} => Places(d) # {} /\ d # c
    BY <1>1, <1>6, <2>1, StackSteps DEF GcPop, CommitSave
  <2> QED
    BY <1>1, <1>2, <1>3, <1>6, <2>1, <2>2, <2>3 DEF LayerInv, Halfway
<1>7. CASE GcRemoved(p)
  <2>1. layer' = [layer EXCEPT ![arg[p]] = "absent"] /\ arg[p] \in Contents
    BY <1>1, <1>7 DEF GcRemoved, Collectors, GcOK, Collecting
  <2>2. pc'[p] \in {"gc.pass", "gc.remove"}
    BY <1>1, <1>7 DEF GcRemoved, Goto
  <2>3. \A c \in Contents : Places(c)' # {} => Places(c) # {} /\ c # arg[p]
    BY <1>7, StackSteps DEF GcRemoved, CommitSave
  <2> QED
    BY <1>1, <1>2, <1>3, <1>7, <2>1, <2>2, <2>3 DEF LayerInv, Halfway
<1>8. CASE /\ layer' = layer
           /\ ~ (CommitMakeDir(p) \/ CommitCopied(p) \/ GcPop(p) \/ GcRemoved(p))
  <2>1. \A c \in Contents : Places(c)' # {} => layer[c] = "whole"
    BY StackSteps DEF CommitSave, LayerInv
  <2>2. pc[p] \notin Halfway /\ pc'[p] \notin Halfway
    BY <1>2, <1>8 DEF Halfway
  <2>3. ASSUME CommitDedupe(p) PROVE layer[arg[p]] = "whole" /\ arg' = arg
    <3>1. \A q \in Procs : pc[q] \notin Halfway
      BY <1>1, <2>3, SentinelAssumption
         DEF CommitDedupe, Acquire, CriticalHoldsLock, Critical, Halfway
    <3>2. layer[arg[p]] # "absent" /\ arg[p] \in Contents
      BY <1>1, <2>3 DEF CommitDedupe, LayerThere, ArgOK
    <3> QED
      BY <1>1, <2>3, <3>1, <3>2 DEF LayerInv, CommitDedupe
  <2> QED
    BY <1>1, <1>2, <1>8, <2>1, <2>2, <2>3 DEF LayerInv, Halfway
<1> QED
  BY <1>2, <1>4, <1>5, <1>6, <1>7, <1>8

\* So that is inductive, where copies and rmtrees do not raise.
LEMMA LayerInvInductive ==
  ASSUME Tidy
  PROVE  /\ Init => LayerInv
         /\ LockInv /\ SessionInv /\ CountInv /\ LayerInv /\ [Next]_vars => LayerInv'
<1>1. Init => LayerInv
  BY BoundAssumption DEF Init, LayerInv, Places
<1>2. LayerInv /\ UNCHANGED vars => LayerInv'
  BY DEF LayerInv, Places, vars
<1> QED
  BY <1>1, <1>2, LayerStep DEF Next, Step

\* Every layer a serving session stacks is in the index and whole on disk, for any
\* number of servers that commit, roll back, collect, start and stop.
THEOREM StackBackedRight ==
  ASSUME Tidy
  PROVE  Spec => []StackBacked
<1>1. Orderly
  BY DEF Tidy, Orderly
<1>2. LockInv /\ SessionInv /\ CountInv /\ LayerInv => StackBacked
  BY ServedIsStacked DEF LockInv, LayerInv, StackBacked
<1> QED
  BY <1>1, <1>2, LockInvInductive, SessionInvInductive, CountInvInductive,
     LayerInvInductive, PTL DEF Spec

WholeLayers == {c \in Contents : layer[c] = "whole"}

\* Every step of a server is a step of LayerRefs or changes nothing that it sees.
LEMMA StepImplements ==
  ASSUME Tidy, LockInv, SessionInv, CountInv, LayerInv, NEW p \in Procs, Step(p)
  PROVE  [Refs!Next]_(Refs!vars)
<1>1. /\ TypeInv /\ ArgOK /\ Phases /\ Owned /\ Victims /\ Collectors
      /\ layer \in [Contents -> {"absent", "partial", "whole"}]
      /\ pc \in [Procs -> Labels] /\ mode \in [Procs -> Modes]
      /\ held \in [Sids -> Seq(Contents)] /\ stack \in [Procs -> Seq(Contents)]
      /\ vstack \in [Procs -> Seq(Contents)]
      /\ arg \in [Procs -> Contents \cup {NoContent}]
      /\ batch \in [Procs -> SUBSET Contents]
  BY DEF LockInv, SessionInv, CountInv, TypeInv, FieldsOK
<1>2. CommitSave(p) \/ RollbackSave(p) => OwnSession(p)
  BY <1>1 DEF CommitSave, RollbackSave, Phases, Owned, HasSession, Modes, Sweeping,
     Creating
<1>3. CASE CommitSave(p)
  <2>1. /\ sess[p] \in Sids /\ Len(held[sess[p]]) < MaxDepth /\ arg[p] \in Contents
        /\ layer[arg[p]] = "whole"
    BY <1>1, <1>2, <1>3 DEF CommitSave, OwnSession, ArgOK, LayerInv, Committing
  <2>2. layer' = layer /\ held' = [held EXCEPT ![sess[p]] = Append(@, arg[p])]
    BY <1>3 DEF CommitSave
  <2>3. Refs!Commit(sess[p], arg[p])
    BY <2>1, <2>2 DEF Refs!Commit
  <2> QED
    BY <2>1, <2>3 DEF Refs!Next
<1>4. CASE RollbackSave(p)
  <2> DEFINE s == sess[p]
             k == FirstUse(stack[p], arg[p])
  <2>1. s \in Sids /\ held[s] = stack[p] /\ held[s] \in Seq(Contents)
    BY <1>1, <1>2, <1>4 DEF OwnSession
  <2>2. k \in 1 .. Len(held[s])
    <3> PICK i \in 1 .. Len(stack[p]) : arg[p] = stack[p][i]
      BY <1>1, <1>4 DEF RollbackSave, ArgOK, Stacks
    <3> QED
      BY <2>1, FirstUseExists
  <2>3. layer' = layer /\ held' = [held EXCEPT ![s] = Bottom(@, k)]
    BY <1>4 DEF RollbackSave
  <2> HIDE DEF s, k
  <2>4. Bottom(held[s], k) = SubSeq(held[s], 1, k)
    BY <2>1, <2>2 DEF Bottom
  <2>5. Refs!Rollback(s)
    BY <2>1, <2>2, <2>3, <2>4 DEF Refs!Rollback
  <2> QED
    BY <2>1, <2>5 DEF Refs!Next
<1>5. CASE DestroySave(p)
  <2> DEFINE s == victim[p]
  <2>1. s \in Sids /\ held[s] = vstack[p] /\ held[s] \in Seq(Contents)
    BY <1>1, <1>5 DEF DestroySave, Victims, VictimOK, Sweeping
  <2>2. /\ layer' = layer
        /\ held' = [held EXCEPT ![s] = SubSeq(@, Len(vstack[p]) + 1, Len(@))]
    BY <1>5 DEF DestroySave
  <2> HIDE DEF s
  <2>3. SubSeq(held[s], Len(held[s]) + 1, Len(held[s])) = <<>>
    BY <2>1
  <2>4. Refs!Destroy(s)
    BY <2>1, <2>2, <2>3 DEF Refs!Destroy
  <2> QED
    BY <2>1, <2>4 DEF Refs!Next
<1>6. CASE CommitCopied(p)
  <2>1. PICK c \in Contents :
          layer[c] = "partial" /\ layer' = [layer EXCEPT ![c] = "whole"] /\ held' = held
    BY <1>1, <1>6 DEF CommitCopied, LayerInv, ArgOK
  <2>2. Refs!Stage(c)
    BY <1>1, <2>1 DEF Refs!Stage
  <2> QED
    BY <2>1, <2>2 DEF Refs!Next
<1>7. CASE GcPop(p)
  <2>1. PICK c \in Contents :
          /\ arg' = [arg EXCEPT ![p] = c]
          /\ layer' = [layer EXCEPT ![c] = IF @ = "absent" THEN @ ELSE "partial"]
    BY <1>1, <1>7 DEF GcPop
  <2>2. held' = held
    BY <1>7 DEF GcPop
  <2>3. CASE layer[c] = "whole"
    <3>1. Places(c) = {}
      BY <1>1, <1>7, <2>1, StackSteps
    <3>2. c \notin Refs!Stacked
      <4> SUFFICES ASSUME NEW s \in Sids, NEW i \in 1 .. Len(held[s]), held[s][i] = c
                   PROVE  FALSE
        BY DEF Refs!Stacked
      <4>1. <<s, i>> \in Places(c)
        BY <1>1, StackedIsCounted DEF CountInv, SessionInv
      <4> QED
        BY <3>1, <4>1
    <3>3. Refs!Collect(c)
      BY <1>1, <2>1, <2>2, <2>3, <3>2 DEF Refs!Collect
    <3> QED
      BY <3>3 DEF Refs!Next
  <2>4. CASE layer[c] # "whole"
    BY <1>1, <2>1, <2>2, <2>4 DEF Refs!vars
  <2> QED
    BY <2>3, <2>4
<1>8. CASE CommitMakeDir(p) \/ GcRemoved(p)
  <2>1. PICK c \in Contents, l \in {"partial", "absent"} :
          layer[c] # "whole" /\ layer' = [layer EXCEPT ![c] = l] /\ held' = held
    <3>1. CASE CommitMakeDir(p)
      BY <1>1, <3>1 DEF CommitMakeDir, LayerThere, ArgOK
    <3>2. CASE GcRemoved(p)
      BY <1>1, <3>2 DEF GcRemoved, LayerInv, Collectors, GcOK, Collecting
    <3> QED
      BY <1>8, <3>1, <3>2
  <2>2. WholeLayers' = WholeLayers
    BY <1>1, <2>1 DEF WholeLayers
  <2> QED
    BY <2>1, <2>2 DEF Refs!vars, WholeLayers
<1>9. CASE layer' = layer /\ held' = held
  BY <1>9 DEF Refs!vars
<1> QED
  BY <1>1, <1>3, <1>4, <1>5, <1>6, <1>7, <1>8, <1>9, StoreSteps

\* The layer store does what LayerRefs promises: sessions stack layers that exist,
\* one step per commit, rollback and destroy, and only layers that nobody stacks are
\* collected, for any number of servers.
THEOREM StoreImplementsRefs ==
  ASSUME Tidy
  PROVE  Spec => ImplementsRefs
<1>1. Orderly
  BY DEF Tidy, Orderly
<1>2. Init => Refs!Init
  BY DEF Init, Refs!Init
<1>3. LockInv /\ SessionInv /\ CountInv /\ LayerInv /\ [Next]_vars
        => [Refs!Next]_(Refs!vars)
  <2>1. UNCHANGED vars => UNCHANGED Refs!vars
    BY DEF vars, Refs!vars
  <2> QED
    BY <2>1, StepImplements DEF Next, Step
<1> QED
  BY <1>1, <1>2, <1>3, LockInvInductive, SessionInvInductive, CountInvInductive,
     LayerInvInductive, PTL DEF Spec, ImplementsRefs, Refs!Spec

-------------------------------------------------------------------------------
(* One server, whatever happens to it *)

\* The store has one server, which comes and goes as often as it likes.
OneServer == \A p, q \in Procs : p = q

-------------------------------------------------------------------------------
(* The life of a server *)

\* The program counter goes with the mode, and a server that has not created its
\* session stacks nothing.
LifeInv ==
  \A p \in Procs :
    /\ mode[p] = "down" <=> pc[p] = "down"
    /\ mode[p] \in {"startup", "sigterm", "exiting"} <=> pc[p] \in Sweeping
    /\ mode[p] = "creating" => pc[p] \in Creating
    /\ mode[p] = "serving" => pc[p] \in Working \cup {"persist", "dump"}
    /\ mode[p] \in {"down", "startup", "creating"} => stack[p] = <<>>

\* A step of a server keeps its program counter in line with its mode.
LEMMA LifeStep ==
  ASSUME TypeInv, LifeInv, NEW p \in Procs, Step(p)
  PROVE  LifeInv'
<1>1. /\ pc \in [Procs -> Labels] /\ mode \in [Procs -> Modes]
      /\ stack \in [Procs -> Seq(Contents)]
  BY DEF TypeInv, FieldsOK
<1> USE <1>1 DEF Goto, store, disk, session, gcvars, sweeping, LifeInv,
        Sweeping, Creating, Working, Committing, Collecting, Modes
<1>2. CASE Start(p) \/ SweepDone(p) \/ CreateDirs(p) \/ CreatePid(p)
  BY <1>2 DEF Start, SweepDone, CreateDirs, CreatePid
<1>3. CASE PersistOpen(p) \/ PersistDump(p) \/ RootGone(p)
  BY <1>3 DEF PersistOpen, PersistDump, RootGone, BeginShutdown
<1>4. CASE CommitBegin(p) \/ CommitDedupe(p) \/ CommitMakeDir(p)
  BY <1>4 DEF CommitBegin, CommitDedupe, CommitMakeDir
<1>5. CASE CommitCopied(p) \/ CommitCopyFails(p) \/ CommitSave(p)
  BY <1>5 DEF CommitCopied, CommitCopyFails, CommitSave
<1>6. CASE Rollback(p)
  BY <1>6 DEF Rollback, RollbackBegin, RollbackLock, RollbackSave
<1>7. CASE GcBegin(p) \/ GcLock(p) \/ GcScan(p) \/ GcScanRaises(p) \/ GcScanned(p)
  BY <1>7 DEF GcBegin, GcLock, GcScan, GcScanRaises, GcScanned, GcLeave
<1>8. CASE GcPass(p) \/ GcPop(p) \/ GcRemoved(p) \/ GcRmtreeRaises(p) \/ GcSave(p)
  <2>1. CASE GcPass(p) \/ GcPop(p)
    BY <2>1 DEF GcPass, GcPop
  <2>2. CASE GcRemoved(p)
    BY <2>2 DEF GcRemoved
  <2>3. CASE GcRmtreeRaises(p) \/ GcSave(p)
    BY <2>3 DEF GcRmtreeRaises, GcSave, GcLeave
  <2> QED
    BY <1>8, <2>1, <2>2, <2>3
<1>9. CASE VisitSkip(p) \/ VisitCondemn(p) \/ DestroyLock(p) \/ DestroySave(p)
  <2>1. CASE VisitSkip(p)
    BY <2>1 DEF VisitSkip
  <2>2. CASE VisitCondemn(p)
    BY <2>2 DEF VisitCondemn
  <2>3. CASE DestroyLock(p)
    BY <2>3 DEF DestroyLock
  <2>4. CASE DestroySave(p)
    BY <2>4 DEF DestroySave
  <2> QED
    BY <1>9, <2>1, <2>2, <2>3, <2>4
<1>10. CASE RmtreeList(p) \/ RmtreeUnlink(p) \/ RmtreeEnd(p)
  BY <1>10 DEF RmtreeList, RmtreeUnlink, RmtreeEnd
<1>11. CASE Exit(p) \/ Sigterm(p) \/ SigtermDone(p)
  BY <1>11 DEF Exit, Sigterm, SigtermDone, BeginShutdown
<1>12. CASE ExitDone(p) \/ Kill(p)
  BY <1>12 DEF ExitDone, Kill, ProcessEnds
<1> QED
  BY <1>2, <1>3, <1>4, <1>5, <1>6, <1>7, <1>8, <1>9, <1>10, <1>11, <1>12
     DEF Step, Startup, Commit, Gc, Destroy, End

\* So that is inductive, for any number of servers.
LEMMA LifeInvInductive ==
  /\ Init => LifeInv
  /\ LockInv /\ LifeInv /\ [Next]_vars => LifeInv'
<1>1. Init => LifeInv
  BY DEF Init, LifeInv, Sweeping
<1>2. LifeInv /\ UNCHANGED vars => LifeInv'
  BY DEF LifeInv, vars
<1>3. LockInv /\ LifeInv /\ Next => LifeInv'
  BY LifeStep DEF LockInv, Next, Step
<1> QED
  BY <1>1, <1>2, <1>3

-------------------------------------------------------------------------------
(* The counts and the layers of a session in service *)

\* The index counts a session for every place of its stack at least.
Covers(idx, stk) ==
  \A c \in Contents :
    LET places == Cardinality(Uses(stk, 0, c)) IN
    places > 0 => c \in DOMAIN idx /\ idx[c].refcount_sessions >= places

\* A layer that is stacked is used somewhere.
LEMMA UsedSomewhere ==
  ASSUME NEW stk \in Seq(Contents), NEW i \in 1 .. Len(stk)
  PROVE  Cardinality(Uses(stk, 0, stk[i])) > 0
<1>1. i \in Uses(stk, 0, stk[i])
  BY DEF Uses
<1>2. /\ IsFiniteSet(Uses(stk, 0, stk[i]))
      /\ Cardinality(Uses(stk, 0, stk[i])) \in Nat
  BY UsesFinite
<1> QED
  BY <1>1, <1>2, FS_EmptySet

\* A commit uses its layer once more.
LEMMA UsesCommit ==
  ASSUME NEW stk \in Seq(Contents), NEW c \in Contents, NEW d \in Contents
  PROVE  Cardinality(Uses(Append(stk, c), 0, d)) =
           Cardinality(Uses(stk, 0, d)) + (IF d = c THEN 1 ELSE 0)
<1> DEFINE n == Len(stk) + 1
           new == Append(stk, c)
<1>1. IsFiniteSet(Uses(stk, 0, d)) /\ Cardinality(Uses(stk, 0, d)) \in Nat
  BY UsesFinite
<1>2. new \in Seq(Contents) /\ Len(new) = n /\ new[n] = c
  OBVIOUS
<1>3. \A i \in 1 .. Len(stk) : new[i] = stk[i]
  OBVIOUS
<1>4. \A i : i \in 1 .. n <=> i \in 1 .. Len(stk) \/ i = n
  OBVIOUS
<1>5. n \notin Uses(stk, 0, d)
  BY DEF Uses
<1> HIDE DEF new, n
<1>6. \A i : i \in Uses(new, 0, d) <=> i \in 1 .. n /\ new[i] = d
  BY <1>2 DEF Uses
<1>7. \A i : i \in Uses(stk, 0, d) <=> i \in 1 .. Len(stk) /\ stk[i] = d
  BY DEF Uses
<1>8. CASE d = c
  <2>1. Uses(new, 0, d) = Uses(stk, 0, d) \cup {n}
    BY <1>2, <1>3, <1>4, <1>6, <1>7, <1>8
  <2>2. Cardinality(Uses(stk, 0, d) \cup {n}) = Cardinality(Uses(stk, 0, d)) + 1
    BY <1>1, <1>5, FS_AddElement
  <2> QED
    BY <1>8, <2>1, <2>2 DEF new
<1>9. CASE d # c
  <2>1. Uses(new, 0, d) = Uses(stk, 0, d)
    BY <1>2, <1>3, <1>4, <1>6, <1>7, <1>9
  <2> QED
    BY <1>1, <1>9, <2>1 DEF new
<1> QED
  BY <1>8, <1>9

\* A rollback splits the uses of a layer into those that stay and those that go.
LEMMA UsesRollback ==
  ASSUME NEW stk \in Seq(Contents), NEW k \in 1 .. Len(stk), NEW c
  PROVE  Cardinality(Uses(stk, 0, c)) =
           Cardinality(Uses(Bottom(stk, k), 0, c)) + Cardinality(Uses(stk, k, c))
<1> DEFINE h == Bottom(stk, k)
           keep == Uses(h, 0, c)
           go == Uses(stk, k, c)
<1>1. /\ h \in Seq(Contents)
      /\ \A i : i \in 1 .. Len(h) <=> i \in 1 .. Len(stk) /\ i <= k
      /\ \A i \in 1 .. Len(h) : h[i] = stk[i]
  BY DEF Bottom
<1> HIDE DEF h
<1>2. \A i : i \in keep <=> i \in 1 .. Len(h) /\ h[i] = c
  BY <1>1 DEF Uses
<1>3. \A i : i \in go <=> i \in 1 .. Len(stk) /\ ~ (i <= k) /\ stk[i] = c
  BY DEF Uses
<1>4. \A i : i \in Uses(stk, 0, c) <=> i \in 1 .. Len(stk) /\ stk[i] = c
  BY DEF Uses
<1>5. /\ IsFiniteSet(keep) /\ IsFiniteSet(go)
      /\ Cardinality(keep) \in Nat /\ Cardinality(go) \in Nat
  BY <1>1, UsesFinite
<1> HIDE DEF keep, go
<1>6. Uses(stk, 0, c) = keep \cup go /\ keep \cap go = {}
  BY <1>1, <1>2, <1>3, <1>4
<1>7. Cardinality(keep \cup go) =
        Cardinality(keep) + Cardinality(go) - Cardinality(keep \cap go)
  BY <1>5, FS_Union
<1>8. Cardinality(keep \cap go) = 0
  BY <1>6, FS_EmptySet
<1>9. Cardinality(Uses(stk, 0, c)) = Cardinality(keep) + Cardinality(go)
  <2>1. Cardinality(Uses(stk, 0, c)) = Cardinality(keep \cup go)
    BY <1>6
  <2> QED
    BY <1>5, <1>7, <1>8, <2>1
<1> QED
  BY <1>9 DEF keep, go, h

\* The layers of a stack have directories.
Backs(stk) == \A i \in 1 .. Len(stk) : layer[stk[i]] # "absent"

\* What a session in service needs at each step of its tools: that it is counted and
\* its layers exist, in the index on disk and in the one that gc has in memory; what
\* gc is about to pop has no sessions, and what it removes is not stacked.
Kept(p) ==
  /\ Covers(index, stack[p]) /\ Backs(stack[p])
  /\ pc[p] = "commit.save" => layer[arg[p]] # "absent"
  /\ pc[p] \in Collecting => Covers(mem[p], stack[p])
  /\ pc[p] \in {"gc.remove", "gc.rmtree"} =>
       \A c \in batch[p] : c \in DOMAIN mem[p] /\ mem[p][c].refcount_sessions = 0
  /\ pc[p] = "gc.rmtree" => \A i \in 1 .. Len(stack[p]) : stack[p][i] # arg[p]

UseInv == \A p \in Procs : InService(p) => Kept(p)

\* Nothing is needed for a session that stacks nothing.
LEMMA EmptyIsKept ==
  ASSUME NEW idx
  PROVE  Covers(idx, <<>>) /\ Backs(<<>>)
<1>1. \A c : Uses(<<>>, 0, c) = {}
  BY DEF Uses
<1>2. Cardinality({}) = 0
  BY FS_EmptySet
<1>3. Covers(idx, <<>>)
  <2> SUFFICES ASSUME NEW c \in Contents, Cardinality(Uses(<<>>, 0, c)) > 0
               PROVE  FALSE
    BY DEF Covers
  <2>1. Cardinality(Uses(<<>>, 0, c)) = 0
    BY <1>1, <1>2, Zenon
  <2> QED
    BY <2>1
<1>4. Backs(<<>>)
  BY DEF Backs
<1> QED
  BY <1>3, <1>4

\* The steps between which the index, the layers and the stack stay the same.
LEMMA KeptFrame ==
  ASSUME TypeInv, LifeInv, UseInv, NEW p \in Procs, InService(p)',
         UNCHANGED <<index, layer>>, stack' = stack,
         pc'[p] \notin Collecting \cup {"commit.save"},
         mode[p] \in {"creating", "serving"}
  PROVE  Kept(p)'
<1>1. Covers(index, stack[p]) /\ Backs(stack[p])
  BY EmptyIsKept DEF LifeInv, UseInv, Kept, InService
<1> QED
  BY <1>1 DEF Kept, Covers, Backs, Collecting

\* What a commit, a rollback and a step of gc do to a session in service.
LEMMA CommitKept ==
  ASSUME LockInv, UseInv, NEW p \in Procs, InService(p), Commit(p)
  PROVE  Kept(p)'
<1>1. /\ TypeInv /\ ArgOK /\ NoLostUpdate
      /\ pc \in [Procs -> Labels] /\ layer \in [Contents -> {"absent", "partial", "whole"}]
      /\ stack \in [Procs -> Seq(Contents)] /\ stack[p] \in Seq(Contents)
      /\ index \in Index /\ mem \in [Procs -> Index]
      /\ arg \in [Procs -> Contents \cup {NoContent}]
  BY DEF LockInv, TypeInv, FieldsOK
<1>2. Kept(p)
  BY DEF UseInv
<1> USE DEF Goto, store, session, Collecting
<1>3. CASE CommitBegin(p) \/ CommitCopyFails(p)
  <2>1. UNCHANGED <<index, layer, stack>> /\ pc'[p] \in {"idle", "commit.lock"}
    BY <1>1, <1>3 DEF CommitBegin, CommitCopyFails
  <2> QED
    BY <1>2, <2>1 DEF Kept, Covers, Backs
<1>4. CASE CommitDedupe(p)
  <2>1. /\ UNCHANGED <<index, layer, stack, arg>> /\ pc'[p] = "commit.save"
        /\ layer[arg[p]] # "absent"
    BY <1>1, <1>4 DEF CommitDedupe, LayerThere
  <2> QED
    BY <1>2, <2>1 DEF Kept, Covers, Backs
<1>5. CASE CommitMakeDir(p) \/ CommitCopied(p)
  <2>1. /\ UNCHANGED <<index, stack, arg>> /\ pc'[p] \in {"commit.copy", "commit.save"}
        /\ \A c \in Contents : layer[c] # "absent" => layer'[c] # "absent"
        /\ pc'[p] = "commit.save" => layer'[arg[p]] # "absent"
    BY <1>1, <1>5 DEF CommitMakeDir, CommitCopied, ArgOK
  <2>2. \A i \in 1 .. Len(stack[p]) : stack[p][i] \in Contents
    BY <1>1
  <2> QED
    BY <1>2, <2>1, <2>2 DEF Kept, Covers, Backs
<1>6. CASE CommitSave(p)
  <2> DEFINE c == arg[p]
             stk == stack[p]
             new == IndexWithCommit(index, c, stk)
  <2>1. /\ c \in Contents /\ layer[c] # "absent"
        /\ index' = new /\ stack'[p] = Append(stk, c) /\ layer' = layer
        /\ pc'[p] = "persist"
    BY <1>1, <1>2, <1>6 DEF CommitSave, ArgOK, Kept, NoLostUpdate
  <2>2. stk \in Seq(Contents) /\ Covers(index, stk) /\ Backs(stk)
    BY <1>1, <1>2 DEF Kept
  <2> HIDE DEF c, stk
  <2>3. CommitCounted(index, c, stk, new)
    BY <1>1, <2>1, <2>2, WithCommitFields
  <2> HIDE DEF new
  <2>4. Covers(new, Append(stk, c))
    <3> SUFFICES ASSUME NEW d \in Contents, Cardinality(Uses(Append(stk, c), 0, d)) > 0
                 PROVE  /\ d \in DOMAIN new
                        /\ new[d].refcount_sessions >=
                             Cardinality(Uses(Append(stk, c), 0, d))
      BY DEF Covers
    <3>1. Cardinality(Uses(Append(stk, c), 0, d)) =
            Cardinality(Uses(stk, 0, d)) + (IF d = c THEN 1 ELSE 0)
      BY <2>1, <2>2, UsesCommit
    <3>2. Cardinality(Uses(stk, 0, d)) \in Nat
      BY <2>2, UsesFinite
    <3>3. Cardinality(Uses(stk, 0, d)) > 0 =>
            d \in DOMAIN index /\ index[d].refcount_sessions >= Cardinality(Uses(stk, 0, d))
      BY <2>2 DEF Covers
    <3>4. d \in DOMAIN index => index[d].refcount_sessions \in Nat
      BY <1>1, IndexIff DEF Entry
    <3>5. d \in DOMAIN new
      BY <2>3, <3>1, <3>2, <3>3 DEF CommitCounted
    <3>6. new[d].refcount_sessions = SessionsOf(index, d) + (IF d = c THEN 1 ELSE 0)
      BY <2>3, <3>5 DEF CommitCounted
    <3>7. SessionsOf(index, d) >= Cardinality(Uses(stk, 0, d)) /\ SessionsOf(index, d) \in Nat
      BY <3>2, <3>3, <3>4 DEF SessionsOf
    <3> QED
      BY <3>1, <3>2, <3>5, <3>6, <3>7
  <2>5. \A i \in 1 .. Len(Append(stk, c)) : layer[Append(stk, c)[i]] # "absent"
    BY <2>1, <2>2 DEF Backs
  <2> QED
    BY <2>1, <2>4, <2>5 DEF Kept, Covers, Backs
<1> QED
  BY <1>3, <1>4, <1>5, <1>6 DEF Commit

\* A rollback shortens the stack and gives back no more than it drops.
LEMMA RollbackKept ==
  ASSUME LockInv, LifeInv, UseInv, NEW p \in Procs, InService(p), Rollback(p)
  PROVE  Kept(p)'
<1>1. /\ TypeInv /\ ArgOK /\ NoLostUpdate
      /\ pc \in [Procs -> Labels]
      /\ stack \in [Procs -> Seq(Contents)] /\ stack[p] \in Seq(Contents)
      /\ index \in Index
  BY DEF LockInv, TypeInv, FieldsOK
<1>2. Kept(p)
  BY DEF UseInv
<1>3. CASE RollbackBegin(p) \/ RollbackLock(p)
  <2>1. /\ UNCHANGED <<index, layer>> /\ stack' = stack /\ mode' = mode
        /\ pc'[p] \in {"rollback.lock", "rollback.save"}
    BY <1>1, <1>3 DEF RollbackBegin, RollbackLock, Goto, store, session
  <2> QED
    BY <1>1, <2>1, KeptFrame DEF InService, Collecting
<1>4. CASE RollbackSave(p)
  <2> DEFINE stk == stack[p]
             k == FirstUse(stk, arg[p])
             new == IndexWithout(index, stk, k)
             h == Bottom(stk, k)
  <2>1. stk \in Seq(Contents) /\ Covers(index, stk) /\ Backs(stk)
    BY <1>1, <1>2 DEF Kept
  <2>2. k \in 1 .. Len(stk)
    <3> PICK i \in 1 .. Len(stack[p]) : arg[p] = stack[p][i]
      BY <1>1, <1>4 DEF RollbackSave, ArgOK, Stacks
    <3> QED
      BY <2>1, FirstUseExists
  <2>3. index' = new /\ stack'[p] = h /\ layer' = layer /\ pc'[p] = "persist"
    BY <1>1, <1>4 DEF RollbackSave, NoLostUpdate, Goto
  <2> HIDE DEF stk, k
  <2>4. /\ DOMAIN new = DOMAIN index
        /\ \A c \in DOMAIN index :
             new[c].refcount_sessions =
               Minus(index[c].refcount_sessions, Cardinality(Uses(stk, k, c)))
    BY <1>1, <2>1, <2>2, WithoutFields
  <2> HIDE DEF new
  <2>5. Covers(new, h)
    <3> SUFFICES ASSUME NEW c \in Contents, Cardinality(Uses(h, 0, c)) > 0
                 PROVE  /\ c \in DOMAIN new
                        /\ new[c].refcount_sessions >= Cardinality(Uses(h, 0, c))
      BY DEF Covers
    <3>1. Cardinality(Uses(stk, 0, c)) =
            Cardinality(Uses(h, 0, c)) + Cardinality(Uses(stk, k, c))
      BY <2>1, <2>2, UsesRollback
    <3>2. h \in Seq(Contents)
      BY <2>1, <2>2, PartsOfStacks
    <3> HIDE DEF h
    <3>3. Cardinality(Uses(h, 0, c)) \in Nat /\ Cardinality(Uses(stk, k, c)) \in Nat
      BY <2>1, <2>2, <3>2, UsesFinite
    <3>4. c \in DOMAIN index /\ index[c].refcount_sessions >= Cardinality(Uses(stk, 0, c))
      BY <2>1, <3>1, <3>3 DEF Covers
    <3>5. index[c].refcount_sessions \in Nat
      BY <1>1, <3>4, IndexIff DEF Entry
    <3> QED
      BY <2>4, <3>1, <3>3, <3>4, <3>5 DEF Minus
  <2>6. \A i \in 1 .. Len(h) : layer[h[i]] # "absent"
    <3>1. /\ Len(h) <= Len(stk) /\ h \in Seq(Contents)
          /\ \A i \in 1 .. Len(h) : h[i] = stk[i]
      BY <2>1, <2>2, BottomShort, PartsOfStacks
    <3> HIDE DEF h
    <3>2. \A i \in 1 .. Len(h) : i \in 1 .. Len(stk)
      BY <2>1, <3>1
    <3> QED
      BY <2>1, <3>1, <3>2 DEF Backs
  <2> QED
    BY <2>3, <2>5, <2>6 DEF Kept, Covers, Backs, Collecting
<1> QED
  BY <1>3, <1>4 DEF Rollback

\* A collection passes every layer that its session stacks.
LEMMA GcKept ==
  ASSUME LockInv, LifeInv, UseInv, NEW p \in Procs, InService(p), Gc(p)
  PROVE  Kept(p)'
<1>1. /\ TypeInv
      /\ pc \in [Procs -> Labels] /\ layer \in [Contents -> {"absent", "partial", "whole"}]
      /\ stack \in [Procs -> Seq(Contents)] /\ stack[p] \in Seq(Contents)
      /\ mem \in [Procs -> Index] /\ batch \in [Procs -> SUBSET Contents]
      /\ arg \in [Procs -> Contents \cup {NoContent}]
      /\ \A i \in 1 .. Len(stack[p]) : stack[p][i] \in Contents
  BY DEF LockInv, TypeInv, FieldsOK
<1>2. Kept(p)
  BY DEF UseInv
<1> USE DEF Goto, store, session, gcvars, Collecting
<1>3. stack' = stack /\ mode' = mode
  BY DEF Gc, GcBegin, GcLock, GcScan, GcScanRaises, GcScanned, GcPass, GcPop, GcRemoved,
     GcRmtreeRaises, GcSave
<1>4. CASE GcBegin(p) \/ GcScanRaises(p) \/ GcRmtreeRaises(p)
  <2>1. UNCHANGED <<index, layer>> /\ pc'[p] \in {"gc.lock", "idle"}
    BY <1>1, <1>4 DEF GcBegin, GcScanRaises, GcRmtreeRaises, GcLeave
  <2> QED
    BY <1>1, <1>3, <2>1, KeptFrame DEF InService
<1>5. CASE GcLock(p) \/ GcScan(p) \/ GcScanned(p)
  <2>1. /\ UNCHANGED <<index, layer>> /\ pc'[p] \in {"gc.scan", "gc.pass"}
        /\ mem'[p] = index \/ (mem'[p] = mem[p] /\ pc[p] = "gc.scan")
    BY <1>1, <1>5 DEF GcLock, GcScan, GcScanned, Load
  <2> QED
    BY <1>2, <1>3, <2>1 DEF Kept, Covers, Backs
<1>6. CASE GcPass(p)
  <2>1. /\ UNCHANGED <<index, layer, mem>> /\ pc[p] = "gc.pass" /\ pc'[p] = "gc.remove"
        /\ \A c \in batch'[p] : c \in DOMAIN mem[p] /\ mem[p][c].refcount_sessions = 0
    BY <1>1, <1>6 DEF GcPass, Unreferenced
  <2> QED
    BY <1>2, <1>3, <2>1 DEF Kept, Covers, Backs
<1>7. CASE GcPop(p)
  <2> PICK c \in batch[p] :
        /\ arg' = [arg EXCEPT ![p] = c]
        /\ batch' = [batch EXCEPT ![p] = @ \ {c}]
        /\ mem' = [mem EXCEPT ![p] = IndexPopped(@, c)]
        /\ layer' = [layer EXCEPT ![c] = IF @ = "absent" THEN @ ELSE "partial"]
    BY <1>7 DEF GcPop
  <2> DEFINE idx == mem[p]
             new == IndexPopped(idx, c)
  <2>1. /\ idx \in Index /\ index' = index
        /\ pc[p] = "gc.remove" /\ pc'[p] = "gc.rmtree"
        /\ mem'[p] = new /\ arg'[p] = c /\ batch'[p] = batch[p] \ {c}
    BY <1>1, <1>7 DEF GcPop
  <2>2. /\ Covers(idx, stack[p])
        /\ \A d \in batch[p] : d \in DOMAIN idx /\ idx[d].refcount_sessions = 0
    BY <1>2, <2>1 DEF Kept
  <2> HIDE DEF idx
  <2>3. /\ DOMAIN new = DOMAIN idx \ {c}
        /\ \A d \in DOMAIN new :
             /\ new[d].refcount_sessions = idx[d].refcount_sessions
             /\ new[d].refcount_layers = IF d = idx[c].parent
                                         THEN Minus(idx[d].refcount_layers, 1)
                                         ELSE idx[d].refcount_layers
             /\ new[d].parent = idx[d].parent
    BY <2>1, PoppedFields
  <2> HIDE DEF new
  <2>4. ~ (Cardinality(Uses(stack[p], 0, c)) > 0)
    <3>1. Cardinality(Uses(stack[p], 0, c)) \in Nat /\ c \in Contents
      BY <1>1, UsesFinite
    <3> QED
      BY <2>2, <3>1 DEF Covers
  <2>5. Covers(new, stack[p])
    BY <2>2, <2>3, <2>4 DEF Covers
  <2>6. \A i \in 1 .. Len(stack[p]) : stack[p][i] # c
    BY <1>1, <2>4, UsedSomewhere
  <2>7. \A d \in batch[p] \ {c} : d \in DOMAIN new /\ new[d].refcount_sessions = 0
    BY <2>2, <2>3
  <2>8. \A i \in 1 .. Len(stack[p]) : layer'[stack[p][i]] = layer[stack[p][i]]
    BY <1>1, <2>6
  <2> QED
    BY <1>2, <1>3, <2>1, <2>5, <2>6, <2>7, <2>8 DEF Kept, Covers, Backs
<1>8. CASE GcRemoved(p)
  <2>1. /\ index' = index /\ mem' = mem /\ batch' = batch
        /\ pc[p] = "gc.rmtree" /\ pc'[p] \in {"gc.pass", "gc.remove"}
    BY <1>1, <1>8 DEF GcRemoved
  <2>2. \A i \in 1 .. Len(stack[p]) : layer'[stack[p][i]] = layer[stack[p][i]]
    BY <1>1, <1>2, <1>8 DEF GcRemoved, Kept
  <2> QED
    BY <1>2, <1>3, <2>1, <2>2 DEF Kept, Covers, Backs
<1>9. CASE GcSave(p)
  <2>1. /\ index' = mem[p] /\ layer' = layer
        /\ pc[p] = "gc.pass" /\ pc'[p] = "idle"
    BY <1>1, <1>9 DEF GcSave, GcLeave
  <2> QED
    BY <1>2, <1>3, <2>1 DEF Kept, Covers, Backs
<1> QED
  BY <1>4, <1>5, <1>6, <1>7, <1>8, <1>9 DEF Gc

\* With one server that is all that can happen to its session.
LEMMA UseInvInductive ==
  ASSUME OneServer
  PROVE  /\ Init => UseInv
         /\ LockInv /\ LifeInv /\ UseInv /\ [Next]_vars => UseInv'
<1>1. Init => UseInv
  BY DEF Init, UseInv, InService
<1>2. ASSUME LockInv, LifeInv, UseInv, NEW p \in Procs, Step(p), InService(p)'
      PROVE  Kept(p)'
  <2>1. /\ TypeInv /\ pc \in [Procs -> Labels] /\ mode \in [Procs -> Modes]
        /\ stack \in [Procs -> Seq(Contents)]
    BY <1>2 DEF LockInv, TypeInv, FieldsOK
  <2>2. CASE Commit(p) \/ Rollback(p) \/ Gc(p)
    <3>1. mode' = mode
      BY <2>2 DEF session, Commit, CommitBegin, CommitDedupe, CommitMakeDir, CommitCopied,
         CommitCopyFails, CommitSave, Rollback, RollbackBegin, RollbackLock, RollbackSave,
         Gc, GcBegin, GcLock, GcScan, GcScanRaises, GcScanned, GcPass, GcPop, GcRemoved,
         GcRmtreeRaises, GcSave
    <3> QED
      BY <1>2, <2>2, <3>1, CommitKept, RollbackKept, GcKept DEF InService
  <2>3. CASE PersistOpen(p) \/ PersistDump(p) \/ RootGone(p)
    <3>1. /\ UNCHANGED <<index, layer>> /\ stack' = stack
          /\ pc[p] \in {"create.pid", "persist", "dump"}
          /\ pc'[p] \in {"dump", "idle", "visit"}
      BY <2>1, <2>3 DEF PersistOpen, PersistDump, RootGone, BeginShutdown, Goto, store,
         session
    <3>2. mode[p] \in {"creating", "serving"}
      BY <1>2, <2>1, <3>1 DEF LifeInv, Modes, Sweeping
    <3> QED
      BY <1>2, <2>1, <3>1, <3>2, KeptFrame DEF Collecting
  <2>4. CASE \/ Start(p) \/ SweepDone(p) \/ CreateDirs(p) \/ CreatePid(p)
             \/ Destroy(p) \/ End(p)
    <3>1. mode'[p] # "serving"
      BY <1>2, <2>1, <2>4
         DEF LifeInv, Sweeping, Creating, Working, Committing, Collecting, Goto, session,
             Start, SweepDone, CreateDirs, CreatePid, Destroy, VisitSkip, VisitCondemn,
             DestroyLock, DestroySave, RmtreeList, RmtreeUnlink, RmtreeEnd, End, Exit,
             Sigterm, SigtermDone, ExitDone, Kill, ProcessEnds, BeginShutdown
    <3> QED
      BY <1>2, <3>1 DEF InService
  <2> QED
    BY <1>2, <2>2, <2>3, <2>4 DEF Step, Startup
<1>3. LockInv /\ LifeInv /\ UseInv /\ Next => UseInv'
  BY <1>2 DEF Next, Step, UseInv, OneServer
<1>4. UseInv /\ UNCHANGED vars => UseInv'
  BY DEF UseInv, InService, Kept, Covers, Backs, vars
<1> QED
  BY <1>1, <1>3, <1>4

-------------------------------------------------------------------------------
(* What a startup sweep removes *)

\* A session that a sweep can remove: its server is gone and its meta.json is not torn.
Orphan(s) == pid[s] = DeadProc /\ meta[s].kind # "torn"

\* A session with a pid file is found by listing the directories.
Listable == \A s \in Sids : pid[s] # NoProc => dir[s] = "there"

\* The sweep has each orphan ahead of it or in hand, and leaves none behind; rmtree
\* does not forget the pid file.
SweepOf(p) ==
  /\ mode[p] = "startup" => \A s \in Sids : Orphan(s) =>
       s \in todo[p] \/ (pc[p] # "visit" /\ victim[p] = s)
  /\ mode[p] \in {"creating", "serving"} => \A s \in Sids : ~ Orphan(s)
  /\ mode[p] \in {"creating", "serving"} /\ pc[p] # "create.dirs" =>
       sess[p] \in Sids /\ pid[sess[p]] # DeadProc
  /\ pc[p] = "unlink" => victim[p] \in Sids
                         /\ ("pid" \notin left[p] => pid[victim[p]] = NoProc)
  /\ pc[p] \in {"destroy.lock", "destroy.save", "rmtree"} => victim[p] \in Sids

SweepInv == Listable /\ \A p \in Procs : SweepOf(p)

\* The first sweep, and making the session, leave every orphan in the sweep's list.
LEMMA SweepStartup ==
  ASSUME TypeInv, LifeInv, SweepInv, NEW p \in Procs, Startup(p)
  PROVE  Listable' /\ SweepOf(p)'
<1>1. /\ pc \in [Procs -> Labels] /\ mode \in [Procs -> Modes]
      /\ dir \in [Sids -> {"unused", "there", "gone"}]
      /\ pid \in [Sids -> Procs \cup {NoProc, DeadProc}] /\ meta \in [Sids -> Meta]
      /\ sess \in [Procs -> Sids \cup {NoSid}] /\ todo \in [Procs -> SUBSET Sids]
      /\ Listable /\ SweepOf(p)
  BY DEF TypeInv, FieldsOK, SweepInv
<1> USE SentinelAssumption DEF Goto, store, disk, session, gcvars, sweeping, Listable,
        SweepOf, Orphan
<1>2. CASE Start(p)
  BY <1>1, <1>2 DEF Start, Listing
<1>3. CASE SweepDone(p)
  BY <1>1, <1>3 DEF SweepDone
<1>4. CASE CreateDirs(p)
  <2>1. mode[p] = "creating"
    BY <1>1, <1>4 DEF CreateDirs, LifeInv, Modes, Sweeping, Working, Committing, Collecting
  <2> QED
    BY <1>1, <1>4, <2>1 DEF CreateDirs
<1>5. ASSUME CreatePid(p) \/ PersistOpen(p) \/ PersistDump(p) \/ RootGone(p)
      PROVE  /\ mode[p] \in {"creating", "serving"}
             /\ sess[p] \in Sids /\ pid[sess[p]] # DeadProc
  BY <1>1, <1>5 DEF CreatePid, PersistOpen, PersistDump, RootGone, LifeInv, Modes,
     Sweeping
<1>6. CASE CreatePid(p)
  BY <1>1, <1>5, <1>6 DEF CreatePid
<1>7. CASE PersistOpen(p)
  BY <1>1, <1>5, <1>7 DEF PersistOpen, TornMeta
<1>8. CASE PersistDump(p)
  <2>1. \A s \in Sids : meta'[s] = meta[s] \/ s = sess[p]
    BY <1>1, <1>8 DEF PersistDump
  <2>2. /\ pid' = pid /\ sess' = sess /\ mode'[p] = "serving" /\ pc'[p] = "idle"
        /\ \A s \in Sids : dir[s] = "there" => dir'[s] = "there"
    BY <1>1, <1>8 DEF PersistDump
  <2> QED
    BY <1>1, <1>5, <1>8, <2>1, <2>2
<1>9. CASE RootGone(p)
  <2>1. /\ pid' = pid /\ meta' = meta /\ dir' = dir /\ sess' = sess
        /\ \/ mode'[p] = "exiting" /\ pc'[p] = "visit"
           \/ mode'[p] = mode[p] /\ pc'[p] = "idle"
    BY <1>1, <1>9 DEF RootGone, BeginShutdown
  <2> QED
    BY <1>1, <1>5, <1>9, <2>1
<1> QED
  BY <1>2, <1>3, <1>4, <1>6, <1>7, <1>8, <1>9 DEF Startup

\* Tool calls leave the pid files and the list of the sweep alone.
LEMMA SweepTools ==
  ASSUME TypeInv, LifeInv, SweepInv, NEW p \in Procs, Commit(p) \/ Rollback(p) \/ Gc(p)
  PROVE  Listable' /\ SweepOf(p)'
<1>1. /\ pc \in [Procs -> Labels] /\ mode \in [Procs -> Modes]
      /\ dir \in [Sids -> {"unused", "there", "gone"}]
      /\ Listable /\ SweepOf(p)
  BY DEF TypeInv, FieldsOK, SweepInv
<1> USE DEF Goto, store, disk, session
<1>2. pid' = pid /\ meta' = meta /\ sess' = sess /\ mode' = mode
  BY DEF Commit, CommitBegin, CommitDedupe, CommitMakeDir, CommitCopied,
     CommitCopyFails, CommitSave, Rollback, RollbackBegin, RollbackLock, RollbackSave,
     Gc, GcBegin, GcLock, GcScan, GcScanRaises, GcScanned, GcPass, GcPop, GcRemoved,
     GcRmtreeRaises, GcSave
<1>3. \A s \in Sids : dir[s] = "there" => dir'[s] = "there"
  BY <1>1 DEF Commit, CommitBegin, CommitDedupe, CommitMakeDir, CommitCopied,
     CommitCopyFails, CommitSave, Rollback, RollbackBegin, RollbackLock, RollbackSave,
     Gc, GcBegin, GcLock, GcScan, GcScanRaises, GcScanned, GcPass, GcPop, GcRemoved,
     GcRmtreeRaises, GcSave
<1>4. pc[p] \in Working
  BY DEF Working, Committing, Collecting,
     Commit, CommitBegin, CommitDedupe, CommitMakeDir, CommitCopied,
     CommitCopyFails, CommitSave, Rollback, RollbackBegin, RollbackLock, RollbackSave,
     Gc, GcBegin, GcLock, GcScan, GcScanRaises, GcScanned, GcPass, GcPop, GcRemoved,
     GcRmtreeRaises, GcSave
<1>5. mode[p] = "serving"
  BY <1>1, <1>4 DEF LifeInv, Working, Committing, Collecting, Modes, Sweeping, Creating
<1>6. pc'[p] \in Working \cup {"persist"}
  <2> USE <1>1 DEF Working, Committing, Collecting
  <2>1. CASE Commit(p)
    BY <2>1 DEF Commit, CommitBegin, CommitDedupe, CommitMakeDir, CommitCopied,
       CommitCopyFails, CommitSave
  <2>2. CASE Rollback(p)
    BY <2>2 DEF Rollback, RollbackBegin, RollbackLock, RollbackSave
  <2>3. CASE GcRemoved(p)
    BY <2>3 DEF GcRemoved
  <2>4. CASE Gc(p) /\ ~ GcRemoved(p)
    BY <2>4 DEF Gc, GcBegin, GcLock, GcScan, GcScanRaises, GcScanned, GcPass, GcPop,
       GcRmtreeRaises, GcSave, GcLeave
  <2> QED
    BY <2>1, <2>2, <2>3, <2>4
<1>7. Listable'
  BY <1>1, <1>2, <1>3 DEF Listable
<1>8. SweepOf(p)'
  BY <1>1, <1>2, <1>4, <1>5, <1>6 DEF SweepOf, Orphan, Working, Committing, Collecting
<1> QED
  BY <1>7, <1>8

\* A destroy takes a session off the list only when its directory is gone.
LEMMA SweepDestroy ==
  ASSUME TypeInv, LifeInv, SweepInv, NEW p \in Procs, Destroy(p) \/ End(p)
  PROVE  Listable' /\ SweepOf(p)'
<1>1. /\ pc \in [Procs -> Labels] /\ mode \in [Procs -> Modes]
      /\ dir \in [Sids -> {"unused", "there", "gone"}]
      /\ pid \in [Sids -> Procs \cup {NoProc, DeadProc}] /\ meta \in [Sids -> Meta]
      /\ victim \in [Procs -> Sids \cup {NoSid}] /\ todo \in [Procs -> SUBSET Sids]
      /\ left \in [Procs -> SUBSET {"pid", "meta"}]
      /\ Listable /\ SweepOf(p)
  BY DEF TypeInv, FieldsOK, SweepInv
<1> USE SentinelAssumption DEF Goto, store, disk, session, gcvars, sweeping
\* The loop and the handlers are in no mode in which tools run.
<1>2. ASSUME pc[p] \in Sweeping PROVE mode[p] \notin {"creating", "serving"}
  BY <1>1, <1>2 DEF LifeInv, Sweeping, Creating, Working, Committing, Collecting, Modes
<1>3. CASE VisitSkip(p)
  BY <1>1, <1>2, <1>3 DEF VisitSkip, Listable, SweepOf, Orphan, Condemned, Sweeping
<1>4. CASE VisitCondemn(p)
  BY <1>1, <1>2, <1>4 DEF VisitCondemn, Listable, SweepOf, Orphan, Sweeping
<1>5. CASE DestroyLock(p) \/ DestroySave(p)
  BY <1>1, <1>2, <1>5 DEF DestroyLock, DestroySave, Listable, SweepOf, Orphan, Sweeping
<1>6. CASE RmtreeList(p)
  BY <1>1, <1>2, <1>6 DEF RmtreeList, Listable, SweepOf, Orphan, Sweeping
<1>7. CASE RmtreeUnlink(p)
  <2> PICK f \in left[p] :
        /\ left' = [left EXCEPT ![p] = @ \ {f}]
        /\ pid' = IF f = "pid" THEN [pid EXCEPT ![victim[p]] = NoProc] ELSE pid
        /\ meta' = IF f = "meta" THEN [meta EXCEPT ![victim[p]] = NoMeta] ELSE meta
    BY <1>7 DEF RmtreeUnlink
  <2>1. /\ pc[p] = "unlink" /\ UNCHANGED <<pc, mode, todo, victim, dir>>
        /\ victim[p] \in Sids
    BY <1>1, <1>7 DEF RmtreeUnlink, SweepOf
  <2>2. \A s \in Sids : /\ pid'[s] = pid[s] \/ pid'[s] = NoProc
                        /\ s # victim[p] => pid'[s] = pid[s] /\ meta'[s] = meta[s]
    BY <1>1
  <2>3. "pid" \notin left'[p] => pid'[victim[p]] = NoProc
    BY <1>1, <2>1 DEF SweepOf
  <2>4. Listable'
    BY <1>1, <2>1, <2>2 DEF Listable
  <2> QED
    BY <1>1, <1>2, <2>1, <2>2, <2>3, <2>4 DEF SweepOf, Orphan, Sweeping
<1>8. CASE RmtreeEnd(p)
  <2>1. pc[p] = "unlink" /\ pid[victim[p]] = NoProc /\ victim[p] \in Sids
    BY <1>1, <1>8 DEF RmtreeEnd, SweepOf
  <2> QED
    BY <1>1, <1>2, <1>8, <2>1 DEF RmtreeEnd, Listable, SweepOf, Orphan, Sweeping
<1>9. CASE Exit(p) \/ Sigterm(p) \/ SigtermDone(p)
  BY <1>1, <1>9 DEF Exit, Sigterm, SigtermDone, BeginShutdown, Listable, SweepOf
<1>10. CASE ExitDone(p) \/ Kill(p)
  <2>1. /\ pc'[p] = "down" /\ mode'[p] = "down" /\ dir' = dir
        /\ \A s \in Sids : pid'[s] # NoProc => pid[s] # NoProc
    BY <1>1, <1>10 DEF ExitDone, Kill, ProcessEnds
  <2> QED
    BY <1>1, <2>1 DEF Listable, SweepOf
<1> QED
  BY <1>3, <1>4, <1>5, <1>6, <1>7, <1>8, <1>9, <1>10 DEF Destroy, End

\* With one server nobody else dies during a sweep.
LEMMA SweepInvInductive ==
  ASSUME OneServer
  PROVE  /\ Init => SweepInv
         /\ LockInv /\ LifeInv /\ SweepInv /\ [Next]_vars => SweepInv'
<1>1. Init => SweepInv
  BY DEF Init, SweepInv, Listable, SweepOf
<1>2. ASSUME LockInv, LifeInv, SweepInv, Next PROVE SweepInv'
  <2> PICK p \in Procs : Step(p)
    BY <1>2 DEF Next, Step
  <2>1. Listable' /\ SweepOf(p)'
    BY <1>2, SweepStartup, SweepTools, SweepDestroy DEF Step, LockInv
  <2> QED
    BY <2>1 DEF SweepInv, OneServer
<1>3. SweepInv /\ UNCHANGED vars => SweepInv'
  BY DEF SweepInv, Listable, SweepOf, Orphan, vars
<1> QED
  BY <1>1, <1>2, <1>3

-------------------------------------------------------------------------------
(* What a sweep leaves *)

\* The session that a server has made or makes.
OwnsSession(p) == mode[p] \in {"creating", "serving"} /\ pc[p] # "create.dirs"

\* The index counts a session for no more than its meta.json tells, and for one layer
\* that a commit has saved there first; without a pid file, or without a directory, for
\* that layer at most.
Trailing ==
  \A s \in Sids :
    /\ pid[s] = NoProc => Len(held[s]) <= 1
    /\ dir[s] = "unused" => Len(held[s]) = 0
    /\ meta[s].kind # "torn" => Len(held[s]) <= Len(meta[s].stack) + 1

\* A server holds one session, whose meta.json is up to date unless a tool is about to
\* write it, and destroys one of which it has read the stack.
TrailOf(p) ==
  /\ \A s \in Sids : pid[s] = p => sess[p] = s
  /\ mode[p] \in {"down", "startup"} \/ pc[p] = "create.dirs" => sess[p] = NoSid
  /\ OwnsSession(p) => Len(held[sess[p]]) <= Len(stack[p])
  /\ OwnsSession(p) /\ pc[p] # "create.pid" => pid[sess[p]] = p
  /\ pc[p] = "dump" => meta[sess[p]].kind = "torn"
  /\ pc[p] \in Working /\ meta[sess[p]].kind # "torn" =>
       Len(held[sess[p]]) <= Len(meta[sess[p]].stack)
  /\ pc[p] \in {"destroy.lock", "destroy.save"} =>
       Len(held[victim[p]]) <= Len(vstack[p]) + 1
  /\ pc[p] \in {"rmtree", "unlink"} => Len(held[victim[p]]) <= 1

TrailInv == Trailing /\ \A p \in Procs : TrailOf(p)

\* What the lemmas about the steps of one server start from.
TrailTypes(p) ==
  /\ pc \in [Procs -> Labels] /\ mode \in [Procs -> Modes]
  /\ dir \in [Sids -> {"unused", "there", "gone"}]
  /\ pid \in [Sids -> Procs \cup {NoProc, DeadProc}] /\ meta \in [Sids -> Meta]
  /\ sess \in [Procs -> Sids \cup {NoSid}] /\ victim \in [Procs -> Sids \cup {NoSid}]
  /\ stack \in [Procs -> Seq(Contents)] /\ vstack \in [Procs -> Seq(Contents)]
  /\ held \in [Sids -> Seq(Contents)] /\ left \in [Procs -> SUBSET {"pid", "meta"}]
  /\ Listable /\ SweepOf(p) /\ Trailing /\ TrailOf(p)

LEMMA TrailTypesHold ==
  ASSUME TypeInv, SweepInv, TrailInv, NEW p \in Procs
  PROVE  TrailTypes(p)
  BY DEF TrailTypes, TypeInv, FieldsOK, SweepInv, TrailInv

\* A stack has a length.
LEMMA Lengths ==
  /\ \A stk \in Seq(Contents) : Len(stk) \in Nat
  /\ Len(<<>>) = 0
  OBVIOUS

\* Making the session: it is counted for what it stacks when meta.json is written.
LEMMA TrailStartup ==
  ASSUME TypeInv, LifeInv, SweepInv, TrailInv, NEW p \in Procs, Startup(p)
  PROVE  Trailing' /\ TrailOf(p)'
<1>1. TrailTypes(p)
  BY TrailTypesHold
<1>2. /\ \A s \in Sids : Len(held[s]) \in Nat
      /\ \A q \in Procs : Len(stack[q]) \in Nat
  BY <1>1, Lengths DEF TrailTypes
<1> USE <1>1, SentinelAssumption DEF TrailTypes, Goto, store, disk, session, gcvars, sweeping, Trailing,
        TrailOf, OwnsSession
<1>3. CASE Start(p)
  BY <1>3 DEF Start, LifeInv, Sweeping, Creating, Working, Committing, Collecting
<1>4. CASE SweepDone(p)
  BY <1>4 DEF SweepDone, Working, Committing, Collecting
<1>5. CASE CreateDirs(p)
  <2> PICK s \in Sids : /\ dir[s] = "unused"
                        /\ dir' = [dir EXCEPT ![s] = "there"]
                        /\ sess' = [sess EXCEPT ![p] = s]
    BY <1>5 DEF CreateDirs
  <2>1. \A t \in Sids : pid[t] # p
    BY <1>5 DEF CreateDirs
  <2>2. /\ pc[p] = "create.dirs" /\ pc'[p] = "create.pid"
        /\ UNCHANGED <<held, stack, pid, meta, mode, victim, vstack, left>>
    BY <1>5 DEF CreateDirs
  <2>3. held[s] \in Seq(Contents) /\ Len(held[s]) = 0 /\ Len(stack[p]) \in Nat
    BY <1>2
  <2>4. mode[p] = "creating"
    BY <2>2 DEF LifeInv, Modes, Sweeping, Working, Committing, Collecting
  <2>5. Trailing'
    BY <2>2 DEF Trailing
  <2> QED
    BY <2>1, <2>2, <2>3, <2>4, <2>5 DEF Working, Committing, Collecting
<1>6. ASSUME CreatePid(p) \/ PersistOpen(p) \/ PersistDump(p) \/ RootGone(p)
      PROVE  /\ OwnsSession(p) /\ sess[p] \in Sids
             /\ Len(held[sess[p]]) <= Len(stack[p])
             /\ pc[p] # "create.pid" => pid[sess[p]] = p /\ pid[sess[p]] # NoProc
  <2>1. OwnsSession(p) /\ sess[p] \in Sids
    BY <1>6 DEF CreatePid, PersistOpen, PersistDump, RootGone, LifeInv, Modes, Sweeping,
       SweepOf
  <2> QED
    BY <2>1
<1>7. CASE CreatePid(p)
  <2>1. /\ pc[p] = "create.pid" /\ pc'[p] = "persist"
        /\ pid' = [pid EXCEPT ![sess[p]] = p]
        /\ UNCHANGED <<held, stack, dir, meta, mode, sess, victim, vstack, left>>
    BY <1>7 DEF CreatePid
  <2>2. p # NoProc
    OBVIOUS
  <2> QED
    BY <1>6, <1>7, <2>1, <2>2 DEF Working, Committing, Collecting
<1>8. CASE PersistOpen(p)
  <2>1. /\ pc[p] = "persist" /\ pc'[p] = "dump"
        /\ meta' = [meta EXCEPT ![sess[p]] = TornMeta]
        /\ UNCHANGED <<held, stack, dir, pid, mode, sess, victim, vstack, left>>
    BY <1>8 DEF PersistOpen
  <2>2. TornMeta.kind = "torn"
    BY DEF TornMeta
  <2> QED
    BY <1>6, <1>8, <2>1, <2>2 DEF Working, Committing, Collecting
<1>9. CASE PersistDump(p)
  <2>1. /\ pc[p] = "dump" /\ pc'[p] = "idle" /\ mode'[p] = "serving"
        /\ meta[sess[p]].kind = "torn"
        /\ UNCHANGED <<held, stack, pid, sess, victim, vstack, left>>
    BY <1>9 DEF PersistDump
  <2>2. meta' = [meta EXCEPT ![sess[p]] = WholeMeta(stack[p])]
    BY <1>6, <1>9, <2>1 DEF PersistDump
  <2>3. WholeMeta(stack[p]).stack = stack[p]
    BY DEF WholeMeta
  <2>4. \A s \in Sids : dir'[s] = "unused" => dir[s] = "unused"
    BY <1>9 DEF PersistDump
  <2> DEFINE s == sess[p]
  <2>5. /\ s \in Sids /\ Len(held[s]) \in Nat /\ Len(stack[p]) \in Nat
        /\ Len(held[s]) <= Len(stack[p]) /\ pid[s] = p
    BY <1>2, <1>6, <1>9, <2>1
  <2>6. Trailing'
    BY <2>1, <2>2, <2>3, <2>4, <2>5 DEF Trailing
  <2>7. /\ meta'[s].stack = stack[p]
        /\ pc'[p] \notin {"dump", "destroy.lock", "destroy.save", "rmtree", "unlink",
                         "create.dirs"}
    BY <2>1, <2>2, <2>3, <2>5
  <2>8. /\ \A t \in Sids : pid'[t] = p => sess'[p] = t
        /\ mode'[p] = "serving" /\ sess'[p] = sess[p]
        /\ Len(held'[sess'[p]]) <= Len(stack'[p])
        /\ Len(held'[sess'[p]]) <= Len(meta'[sess'[p]].stack)
        /\ pid'[sess'[p]] = p
    BY <2>1, <2>5, <2>7
  <2>9. TrailOf(p)'
    BY <2>7, <2>8
  <2> QED
    BY <2>6, <2>9
<1>10. CASE RootGone(p)
  <2>1. /\ UNCHANGED <<held, stack, pid, meta, dir, sess, victim, vstack, left>>
        /\ dir[sess[p]] # "there"
        /\ pc[p] \in {"create.pid", "persist"}
    BY <1>10 DEF RootGone
  <2>2. pc[p] = "create.pid"
    BY <1>6, <1>10, <2>1 DEF Listable
  <2>3. mode[p] = "creating"
    BY <2>2 DEF LifeInv, Modes, Sweeping, Working, Committing, Collecting
  <2>4. pc'[p] = "visit" /\ mode'[p] = "exiting"
    BY <1>10, <2>3 DEF RootGone, BeginShutdown
  <2> QED
    BY <2>1, <2>4 DEF Working, Committing, Collecting
<1> QED
  BY <1>3, <1>4, <1>5, <1>7, <1>8, <1>9, <1>10 DEF Startup

\* A commit and a rollback change what the session is counted for as they change its
\* stack, before meta.json is written.
LEMMA TrailTools ==
  ASSUME LockInv, LifeInv, SweepInv, TrailInv, NEW p \in Procs,
         Commit(p) \/ Rollback(p) \/ Gc(p)
  PROVE  Trailing' /\ TrailOf(p)'
<1>1. TrailTypes(p) /\ TypeInv /\ ArgOK
  BY TrailTypesHold DEF LockInv
<1> USE <1>1 DEF TrailTypes, Goto, store, disk, session
<1>2. /\ UNCHANGED <<pid, meta, mode, sess, victim, vstack, left>>
      /\ pc[p] \in Working
  BY DEF sweeping, Working, Committing, Collecting, Commit, CommitBegin, CommitDedupe,
     CommitMakeDir, CommitCopied, CommitCopyFails, CommitSave, Rollback, RollbackBegin,
     RollbackLock, RollbackSave, Gc, GcBegin, GcLock, GcScan, GcScanRaises, GcScanned,
     GcPass, GcPop, GcRemoved, GcRmtreeRaises, GcSave
<1>3. mode[p] = "serving" /\ OwnsSession(p)
  BY <1>2 DEF LifeInv, Working, Committing, Collecting, Modes, Sweeping, Creating,
     OwnsSession
<1>4. /\ sess[p] \in Sids /\ pid[sess[p]] = p /\ dir[sess[p]] = "there"
      /\ pid[sess[p]] # NoProc
      /\ Len(held[sess[p]]) <= Len(stack[p])
  BY <1>2, <1>3, SentinelAssumption
     DEF TrailOf, SweepOf, Listable, OwnsSession, Working, Committing, Collecting
<1>5. \A s \in Sids : dir'[s] = "unused" => dir[s] = "unused"
  BY DEF Commit, CommitBegin, CommitDedupe, CommitMakeDir, CommitCopied, CommitCopyFails,
     CommitSave, Rollback, RollbackBegin, RollbackLock, RollbackSave, Gc, GcBegin, GcLock,
     GcScan, GcScanRaises, GcScanned, GcPass, GcPop, GcRemoved, GcRmtreeRaises, GcSave
<1>6. CASE UNCHANGED <<held, stack>> /\ pc'[p] \in Working
  <2>1. Trailing'
    BY <1>2, <1>5, <1>6 DEF Trailing
  <2> QED
    BY <1>2, <1>3, <1>6, <2>1 DEF TrailOf, OwnsSession, Working, Committing, Collecting
<1>7. ASSUME NEW h \in Seq(Contents), NEW stk \in Seq(Contents),
             held' = [held EXCEPT ![sess[p]] = h], stack'[p] = stk, pc'[p] = "persist",
             Len(h) <= Len(stk), Len(h) <= Len(held[sess[p]]) + 1,
             Len(h) <= Len(held[sess[p]]) \/ meta[sess[p]].kind = "torn"
               \/ Len(held[sess[p]]) <= Len(meta[sess[p]].stack)
      PROVE  Trailing' /\ TrailOf(p)'
  <2>1. /\ held'[sess[p]] = h /\ \A s \in Sids \ {sess[p]} : held'[s] = held[s]
        /\ dir[sess[p]] = "there" /\ dir'[sess[p]] # "unused"
    BY <1>4, <1>5, <1>7
  <2>2. /\ Len(h) \in Nat /\ Len(stk) \in Nat /\ Len(held[sess[p]]) \in Nat
        /\ Len(meta[sess[p]].stack) \in Nat
    BY <1>4, <1>7, Lengths DEF Meta
  <2>3. meta[sess[p]].kind # "torn" => Len(h) <= Len(meta[sess[p]].stack) + 1
    BY <1>4, <1>7, <2>2 DEF Trailing
  <2>4. Trailing'
    BY <1>2, <1>4, <1>5, <2>1, <2>3 DEF Trailing
  <2> QED
    BY <1>2, <1>3, <1>4, <1>7, <2>1, <2>4
       DEF TrailOf, OwnsSession, Working, Committing, Collecting
<1>8. CASE CommitSave(p)
  <2> DEFINE c == arg[p]
  <2>1. /\ c \in Contents /\ held' = [held EXCEPT ![sess[p]] = Append(held[sess[p]], c)]
        /\ stack'[p] = Append(stack[p], c) /\ pc'[p] = "persist"
    BY <1>8 DEF CommitSave, ArgOK
  <2>2. held[sess[p]] \in Seq(Contents) /\ stack[p] \in Seq(Contents)
    BY <1>4
  <2> HIDE DEF c
  <2>3. /\ Append(held[sess[p]], c) \in Seq(Contents)
        /\ Append(stack[p], c) \in Seq(Contents)
        /\ Len(Append(held[sess[p]], c)) = Len(held[sess[p]]) + 1
        /\ Len(Append(stack[p], c)) = Len(stack[p]) + 1
    BY <2>1, <2>2
  <2>4. Len(held[sess[p]]) \in Nat /\ Len(stack[p]) \in Nat
    BY <2>2
  <2>5. meta[sess[p]].kind = "torn" \/ Len(held[sess[p]]) <= Len(meta[sess[p]].stack)
    BY <1>2 DEF TrailOf
  <2> DEFINE h == Append(held[sess[p]], c)
             stk == Append(stack[p], c)
  <2>6. /\ h \in Seq(Contents) /\ stk \in Seq(Contents)
        /\ held' = [held EXCEPT ![sess[p]] = h] /\ stack'[p] = stk /\ pc'[p] = "persist"
        /\ Len(h) <= Len(stk) /\ Len(h) <= Len(held[sess[p]]) + 1
        /\ Len(h) <= Len(held[sess[p]]) \/ meta[sess[p]].kind = "torn"
             \/ Len(held[sess[p]]) <= Len(meta[sess[p]].stack)
    BY <1>4, <2>1, <2>3, <2>4, <2>5
  <2> HIDE DEF h, stk
  <2> QED
    BY <1>7, <2>6
<1>9. CASE RollbackSave(p)
  <2> DEFINE k == FirstUse(stack[p], arg[p])
  <2>1. /\ held' = [held EXCEPT ![sess[p]] = Bottom(held[sess[p]], k)]
        /\ stack'[p] = Bottom(stack[p], k) /\ pc'[p] = "persist"
    BY <1>9 DEF RollbackSave
  <2>2. held[sess[p]] \in Seq(Contents) /\ stack[p] \in Seq(Contents)
    BY <1>4
  <2>3. k \in Nat
    <3> PICK i \in 1 .. Len(stack[p]) : arg[p] = stack[p][i]
      BY <1>9 DEF RollbackSave, ArgOK, Stacks
    <3> QED
      BY <2>2, FirstUseExists
  <2> HIDE DEF k
  <2>4. /\ Bottom(held[sess[p]], k) \in Seq(Contents) /\ Bottom(stack[p], k) \in Seq(Contents)
        /\ Len(Bottom(held[sess[p]], k)) <= Len(held[sess[p]])
    BY <2>2, <2>3, PartsOfStacks, BottomShort
  <2>5. Len(Bottom(held[sess[p]], k)) <= Len(Bottom(stack[p], k))
    BY <1>4, <2>2, <2>3 DEF Bottom
  <2>6. Len(held[sess[p]]) \in Nat /\ Len(Bottom(held[sess[p]], k)) \in Nat
    BY <2>2, <2>4
  <2> DEFINE h == Bottom(held[sess[p]], k)
             stk == Bottom(stack[p], k)
  <2>7. /\ h \in Seq(Contents) /\ stk \in Seq(Contents)
        /\ held' = [held EXCEPT ![sess[p]] = h] /\ stack'[p] = stk /\ pc'[p] = "persist"
        /\ Len(h) <= Len(stk) /\ Len(h) <= Len(held[sess[p]]) + 1
        /\ Len(h) <= Len(held[sess[p]])
    BY <2>1, <2>4, <2>5, <2>6
  <2> HIDE DEF h, stk
  <2> QED
    BY <1>7, <2>7
<1>10. CASE ~ CommitSave(p) /\ ~ RollbackSave(p)
  <2>1. UNCHANGED <<held, stack>>
    BY <1>10 DEF Commit, CommitBegin, CommitDedupe, CommitMakeDir, CommitCopied,
       CommitCopyFails, Rollback, RollbackBegin, RollbackLock, Gc, GcBegin, GcLock, GcScan,
       GcScanRaises, GcScanned, GcPass, GcPop, GcRemoved, GcRmtreeRaises, GcSave
  <2>2. pc'[p] \in Working
    <3> USE DEF Working, Committing, Collecting
    <3>1. CASE Commit(p)
      BY <1>10, <3>1 DEF Commit, CommitBegin, CommitDedupe, CommitMakeDir, CommitCopied,
         CommitCopyFails
    <3>2. CASE Rollback(p)
      BY <1>10, <3>2 DEF Rollback, RollbackBegin, RollbackLock
    <3>3. CASE GcRemoved(p)
      BY <3>3 DEF GcRemoved
    <3>4. CASE Gc(p) /\ ~ GcRemoved(p)
      BY <3>4 DEF Gc, GcBegin, GcLock, GcScan, GcScanRaises, GcScanned, GcPass, GcPop,
         GcRmtreeRaises, GcSave, GcLeave
    <3> QED
      BY <3>1, <3>2, <3>3, <3>4
  <2> QED
    BY <1>6, <2>1, <2>2
<1> QED
  BY <1>8, <1>9, <1>10

\* A destroy counts down as far as the meta.json it has read tells.
LEMMA TrailDestroy ==
  ASSUME TypeInv, LifeInv, SweepInv, TrailInv, NEW p \in Procs, Destroy(p)
  PROVE  Trailing' /\ TrailOf(p)'
<1>1. TrailTypes(p)
  BY TrailTypesHold
<1> USE <1>1 DEF TrailTypes, Goto, store, disk, session
<1>2. /\ UNCHANGED <<mode, sess, stack>> /\ pc[p] \in Sweeping
  BY DEF Sweeping, Destroy, VisitSkip, VisitCondemn, DestroyLock, DestroySave, RmtreeList,
     RmtreeUnlink, RmtreeEnd
<1>3. mode[p] \notin {"creating", "serving"}
  BY <1>2 DEF LifeInv, Sweeping, Creating, Working, Committing, Collecting, Modes
<1>4. \A s \in Sids : Len(held[s]) \in Nat /\ Len(meta[s].stack) \in Nat
  BY Lengths DEF Meta
<1>5. pc'[p] \in Sweeping
  BY DEF Sweeping, Destroy, VisitSkip, VisitCondemn, DestroyLock, DestroySave, RmtreeList,
     RmtreeUnlink, RmtreeEnd
<1> USE <1>2, <1>3 DEF TrailOf, OwnsSession, Sweeping, Working, Committing, Collecting
<1>6. CASE VisitSkip(p)
  BY <1>6 DEF VisitSkip, Trailing, sweeping
<1>7. CASE VisitCondemn(p)
  <2> PICK s \in Sids : /\ meta[s].kind # "torn"
                        /\ victim' = [victim EXCEPT ![p] = s]
                        /\ vstack' = [vstack EXCEPT ![p] = meta[s].stack]
    BY <1>7 DEF VisitCondemn, TypeInv, FieldsOK
  <2>1. pc'[p] = "destroy.lock" /\ UNCHANGED <<held, pid, meta, dir>>
    BY <1>7 DEF VisitCondemn
  <2>2. Trailing'
    BY <2>1 DEF Trailing
  <2>3. Len(held'[victim'[p]]) <= Len(vstack'[p]) + 1
    BY <2>1 DEF Trailing
  <2> QED
    BY <2>1, <2>2, <2>3
<1>8. CASE DestroyLock(p)
  BY <1>8 DEF DestroyLock, Trailing, sweeping
<1>9. CASE DestroySave(p)
  <2> DEFINE s == victim[p]
             h == SubSeq(held[s], Len(vstack[p]) + 1, Len(held[s]))
  <2>1. /\ s \in Sids /\ held' = [held EXCEPT ![s] = h] /\ pc'[p] = "rmtree"
        /\ UNCHANGED <<pid, meta, dir, victim>> /\ pc[p] = "destroy.save"
    BY <1>9 DEF DestroySave, SweepOf
  <2>2. /\ held[s] \in Seq(Contents) /\ vstack[p] \in Seq(Contents)
        /\ Len(held[s]) <= Len(vstack[p]) + 1
    BY <2>1
  <2>3. Len(h) <= Len(held[s]) /\ Len(h) <= 1 /\ h \in Seq(Contents) /\ Len(h) \in Nat
    BY <2>2
  <2>4. held'[s] = h /\ \A t \in Sids \ {s} : held'[t] = held[t]
    BY <2>1
  <2>5. Len(held[s]) \in Nat /\ Len(meta[s].stack) \in Nat
    BY <1>4, <2>1
  <2> HIDE DEF h, s
  <2>6. Trailing'
    BY <2>1, <2>3, <2>4, <2>5 DEF Trailing
  <2>7. Len(held'[victim'[p]]) <= 1
    BY <2>1, <2>3, <2>4 DEF s
  <2> QED
    BY <2>1, <2>6, <2>7
<1>10. CASE RmtreeList(p)
  BY <1>10 DEF RmtreeList, Trailing
<1>11. CASE RmtreeUnlink(p)
  <2> PICK f \in left[p] :
        /\ pid' = IF f = "pid" THEN [pid EXCEPT ![victim[p]] = NoProc] ELSE pid
        /\ meta' = IF f = "meta" THEN [meta EXCEPT ![victim[p]] = NoMeta] ELSE meta
    BY <1>11 DEF RmtreeUnlink
  <2>1. /\ pc[p] = "unlink" /\ UNCHANGED <<pc, victim, dir, held, vstack>>
        /\ victim[p] \in Sids
    BY <1>11 DEF RmtreeUnlink, SweepOf
  <2>2. NoMeta.stack = <<>> /\ NoMeta.kind = "absent" /\ Len(<<>>) = 0
    BY DEF NoMeta
  <2>3. \A s \in Sids : /\ pid'[s] = pid[s] \/ (s = victim[p] /\ pid'[s] = NoProc)
                        /\ meta'[s] = meta[s] \/ (s = victim[p] /\ meta'[s] = NoMeta)
    BY <2>1
  <2>4. Len(held[victim[p]]) <= 1
    BY <2>1
  <2>5. Trailing'
    BY <1>4, <2>1, <2>2, <2>3, <2>4 DEF Trailing
  <2> QED
    BY <2>1, <2>3, <2>4, <2>5, SentinelAssumption
<1>12. CASE RmtreeEnd(p)
  <2>1. /\ pc'[p] = "visit" /\ UNCHANGED <<held, pid, meta>>
        /\ \A s \in Sids : dir'[s] = "unused" => dir[s] = "unused"
    BY <1>12 DEF RmtreeEnd
  <2> QED
    BY <2>1 DEF Trailing
<1> QED
  BY <1>6, <1>7, <1>8, <1>9, <1>10, <1>11, <1>12 DEF Destroy

\* A server that ends leaves no pid file with its own pid.
LEMMA TrailEnd ==
  ASSUME TypeInv, LifeInv, SweepInv, TrailInv, NEW p \in Procs, End(p)
  PROVE  Trailing' /\ TrailOf(p)'
<1>1. TrailTypes(p)
  BY TrailTypesHold
<1> USE <1>1 DEF TrailTypes, Goto, store, disk, session, TrailOf, OwnsSession, Working,
        Committing, Collecting
<1>2. CASE Exit(p) \/ Sigterm(p) \/ SigtermDone(p)
  BY <1>2 DEF Exit, Sigterm, SigtermDone, BeginShutdown, Trailing, sweeping, LifeInv
<1>3. CASE ExitDone(p) \/ Kill(p)
  <2>1. /\ pc'[p] = "down" /\ mode'[p] = "down" /\ UNCHANGED <<dir, meta, held>>
        /\ sess'[p] = NoSid
        /\ pid' = [s \in Sids |-> IF pid[s] = p THEN DeadProc ELSE pid[s]]
    BY <1>3 DEF ExitDone, Kill, ProcessEnds
  <2>2. \A s \in Sids : pid'[s] # p /\ (pid'[s] = NoProc => pid[s] = NoProc)
    BY <2>1, SentinelAssumption
  <2> QED
    BY <2>1, <2>2 DEF Trailing
<1> QED
  BY <1>2, <1>3 DEF End

\* With one server the counts trail through every crash.
LEMMA TrailInvInductive ==
  ASSUME OneServer
  PROVE  /\ Init => TrailInv
         /\ LockInv /\ LifeInv /\ SweepInv /\ TrailInv /\ [Next]_vars => TrailInv'
<1>1. Init => TrailInv
  BY SentinelAssumption, Lengths
     DEF Init, TrailInv, Trailing, TrailOf, OwnsSession, NoMeta, Working, Committing,
         Collecting
<1>2. ASSUME LockInv, LifeInv, SweepInv, TrailInv, Next PROVE TrailInv'
  <2> PICK p \in Procs : Step(p)
    BY <1>2 DEF Next, Step
  <2>1. Trailing' /\ TrailOf(p)'
    BY <1>2, TrailStartup, TrailTools, TrailDestroy, TrailEnd DEF Step, LockInv
  <2> QED
    BY <2>1 DEF TrailInv, OneServer
<1>3. TrailInv /\ UNCHANGED vars => TrailInv'
  BY DEF TrailInv, Trailing, TrailOf, OwnsSession, vars
<1> QED
  BY <1>1, <1>2, <1>3

-------------------------------------------------------------------------------
(* What one server keeps *)

\* A session in service is never undercounted, and its layers are in the index and
\* have directories, although its only server may be stopped, signalled and killed at
\* any step and started again, and copies and rmtrees may raise.
THEOREM CountedThroughCrashes ==
  ASSUME OneServer
  PROVE  Spec => []NeverUndercounted
<1>1. UseInv => NeverUndercounted
  BY DEF UseInv, Kept, Covers, NeverUndercounted
<1> QED
  BY <1>1, LockInvInductive, LifeInvInductive, UseInvInductive, PTL DEF Spec

\* The same for the layers themselves: the next command finds its lower directories.
THEOREM PresentThroughCrashes ==
  ASSUME OneServer
  PROVE  Spec => []StackPresent
<1>1. ASSUME TypeInv, UseInv, NEW p \in Procs, InService(p), NEW i \in 1 .. Len(stack[p])
      PROVE  stack[p][i] \in DOMAIN index /\ layer[stack[p][i]] # "absent"
  <2>1. Covers(index, stack[p]) /\ Backs(stack[p])
    BY <1>1 DEF UseInv, Kept
  <2>2. stack[p] \in Seq(Contents) /\ stack[p][i] \in Contents
    BY <1>1 DEF TypeInv, FieldsOK
  <2> QED
    BY <2>1, <2>2, UsedSomewhere DEF Covers, Backs
<1>2. LockInv /\ UseInv => StackPresent
  BY <1>1 DEF LockInv, StackPresent
<1> QED
  BY <1>2, LockInvInductive, LifeInvInductive, UseInvInductive, PTL DEF Spec

\* When the startup sweep of the only server is over, every earlier session that still
\* has a directory has lost its pid file, and none, removed or not, is counted for more
\* than one layer, but for those with a torn meta.json: however many crashes came before,
\* in sweeps and handlers too.
THEOREM SweepLeavesLittle ==
  ASSUME OneServer
  PROVE  Spec => []SweepLeaves
<1>1. ASSUME TypeInv, LifeInv, SweepInv, TrailInv,
             NEW p \in Procs, mode[p] \in {"creating", "serving"},
             NEW s \in Sids \ {sess[p]}, dir[s] # "unused", meta[s].kind # "torn"
      PROVE  pid[s] = NoProc /\ Len(held[s]) <= 1
  <2>1. pid[s] \in Procs \cup {NoProc, DeadProc}
    BY <1>1 DEF TypeInv, FieldsOK
  <2>2. pid[s] # DeadProc
    BY <1>1 DEF SweepInv, SweepOf, Orphan
  <2>3. pid[s] \notin Procs
    BY <1>1, OneServer DEF OneServer, TrailInv, TrailOf
  <2>4. pid[s] = NoProc
    BY <2>1, <2>2, <2>3
  <2> QED
    BY <1>1, <2>4 DEF TrailInv, Trailing
<1>2. LockInv /\ LifeInv /\ SweepInv /\ TrailInv => SweepLeaves
  BY <1>1 DEF LockInv, SweepLeaves
<1> QED
  BY <1>2, LockInvInductive, LifeInvInductive, SweepInvInductive, TrailInvInductive,
     PTL DEF Spec
===============================================================================
