------------------------------ MODULE LayerStore ------------------------------
(***************************************************************************)
(* The layer store of rattan: the content-addressed layers/ directory, the *)
(* refcounts of layers/index.json, the sessions/ directory, and the server *)
(* processes that share them.                                              *)
(*                                                                         *)
(* A server process runs its tools one at a time on its main thread, so it *)
(* is a sequential program with a program counter.  Several servers share  *)
(* one data directory and synchronise only through the flock on the index. *)
(* Each action is one file-system step of a tool, of the startup sweep or  *)
(* of the shutdown handler (layers.py, sessions.py, server.py).            *)
(***************************************************************************)
EXTENDS Naturals, Sequences, FiniteSets

CONSTANTS
  Procs,      \* server processes (a restarted server is the same element)
  Sids,       \* session ids; uuid4 never returns one twice, nor does the model
  Contents,   \* what an upperdir can hold; its hash is the commit id
  NoProc,     \* nobody holds the lock; a missing or empty pid file
  DeadProc,   \* a pid file that names a process that is gone
  NoSid,      \* no session
  NoContent,  \* "parent": null
  Events,     \* which of the environment's events below may happen
  MaxEvents,  \* bound: how many of them
  Overlap,    \* may one server start or stop while another starts or stops?
  MaxDepth    \* bound: commits a session stack may hold

(***************************************************************************)
(* The environment's events: the client closes the connection ("exit"), a  *)
(* SIGTERM arrives while a tool or a handler runs ("term"), the process is *)
(* killed or the machine stops ("kill"), a copy or an rmtree raises ("io").*)
(***************************************************************************)
EventKinds == {"exit", "term", "kill", "io"}

ASSUME SentinelAssumption ==
  /\ NoProc \notin Procs
  /\ DeadProc \notin Procs \cup {NoProc}
  /\ NoSid \notin Sids
  /\ NoContent \notin Contents

ASSUME BoundAssumption ==
  /\ Events \subseteq EventKinds
  /\ MaxEvents \in Nat
  /\ Overlap \in BOOLEAN
  /\ MaxDepth \in Nat

VARIABLES
  lock,    \* the process whose open file description holds the index flock
  index,   \* layers/index.json
  layer,   \* the state of each layers/<commit_id>/ directory
  dir,     \* the state of each sessions/<sid>/ directory
  pid,     \* sessions/<sid>/pid
  meta,    \* sessions/<sid>/meta.json
  pc,      \* what the main thread of a process does next
  mode,    \* which part of its life the process is in
  sess,    \* the session of the process (sessions._current)
  stack,   \* session.stack in the memory of that process
  arg,     \* the commit id the running tool works on
  mem,     \* the index as the process loaded and changed it in memory
  todo,    \* directory entries of os.listdir(sessions) not visited yet
  live,    \* gc: live_stack_ids
  batch,   \* gc: to_remove
  victim,  \* the session being destroyed
  vstack,  \* the stack read from its meta.json
  left,    \* rmtree: the files it listed and has not unlinked yet
  events,  \* how many environment events happened
  held     \* auxiliary: the stack each session is counted for in the index

store    == <<lock, index, layer, held>>
disk     == <<dir, pid, meta>>
session  == <<mode, sess, stack>>
sweeping == <<victim, vstack, left>>
gcvars   == <<live, batch>>
vars     == <<lock, index, layer, dir, pid, meta, pc, mode, sess, stack, arg,
              mem, todo, live, batch, victim, vstack, left, events, held>>

-------------------------------------------------------------------------------
(* Types *)

Entry == [refcount_sessions : Nat, refcount_layers : Nat,
          parent : Contents \cup {NoContent}]

\* The index is a JSON object: a function on the commit ids it has.
IsIndex(idx) == \E D \in SUBSET Contents : idx \in [D -> Entry]

EmptyIndex == [c \in {} |-> c]

Meta == [kind : {"absent", "torn", "whole"}, stack : Seq(Contents)]
NoMeta    == [kind |-> "absent", stack |-> <<>>]
TornMeta  == [kind |-> "torn",   stack |-> <<>>]
WholeMeta(stk) == [kind |-> "whole", stack |-> stk]

Labels == {"down", "visit", "destroy.lock", "destroy.save", "rmtree", "unlink",
           "create.dirs", "create.pid", "idle", "persist", "dump",
           "commit.lock", "commit.copy", "commit.save",
           "rollback.lock", "rollback.save",
           "gc.lock", "gc.scan", "gc.pass", "gc.remove", "gc.rmtree"}

Modes == {"down", "startup", "creating", "serving", "sigterm", "exiting"}

IndexesOK ==
  /\ IsIndex(index)
  /\ mem = [p \in Procs |-> mem[p]] /\ \A p \in Procs : IsIndex(mem[p])

FieldsOK ==
  /\ lock \in Procs \cup {NoProc}
  /\ layer \in [Contents -> {"absent", "partial", "whole"}]
  /\ dir \in [Sids -> {"unused", "there", "gone"}]
  /\ pid \in [Sids -> Procs \cup {NoProc, DeadProc}]
  /\ meta \in [Sids -> Meta]
  /\ pc \in [Procs -> Labels]
  /\ mode \in [Procs -> Modes]
  /\ sess \in [Procs -> Sids \cup {NoSid}]
  /\ stack \in [Procs -> Seq(Contents)]
  /\ arg \in [Procs -> Contents \cup {NoContent}]
  /\ todo \in [Procs -> SUBSET Sids]
  /\ live \in [Procs -> SUBSET Contents]
  /\ batch \in [Procs -> SUBSET Contents]
  /\ victim \in [Procs -> Sids \cup {NoSid}]
  /\ vstack \in [Procs -> Seq(Contents)]
  /\ left \in [Procs -> SUBSET {"pid", "meta"}]
  /\ events \in Nat
  /\ held \in [Sids -> Seq(Contents)]

TypeOK == IndexesOK /\ FieldsOK

Init ==
  /\ lock = NoProc
  /\ index = EmptyIndex
  /\ layer = [c \in Contents |-> "absent"]
  /\ dir = [s \in Sids |-> "unused"]
  /\ pid = [s \in Sids |-> NoProc]
  /\ meta = [s \in Sids |-> NoMeta]
  /\ pc = [p \in Procs |-> "down"]
  /\ mode = [p \in Procs |-> "down"]
  /\ sess = [p \in Procs |-> NoSid]
  /\ stack = [p \in Procs |-> <<>>]
  /\ arg = [p \in Procs |-> NoContent]
  /\ mem = [p \in Procs |-> EmptyIndex]
  /\ todo = [p \in Procs |-> {}]
  /\ live = [p \in Procs |-> {}]
  /\ batch = [p \in Procs |-> {}]
  /\ victim = [p \in Procs |-> NoSid]
  /\ vstack = [p \in Procs |-> <<>>]
  /\ left = [p \in Procs |-> {}]
  /\ events = 0
  /\ held = [s \in Sids |-> <<>>]

-------------------------------------------------------------------------------
(* Operators the actions share *)

Goto(p, label) == pc' = [pc EXCEPT ![p] = label]

\* An environment event of this kind is allowed and counted.
Event(kind) == kind \in Events /\ events < MaxEvents /\ events' = events + 1

\* Unless starts and stops may overlap, every other server is serving or down.
Quiet(p) == Overlap \/ \A q \in Procs \ {p} : mode[q] \in {"down", "serving"}

\* _index_lock: flock waits until no open file description holds the lock.  The
\* index is loaded right after it, which is what mem' records.
AcquireHeld(p)      == lock' = p        \* mutant: flock that does not wait
ReleaseForgotten(p) == UNCHANGED lock   \* mutant: the descriptor stays open
Acquire(p) == lock = NoProc /\ lock' = p
Release(p) == lock' = NoProc
Load(p)    == mem' = [mem EXCEPT ![p] = index]
Forget(p)  == mem' = [mem EXCEPT ![p] = EmptyIndex]

Listing == {s \in Sids : dir[s] = "there"}

\* The shutdown handler starts: it lists the sessions directory.
BeginShutdown(p, m) ==
  /\ Goto(p, "visit")
  /\ mode' = [mode EXCEPT ![p] = m]
  /\ todo' = [todo EXCEPT ![p] = Listing]

\* The commit ids a session's meta.json lists.
Listed(s) == {meta[s].stack[i] : i \in 1 .. Len(meta[s].stack)}

\* Positions of the stack that hold c, from position k + 1 on.
Uses(stk, k, c) == {i \in k + 1 .. Len(stk) : stk[i] = c}

\* max(0, n - k)
Minus(n, k) == IF n > k THEN n - k ELSE 0

\* mutant: a commit that finds an entry leaves it as it is
IndexWithCommitUncounted(idx, c, stk) ==
  [d \in DOMAIN idx \cup {c} |->
     IF d \in DOMAIN idx THEN idx[d]
     ELSE [refcount_sessions |-> 1, refcount_layers |-> 0, parent |-> NoContent]]

\* The index after a commit of c on top of stk: a new entry, or one more session
\* on the old one, which takes the tip as its parent if it has none.
IndexWithCommit(idx, c, stk) ==
  LET tip    == stk[Len(stk)]
      adopts == /\ stk # <<>>
                /\ c \in DOMAIN idx => idx[c].parent = NoContent
      entry  == [refcount_sessions |->
                    IF c \in DOMAIN idx THEN idx[c].refcount_sessions + 1 ELSE 1,
                 refcount_layers |->
                    IF c \in DOMAIN idx THEN idx[c].refcount_layers ELSE 0,
                 parent |-> IF adopts THEN tip
                            ELSE IF c \in DOMAIN idx THEN idx[c].parent
                            ELSE NoContent]
      stored == [d \in DOMAIN idx \cup {c} |-> IF d = c THEN entry ELSE idx[d]]
  IN  [d \in DOMAIN idx \cup {c} |->
         IF adopts /\ d = tip
         THEN [stored[d] EXCEPT !.refcount_layers = @ + 1]
         ELSE stored[d]]

\* mutant: the position that is kept is given up as well
IndexWithoutKept(idx, stk, k) ==
  [c \in DOMAIN idx |->
     [idx[c] EXCEPT !.refcount_sessions =
        Minus(@, Cardinality(Uses(stk, Minus(k, 1), c)))]]

\* The index after a session gave up the positions of stk above k.
IndexWithout(idx, stk, k) ==
  [c \in DOMAIN idx |->
     [idx[c] EXCEPT !.refcount_sessions = Minus(@, Cardinality(Uses(stk, k, c)))]]

\* mutant: the parent keeps counting a child that is gone
IndexPoppedAlone(idx, c) == [d \in DOMAIN idx \ {c} |-> idx[d]]

\* The index after gc popped c: its parent loses a child.
IndexPopped(idx, c) ==
  [d \in DOMAIN idx \ {c} |->
     IF d = idx[c].parent
     THEN [idx[d] EXCEPT !.refcount_layers = Minus(@, 1)]
     ELSE idx[d]]

\* mutant: gc relies on the meta.json files alone
UnreferencedOnDisk(idx, keep) ==
  {c \in DOMAIN idx \ keep : idx[c].refcount_layers = 0}

\* What one pass of gc removes.
Unreferenced(idx, keep) ==
  {c \in DOMAIN idx \ keep : /\ idx[c].refcount_sessions = 0
                             /\ idx[c].refcount_layers = 0}

\* stk[:k]
Bottom(stk, k) == SubSeq(stk, 1, IF k < Len(stk) THEN k ELSE Len(stk))

\* stack.index(c): the first occurrence.
FirstUse(stk, c) ==
  CHOOSE i \in 1 .. Len(stk) : stk[i] = c /\ \A j \in 1 .. i - 1 : stk[j] # c

-------------------------------------------------------------------------------
(* Process life: start, startup sweep, session creation *)

\* main: the startup gate lists the sessions directory.
Start(p) ==
  /\ pc[p] = "down" /\ Quiet(p)
  /\ \E s \in Sids : dir[s] = "unused"   \* bound: the run has ids left
  /\ Goto(p, "visit")
  /\ mode' = [mode EXCEPT ![p] = "startup"]
  /\ todo' = [todo EXCEPT ![p] = Listing]
  /\ UNCHANGED <<store, disk, sess, stack, arg, mem, gcvars, sweeping, events>>

\* mutant: the sweep passes over a session without a meta.json
CondemnedWithMeta(p, s) ==
  IF mode[p] = "startup" THEN pid[s] = DeadProc /\ meta[s].kind # "absent"
  ELSE pid[s] \in {p, NoProc}

\* The startup sweep destroys sessions whose pid file names a dead process.  The
\* shutdown handler destroys its own and those without a readable pid file.
Condemned(p, s) ==
  IF mode[p] = "startup" THEN pid[s] = DeadProc ELSE pid[s] \in {p, NoProc}

\* load_meta raises on a torn meta.json; both loops swallow that and go on.
VisitSkip(p) ==
  /\ pc[p] = "visit"
  /\ \E s \in todo[p] :
       /\ Condemned(p, s) => meta[s].kind = "torn"
       /\ todo' = [todo EXCEPT ![p] = @ \ {s}]
  /\ UNCHANGED <<store, disk, pc, session, arg, mem, gcvars, sweeping, events>>

\* The stack is read from meta.json here, before the lock is taken.
VisitCondemn(p) ==
  /\ pc[p] = "visit"
  /\ \E s \in todo[p] :
       /\ Condemned(p, s) /\ meta[s].kind # "torn"
       /\ todo' = [todo EXCEPT ![p] = @ \ {s}]
       /\ victim' = [victim EXCEPT ![p] = s]
       /\ vstack' = [vstack EXCEPT ![p] = meta[s].stack]
  /\ Goto(p, "destroy.lock")
  /\ UNCHANGED <<store, disk, session, arg, mem, gcvars, left, events>>

\* The sweep is over: _build_tools creates the session of this process.
SweepDone(p) ==
  /\ pc[p] = "visit" /\ todo[p] = {} /\ mode[p] = "startup"
  /\ Goto(p, "create.dirs")
  /\ mode' = [mode EXCEPT ![p] = "creating"]
  /\ UNCHANGED <<store, disk, sess, stack, arg, mem, todo, gcvars, sweeping,
                 events>>

\* create_session makes sessions/<sid>/{upper,work} ...
CreateDirs(p) ==
  /\ pc[p] = "create.dirs"
  /\ \E s \in Sids :
       /\ dir[s] = "unused"
       /\ dir' = [dir EXCEPT ![s] = "there"]
       /\ sess' = [sess EXCEPT ![p] = s]
  /\ Goto(p, "create.pid")
  /\ UNCHANGED <<store, pid, meta, mode, stack, arg, mem, todo, gcvars, sweeping,
                 events>>

\* ... then the pid file, and then persists the empty stack.
CreatePid(p) ==
  /\ pc[p] = "create.pid"
  /\ dir[sess[p]] = "there"
  /\ pid' = [pid EXCEPT ![sess[p]] = p]
  /\ Goto(p, "persist")
  /\ UNCHANGED <<store, dir, meta, session, arg, mem, todo, gcvars, sweeping,
                 events>>

\* _persist_meta: open(meta.json, "w") truncates the file ...
PersistOpen(p) ==
  /\ pc[p] = "persist"
  /\ dir[sess[p]] = "there"
  /\ meta' = [meta EXCEPT ![sess[p]] = TornMeta]
  /\ Goto(p, "dump")
  /\ UNCHANGED <<store, dir, pid, session, arg, mem, todo, gcvars, sweeping,
                 events>>

\* ... and json.dump fills it.  A file unlinked in between is filled in vain.
\* The tool then wipes the upper, whose makedirs recreates a removed root.
PersistDump(p) ==
  /\ pc[p] = "dump"
  /\ LET s == sess[p] IN
       /\ meta' = IF meta[s].kind = "torn"
                  THEN [meta EXCEPT ![s] = WholeMeta(stack[p])]
                  ELSE meta
       /\ dir' = IF mode[p] = "creating" THEN dir
                 ELSE [dir EXCEPT ![s] = "there"]
  /\ mode' = [mode EXCEPT ![p] = "serving"]
  /\ Goto(p, "idle")
  /\ UNCHANGED <<store, pid, sess, stack, arg, mem, todo, gcvars, sweeping,
                 events>>

\* The session directory was removed under the process: open raises.  A server
\* that cannot create its session exits; later, the tool call reports an error.
RootGone(p) ==
  /\ pc[p] \in {"create.pid", "persist"}
  /\ dir[sess[p]] # "there"
  /\ \/ /\ mode[p] = "creating"
        /\ BeginShutdown(p, "exiting")
     \/ /\ mode[p] # "creating"
        /\ Goto(p, "idle")
        /\ UNCHANGED <<mode, todo>>
  /\ UNCHANGED <<store, disk, sess, stack, arg, mem, gcvars, sweeping, events>>

-------------------------------------------------------------------------------
(* env_commit *)

\* The tools run on a session whose directory is there; the user's commands put
\* some content c in the upper.  The commit id is computed without the lock.
CommitBegin(p) ==
  /\ pc[p] = "idle" /\ dir[sess[p]] = "there"
  /\ Len(stack[p]) < MaxDepth
  /\ \E c \in Contents : arg' = [arg EXCEPT ![p] = c]
  /\ Goto(p, "commit.lock")
  /\ UNCHANGED <<store, disk, session, mem, todo, gcvars, sweeping, events>>

\* os.path.exists(layer_path)
LayerIndexed(c) == c \in DOMAIN index   \* mutant: trust the index
LayerThere(c)   == layer[c] # "absent"

\* A directory of that name is there: whatever it holds, it is the layer.
CommitDedupe(p) ==
  /\ pc[p] = "commit.lock" /\ LayerThere(arg[p])
  /\ Acquire(p) /\ Load(p)
  /\ Goto(p, "commit.save")
  /\ UNCHANGED <<index, layer, held, disk, session, arg, todo, gcvars, sweeping,
                 events>>

CommitMakeDir(p) ==
  /\ pc[p] = "commit.lock" /\ ~LayerThere(arg[p])
  /\ Acquire(p)
  /\ layer' = [layer EXCEPT ![arg[p]] = "partial"]
  /\ Goto(p, "commit.copy")
  /\ UNCHANGED <<index, held, disk, session, arg, mem, todo, gcvars, sweeping,
                 events>>

CommitCopied(p) ==
  /\ pc[p] = "commit.copy" /\ dir[sess[p]] = "there"
  /\ layer' = [layer EXCEPT ![arg[p]] = "whole"]
  /\ Load(p)
  /\ Goto(p, "commit.save")
  /\ UNCHANGED <<lock, index, held, disk, session, arg, todo, gcvars, sweeping,
                 events>>

\* The copy raises: the upper vanished, the disk is full, or it took too long.
CommitCopyFails(p) ==
  /\ pc[p] = "commit.copy"
  /\ \/ dir[sess[p]] # "there" /\ UNCHANGED events
     \/ Event("io")
  /\ Release(p)
  /\ Goto(p, "idle")
  /\ arg' = [arg EXCEPT ![p] = NoContent]
  /\ UNCHANGED <<index, layer, held, disk, session, mem, todo, gcvars, sweeping>>

\* os.replace of index.json, then the lock is released.  The append to the stack
\* in memory follows; no other process can tell it from this step.
CommitSave(p) ==
  /\ pc[p] = "commit.save"
  /\ index' = IndexWithCommit(mem[p], arg[p], stack[p])
  /\ Release(p) /\ Forget(p)
  /\ stack' = [stack EXCEPT ![p] = Append(@, arg[p])]
  /\ held' = [held EXCEPT ![sess[p]] = Append(@, arg[p])]
  /\ arg' = [arg EXCEPT ![p] = NoContent]
  /\ Goto(p, "persist")
  /\ UNCHANGED <<layer, disk, mode, sess, todo, gcvars, sweeping, events>>

-------------------------------------------------------------------------------
(* env_rollback *)

RollbackBegin(p) ==
  /\ pc[p] = "idle" /\ dir[sess[p]] = "there"
  /\ \E i \in 1 .. Len(stack[p]) : arg' = [arg EXCEPT ![p] = stack[p][i]]
  /\ Goto(p, "rollback.lock")
  /\ UNCHANGED <<store, disk, session, mem, todo, gcvars, sweeping, events>>

RollbackLock(p) ==
  /\ pc[p] = "rollback.lock"
  /\ Acquire(p) /\ Load(p)
  /\ Goto(p, "rollback.save")
  /\ UNCHANGED <<index, layer, held, disk, session, arg, todo, gcvars, sweeping,
                 events>>

\* The truncation of the stack in memory, which no other process sees, is part of
\* this step, and so is the wipe of the upper, which recreates a removed root.
RollbackSave(p) ==
  /\ pc[p] = "rollback.save"
  /\ LET k == FirstUse(stack[p], arg[p]) IN
       /\ index' = IndexWithout(mem[p], stack[p], k)
       /\ stack' = [stack EXCEPT ![p] = Bottom(@, k)]
       /\ held' = [held EXCEPT ![sess[p]] = Bottom(@, k)]
  /\ Release(p) /\ Forget(p)
  /\ dir' = [dir EXCEPT ![sess[p]] = "there"]
  /\ arg' = [arg EXCEPT ![p] = NoContent]
  /\ Goto(p, "persist")
  /\ UNCHANGED <<layer, pid, meta, mode, sess, todo, gcvars, sweeping, events>>

-------------------------------------------------------------------------------
(* env_gc *)

GcBegin(p) ==
  /\ pc[p] = "idle"
  /\ Goto(p, "gc.lock")
  /\ UNCHANGED <<store, disk, session, arg, mem, todo, gcvars, sweeping,
                 events>>

GcLock(p) ==
  /\ pc[p] = "gc.lock"
  /\ Acquire(p) /\ Load(p)
  /\ todo' = [todo EXCEPT ![p] = Listing]
  /\ Goto(p, "gc.scan")
  /\ UNCHANGED <<index, layer, held, disk, session, arg, gcvars, sweeping,
                 events>>

\* Give up or finish: the locals of gc are gone.
GcLeave(p) ==
  /\ Release(p) /\ Forget(p)
  /\ todo' = [todo EXCEPT ![p] = {}]
  /\ live' = [live EXCEPT ![p] = {}]
  /\ batch' = [batch EXCEPT ![p] = {}]
  /\ arg' = [arg EXCEPT ![p] = NoContent]
  /\ Goto(p, "idle")

\* Collect the commit ids of one session's meta.json.
GcScan(p) ==
  /\ pc[p] = "gc.scan"
  /\ \E s \in todo[p] :
       /\ meta[s].kind # "torn"
       /\ todo' = [todo EXCEPT ![p] = @ \ {s}]
       /\ live' = [live EXCEPT ![p] = @ \cup Listed(s)]
  /\ UNCHANGED <<store, disk, pc, session, arg, mem, batch, sweeping, events>>

\* load_meta raises on a torn meta.json, and gc does not catch it.
GcScanRaises(p) ==
  /\ pc[p] = "gc.scan"
  /\ \E s \in todo[p] : meta[s].kind = "torn"
  /\ GcLeave(p)
  /\ UNCHANGED <<index, layer, held, disk, session, sweeping, events>>

GcScanned(p) ==
  /\ pc[p] = "gc.scan" /\ todo[p] = {}
  /\ Goto(p, "gc.pass")
  /\ UNCHANGED <<store, disk, session, arg, mem, todo, gcvars, sweeping,
                 events>>

\* One pass of the while loop: what to remove now ...
GcPass(p) ==
  /\ pc[p] = "gc.pass"
  /\ Unreferenced(mem[p], live[p]) # {}
  /\ batch' = [batch EXCEPT ![p] = Unreferenced(mem[p], live[p])]
  /\ Goto(p, "gc.remove")
  /\ UNCHANGED <<store, disk, session, arg, mem, todo, live, sweeping, events>>

\* ... popping one entry of the batch and starting the rmtree of its directory ...
GcPop(p) ==
  /\ pc[p] = "gc.remove"
  /\ \E c \in batch[p] :
       /\ arg' = [arg EXCEPT ![p] = c]
       /\ batch' = [batch EXCEPT ![p] = @ \ {c}]
       /\ mem' = [mem EXCEPT ![p] = IndexPopped(@, c)]
       /\ layer' = [layer EXCEPT ![c] = IF @ = "absent" THEN @ ELSE "partial"]
  /\ Goto(p, "gc.rmtree")
  /\ UNCHANGED <<lock, index, held, disk, session, todo, live, sweeping,
                 events>>

\* ... until the directory is gone.
GcRemoved(p) ==
  /\ pc[p] = "gc.rmtree"
  /\ layer' = [layer EXCEPT ![arg[p]] = "absent"]
  /\ arg' = [arg EXCEPT ![p] = NoContent]
  /\ Goto(p, IF batch[p] = {} THEN "gc.pass" ELSE "gc.remove")
  /\ UNCHANGED <<lock, index, held, disk, session, mem, todo, gcvars, sweeping,
                 events>>

\* shutil.rmtree raises: the index is never saved.
GcRmtreeRaises(p) ==
  /\ pc[p] = "gc.rmtree" /\ Event("io")
  /\ GcLeave(p)
  /\ UNCHANGED <<index, layer, held, disk, session, sweeping>>

\* Nothing more to remove: save the index.
GcSave(p) ==
  /\ pc[p] = "gc.pass"
  /\ Unreferenced(mem[p], live[p]) = {}
  /\ index' = mem[p]
  /\ GcLeave(p)
  /\ UNCHANGED <<layer, held, disk, session, sweeping, events>>

-------------------------------------------------------------------------------
(* destroy, called by the sweep and by the shutdown handler *)

DestroyLock(p) ==
  /\ pc[p] = "destroy.lock"
  /\ Acquire(p) /\ Load(p)
  /\ Goto(p, "destroy.save")
  /\ UNCHANGED <<index, layer, held, disk, session, arg, todo, gcvars, sweeping,
                 events>>

DestroySave(p) ==
  /\ pc[p] = "destroy.save"
  /\ index' = IndexWithout(mem[p], vstack[p], 0)
  /\ Release(p) /\ Forget(p)
  /\ held' = [held EXCEPT ![victim[p]] = SubSeq(@, Len(vstack[p]) + 1, Len(@))]
  /\ vstack' = [vstack EXCEPT ![p] = <<>>]
  /\ Goto(p, "rmtree")
  /\ UNCHANGED <<layer, disk, session, arg, todo, gcvars, victim, left, events>>

\* rmtree lists the root: the files it will unlink, in the directory's order.
RmtreeList(p) ==
  /\ pc[p] = "rmtree"
  /\ LET s == victim[p] IN
       left' = [left EXCEPT ![p] =
                  (IF pid[s] # NoProc THEN {"pid"} ELSE {}) \cup
                  (IF meta[s].kind # "absent" THEN {"meta"} ELSE {})]
  /\ Goto(p, "unlink")
  /\ UNCHANGED <<store, disk, session, arg, mem, todo, gcvars, victim, vstack,
                 events>>

RmtreeUnlink(p) ==
  /\ pc[p] = "unlink"
  /\ \E f \in left[p] :
       /\ left' = [left EXCEPT ![p] = @ \ {f}]
       /\ pid' = IF f = "pid" THEN [pid EXCEPT ![victim[p]] = NoProc] ELSE pid
       /\ meta' = IF f = "meta" THEN [meta EXCEPT ![victim[p]] = NoMeta] ELSE meta
  /\ UNCHANGED <<store, dir, pc, session, arg, mem, todo, gcvars, victim, vstack,
                 events>>

\* The rmdir of the root fails, quietly, if files appeared since the listing.
RmtreeEnd(p) ==
  /\ pc[p] = "unlink" /\ left[p] = {}
  /\ LET s == victim[p] IN
       dir' = IF dir[s] = "there" /\ pid[s] = NoProc /\ meta[s].kind = "absent"
              THEN [dir EXCEPT ![s] = "gone"]
              ELSE dir
  /\ victim' = [victim EXCEPT ![p] = NoSid]
  /\ Goto(p, "visit")
  /\ UNCHANGED <<store, pid, meta, session, arg, mem, todo, gcvars, vstack, left,
                 events>>

-------------------------------------------------------------------------------
(* The end of a process *)

\* The kernel closes the files of the process, which frees its flock, and its
\* pid no longer names a live process; its memory is gone.
ProcessEnds(p) ==
  /\ Goto(p, "down")
  /\ mode' = [mode EXCEPT ![p] = "down"]
  /\ lock' = IF lock = p THEN NoProc ELSE lock
  /\ pid' = [s \in Sids |-> IF pid[s] = p THEN DeadProc ELSE pid[s]]
  /\ sess' = [sess EXCEPT ![p] = NoSid]
  /\ stack' = [stack EXCEPT ![p] = <<>>]
  /\ arg' = [arg EXCEPT ![p] = NoContent]
  /\ Forget(p)
  /\ todo' = [todo EXCEPT ![p] = {}]
  /\ live' = [live EXCEPT ![p] = {}]
  /\ batch' = [batch EXCEPT ![p] = {}]
  /\ victim' = [victim EXCEPT ![p] = NoSid]
  /\ vstack' = [vstack EXCEPT ![p] = <<>>]
  /\ left' = [left EXCEPT ![p] = {}]

\* The client closed the connection: atexit runs the shutdown handler.
Exit(p) ==
  /\ pc[p] = "idle" /\ Event("exit") /\ Quiet(p)
  /\ BeginShutdown(p, "exiting")
  /\ UNCHANGED <<store, disk, sess, stack, arg, mem, gcvars, sweeping>>

\* SIGTERM: the handler runs on the main thread, on top of whatever it was doing,
\* and keeps the flock if the interrupted code held it.  The startup gate runs
\* before the handler is installed.
Sigterm(p) ==
  /\ mode[p] \in {"creating", "serving", "sigterm", "exiting"}
  /\ Event("term") /\ Quiet(p)
  /\ BeginShutdown(p, "sigterm")
  /\ UNCHANGED <<store, disk, sess, stack, arg, mem, gcvars, sweeping>>

\* The handler calls sys.exit, which unwinds the interrupted code (its "with"
\* releases the lock); atexit then runs the shutdown handler once more.
SigtermDone(p) ==
  /\ pc[p] = "visit" /\ todo[p] = {} /\ mode[p] = "sigterm"
  /\ BeginShutdown(p, "exiting")
  /\ lock' = IF lock = p THEN NoProc ELSE lock
  /\ UNCHANGED <<index, layer, held, disk, sess, stack, arg, mem, gcvars, sweeping,
                 events>>

ExitDone(p) ==
  /\ pc[p] = "visit" /\ todo[p] = {} /\ mode[p] = "exiting"
  /\ ProcessEnds(p)
  /\ UNCHANGED <<index, layer, held, dir, meta, events>>

\* SIGKILL, an OOM kill or a power cut, at any point.
Kill(p) ==
  /\ pc[p] # "down" /\ Event("kill")
  /\ ProcessEnds(p)
  /\ UNCHANGED <<index, layer, held, dir, meta>>

-------------------------------------------------------------------------------

Startup(p)  == \/ Start(p) \/ SweepDone(p) \/ CreateDirs(p) \/ CreatePid(p)
               \/ PersistOpen(p) \/ PersistDump(p) \/ RootGone(p)
Commit(p)   == \/ CommitBegin(p) \/ CommitDedupe(p) \/ CommitMakeDir(p)
               \/ CommitCopied(p) \/ CommitCopyFails(p) \/ CommitSave(p)
Rollback(p) == RollbackBegin(p) \/ RollbackLock(p) \/ RollbackSave(p)
Gc(p)       == \/ GcBegin(p) \/ GcLock(p) \/ GcScan(p) \/ GcScanRaises(p)
               \/ GcScanned(p) \/ GcPass(p) \/ GcPop(p) \/ GcRemoved(p)
               \/ GcRmtreeRaises(p) \/ GcSave(p)
Destroy(p)  == \/ VisitSkip(p) \/ VisitCondemn(p) \/ DestroyLock(p)
               \/ DestroySave(p) \/ RmtreeList(p) \/ RmtreeUnlink(p)
               \/ RmtreeEnd(p)
End(p)      == Exit(p) \/ Sigterm(p) \/ SigtermDone(p) \/ ExitDone(p) \/ Kill(p)

Next == \E p \in Procs : \/ Startup(p) \/ Commit(p) \/ Rollback(p) \/ Gc(p)
                         \/ Destroy(p) \/ End(p)

Spec == Init /\ [][Next]_vars

\* What the main thread does by itself, once a start, a tool call or a stop began.
Proceed(p) ==
  \/ SweepDone(p) \/ CreateDirs(p) \/ CreatePid(p) \/ PersistOpen(p)
  \/ PersistDump(p) \/ RootGone(p)
  \/ CommitDedupe(p) \/ CommitMakeDir(p) \/ CommitCopied(p) \/ CommitSave(p)
  \/ pc[p] = "commit.copy" /\ dir[sess[p]] # "there" /\ CommitCopyFails(p)
  \/ RollbackLock(p) \/ RollbackSave(p)
  \/ GcLock(p) \/ GcScan(p) \/ GcScanRaises(p) \/ GcScanned(p) \/ GcPass(p)
  \/ GcPop(p) \/ GcRemoved(p) \/ GcSave(p)
  \/ Destroy(p) \/ SigtermDone(p) \/ ExitDone(p)

\* A running thread takes its next step, and flock does not pass over one waiter
\* for ever: strong fairness, because others' critical sections disable the step.
FairSpec == Spec /\ \A p \in Procs : SF_vars(Proceed(p))

-------------------------------------------------------------------------------
(* Safety *)

\* A server whose tools may use its session.
InService(p) == mode[p] = "serving"

\* Every committed layer a serving session stacks is in the index and is whole on
\* disk: the overlay mount of the next command finds its lower directories
\* (layers.commit and layers.gc against each other, under the flock).
StackBacked ==
  \A p \in Procs : InService(p) =>
    \A i \in 1 .. Len(stack[p]) : /\ stack[p][i] \in DOMAIN index
                                  /\ layer[stack[p][i]] = "whole"

\* The weaker promise that survives crashes and failed copies: the layer is in
\* the index and its directory exists.
StackPresent ==
  \A p \in Procs : InService(p) =>
    \A i \in 1 .. Len(stack[p]) : /\ stack[p][i] \in DOMAIN index
                                  /\ layer[stack[p][i]] # "absent"

\* refcount_sessions of the index on disk counts the places sessions stack a layer
\* at, no more and no fewer, whatever tool of whatever server is half-way.
Places(c) == {x \in Sids \X (1 .. MaxDepth) :
                x[2] <= Len(held[x[1]]) /\ held[x[1]][x[2]] = c}

SessionsCounted ==
  /\ \A c \in DOMAIN index : index[c].refcount_sessions = Cardinality(Places(c))
  /\ \A c \in Contents \ DOMAIN index : Places(c) = {}

\* refcount_layers of the index on disk counts the entries whose parent it is.
ParentsCounted ==
  \A c \in DOMAIN index :
    index[c].refcount_layers =
      Cardinality({d \in DOMAIN index : index[d].parent = c})

\* The lock does what commit, rollback and destroy need of it: what they write
\* back is computed from the index that is on disk when they write it.
NoLostUpdate ==
  \A p \in Procs :
    pc[p] \in {"commit.save", "rollback.save", "destroy.save"} => mem[p] = index

\* Sessions are never undercounted: a layer some serving session stacks has at
\* least as many sessions counted as there are places it is stacked at.
NeverUndercounted ==
  \A p \in Procs : InService(p) =>
    \A c \in Contents :
      LET places == Cardinality(Uses(stack[p], 0, c)) IN
      places > 0 => c \in DOMAIN index /\ index[c].refcount_sessions >= places

\* What the startup sweep of the only server leaves of earlier sessions, however many
\* crashes came before, in sweeps and handlers too: one whose meta.json was torn; one
\* that was cut before its pid file was written, or in a removal after that file went,
\* which only a handler removes.  Of all but the torn ones, removed or not, at most one
\* layer is still counted: that of a commit cut between the index and meta.json.
SweepLeaves ==
  \A p \in Procs : mode[p] \in {"creating", "serving"} =>
    \A s \in Sids \ {sess[p]} : dir[s] # "unused" /\ meta[s].kind # "torn" =>
      /\ dir[s] = "there" => pid[s] = NoProc
      /\ Len(held[s]) <= 1

-------------------------------------------------------------------------------
(* Refinement *)

\* The store implements LayerRefs: a session's stack changes when the index that
\* counts it is saved, a layer exists when its directory is whole.
Refs == INSTANCE LayerRefs WITH stacks <- held,
                                layers <- {c \in Contents : layer[c] = "whole"}
ImplementsRefs == Refs!Spec

-------------------------------------------------------------------------------
(* Liveness *)

\* A tool call that began ends, with its lock released, although it may wait for
\* the lock of another server's commit, gc or shutdown.
ToolsFinish ==
  \A p \in Procs : (mode[p] = "serving" /\ pc[p] # "idle")
                     ~> pc[p] \in {"idle", "down"}

\* A server that was asked to stop, by its client or by SIGTERM, stops.
StopsFinish ==
  \A p \in Procs : mode[p] \in {"exiting", "sigterm"} ~> mode[p] = "down"
===============================================================================
