------------------------------ MODULE Workspace ------------------------------
(***************************************************************************)
(* What the commands of a session see: the files of its upper over the     *)
(* layers it stacks, as the sandboxed commands, the redirects that the     *)
(* server opens on the host, pacman and the env_* tools change them, the   *)
(* cached package list of shell_list, and what a background job stands on. *)
(*                                                                         *)
(* A tool call is one step, except env_commit, which hashes the upper      *)
(* before it copies it, and what a tool leaves behind: a job, an install   *)
(* that timed out, a process that a command put in the background.         *)
(* Counting and locking of the layers are in LayerStore: env_gc removes    *)
(* here what no session stacks, or less.  Directories, modes, /tmp, host   *)
(* binds and a wipe of the upper that fails are left out, and the base     *)
(* rootfs, below all layers, holds none of the paths.                      *)
(***************************************************************************)
EXTENDS Naturals, Sequences, FiniteSets

CONSTANTS
  Sids,        \* the sessions that share the layers
  Files,       \* the paths under /workspace
  Db,          \* the path of pacman's package database
  Text,        \* what a command, an install or a failing bwrap writes
  Targets,     \* the directories that the links of a session lead to
  NoList,      \* no cached package list
  MaxLen,      \* bound: pieces a file may hold
  MaxCommits,  \* bound: commits that the sessions stack, all together
  MaxLayers,   \* bound: layers in the store
  MaxRare,     \* bound: mishaps, links in the uppers and jobs that run
  NoJob        \* no job runs

ASSUME WorkspaceAssumption ==
  /\ Db \notin Files
  /\ MaxLen \in Nat /\ MaxCommits \in Nat
  /\ MaxLayers \in Nat /\ MaxRare \in Nat

VARIABLES
  upper,     \* session.upper
  stack,     \* session.stack
  store,     \* layers/<commit_id>/, by commit id
  pc, hash,  \* env_commit: is it about to copy, and the commit id it computed
  cache,     \* _shell_list_cache
  stray,     \* a process left behind in the upper: "none", "running", or "ended"
  mishaps,   \* how many processes were left behind and how many copies broke off
  job,       \* the layers under a running job of the session
  shots,     \* auxiliary: what each commit of a session left to be seen
  doubted    \* auxiliary: layers whose copy failed, or had a process write under it

vars == <<upper, stack, store, pc, hash, cache, stray, mishaps, shots, job, doubted>>

Paths == Files \cup {Db}

\* A file is the pieces written to it, a link the directory it leads to (links to
\* anything else are hashed and copied like files).  In a layer a path may have no
\* entry, so that the layers below show, or a whiteout, which hides them.
Nothing == [kind |-> "nothing", text |-> <<>>]
Whiteout == [kind |-> "whiteout", text |-> <<>>]
File(t) == [kind |-> "file", text |-> t]
Link(t) == [kind |-> "link", text |-> <<t>>]
Empty   == [f \in Paths |-> Nothing]

-------------------------------------------------------------------------------
(* Layers *)

\* _compute_manifest: regular files are hashed.  os.walk counts a link to a directory
\* among the directories, whose line is a path and a mode: where it leads is not hashed.
\* Whiteouts, which are devices, are skipped like fifos and sockets.
Hashed(entry) ==
  CASE entry.kind = "file" -> entry
    [] entry.kind = "link" -> [kind |-> "link", text |-> <<>>]
    [] OTHER -> Nothing

\* mutant: the seed directory workspace/ is not part of the content
ManifestSansWorkspace(lay) == [f \in Paths |-> IF f = Db THEN Hashed(lay[f]) ELSE Nothing]

Manifest(lay) == [f \in Paths |-> Hashed(lay[f])]

\* What the overlay shows of a path that its layers hold the entries of: the topmost
\* one there is.  lower_stack puts the oldest commit at the bottom.
Top(entries) ==
  LET with == {i \in DOMAIN entries : entries[i].kind # "nothing"}
  IN  IF with = {} THEN Nothing
      ELSE entries[CHOOSE i \in with : \A j \in with : j <= i]
Shown(entries) == IF Top(entries).kind \in {"file", "link"} THEN Top(entries) ELSE Nothing

Column(s, f) == [i \in 1 .. Len(stack[s]) |-> store[stack[s][i]][f]]
Below(s, f)  == Shown(Column(s, f))
View(s, f)   == Shown(Append(Column(s, f), upper[s][f]))
ViewOf(s)    == [f \in Paths |-> View(s, f)]

Init ==
  /\ upper = [s \in Sids |-> Empty]
  /\ stack = [s \in Sids |-> <<>>]
  /\ store = [id \in {} |-> Empty]
  /\ pc = [s \in Sids |-> "idle"] /\ hash = [s \in Sids |-> Empty]
  /\ cache = [s \in Sids |-> NoList]
  /\ stray = [s \in Sids |-> "none"]
  /\ mishaps = 0
  /\ doubted = {}
  /\ shots = [s \in Sids |-> <<>>]
  /\ job = [s \in Sids |-> NoJob]

-------------------------------------------------------------------------------
(* shell_run *)

\* What MaxRare bounds.
Links == {s \in Sids : \E f \in Paths : upper[s][f].kind = "link"}
Jobs  == {s \in Sids : job[s] # NoJob}
Rare  == mishaps + Cardinality(Links) + Cardinality(Jobs)

Put(s, f, entry) == upper' = [upper EXCEPT ![s][f] = entry]
Room(t) == Len(t) < MaxLen

\* While a process left behind has the overlay mounted, the next mount of it may be
\* refused (EBUSY, five times) and the command not run, or be granted.
Busy(s) == stray[s] = "running"

\* A sandboxed process writes a file anew, extends it, which copies it up, or removes
\* it, which leaves a whiteout where a layer below has the path.
Changes(s, f) ==
  \/ Put(s, f, File(<<Text>>))
  \/ /\ View(s, f).kind # "link" /\ Room(View(s, f).text)
     /\ Put(s, f, File(Append(View(s, f).text, Text)))
  \/ /\ View(s, f) # Nothing
     /\ Put(s, f, IF Below(s, f) = Nothing THEN Nothing ELSE Whiteout)

\* mutant: another command runs while env_commit is between its hash and its copy
WriteAnyTime(s, f) ==
  /\ Changes(s, f)
  /\ UNCHANGED <<stack, store, pc, hash, cache, stray, mishaps, shots, doubted>>

\* A command of shell_run changes a file, ...
Write(s, f) ==
  /\ pc[s] = "idle"
  /\ Changes(s, f)
  /\ UNCHANGED <<stack, store, pc, hash, cache, stray, mishaps, shots, doubted>>

\* ... or makes a symbolic link to a directory.
MakeLink(s, f) ==
  /\ pc[s] = "idle" /\ mishaps + Cardinality(Links) < MaxRare
  /\ \E t \in Targets[s] : Put(s, f, Link(t))
  /\ UNCHANGED <<stack, store, pc, hash, cache, stray, mishaps, shots, doubted>>

\* The redirect of a single command is opened by the server, in the upper and not
\* in the overlay: "wb" for > and "ab" for >>.  Neither a whiteout nor a directory can
\* be opened.  When the overlay is busy the file gets the stderr of bwrap.
RedirectOut(s, f) ==
  /\ pc[s] = "idle" /\ upper[s][f].kind \notin {"whiteout", "link"}
  /\ Put(s, f, File(<<Text>>))
  /\ UNCHANGED <<stack, store, pc, hash, cache, stray, mishaps, shots, doubted>>

RedirectAppend(s, f) ==
  /\ pc[s] = "idle" /\ upper[s][f].kind \notin {"whiteout", "link"}
  /\ Room(upper[s][f].text)
  /\ Put(s, f, File(Append(upper[s][f].text, Text)))
  /\ UNCHANGED <<stack, store, pc, hash, cache, stray, mishaps, shots, doubted>>

-------------------------------------------------------------------------------
(* Packages *)

Invalidate(s) == cache' = [cache EXCEPT ![s] = NoList]
Installed(s)  == File(Append(View(s, Db).text, Text))

\* pacman_install returns, with the packages in the upper or, if the overlay is
\* busy, perhaps without them.
Install(s) ==
  /\ pc[s] = "idle" /\ Room(View(s, Db).text)
  /\ Put(s, Db, Installed(s)) \/ (Busy(s) /\ UNCHANGED upper)
  /\ Invalidate(s)
  /\ stray' = [stray EXCEPT ![s] = IF Busy(s) THEN @ ELSE "none"]
  /\ UNCHANGED <<stack, store, pc, hash, mishaps, shots, doubted>>

\* pacman_install times out and nothing kills pacman, or a command of shell_run ends
\* and leaves a process in the background: bwrap is not told to end with its parent.
LeaveBehind(s) ==
  /\ pc[s] = "idle" /\ ~Busy(s) /\ Rare < MaxRare
  /\ stray' = [stray EXCEPT ![s] = "running"]
  /\ mishaps' = mishaps + 1
  /\ UNCHANGED <<upper, stack, store, pc, hash, cache, shots, doubted>>

\* What was left behind goes on with its files or its packages, also while env_commit
\* runs, ...
StrayWrites(s) ==
  /\ Busy(s)
  /\ \/ \E f \in Files : Changes(s, f)
     \/ Room(View(s, Db).text) /\ Put(s, Db, Installed(s))
  /\ UNCHANGED <<stack, store, pc, hash, cache, stray, mishaps, shots, doubted>>

\* ... until it ends.
StrayEnds(s) ==
  /\ Busy(s)
  /\ stray' = [stray EXCEPT ![s] = "ended"]
  /\ UNCHANGED <<upper, stack, store, pc, hash, cache, mishaps, shots, doubted>>

\* shell_list answers from the cache or fills it with what pacman -Qq prints.
ListPackages(s) ==
  /\ pc[s] = "idle" /\ cache[s] = NoList
  /\ cache' = [cache EXCEPT ![s] = View(s, Db)]
  /\ UNCHANGED <<upper, stack, store, pc, hash, stray, mishaps, shots, doubted>>

\* _SHELL_LIST_TTL seconds have passed.
ListExpires(s) ==
  /\ cache[s] # NoList
  /\ Invalidate(s)
  /\ UNCHANGED <<upper, stack, store, pc, hash, stray, mishaps, shots, doubted>>

-------------------------------------------------------------------------------
(* env_commit, env_rollback, env_reset *)

\* _wipe_upper puts a new directory in the place of the upper: what a process left
\* behind still writes is seen by nobody.
Wipe(s) ==
  /\ upper' = [upper EXCEPT ![s] = Empty]
  /\ stray' = [stray EXCEPT ![s] = "none"]

Committing == {s \in Sids : pc[s] = "copy"}
Named      == DOMAIN store \cup {hash[s] : s \in Committing}
Commits    == UNION {{s} \X DOMAIN stack[s] : s \in Sids}

\* The commit id is computed from the upper first ...
CommitHash(s) ==
  /\ pc[s] = "idle" /\ Cardinality(Commits) + Cardinality(Committing) < MaxCommits
  /\ Cardinality(Named \cup {Manifest(upper[s])}) <= MaxLayers
  /\ hash' = [hash EXCEPT ![s] = Manifest(upper[s])]
  /\ pc' = [pc EXCEPT ![s] = "copy"]
  /\ UNCHANGED <<upper, stack, store, cache, stray, mishaps, shots, doubted>>

\* _copy_upper_to_layer copies whiteouts too with cp; rsync, unless run by root,
\* copies no devices.
Copies(lay) ==
  {lay, [f \in Paths |-> IF lay[f].kind = "whiteout" THEN Nothing ELSE lay[f]]}

\* mutant: a commit that finds the layer copies over it
StoreOverwritten(s, copy) ==
  [id \in DOMAIN store \cup {hash[s]} |-> IF id = hash[s] THEN copy ELSE store[id]]

\* ... and names the copy, unless a layer of that name is there.
StoreWith(s, copy) ==
  [id \in DOMAIN store \cup {hash[s]} |-> IF id \in DOMAIN store THEN store[id] ELSE copy]

CommitCopy(s) ==
  /\ pc[s] = "copy"
  /\ pc' = [pc EXCEPT ![s] = "idle"] /\ hash' = [hash EXCEPT ![s] = Empty]
  /\ stack' = [stack EXCEPT ![s] = Append(@, hash[s])]
  /\ \E copy \in Copies(upper[s]) : store' = StoreWith(s, copy)
  /\ Wipe(s) /\ Invalidate(s)
  /\ shots' = [shots EXCEPT ![s] = Append(@, ViewOf(s)')]
  /\ doubted' = IF hash[s] \notin DOMAIN store /\ stray[s] # "none"
                THEN doubted \cup {hash[s]} ELSE doubted
  /\ UNCHANGED mishaps

\* What a copy that breaks off leaves of a file: nothing, the beginning, or all.
Part(entry) ==
  {Nothing, entry} \cup
    IF entry.kind = "file"
    THEN {File(SubSeq(entry.text, 1, n)) : n \in 0 .. Len(entry.text)}
    ELSE {}
Parts(lay) ==
  {part \in [Paths -> UNION {Part(lay[f]) : f \in Paths}] :
     \A f \in Paths : part[f] \in Part(lay[f])}

\* The copy fails, or a step before it: env_commit is over, the upper is as it was, and
\* what was copied stays under the name of the whole.
CommitFails(s) ==
  /\ pc[s] = "copy"
  /\ \/ /\ hash[s] \notin DOMAIN store /\ Rare < MaxRare
        /\ \E part \in Parts(upper[s]) : store' = StoreWith(s, part)
        /\ doubted' = doubted \cup {hash[s]}
        /\ mishaps' = mishaps + 1
     \/ UNCHANGED <<store, doubted, mishaps>>
  /\ hash' = [hash EXCEPT ![s] = Empty]
  /\ pc' = [pc EXCEPT ![s] = "idle"]
  /\ UNCHANGED <<upper, stack, cache, stray, shots>>

\* stack.index finds the first use of a commit id.
FirstUses(s) ==
  {i \in 1 .. Len(stack[s]) : \A j \in 1 .. i - 1 : stack[s][j] # stack[s][i]}

\* mutant: the cached list is kept
RollbackKeepsList(s) ==
  /\ pc[s] = "idle"
  /\ Wipe(s)
  /\ \E i \in FirstUses(s) :
       /\ stack' = [stack EXCEPT ![s] = SubSeq(@, 1, i)]
       /\ shots' = [shots EXCEPT ![s] = SubSeq(@, 1, i)]
  /\ UNCHANGED <<cache, store, pc, hash, mishaps, doubted>>

Rollback(s) ==
  /\ pc[s] = "idle"
  /\ Wipe(s) /\ Invalidate(s)
  /\ \E i \in FirstUses(s) :
       /\ stack' = [stack EXCEPT ![s] = SubSeq(@, 1, i)]
       /\ shots' = [shots EXCEPT ![s] = SubSeq(@, 1, i)]
  /\ UNCHANGED <<store, pc, hash, mishaps, doubted>>

Reset(s) ==
  /\ pc[s] = "idle"
  /\ Wipe(s) /\ Invalidate(s)
  /\ UNCHANGED <<stack, store, pc, hash, mishaps, shots, doubted>>

-------------------------------------------------------------------------------
(* env_gc and background jobs *)

\* No stacked layer is removed.  Which others stay depends on what their counts and
\* their children's say (LayerStore).
Gc(kept) ==
  /\ \E s \in Sids : pc[s] = "idle"
  /\ \A s \in Sids : \A i \in 1 .. Len(stack[s]) : stack[s][i] \in kept
  /\ store' = [id \in kept |-> store[id]]
  /\ doubted' = doubted \cap kept
  /\ UNCHANGED <<upper, stack, pc, hash, cache, stray, mishaps, shots>>

\* build_job_invocation: an overlay over the layers that the session stacks now and a
\* copy of its upper, with an upper of its own.  No tool looks for running jobs.
StartJob(s) ==
  /\ pc[s] = "idle" /\ job[s] = NoJob
  /\ Rare < MaxRare
  /\ job' = [job EXCEPT ![s] = stack[s]]

JobEnds(s) ==
  /\ job[s] # NoJob
  /\ job' = [job EXCEPT ![s] = NoJob]

-------------------------------------------------------------------------------

Shell(s)    == \E f \in Files : \/ Write(s, f) \/ MakeLink(s, f)
                                \/ RedirectOut(s, f) \/ RedirectAppend(s, f)
Packages(s) == Install(s) \/ ListPackages(s) \/ ListExpires(s)
Behind(s)   == LeaveBehind(s) \/ StrayWrites(s) \/ StrayEnds(s)
Env(s)      == CommitHash(s) \/ CommitCopy(s) \/ CommitFails(s) \/ Rollback(s) \/ Reset(s)

Next == \/ (\E s \in Sids : Shell(s) \/ Packages(s) \/ Behind(s) \/ Env(s)) /\ UNCHANGED job
        \/ (\E kept \in SUBSET DOMAIN store : Gc(kept)) /\ UNCHANGED job
        \/ (\E s \in Sids : StartJob(s) \/ JobEnds(s))
             /\ UNCHANGED <<upper, stack, store, pc, hash, cache, stray, mishaps, shots,
                            doubted>>

Spec == Init /\ [][Next]_vars

-------------------------------------------------------------------------------
(* Safety *)

\* The name of a layer is the hash of its files, unless its copy failed or a process
\* was left behind in the upper it was made from: no tool of another session, no
\* command that waits for env_commit, and no later commit changes what is stored.
Honest(id) == id \in DOMAIN store => Manifest(store[id]) = id
LayersHonest == \A id \in DOMAIN store \ doubted : Honest(id)

\* A commit leaves every file of the upper as it was to be seen, also when it lands
\* on a layer that another session made; a path without a file in the upper shows
\* what it showed, what the layers below show, or nothing, but no file of another
\* session ("leaking one session's workspace into another").  A link to a directory
\* stays a link, but may lead where the other session's led.
CommitFaithful ==
  [][\A s \in Sids :
       CommitCopy(s) /\ hash[s] = Manifest(upper[s]) /\ Honest(hash[s]) =>
         \A f \in Paths :
           /\ upper[s][f].kind = "file" => View(s, f)' = View(s, f)
           /\ IF upper[s][f].kind = "link" THEN View(s, f)'.kind = "link"
              ELSE View(s, f)' \in {View(s, f), Below(s, f), Nothing}]_vars

\* env_rollback shows what the commit it returns to showed, and env_reset what the
\* last one did, whatever other sessions committed since.
Restores ==
  [][\A s \in Sids : stack[s] # <<>> /\ (Rollback(s) \/ Reset(s)) =>
       shots[s] # <<>> /\ ViewOf(s)' = shots[s][Len(stack'[s])]]_vars

\* shell_list never shows packages that a mutation has changed, unless a
\* process was left behind since the upper was last replaced.
ListFresh ==
  \A s \in Sids : cache[s] # NoList /\ stray[s] = "none" => cache[s] = View(s, Db)

\* A running job reads the same layers as when it began, whatever is committed and
\* removed meanwhile, as long as its session stands on them, too ("sees a consistent
\* view", bgdriver.py:37).
OnTop(s) == /\ Len(job[s]) <= Len(stack[s])
            /\ \A i \in 1 .. Len(job[s]) : job[s][i] = stack[s][i]
Reads(s) == [i \in 1 .. Len(job[s]) |-> store[job[s][i]]]

JobSteady ==
  [][\A s \in Sids : job[s] # NoJob /\ job'[s] = job[s] /\ OnTop(s) /\ OnTop(s)' =>
       Reads(s)' = Reads(s)]_vars

\* "Either way, the new layer is a stable snapshot": a commit changes no file.
CommitKeepsView == [][\A s \in Sids : CommitCopy(s) => ViewOf(s)' = ViewOf(s)]_vars

\* ">> preserves existing content."
AppendKeeps ==
  [][\A s \in Sids, f \in Files :
       RedirectAppend(s, f) /\ View(s, f).kind = "file"
         => View(s, f)'.text = Append(View(s, f).text, Text)]_vars
===============================================================================
