# A verification of rattan

rattan is an MCP server that runs an agent's shell commands in a throw-away container:
every command is a fresh `bwrap` process over an overlay whose writable layer belongs to
the *session* of the server, and sessions stack content-addressed, read-only *layers* that
`env_commit` makes of that writable layer. This directory holds TLA+ modules that follow
`src/src/rattan/`, TLC configurations that check them, and TLAPS proofs.

Line numbers below are those of `src/src/rattan/`. `PROJECT.json` lists the components, the
runs, the mutants, the definitions with the lines that they stand for, the hazards and the
theorems.

- [1. The system](#1-the-system)
- [2. The modules](#2-the-modules)
- [3. The runs](#3-the-runs)
- [4. Where code and docs disagree](#4-where-code-and-docs-disagree)
- [5. The proofs](#5-the-proofs)
- [6. What is not modelled](#6-what-is-not-modelled)
- [7. Plan](#7-plan)

## 1. The system

### Components

| component | state | operations | what makes it correct |
|---|---|---|---|
| Layer store (`layers.py`) | `layers/<commit_id>/`, `layers/index.json` (reference counts, parents), the flock `index.lock`, `sessions/<sid>/{upper,work,pid,meta.json}` | `create_session`, `commit`, `rollback`, `destroy`, `gc`, `env_status`, `snapshot_list` | a layer that a session stacks exists and is whole; counts are exact; nothing is lost or shown wrongly by a commit; a rollback restores |
| Server life cycle (`server.py`, `sessions.py`) | the current session, the `shell_list` cache, signal handlers | startup sweep, the tools, SIGTERM and atexit handlers | dead sessions are swept and live ones are not; a server that is asked to stop stops; the cache is not stale |
| Background jobs (`jobs.py`, `bgdriver.py`) | the registry `_JOBS`, a reaper thread, a private upper per job, the processes | `start_job`, `job_status`, `job_output`, `job_wait`, `job_kill`, the reaper | a record tells the truth about its process whichever thread writes it; a directory outlives its job while the server is up; every end is noticed, and every tool answers |
| Executor (`executor.py`) | the overlay locks; per call: the last status, the directory, the stages | `build_invocation`, `run_command` with its retry, `execute_andor`, `execute_program`, `cd` | a shell's short-circuiting; a command runs once; a hanging command ends; the reply is true |
| Redirections (`redirects.py`, `executor.py:331-456`) | none | `RedirectPlan.apply`, host files, `_spawn_kwargs`, `_render_command` | streams go where the shell syntax says |
| Parser (`parser.py`) | none | `_tokenize`, `parse`, `Word.expand` | its two readings of a word agree; words mean what they mean in a shell; every word and redirect stays with its command |
| Package manager (`pacman.py`) | packages in the session's upper, a seed marker | `provisioning_seed`, `pacman_install`, `pacman_run` | an install that is waited for leaves a known state; the cached list is not stale |
| File tools (`filetools.py`) | files that a sandbox sees, a temporary file per edit | `read_file`, `write_file`, `edit`, `grep`, each a series of sandboxed commands | an edit is atomic and changes what it says; `write_file` overwrites nothing; what is read is there |
| Host binds (`bind.py`, `executor.py:331-395`) | binds per session | `bind_host_dir`, `get_session_binds`, `_bind_host` | a path means the same file to the server and to the sandbox; nothing is written below a read-only bind |
| Policy (`policy.py`) | none | `resolve`, `resolve_pipeline` | a pipeline may do what its commands may |
| Capabilities (`capabilities.py`) | a table cached for 60 s | `get_capabilities` | |
| Sandbox arguments (`bwrap.py`, `overlay.py`, `contain.py`, `config.py`) | none | build argument lists | the order of the layers |

### How they interact

The client calls one tool at a time; every tool runs on the server's main thread. A tool
reads and changes the session through `layers.py`, which shares one data directory with
every other server of the same user. Servers synchronise *only* through the flock of
`index.lock` (`layers.py:168-178`); `sessions/` is not covered by it. Commands mount the
session's upper over its layers (`overlay.py:19-49`); jobs get an overlay of their own over
the same layers, with a copy of the upper (`bgdriver.py:55-87`). The reaper is the one other
thread of a server; it shares `_JOBS` with the main thread, under `_JOBS_LOCK` for the
dictionary but not for the records in it. Redirects of a single
command are opened by the server process on the host, in the upper and not in the overlay, or in the
host directory of the first bind above the path; the sandbox sees the last one that bwrap
mounted. A file tool is several sandboxed commands, each through `run_command` with its
retry and timeout; only some of their statuses are looked at.

### What is hard

- *Interleaving.* Two servers commit, collect and sweep; the reaper, a polling tool and
  `job_kill` write one record.
- *Crashes.* `commit`, `destroy` and `rollback` are several file-system steps; a session is
  counted in the index and described in `meta.json`, and no step changes both.
- *Signals.* The SIGTERM handler runs on top of whatever the main thread was doing.
- *Timeouts and retries.* `run_command` repeats a command whose mount was refused;
  `pacman_install` raises on a timeout and leaves pacman running, as a command of
  `shell_run` may leave a process in the background: bwrap runs with `--unshare-all` but not
  with `--die-with-parent` (`bwrap.py:41-45`).
- *Content addressing.* Two uppers with the same hash become one layer, whatever else they
  differ in.
- *Order.* Redirects and merges are kept in one slot per stream; binds may be nested.
- *Partial failure.* Any command of a file tool may be refused or cut off, and the file may
  change between two of them.
- *Two readings.* The tokenizer finds the end of a word, `_parse_word_parts` reads it again.
- *Unprotected use.* A job stands on layers that `env_gc` does not count it for.

`PROJECT.json` lists each such place with its line under `hazards`.

## 2. The modules

```
LayerRefs  <== ImplementsRefs ==  LayerStore        Redirects     Parser ---- ParserProofs
    |                                |                   \         /               |
LayerRefsProofs                LayerStoreProofs           Executor         ShellWordsProofs
                                                              \                   |
                                                               ------------ ExecutorProofs

Workspace ---- WorkspaceProofs                       Binds --> Files ---- FilesProofs

JobRecords  <== ImplementsRecords ==  Jobs ---- JobsProofs
```

`LayerStore`, `Workspace`, `Jobs`, `Executor` and `Files` have a module `MC...` each that
gives their constants values for TLC. Operators named after an operator plus a word
(`AcquireHeld`, `PlanCleared`) are *mutants*: the definition as a plausible mistake would
make it. For each property of a passing run one of them, put in place of the definition,
makes TLC find a violation; `PROJECT.json` pairs them.

### LayerStore: counts, locks, crashes

One process per server, with a program counter `pc` and a `mode` (startup, creating,
serving, sigterm, exiting). One action is one file-system step: `CommitDedupe` finds the
layer, `CommitMakeDir` makes its directory, `CommitCopied` fills it, `CommitSave` replaces
the index, `PersistOpen` truncates `meta.json` and `PersistDump` fills it; likewise for
`rollback`, `destroy`, `gc`, the startup sweep and the handlers. `Acquire` and `Release`
are the flock, `mem[p]` is the index as the process loaded it. A session's upper is one of
`Contents`, and its hash is that value: what files do is the business of `Workspace`.

The environment may close the connection (`Exit`), send SIGTERM on top of any step
(`Sigterm`; the handler keeps the flock of the code that it interrupted), kill a server
(`Kill`) and let a copy or an rmtree raise (`CommitCopyFails`, `GcRmtreeRaises`).
`Events` says which of these an instance has and `MaxEvents` how many. `held` is
auxiliary: the stack that each session is counted for in the index on disk.

### LayerRefs: what the store promises

No index, locks, files or crashes: sessions stack layers, only existing layers are
stacked, only unstacked layers are collected. `LayerStore` implements it (`ImplementsRefs`)
under the mapping `stacks <- held`, `layers <-` the layers that are whole on disk.

### Workspace: what commands see

Files as sequences of pieces, uppers and layers as functions from paths to a file, a link
to a directory, a whiteout or nothing, and a view that is the topmost entry. Sandboxed
writes, removals and links, host-side `>` and `>>`, package installs, the cached package
list, and commit (hash first, copy later, either of which may fail), rollback and reset.

`Manifest` is the content that is hashed and thus a layer's name; `Hashed` says what of an
entry is: all of a file, of a link to a directory only that it is there, of a whiteout
nothing. `Copies` are what `cp` and what `rsync` make of an upper, `Parts` what a copy that
breaks off leaves, which keeps the name of the whole (`CommitFails`). `LeaveBehind` is a
pacman that timed out or a background process of a command; it writes with `StrayWrites`
whenever it likes, also between hash and copy, until it ends or the upper is replaced.
Two variables are auxiliary: `shots` is what each commit showed, and `doubted` are the
layers whose copy failed or was made while a process was left behind in the upper.

`Gc` removes any layers that no session stacks; which of them the counts let it remove is
the business of `LayerStore`. `StartJob` gives a job the layers that its session stacks at
that moment, and no tool looks at `job` afterwards.

### Jobs: the registry and its two threads

The main thread (`shell_job_*`) and the reaper interleave between statements;
`_poll_job_now` is five steps of whichever thread is in it (`PollCheck`, `PollAlive`,
`PollExited`, `PollExit`, `PollStatus`), and `job_kill` four. A process exits when it
likes; its mount namespace may outlive it. The server may stop at any moment
(`ServerStops`): its handler removes the session, with the directories of all its jobs in it
(`RemoveSession`), while the reaper, a daemon thread, and the jobs themselves go on; then
both threads are gone (`ServerExits`). Nothing signals the jobs.

### JobRecords: what the registry promises

No threads, signals or order of writes: a job is launched, registered, its code is
collected once, a verdict is given *together with* its exit code, files are removed after
the verdict as long as the server is `up`, and whenever after that. `Jobs` implements it (`ImplementsRecords`) under the mapping `verdict <-
status`, `files <- root`, `outcome <-` the code of a process that was reaped, `answer <-`
the exit code of a job whose status is done or failed. So the fields that a poller has
written before the status do not count yet, and an exit code under a canceled status is not
promised to be anything. What the code's lack of a lock does let a client see is in
`JobRecords` as an action: a job that was canceled may be judged after all (`Judge`), one
that is done may be canceled (`Cancel`), and a kill that was overtaken between its two
writes puts its -15 over the exit code of a verdict (`Overwrite`), which no poller ever
takes back.

### Parser: from text to commands

Texts are sequences of characters, one for each kind that the code treats differently: a
letter, a digit that names a descriptor, a blank, the two quotes, backslash, `$`, brace,
`#`, an operator and one character that is refused. `Tokens` is `_tokenize` with
`_lex_word_text` (`LexWord`), `Expand` is `_parse_word_parts` with `Word.expand`, and
`Rejected` and `Parsed` are the grammar. The recursive descent is recursive functions on
positions or, for the grammar, cuts of the token list at operators. `ShellWords` is the
reference: what a POSIX shell reads in one pass, with one rule for each kind of character
in a word or in double quotes (`InWord`) and between words (`ShellFrom`).

### Redirects and Executor: one call of shell_run

`Redirects` has the plan of a command (`Plan`, `Malformed`, `Denied`), the streams that
`_spawn_kwargs` makes of it (`Streams`), what a shell does with the same redirects
(`InShell`, one dup2 for each redirect from left to right), and what `/bin/sh` reads after
`_render_command` wrote a pipeline out (`InPipeline`).

`Executor` takes a program command by command, since the executor never looks ahead:
`Take` reveals the next one with the operator before it, `Skip` is `&&`/`||`, `CdBuiltin`
is `_try_cd`, `Build` and `BuildRaises` are `build_invocation`, then come the attempts of
`run_command`: the mount is refused while the last one `lag`s (`Refused`), or the command
`Runs` and `Exits` or `TimesOut`, after which `Retry` or `Record`. A command may print the
text of a refusal itself (`own`). `reply` is what `shell_run` returns: a result, the
rejection of an `InvocationError`, the empty success of an `EmptyInvocation`, the syntax
error of a text that `parse` rejects, or an exception.

### Binds and Files: one file below the binds

All of `Binds` is seen from one file under `/workspace`. `Seeded` and `Defaults` are the
binds that a session starts with, `Valid` is `validate_host_bind` by class of directory.
`Mounted` is the place that the sandbox shows, the last bind above the file; `Opened` is
the one where the server opens a redirect, the first.

`Files` has that file at each *place* where it may lie, and one tool call at a time. Each
command of a tool is an action that takes how it went: `"ok"`, `"refused"` (bwrap prints an
error and exits with 1) or `"cut"` (the timeout ends it half-way). What the code does with
the status, or that it does not look at it, follows: `Test` takes a status other than 0 for
"there is no file", `Cat` and `Sed` take whatever was printed. `HostWrites` is the owner of
a bound directory, at any moment of a call. A text is a sequence of lines, of which only
that matters which the properties tell apart: does the line hold `old_string` or
`new_string`, is it UTF-8, does a newline end it. `MaxShown` is the number of lines that fit
into the 64000 characters that `grep` cuts its reply to (`filetools.py:352`); `Returned` is
the reply, and `MoreReturned`, its `was_truncated`, does not look at the cut. `before`,
`touched` and `failed` are auxiliary.

`links` are symbolic links that lie next to the file at one of its places and lead to
another (`LinkMade`): in the overlay and in directories that the sandbox may write, a command
makes them, in any bound directory its owner. A redirect to the path of one is judged by the
words of the path, and the server's `open` follows the link on the host (`RedirectLinked`).

## 3. The runs

| run | instance | what it shows |
|---|---|---|
| `LayerStoreShared` | two servers, three sessions, two contents, stacks of two, no crash | `StackBacked`, `SessionsCounted`, `ParentsCounted`, `NoLostUpdate` at every step, and `LayerStore` implements `LayerRefs` |
| `LayerStoreRecovery` | one server, restarted; three events among exit, SIGTERM, kill, I/O error at any step | a session in service keeps its layers (`StackPresent`), its counts are never too low (`NeverUndercounted`), what a startup leaves of earlier sessions is little (`SweepLeaves`, below) |
| `LayerStoreLive` | two servers, overlapping starts and stops, fair | every tool call ends (`ToolsFinish`), every stop stops (`StopsFinish`), also that of a server that lost the session it was creating |
| `JobsPolled` | two jobs, two attempts of the cleanup, kills, a server exit, fair threads | records (`RecordTrue`, `RecordedAfterExit`) and answers (`ReportConsistent`) are true, directories outlive jobs while the server is up (`DirOutlivesJob`), the registry implements `JobRecords`, every end is recorded (`ExitRecorded`) and every tool answers (`ToolsAnswer`) even if another job's directory cannot be removed |
| `Workspace` | two sessions, one file and the package database, two commits, one process left behind, one copy that fails, one link or one job at a time | commits are faithful (`CommitFaithful`), rollback and reset restore (`Restores`), names and package lists are wrong only by what failed or was left behind (`LayersHonest`, `ListFresh`), a job keeps its layers while its session stands on them (`JobSteady`) |
| `Executor` | programs of three commands, three attempts, redirects into all four kinds of place; texts of four characters, lists of four tokens | see below |
| `Files` | one file, two mount points above it, three binds, two operations, two commands of a call that go wrong | see below |
| `LayerStoreKilled`, `LayerStoreSigterm`, `WorkspaceWhiteout`, `WorkspaceAppend`, `ExecutorPipeline` | as small as shows it | section 4 |

`Executor` checks that `&&` and `||` skip what a shell skips (`ChainAsShell`), commands run
in the directory that the `cd`s of their chain chose (`InDir`), nothing runs twice unless
it printed the text of a refusal itself (`RunsOnce`), a refusal is reported only after the
last attempt or when its text went to a file (`RefusalHidden`), a result reports every
command taken, in order (`ReplyTrue`), streams go where a shell sends them
(`StreamsAsShell`), and every call is answered (`Answered`). In the initial states it also
checks the parser: any text put through `shlex.quote` is one word that stands for itself
(`QuotesHold`), a line of words means the words that a shell reads (`WordsAsShell`), and
the commands of a program hold every word and every redirect, once and in their place
(`ParseKeeps`).

`Files` checks that an edit is atomic (`EditAtomic`), does what it says (`EditTrue`) and
cleans up (`TempGone`), `write_file` overwrites nothing and says what it did
(`WriteTrue`), `read_file` returns what is there and tells whether there is more
(`ReadTrue`), `grep` returns the first matches that fit and tells whether there are more
than were asked for (`GrepTrue`), a redirect changes the file that the sandbox shows
(`RedirectShown`), and nothing is written in a host directory that no bind allows, but
through a link from where the redirect may be opened (`ReadOnlyKept`).

The type invariants are theorems (section 5), and no run repeats them.

### Conditions in the properties, and why they are there

- `StackBacked` and the exact counts need that nothing crashes; `StackPresent` and
  `NeverUndercounted` are what is left with crashes.
- `SweepLeaves` says what a startup does not clear, and that it is no more: a session whose
  `meta.json` was torn, which no sweep can read; and one without a pid file, because its
  server died before it wrote one (`layers.py:305-331`) or in a removal after that file went,
  which every startup skips (`server.py:59-83`) and only the handler of a server that stops
  removes (`sessions.py:58-82`). Whether removed or not, such a session is counted for one
  layer at most, that of a commit that was cut between the index and `meta.json`; and that
  holds although a session whose `meta.json` is still there is counted down again.
- `DirOutlivesJob` is about a server that is up. After a kill it asks that the process was
  sent SIGTERM, and not that it is gone: the code does not wait for it.
- `CommitFaithful` is about files and layers with honest names. A removal may come back:
  that is the finding `WorkspaceWhiteout`. A link to a directory stays a link, but may lead
  where that of another session led, since where it leads is not hashed.
- `LayersHonest` excepts the layers in `doubted`: a copy that failed leaves a part under the
  hash of the whole, and a process that was left behind may write between hash and copy. That
  leaves much that could go wrong: what tools of the other session, later commits over an
  existing layer and commands that wait for `env_commit` do. `ListFresh` excepts a session
  with such a process, too.
- `GrepTrue` is about the matches that fit into the reply, and says of `was_truncated` that
  there are more than were *asked for*: that some were cut off it does not tell.
- `ReadOnlyKept` excepts what a symbolic link leads to, if the link itself lies where the
  redirect may be opened. Without links it is about any binds one over another.
- `JobSteady` holds while the session of the job stands on the layers that it began with:
  after a rollback `env_gc` may remove them, running job or not.
- `RecordTrue` and `ReportConsistent` allow the `-15` of a kill: `job_kill` writes it over a
  record that the reaper is completing.
- `StreamsAsShell` is about redirects whose merges come last, and about commands that name
  stderr when stdout goes to a file: `cmd > f` also sends stderr to `f` (`executor.py:452`),
  and `2>&1 > f` means `> f 2>&1`. No doc says that these should mean what a shell makes of
  them.
- `WordsAsShell` excepts the texts that `ShellWords` marks with `?`, where rattan is known
  to differ from a shell; section 4 lists them.
- All properties of `Files` but the last two hold as long as nobody else changes the file
  during the call (`touched`): the tools take no lock. `EditTrue` excepts a `cat` that went
  wrong and a file that is not UTF-8, since `edit` writes back what it was given; and a
  `mv` that was cut off may have renamed. `WriteTrue` excepts a `test -e` that went wrong
  and a `tee` that was cut off. `ReadTrue` is about calls whose commands ran and, in what
  it says of `was_truncated`, about files that end with a newline.
- `RedirectShown` is about at most one bind above the file. With two, the server follows the
  first and the sandbox the last.

### Bounds

- *Two servers* are enough for every pair of critical sections to meet; three sessions let
  one of them be restarted while both old sessions exist. *Two contents* make a stack that
  has a layer with a parent, a stack that uses one layer twice, and a commit of a layer
  that exists; a *depth of two* has a rollback that drops something.
- *Three events* in `LayerStoreRecovery` are a crash, one in the recovery, and one after.
- *Two jobs* share the reaper's queue; two cleanup attempts are one that is followed by
  another and one that gives up. The one exit code, 0, and the -15 of a kill give both
  `done` and `failed`; the theorems cover all codes.
- *Two sessions, two commits, two layers, files of one piece* in `Workspace`: another
  session's layer under the same name, and a rollback that drops one. The commits
  (`MaxCommits`) are those that both sessions stack together. `MaxRare` = 1 bounds what is
  rare: one process left behind, one copy that breaks off, one session with a link or one
  job, and only a link and a job both; each property is about one of them. Each session
  links to a directory of its own (`Targets`), so that no link of one is made by the other.
- *Three attempts* instead of five have a first, a middle and a last retry; *three commands*
  have a skipped one between two others. `StreamsAsShell` looks at all lists of up to three
  redirects over four files; a fourth always repeats a descriptor and is rejected.
- *Four characters* (`MaxText`) are a pair of quotes with two characters in it, a backslash
  before a quote inside quotes, `${a}`, and a word on each side of a blank; `QuotesHold`
  puts its text between two more words. *Four tokens* (`MaxTokens`) are two commands with a
  redirect between them.
- *Two operations* (`MaxOps`) in `Files` are a bind or a redirect before a tool call, or a
  link and the redirect to it; the binds of the command line come on top, up to three in all
  (`MaxBinds`), which is two on one mount point and one nested. *One line that fits* into a
  reply of grep (`MaxShown`) is less than two matches. *Two faults* (`MaxFaults`) are a `tee` or `mv` that fails
  and the `rm` after it. Files and limits of two lines (`MaxLines`) have a line before,
  at and after each boundary.

Job and session ids are symmetric where symmetry is used (no liveness property and no order
on them). Deadlock is not checked in `LayerStore`, `Jobs` and `Files`, where an instance
runs out of ids, events or operations, nor in `Executor`, where the call ends; in
`Workspace` it is.

### Fairness

- `LayerStore`: strong fairness of the steps that a server's main thread takes by itself. A
  running thread goes on, and the kernel's flock does not pass over one waiter for ever;
  the step is disabled in between by the other's critical sections, so weak fairness would
  not do. Nothing makes clients call tools or events happen.
- `Jobs`: weak fairness of the reaper, and of a tool call or a handler that has begun; strong
  fairness of `WaitOver`, since the deadline of `job_wait` (`jobs.py:203`) passes however
  often it polls before. None for processes: a command may run for ever, and its namespace
  may stay mounted for ever.
- `Executor`: weak fairness of the calling thread, which includes the timeout of
  `communicate`. None for commands, which may hang, nor for mounts, which may lag for ever.
  A process group that was killed is taken to close its pipes.
- `Files` and `Workspace` promise safety alone. That the commands of a tool end is what
  `Answered` says of each.

## 4. Where code and docs disagree

| run | code | what it says | what happens |
|---|---|---|---|
| `LayerStoreKilled` | `layers.py:517` | gc cannot delete a layer that a commit is about to reference (`layers.py:406-409`) | a `rollback` that is killed between saving the index (517) and `_persist_meta` (521) leaves a `meta.json` that still has the layers it gave back; the next sweep counts them down again, and a layer that another session shares reaches zero early and gc removes it. A `destroy` that is killed after 542 does the same |
| `LayerStoreSigterm` | `server.py:97` | the handler destroys the session and the server exits | SIGTERM during a critical section waits for a flock that its own process holds |
| `WorkspaceWhiteout` | `layers.py:242` | a layer is a stable snapshot, addressed by its contents (`docs/architecture.md:269-290`) | whiteouts are not hashed (nor copied by rsync): a removed file comes back after a commit |
| `WorkspaceAppend` | `executor.py:424` | `>>` preserves existing content (`tests/test_redirects.py:370`) | after a commit the file is in a layer; `ab` makes a new one in the upper, which hides it |
| `ExecutorPipeline` | `executor.py:262` | redirects are reconstructed (`executor.py:244-245`) | `2> f` in a pipeline is written out as `22> f`, and stderr is not redirected |

Met on the way and modelled, without a run of their own:

- A stopping server removes the session of a server that is between making the directory
  and writing its pid file (`sessions.py:58-67`); that server goes on without it
  (`RootGone`, in `LayerStoreLive`), or with it and without its pid file, so that the next
  server that stops destroys the session in service.
- Two stopping servers may destroy one session: the first has removed its pid file, its
  `meta.json` is still there, and the other reads the stack from it before it takes the lock
  (`sessions.py:69-81`, `layers.py:535-542`). Its counts go down twice, and a layer that a
  third session stacks reaches zero early. It takes three sessions, two of which end while
  the third begins; the safety properties are therefore about servers that start and stop
  one after the other (`Overlap` = `FALSE`), or about one server.
- A session without a pid file is skipped by every startup, though `sessions.py:47-49`
  leaves "full orphan GC" to the next one: it stays until some server stops in an orderly way.
- A commit that was interrupted while copying, or whose copy failed, leaves a partial layer
  under the full hash, on which a later commit of the same content lands (`CommitDedupe` in
  `LayerStore`, `CommitFails` in `Workspace`): hence `StackPresent` beside `StackBacked`, and
  `doubted`.
- A background process of a finished `shell_run` goes on in the session's upper, as an
  abandoned pacman does, also between the hash and the copy of `env_commit`.
- Links to directories are hashed without where they lead: `os.walk` counts them among the
  directories (`layers.py:225-229`), against the docstring at 206-208. Two sessions that
  differ in such a link alone share a layer.
- The same content committed twice in one stack gets itself as parent; gc never collects it.
- A torn `meta.json` makes every later gc raise (`GcScanRaises`).
- Jobs outlive their server; `docs/architecture.md:94-95` promises a SIGTERM that no code
  sends. The server that stops removes their directories, which lie in the session's, while
  they run (`sessions.py:69-79`, `bgdriver.py:45`). A killed job's directory may be removed
  while its processes still use it.
- `job_kill` writes -15 over a record that the reaper is completing: the status may say
  `done` beside that exit code (`jobs.py:245`; `jobs.py:4-6` says that codes are captured).
- A job whose session rolls back loses its lower directories to the next `env_gc`, though
  it "sees a consistent view" (`bgdriver.py:36-37`); and rsync leaves the whiteouts of the
  upper out of the job's copy. A job runs the first command of the first pipeline and
  ignores the rest of the program.
- A `;` chain loses the results of the commands that ran when a later one is rejected
  (`executor.py:772`), and `a && $UNSET` replies an empty success.
- With nested or equal mount points the server follows the first bind (`executor.py:355`),
  the sandbox the last. `--bind-cwd` is appended last and so hides the binds on `/workspace`
  and below that were given before it. `clear_session_binds` is never called.
- The path of a redirect is checked by its words (`redirects.py:77-95`) and opened by the
  server on the host (`executor.py:417-425`), where symbolic links are followed. What the
  sandbox would make of the link may be another file, or one that no bind allows.
- `bind.py:122-205` accepts a directory outside `$HOME` that is on none of its lists;
  `docs/security-invariants.md:55-56` allows only non-hidden directories below `$HOME`. The
  modules have such a directory as the class `elsewhere`, which `Valid` accepts.
- `<` of a file that was committed fails: only the upper is looked at.
- `write_file` overwrites a file if its `test -e` was refused (`filetools.py:193`).
- `edit` ignores the status of `cat` (`filetools.py:247`): a part of a file that was cut off
  is written back as the whole, and bytes that are not UTF-8 come back as U+FFFD. A change
  that somebody else made between `cat` and `mv` is lost. `read_file` and `grep` return the
  text of a refusal as content.
- `grep` cuts its reply to 64000 characters, perhaps in the middle of a line, and reports
  neither that nor fewer matches: `match_count` and `was_truncated` are about the lines before
  the cut (`filetools.py:352-356`).
- `was_truncated` is wrong by one line when no newline ends the file (`filetools.py:163`).
- The parser differs from a shell where a word is read twice: `\$HOME` expands, as do
  `$\a` and `$a\2`, since the tokenizer takes the backslash off; `it\'s` loses the rest of
  the word. In double quotes a backslash before any character goes; `a#b` is `a`; `a2>x` is
  `a 2> x`; `"${a"` is literal. Assignments and the targets of redirects keep their
  quotes, empty words are dropped, and `a ; ; b` and `&& a` are accepted.
- A single command expands its words with its own assignments, a pipeline without.

## 5. The proofs

Every theorem holds for all values of the constants that satisfy the module's assumptions,
which name sentinels that are not in the sets they mark and bounds that are natural numbers.

| module | theorem | inductive invariant, and why it is needed |
|---|---|---|
| `LayerRefsProofs` | `StackedExist`: a stacked layer exists | `Backed` with `TypeOK`: a rollback's stack is a prefix, so it stacks no more |
| `LayerStoreProofs` | `TypeCorrect`, `NothingLost` | `LockInv`: types, the session in hand of a tool (`ArgOK`), *whoever is in a critical section holds the lock* (`CriticalHoldsLock`), and `NoLostUpdate`. The last is not inductive by itself: another process could save in between, unless it cannot be in a critical section too. SIGTERM needs care, since the handler may take over while the lock is held, and a kill frees it |
| `LayerStoreProofs`, orderly | `SessionsCountedRight`, `ParentsCountedRight`, `ServedAreCounted`, `StackPresentRight`, `StackBackedRight`, `StoreImplementsRefs` | `SessionInv`: a session belongs to one server, `meta.json` says what it is counted for unless its server is just about to write it, a session that is being destroyed is used by nobody; `CountInv`: both counts on disk are exact (`Tally`, `Family`), *and so are those of the index that a gc has in memory*, in which what it is about to pop is free; `PresentInv` and `LayerInv`: what is counted, or is about to be, has a directory, which is whole unless a copy or an rmtree under the lock is half-way |
| `LayerStoreProofs`, one server | `CountedThroughCrashes`, `PresentThroughCrashes`, `SweepLeavesLittle` | `LifeInv`: the program counter goes with the mode, also under the SIGTERM handler; `UseInv`: the session in service is counted for its stack in both indexes, and what gc is about to pop or remove is not in it; `SweepInv`: the sweep has every orphan still ahead of it or in hand, and no later step makes one; `TrailInv`: *no session is counted for more than its `meta.json` tells and one layer*, at any point of a commit, a rollback, a repeated destroy or a removal that was cut |
| `JobsProofs` | `RecordedOnlyAfterExit`, `DirRemovedLast`, `RecordsTellTheTruth`, `AnswersAgree`, `JobsImplementRecords` | `JobsInv`: a thread past `PollCheck` has a job, a job that is being launched has no record yet, and *a thread at "exit" or "status" works on a reaped process*; for `RecordTrue` also `Faithful`: what a thread is about to write is the process's own code; for `ReportConsistent` `ReportInv`: *what `job_status` has read so far agrees with whatever the reaper may still write until it reads the exit code*; for the refinement `Unkilled`: *while a thread polls a job, a kill that is between its two writes finds the job canceled*, so that no poller finds a -15 under a verdict and replaces it |
| `WorkspaceProofs` | `WellShaped`, `NamesAreHashes`, `ListStaysFresh`, `RollbackRestores`, `CommitsAreFaithful` | `Shape`; `HonestInv`: unless a process was left behind in the upper the hash in hand is still that of the upper, and so is the name of every layer that is not `doubted`; `ShotsInv`: the recorded view of a commit is what the prefix of the stack up to it shows, which stays because layers never change (`LayersStay`) |
| `ExecutorProofs` | `NoSecondRun`, `TypeCorrect`, `RefusalsHide`, `ChainRight`, `StaysInDir`, `RepliesAreTrue`, `StreamsRight`, `QuotesRight`, `TokensStay`, `ShellAgrees` | `RetryInv`: a command that has run and is about to be tried again printed the text of a refusal; `Kinds`, `Flags` and `Sizes`, the types in three parts, where *an attempt is about to be made only if one is left* and a command at work has room in the log; `RefusedInv`; `ChainInv`: the status in hand is that of the list so far, `StatusOf(log, Len(log))`; `DirInv`: the directory in hand is where the chain leads; `ReplyInv`: the results so far are those of the commands that were taken, each at its rank among them |
| `ParserProofs` | `QuoteReadBack` and `TokensKept`, from which `QuotesRight` and `TokensStay` of `ExecutorProofs` follow | none, they are about values; see below |
| `ShellWordsProofs` | `WordsReadAlike`, from which `ShellAgrees` of `ExecutorProofs` follows | none; by induction over the text, from its end |
| `FilesProofs` | `EditIsAtomic`, `EditIsTrue`, `TempGoes`, `WriteIsTrue`, `ReadIsTrue`, `GrepIsTrue`, `RedirectIsShown`, `ReadOnlyStays` | `Shape`: each tool is at one of its own commands; `CallInv`: what holds at each command of an edit and of a write (before the `mv` the file is as it was, and the temporary file, if it is there, holds a part of the new text, or all of it); `ReadInv` and `GrepInv`: what `wc` counted, `sed` printed and `grep` found, as functions of the file, which is the one that the call began with unless somebody else changed it |

`WorkspaceProofs` has `JobsStandStill` on top of this: a session whose stack still begins
with the layers of its job keeps them in the store through `Gc`, and `StoreWith` never
replaces one. That nothing but what was left behind reaches the upper between hash and copy
is shown action by action (`HonestStep`); a copy that fails only adds a layer, which is
`doubted` (`FailuresStay`). `CommitsAreFaithful` needs no invariant of its own beyond the types: a path
that the upper has is shown by the new layer on top (`TopOfAppend`), and one that it does
not have as before (`ShownAfterCommit`), whichever of the two layers of a content is kept.

`ChainRight`, `StaysInDir` and `RepliesAreTrue` compare the running state with a definition
over the whole log. They rest on lemmas about a list that grows by one report: no status
(`StatusAfter`), directory (`DirAfter`) or rank (`RankAfter`) before it changes, and the
last one follows from the report. The first two need that a finite set of positions has a
last element (`Latest`), which comes from the well-foundedness of the natural numbers.

`StreamsRight` is about values: the plan, which knows no order, sends the streams where a
shell does that takes one redirect after the other (`PlanAsShell`, for lists of any length).
No two redirects of an accepted command are for one fd, so there are three at most
(`FewRedirects`), and the recursion of `InShell` has a solution that can be written down
(`ShellPoints`); an fd points to the pipe until its own redirect and stays where that one
sent it (`PointsStay`). With the merges last, the file of the other fd is already there when
a merge comes (`ShellEnds`).

`QuoteReadBack` is about values, too: for texts of any length over any characters, what
`shlex.quote` makes of one is read as one word that stands for it. The recursive functions
`DoubleClose`, `LexWord`, `Tokens` and `Expand` are first shown to have the solutions that
their equations describe (`WordSolved`, `TokensSolved`, `ExpandSolved`): each position depends on
later ones only (`WordFromLater`), so a solution is built from the end of the text, one
position more in each of the steps that `Upward` counts. From then on their equations are
facts. `QuoteLays` says where each character of the text lies in the quoted one, as a
function `pos` (`Laid`); between two quotes of the text the positions run in step (`Stretch`),
and the quote that `SingleClose` finds is the one that was put there (`NextClose`). With that
the lexer is followed from the last quote of the text to the first (`QuotedWord`), and so is the
second reading (`QuotedExpands`): both pass the same quotes, the one keeps them, the other takes
them off. `TokensAre` and `LineIsParsed` do the line around the word.

`TokensKept` takes a program apart and puts it together again. `Split` cuts a list of tokens
at positions in order (`CutAt`, `SplitIs`), so its parts, joined with the operators between
them, are the list again; the same holds for what is chosen from each part (`PartsJoin`, by
`Upward` over the cuts, `ChosenAfter` and `ChosenPart`). `HalfOfPart`: a token of a part is a word
or belongs to a redirect just as in the whole, although the token before the part is not
seen there: that token is a separator, and no `>` or `<` that would take the first word of
the part for its target. With that `CommandKeeps` is carried up to the pipeline, the list
and the line (`PipedKeeps`, `LinkedKeeps`, `LineKeeps`), each time through `PartsKeep`.

`WordsReadAlike` compares two readers of one text. rattan first finds where a word ends and
keeps its text (`LexWord`), then takes that text apart (`Expand`); the shell does both at once.
Three claims are carried together from the end of the text to its start (`AlikeEverywhere`):
what the shell reads from a position in a word is what becomes of the rest of that word and
of the tokens behind it (`WordAlike`); the same in double quotes that close further on
(`QuotedAlike`); and between words (`OutAlike`). Each step is one kind of character
(`AlikeOther`, `AlikeVariable`, `AlikeSingle`, `AlikeDouble`, `AlikeEscape`, `AlikeQuoted`): it
puts the same characters before both readings (`GoesBefore`, `AlikeOn`). Three things make
this more than bookkeeping. The second pass sees the text of the word where the shell sees
the line, so what it does must depend on the end of its text alone (`ExpandTail`). A variable
or a single quote could end elsewhere in the word's text than in the line: both agree up to
where the characters of a variable end (`WordFollows`, `QuotedFollows`, `VariableAgrees`), and
the text between two quotes is copied with them (`CopiedQuotes`). And a mark must not be lost
in what a later part makes of it: a text without marks has parts without (`UnmarkedParts`), also
behind a variable (`ShellRun`, `NoEscapes`). The theorem is about the texts without marks;
section 4 says what becomes of the others.

The type invariants are theorems: `TypeOK` of `LayerRefs`, `LayerStore` and `Executor`, the
`TypeOK` in `JobsInv`, and the `Shape`s of `Workspace` and `Files`.

### Conditions on the instances

The theorems about counts and those about one server have a hypothesis each on the
constants, since without it they are false, as a run or section 4 shows:

- `Orderly`: no server is killed or signalled, and servers start and stop one after the
  other. A kill makes a destroy that is repeated (`LayerStoreKilled`), SIGTERM on top of a
  commit destroys the session by a `meta.json` that does not know of it, and overlapping
  stops destroy one session twice (section 4). Copies and rmtrees may raise.
- `Tidy`: besides, they do not raise. A copy that raised leaves a partial layer, and
  `StackBacked` and the refinement are about whole ones.
- `OneServer`: at most one server, and every event at every step. With another one, a
  destroy that was killed and is repeated takes the counts of a layer both stack.

Any number of sessions, contents, commits and events, and with the first two any number of
servers, are left free.

### The counts

`SessionsCounted` says that a number in the index is the number of places `<<session,
position>>` at which a content is stacked. One step adds a place or takes those of a
suffix away, and the lemmas `PlacesChange`, `PlacesOfCount` and `WithoutFields` say what that
does to the set and to the index, for each of the index operators (`TallyCommit`,
`TallyCut`). A gc pops entries one by one in its memory and saves at the end; since it
holds the lock and pops only what nobody counts, the counts are right in both indexes
meanwhile. `ParentsCounted` counts the children of an entry: a commit may give an entry that
is there already its first parent (`WithCommitFamily`), a pop takes one child from one parent
(`PoppedFamily`). That destroy and rollback give back what was counted, and not more, needs
`SessionInv`: `meta.json` says what its session is counted for.

The refinement is proved action by action. Each action either leaves `held` and the whole
layers alone or is the `Stage`, `Commit`, `Rollback`, `Destroy` or `Collect` of `LayerRefs`;
that a collected layer is stacked by nobody is `SessionsCounted`, and that a commit's layer
is there is `LayerInv`.

### What is only model-checked

Every safety property of a passing run is a theorem. Liveness (`ToolsFinish`,
`StopsFinish`, `ExitRecorded`, `Answered`) is out of the prover's reach and stays with TLC.
`ExecutorProofs` rests on `ShellWordsProofs`, and that on `ParserProofs`; no other proof rests on
another module's.

## 6. What is not modelled

- The text of output, manifests and argument lists, `env_status`, `snapshot_list` and sizes:
  they do not change state and no property is about them.
- Directories, modes and `/tmp` in `Workspace`; the base rootfs holds none of the paths
  there. Host binds are in `Files`, on one file.
- `Files` has one file that is no symbolic link, and links that redirects may follow: the
  checks of arguments, `write_file`'s limit of 64000 bytes (`filetools.py:182`) among them,
  `realpath` and the roots that a path must lie under are left out, as are the line numbers
  that `read_file` adds. Of grep's cut to 64000 characters the lines are modelled that it
  leaves, not a last one that it cuts through.
- A wipe of the upper that fails after a commit has saved the index, in `Workspace`.
- The overlay lock (`executor.py:460-494`): tools of one server run one after the other and
  jobs have uppers of their own, so that it is never contended. pacman does not take it.
- Reuse of process ids: `job_kill` may signal a pid that the reaper has freed
  (`jobs.py:237`).
- `Policy`: a constant table that is looked up by the name of a command, and the union of
  the entries of a pipeline. It keeps no state but one switch that is set before the first
  command, and takes part in no step whose order or failure matters.
- `Capabilities`: the probes are system calls and subprocesses whose answers are the
  kernel's. The cached table is probed again if it is too old or cannot be read.
- The mirror, package and query arguments of `pacman.py` (strings), its seed marker, and the
  Landlock rules of a bind: what they are is the kernel's business.
- `prune_finished`, which nothing calls, and time stamps.
- The MCP transport and the bootstrap scripts: generated protocol code and one-shot shell.

## 7. Plan

All modules of the plan are written: `LayerRefs`, `LayerStore`, `JobRecords`, `Workspace`
(with the jobs and gc of several sessions), `Jobs`, `Redirects`, `Parser`, `Executor`, `Binds`
and `Files`. What is left, in this order:

1. The seed of the package manager: `provisioning_seed` writes its marker after the files
   that it stands for, and may be interrupted in between.
2. An abstract specification of a shell that runs commands with statuses, for `Executor`
   to implement.
