--------------------------------- MODULE Jobs ---------------------------------
(***************************************************************************)
(* Background jobs: the registry of jobs.py, which the main thread (the    *)
(* shell_job_* tools) and the reaper thread update without a common lock,  *)
(* and the bwrap processes it follows.                                     *)
(*                                                                         *)
(* The two threads interleave between statements.  A step below is one     *)
(* statement touching a job record, a process or a job's directory; the   *)
(* short sections under _JOBS_LOCK are one step each.  The time stamps and *)
(* the log of a job are left out.                                          *)
(***************************************************************************)
EXTENDS Integers, FiniteSets

CONSTANTS
  Jobs,      \* job ids; the counter never gives one out twice
  NoJob,     \* no job
  NoCode,    \* "exit_code": null, and Popen.poll() returning None
  Codes,     \* codes a command may exit with
  MaxTries,  \* how often _cleanup_job tries (8 in the code)
  Kills,     \* may the client call shell_job_kill?
  Stops      \* may the server exit?

ASSUME JobsAssumption ==
  /\ NoJob \notin Jobs
  /\ Codes \subseteq 0 .. 255 /\ NoCode \notin Int
  /\ MaxTries \in Nat \ {0}
  /\ Kills \in BOOLEAN /\ Stops \in BOOLEAN

VARIABLES
  status,    \* rec.status; "none" before the job is in the registry
  exit,      \* rec.exit_code
  root,      \* the job's private directory
  proc,      \* the bwrap process: reaped once Popen.poll() returned its code
  code,      \* the code the process exited with
  signalled, \* was SIGTERM sent to its process group?
  mounted,   \* do processes of its namespace still use the private overlay?
  pc,        \* what each thread does next
  job,       \* the job each thread works on
  rc,        \* rc in _poll_job_now
  tries,     \* attempts _cleanup_job made
  queue,     \* running_ids of the reaper
  waits,     \* is the main thread in job_wait?
  seen       \* the status job_status has read

record  == <<status, exit>>
process == <<proc, code, signalled, mounted>>
local   == <<rc, tries, queue, waits, seen>>
vars    == <<status, exit, root, proc, code, signalled, mounted, pc, job, rc,
             tries, queue, waits, seen>>

Threads  == {"main", "reaper"}
Statuses == {"none", "running", "done", "failed", "canceled"}
Term     == -15  \* -signal.SIGTERM
AnyCode  == Codes \cup {Term, NoCode}

MainPcs   == {"idle", "launch", "register", "look", "kill", "cancel", "kill.exit",
              "report", "report.exit", "stop", "down"}
ReaperPcs == {"off", "scan", "next", "down"}
PollPcs   == {"check", "poll", "exit", "status", "clean"}

TypeOK ==
  /\ status \in [Jobs -> Statuses] /\ exit \in [Jobs -> AnyCode]
  /\ root \in [Jobs -> {"none", "there", "gone"}]
  /\ proc \in [Jobs -> {"none", "running", "exited", "reaped"}]
  /\ code \in [Jobs -> AnyCode]
  /\ signalled \in [Jobs -> BOOLEAN] /\ mounted \in [Jobs -> BOOLEAN]
  /\ pc \in [Threads -> MainPcs \cup ReaperPcs \cup PollPcs]
  /\ job \in [Threads -> Jobs \cup {NoJob}]
  /\ rc \in [Threads -> AnyCode] /\ tries \in [Threads -> 0 .. MaxTries]
  /\ queue \subseteq Jobs /\ waits \in BOOLEAN /\ seen \in Statuses

Init ==
  /\ status = [j \in Jobs |-> "none"] /\ exit = [j \in Jobs |-> NoCode]
  /\ root = [j \in Jobs |-> "none"]
  /\ proc = [j \in Jobs |-> "none"] /\ code = [j \in Jobs |-> NoCode]
  /\ signalled = [j \in Jobs |-> FALSE] /\ mounted = [j \in Jobs |-> FALSE]
  /\ pc = [t \in Threads |-> IF t = "main" THEN "idle" ELSE "off"]
  /\ job = [t \in Threads |-> NoJob]
  /\ rc = [t \in Threads |-> NoCode] /\ tries = [t \in Threads |-> 0]
  /\ queue = {} /\ waits = FALSE /\ seen = "none"

Registered == {j \in Jobs : status[j] # "none"}
Goto(t, label) == pc' = [pc EXCEPT ![t] = label]
Take(t, j)     == job' = [job EXCEPT ![t] = j]

-------------------------------------------------------------------------------
(* shell_job_start *)

\* launch_background_job makes the job's directory and the snapshot of the upper.
StartDirs ==
  /\ pc["main"] = "idle"
  /\ \E j \in Jobs : /\ root[j] = "none"
                     /\ root' = [root EXCEPT ![j] = "there"]
                     /\ Take("main", j)
  /\ Goto("main", "launch")
  /\ UNCHANGED <<record, process, local>>

\* build_invocation rejects the command: the directory stays behind.
StartRejected ==
  /\ pc["main"] = "launch"
  /\ Goto("main", "idle") /\ Take("main", NoJob)
  /\ UNCHANGED <<record, root, process, local>>

StartPopen ==
  /\ pc["main"] = "launch"
  /\ proc' = [proc EXCEPT ![job["main"]] = "running"]
  /\ mounted' = [mounted EXCEPT ![job["main"]] = TRUE]
  /\ Goto("main", "register")
  /\ UNCHANGED <<record, root, code, signalled, job, local>>

\* start_job: the record is in the registry before the reaper is started.
StartRegister ==
  /\ pc["main"] = "register"
  /\ status' = [status EXCEPT ![job["main"]] = "running"]
  /\ pc' = [pc EXCEPT !["main"] = "idle",
                      !["reaper"] = IF @ = "off" THEN "scan" ELSE @]
  /\ Take("main", NoJob)
  /\ UNCHANGED <<exit, root, process, local>>

-------------------------------------------------------------------------------
(* The reaper's loop *)

ReaperScan ==
  /\ pc["reaper"] = "scan"
  /\ queue' = {j \in Jobs : status[j] = "running"}
  /\ Goto("reaper", "next")
  /\ UNCHANGED <<record, root, process, job, rc, tries, waits, seen>>

ReaperNext ==
  /\ pc["reaper"] = "next"
  /\ \E j \in queue : Take("reaper", j) /\ queue' = queue \ {j}
  /\ Goto("reaper", "check")
  /\ UNCHANGED <<record, root, process, rc, tries, waits, seen>>

ReaperSleep ==
  /\ pc["reaper"] = "next" /\ queue = {}
  /\ Goto("reaper", "scan")
  /\ UNCHANGED <<record, root, process, job, local>>

-------------------------------------------------------------------------------
(* _poll_job_now and _cleanup_job, on either thread *)

\* Where the caller goes on: the reaper takes its next job, job_wait looks at the
\* status, job_output and job_kill answer.
Waiting(t) == t = "main" /\ waits
After(t) == IF t = "reaper" THEN "next" ELSE IF waits THEN "look" ELSE "idle"
Return(t) ==
  /\ Goto(t, After(t))
  /\ IF Waiting(t) THEN UNCHANGED job ELSE Take(t, NoJob)

\* mutant: a poll does not look whether the job is over
PollCheckBlind(t) ==
  /\ pc[t] = "check"
  /\ Goto(t, "poll")
  /\ UNCHANGED <<record, root, process, job, local>>

\* The status is checked under _JOBS_LOCK, which is released before the poll.
PollCheck(t) ==
  /\ pc[t] = "check"
  /\ \/ status[job[t]] = "running" /\ Goto(t, "poll") /\ UNCHANGED job
     \/ status[job[t]] # "running" /\ Return(t)
  /\ UNCHANGED <<record, root, process, local>>

\* mutant: None is taken for an exit code
PollAliveRecords(t) ==
  /\ pc[t] = "poll" /\ proc[job[t]] = "running"
  /\ Goto(t, "exit")
  /\ UNCHANGED <<record, root, process, job, local>>

\* Popen.poll() returns None: the process runs.
PollAlive(t) ==
  /\ pc[t] = "poll" /\ proc[job[t]] = "running"
  /\ Return(t)
  /\ UNCHANGED <<record, root, process, local>>

\* Popen.poll() returns the code, reaping the process if nobody did yet.  A thread
\* that polls the same process meanwhile does not wait for it: it gets None.
PollExited(t) ==
  /\ pc[t] = "poll" /\ proc[job[t]] \in {"exited", "reaped"}
  /\ proc' = [proc EXCEPT ![job[t]] = "reaped"]
  /\ rc' = [rc EXCEPT ![t] = code[job[t]]]
  /\ \/ Goto(t, "exit") /\ UNCHANGED job
     \/ \E u \in Threads \ {t} :
          /\ pc[u] = "poll" /\ job[u] = job[t]
          /\ pc' = [pc EXCEPT ![t] = "exit", ![u] = After(u)]
          /\ IF Waiting(u) THEN UNCHANGED job ELSE Take(u, NoJob)
  /\ UNCHANGED <<record, root, code, signalled, mounted, tries, queue, waits, seen>>

\* mutant: the status is written before the exit code
PollExitLast(t) ==
  /\ pc[t] = "exit"
  /\ status' = [status EXCEPT ![job[t]] = IF rc[t] = 0 THEN "done" ELSE "failed"]
  /\ Goto(t, "status")
  /\ UNCHANGED <<exit, root, process, job, local>>

PollExit(t) ==
  /\ pc[t] = "exit"
  /\ exit' = [exit EXCEPT ![job[t]] = rc[t]]
  /\ Goto(t, "status")
  /\ UNCHANGED <<status, root, process, job, local>>

\* The status is written last, without looking at it again.
PollStatus(t) ==
  /\ pc[t] = "status"
  /\ status' = [status EXCEPT ![job[t]] = IF rc[t] = 0 THEN "done" ELSE "failed"]
  /\ rc' = [rc EXCEPT ![t] = NoCode]
  /\ Goto(t, "clean")
  /\ UNCHANGED <<exit, root, process, job, tries, queue, waits, seen>>

\* mutant: try until the directory is gone
CleanupForever(t) ==
  /\ pc[t] = "clean" /\ root[job[t]] = "there" /\ mounted[job[t]]
  /\ tries' = [tries EXCEPT ![t] = 1 - @]
  /\ UNCHANGED <<record, root, process, pc, job, rc, queue, waits, seen>>

\* An attempt of _cleanup_job that leaves something behind, as it may while the
\* overlay is in use; after the last one it gives up.
CleanupRetry(t) ==
  /\ pc[t] = "clean" /\ root[job[t]] = "there" /\ mounted[job[t]]
  /\ \/ /\ tries[t] + 1 < MaxTries
        /\ tries' = [tries EXCEPT ![t] = @ + 1]
        /\ UNCHANGED <<pc, job>>
     \/ /\ tries[t] + 1 = MaxTries
        /\ tries' = [tries EXCEPT ![t] = 0]
        /\ Return(t)
  /\ UNCHANGED <<record, root, process, rc, queue, waits, seen>>

\* The directory is removed, or somebody removed it.
CleanupDone(t) ==
  /\ pc[t] = "clean"
  /\ root' = [root EXCEPT ![job[t]] = "gone"]
  /\ tries' = [tries EXCEPT ![t] = 0]
  /\ Return(t)
  /\ UNCHANGED <<record, process, rc, queue, waits, seen>>

Poll(t) == \/ PollCheck(t) \/ PollAlive(t) \/ PollExited(t) \/ PollExit(t)
           \/ PollStatus(t) \/ CleanupRetry(t) \/ CleanupDone(t)

-------------------------------------------------------------------------------
(* job_wait, job_output, job_status *)

\* job_wait and job_output poll first.
PollBegin ==
  /\ pc["main"] = "idle"
  /\ \E j \in Registered : Take("main", j)
  /\ waits' \in BOOLEAN
  /\ Goto("main", "check")
  /\ UNCHANGED <<record, root, process, rc, tries, queue, seen>>

\* job_wait polls again while the job runs, ...
WaitMore ==
  /\ pc["main"] = "look" /\ status[job["main"]] = "running"
  /\ Goto("main", "check")
  /\ UNCHANGED <<record, root, process, job, local>>

\* mutant: job_wait has no deadline
WaitOverEnded ==
  /\ pc["main"] = "look" /\ status[job["main"]] # "running"
  /\ Goto("main", "report") /\ waits' = FALSE
  /\ UNCHANGED <<record, root, process, job, rc, tries, queue, seen>>

\* ... or, when it is over or the deadline passed, reports.
WaitOver ==
  /\ pc["main"] = "look"
  /\ Goto("main", "report") /\ waits' = FALSE
  /\ UNCHANGED <<record, root, process, job, rc, tries, queue, seen>>

StatusBegin ==
  /\ pc["main"] = "idle"
  /\ \E j \in Registered : Take("main", j)
  /\ Goto("main", "report")
  /\ UNCHANGED <<record, root, process, local>>

\* job_status reads the fields one after the other, without a lock: the status
\* first, the exit code last.
ReportStatus ==
  /\ pc["main"] = "report"
  /\ seen' = status[job["main"]]
  /\ Goto("main", "report.exit")
  /\ UNCHANGED <<record, root, process, job, rc, tries, queue, waits>>

ReportExit ==
  /\ pc["main"] = "report.exit"
  /\ seen' = "none"
  /\ Goto("main", "idle") /\ Take("main", NoJob)
  /\ UNCHANGED <<record, root, process, rc, tries, queue, waits>>

-------------------------------------------------------------------------------
(* job_kill *)

\* The status is read without a lock; a finished job is left alone.
KillBegin ==
  /\ Kills /\ pc["main"] = "idle"
  /\ \E j \in Registered : status[j] = "running" /\ Take("main", j)
  /\ waits' = FALSE
  /\ Goto("main", "kill")
  /\ UNCHANGED <<record, root, process, rc, tries, queue, seen>>

\* mutant: the directory is cleaned before the status is set
KillSignalCleans ==
  /\ pc["main"] = "kill"
  /\ Goto("main", "clean")
  /\ UNCHANGED <<record, root, process, job, local>>

\* os.killpg: no such process once the bwrap process was reaped.
KillSignal ==
  /\ pc["main"] = "kill"
  /\ LET j == job["main"] IN
       signalled' = [signalled EXCEPT ![j] = @ \/ proc[j] = "running"]
  /\ Goto("main", "cancel")
  /\ UNCHANGED <<record, root, proc, code, mounted, job, local>>

KillStatus ==
  /\ pc["main"] = "cancel"
  /\ status' = [status EXCEPT ![job["main"]] = "canceled"]
  /\ Goto("main", "kill.exit")
  /\ UNCHANGED <<exit, root, process, job, local>>

KillExit ==
  /\ pc["main"] = "kill.exit"
  /\ exit' = [exit EXCEPT ![job["main"]] = Term]
  /\ Goto("main", "clean")
  /\ UNCHANGED <<status, root, process, job, local>>

-------------------------------------------------------------------------------
(* The bwrap processes and the end of the server *)

\* bwrap exits with its command's code, or dies of the SIGTERM.
ProcessExits(j) ==
  /\ proc[j] = "running"
  /\ proc' = [proc EXCEPT ![j] = "exited"]
  /\ \E c \in Codes \cup {Term} : /\ c = Term => signalled[j]
                                  /\ code' = [code EXCEPT ![j] = c]
  /\ signalled' = [signalled EXCEPT ![j] = FALSE]
  /\ UNCHANGED <<record, root, mounted, pc, job, local>>

\* The overlay is released some time after bwrap is gone, when the last process of
\* its namespace is; one that handles SIGTERM may outlive bwrap for ever.
NamespaceEnds(j) ==
  /\ proc[j] \in {"exited", "reaped"} /\ mounted[j]
  /\ mounted' = [mounted EXCEPT ![j] = FALSE]
  /\ UNCHANGED <<record, root, proc, code, signalled, pc, job, local>>

\* The client closes the connection between two tool calls, or SIGTERM cuts off the
\* tool at work.  Nothing signals the jobs; the reaper, a daemon thread, goes on ...
ServerStops ==
  /\ Stops /\ pc["main"] \notin {"stop", "down"}
  /\ Goto("main", "stop") /\ Take("main", NoJob)
  /\ UNCHANGED <<record, root, process, local>>

\* ... while the handler destroys the session, with the directories of all its jobs in
\* it, one after the other.  What it cannot remove stays.
RemoveSession ==
  /\ pc["main"] = "stop"
  /\ \E j \in Jobs : root[j] = "there" /\ root' = [root EXCEPT ![j] = "gone"]
  /\ UNCHANGED <<record, process, pc, job, local>>

ServerExits ==
  /\ pc["main"] = "stop"
  /\ pc' = [t \in Threads |-> "down"]
  /\ job' = [t \in Threads |-> NoJob]
  /\ UNCHANGED <<record, root, process, local>>

-------------------------------------------------------------------------------

Start  == StartDirs \/ StartRejected \/ StartPopen \/ StartRegister
Reaper == ReaperScan \/ ReaperNext \/ ReaperSleep \/ Poll("reaper")
Query  == PollBegin \/ WaitMore \/ WaitOver \/ StatusBegin \/ ReportStatus \/ ReportExit
Cancel == KillBegin \/ KillSignal \/ KillStatus \/ KillExit
Tools  == Start \/ Query \/ Cancel \/ Poll("main")
Stop   == RemoveSession \/ ServerExits
World  == ServerStops \/ \E j \in Jobs : ProcessExits(j) \/ NamespaceEnds(j)

Next == Reaper \/ Tools \/ Stop \/ World

Spec == Init /\ [][Next]_vars

\* The interpreter lets the reaper run, and a tool call or the handler of the main
\* thread go on; a deadline passes, however often job_wait looks at the job before.
FairSpec == /\ Spec
            /\ WF_vars(Reaper)
            /\ WF_vars(pc["main"] # "idle" /\ (Tools \/ Stop))
            /\ SF_vars(WaitOver)

-------------------------------------------------------------------------------
(* Safety *)

\* A job is recorded as done or failed only after its process was reaped, however
\* the two pollers and a kill interleave.
RecordedAfterExit ==
  \A j \in Jobs : status[j] \in {"done", "failed"} => proc[j] = "reaped"

\* No interleaving of the two pollers tears a record, whichever of them writes which
\* part of it: when it says done or failed, the status is the one the code of the
\* process calls for and the exit code is that code, or the -15 of a kill.
RecordTrue ==
  \A j \in Jobs : status[j] \in {"done", "failed"} =>
    /\ exit[j] = code[j] \/ (Kills /\ exit[j] = Term)
    /\ status[j] = "done" <=> code[j] = 0

\* job_status reads without a lock, and yet never answers a status that its exit
\* code contradicts (but for a kill), because the record is written in the opposite
\* order.
ReportConsistent ==
  [][ReportExit => LET e == exit[job["main"]] IN
       /\ seen = "done" => e = 0 \/ (Kills /\ e = Term)
       /\ seen = "failed" => e \notin {0, NoCode}]_vars

\* While the server is up, no job loses its directory before the registry says that it
\* is over and its process has exited, or was at least sent SIGTERM by a kill.  A
\* server that stops removes the directories of the jobs that still run.
Up == pc["main"] \notin {"stop", "down"}

DirOutlivesJob ==
  Up => \A j \in Jobs : root[j] = "gone" =>
          /\ status[j] \notin {"none", "running"}
          /\ proc[j] = "running" => signalled[j]

-------------------------------------------------------------------------------
(* Refinement *)

\* What JobRecords sees: a code once it was collected, and an exit code once the
\* status says that it counts.
outcome == [j \in Jobs |-> IF proc[j] = "reaped" THEN code[j] ELSE NoCode]
answer  == [j \in Jobs |-> IF status[j] \in {"done", "failed"} THEN exit[j] ELSE NoCode]

Records == INSTANCE JobRecords WITH verdict <- status, files <- root, up <- Up

\* Whatever order the reaper, the tools and a kill write in, a client sees a registry
\* whose operations are atomic.
ImplementsRecords == Records!Spec

-------------------------------------------------------------------------------
(* Liveness *)

\* A job whose process ended is recorded as over even if no tool asks for it.
ExitRecorded ==
  \A j \in Jobs : (status[j] = "running" /\ proc[j] = "exited")
                    ~> (status[j] # "running" \/ pc["main"] = "down")

\* Every tool call is answered, and a server that stops is down at last, although a job
\* may run for ever, the directory of another may resist its removal, and the reaper
\* works on the same jobs.
ToolsAnswer ==
  pc["main"] \notin {"idle", "down"} ~> pc["main"] \in {"idle", "down"}
===============================================================================
