------------------------------ MODULE JobsProofs ------------------------------
(***************************************************************************)
(* Theorems about Jobs for any number of jobs, any exit codes and any      *)
(* number of cleanup attempts, with and without kills.                     *)
(***************************************************************************)
EXTENDS Jobs, TLAPS

Over == {"done", "failed", "canceled"}

\* A thread that is at work has a job, which is in the registry once start_job
\* returned.
HasJob ==
  /\ \A t \in Threads : pc[t] \notin {"idle", "stop", "down", "off", "scan", "next"} =>
       job[t] \in Jobs
  /\ \A t \in Threads :
       pc[t] \notin {"idle", "stop", "down", "off", "scan", "next", "launch", "register"} =>
         status[job[t]] # "none"
  /\ \A j \in queue : status[j] # "none"

\* What start_job registers is new.
Launching ==
  /\ \A j \in Jobs : root[j] = "none" => proc[j] = "none"
  /\ \A j \in Jobs : proc[j] = "none" => status[j] = "none"
  /\ pc["main"] = "launch" => proc[job["main"]] = "none"
  /\ pc["main"] = "register" => proc[job["main"]] # "none"
  /\ pc["main"] \in {"launch", "register"} =>
       status[job["main"]] = "none" /\ root[job["main"]] = "there"

\* A thread that records an exit has seen it; one that cleans up has recorded it, and
\* has signalled a process that runs.
Recording ==
  \A t \in Threads :
    /\ pc[t] \in {"exit", "status"} => proc[job[t]] = "reaped"
    /\ pc[t] \in {"kill.exit", "clean"} => status[job[t]] \in Over
    /\ pc[t] \in {"cancel", "kill.exit", "clean"} /\ proc[job[t]] = "running" =>
         signalled[job[t]]

JobsInv == TypeOK /\ HasJob /\ Launching /\ Recording /\ RecordedAfterExit /\ DirOutlivesJob

\* Every step keeps the types.
LEMMA TypeStep ==
  ASSUME JobsInv, Next
  PROVE  TypeOK'
<1> USE JobsAssumption DEF JobsInv, TypeOK, HasJob, Threads, MainPcs, ReaperPcs,
    PollPcs, Statuses, AnyCode
<1>1. ASSUME StartDirs PROVE TypeOK'
  BY <1>1 DEF StartDirs, Goto, Take, record, process, local
<1>2. ASSUME StartRejected PROVE TypeOK'
  BY <1>2 DEF StartRejected, Goto, Take, record, process, local
<1>3. ASSUME StartPopen PROVE TypeOK'
  BY <1>3 DEF StartPopen, Goto, record, local
<1>4. ASSUME StartRegister PROVE TypeOK'
  BY <1>4 DEF StartRegister, Take, process, local
<1>5. ASSUME ReaperScan PROVE TypeOK'
  BY <1>5 DEF ReaperScan, Goto, record, process
<1>6. ASSUME ReaperNext PROVE TypeOK'
  BY <1>6 DEF ReaperNext, Goto, Take, record, process
<1>7. ASSUME ReaperSleep PROVE TypeOK'
  BY <1>7 DEF ReaperSleep, Goto, record, process, local
<1>8. ASSUME NEW t \in Threads, PollCheck(t) PROVE TypeOK'
  BY <1>8 DEF PollCheck, Goto, Return, Take, After, Waiting, record, process, local
<1>9. ASSUME NEW t \in Threads, PollAlive(t) PROVE TypeOK'
  BY <1>9 DEF PollAlive, Return, Goto, Take, After, Waiting, record, process, local
<1>10. ASSUME NEW t \in Threads, PollExited(t) PROVE TypeOK'
  BY <1>10 DEF PollExited, Goto, Take, After, Waiting, record
<1>11. ASSUME NEW t \in Threads, PollExit(t) PROVE TypeOK'
  BY <1>11 DEF PollExit, Goto, process, local
<1>12. ASSUME NEW t \in Threads, PollStatus(t) PROVE TypeOK'
  BY <1>12 DEF PollStatus, Goto, process
<1>13. ASSUME NEW t \in Threads, CleanupRetry(t) PROVE TypeOK'
  BY <1>13 DEF CleanupRetry, Return, Goto, Take, After, Waiting, record, process
<1>14. ASSUME NEW t \in Threads, CleanupDone(t) PROVE TypeOK'
  BY <1>14 DEF CleanupDone, Return, Goto, Take, After, Waiting, record, process
<1>15. ASSUME PollBegin PROVE TypeOK'
  BY <1>15 DEF PollBegin, Goto, Take, Registered, record, process
<1>16. ASSUME WaitMore \/ WaitOver PROVE TypeOK'
  <2>1. CASE WaitMore
    BY <2>1 DEF WaitMore, Goto, record, process, local
  <2>2. CASE WaitOver
    BY <2>2 DEF WaitOver, Goto, record, process
  <2> QED
    BY <1>16, <2>1, <2>2
<1>17. ASSUME StatusBegin PROVE TypeOK'
  BY <1>17 DEF StatusBegin, Goto, Take, Registered, record, process, local
<1>18. ASSUME ReportStatus PROVE TypeOK'
  BY <1>18 DEF ReportStatus, Goto, record, process
<1>19. ASSUME ReportExit PROVE TypeOK'
  BY <1>19 DEF ReportExit, Goto, Take, record, process
<1>20. ASSUME KillBegin PROVE TypeOK'
  <2>1. PICK j \in Jobs : job' = [job EXCEPT !["main"] = j]
    BY <1>20 DEF KillBegin, Take, Registered
  <2> QED
    BY <1>20, <2>1 DEF KillBegin, Goto, record, process
<1>21. ASSUME KillSignal PROVE TypeOK'
  BY <1>21 DEF KillSignal, Goto, record, local
<1>22. ASSUME KillStatus PROVE TypeOK'
  BY <1>22 DEF KillStatus, Goto, process, local
<1>23. ASSUME KillExit PROVE TypeOK'
  BY <1>23 DEF KillExit, Goto, process, local
<1>24. ASSUME ServerExits PROVE TypeOK'
  BY <1>24 DEF ServerExits, record, process, local
<1>25. ASSUME NEW j \in Jobs, ProcessExits(j) PROVE TypeOK'
  BY <1>25 DEF ProcessExits, record, local
<1>26. ASSUME NEW j \in Jobs, NamespaceEnds(j) PROVE TypeOK'
  BY <1>26 DEF NamespaceEnds, record, local
<1>27. ASSUME ServerStops PROVE TypeOK'
  BY <1>27 DEF ServerStops, Goto, Take, record, process, local
<1>28. ASSUME RemoveSession PROVE TypeOK'
  BY <1>28 DEF RemoveSession, record, process, local
<1> QED
  BY <1>1, <1>2, <1>3, <1>4, <1>5, <1>6, <1>7, <1>8, <1>9, <1>10, <1>11, <1>12, <1>13,
     <1>14, <1>15, <1>16, <1>17, <1>18, <1>19, <1>20, <1>21, <1>22, <1>23, <1>24,
     <1>25, <1>26, <1>27, <1>28
     DEF Next, Start, Reaper, Tools, Query, Cancel, Stop, World, Poll

\* Every step keeps the rest of the invariant.
LEMMA InvStep ==
  ASSUME JobsInv, Next
  PROVE  (HasJob /\ Launching /\ Recording /\ RecordedAfterExit /\ DirOutlivesJob)'
<1> USE DEF JobsInv, TypeOK, HasJob, Launching, Recording, RecordedAfterExit,
    DirOutlivesJob, Up, Threads, Over, Statuses
<1>1. ASSUME StartDirs
      PROVE (HasJob /\ Launching /\ Recording /\ RecordedAfterExit /\ DirOutlivesJob)'
  BY <1>1 DEF StartDirs, Goto, Take, record, process, local
<1>2. ASSUME StartRejected
      PROVE (HasJob /\ Launching /\ Recording /\ RecordedAfterExit /\ DirOutlivesJob)'
  BY <1>2 DEF StartRejected, Goto, Take, record, process, local
<1>3. ASSUME StartPopen
      PROVE (HasJob /\ Launching /\ Recording /\ RecordedAfterExit /\ DirOutlivesJob)'
  BY <1>3 DEF StartPopen, Goto, record, local
<1>4. ASSUME StartRegister
      PROVE (HasJob /\ Launching /\ Recording /\ RecordedAfterExit /\ DirOutlivesJob)'
  <2> DEFINE j == job["main"]
  <2>1. /\ j \in Jobs /\ status[j] = "none" /\ root[j] = "there" /\ proc[j] # "none"
        /\ status' = [status EXCEPT ![j] = "running"]
        /\ UNCHANGED <<root, proc, signalled, queue>> /\ pc'["main"] = "idle"
    BY <1>4 DEF StartRegister, process, local
  <2>2. \A t \in Threads : job'[t] = job[t] \/ pc'[t] = "idle"
    BY <1>4 DEF StartRegister, Take
  <2>3. \A t \in Threads : pc'[t] = pc[t] \/ pc'[t] = "idle" \/ (t = "reaper" /\ pc'[t] = "scan")
    BY <1>4 DEF StartRegister
  <2>4. \A k \in Jobs : status'[k] = status[k] \/ (k = j /\ status'[k] = "running")
    BY <2>1
  <2>5. HasJob'
    BY <2>1, <2>2, <2>3, <2>4
  <2>6. Recording'
    BY <2>1, <2>2, <2>3, <2>4
  <2>7. Launching'
    BY <2>1, <2>2, <2>3, <2>4
  <2>8. (RecordedAfterExit /\ DirOutlivesJob)'
    BY <1>4, <2>1, <2>3, <2>4 DEF StartRegister
  <2> QED
    BY <2>5, <2>6, <2>7, <2>8
<1>5. ASSUME ReaperScan
      PROVE (HasJob /\ Launching /\ Recording /\ RecordedAfterExit /\ DirOutlivesJob)'
  BY <1>5 DEF ReaperScan, Goto, record, process
<1>6. ASSUME ReaperNext
      PROVE (HasJob /\ Launching /\ Recording /\ RecordedAfterExit /\ DirOutlivesJob)'
  BY <1>6 DEF ReaperNext, Goto, Take, record, process
<1>7. ASSUME ReaperSleep
      PROVE (HasJob /\ Launching /\ Recording /\ RecordedAfterExit /\ DirOutlivesJob)'
  BY <1>7 DEF ReaperSleep, Goto, record, process, local
<1>8. ASSUME NEW t \in Threads, PollCheck(t)
      PROVE (HasJob /\ Launching /\ Recording /\ RecordedAfterExit /\ DirOutlivesJob)'
  BY <1>8 DEF PollCheck, Goto, Return, Take, After, Waiting, record, process, local
<1>9. ASSUME NEW t \in Threads, PollAlive(t)
      PROVE (HasJob /\ Launching /\ Recording /\ RecordedAfterExit /\ DirOutlivesJob)'
  BY <1>9 DEF PollAlive, Return, Goto, Take, After, Waiting, record, process, local
<1>10. ASSUME NEW t \in Threads, PollExited(t)
       PROVE (HasJob /\ Launching /\ Recording /\ RecordedAfterExit /\ DirOutlivesJob)'
  BY <1>10 DEF PollExited, Goto, Take, After, Waiting, record
<1>11. ASSUME NEW t \in Threads, PollExit(t)
       PROVE (HasJob /\ Launching /\ Recording /\ RecordedAfterExit /\ DirOutlivesJob)'
  BY <1>11 DEF PollExit, Goto, process, local
<1>12. ASSUME NEW t \in Threads, PollStatus(t)
       PROVE (HasJob /\ Launching /\ Recording /\ RecordedAfterExit /\ DirOutlivesJob)'
  BY <1>12 DEF PollStatus, Goto, process
<1>13. ASSUME NEW t \in Threads, CleanupRetry(t)
       PROVE (HasJob /\ Launching /\ Recording /\ RecordedAfterExit /\ DirOutlivesJob)'
  BY <1>13 DEF CleanupRetry, Return, Goto, Take, After, Waiting, record, process
<1>14. ASSUME NEW t \in Threads, CleanupDone(t)
       PROVE (HasJob /\ Launching /\ Recording /\ RecordedAfterExit /\ DirOutlivesJob)'
  BY <1>14 DEF CleanupDone, Return, Goto, Take, After, Waiting, record, process
<1>15. ASSUME PollBegin
       PROVE (HasJob /\ Launching /\ Recording /\ RecordedAfterExit /\ DirOutlivesJob)'
  BY <1>15 DEF PollBegin, Goto, Take, Registered, record, process
<1>16. ASSUME WaitMore \/ WaitOver
       PROVE (HasJob /\ Launching /\ Recording /\ RecordedAfterExit /\ DirOutlivesJob)'
  BY <1>16 DEF WaitMore, WaitOver, Goto, record, process, local
<1>17. ASSUME StatusBegin
       PROVE (HasJob /\ Launching /\ Recording /\ RecordedAfterExit /\ DirOutlivesJob)'
  BY <1>17 DEF StatusBegin, Goto, Take, Registered, record, process, local
<1>18. ASSUME ReportStatus
       PROVE (HasJob /\ Launching /\ Recording /\ RecordedAfterExit /\ DirOutlivesJob)'
  BY <1>18 DEF ReportStatus, Goto, record, process
<1>19. ASSUME ReportExit
       PROVE (HasJob /\ Launching /\ Recording /\ RecordedAfterExit /\ DirOutlivesJob)'
  BY <1>19 DEF ReportExit, Goto, Take, record, process
<1>20. ASSUME KillBegin
       PROVE (HasJob /\ Launching /\ Recording /\ RecordedAfterExit /\ DirOutlivesJob)'
  BY <1>20 DEF KillBegin, Goto, Take, Registered, record, process
<1>21. ASSUME KillSignal
       PROVE (HasJob /\ Launching /\ Recording /\ RecordedAfterExit /\ DirOutlivesJob)'
  <2> DEFINE j == job["main"]
  <2>1. /\ j \in Jobs /\ UNCHANGED <<status, exit, root, proc, job, queue>>
        /\ pc["main"] = "kill" /\ pc' = [pc EXCEPT !["main"] = "cancel"]
    BY <1>21 DEF KillSignal, Goto, record, local
  <2>2. \A k \in Jobs : signalled[k] => signalled'[k]
    BY <1>21 DEF KillSignal
  <2>3. proc[j] = "running" => signalled'[j]
    BY <1>21, <2>1 DEF KillSignal
  <2>4. (HasJob /\ Launching /\ RecordedAfterExit)'
    BY <2>1
  <2>5. Recording'
    BY <2>1, <2>2, <2>3
  <2>6. DirOutlivesJob'
    BY <2>1, <2>2
  <2> QED
    BY <2>4, <2>5, <2>6
<1>22. ASSUME KillStatus
       PROVE (HasJob /\ Launching /\ Recording /\ RecordedAfterExit /\ DirOutlivesJob)'
  BY <1>22 DEF KillStatus, Goto, process, local
<1>23. ASSUME KillExit
       PROVE (HasJob /\ Launching /\ Recording /\ RecordedAfterExit /\ DirOutlivesJob)'
  BY <1>23 DEF KillExit, Goto, process, local
<1>24. ASSUME ServerExits
       PROVE (HasJob /\ Launching /\ Recording /\ RecordedAfterExit /\ DirOutlivesJob)'
  BY <1>24 DEF ServerExits, record, process, local
<1>25. ASSUME NEW j \in Jobs, ProcessExits(j)
       PROVE (HasJob /\ Launching /\ Recording /\ RecordedAfterExit /\ DirOutlivesJob)'
  BY <1>25 DEF ProcessExits, record, local
<1>26. ASSUME NEW j \in Jobs, NamespaceEnds(j)
       PROVE (HasJob /\ Launching /\ Recording /\ RecordedAfterExit /\ DirOutlivesJob)'
  BY <1>26 DEF NamespaceEnds, record, local
<1>27. ASSUME ServerStops
       PROVE (HasJob /\ Launching /\ Recording /\ RecordedAfterExit /\ DirOutlivesJob)'
  BY <1>27 DEF ServerStops, Goto, Take, record, process, local
<1>28. ASSUME RemoveSession
       PROVE (HasJob /\ Launching /\ Recording /\ RecordedAfterExit /\ DirOutlivesJob)'
  BY <1>28 DEF RemoveSession, record, process, local
<1> QED
  BY <1>1, <1>2, <1>3, <1>4, <1>5, <1>6, <1>7, <1>8, <1>9, <1>10, <1>11, <1>12, <1>13,
     <1>14, <1>15, <1>16, <1>17, <1>18, <1>19, <1>20, <1>21, <1>22, <1>23, <1>24,
     <1>25, <1>26, <1>27, <1>28
     DEF Next, Start, Reaper, Tools, Query, Cancel, Stop, World, Poll

\* TLC checks the initial condition of the strengthening as well.
LEMMA JobsInvInductive ==
  /\ Init => JobsInv
  /\ JobsInv /\ [Next]_vars => JobsInv'
<1>1. Init => JobsInv
  <2> SUFFICES ASSUME Init PROVE JobsInv
    OBVIOUS
  <2>1. TypeOK
    <3>1. 0 \in 0 .. MaxTries
      BY JobsAssumption
    <3>2. tries \in [Threads -> 0 .. MaxTries]
      BY <3>1 DEF Init
    <3>3. pc \in [Threads -> MainPcs \cup ReaperPcs \cup PollPcs]
      BY DEF Init, MainPcs, ReaperPcs
    <3> QED
      BY <3>2, <3>3 DEF Init, TypeOK, Statuses, AnyCode
  <2>2. HasJob /\ Launching /\ Recording
    BY DEF Init, HasJob, Launching, Recording, Threads
  <2>3. RecordedAfterExit /\ DirOutlivesJob
    BY DEF Init, RecordedAfterExit, DirOutlivesJob, Up
  <2> QED
    BY <2>1, <2>2, <2>3 DEF JobsInv
<1>2. JobsInv /\ Next => JobsInv'
  BY TypeStep, InvStep DEF JobsInv
<1>3. JobsInv /\ UNCHANGED vars => JobsInv'
  BY DEF JobsInv, TypeOK, HasJob, Launching, Recording, RecordedAfterExit,
     DirOutlivesJob, Up, vars
<1> QED
  BY <1>1, <1>2, <1>3

\* A job is recorded as done or failed only after its process was reaped, however
\* the reaper, a polling tool and job_kill interleave.
THEOREM RecordedOnlyAfterExit == Spec => []RecordedAfterExit
<1>1. JobsInv => RecordedAfterExit
  BY DEF JobsInv
<1> QED
  BY <1>1, JobsInvInductive, PTL DEF Spec

\* While the server is up, the directory of a job goes only after its record is over and
\* its process has exited or was signalled.
THEOREM DirRemovedLast == Spec => []DirOutlivesJob
<1>1. JobsInv => DirOutlivesJob
  BY DEF JobsInv
<1> QED
  BY <1>1, JobsInvInductive, PTL DEF Spec

-------------------------------------------------------------------------------
(* The records *)

\* What a poller is about to write is the code of the process; only job_kill may
\* have written over it.
Faithful ==
  \A t \in Threads :
    /\ pc[t] \in {"kill", "cancel", "kill.exit"} => Kills
    /\ pc[t] \in {"exit", "status"} => rc[t] = code[job[t]]
    /\ pc[t] = "status" =>
         exit[job[t]] = code[job[t]] \/ (Kills /\ exit[job[t]] = Term)

PollsInv == JobsInv /\ Faithful /\ RecordTrue

\* Every step keeps the records true.
LEMMA PollsStep ==
  ASSUME PollsInv, Next
  PROVE  (Faithful /\ RecordTrue)'
<1> USE DEF PollsInv, JobsInv, TypeOK, HasJob, Launching, Recording, RecordedAfterExit,
    Faithful, RecordTrue, Threads, Statuses
<1>1. ASSUME StartDirs PROVE (Faithful /\ RecordTrue)'
  BY <1>1 DEF StartDirs, Goto, Take, record, process, local
<1>2. ASSUME StartRejected PROVE (Faithful /\ RecordTrue)'
  BY <1>2 DEF StartRejected, Goto, Take, record, process, local
<1>3. ASSUME StartPopen PROVE (Faithful /\ RecordTrue)'
  BY <1>3 DEF StartPopen, Goto, record, local
<1>4. ASSUME StartRegister PROVE (Faithful /\ RecordTrue)'
  BY <1>4 DEF StartRegister, Take, process, local
<1>5. ASSUME ReaperScan PROVE (Faithful /\ RecordTrue)'
  BY <1>5 DEF ReaperScan, Goto, record, process
<1>6. ASSUME ReaperNext PROVE (Faithful /\ RecordTrue)'
  BY <1>6 DEF ReaperNext, Goto, Take, record, process
<1>7. ASSUME ReaperSleep PROVE (Faithful /\ RecordTrue)'
  BY <1>7 DEF ReaperSleep, Goto, record, process, local
<1>8. ASSUME NEW t \in Threads, PollCheck(t) PROVE (Faithful /\ RecordTrue)'
  BY <1>8 DEF PollCheck, Goto, Return, Take, After, Waiting, record, process, local
<1>9. ASSUME NEW t \in Threads, PollAlive(t) PROVE (Faithful /\ RecordTrue)'
  BY <1>9 DEF PollAlive, Return, Goto, Take, After, Waiting, record, process, local
<1>10. ASSUME NEW t \in Threads, PollExited(t) PROVE (Faithful /\ RecordTrue)'
  BY <1>10 DEF PollExited, Goto, Take, After, Waiting, record
<1>11. ASSUME NEW t \in Threads, PollExit(t) PROVE (Faithful /\ RecordTrue)'
  BY <1>11 DEF PollExit, Goto, process, local
<1>12. ASSUME NEW t \in Threads, PollStatus(t) PROVE (Faithful /\ RecordTrue)'
  BY <1>12 DEF PollStatus, Goto, process
<1>13. ASSUME NEW t \in Threads, CleanupRetry(t) PROVE (Faithful /\ RecordTrue)'
  BY <1>13 DEF CleanupRetry, Return, Goto, Take, After, Waiting, record, process
<1>14. ASSUME NEW t \in Threads, CleanupDone(t) PROVE (Faithful /\ RecordTrue)'
  BY <1>14 DEF CleanupDone, Return, Goto, Take, After, Waiting, record, process
<1>15. ASSUME PollBegin PROVE (Faithful /\ RecordTrue)'
  BY <1>15 DEF PollBegin, Goto, Take, Registered, record, process
<1>16. ASSUME WaitMore \/ WaitOver PROVE (Faithful /\ RecordTrue)'
  BY <1>16 DEF WaitMore, WaitOver, Goto, record, process, local
<1>17. ASSUME StatusBegin PROVE (Faithful /\ RecordTrue)'
  BY <1>17 DEF StatusBegin, Goto, Take, Registered, record, process, local
<1>18. ASSUME ReportStatus PROVE (Faithful /\ RecordTrue)'
  BY <1>18 DEF ReportStatus, Goto, record, process
<1>19. ASSUME ReportExit PROVE (Faithful /\ RecordTrue)'
  BY <1>19 DEF ReportExit, Goto, Take, record, process
<1>20. ASSUME KillBegin PROVE (Faithful /\ RecordTrue)'
  BY <1>20 DEF KillBegin, Goto, Take, Registered, record, process
<1>21. ASSUME KillSignal PROVE (Faithful /\ RecordTrue)'
  BY <1>21 DEF KillSignal, Goto, record, local
<1>22. ASSUME KillStatus PROVE (Faithful /\ RecordTrue)'
  BY <1>22 DEF KillStatus, Goto, process, local
<1>23. ASSUME KillExit PROVE (Faithful /\ RecordTrue)'
  BY <1>23 DEF KillExit, Goto, process, local
<1>24. ASSUME ServerExits PROVE (Faithful /\ RecordTrue)'
  BY <1>24 DEF ServerExits, record, process, local
<1>25. ASSUME NEW j \in Jobs, ProcessExits(j) PROVE (Faithful /\ RecordTrue)'
  BY <1>25 DEF ProcessExits, record, local
<1>26. ASSUME NEW j \in Jobs, NamespaceEnds(j) PROVE (Faithful /\ RecordTrue)'
  BY <1>26 DEF NamespaceEnds, record, local
<1>27. ASSUME ServerStops PROVE (Faithful /\ RecordTrue)'
  BY <1>27 DEF ServerStops, Goto, Take, record, process, local
<1>28. ASSUME RemoveSession PROVE (Faithful /\ RecordTrue)'
  BY <1>28 DEF RemoveSession, record, process, local
<1> QED
  BY <1>1, <1>2, <1>3, <1>4, <1>5, <1>6, <1>7, <1>8, <1>9, <1>10, <1>11, <1>12, <1>13,
     <1>14, <1>15, <1>16, <1>17, <1>18, <1>19, <1>20, <1>21, <1>22, <1>23, <1>24,
     <1>25, <1>26, <1>27, <1>28
     DEF Next, Start, Reaper, Tools, Query, Cancel, Stop, World, Poll

\* So they are in every behaviour.
LEMMA PollsInvInductive ==
  /\ Init => PollsInv
  /\ PollsInv /\ [Next]_vars => PollsInv'
<1>1. Init => PollsInv
  BY JobsInvInductive DEF Init, PollsInv, Faithful, RecordTrue, Threads
<1>2. PollsInv /\ Next => PollsInv'
  BY PollsStep, JobsInvInductive DEF PollsInv
<1>3. PollsInv /\ UNCHANGED vars => PollsInv'
  BY JobsInvInductive DEF PollsInv, Faithful, RecordTrue, vars
<1> QED
  BY <1>1, <1>2, <1>3

\* A record that says that its job is over holds the exit code of the process, or
\* that of a kill, and the status that goes with the process's, although the reaper,
\* the polling tools and job_kill write it without a lock.
THEOREM RecordsTellTheTruth == Spec => []RecordTrue
<1>1. PollsInv => RecordTrue
  BY DEF PollsInv
<1> QED
  BY <1>1, PollsInvInductive, PTL DEF Spec

-------------------------------------------------------------------------------
(* What job_status answers *)

\* A process that is over left a code.
Coded == \A j \in Jobs : proc[j] \in {"exited", "reaped"} => code[j] \in Codes \cup {Term}

\* After job_status has read that its job is over, and until it reads the exit code,
\* whatever the reaper writes agrees with what it has read.
Answering ==
  pc["main"] = "report.exit" /\ seen \in {"done", "failed"} =>
    LET j == job["main"] IN
    /\ proc[j] = "reaped"
    /\ exit[j] = code[j] \/ (Kills /\ exit[j] = Term)
    /\ seen = "done" <=> code[j] = 0

ReportInv == Coded /\ Answering

\* A step of the main thread keeps that: it is at another statement afterwards.
LEMMA ReportMain ==
  ASSUME PollsInv, ReportInv, Tools
  PROVE  ReportInv'
<1> USE DEF PollsInv, JobsInv, TypeOK, HasJob, ReportInv, Coded, Threads
<1>1. CASE Start
  BY <1>1 DEF Start, StartDirs, StartRejected, StartPopen, StartRegister, Goto, Take,
     record, process, local, Answering
<1>2. CASE ReportStatus
  <2>1. /\ seen' = status[job["main"]] /\ job["main"] \in Jobs
        /\ UNCHANGED <<status, exit, job, proc, code>>
    BY <1>2 DEF ReportStatus, record, process
  <2> QED
    BY <2>1 DEF RecordTrue, RecordedAfterExit, Answering
<1>3. CASE PollBegin \/ WaitMore \/ WaitOver \/ StatusBegin \/ ReportExit
  <2>1. pc'["main"] # "report.exit" /\ UNCHANGED <<proc, code>>
    BY <1>3 DEF PollBegin, WaitMore, WaitOver, StatusBegin, ReportExit, Goto, process
  <2> QED
    BY <2>1 DEF Answering
<1>4. CASE Cancel
  <2>1. pc'["main"] # "report.exit" /\ UNCHANGED <<proc, code>>
    BY <1>4 DEF Cancel, KillBegin, KillSignal, KillStatus, KillExit, Goto, process
  <2> QED
    BY <2>1 DEF Answering
<1>5. CASE Poll("main")
  <2>1. pc'["main"] # "report.exit"
    BY <1>5 DEF Poll, PollCheck, PollAlive, PollExited, PollExit, PollStatus,
       CleanupRetry, CleanupDone, Return, After, Goto
  <2>2. code' = code /\ \A j \in Jobs : proc'[j] = proc[j] \/ proc[j] \in {"exited", "reaped"}
    BY <1>5 DEF Poll, PollCheck, PollAlive, PollExited, PollExit, PollStatus,
       CleanupRetry, CleanupDone, process
  <2> QED
    BY <2>1, <2>2 DEF Answering
<1> QED
  BY <1>1, <1>2, <1>3, <1>4, <1>5 DEF Tools, Query

\* So does one of the reaper, which writes no exit code but that of the process.
LEMMA ReportReaper ==
  ASSUME PollsInv, ReportInv, Reaper
  PROVE  ReportInv'
<1> USE DEF PollsInv, JobsInv, TypeOK, HasJob, ReportInv, Coded, Threads
<1>1. /\ UNCHANGED <<code, seen>>
      /\ \A j \in Jobs : /\ proc'[j] = proc[j] \/ proc[j] \in {"exited", "reaped"}
                         /\ proc[j] = "reaped" => proc'[j] = "reaped"
  BY DEF Reaper, ReaperScan, ReaperNext, ReaperSleep, Poll, PollCheck, PollAlive,
     PollExited, PollExit, PollStatus, CleanupRetry, CleanupDone, process, local
<1>2. pc'["main"] = "report.exit" => pc["main"] = "report.exit" /\ job'["main"] = job["main"]
  BY DEF Reaper, ReaperScan, ReaperNext, ReaperSleep, Poll, PollCheck, PollAlive,
     PollExited, PollExit, PollStatus, CleanupRetry, CleanupDone, Return, After, Waiting,
     Goto, Take
<1>3. \A j \in Jobs : exit'[j] = exit[j] \/ exit'[j] = code[j]
  <2>1. CASE PollExit("reaper")
    BY <2>1 DEF PollExit, Faithful
  <2>2. CASE ~ PollExit("reaper")
    BY <2>2 DEF Reaper, ReaperScan, ReaperNext, ReaperSleep, Poll, PollCheck, PollAlive,
       PollExited, PollStatus, CleanupRetry, CleanupDone, record
  <2> QED
    BY <2>1, <2>2
<1>4. pc["main"] = "report.exit" => job["main"] \in Jobs
  OBVIOUS
<1> QED
  BY <1>1, <1>2, <1>3, <1>4 DEF Answering

\* And one of the server's end, or of a process, which has a code once and for all.
LEMMA ReportWorld ==
  ASSUME PollsInv, ReportInv, Stop \/ World
  PROVE  ReportInv'
<1> USE DEF PollsInv, JobsInv, TypeOK, HasJob, ReportInv, Coded, Threads
<1>1. CASE ServerStops \/ RemoveSession \/ ServerExits
  <2>1. pc'["main"] # "report.exit" /\ UNCHANGED <<proc, code>>
    BY <1>1 DEF ServerStops, RemoveSession, ServerExits, Goto, process
  <2> QED
    BY <2>1 DEF Answering
<1>2. ASSUME NEW j \in Jobs, ProcessExits(j) PROVE ReportInv'
  <2>1. /\ proc[j] = "running" /\ \A k \in Jobs \ {j} : proc'[k] = proc[k] /\ code'[k] = code[k]
        /\ code'[j] \in Codes \cup {Term}
        /\ UNCHANGED <<exit, pc, job, seen>>
    BY <1>2 DEF ProcessExits, record, local
  <2> QED
    BY <2>1 DEF Answering
<1>3. ASSUME NEW j \in Jobs, NamespaceEnds(j) PROVE ReportInv'
  BY <1>3 DEF NamespaceEnds, record, local, Answering
<1> QED
  BY <1>1, <1>2, <1>3 DEF Stop, World

\* job_status answers no exit code that contradicts the status it answers, although it
\* reads the two without a lock, and the reaper may write both in between.
THEOREM AnswersAgree == Spec => ReportConsistent
<1> DEFINE Inv == PollsInv /\ ReportInv
           Answer == ReportExit => LET e == exit[job["main"]] IN
                       /\ seen = "done" => e = 0 \/ (Kills /\ e = Term)
                       /\ seen = "failed" => e \notin {0, NoCode}
<1>1. Init => Inv
  BY PollsInvInductive DEF Init, ReportInv, Coded, Answering
<1>2. Inv /\ [Next]_vars => Inv'
  <2>1. Inv /\ Next => ReportInv'
    BY ReportMain, ReportReaper, ReportWorld DEF Next
  <2>2. Inv /\ UNCHANGED vars => ReportInv'
    BY DEF ReportInv, Coded, Answering, vars
  <2> QED
    BY <2>1, <2>2, PollsInvInductive
<1>3. Inv /\ [Next]_vars => [Answer]_vars
  <2> SUFFICES ASSUME Inv, ReportExit PROVE Answer
    OBVIOUS
  <2>1. pc["main"] = "report.exit" /\ job["main"] \in Jobs
    BY DEF ReportExit, PollsInv, JobsInv, HasJob, Threads
  <2>2. \A c \in Codes \cup {Term} : c # NoCode
    BY JobsAssumption DEF Term
  <2>3. Term # 0 /\ Term # NoCode
    BY JobsAssumption DEF Term
  <2> QED
    BY <2>1, <2>2, <2>3 DEF ReportInv, Coded, Answering
<1> QED
  BY <1>1, <1>2, <1>3, PTL DEF Spec, ReportConsistent
-------------------------------------------------------------------------------
(* The registry as its clients see it *)

\* While a thread polls a job, no kill has written an exit code that this thread, or
\* another poller of the job, could find under a done or failed status: job_kill runs
\* on the main thread and does not begin on a job that is over.
Unkilled ==
  /\ \A j \in Jobs : /\ proc[j] \in {"none", "running"} => code[j] = NoCode
                     /\ status[j] \in {"none", "running"} => exit[j] \in {NoCode, code[j]}
                     /\ signalled[j] \/ code[j] = Term => Kills
  /\ pc["main"] \in {"poll", "exit", "status"} =>
       exit[job["main"]] \in {NoCode, code[job["main"]]}
  /\ \A t \in Threads : pc[t] \in {"poll", "exit", "status"} =>
       /\ status[job[t]] \in {"done", "failed"} => exit[job[t]] = code[job[t]]
       /\ pc["main"] = "kill.exit" /\ job["main"] = job[t] => status[job[t]] = "canceled"

RecordsInv == PollsInv /\ Coded /\ Unkilled

\* The codes of processes and the code of a kill are not null.
LEMMA CodesAreNumbers == \A c \in Codes \cup {Term} : c # NoCode
  BY JobsAssumption DEF Term

\* Every step keeps that invariant.
LEMMA RecordsStep ==
  ASSUME RecordsInv, Next
  PROVE  (Coded /\ Unkilled)'
<1> USE DEF RecordsInv, PollsInv, JobsInv, TypeOK, HasJob, Coded, Unkilled, Threads
<1>1. ASSUME StartDirs PROVE (Coded /\ Unkilled)'
  BY <1>1 DEF StartDirs, Goto, Take, record, process, local
<1>2. ASSUME StartRejected PROVE (Coded /\ Unkilled)'
  BY <1>2 DEF StartRejected, Goto, Take, record, process, local
<1>3. ASSUME StartPopen PROVE (Coded /\ Unkilled)'
  BY <1>3 DEF StartPopen, Goto, record, local, Launching
<1>4. ASSUME StartRegister PROVE (Coded /\ Unkilled)'
  BY <1>4 DEF StartRegister, Take, process, local, Launching
<1>5. ASSUME ReaperScan PROVE (Coded /\ Unkilled)'
  BY <1>5 DEF ReaperScan, Goto, record, process
<1>6. ASSUME ReaperNext PROVE (Coded /\ Unkilled)'
  BY <1>6 DEF ReaperNext, Goto, Take, record, process
<1>7. ASSUME ReaperSleep PROVE (Coded /\ Unkilled)'
  BY <1>7 DEF ReaperSleep, Goto, record, process, local
<1>8. ASSUME NEW t \in Threads, PollCheck(t) PROVE (Coded /\ Unkilled)'
  BY <1>8 DEF PollCheck, Goto, Return, Take, After, Waiting, record, process, local,
     Recording, Over
<1>9. ASSUME NEW t \in Threads, PollAlive(t) PROVE (Coded /\ Unkilled)'
  BY <1>9 DEF PollAlive, Return, Goto, Take, After, Waiting, record, process, local
<1>10. ASSUME NEW t \in Threads, PollExited(t) PROVE (Coded /\ Unkilled)'
  BY <1>10 DEF PollExited, Goto, Take, After, Waiting, record
<1>11. ASSUME NEW t \in Threads, PollExit(t) PROVE (Coded /\ Unkilled)'
  BY <1>11 DEF PollExit, Goto, process, local, Faithful
<1>12. ASSUME NEW t \in Threads, PollStatus(t) PROVE (Coded /\ Unkilled)'
  BY <1>12, CodesAreNumbers DEF PollStatus, Goto, process, Faithful, Recording
<1>13. ASSUME NEW t \in Threads, CleanupRetry(t) PROVE (Coded /\ Unkilled)'
  BY <1>13 DEF CleanupRetry, Return, Goto, Take, After, Waiting, record, process
<1>14. ASSUME NEW t \in Threads, CleanupDone(t) PROVE (Coded /\ Unkilled)'
  BY <1>14 DEF CleanupDone, Return, Goto, Take, After, Waiting, record, process
<1>15. ASSUME PollBegin PROVE (Coded /\ Unkilled)'
  BY <1>15 DEF PollBegin, Goto, Take, Registered, record, process
<1>16. ASSUME WaitMore \/ WaitOver PROVE (Coded /\ Unkilled)'
  BY <1>16 DEF WaitMore, WaitOver, Goto, record, process, local
<1>17. ASSUME StatusBegin PROVE (Coded /\ Unkilled)'
  BY <1>17 DEF StatusBegin, Goto, Take, Registered, record, process, local
<1>18. ASSUME ReportStatus PROVE (Coded /\ Unkilled)'
  BY <1>18 DEF ReportStatus, Goto, record, process
<1>19. ASSUME ReportExit PROVE (Coded /\ Unkilled)'
  BY <1>19 DEF ReportExit, Goto, Take, record, process
<1>20. ASSUME KillBegin PROVE (Coded /\ Unkilled)'
  BY <1>20 DEF KillBegin, Goto, Take, Registered, record, process
<1>21. ASSUME KillSignal PROVE (Coded /\ Unkilled)'
  BY <1>21 DEF KillSignal, Goto, record, local, Faithful
<1>22. ASSUME KillStatus PROVE (Coded /\ Unkilled)'
  BY <1>22 DEF KillStatus, Goto, process, local
<1>23. ASSUME KillExit PROVE (Coded /\ Unkilled)'
  BY <1>23 DEF KillExit, Goto, process, local, Recording, Over
<1>24. ASSUME ServerExits PROVE (Coded /\ Unkilled)'
  BY <1>24 DEF ServerExits, record, process, local
<1>25. ASSUME NEW j \in Jobs, ProcessExits(j) PROVE (Coded /\ Unkilled)'
  BY <1>25, JobsAssumption DEF ProcessExits, record, local, RecordedAfterExit, Term
<1>26. ASSUME NEW j \in Jobs, NamespaceEnds(j) PROVE (Coded /\ Unkilled)'
  BY <1>26 DEF NamespaceEnds, record, local
<1>27. ASSUME ServerStops PROVE (Coded /\ Unkilled)'
  BY <1>27 DEF ServerStops, Goto, Take, record, process, local
<1>28. ASSUME RemoveSession PROVE (Coded /\ Unkilled)'
  BY <1>28 DEF RemoveSession, record, process, local
<1> QED
  BY <1>1, <1>2, <1>3, <1>4, <1>5, <1>6, <1>7, <1>8, <1>9, <1>10, <1>11, <1>12, <1>13,
     <1>14, <1>15, <1>16, <1>17, <1>18, <1>19, <1>20, <1>21, <1>22, <1>23, <1>24,
     <1>25, <1>26, <1>27, <1>28
     DEF Next, Start, Reaper, Tools, Query, Cancel, Stop, World, Poll

\* So it holds in every behaviour.
LEMMA RecordsInvInductive ==
  /\ Init => RecordsInv
  /\ RecordsInv /\ [Next]_vars => RecordsInv'
<1>1. Init => RecordsInv
  <2>1. NoCode # Term
    BY CodesAreNumbers
  <2> QED
    BY <2>1, PollsInvInductive DEF Init, RecordsInv, Coded, Unkilled, Threads
<1>2. RecordsInv /\ Next => RecordsInv'
  BY RecordsStep, PollsInvInductive DEF RecordsInv
<1>3. RecordsInv /\ UNCHANGED vars => RecordsInv'
  BY PollsInvInductive DEF RecordsInv, Coded, Unkilled, vars
<1> QED
  BY <1>1, <1>2, <1>3

\* What JobRecords sees changes only with a record, a directory or the reaping of a
\* process.
Unseen ==
  /\ UNCHANGED <<status, exit, root>> /\ Up' = Up
  /\ \A j \in Jobs : /\ proc'[j] = "reaped" <=> proc[j] = "reaped"
                     /\ proc[j] = "reaped" => code'[j] = code[j]

\* The server stops taking calls in one step.
LEMMA UpChanges == JobsInv /\ Next => Up' = Up \/ ServerStops
<1> SUFFICES ASSUME JobsInv, Next, ~ ServerStops PROVE Up' = Up
  OBVIOUS
<1> USE DEF JobsInv, TypeOK, Up, Threads
<1>1. CASE Start
  BY <1>1 DEF Start, StartDirs, StartRejected, StartPopen, StartRegister, Goto
<1>2. CASE Query
  BY <1>2 DEF Query, PollBegin, WaitMore, WaitOver, StatusBegin, ReportStatus, ReportExit,
     Goto
<1>3. CASE Cancel
  BY <1>3 DEF Cancel, KillBegin, KillSignal, KillStatus, KillExit, Goto
<1>4. ASSUME NEW t \in Threads, Poll(t) PROVE Up' = Up
  BY <1>4 DEF Poll, PollCheck, PollAlive, PollExited, PollExit, PollStatus, CleanupRetry,
     CleanupDone, Return, After, Goto
<1>5. CASE ReaperScan \/ ReaperNext \/ ReaperSleep
  BY <1>5 DEF ReaperScan, ReaperNext, ReaperSleep, Goto
<1>6. CASE Stop
  BY <1>6 DEF Stop, RemoveSession, ServerExits
<1>7. ASSUME NEW j \in Jobs, ProcessExits(j) \/ NamespaceEnds(j) PROVE Up' = Up
  BY <1>7 DEF ProcessExits, NamespaceEnds
<1> QED
  BY <1>1, <1>2, <1>3, <1>4, <1>5, <1>6, <1>7 DEF Next, Reaper, Tools, World

LEMMA UnseenStutters == Unseen => UNCHANGED Records!vars
  BY DEF Unseen, Records!vars, outcome, answer

\* Most steps are steps of a thread alone.
LEMMA ThreadSteps ==
  ASSUME RecordsInv, Up' = Up,
         \/ StartRejected \/ StartPopen \/ ReaperScan \/ ReaperNext \/ ReaperSleep
         \/ PollBegin \/ WaitMore \/ WaitOver \/ StatusBegin \/ ReportStatus \/ ReportExit
         \/ KillBegin \/ KillSignal \/ ServerExits
         \/ \E t \in Threads : PollCheck(t) \/ PollAlive(t) \/ CleanupRetry(t)
         \/ \E j \in Jobs : ProcessExits(j) \/ NamespaceEnds(j)
  PROVE  Unseen
<1> USE DEF RecordsInv, PollsInv, JobsInv, TypeOK, Unseen, record, process, local
<1>1. CASE StartPopen
  BY <1>1 DEF StartPopen, Launching, HasJob, Threads
<1>2. CASE StartRejected \/ ReaperScan \/ ReaperNext \/ ReaperSleep
  BY <1>2 DEF StartRejected, ReaperScan, ReaperNext, ReaperSleep
<1>3. CASE PollBegin \/ WaitMore \/ WaitOver \/ StatusBegin \/ ReportStatus \/ ReportExit
  BY <1>3 DEF PollBegin, WaitMore, WaitOver, StatusBegin, ReportStatus, ReportExit
<1>4. CASE KillBegin \/ KillSignal \/ ServerExits
  BY <1>4 DEF KillBegin, KillSignal, ServerExits
<1>5. ASSUME NEW t \in Threads, PollCheck(t) \/ PollAlive(t) \/ CleanupRetry(t) PROVE Unseen
  BY <1>5 DEF PollCheck, PollAlive, CleanupRetry
<1>6. ASSUME NEW j \in Jobs, ProcessExits(j) PROVE Unseen
  BY <1>6 DEF ProcessExits
<1>7. ASSUME NEW j \in Jobs, NamespaceEnds(j) PROVE Unseen
  BY <1>7 DEF NamespaceEnds
<1> QED
  BY <1>1, <1>2, <1>3, <1>4, <1>5, <1>6, <1>7

\* start_job, before and after the process was started.
LEMMA StartDirsLaunches == RecordsInv /\ Up' = Up /\ StartDirs => Records!Next
<1> SUFFICES ASSUME RecordsInv, Up' = Up, StartDirs PROVE Records!Next
  OBVIOUS
<1>1. PICK j \in Jobs : root[j] = "none" /\ root' = [root EXCEPT ![j] = "there"]
  BY DEF StartDirs
<1>2. UNCHANGED <<status, answer, outcome>>
  BY DEF StartDirs, record, process, answer, outcome
<1> QED
  BY <1>1, <1>2 DEF StartDirs, Up, Records!Next, Records!Launch

LEMMA StartRegisterRegisters == RecordsInv /\ Up' = Up /\ StartRegister => Records!Next
<1> SUFFICES ASSUME RecordsInv, Up' = Up, StartRegister PROVE Records!Next
  OBVIOUS
<1> DEFINE j == job["main"]
<1>1. j \in Jobs /\ status[j] = "none" /\ root[j] = "there"
  BY DEF StartRegister, RecordsInv, PollsInv, JobsInv, HasJob, Launching, Threads
<1>2. status' = [status EXCEPT ![j] = "running"] /\ UNCHANGED <<exit, root, proc, code>>
  BY DEF StartRegister, process
<1>3. outcome' = outcome
  BY <1>2 DEF outcome
<1>4. answer' = answer
  <2>1. \A k \in Jobs : status'[k] = status[k] \/ (status'[k] = "running" /\ status[k] = "none")
    BY <1>1, <1>2 DEF RecordsInv, PollsInv, JobsInv, TypeOK
  <2> QED
    BY <1>2, <2>1 DEF answer
<1> QED
  BY <1>1, <1>2, <1>3, <1>4 DEF StartRegister, Up, Records!Next, Records!Register

\* Popen.poll() collects the code the first time that it finds one.
LEMMA PollExitedCollects ==
  ASSUME RecordsInv, Up' = Up, NEW t \in Threads, PollExited(t)
  PROVE  Records!Next \/ UNCHANGED Records!vars
<1> DEFINE j == job[t]
<1>1. /\ j \in Jobs /\ status[j] # "none" /\ proc[j] \in {"exited", "reaped"}
      /\ code[j] \in Codes \cup {Term} /\ (code[j] = Term => Kills)
  BY DEF PollExited, RecordsInv, PollsInv, JobsInv, HasJob, Coded, Unkilled
<1>2. proc' = [proc EXCEPT ![j] = "reaped"] /\ UNCHANGED <<status, exit, root, code>>
  BY DEF PollExited, record
<1>3. proc \in [Jobs -> {"none", "running", "exited", "reaped"}]
  BY DEF RecordsInv, PollsInv, JobsInv, TypeOK
<1>4. CASE proc[j] = "reaped"
  BY <1>1, <1>2, <1>3, <1>4, UnseenStutters DEF Unseen
<1>5. CASE proc[j] = "exited"
  <2>1. outcome[j] = NoCode
    BY <1>1, <1>5 DEF outcome
  <2>2. outcome' = [outcome EXCEPT ![j] = code[j]]
    BY <1>1, <1>2, <1>3 DEF outcome
  <2>3. answer' = answer
    BY <1>2 DEF answer
  <2>4. code[j] \in Records!Outcomes
    BY <1>1 DEF Records!Outcomes
  <2> QED
    BY <1>1, <1>2, <2>1, <2>2, <2>3, <2>4 DEF Records!Next, Records!Collect
<1> QED
  BY <1>1, <1>4, <1>5

\* The exit code is written when nobody can see it, or it is there already.
LEMMA PollExitStutters ==
  ASSUME RecordsInv, Up' = Up, NEW t \in Threads, PollExit(t)
  PROVE  UNCHANGED Records!vars
<1> DEFINE j == job[t]
<1>1. /\ j \in Jobs /\ rc[t] = code[j]
      /\ status[j] \in {"done", "failed"} => exit[j] = code[j]
  BY DEF PollExit, RecordsInv, PollsInv, JobsInv, HasJob, Faithful, Unkilled
<1>2. exit' = [exit EXCEPT ![j] = rc[t]] /\ UNCHANGED <<status, root, proc, code>>
  BY DEF PollExit, process
<1>3. exit \in [Jobs -> AnyCode]
  BY DEF RecordsInv, PollsInv, JobsInv, TypeOK
<1>4. \A k \in Jobs : status[k] \in {"done", "failed"} => exit'[k] = exit[k]
  BY <1>1, <1>2, <1>3
<1>5. answer' = answer /\ outcome' = outcome
  BY <1>2, <1>4 DEF answer, outcome
<1> QED
  BY <1>2, <1>5 DEF Records!vars

\* The status is written when the exit code is; the second poller writes it again.
LEMMA PollStatusJudges ==
  ASSUME RecordsInv, Up' = Up, NEW t \in Threads, PollStatus(t)
  PROVE  Records!Next \/ UNCHANGED Records!vars
<1> DEFINE j == job[t]
           verdict == IF code[j] = 0 THEN "done" ELSE "failed"
<1>1. /\ j \in Jobs /\ status[j] # "none" /\ rc[t] = code[j] /\ proc[j] = "reaped"
      /\ exit[j] = code[j] \/ (Kills /\ exit[j] = Term)
  BY DEF PollStatus, RecordsInv, PollsInv, JobsInv, HasJob, Faithful, Recording
<1>2. status' = [status EXCEPT ![j] = verdict] /\ UNCHANGED <<exit, root, proc, code>>
  BY <1>1 DEF PollStatus, process
<1>3. status \in [Jobs -> Statuses]
  BY DEF RecordsInv, PollsInv, JobsInv, TypeOK
<1>4. outcome' = outcome /\ outcome[j] = code[j] /\ outcome[j] # NoCode
  BY <1>1, <1>2, CodesAreNumbers DEF outcome, RecordsInv, Coded
<1>5. answer' = [answer EXCEPT ![j] = exit[j]]
  BY <1>1, <1>2, <1>3 DEF answer
<1>6. CASE status[j] \in {"done", "failed"}
  <2>1. status[j] = verdict
    BY <1>1, <1>6 DEF RecordsInv, PollsInv, RecordTrue
  <2>2. status' = status
    BY <1>1, <1>2, <1>3, <2>1
  <2> QED
    BY <1>2, <1>4, <2>2 DEF answer, Records!vars
<1>7. CASE status[j] \in {"running", "canceled"}
  <2>1. exit[j] \in {outcome[j]} \cup IF Kills THEN {Term} ELSE {}
    BY <1>1, <1>4
  <2>2. status' = [status EXCEPT ![j] = IF outcome[j] = 0 THEN "done" ELSE "failed"]
    BY <1>2, <1>4
  <2>3. Records!Judge(j)
    BY <1>2, <1>4, <1>5, <1>7, <2>1, <2>2 DEF Records!Judge
  <2> QED
    BY <1>1, <2>3 DEF Records!Next
<1> QED
  BY <1>1, <1>3, <1>6, <1>7 DEF Statuses

\* The directory goes after the verdict; an attempt that finds it gone does nothing.
LEMMA CleanupRemoves ==
  ASSUME RecordsInv, Up' = Up, NEW t \in Threads, CleanupDone(t)
  PROVE  Records!Next \/ UNCHANGED Records!vars
<1> DEFINE j == job[t]
<1>1. j \in Jobs /\ status[j] \in Over
  BY DEF CleanupDone, RecordsInv, PollsInv, JobsInv, HasJob, Recording
<1>2. root' = [root EXCEPT ![j] = "gone"] /\ UNCHANGED <<status, answer, outcome>>
  BY DEF CleanupDone, record, process, answer, outcome
<1>3. root[j] \in {"there", "gone"} /\ root \in [Jobs -> {"none", "there", "gone"}]
  BY <1>1 DEF RecordsInv, PollsInv, JobsInv, TypeOK, Launching, Over
<1>4. CASE root[j] = "there"
  <2>1. Records!Remove(j)
    BY <1>1, <1>2, <1>4 DEF Records!Remove, Records!Finished, Over
  <2> QED
    BY <1>1, <2>1 DEF Records!Next
<1>5. CASE root[j] = "gone"
  BY <1>1, <1>2, <1>3, <1>5 DEF Records!vars
<1> QED
  BY <1>3, <1>4, <1>5

\* job_kill cancels the job, and writes its exit code over that of a poller.
LEMMA KillStatusCancels == RecordsInv /\ Up' = Up /\ KillStatus => Records!Next
<1> SUFFICES ASSUME RecordsInv, Up' = Up, KillStatus PROVE Records!Next
  OBVIOUS
<1> DEFINE j == job["main"]
<1>1. Kills /\ j \in Jobs /\ status[j] # "none"
  BY DEF KillStatus, RecordsInv, PollsInv, JobsInv, HasJob, Faithful, Threads
<1>2. status' = [status EXCEPT ![j] = "canceled"] /\ UNCHANGED <<exit, root, proc, code>>
  BY DEF KillStatus, process
<1>3. status \in [Jobs -> Statuses]
  BY DEF RecordsInv, PollsInv, JobsInv, TypeOK
<1>4. outcome' = outcome /\ answer' = [answer EXCEPT ![j] = NoCode]
  BY <1>1, <1>2, <1>3 DEF outcome, answer
<1>5. Records!Cancel(j)
  BY <1>1, <1>2, <1>4 DEF KillStatus, Up, Records!Cancel
<1> QED
  BY <1>1, <1>5 DEF Records!Next

LEMMA KillExitOverwrites ==
  RecordsInv /\ Up' = Up /\ KillExit => Records!Next \/ UNCHANGED Records!vars
<1> SUFFICES ASSUME RecordsInv, Up' = Up, KillExit PROVE Records!Next \/ UNCHANGED Records!vars
  OBVIOUS
<1> DEFINE j == job["main"]
<1>1. Kills /\ j \in Jobs
  BY DEF KillExit, RecordsInv, PollsInv, JobsInv, HasJob, Faithful, Threads
<1>2. exit' = [exit EXCEPT ![j] = Term] /\ UNCHANGED <<status, root, proc, code>>
  BY DEF KillExit, process
<1>3. exit \in [Jobs -> AnyCode] /\ outcome' = outcome
  BY <1>2 DEF RecordsInv, PollsInv, JobsInv, TypeOK, outcome
<1>4. CASE status[j] \in {"done", "failed"}
  <2>1. answer' = [answer EXCEPT ![j] = Term]
    BY <1>1, <1>2, <1>3, <1>4 DEF answer
  <2>2. Records!Overwrite(j)
    BY <1>1, <1>2, <1>3, <1>4, <2>1 DEF KillExit, Up, Records!Overwrite, Records!Finished
  <2> QED
    BY <1>1, <2>2 DEF Records!Next
<1>5. CASE status[j] \notin {"done", "failed"}
  <2>1. answer' = answer
    BY <1>1, <1>2, <1>3, <1>5 DEF answer
  <2> QED
    BY <1>2, <1>3, <2>1 DEF Records!vars
<1> QED
  BY <1>4, <1>5

\* The server that stops takes the directories of its session with it.
LEMMA ServerStopsStops == RecordsInv /\ ServerStops => Records!Next
<1> SUFFICES ASSUME RecordsInv, ServerStops PROVE Records!Next
  OBVIOUS
<1>1. pc'["main"] = "stop" /\ UNCHANGED <<status, exit, root, proc, code>>
  BY DEF ServerStops, Goto, record, process, RecordsInv, PollsInv, JobsInv, TypeOK, Threads
<1>2. Up' = FALSE
  BY <1>1 DEF Up
<1>3. answer' = answer /\ outcome' = outcome
  BY <1>1 DEF answer, outcome
<1>4. Records!Stop
  BY <1>1, <1>2, <1>3 DEF Records!Stop
<1> QED
  BY <1>4 DEF Records!Next

LEMMA RemoveSessionAbandons == Up' = Up /\ RemoveSession => Records!Next
<1> SUFFICES ASSUME Up' = Up, RemoveSession PROVE Records!Next
  OBVIOUS
<1>1. PICK j \in Jobs : root[j] = "there" /\ root' = [root EXCEPT ![j] = "gone"]
  BY DEF RemoveSession
<1>2. ~ Up /\ UNCHANGED <<status, answer, outcome>>
  BY DEF RemoveSession, Up, record, process, answer, outcome
<1>3. Records!Abandon(j)
  BY <1>1, <1>2 DEF Records!Abandon
<1> QED
  BY <1>3 DEF Records!Next

\* The registry implements JobRecords: whatever order the reaper, the tools and a kill
\* write the fields of a record in, without a lock, a client sees each verdict come
\* with its exit code in one step, after the code of the process was collected; only a
\* kill changes the verdict or the exit code of a job that is done or failed, and no
\* directory goes before its verdict unless the server has stopped.
THEOREM JobsImplementRecords == Spec => ImplementsRecords
<1>1. Init => Records!Init
  BY DEF Init, Threads, Up, Records!Init, answer, outcome
<1>2. RecordsInv /\ [Next]_vars => [Records!Next]_Records!vars
  <2> SUFFICES ASSUME RecordsInv, [Next]_vars PROVE [Records!Next]_Records!vars
    OBVIOUS
  <2>1. CASE UNCHANGED vars
    BY <2>1, UnseenStutters DEF vars, Unseen, Up
  <2>2. CASE ServerStops \/ (Up' = Up /\ RemoveSession)
    BY <2>2, ServerStopsStops, RemoveSessionAbandons
  <2>3. CASE Up' = Up /\ (StartDirs \/ StartRegister)
    BY <2>3, StartDirsLaunches, StartRegisterRegisters
  <2>4. ASSUME Up' = Up, NEW t \in Threads,
               PollExited(t) \/ PollExit(t) \/ PollStatus(t) \/ CleanupDone(t)
        PROVE  [Records!Next]_Records!vars
    BY <2>4, PollExitedCollects, PollExitStutters, PollStatusJudges, CleanupRemoves
  <2>5. CASE Up' = Up /\ (KillStatus \/ KillExit)
    BY <2>5, KillStatusCancels, KillExitOverwrites
  <2>6. ASSUME Next, Up' = Up, ~ ServerStops, ~ RemoveSession, ~ (StartDirs \/ StartRegister),
               ~ (KillStatus \/ KillExit),
               \A t \in Threads :
                 ~ (PollExited(t) \/ PollExit(t) \/ PollStatus(t) \/ CleanupDone(t))
        PROVE  [Records!Next]_Records!vars
    <3>1. Unseen
      BY <2>6, ThreadSteps
         DEF Next, Start, Reaper, Tools, Query, Cancel, Stop, World, Poll, Threads
    <3> QED
      BY <3>1, UnseenStutters
  <2>7. CASE Next
    <3>1. Up' = Up \/ ServerStops
      BY <2>7, UpChanges DEF RecordsInv, PollsInv
    <3> QED
      BY <2>2, <2>3, <2>4, <2>5, <2>6, <2>7, <3>1
  <2> QED
    BY <2>1, <2>7
<1> QED
  BY <1>1, <1>2, RecordsInvInductive, PTL DEF Spec, ImplementsRecords, Records!Spec
===============================================================================
