------------------------------ MODULE JobRecords ------------------------------
(***************************************************************************)
(* What the registry of background jobs promises, without threads, polls,  *)
(* signals or the order in which the fields of a record are written: a     *)
(* verdict and its exit code are given together and rest on the code that  *)
(* was collected from the process, only a kill changes them afterwards, and*)
(* the files of a job are kept until there is a verdict, as long as the    *)
(* server is up.                                                           *)
(***************************************************************************)
EXTENDS Integers

CONSTANTS
  Jobs,
  Codes,   \* codes a command may exit with
  NoCode,  \* no code
  Term,    \* the code that a kill is recorded with
  Kills    \* may the client kill a job?

VARIABLES
  verdict,  \* of each job: none before it is registered, then running
  answer,   \* the exit code that goes with a verdict done or failed
  outcome,  \* the code that was collected from its process
  files,    \* its private directory
  up        \* does the server take calls?

vars == <<verdict, answer, outcome, files, up>>

Finished == {"done", "failed"}
Outcomes == Codes \cup IF Kills THEN {Term} ELSE {}

Init ==
  /\ verdict = [j \in Jobs |-> "none"] /\ files = [j \in Jobs |-> "none"]
  /\ answer = [j \in Jobs |-> NoCode] /\ outcome = [j \in Jobs |-> NoCode]
  /\ up = TRUE

Launch(j) ==
  /\ up /\ files[j] = "none"
  /\ files' = [files EXCEPT ![j] = "there"]
  /\ UNCHANGED <<verdict, answer, outcome, up>>

Register(j) ==
  /\ up /\ verdict[j] = "none" /\ files[j] = "there"
  /\ verdict' = [verdict EXCEPT ![j] = "running"]
  /\ UNCHANGED <<answer, outcome, files, up>>

\* A code is collected once, and from a registered job.
Collect(j) ==
  /\ verdict[j] # "none" /\ outcome[j] = NoCode
  /\ \E c \in Outcomes : outcome' = [outcome EXCEPT ![j] = c]
  /\ UNCHANGED <<verdict, answer, files, up>>

\* The verdict follows the collected code; a kill may have written its own exit code.
\* A job that was canceled before is done or failed now.
Judge(j) ==
  /\ verdict[j] \in {"running", "canceled"} /\ outcome[j] # NoCode
  /\ verdict' = [verdict EXCEPT ![j] = IF outcome[j] = 0 THEN "done" ELSE "failed"]
  /\ \E c \in {outcome[j]} \cup IF Kills THEN {Term} ELSE {} :
       answer' = [answer EXCEPT ![j] = c]
  /\ UNCHANGED <<outcome, files, up>>

\* Of a canceled job no exit code is promised.
Cancel(j) ==
  /\ up /\ Kills /\ verdict[j] # "none"
  /\ verdict' = [verdict EXCEPT ![j] = "canceled"]
  /\ answer' = [answer EXCEPT ![j] = NoCode]
  /\ UNCHANGED <<outcome, files, up>>

\* A kill that comes late writes its exit code over one that was answered.
Overwrite(j) ==
  /\ up /\ Kills /\ verdict[j] \in Finished
  /\ answer' = [answer EXCEPT ![j] = Term]
  /\ UNCHANGED <<verdict, outcome, files, up>>

Remove(j) ==
  /\ verdict[j] \in Finished \cup {"canceled"} /\ files[j] = "there"
  /\ files' = [files EXCEPT ![j] = "gone"]
  /\ UNCHANGED <<verdict, answer, outcome, up>>

\* The server takes no more calls, ...
Stop ==
  /\ up' = FALSE
  /\ UNCHANGED <<verdict, answer, outcome, files>>

\* ... and the files of any job may go, whatever its verdict.
Abandon(j) ==
  /\ ~up /\ files[j] = "there"
  /\ files' = [files EXCEPT ![j] = "gone"]
  /\ UNCHANGED <<verdict, answer, outcome, up>>

Next == \/ Stop
        \/ \E j \in Jobs : \/ Launch(j) \/ Register(j) \/ Collect(j) \/ Judge(j)
                           \/ Cancel(j) \/ Overwrite(j) \/ Remove(j) \/ Abandon(j)

Spec == Init /\ [][Next]_vars
===============================================================================
