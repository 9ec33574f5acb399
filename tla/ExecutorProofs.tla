---------------------------- MODULE ExecutorProofs ----------------------------
(***************************************************************************)
(* Theorems about Executor for programs of any length and any number of    *)
(* attempts.                                                               *)
(***************************************************************************)
EXTENDS Executor, ShellWordsProofs

\* A command that is about to be tried again after it ran has printed the text of a
\* refusal itself.
RetryInv ==
  /\ ran \in Nat
  /\ pc = "attempt" /\ ran > 0 => own
  /\ pc = "judge" /\ result.busy /\ ran > 0 => own
  /\ ran > 1 => own

\* Every step keeps the invariant.
LEMMA RetryStep == ASSUME RetryInv, [Next]_vars PROVE RetryInv'
<1> USE DEF RetryInv, attempts, chain
<1>1. ASSUME NEW o \in {";", "&&", "||"}, NEW c \in Cmds, Take(o, c) PROVE RetryInv'
  BY <1>1 DEF Take
<1>2. CASE Skip
  BY <1>2 DEF Skip
<1>3. CASE CdBuiltin
  BY <1>3 DEF CdBuiltin, Done
<1>4. CASE ProgramEnds
  BY <1>4 DEF ProgramEnds, Reply
<1>16. CASE SyntaxError
  BY <1>16 DEF SyntaxError, Reply
<1>5. CASE BuildRaises
  <2>1. Reply("empty") \/ Reply("raised") \/ Reply("rejected")
    BY <1>5 DEF BuildRaises
  <2> QED BY <2>1 DEF Reply
<1>6. CASE Build
  BY <1>6 DEF Build
<1>7. CASE RedirectError
  BY <1>7 DEF RedirectError, Ends, Result
<1>8. CASE Refused
  BY <1>8 DEF Refused, CanSpawn, Ends
<1>9. CASE Runs
  BY <1>9 DEF Runs, CanSpawn
<1>10. ASSUME NEW rc \in Codes, Exits(rc) PROVE RetryInv'
  <2>1. PICK busy \in BOOLEAN : result' = Result(rc, busy) /\ own' = (own \/ busy)
    BY <1>10 DEF Exits, Ends
  <2>2. result'.busy = busy
    BY <2>1 DEF Result
  <2>3. ran' = ran /\ pc' = "judge"
    BY <1>10 DEF Exits, Ends
  <2> QED BY <2>1, <2>2, <2>3
<1>11. CASE TimesOut
  BY <1>11 DEF TimesOut, Ends, Result
<1>12. CASE Retry
  BY <1>12 DEF Retry, Again
<1>13. CASE Record
  BY <1>13 DEF Record, Done
<1>14. CASE TornDown
  BY <1>14 DEF TornDown
<1>15. CASE UNCHANGED vars
  BY <1>15 DEF vars
<1> QED
  BY <1>1, <1>2, <1>3, <1>4, <1>5, <1>6, <1>7, <1>8, <1>9, <1>10, <1>11, <1>12, <1>13,
     <1>14, <1>15, <1>16 DEF Next, Program, Attempt

\* The retry of run_command never executes a command a second time, unless the
\* command failed with the text of a refusal of its own.
THEOREM NoSecondRun == Spec => []RunsOnce
<1>1. Init => RetryInv
  <2>1. Init => ran = 0 /\ pc = "next"
    BY DEF Init
  <2> QED BY <2>1 DEF RetryInv
<1>2. RetryInv /\ [Next]_vars => RetryInv'
  BY RetryStep
<1>3. RetryInv => RunsOnce
  BY DEF RetryInv, RunsOnce
<1> QED BY <1>1, <1>2, <1>3, PTL DEF Spec

-------------------------------------------------------------------------------
(* Types *)

Fates == [op : {";", "&&", "||"}, how : {"skipped", "cd", "ran"}, rc : Codes \cup {Timeout},
          dir : Dirs]

Working == {"link", "attempt", "running", "judge"}

\* Where the call is, and the results of its commands.
Kinds ==
  /\ pc \in {"next", "link", "attempt", "running", "judge", "done"}
  /\ cmd \in Cmds /\ op \in {";", "&&", "||"}
  /\ cur \in Dirs /\ last \in Codes \cup {Timeout}
  /\ reply \in {"none", "result", "syntax", "rejected", "empty", "raised"}
  /\ result \in [rc : Codes \cup {Timeout}, busy : BOOLEAN]

Flags == /\ skipped \in BOOLEAN /\ lag \in BOOLEAN /\ temp \in BOOLEAN
         /\ own \in BOOLEAN /\ refused \in BOOLEAN

\* There is room for the command at work and for the attempt that it is about to make.
Sizes ==
  /\ tries \in 0 .. MaxAttempts /\ ran \in 0 .. tries
  /\ log \in Seq(Fates) /\ stages \in Seq(Fates)
  /\ Len(log) <= MaxCmds /\ Len(stages) <= Len(log)
  /\ pc \in Working => Len(log) < MaxCmds
  /\ pc = "attempt" => tries < MaxAttempts

\* Every step keeps the call at one of its places, in a directory, with a result.
LEMMA KindsStep == ASSUME Kinds, [Next]_vars PROVE Kinds'
<1> USE DEF Kinds, attempts, chain
<1>0. 0 \in Codes /\ 1 \in Codes /\ Home \in Dirs
  BY ExecutorAssumption DEF Codes
<1>1. ASSUME NEW o \in {";", "&&", "||"}, NEW c \in Cmds, Take(o, c) PROVE Kinds'
  BY <1>0, <1>1 DEF Take
<1>2. CASE Skip
  BY <1>2 DEF Skip
<1>3. CASE CdBuiltin
  <2>1. cmd.dir \in Dirs
    <3>1. ASSUME NEW specs \in Redirs, cmd = Single(specs) PROVE cmd.dir \in Dirs
      BY <1>0, <3>1 DEF Single
    <3>2. ASSUME NEW specs \in PipeRedirs, cmd = Pipeline(specs) PROVE cmd.dir \in Dirs
      BY <1>0, <3>2 DEF Pipeline
    <3>3. ASSUME NEW d \in Dirs, cmd = Cd(d) PROVE cmd.dir \in Dirs
      BY <3>3 DEF Cd
    <3>4. ASSUME NEW kind, cmd = Plain(kind) PROVE cmd.dir \in Dirs
      BY <1>0, <3>4 DEF Plain
    <3> QED BY <3>1, <3>2, <3>3, <3>4 DEF Cmds
  <2>2. /\ cur' \in Dirs /\ last' \in Codes /\ pc' = "next"
        /\ UNCHANGED <<cmd, op, reply, attempts>>
    BY <1>0, <1>3, <2>1 DEF CdBuiltin, Done
  <2> QED BY <2>2
<1>4. CASE SyntaxError \/ ProgramEnds \/ BuildRaises
  <2>1. PICK kind \in {"result", "syntax", "rejected", "empty", "raised"} : Reply(kind)
    BY <1>4 DEF SyntaxError, ProgramEnds, BuildRaises
  <2> QED BY <2>1 DEF Reply
<1>5. CASE Build
  BY <1>0, <1>5 DEF Build, NoResult, Result
<1>6. CASE RedirectError
  BY <1>0, <1>6 DEF RedirectError, Ends, Result
<1>7. CASE Refused
  <2>1. Heard \in BOOLEAN
    BY DEF Heard
  <2>2. /\ pc' = "judge" /\ result' = [rc |-> 1, busy |-> Heard]
        /\ UNCHANGED <<cmd, op, reply, cur, last>>
    BY <1>7 DEF Refused, Ends, Result
  <2> QED BY <1>0, <2>1, <2>2
<1>8. CASE Runs
  BY <1>8 DEF Runs
<1>9. ASSUME NEW rc \in Codes, Exits(rc) PROVE Kinds'
  <2>1. PICK busy \in BOOLEAN : result' = Result(rc, busy)
    BY <1>9 DEF Exits, Ends
  <2>2. result' \in [rc : Codes \cup {Timeout}, busy : BOOLEAN]
    BY <2>1 DEF Result
  <2>3. pc' = "judge" /\ UNCHANGED <<cmd, op, reply, cur, last>>
    BY <1>9 DEF Exits, Ends
  <2> QED BY <2>2, <2>3
<1>10. CASE TimesOut
  BY <1>10 DEF TimesOut, Ends, Result
<1>11. CASE Retry
  BY <1>11 DEF Retry
<1>12. CASE Record
  BY <1>12 DEF Record, Done
<1>13. CASE TornDown
  BY <1>13 DEF TornDown
<1>14. CASE UNCHANGED vars
  BY <1>14 DEF vars
<1> QED
  BY <1>1, <1>2, <1>3, <1>4, <1>5, <1>6, <1>7, <1>8, <1>9, <1>10, <1>11, <1>12, <1>13,
     <1>14 DEF Next, Program, Attempt

\* The flags of the call stay Boolean.
LEMMA FlagsStep == ASSUME Flags, [Next]_vars PROVE Flags'
<1> USE DEF Flags, attempts, chain
<1>1. ASSUME NEW o \in {";", "&&", "||"}, NEW c \in Cmds, Take(o, c) PROVE Flags'
  BY <1>1 DEF Take
<1>2. CASE Skip
  BY <1>2 DEF Skip
<1>3. CASE CdBuiltin
  BY <1>3 DEF CdBuiltin
<1>4. CASE SyntaxError \/ ProgramEnds \/ BuildRaises
  <2>1. PICK kind \in {"result", "syntax", "rejected", "empty", "raised"} : Reply(kind)
    BY <1>4 DEF SyntaxError, ProgramEnds, BuildRaises
  <2> QED BY <2>1 DEF Reply
<1>5. CASE Build
  BY <1>5 DEF Build
<1>6. CASE RedirectError
  BY <1>6 DEF RedirectError, Ends
<1>7. CASE Refused
  BY <1>7 DEF Refused, Ends
<1>8. CASE Runs
  BY <1>8 DEF Runs
<1>9. ASSUME NEW rc \in Codes, Exits(rc) PROVE Flags'
  <2>1. own' \in BOOLEAN
    BY <1>9 DEF Exits
  <2> QED BY <1>9, <2>1 DEF Exits, Ends
<1>10. CASE TimesOut
  BY <1>10 DEF TimesOut, Ends
<1>11. CASE Retry
  BY <1>11 DEF Retry
<1>12. CASE Record
  BY <1>12 DEF Record
<1>13. CASE TornDown
  BY <1>13 DEF TornDown
<1>14. CASE UNCHANGED vars
  BY <1>14 DEF vars
<1> QED
  BY <1>1, <1>2, <1>3, <1>4, <1>5, <1>6, <1>7, <1>8, <1>9, <1>10, <1>11, <1>12, <1>13,
     <1>14 DEF Next, Program, Attempt

\* The end of a command appends one report to the log and one to the stages.
LEMMA DoneSizes ==
  ASSUME Kinds, Sizes, pc \in Working, UNCHANGED <<op, tries, ran>>, cur' \in Dirs,
         NEW how \in {"cd", "ran"}, NEW rc \in Codes \cup {Timeout}, Done(how, rc)
  PROVE  Sizes'
<1>1. Fate(how, rc, cur') \in Fates
  BY DEF Kinds, Fate, Fates
<1>2. log' = Append(log, Fate(how, rc, cur')) /\ stages' = Append(stages, Fate(how, rc, cur'))
  BY DEF Done
<1>3. /\ Len(log) \in Nat /\ Len(stages) \in Nat /\ Len(stages) <= Len(log)
      /\ Len(log) < MaxCmds /\ MaxCmds \in Nat
  BY ExecutorAssumption DEF Sizes
<1>4. /\ log' \in Seq(Fates) /\ Len(log') = Len(log) + 1
      /\ stages' \in Seq(Fates) /\ Len(stages') = Len(stages) + 1
  BY <1>1, <1>2, AppendProperties DEF Sizes
<1>5. pc' = "next"
  BY DEF Done
<1> QED BY <1>3, <1>4, <1>5 DEF Sizes, Working

\* No step takes a command too many, tries once too often or reports what was not taken.
LEMMA SizesStep == ASSUME Kinds, Sizes, [Next]_vars PROVE Sizes'
<1> USE DEF Sizes, Working, attempts, chain
<1>0. MaxAttempts \in Nat \ {0} /\ MaxCmds \in Nat
  BY ExecutorAssumption
<1>1. ASSUME NEW o \in {";", "&&", "||"}, NEW c \in Cmds, Take(o, c) PROVE Sizes'
  BY <1>1 DEF Take
<1>2. CASE Skip
  <2>1. Fate("skipped", 0, cur) \in Fates
    BY DEF Fate, Fates, Codes, Kinds
  <2>2. log' \in Seq(Fates) /\ Len(log') = Len(log) + 1
    BY <1>2, <2>1, AppendProperties DEF Skip
  <2> QED BY <1>0, <1>2, <2>2 DEF Skip
<1>3. CASE CdBuiltin
  <2>1. PICK rc \in {0, 1} : Done("cd", rc)
    BY <1>3 DEF CdBuiltin
  <2>2. cur' \in Dirs
    BY <1>3, KindsStep DEF Next, Program, Kinds
  <2>3. rc \in Codes
    BY DEF Codes
  <2> QED BY <1>3, <2>1, <2>2, <2>3, DoneSizes DEF CdBuiltin
<1>4. CASE SyntaxError \/ ProgramEnds \/ BuildRaises
  <2>1. PICK kind \in {"result", "syntax", "rejected", "empty", "raised"} : Reply(kind)
    BY <1>4 DEF SyntaxError, ProgramEnds, BuildRaises
  <2>2. /\ stages' \in Seq(Fates) /\ Len(stages') <= Len(log)
        /\ pc' = "done" /\ UNCHANGED <<log, tries, ran>>
    BY <2>1 DEF Reply
  <2> QED BY <2>2
<1>5. CASE Build
  BY <1>0, <1>5 DEF Build
<1>6. CASE RedirectError
  BY <1>0, <1>6 DEF RedirectError, Ends
<1>7. CASE Refused
  BY <1>0, <1>7 DEF Refused, CanSpawn, Ends
<1>8. CASE Runs
  BY <1>0, <1>8 DEF Runs, CanSpawn
<1>9. ASSUME NEW rc \in Codes, Exits(rc) PROVE Sizes'
  BY <1>9 DEF Exits, Ends
<1>10. CASE TimesOut
  BY <1>10 DEF TimesOut, Ends
<1>11. CASE Retry
  BY <1>0, <1>11 DEF Retry, Again
<1>12. CASE Record
  <2>1. Done("ran", result.rc) /\ result.rc \in Codes \cup {Timeout} /\ cur' \in Dirs
    BY <1>12 DEF Record, Kinds
  <2> QED BY <1>12, <2>1, DoneSizes DEF Record
<1>13. CASE TornDown
  BY <1>13 DEF TornDown
<1>14. CASE UNCHANGED vars
  BY <1>14 DEF vars
<1> QED
  BY <1>1, <1>2, <1>3, <1>4, <1>5, <1>6, <1>7, <1>8, <1>9, <1>10, <1>11, <1>12, <1>13,
     <1>14 DEF Next, Program, Attempt

\* Attempts and reports stay within their bounds, the variables in their sets.
THEOREM WellShaped == Spec => [](Kinds /\ Flags /\ Sizes)
<1>1. Init => Kinds /\ Flags /\ Sizes
  <2>1. 0 \in Codes /\ Plain("empty") \in Cmds /\ Home \in Dirs /\ MaxCmds \in Nat
    BY ExecutorAssumption DEF Codes, Cmds
  <2>2. Init => Kinds
    <3>1. NoResult \in [rc : Codes \cup {Timeout}, busy : BOOLEAN]
      BY <2>1 DEF NoResult, Result
    <3> QED BY <2>1, <3>1 DEF Init, Kinds
  <2>3. Init => Flags
    BY DEF Init, Flags
  <2>4. Init => Sizes
    <3>1. <<>> \in Seq(Fates) /\ Len(<<>>) = 0
      OBVIOUS
    <3>2. MaxAttempts \in Nat \ {0}
      BY ExecutorAssumption
    <3>3. Init => /\ pc = "next" /\ log = <<>> /\ stages = <<>>
                  /\ tries = 0 /\ ran = 0
      BY DEF Init
    <3>4. 0 \in 0 .. MaxAttempts /\ 0 \in 0 .. 0 /\ 0 <= MaxCmds /\ 0 <= 0
      BY <2>1, <3>2
    <3> QED BY <3>1, <3>3, <3>4 DEF Sizes, Working
  <2> QED BY <2>2, <2>3, <2>4
<1>2. Kinds /\ Flags /\ Sizes /\ [Next]_vars => Kinds' /\ Flags' /\ Sizes'
  BY KindsStep, FlagsStep, SizesStep
<1> QED BY <1>1, <1>2, PTL DEF Spec

\* Every variable of the call keeps its type (run_command and execute_andor never
\* report more commands than were taken nor try one too often).
THEOREM TypeCorrect == Spec => []TypeOK
<1>1. Kinds /\ Flags /\ Sizes => TypeOK
  BY DEF Kinds, Flags, Sizes, TypeOK
<1> QED BY <1>1, WellShaped, PTL

-------------------------------------------------------------------------------
(* The retry *)

\* An attempt that was refused is judged by what the refusal left.
RefusedInv ==
  /\ pc = "judge" /\ refused => result = Result(1, Heard)
  /\ pc = "running" => ~refused

\* What is heard depends on the command alone.
LEMMA StillHeard == ASSUME cmd' = cmd PROVE Result(1, Heard)' = Result(1, Heard)
<1>1. HostPlan' = HostPlan
  BY DEF HostPlan
<1>2. Heard' = Heard
  BY <1>1, Zenon DEF Heard
<1> QED BY <1>2, Zenon DEF Result

\* Every step keeps it.
LEMMA RefusedStep == ASSUME RefusedInv, Flags, [Next]_vars PROVE RefusedInv'
<1> USE DEF RefusedInv, attempts, chain
<1>1. CASE Refused
  <2>1. result' = Result(1, Heard) /\ cmd' = cmd /\ pc' # "running"
    BY <1>1 DEF Refused, Ends
  <2>2. Result(1, Heard)' = Result(1, Heard)
    BY <2>1, StillHeard
  <2> QED BY <2>1, <2>2, Zenon
<1>2. CASE RedirectError
  BY <1>2 DEF RedirectError
<1>3. CASE Runs
  BY <1>3 DEF Runs
<1>4. ASSUME NEW rc \in Codes, Exits(rc) PROVE RefusedInv'
  <2>1. ~refused /\ ~refused'
    BY <1>4 DEF Exits
  <2> QED BY <2>1
<1>5. CASE UNCHANGED vars \/ TornDown
  <2>1. UNCHANGED <<pc, refused, result, cmd>>
    BY <1>5 DEF vars, TornDown
  <2>2. Result(1, Heard)' = Result(1, Heard)
    BY <2>1, StillHeard
  <2> QED BY <2>1, <2>2, Zenon
<1>6. ASSUME pc' \notin {"judge", "running"} PROVE RefusedInv'
  BY <1>6
<1>7. Program => pc' \notin {"judge", "running"}
  BY DEF Program, Take, Skip, CdBuiltin, SyntaxError, ProgramEnds, BuildRaises, Build, Reply, Done
<1>8. Retry \/ Record => pc' \notin {"judge", "running"}
  BY DEF Retry, Record, Done
<1>9. CASE TimesOut
  <2>1. ~refused /\ ~refused'
    BY <1>9 DEF TimesOut
  <2> QED BY <2>1
<1> QED
  BY <1>1, <1>2, <1>3, <1>4, <1>5, <1>6, <1>7, <1>8, <1>9 DEF Next, Attempt

\* A refused mount is hidden while attempts are left, for any number of attempts.
THEOREM RefusalsHide == Spec => RefusalHidden
<1>1. Init => RefusedInv
  BY DEF Init, RefusedInv
<1>2. RefusedInv /\ Flags /\ [Next]_vars => RefusedInv'
  BY RefusedStep
<1>3. ASSUME RefusedInv, Sizes, Record, refused PROVE tries = MaxAttempts \/ ~Heard
  <2>1. result = Result(1, Heard) /\ ~Again
    BY <1>3 DEF RefusedInv, Record
  <2>2. Heard => tries >= MaxAttempts
    BY <1>3, <2>1, ExecutorAssumption DEF Again, Result, Sizes
  <2> QED BY <1>3, <2>2, ExecutorAssumption DEF Sizes
<1>4. RefusedInv /\ Sizes /\ [Next]_vars =>
        [Record /\ refused => tries = MaxAttempts \/ ~Heard]_vars
  BY <1>3
<1> QED BY <1>1, <1>2, <1>4, WellShaped, PTL DEF Spec, RefusalHidden

-------------------------------------------------------------------------------
(* The chain *)

\* The commands of a list up to k that were not skipped, the last of a set of positions,
\* and the status of a list up to k.
Taken(l, k)    == {i \in 1 .. k : l[i].how # "skipped"}
Final(S)       == CHOOSE i \in S : \A j \in S : j <= i
StatusOf(l, k) == IF Taken(l, k) = {} THEN 0 ELSE l[Final(Taken(l, k))].rc

\* Status is the status of the log.
LEMMA StatusIs ==
  /\ \A k : Status(k) = StatusOf(log, k)
  /\ \A k : Status(k)' = StatusOf(log', k)
BY DEF Status, StatusOf, Taken, Final

\* A report that is added changes no status before it, and counts unless it is of a
\* command that was skipped.
LEMMA StatusAfter ==
  ASSUME NEW l \in Seq(Fates), NEW f \in Fates, NEW m, m = Append(l, f)
  PROVE  /\ \A k \in 0 .. Len(l) : StatusOf(m, k) = StatusOf(l, k)
         /\ StatusOf(m, Len(m)) = IF f.how = "skipped" THEN StatusOf(l, Len(l)) ELSE f.rc
<1> DEFINE n == Len(l)
<1>0. n \in Nat
  BY LenProperties
<1>1. Len(m) = n + 1 /\ m[n + 1] = f /\ \A i \in 1 .. n : m[i] = l[i]
  BY AppendProperties
<1> HIDE DEF n
<1>2. ASSUME NEW k \in 0 .. n PROVE StatusOf(m, k) = StatusOf(l, k)
  <2>1. Taken(m, k) = Taken(l, k)
    BY <1>0, <1>1 DEF Taken
  <2>2. CASE Taken(l, k) = {}
    BY <2>1, <2>2 DEF StatusOf
  <2>3. CASE Taken(l, k) # {}
    <3>1. k \in Nat /\ Taken(l, k) \in SUBSET (1 .. k)
      BY <1>0 DEF Taken
    <3>2. PICK i \in Taken(l, k) : \A j \in Taken(l, k) : j <= i
      BY <2>3, <3>1, Latest
    <3>3. Final(Taken(l, k)) \in Taken(l, k)
      BY <3>2 DEF Final
    <3>4. m[Final(Taken(l, k))] = l[Final(Taken(l, k))]
      BY <1>0, <1>1, <3>1, <3>3
    <3> QED BY <2>1, <2>3, <3>4 DEF StatusOf
  <2> QED BY <2>2, <2>3
<1>3. CASE f.how = "skipped"
  <2>1. Taken(m, n + 1) = Taken(m, n)
    BY <1>0, <1>1, <1>3 DEF Taken
  <2>2. StatusOf(m, n + 1) = StatusOf(m, n)
    BY <2>1 DEF StatusOf
  <2>3. StatusOf(m, n) = StatusOf(l, n)
    BY <1>0, <1>2
  <2> QED BY <1>1, <1>2, <1>3, <2>2, <2>3 DEF n
<1>4. CASE f.how # "skipped"
  <2>1. n + 1 \in Taken(m, n + 1) /\ \A j \in Taken(m, n + 1) : j \in Nat /\ j <= n + 1
    BY <1>0, <1>1, <1>4 DEF Taken
  <2>2. Final(Taken(m, n + 1)) = n + 1
    BY <1>0, <2>1 DEF Final
  <2>3. StatusOf(m, n + 1) = f.rc
    BY <1>1, <2>1, <2>2 DEF StatusOf
  <2> QED BY <1>1, <1>2, <1>4, <2>3 DEF n
<1> QED BY <1>3, <1>4

\* The status in hand is that of the list so far, but for a chain that begins, and no
\* command at work should have been skipped.
ChainInv ==
  /\ log \in Seq(Fates)
  /\ pc = "next" \/ (pc \in Working /\ op # ";") => last = StatusOf(log, Len(log))
  /\ pc = "next" /\ log = <<>> => last = 0
  /\ pc \in Working \ {"link"} => ~Skipping
  /\ ChainAsShell

\* A shell takes the command that stands after o when the list so far has status st.
Takes(o, st) == o = ";" \/ (o = "&&" /\ st = 0) \/ (o = "||" /\ st # 0)

\* A report that the shell agrees with keeps the log as a shell would have it.
LEMMA ChainGrows ==
  ASSUME log \in Seq(Fates), ChainAsShell, NEW f \in Fates, log' = Append(log, f),
         f.how # "skipped" <=> Takes(f.op, StatusOf(log, Len(log)))
  PROVE  /\ log' \in Seq(Fates)
         /\ ChainAsShell'
         /\ StatusOf(log', Len(log')) =
              IF f.how = "skipped" THEN StatusOf(log, Len(log)) ELSE f.rc
<1>0. PICK n \in Nat : n = Len(log)
  BY LenProperties
<1>1. /\ log' \in Seq(Fates) /\ Len(log') = n + 1 /\ log'[n + 1] = f
      /\ \A i \in 1 .. n : log'[i] = log[i]
  BY <1>0, AppendProperties
<1>2. /\ \A k \in 0 .. n : StatusOf(log', k) = StatusOf(log, k)
      /\ StatusOf(log', Len(log')) =
           IF f.how = "skipped" THEN StatusOf(log, Len(log)) ELSE f.rc
  BY <1>0, StatusAfter
<1>3. ASSUME NEW k \in 1 .. n + 1
      PROVE  log'[k].how # "skipped" <=> Takes(log'[k].op, StatusOf(log', k - 1))
  <2>1. k - 1 \in 0 .. n
    BY <1>0
  <2>2. StatusOf(log', k - 1) = StatusOf(log, k - 1)
    BY <1>2, <2>1
  <2>3. CASE k = n + 1
    <3>1. log'[k] = f /\ k - 1 = n
      BY <1>0, <1>1, <2>3
    <3> QED BY <1>0, <2>2, <3>1 DEF Takes
  <2>4. CASE k \in 1 .. n
    <3>1. log[k].how # "skipped" <=> Takes(log[k].op, StatusOf(log, k - 1))
      BY <1>0, <2>4, StatusIs DEF ChainAsShell, Takes
    <3>2. log'[k] = log[k]
      BY <1>1, <2>4
    <3> QED BY <2>2, <3>1, <3>2 DEF Takes
  <2>5. k = n + 1 \/ k \in 1 .. n
    BY <1>0
  <2> QED BY <2>3, <2>4, <2>5
<1>4. ChainAsShell'
  BY <1>1, <1>3, StatusIs DEF ChainAsShell, Takes
<1> QED BY <1>1, <1>2, <1>4

\* The log stands still.
LEMMA ChainStays ==
  ASSUME log' = log
  PROVE  (ChainAsShell' <=> ChainAsShell) /\ StatusOf(log', Len(log')) = StatusOf(log, Len(log))
BY StatusIs DEF ChainAsShell

\* Every step keeps the chain as a shell would run it.
LEMMA ChainStep == ASSUME ChainInv, Kinds, Sizes, [Next]_vars PROVE ChainInv'
<1> USE DEF attempts, chain
<1>0. log \in Seq(Fates) /\ ChainAsShell
  BY DEF ChainInv
<1>1. ASSUME UNCHANGED <<log, last, op>>, pc' = pc PROVE ChainInv'
  <2>1. StatusOf(log', Len(log')) = StatusOf(log, Len(log)) /\ (ChainAsShell' <=> ChainAsShell)
    BY <1>1, ChainStays
  <2>2. Skipping' <=> Skipping
    BY <1>1 DEF Skipping
  <2> QED BY <1>1, <2>1, <2>2 DEF ChainInv
<1>2. ASSUME UNCHANGED <<log, last, op>>, pc \in Working,
             pc' = "done" \/ (pc' \in Working /\ ~Skipping)
      PROVE  ChainInv'
  <2>1. StatusOf(log', Len(log')) = StatusOf(log, Len(log)) /\ (ChainAsShell' <=> ChainAsShell)
    BY <1>2, ChainStays
  <2>2. Skipping' <=> Skipping
    BY <1>2 DEF Skipping
  <2> QED BY <1>2, <2>1, <2>2 DEF ChainInv, Working
<1>3. ASSUME NEW o \in {";", "&&", "||"}, NEW c \in Cmds, Take(o, c) PROVE ChainInv'
  <2>1. /\ pc = "next" /\ log' = log /\ op' = o /\ pc' = "link"
        /\ IF o = ";" THEN last' = 0 ELSE last' = last
    BY <1>3 DEF Take
  <2>2. StatusOf(log', Len(log')) = StatusOf(log, Len(log)) /\ (ChainAsShell' <=> ChainAsShell)
    BY <2>1, ChainStays
  <2> QED BY <2>1, <2>2 DEF ChainInv, Working
<1>4. CASE Skip
  <2> DEFINE f == Fate("skipped", 0, cur)
  <2>1. f \in Fates /\ f.how = "skipped" /\ f.op = op
    BY DEF Fate, Fates, Codes, Kinds
  <2>2. /\ log' = Append(log, f) /\ last' = last /\ pc = "link" /\ pc' = "next" /\ Skipping
    BY <1>4 DEF Skip
  <2>3. last = StatusOf(log, Len(log)) /\ ~Takes(op, last)
    BY <2>2 DEF ChainInv, Working, Skipping, Takes
  <2> HIDE DEF f
  <2>4. log' \in Seq(Fates) /\ ChainAsShell' /\ StatusOf(log', Len(log')) = StatusOf(log, Len(log))
    BY <1>0, <2>1, <2>2, <2>3, ChainGrows DEF ChainInv
  <2>5. log' # <<>>
    BY <1>0, <2>1, <2>2
  <2> QED BY <2>2, <2>3, <2>4, <2>5 DEF ChainInv, Working
<1>5. ASSUME NEW how \in {"cd", "ran"}, NEW rc \in Codes \cup {Timeout}, Done(how, rc),
             op' = op, cur' \in Dirs, pc \in Working, ~Skipping
      PROVE  ChainInv'
  <2> DEFINE f == Fate(how, rc, cur')
  <2>1. f \in Fates /\ f.how = how /\ f.rc = rc /\ f.op = op
    BY <1>5 DEF Fate, Fates, Kinds
  <2>2. log' = Append(log, f) /\ last' = rc /\ pc' = "next"
    BY <1>5 DEF Done
  <2>3. Takes(op, StatusOf(log, Len(log)))
    BY <1>5 DEF ChainInv, Skipping, Takes, Kinds
  <2> HIDE DEF f
  <2>4. log' \in Seq(Fates) /\ ChainAsShell' /\ StatusOf(log', Len(log')) = rc
    BY <1>0, <2>1, <2>2, <2>3, ChainGrows DEF ChainInv
  <2>5. log' # <<>>
    BY <1>0, <2>1, <2>2
  <2> QED BY <2>2, <2>4, <2>5 DEF ChainInv, Working
<1>6. CASE CdBuiltin
  <2>1. PICK rc \in {0, 1} : Done("cd", rc)
    BY <1>6 DEF CdBuiltin
  <2>2. cur' \in Dirs
    BY <1>6, KindsStep DEF Next, Program, Kinds
  <2> QED BY <1>5, <1>6, <2>1, <2>2 DEF CdBuiltin, Codes, Working
<1>7. CASE Record
  <2>1. Done("ran", result.rc) /\ result.rc \in Codes \cup {Timeout} /\ cur' \in Dirs
    BY <1>7 DEF Record, Kinds
  <2>2. ~Skipping
    BY <1>7 DEF Record, ChainInv, Working
  <2> QED BY <1>5, <1>7, <2>1, <2>2 DEF Record, Working
<1>8. CASE SyntaxError \/ ProgramEnds
  <2>1. /\ pc = "next" /\ pc' = "done" /\ UNCHANGED <<log, last, op>>
    BY <1>8 DEF SyntaxError, ProgramEnds, Reply
  <2>2. ChainAsShell' <=> ChainAsShell
    BY <2>1, ChainStays
  <2> QED BY <2>1, <2>2 DEF ChainInv, Working
<1>9. CASE BuildRaises
  <2>1. PICK kind \in {"empty", "raised", "rejected"} : Reply(kind)
    BY <1>9 DEF BuildRaises
  <2> QED BY <1>2, <1>9, <2>1 DEF BuildRaises, Reply, Working
<1>10. CASE Build
  BY <1>2, <1>10 DEF Build, Working
<1>11. CASE RedirectError \/ Refused \/ Runs \/ TimesOut \/ Retry \/ \E rc \in Codes : Exits(rc)
  <2>1. /\ pc \in Working \ {"link"} /\ pc' \in Working /\ UNCHANGED <<log, last, op>>
    BY <1>11 DEF RedirectError, Refused, CanSpawn, Runs, TimesOut, Retry, Exits, Ends, Working
  <2>2. ~Skipping
    BY <2>1 DEF ChainInv
  <2> QED BY <1>2, <2>1, <2>2
<1>12. CASE TornDown \/ UNCHANGED vars
  BY <1>1, <1>12 DEF TornDown, vars
<1> QED
  BY <1>3, <1>4, <1>6, <1>7, <1>8, <1>9, <1>10, <1>11, <1>12 DEF Next, Program, Attempt

\* The status in hand is right in every reachable state.
LEMMA ChainKept == Spec => []ChainInv
<1>1. Init => ChainInv
  <2>1. Init => log = <<>> /\ last = 0 /\ pc = "next"
    BY DEF Init
  <2>2. <<>> \in Seq(Fates) /\ Len(<<>>) = 0 /\ 1 .. 0 = {}
    OBVIOUS
  <2>3. Init => StatusOf(log, Len(log)) = 0
    BY <2>1, <2>2 DEF StatusOf, Taken
  <2>4. Init => ChainAsShell
    BY <2>1, <2>2 DEF ChainAsShell
  <2> QED BY <2>1, <2>2, <2>3, <2>4 DEF ChainInv, Working
<1>2. ChainInv /\ Kinds /\ Sizes /\ [Next]_vars => ChainInv'
  BY ChainStep
<1> QED BY <1>1, <1>2, WellShaped, PTL DEF Spec

\* && and || take and skip what a shell does, for programs of any length.
THEOREM ChainRight == Spec => []ChainAsShell
<1>1. ChainInv => ChainAsShell
  BY DEF ChainInv
<1> QED BY <1>1, ChainKept, PTL

-------------------------------------------------------------------------------
(* The directory *)

\* The commands of a list up to k that stand in the chain of the k-th, those among them
\* that are a cd that worked, and where these lead.
ChainOf(l, k) == {i \in 1 .. k : \A j \in i + 1 .. k : l[j].op # ";"}
Moves(l, k)   == {i \in ChainOf(l, k) : l[i].how = "cd" /\ l[i].rc = 0}
DirOf(l, k)   == IF Moves(l, k) = {} THEN Home ELSE l[Final(Moves(l, k))].dir

\* Where a report leads that stands after a list that leads to dir.
Leads(f, dir) == IF f.how = "cd" /\ f.rc = 0 THEN f.dir
                 ELSE IF f.op = ";" THEN Home ELSE dir

\* InDir is about the log.
LEMMA InDirIs ==
  /\ InDir  <=> \A k \in 1 .. Len(log) : log[k].how = "ran" => log[k].dir = DirOf(log, k)
  /\ InDir' <=> \A k \in 1 .. Len(log') : log'[k].how = "ran" => log'[k].dir = DirOf(log', k)
BY DEF InDir, DirOf, Moves, ChainOf, Final

\* A report that is added changes no chain before it, and moves on, starts anew or
\* stays.
LEMMA DirAfter ==
  ASSUME NEW l \in Seq(Fates), NEW f \in Fates, NEW m, m = Append(l, f)
  PROVE  /\ \A k \in 0 .. Len(l) : DirOf(m, k) = DirOf(l, k)
         /\ DirOf(m, Len(l) + 1) = Leads(f, DirOf(l, Len(l)))
<1> DEFINE n == Len(l)
<1>0. n \in Nat
  BY LenProperties
<1>1. Len(m) = n + 1 /\ m[n + 1] = f /\ \A i \in 1 .. n : m[i] = l[i]
  BY AppendProperties
<1> HIDE DEF n
<1>2. ASSUME NEW k \in 0 .. n
      PROVE  /\ ChainOf(l, k) \subseteq 1 .. k
             /\ \A i \in ChainOf(l, k) : m[i] = l[i]
             /\ ChainOf(m, k) = ChainOf(l, k)
             /\ Moves(m, k) = Moves(l, k)
  <2>1. ChainOf(l, k) \subseteq 1 .. k
    BY DEF ChainOf
  <2>2. 1 .. k \subseteq 1 .. n /\ \A i \in 1 .. k : i + 1 .. k \subseteq 1 .. k
    BY <1>0
  <2>3. \A i \in ChainOf(l, k) : m[i] = l[i]
    BY <1>1, <2>1, <2>2
  <2>4. \A i \in 1 .. k : \A j \in i + 1 .. k : m[j] = l[j]
    BY <1>1, <2>2
  <2>5. ChainOf(m, k) = ChainOf(l, k)
    BY <2>4 DEF ChainOf
  <2> QED BY <2>1, <2>3, <2>5 DEF Moves
<1>3. ASSUME NEW k \in 0 .. n, Moves(l, k) # {}
      PROVE  m[Final(Moves(l, k))] = l[Final(Moves(l, k))]
  <2>1. k \in Nat /\ Moves(l, k) \subseteq ChainOf(l, k) /\ ChainOf(l, k) \subseteq 1 .. k
    BY <1>0, <1>2 DEF Moves
  <2>2. PICK i \in Moves(l, k) : \A j \in Moves(l, k) : j <= i
    <3>1. Moves(l, k) \in SUBSET (1 .. k)
      BY <2>1
    <3> QED BY <1>3, <2>1, <3>1, Latest
  <2>3. Final(Moves(l, k)) \in Moves(l, k)
    BY <2>2 DEF Final
  <2> QED BY <1>2, <2>1, <2>3
<1>4. ASSUME NEW k \in 0 .. n PROVE DirOf(m, k) = DirOf(l, k)
  BY <1>2, <1>3 DEF DirOf
<1>5. n \in 0 .. n /\ 1 .. n + 1 = 1 .. n \cup {n + 1} /\ n + 1 \notin 1 .. n
  BY <1>0
<1>6. n + 1 \in ChainOf(m, n + 1)
  <2>1. n + 1 \in 1 .. n + 1 /\ (n + 1) + 1 .. n + 1 = {}
    BY <1>0
  <2> QED BY <2>1 DEF ChainOf
<1>7. ASSUME NEW i \in 1 .. n
      PROVE  i \in ChainOf(m, n + 1) <=> f.op # ";" /\ i \in ChainOf(l, n)
  <2>1. i \in 1 .. n + 1 /\ i + 1 .. n + 1 = (i + 1 .. n) \cup {n + 1}
    BY <1>0
  <2>2. i + 1 .. n \subseteq 1 .. n
    BY <1>0
  <2>3. (\A j \in i + 1 .. n + 1 : m[j].op # ";") <=>
          f.op # ";" /\ \A j \in i + 1 .. n : l[j].op # ";"
    BY <1>1, <2>1, <2>2
  <2> QED BY <2>1, <2>3 DEF ChainOf
<1>8. ChainOf(m, n + 1) \subseteq 1 .. n + 1
  BY DEF ChainOf
<1>9. CASE f.how = "cd" /\ f.rc = 0
  <2>1. n + 1 \in Moves(m, n + 1)
    BY <1>1, <1>6, <1>9 DEF Moves
  <2>2. \A j \in Moves(m, n + 1) : j \in Nat /\ j <= n + 1
    BY <1>0, <1>8 DEF Moves
  <2>3. Final(Moves(m, n + 1)) = n + 1
    BY <1>0, <2>1, <2>2 DEF Final
  <2> QED BY <1>1, <1>4, <1>9, <2>1, <2>3 DEF DirOf, Leads, n
<1>10. CASE ~(f.how = "cd" /\ f.rc = 0) /\ f.op = ";"
  <2>1. Moves(m, n + 1) = {}
    BY <1>1, <1>5, <1>7, <1>8, <1>10 DEF Moves
  <2> QED BY <1>4, <1>10, <2>1 DEF DirOf, Leads, n
<1>11. CASE ~(f.how = "cd" /\ f.rc = 0) /\ f.op # ";"
  <2>1. \A i \in 1 .. n : i \in Moves(m, n + 1) <=> i \in Moves(l, n)
    BY <1>1, <1>7, <1>11 DEF Moves
  <2>2. n + 1 \notin Moves(m, n + 1)
    BY <1>1, <1>11 DEF Moves
  <2>3. Moves(m, n + 1) \subseteq 1 .. n + 1 /\ Moves(l, n) \subseteq 1 .. n
    BY <1>2, <1>5, <1>8 DEF Moves
  <2>4. Moves(m, n + 1) = Moves(l, n)
    BY <1>5, <2>1, <2>2, <2>3
  <2>5. DirOf(m, n + 1) = DirOf(l, n)
    BY <1>3, <1>5, <2>4 DEF DirOf
  <2> QED BY <1>4, <1>11, <2>5 DEF Leads, n
<1> QED BY <1>9, <1>10, <1>11

\* The directory in hand is where the chain leads, but for a chain that begins.
DirInv ==
  /\ log \in Seq(Fates)
  /\ pc = "next" \/ (pc \in Working /\ op # ";") => cur = DirOf(log, Len(log))
  /\ pc \in Working /\ op = ";" => cur = Home
  /\ InDir

\* A report of the command at work keeps the invariant.
LEMMA DirGrows ==
  ASSUME DirInv, pc \in Working, NEW f \in Fates, log' = Append(log, f), f.op = op,
         f.dir = cur', pc' = "next",
         cur' = cur \/ (f.how = "cd" /\ f.rc = 0)
  PROVE  DirInv'
<1>0. PICK n \in Nat : n = Len(log)
  BY LenProperties DEF DirInv
<1>1. /\ log' \in Seq(Fates) /\ Len(log') = n + 1 /\ log'[n + 1] = f
      /\ \A i \in 1 .. n : log'[i] = log[i]
  <2>1. log \in Seq(Fates)
    BY DEF DirInv
  <2> QED BY <1>0, <2>1, AppendProperties
<1>2. /\ \A k \in 0 .. n : DirOf(log', k) = DirOf(log, k)
      /\ DirOf(log', n + 1) = Leads(f, DirOf(log, n))
  BY <1>0, DirAfter DEF DirInv
<1>3. Leads(f, DirOf(log, n)) = cur'
  BY <1>0 DEF Leads, DirInv
<1>4. ASSUME NEW k \in 1 .. n + 1, log'[k].how = "ran" PROVE log'[k].dir = DirOf(log', k)
  <2>1. CASE k = n + 1
    BY <1>1, <1>2, <1>3, <2>1
  <2>2. CASE k \in 1 .. n
    <3>1. log'[k] = log[k] /\ DirOf(log', k) = DirOf(log, k)
      BY <1>1, <1>2, <2>2
    <3>2. log[k].how = "ran" => log[k].dir = DirOf(log, k)
      BY <1>0, <2>2, InDirIs DEF DirInv
    <3> QED BY <1>4, <3>1, <3>2
  <2>3. k = n + 1 \/ k \in 1 .. n
    BY <1>0
  <2> QED BY <2>1, <2>2, <2>3
<1>5. InDir'
  BY <1>1, <1>4, InDirIs
<1> QED BY <1>1, <1>2, <1>3, <1>5 DEF DirInv, Working

\* Every step keeps the directory where the chain leads.
LEMMA DirStep == ASSUME DirInv, Kinds, [Next]_vars PROVE DirInv'
<1> USE DEF attempts, chain
<1>1. ASSUME UNCHANGED <<log, cur, op>>,
             pc' = pc \/ pc' = "done" \/ (pc \in Working /\ pc' \in Working)
      PROVE  DirInv'
  <2>1. InDir' <=> InDir
    BY <1>1, InDirIs
  <2> QED BY <1>1, <2>1 DEF DirInv, Working
<1>2. ASSUME NEW o \in {";", "&&", "||"}, NEW c \in Cmds, Take(o, c) PROVE DirInv'
  <2>1. /\ pc = "next" /\ log' = log /\ op' = o /\ pc' = "link"
        /\ IF o = ";" THEN cur' = Home ELSE cur' = cur
    BY <1>2 DEF Take
  <2>2. InDir' <=> InDir
    BY <2>1, InDirIs
  <2> QED BY <2>1, <2>2 DEF DirInv, Working
<1>3. CASE Skip
  <2>1. /\ log' = Append(log, Fate("skipped", 0, cur)) /\ cur' = cur
        /\ pc = "link" /\ pc' = "next"
    BY <1>3 DEF Skip
  <2>2. Fate("skipped", 0, cur) \in Fates
    BY DEF Fate, Fates, Codes, Kinds
  <2> QED BY <2>1, <2>2, DirGrows DEF Fate, Working
<1>4. ASSUME NEW how \in {"cd", "ran"}, NEW rc \in Codes \cup {Timeout}, Done(how, rc),
             cur' \in Dirs, pc \in Working, cur' = cur \/ (how = "cd" /\ rc = 0)
      PROVE  DirInv'
  <2>1. log' = Append(log, Fate(how, rc, cur')) /\ pc' = "next"
    BY <1>4 DEF Done
  <2>2. Fate(how, rc, cur') \in Fates
    BY <1>4 DEF Fate, Fates, Kinds
  <2>3. /\ Fate(how, rc, cur').how = how /\ Fate(how, rc, cur').rc = rc
        /\ Fate(how, rc, cur').op = op /\ Fate(how, rc, cur').dir = cur'
    BY DEF Fate
  <2> QED BY <1>4, <2>1, <2>2, <2>3, DirGrows
<1>5. CASE CdBuiltin
  <2>1. PICK rc \in {0, 1} : Done("cd", rc) /\ (cur' = cur \/ rc = 0)
    BY <1>5 DEF CdBuiltin
  <2>2. cur' \in Dirs
    BY <1>5, KindsStep DEF Next, Program, Kinds
  <2> QED BY <1>4, <1>5, <2>1, <2>2 DEF CdBuiltin, Codes, Working
<1>6. CASE Record
  <2>1. Done("ran", result.rc) /\ result.rc \in Codes \cup {Timeout} /\ cur' = cur /\ cur \in Dirs
    BY <1>6 DEF Record, Kinds
  <2> QED BY <1>4, <1>6, <2>1 DEF Record, Working
<1>7. CASE SyntaxError \/ ProgramEnds \/ BuildRaises
  <2>1. PICK kind \in {"result", "syntax", "rejected", "empty", "raised"} : Reply(kind)
    BY <1>7 DEF SyntaxError, ProgramEnds, BuildRaises
  <2> QED BY <1>1, <2>1 DEF Reply
<1>8. CASE Build
  BY <1>1, <1>8 DEF Build, Working
<1>9. CASE RedirectError \/ Refused \/ Runs \/ TimesOut \/ Retry \/ \E rc \in Codes : Exits(rc)
  <2>1. pc \in Working /\ pc' \in Working /\ UNCHANGED <<log, cur, op>>
    BY <1>9 DEF RedirectError, Refused, CanSpawn, Runs, TimesOut, Retry, Exits, Ends, Working
  <2> QED BY <1>1, <2>1
<1>10. CASE TornDown \/ UNCHANGED vars
  BY <1>1, <1>10 DEF TornDown, vars
<1> QED
  BY <1>2, <1>3, <1>5, <1>6, <1>7, <1>8, <1>9, <1>10 DEF Next, Program, Attempt

\* A cd moves the rest of its chain and nothing else, for programs of any length.
THEOREM StaysInDir == Spec => []InDir
<1>1. Init => DirInv
  <2>1. Init => log = <<>> /\ cur = Home /\ pc = "next"
    BY DEF Init
  <2>2. <<>> \in Seq(Fates) /\ Len(<<>>) = 0 /\ 1 .. 0 = {}
    OBVIOUS
  <2>3. Init => DirOf(log, Len(log)) = Home
    BY <2>1, <2>2 DEF DirOf, Moves, ChainOf
  <2>4. Init => InDir
    BY <2>1, <2>2, InDirIs
  <2> QED BY <2>1, <2>2, <2>3, <2>4 DEF DirInv, Working
<1>2. DirInv /\ Kinds /\ [Next]_vars => DirInv'
  BY DirStep
<1>3. DirInv => InDir
  BY DEF DirInv
<1> QED BY <1>1, <1>2, <1>3, WellShaped, PTL DEF Spec

-------------------------------------------------------------------------------
(* The reply *)

\* The number of commands of a list up to k that were taken, and whether a list of
\* results reports those of another.
RankOf(l, k)   == Cardinality(Taken(l, k))
Reported(l, s) ==
  /\ Len(s) = RankOf(l, Len(l))
  /\ \A k \in 1 .. Len(l) : l[k].how # "skipped" => s[RankOf(l, k)] = l[k]
SomeSkipped(l) == \E k \in 1 .. Len(l) : l[k].how = "skipped"

\* ReplyTrue is about the log.
LEMMA ReplyIs ==
  ReplyTrue <=> (reply = "result" => /\ Reported(log, stages)
                                     /\ last = StatusOf(log, Len(log))
                                     /\ skipped <=> SomeSkipped(log))
<1>1. \A k : Rank(k) = RankOf(log, k)
  BY DEF Rank, RankOf, Taken
<1> QED BY <1>1, StatusIs DEF ReplyTrue, Reported, SomeSkipped

\* The rank of a command that was taken is a place among those that were.
LEMMA RankIn ==
  ASSUME NEW l \in Seq(Fates), NEW n \in Nat
  PROVE  /\ RankOf(l, n) \in Nat
         /\ \A k \in 1 .. n : l[k].how # "skipped" => RankOf(l, k) \in 1 .. RankOf(l, n)
<1>1. \A k \in Nat : IsFiniteSet(Taken(l, k)) /\ RankOf(l, k) \in Nat
  <2>1. ASSUME NEW k \in Nat PROVE IsFiniteSet(Taken(l, k)) /\ RankOf(l, k) \in Nat
    <3>1. IsFiniteSet(1 .. k) /\ Taken(l, k) \subseteq 1 .. k
      BY FS_Interval DEF Taken
    <3> QED BY <3>1, FS_Subset, FS_CardinalityType DEF RankOf
  <2> QED BY <2>1
<1>2. ASSUME NEW k \in 1 .. n, l[k].how # "skipped" PROVE RankOf(l, k) \in 1 .. RankOf(l, n)
  <2>1. k \in Nat /\ k \in Taken(l, k) /\ Taken(l, k) \subseteq Taken(l, n)
    BY <1>2 DEF Taken
  <2>2. RankOf(l, k) <= RankOf(l, n)
    BY <1>1, <2>1, FS_Subset DEF RankOf
  <2>3. RankOf(l, k) # 0
    BY <1>1, <2>1, FS_EmptySet DEF RankOf
  <2> QED BY <1>1, <2>1, <2>2, <2>3
<1> QED BY <1>1, <1>2

\* A command that is added comes last among those that were taken, or changes no rank.
LEMMA RankAfter ==
  ASSUME NEW l \in Seq(Fates), NEW f \in Fates, NEW m, m = Append(l, f)
  PROVE  /\ \A k \in 0 .. Len(l) : RankOf(m, k) = RankOf(l, k)
         /\ RankOf(m, Len(m)) =
              RankOf(l, Len(l)) + IF f.how = "skipped" THEN 0 ELSE 1
<1> DEFINE n == Len(l)
<1>0. n \in Nat
  BY LenProperties
<1>1. Len(m) = n + 1 /\ m[n + 1] = f /\ \A i \in 1 .. n : m[i] = l[i]
  BY AppendProperties
<1> HIDE DEF n
<1>2. \A k \in 0 .. n : Taken(m, k) = Taken(l, k)
  BY <1>0, <1>1 DEF Taken
<1>3. /\ IsFiniteSet(Taken(l, n)) /\ n + 1 \notin Taken(l, n)
      /\ Cardinality(Taken(l, n)) \in Nat
  <2>1. IsFiniteSet(1 .. n) /\ Taken(l, n) \subseteq 1 .. n
    BY <1>0, FS_Interval DEF Taken
  <2> QED BY <1>0, <2>1, FS_Subset, FS_CardinalityType
<1>4. Taken(m, n + 1) = IF f.how = "skipped" THEN Taken(l, n) ELSE Taken(l, n) \cup {n + 1}
  BY <1>0, <1>1 DEF Taken
<1>5. Cardinality(Taken(l, n) \cup {n + 1}) = Cardinality(Taken(l, n)) + 1
  BY <1>3, FS_AddElement
<1>6. RankOf(m, n + 1) = RankOf(l, n) + IF f.how = "skipped" THEN 0 ELSE 1
  BY <1>3, <1>4, <1>5 DEF RankOf
<1> QED BY <1>1, <1>2, <1>6 DEF n, RankOf

\* A command that is skipped adds no result, any other adds its own.
LEMMA ReportGrows ==
  ASSUME NEW l \in Seq(Fates), NEW s \in Seq(Fates), NEW f \in Fates, Reported(l, s),
         NEW r, r = IF f.how = "skipped" THEN s ELSE Append(s, f)
  PROVE  /\ Reported(Append(l, f), r)
         /\ SomeSkipped(Append(l, f)) <=> SomeSkipped(l) \/ f.how = "skipped"
<1> DEFINE n == Len(l)
           c == Len(s)
           m == Append(l, f)
<1>0. n \in Nat /\ c \in Nat
  BY LenProperties
<1>1. Len(m) = n + 1 /\ m[n + 1] = f /\ \A i \in 1 .. n : m[i] = l[i]
  BY AppendProperties
<1>2. /\ Len(r) = c + IF f.how = "skipped" THEN 0 ELSE 1
      /\ f.how # "skipped" => r[c + 1] = f
      /\ \A i \in 1 .. c : r[i] = s[i]
  <2>1. /\ Len(Append(s, f)) = c + 1 /\ Append(s, f)[c + 1] = f
        /\ \A i \in 1 .. c : Append(s, f)[i] = s[i]
    BY AppendProperties
  <2> QED BY <1>0, <2>1
<1>3. /\ \A k \in 0 .. n : RankOf(m, k) = RankOf(l, k)
      /\ RankOf(m, n + 1) = RankOf(l, n) + IF f.how = "skipped" THEN 0 ELSE 1
  <2>1. m = Append(l, f)
    OBVIOUS
  <2> HIDE DEF m
  <2>2. /\ \A k \in 0 .. Len(l) : RankOf(m, k) = RankOf(l, k)
        /\ RankOf(m, Len(m)) = RankOf(l, Len(l)) + IF f.how = "skipped" THEN 0 ELSE 1
    BY <2>1, RankAfter
  <2> QED BY <1>1, <2>2
<1>4. c = RankOf(l, n) /\ \A k \in 1 .. n : l[k].how # "skipped" => s[RankOf(l, k)] = l[k]
  BY DEF Reported
<1>5. \A k \in 1 .. n : l[k].how # "skipped" => RankOf(l, k) \in 1 .. c
  BY <1>0, <1>4, RankIn
<1> HIDE DEF n, c, m
<1>6. ASSUME NEW k \in 1 .. n + 1, m[k].how # "skipped" PROVE r[RankOf(m, k)] = m[k]
  <2>1. CASE k = n + 1
    BY <1>1, <1>2, <1>3, <1>4, <1>6, <2>1
  <2>2. CASE k \in 1 .. n
    <3>1. m[k] = l[k] /\ RankOf(m, k) = RankOf(l, k)
      BY <1>0, <1>1, <1>3, <2>2
    <3>2. RankOf(l, k) \in 1 .. c /\ s[RankOf(l, k)] = l[k]
      BY <1>4, <1>5, <1>6, <2>2, <3>1
    <3> QED BY <1>2, <3>1, <3>2
  <2>3. k = n + 1 \/ k \in 1 .. n
    BY <1>0
  <2> QED BY <2>1, <2>2, <2>3
<1>7. Reported(m, r)
  BY <1>1, <1>2, <1>3, <1>4, <1>6 DEF Reported
<1>8. SomeSkipped(m) <=> SomeSkipped(l) \/ f.how = "skipped"
  <2>1. 1 .. n + 1 = 1 .. n \cup {n + 1}
    BY <1>0
  <2>2. SomeSkipped(m) <=> \E k \in 1 .. n + 1 : m[k].how = "skipped"
    BY <1>1 DEF SomeSkipped
  <2>3. SomeSkipped(l) <=> \E k \in 1 .. n : l[k].how = "skipped"
    BY DEF SomeSkipped, n
  <2> QED BY <1>1, <2>1, <2>2, <2>3
<1> QED BY <1>7, <1>8 DEF m

\* The results so far are those of the commands that were taken; a reply that is a
\* result leaves them alone.
ReplyInv ==
  /\ log \in Seq(Fates) /\ stages \in Seq(Fates)
  /\ pc # "done" => reply = "none"
  /\ pc # "done" \/ reply = "result" => /\ Reported(log, stages)
                                        /\ skipped <=> SomeSkipped(log)
  /\ reply = "result" => last = StatusOf(log, Len(log))

\* Every step keeps it.
LEMMA ReplyStep == ASSUME ReplyInv, ChainInv, Kinds, Sizes, [Next]_vars PROVE ReplyInv'
<1> USE DEF attempts, chain
<1>1. ASSUME UNCHANGED <<log, stages, skipped, last, reply>>,
             pc' = pc \/ "done" \notin {pc, pc'}
      PROVE  ReplyInv'
  BY <1>1 DEF ReplyInv
<1>2. ASSUME NEW o \in {";", "&&", "||"}, NEW c \in Cmds, Take(o, c) PROVE ReplyInv'
  <2>1. /\ pc = "next" /\ pc' = "link" /\ UNCHANGED <<log, stages, skipped, reply>>
    BY <1>2 DEF Take
  <2> QED BY <2>1 DEF ReplyInv
<1>3. CASE Skip
  <2> DEFINE f == Fate("skipped", 0, cur)
  <2>1. /\ pc = "link" /\ pc' = "next" /\ log' = Append(log, f) /\ stages' = stages
        /\ skipped' = TRUE /\ reply' = reply
    BY <1>3 DEF Skip
  <2>2. f \in Fates /\ f.how = "skipped"
    BY DEF Fate, Fates, Codes, Kinds
  <2> HIDE DEF f
  <2>3. Reported(log', stages') /\ SomeSkipped(log')
    BY <2>1, <2>2, ReportGrows DEF ReplyInv
  <2>4. log' \in Seq(Fates)
    BY <2>1, <2>2, AppendProperties DEF ReplyInv
  <2> QED BY <2>1, <2>3, <2>4 DEF ReplyInv
<1>4. ASSUME NEW how \in {"cd", "ran"}, NEW rc \in Codes \cup {Timeout}, Done(how, rc),
             cur' \in Dirs, pc \in Working, UNCHANGED <<skipped, reply>>
      PROVE  ReplyInv'
  <2> DEFINE f == Fate(how, rc, cur')
  <2>1. log' = Append(log, f) /\ stages' = Append(stages, f) /\ pc' = "next"
    BY <1>4 DEF Done
  <2>2. f \in Fates /\ f.how # "skipped"
    BY <1>4 DEF Fate, Fates, Kinds
  <2> HIDE DEF f
  <2>3. pc # "done"
    BY <1>4 DEF Working
  <2>4. Reported(log', stages') /\ (SomeSkipped(log') <=> SomeSkipped(log))
    BY <2>1, <2>2, <2>3, ReportGrows DEF ReplyInv
  <2>5. log' \in Seq(Fates) /\ stages' \in Seq(Fates)
    BY <2>1, <2>2, AppendProperties DEF ReplyInv
  <2> QED BY <1>4, <2>1, <2>3, <2>4, <2>5 DEF ReplyInv
<1>5. CASE CdBuiltin
  <2>1. PICK rc \in {0, 1} : Done("cd", rc)
    BY <1>5 DEF CdBuiltin
  <2>2. cur' \in Dirs
    BY <1>5, KindsStep DEF Next, Program, Kinds
  <2> QED BY <1>4, <1>5, <2>1, <2>2 DEF CdBuiltin, Codes, Working
<1>6. CASE Record
  <2>1. Done("ran", result.rc) /\ result.rc \in Codes \cup {Timeout} /\ cur' \in Dirs
    BY <1>6 DEF Record, Kinds
  <2> QED BY <1>4, <1>6, <2>1 DEF Record, Working
<1>7. CASE ProgramEnds
  <2>1. /\ pc = "next" /\ pc' = "done" /\ reply' = "result"
        /\ UNCHANGED <<log, stages, skipped, last>>
    BY <1>7 DEF ProgramEnds, Reply
  <2> QED BY <2>1 DEF ReplyInv, ChainInv
<1>8. CASE SyntaxError \/ BuildRaises
  <2>1. PICK kind \in {"syntax", "rejected", "empty", "raised"} : Reply(kind)
    BY <1>8 DEF SyntaxError, BuildRaises
  <2>2. stages' = <<>> /\ log' = log /\ reply' = kind /\ pc' = "done"
    BY <2>1 DEF Reply
  <2>3. <<>> \in Seq(Fates)
    OBVIOUS
  <2> QED BY <2>2, <2>3 DEF ReplyInv
<1>9. CASE Build
  BY <1>1, <1>9 DEF Build
<1>10. CASE RedirectError \/ Refused \/ Runs \/ TimesOut \/ Retry \/ \E rc \in Codes : Exits(rc)
  <2>1. /\ pc # "done" /\ pc' # "done" /\ UNCHANGED <<log, stages, skipped, last, reply>>
    BY <1>10 DEF RedirectError, Refused, CanSpawn, Runs, TimesOut, Retry, Exits, Ends
  <2> QED BY <1>1, <2>1
<1>11. CASE TornDown \/ UNCHANGED vars
  BY <1>1, <1>11 DEF TornDown, vars
<1> QED
  BY <1>2, <1>3, <1>5, <1>6, <1>7, <1>8, <1>9, <1>10, <1>11 DEF Next, Program, Attempt

\* A reply that is a result reports exactly the commands that were taken, in order,
\* for programs of any length.
THEOREM RepliesAreTrue == Spec => []ReplyTrue
<1>1. Init => ReplyInv
  <2>1. Init => /\ log = <<>> /\ stages = <<>> /\ skipped = FALSE /\ reply = "none"
    BY DEF Init
  <2>2. <<>> \in Seq(Fates) /\ Len(<<>>) = 0 /\ 1 .. 0 = {}
    OBVIOUS
  <2>3. RankOf(<<>>, 0) = 0
    BY <2>2, FS_EmptySet DEF RankOf, Taken
  <2>4. Reported(<<>>, <<>>) /\ ~SomeSkipped(<<>>)
    BY <2>2, <2>3 DEF Reported, SomeSkipped
  <2> QED BY <2>1, <2>2, <2>4 DEF ReplyInv
<1>2. ReplyInv /\ ChainInv /\ Kinds /\ Sizes /\ [Next]_vars => ReplyInv'
  BY ReplyStep
<1>3. ReplyInv => ReplyTrue
  BY ReplyIs DEF ReplyInv
<1> QED BY <1>1, <1>2, <1>3, WellShaped, ChainKept, PTL DEF Spec

-------------------------------------------------------------------------------
(* The streams *)

\* Where the streams point after each of the redirects.
Pointed(specs, h) ==
  /\ h[0] = [fd \in 0 .. 2 |-> Pipe]
  /\ \A n \in 1 .. Len(specs) : h[n] = Dup(h[n - 1], specs[n], FdOf(specs[n]))

\* Up to three redirects leave the streams where the last of them does.
LEMMA ShellPoints ==
  ASSUME NEW specs \in Seq(Specs), Len(specs) <= 3
  PROVE  \E h : Pointed(specs, h) /\ InShell(specs) = h[Len(specs)]
<1> DEFINE L  == Len(specs)
           p0 == [fd \in 0 .. 2 |-> Pipe]
           p1 == Dup(p0, specs[1], FdOf(specs[1]))
           p2 == Dup(p1, specs[2], FdOf(specs[2]))
           p3 == Dup(p2, specs[3], FdOf(specs[3]))
           g  == [n \in 0 .. L |-> IF n = 0 THEN p0 ELSE IF n = 1 THEN p1
                                   ELSE IF n = 2 THEN p2 ELSE p3]
           Body(f) == [n \in 0 .. L |->
                         IF n = 0 THEN p0 ELSE Dup(f[n - 1], specs[n], FdOf(specs[n]))]
           after == CHOOSE f : f = Body(f)
<1>0. L \in 0 .. 3
  <2>1. PICK n \in Nat : n = Len(specs)
    BY LenProperties
  <2>2. n \in 0 .. 3
    BY <2>1
  <2> QED BY <2>1, <2>2
<1>1. InShell(specs) = after[L]
  BY DEF InShell
<1> HIDE DEF L
<1>2. ASSUME NEW n \in 0 .. L PROVE g[n] = Body(g)[n]
  <2>1. CASE n = 0
    BY <2>1
  <2>2. CASE n = 1
    <3>1. g[1] = p1 /\ g[0] = p0
      BY <1>0, <2>2
    <3> HIDE DEF p0, p1, g
    <3>2. Body(g)[1] = Dup(g[0], specs[1], FdOf(specs[1]))
      BY <2>2
    <3> QED BY <2>2, <3>1, <3>2 DEF p1
  <2>3. CASE n = 2
    <3>1. g[2] = p2 /\ g[1] = p1
      BY <1>0, <2>3
    <3> HIDE DEF p0, p1, p2, g
    <3>2. Body(g)[2] = Dup(g[1], specs[2], FdOf(specs[2]))
      BY <2>3
    <3> QED BY <2>3, <3>1, <3>2 DEF p2
  <2>4. CASE n = 3
    <3>1. g[3] = p3 /\ g[2] = p2
      BY <1>0, <2>4
    <3> HIDE DEF p0, p1, p2, p3, g
    <3>2. Body(g)[3] = Dup(g[2], specs[3], FdOf(specs[3]))
      BY <2>4
    <3> QED BY <2>4, <3>1, <3>2 DEF p3
  <2> QED BY <1>0, <2>1, <2>2, <2>3, <2>4
<1>3. g = Body(g)
  <2> HIDE DEF p0, p1, p2, p3
  <2>1. DOMAIN g = 0 .. L /\ DOMAIN Body(g) = 0 .. L
    OBVIOUS
  <2>2. g = [n \in 0 .. L |-> g[n]] /\ Body(g) = [n \in 0 .. L |-> Body(g)[n]]
    OBVIOUS
  <2> HIDE DEF g, Body
  <2> QED BY <1>2, <2>2
<1>4. after = Body(after)
  <2> HIDE DEF Body, g
  <2> QED BY <1>3
<1> HIDE DEF after, p1, p2, p3, g
<1>5. after[0] = p0 /\ \A n \in 1 .. L : after[n] = Dup(after[n - 1], specs[n], FdOf(specs[n]))
  <2>1. \A n \in 0 .. L : after[n] = Body(after)[n]
    BY <1>4
  <2> HIDE DEF p0
  <2> QED BY <1>0, <2>1
<1> QED BY <1>1, <1>5 DEF Pointed, L

\* A redirect changes its own fd only: to the file that it names, or to where the fd
\* that it merges with points.
LEMMA DupIs ==
  ASSUME NEW s \in Specs, NEW fds, DOMAIN fds = 0 .. 2
  PROVE  /\ DOMAIN Dup(fds, s, FdOf(s)) = 0 .. 2
         /\ FdOf(s) \in 0 .. 2
         /\ \A fd \in 0 .. 2 \ {FdOf(s)} : Dup(fds, s, FdOf(s))[fd] = fds[fd]
         /\ IsFile(s) => Dup(fds, s, FdOf(s))[FdOf(s)] = s.to
         /\ ~IsFile(s) => /\ FdOf(s) \in {1, 2}
                          /\ Dup(fds, s, FdOf(s))[FdOf(s)] = fds[3 - FdOf(s)]
BY DEF Specs, Redirect, FileOps, MergeOps, FdOf, Dup, IsFile

\* No two redirects of a command are for one fd, so there are three at most.
LEMMA FewRedirects ==
  ASSUME NEW specs \in Seq(Specs), ~Malformed(specs)
  PROVE  /\ Len(specs) \in 0 .. 3
         /\ \A i \in 1 .. Len(specs) : specs[i] \in Specs /\ FdOf(specs[i]) \in 0 .. 2
         /\ \A i, j \in 1 .. Len(specs) : FdOf(specs[i]) = FdOf(specs[j]) => i = j
<1>1. Len(specs) \in Nat /\ \A i \in 1 .. Len(specs) : specs[i] \in Specs
  BY LenProperties, ElementOfSeq
<1>2. \A i \in 1 .. Len(specs) : FdOf(specs[i]) \in 0 .. 2
  BY <1>1 DEF Specs, Redirect, FileOps, MergeOps, FdOf
<1>3. \A i, j \in 1 .. Len(specs) : FdOf(specs[i]) = FdOf(specs[j]) => i = j
  BY DEF Malformed
<1>4. Len(specs) <= 3
  <2> SUFFICES ASSUME Len(specs) > 3 PROVE FALSE
    BY <1>1
  <2> DEFINE F(i) == FdOf(specs[i])
  <2>1. /\ 1 \in 1 .. Len(specs) /\ 2 \in 1 .. Len(specs)
        /\ 3 \in 1 .. Len(specs) /\ 4 \in 1 .. Len(specs)
    BY <1>1
  <2>2. F(1) \in 0 .. 2 /\ F(2) \in 0 .. 2 /\ F(3) \in 0 .. 2 /\ F(4) \in 0 .. 2
    BY <1>2, <2>1
  <2>3. /\ F(1) # F(2) /\ F(1) # F(3) /\ F(1) # F(4) /\ F(2) # F(3) /\ F(2) # F(4)
        /\ F(3) # F(4)
    BY <1>3, <2>1
  <2> HIDE DEF F
  <2> QED BY <2>2, <2>3
<1>5. PICK n \in Nat : n = Len(specs)
  BY <1>1
<1>6. n \in 0 .. 3
  BY <1>4, <1>5
<1> QED BY <1>1, <1>2, <1>3, <1>5, <1>6

\* Where fd points after n redirects: to the pipe until its redirect, and from there on
\* where that one sent it.
Stays(specs, h, n) ==
  /\ DOMAIN h[n] = 0 .. 2
  /\ \A fd \in 0 .. 2 :
       /\ (\A j \in 1 .. n : FdOf(specs[j]) # fd) => h[n][fd] = Pipe
       /\ \A i \in 1 .. n : FdOf(specs[i]) = fd => h[n][fd] = h[i][fd]

LEMMA PointsStay ==
  ASSUME NEW specs \in Seq(Specs), ~Malformed(specs), NEW h, Pointed(specs, h)
  PROVE  \A n \in 0 .. Len(specs) : Stays(specs, h, n)
<1> DEFINE L == Len(specs)
<1>0. /\ L \in 0 .. 3
      /\ \A i \in 1 .. L : specs[i] \in Specs /\ FdOf(specs[i]) \in 0 .. 2
      /\ \A i, j \in 1 .. L : FdOf(specs[i]) = FdOf(specs[j]) => i = j
  BY FewRedirects
<1>1. Stays(specs, h, 0)
  BY DEF Pointed, Stays
<1>2. \A n \in 1 .. L : h[n] = Dup(h[n - 1], specs[n], FdOf(specs[n]))
  BY DEF Pointed
<1> HIDE DEF L
<1>3. ASSUME NEW m \in 0 .. L, m + 1 \in 1 .. L, Stays(specs, h, m)
      PROVE  Stays(specs, h, m + 1)
  <2> DEFINE n == m + 1
             s == specs[n]
             f == FdOf(s)
  <2>1. s \in Specs /\ f \in 0 .. 2 /\ h[n] = Dup(h[m], s, f)
    <3>1. n - 1 = m
      BY <1>0
    <3> QED BY <1>0, <1>2, <1>3, <3>1
  <2>2. /\ DOMAIN h[n] = 0 .. 2 /\ \A fd \in 0 .. 2 \ {f} : h[n][fd] = h[m][fd]
    <3>1. DOMAIN h[m] = 0 .. 2
      BY <1>3 DEF Stays
    <3>2. /\ DOMAIN Dup(h[m], s, FdOf(s)) = 0 .. 2
          /\ \A fd \in 0 .. 2 \ {FdOf(s)} : Dup(h[m], s, FdOf(s))[fd] = h[m][fd]
      <4> HIDE DEF s
      <4> QED BY <2>1, <3>1, DupIs
    <3> HIDE DEF n, s
    <3> QED BY <2>1, <3>2
  <2>3. 1 .. n = 1 .. m \cup {n}
    BY <1>0
  <2>4. ASSUME NEW fd \in 0 .. 2, \A j \in 1 .. n : FdOf(specs[j]) # fd PROVE h[n][fd] = Pipe
    <3>1. fd # f /\ \A j \in 1 .. m : FdOf(specs[j]) # fd
      BY <2>3, <2>4
    <3>2. h[m][fd] = Pipe
      BY <1>3, <3>1 DEF Stays
    <3> QED BY <2>2, <3>1, <3>2
  <2>5. ASSUME NEW fd \in 0 .. 2, NEW i \in 1 .. n, FdOf(specs[i]) = fd
        PROVE  h[n][fd] = h[i][fd]
    <3>1. CASE i = n
      BY <3>1
    <3>2. CASE i \in 1 .. m
      <4>1. i # n /\ i \in 1 .. L /\ n \in 1 .. L
        BY <1>0, <1>3, <3>2
      <4>2. fd # f
        BY <1>0, <2>5, <4>1
      <4>3. h[m][fd] = h[i][fd]
        BY <1>3, <2>5, <3>2 DEF Stays
      <4> QED BY <2>2, <4>2, <4>3
    <3> QED BY <2>3, <3>1, <3>2
  <2> QED BY <2>2, <2>4, <2>5 DEF Stays
<1>4. L >= 1 => Stays(specs, h, 1)
  <2>1. L >= 1 => 0 \in 0 .. L /\ 0 + 1 \in 1 .. L /\ 0 + 1 = 1
    BY <1>0
  <2> QED BY <1>1, <1>3, <2>1
<1>5. L >= 2 => Stays(specs, h, 2)
  <2>1. L >= 2 => L >= 1 /\ 1 \in 0 .. L /\ 1 + 1 \in 1 .. L /\ 1 + 1 = 2
    BY <1>0
  <2> QED BY <1>3, <1>4, <2>1
<1>6. L >= 3 => Stays(specs, h, 3)
  <2>1. L >= 3 => L >= 2 /\ 2 \in 0 .. L /\ 2 + 1 \in 1 .. L /\ 2 + 1 = 3
    BY <1>0
  <2> QED BY <1>3, <1>5, <2>1
<1>7. \A n \in 0 .. L : n = 0 \/ (n = 1 /\ L >= 1) \/ (n = 2 /\ L >= 2) \/ (n = 3 /\ L >= 3)
  BY <1>0
<1> QED BY <1>1, <1>4, <1>5, <1>6, <1>7 DEF L

\* What the plan has for an fd.
LEMMA PlanIs ==
  ASSUME NEW specs \in Seq(Specs), ~Malformed(specs), NEW fd \in 0 .. 2
  PROVE  /\ (\A i \in 1 .. Len(specs) : FdOf(specs[i]) # fd) =>
              On(specs, fd) = {} /\ FileOn(Plan(specs), fd) = {}
         /\ \A i \in 1 .. Len(specs) : FdOf(specs[i]) = fd =>
              /\ On(specs, fd) = {specs[i]}
              /\ FileOn(Plan(specs), fd) = IF IsFile(specs[i]) THEN {specs[i].to} ELSE {}
<1>1. Plan(specs)[fd] = On(specs, fd)
  BY DEF Plan
<1>2. ASSUME \A i \in 1 .. Len(specs) : FdOf(specs[i]) # fd PROVE On(specs, fd) = {}
  BY <1>2 DEF On
<1>3. ASSUME NEW i \in 1 .. Len(specs), FdOf(specs[i]) = fd
      PROVE  /\ On(specs, fd) = {specs[i]}
             /\ FileOn(Plan(specs), fd) = IF IsFile(specs[i]) THEN {specs[i].to} ELSE {}
  <2>1. On(specs, fd) = {specs[i]}
    BY <1>3, FewRedirects DEF On
  <2> QED BY <1>1, <2>1 DEF FileOn
<1> QED BY <1>1, <1>2, <1>3 DEF FileOn

\* The merges of a plan are those of the command.
LEMMA MergesAre ==
  ASSUME NEW specs \in Seq(Specs), ~Malformed(specs), NEW o \in MergeOps
  PROVE  Merges(Plan(specs), o) <=> \E i \in 1 .. Len(specs) : specs[i].op = o
<1>1. \A i \in 1 .. Len(specs) : specs[i].op = o => FdOf(specs[i]) \in {1, 2}
  BY DEF MergeOps, FdOf
<1>2. \A fd \in 1 .. 2 : Plan(specs)[fd] =
                          {specs[i] : i \in {j \in 1 .. Len(specs) : FdOf(specs[j]) = fd}}
  BY DEF Plan, On
<1> QED BY <1>1, <1>2 DEF Merges

\* Has fd no redirect, one to a file t, or a merge?
None(specs, fd)    == \A i \in 1 .. Len(specs) : FdOf(specs[i]) # fd
ToFile(specs, fd, t) ==
  \E i \in 1 .. Len(specs) : FdOf(specs[i]) = fd /\ IsFile(specs[i]) /\ specs[i].to = t
Merged(specs, fd)  == \E i \in 1 .. Len(specs) : FdOf(specs[i]) = fd /\ ~IsFile(specs[i])

\* In a shell, with the merges last, a stream goes to its file, or to that of the other
\* stream if it is merged, and otherwise to the pipe.
LEMMA ShellEnds ==
  ASSUME NEW specs \in Seq(Specs), ~Malformed(specs), MergesLast(specs),
         NEW h, Pointed(specs, h), NEW fd \in {1, 2}, NEW o \in {1, 2} \ {fd}
  PROVE  LET end == h[Len(specs)][fd]
         IN  /\ None(specs, fd) => end = Pipe
             /\ \A t : ToFile(specs, fd, t) => end = t
             /\ Merged(specs, fd) =>
                  /\ None(specs, o) \/ Merged(specs, o) => end = Pipe
                  /\ \A t : ToFile(specs, o, t) => end = t
<1>0. PICK n \in 0 .. 3 : n = Len(specs)
  BY FewRedirects
<1>1. /\ \A i \in 1 .. n : specs[i] \in Specs /\ FdOf(specs[i]) \in 0 .. 2
      /\ \A i, j \in 1 .. n : FdOf(specs[i]) = FdOf(specs[j]) => i = j
  BY <1>0, FewRedirects
<1>2. \A k \in 0 .. n :
        /\ DOMAIN h[k] = 0 .. 2
        /\ \A g \in 0 .. 2 : /\ (\A j \in 1 .. k : FdOf(specs[j]) # g) => h[k][g] = Pipe
                             /\ \A j \in 1 .. k : FdOf(specs[j]) = g => h[k][g] = h[j][g]
  <2>1. \A k \in 0 .. Len(specs) : Stays(specs, h, k)
    BY PointsStay
  <2>2. \A k \in 0 .. n : Stays(specs, h, k)
    BY <1>0, <2>1
  <2> QED BY <2>2 DEF Stays
<1>3. ASSUME NEW i \in 1 .. n, NEW g \in {1, 2}, FdOf(specs[i]) = g
      PROVE  /\ i - 1 \in 0 .. n
             /\ IsFile(specs[i]) => h[i][g] = specs[i].to
             /\ ~IsFile(specs[i]) => h[i][g] = h[i - 1][3 - g]
  <2>1. i - 1 \in 0 .. n
    BY <1>0
  <2>2. h[i] = Dup(h[i - 1], specs[i], FdOf(specs[i]))
    BY <1>0 DEF Pointed
  <2> DEFINE s   == specs[i]
             fds == h[i - 1]
  <2>3. s \in Specs /\ DOMAIN fds = 0 .. 2
    BY <1>1, <1>2, <2>1
  <2>4. /\ IsFile(s) => Dup(fds, s, FdOf(s))[FdOf(s)] = s.to
        /\ ~IsFile(s) => Dup(fds, s, FdOf(s))[FdOf(s)] = fds[3 - FdOf(s)]
    <3> HIDE DEF s, fds
    <3> QED BY <2>3, DupIs
  <2> QED BY <1>3, <2>1, <2>2, <2>4
<1>4. o = 3 - fd /\ fd = 3 - o /\ fd \in 0 .. 2 /\ o \in 0 .. 2
  OBVIOUS
<1>5. ASSUME None(specs, fd) PROVE h[n][fd] = Pipe
  <2>1. \A j \in 1 .. n : FdOf(specs[j]) # fd
    BY <1>0, <1>5 DEF None
  <2>2. n \in 0 .. n
    BY <1>0
  <2> QED BY <1>2, <1>4, <2>1, <2>2
<1>6. ASSUME NEW t, ToFile(specs, fd, t) PROVE h[n][fd] = t
  <2>1. PICK i \in 1 .. n : FdOf(specs[i]) = fd /\ IsFile(specs[i]) /\ specs[i].to = t
    BY <1>0, <1>6 DEF ToFile
  <2>2. n \in 0 .. n
    BY <1>0
  <2>3. h[n][fd] = h[i][fd]
    BY <1>2, <1>4, <2>1, <2>2
  <2> QED BY <1>3, <2>1, <2>3
<1>7. ASSUME Merged(specs, fd)
      PROVE  /\ None(specs, o) \/ Merged(specs, o) => h[n][fd] = Pipe
             /\ \A t : ToFile(specs, o, t) => h[n][fd] = t
  <2>1. PICK i \in 1 .. n : FdOf(specs[i]) = fd /\ ~IsFile(specs[i])
    BY <1>0, <1>7 DEF Merged
  <2>2. n \in 0 .. n
    BY <1>0
  <2>3. h[n][fd] = h[i][fd]
    BY <1>2, <1>4, <2>1, <2>2
  <2>4. i - 1 \in 0 .. n /\ h[n][fd] = h[i - 1][o]
    BY <1>3, <1>4, <2>1, <2>3
  <2>5. 1 .. i - 1 \subseteq 1 .. n
    BY <1>0
  <2>6. CASE None(specs, o)
    <3>1. \A j \in 1 .. i - 1 : FdOf(specs[j]) # o
      BY <1>0, <2>5, <2>6 DEF None
    <3>2. ~Merged(specs, o) /\ \A t : ~ToFile(specs, o, t)
      BY <2>6 DEF None, Merged, ToFile
    <3> QED BY <1>2, <1>4, <2>4, <3>1, <3>2
  <2>7. ASSUME NEW t, ToFile(specs, o, t) PROVE h[n][fd] = t
    <3>1. PICK j \in 1 .. n : FdOf(specs[j]) = o /\ IsFile(specs[j]) /\ specs[j].to = t
      BY <1>0, <2>7 DEF ToFile
    <3>2. i # j /\ ~(i < j)
      BY <1>0, <2>1, <3>1 DEF MergesLast
    <3>3. j \in 1 .. i - 1
      BY <1>0, <3>2
    <3>4. h[i - 1][o] = h[j][o]
      BY <1>2, <1>4, <2>4, <3>1, <3>3
    <3> QED BY <1>3, <2>4, <3>1, <3>4
  <2>8. ASSUME Merged(specs, o) PROVE h[n][fd] = Pipe
    <3>1. PICK j \in 1 .. n : FdOf(specs[j]) = o /\ ~IsFile(specs[j])
      BY <1>0, <2>8 DEF Merged
    <3>2. i # j
      BY <2>1, <3>1
    <3>3. CASE i < j
      <4>1. \A k \in 1 .. i - 1 : FdOf(specs[k]) # o
        BY <1>0, <1>1, <2>5, <3>1, <3>3
      <4> QED BY <1>2, <1>4, <2>4, <4>1
    <3>4. CASE j < i
      <4>1. j \in 1 .. i - 1
        BY <1>0, <3>4
      <4>2. h[i - 1][o] = h[j][o]
        BY <1>2, <1>4, <2>4, <3>1, <4>1
      <4>3. j - 1 \in 0 .. n /\ h[j][o] = h[j - 1][fd]
        BY <1>3, <1>4, <3>1
      <4>4. \A k \in 1 .. j - 1 : FdOf(specs[k]) # fd
        <5>1. \A k \in 1 .. j - 1 : k \in 1 .. n /\ k # i
          BY <1>0, <3>4
        <5> QED BY <1>1, <2>1, <5>1
      <4> QED BY <1>2, <1>4, <2>4, <4>2, <4>3, <4>4
    <3>5. i < j \/ j < i
      BY <1>0, <3>2
    <3> QED BY <3>3, <3>4, <3>5
  <2>9. Merged(specs, o) => \A t : ~ToFile(specs, o, t)
    BY <1>0, <1>1 DEF Merged, ToFile
  <2> QED BY <2>6, <2>7, <2>8, <2>9
<1> QED BY <1>0, <1>5, <1>6, <1>7

\* One of the three holds of each fd, and the plan tells which.
LEMMA PlanTells ==
  ASSUME NEW specs \in Seq(Specs), ~Malformed(specs), NEW fd \in {1, 2}
  PROVE  /\ None(specs, fd) \/ Merged(specs, fd) \/ \E t : ToFile(specs, fd, t)
         /\ None(specs, fd) => On(specs, fd) = {} /\ FileOn(Plan(specs), fd) = {}
         /\ Merged(specs, fd) => On(specs, fd) # {} /\ FileOn(Plan(specs), fd) = {}
         /\ \A t : ToFile(specs, fd, t) => On(specs, fd) # {} /\ FileOn(Plan(specs), fd) = {t}
         /\ Merges(Plan(specs), IF fd = 1 THEN "1>&2" ELSE "2>&1") <=> Merged(specs, fd)
<1>0. fd \in 0 .. 2
  OBVIOUS
<1>1. None(specs, fd) \/ Merged(specs, fd) \/ \E t : ToFile(specs, fd, t)
  BY DEF None, Merged, ToFile
<1>2. /\ None(specs, fd) => On(specs, fd) = {} /\ FileOn(Plan(specs), fd) = {}
      /\ Merged(specs, fd) => On(specs, fd) # {} /\ FileOn(Plan(specs), fd) = {}
      /\ \A t : ToFile(specs, fd, t) => On(specs, fd) # {} /\ FileOn(Plan(specs), fd) = {t}
  BY <1>0, PlanIs DEF None, Merged, ToFile
<1>3. ASSUME NEW i \in 1 .. Len(specs)
      PROVE  specs[i].op = (IF fd = 1 THEN "1>&2" ELSE "2>&1") <=>
               FdOf(specs[i]) = fd /\ ~IsFile(specs[i])
  <2>1. specs[i] \in Specs
    BY ElementOfSeq
  <2> QED BY <2>1 DEF Specs, Redirect, FileOps, MergeOps, FdOf, IsFile
<1>4. (IF fd = 1 THEN "1>&2" ELSE "2>&1") \in MergeOps
  BY DEF MergeOps
<1>5. Merges(Plan(specs), IF fd = 1 THEN "1>&2" ELSE "2>&1") <=> Merged(specs, fd)
  BY <1>3, <1>4, MergesAre DEF Merged
<1> QED BY <1>1, <1>2, <1>5

\* The streams of a command with any number of redirects go where a shell would send
\* them, under the conditions of AsShell.
LEMMA PlanAsShell == ASSUME NEW specs \in Seq(Specs) PROVE AsShell(specs)
<1> SUFFICES ASSUME ~Malformed(specs), MergesLast(specs), StderrNamed(specs)
             PROVE  /\ Streams(Plan(specs)).out = InShell(specs)[1]
                    /\ Streams(Plan(specs)).err = InShell(specs)[2]
  BY DEF AsShell
<1>1. Len(specs) <= 3
  BY FewRedirects
<1>2. PICK h : Pointed(specs, h) /\ InShell(specs) = h[Len(specs)]
  BY <1>1, ShellPoints
<1> DEFINE out == InShell(specs)[1]
           err == InShell(specs)[2]
           f1  == FileOn(Plan(specs), 1)
           f2  == FileOn(Plan(specs), 2)
           m1  == Merged(specs, 1)
           m2  == Merged(specs, 2)
<1>3. /\ None(specs, 1) => out = Pipe
      /\ \A t : ToFile(specs, 1, t) => out = t
      /\ m1 => /\ None(specs, 2) \/ m2 => out = Pipe
               /\ \A t : ToFile(specs, 2, t) => out = t
  BY <1>2, ShellEnds
<1>4. /\ None(specs, 2) => err = Pipe
      /\ \A t : ToFile(specs, 2, t) => err = t
      /\ m2 => /\ None(specs, 1) \/ m1 => err = Pipe
               /\ \A t : ToFile(specs, 1, t) => err = t
  BY <1>2, ShellEnds
<1>5. /\ None(specs, 1) \/ m1 \/ \E t : ToFile(specs, 1, t)
      /\ None(specs, 1) => f1 = {}
      /\ m1 => f1 = {}
      /\ \A t : ToFile(specs, 1, t) => f1 = {t}
      /\ Merges(Plan(specs), "1>&2") <=> m1
  BY PlanTells
<1>6. /\ None(specs, 2) \/ m2 \/ \E t : ToFile(specs, 2, t)
      /\ None(specs, 2) => f2 = {} /\ On(specs, 2) = {}
      /\ m2 => f2 = {}
      /\ \A t : ToFile(specs, 2, t) => f2 = {t}
      /\ Merges(Plan(specs), "2>&1") <=> m2
  BY PlanTells
<1>7. On(specs, 2) # {} \/ f1 = {}
  BY DEF StderrNamed
<1>8. (\A else : Or({}, else) = else) /\ (\A t, else : Or({t}, else) = t)
  BY DEF Or
<1>9. Streams(Plan(specs)) =
        IF m2 THEN [out |-> Or(f1, Pipe), err |-> Or(f1, Pipe)]
        ELSE IF m1 THEN [out |-> Or(f2, Pipe), err |-> Or(f2, Pipe)]
        ELSE [out |-> Or(f1, Pipe), err |-> Or(f2, Or(f1, Pipe))]
  BY <1>5, <1>6 DEF Streams
<1> HIDE DEF out, err, f1, f2, m1, m2
<1>10. /\ None(specs, 1) \/ m1 => \A else : Or(f1, else) = else
       /\ \A t : ToFile(specs, 1, t) => \A else : Or(f1, else) = t
  BY <1>5, <1>8
<1>11. /\ None(specs, 2) \/ m2 => \A else : Or(f2, else) = else
       /\ \A t : ToFile(specs, 2, t) => \A else : Or(f2, else) = t
  BY <1>6, <1>8
<1>12. Or(f1, Pipe) = IF m1 THEN Pipe ELSE out
  BY <1>3, <1>5, <1>10
<1>13. Or(f2, Pipe) = IF m2 THEN Pipe ELSE err
  BY <1>4, <1>6, <1>11
<1>14. CASE m2
  <2>1. err = Or(f1, Pipe)
    BY <1>4, <1>5, <1>10, <1>14
  <2>2. out = Or(f1, Pipe)
    BY <1>3, <1>12, <1>14
  <2> QED BY <1>9, <1>14, <2>1, <2>2 DEF out, err
<1>15. CASE ~m2 /\ m1
  <2>1. out = Or(f2, Pipe)
    BY <1>3, <1>6, <1>11, <1>15
  <2> QED BY <1>9, <1>13, <1>15, <2>1 DEF out, err
<1>16. CASE ~m2 /\ ~m1
  <2>1. CASE None(specs, 2)
    <3>1. f1 = {} /\ f2 = {} /\ err = Pipe
      BY <1>4, <1>6, <1>7, <2>1
    <3> QED BY <1>8, <1>9, <1>12, <1>16, <3>1 DEF out, err
  <2>2. ASSUME NEW t, ToFile(specs, 2, t)
        PROVE  /\ Streams(Plan(specs)).out = InShell(specs)[1]
               /\ Streams(Plan(specs)).err = InShell(specs)[2]
    <3>1. err = t /\ Or(f2, Or(f1, Pipe)) = t
      BY <1>4, <1>11, <2>2
    <3> QED BY <1>9, <1>12, <1>16, <3>1 DEF out, err
  <2> QED BY <1>6, <1>16, <2>1, <2>2
<1> QED BY <1>14, <1>15, <1>16

\* The streams go where a shell would send them, for any number of redirects.
THEOREM StreamsRight == Spec => []StreamsAsShell
<1>1. ASSUME NEW n \in 0 .. MaxSpecs, NEW specs \in [1 .. n -> Specs] PROVE AsShell(specs)
  <2>1. n \in Nat
    BY ExecutorAssumption
  <2>2. specs \in Seq(Specs)
    BY <2>1, SeqDef
  <2> QED BY <2>2, PlanAsShell
<1>2. StreamsAsShell
  BY <1>1 DEF StreamsAsShell
<1> QED BY <1>2, PTL

-------------------------------------------------------------------------------
(* Quotes and tokens *)

\* Before the first command, a quoted text of any length and over any characters is read
\* back as one word that stands for it: _tokenize and _parse_word_parts, which read the
\* text one after the other, agree with shlex.quote on where it ends and what it says.
THEOREM QuotesRight == Spec => []QuotesHold
<1>1. ASSUME NEW s \in Texts PROVE QuoteHolds(s)
  <2>1. PICK n \in Nat : s \in [1 .. n -> Chars]
    BY ParserAssumption DEF Texts
  <2>2. s \in Seq(Chars)
    BY <2>1, SeqDef
  <2> QED BY <2>2, QuoteReadBack
<1>2. QuotesHold
  BY <1>1 DEF QuotesHold
<1> QED BY <1>2, PTL

\* Before the first command, a text of words means what a shell reads in it: the two passes
\* of the parser, _tokenize and _parse_word_parts, agree with one pass over the same text on
\* quotes, backslashes, variables and blanks, but for what is known to differ.
THEOREM ShellAgrees == Spec => []WordsAsShell
<1>1. ASSUME NEW s \in Texts PROVE WordAsShell(s)
  <2>1. PICK n \in Nat : s \in [1 .. n -> Chars]
    BY ParserAssumption DEF Texts
  <2>2. s \in Seq(Chars)
    BY <2>1, SeqDef
  <2> QED BY <2>2, WordsReadAlike
<1>2. WordsAsShell
  BY <1>1 DEF WordsAsShell
<1> QED BY <1>2, PTL

\* Every word and every redirect of a list of tokens stays with its command (parse),
\* for every bound on their number: TokensKept, which is about lists of any length.
THEOREM TokensStay == Spec => []ParseKeeps
<1>1. ASSUME NEW ts \in TokenLists PROVE Keeps(ts)
  <2>1. PICK n \in Nat : ts \in [1 .. n -> SomeTokens]
    BY ParserAssumption DEF TokenLists
  <2>2. ts \in Seq(SomeTokens)
    BY <2>1, SeqDef
  <2> QED BY <2>2, TokensKept
<1>2. ParseKeeps
  BY <1>1 DEF ParseKeeps
<1> QED BY <1>2, PTL
===============================================================================
