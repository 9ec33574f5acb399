------------------------------- MODULE Executor -------------------------------
(***************************************************************************)
(* One call of shell_run: its commands one after the other, short-circuited*)
(* by && and ||, with cd as a builtin, and each one tried again while the  *)
(* mount of its overlay is refused because the namespace of the command    *)
(* before it is still there.                                               *)
(*                                                                         *)
(* The parsed program is revealed command by command: the executor never   *)
(* looks ahead.  What a command does to files is in Workspace.             *)
(***************************************************************************)
EXTENDS Integers, Redirects, Parser

CONSTANTS
  Dirs,         \* directories that cd accepts
  Home,         \* the cwd of the call
  Redirs,       \* lists of redirects that a single command may have
  PipeRedirs,   \* lists of redirects that a command of a pipeline may have
  MaxAttempts,  \* max_attempts of run_command
  MaxCmds,      \* bound: commands in a program
  MaxSpecs      \* bound: redirects of one command in StreamsAsShell

ASSUME ExecutorAssumption ==
  /\ Home \in Dirs
  /\ Redirs \subseteq Seq(Specs) /\ PipeRedirs \subseteq Seq(Specs)
  /\ MaxAttempts \in Nat \ {0} /\ MaxCmds \in Nat /\ MaxSpecs \in Nat

VARIABLES
  pc,       \* "next", "link", "attempt", "running", "judge" or "done"
  cmd,      \* the command at work
  op,       \* what stands before it: ";", "&&" or "||"
  cur,      \* cur_cwd
  last,     \* last_rc
  skipped,  \* was a command skipped?
  stages,   \* the results that are reported
  reply,    \* "none", "result", "syntax", "rejected", "empty" or "raised"
  tries,    \* attempts of cmd
  result,   \* what the last attempt returned
  lag,      \* is the previous mount of the overlay still there?
  temp,     \* is the temporary file of a /tmp redirect there?
  ran, own, refused,  \* auxiliary: how often cmd ran, whether it printed the text of a
                      \* refusal itself, whether the last attempt was refused
  log                 \* auxiliary: what became of each command

attempts == <<tries, result, temp, ran, own, refused>>
chain    == <<cur, last, skipped, stages, log>>
vars     == <<pc, cmd, op, reply, lag, chain, attempts>>

Single(specs)   == [kind |-> "single", specs |-> specs, dir |-> Home]
Pipeline(specs) == [kind |-> "pipeline", specs |-> specs, dir |-> Home]
Plain(kind)     == [kind |-> kind, specs |-> <<>>, dir |-> Home]
Cd(d)           == [kind |-> "cd", specs |-> <<>>, dir |-> d]

\* A single command, a pipeline with redirects in one of its two commands, a cd that
\* is accepted or not, or a command without words after expansion.
Cmds == {Single(specs) : specs \in Redirs} \cup {Pipeline(specs) : specs \in PipeRedirs}
          \cup {Cd(d) : d \in Dirs} \cup {Plain("cd.bad"), Plain("empty")}

\* The plan of the host: the redirects of a pipeline are left to its shell.
HostPlan == Plan(IF cmd.kind = "single" THEN cmd.specs ELSE <<>>)

Timeout == -1
Codes   == {0, 1, 2}
Result(rc, busy) == [rc |-> rc, busy |-> busy]
NoResult == Result(0, FALSE)

\* What is reported of the command at work, and what became of it.
Fate(how, rc, dir) == [op |-> op, how |-> how, rc |-> rc, dir |-> dir]

TypeOK ==
  /\ pc \in {"next", "link", "attempt", "running", "judge", "done"}
  /\ cmd \in Cmds /\ op \in {";", "&&", "||"}
  /\ cur \in Dirs /\ last \in Codes \cup {Timeout} /\ skipped \in BOOLEAN
  /\ reply \in {"none", "result", "syntax", "rejected", "empty", "raised"}
  /\ tries \in 0 .. MaxAttempts /\ ran \in 0 .. tries
  /\ result \in [rc : Codes \cup {Timeout}, busy : BOOLEAN]
  /\ lag \in BOOLEAN /\ temp \in BOOLEAN /\ own \in BOOLEAN /\ refused \in BOOLEAN
  /\ Len(log) <= MaxCmds /\ Len(stages) <= Len(log)

Init ==
  /\ pc = "next" /\ cmd = Plain("empty") /\ op = ";"
  /\ cur = Home /\ last = 0 /\ skipped = FALSE /\ stages = <<>>
  /\ reply = "none"
  /\ tries = 0 /\ result = NoResult /\ lag \in BOOLEAN /\ temp = FALSE
  /\ ran = 0 /\ own = FALSE /\ refused = FALSE
  /\ log = <<>>

-------------------------------------------------------------------------------
(* execute_program and execute_andor *)

\* The next command.  A chain starts in the cwd of the call, with status 0.
Take(o, c) ==
  /\ pc = "next" /\ Len(log) < MaxCmds
  /\ log = <<>> => o = ";"
  /\ op' = o /\ cmd' = c
  /\ IF o = ";" THEN cur' = Home /\ last' = 0 ELSE UNCHANGED <<cur, last>>
  /\ pc' = "link"
  /\ UNCHANGED <<reply, lag, skipped, stages, log, attempts>>

\* mutant: && goes on after a status other than 1
SkippingOnOne == \/ op = "&&" /\ last = 1
                 \/ op = "||" /\ last = 0

Skipping == \/ op = "&&" /\ last # 0
            \/ op = "||" /\ last = 0

\* mutant: a skipped command is reported too
SkipReported ==
  /\ pc = "link" /\ Skipping
  /\ skipped' = TRUE
  /\ stages' = Append(stages, Fate("skipped", 0, cur))
  /\ log' = Append(log, Fate("skipped", 0, cur))
  /\ pc' = "next"
  /\ UNCHANGED <<cmd, op, reply, lag, cur, last, attempts>>

Skip ==
  /\ pc = "link" /\ Skipping
  /\ skipped' = TRUE
  /\ log' = Append(log, Fate("skipped", 0, cur))
  /\ pc' = "next"
  /\ UNCHANGED <<cmd, op, reply, lag, cur, last, stages, attempts>>

\* A stage ends.
Done(how, rc) ==
  /\ stages' = Append(stages, Fate(how, rc, cur'))
  /\ log' = Append(log, Fate(how, rc, cur'))
  /\ last' = rc
  /\ pc' = "next"

\* mutant: a cd that is refused moves to the start
CdBuiltinMoves ==
  /\ pc = "link" /\ ~Skipping
  /\ \/ cmd.kind = "cd" /\ cur' = cmd.dir /\ Done("cd", 0)
     \/ cmd.kind = "cd.bad" /\ cur' = Home /\ Done("cd", 1)
  /\ UNCHANGED <<cmd, op, reply, lag, skipped, attempts>>

\* _try_cd
CdBuiltin ==
  /\ pc = "link" /\ ~Skipping
  /\ \/ cmd.kind = "cd" /\ cur' = cmd.dir /\ Done("cd", 0)
     \/ cmd.kind = "cd.bad" /\ UNCHANGED cur /\ Done("cd", 1)
  /\ UNCHANGED <<cmd, op, reply, lag, skipped, attempts>>

\* The reply of shell_run.  An exception of a command loses the results of the
\* commands before it.
Reply(kind) ==
  /\ pc' = "done" /\ reply' = kind
  /\ stages' = IF kind = "result" THEN stages ELSE <<>>
  /\ UNCHANGED <<cmd, op, cur, last, skipped, log, lag, attempts>>

\* shell_run catches the ParseError of parse, before anything is executed.
SyntaxError == pc = "next" /\ log = <<>> /\ Reply("syntax")

ProgramEnds == pc = "next" /\ log # <<>> /\ Reply("result")

\* build_invocation raises EmptyInvocation, ParseError or InvocationError.
BuildRaises ==
  /\ pc = "link" /\ ~Skipping
  /\ \/ cmd.kind = "empty" /\ Reply("empty")
     \/ cmd.kind = "single" /\ Malformed(cmd.specs) /\ Reply("raised")
     \/ cmd.kind = "single" /\ ~Malformed(cmd.specs) /\ Denied(cmd.specs) /\ Reply("rejected")

\* build_invocation, with the temporary files of redirects to /tmp.
Build ==
  /\ pc = "link" /\ ~Skipping
  /\ \/ cmd.kind = "pipeline"
     \/ cmd.kind = "single" /\ ~Malformed(cmd.specs) /\ ~Denied(cmd.specs)
  /\ tries' = 0 /\ result' = NoResult
  /\ temp' = TRUE
  /\ ran' = 0 /\ own' = FALSE /\ refused' = FALSE
  /\ pc' = "attempt"
  /\ UNCHANGED <<cmd, op, reply, lag, chain>>

-------------------------------------------------------------------------------
(* run_command *)

\* Does what the command writes to stderr become part of the output?
Heard == Streams(HostPlan).err = Pipe

Ends(rc, busy) ==
  /\ result' = Result(rc, busy)
  /\ temp' = FALSE
  /\ pc' = "judge"

\* _spawn_kwargs or Popen raises: a file cannot be opened.
RedirectError ==
  /\ pc = "attempt"
  /\ tries' = tries + 1
  /\ refused' = FALSE
  /\ Ends(1, FALSE)
  /\ UNCHANGED <<cmd, op, reply, lag, chain, ran, own>>

\* The first attempt removes the temporary file of a redirect to /tmp; opening it
\* for output makes it again.
InputFromTmp == \E t \in FileOn(HostPlan, 0) : Area[t] = "tmp"
CanSpawn == pc = "attempt" /\ (InputFromTmp => temp)

\* bwrap exits with 1: "Device or resource busy".
Refused ==
  /\ CanSpawn /\ lag
  /\ tries' = tries + 1
  /\ refused' = TRUE
  /\ Ends(1, Heard)
  /\ UNCHANGED <<cmd, op, reply, lag, chain, ran, own>>

\* The overlay is mounted; the kernel may allow it even while it lags.
Runs ==
  /\ CanSpawn
  /\ tries' = tries + 1 /\ ran' = ran + 1
  /\ refused' = FALSE
  /\ pc' = "running"
  /\ UNCHANGED <<cmd, op, reply, lag, chain, result, temp, own>>

\* The command ends by itself, after printing what a refusal prints, perhaps, and
\* its mount may stay for a while.
Exits(rc) ==
  /\ pc = "running"
  /\ \E busy \in BOOLEAN :
       /\ busy => rc = 1 /\ Heard
       /\ Ends(rc, busy)
       /\ own' = (own \/ busy)
  /\ lag' \in BOOLEAN
  /\ UNCHANGED <<cmd, op, reply, chain, tries, ran, refused>>

\* mutant: the group is killed and the call goes on waiting
TimesOutLost ==
  /\ pc = "running"
  /\ lag' = TRUE
  /\ UNCHANGED <<pc, cmd, op, reply, chain, attempts>>

\* communicate(timeout) raises and the process group is killed.
TimesOut ==
  /\ pc = "running"
  /\ Ends(Timeout, FALSE)
  /\ lag' \in BOOLEAN
  /\ UNCHANGED <<cmd, op, reply, chain, tries, ran, own, refused>>

\* The namespace of the last command is gone.
TornDown ==
  /\ lag /\ pc \notin {"running", "done"}
  /\ lag' = FALSE
  /\ UNCHANGED <<pc, cmd, op, reply, chain, attempts>>

\* mutants: any failure with status 1 is tried again; one retry too few
AgainOnFailure == result.rc = 1 /\ tries < MaxAttempts
AgainOneLess   == result.rc = 1 /\ result.busy /\ tries < MaxAttempts - 1

\* _run_with_retry
Again == result.rc = 1 /\ result.busy /\ tries < MaxAttempts

Retry ==
  /\ pc = "judge" /\ Again
  /\ pc' = "attempt"
  /\ UNCHANGED <<cmd, op, reply, lag, chain, attempts>>

Record ==
  /\ pc = "judge" /\ ~Again
  /\ UNCHANGED <<cmd, op, reply, lag, cur, skipped, attempts>>
  /\ Done("ran", result.rc)

-------------------------------------------------------------------------------

Program == \/ \E o \in {";", "&&", "||"}, c \in Cmds : Take(o, c)
           \/ Skip \/ CdBuiltin \/ SyntaxError \/ ProgramEnds \/ BuildRaises \/ Build
Attempt == RedirectError \/ Refused \/ Runs \/ TimesOut \/ Retry \/ Record

Next == \/ Program \/ Attempt
        \/ \E rc \in Codes : Exits(rc)
        \/ TornDown

Spec == Init /\ [][Next]_vars

\* The thread of the call goes on.  Nothing says that a command ends by itself or
\* that its mount goes away.
FairSpec == Spec /\ WF_vars(Program \/ Attempt)

-------------------------------------------------------------------------------
(* Properties *)

\* No command is executed twice, unless it printed the text of a refusal itself and
\* ended with status 1: a retry follows a mount that was refused.
RunsOnce == ran > 1 => own

\* A refused mount is the result of a stage only after max_attempts, or if the text
\* went into a file.
RefusalHidden == [][Record /\ refused => tries = MaxAttempts \/ ~Heard]_vars

\* The status of the list of commands up to k, as a shell computes it: that of the
\* last one it did not skip.
Status(k) ==
  LET taken == {i \in 1 .. k : log[i].how # "skipped"}
  IN  IF taken = {} THEN 0 ELSE log[CHOOSE i \in taken : \A j \in taken : j <= i].rc

\* Exactly those commands are taken that a shell would: && and || look at the status
\* of all that stands before them in the chain.
ChainAsShell ==
  \A k \in 1 .. Len(log) :
    log[k].how # "skipped" <=> \/ log[k].op = ";"
                               \/ log[k].op = "&&" /\ Status(k - 1) = 0
                               \/ log[k].op = "||" /\ Status(k - 1) # 0

\* Every command runs where the last cd of its chain that worked went ("no lasting
\* effect beyond the chain", executor.py:657-658), and otherwise in the cwd of the call.
InDir ==
  \A k \in 1 .. Len(log) : log[k].how = "ran" =>
    LET chainOf == {i \in 1 .. k : \A j \in i + 1 .. k : log[j].op # ";"}
        moves   == {i \in chainOf : log[i].how = "cd" /\ log[i].rc = 0}
    IN  log[k].dir = IF moves = {} THEN Home
                     ELSE log[CHOOSE i \in moves : \A j \in moves : j <= i].dir

\* The number of commands up to k that were taken.
Rank(k) == Cardinality({i \in 1 .. k : log[i].how # "skipped"})

\* A reply that is a result reports every command that was taken and no other, in order,
\* with the status of the last one, and says whether one was skipped.
ReplyTrue ==
  reply = "result" =>
    /\ Len(stages) = Rank(Len(log))
    /\ \A k \in 1 .. Len(log) : log[k].how # "skipped" => stages[Rank(k)] = log[k]
    /\ last = Status(Len(log))
    /\ skipped <=> \E k \in 1 .. Len(log) : log[k].how = "skipped"

\* Where the streams of a command go depends on its redirects alone, so this is
\* looked at before the first command only.
StreamsAsShell ==
  pc = "next" /\ log = <<>> =>
    \A n \in 0 .. MaxSpecs : \A specs \in [1 .. n -> Specs] : AsShell(specs)

\* So with the parser.  A text that is quoted is one word of the program, and that
\* text after expansion, whatever it is: the two readings of it agree on the quotes.
QuotesHold ==
  pc = "next" /\ log = <<>> => \A s \in Texts : QuoteHolds(s)

\* A command line of words means the words that a shell reads, apart from what is
\* known to differ ("backslash escapes", "single-quoted, double-quoted with $VAR",
\* parser.py:3-4).
WordsAsShell ==
  pc = "next" /\ log = <<>> => \A s \in Texts : WordAsShell(s)

\* Words and redirects stay with their command, and nothing is lost or taken twice.
ParseKeeps ==
  pc = "next" /\ log = <<>> => \A ts \in TokenLists : Keeps(ts)

\* The redirects of a command of a pipeline mean what they mean elsewhere ("assignment
\* prefixes and redirects are reconstructed", executor.py:244-245).
PipelineReconstructed ==
  pc = "running" /\ cmd.kind = "pipeline" =>
    \A fd \in 0 .. 2 : InPipeline(cmd.specs)[fd] = InShell(cmd.specs)[fd]

\* Every call is answered.
Answered == <>(pc = "done")
===============================================================================
