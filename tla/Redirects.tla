------------------------------ MODULE Redirects ------------------------------
(***************************************************************************)
(* Where the streams of a single command go: redirects.py builds a plan    *)
(* from the redirects of the command, and the executor opens the files on  *)
(* the host and hands them to Popen.                                       *)
(***************************************************************************)
EXTENDS Naturals, Sequences

CONSTANTS
  Targets,    \* files that redirects name
  Area,       \* where each of them lies: in /workspace, in /tmp, below a read-only
              \* bind, or outside the roots
  Pipe        \* the pipe whose text becomes the output of the stage

ASSUME RedirectsAssumption ==
  /\ Area \in [Targets -> {"work", "tmp", "ro", "outside"}]
  /\ Pipe \notin Targets

\* The redirect operators of the parser.
FileOps  == {"<", ">", ">>", "2>", "2>>"}
MergeOps == {"1>&2", "2>&1"}

\* A RedirectSpec.  The parser gives every one its fd; the two merges name no file.
Redirect(op, t) == [op |-> op, to |-> t]
Specs == {Redirect(op, t) : op \in FileOps, t \in Targets}
           \cup {Redirect(op, Pipe) : op \in MergeOps}

\* The fd that parse_redirect gives it.
FdOf(spec) == CASE spec.op = "<" -> 0
                [] spec.op \in {">", ">>", "1>&2"} -> 1
                [] spec.op \in {"2>", "2>>", "2>&1"} -> 2

IsFile(spec) == spec.op \in FileOps

-------------------------------------------------------------------------------
(* The plan *)

\* RedirectPlan.apply raises ParseError.
Malformed(specs) ==
  \/ \E i, j \in 1 .. Len(specs) : i # j /\ FdOf(specs[i]) = FdOf(specs[j])
  \/ \E i \in 1 .. Len(specs) : IsFile(specs[i]) /\ Area[specs[i].to] = "outside"

\* _resolve_fd_plan_host raises InvocationError: a write below a read-only bind.
Denied(specs) ==
  \E i \in 1 .. Len(specs) :
    IsFile(specs[i]) /\ specs[i].op # "<" /\ Area[specs[i].to] = "ro"

\* The redirect of one fd, if there is one.
On(specs, fd) == {specs[i] : i \in {j \in 1 .. Len(specs) : FdOf(specs[j]) = fd}}

\* mutant: a merge clears the fd that it merges with
PlanCleared(specs) ==
  [fd \in 0 .. 2 |->
     {s \in On(specs, fd) : ~ \E m \in On(specs, 3 - fd) : m.op \in MergeOps}]

\* RedirectPlan.apply; a merge leaves the redirect of the other fd alone.
Plan(specs) == [fd \in 0 .. 2 |-> On(specs, fd)]

\* plan.stdin, plan.stdout and plan.stderr, where they are paths or a merge marker.
FileOn(plan, fd) == {s.to : s \in {r \in plan[fd] : IsFile(r)}}
Merges(plan, op) == \E fd \in 1 .. 2 : \E s \in plan[fd] : s.op = op

\* The only member of a set of at most one, or else.
Or(S, else) == IF S = {} THEN else ELSE CHOOSE x \in S : TRUE

\* _spawn_kwargs: stderr goes where stdout goes (STDOUT) unless a file says else.
Streams(plan) ==
  LET out == Or(FileOn(plan, 1), Pipe)
      err == Or(FileOn(plan, 2), Pipe)
  IN  CASE Merges(plan, "2>&1") -> [out |-> out, err |-> out]
        [] Merges(plan, "1>&2") /\ ~Merges(plan, "2>&1") -> [out |-> err, err |-> err]
        [] OTHER -> [out |-> out, err |-> Or(FileOn(plan, 2), out)]

-------------------------------------------------------------------------------
(* What a shell does *)

\* A redirect is a dup2 of where fd at points.
Dup(fds, spec, at) ==
  CASE spec.op = "2>&1" -> [fds EXCEPT ![2] = fds[1]]
    [] spec.op = "1>&2" -> [fds EXCEPT ![1] = fds[2]]
    [] OTHER            -> [fds EXCEPT ![at] = spec.to]

\* All of them from left to right.
InShell(specs) ==
  LET after[n \in 0 .. Len(specs)] ==
        IF n = 0 THEN [fd \in 0 .. 2 |-> Pipe]
        ELSE Dup(after[n - 1], specs[n], FdOf(specs[n]))
  IN  after[Len(specs)]

\* A pipeline is written out again for /bin/sh: each redirect is its fd and its
\* operator, so that the shell reads 22> for a 2> (_render_command).
FdRendered(spec) == IF spec.op \in {"2>", "2>>"} THEN 22 ELSE FdOf(spec)

\* The streams of a command of a pipeline.  All but the redirects is left out: Pipe
\* is where a stream goes without one.
InPipeline(specs) ==
  LET after[n \in 0 .. Len(specs)] ==
        IF n = 0 THEN [fd \in {0, 1, 2, 22} |-> Pipe]
        ELSE Dup(after[n - 1], specs[n], FdRendered(specs[n]))
  IN  after[Len(specs)]

\* No redirect to a file follows a merge.
MergesLast(specs) ==
  \A i, j \in 1 .. Len(specs) : i < j /\ ~IsFile(specs[i]) => ~IsFile(specs[j])
\* By itself a redirect of stdout takes stderr along (STDOUT), as in no shell.
StderrNamed(specs) == On(specs, 2) # {} \/ FileOn(Plan(specs), 1) = {}

\* The streams of a command go where a shell would send them, if the merges come
\* last and stderr is redirected whenever stdout goes to a file.
AsShell(specs) ==
  ~Malformed(specs) /\ MergesLast(specs) /\ StderrNamed(specs) =>
    LET s == Streams(Plan(specs))
    IN  s.out = InShell(specs)[1] /\ s.err = InShell(specs)[2]
===============================================================================
