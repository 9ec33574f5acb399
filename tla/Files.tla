-------------------------------- MODULE Files --------------------------------
(***************************************************************************)
(* The file tools of a session, read_file, write_file, edit and grep, and  *)
(* the redirects of its commands, at work on one file.  A file tool is a   *)
(* series of sandboxed commands, each of which may do what it is for, be   *)
(* refused (the mount of the overlay stays busy: status 1 and an error text*)
(* on the output), or be cut off by its timeout (status -1, with what it   *)
(* did and printed so far).  Whoever owns a bound host directory may change*)
(* the file at any time.                                                   *)
(*                                                                         *)
(* A tool takes one path that is not a symbolic link; a redirect may be    *)
(* given a link that lies next to the file.  The checks of a tool's        *)
(* arguments before the first command are left out.                        *)
(***************************************************************************)
EXTENDS Integers, FiniteSets, Binds

CONSTANTS
  Old, New,    \* lines with old_string, with new_string in its place
  Raw, Repl,   \* a line that is not UTF-8, and what it is decoded to
  Unended,     \* a last line that no newline ends
  Busy,        \* what bwrap prints when it is refused
  Absent,      \* no file
  Starts,      \* contents that the file may have at first
  Texts,       \* contents that write_file, redirects and the host write
  Given,       \* binds on the command line of the server
  Linked,      \* places that a symbolic link may lead to
  MaxShown,    \* lines that fit into the 64000 characters of a reply of grep
  MaxBinds,    \* bound: binds of the session
  MaxLines,    \* bound: limit, offset and max_matches
  MaxFaults,   \* bound: commands of one tool call that are refused or cut off
  MaxOps       \* bound: tool calls, redirects, binds and links

Lines == {Old, New, Raw, Repl, Unended, Busy}

ASSUME FilesAssumption ==
  /\ Cardinality(Lines) = 6 /\ Absent \notin Seq(Lines)
  /\ Starts \subseteq Seq(Lines) \cup {Absent} /\ Texts \subseteq Seq(Lines)
  /\ Given \subseteq Seq(HostBinds) /\ Linked \subseteq Places /\ MaxShown \in Nat
  /\ MaxBinds \in Nat /\ MaxLines \in Nat /\ MaxFaults \in Nat /\ MaxOps \in Nat

VARIABLES
  binds,    \* the binds of the session
  disk,     \* what lies at each place
  links,    \* symbolic links, at one place and to another
  pc,       \* the command that a tool call is at, or "idle"
  call,     \* the call
  text,     \* what the call read or is to write, or what it returns
  total,    \* total_lines of read_file
  temp,     \* the temporary file of edit
  reply,    \* what the last operation replied
  ops,      \* counts the operations
  before, touched, failed  \* auxiliary: the file before the call, whether somebody else
                           \* changed it since, the commands of the call that went wrong

file == <<disk, temp>>
aux  == <<before, touched, failed>>
vars == <<binds, file, links, pc, call, text, total, reply, ops, aux>>

Here == Mounted(binds)
Now  == disk[Here]

\* What the tools are asked for.
Read(start, limit) == [tool |-> "read", start |-> start, limit |-> limit, all |-> FALSE]
Write       == [tool |-> "write", start |-> 1, limit |-> 0, all |-> FALSE]
Edit(all)   == [tool |-> "edit", start |-> 1, limit |-> 0, all |-> all]
Grep(limit) == [tool |-> "grep", start |-> 1, limit |-> limit, all |-> FALSE]
Calls == {Read(s, l) : s, l \in 1 .. MaxLines} \cup {Grep(l) : l \in 1 .. MaxLines}
           \cup {Edit(TRUE), Edit(FALSE), Write}

-------------------------------------------------------------------------------
(* Texts *)

Decode(t) == [i \in 1 .. Len(t) |-> IF t[i] = Raw THEN Repl ELSE t[i]]
Count(t)  == Cardinality({i \in 1 .. Len(t) : t[i] = Old})

\* str.replace, of all occurrences or of the first.
Replaced(t, all) ==
  [i \in 1 .. Len(t) |->
     IF t[i] = Old /\ (all \/ \A j \in 1 .. i - 1 : t[j] # Old) THEN New ELSE t[i]]

\* wc -l counts newlines.
Newlines(t) == Cardinality({i \in 1 .. Len(t) : t[i] # Unended})

\* sed -n 'start,endp'.
Slice(t, start, limit) == SubSeq(t, start, IF start + limit - 1 < Len(t) THEN start + limit - 1
                                           ELSE Len(t))

\* The lines that grep finds, at most n of them.
Matches(t, n) == [i \in 1 .. (IF n < Count(t) THEN n ELSE Count(t)) |-> Old]

\* What a command prints that is cut off.
Parts(t) == Prefixes(t)

-------------------------------------------------------------------------------
(* Between the tool calls *)

Init ==
  /\ \E given \in Given : \E ds \in Defaults(given) : binds \in Seeded(ds)
  /\ \E t \in Starts : disk = [pl \in Places |-> t]
  /\ links = {}
  /\ pc = "idle" /\ call = Write /\ text = <<>> /\ total = 0 /\ temp = Absent
  /\ reply = "none" /\ ops = 0
  /\ before = Absent /\ touched = FALSE /\ failed = {}

\* bind_host_dir
BindHostDir(b) ==
  /\ pc = "idle" /\ ops < MaxOps /\ Len(binds) < MaxBinds
  /\ IF Valid(b) THEN binds' = Append(binds, b) /\ reply' = "bound"
                 ELSE UNCHANGED binds /\ reply' = "error"
  /\ ops' = ops + 1
  /\ UNCHANGED <<file, pc, call, text, total, aux>>

\* A single command with > and the path of the file, which is no link.
Redirect(t) ==
  /\ pc = "idle" /\ ops < MaxOps
  /\ IF Writable(binds)
     THEN disk' = [disk EXCEPT ![Opened(binds)] = t] /\ reply' = "redirected"
     ELSE UNCHANGED disk /\ reply' = "rejected"
  /\ ops' = ops + 1
  /\ UNCHANGED <<binds, temp, pc, call, text, total, aux>>

\* Somebody makes a symbolic link next to the file: a command of the sandbox in what
\* it sees, or the owner of a host directory there.
LinkMade(at, to) ==
  /\ pc = "idle" /\ ops < MaxOps
  /\ at # Overlay \/ (at = Here /\ ~ReadOnly(binds))
  /\ links' = links \cup {<<at, to>>}
  /\ ops' = ops + 1
  /\ UNCHANGED <<binds, file, pc, call, text, total, reply, aux>>

\* A single command with > and the path of a link: the path is judged by its words, and
\* the server's open follows the link on the host.
RedirectLinked(t, to) ==
  /\ pc = "idle" /\ ops < MaxOps
  /\ Writable(binds) /\ <<Opened(binds), to>> \in links
  /\ disk' = [disk EXCEPT ![to] = t] /\ reply' = "redirected"
  /\ ops' = ops + 1
  /\ UNCHANGED <<binds, temp, pc, call, text, total, aux>>

\* The owner of a host directory changes the file during a tool call.
HostWrites(t) ==
  /\ pc # "idle" /\ Here # Overlay /\ t # Now
  /\ disk' = [disk EXCEPT ![Here] = t]
  /\ touched' = TRUE
  /\ UNCHANGED <<binds, temp, pc, call, text, total, reply, ops, before, failed>>

-------------------------------------------------------------------------------
(* A tool call *)

\* The command at work ends; only "ok" is status 0.
Ends(command, how) ==
  /\ pc = command
  /\ IF how = "ok" THEN UNCHANGED failed
     ELSE Cardinality(failed) < MaxFaults /\ failed' = failed \cup {command}
  /\ UNCHANGED <<binds, call, ops, before, touched>>

Goto(command) == pc' = command /\ UNCHANGED reply
Reply(kind)   == pc' = "idle" /\ reply' = kind

Begin(c, t) ==
  /\ pc = "idle" /\ ops < MaxOps
  /\ call' = c /\ text' = IF c.tool = "write" THEN t ELSE <<>>
  /\ pc' = "realpath" /\ reply' = "none" /\ total' = 0 /\ temp' = Absent
  /\ before' = Now /\ touched' = FALSE /\ failed' = {}
  /\ ops' = ops + 1
  /\ UNCHANGED <<binds, disk>>

\* _validate_container_path: realpath.  write_file goes on without it.
Realpath(how) ==
  /\ Ends("realpath", how)
  /\ IF how = "ok" \/ call.tool = "write" THEN Goto("test") ELSE Reply("missing")
  /\ UNCHANGED <<file, text, total>>

AfterTest == CASE call.tool = "read" -> "wc"
               [] call.tool = "edit" -> "cat"
               [] call.tool = "grep" -> "grep"

\* mutant: write_file has no test
TestNot(how) ==
  /\ Ends("test", how)
  /\ IF call.tool = "write" THEN Goto("mkdir")
     ELSE IF how = "ok" /\ Now # Absent THEN Goto(AfterTest) ELSE Reply("missing")
  /\ UNCHANGED <<file, text, total>>

\* test -f or test -e: a status other than 0 is taken as "there is no file", which
\* is what write_file wants.
Test(how) ==
  LET there == how = "ok" /\ Now # Absent
  IN  /\ Ends("test", how)
      /\ IF call.tool = "write"
         THEN IF there THEN Reply("exists") ELSE Goto("mkdir")
         ELSE IF there THEN Goto(AfterTest) ELSE Reply("missing")
      /\ UNCHANGED <<file, text, total>>

\* read_file: the number of lines; what is no number is 0.
Wc(how) ==
  /\ Ends("wc", how)
  /\ total' = IF how = "ok" THEN Newlines(Now) ELSE 0
  /\ Goto("sed")
  /\ UNCHANGED <<file, text>>

\* read_file: the lines; the status is not looked at.
Sed(how) ==
  /\ Ends("sed", how)
  /\ LET lines == Slice(Decode(Now), call.start, call.limit)
     IN  text' \in CASE how = "ok"      -> {lines}
                     [] how = "refused" -> {<<Busy>>}
                     [] how = "cut"     -> Parts(lines)
  /\ Reply("content")
  /\ UNCHANGED <<file, total>>

\* mutant: the start is taken for the number of lines skipped
TruncatedLate == call.start + Len(text) < total

\* was_truncated
Truncated == call.start + Len(text) - 1 < total

\* mutant: no more than n lines are looked for
GrepRunN(how) ==
  /\ Ends("grep", how)
  /\ IF how = "cut" THEN Reply("failed") /\ UNCHANGED text
     ELSE /\ text' = IF how = "ok" THEN Matches(Decode(Now), call.limit) ELSE <<Busy>>
          /\ Reply("matches")
  /\ UNCHANGED <<file, total>>

\* grep, for one line more than it will return; 1 is the status of no match, too.
GrepRun(how) ==
  /\ Ends("grep", how)
  /\ IF how = "cut" THEN Reply("failed") /\ UNCHANGED text
     ELSE /\ text' = IF how = "ok" THEN Matches(Decode(Now), call.limit + 1) ELSE <<Busy>>
          /\ Reply("matches")
  /\ UNCHANGED <<file, total>>

Least(m, n) == IF m < n THEN m ELSE n

\* The lines that grep returns, cut to 64000 characters, and whether it says that there
\* are more, for which it does not look at the cut.
Returned     == Slice(text, 1, Least(call.limit, MaxShown))
MoreReturned == Len(text) > call.limit

\* mutant: all occurrences are replaced
CatAll(how) ==
  /\ Ends("cat", how)
  /\ \E t \in CASE how = "ok"      -> {Decode(Now)}
                [] how = "refused" -> {<<Busy>>}
                [] how = "cut"     -> Parts(Decode(Now)) :
       /\ text' = Replaced(t, TRUE)
       /\ IF Count(t) = 0 THEN Reply("notfound") ELSE Goto("tee")
  /\ UNCHANGED <<file, total>>

\* edit: the text, whose status is not looked at, is changed.
Cat(how) ==
  /\ Ends("cat", how)
  /\ \E t \in CASE how = "ok"      -> {Decode(Now)}
                [] how = "refused" -> {<<Busy>>}
                [] how = "cut"     -> Parts(Decode(Now)) :
       /\ text' = Replaced(t, call.all)
       /\ CASE Count(t) = 0               -> Reply("notfound")
            [] Count(t) > 1 /\ ~call.all  -> Reply("ambiguous")
            [] OTHER                      -> Goto("tee")
  /\ UNCHANGED <<file, total>>

\* write_file: mkdir -p && printf | tee.
Mkdir(how) ==
  /\ Ends("mkdir", how)
  /\ IF how = "ok" THEN Goto("tee") ELSE Reply("failed")
  /\ UNCHANGED <<file, text, total>>

\* mutant: edit writes the file itself
TeeInPlace(how) ==
  /\ Ends("tee", how)
  /\ IF how = "ok" THEN disk' = [disk EXCEPT ![Here] = text] /\ Reply("updated")
     ELSE \E t \in Parts(text) : disk' = [disk EXCEPT ![Here] = t] /\ Reply("failed")
  /\ UNCHANGED <<temp, text, total>>

\* tee fails below a read-only bind.  edit writes a temporary file next to the file.
Tee(how) ==
  /\ Ends("tee", how)
  /\ LET written == IF how = "refused" \/ ReadOnly(binds) THEN {Absent}
                    ELSE IF how = "ok" THEN {text} ELSE Parts(text) \cup {Absent}
         whole   == how = "ok" /\ ~ReadOnly(binds)
     IN  IF call.tool = "edit"
         THEN /\ temp' \in written /\ UNCHANGED disk
              /\ IF whole THEN Goto("mv") ELSE Goto("rm")
         ELSE /\ \E t \in written :
                   disk' = IF t = Absent THEN disk ELSE [disk EXCEPT ![Here] = t]
              /\ UNCHANGED temp
              /\ IF whole THEN Reply("written") ELSE Reply("failed")
  /\ UNCHANGED <<text, total>>

Renamed == disk' = [disk EXCEPT ![Here] = temp] /\ temp' = Absent

\* mutant: the temporary file of a failed edit stays
MvLeaves(how) ==
  /\ Ends("mv", how)
  /\ \/ how # "refused" /\ Renamed
     \/ how # "ok" /\ UNCHANGED file
  /\ IF how = "ok" THEN Reply("updated") ELSE Reply("failed")
  /\ UNCHANGED <<text, total>>

\* edit: the rename, which may have happened when mv is cut off.
Mv(how) ==
  /\ Ends("mv", how)
  /\ \/ how # "refused" /\ Renamed
     \/ how # "ok" /\ UNCHANGED file
  /\ IF how = "ok" THEN Reply("updated") ELSE Goto("rm")
  /\ UNCHANGED <<text, total>>

\* edit: best-effort cleanup.
Rm(how) ==
  /\ Ends("rm", how)
  /\ \/ how # "refused" /\ temp' = Absent
     \/ how # "ok" /\ UNCHANGED temp
  /\ Reply("failed")
  /\ UNCHANGED <<disk, text, total>>

-------------------------------------------------------------------------------

Command(how) == \/ Realpath(how) \/ Test(how) \/ Wc(how) \/ Sed(how) \/ GrepRun(how)
                \/ Cat(how) \/ Mkdir(how) \/ Tee(how) \/ Mv(how) \/ Rm(how)

Next == \/ /\ \/ \E b \in HostBinds : BindHostDir(b)
              \/ \E t \in Texts : Redirect(t) \/ HostWrites(t)
              \/ \E t \in Texts, to \in Linked : RedirectLinked(t, to)
              \/ \E c \in Calls, t \in Texts : Begin(c, t)
              \/ \E how \in {"ok", "refused", "cut"} : Command(how)
           /\ UNCHANGED links
        \/ \E at \in Places, to \in Linked : LinkMade(at, to)

Spec == Init /\ [][Next]_vars

-------------------------------------------------------------------------------
(* Properties *)

\* Is the last operation a call of this tool?
Called(tool) == /\ call.tool = tool
                /\ reply \notin {"bound", "error", "redirected", "rejected"}

\* While an edit works, and afterwards, the file is as it was or wholly replaced, and
\* no part of either, whatever fails ("the update is atomic", filetools.py:228-229).
EditAtomic == Called("edit") /\ ~touched => Now \in {before, text}

\* An edit that says so replaced what it was told to and nothing else, if cat printed
\* all of the file and that was UTF-8; one that fails left the file alone, unless the
\* mv was cut off.
EditTrue ==
  Called("edit") /\ ~touched =>
    /\ reply = "updated" /\ "cat" \notin failed /\ Decode(before) = before =>
         Now = Replaced(before, call.all)
    /\ reply \in {"missing", "notfound", "ambiguous", "failed"} /\ "mv" \notin failed =>
         Now = before

\* An edit leaves no temporary file behind, unless the rm failed, too.
TempGone == Called("edit") /\ pc = "idle" => temp = Absent \/ "rm" \in failed

\* write_file never changes a file that exists ("fails if it exists"), unless the test
\* for it failed; it says that it wrote when it wrote all, and that it did not when it
\* wrote nothing, unless the tee was cut off.
WriteTrue ==
  Called("write") /\ ~touched =>
    /\ before # Absent /\ "test" \notin failed => Now = before
    /\ reply = "written" => Now = text
    /\ reply \in {"exists", "failed"} /\ "tee" \notin failed => Now = before

\* read_file returns the lines that were asked for and tells when lines follow them, if
\* its commands ran and a newline ends the file.
ReadTrue ==
  Called("read") /\ reply = "content" /\ ~touched /\ failed = {} =>
    /\ text = Slice(Decode(before), call.start, call.limit)
    /\ Newlines(before) = Len(before) =>
         (Truncated <=> Len(before) >= call.start + call.limit)

\* grep returns the first matches, as many as were asked for and fit, and tells when
\* there are more than were asked for; it need not tell that some did not fit.
GrepTrue ==
  Called("grep") /\ reply = "matches" /\ ~touched /\ "grep" \notin failed =>
    /\ Returned = Matches(Decode(before), Least(call.limit, MaxShown))
    /\ MoreReturned <=> Count(before) > call.limit

\* A redirect that is accepted changes the file that the sandbox shows, if no more
\* than one bind is above it ("a bind mount point -> <host_path>/<rel>",
\* executor.py:335).
RedirectShown ==
  [][\A t \in Texts :
       Redirect(t) /\ Writable(binds) /\ Cardinality(Above(binds)) <= 1 => Now' = t]_vars

Allowed(pl) == \E i \in Above(binds) : PlaceOf(binds[i]) = pl /\ binds[i].mode = "rw"

\* Neither a tool nor a redirect changes anything in a host directory that no bind of
\* the session allows to be written, unless a symbolic link leads there that lies where
\* the redirect may be opened.
ReadOnlyKept ==
  [][(\E t \in Texts : HostWrites(t)) \/
     \A pl \in Places : disk'[pl] # disk[pl] /\ pl # Overlay =>
       \/ Allowed(pl)
       \/ /\ <<Opened(binds), pl>> \in links
          /\ Opened(binds) = Overlay \/ Allowed(Opened(binds))]_vars
===============================================================================
