------------------------------- MODULE MCFiles -------------------------------
(* The model-checking instance of Files. *)
EXTENDS Files, TLC

CONSTANTS h1, h2, cwd, ssh, sub, old, new, raw, repl, unended, busy, absent

\* Two directories of the user, the one that the server was launched from, and one
\* that must not be bound.
MCClass == h1 :> "user" @@ h2 :> "elsewhere" @@ cwd :> "user" @@ ssh :> "hidden"

\* No file, one and two matches, a line that is not UTF-8, a last line without newline.
MCStarts == { absent, <<old, new>>, <<old, old>>, <<raw, old>>, <<old, unended>> }
MCTexts  == { <<new, old>> }

\* Links lead to a directory that no bind shows, and to one that a bind may show.
MCLinked == { <<ssh, Root>>, <<h1, sub>> }

\* No bind, a read-only one, and one that may be written.
MCGiven == { <<>>, <<Bind(h1, sub, "ro")>>, <<Bind(h1, sub, "rw")>> }
===============================================================================
