------------------------------ MODULE MCExecutor ------------------------------
(* Model-checking instances of Executor. *)
EXTENDS Executor, TLC

CONSTANTS w, t, r, x

\* One file in each place.
MCTargets == {w, t, r, x}
MCArea == w :> "work" @@ t :> "tmp" @@ r :> "ro" @@ x :> "outside"

\* No redirect, stdout and stderr to a file, input from /workspace and /tmp, a
\* write below a read-only bind, a file outside the roots.
MCRedirs == { <<>>, <<Redirect(">", w)>>, <<Redirect("2>&1", Pipe), Redirect("<", t)>>,
              <<Redirect("<", w)>>, <<Redirect("2>", t)>>,
              <<Redirect(">>", r)>>, <<Redirect(">", x)>> }

\* Blanks, quotes, backslash, variables, a comment, what is refused and an operator.
MCChars == {"a", "2", " ", "'", "\"", "\\", "$", "{", "#", "*", ">"}

\* A pipeline with and without a redirect of stderr.
MCPipeRedirs == { <<>>, <<Redirect("2>", t)>> }
===============================================================================
