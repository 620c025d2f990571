------------------------------- MODULE Writer -------------------------------
(***************************************************************************)
(* finder-app/writer.c as a process: p.state is where it is, p.did what it *)
(* has done to its file, p.code how it exits.  Each operator gives the     *)
(* set of what the process may be after the step.                          *)
(***************************************************************************)
EXTENDS Integers

CONSTANTS Failures      \* the calls that may fail: "writer_open", "writer_write"

\* What is left of a process that has ended.
Exit(p, code) ==
  [state |-> "zombie", code |-> code, did |-> p.did, fds |-> <<>>, stdio |-> <<>>]

Or(failure, p) == IF failure \in Failures THEN {p} ELSE {}

\* The arguments are a name and a string, or there are too few, or one is empty.
CheckArguments(p) == {[p EXCEPT !.state = "open"], Exit(p, 1)}

\* Regression: an open that fails is only logged.
OpenFileUnchecked(p) ==
  {[p EXCEPT !.state = "write", !.did = "truncated"]}
    \cup Or("writer_open", [p EXCEPT !.state = "close"])

\* O_TRUNC empties the file.
OpenFile(p) ==
  {[p EXCEPT !.state = "write", !.did = "truncated"]}
    \cup Or("writer_open", Exit(p, 1))

\* write takes all of the string, or a part, or fails.
WriteString(p) ==
  {[p EXCEPT !.state = "close", !.did = amount] : amount \in {"all", "part"}}
    \cup Or("writer_write", Exit(p, 1))

CloseFile(p) == {Exit(p, 0)}

Step(p) ==
  CASE p.state = "main"  -> CheckArguments(p)
    [] p.state = "open"  -> OpenFile(p)
    [] p.state = "write" -> WriteString(p)
    [] p.state = "close" -> CloseFile(p)
    [] OTHER             -> {}
=============================================================================
