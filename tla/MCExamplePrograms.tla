------------------------- MODULE MCExamplePrograms -------------------------
(* Two threads of a program, two calls in all, two threads to be started.  *)
EXTENDS ExamplePrograms

CONSTANTS t1, t2, w1, w2

TwoCallers == {t1, t2}
TwoStarts  == {w1, w2}
Commands   == {"writer", "missing"}
AllStd     == {0, 1, 2}
AnyCall    == {"open", "fork", "waitpid", "dup2", "writer_open", "writer_write"}
AnyFault   == {"malloc", "create"}
=============================================================================
