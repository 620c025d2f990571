-------------------------- MODULE MCServerOnDevice --------------------------
(* Two connections, one after the other, and one line from elsewhere, on a *)
(* device of two slots: the third command is the first to drop one.        *)
EXTENDS ServerOnDevice, TLC

CONSTANTS c1, c2, p1, p2, p3

TwoConns  == {c1, c2}
ThreePtrs == {p1, p2, p3}
AllKinds  == {"text", "line", "seekto"}
Writes    == {"write"}
Never     == {}

SomeSeekTos == {[write_cmd |-> 1, write_cmd_offset |-> 1],
                [write_cmd |-> 1, write_cmd_offset |-> 2]}

Symmetric == Permutations(Conn) \cup Permutations(Ptr)
=============================================================================
