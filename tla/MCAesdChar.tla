----------------------------- MODULE MCAesdChar -----------------------------
(* Two threads and two slots.  The pieces written let a command be written *)
(* at once or be put together from several, with sizes that tell apart the *)
(* positions; three addresses are the two slots and the cached entry, which *)
(* krealloc can move as long as a slot is free.                            *)
EXTENDS AesdCharProperties, TLC

CONSTANTS t1, t2, f1, f2, p1, p2, p3, a, nl

OneThread  == {t1}
TwoThreads == {t1, t2}
OneFile    == {f1}
TwoFiles   == {f1, f2}
TwoPtrs    == {p1, p2}
ThreePtrs  == {p1, p2, p3}

Pieces      == {<<a>>, <<a, nl>>}
Terminated  == {<<>>, <<nl>>, <<a, nl>>}
NothingOrAll == {<<>>, <<a, nl>>}
ReadSizes   == {2}

NoSeeks     == {}
SomeSeeks   == {<<1, "SEEK_CUR">>, <<-1, "SEEK_END">>}
SomeSeekTos == {[write_cmd |-> 0, write_cmd_offset |-> 1],
                [write_cmd |-> 1, write_cmd_offset |-> 0],
                [write_cmd |-> 2, write_cmd_offset |-> 0]}

NoSignals   == {}
LlseekOnly  == {"llseek"}
AllSignals  == {"read", "write", "llseek", "ioctl"}

Symmetric == Permutations(Ptr) \cup Permutations(Thread) \cup Permutations(File)
=============================================================================
