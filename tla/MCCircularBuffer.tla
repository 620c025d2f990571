-------------------------- MODULE MCCircularBuffer --------------------------
(* CircularBuffer with three slots; one more pointer than slots, so that a *)
(* full buffer can still be added to and returned pointers come back.      *)
EXTENDS CircularBuffer

CONSTANTS p1, p2, p3, p4

MCPtr == {p1, p2, p3, p4}
MCSizes == 1 .. 3
=============================================================================
