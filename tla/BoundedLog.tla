----------------------------- MODULE BoundedLog -----------------------------
(***************************************************************************)
(* What the circular buffer promises: a log of at most Capacity elements,  *)
(* oldest first, that drops its oldest element to take one more and hands  *)
(* the dropped element's memory back to the caller.                        *)
(***************************************************************************)
EXTENDS Integers, Sequences

CONSTANTS
  Capacity,     \* how many elements the log keeps
  Element,      \* what it keeps: records with a field buffptr
  Nothing       \* handed back when nothing was dropped

VARIABLES
  log,          \* the elements kept, oldest first
  handed_back   \* the memory the last Append handed back

vars == <<log, handed_back>>

Init == log = <<>> /\ handed_back = Nothing

\* There is room: the element is kept and nothing is handed back.
Grow(e) ==
  /\ Len(log) < Capacity
  /\ log' = Append(log, e)
  /\ handed_back' = Nothing

\* There is none: the oldest element makes room and its memory goes back.
Slide(e) ==
  /\ Len(log) = Capacity
  /\ log' = Append(Tail(log), e)
  /\ handed_back' = Head(log).buffptr

Next == \E e \in Element : Grow(e) \/ Slide(e)

Spec == Init /\ [][Next]_vars
=============================================================================
