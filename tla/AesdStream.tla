----------------------------- MODULE AesdStream -----------------------------
(***************************************************************************)
(* What /dev/aesdchar promises its callers: a write appends to the command *)
(* being put together, a command that has got its newline joins the last   *)
(* Capacity commands, and a read gives a piece of one of them.  Each call  *)
(* takes effect in one step, between its start and its return.             *)
(***************************************************************************)
EXTENDS Integers, SequencesExt

CONSTANTS
  Thread,       \* the callers
  NL,           \* the byte that ends a command
  Capacity,     \* how many commands are kept
  Piece,        \* the bytes a write may add
  ReadSize,     \* the sizes of the buffers callers read into
  NoReply       \* a thread that has no reply waiting

VARIABLES
  commands,     \* the commands kept, oldest first
  partial,      \* the bytes written since the last newline
  reply         \* per thread, what its read or write is about to return

vars == <<commands, partial, reply>>

Init ==
  /\ commands = <<>>
  /\ partial = <<>>
  /\ reply = [t \in Thread |-> NoReply]

Taken(t, piece) == reply' = [reply EXCEPT ![t] = [taken |-> Len(piece)]]

\* A piece without a newline extends the command being put together.
Extend(t, piece) ==
  /\ ~Contains(partial \o piece, NL)
  /\ partial' = partial \o piece
  /\ Taken(t, piece)
  /\ UNCHANGED commands

\* A piece with one completes it, and only the last Capacity commands stay.
Complete(t, piece) ==
  /\ Contains(partial \o piece, NL)
  /\ commands' = Append(IF Len(commands) < Capacity THEN commands
                        ELSE Tail(commands), partial \o piece)
  /\ partial' = <<>>
  /\ Taken(t, piece)

\* At most n bytes of the stream from pos on, up to the end of the command
\* that holds the byte at pos.
Excerpt(pos, n) ==
  LET ends  == {Len(FlattenSeq(SubSeq(commands, 1, i))) :
                  i \in 1 .. Len(commands)}
      later == {e \in ends : e > pos}
  IN  IF later = {} THEN <<>>
      ELSE SubSeq(FlattenSeq(commands), pos + 1, Min({pos + n, Min(later)}))

Read(t, pos, n) ==
  /\ reply' = [reply EXCEPT ![t] = [given |-> Excerpt(pos, n)]]
  /\ UNCHANGED <<commands, partial>>

Return(t) ==
  /\ reply[t] # NoReply
  /\ reply' = [reply EXCEPT ![t] = NoReply]
  /\ UNCHANGED <<commands, partial>>

\* The module is unloaded: what was written is gone.
Reset ==
  /\ commands' = <<>>
  /\ partial' = <<>>
  /\ UNCHANGED reply

Next ==
  \/ \E t \in Thread :
       \/ \E piece \in Piece : Extend(t, piece) \/ Complete(t, piece)
       \/ \E pos \in 0 .. Len(FlattenSeq(commands)), n \in ReadSize :
            Read(t, pos, n)
       \/ Return(t)
  \/ Reset

Spec == Init /\ [][Next]_vars
=============================================================================
