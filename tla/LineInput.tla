----------------------------- MODULE LineInput -----------------------------
(***************************************************************************)
(* What the console promises to those who type and those who read: a line  *)
(* under edition and the input that readers may take, together at most     *)
(* Size characters.                                                        *)
(***************************************************************************)
EXTENDS Naturals, Sequences

CONSTANTS Chars, Size

VARIABLES ready, editing

Init == ready = <<>> /\ editing = <<>>

\* A line ends with a newline or an end of file, or when there is no room left.
Type(c) ==
  LET line == Append(editing, c) IN
  /\ Len(ready) + Len(editing) < Size
  /\ IF c \in {"nl", "eof"} \/ Len(ready) + Len(line) = Size
       THEN ready' = ready \o line /\ editing' = <<>>
       ELSE editing' = line /\ UNCHANGED ready

\* The last n characters of the line are erased; a finished line is safe.
Erase(n) ==
  /\ editing' = SubSeq(editing, 1, Len(editing) - n)
  /\ UNCHANGED ready

Take ==
  /\ ready # <<>>
  /\ ready' = Tail(ready)
  /\ UNCHANGED editing

Next ==
  \/ \E c \in Chars : Type(c)
  \/ \E n \in {1, Len(editing)} : n <= Len(editing) /\ Erase(n)
  \/ Take

Spec == Init /\ [][Next]_<<ready, editing>>

=============================================================================
