--------------------------- MODULE EditTimeline ---------------------------
(***************************************************************************)
(* What undo and redo promise: the edits of a project form one line of     *)
(* states; undo goes one state back, redo one forward, an edit cuts off    *)
(* what was ahead, and the far end of the past may be forgotten.  Nothing  *)
(* is ever changed behind the user's back and no state is skipped.         *)
(***************************************************************************)
EXTENDS Naturals, Sequences

CONSTANTS Empty, States

VARIABLES past, present, future

lineVars == <<past, present, future>>

Init == past = <<>> /\ present = Empty /\ future = <<>>

\* The last k states of a sequence.
LastOf(s, k) == SubSeq(s, Len(s) - k + 1, Len(s))

Edit(new) ==
    /\ present' = new
    /\ future' = <<>>
    /\ \E k \in 1..(Len(past) + 1) : past' = LastOf(Append(past, present), k)

Undo ==
    /\ past # <<>>
    /\ present' = past[Len(past)]
    /\ past' = SubSeq(past, 1, Len(past) - 1)
    /\ future' = <<present>> \o future

Redo ==
    /\ future # <<>>
    /\ present' = Head(future)
    /\ future' = Tail(future)
    /\ past' = Append(past, present)

Forget ==
    /\ \E k \in 0..Len(past) : past' = LastOf(past, k)
    /\ UNCHANGED <<present, future>>

\* Another project takes the place of this one.
Reset(new) ==
    /\ present' = new
    /\ past' = <<>>
    /\ future' = <<>>

Next == Undo \/ Redo \/ Forget \/ \E new \in States : Edit(new) \/ Reset(new)

Spec == Init /\ [][Next]_lineVars
=============================================================================
