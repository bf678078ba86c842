---------------------------- MODULE PaintHistory ----------------------------
(***************************************************************************)
(* What undo and redo of PAINT promise (the comment at the top of          *)
(* paint_undo.c): the pictures of a session form a line, on which undo and *)
(* redo move one edit back or forth and change nothing; an edit forgets    *)
(* what lies ahead, and what lies further back than the depth.             *)
(***************************************************************************)
EXTENDS Naturals, Sequences

CONSTANTS Picture, Steps

VARIABLES
    line,       \* the pictures, oldest first
    here        \* the position of the one on the canvas

historyVars == <<line, here>>

Latest(s) == IF Len(s) > Steps + 1 THEN Tail(s) ELSE s

Init == \E p \in Picture : line = <<p>> /\ here = 1

Edit(p) ==
    /\ line' = Latest(Append(SubSeq(line, 1, here), p))
    /\ here' = Len(line')

\* Without memory for a snapshot the picture is painted over; a full history
\* has lost its oldest picture for it.
PaintOver(p) ==
    LET past == SubSeq(line, 1, here - 1)
    IN  /\ line' = Append(IF Len(past) >= Steps THEN Tail(past) ELSE past, p)
        /\ here' = Len(line')

Undo == here > 1 /\ here' = here - 1 /\ UNCHANGED line
Redo == here < Len(line) /\ here' = here + 1 /\ UNCHANGED line

\* Save keeps the picture only, New, Open and Clear bring one of their own.
Forget(p) == line' = <<p>> /\ here' = 1

Next ==
    \/ \E p \in Picture : Edit(p) \/ PaintOver(p) \/ Forget(p)
    \/ Undo \/ Redo

Spec == Init /\ [][Next]_historyVars
=============================================================================
