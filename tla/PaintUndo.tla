----------------------------- MODULE PaintUndo -----------------------------
(***************************************************************************)
(* Undo and redo of one PAINT session (paint_undo.c), with the menu        *)
(* actions that forget the history (paint_menus.c, paint_file.c) and the   *)
(* test for unsaved changes, which is made of the depths shown.            *)
(*                                                                         *)
(* Abstracted: the pictures; the canvas keeps its size and eight snapshots *)
(* fit into PT_UNDO_BUDGET, as they do for every canvas PAINT allows.      *)
(***************************************************************************)
EXTENDS Naturals, Sequences, SequencesExt

CONSTANTS
    Pictures, Blank,    \* what a canvas may look like
    Depth,              \* MMB_UNDO_DEPTH
    MaxRefused          \* allocations that fail

VARIABLES
    canvas,             \* PT.canvas
    undo, redo,         \* UNDO.undo and UNDO.redo, oldest first
    shownUndo, shownRedo,   \* PT.undo_depth, PT.redo_depth
    stored,             \* the picture in the file, or of a new canvas
    blurred,            \* the canvas was cleared, or an edit not recorded,
                        \* since it was last stored
    refused             \* allocations that failed so far

paintVars == <<canvas, undo, redo, shownUndo, shownRedo, stored, blurred, refused>>

Init ==
    /\ canvas = Blank /\ stored = Blank
    /\ undo = <<>> /\ redo = <<>>
    /\ shownUndo = 0 /\ shownRedo = 0
    /\ blurred = FALSE /\ refused = 0

TypeOK ==
    /\ {canvas, stored} \subseteq Pictures
    /\ undo \in Seq(Pictures) /\ redo \in Seq(Pictures)
    /\ Len(undo) + Len(redo) <= Depth       \* as the comment in the file says
    /\ shownUndo \in 0 .. Depth /\ shownRedo \in 0 .. Depth
    /\ blurred \in BOOLEAN /\ refused \in 0 .. MaxRefused

\* sync_depths
SyncDepths == shownUndo' = Len(undo') /\ shownRedo' = Len(redo')

\* Bug: a full stack grows.
TrimmedNever(stack) == stack

\* The stack without its oldest snapshot when it is full.
Trimmed(stack) == IF Len(stack) >= Depth THEN Tail(stack) ELSE stack

\* Bug: the steps undone are kept across an edit.
PushKeepsRedo(p) ==
    /\ canvas' = p
    /\ undo' = Append(Trimmed(undo), canvas)
    /\ UNCHANGED <<redo, blurred, refused>>
    /\ SyncDepths

\* pt_undo_push and the edit that follows it.  A push that gets no memory has
\* cleared the steps undone all the same, and leaves the depths as shown.
Push(p) ==
    /\ canvas' = p
    /\ redo' = <<>>
    /\ \/ /\ undo' = Append(Trimmed(undo), canvas)
          /\ SyncDepths
          /\ UNCHANGED <<blurred, refused>>
       \/ /\ refused < MaxRefused
          /\ refused' = refused + 1
          /\ undo' = Trimmed(undo)
          /\ blurred' = TRUE
          /\ UNCHANGED <<shownUndo, shownRedo>>

Edit(p) == Push(p) /\ UNCHANGED stored

\* Without memory pt_undo and pt_redo change nothing.
Undo ==
    /\ undo # <<>>
    /\ redo' = Append(Trimmed(redo), canvas)
    /\ canvas' = Last(undo)
    /\ undo' = Front(undo)
    /\ SyncDepths
    /\ UNCHANGED <<stored, blurred, refused>>

Redo ==
    /\ redo # <<>>
    /\ undo' = Append(Trimmed(undo), canvas)
    /\ canvas' = Last(redo)
    /\ redo' = Front(redo)
    /\ SyncDepths
    /\ UNCHANGED <<stored, blurred, refused>>

\* pt_undo_clear
Clean == undo' = <<>> /\ redo' = <<>> /\ SyncDepths /\ UNCHANGED refused

Save ==
    /\ stored' = canvas
    /\ blurred' = FALSE
    /\ Clean /\ UNCHANGED canvas

\* File > New and File > Open, which ask first when something is unsaved.
Replace(p) ==
    /\ canvas' = p /\ stored' = p
    /\ blurred' = FALSE
    /\ Clean

\* Edit > Clear, which always asks: "the cleared image is the new baseline".
Clear ==
    /\ canvas' = Blank
    /\ blurred' = TRUE
    /\ Clean /\ UNCHANGED stored

Next ==
    \/ \E p \in Pictures : Edit(p) \/ Replace(p)
    \/ Undo \/ Redo \/ Save \/ Clear

Spec == Init /\ [][Next]_paintVars

\* Bug: only the steps that can be undone count.
UnsavedUndoOnly == shownUndo > 0

\* unsaved: what New, Open and Quit go by before they discard the canvas.
Unsaved == shownUndo > 0 \/ shownRedo > 0

-----------------------------------------------------------------------------
(* Properties.                                                             *)

\* A picture that is not the stored one is never discarded unasked, however
\* many edits were undone, redone or dropped from the history, unless it was
\* cleared or memory ran out.
DiscardsAsked == canvas # stored /\ ~blurred => Unsaved

History == INSTANCE PaintHistory
    WITH Picture <- Pictures, Steps <- Depth,
         line <- undo \o <<canvas>> \o Reverse(redo),
         here <- Len(undo) + 1

\* The two stacks of snapshots are one line of pictures with a position: undo
\* and redo go back and forth over the same pictures, in order, whatever was
\* trimmed from the stacks and whatever allocations failed.
OneLine == History!Spec
=============================================================================
