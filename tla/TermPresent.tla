----------------------------- MODULE TermPresent -----------------------------
(***************************************************************************)
(* How TERM shows its page on the Raspberry Pi (console/platform.cpp:1038  *)
(* and cmd_term.c:1972): a rectangle is copied to the frame buffer by DMA, *)
(* straight from the page or from one of two bounce buffers, while TERM    *)
(* goes on; what changes meanwhile is merged into one pending rectangle,   *)
(* which the completion interrupt starts.                                  *)
(*                                                                         *)
(* The interrupt may come wherever interrupts are enabled, that is between *)
(* any two actions.  DMA and CPU copy row by row.  Of what the screen and   *)
(* the buffers hold only the cells that agree with the page are kept; a    *)
(* buffer read with another rectangle than it was filled with agrees       *)
(* nowhere, nor does memory that was freed.  s_term_up_lo and s_term_up_hi *)
(* always are the rows of the pending rectangle and are not modelled.      *)
(***************************************************************************)
EXTENDS Naturals

CONSTANTS
    Height, Width,      \* of the page and the screen, in cells
    Rects,              \* what TERM presents: [top, bottom, left, right]
    MaxFailures         \* allocations that fail

VARIABLES
    screen,             \* the cells of the display that show the page
    flight,             \* the DMA transfer: on (s_term_in_flight), its
                        \* rectangle, source and the row it is at
    direct,             \* s_term_direct
    fidx, sidx,         \* s_term_flight_idx, s_term_standby_idx
    pending, prect,     \* s_term_pending, s_term_px .. s_term_ph
    bounce, cap,        \* s_term_bounce, s_term_bounce_cap
    cpu,                \* where plat_term_present_async is, with its locals
    lost, freed         \* a present gave up; a buffer was freed in flight

presentVars == <<screen, flight, direct, fidx, sidx, pending, prect, bounce, cap,
                 cpu, lost, freed>>

Page == 2                   \* a transfer's source that is no bounce buffer

Cells == (1 .. Height) \X (1 .. Width)
Whole == [top |-> 1, bottom |-> Height, left |-> 1, right |-> Width]
Area(r) == (r.top .. r.bottom) \X (r.left .. r.right)
Row(n, r) == {n} \X (r.left .. r.right)
Need(r) == (r.bottom - r.top + 1) * (r.right - r.left + 1)
Contiguous(r) == r.left = 1 /\ r.right = Width      \* stride == w

Least(a, b) == IF a < b THEN a ELSE b
Most(a, b) == IF a > b THEN a ELSE b
Union(a, b) == [top |-> Least(a.top, b.top), bottom |-> Most(a.bottom, b.bottom),
                left |-> Least(a.left, b.left), right |-> Most(a.right, b.right)]

Empty == [rect |-> Whole, cells |-> {}]
Idle == [at |-> "idle", rect |-> Whole, buf |-> 0, row |-> 0]
Landed == [on |-> FALSE, rect |-> Whole, src |-> Page, row |-> 0]

Init ==
    /\ screen = Cells
    /\ flight = Landed /\ direct = FALSE
    /\ fidx = 0 /\ sidx = 0
    /\ pending = FALSE /\ prect = Whole
    /\ bounce = [i \in 0 .. 1 |-> Empty] /\ cap = 0
    /\ cpu = Idle
    /\ lost = 0 /\ freed = FALSE

TypeOK ==
    /\ screen \subseteq Cells
    /\ \A i \in 0 .. 1 : bounce[i].cells \subseteq Area(bounce[i].rect)
    /\ flight.src \in {Page, 0, 1} /\ flight.row \in 0 .. Height + 1
    /\ {fidx, sidx} \subseteq {0, 1}
    /\ cap \in 0 .. Height * Width
    /\ cpu.at \in {"idle", "asked", "busy", "merged", "copy", "drain"}
    /\ lost \in 0 .. MaxFailures

-----------------------------------------------------------------------------
(* TERM.                                                                   *)

\* As wide as the page, and one line high.
StatusLine(r) == Contiguous(r) /\ r.top = r.bottom

\* term_draw and its like change the page and present what they changed.  A
\* page that DMA reads is first waited for (term_guard_present), save by the
\* ZMODEM status line.
Draw(r) ==
    /\ cpu.at = "idle"
    /\ ~(flight.on /\ direct) \/ StatusLine(r)
    /\ screen' = screen \ Area(r)
    /\ bounce' = [i \in 0 .. 1 |-> [bounce[i] EXCEPT !.cells = @ \ Area(r)]]
    /\ cpu' = [Idle EXCEPT !.at = "asked", !.rect = r]
    /\ UNCHANGED <<flight, direct, fidx, sidx, pending, prect, cap, lost, freed>>

-----------------------------------------------------------------------------
(* plat_term_present_async.                                                *)

\* term_present_kick
Kick(r, src) ==
    flight' = [on |-> TRUE, rect |-> r, src |-> src, row |-> r.top]

\* term_bounce_ensure: both buffers are replaced, whatever reads them, or the
\* first alone when there is memory for one.
Grown(r) == cap' = Most(cap, Need(r))
Fits(r) == cap >= Need(r)

AllocationFails(r) ==
    /\ ~Fits(r) /\ lost < MaxFailures
    /\ lost' = lost + 1
    /\ \/ bounce' = bounce /\ freed' = freed
       \/ /\ bounce' = [bounce EXCEPT ![0] = Empty]
          /\ freed' = (freed \/ (flight.on /\ flight.src = 0))

\* With no transfer under way a rectangle as wide as the page is sent from the
\* page, any other from the first buffer.
PresentDirect ==
    /\ cpu.at = "asked" /\ ~flight.on /\ Contiguous(cpu.rect)
    /\ Kick(cpu.rect, Page)
    /\ direct' = TRUE /\ fidx' = 0 /\ pending' = FALSE
    /\ cpu' = Idle
    /\ UNCHANGED <<screen, sidx, prect, bounce, cap, lost, freed>>

PresentBounced ==
    /\ cpu.at = "asked" /\ ~flight.on /\ ~Contiguous(cpu.rect)
    /\ \/ /\ Grown(cpu.rect)
          /\ bounce' = [i \in 0 .. 1 |->
               IF i = 0 THEN [rect |-> cpu.rect, cells |-> Area(cpu.rect)]
               ELSE IF Fits(cpu.rect) THEN bounce[1] ELSE Empty]
          /\ Kick(cpu.rect, 0)
          /\ direct' = FALSE /\ fidx' = 0 /\ pending' = FALSE
          /\ UNCHANGED <<lost, freed>>
       \/ /\ AllocationFails(cpu.rect)
          /\ UNCHANGED <<cap, flight, direct, fidx, pending>>
    /\ cpu' = Idle
    /\ UNCHANGED <<screen, sidx, prect>>

PresentLater ==
    /\ cpu.at = "asked" /\ flight.on
    /\ cpu' = [cpu EXCEPT !.at = "busy"]
    /\ UNCHANGED <<screen, flight, direct, fidx, sidx, pending, prect,
                   bounce, cap, lost, freed>>

\* Bug: the rectangle that is pending already is not merged.
MergeOver ==
    /\ cpu.at = "busy"
    /\ cpu' = [cpu EXCEPT !.at = "merged", !.buf = 1 - fidx]
    /\ prect' = cpu'.rect
    /\ sidx' = cpu'.buf
    /\ UNCHANGED <<screen, flight, direct, fidx, pending, bounce, cap,
                   lost, freed>>

\* term_merge_pending, with interrupts disabled.
Merge ==
    /\ cpu.at = "busy"
    /\ cpu' = [cpu EXCEPT !.at = "merged", !.buf = 1 - fidx,
                 !.rect = IF pending THEN Union(prect, @) ELSE @]
    /\ prect' = cpu'.rect
    /\ sidx' = cpu'.buf
    /\ UNCHANGED <<screen, flight, direct, fidx, pending, bounce, cap,
                   lost, freed>>

Ensure ==
    /\ cpu.at = "merged"
    /\ \/ /\ Grown(cpu.rect)
          /\ bounce' = IF Fits(cpu.rect) THEN bounce
                       ELSE [i \in 0 .. 1 |-> Empty]
          /\ freed' = (freed \/ (~Fits(cpu.rect) /\ flight.on
                                               /\ flight.src # Page))
          /\ cpu' = [cpu EXCEPT !.at = "copy", !.row = cpu.rect.top]
          /\ UNCHANGED <<lost, pending>>
       \/ /\ AllocationFails(cpu.rect)
          /\ pending' = FALSE
          /\ cpu' = Idle
          /\ UNCHANGED cap
    /\ UNCHANGED <<screen, flight, direct, fidx, sidx, prect>>

\* A row of term_copy_to_bounce.
CopyRow ==
    /\ cpu.at = "copy" /\ cpu.row <= cpu.rect.bottom
    /\ LET kept == IF bounce[cpu.buf].rect = cpu.rect
                   THEN bounce[cpu.buf].cells ELSE {}
       IN bounce' = [bounce EXCEPT ![cpu.buf] =
            [rect |-> cpu.rect, cells |-> kept \cup Row(cpu.row, cpu.rect)]]
    /\ cpu' = [cpu EXCEPT !.row = @ + 1]
    /\ UNCHANGED <<screen, flight, direct, fidx, sidx, pending, prect,
                   cap, lost, freed>>

\* Bug: DMA may have finished during the copy.
LeaveUnchecked ==
    /\ cpu.at = "copy" /\ cpu.row > cpu.rect.bottom
    /\ pending' = TRUE
    /\ cpu' = Idle
    /\ UNCHANGED <<screen, flight, direct, fidx, sidx, prect, bounce, cap,
                   lost, freed>>

\* The copy is left to the interrupt, or started here when that has come.
Leave ==
    /\ cpu.at = "copy" /\ cpu.row > cpu.rect.bottom
    /\ \/ /\ flight.on
          /\ pending' = TRUE
          /\ UNCHANGED <<flight, direct, fidx>>
       \/ /\ ~flight.on
          /\ pending' = FALSE
          /\ fidx' = cpu.buf /\ direct' = FALSE
          /\ Kick(cpu.rect, cpu.buf)
    /\ cpu' = Idle
    /\ UNCHANGED <<screen, sidx, prect, bounce, cap, lost, freed>>

\* plat_term_present_drain, on the way out of TERM and before a MODE.
DrainStart ==
    /\ cpu.at = "idle"
    /\ cpu' = [Idle EXCEPT !.at = "drain"]
    /\ UNCHANGED <<screen, flight, direct, fidx, sidx, pending, prect, bounce,
                   cap, lost, freed>>

DrainEnd ==
    /\ cpu.at = "drain" /\ ~flight.on
    /\ IF pending
       THEN /\ fidx' = sidx /\ direct' = FALSE
            /\ Kick(prect, sidx)
            /\ cpu' = cpu
       ELSE /\ cpu' = Idle
            /\ UNCHANGED <<flight, direct, fidx>>
    /\ pending' = FALSE
    /\ UNCHANGED <<screen, sidx, prect, bounce, cap, lost, freed>>

-----------------------------------------------------------------------------
(* The DMA controller and its interrupt.                                   *)

\* The cells of a rectangle that come over as the page has them.
Readable ==
    IF flight.src = Page THEN Cells
    ELSE IF bounce[flight.src].rect = flight.rect THEN bounce[flight.src].cells
    ELSE {}

Transfer ==
    /\ flight.on /\ flight.row <= flight.rect.bottom
    /\ LET row == Row(flight.row, flight.rect)
       IN screen' = (screen \ row) \cup (row \cap Readable)
    /\ flight' = [flight EXCEPT !.row = @ + 1]
    /\ UNCHANGED <<direct, fidx, sidx, pending, prect, bounce, cap, cpu, lost,
                   freed>>

\* Bug: what was started stays pending.
DoneAgain ==
    /\ flight.on /\ flight.row > flight.rect.bottom
    /\ \/ /\ pending
          /\ fidx' = sidx /\ direct' = FALSE
          /\ Kick(prect, sidx) /\ pending' = TRUE
       \/ /\ ~pending
          /\ flight' = Landed
          /\ UNCHANGED <<fidx, direct, pending>>
    /\ UNCHANGED <<screen, sidx, prect, bounce, cap, cpu, lost, freed>>

\* term_present_done
Done ==
    /\ flight.on /\ flight.row > flight.rect.bottom
    /\ \/ /\ pending
          /\ fidx' = sidx /\ direct' = FALSE
          /\ Kick(prect, sidx)
       \/ /\ ~pending
          /\ flight' = Landed
          /\ UNCHANGED <<fidx, direct>>
    /\ pending' = FALSE
    /\ UNCHANGED <<screen, sidx, prect, bounce, cap, cpu, lost, freed>>

Present == \/ PresentDirect \/ PresentBounced \/ PresentLater \/ Merge
           \/ Ensure \/ CopyRow \/ Leave

Next ==
    \/ \E r \in Rects : Draw(r)
    \/ Present \/ DrainStart \/ DrainEnd
    \/ Transfer \/ Done

\* TERM goes on, and DMA ends.
Fairness == WF_presentVars(Present) /\ WF_presentVars(DrainEnd)
            /\ WF_presentVars(Transfer) /\ WF_presentVars(Done)

Spec == Init /\ [][Next]_presentVars /\ Fairness

-----------------------------------------------------------------------------
(* Properties.                                                             *)

\* When TERM has presented what it drew and DMA is at rest, the screen shows
\* the page (plat_term_present_async): nothing that changed while a transfer
\* ran is lost or left as an old copy, whenever the interrupt came, unless
\* memory ran out or term_bounce_ensure replaced a buffer while DMA read it.
ScreenCurrent ==
    cpu.at = "idle" /\ ~flight.on /\ lost = 0 /\ ~freed => screen = Cells

\* A drain ends: no transfer is started over and over by its own end
\* (plat_term_present_drain, term_present_done).
DrainEnds == (cpu.at = "drain") ~> (cpu.at = "idle")
=============================================================================
