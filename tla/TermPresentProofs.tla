-------------------------- MODULE TermPresentProofs --------------------------
(***************************************************************************)
(* What TERM drew reaches the screen, for any page, any rectangles within  *)
(* it, and whenever the completion interrupt comes.                        *)
(***************************************************************************)
EXTENDS Services, Integers, TLAPS

Rectangle == [top : 1 .. Height, bottom : 1 .. Height,
              left : 1 .. Width, right : 1 .. Width]

\* The page has cells, and TERM presents rectangles within it.
PageSized ==
    /\ Height \in Nat \ {0} /\ Width \in Nat \ {0}
    /\ Presented \subseteq Rectangle
    /\ MaxFailures \in Nat

LEMMA PageFits == PageSized
BY PageAssumption DEF PageSized, Presented, Rectangle

Stages == {"idle", "asked", "busy", "merged", "copy", "drain"}

Typing ==
    /\ screen \subseteq Show!Cells
    /\ flight \in [on : BOOLEAN, rect : Rectangle, src : {Show!Page, 0, 1}, row : Nat]
    /\ cpu \in [at : Stages, rect : Rectangle, buf : {0, 1}, row : Nat]
    /\ prect \in Rectangle
    /\ fidx \in {0, 1} /\ sidx \in {0, 1}
    /\ pending \in BOOLEAN /\ freed \in BOOLEAN /\ lost \in Nat
    /\ bounce \in [0 .. 1 -> [rect : Rectangle, cells : SUBSET Show!Cells]]
    /\ \A i \in 0 .. 1 : bounce[i].cells \subseteq Show!Area(bounce[i].rect)

\* Where the buffers are: a buffer that DMA reads is the one of s_term_flight_idx,
\* and CPU fills the other, unless the interrupt has started that one early.
Buffers ==
    /\ pending => flight.on
    /\ flight.on /\ flight.src # Show!Page => flight.src = fidx
    /\ flight.on => flight.rect.top <= flight.row
    /\ cpu.at \in {"merged", "copy"} =>
         /\ sidx = cpu.buf /\ prect = cpu.rect
         /\ flight.on /\ flight.src = cpu.buf =>
              Show!Area(flight.rect) \subseteq Show!Area(cpu.rect)

Copied ==
    cpu.at = "copy" =>
        /\ cpu.rect.top <= cpu.row
        /\ \A c \in Show!Area(cpu.rect) : c[1] < cpu.row =>
             bounce[cpu.buf].rect = cpu.rect /\ c \in bounce[cpu.buf].cells

\* A cell that CPU is about to bring, that the pending rectangle brings, and
\* that DMA has not come to.
CpuBrings(c) ==
    cpu.at \in {"asked", "busy", "merged", "copy"} /\ c \in Show!Area(cpu.rect)
PendingBrings(c) ==
    pending /\ bounce[sidx].rect = prect /\ c \in bounce[sidx].cells
Ahead(c) == flight.on /\ c \in Show!Area(flight.rect) /\ c[1] >= flight.row

\* No cell is forgotten.
Covered ==
    /\ \A c \in Show!Cells : c \in screen \/ CpuBrings(c) \/ PendingBrings(c) \/ Ahead(c)
    /\ \A c \in Show!Cells : Ahead(c) =>
         c \in Show!Readable \/ CpuBrings(c) \/ PendingBrings(c)
    /\ pending =>
         \A c \in Show!Area(prect) : CpuBrings(c) \/ PendingBrings(c)

Well == lost = 0 /\ ~freed

PInv == Typing /\ Buffers /\ Copied /\ (Well => Covered)
-----------------------------------------------------------------------------
(* Rectangles.                                                             *)

LEMMA AreaCells ==
  ASSUME PageSized, NEW r \in Rectangle
  PROVE  /\ Show!Area(r) \subseteq Show!Cells
         /\ \A c \in Show!Area(r) : c[1] \in Nat /\ r.top <= c[1] /\ c[1] <= r.bottom
         /\ r.top \in Nat \ {0} /\ r.bottom \in Nat \ {0}
  BY DEF PageSized, Rectangle, Show!Area, Show!Cells

LEMMA CellRow ==
  ASSUME PageSized
  PROVE  \A c \in Show!Cells : c[1] \in Nat
  BY DEF PageSized, Show!Cells

LEMMA RowCells ==
  ASSUME PageSized, NEW r \in Rectangle, NEW n \in Nat, r.top <= n, n <= r.bottom
  PROVE  \A c : c \in Show!Row(n, r) <=> c \in Show!Area(r) /\ c[1] = n
  BY DEF PageSized, Rectangle, Show!Area, Show!Row

LEMMA UnionArea ==
  ASSUME PageSized, NEW a \in Rectangle, NEW b \in Rectangle
  PROVE  /\ Show!Union(a, b) \in Rectangle
         /\ Show!Area(a) \subseteq Show!Area(Show!Union(a, b))
         /\ Show!Area(b) \subseteq Show!Area(Show!Union(a, b))
<1>1. Show!Union(a, b) \in Rectangle
  BY DEF PageSized, Rectangle, Show!Union, Show!Least, Show!Most
<1>2. /\ Show!Union(a, b).top <= a.top /\ Show!Union(a, b).top <= b.top
      /\ Show!Union(a, b).bottom >= a.bottom /\ Show!Union(a, b).bottom >= b.bottom
      /\ Show!Union(a, b).left <= a.left /\ Show!Union(a, b).left <= b.left
      /\ Show!Union(a, b).right >= a.right /\ Show!Union(a, b).right >= b.right
  BY DEF PageSized, Rectangle, Show!Union, Show!Least, Show!Most
<1>3. /\ Show!Area(a) \subseteq Show!Area(Show!Union(a, b))
      /\ Show!Area(b) \subseteq Show!Area(Show!Union(a, b))
  <2> DEFINE u == Show!Union(a, b)
  <2>1. /\ a.top .. a.bottom \subseteq u.top .. u.bottom
        /\ a.left .. a.right \subseteq u.left .. u.right
        /\ b.top .. b.bottom \subseteq u.top .. u.bottom
        /\ b.left .. b.right \subseteq u.left .. u.right
    BY <1>1, <1>2 DEF PageSized, Rectangle
  <2> HIDE DEF u
  <2> QED BY <2>1 DEF Show!Area, u
<1> QED BY <1>1, <1>3

LEMMA WholeRectangle ==
  ASSUME PageSized
  PROVE  Show!Whole \in Rectangle
  BY DEF PageSized, Show!Whole, Rectangle
-----------------------------------------------------------------------------
LEMMA InitPresent ==
  ASSUME PageSized, Show!Init
  PROVE  PInv
<1>1. Typing
  BY WholeRectangle DEF Show!Init, Typing, Show!Landed, Show!Idle, Show!Empty,
      Stages, Show!Page
<1>2. Buffers /\ Copied
  BY DEF Show!Init, Buffers, Copied, Show!Landed, Show!Idle
<1>3. Covered
  BY DEF Show!Init, Covered, Show!Landed, Show!Idle, Ahead
<1> QED BY <1>1, <1>2, <1>3 DEF PInv

-----------------------------------------------------------------------------
(* One lemma for each action.                                              *)

LEMMA DrawPresent ==
  ASSUME PageSized, PInv, NEW r \in Presented, Show!Draw(r)
  PROVE  PInv'
<1>1. r \in Rectangle
  BY DEF PageSized
<1>2. Typing'
  <2>1. [Show!Idle EXCEPT !.at = "asked", !.rect = r]
          \in [at : Stages, rect : Rectangle, buf : {0, 1}, row : Nat]
    BY <1>1, WholeRectangle DEF Show!Idle, Stages
  <2>2. /\ bounce' \in [0 .. 1 -> [rect : Rectangle, cells : SUBSET Show!Cells]]
        /\ \A i \in 0 .. 1 : bounce'[i].cells \subseteq Show!Area(bounce'[i].rect)
    BY DEF Show!Draw, PInv, Typing
  <2> QED BY <2>1, <2>2 DEF Show!Draw, PInv, Typing
<1>3. Buffers' /\ Copied'
  BY DEF Show!Draw, PInv, Typing, Buffers, Copied, Show!Idle
<1>4. (Well => Covered)'
  <2> SUFFICES ASSUME Well' PROVE Covered'
    OBVIOUS
  <2>1. Covered /\ cpu.at = "idle" /\ cpu'.at = "asked" /\ cpu'.rect = r
    BY DEF Show!Draw, PInv, Well, Show!Idle
  <2>2. \A c : ~CpuBrings(c) /\ (CpuBrings(c)' <=> c \in Show!Area(r))
    BY <2>1 DEF CpuBrings
  <2>3. \A c : c \notin Show!Area(r) => /\ c \in screen => c \in screen'
                                        /\ PendingBrings(c) => PendingBrings(c)'
                                        /\ c \in Show!Readable => c \in Show!Readable'
    BY DEF Show!Draw, PInv, Typing, PendingBrings, Show!Readable
  <2>4. \A c : Ahead(c)' <=> Ahead(c)
    BY DEF Show!Draw, Ahead
  <2>5. pending' = pending /\ prect' = prect
    BY DEF Show!Draw
  <2> QED BY <2>1, <2>2, <2>3, <2>4, <2>5 DEF Covered
<1> QED BY <1>2, <1>3, <1>4 DEF PInv

LEMMA DirectPresent ==
  ASSUME PageSized, PInv, Show!PresentDirect
  PROVE  PInv'
<1>0. /\ flight' = [on |-> TRUE, rect |-> cpu.rect, src |-> Show!Page, row |-> cpu.rect.top]
      /\ cpu.rect \in Rectangle /\ cpu.rect.top \in Nat
      /\ Show!Idle \in [at : Stages, rect : Rectangle, buf : {0, 1}, row : Nat]
      /\ Show!Idle.at = "idle"
  BY AreaCells, WholeRectangle DEF Show!PresentDirect, Show!Kick, PInv,
      Typing, Show!Idle, Stages
<1>1. Typing'
  BY <1>0 DEF Show!PresentDirect, PInv, Typing
<1>2. Buffers' /\ Copied'
  BY <1>0 DEF Show!PresentDirect, Buffers, Copied
<1>3. (Well => Covered)'
  <2> SUFFICES ASSUME Well' PROVE Covered'
    OBVIOUS
  <2>1. Covered /\ cpu.at = "asked" /\ ~pending /\ ~flight.on /\ ~pending'
    BY DEF Show!PresentDirect, PInv, Well, Buffers
  <2>2. \A c \in Show!Cells : c \in screen \/ c \in Show!Area(cpu.rect)
    BY <2>1 DEF Covered, CpuBrings, PendingBrings, Ahead
  <2>3. cpu.rect \in Rectangle
    BY DEF PInv, Typing
  <2>4. \A c \in Show!Area(cpu.rect) : Ahead(c)' /\ c \in Show!Readable'
    BY <2>3, AreaCells DEF Show!PresentDirect, Show!Kick, Ahead,
        Show!Readable, Show!Page
  <2>5. \A c \in Show!Cells : c \in Show!Readable'
    BY DEF Show!PresentDirect, Show!Kick, Show!Readable
  <2>6. screen' = screen
    BY DEF Show!PresentDirect
  <2> QED BY <2>1, <2>2, <2>4, <2>5, <2>6 DEF Covered
<1> QED BY <1>1, <1>2, <1>3 DEF PInv

LEMMA FailedTyping ==
  ASSUME PageSized, PInv, Show!AllocationFails(cpu.rect)
  PROVE  /\ lost' \in Nat /\ ~Well' /\ freed' \in BOOLEAN
         /\ bounce' \in [0 .. 1 -> [rect : Rectangle, cells : SUBSET Show!Cells]]
         /\ \A i \in 0 .. 1 : bounce'[i].cells \subseteq Show!Area(bounce'[i].rect)
<1>1. Show!Empty \in [rect : Rectangle, cells : SUBSET Show!Cells]
  BY WholeRectangle DEF Show!Empty
<1> QED BY <1>1 DEF Show!AllocationFails, PInv, Typing, Well, PageSized,
    Show!Empty

LEMMA BouncedPresent ==
  ASSUME PageSized, PInv, Show!PresentBounced
  PROVE  PInv'
<1>1. /\ cpu.rect \in Rectangle /\ Show!Area(cpu.rect) \subseteq Show!Cells
      /\ Show!Empty \in [rect : Rectangle, cells : SUBSET Show!Cells] /\ Show!Empty.cells = {}
  BY WholeRectangle, AreaCells DEF PInv, Typing, Show!Empty
<1>2. Show!Idle \in [at : Stages, rect : Rectangle, buf : {0, 1}, row : Nat]
  BY WholeRectangle DEF Show!Idle, Stages
<1>3. cpu.at = "asked" /\ ~flight.on /\ ~pending /\ cpu' = Show!Idle
  BY DEF Show!PresentBounced, PInv, Buffers
<1>4. Copied' /\ ~(cpu.at \in {"merged", "copy"})'
  BY <1>3 DEF Copied, Show!Idle
<1>5. CASE Show!AllocationFails(cpu.rect)
           /\ UNCHANGED <<cap, flight, direct, fidx, pending>>
  <2>1. Typing'
    BY <1>2, <1>3, <1>5, FailedTyping DEF Show!PresentBounced, PInv, Typing
  <2>2. Buffers'
    BY <1>4, <1>5 DEF PInv, Buffers
  <2> QED BY <1>4, <1>5, <2>1, <2>2, FailedTyping DEF PInv
<1>6. CASE /\ bounce' = [i \in 0 .. 1 |->
                 IF i = 0 THEN [rect |-> cpu.rect, cells |-> Show!Area(cpu.rect)]
                 ELSE IF Show!Fits(cpu.rect) THEN bounce[1] ELSE Show!Empty]
           /\ Show!Kick(cpu.rect, 0) /\ fidx' = 0 /\ pending' = FALSE
           /\ UNCHANGED <<lost, freed>>
  <2>1. bounce'[0] = [rect |-> cpu.rect, cells |-> Show!Area(cpu.rect)]
    BY <1>6
  <2>2. bounce' \in [0 .. 1 -> [rect : Rectangle, cells : SUBSET Show!Cells]]
    BY <1>1, <1>6 DEF PInv, Typing
  <2>3. \A i \in 0 .. 1 : bounce'[i].cells \subseteq Show!Area(bounce'[i].rect)
    BY <1>1, <1>6 DEF PInv, Typing
  <2>4. /\ flight' = [on |-> TRUE, rect |-> cpu.rect, src |-> 0, row |-> cpu.rect.top]
        /\ cpu.rect.top \in Nat
    BY <1>1, <1>6, AreaCells DEF Show!Kick
  <2>5. Typing'
    BY <1>1, <1>2, <1>3, <1>6, <2>2, <2>3, <2>4 DEF Show!PresentBounced, PInv,
        Typing
  <2>6. Buffers'
    BY <1>4, <1>6, <2>4 DEF Buffers, Show!Page
  <2>7. ASSUME Well' PROVE Covered'
    <3>1. Covered /\ screen' = screen
      BY <1>6, <2>7 DEF Show!PresentBounced, PInv, Well
    <3>2. \A c \in Show!Cells : c \in screen \/ c \in Show!Area(cpu.rect)
      BY <1>3, <3>1 DEF Covered, CpuBrings, PendingBrings, Ahead
    <3>3. \A c \in Show!Area(cpu.rect) : Ahead(c)'
      BY <1>1, <2>4, AreaCells DEF Ahead
    <3>4. \A c : Ahead(c)' => c \in Show!Readable'
      BY <2>1, <2>4 DEF Ahead, Show!Readable, Show!Page
    <3> QED BY <1>6, <3>1, <3>2, <3>3, <3>4 DEF Covered
  <2> QED BY <1>4, <2>5, <2>6, <2>7 DEF PInv
<1> QED BY <1>5, <1>6 DEF Show!PresentBounced

LEMMA LaterPresent ==
  ASSUME PageSized, PInv, Show!PresentLater
  PROVE  PInv'
<1>1. /\ cpu' = [cpu EXCEPT !.at = "busy"] /\ cpu.at = "asked"
      /\ UNCHANGED <<screen, flight, fidx, sidx, pending, prect, bounce, lost, freed>>
  BY DEF Show!PresentLater
<1>2. Typing'
  BY <1>1 DEF PInv, Typing, Stages
<1>3. cpu'.at = "busy" /\ cpu'.rect = cpu.rect
  BY <1>1 DEF PInv, Typing
<1>4. Buffers' /\ Copied'
  BY <1>1, <1>3 DEF PInv, Buffers, Copied
<1>5. \A c : /\ CpuBrings(c)' <=> CpuBrings(c)
             /\ PendingBrings(c)' <=> PendingBrings(c)
             /\ Ahead(c)' <=> Ahead(c)
             /\ c \in Show!Readable' <=> c \in Show!Readable
  BY <1>1, <1>3 DEF CpuBrings, PendingBrings, Ahead, Show!Readable
<1>6. (Well => Covered)'
  BY <1>1, <1>5 DEF PInv, Well, Covered
<1> QED BY <1>2, <1>4, <1>6 DEF PInv

LEMMA MergePresent ==
  ASSUME PageSized, PInv, Show!Merge
  PROVE  PInv'
<1> DEFINE r == IF pending THEN Show!Union(prect, cpu.rect) ELSE cpu.rect
<1>1. /\ cpu' = [cpu EXCEPT !.at = "merged", !.buf = 1 - fidx, !.rect = r]
      /\ cpu.at = "busy" /\ prect' = cpu'.rect /\ sidx' = cpu'.buf
      /\ UNCHANGED <<screen, flight, fidx, pending, bounce, lost, freed>>
  BY DEF Show!Merge
<1>2. /\ r \in Rectangle /\ Show!Area(cpu.rect) \subseteq Show!Area(r)
      /\ pending => Show!Area(prect) \subseteq Show!Area(r)
  BY UnionArea DEF PInv, Typing
<1> HIDE DEF r
<1>3. 1 - fidx \in {0, 1} /\ 1 - fidx # fidx
  BY DEF PInv, Typing
<1>4. cpu'.at = "merged" /\ cpu'.rect = r /\ cpu'.buf = 1 - fidx
  BY <1>1 DEF PInv, Typing
<1>5. Typing'
  BY <1>1, <1>2, <1>3 DEF PInv, Typing, Stages
<1>6. Buffers' /\ Copied'
  BY <1>1, <1>3, <1>4 DEF PInv, Typing, Buffers, Copied, Show!Page
<1>7. \A c : /\ CpuBrings(c)' <=> c \in Show!Area(r)
             /\ CpuBrings(c) => c \in Show!Area(r)
             /\ Ahead(c)' <=> Ahead(c)
             /\ c \in Show!Readable' <=> c \in Show!Readable
  BY <1>1, <1>2, <1>4 DEF CpuBrings, Ahead, Show!Readable
<1>8. \A c : PendingBrings(c) => c \in Show!Area(r)
  BY <1>2 DEF PendingBrings, PInv, Typing
<1>9. (Well => Covered)'
  BY <1>1, <1>4, <1>7, <1>8 DEF PInv, Well, Covered
<1> QED BY <1>5, <1>6, <1>9 DEF PInv

LEMMA EnsurePresent ==
  ASSUME PageSized, PInv, Show!Ensure
  PROVE  PInv'
<1>1. /\ cpu.at = "merged"
      /\ UNCHANGED <<screen, flight, fidx, sidx, prect>>
      /\ cpu.rect \in Rectangle
      /\ Show!Empty \in [rect : Rectangle, cells : SUBSET Show!Cells] /\ Show!Empty.cells = {}
  BY WholeRectangle DEF Show!Ensure, PInv, Typing, Show!Empty
<1>2. Show!Idle \in [at : Stages, rect : Rectangle, buf : {0, 1}, row : Nat]
  BY WholeRectangle DEF Show!Idle, Stages
<1>3. CASE Show!AllocationFails(cpu.rect) /\ pending' = FALSE /\ cpu' = Show!Idle
  <2>1. Typing'
    BY <1>1, <1>2, <1>3, FailedTyping DEF PInv, Typing
  <2>2. Buffers' /\ Copied'
    BY <1>1, <1>3 DEF PInv, Buffers, Copied, Show!Idle
  <2> QED BY <2>1, <2>2, <1>3, FailedTyping DEF PInv
<1>4. CASE /\ bounce' = IF Show!Fits(cpu.rect) THEN bounce ELSE [i \in 0 .. 1 |-> Show!Empty]
           /\ freed' = (freed \/ (~Show!Fits(cpu.rect) /\ flight.on /\ flight.src # Show!Page))
           /\ cpu' = [cpu EXCEPT !.at = "copy", !.row = cpu.rect.top]
           /\ UNCHANGED <<lost, pending>>
  <2>1. cpu.rect.top \in Nat /\ \A c \in Show!Area(cpu.rect) : ~(c[1] < cpu.rect.top)
    BY <1>1, AreaCells
  <2>2. /\ cpu'.at = "copy" /\ cpu'.rect = cpu.rect /\ cpu'.buf = cpu.buf
        /\ cpu'.row = cpu.rect.top
    BY <1>4 DEF PInv, Typing
  <2>3. Typing'
    BY <1>1, <1>4, <2>1 DEF PInv, Typing, Stages
  <2>4. Buffers'
    BY <1>1, <1>4, <2>2 DEF PInv, Buffers
  <2>5. Copied'
    BY <2>1, <2>2 DEF Copied
  <2>6. ASSUME Well' PROVE Covered'
    <3>1. Covered /\ (Show!Fits(cpu.rect) \/ ~flight.on \/ flight.src = Show!Page)
      BY <1>4, <2>6 DEF PInv, Well
    <3>2. \A c : CpuBrings(c)' <=> CpuBrings(c)
      BY <1>1, <2>2 DEF CpuBrings
    <3>3. \A c : PendingBrings(c) => CpuBrings(c)
      BY <1>1 DEF PendingBrings, CpuBrings, PInv, Typing, Buffers
    <3>4. \A c : /\ Ahead(c)' <=> Ahead(c)
                 /\ Ahead(c) /\ c \in Show!Readable => c \in Show!Readable'
      BY <1>1, <1>4, <3>1 DEF Ahead, Show!Readable
    <3> QED BY <1>1, <1>4, <3>1, <3>2, <3>3, <3>4 DEF Covered
  <2> QED BY <2>3, <2>4, <2>5, <2>6 DEF PInv
<1> QED BY <1>3, <1>4 DEF Show!Ensure

LEMMA CopyPresent ==
  ASSUME PageSized, PInv, Show!CopyRow
  PROVE  PInv'
<1> DEFINE b == cpu.buf
           kept == IF bounce[b].rect = cpu.rect THEN bounce[b].cells ELSE {}
<1>1. /\ cpu.at = "copy" /\ cpu.row <= cpu.rect.bottom
      /\ bounce' = [bounce EXCEPT ![b] =
           [rect |-> cpu.rect, cells |-> kept \cup Show!Row(cpu.row, cpu.rect)]]
      /\ cpu' = [cpu EXCEPT !.row = cpu.row + 1]
      /\ UNCHANGED <<screen, flight, direct, fidx, sidx, pending, prect, lost, freed>>
  BY DEF Show!CopyRow
<1>2. /\ cpu.rect \in Rectangle /\ b \in {0, 1} /\ b \in 0 .. 1 /\ cpu.row \in Nat
      /\ Show!Area(cpu.rect) \subseteq Show!Cells
  BY AreaCells DEF PInv, Typing
<1>3. kept \subseteq Show!Area(cpu.rect)
  BY <1>2 DEF PInv, Typing
<1>4. /\ \A c : c \in Show!Row(cpu.row, cpu.rect) <=> c \in Show!Area(cpu.rect) /\ c[1] = cpu.row
      /\ \A c \in Show!Area(cpu.rect) : c[1] \in Nat
  BY <1>1, <1>2, RowCells, AreaCells DEF PInv, Copied
<1> DEFINE new == [rect |-> cpu.rect, cells |-> kept \cup Show!Row(cpu.row, cpu.rect)]
<1>5. /\ new.rect = cpu.rect /\ new.cells = kept \cup Show!Row(cpu.row, cpu.rect)
      /\ new.cells \subseteq Show!Area(cpu.rect)
      /\ new \in [rect : Rectangle, cells : SUBSET Show!Cells]
  BY <1>2, <1>3, <1>4
<1>6. \A c \in Show!Area(cpu.rect) : c[1] < cpu.row + 1 => c \in new.cells
  <2> SUFFICES ASSUME NEW c \in Show!Area(cpu.rect), c[1] < cpu.row + 1
               PROVE  c \in kept \cup Show!Row(cpu.row, cpu.rect)
    BY <1>5
  <2>1. CASE c[1] = cpu.row
    BY <1>4, <2>1
  <2>2. CASE c[1] < cpu.row
    BY <1>1, <2>2 DEF PInv, Copied
  <2> QED BY <1>2, <1>4, <2>1, <2>2
<1> HIDE DEF kept, new
<1>7. /\ bounce'[b] = new /\ \A i \in 0 .. 1 : i # b => bounce'[i] = bounce[i]
      /\ bounce' \in [0 .. 1 -> [rect : Rectangle, cells : SUBSET Show!Cells]]
  BY <1>1, <1>2, <1>5 DEF PInv, Typing, new
<1>8. /\ cpu'.at = "copy" /\ cpu'.rect = cpu.rect /\ cpu'.buf = b
      /\ cpu'.row = cpu.row + 1
      /\ cpu' \in [at : Stages, rect : Rectangle, buf : {0, 1}, row : Nat]
  BY <1>1, <1>2 DEF PInv, Typing
<1>9. \A i \in 0 .. 1 : bounce'[i].cells \subseteq Show!Area(bounce'[i].rect)
  BY <1>5, <1>7 DEF PInv, Typing
<1>10. Typing'
  BY <1>1, <1>7, <1>8, <1>9 DEF PInv, Typing
<1>11. Buffers'
  BY <1>1, <1>8 DEF PInv, Buffers
<1>12. Copied'
  <2>1. cpu.rect.top <= cpu.row + 1
    BY <1>1, <1>2, AreaCells DEF PInv, Copied
  <2> QED BY <1>5, <1>6, <1>7, <1>8, <2>1 DEF Copied
<1>13. (Well => Covered)'
  <2>1. \A c : CpuBrings(c)' <=> CpuBrings(c)
    BY <1>1, <1>8 DEF CpuBrings
  <2>2. \A c : PendingBrings(c) => CpuBrings(c)
    BY <1>1 DEF PendingBrings, CpuBrings, PInv, Typing, Buffers
  <2>3. \A c : Ahead(c)' <=> Ahead(c)
    BY <1>1 DEF Ahead
  <2>4. \A c : Ahead(c) /\ c \in Show!Readable => c \in Show!Readable' \/ CpuBrings(c)
    <3>1. CASE flight.src = Show!Page
      BY <1>1, <3>1 DEF Show!Readable
    <3>2. CASE flight.src = b
      BY <1>1, <3>2 DEF Ahead, CpuBrings, PInv, Buffers
    <3>3. CASE flight.src # Show!Page /\ flight.src # b
      <4>1. flight.src \in 0 .. 1 /\ bounce'[flight.src] = bounce[flight.src]
        BY <1>7, <3>3 DEF PInv, Typing
      <4> QED BY <1>1, <3>3, <4>1 DEF Show!Readable
    <3> QED BY <3>1, <3>2, <3>3
  <2> QED BY <1>1, <2>1, <2>2, <2>3, <2>4 DEF PInv, Well, Covered
<1> QED BY <1>10, <1>11, <1>12, <1>13 DEF PInv

LEMMA LeavePresent ==
  ASSUME PageSized, PInv, Show!Leave
  PROVE  PInv'
<1>1. /\ cpu.at = "copy" /\ cpu.row > cpu.rect.bottom /\ cpu' = Show!Idle
      /\ UNCHANGED <<screen, sidx, prect, bounce, lost, freed>>
      /\ cpu.rect \in Rectangle /\ cpu.row \in Nat /\ cpu.buf \in {0, 1}
  BY DEF Show!Leave, PInv, Typing
<1>2. /\ Show!Idle \in [at : Stages, rect : Rectangle, buf : {0, 1}, row : Nat]
      /\ Show!Idle.at = "idle"
  BY WholeRectangle DEF Show!Idle, Stages
<1>3. /\ \A c \in Show!Area(cpu.rect) : c[1] \in Nat /\ cpu.rect.top <= c[1] /\ c[1] < cpu.row
      /\ cpu.rect.top \in Nat
  BY <1>1, AreaCells
<1>4. \A c \in Show!Area(cpu.rect) :
        bounce[cpu.buf].rect = cpu.rect /\ c \in bounce[cpu.buf].cells
  BY <1>1, <1>3 DEF PInv, Copied
<1>5. Copied'
  BY <1>1, <1>2 DEF Copied
<1>6. \A c : ~CpuBrings(c)'
  BY <1>1, <1>2 DEF CpuBrings
<1>7. CASE flight.on /\ pending' = TRUE /\ UNCHANGED <<flight, direct, fidx>>
  <2>1. Typing'
    BY <1>1, <1>2, <1>7 DEF PInv, Typing
  <2>2. Buffers'
    BY <1>1, <1>2, <1>7 DEF PInv, Buffers
  <2>3. ASSUME Well' PROVE Covered'
    <3>1. Covered
      BY <1>1, <2>3 DEF PInv, Well
    <3>2. \A c : CpuBrings(c) \/ PendingBrings(c) => PendingBrings(c)'
      BY <1>1, <1>4, <1>7 DEF CpuBrings, PendingBrings, PInv, Buffers
    <3>3. \A c : (Ahead(c)' <=> Ahead(c)) /\ (c \in Show!Readable' <=> c \in Show!Readable)
      BY <1>1, <1>7 DEF Ahead, Show!Readable
    <3>4. \A c \in Show!Area(prect') : CpuBrings(c)
      BY <1>1 DEF CpuBrings, PInv, Buffers
    <3> QED BY <1>1, <3>1, <3>2, <3>3, <3>4 DEF Covered
  <2> QED BY <1>5, <2>1, <2>2, <2>3 DEF PInv
<1>8. CASE /\ ~flight.on /\ pending' = FALSE /\ fidx' = cpu.buf
           /\ Show!Kick(cpu.rect, cpu.buf)
  <2>1. flight' = [on |-> TRUE, rect |-> cpu.rect, src |-> cpu.buf, row |-> cpu.rect.top]
    BY <1>8 DEF Show!Kick
  <2>2. Typing'
    BY <1>1, <1>2, <1>3, <1>8, <2>1 DEF PInv, Typing
  <2>3. Buffers'
    BY <1>1, <1>2, <1>3, <1>8, <2>1 DEF Buffers
  <2>4. ASSUME Well' PROVE Covered'
    <3>1. Covered /\ ~pending
      BY <1>1, <1>8, <2>4 DEF PInv, Well, Buffers
    <3>2. \A c \in Show!Cells : c \in screen \/ c \in Show!Area(cpu.rect)
      BY <1>8, <3>1 DEF Covered, CpuBrings, PendingBrings, Ahead
    <3>3. \A c : Ahead(c)' <=> c \in Show!Area(cpu.rect)
      BY <1>3, <2>1 DEF Ahead
    <3>4. \A c \in Show!Area(cpu.rect) : c \in Show!Readable'
      BY <1>1, <1>4, <2>1 DEF Show!Readable, Show!Page
    <3> QED BY <1>1, <1>8, <3>2, <3>3, <3>4 DEF Covered
  <2> QED BY <1>5, <2>2, <2>3, <2>4 DEF PInv
<1> QED BY <1>7, <1>8 DEF Show!Leave

LEMMA DrainPresent ==
  ASSUME PageSized, PInv, Show!DrainStart \/ Show!DrainEnd
  PROVE  PInv'
<1>1. /\ cpu.at \in {"idle", "drain"} /\ cpu'.at \in {"idle", "drain"}
      /\ cpu' \in [at : Stages, rect : Rectangle, buf : {0, 1}, row : Nat]
      /\ UNCHANGED <<screen, flight, fidx, sidx, prect, bounce, lost, freed>>
      /\ pending' = pending
  <2>1. /\ \A at \in {"idle", "drain"} : [Show!Idle EXCEPT !.at = at]
             \in [at : Stages, rect : Rectangle, buf : {0, 1}, row : Nat]
        /\ \A at \in {"idle", "drain"} : [Show!Idle EXCEPT !.at = at].at = at
        /\ Show!Idle = [Show!Idle EXCEPT !.at = "idle"]
    BY WholeRectangle DEF Show!Idle, Stages
  <2>2. CASE Show!DrainStart
    BY <2>1, <2>2 DEF Show!DrainStart
  <2>3. CASE Show!DrainEnd
    BY <2>1, <2>3 DEF Show!DrainEnd, PInv, Typing, Buffers
  <2> QED BY <2>2, <2>3
<1>2. Typing'
  BY <1>1 DEF PInv, Typing
<1>3. Buffers' /\ Copied'
  BY <1>1 DEF PInv, Buffers, Copied
<1>4. \A c : /\ ~CpuBrings(c) /\ ~CpuBrings(c)'
             /\ PendingBrings(c)' <=> PendingBrings(c)
             /\ Ahead(c)' <=> Ahead(c)
             /\ c \in Show!Readable' <=> c \in Show!Readable
  BY <1>1 DEF CpuBrings, PendingBrings, Ahead, Show!Readable
<1>5. (Well => Covered)'
  BY <1>1, <1>4 DEF PInv, Well, Covered
<1> QED BY <1>2, <1>3, <1>5 DEF PInv

LEMMA TransferPresent ==
  ASSUME PageSized, PInv, Show!Transfer
  PROVE  PInv'
<1> DEFINE row == Show!Row(flight.row, flight.rect)
<1>1. /\ flight.on /\ flight.row <= flight.rect.bottom
      /\ screen' = (screen \ row) \cup (row \cap Show!Readable)
      /\ flight' = [flight EXCEPT !.row = flight.row + 1]
      /\ UNCHANGED <<fidx, sidx, pending, prect, bounce, cpu, lost, freed>>
  BY DEF Show!Transfer
<1>2. /\ flight.rect \in Rectangle /\ flight.row \in Nat
      /\ Show!Area(flight.rect) \subseteq Show!Cells
      /\ \A c \in Show!Area(flight.rect) : c[1] \in Nat
  BY AreaCells DEF PInv, Typing
<1>3. /\ flight'.on /\ flight'.rect = flight.rect /\ flight'.src = flight.src
      /\ flight'.row = flight.row + 1
      /\ flight' \in [on : BOOLEAN, rect : Rectangle, src : {Show!Page, 0, 1}, row : Nat]
  BY <1>1, <1>2 DEF PInv, Typing
<1>4. \A c : c \in row <=> c \in Show!Area(flight.rect) /\ c[1] = flight.row
  BY <1>1, <1>2, RowCells DEF PInv, Buffers
<1> HIDE DEF row
<1>5. screen' \subseteq Show!Cells
  BY <1>1, <1>2, <1>4 DEF PInv, Typing
<1>6. Typing'
  BY <1>1, <1>3, <1>5 DEF PInv, Typing
<1>7. Buffers' /\ Copied'
  <2>1. flight.rect.top <= flight.row + 1
    BY <1>1, <1>2, AreaCells DEF PInv, Buffers
  <2> QED BY <1>1, <1>3, <2>1 DEF PInv, Buffers, Copied
<1>8. (Well => Covered)'
  <2>1. \A c : /\ CpuBrings(c)' <=> CpuBrings(c)
               /\ PendingBrings(c)' <=> PendingBrings(c)
               /\ c \in Show!Readable' <=> c \in Show!Readable
    BY <1>1, <1>3 DEF CpuBrings, PendingBrings, Show!Readable
  <2>2. \A c \in Show!Cells : /\ Ahead(c)' => Ahead(c)
                              /\ Ahead(c) => Ahead(c)' \/ c \in row
                              /\ c \in row => Ahead(c)
    BY <1>1, <1>2, <1>3, <1>4 DEF Ahead
  <2>3. \A c \in Show!Cells : /\ c \notin row /\ c \in screen => c \in screen'
                              /\ c \in row /\ c \in Show!Readable => c \in screen'
    BY <1>1
  <2> QED BY <1>1, <2>1, <2>2, <2>3 DEF PInv, Well, Covered
<1> QED BY <1>6, <1>7, <1>8 DEF PInv

LEMMA DonePresent ==
  ASSUME PageSized, PInv, Show!Done
  PROVE  PInv'
<1>1. /\ flight.on /\ flight.row > flight.rect.bottom /\ pending' = FALSE
      /\ flight.rect \in Rectangle /\ flight.row \in Nat
      /\ UNCHANGED <<screen, sidx, prect, bounce, cpu, lost, freed>>
  BY DEF Show!Done, PInv, Typing
<1>2. \A c : ~Ahead(c)
  BY <1>1, AreaCells DEF Ahead
<1>3. Copied'
  BY <1>1 DEF PInv, Copied
<1>4. \A c : /\ CpuBrings(c)' <=> CpuBrings(c)
             /\ ~PendingBrings(c)'
  BY <1>1 DEF CpuBrings, PendingBrings
<1>5. CASE pending /\ fidx' = sidx /\ Show!Kick(prect, sidx)
  <2>1. /\ flight' = [on |-> TRUE, rect |-> prect, src |-> sidx, row |-> prect.top]
        /\ prect \in Rectangle /\ sidx \in {0, 1} /\ prect.top \in Nat
    BY <1>5, AreaCells DEF Show!Kick, PInv, Typing
  <2>2. Typing'
    BY <1>1, <1>5, <2>1 DEF PInv, Typing
  <2>3. Buffers'
    BY <1>1, <1>5, <2>1 DEF PInv, Buffers
  <2>4. ASSUME Well' PROVE Covered'
    <3>1. Covered
      BY <1>1, <2>4 DEF PInv, Well
    <3>2. \A c : Ahead(c)' <=> c \in Show!Area(prect)
      BY <2>1, AreaCells DEF Ahead
    <3>3. \A c : PendingBrings(c) => c \in Show!Area(prect) /\ c \in Show!Readable'
      BY <1>1, <2>1 DEF PendingBrings, Show!Readable, Show!Page, PInv, Typing
    <3> QED BY <1>1, <1>2, <1>4, <1>5, <3>1, <3>2, <3>3 DEF Covered
  <2> QED BY <1>3, <2>2, <2>3, <2>4 DEF PInv
<1>6. CASE ~pending /\ flight' = Show!Landed /\ UNCHANGED <<fidx, direct>>
  <2>1. /\ Show!Landed \in [on : BOOLEAN, rect : Rectangle, src : {Show!Page, 0, 1}, row : Nat]
        /\ ~Show!Landed.on
    BY WholeRectangle DEF Show!Landed
  <2>2. Typing'
    BY <1>1, <1>6, <2>1 DEF PInv, Typing
  <2>3. Buffers'
    BY <1>1, <1>6, <2>1 DEF PInv, Buffers
  <2>4. \A c : ~Ahead(c)' /\ ~PendingBrings(c)
    BY <1>6, <2>1 DEF Ahead, PendingBrings
  <2>5. (Well => Covered)'
    BY <1>1, <1>2, <1>4, <2>4 DEF PInv, Well, Covered
  <2> QED BY <1>3, <2>2, <2>3, <2>5 DEF PInv
<1> QED BY <1>5, <1>6 DEF Show!Done

LEMMA StepPresent ==
  ASSUME PageSized, PInv, [Show!Next]_screenVars
  PROVE  PInv'
<1>1. CASE UNCHANGED screenVars
  BY <1>1 DEF screenVars, PInv, Typing, Buffers, Copied, Well, Covered,
     CpuBrings, PendingBrings, Ahead, Show!Readable
<1>2. CASE \E r \in Presented : Show!Draw(r)
  BY <1>2, DrawPresent
<1>3. CASE Show!Present
  BY <1>3, DirectPresent, BouncedPresent, LaterPresent, MergePresent,
     EnsurePresent, CopyPresent, LeavePresent DEF Show!Present
<1>4. CASE Show!DrainStart \/ Show!DrainEnd
  BY <1>4, DrainPresent
<1>5. CASE Show!Transfer \/ Show!Done
  BY <1>5, TransferPresent, DonePresent
<1> QED BY <1>1, <1>2, <1>3, <1>4, <1>5 DEF Show!Next

\* The other services rest while this one is taken.
LEMMA ServicesPresent == ServicesSpec => Show!Init /\ [][Show!Next]_screenVars
<1>1. ServicesInit => Show!Init
  BY DEF ServicesInit
<1>2. [ServicesNext]_vars => [Show!Next]_screenVars
  BY DEF ServicesNext, vars
<1> QED BY <1>1, <1>2, PTL DEF ServicesSpec

\* When TERM has presented what it drew and DMA is at rest, the screen shows
\* the page (plat_term_present_async), for any page, any rectangles within it
\* and any moments at which the completion interrupt comes, unless memory ran
\* out or a buffer was replaced while DMA read it.
THEOREM ScreenTheorem == ServicesSpec => []ScreenCurrent
<1>1. PInv => ScreenCurrent
  <2> SUFFICES ASSUME PInv, cpu.at = "idle", ~flight.on, lost = 0, ~freed
               PROVE  screen = Show!Cells
    BY DEF ScreenCurrent, Show!ScreenCurrent
  <2>1. Covered /\ screen \subseteq Show!Cells /\ ~pending
    BY DEF PInv, Typing, Buffers, Well
  <2>2. \A c : ~CpuBrings(c) /\ ~PendingBrings(c) /\ ~Ahead(c)
    BY <2>1 DEF CpuBrings, PendingBrings, Ahead
  <2> QED BY <2>1, <2>2 DEF Covered
<1>2. Show!Init => PInv
  BY InitPresent, PageFits
<1>3. PInv /\ [Show!Next]_screenVars => PInv'
  BY StepPresent, PageFits
<1> QED BY <1>1, <1>2, <1>3, ServicesPresent, PTL
-----------------------------------------------------------------------------
(* What is counted has its limit.                                          *)

Limited ==
    /\ cap \in 0 .. Height * Width
    /\ lost <= MaxFailures
    /\ flight.row <= Height + 1

\* No rectangle is larger than the page, whichever way round it lies.
LEMMA NeedFits ==
  ASSUME PageSized, NEW r \in Rectangle
  PROVE  Show!Need(r) \in Int /\ Show!Need(r) <= Height * Width /\ Height * Width \in Nat
<1> DEFINE a == r.bottom - r.top + 1
           b == r.right - r.left + 1
<1>1. /\ Height \in Nat /\ Width \in Nat
      /\ a \in Int /\ a <= Height /\ 0 - a <= Height
      /\ b \in Int /\ b <= Width /\ 0 - b <= Width
  BY DEF PageSized, Rectangle
<1>2. Show!Need(r) = a * b
  BY DEF Show!Need
<1> HIDE DEF a, b
<1>3. a * b \in Int /\ a * b <= Height * Width /\ Height * Width \in Nat
  BY <1>1
<1> QED BY <1>2, <1>3

LEMMA Grows ==
  ASSUME PageSized, Limited, NEW r \in Rectangle, Show!Grown(r)
  PROVE  cap' \in 0 .. Height * Width
BY NeedFits DEF Limited, Show!Grown, Show!Most

LEMMA Kicked ==
  ASSUME PageSized, NEW r \in Rectangle, NEW src, Show!Kick(r, src)
  PROVE  flight'.row <= Height + 1
BY DEF PageSized, Rectangle, Show!Kick

LEMMA InitLimited ==
  ASSUME PageSized, Show!Init
  PROVE  Limited
<1>1. Height \in Nat /\ Width \in Nat /\ Height * Width \in Nat /\ MaxFailures \in Nat
  BY DEF PageSized
<1> QED BY <1>1 DEF Show!Init, Show!Landed, Limited

LEMMA StepLimited ==
  ASSUME PageSized, PInv, Limited, [Show!Next]_screenVars
  PROVE  Limited'
<1>0. /\ cpu.rect \in Rectangle /\ prect \in Rectangle /\ flight.rect \in Rectangle
      /\ flight \in [on : BOOLEAN, rect : Rectangle, src : {Show!Page, 0, 1}, row : Nat]
      /\ Height \in Nat /\ MaxFailures \in Nat /\ lost \in Nat
  BY DEF PInv, Typing, PageSized
<1>1. ASSUME \E r \in Rectangle : Show!AllocationFails(r) PROVE lost' <= MaxFailures
  BY <1>0, <1>1 DEF Show!AllocationFails
<1>2. CASE UNCHANGED <<cap, lost, flight>>
  BY <1>2 DEF Limited
<1>3. CASE Show!PresentDirect
  BY <1>0, <1>3, Kicked DEF Show!PresentDirect, Limited
<1>4. CASE Show!PresentBounced
  BY <1>0, <1>1, <1>4, Kicked, Grows DEF Show!PresentBounced, Limited
<1>5. CASE Show!Ensure
  BY <1>0, <1>1, <1>5, Grows DEF Show!Ensure, Limited
<1>6. CASE Show!Leave
  BY <1>0, <1>6, Kicked DEF Show!Leave, Limited
<1>7. CASE Show!DrainEnd
  BY <1>0, <1>7, Kicked DEF Show!DrainEnd, Limited
<1>8. CASE Show!Done
  BY <1>0, <1>8, Kicked DEF Show!Done, Show!Landed, Limited
<1>9. CASE Show!Transfer
  <2>1. flight.row <= Height /\ flight' = [flight EXCEPT !.row = @ + 1] /\ UNCHANGED <<cap, lost>>
    BY <1>0, <1>9 DEF Show!Transfer, Rectangle, PageSized
  <2> QED BY <1>0, <2>1 DEF Limited
<1>10. CASE \/ UNCHANGED screenVars \/ (\E r \in Presented : Show!Draw(r)) \/ Show!PresentLater
            \/ Show!Merge \/ Show!CopyRow \/ Show!DrainStart
  BY <1>2, <1>10 DEF screenVars, Show!Draw, Show!PresentLater, Show!Merge, Show!CopyRow,
     Show!DrainStart
<1> QED BY <1>3, <1>4, <1>5, <1>6, <1>7, <1>8, <1>9, <1>10 DEF Show!Next, Show!Present

LEMMA ScreenTyped == ServicesSpec => []Show!TypeOK
<1>1. PInv /\ Limited => Show!TypeOK
  BY DEF PInv, Typing, Limited, Stages, Show!TypeOK
<1>2. Show!Init => PInv /\ Limited
  BY InitPresent, InitLimited, PageFits
<1>3. PInv /\ Limited /\ [Show!Next]_screenVars => PInv' /\ Limited'
  BY StepPresent, StepLimited, PageFits
<1> QED BY <1>1, <1>2, <1>3, ServicesPresent, PTL
=============================================================================
