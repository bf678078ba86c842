------------------------------ MODULE NetRxBuf ------------------------------
(***************************************************************************)
(* The receive ring of a TCP session (console/net_rxbuf.c), between the    *)
(* network pump and the terminal.  A block that wraps is copied in two     *)
(* pieces; out is what a call copied, from its caller or to it.            *)
(*                                                                         *)
(* Abstracted: the null checks (mmb_net_rxbuf_init is the initial state).  *)
(* The sums stay below 2 * MMB_NET_RX_CAP, so that unsigned never wraps.   *)
(***************************************************************************)
EXTENDS Naturals, Sequences

CONSTANTS
  Byte,       \* the values a byte is told apart by
  Zero,       \* the byte 0
  Capacity,   \* MMB_NET_RX_CAP
  MaxRequest  \* the longest block or largest count a caller asks for

ASSUME CapacityAssumption == Capacity \in Nat \ {0}
ASSUME RequestAssumption == MaxRequest \in Nat
ASSUME ZeroAssumption == Zero \in Byte

VARIABLES data, head, tail, used, out

ringVars == <<data, head, tail, used, out>>
-----------------------------------------------------------------------------
Lesser(a, b) == IF a < b THEN a ELSE b
Wrapped(i) == IF i >= Capacity THEN i - Capacity ELSE i

Blocks == UNION {[1..n -> Byte] : n \in 0..MaxRequest}

\* Bug: the first piece is measured from the wrong end.
StoredFromHead(src, n, at) ==
  LET first == Lesser(Capacity - head, n)
  IN  [i \in 0..Capacity - 1 |->
         IF at <= i /\ i < at + first THEN src[i - at + 1]
         ELSE IF i < n - first THEN src[first + i + 1] ELSE data[i]]

\* memcpy from src into the ring at position at, in two pieces.
Stored(src, n, at) ==
  LET first == Lesser(Capacity - at, n)
  IN  [i \in 0..Capacity - 1 |->
         IF at <= i /\ i < at + first THEN src[i - at + 1]
         ELSE IF i < n - first THEN src[first + i + 1] ELSE data[i]]

\* memcpy of n bytes out of the ring from position at, in two pieces.
Loaded(n, at) ==
  LET first == Lesser(Capacity - at, n)
  IN  [i \in 1..n |-> IF i <= first THEN data[at + i - 1] ELSE data[i - first - 1]]
-----------------------------------------------------------------------------
Init ==
  /\ data \in [0..Capacity - 1 -> Byte]
  /\ head = 0 /\ tail = 0 /\ used = 0
  /\ out = <<>>

\* Bug: the room is not tested.
PushUnbounded(src) ==
  /\ data' = Stored(src, Lesser(Len(src), Capacity), tail)
  /\ tail' = Wrapped(tail + Lesser(Len(src), Capacity))
  /\ used' = used + Lesser(Len(src), Capacity)
  /\ out' = SubSeq(src, 1, Lesser(Len(src), Capacity))
  /\ UNCHANGED head

Push(src) ==
  LET n == Lesser(Len(src), Capacity - used)
  IN  /\ data' = Stored(src, n, tail)
      /\ tail' = Wrapped(tail + n)
      /\ used' = used + n
      /\ out' = SubSeq(src, 1, n)
      /\ UNCHANGED head

\* What Pop and Drop do to the ring.
Consume(n) ==
  /\ head' = Wrapped(head + n)
  /\ used' = used - n
  /\ UNCHANGED <<data, tail>>

Pop(max) == LET n == Lesser(max, used)
            IN  Consume(n) /\ out' = Loaded(n, head)

Drop(max) == Consume(Lesser(max, used)) /\ out' = <<>>

Peek(off, max) ==
  /\ out' = IF off >= used THEN <<>>
            ELSE Loaded(Lesser(max, used - off), Wrapped(head + off))
  /\ UNCHANGED <<data, head, tail, used>>

At(off) ==
  /\ out' = <<IF off >= used THEN Zero ELSE data[Wrapped(head + off)]>>
  /\ UNCHANGED <<data, head, tail, used>>

\* Bug: the write position is left where it was.
ResetKeepsTail == /\ head' = 0 /\ used' = 0 /\ out' = <<>>
                  /\ UNCHANGED <<data, tail>>

Reset == head' = 0 /\ tail' = 0 /\ used' = 0 /\ out' = <<>> /\ UNCHANGED data

Next == \/ \E src \in Blocks : Push(src)
        \/ \E n \in 0..MaxRequest : Pop(n) \/ Drop(n) \/ At(n)
        \/ \E off, n \in 0..MaxRequest : Peek(off, n)
        \/ Reset

Spec == Init /\ [][Next]_ringVars
-----------------------------------------------------------------------------
TypeOK ==
  /\ data \in [0..Capacity - 1 -> Byte]
  /\ head \in 0..Capacity - 1
  /\ tail \in 0..Capacity - 1
  /\ used \in 0..Capacity
  /\ out \in Seq(Byte)

\* The three cursors, which no operation sets together, stay consistent: the next
\* byte is written where the unread ones end.
CursorsAgree == tail = Wrapped(head + used)

\* The unread bytes, oldest first.
Queue == [i \in 1..used |-> data[Wrapped(head + i - 1)]]

Q == INSTANCE ByteQueue WITH queue <- Queue

\* The ring is a queue: whatever wraps, is cut short or is read ahead, the bytes
\* come out complete and in order (tests/net_rxbuf_host.c walks one such path).
InOrder == Q!Spec
=============================================================================
