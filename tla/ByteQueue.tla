------------------------------ MODULE ByteQueue ------------------------------
(***************************************************************************)
(* What the terminal relies on when it buffers a network stream: a bounded *)
(* queue of bytes that takes what fits, hands bytes out in the order they  *)
(* came, and can be read ahead of without consuming.                       *)
(***************************************************************************)
EXTENDS Naturals, Sequences

CONSTANTS Byte, Zero, Capacity, MaxRequest

VARIABLES
  queue,  \* the bytes not consumed yet
  out     \* the bytes the last call moved into the queue or out of it

Requests == UNION {[1..n -> Byte] : n \in 0..MaxRequest}
Fitting(n, room) == IF n < room THEN n ELSE room

Init == queue = <<>> /\ out = <<>>

Push(src) ==
  /\ out' = SubSeq(src, 1, Fitting(Len(src), Capacity - Len(queue)))
  /\ queue' = queue \o out'

Pop(max) == LET n == Fitting(max, Len(queue))
            IN  /\ out' = SubSeq(queue, 1, n)
                /\ queue' = SubSeq(queue, n + 1, Len(queue))

Drop(max) ==
  /\ queue' = SubSeq(queue, Fitting(max, Len(queue)) + 1, Len(queue))
  /\ out' = <<>>

Peek(off, max) ==
  /\ out' = IF off < Len(queue)
            THEN SubSeq(queue, off + 1, off + Fitting(max, Len(queue) - off))
            ELSE <<>>
  /\ UNCHANGED queue

At(off) == /\ out' = <<IF off < Len(queue) THEN queue[off + 1] ELSE Zero>>
           /\ UNCHANGED queue

Reset == queue' = <<>> /\ out' = <<>>

Next == \/ \E src \in Requests : Push(src)
        \/ \E n \in 0..MaxRequest : Pop(n) \/ Drop(n) \/ At(n)
        \/ \E off, n \in 0..MaxRequest : Peek(off, n)
        \/ Reset

Spec == Init /\ [][Next]_<<queue, out>>
=============================================================================
