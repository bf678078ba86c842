--------------------------- MODULE TerminalProofs ---------------------------
(***************************************************************************)
(* The receive ring is a queue, for every capacity and every block size; a *)
(* connection belongs to the console that dialled it, and its bytes reach  *)
(* no other session, for any consoles and any number of bytes; the files   *)
(* that ZMODEM keeps are whole, for any number of files and of blocks.     *)
(***************************************************************************)
EXTENDS Terminal, SequenceTheorems, TLAPS

RingInv == TypeOK /\ CursorsAgree

\* A function on 1..n is a sequence of length n.
LEMMA FunctionSeq ==
  ASSUME NEW S, NEW n \in Nat, NEW f \in [1..n -> S]
  PROVE  f \in Seq(S) /\ Len(f) = n
BY SMT

\* The ring's index never leaves the array.
LEMMA WrappedIn ==
  ASSUME NEW i \in 0..2 * Capacity - 1
  PROVE  /\ Wrapped(i) \in 0..Capacity - 1
         /\ Wrapped(i) = IF i < Capacity THEN i ELSE i - Capacity
BY CapacityAssumption, SMT DEF Wrapped

\* What a load hands out: the bytes from a position on, in ring order.
LEMMA LoadedBytes ==
  ASSUME data \in [0..Capacity - 1 -> Byte],
         NEW n \in 0..Capacity, NEW at \in 0..Capacity - 1
  PROVE  /\ Loaded(n, at) \in Seq(Byte) /\ Len(Loaded(n, at)) = n
         /\ \A i \in 1..n : Loaded(n, at)[i] = data[Wrapped(at + i - 1)]
<1>1. \A i \in 1..n :
        (IF i <= Lesser(Capacity - at, n) THEN data[at + i - 1]
         ELSE data[i - Lesser(Capacity - at, n) - 1])
          = data[Wrapped(at + i - 1)]
  BY CapacityAssumption, SMT DEF Lesser, Wrapped
<1>2. \A i \in 1..n : Wrapped(at + i - 1) \in 0..Capacity - 1
  BY CapacityAssumption, SMT DEF Wrapped
<1>3. Loaded(n, at) = [i \in 1..n |-> data[Wrapped(at + i - 1)]]
  BY <1>1 DEF Loaded
<1> DEFINE f == [i \in 1..n |-> data[Wrapped(at + i - 1)]]
<1>4. f \in [1..n -> Byte] /\ n \in Nat /\ \A i \in 1..n : f[i] = data[Wrapped(at + i - 1)]
  <2>1. n \in Nat
    BY CapacityAssumption, SMT
  <2> QED BY <1>2, <2>1
<1> HIDE DEF f
<1>5. f \in Seq(Byte) /\ Len(f) = n
  BY <1>4, FunctionSeq
<1> QED BY <1>3, <1>4, <1>5 DEF f

\* The unread bytes of a ring, in the old state or the new one, are a sequence.
QueueOf(d, h, u) == [i \in 1..u |-> d[Wrapped(h + i - 1)]]

LEMMA QueueBytes ==
  ASSUME NEW d \in [0..Capacity - 1 -> Byte], NEW h \in 0..Capacity - 1,
         NEW u \in 0..Capacity
  PROVE  /\ QueueOf(d, h, u) \in Seq(Byte) /\ Len(QueueOf(d, h, u)) = u
         /\ \A i \in 1..u : QueueOf(d, h, u)[i] = d[Wrapped(h + i - 1)]
<1>1. \A i \in 1..u : Wrapped(h + i - 1) \in 0..Capacity - 1
  BY CapacityAssumption, SMT DEF Wrapped
<1>2. QueueOf(d, h, u) \in [1..u -> Byte] /\ u \in Nat
  <2>1. u \in Nat
    BY CapacityAssumption, SMT
  <2> QED BY <1>1, <2>1 DEF QueueOf
<1> QED BY <1>2, FunctionSeq DEF QueueOf
-----------------------------------------------------------------------------
\* A block of at most MaxRequest bytes.
LEMMA BlockSeq ==
  ASSUME NEW src \in Blocks
  PROVE  src \in Seq(Byte) /\ Len(src) \in 0..MaxRequest
<1>1. PICK n \in 0..MaxRequest : src \in [1..n -> Byte]
  BY DEF Blocks
<1> QED BY <1>1, FunctionSeq, RequestAssumption

\* The part of a block that fits is stored behind the unread bytes, and none of
\* them is overwritten.
LEMMA StoredBytes ==
  ASSUME RingInv, NEW src \in Seq(Byte), NEW n \in 0..Capacity,
         n <= Len(src), n <= Capacity - used
  PROVE  /\ Stored(src, n, tail) \in [0..Capacity - 1 -> Byte]
         /\ \A i \in 1..used : Stored(src, n, tail)[Wrapped(head + i - 1)]
                                 = data[Wrapped(head + i - 1)]
         /\ \A i \in 1..n : Stored(src, n, tail)[Wrapped(head + used + i - 1)]
                              = src[i]
<1> DEFINE first == Lesser(Capacity - tail, n)
           new == [j \in 0..Capacity - 1 |->
                     IF tail <= j /\ j < tail + first THEN src[j - tail + 1]
                     ELSE IF j < n - first THEN src[first + j + 1] ELSE data[j]]
<1>1. Stored(src, n, tail) = new
  BY DEF Stored
<1>2. /\ head \in 0..Capacity - 1 /\ tail \in 0..Capacity - 1
      /\ used \in 0..Capacity /\ tail = Wrapped(head + used)
      /\ data \in [0..Capacity - 1 -> Byte]
      /\ Capacity \in Nat \ {0} /\ Len(src) \in Nat
  BY CapacityAssumption, LenProperties DEF RingInv, TypeOK, CursorsAgree
<1>3. \A i \in 1..Len(src) : src[i] \in Byte
  BY ElementOfSeq
<1>4. ASSUME NEW j \in 0..Capacity - 1
      PROVE  (IF tail <= j /\ j < tail + first THEN src[j - tail + 1]
              ELSE IF j < n - first THEN src[first + j + 1] ELSE data[j]) \in Byte
  <2>1. CASE tail <= j /\ j < tail + first
    <3>1. j - tail + 1 \in 1..Len(src)
      BY <1>2, <2>1, SMT DEF Lesser
    <3> QED BY <1>3, <2>1, <3>1
  <2>2. CASE ~(tail <= j /\ j < tail + first) /\ j < n - first
    <3>1. first + j + 1 \in 1..Len(src)
      BY <1>2, <2>2, SMTT(30) DEF Lesser
    <3> QED BY <1>3, <2>2, <3>1
  <2>3. CASE ~(tail <= j /\ j < tail + first) /\ ~(j < n - first)
    BY <1>2, <2>3
  <2> QED BY <2>1, <2>2, <2>3
<1>5. new \in [0..Capacity - 1 -> Byte]
  BY <1>4
<1>6. ASSUME NEW i \in 1..used
      PROVE  new[Wrapped(head + i - 1)] = data[Wrapped(head + i - 1)]
  <2> DEFINE j == Wrapped(head + i - 1)
  <2>1. j \in 0..Capacity - 1
    BY <1>2, SMT DEF Wrapped
  <2>2. ~(tail <= j /\ j < tail + first) /\ ~(j < n - first)
    BY <1>2, SMT DEF Wrapped, Lesser
  <2> HIDE DEF j
  <2>3. new[j] = data[j]
    BY <2>1, <2>2
  <2> QED BY <2>3 DEF j
<1>7. ASSUME NEW i \in 1..n
      PROVE  new[Wrapped(head + used + i - 1)] = src[i]
  <2> DEFINE j == Wrapped(head + used + i - 1)
  <2>1. CASE i <= first
    <3>1. /\ j \in 0..Capacity - 1 /\ tail <= j /\ j < tail + first
          /\ j - tail + 1 = i
      BY <1>2, <2>1, SMT DEF Wrapped, Lesser
    <3> HIDE DEF j
    <3>2. new[j] = src[i]
      BY <3>1
    <3> QED BY <3>2 DEF j
  <2>2. CASE i > first
    <3>1. /\ j \in 0..Capacity - 1 /\ ~(tail <= j /\ j < tail + first)
          /\ j < n - first /\ first + j + 1 = i
      BY <1>2, <2>2, SMT DEF Wrapped, Lesser
    <3> HIDE DEF j, first
    <3>2. new[j] = src[first + j + 1]
      BY <3>1
    <3> QED BY <3>1, <3>2 DEF j
  <2> QED BY <1>2, <2>1, <2>2, SMT DEF Lesser
<1> QED BY <1>1, <1>5, <1>6, <1>7
-----------------------------------------------------------------------------
\* Push appends what it took.
LEMMA PushStep ==
  ASSUME RingInv, NEW src \in Blocks, Push(src)
  PROVE  /\ RingInv'
         /\ Q!Push(src)
<1> DEFINE n == Lesser(Len(src), Capacity - used)
<1>1. /\ head \in 0..Capacity - 1 /\ tail \in 0..Capacity - 1
      /\ used \in 0..Capacity /\ tail = Wrapped(head + used)
      /\ data \in [0..Capacity - 1 -> Byte]
      /\ Capacity \in Nat \ {0} /\ src \in Seq(Byte) /\ Len(src) \in Nat
  BY BlockSeq, CapacityAssumption, LenProperties DEF RingInv, TypeOK, CursorsAgree
<1>2. n \in 0..Capacity /\ n <= Len(src) /\ n <= Capacity - used
  BY <1>1, SMT DEF Lesser
<1>3. /\ data' = Stored(src, n, tail) /\ tail' = Wrapped(tail + n)
      /\ used' = used + n /\ out' = SubSeq(src, 1, n) /\ head' = head
  BY DEF Push
<1> HIDE DEF n
<1>4. /\ data' \in [0..Capacity - 1 -> Byte]
      /\ \A i \in 1..used : data'[Wrapped(head + i - 1)] = data[Wrapped(head + i - 1)]
      /\ \A i \in 1..n : data'[Wrapped(head + used + i - 1)] = src[i]
  BY <1>1, <1>2, <1>3, StoredBytes, Zenon
<1>5. /\ tail' \in 0..Capacity - 1 /\ used' \in 0..Capacity
      /\ tail' = Wrapped(head' + used')
  BY <1>1, <1>2, <1>3, SMTT(30) DEF Wrapped
<1>6. out' \in Seq(Byte) /\ Len(out') = n /\ \A i \in 1..n : out'[i] = src[i]
  <2>1. \A i \in 1..n : src[i] \in Byte
    <3>1. \A i \in 1..n : i \in 1..Len(src)
      BY <1>1, <1>2, SMT
    <3> QED BY <1>1, <3>1, ElementOfSeq
  <2> QED BY <1>1, <1>2, <1>3, <2>1, SubSeqProperties, SMT
<1>7. RingInv'
  BY <1>1, <1>3, <1>4, <1>5, <1>6 DEF RingInv, TypeOK, CursorsAgree
<1>8. Queue = QueueOf(data, head, used) /\ Queue' = QueueOf(data', head', used')
  BY DEF Queue, QueueOf
<1>9. /\ Queue \in Seq(Byte) /\ Len(Queue) = used
      /\ \A i \in 1..used : Queue[i] = data[Wrapped(head + i - 1)]
      /\ Queue' \in Seq(Byte) /\ Len(Queue') = used + n
      /\ \A i \in 1..used + n : Queue'[i] = data'[Wrapped(head + i - 1)]
  <2>1. /\ Queue \in Seq(Byte) /\ Len(Queue) = used
        /\ \A i \in 1..used : Queue[i] = data[Wrapped(head + i - 1)]
    BY <1>1, <1>8, QueueBytes
  <2>2. /\ Queue' \in Seq(Byte) /\ Len(Queue') = used'
        /\ \A i \in 1..used' : Queue'[i] = data'[Wrapped(head' + i - 1)]
    <3>1. head' \in 0..Capacity - 1
      BY <1>1, <1>3
    <3>2. Queue' = QueueOf(data', head', used')
      BY <1>8
    <3> QED BY <1>4, <1>5, <3>1, <3>2, QueueBytes, Zenon
  <2> QED BY <1>3, <2>1, <2>2
<1>10. Queue' = Queue \o out'
  <2> DEFINE joined == Queue \o out'
  <2>1. /\ joined \in Seq(Byte) /\ Len(joined) = used + n
        /\ \A i \in 1..used + n :
             joined[i] = IF i <= used THEN Queue[i] ELSE out'[i - used]
    BY <1>6, <1>9, ConcatProperties
  <2>2. ASSUME NEW i \in 1..used + n PROVE Queue'[i] = joined[i]
    <3>1. CASE i <= used
      <4>1. i \in 1..used
        BY <1>1, <3>1, SMT
      <4> QED BY <1>4, <1>9, <2>1, <3>1, <4>1
    <3>2. CASE ~(i <= used)
      <4>1. i - used \in 1..n /\ head + used + (i - used) - 1 = head + i - 1
        BY <1>1, <1>2, <3>2, SMT
      <4>2. data'[Wrapped(head + i - 1)] = src[i - used]
        BY <1>4, <4>1
      <4> QED BY <1>6, <1>9, <2>1, <3>2, <4>1, <4>2
    <3> QED BY <3>1, <3>2
  <2> HIDE DEF joined
  <2>3. Queue' = joined
    BY <1>9, <2>1, <2>2, SeqEqual
  <2> QED BY <2>3 DEF joined
<1>11. Q!Fitting(Len(src), Capacity - Len(Queue)) = n
  BY <1>9 DEF Q!Fitting, n, Lesser
<1> QED BY <1>3, <1>7, <1>10, <1>11 DEF Q!Push

\* Pop and Drop take bytes off the front.
LEMMA ConsumeStep ==
  ASSUME RingInv, NEW n \in 0..used, Consume(n), out' \in Seq(Byte)
  PROVE  /\ RingInv'
         /\ Queue' = SubSeq(Queue, n + 1, Len(Queue))
<1>1. /\ head \in 0..Capacity - 1 /\ tail \in 0..Capacity - 1
      /\ used \in 0..Capacity /\ tail = Wrapped(head + used)
      /\ data \in [0..Capacity - 1 -> Byte] /\ Capacity \in Nat \ {0}
  BY CapacityAssumption DEF RingInv, TypeOK, CursorsAgree
<1>2. /\ head' = Wrapped(head + n) /\ used' = used - n
      /\ data' = data /\ tail' = tail
  BY DEF Consume
<1>3. /\ head' \in 0..Capacity - 1 /\ used' \in 0..Capacity
      /\ tail' = Wrapped(head' + used')
  BY <1>1, <1>2, SMT DEF Wrapped
<1>4. RingInv'
  BY <1>1, <1>2, <1>3 DEF RingInv, TypeOK, CursorsAgree
<1>5. Queue = QueueOf(data, head, used) /\ Queue' = QueueOf(data', head', used')
  BY DEF Queue, QueueOf
<1>6. /\ Queue \in Seq(Byte) /\ Len(Queue) = used
      /\ \A i \in 1..used : Queue[i] = data[Wrapped(head + i - 1)]
      /\ Queue' \in Seq(Byte) /\ Len(Queue') = used - n
      /\ \A i \in 1..used - n : Queue'[i] = data[Wrapped(head' + i - 1)]
  <2>1. /\ Queue \in Seq(Byte) /\ Len(Queue) = used
        /\ \A i \in 1..used : Queue[i] = data[Wrapped(head + i - 1)]
    BY <1>1, <1>5, QueueBytes
  <2>2. /\ Queue' \in Seq(Byte) /\ Len(Queue') = used'
        /\ \A i \in 1..used' : Queue'[i] = data'[Wrapped(head' + i - 1)]
    <3>1. data' \in [0..Capacity - 1 -> Byte]
      BY <1>1, <1>2
    <3>2. Queue' = QueueOf(data', head', used')
      BY <1>5
    <3> QED BY <1>3, <3>1, <3>2, QueueBytes, Zenon
  <2> QED BY <1>2, <2>1, <2>2
<1>7. \A i \in n + 1..used : Queue[i] \in Byte
  <2>1. \A i \in n + 1..used : i \in 1..Len(Queue)
    BY <1>1, <1>6, SMT
  <2> QED BY <1>6, <2>1, ElementOfSeq
<1> DEFINE rest == SubSeq(Queue, n + 1, used)
<1>8. /\ rest \in Seq(Byte) /\ Len(rest) = used - n
      /\ \A i \in 1..used - n : rest[i] = Queue[n + i]
  <2>1. /\ rest \in Seq(Byte)
        /\ Len(rest) = IF n + 1 <= used THEN used - (n + 1) + 1 ELSE 0
        /\ \A i \in 1..used - (n + 1) + 1 : rest[i] = Queue[n + 1 + i - 1]
    BY <1>1, <1>7, SubSeqProperties
  <2>2. /\ used - (n + 1) + 1 = used - n /\ (~(n + 1 <= used) => used - n = 0)
        /\ \A i \in 1..used - n : n + 1 + i - 1 = n + i
    BY <1>1, SMT
  <2> HIDE DEF rest
  <2> QED BY <2>1, <2>2
<1>9. ASSUME NEW i \in 1..used - n PROVE Queue'[i] = rest[i]
  <2>1. n + i \in 1..used /\ Wrapped(head' + i - 1) = Wrapped(head + (n + i) - 1)
    BY <1>1, <1>2, SMT DEF Wrapped
  <2> HIDE DEF rest
  <2> QED BY <1>6, <1>8, <2>1
<1> HIDE DEF rest
<1>10. Queue' = rest
  BY <1>6, <1>8, <1>9, SeqEqual
<1> QED BY <1>4, <1>6, <1>10 DEF rest

\* A load of n bytes from an offset is that part of the queue.
LEMMA LoadedQueue ==
  ASSUME RingInv, NEW off \in 0..used, NEW n \in 0..used, off + n <= used,
         off < used \/ (off = 0 /\ n = 0)
  PROVE  /\ Loaded(n, Wrapped(head + off)) = SubSeq(Queue, off + 1, off + n)
         /\ Loaded(n, Wrapped(head + off)) \in Seq(Byte)
<1>1. /\ head \in 0..Capacity - 1 /\ used \in 0..Capacity
      /\ data \in [0..Capacity - 1 -> Byte] /\ Capacity \in Nat \ {0}
  BY CapacityAssumption DEF RingInv, TypeOK
<1>2. /\ Queue \in Seq(Byte) /\ Len(Queue) = used
      /\ \A i \in 1..used : Queue[i] = data[Wrapped(head + i - 1)]
  <2>1. Queue = QueueOf(data, head, used)
    BY DEF Queue, QueueOf
  <2> QED BY <1>1, <2>1, QueueBytes
<1> DEFINE at == Wrapped(head + off)
           piece == SubSeq(Queue, off + 1, off + n)
           bytes == Loaded(n, at)
<1>3. at \in 0..Capacity - 1 /\ n \in 0..Capacity
  BY <1>1, SMT DEF Wrapped
<1>4. /\ bytes \in Seq(Byte) /\ Len(bytes) = n
      /\ \A i \in 1..n : bytes[i] = data[Wrapped(at + i - 1)]
  BY <1>1, <1>3, LoadedBytes
<1>5. /\ piece \in Seq(Byte) /\ Len(piece) = n
      /\ \A i \in 1..n : piece[i] = Queue[off + i]
  <2>1. \A i \in off + 1..off + n : Queue[i] \in Byte
    <3>1. \A i \in off + 1..off + n : i \in 1..Len(Queue)
      BY <1>1, <1>2, SMT
    <3> QED BY <1>2, <3>1, ElementOfSeq
  <2>2. /\ piece \in Seq(Byte)
        /\ Len(piece) = IF off + 1 <= off + n THEN off + n - (off + 1) + 1 ELSE 0
        /\ \A i \in 1..off + n - (off + 1) + 1 : piece[i] = Queue[off + 1 + i - 1]
    BY <1>1, <2>1, SubSeqProperties
  <2>3. /\ off + n - (off + 1) + 1 = n /\ (~(off + 1 <= off + n) => n = 0)
        /\ \A i \in 1..n : off + 1 + i - 1 = off + i
    BY <1>1, SMT
  <2> HIDE DEF piece
  <2> QED BY <2>2, <2>3
<1>6. ASSUME NEW i \in 1..n PROVE bytes[i] = piece[i]
  <2>1. off + i \in 1..used /\ Wrapped(at + i - 1) = Wrapped(head + (off + i) - 1)
    BY <1>1, SMT DEF Wrapped
  <2> HIDE DEF piece, bytes, at
  <2> QED BY <1>2, <1>4, <1>5, <2>1
<1> HIDE DEF piece, bytes
<1>7. bytes = piece
  BY <1>4, <1>5, <1>6, SeqEqual
<1> QED BY <1>4, <1>7 DEF piece, bytes
-----------------------------------------------------------------------------
\* Every step keeps the cursors consistent and is a step of the queue.
LEMMA RingStep ==
  ASSUME RingInv, [Next]_ringVars
  PROVE  RingInv' /\ [Q!Next]_<<Queue, out>>
<1>1. /\ head \in 0..Capacity - 1 /\ tail \in 0..Capacity - 1
      /\ used \in 0..Capacity /\ used \in Nat /\ tail = Wrapped(head + used)
      /\ data \in [0..Capacity - 1 -> Byte] /\ Capacity \in Nat \ {0}
  BY CapacityAssumption, SMT DEF RingInv, TypeOK, CursorsAgree
<1>2. Queue \in Seq(Byte) /\ Len(Queue) = used
      /\ \A i \in 1..used : Queue[i] = data[Wrapped(head + i - 1)]
  <2>1. Queue = QueueOf(data, head, used)
    BY DEF Queue, QueueOf
  <2> QED BY <1>1, <2>1, QueueBytes
<1>3. <<>> \in Seq(Byte) /\ Wrapped(head) = head /\ Wrapped(head + 0) = head
  BY <1>1, EmptySeq, SMT DEF Wrapped
<1>4. \A m \in 0..MaxRequest : /\ m \in Nat /\ Lesser(m, used) \in 0..used
                               /\ Q!Fitting(m, Len(Queue)) = Lesser(m, used)
  BY <1>1, <1>2, RequestAssumption, SMT DEF Lesser, Q!Fitting
<1>5. ASSUME NEW src \in Blocks, Push(src) PROVE RingInv' /\ Q!Next
  <2>1. RingInv' /\ Q!Push(src)
    BY <1>5, PushStep
  <2>2. src \in Q!Requests
    BY DEF Blocks, Q!Requests
  <2> QED BY <2>1, <2>2 DEF Q!Next
<1>6. ASSUME NEW m \in 0..MaxRequest, Pop(m) PROVE RingInv' /\ Q!Next
  <2> DEFINE n == Lesser(m, used)
  <2>1. Consume(n) /\ out' = Loaded(n, head)
    BY <1>6 DEF Pop
  <2>2. n \in 0..used /\ Q!Fitting(m, Len(Queue)) = n
    BY <1>4
  <2> HIDE DEF n
  <2>3. 0 \in 0..used /\ 0 + n <= used /\ 0 + n = n /\ 0 + 1 = 1
        /\ (0 < used \/ (0 = 0 /\ n = 0))
    BY <1>1, <2>2, SMT
  <2>4. out' = SubSeq(Queue, 1, n) /\ out' \in Seq(Byte)
    BY <1>3, <2>1, <2>2, <2>3, LoadedQueue
  <2>5. RingInv' /\ Queue' = SubSeq(Queue, n + 1, Len(Queue))
    BY <2>1, <2>2, <2>4, ConsumeStep
  <2>6. Q!Pop(m)
    BY <2>2, <2>4, <2>5 DEF Q!Pop
  <2> QED BY <2>5, <2>6 DEF Q!Next
<1>7. ASSUME NEW m \in 0..MaxRequest, Drop(m) PROVE RingInv' /\ Q!Next
  <2> DEFINE n == Lesser(m, used)
  <2>1. Consume(n) /\ out' = <<>>
    BY <1>7 DEF Drop
  <2>2. n \in 0..used /\ Q!Fitting(m, Len(Queue)) = n
    BY <1>4
  <2> HIDE DEF n
  <2>3. RingInv' /\ Queue' = SubSeq(Queue, n + 1, Len(Queue))
    BY <1>3, <2>1, <2>2, ConsumeStep
  <2>4. Q!Drop(m)
    BY <2>1, <2>2, <2>3 DEF Q!Drop
  <2> QED BY <2>3, <2>4 DEF Q!Next
<1>8. ASSUME NEW off \in 0..MaxRequest, NEW m \in 0..MaxRequest, Peek(off, m)
      PROVE  RingInv' /\ Q!Next
  <2>1. /\ UNCHANGED <<data, head, tail, used>>
        /\ out' = IF off >= used THEN <<>>
                  ELSE Loaded(Lesser(m, used - off), Wrapped(head + off))
    BY <1>8 DEF Peek
  <2>2. Queue' = Queue
    BY <2>1 DEF Queue
  <2>3. CASE off >= used
    <3>1. ~(off < Len(Queue)) /\ out' = <<>>
      BY <1>1, <1>2, <1>4, <2>1, <2>3, SMT
    <3>2. RingInv'
      BY <1>3, <2>1, <3>1 DEF RingInv, TypeOK, CursorsAgree
    <3>3. Q!Peek(off, m)
      BY <2>2, <3>1 DEF Q!Peek
    <3> QED BY <3>2, <3>3 DEF Q!Next
  <2>4. CASE ~(off >= used)
    <3> DEFINE n == Lesser(m, used - off)
    <3>1. /\ off < Len(Queue) /\ off < used /\ off \in 0..used /\ n \in 0..used
          /\ off + n <= used /\ Q!Fitting(m, Len(Queue) - off) = n
      BY <1>1, <1>2, <1>4, <2>4, SMT DEF Lesser, Q!Fitting
    <3>2. out' = Loaded(n, Wrapped(head + off))
      BY <2>1, <2>4
    <3> HIDE DEF n
    <3>3. out' = SubSeq(Queue, off + 1, off + n) /\ out' \in Seq(Byte)
      BY <3>1, <3>2, LoadedQueue
    <3>4. RingInv'
      BY <2>1, <3>3 DEF RingInv, TypeOK, CursorsAgree
    <3>5. Q!Peek(off, m)
      BY <2>2, <3>1, <3>3 DEF Q!Peek
    <3> QED BY <3>4, <3>5 DEF Q!Next
  <2> QED BY <2>3, <2>4
<1>9. ASSUME NEW off \in 0..MaxRequest, At(off) PROVE RingInv' /\ Q!Next
  <2>1. /\ UNCHANGED <<data, head, tail, used>>
        /\ out' = <<IF off >= used THEN Zero ELSE data[Wrapped(head + off)]>>
    BY <1>9 DEF At
  <2>2. Queue' = Queue
    BY <2>1 DEF Queue
  <2> DEFINE b == IF off < Len(Queue) THEN Queue[off + 1] ELSE Zero
  <2>3. out' = <<b>>
    <3>1. CASE off >= used
      <4>1. ~(off < Len(Queue))
        BY <1>1, <1>2, <1>4, <3>1, SMT
      <4> QED BY <2>1, <3>1, <4>1
    <3>2. CASE ~(off >= used)
      <4>1. off < Len(Queue) /\ off + 1 \in 1..used /\ head + (off + 1) - 1 = head + off
        BY <1>1, <1>2, <1>4, <3>2, SMT
      <4>2. Queue[off + 1] = data[Wrapped(head + off)]
        BY <1>2, <4>1
      <4> QED BY <2>1, <3>2, <4>1, <4>2
    <3> QED BY <3>1, <3>2
  <2>4. b \in Byte
    <3>1. off < Len(Queue) => off + 1 \in 1..Len(Queue)
      BY <1>1, <1>2, <1>4, SMT
    <3> QED BY <1>2, <3>1, ElementOfSeq, ZeroAssumption
  <2>5. Q!At(off)
    BY <2>2, <2>3 DEF Q!At
  <2> HIDE DEF b
  <2>6. out' \in Seq(Byte)
    BY <2>3, <2>4, SMT
  <2>7. RingInv'
    BY <2>1, <2>6 DEF RingInv, TypeOK, CursorsAgree
  <2> QED BY <2>5, <2>7 DEF Q!Next
<1>10. CASE Reset
  <2>1. /\ head' = 0 /\ tail' = 0 /\ used' = 0 /\ out' = <<>> /\ data' = data
    BY <1>10 DEF Reset
  <2>2. RingInv'
    <3>1. 0 \in 0..Capacity - 1 /\ 0 \in 0..Capacity /\ Wrapped(0 + 0) = 0
      BY <1>1, SMT DEF Wrapped
    <3> QED BY <1>1, <1>3, <2>1, <3>1 DEF RingInv, TypeOK, CursorsAgree
  <2>3. Queue' = <<>>
    <3>1. Queue' = QueueOf(data', head', used')
      BY DEF Queue, QueueOf
    <3>2. 0 \in 0..Capacity - 1 /\ 0 \in 0..Capacity
      BY <1>1, SMT
    <3>3. Queue' \in Seq(Byte) /\ Len(Queue') = 0
      BY <1>1, <2>1, <3>1, <3>2, QueueBytes
    <3> QED BY <3>3, EmptySeq
  <2>4. Q!Reset
    BY <2>1, <2>3 DEF Q!Reset
  <2> QED BY <2>2, <2>4 DEF Q!Next
<1>11. CASE UNCHANGED ringVars
  <2>1. UNCHANGED <<data, head, tail, used, out>>
    BY <1>11 DEF ringVars
  <2>2. RingInv'
    BY <2>1 DEF RingInv, TypeOK, CursorsAgree
  <2>3. UNCHANGED <<Queue, out>>
    BY <2>1 DEF Queue
  <2> QED BY <2>2, <2>3
<1> QED BY <1>5, <1>6, <1>7, <1>8, <1>9, <1>10, <1>11 DEF Next

\* The ring starts empty.
LEMMA RingInit ==
  ASSUME Init
  PROVE  RingInv /\ Q!Init
<1>1. /\ 0 \in 0..Capacity - 1 /\ 0 \in 0..Capacity /\ Wrapped(0 + 0) = 0
      /\ <<>> \in Seq(Byte)
  BY CapacityAssumption, EmptySeq, SMT DEF Wrapped
<1>2. RingInv
  BY <1>1 DEF Init, RingInv, TypeOK, CursorsAgree
<1>3. Queue = <<>>
  <2>1. Queue = QueueOf(data, head, used)
    BY DEF Queue, QueueOf
  <2>2. Queue \in Seq(Byte) /\ Len(Queue) = 0
    BY <1>1, <2>1, QueueBytes DEF Init
  <2> QED BY <2>2, EmptySeq
<1> QED BY <1>2, <1>3 DEF Init, Q!Init

\* What Terminal does is a behaviour of the ring, which rests while another part
\* is taken.
LEMMA TerminalRing == TerminalSpec => Init /\ [][Next]_ringVars
<1>1. TerminalInit => Init
  BY DEF TerminalInit
<1>2. [TerminalNext]_vars => [Next]_ringVars
  BY DEF TerminalNext, vars
<1> QED BY <1>1, <1>2, PTL DEF TerminalSpec

\* No sequence of calls drives a cursor out of the ring or hands out what is not
\* a byte of it.
THEOREM RingTyping == TerminalSpec => []TypeOK
<1>1. Init => RingInv
  BY RingInit
<1>2. RingInv /\ [Next]_ringVars => RingInv'
  BY RingStep
<1>3. RingInv => TypeOK
  BY DEF RingInv
<1> QED BY <1>1, <1>2, <1>3, TerminalRing, PTL

\* The write position is always the end of the unread bytes.
THEOREM RingCursors == TerminalSpec => []CursorsAgree
<1>1. Init => RingInv
  BY RingInit
<1>2. RingInv /\ [Next]_ringVars => RingInv'
  BY RingStep
<1>3. RingInv => CursorsAgree
  BY DEF RingInv
<1> QED BY <1>1, <1>2, <1>3, TerminalRing, PTL

\* The ring implements the queue: bytes come out complete and in order.
THEOREM RingInOrder == TerminalSpec => InOrder
<1>1. Init => RingInv /\ Q!Init
  BY RingInit
<1>2. RingInv /\ [Next]_ringVars => RingInv' /\ [Q!Next]_<<Queue, out>>
  BY RingStep
<1> QED BY <1>1, <1>2, TerminalRing, PTL DEF InOrder, Q!Spec

-----------------------------------------------------------------------------
(* The users of the socket.                                                *)

\* The part of TypeOK that the arguments need.
Shape ==
    /\ term \in [Consoles ->
         {"off", "idle", "canned", "connecting", "tcp", "lost"}]
    /\ connect \in [Consoles -> BOOLEAN]
    /\ tcpfile \in [Consoles -> BOOLEAN]
    /\ sock \in [state : {"idle", "connecting", "connected", "closed",
                          "failed"},
                 by : Consoles \cup {Nobody}]
    /\ arrived \in Nat

SInv == Shape /\ Tcp!SocketOwned

\* Where nobody uses TERM, who has a session open owns the socket, and what
\* has arrived came in on the owner's connection.
Apart ==
    "term" \notin uses =>
        /\ \A c \in Consoles : term[c] = "off"
        /\ \A c \in Consoles : connect[c] \/ tcpfile[c] => owner = c
        /\ \A c \in Consoles : ~(connect[c] /\ tcpfile[c])
        /\ arrived > 0 => sock.by = owner
        /\ strays = {}

BInv == SInv /\ Apart
-----------------------------------------------------------------------------
(* What the helpers do to the socket.                                      *)

States == {"idle", "connecting", "connected", "closed", "failed"}

LEMMA HangupSock ==
  ASSUME Tcp!Hangup
  PROVE  /\ sock' \in [state : States, by : Consoles \cup {Nobody}]
         /\ arrived' = 0 /\ arrived' \in Nat /\ owner' = Nobody
         /\ Tcp!SocketOwned'
  BY DEF Tcp!Hangup, Tcp!Idle, Tcp!SocketOwned, States

LEMMA DialledSock ==
  ASSUME NEW c \in Consoles, Tcp!Dialled(c)
  PROVE  /\ sock' \in [state : States, by : Consoles \cup {Nobody}]
         /\ arrived' = 0 /\ arrived' \in Nat /\ owner' = c
         /\ Tcp!SocketOwned'
  BY DEF Tcp!Dialled, Tcp!SocketOwned, States

LEMMA DialFailsSock ==
  ASSUME Tcp!DialFails
  PROVE  /\ sock' \in [state : States, by : Consoles \cup {Nobody}]
         /\ arrived' = 0 /\ arrived' \in Nat
         /\ Tcp!SocketOwned'
  BY DEF Tcp!DialFails, Tcp!SocketOwned, States

LEMMA SameSock ==
  ASSUME SInv, UNCHANGED <<owner, sock>>
  PROVE  /\ sock' \in [state : States, by : Consoles \cup {Nobody}]
         /\ Tcp!SocketOwned'
  BY DEF SInv, Shape, Tcp!SocketOwned, States
-----------------------------------------------------------------------------
(* TERM.                                                                   *)

LEMMA StartTermStep ==
  ASSUME SInv, NEW c \in Consoles, Tcp!StartTerm(c)
  PROVE  SInv'
<1>1. UNCHANGED <<connect, tcpfile>>
  BY DEF Tcp!StartTerm, Tcp!TermRefused, Tcp!TermCanned, Tcp!TermIdle,
      Tcp!TermHost, Tcp!TermStarted
<1>2. term' \in [Consoles -> {"off", "idle", "canned", "connecting", "tcp", "lost"}]
  BY DEF Tcp!StartTerm, Tcp!TermRefused, Tcp!TermCanned, Tcp!TermIdle,
     Tcp!TermHost, Tcp!TermStarted, SInv, Shape
<1>3. \/ UNCHANGED <<owner, sock, arrived>>
      \/ Tcp!Dialled(c)
      \/ Tcp!DialFails
  BY DEF Tcp!StartTerm, Tcp!TermRefused, Tcp!TermCanned, Tcp!TermIdle,
      Tcp!TermHost
<1>4. /\ sock' \in [state : States, by : Consoles \cup {Nobody}]
      /\ arrived' \in Nat /\ Tcp!SocketOwned'
  BY <1>3, SameSock, DialledSock, DialFailsSock DEF SInv, Shape
<1> QED BY <1>1, <1>2, <1>4 DEF SInv, Shape, States

LEMMA BookmarkStep ==
  ASSUME SInv, NEW c \in Consoles, Tcp!Bookmark(c)
  PROVE  SInv'
<1>1. UNCHANGED <<connect, tcpfile>>
  BY DEF Tcp!Bookmark
<1>2. term' \in [Consoles -> {"off", "idle", "canned", "connecting", "tcp", "lost"}]
  BY DEF Tcp!Bookmark, SInv, Shape
<1>3. Tcp!Dialled(c) \/ Tcp!DialFails \/ Tcp!Hangup \/ UNCHANGED <<owner, sock, arrived>>
  BY DEF Tcp!Bookmark
<1>4. /\ sock' \in [state : States, by : Consoles \cup {Nobody}]
      /\ arrived' \in Nat /\ Tcp!SocketOwned'
  BY <1>3, SameSock, DialledSock, DialFailsSock, HangupSock DEF SInv, Shape
<1> QED BY <1>1, <1>2, <1>4 DEF SInv, Shape, States

LEMMA LeaveTermStep ==
  ASSUME SInv, NEW c \in Consoles, Tcp!LeaveTerm(c)
  PROVE  SInv'
  BY HangupSock DEF Tcp!LeaveTerm, SInv, Shape, States

LEMMA ServeTermStep ==
  ASSUME SInv, NEW c \in Consoles, Tcp!ServeTerm(c)
  PROVE  SInv'
<1>1. UNCHANGED <<connect, tcpfile>> /\ Tcp!TermPoll(c)
  BY DEF Tcp!ServeTerm, Tcp!TermPoll
<1>2. term' \in [Consoles -> {"off", "idle", "canned", "connecting", "tcp", "lost"}]
  BY <1>1 DEF Tcp!TermPoll, Tcp!TermConnecting, Tcp!TermIngest,
      Tcp!TermReport, SInv, Shape
<1>3. \/ UNCHANGED <<owner, sock>> /\ arrived' \in {arrived, 0}
      \/ Tcp!Hangup
  BY <1>1 DEF Tcp!TermPoll, Tcp!TermConnecting, Tcp!TermIngest, Tcp!TermReport
<1>4. /\ sock' \in [state : States, by : Consoles \cup {Nobody}]
      /\ arrived' \in Nat /\ Tcp!SocketOwned'
  BY <1>3, SameSock, HangupSock DEF SInv, Shape
<1> QED BY <1>1, <1>2, <1>4 DEF SInv, Shape, States
-----------------------------------------------------------------------------
(* CONNECT and TCP files.                                                  *)

LEMMA StartConnectStep ==
  ASSUME Nobody \notin Consoles, BInv, NEW c \in Consoles, Tcp!StartConnect(c)
  PROVE  BInv'
<1> USE DEF BInv
<1>1. CASE /\ sock' = [state |-> "connected", by |-> c]
           /\ arrived' = 0 /\ owner' = c
           /\ connect' = [connect EXCEPT ![c] = TRUE]
  <2>1. SInv'
    BY <1>1 DEF Tcp!StartConnect, SInv, Shape, Tcp!SocketOwned
  <2>2. Apart'
    BY <1>1 DEF Tcp!StartConnect, Tcp!Free, Apart, SInv, Shape
  <2> QED BY <2>1, <2>2
<1>2. CASE Tcp!DialFails /\ UNCHANGED <<owner, connect>>
  <2>1. SInv'
    BY <1>2, DialFailsSock DEF Tcp!StartConnect, SInv, Shape, States
  <2>2. Apart'
    BY <1>2, DialFailsSock DEF Tcp!StartConnect, Apart
  <2> QED BY <2>1, <2>2
<1> QED BY <1>1, <1>2 DEF Tcp!StartConnect

LEMMA LeaveConnectStep ==
  ASSUME Nobody \notin Consoles, BInv, NEW c \in Consoles, Tcp!LeaveConnect(c)
  PROVE  BInv'
<1> USE DEF BInv
<1>1. SInv'
  BY HangupSock DEF Tcp!LeaveConnect, SInv, Shape, States
<1>2. Apart'
  <2> SUFFICES ASSUME "term" \notin uses PROVE Apart'
    BY DEF Tcp!LeaveConnect, Apart
  <2>1. \A d \in Consoles : connect[d] \/ tcpfile[d] => d = c /\ ~tcpfile[c]
    BY DEF Tcp!LeaveConnect, Apart
  <2>2. \A d \in Consoles : ~connect'[d] /\ ~tcpfile'[d]
    BY <2>1 DEF Tcp!LeaveConnect, SInv, Shape
  <2> QED BY <2>2, HangupSock DEF Tcp!LeaveConnect, Apart
<1> QED BY <1>1, <1>2

\* What is received is read by the owner of the connection.
LEMMA ReceivedStep ==
  ASSUME BInv, NEW c \in Consoles, connect[c] \/ tcpfile[c], Tcp!Received(c)
  PROVE  BInv'
<1> USE DEF BInv
<1>1. /\ UNCHANGED <<term, connect, tcpfile, owner, sock, uses>>
      /\ arrived > 0 /\ arrived' = 0
  BY DEF Tcp!Received
<1>2. SInv'
  BY <1>1 DEF SInv, Shape, Tcp!SocketOwned
<1>3. "term" \notin uses => strays' = strays
  BY DEF Tcp!Received, Tcp!Shown, Apart
<1>4. Apart'
  BY <1>1, <1>3 DEF Apart
<1> QED BY <1>2, <1>4

LEMMA ServeConnectStep ==
  ASSUME Nobody \notin Consoles, BInv, NEW c \in Consoles, Tcp!ServeConnect(c)
  PROVE  BInv'
<1>1. CASE connect[c] /\ Tcp!Received(c)
  BY <1>1, ReceivedStep
<1>2. CASE Tcp!LeaveConnect(c)
  BY <1>2, LeaveConnectStep
<1> QED BY <1>1, <1>2 DEF Tcp!ServeConnect, Tcp!ConnectPoll, Tcp!ConnectBgYield

LEMMA OpenTcpStep ==
  ASSUME Nobody \notin Consoles, BInv, NEW c \in Consoles, Tcp!OpenTcp(c)
  PROVE  BInv'
<1> USE DEF BInv
<1>1. CASE Tcp!Dialled(c) /\ tcpfile' = [tcpfile EXCEPT ![c] = TRUE]
  <2>1. SInv'
    BY <1>1, DialledSock DEF Tcp!OpenTcp, SInv, Shape, States
  <2>2. Apart'
    BY <1>1, DialledSock DEF Tcp!OpenTcp, Tcp!Free, Apart, SInv, Shape
  <2> QED BY <2>1, <2>2
<1>2. CASE /\ Tcp!DialFails
           /\ owner' = IF tcpfile[c] THEN Nobody ELSE owner
           /\ tcpfile' = [tcpfile EXCEPT ![c] = FALSE]
  <2>1. SInv'
    BY <1>2, DialFailsSock DEF Tcp!OpenTcp, SInv, Shape, States
  <2>2. Apart'
    BY <1>2, DialFailsSock DEF Tcp!OpenTcp, Apart, SInv, Shape
  <2> QED BY <2>1, <2>2
<1> QED BY <1>1, <1>2 DEF Tcp!OpenTcp

LEMMA CloseTcpStep ==
  ASSUME Nobody \notin Consoles, BInv, NEW c \in Consoles, Tcp!CloseTcp(c)
  PROVE  BInv'
<1> USE DEF BInv
<1>1. SInv'
  BY HangupSock DEF Tcp!CloseTcp, SInv, Shape, States
<1>2. Apart'
  <2> SUFFICES ASSUME "term" \notin uses PROVE Apart'
    BY DEF Tcp!CloseTcp, Apart
  <2>1. \A d \in Consoles : connect[d] \/ tcpfile[d] => d = c /\ ~connect[c]
    BY DEF Tcp!CloseTcp, Apart
  <2>2. \A d \in Consoles : ~connect'[d] /\ ~tcpfile'[d]
    BY <2>1 DEF Tcp!CloseTcp, SInv, Shape
  <2> QED BY <2>2, HangupSock DEF Tcp!CloseTcp, Apart
<1> QED BY <1>1, <1>2
-----------------------------------------------------------------------------
(* The peer, chords, the warm reset, and the whole.                        *)

LEMMA PeerStep ==
  ASSUME BInv, Tcp!Peer
  PROVE  BInv'
<1> USE DEF BInv
<1>1. UNCHANGED <<term, connect, tcpfile, owner, strays, uses>>
  BY DEF Tcp!Peer
<1>2. /\ sock' \in [state : States, by : Consoles \cup {Nobody}]
      /\ sock'.by = sock.by
      /\ sock'.state \in {"connecting", "connected"}
           => sock.state \in {"connecting", "connected"}
  BY DEF Tcp!Peer, SInv, Shape, States
<1>3. arrived' = arrived \/ (arrived' = arrived + 1 /\ sock.state = "connected")
  BY DEF Tcp!Peer
<1>4. SInv'
  BY <1>1, <1>2, <1>3 DEF SInv, Shape, Tcp!SocketOwned, States
<1>5. Apart'
  BY <1>1, <1>2, <1>3 DEF Apart, SInv, Tcp!SocketOwned
<1> QED BY <1>4, <1>5

LEMMA WarmResetStep ==
  ASSUME BInv, Tcp!WarmReset
  PROVE  BInv'
<1> USE DEF BInv
<1>1. SInv'
  BY HangupSock DEF Tcp!WarmReset, SInv, Shape, States
<1>2. Apart'
  BY HangupSock DEF Tcp!WarmReset, Apart
<1> QED BY <1>1, <1>2

\* Where nobody uses TERM there is nothing for its actions to do.
LEMMA NoTermStep ==
  ASSUME BInv, NEW c \in Consoles,
         Tcp!StartTerm(c) \/ Tcp!Bookmark(c) \/ Tcp!LeaveTerm(c) \/ Tcp!ServeTerm(c)
  PROVE  Apart'
<1>1. uses' = uses
  BY DEF Tcp!StartTerm, Tcp!TermRefused, Tcp!TermCanned, Tcp!TermIdle,
     Tcp!TermHost, Tcp!TermStarted, Tcp!Bookmark, Tcp!LeaveTerm, Tcp!ServeTerm,
     Tcp!TermPoll
<1>2. "term" \in uses
  <2>1. CASE Tcp!StartTerm(c)
    BY <2>1 DEF Tcp!StartTerm
  <2>2. CASE Tcp!Bookmark(c) \/ Tcp!LeaveTerm(c)
    BY <2>2 DEF Tcp!Bookmark, Tcp!LeaveTerm, BInv, Apart
  <2>3. CASE Tcp!ServeTerm(c)
    BY <2>3 DEF Tcp!ServeTerm, Tcp!TermPoll, Tcp!TermConnecting,
       Tcp!TermIngest, Tcp!TermReport, BInv, Apart
  <2> QED BY <2>1, <2>2, <2>3
<1> QED BY <1>1, <1>2 DEF Apart

LEMMA CommandStep ==
  ASSUME Nobody \notin Consoles, BInv, NEW c \in Consoles, Tcp!Command(c)
  PROVE  BInv'
<1>1. CASE Tcp!StartTerm(c)
  BY <1>1, StartTermStep, NoTermStep DEF BInv
<1>2. CASE Tcp!Bookmark(c)
  BY <1>2, BookmarkStep, NoTermStep DEF BInv
<1>3. CASE Tcp!LeaveTerm(c)
  BY <1>3, LeaveTermStep, NoTermStep DEF BInv
<1>4. CASE Tcp!StartConnect(c)
  BY <1>4, StartConnectStep
<1>5. CASE Tcp!LeaveConnect(c)
  BY <1>5, LeaveConnectStep
<1>6. CASE Tcp!OpenTcp(c)
  BY <1>6, OpenTcpStep
<1>7. CASE Tcp!ReadTcp(c)
  BY <1>7, ReceivedStep DEF Tcp!ReadTcp
<1>8. CASE Tcp!CloseTcp(c)
  BY <1>8, CloseTcpStep
<1> QED BY <1>1, <1>2, <1>3, <1>4, <1>5, <1>6, <1>7, <1>8 DEF Tcp!Command

LEMMA InitBInv == Tcp!Init => BInv
<1> SUFFICES ASSUME Tcp!Init PROVE BInv
  OBVIOUS
<1>1. SInv
  BY DEF Tcp!Init, Tcp!Idle, SInv, Shape, Tcp!SocketOwned
<1>2. Apart
  BY DEF Tcp!Init, Apart
<1> QED BY <1>1, <1>2 DEF BInv

LEMMA StepBInv ==
  ASSUME Nobody \notin Consoles
  PROVE  BInv /\ [Tcp!Next]_tcpVars => BInv'
<1> SUFFICES ASSUME BInv, [Tcp!Next]_tcpVars PROVE BInv'
  OBVIOUS
<1>1. ASSUME NEW c \in Consoles,
             Tcp!Command(c) \/ Tcp!ServeTerm(c) \/ Tcp!ServeConnect(c) \/ Tcp!SwitchTo(c)
      PROVE  BInv'
  <2>1. CASE Tcp!Command(c)
    BY <2>1, CommandStep
  <2>2. CASE Tcp!ServeTerm(c)
    BY <2>2, ServeTermStep, NoTermStep DEF BInv
  <2>3. CASE Tcp!ServeConnect(c)
    BY <2>3, ServeConnectStep
  <2>4. CASE Tcp!SwitchTo(c)
    BY <2>4 DEF Tcp!SwitchTo, BInv, SInv, Shape, Tcp!SocketOwned, Apart
  <2> QED BY <1>1, <2>1, <2>2, <2>3, <2>4
<1>2. CASE Tcp!Peer
  BY <1>2, PeerStep
<1>3. CASE Tcp!WarmReset
  BY <1>3, WarmResetStep
<1>4. CASE UNCHANGED tcpVars
  BY <1>4 DEF tcpVars, BInv, SInv, Shape, Tcp!SocketOwned, Apart
<1> QED BY <1>1, <1>2, <1>3, <1>4 DEF Tcp!Next

\* What Terminal does is a behaviour of TermSessions, which rests while another
\* part is taken.
LEMMA TerminalSessions == TerminalSpec => Tcp!Init /\ [][Tcp!Next]_tcpVars
<1>1. TerminalInit => Tcp!Init
  BY DEF TerminalInit
<1>2. [TerminalNext]_vars => [Tcp!Next]_tcpVars
  BY DEF TerminalNext, vars
<1> QED BY <1>1, <1>2, PTL DEF TerminalSpec

LEMMA SessionsInvariant == TerminalSpec => []BInv
BY TerminalSessions, InitBInv, StepBInv, NobodyAssumption, PTL

\* A connection belongs to the console that dialled it, through every start,
\* failure, NEW, chord and reset of the others (mmb_tcp_claim).
THEOREM OwnerTheorem == TerminalSpec => []SocketOwned
<1>1. BInv => SocketOwned
  BY DEF BInv, SInv, SocketOwned
<1> QED BY SessionsInvariant, <1>1, PTL

\* No CONNECT and no TCP file reads from a connection that another console
\* made after its own (session_close, mmb_file_close_n).
THEOREM OwnBytesTheorem == TerminalSpec => []OwnBytes
<1>1. BInv => OwnBytes
  BY DEF BInv, Apart, Tcp!OwnBytes, OwnBytes
<1> QED BY SessionsInvariant, <1>1, PTL

-----------------------------------------------------------------------------
(* The types of the sessions.  What has arrived came from a connection     *)
(* that a console made.                                                    *)

Others ==
  /\ front \in Consoles /\ owner \in Consoles \cup {Nobody}
  /\ arrived \in 0..MaxArrived /\ rxring \in Seq(Consoles) /\ strays \subseteq Consoles
  /\ drains \subseteq {"term", "connect"} \X Consoles
  /\ uses \subseteq {"connect", "file", "term"}
Dialler ==
  sock.by = Nobody => arrived = 0 /\ sock.state \notin {"connecting", "connected"}

OInv == Shape /\ Others /\ Dialler

\* What is interpreted leaves the ring, and is shown to a console.
LEMMA InterpretedTyped ==
  ASSUME NEW c \in Consoles, strays \subseteq Consoles, NEW bytes \in Seq(Consoles),
         Tcp!Interpreted(c, bytes)
  PROVE  rxring' \in Seq(Consoles) /\ strays' \subseteq Consoles
<1>1. PICK n \in 0..Len(bytes) :
        /\ rxring' = SubSeq(bytes, n + 1, Len(bytes))
        /\ Tcp!Shown(c, Tcp!Range(SubSeq(bytes, 1, n)))
  BY DEF Tcp!Interpreted
<1>2. rxring' \in Seq(Consoles)
  BY <1>1
<1>3. strays' \subseteq Consoles
  BY <1>1 DEF Tcp!Shown
<1> QED BY <1>2, <1>3

\* The registrations stay pairs of a command and a console.
LEMMA DrainsTyped ==
  ASSUME drains \subseteq {"term", "connect"} \X Consoles, NEW c \in Consoles
  PROVE  /\ \A app \in {"term", "connect"} :
              Tcp!Registered(app, c) \subseteq {"term", "connect"} \X Consoles
         /\ \A app : Tcp!Unregistered(app) \subseteq {"term", "connect"} \X Consoles
BY DEF Tcp!Registered, Tcp!Unregistered

\* What a dial, its failure and a hang-up leave.
LEMMA SocketTyped ==
  ASSUME NEW c \in Consoles
  PROVE  /\ Tcp!Hangup \/ Tcp!Dialled(c) => owner' \in Consoles \cup {Nobody}
         /\ Tcp!Hangup \/ Tcp!Dialled(c) \/ Tcp!DialFails =>
              arrived' \in 0..MaxArrived /\ Dialler'
BY NobodyAssumption, SessionsAssumption
   DEF Tcp!Hangup, Tcp!Idle, Tcp!Dialled, Tcp!DialFails, Dialler

LEMMA TermTyped ==
  ASSUME OInv, NEW c \in Consoles,
         Tcp!StartTerm(c) \/ Tcp!Bookmark(c) \/ Tcp!LeaveTerm(c)
  PROVE  Others' /\ Dialler'
<1>1. <<>> \in Seq(Consoles)
  OBVIOUS
<1>2. CASE Tcp!StartTerm(c)
  <2>1. UNCHANGED <<front, strays, uses>> /\ rxring' = <<>>
        /\ drains' \in {drains, Tcp!Registered("term", c)}
    BY <1>2 DEF Tcp!StartTerm, Tcp!TermRefused, Tcp!TermCanned, Tcp!TermIdle,
      Tcp!TermHost, Tcp!TermStarted
  <2>2. \/ UNCHANGED <<owner, sock, arrived>>
        \/ Tcp!Dialled(c)
        \/ Tcp!DialFails /\ owner' = owner
    BY <1>2 DEF Tcp!StartTerm, Tcp!TermRefused, Tcp!TermCanned, Tcp!TermIdle, Tcp!TermHost
  <2>3. owner' \in Consoles \cup {Nobody} /\ arrived' \in 0..MaxArrived /\ Dialler'
    BY <2>2, SocketTyped DEF OInv, Others, Dialler
  <2>4. drains' \subseteq {"term", "connect"} \X Consoles
    BY <2>1, DrainsTyped DEF OInv, Others
  <2> QED BY <1>1, <2>1, <2>3, <2>4 DEF OInv, Others
<1>3. CASE Tcp!Bookmark(c)
  <2>1. UNCHANGED <<front, rxring, strays, drains, uses>>
    BY <1>3 DEF Tcp!Bookmark
  <2>2. \/ UNCHANGED <<owner, sock, arrived>>
        \/ Tcp!Dialled(c) \/ Tcp!Hangup
        \/ Tcp!DialFails /\ owner' = Nobody
    BY <1>3 DEF Tcp!Bookmark
  <2>3. owner' \in Consoles \cup {Nobody} /\ arrived' \in 0..MaxArrived /\ Dialler'
    BY <2>2, SocketTyped DEF OInv, Others, Dialler
  <2> QED BY <2>1, <2>3 DEF OInv, Others
<1>4. CASE Tcp!LeaveTerm(c)
  <2>1. UNCHANGED <<front, strays, uses>> /\ rxring' = <<>> /\ Tcp!Hangup
        /\ drains' = Tcp!Unregistered("term")
    BY <1>4 DEF Tcp!LeaveTerm
  <2>2. drains' \subseteq {"term", "connect"} \X Consoles
    BY <2>1, DrainsTyped DEF OInv, Others
  <2> QED BY <1>1, <2>1, <2>2, SocketTyped DEF OInv, Others
<1> QED BY <1>2, <1>3, <1>4

LEMMA ServeTermTyped ==
  ASSUME OInv, NEW c \in Consoles, Tcp!ServeTerm(c)
  PROVE  Others' /\ Dialler'
<1>1. /\ UNCHANGED <<front, drains, uses>>
      /\ Tcp!TermConnecting(c) \/ Tcp!TermIngest(c) \/ Tcp!TermReport(c)
  BY DEF Tcp!ServeTerm, Tcp!TermPoll
<1>2. CASE Tcp!TermConnecting(c)
  <2>1. UNCHANGED <<rxring, strays>> /\ (UNCHANGED <<owner, sock, arrived>> \/ Tcp!Hangup)
    BY <1>2 DEF Tcp!TermConnecting
  <2> QED BY <1>1, <2>1, SocketTyped DEF OInv, Others, Dialler
<1>3. CASE Tcp!TermIngest(c)
  <2>1. CASE UNCHANGED <<rxring, strays>> /\ Tcp!Hangup
    BY <1>1, <2>1, SocketTyped DEF OInv, Others
  <2>2. CASE /\ Tcp!Interpreted(c, rxring \o [i \in 1 .. arrived |-> sock.by])
             /\ arrived' = 0 /\ UNCHANGED <<owner, sock>>
    <3> DEFINE more == [i \in 1 .. arrived |-> sock.by]
    <3>1. more \in Seq(Consoles)
      <4>1. arrived \in Nat /\ (arrived # 0 => sock.by \in Consoles)
        BY SessionsAssumption DEF OInv, Shape, Dialler
      <4>2. CASE arrived = 0
        <5>1. more = <<>>
          BY <4>2
        <5>2. <<>> \in Seq(Consoles)
          OBVIOUS
        <5> QED BY <5>1, <5>2
      <4>3. CASE arrived # 0
        BY <4>1, <4>3
      <4> QED BY <4>2, <4>3
    <3> HIDE DEF more
    <3>2. rxring \o more \in Seq(Consoles)
      BY <3>1 DEF OInv, Others
    <3>3. rxring' \in Seq(Consoles) /\ strays' \subseteq Consoles
      BY <2>2, <3>2, InterpretedTyped DEF OInv, Others, more
    <3> QED BY <1>1, <2>2, <3>3, SessionsAssumption DEF OInv, Others, Dialler
  <2> QED BY <1>3, <2>1, <2>2 DEF Tcp!TermIngest
<1>4. CASE Tcp!TermReport(c)
  <2>1. Tcp!Interpreted(c, rxring) /\ UNCHANGED <<owner, sock, arrived>>
    BY <1>4 DEF Tcp!TermReport
  <2>2. rxring' \in Seq(Consoles) /\ strays' \subseteq Consoles
    BY <2>1, InterpretedTyped DEF OInv, Others
  <2> QED BY <1>1, <2>1, <2>2 DEF OInv, Others, Dialler
<1> QED BY <1>1, <1>2, <1>3, <1>4

LEMMA ReceivedTyped ==
  ASSUME OInv, NEW c \in Consoles, Tcp!Received(c)
  PROVE  Others' /\ Dialler'
<1>1. strays' \subseteq Consoles
  BY DEF Tcp!Received, Tcp!Shown, OInv, Others
<1> QED BY <1>1, SessionsAssumption DEF Tcp!Received, OInv, Others, Dialler

LEMMA ConnectTyped ==
  ASSUME OInv, NEW c \in Consoles,
         Tcp!StartConnect(c) \/ Tcp!LeaveConnect(c) \/ Tcp!OpenTcp(c) \/ Tcp!CloseTcp(c)
  PROVE  Others' /\ Dialler'
<1>1. /\ UNCHANGED <<front, rxring, strays, uses>>
      /\ drains' \in {drains, Tcp!Registered("connect", c), Tcp!Unregistered("connect")}
  BY DEF Tcp!StartConnect, Tcp!LeaveConnect, Tcp!OpenTcp, Tcp!CloseTcp
<1>2. \/ sock' = [state |-> "connected", by |-> c] /\ arrived' = 0 /\ owner' = c
      \/ Tcp!Dialled(c) \/ Tcp!Hangup
      \/ Tcp!DialFails /\ owner' \in {owner, Nobody}
  BY DEF Tcp!StartConnect, Tcp!LeaveConnect, Tcp!OpenTcp, Tcp!CloseTcp
<1>3. owner' \in Consoles \cup {Nobody} /\ arrived' \in 0..MaxArrived /\ Dialler'
  <2>1. CASE sock' = [state |-> "connected", by |-> c] /\ arrived' = 0 /\ owner' = c
    BY <2>1, NobodyAssumption, SessionsAssumption DEF Dialler
  <2> QED BY <1>2, <2>1, SocketTyped DEF OInv, Others
<1>4. drains' \subseteq {"term", "connect"} \X Consoles
  BY <1>1, DrainsTyped DEF OInv, Others
<1> QED BY <1>1, <1>3, <1>4 DEF OInv, Others

LEMMA PeerTyped ==
  ASSUME OInv, Tcp!Peer
  PROVE  Others' /\ Dialler'
<1>1. UNCHANGED <<front, owner, rxring, strays, drains, uses>>
  BY DEF Tcp!Peer
<1>2. sock.by # Nobody /\ sock'.by = sock.by
  BY DEF Tcp!Peer, OInv, Shape, Dialler
<1>3. arrived' \in 0..MaxArrived
  BY SessionsAssumption DEF Tcp!Peer, OInv, Others
<1> QED BY <1>1, <1>2, <1>3 DEF OInv, Others, Dialler

LEMMA OthersStep ==
  ASSUME OInv, [Tcp!Next]_tcpVars
  PROVE  Others' /\ Dialler'
<1>1. ASSUME NEW c \in Consoles, Tcp!Command(c) PROVE Others' /\ Dialler'
  BY <1>1, TermTyped, ConnectTyped, ReceivedTyped DEF Tcp!Command, Tcp!ReadTcp
<1>2. ASSUME NEW c \in Consoles, Tcp!ServeConnect(c) PROVE Others' /\ Dialler'
  BY <1>2, ConnectTyped, ReceivedTyped DEF Tcp!ServeConnect, Tcp!ConnectPoll, Tcp!ConnectBgYield
<1>3. ASSUME NEW c \in Consoles, Tcp!SwitchTo(c) PROVE Others' /\ Dialler'
  BY <1>3 DEF Tcp!SwitchTo, OInv, Others, Dialler
<1>4. CASE Tcp!WarmReset
  <2>1. Tcp!Hangup /\ front' = First /\ rxring' \in {<<>>, rxring} /\ strays' = {} /\ drains' = {}
        /\ uses' = uses
    BY <1>4 DEF Tcp!WarmReset
  <2>2. <<>> \in Seq(Consoles)
    OBVIOUS
  <2> QED BY <2>1, <2>2, SocketTyped, SessionsAssumption DEF OInv, Others
<1>5. CASE UNCHANGED tcpVars
  BY <1>5 DEF tcpVars, OInv, Others, Dialler
<1> QED BY <1>1, <1>2, <1>3, <1>4, <1>5, ServeTermTyped, PeerTyped DEF Tcp!Next

LEMMA SessionsTyping == TerminalSpec => []Tcp!TypeOK
<1>1. Tcp!Init => Others /\ Dialler
  BY SessionsAssumption DEF Tcp!Init, Tcp!Idle, Others, Dialler
<1>2. BInv /\ Others /\ Dialler /\ [Tcp!Next]_tcpVars => (Others /\ Dialler)'
  BY OthersStep DEF OInv, BInv, SInv
<1>3. BInv /\ Others => Tcp!TypeOK
  BY DEF BInv, SInv, Shape, Others, Tcp!TypeOK
<1> QED BY <1>1, <1>2, <1>3, TerminalSessions, SessionsInvariant, PTL

-----------------------------------------------------------------------------
(* ZMODEM.  What two parties say who repeat themselves.                    *)

Types == {"ZRQINIT", "ZRINIT", "ZFILE", "ZDATA", "ZEOF", "ZFIN", "ZABORT",
          "ZRPOS", "ZACK", "ZNAK", "ZSKIP"}
Header == [kind : {"hdr"}, type : Types, pos : Nat]
Subpacket == [kind : {"sub"}, what : {"file", "data"}, file : Nat, block : Nat,
              end : {"W", "G", "E"}]
Line == Header \cup Subpacket
Asking == {"start", "name"}
Sending == {"head", "data", "ack", "eof"}

SenderStates == [phase : Asking \cup Sending \cup {"fin", "over"},
                 file : 1..Files, pos : Nat, from : Nat]

ZTyped ==
  /\ zstate \in {"active", "done", "failed", "cancelled"}
  /\ ps \in {"hdr", "sub", "cut"} /\ role \in {"none", "file", "data"}
  /\ filing \in Nat /\ content \in Seq(Nat \X Nat) /\ kept \in Seq(Seq(Nat \X Nat))
  /\ rep \in Seq(Header) /\ toRx \in Seq(Line) /\ toTx \in Seq(Header)
  /\ sender \in SenderStates
  /\ damage \in Nat /\ stalls \in Nat /\ faults \in Nat

\* What a frame is: the type of a header, the content of a subpacket.
Tag(f) == IF f.kind = "hdr" THEN f.type ELSE f.what

\* A sequence of frames of some kinds; one in which those of T come before S.
All(q, S) == \A i \in 1..Len(q) : Tag(q[i]) \in S
NoneAfter(q, S, T) ==
  \A i, j \in 1..Len(q) : i < j => ~ (Tag(q[i]) \in S /\ Tag(q[j]) \in T)

Offers == {"ZRQINIT", "ZFILE", "file"}       \* said by a sender that offers a file
Pieces == {"ZDATA", "ZEOF", "data"}          \* ... and by one that sends it
Answers == {"ZRINIT", "ZRPOS", "ZACK", "ZNAK"}
Allowed == Answers \ {IF filing = 0 THEN "ZRPOS" ELSE "ZRINIT"}

\* The file that the sender is at is offered and not open, offered and open, sent
\* and open, or sent and kept.
Conversation ==
  \/ sender.phase \in Asking /\ Len(kept) = sender.file - 1 /\ filing \in {0, sender.file}
  \/ sender.phase \in Sending /\ filing = sender.file /\ Len(kept) = sender.file - 1
  \/ sender.phase \in Sending /\ filing = 0 /\ Len(kept) = sender.file
  \/ sender.phase = "fin" /\ filing = 0

\* Replies on their way: what belongs to an open file and what does not is said
\* in the order in which it came to be.
Replies ==
  /\ All(toTx, Answers)
  /\ All(rep, Allowed)
  /\ filing = 0 => NoneAfter(toTx, {"ZRINIT"}, {"ZRPOS"})
  /\ filing # 0 => NoneAfter(toTx, {"ZRPOS"}, {"ZRINIT"})
  /\ sender.phase \in Asking /\ filing = 0 => All(toTx, Answers \ {"ZRPOS"})
  /\ sender.phase \in Sending /\ filing # 0 => All(toTx, Answers \ {"ZRINIT"})

\* A frame says what it should of the sender's file k and of the open file g.
Sound(f, k, g) ==
  /\ Tag(f) = "ZEOF" => f.pos = FileBlocks
  /\ Tag(f) = "file" => f.kind = "sub" /\ f.file = k
  /\ Tag(f) = "data" /\ f.block = 0 => f.end = "E"
  /\ Tag(f) = "data" /\ f.block # 0 /\ g # 0 => f.file = g

\* What the sender has sent and was not yet received, in the same order.
Requests ==
  /\ All(toRx, Offers \cup Pieces \cup (IF sender.phase = "fin" THEN {"ZFIN"} ELSE {}))
  /\ \A i \in 1..Len(toRx) : Sound(toRx[i], sender.file, filing)
  /\ sender.phase \in Asking => NoneAfter(toRx, Offers, Pieces)
  /\ sender.phase \in Sending => NoneAfter(toRx, Pieces, Offers)
  /\ sender.phase \in Asking /\ filing # 0 => All(toRx, Offers)
  /\ (sender.phase \in Sending /\ filing = 0) \/ sender.phase = "fin" =>
       All(toRx, Pieces \cup {"ZFIN"})
  /\ filing # 0 => All(toRx, (Offers \cup Pieces) \ {"ZRQINIT"})
  /\ NoneAfter(toRx, {"file"}, {"ZRQINIT"})
  /\ sender.phase = "start" =>
       sender.file = 1 /\ filing = 0 /\ All(toRx, {"ZRQINIT"})

\* In a subpacket, n blocks after the beginning of the file, y may be next.
Goes(n, y) == y.kind = "hdr" \/ (Tag(y) = "data" /\ y.block \in {0, n + 1})

\* The sender says y after x.
Fits(x, y) ==
  /\ Tag(x) = "ZFILE" => Tag(y) = "file"
  /\ Tag(x) = "ZDATA" => Goes(x.pos, y)
  /\ Tag(x) = "data" /\ x.end = "G" => Goes(x.block, y)

\* The line is cut nowhere, though the receiver may have missed some of it.
Stream ==
  /\ \A i, j \in 1..Len(toRx) : j = i + 1 => Fits(toRx[i], toRx[j])
  /\ toRx # <<>> => Tag(toRx[Len(toRx)]) # "ZFILE"
  /\ sender.phase = "data" /\ toRx # <<>> =>
       Fits(toRx[Len(toRx)], Zm!DataSub(1, sender.pos + 1, "G"))

\* Where the receiver is in it.
Reads ==
  /\ ps = "sub" => role \in {"file", "data"}
  /\ ps = "sub" /\ role = "file" => toRx # <<>> /\ Tag(toRx[1]) = "file"
  /\ ps = "sub" /\ role = "data" =>
       /\ filing # 0
       /\ toRx # <<>> => Goes(Len(content), toRx[1])
       /\ toRx = <<>> /\ sender.phase = "data" => Len(content) = sender.pos

\* The files kept are the first ones, whole; what is written is the beginning of one.
KeptFirst == kept = [i \in 1..Len(kept) |-> Zm!Whole(i)] /\ Len(kept) <= Files
Written == filing # 0 => content = [b \in 1..Len(content) |-> <<filing, b>>]

ConvInv == Conversation /\ Replies /\ Requests /\ Stream /\ Reads /\ Written
FaultlessInv == faults = 0 => KeptFirst /\ (zstate = "active" => ConvInv)

(* ... and two who take turns.                                              *)

\* The frame y is right for a receiver that reads p and has n blocks.
Ready(y, p, n) ==
  \/ p = "sub" /\ Tag(y) = "data" /\ y.block = n + 1
  \/ p = "hdr" /\ Tag(y) = "ZDATA" /\ y.pos = n
  \/ p = "hdr" /\ Tag(y) = "ZEOF" /\ n = FileBlocks

\* The frame y is right after x, for which no reply is awaited.
Follows(x, y) ==
  \/ Tag(x) = "ZDATA" /\ Ready(y, "sub", x.pos)
  \/ Tag(x) = "data" /\ x.end = "G" /\ Ready(y, "sub", x.block)
  \/ Tag(x) = "data" /\ x.end = "E" /\ Ready(y, "hdr", x.block)

\* A frame of the sender's file k.
Piece(f, k) ==
  /\ Tag(f) \in Pieces
  /\ Tag(f) = "data" => f.file = k /\ f.block # 0
  /\ Tag(f) = "ZEOF" => f.pos = FileBlocks

\* The file that the sender is at is open, and what is on the line continues it.
InFlight ==
  /\ filing = sender.file /\ Written
  /\ ps \in {"hdr", "sub"} /\ (ps = "sub" => role = "data")
  /\ \A i \in 1..Len(toRx) : Piece(toRx[i], sender.file)
  /\ \A i, j \in 1..Len(toRx) : j = i + 1 => Follows(toRx[i], toRx[j])
  /\ toRx # <<>> => Ready(toRx[1], ps, Len(content))

\* The last frame that a sender in state s has sent.
LastSent(x, s) ==
  \/ s.phase = "data" /\ Tag(x) = "ZDATA" /\ x.pos = s.pos /\ s.pos # FileBlocks
  \/ /\ s.phase = "data" /\ Tag(x) = "data" /\ x.block = s.pos
     /\ x.end = IF s.pos = FileBlocks THEN "E" ELSE "G"
  \/ s.phase = "ack" /\ Tag(x) = "data" /\ x.block = s.pos /\ x.end = "W"
  \/ s.phase = "eof" /\ Tag(x) = "ZEOF"

\* All that was sent is received.
CaughtUp ==
  /\ toRx = <<>> /\ Len(content) = sender.pos
  /\ \/ sender.phase = "head" /\ ps = "hdr" /\ toTx = <<>>
     \/ sender.phase = "data" /\ (ps = "hdr" <=> sender.pos = FileBlocks) /\ toTx = <<>>
     \/ sender.phase = "ack" /\ ps = "hdr" /\ toTx = <<Zm!Hdr("ZACK", sender.pos)>>

\* The files kept, q, are among the first n, each whole, in order and kept once.
Increasing(q, n) ==
  /\ \A i \in 1..Len(q) : \E f \in 1..n : q[i] = Zm!Whole(f)
  /\ \A i, j \in 1..Len(q) : i < j => q[i][1][1] < q[j][1][1]

Begins ==
  /\ sender.phase = "start" /\ sender.file = 1 /\ kept = <<>> /\ filing = 0 /\ ps = "hdr"
  /\ \/ toRx = <<Zm!Hdr("ZRQINIT", 0)>> /\ toTx = <<>>
     \/ toRx = <<>> /\ toTx = <<Zm!Hdr("ZRINIT", 0)>>
Names ==
  /\ sender.phase = "name" /\ Increasing(kept, sender.file - 1)
  /\ \/ toTx = <<>> /\ toRx = Zm!Announce(sender.file) /\ ps = "hdr" /\ filing = 0
     \/ /\ toTx = <<>> /\ toRx = <<Zm!FileSub(sender.file)>>
        /\ ps = "sub" /\ role = "file" /\ filing = 0
     \/ /\ toTx = <<Zm!Hdr("ZRPOS", 0)>> /\ toRx = <<>>
        /\ ps = "hdr" /\ filing = sender.file /\ content = <<>>
     \/ toTx = <<Zm!Hdr("ZSKIP", 0)>> /\ toRx = <<>> /\ ps = "hdr" /\ filing = 0
Streams ==
  /\ sender.phase \in Sending /\ Increasing(kept, sender.file - 1) /\ InFlight
  /\ \/ CaughtUp
     \/ toRx # <<>> /\ toTx = <<>> /\ LastSent(toRx[Len(toRx)], sender)
Keeps ==
  /\ sender.phase = "eof" /\ Increasing(kept, sender.file)
  /\ toRx = <<>> /\ toTx = <<Zm!Hdr("ZRINIT", 0)>> /\ filing = 0 /\ ps = "hdr"
Ends ==
  /\ sender.phase = "fin" /\ toRx = <<Zm!Hdr("ZFIN", 0)>> /\ toTx = <<>>
  /\ filing = 0 /\ ps = "hdr"

\* Without damage and silence the two take turns.
InStep == Begins \/ Names \/ Streams \/ Keeps \/ Ends
NoDamageInv ==
  damage = 0 /\ stalls = 0 => Increasing(kept, Files) /\ (zstate = "active" => InStep)

(* The line, and what the two parties do.                                  *)

\* A frame on the line is a header or a subpacket.
LEMMA OnLine ==
  ASSUME NEW f \in Line
  PROVE  /\ f.kind \in {"hdr", "sub"}
         /\ f.kind = "hdr" => f \in Header /\ f.type \in Types /\ f.pos \in Nat /\ Tag(f) = f.type
         /\ f.kind = "sub" => f \in Subpacket /\ f.what \in {"file", "data"} /\ Tag(f) = f.what
                              /\ f.file \in Nat /\ f.block \in Nat /\ f.end \in {"W", "G", "E"}
<1>1. CASE f \in Header
  BY <1>1 DEF Header, Tag
<1>2. CASE f \in Subpacket
  BY <1>2 DEF Subpacket, Tag
<1> QED BY <1>1, <1>2 DEF Line

\* The frames that the two parties make.
LEMMA Made ==
  /\ \A t \in Types, n \in Nat :
       /\ Zm!Hdr(t, n) \in Header /\ Zm!Hdr(t, n) \in Line /\ Tag(Zm!Hdr(t, n)) = t
       /\ Zm!Hdr(t, n).kind = "hdr" /\ Zm!Hdr(t, n).type = t /\ Zm!Hdr(t, n).pos = n
  /\ \A g, b \in Nat, e \in {"W", "G", "E"} :
       /\ Zm!DataSub(g, b, e) \in Line /\ Tag(Zm!DataSub(g, b, e)) = "data"
       /\ Zm!DataSub(g, b, e).kind = "sub" /\ Zm!DataSub(g, b, e).file = g
       /\ Zm!DataSub(g, b, e).block = b /\ Zm!DataSub(g, b, e).end = e
  /\ \A g \in Nat :
       /\ Zm!FileSub(g) \in Line /\ Tag(Zm!FileSub(g)) = "file"
       /\ Zm!FileSub(g).kind = "sub" /\ Zm!FileSub(g).file = g /\ Zm!FileSub(g).block = 0
<1>1. \A t \in Types, n \in Nat : Zm!Hdr(t, n) \in Header
  BY DEF Zm!Hdr, Header
<1>2. \A g, b \in Nat, e \in {"W", "G", "E"} : Zm!DataSub(g, b, e) \in Subpacket
  BY DEF Zm!DataSub, Subpacket
<1>3. \A g \in Nat : Zm!FileSub(g) \in Subpacket
  BY DEF Zm!FileSub, Subpacket
<1> QED BY <1>1, <1>2, <1>3 DEF Line, Tag, Zm!Hdr, Zm!DataSub, Zm!FileSub

\* One header that is made,
LEMMA HdrMade ==
  ASSUME NEW t \in Types, NEW n \in Nat
  PROVE  /\ Zm!Hdr(t, n) \in Header /\ Zm!Hdr(t, n) \in Line /\ Tag(Zm!Hdr(t, n)) = t
         /\ Zm!Hdr(t, n).kind = "hdr" /\ Zm!Hdr(t, n).type = t /\ Zm!Hdr(t, n).pos = n
BY Made

\* ... and one block.
LEMMA DataMade ==
  ASSUME NEW g \in Nat, NEW b \in Nat, NEW e \in {"W", "G", "E"}
  PROVE  LET x == Zm!DataSub(g, b, e)
         IN  /\ x \in Line /\ Tag(x) = "data" /\ x.kind = "sub" /\ x.file = g
             /\ x.block = b /\ x.end = e
BY Made

\* What offers a file: its header and its name.
LEMMA OfferMade ==
  ASSUME NEW g \in Nat
  PROVE  /\ Zm!Announce(g) \in Seq(Line) /\ Len(Zm!Announce(g)) = 2
         /\ Zm!Announce(g)[1] = Zm!Hdr("ZFILE", 0) /\ Zm!Announce(g)[2] = Zm!FileSub(g)
BY Made DEF Zm!Announce, Types

\* What is left of a sequence, and what is added to it.
LEMMA TailOf ==
  ASSUME NEW S, NEW q \in Seq(S), q # <<>>
  PROVE  /\ Tail(q) \in Seq(S) /\ Len(Tail(q)) = Len(q) - 1 /\ Len(q) \in Nat \ {0}
         /\ Head(q) = q[1] /\ q[1] \in S
         /\ \A i \in 1..Len(Tail(q)) : i + 1 \in 1..Len(q) /\ i \in 1..Len(q)
                                       /\ Tail(q)[i] = q[i + 1]
OBVIOUS

\* ... in a sequence joined to another.
LEMMA JoinOf ==
  ASSUME NEW S, NEW q \in Seq(S), NEW r \in Seq(S)
  PROVE  /\ q \o r \in Seq(S) /\ Len(q \o r) = Len(q) + Len(r)
         /\ \A i \in 1..Len(q \o r) :
              \/ i \in 1..Len(q) /\ (q \o r)[i] = q[i]
              \/ i - Len(q) \in 1..Len(r) /\ (q \o r)[i] = r[i - Len(q)]
         /\ \A i \in 1..Len(q) : (q \o r)[i] = q[i]
         /\ \A i \in 1..Len(r) : (q \o r)[Len(q) + i] = r[i]
OBVIOUS

\* Sequences of one and of two.
LEMMA OneOf ==
  ASSUME NEW S, NEW x \in S, NEW y \in S
  PROVE  /\ <<x>> \in Seq(S) /\ Len(<<x>>) = 1 /\ <<x>>[1] = x
         /\ <<x, y>> \in Seq(S) /\ Len(<<x, y>>) = 2 /\ <<x, y>>[1] = x /\ <<x, y>>[2] = y
OBVIOUS

\* The kinds of frames in what is left of a sequence, and their order.
LEMMA TailKinds ==
  ASSUME NEW S, NEW q \in Seq(S), q # <<>>
  PROVE  /\ \A T : All(q, T) => All(Tail(q), T) /\ Tag(q[1]) \in T
         /\ \A T, U : NoneAfter(q, T, U) => NoneAfter(Tail(q), T, U)
         /\ \A T, U, V : /\ NoneAfter(q, T, U) /\ All(q, V) /\ Tag(q[1]) \in T
                         => All(Tail(q), V \ U)
<1>0. /\ Len(Tail(q)) = Len(q) - 1 /\ Len(q) \in Nat /\ 1 \in 1..Len(q)
      /\ \A i \in 1..Len(Tail(q)) : i + 1 \in 1..Len(q) /\ Tail(q)[i] = q[i + 1] /\ 1 < i + 1
  BY TailOf
<1>1. ASSUME NEW T, All(q, T) PROVE All(Tail(q), T) /\ Tag(q[1]) \in T
  BY <1>0, <1>1 DEF All
<1>2. ASSUME NEW T, NEW U, NoneAfter(q, T, U) PROVE NoneAfter(Tail(q), T, U)
  <2> SUFFICES ASSUME NEW i \in 1..Len(Tail(q)), NEW j \in 1..Len(Tail(q)), i < j
               PROVE  ~ (Tag(Tail(q)[i]) \in T /\ Tag(Tail(q)[j]) \in U)
    BY DEF NoneAfter
  <2>1. i + 1 \in 1..Len(q) /\ j + 1 \in 1..Len(q) /\ i + 1 < j + 1
    BY <1>0
  <2>2. ~ (Tag(q[i + 1]) \in T /\ Tag(q[j + 1]) \in U)
    BY <1>2, <2>1 DEF NoneAfter
  <2> QED BY <1>0, <2>2
<1>3. ASSUME NEW T, NEW U, NEW V, NoneAfter(q, T, U), All(q, V), Tag(q[1]) \in T
      PROVE  All(Tail(q), V \ U)
  <2> SUFFICES ASSUME NEW i \in 1..Len(Tail(q)) PROVE Tag(Tail(q)[i]) \in V \ U
    BY DEF All
  <2>1. i + 1 \in 1..Len(q) /\ 1 \in 1..Len(q) /\ 1 < i + 1 /\ Tail(q)[i] = q[i + 1]
    BY <1>0
  <2>2. Tag(q[i + 1]) \in V /\ Tag(q[i + 1]) \notin U
    BY <1>3, <2>1 DEF NoneAfter, All
  <2> QED BY <2>1, <2>2
<1> QED BY <1>1, <1>2, <1>3

\* ... in two sequences joined.
LEMMA JoinKinds ==
  ASSUME NEW S, NEW q \in Seq(S), NEW r \in Seq(S)
  PROVE  /\ \A T : All(q, T) /\ All(r, T) => All(q \o r, T)
         /\ \A T, U, V : /\ NoneAfter(q, T, U) /\ All(r, V) /\ V \cap U = {}
                         => NoneAfter(q \o r, T, U)
         /\ \A T, U, V, W : /\ All(q, W) /\ W \cap T = {} /\ All(r, V) /\ (V \cap U = {} \/ V \cap T = {})
                            => NoneAfter(q \o r, T, U)
<1>0. /\ Len(q \o r) = Len(q) + Len(r) /\ Len(q) \in Nat /\ Len(r) \in Nat
      /\ \A i \in 1..Len(q \o r) :
              \/ i \in 1..Len(q) /\ (q \o r)[i] = q[i]
              \/ i - Len(q) \in 1..Len(r) /\ (q \o r)[i] = r[i - Len(q)]
  BY JoinOf
<1>1. ASSUME NEW T, All(q, T), All(r, T) PROVE All(q \o r, T)
  BY <1>0, <1>1 DEF All
<1>2. ASSUME NEW T, NEW U, NEW V, NoneAfter(q, T, U), All(r, V), V \cap U = {}
      PROVE  NoneAfter(q \o r, T, U)
  <2> SUFFICES ASSUME NEW i \in 1..Len(q \o r), NEW j \in 1..Len(q \o r), i < j
               PROVE  ~ (Tag((q \o r)[i]) \in T /\ Tag((q \o r)[j]) \in U)
    BY DEF NoneAfter
  <2>1. CASE j \in 1..Len(q) /\ (q \o r)[j] = q[j]
    <3>1. i \in 1..Len(q) /\ (q \o r)[i] = q[i]
      BY <1>0, <2>1
    <3> QED BY <1>2, <2>1, <3>1 DEF NoneAfter
  <2>2. CASE j - Len(q) \in 1..Len(r) /\ (q \o r)[j] = r[j - Len(q)]
    BY <1>2, <2>2 DEF All
  <2> QED BY <1>0, <2>1, <2>2
<1>3. ASSUME NEW T, NEW U, NEW V, NEW W,
             All(q, W), W \cap T = {}, All(r, V), V \cap U = {} \/ V \cap T = {}
      PROVE  NoneAfter(q \o r, T, U)
  <2> SUFFICES ASSUME NEW i \in 1..Len(q \o r), NEW j \in 1..Len(q \o r), i < j
               PROVE  ~ (Tag((q \o r)[i]) \in T /\ Tag((q \o r)[j]) \in U)
    BY DEF NoneAfter
  <2>1. CASE i \in 1..Len(q) /\ (q \o r)[i] = q[i]
    BY <1>3, <2>1 DEF All
  <2>2. CASE i - Len(q) \in 1..Len(r) /\ (q \o r)[i] = r[i - Len(q)]
    <3>1. j - Len(q) \in 1..Len(r) /\ (q \o r)[j] = r[j - Len(q)]
      BY <1>0, <2>2
    <3> QED BY <1>3, <2>2, <3>1 DEF All
  <2> QED BY <1>0, <2>1, <2>2
<1> QED BY <1>1, <1>2, <1>3

\* What is sent where a data frame is broken off, or not.
BrokenOff == IF sender.phase = "data" THEN <<Zm!EndOfFrame>> ELSE <<>>
Rewound(n) == [sender EXCEPT !.phase = "head", !.pos = n]

\* The sender's reactions, one by one.
LEMMA Reacts ==
  ASSUME NEW h
  PROVE  LET r == Zm!Reaction(h)
         IN  \/ /\ h.type = "ZRINIT" /\ sender.phase \in Asking
                /\ r = [state |-> Zm!To("name"), sends |-> Zm!Announce(sender.file)]
             \/ /\ \/ h.type = "ZRINIT" /\ sender.phase \in Sending
                   \/ h.type = "ZSKIP" /\ sender.phase \in {"name"} \cup Sending
                /\ r = Zm!NextFile
             \/ /\ h.type = "ZRPOS" /\ sender.phase \in {"name"} \cup Sending
                /\ r = [state |-> Rewound(h.pos), sends |-> BrokenOff]
             \/ /\ h.type = "ZACK" /\ sender.phase = "ack" /\ h.pos = sender.pos
                /\ r = [state |-> Zm!To("head"), sends |-> <<>>]
             \/ /\ h.type = "ZNAK" /\ sender.phase = "start"
                /\ r = [state |-> sender, sends |-> <<Zm!Hdr("ZRQINIT", 0)>>]
             \/ /\ h.type = "ZNAK" /\ sender.phase = "name"
                /\ r = [state |-> sender, sends |-> Zm!Announce(sender.file)]
             \/ /\ h.type = "ZNAK" /\ sender.phase \in {"data", "ack"}
                /\ r = [state |-> Rewound(sender.from), sends |-> BrokenOff]
             \/ /\ h.type = "ZNAK" /\ sender.phase = "eof"
                /\ r = [state |-> sender, sends |-> <<Zm!Hdr("ZEOF", FileBlocks)>>]
             \/ /\ h.type \in {"ZNAK", "ZRINIT"} /\ sender.phase = "fin"
                /\ r = [state |-> sender, sends |-> <<Zm!Hdr("ZFIN", 0)>>]
             \/ /\ h.type \in {"ZFIN", "ZABORT"}
                /\ r = [state |-> Zm!To("over"), sends |-> <<>>]
             \/ /\ h.type \notin {"ZFIN", "ZABORT"}
                /\ h.type = "ZRINIT" => sender.phase \notin Asking \cup Sending \cup {"fin"}
                /\ h.type = "ZRPOS" => sender.phase \notin {"name"} \cup Sending
                /\ h.type = "ZACK" => sender.phase # "ack" \/ h.pos # sender.pos
                /\ h.type = "ZNAK" => sender.phase \in {"head", "over"}
                                      \/ sender.phase \notin Asking \cup Sending \cup {"fin"}
                /\ h.type = "ZSKIP" => sender.phase \notin {"name"} \cup Sending
                /\ r = [state |-> sender, sends |-> <<>>]
<1> USE DEF Zm!Reaction, BrokenOff, Rewound, Asking, Sending
<1>1. CASE h.type = "ZRINIT"
  BY <1>1, SMTT(30)
<1>2. CASE h.type = "ZSKIP"
  BY <1>2, SMTT(30)
<1>3. CASE h.type = "ZRPOS"
  BY <1>3, SMTT(30)
<1>4. CASE h.type = "ZACK"
  BY <1>4, SMTT(30)
<1>5. CASE h.type = "ZNAK"
  BY <1>5, SMTT(30)
<1>6. CASE h.type \notin {"ZRINIT", "ZSKIP", "ZRPOS", "ZACK", "ZNAK"}
  BY <1>6, SMTT(60)
<1> QED BY <1>1, <1>2, <1>3, <1>4, <1>5, <1>6, Zenon

\* The sender's state, and what it may become.
LEMMA SenderTyped ==
  ASSUME ZTyped
  PROVE  /\ sender.phase \in Asking \cup Sending \cup {"fin", "over"}
         /\ sender.file \in 1..Files /\ sender.file \in Nat
         /\ sender.pos \in Nat /\ sender.from \in Nat
         /\ \A p \in Asking \cup Sending \cup {"fin", "over"} :
              /\ Zm!To(p) \in SenderStates
              /\ Zm!To(p).phase = p /\ Zm!To(p).file = sender.file
              /\ Zm!To(p).pos = sender.pos /\ Zm!To(p).from = sender.from
         /\ \A n \in Nat :
              /\ Rewound(n) \in SenderStates
              /\ Rewound(n).phase = "head" /\ Rewound(n).file = sender.file
              /\ Rewound(n).pos = n /\ Rewound(n).from = sender.from
<1>1. sender \in SenderStates /\ "head" \in Asking \cup Sending \cup {"fin", "over"}
  BY DEF ZTyped, Sending
<1> DEFINE P == Asking \cup Sending \cup {"fin", "over"}
<1>2. sender \in [phase : P, file : 1..Files, pos : Nat, from : Nat] /\ "head" \in P
  BY <1>1 DEF SenderStates
<1>3. SenderStates = [phase : P, file : 1..Files, pos : Nat, from : Nat]
  BY DEF SenderStates
<1> HIDE DEF P
<1>4. /\ sender.phase \in P /\ sender.file \in 1..Files /\ sender.pos \in Nat /\ sender.from \in Nat
      /\ sender.file \in Nat
  BY <1>2, FilesAssumption
<1>5. \A p \in P : /\ Zm!To(p) \in SenderStates
              /\ Zm!To(p).phase = p /\ Zm!To(p).file = sender.file
              /\ Zm!To(p).pos = sender.pos /\ Zm!To(p).from = sender.from
  BY <1>2, <1>3 DEF Zm!To
<1>6. \A n \in Nat :
              /\ Rewound(n) \in SenderStates
              /\ Rewound(n).phase = "head" /\ Rewound(n).file = sender.file
              /\ Rewound(n).pos = n /\ Rewound(n).from = sender.from
  BY <1>2, <1>3 DEF Rewound
<1> QED BY <1>4, <1>5, <1>6 DEF P

\* The next file, or the end.
LEMMA NextOne ==
  ASSUME ZTyped
  PROVE  \/ /\ sender.file + 1 \in 1..Files
            /\ Zm!NextFile = [state |-> [phase |-> "name", file |-> sender.file + 1, pos |-> 0, from |-> 0],
                              sends |-> Zm!Announce(sender.file + 1)]
         \/ /\ sender.file = Files
            /\ Zm!NextFile = [state |-> Zm!To("fin"), sends |-> <<Zm!Hdr("ZFIN", 0)>>]
<1>1. sender.file \in 1..Files /\ Files \in Nat
  BY SenderTyped, FilesAssumption
<1>2. CASE sender.file < Files
  BY <1>1, <1>2 DEF Zm!NextFile
<1>3. CASE sender.file = Files
  BY <1>1, <1>3 DEF Zm!NextFile
<1> QED BY <1>1, <1>2, <1>3

\* Every reaction is a state of a sender, and frames on the line.
LEMMA ReactsTyped ==
  ASSUME ZTyped, NEW h \in Header
  PROVE  Zm!Reaction(h).state \in SenderStates /\ Zm!Reaction(h).sends \in Seq(Line)
<1> DEFINE r == Zm!Reaction(h)
<1>1. /\ sender \in SenderStates /\ h.pos \in Nat
      /\ Zm!To("name") \in SenderStates /\ Zm!To("head") \in SenderStates
      /\ Zm!To("over") \in SenderStates /\ Zm!To("fin") \in SenderStates
      /\ Rewound(h.pos) \in SenderStates /\ Rewound(sender.from) \in SenderStates
  <2>1. h.pos \in Nat
    BY DEF Header
  <2> QED BY <2>1, SenderTyped DEF SenderStates, ZTyped, Asking, Sending
<1>2. /\ Zm!Announce(sender.file) \in Seq(Line) /\ <<>> \in Seq(Line) /\ BrokenOff \in Seq(Line)
      /\ <<Zm!Hdr("ZRQINIT", 0)>> \in Seq(Line) /\ <<Zm!Hdr("ZEOF", FileBlocks)>> \in Seq(Line)
      /\ <<Zm!Hdr("ZFIN", 0)>> \in Seq(Line)
  <2>1. /\ Zm!Hdr("ZRQINIT", 0) \in Line /\ Zm!Hdr("ZEOF", FileBlocks) \in Line
        /\ Zm!Hdr("ZFIN", 0) \in Line /\ Zm!EndOfFrame \in Line
    BY Made, FilesAssumption DEF Types, Zm!EndOfFrame
  <2> QED BY <2>1, SenderTyped, OfferMade DEF BrokenOff
<1>3. Zm!NextFile.state \in SenderStates /\ Zm!NextFile.sends \in Seq(Line)
  <2>1. CASE sender.file + 1 \in 1..Files
    <3>1. Zm!Announce(sender.file + 1) \in Seq(Line)
      BY <2>1, SenderTyped, OfferMade
    <3>2. [phase |-> "name", file |-> sender.file + 1, pos |-> 0, from |-> 0] \in SenderStates
      BY <2>1 DEF SenderStates, Asking
    <3> DEFINE t == [phase |-> "name", file |-> sender.file + 1, pos |-> 0, from |-> 0]
               a == Zm!Announce(sender.file + 1)
    <3>3. sender.file # Files
      BY <2>1, FilesAssumption
    <3>4. Zm!NextFile = [state |-> t, sends |-> a]
      BY <3>3, NextOne
    <3> HIDE DEF t, a
    <3>5. Zm!NextFile.state = t /\ Zm!NextFile.sends = a
      BY <3>4
    <3> QED BY <3>1, <3>2, <3>5 DEF t, a
  <2>2. CASE sender.file + 1 \notin 1..Files
    <3>1. Zm!NextFile = [state |-> Zm!To("fin"), sends |-> <<Zm!Hdr("ZFIN", 0)>>]
      BY <2>2, NextOne
    <3> QED BY <1>1, <1>2, <3>1
  <2> QED BY <2>1, <2>2
<1>4. CASE r = Zm!NextFile
  BY <1>3, <1>4
<1>5. CASE r # Zm!NextFile
  <2>1. \/ r = [state |-> Zm!To("name"), sends |-> Zm!Announce(sender.file)]
        \/ r = [state |-> Rewound(h.pos), sends |-> BrokenOff]
        \/ r = [state |-> Rewound(sender.from), sends |-> BrokenOff]
        \/ r = [state |-> Zm!To("head"), sends |-> <<>>]
        \/ r = [state |-> Zm!To("over"), sends |-> <<>>]
        \/ r = [state |-> sender, sends |-> <<>>]
        \/ r = [state |-> sender, sends |-> Zm!Announce(sender.file)]
        \/ r = [state |-> sender, sends |-> <<Zm!Hdr("ZRQINIT", 0)>>]
        \/ r = [state |-> sender, sends |-> <<Zm!Hdr("ZEOF", FileBlocks)>>]
        \/ r = [state |-> sender, sends |-> <<Zm!Hdr("ZFIN", 0)>>]
    BY <1>5, Reacts, Zenon
  <2> HIDE DEF r
  <2>2. \E a \in SenderStates, b \in Seq(Line) : r = [state |-> a, sends |-> b]
    BY <1>1, <1>2, <2>1, ZenonT(30)
  <2>3. r.state \in SenderStates /\ r.sends \in Seq(Line)
    BY <2>2
  <2> QED BY <2>3 DEF r
<1> QED BY <1>4, <1>5

\* What the receiver may make of a frame f, and where it is then.
Quietly(f) ==
  /\ Zm!Going /\ Zm!Quiet /\ faults' = faults
  /\ \/ ps' \in {"hdr", "cut"} /\ role' \in {role, "none"}
     \/ ps' = "sub" /\ role' = "file" /\ Tag(f) = "ZFILE"
     \/ /\ ps' = "sub" /\ role' = "data" /\ Tag(f) = "ZDATA"
        /\ filing # 0 /\ Len(content) = f.pos
Replied(f) ==
  /\ Zm!Going /\ faults' = faults /\ ps' = "hdr" /\ role' \in {role, "none"}
  /\ \/ (filing = 0 \/ Tag(f) = "ZRQINIT") /\ Zm!Reply(<<Zm!Hdr("ZRINIT", 0)>>)
     \/ Zm!Reply(<<Zm!Hdr("ZNAK", 0)>>)
     \/ filing # 0 /\ Zm!Reply(<<Zm!Hdr("ZRPOS", Len(content))>>)
     \/ filing # 0 /\ Zm!Reply(<<Zm!Hdr("ZNAK", 0), Zm!Hdr("ZRPOS", Len(content))>>)
Opened(f) ==
  /\ f.kind = "sub" /\ ps = "sub" /\ role = "file"
  /\ filing' = f.file /\ content' = <<>> /\ UNCHANGED <<zstate, kept, faults>>
  /\ Zm!Reply(<<Zm!Hdr("ZRPOS", 0)>>) /\ ps' = "hdr" /\ role' = "none"
Refused(f) ==
  /\ f.kind = "sub" /\ ps = "sub" /\ role = "file"
  /\ filing' = 0 /\ content' = <<>> /\ UNCHANGED <<zstate, kept>> /\ faults' = faults + 1
  /\ Zm!Reply(<<Zm!Hdr("ZSKIP", 0)>>) /\ ps' = "hdr" /\ role' = "none"
Completed(f) ==
  /\ Tag(f) = "ZEOF" /\ filing # 0 /\ Len(content) = f.pos
  /\ kept' = Append(kept, content) /\ filing' = 0 /\ content' = <<>>
  /\ UNCHANGED <<zstate, faults>>
  /\ Zm!Reply(<<Zm!Hdr("ZRINIT", 0)>>) /\ ps' = "hdr" /\ role' = "none"
Added(f) ==
  /\ f.kind = "sub" /\ ps = "sub" /\ role = "data" /\ filing # 0 /\ Zm!DataWritten(f)
Broken ==
  /\ Zm!Finish("failed") /\ Zm!Quiet /\ UNCHANGED <<ps, role>>
  /\ faults' \in {faults, faults + 1}
Ended(f) ==
  /\ Tag(f) = "ZFIN" /\ Zm!AcceptFin /\ UNCHANGED faults

\* A frame fed to the receiver has one of these outcomes; undamaged it is good.
LEMMA FeedCases ==
  ASSUME ZTyped, Zm!Feed, NEW f, f = Head(toRx)
  PROVE  /\ zstate = "active" /\ toRx # <<>> /\ f = toRx[1] /\ f \in Line /\ toRx' = Tail(toRx)
         /\ damage' \in {damage, damage + 1} /\ UNCHANGED <<sender, stalls>>
         /\ \/ Quietly(f) \/ Replied(f) \/ Opened(f) \/ Refused(f) \/ Completed(f)
            \/ Added(f) \/ Broken \/ Ended(f)
         /\ damage' = damage => Zm!Good(f)
<1>1. /\ zstate = "active" /\ toRx # <<>> /\ toRx' = Tail(toRx) /\ UNCHANGED <<sender, stalls>>
      /\ \/ Zm!Good(f) /\ damage' = damage
         \/ Zm!Damaged(f) /\ damage' = damage + 1
  BY DEF Zm!Feed
<1>2. f = toRx[1] /\ f \in Line /\ damage \in Nat /\ damage' \in {damage, damage + 1}
  BY <1>1, TailOf DEF ZTyped
<1>3. /\ ps \in {"hdr", "sub", "cut"} /\ f.kind \in {"hdr", "sub"}
      /\ f.kind = "hdr" => Tag(f) = f.type
      /\ f.kind = "sub" => Tag(f) = f.what
  BY <1>2, OnLine DEF ZTyped
<1>4. ASSUME f.kind = "hdr", ps = "hdr", Zm!AcceptHeader(f)
      PROVE  Quietly(f) \/ Replied(f) \/ Completed(f) \/ Broken \/ Ended(f)
  <2>1. UNCHANGED faults /\ Tag(f) = f.type
    BY <1>3, <1>4 DEF Zm!AcceptHeader
  <2>2. CASE f.type = "ZRQINIT" /\ Zm!AcceptRqinit
    BY <2>1, <2>2 DEF Zm!AcceptRqinit, Replied
  <2>3. CASE f.type = "ZFILE" /\ Zm!AcceptFile
    BY <2>1, <2>3 DEF Zm!AcceptFile, Quietly
  <2>4. CASE f.type = "ZDATA" /\ Zm!AcceptData(f.pos)
    BY <2>1, <2>4 DEF Zm!AcceptData, Quietly, Replied
  <2>5. CASE f.type = "ZEOF" /\ Zm!AcceptEof(f.pos)
    BY <2>1, <2>5 DEF Zm!AcceptEof, Zm!Hunting, Zm!Going, Completed, Replied
  <2>6. CASE f.type = "ZFIN" /\ Zm!AcceptFin
    BY <2>1, <2>6 DEF Ended
  <2>7. CASE Zm!AcceptAbort
    BY <1>4, <2>1, <2>7 DEF Zm!AcceptAbort, Broken
  <2>8. f.type # "ZCAN"
    BY <1>2, <1>4 DEF Line, Header, Subpacket, Types
  <2> QED BY <1>4, <2>2, <2>3, <2>4, <2>5, <2>6, <2>7, <2>8 DEF Zm!AcceptHeader
<1>5. ASSUME f.kind = "sub", ps = "sub", Zm!AcceptSub(f)
      PROVE  Quietly(f) \/ Opened(f) \/ Refused(f) \/ Added(f) \/ Broken
  <2>1. CASE role = "file" /\ Zm!FileReady(f.file)
    BY <1>5, <2>1 DEF Zm!FileReady, Zm!Hunting, Zm!DiskFails, Opened, Refused
  <2>2. CASE role = "data" /\ filing # 0 /\ Zm!DataWritten(f)
    BY <1>5, <2>2 DEF Added
  <2>3. CASE Zm!WriteFails(f)
    BY <2>3 DEF Zm!WriteFails, Zm!DiskFails, Broken
  <2>4. CASE Zm!Hunting /\ Zm!Going /\ Zm!Quiet /\ UNCHANGED <<synced, faults>>
    BY <2>4 DEF Zm!Hunting, Quietly
  <2> QED BY <1>5, <2>1, <2>2, <2>3, <2>4 DEF Zm!AcceptSub
<1>6. Zm!Ignored /\ ps = "hdr" => Quietly(f)
  BY DEF Zm!Ignored, Quietly
<1>7. Zm!Swallowed => Quietly(f)
  BY DEF Zm!Swallowed, Quietly
<1>8. Zm!SubBad => Replied(f)
  BY DEF Zm!SubBad, Zm!Hunting, Replied
<1>9. Zm!HeaderBad => Replied(f) \/ Broken
  BY DEF Zm!HeaderBad, Zm!Hunting, Replied, Broken
<1>10. ASSUME Zm!Good(f) PROVE Quietly(f) \/ Replied(f) \/ Opened(f) \/ Refused(f) \/ Completed(f) \/ Added(f)
        \/ Broken \/ Ended(f)
  BY <1>3, <1>4, <1>5, <1>6, <1>7, <1>8, <1>10 DEF Zm!Good
<1>11. ASSUME Zm!Damaged(f) PROVE Quietly(f) \/ Replied(f) \/ Opened(f) \/ Refused(f) \/ Completed(f) \/ Added(f)
        \/ Broken \/ Ended(f)
  BY <1>6, <1>7, <1>8, <1>9, <1>11 DEF Zm!Damaged
<1>12. damage' = damage => Zm!Good(f)
  BY <1>1, <1>2
<1> QED BY <1>1, <1>2, <1>10, <1>11, <1>12

\* A reply joins the others and is the one to repeat.
LEMMA ReplyKept ==
  ASSUME ZTyped, NEW hs \in Seq(Header), hs # <<>>, Zm!Reply(hs)
  PROVE  /\ toTx' = toTx \o hs /\ toTx' \in Seq(Header)
         /\ rep' = <<hs[Len(hs)]>> /\ rep' \in Seq(Header)
<1>1. Len(hs) \in 1..Len(hs) /\ hs[Len(hs)] \in Header
  OBVIOUS
<1>2. toTx' = toTx \o hs /\ rep' = <<hs[Len(hs)]>>
  BY DEF Zm!Reply, Zm!Last
<1> QED BY <1>1, <1>2, OneOf, JoinOf DEF ZTyped

\* Replies of one header and of two.
LEMMA RepliesMade ==
  \A n \in Nat :
    /\ \A t \in Types : /\ <<Zm!Hdr(t, n)>> \in Seq(Header) /\ <<Zm!Hdr(t, n)>> # <<>>
                        /\ Len(<<Zm!Hdr(t, n)>>) = 1 /\ <<Zm!Hdr(t, n)>>[1] = Zm!Hdr(t, n)
    /\ \A t, u \in Types :
         LET q == <<Zm!Hdr(t, 0), Zm!Hdr(u, n)>>
         IN  /\ q \in Seq(Header) /\ q # <<>> /\ Len(q) = 2
             /\ q[1] = Zm!Hdr(t, 0) /\ q[2] = Zm!Hdr(u, n)
<1> SUFFICES ASSUME NEW n \in Nat
             PROVE  /\ \A t \in Types : /\ <<Zm!Hdr(t, n)>> \in Seq(Header) /\ <<Zm!Hdr(t, n)>> # <<>>
                        /\ Len(<<Zm!Hdr(t, n)>>) = 1 /\ <<Zm!Hdr(t, n)>>[1] = Zm!Hdr(t, n)
                    /\ \A t, u \in Types :
                         LET q == <<Zm!Hdr(t, 0), Zm!Hdr(u, n)>>
                         IN  /\ q \in Seq(Header) /\ q # <<>> /\ Len(q) = 2
                             /\ q[1] = Zm!Hdr(t, 0) /\ q[2] = Zm!Hdr(u, n)
  OBVIOUS
<1>1. \A t \in Types : Zm!Hdr(t, n) \in Header /\ Zm!Hdr(t, 0) \in Header
  BY Made
<1>2. \A x, y \in Header : /\ <<x>> \in Seq(Header) /\ Len(<<x>>) = 1 /\ <<x>>[1] = x /\ <<x>> # <<>>
         /\ <<x, y>> \in Seq(Header) /\ Len(<<x, y>>) = 2 /\ <<x, y>>[1] = x /\ <<x, y>>[2] = y
         /\ <<x, y>> # <<>>
  OBVIOUS
<1> QED BY <1>1, <1>2

\* The variables of the receiver that a type is given to, but for the line to it.
Received ==
  /\ zstate \in {"active", "done", "failed", "cancelled"}
  /\ ps \in {"hdr", "sub", "cut"} /\ role \in {"none", "file", "data"}
  /\ filing \in Nat /\ content \in Seq(Nat \X Nat) /\ kept \in Seq(Seq(Nat \X Nat))
  /\ rep \in Seq(Header) /\ toTx \in Seq(Header)
  /\ faults \in Nat

\* The receiver is through: nothing is open.
LEMMA FinishTyped ==
  ASSUME ZTyped, NEW st \in {"done", "failed", "cancelled"}, Zm!Finish(st)
  PROVE  /\ zstate' = st /\ filing' = 0 /\ content' = <<>>
         /\ zstate' \in {"active", "done", "failed", "cancelled"}
         /\ filing' \in Nat /\ content' \in Seq(Nat \X Nat) /\ kept' \in Seq(Seq(Nat \X Nat))
<1>1. \A q \in Seq(Seq(Nat \X Nat)), x \in Seq(Nat \X Nat) : Append(q, x) \in Seq(Seq(Nat \X Nat))
  OBVIOUS
<1> QED BY <1>1 DEF Zm!Finish, ZTyped

\* A block adds itself, the mark of a broken frame adds nothing.
LEMMA AddedContent ==
  ASSUME ZTyped, NEW f \in Line, Added(f)
  PROVE  /\ content' \in Seq(Nat \X Nat) /\ Len(content') \in Nat
         /\ f.block = 0 => content' = content
         /\ f.block # 0 => content' = Append(content, <<f.file, f.block>>)
<1>1. f.kind = "sub" /\ f.file \in Nat /\ f.block \in Nat /\ <<f.file, f.block>> \in Nat \X Nat
  BY OnLine DEF Added
<1>2. content' = IF f.block = 0 THEN content ELSE Append(content, <<f.file, f.block>>)
  BY DEF Added, Zm!DataWritten
<1> QED BY <1>1, <1>2 DEF ZTyped

\* Whatever the outcome, the variables keep their types.
LEMMA OutcomeTyped ==
  ASSUME ZTyped, NEW f \in Line,
         \/ Quietly(f) \/ Replied(f) \/ Opened(f) \/ Refused(f) \/ Completed(f)
         \/ Added(f) \/ Broken \/ Ended(f)
  PROVE  Received'
<1>0. /\ zstate \in {"active", "done", "failed", "cancelled"}
      /\ ps \in {"hdr", "sub", "cut"} /\ role \in {"none", "file", "data"}
      /\ filing \in Nat /\ content \in Seq(Nat \X Nat) /\ kept \in Seq(Seq(Nat \X Nat))
      /\ rep \in Seq(Header) /\ toTx \in Seq(Header)
      /\ faults \in Nat /\ faults + 1 \in Nat /\ Len(content) \in Nat
      /\ <<>> \in Seq(Nat \X Nat)
  BY DEF ZTyped
<1>1. \A t \in Types : /\ <<Zm!Hdr(t, 0)>> \in Seq(Header) /\ <<Zm!Hdr(t, 0)>> # <<>>
                       /\ \A n \in Nat : <<Zm!Hdr(t, n)>> \in Seq(Header) /\ <<Zm!Hdr(t, n)>> # <<>>
  BY RepliesMade
<1>2. \A hs \in Seq(Header) : hs # <<>> /\ Zm!Reply(hs) => toTx' \in Seq(Header) /\ rep' \in Seq(Header)
  BY ReplyKept
<1>3. ASSUME Quietly(f) PROVE Received'
  BY <1>0, <1>3 DEF Quietly, Zm!Going, Zm!Quiet, Received
<1>4. ASSUME Replied(f) PROVE Received'
  <2>1. LET q == <<Zm!Hdr("ZNAK", 0), Zm!Hdr("ZRPOS", Len(content))>> IN q \in Seq(Header) /\ q # <<>>
    BY <1>0, RepliesMade DEF Types
  <2>2. "ZRINIT" \in Types /\ "ZNAK" \in Types /\ "ZRPOS" \in Types
    BY DEF Types
  <2>3. toTx' \in Seq(Header) /\ rep' \in Seq(Header)
    BY <1>0, <1>1, <1>2, <1>4, <2>1, <2>2 DEF Replied
  <2> QED BY <1>0, <1>4, <2>3 DEF Replied, Zm!Going, Received
<1>5. ASSUME Opened(f) PROVE Received'
  <2>1. toTx' \in Seq(Header) /\ rep' \in Seq(Header)
    BY <1>1, <1>2, <1>5 DEF Opened, Types
  <2>2. f.file \in Nat
    BY <1>5, OnLine DEF Opened
  <2> QED BY <1>0, <1>5, <2>1, <2>2 DEF Opened, Received
<1>6. ASSUME Refused(f) PROVE Received'
  <2>1. toTx' \in Seq(Header) /\ rep' \in Seq(Header)
    BY <1>1, <1>2, <1>6 DEF Refused, Types
  <2> QED BY <1>0, <1>6, <2>1 DEF Refused, Received
<1>7. ASSUME Completed(f) PROVE Received'
  <2>1. toTx' \in Seq(Header) /\ rep' \in Seq(Header)
    BY <1>1, <1>2, <1>7 DEF Completed, Types
  <2>2. kept' \in Seq(Seq(Nat \X Nat))
    BY <1>0, <1>7 DEF Completed
  <2> QED BY <1>0, <1>7, <2>1, <2>2 DEF Completed, Received
<1>8. ASSUME Added(f) PROVE Received'
  <2>1. content' \in Seq(Nat \X Nat) /\ Len(content') \in Nat
    BY <1>8, AddedContent
  <2>2. toTx' \in Seq(Header) /\ rep' \in Seq(Header)
    BY <1>0, <1>1, <1>2, <1>8, <2>1 DEF Added, Zm!DataWritten, Zm!Quiet, Types
  <2>3. ps' \in {"hdr", "sub", "cut"}
    BY <1>8 DEF Added, Zm!DataWritten
  <2> QED BY <1>0, <1>8, <2>1, <2>2, <2>3 DEF Added, Zm!DataWritten, Received
<1>9. ASSUME Broken PROVE Received'
  BY <1>0, <1>9, FinishTyped DEF Broken, Zm!Quiet, Received
<1>10. ASSUME Ended(f) PROVE Received'
  <2>1. toTx' \in Seq(Header) /\ rep' \in Seq(Header)
    BY <1>1, <1>2, <1>10 DEF Ended, Zm!AcceptFin, Types
  <2> QED BY <1>0, <1>10, <2>1, FinishTyped DEF Ended, Zm!AcceptFin, Received
<1> QED BY <1>3, <1>4, <1>5, <1>6, <1>7, <1>8, <1>9, <1>10

\* ... and the line has lost the frame.
LEMMA FeedTyped ==
  ASSUME ZTyped, Zm!Feed
  PROVE  ZTyped'
<1>1. Received'
  BY FeedCases, OutcomeTyped
<1>2. toRx # <<>> /\ toRx' = Tail(toRx) /\ damage' \in {damage, damage + 1} /\ UNCHANGED <<sender, stalls>>
  BY FeedCases
<1>3. toRx' \in Seq(Line) /\ damage' \in Nat
  BY <1>2, TailOf DEF ZTyped
<1> QED BY <1>1, <1>2, <1>3 DEF ZTyped, Received, SenderStates

\* What a sender in one of its phases repeats.
LEMMA Repeated ==
  ASSUME ZTyped, Zm!SenderRepeats
  PROVE  /\ toRx = <<>> /\ toTx = <<>> /\ sender.phase \in {"start", "name", "eof", "fin"}
         /\ sender.phase = "start" => toRx' = <<Zm!Hdr("ZRQINIT", 0)>>
         /\ sender.phase = "name" => toRx' = Zm!Announce(sender.file)
         /\ sender.phase = "eof" => toRx' = <<Zm!Hdr("ZEOF", FileBlocks)>>
         /\ sender.phase = "fin" => toRx' = <<Zm!Hdr("ZFIN", 0)>>
         /\ toRx' \in Seq(Line)
<1>1. /\ toRx = <<>> /\ toTx = <<>> /\ sender.phase \in DOMAIN Zm!Waiting /\ toRx' = Zm!Waiting[sender.phase]
  BY DEF Zm!SenderRepeats, Zm!Silence, Zm!SenderTurn
<1>2. /\ DOMAIN Zm!Waiting = {"start", "name", "eof", "fin"}
      /\ Zm!Waiting["start"] = <<Zm!Hdr("ZRQINIT", 0)>> /\ Zm!Waiting["name"] = Zm!Announce(sender.file)
      /\ Zm!Waiting["eof"] = <<Zm!Hdr("ZEOF", FileBlocks)>> /\ Zm!Waiting["fin"] = <<Zm!Hdr("ZFIN", 0)>>
  BY DEF Zm!Waiting
<1>3. /\ <<Zm!Hdr("ZRQINIT", 0)>> \in Seq(Line) /\ <<Zm!Hdr("ZEOF", FileBlocks)>> \in Seq(Line)
      /\ <<Zm!Hdr("ZFIN", 0)>> \in Seq(Line) /\ Zm!Announce(sender.file) \in Seq(Line)
  <2>1. /\ Zm!Hdr("ZRQINIT", 0) \in Line /\ Zm!Hdr("ZEOF", FileBlocks) \in Line
        /\ Zm!Hdr("ZFIN", 0) \in Line
    BY Made, FilesAssumption DEF Types
  <2> QED BY <2>1, SenderTyped, OfferMade
<1>4. toRx' \in Seq(Line)
  BY <1>1, <1>2, <1>3
<1> QED BY <1>1, <1>2, <1>4

\* The three things that a sender sends unasked.
SendsData ==
  /\ sender.phase = "head" /\ sender.pos < FileBlocks
  /\ toRx' = Append(toRx, Zm!Hdr("ZDATA", sender.pos))
  /\ sender' = [sender EXCEPT !.phase = "data", !.from = sender.pos]
SendsBlock(e) ==
  /\ sender.phase = "data" /\ sender.pos < FileBlocks
  /\ e = "E" <=> sender.pos + 1 = FileBlocks
  /\ toRx' = Append(toRx, Zm!DataSub(sender.file, sender.pos + 1, e))
  /\ sender' = [sender EXCEPT !.pos = @ + 1, !.phase = IF e = "W" THEN "ack" ELSE "data"]
SendsEof ==
  /\ sender.phase \in {"head", "data"} /\ sender.pos = FileBlocks
  /\ toRx' = Append(toRx, Zm!Hdr("ZEOF", FileBlocks))
  /\ sender' = Zm!To("eof")

\* What is sent unasked is a data header, a block or the end of the file.
LEMMA SendsCases ==
  ASSUME ZTyped, Zm!SenderSends
  PROVE  SendsData \/ (\E e \in {"W", "G", "E"} : SendsBlock(e)) \/ SendsEof
BY DEF Zm!SenderSends, SendsData, SendsBlock, SendsEof

\* It has the type of what is on the line.
LEMMA SendsTyped ==
  ASSUME ZTyped, Zm!SenderSends
  PROVE  /\ toRx' \in Seq(Line) /\ sender' \in SenderStates
<1>0. \A x \in Line : Append(toRx, x) \in Seq(Line)
  BY DEF ZTyped
<1>00. /\ sender.phase \in Asking \cup Sending \cup {"fin", "over"}
       /\ sender.file \in 1..Files /\ sender.file \in Nat
       /\ sender.pos \in Nat /\ sender.from \in Nat /\ sender \in SenderStates
       /\ Zm!To("eof") \in SenderStates
  BY SenderTyped DEF Sending, ZTyped
<1>1. CASE SendsData
  <2>1. Zm!Hdr("ZDATA", sender.pos) \in Line
    BY <1>00, Made DEF Types
  <2>2. [sender EXCEPT !.phase = "data", !.from = sender.pos] \in SenderStates
    BY <1>00 DEF SenderStates, Sending
  <2> QED BY <1>0, <1>1, <2>1, <2>2 DEF SendsData
<1>2. ASSUME NEW e \in {"W", "G", "E"}, SendsBlock(e) PROVE toRx' \in Seq(Line) /\ sender' \in SenderStates
  <2>1. Zm!DataSub(sender.file, sender.pos + 1, e) \in Line
    <3>1. sender.pos + 1 \in Nat
      BY <1>00
    <3> QED BY <1>00, <3>1, Made
  <2>2. [sender EXCEPT !.pos = @ + 1, !.phase = IF e = "W" THEN "ack" ELSE "data"] \in SenderStates
    <3> DEFINE P == Asking \cup Sending \cup {"fin", "over"}
               p == IF e = "W" THEN "ack" ELSE "data"
    <3>1. p \in P
      BY DEF Sending
    <3>2. SenderStates = [phase : P, file : 1..Files, pos : Nat, from : Nat]
      BY DEF SenderStates
    <3>3. sender.pos + 1 \in Nat
      BY <1>00
    <3> HIDE DEF P, p
    <3>4. [sender EXCEPT !.pos = @ + 1, !.phase = p] \in SenderStates
      BY <1>00, <3>1, <3>2, <3>3
    <3> QED BY <3>4 DEF p
  <2> QED BY <1>0, <1>2, <2>1, <2>2 DEF SendsBlock
<1>3. CASE SendsEof
  <2>1. Zm!Hdr("ZEOF", FileBlocks) \in Line
    BY Made, FilesAssumption DEF Types
  <2> QED BY <1>0, <1>00, <1>3, <2>1 DEF SendsEof
<1> QED BY <1>1, <1>2, <1>3, SendsCases

\* A sender that stops ends the session without anything kept or answered.
LEMMA StopEnds ==
  ASSUME Zm!SenderStops
  PROVE  /\ zstate = "active" /\ zstate' \in {"failed", "cancelled"}
         /\ filing' = 0 /\ content' = <<>> /\ ps' \in {ps, "hdr"}
         /\ UNCHANGED <<kept, role, rep, reps, toRx, toTx, damage, stalls, faults>>
         /\ sender' = Zm!To("over")
<1>1. /\ zstate = "active" /\ sender' = Zm!To("over")
      /\ UNCHANGED <<reps, toRx, damage, stalls>>
      /\ \/ \E t \in {"ZABORT", "ZFERR", "ZCAN"} : Zm!AcceptHeader(Zm!Hdr(t, 0))
         \/ Zm!FiveCans
  BY DEF Zm!SenderStops
<1>2. UNCHANGED faults /\ (Zm!AcceptAbort \/ Zm!AcceptCancel \/ Zm!FiveCans)
  <2>1. CASE Zm!FiveCans
    BY <2>1 DEF Zm!FiveCans
  <2>2. ASSUME NEW t \in {"ZABORT", "ZFERR", "ZCAN"}, Zm!AcceptHeader(Zm!Hdr(t, 0))
        PROVE  UNCHANGED faults /\ (Zm!AcceptAbort \/ Zm!AcceptCancel)
    BY <2>2 DEF Zm!AcceptHeader, Zm!Hdr
  <2> QED BY <1>1, <2>1, <2>2
<1>3. /\ Zm!Finish("failed") \/ Zm!Finish("cancelled")
      /\ Zm!Quiet /\ UNCHANGED role /\ ps' \in {ps, "hdr"}
  BY <1>2 DEF Zm!AcceptAbort, Zm!AcceptCancel, Zm!FiveCans
<1> QED BY <1>1, <1>2, <1>3 DEF Zm!Finish, Zm!Quiet

\* The types of the variables, step by step.
LEMMA TypedStep ==
  ASSUME ZTyped, [Zm!Next]_zmVars
  PROVE  ZTyped'
<1>1. CASE Zm!Feed
  BY <1>1, FeedTyped
<1>2. CASE Zm!Tick
  <2>1. /\ UNCHANGED <<ps, role, sender, toRx, damage, faults>>
        /\ stalls' = stalls \/ stalls' = stalls + 1
        /\ \/ Zm!Finish("failed") /\ Zm!Quiet
           \/ ~ Zm!Spent /\ Zm!Reply(rep) /\ Zm!Going
    BY <1>2 DEF Zm!Tick
  <2>2. CASE Zm!Finish("failed") /\ Zm!Quiet
    <3> QED BY <2>1, <2>2, FinishTyped DEF Zm!Quiet, ZTyped
  <2>3. CASE ~ Zm!Spent /\ Zm!Reply(rep) /\ Zm!Going
    <3>1. rep \in Seq(Header) /\ rep # <<>>
      BY <2>3 DEF Zm!Spent, ZTyped
    <3>2. toTx' \in Seq(Header) /\ rep' \in Seq(Header)
      BY <2>3, <3>1, ReplyKept
    <3> QED BY <2>1, <2>3, <3>2 DEF Zm!Going, ZTyped
  <2> QED BY <2>1, <2>2, <2>3
<1>3. CASE Zm!Cancel
  <2>1. UNCHANGED <<ps, role, sender, toRx, damage, stalls, faults>>
        /\ Zm!Finish("cancelled") /\ Zm!Reply(<<Zm!Hdr("ZABORT", 0)>>)
    BY <1>3 DEF Zm!Cancel
  <2>2. <<Zm!Hdr("ZABORT", 0)>> \in Seq(Header) /\ <<Zm!Hdr("ZABORT", 0)>> # <<>>
    BY RepliesMade DEF Types
  <2>3. toTx' \in Seq(Header) /\ rep' \in Seq(Header)
    BY <2>1, <2>2, ReplyKept
  <2> QED BY <2>1, <2>3, FinishTyped DEF ZTyped
<1>4. CASE Zm!SenderHears
  <2>1. /\ toTx # <<>> /\ toTx' = Tail(toTx)
        /\ UNCHANGED <<zstate, ps, role, filing, content, kept, rep, stalls, faults>>
        /\ \/ /\ sender' = Zm!Reaction(Head(toTx)).state /\ damage' = damage
              /\ toRx' = toRx \o Zm!Reaction(Head(toTx)).sends
           \/ damage' = damage + 1 /\ UNCHANGED <<sender, toRx>>
    BY <1>4 DEF Zm!SenderHears
  <2>2. toTx' \in Seq(Header) /\ Head(toTx) \in Header
    BY <2>1, TailOf DEF ZTyped
  <2>3. Zm!Reaction(Head(toTx)).state \in SenderStates /\ Zm!Reaction(Head(toTx)).sends \in Seq(Line)
    BY <2>2, ReactsTyped
  <2>4. toRx \o Zm!Reaction(Head(toTx)).sends \in Seq(Line)
    BY <2>3, JoinOf DEF ZTyped
  <2>5. sender' \in SenderStates /\ toRx' \in Seq(Line) /\ damage' \in Nat
    <3>1. sender \in SenderStates /\ toRx \in Seq(Line) /\ damage \in Nat
      BY DEF ZTyped
    <3> DEFINE t == Zm!Reaction(Head(toTx)).state
               q == toRx \o Zm!Reaction(Head(toTx)).sends
    <3>2. \/ sender' = t /\ damage' = damage /\ toRx' = q
          \/ damage' = damage + 1 /\ sender' = sender /\ toRx' = toRx
      BY <2>1
    <3>3. t \in SenderStates /\ q \in Seq(Line)
      BY <2>3, <2>4
    <3> HIDE DEF t, q
    <3> QED BY <3>1, <3>2, <3>3
  <2> QED BY <2>1, <2>2, <2>5 DEF ZTyped
<1>5. CASE Zm!SenderSends
  <2>1. UNCHANGED <<zstate, ps, role, filing, content, kept, rep, toTx, damage, stalls, faults>>
    BY <1>5 DEF Zm!SenderSends
  <2> QED BY <1>5, <2>1, SendsTyped DEF ZTyped
<1>6. CASE Zm!SenderRepeats
  <2>1. UNCHANGED <<zstate, ps, role, filing, content, kept, rep, sender, toTx, damage, stalls, faults>>
    BY <1>6 DEF Zm!SenderRepeats
  <2> QED BY <1>6, <2>1, Repeated DEF ZTyped
<1>7. CASE UNCHANGED zmVars
  BY <1>7 DEF zmVars, ZTyped
<1>8. CASE Zm!SenderStops
  <2>1. sender' \in SenderStates
    BY <1>8, StopEnds DEF ZTyped, Zm!To, SenderStates
  <2>2. content' \in Seq(Nat \X Nat) /\ filing' \in Nat
    BY <1>8, StopEnds
  <2> QED BY <1>8, <2>1, <2>2, StopEnds DEF ZTyped
<1> QED BY <1>1, <1>2, <1>3, <1>4, <1>5, <1>6, <1>7, <1>8 DEF Zm!Next

(* The conversation of two who repeat themselves.                          *)

\* The sets of kinds, spelled out; a sequence of some kinds is one of more.
LEMMA Kinds ==
  /\ Offers = {"ZRQINIT", "ZFILE", "file"} /\ Pieces = {"ZDATA", "ZEOF", "data"}
  /\ Answers = {"ZRINIT", "ZRPOS", "ZACK", "ZNAK"}
  /\ Asking = {"start", "name"} /\ Sending = {"head", "data", "ack", "eof"}
  /\ \A q, S, T : All(q, S) /\ S \subseteq T => All(q, T)
BY DEF Offers, Pieces, Answers, Asking, Sending, All

\* The kinds in a sequence of one or two.
LEMMA AllOne ==
  ASSUME NEW S, NEW x, NEW y, NEW T
  PROVE  /\ Tag(x) \in T => All(<<x>>, T)
         /\ Tag(x) \in T /\ Tag(y) \in T => All(<<x, y>>, T)
         /\ All(<<>>, T)
BY DEF All

\* More replies.
LEMMA RepliesMore ==
  ASSUME ZTyped, Replies, NEW hs \in Seq(Header), hs # <<>>, All(hs, Allowed),
         toTx' = toTx \o hs, rep' = <<hs[Len(hs)]>>, filing' = filing, sender' = sender
  PROVE  Replies'
<1>0. toTx \in Seq(Header)
  BY DEF ZTyped
<1>1. All(hs, Answers) /\ Allowed \subseteq Answers
  BY Kinds DEF Allowed
<1>2. All(toTx', Answers)
  BY <1>0, <1>1, JoinKinds DEF Replies
<1>3. All(rep', Allowed')
  <2>1. Tag(hs[Len(hs)]) \in Allowed
    BY DEF All
  <2> QED BY <2>1, AllOne DEF Allowed
<1>4. CASE filing = 0
  <2>1. All(hs, Answers \ {"ZRPOS"}) /\ (Answers \ {"ZRPOS"}) \cap {"ZRPOS"} = {}
    BY <1>4 DEF Allowed
  <2>2. NoneAfter(toTx', {"ZRINIT"}, {"ZRPOS"})
    BY <1>0, <1>4, <2>1, JoinKinds DEF Replies
  <2>3. sender.phase \in Asking => All(toTx', Answers \ {"ZRPOS"})
    BY <1>0, <1>4, <2>1, JoinKinds DEF Replies
  <2> QED BY <1>2, <1>3, <1>4, <2>2, <2>3 DEF Replies
<1>5. CASE filing # 0
  <2>1. All(hs, Answers \ {"ZRINIT"}) /\ (Answers \ {"ZRINIT"}) \cap {"ZRINIT"} = {}
    BY <1>5 DEF Allowed
  <2>2. NoneAfter(toTx', {"ZRPOS"}, {"ZRINIT"})
    BY <1>0, <1>5, <2>1, JoinKinds DEF Replies
  <2>3. sender.phase \in Sending => All(toTx', Answers \ {"ZRINIT"})
    BY <1>0, <1>5, <2>1, JoinKinds DEF Replies
  <2> QED BY <1>2, <1>3, <1>5, <2>2, <2>3 DEF Replies
<1> QED BY <1>4, <1>5

\* The same replies.
LEMMA RepliesSame ==
  ASSUME Replies, toTx' = toTx, rep' = rep, filing' = filing, sender' = sender
  PROVE  Replies'
BY DEF Replies, Allowed

\* One reply less, and a sender that asks or sends as before.
LEMMA RepliesLess ==
  ASSUME ZTyped, Replies, toTx # <<>>, toTx' = Tail(toTx), rep' = rep, filing' = filing,
         sender'.phase \in Asking => sender.phase \in Asking,
         sender'.phase \in Sending => sender.phase \in Sending
  PROVE  Replies'
<1>0. toTx \in Seq(Header)
  BY DEF ZTyped
<1>1. /\ \A T : All(toTx, T) => All(toTx', T)
      /\ \A T, U : NoneAfter(toTx, T, U) => NoneAfter(toTx', T, U)
  BY <1>0, TailKinds
<1> QED BY <1>1 DEF Replies, Allowed

\* The rest of the line.
LEMMA StreamLess ==
  ASSUME ZTyped, Stream, toRx # <<>>, toRx' = Tail(toRx), sender' = sender
  PROVE  /\ Stream'
         /\ toRx' # <<>> => Fits(toRx[1], toRx'[1])
         /\ toRx' = <<>> => Tag(toRx[1]) # "ZFILE"
         /\ toRx' = <<>> /\ sender.phase = "data" =>
              Fits(toRx[1], Zm!DataSub(1, sender.pos + 1, "G"))
<1>1. /\ toRx' \in Seq(Line) /\ Len(toRx') = Len(toRx) - 1 /\ Len(toRx) \in Nat \ {0}
      /\ \A i \in 1..Len(toRx') : i + 1 \in 1..Len(toRx) /\ i \in 1..Len(toRx)
                                  /\ toRx'[i] = toRx[i + 1]
  BY TailOf DEF ZTyped
<1>2. \A i, j \in 1..Len(toRx') : j = i + 1 => Fits(toRx'[i], toRx'[j])
  <2> SUFFICES ASSUME NEW i \in 1..Len(toRx'), NEW j \in 1..Len(toRx'), j = i + 1
               PROVE  Fits(toRx'[i], toRx'[j])
    OBVIOUS
  <2>1. i + 1 \in 1..Len(toRx) /\ j + 1 \in 1..Len(toRx) /\ j + 1 = (i + 1) + 1
        /\ toRx'[i] = toRx[i + 1] /\ toRx'[j] = toRx[j + 1]
    BY <1>1
  <2> QED BY <2>1 DEF Stream
<1>3. CASE toRx' = <<>>
  <2>1. Len(toRx) = 1
    <3>1. Len(toRx') = 0
      BY <1>1, <1>3, EmptySeq
    <3> QED BY <1>1, <3>1
  <2>2. /\ Tag(toRx[1]) # "ZFILE"
        /\ sender.phase = "data" => Fits(toRx[1], Zm!DataSub(1, sender.pos + 1, "G"))
    BY <2>1 DEF Stream
  <2> QED BY <1>2, <1>3, <2>2 DEF Stream
<1>4. CASE toRx' # <<>>
  <2>1. Len(toRx') \in 1..Len(toRx') /\ 1 \in 1..Len(toRx') /\ Len(toRx') + 1 = Len(toRx)
    BY <1>1, <1>4
  <2>2. toRx'[Len(toRx')] = toRx[Len(toRx)] /\ toRx'[1] = toRx[2] /\ 1 \in 1..Len(toRx) /\ 2 \in 1..Len(toRx)
    BY <1>1, <2>1
  <2>3. Fits(toRx[1], toRx[2])
    BY <2>2 DEF Stream
  <2>4. /\ Tag(toRx'[Len(toRx')]) # "ZFILE"
        /\ sender'.phase = "data" => Fits(toRx'[Len(toRx')], Zm!DataSub(1, sender'.pos + 1, "G"))
    BY <2>2 DEF Stream
  <2> QED BY <1>2, <1>4, <2>2, <2>3, <2>4 DEF Stream
<1> QED BY <1>3, <1>4

\* A beginning: it may follow anything.
Fresh(f) == f.kind = "hdr" \/ (Tag(f) = "data" /\ f.block = 0)

\* A beginning may follow anything but the header of a file.
LEMMA FreshFits ==
  ASSUME NEW x, NEW y, Tag(x) # "ZFILE", Fresh(y)
  PROVE  Fits(x, y)
BY DEF Fits, Goes, Fresh

\* What the sender may add to the line, at its end.
LEMMA StreamMore ==
  ASSUME ZTyped, Stream, NEW r \in Seq(Line), r # <<>>, toRx' = toRx \o r,
         toRx # <<>> => Fits(toRx[Len(toRx)], r[1]),
         \A i, j \in 1..Len(r) : j = i + 1 => Fits(r[i], r[j]),
         Tag(r[Len(r)]) # "ZFILE",
         sender'.phase = "data" => Fits(r[Len(r)], Zm!DataSub(1, sender'.pos + 1, "G"))
  PROVE  Stream' /\ toRx' # <<>> /\ toRx'[1] = IF toRx = <<>> THEN r[1] ELSE toRx[1]
<1>1. /\ toRx' \in Seq(Line) /\ Len(toRx') = Len(toRx) + Len(r) /\ Len(toRx) \in Nat /\ Len(r) \in Nat \ {0}
      /\ \A i \in 1..Len(toRx') :
           \/ i \in 1..Len(toRx) /\ toRx'[i] = toRx[i]
           \/ i - Len(toRx) \in 1..Len(r) /\ toRx'[i] = r[i - Len(toRx)]
      /\ \A i \in 1..Len(toRx) : toRx'[i] = toRx[i]
      /\ \A i \in 1..Len(r) : toRx'[Len(toRx) + i] = r[i]
  BY JoinOf DEF ZTyped
<1>2. \A i, j \in 1..Len(toRx') : j = i + 1 => Fits(toRx'[i], toRx'[j])
  <2> SUFFICES ASSUME NEW i \in 1..Len(toRx'), NEW j \in 1..Len(toRx'), j = i + 1
               PROVE  Fits(toRx'[i], toRx'[j])
    OBVIOUS
  <2>1. CASE j \in 1..Len(toRx)
    <3>1. i \in 1..Len(toRx) /\ toRx'[i] = toRx[i] /\ toRx'[j] = toRx[j]
      BY <1>1, <2>1
    <3> QED BY <2>1, <3>1 DEF Stream
  <2>2. CASE i = Len(toRx)
    <3>1. toRx # <<>> /\ toRx'[i] = toRx[Len(toRx)]
      BY <1>1, <2>2
    <3>2. toRx'[j] = r[1]
      BY <1>1, <2>2
    <3> QED BY <3>1, <3>2
  <2>3. CASE i - Len(toRx) \in 1..Len(r)
    <3>1. /\ j - Len(toRx) \in 1..Len(r) /\ j - Len(toRx) = (i - Len(toRx)) + 1
          /\ i \notin 1..Len(toRx) /\ j \notin 1..Len(toRx)
      BY <1>1, <2>3
    <3>2. toRx'[i] = r[i - Len(toRx)] /\ toRx'[j] = r[j - Len(toRx)]
      BY <1>1, <3>1
    <3> QED BY <2>3, <3>1, <3>2
  <2> QED BY <1>1, <2>1, <2>2, <2>3
<1>3. Len(toRx') # 0 /\ toRx' # <<>> /\ toRx'[Len(toRx')] = r[Len(r)]
  BY <1>1
<1>4. toRx'[1] = IF toRx = <<>> THEN r[1] ELSE toRx[1]
  <2>1. CASE toRx = <<>>
    <3>1. Len(toRx) = 0
      BY <2>1
    <3> QED BY <1>1, <2>1, <3>1
  <2>2. CASE toRx # <<>>
    <3>1. 1 \in 1..Len(toRx)
      BY <1>1, <2>2
    <3> QED BY <1>1, <2>2, <3>1
  <2> QED BY <2>1, <2>2
<1> QED BY <1>2, <1>3, <1>4 DEF Stream

\* ... a beginning.
LEMMA StreamFresh ==
  ASSUME ZTyped, Stream, Reads, NEW r \in Seq(Line), r # <<>>, toRx' = toRx \o r, Fresh(r[1]),
         \A i, j \in 1..Len(r) : j = i + 1 => Fits(r[i], r[j]),
         Tag(r[Len(r)]) # "ZFILE",
         sender'.phase = "data" => Fits(r[Len(r)], Zm!DataSub(1, sender'.pos + 1, "G")),
         UNCHANGED <<ps, role, filing, content>>
  PROVE  Stream' /\ Reads'
<1>1. toRx # <<>> => Fits(toRx[Len(toRx)], r[1])
  BY FreshFits DEF Stream
<1>2. Stream' /\ toRx' # <<>> /\ toRx'[1] = IF toRx = <<>> THEN r[1] ELSE toRx[1]
  BY <1>1, StreamMore
<1>3. Goes(Len(content), r[1])
  BY DEF Fresh, Goes
<1> QED BY <1>2, <1>3 DEF Reads

\* Requests: one less, and some more.
LEMMA RequestsLess ==
  ASSUME ZTyped, Requests, toRx # <<>>, toRx' = Tail(toRx), filing' = filing, sender' = sender
  PROVE  Requests'
<1>0. toRx \in Seq(Line)
  BY DEF ZTyped
<1>1. /\ \A T : All(toRx, T) => All(toRx', T)
      /\ \A T, U : NoneAfter(toRx, T, U) => NoneAfter(toRx', T, U)
  BY <1>0, TailKinds
<1>2. \A i \in 1..Len(toRx') : Sound(toRx'[i], sender.file, filing)
  <2>1. \A i \in 1..Len(toRx') : i + 1 \in 1..Len(toRx) /\ toRx'[i] = toRx[i + 1]
    BY <1>0, TailOf
  <2> QED BY <2>1 DEF Requests
<1> QED BY <1>1, <1>2 DEF Requests

\* Sound frames joined to sound frames.
LEMMA SoundMore ==
  ASSUME ZTyped, NEW r \in Seq(Line), toRx' = toRx \o r, NEW k, NEW g,
         \A i \in 1..Len(toRx) : Sound(toRx[i], k, g),
         \A i \in 1..Len(r) : Sound(r[i], k, g)
  PROVE  \A i \in 1..Len(toRx') : Sound(toRx'[i], k, g)
<1>1. \A i \in 1..Len(toRx') :
           \/ i \in 1..Len(toRx) /\ toRx'[i] = toRx[i]
           \/ i - Len(toRx) \in 1..Len(r) /\ toRx'[i] = r[i - Len(toRx)]
  BY JoinOf DEF ZTyped
<1> QED BY <1>1

\* A frame less on the line, whatever the receiver makes of it.
LEMMA LineFeed ==
  ASSUME ZTyped, Stream, Reads, Zm!Feed, NEW f, f = Head(toRx),
         Quietly(f) \/ Replied(f) \/ Opened(f) \/ Refused(f) \/ Completed(f) \/ Added(f),
         Tag(f) = "data" /\ f.block = 0 => f.end = "E"
  PROVE  Stream' /\ Reads'
<1>1. /\ toRx # <<>> /\ f = toRx[1] /\ f \in Line /\ toRx' = Tail(toRx) /\ sender' = sender
  BY FeedCases
<1>2. /\ Stream'
      /\ toRx' # <<>> => Fits(f, toRx'[1])
      /\ toRx' = <<>> => Tag(f) # "ZFILE"
      /\ toRx' = <<>> /\ sender.phase = "data" => Fits(f, Zm!DataSub(1, sender.pos + 1, "G"))
  BY <1>1, StreamLess
<1>3. ASSUME filing' # 0, Len(content') \in Nat, ps' = "sub", role' = "data",
             \A y : Fits(f, y) => Goes(Len(content'), y)
      PROVE  Reads'
  <2>1. toRx' # <<>> => Goes(Len(content'), toRx'[1])
    BY <1>2, <1>3
  <2>2. ASSUME toRx' = <<>>, sender'.phase = "data" PROVE Len(content') = sender'.pos
    <3>1. Goes(Len(content'), Zm!DataSub(1, sender.pos + 1, "G"))
      BY <1>1, <1>2, <1>3, <2>2
    <3>2. sender.pos \in Nat
      BY SenderTyped
    <3>3. /\ Zm!DataSub(1, sender.pos + 1, "G").kind = "sub"
          /\ Zm!DataSub(1, sender.pos + 1, "G").block = sender.pos + 1
      BY DEF Zm!DataSub
    <3> QED BY <1>1, <1>3, <3>1, <3>2, <3>3 DEF Goes
  <2> QED BY <1>3, <2>1, <2>2 DEF Reads
<1>4. CASE ps' \in {"hdr", "cut"}
  BY <1>2, <1>4 DEF Reads
<1>5. CASE Quietly(f) /\ ps' = "sub" /\ role' = "file" /\ Tag(f) = "ZFILE"
  BY <1>2, <1>5 DEF Reads, Fits
<1>6. CASE /\ Quietly(f) /\ ps' = "sub" /\ role' = "data" /\ Tag(f) = "ZDATA"
           /\ filing # 0 /\ Len(content) = f.pos
  <2>1. Len(content') = f.pos /\ Len(content') \in Nat /\ filing' # 0
    BY <1>6 DEF Quietly, Zm!Going, ZTyped
  <2>2. \A y : Fits(f, y) => Goes(Len(content'), y)
    BY <1>6, <2>1 DEF Fits
  <2> QED BY <1>2, <1>3, <1>6, <2>1, <2>2
<1>7. CASE Added(f) /\ f.end = "G"
  <2>1. /\ f.kind = "sub" /\ ps = "sub" /\ role = "data" /\ filing # 0
        /\ UNCHANGED <<filing, role>> /\ ps' = "sub"
    BY <1>7 DEF Added, Zm!DataWritten
  <2>2. Tag(f) = "data" /\ f.block \in {0, Len(content) + 1}
    BY <1>1, <2>1 DEF Reads, Goes
  <2>3. f.block = Len(content) + 1 /\ f.block # 0
    BY <1>7, <2>2
  <2>4. content' = Append(content, <<f.file, f.block>>) /\ Len(content') \in Nat
    BY <1>1, <1>7, <2>3, AddedContent
  <2>5. Len(content') = f.block
    BY <2>3, <2>4 DEF ZTyped
  <2>6. \A y : Fits(f, y) => Goes(Len(content'), y)
    BY <1>7, <2>2, <2>5 DEF Fits
  <2> QED BY <1>2, <1>3, <2>1, <2>4, <2>6
<1>8. ASSUME Added(f), f.end # "G" PROVE ps' = "hdr"
  BY <1>8 DEF Added, Zm!DataWritten
<1> QED BY <1>2, <1>4, <1>5, <1>6, <1>7, <1>8 DEF Quietly, Replied, Opened, Refused, Completed

\* What is written goes on with the next block.
LEMMA NewWritten ==
  ASSUME ZTyped, Written, NEW f \in Line, Added(f), f.block = 0 \/ (f.file = filing /\ f.block = Len(content) + 1)
  PROVE  Written' /\ Len(content') = IF f.block = 0 THEN Len(content) ELSE Len(content) + 1
<1>0. /\ content \in Seq(Nat \X Nat) /\ Len(content) \in Nat /\ filing' = filing
      /\ content' \in Seq(Nat \X Nat) /\ Len(content') \in Nat
      /\ f.block = 0 => content' = content
      /\ f.block # 0 => content' = Append(content, <<f.file, f.block>>)
  <2>1. content \in Seq(Nat \X Nat) /\ Len(content) \in Nat
    BY DEF ZTyped
  <2>2. filing' = filing
    BY DEF Added, Zm!DataWritten
  <2> QED BY <2>1, <2>2, AddedContent
<1>1. CASE f.block = 0
  BY <1>0, <1>1 DEF Written
<1>2. CASE f.block # 0
  <2>0. content' = Append(content, <<filing, Len(content) + 1>>) /\ filing # 0
    BY <1>0, <1>2 DEF Added
  <2>1. /\ Len(content') = Len(content) + 1
        /\ \A b \in 1..Len(content') : content'[b] = IF b \in 1..Len(content) THEN content[b]
                                                     ELSE <<filing, b>>
    BY <1>0, <2>0, SMTT(30)
  <2>2. \A b \in 1..Len(content) : content[b] = <<filing, b>>
    BY <2>0 DEF Written
  <2>3. \A b \in 1..Len(content') : content'[b] = <<filing, b>>
    BY <2>1, <2>2
  <2>4. content' = [b \in 1..Len(content') |-> <<filing, b>>]
    <3>1. content' = [b \in 1..Len(content') |-> content'[b]]
      BY <1>0
    <3> QED BY <2>3, <3>1
  <2> QED BY <1>0, <1>2, <2>1, <2>4 DEF Written
<1> QED BY <1>1, <1>2

\* The file that is kept is the next one, and whole.
LEMMA NewKept ==
  ASSUME ZTyped, KeptFirst, Written, NEW f, Completed(f), f.pos = FileBlocks,
         filing = Len(kept) + 1, filing \in 1..Files
  PROVE  KeptFirst' /\ Len(kept') = Len(kept) + 1
<1>0. /\ kept \in Seq(Seq(Nat \X Nat)) /\ content \in Seq(Nat \X Nat) /\ filing # 0 /\ Len(kept) \in Nat
      /\ kept' = Append(kept, content) /\ Len(content) = FileBlocks
  BY DEF ZTyped, Completed
<1>1. content = Zm!Whole(filing)
  BY <1>0 DEF Written, Zm!Whole
<1>2. \A i \in 1..Len(kept) : kept[i] = Zm!Whole(i)
  BY DEF KeptFirst
<1>3. /\ kept' \in Seq(Seq(Nat \X Nat)) /\ Len(kept') = Len(kept) + 1
      /\ \A i \in 1..Len(kept') : kept'[i] = IF i \in 1..Len(kept) THEN kept[i] ELSE content
  BY <1>0
<1>4. \A i \in 1..Len(kept') : kept'[i] = Zm!Whole(i)
  <2> SUFFICES ASSUME NEW i \in 1..Len(kept') PROVE kept'[i] = Zm!Whole(i)
    OBVIOUS
  <2>1. i \in 1..Len(kept) \/ i = filing
    BY <1>0, <1>3
  <2> QED BY <1>0, <1>1, <1>2, <1>3, <2>1
<1>5. kept' = [i \in 1..Len(kept') |-> Zm!Whole(i)]
  BY <1>3, <1>4
<1>6. Len(kept') <= Files
  BY <1>0, <1>3, FilesAssumption
<1> QED BY <1>3, <1>5, <1>6 DEF KeptFirst

\* Where nothing is opened and nothing closed.
LEMMA SameConversation ==
  ASSUME Conversation, filing' = filing, kept' = kept, sender' = sender
  PROVE  Conversation'
BY DEF Conversation

\* The replies that a receiver in either state may give.
LEMMA TagAllowed ==
  /\ "ZNAK" \in Allowed /\ "ZACK" \in Allowed
  /\ filing = 0 => "ZRINIT" \in Allowed
  /\ filing # 0 => "ZRPOS" \in Allowed
BY DEF Allowed, Answers

\* Such a reply is given.
LEMMA ReplyAllowed ==
  ASSUME ZTyped, Replies, NEW t \in {"ZRINIT", "ZRPOS", "ZACK", "ZNAK"}, NEW n \in Nat, t \in Allowed,
         Zm!Reply(<<Zm!Hdr(t, n)>>), filing' = filing, sender' = sender
  PROVE  Replies'
<1> DEFINE hs == <<Zm!Hdr(t, n)>>
<1>1. hs \in Seq(Header) /\ hs # <<>> /\ Tag(Zm!Hdr(t, n)) = t
  BY RepliesMade, Made DEF Types
<1>2. All(hs, Allowed)
  BY <1>1, AllOne
<1>3. Zm!Reply(hs)
  OBVIOUS
<1> HIDE DEF hs
<1>4. toTx' = toTx \o hs /\ rep' = <<hs[Len(hs)]>>
  BY <1>1, <1>3, ReplyKept
<1> QED BY <1>1, <1>2, <1>4, RepliesMore

\* A frame of which nothing comes.
LEMMA QuietlySound ==
  ASSUME ZTyped, ConvInv, Zm!Feed, NEW f, f = Head(toRx), Quietly(f)
  PROVE  ConvInv'
<1>1. /\ toRx # <<>> /\ f = toRx[1] /\ f \in Line /\ toRx' = Tail(toRx) /\ sender' = sender
  BY FeedCases
<1>2. UNCHANGED <<filing, content, kept, toTx, rep>>
  BY DEF Quietly, Zm!Going, Zm!Quiet
<1>3. Conversation' /\ Replies' /\ Requests' /\ Written'
  BY <1>1, <1>2, SameConversation, RepliesSame, RequestsLess DEF ConvInv, Written
<1>4. Sound(f, sender.file, filing)
  BY <1>1, TailOf DEF ConvInv, Requests, ZTyped
<1>5. Stream' /\ Reads'
  BY <1>4, LineFeed DEF ConvInv, Sound
<1> QED BY <1>3, <1>5 DEF ConvInv

\* A frame that is only answered.
LEMMA RepliedSound ==
  ASSUME ZTyped, ConvInv, Zm!Feed, NEW f, f = Head(toRx), Replied(f)
  PROVE  ConvInv'
<1>1. /\ toRx # <<>> /\ f = toRx[1] /\ f \in Line /\ toRx' = Tail(toRx) /\ sender' = sender
  BY FeedCases
<1>2. UNCHANGED <<filing, content, kept>> /\ ps' = "hdr"
  BY DEF Replied, Zm!Going
<1>3. Conversation' /\ Requests' /\ Written' /\ Stream'
  BY <1>1, <1>2, SameConversation, RequestsLess, StreamLess DEF ConvInv, Written
<1>4. Reads'
  BY <1>2 DEF Reads
<1>5. Replies'
  <2>0. Replies /\ Len(content) \in Nat
    BY DEF ConvInv, ZTyped
  <2>1. CASE (filing = 0 \/ Tag(f) = "ZRQINIT") /\ Zm!Reply(<<Zm!Hdr("ZRINIT", 0)>>)
    <3>1. filing = 0
      <4>1. filing # 0 => Tag(f) \in (Offers \cup Pieces) \ {"ZRQINIT"}
        BY <1>1, TailKinds DEF ConvInv, Requests, ZTyped
      <4> QED BY <2>1, <4>1
    <3> QED BY <1>1, <1>2, <2>0, <2>1, <3>1, TagAllowed, ReplyAllowed
  <2>2. CASE Zm!Reply(<<Zm!Hdr("ZNAK", 0)>>)
    BY <1>1, <1>2, <2>0, <2>2, TagAllowed, ReplyAllowed
  <2>3. CASE filing # 0 /\ Zm!Reply(<<Zm!Hdr("ZRPOS", Len(content))>>)
    BY <1>1, <1>2, <2>0, <2>3, TagAllowed, ReplyAllowed
  <2>4. CASE filing # 0 /\ Zm!Reply(<<Zm!Hdr("ZNAK", 0), Zm!Hdr("ZRPOS", Len(content))>>)
    <3> DEFINE hs == <<Zm!Hdr("ZNAK", 0), Zm!Hdr("ZRPOS", Len(content))>>
    <3>1. hs \in Seq(Header) /\ hs # <<>>
      BY <2>0, RepliesMade DEF Types
    <3>2. All(hs, Allowed)
      <4>1. Tag(Zm!Hdr("ZNAK", 0)) = "ZNAK" /\ Tag(Zm!Hdr("ZRPOS", Len(content))) = "ZRPOS"
        BY <2>0, Made DEF Types
      <4> QED BY <2>4, <4>1, TagAllowed, AllOne
    <3>3. Zm!Reply(hs)
      BY <2>4
    <3> HIDE DEF hs
    <3>4. toTx' = toTx \o hs /\ rep' = <<hs[Len(hs)]>>
      BY <3>1, <3>3, ReplyKept
    <3> QED BY <1>1, <1>2, <2>0, <3>1, <3>2, <3>4, RepliesMore
  <2> QED BY <2>1, <2>2, <2>3, <2>4 DEF Replied
<1> QED BY <1>3, <1>4, <1>5 DEF ConvInv

\* A block of the open file.
LEMMA AddedSound ==
  ASSUME ZTyped, ConvInv, Zm!Feed, NEW f, f = Head(toRx), Added(f)
  PROVE  ConvInv'
<1>1. /\ toRx # <<>> /\ f = toRx[1] /\ f \in Line /\ toRx' = Tail(toRx) /\ sender' = sender
  BY FeedCases
<1>2. /\ f.kind = "sub" /\ ps = "sub" /\ role = "data" /\ filing # 0 /\ UNCHANGED <<filing, kept, role>>
      /\ ps' = IF f.end = "G" THEN "sub" ELSE "hdr"
      /\ IF f.end = "W" THEN Zm!Reply(<<Zm!Hdr("ZACK", Len(content'))>>) ELSE Zm!Quiet
  BY DEF Added, Zm!DataWritten
<1>3. Conversation' /\ Requests'
  BY <1>1, <1>2, SameConversation, RequestsLess DEF ConvInv
<1>5. Tag(f) = "data" /\ f.block \in {0, Len(content) + 1}
  BY <1>1, <1>2 DEF ConvInv, Reads, Goes
<1>6. Sound(f, sender.file, filing)
  BY <1>1, TailOf DEF ConvInv, Requests, ZTyped
<1>7. /\ f.block = 0 => f.end = "E"
      /\ f.block # 0 => f.file = filing /\ f.block = Len(content) + 1
  BY <1>2, <1>5, <1>6 DEF Sound
<1>8. Written' /\ Len(content') = IF f.block = 0 THEN Len(content) ELSE Len(content) + 1
  BY <1>1, <1>5, <1>7, NewWritten DEF ConvInv
<1>9. Replies'
  <2>1. Len(content') \in Nat
    BY <1>1, AddedContent
  <2>2. CASE f.end = "W"
    BY <1>1, <1>2, <2>1, <2>2, TagAllowed, ReplyAllowed DEF ConvInv
  <2>3. CASE f.end # "W"
    BY <1>1, <1>2, <2>3, RepliesSame DEF ConvInv, Zm!Quiet
  <2> QED BY <2>2, <2>3
<1>10. Stream' /\ Reads'
  BY <1>7, LineFeed DEF ConvInv
<1> QED BY <1>3, <1>8, <1>9, <1>10 DEF ConvInv

\* The first frame of a file: the sender asked for it, or had asked again.
LEMMA OpenedSound ==
  ASSUME ZTyped, ConvInv, Zm!Feed, NEW f, f = Head(toRx), Opened(f)
  PROVE  ConvInv'
<1>1. /\ toRx # <<>> /\ f = toRx[1] /\ f \in Line /\ toRx' = Tail(toRx) /\ sender' = sender
      /\ toRx \in Seq(Line) /\ toTx \in Seq(Header)
  BY FeedCases DEF ZTyped
<1>2. /\ f.kind = "sub" /\ ps = "sub" /\ role = "file" /\ filing' = f.file /\ content' = <<>> /\ kept' = kept
      /\ Zm!Reply(<<Zm!Hdr("ZRPOS", 0)>>) /\ ps' = "hdr"
  BY DEF Opened
<1>3. Tag(f) = "file"
  BY <1>1, <1>2 DEF ConvInv, Reads
<1>4. Sound(f, sender.file, filing)
  BY <1>1, TailOf DEF ConvInv, Requests
<1>5. filing' = sender.file /\ filing' # 0 /\ sender.file \in 1..Files
  BY <1>2, <1>3, <1>4, SenderTyped DEF Sound
<1>6. /\ \A T : All(toRx, T) => All(toRx', T) /\ "file" \in T
      /\ \A T, U : NoneAfter(toRx, T, U) => NoneAfter(toRx', T, U)
      /\ \A T, U, V : NoneAfter(toRx, T, U) /\ All(toRx, V) /\ "file" \in T => All(toRx', V \ U)
  BY <1>1, <1>3, TailKinds
<1>7. sender.phase # "start" /\ sender.phase # "fin" /\ (sender.phase \in Sending => filing # 0)
  <2>1. "file" \notin Pieces \cup {"ZFIN"} /\ "file" \notin {"ZRQINIT"}
    BY Kinds
  <2> QED BY <1>6, <2>1 DEF ConvInv, Requests
<1>8. Conversation'
  BY <1>1, <1>2, <1>5, <1>7 DEF ConvInv, Conversation
<1>9. Replies'
  <2> DEFINE hs == <<Zm!Hdr("ZRPOS", 0)>>
  <2>1. hs \in Seq(Header) /\ hs # <<>> /\ Tag(Zm!Hdr("ZRPOS", 0)) = "ZRPOS"
        /\ Len(hs) = 1 /\ hs[1] = Zm!Hdr("ZRPOS", 0)
    BY RepliesMade, Made DEF Types
  <2>2. All(hs, {"ZRPOS"})
    BY <2>1, AllOne
  <2>3. Zm!Reply(hs)
    BY <1>2
  <2> HIDE DEF hs
  <2>4. toTx' = toTx \o hs /\ rep' = <<Zm!Hdr("ZRPOS", 0)>>
    BY <2>1, <2>3, ReplyKept
  <2>5. All(rep', Allowed')
    <3>1. "ZRPOS" \in Allowed'
      BY <1>5 DEF Allowed, Answers
    <3> QED BY <2>1, <2>4, <3>1, AllOne
  <2>6. All(hs, Answers) /\ All(hs, Answers \ {"ZRINIT"})
    BY <2>2, Kinds
  <2>7. All(toTx', Answers)
    BY <1>1, <2>1, <2>4, <2>6, JoinKinds DEF ConvInv, Replies
  <2>8. NoneAfter(toTx', {"ZRPOS"}, {"ZRINIT"})
    <3>1. CASE filing # 0
      <4>1. {"ZRPOS"} \cap {"ZRINIT"} = {}
        OBVIOUS
      <4> QED BY <1>1, <2>1, <2>2, <2>4, <3>1, <4>1, JoinKinds DEF ConvInv, Replies
    <3>2. CASE filing = 0
      <4>1. All(toTx, Answers \ {"ZRPOS"})
        BY <1>7, <3>2 DEF ConvInv, Replies, Conversation
      <4>2. (Answers \ {"ZRPOS"}) \cap {"ZRPOS"} = {} /\ {"ZRPOS"} \cap {"ZRINIT"} = {}
        OBVIOUS
      <4> QED BY <1>1, <2>1, <2>2, <2>4, <4>1, <4>2, JoinKinds
    <3> QED BY <3>1, <3>2
  <2>9. sender.phase \in Sending => All(toTx', Answers \ {"ZRINIT"})
    BY <1>1, <1>7, <2>1, <2>4, <2>6, JoinKinds DEF ConvInv, Replies
  <2> QED BY <1>1, <1>5, <2>5, <2>7, <2>8, <2>9 DEF Replies
<1>10. Requests'
  <2>1. \A i \in 1..Len(toRx') : Sound(toRx'[i], sender.file, filing)
    <3>1. \A i \in 1..Len(toRx') : i + 1 \in 1..Len(toRx) /\ toRx'[i] = toRx[i + 1]
      BY <1>1, TailOf
    <3> QED BY <3>1 DEF ConvInv, Requests
  <2>2. sender.phase \in Asking => All(toRx', Offers)
    <3>1. ASSUME sender.phase \in Asking PROVE All(toRx', Offers)
      <4>1. All(toRx, Offers \cup Pieces) /\ NoneAfter(toRx, Offers, Pieces)
        BY <3>1 DEF ConvInv, Requests, Asking
      <4>2. All(toRx', (Offers \cup Pieces) \ Pieces) /\ "file" \in Offers
        BY <1>6, <4>1, Kinds
      <4> QED BY <4>2, Kinds
    <3> QED BY <3>1
  <2>3. filing = 0 \/ filing = sender.file
    BY DEF ConvInv, Conversation
  <2>4. \A i \in 1..Len(toRx') : Sound(toRx'[i], sender.file, filing')
    <3>1. CASE filing = sender.file
      BY <1>5, <2>1, <3>1
    <3>2. CASE filing = 0
      <4>1. All(toRx', Offers)
        BY <1>7, <2>2, <3>2 DEF ConvInv, Conversation
      <4>2. \A i \in 1..Len(toRx') : Tag(toRx'[i]) # "data"
        BY <4>1, Kinds DEF All
      <4> QED BY <2>1, <4>2 DEF Sound
    <3> QED BY <2>3, <3>1, <3>2
  <2>5. All(toRx', (Offers \cup Pieces) \ {"ZRQINIT"})
    <3>1. All(toRx, Offers \cup Pieces) /\ NoneAfter(toRx, {"file"}, {"ZRQINIT"})
      <4>1. All(toRx, Offers \cup Pieces \cup {})
        BY <1>7 DEF ConvInv, Requests
      <4> QED BY <4>1, Kinds DEF ConvInv, Requests
    <3> QED BY <1>6, <3>1
  <2>6. /\ All(toRx', Offers \cup Pieces \cup (IF sender.phase = "fin" THEN {"ZFIN"} ELSE {}))
        /\ sender.phase \in Asking => NoneAfter(toRx', Offers, Pieces)
        /\ sender.phase \in Sending => NoneAfter(toRx', Pieces, Offers)
        /\ NoneAfter(toRx', {"file"}, {"ZRQINIT"})
    BY <1>6 DEF ConvInv, Requests
  <2> QED BY <1>1, <1>5, <1>7, <2>2, <2>4, <2>5, <2>6 DEF Requests
<1>11. Stream'
  BY <1>1, StreamLess DEF ConvInv
<1>12. Reads'
  BY <1>2 DEF Reads
<1>13. Written'
  <2>1. Len(content') = 0 /\ content' = <<>>
    BY <1>2
  <2>2. [b \in 1..0 |-> <<filing', b>>] = <<>>
    OBVIOUS
  <2> QED BY <2>1, <2>2 DEF Written
<1> QED BY <1>8, <1>9, <1>10, <1>11, <1>12, <1>13 DEF ConvInv

\* The end of the open file.
LEMMA CompletedSound ==
  ASSUME ZTyped, ConvInv, KeptFirst, Zm!Feed, NEW f, f = Head(toRx), Completed(f)
  PROVE  KeptFirst' /\ ConvInv'
<1>1. /\ toRx # <<>> /\ f = toRx[1] /\ f \in Line /\ toRx' = Tail(toRx) /\ sender' = sender
      /\ toRx \in Seq(Line) /\ toTx \in Seq(Header)
  BY FeedCases DEF ZTyped
<1>2. /\ Tag(f) = "ZEOF" /\ filing # 0 /\ filing' = 0 /\ content' = <<>>
      /\ Zm!Reply(<<Zm!Hdr("ZRINIT", 0)>>) /\ ps' = "hdr"
  BY DEF Completed
<1>3. f.pos = FileBlocks
  <2>1. Sound(f, sender.file, filing)
    BY <1>1, TailOf DEF ConvInv, Requests
  <2> QED BY <1>2, <2>1 DEF Sound
<1>6. /\ \A T : All(toRx, T) => All(toRx', T) /\ "ZEOF" \in T
      /\ \A T, U : NoneAfter(toRx, T, U) => NoneAfter(toRx', T, U)
      /\ \A T, U, V : NoneAfter(toRx, T, U) /\ All(toRx, V) /\ "ZEOF" \in T => All(toRx', V \ U)
  BY <1>1, <1>2, TailKinds
<1>7. sender.phase \in Sending /\ filing = sender.file /\ Len(kept) = sender.file - 1
  <2>1. sender.phase \notin Asking
    <3>1. "ZEOF" \notin Offers
      BY Kinds
    <3> QED BY <1>2, <1>6, <3>1 DEF ConvInv, Requests
  <2> QED BY <1>2, <2>1 DEF ConvInv, Conversation
<1>8. filing = Len(kept) + 1 /\ filing \in 1..Files
  BY <1>7, SenderTyped DEF ZTyped
<1>9. KeptFirst' /\ Len(kept') = Len(kept) + 1
  BY <1>3, <1>8, NewKept DEF ConvInv
<1>10. Conversation'
  BY <1>1, <1>2, <1>7, <1>8, <1>9 DEF Conversation
<1>11. Replies'
  <2> DEFINE hs == <<Zm!Hdr("ZRINIT", 0)>>
  <2>1. hs \in Seq(Header) /\ hs # <<>> /\ Tag(Zm!Hdr("ZRINIT", 0)) = "ZRINIT"
        /\ Len(hs) = 1 /\ hs[1] = Zm!Hdr("ZRINIT", 0)
    BY RepliesMade, Made DEF Types
  <2>2. All(hs, {"ZRINIT"})
    BY <2>1, AllOne
  <2>3. Zm!Reply(hs)
    BY <1>2
  <2> HIDE DEF hs
  <2>4. toTx' = toTx \o hs /\ rep' = <<Zm!Hdr("ZRINIT", 0)>>
    BY <2>1, <2>3, ReplyKept
  <2>5. All(rep', Allowed')
    <3>1. "ZRINIT" \in Allowed'
      BY <1>2 DEF Allowed, Answers
    <3> QED BY <2>1, <2>4, <3>1, AllOne
  <2>6. All(hs, Answers)
    BY <2>2, Kinds
  <2>7. All(toTx', Answers)
    BY <1>1, <2>1, <2>4, <2>6, JoinKinds DEF ConvInv, Replies
  <2>8. NoneAfter(toTx', {"ZRINIT"}, {"ZRPOS"})
    <3>1. All(toTx, Answers \ {"ZRINIT"})
      BY <1>2, <1>7 DEF ConvInv, Replies
    <3>2. (Answers \ {"ZRINIT"}) \cap {"ZRINIT"} = {} /\ {"ZRINIT"} \cap {"ZRPOS"} = {}
      OBVIOUS
    <3> QED BY <1>1, <2>1, <2>2, <2>4, <3>1, <3>2, JoinKinds
  <2>9. sender.phase \notin Asking
    BY <1>7, Kinds
  <2> QED BY <1>1, <1>2, <2>5, <2>7, <2>8, <2>9 DEF Replies
<1>12. Requests'
  <2>1. \A i \in 1..Len(toRx') : Sound(toRx'[i], sender.file, 0)
    <3>1. \A i \in 1..Len(toRx') : i + 1 \in 1..Len(toRx) /\ toRx'[i] = toRx[i + 1]
      BY <1>1, TailOf
    <3> QED BY <3>1 DEF ConvInv, Requests, Sound
  <2>2. sender.phase \notin Asking /\ sender.phase # "fin" /\ sender.phase # "start" /\ "ZEOF" \in Pieces
    BY <1>7, Kinds
  <2>3. All(toRx', Pieces \cup {"ZFIN"})
    <3>1. All(toRx, Offers \cup Pieces) /\ NoneAfter(toRx, Pieces, Offers)
      <4>1. All(toRx, Offers \cup Pieces \cup {})
        BY <2>2 DEF ConvInv, Requests
      <4> QED BY <1>7, <4>1, Kinds DEF ConvInv, Requests
    <3>2. All(toRx', (Offers \cup Pieces) \ Offers)
      BY <1>6, <2>2, <3>1
    <3> QED BY <3>2, Kinds
  <2>4. /\ All(toRx', Offers \cup Pieces \cup (IF sender.phase = "fin" THEN {"ZFIN"} ELSE {}))
        /\ NoneAfter(toRx', Pieces, Offers)
        /\ NoneAfter(toRx', {"file"}, {"ZRQINIT"})
    BY <1>6, <1>7 DEF ConvInv, Requests
  <2> QED BY <1>1, <1>2, <2>1, <2>2, <2>3, <2>4 DEF Requests
<1>13. Stream'
  BY <1>1, StreamLess DEF ConvInv
<1>14. Reads' /\ Written'
  BY <1>2 DEF Reads, Written
<1> QED BY <1>9, <1>10, <1>11, <1>12, <1>13, <1>14 DEF ConvInv

\* The conversation goes on, whatever is fed to the receiver.
LEMMA FeedSound ==
  ASSUME ZTyped, ConvInv, KeptFirst, Zm!Feed, faults = 0, faults' = 0
  PROVE  KeptFirst' /\ (zstate' = "active" => ConvInv')
<1> DEFINE f == Head(toRx)
<1>1. /\ \/ Quietly(f) \/ Replied(f) \/ Opened(f) \/ Refused(f) \/ Completed(f)
         \/ Added(f) \/ Broken \/ Ended(f)
      /\ toRx # <<>> /\ f = toRx[1]
  BY FeedCases
<1>2. ASSUME Quietly(f) PROVE KeptFirst' /\ ConvInv'
  BY <1>2, QuietlySound DEF Quietly, Zm!Going, KeptFirst
<1>3. ASSUME Replied(f) PROVE KeptFirst' /\ ConvInv'
  BY <1>3, RepliedSound DEF Replied, Zm!Going, KeptFirst
<1>4. ASSUME Opened(f) PROVE KeptFirst' /\ ConvInv'
  BY <1>4, OpenedSound DEF Opened, KeptFirst
<1>5. ~ Refused(f)
  BY DEF Refused
<1>6. ASSUME Completed(f) PROVE KeptFirst' /\ ConvInv'
  BY <1>6, CompletedSound
<1>7. ASSUME Added(f) PROVE KeptFirst' /\ ConvInv'
  BY <1>7, AddedSound DEF Added, Zm!DataWritten, KeptFirst
<1>8. ASSUME Broken PROVE KeptFirst' /\ zstate' # "active"
  BY <1>8 DEF Broken, Zm!Finish, KeptFirst
<1>9. ASSUME Ended(f) PROVE KeptFirst' /\ zstate' # "active"
  <2>1. Tag(toRx[1]) = "ZFIN" /\ Zm!Finish("done")
    BY <1>1, <1>9 DEF Ended, Zm!AcceptFin
  <2>2. sender.phase = "fin"
    <3>1. Tag(toRx[1]) \in Offers \cup Pieces \cup (IF sender.phase = "fin" THEN {"ZFIN"} ELSE {})
      BY <1>1, TailKinds DEF ConvInv, Requests, ZTyped
    <3> QED BY <2>1, <3>1, Kinds
  <2>3. filing = 0
    BY <2>2, Kinds DEF ConvInv, Conversation
  <2> QED BY <2>1, <2>3 DEF Zm!Finish, KeptFirst
<1> HIDE DEF f
<1> QED BY <1>1, <1>2, <1>3, <1>4, <1>5, <1>6, <1>7, <1>8, <1>9

\* The receiver's part while the sender is at work.
ReceiverRests == UNCHANGED <<zstate, ps, role, filing, content, kept, rep>>

\* A receiver at rest keeps its part of the invariant.
LEMMA RestsSound ==
  ASSUME ReceiverRests
  PROVE  /\ (Written => Written') /\ (KeptFirst => KeptFirst')
         /\ filing' = filing /\ kept' = kept /\ content' = content
         /\ UNCHANGED <<ps, role, filing, content>> /\ rep' = rep /\ zstate' = zstate
BY DEF ReceiverRests, Written, KeptFirst

\* What offers a file begins, is in one piece, and is sound.
LEMMA OfferKinds ==
  ASSUME NEW k \in Nat
  PROVE  LET r == Zm!Announce(k)
         IN  /\ r \in Seq(Line) /\ r # <<>> /\ Len(r) = 2 /\ Fresh(r[1])
             /\ All(r, {"ZFILE", "file"})
             /\ \A i, j \in 1..Len(r) : j = i + 1 => Fits(r[i], r[j])
             /\ Tag(r[Len(r)]) # "ZFILE"
             /\ \A g : \A i \in 1..Len(r) : Sound(r[i], k, g)
<1> DEFINE r == Zm!Announce(k)
<1>1. r \in Seq(Line) /\ Len(r) = 2 /\ r[1] = Zm!Hdr("ZFILE", 0) /\ r[2] = Zm!FileSub(k)
  BY OfferMade
<1> HIDE DEF r
<1>2. /\ Tag(r[1]) = "ZFILE" /\ r[1].kind = "hdr"
      /\ Tag(r[2]) = "file" /\ r[2].kind = "sub" /\ r[2].file = k
  BY <1>1, Made DEF Types
<1>3. 1..Len(r) = {1, 2} /\ r # <<>>
  BY <1>1
<1>4. Fits(r[1], r[2]) /\ Fresh(r[1]) /\ \A g : Sound(r[1], k, g) /\ Sound(r[2], k, g)
  BY <1>2 DEF Fits, Fresh, Sound
<1>5. \A i, j \in 1..Len(r) : j = i + 1 => Fits(r[i], r[j])
  BY <1>3, <1>4
<1> QED BY <1>1, <1>2, <1>3, <1>4, <1>5 DEF All, r

\* One header or block that begins, or that breaks off.
LEMMA OneKinds ==
  ASSUME NEW x \in Line, Tag(x) # "ZFILE"
  PROVE  /\ <<x>> \in Seq(Line) /\ <<x>> # <<>> /\ Len(<<x>>) = 1 /\ <<x>>[1] = x
         /\ All(<<x>>, {Tag(x)})
         /\ \A i, j \in 1..Len(<<x>>) : j = i + 1 => Fits(<<x>>[i], <<x>>[j])
         /\ Tag(<<x>>[Len(<<x>>)]) # "ZFILE"
         /\ \A k, g : Sound(x, k, g) => \A i \in 1..Len(<<x>>) : Sound(<<x>>[i], k, g)
<1> DEFINE r == <<x>>
<1>1. r \in Seq(Line) /\ Len(r) = 1 /\ r[1] = x /\ r # <<>> /\ 1..Len(r) = {1}
  OBVIOUS
<1>2. All(r, {Tag(x)})
  BY AllOne
<1> HIDE DEF r
<1>3. \A i, j \in 1..Len(r) : j = i + 1 => Fits(r[i], r[j])
  BY <1>1
<1>4. \A k, g : Sound(x, k, g) => \A i \in 1..Len(r) : Sound(r[i], k, g)
  BY <1>1
<1> QED BY <1>1, <1>2, <1>3, <1>4 DEF r

\* A file is offered.
LEMMA OffersFile ==
  ASSUME ZTyped, Requests, filing' = filing,
         sender'.phase = "name", sender'.file \in Nat,
         \/ sender.phase \in Asking /\ sender'.file = sender.file
         \/ sender.phase \in Sending /\ filing = 0,
         toRx' = toRx \o Zm!Announce(sender'.file)
  PROVE  Requests'
<1> DEFINE r == Zm!Announce(sender'.file)
<1>1. /\ r \in Seq(Line) /\ All(r, {"ZFILE", "file"}) /\ toRx \in Seq(Line)
      /\ \A i \in 1..Len(r) : Sound(r[i], sender'.file, filing)
  <2>1. /\ r \in Seq(Line) /\ All(r, {"ZFILE", "file"})
        /\ \A i \in 1..Len(r) : Sound(r[i], sender'.file, filing)
    BY OfferKinds
  <2> QED BY <2>1 DEF ZTyped
<1>2. All(r, Offers) /\ All(r, Offers \cup Pieces) /\ All(r, (Offers \cup Pieces) \ {"ZRQINIT"})
      /\ Offers \cap Pieces = {}
  BY <1>1, Kinds, SMTT(30)
<1>3. toRx' = toRx \o r
  OBVIOUS
<1> HIDE DEF r
<1>4. All(toRx, Offers \cup Pieces)
  <2>1. All(toRx, Offers \cup Pieces \cup {})
    BY Kinds DEF Requests
  <2> QED BY <2>1, Kinds
<1>5. All(toRx', Offers \cup Pieces)
  BY <1>1, <1>2, <1>3, <1>4, JoinKinds
<1>6. \A i \in 1..Len(toRx') : Sound(toRx'[i], sender'.file, filing)
  <2>1. \A i \in 1..Len(toRx) : Sound(toRx[i], sender'.file, filing)
    <3>1. CASE sender'.file = sender.file
      BY <3>1 DEF Requests
    <3>2. CASE sender.phase \in Sending /\ filing = 0
      <4>1. \A i \in 1..Len(toRx) : Tag(toRx[i]) # "file"
        <5>1. "file" \notin Pieces \cup {"ZFIN"}
          BY Kinds
        <5> QED BY <3>2, <5>1 DEF Requests, All
      <4> QED BY <4>1 DEF Requests, Sound
    <3> QED BY <3>1, <3>2
  <2> QED BY <1>1, <1>3, <2>1, SoundMore
<1>7. NoneAfter(toRx', Offers, Pieces)
  <2>1. CASE sender.phase \in Asking
    BY <1>1, <1>2, <1>3, <2>1, JoinKinds DEF Requests
  <2>2. CASE sender.phase \in Sending /\ filing = 0
    <3>1. All(toRx, Pieces \cup {"ZFIN"}) /\ (Pieces \cup {"ZFIN"}) \cap Offers = {}
      BY <2>2, Kinds DEF Requests
    <3> QED BY <1>1, <1>2, <1>3, <3>1, JoinKinds
  <2> QED BY <2>1, <2>2
<1>8. filing # 0 => All(toRx', Offers)
  BY <1>1, <1>2, <1>3, JoinKinds DEF Requests
<1>9. filing # 0 => All(toRx', (Offers \cup Pieces) \ {"ZRQINIT"})
  BY <1>1, <1>2, <1>3, JoinKinds DEF Requests
<1>10. NoneAfter(toRx', {"file"}, {"ZRQINIT"})
  <2>1. {"ZFILE", "file"} \cap {"ZRQINIT"} = {}
    OBVIOUS
  <2> QED BY <1>1, <1>3, <2>1, JoinKinds DEF Requests
<1> QED BY <1>5, <1>6, <1>7, <1>8, <1>9, <1>10, Kinds DEF Requests

\* Some of the file is sent.
LEMMA SendsPieces ==
  ASSUME ZTyped, Requests, filing' = filing,
         sender'.phase \in Sending, sender'.file = sender.file, sender.phase \in Sending,
         NEW r \in Seq(Line), All(r, Pieces), toRx' = toRx \o r,
         \A i \in 1..Len(r) : Sound(r[i], sender.file, filing)
  PROVE  Requests'
<1>1. toRx \in Seq(Line) /\ Offers \cap Pieces = {}
  BY Kinds DEF ZTyped
<1>2. All(r, Offers \cup Pieces) /\ All(r, Pieces \cup {"ZFIN"}) /\ All(r, (Offers \cup Pieces) \ {"ZRQINIT"})
  BY Kinds
<1>3. All(toRx, Offers \cup Pieces)
  <2>1. All(toRx, Offers \cup Pieces \cup {})
    BY Kinds DEF Requests
  <2> QED BY <2>1, Kinds
<1>4. All(toRx', Offers \cup Pieces)
  BY <1>1, <1>2, <1>3, JoinKinds
<1>5. \A i \in 1..Len(toRx') : Sound(toRx'[i], sender.file, filing)
  BY SoundMore DEF Requests
<1>6. NoneAfter(toRx', Pieces, Offers)
  BY <1>1, JoinKinds DEF Requests
<1>7. filing = 0 => All(toRx', Pieces \cup {"ZFIN"})
  BY <1>1, <1>2, JoinKinds DEF Requests
<1>8. filing # 0 => All(toRx', (Offers \cup Pieces) \ {"ZRQINIT"})
  BY <1>1, <1>2, JoinKinds DEF Requests
<1>9. NoneAfter(toRx', {"file"}, {"ZRQINIT"})
  <2>1. Pieces \cap {"ZRQINIT"} = {}
    BY Kinds
  <2> QED BY <1>1, <2>1, JoinKinds DEF Requests
<1> QED BY <1>4, <1>5, <1>6, <1>7, <1>8, <1>9, Kinds DEF Requests

\* The receiver asks for a piece of the file it has opened.
LEMMA BeginsPieces ==
  ASSUME ZTyped, Requests, filing' = filing,
         sender'.phase \in Sending, sender'.file = sender.file, sender.phase \in Asking, filing # 0,
         toRx' = toRx
  PROVE  Requests'
<1>1. toRx \in Seq(Line) /\ All(toRx, Offers) /\ Offers \cap Pieces = {} /\ Offers \cap Offers = Offers
  BY Kinds DEF ZTyped, Requests
<1>2. NoneAfter(toRx', Pieces, Offers)
  BY <1>1 DEF NoneAfter, All
<1>3. All(toRx', Offers \cup Pieces)
  BY <1>1, Kinds
<1> QED BY <1>2, <1>3, Kinds DEF Requests

\* The end of the session is sent.
LEMMA SendsFin ==
  ASSUME ZTyped, Requests, filing' = filing, filing = 0,
         sender'.phase = "fin", sender'.file = sender.file, sender.phase \in Sending \cup {"fin"},
         toRx' = toRx \o <<Zm!Hdr("ZFIN", 0)>>
  PROVE  Requests'
<1> DEFINE r == <<Zm!Hdr("ZFIN", 0)>>
<1>1. /\ r \in Seq(Line) /\ All(r, {"ZFIN"}) /\ toRx \in Seq(Line)
      /\ \A i \in 1..Len(r) : Sound(r[i], sender.file, filing)
  <2>1. Zm!Hdr("ZFIN", 0) \in Line /\ Tag(Zm!Hdr("ZFIN", 0)) = "ZFIN"
    BY Made DEF Types
  <2>2. Sound(Zm!Hdr("ZFIN", 0), sender.file, filing)
    BY <2>1 DEF Sound
  <2>3. toRx \in Seq(Line)
    BY DEF ZTyped
  <2> QED BY <2>1, <2>2, <2>3, OneKinds
<1>2. toRx' = toRx \o r
  OBVIOUS
<1> HIDE DEF r
<1>3. All(toRx, Pieces \cup {"ZFIN"}) /\ All(r, Pieces \cup {"ZFIN"}) /\ {"ZFIN"} \cap {"ZRQINIT"} = {}
  BY <1>1, Kinds DEF Requests
<1>4. All(toRx', Pieces \cup {"ZFIN"})
  BY <1>1, <1>2, <1>3, JoinKinds
<1>5. All(toRx', Offers \cup Pieces \cup {"ZFIN"})
  BY <1>4, Kinds
<1>6. NoneAfter(toRx', {"file"}, {"ZRQINIT"})
  BY <1>1, <1>2, <1>3, JoinKinds DEF Requests
<1>7. \A i \in 1..Len(toRx') : Sound(toRx'[i], sender.file, filing)
  BY <1>1, <1>2, SoundMore DEF Requests
<1> QED BY <1>4, <1>5, <1>6, <1>7, Kinds DEF Requests

\* The sender begins again.
LEMMA AsksAgain ==
  ASSUME ZTyped, Requests, filing' = filing, sender' = sender, sender.phase = "start",
         toRx' = toRx \o <<Zm!Hdr("ZRQINIT", 0)>>
  PROVE  Requests'
<1> DEFINE r == <<Zm!Hdr("ZRQINIT", 0)>>
<1>1. /\ r \in Seq(Line) /\ All(r, {"ZRQINIT"}) /\ toRx \in Seq(Line)
      /\ \A i \in 1..Len(r) : Sound(r[i], sender.file, filing)
  <2>1. Zm!Hdr("ZRQINIT", 0) \in Line /\ Tag(Zm!Hdr("ZRQINIT", 0)) = "ZRQINIT"
    BY Made DEF Types
  <2>2. Sound(Zm!Hdr("ZRQINIT", 0), sender.file, filing)
    BY <2>1 DEF Sound
  <2>3. toRx \in Seq(Line)
    BY DEF ZTyped
  <2> QED BY <2>1, <2>2, <2>3, OneKinds
<1>2. toRx' = toRx \o r
  OBVIOUS
<1> HIDE DEF r
<1>3. All(toRx, {"ZRQINIT"}) /\ filing = 0 /\ sender.file = 1
  BY DEF Requests
<1>4. All(toRx', {"ZRQINIT"})
  BY <1>1, <1>2, <1>3, JoinKinds
<1>5. All(toRx', Offers \cup Pieces) /\ All(toRx', Offers)
  BY <1>4, Kinds
<1>6. NoneAfter(toRx', {"file"}, {"ZRQINIT"}) /\ NoneAfter(toRx', Offers, Pieces)
  <2>1. \A i \in 1..Len(toRx') : Tag(toRx'[i]) = "ZRQINIT"
    BY <1>4 DEF All
  <2> QED BY <2>1, Kinds DEF NoneAfter
<1>7. \A i \in 1..Len(toRx') : Sound(toRx'[i], sender.file, filing)
  BY <1>1, <1>2, SoundMore DEF Requests
<1> QED BY <1>3, <1>4, <1>5, <1>6, <1>7, Kinds DEF Requests

\* The sender only changes its mind.
LEMMA NothingSent ==
  ASSUME Stream, Reads, toRx' = toRx, ReceiverRests, sender' = sender \/ sender'.phase # "data"
  PROVE  Stream' /\ Reads'
BY DEF Stream, Reads, ReceiverRests

\* The sender hears a reply that is one of the Answers.
Offered(t) ==         \* the file it is at, once more
  /\ sender.phase \in Asking /\ t \in {"ZRINIT", "ZNAK"}
  /\ sender'.phase = "name" /\ sender'.file = sender.file
  /\ toRx' = toRx \o Zm!Announce(sender.file)
Advanced(t) ==        \* the next file
  /\ sender.phase \in Sending /\ t = "ZRINIT"
  /\ sender'.phase = "name" /\ sender'.file = sender.file + 1 /\ sender'.file \in 1..Files
  /\ toRx' = toRx \o Zm!Announce(sender.file + 1)
Closed(t) ==          \* no next file
  /\ \/ sender.phase \in Sending /\ t = "ZRINIT"
     \/ sender.phase = "fin"
  /\ sender'.phase = "fin" /\ sender'.file = sender.file
  /\ toRx' = toRx \o <<Zm!Hdr("ZFIN", 0)>>
Admitted(t) ==        \* the receiver is ready for it
  /\ sender.phase = "name" /\ t = "ZRPOS"
  /\ sender'.phase = "head" /\ sender'.file = sender.file /\ toRx' = toRx
Continued ==          \* the same file, from another place
  /\ sender.phase \in Sending /\ sender'.phase \in Sending \ {"data"} /\ sender'.file = sender.file
  /\ \/ toRx' = toRx
     \/ toRx' = toRx \o <<Zm!EndOfFrame>>
     \/ toRx' = toRx \o <<Zm!Hdr("ZEOF", FileBlocks)>>
Started ==
  /\ sender.phase = "start" /\ sender' = sender /\ toRx' = toRx \o <<Zm!Hdr("ZRQINIT", 0)>>
Unmoved == sender' = sender /\ toRx' = toRx

\* A reply makes the sender do one of these.
LEMMA HeardCases ==
  ASSUME ZTyped, Zm!SenderHears, Replies
  PROVE  /\ toTx # <<>> /\ toTx' = Tail(toTx) /\ Tag(toTx[1]) \in Answers
         /\ ReceiverRests /\ UNCHANGED <<stalls, faults>> /\ damage' \in {damage, damage + 1}
         /\ \E t \in Answers :
              /\ t = Tag(toTx[1])
              /\ Offered(t) \/ Advanced(t) \/ Closed(t) \/ Admitted(t) \/ Continued \/ Started \/ Unmoved
<1> DEFINE h == Head(toTx)
           r == Zm!Reaction(h)
<1>1. /\ toTx # <<>> /\ toTx' = Tail(toTx) /\ ReceiverRests /\ UNCHANGED <<stalls, faults>>
      /\ damage' \in {damage, damage + 1}
      /\ \/ sender' = r.state /\ toRx' = toRx \o r.sends
         \/ Unmoved
  BY DEF Zm!SenderHears, ReceiverRests, Unmoved
<1>2. h = toTx[1] /\ h \in Header /\ Tag(h) = h.type /\ Tag(h) \in Answers
  <2>1. h = toTx[1] /\ h \in Header
    BY <1>1, TailOf DEF ZTyped
  <2>2. h.kind = "hdr"
    BY <2>1 DEF Header
  <2>3. Tag(toTx[1]) \in Answers
    BY <1>1, TailKinds DEF Replies, ZTyped
  <2> QED BY <2>1, <2>2, <2>3 DEF Tag
<1>3. h.type \in {"ZRINIT", "ZRPOS", "ZACK", "ZNAK"} /\ h.pos \in Nat
  BY <1>2, Kinds DEF Header
<1>4. /\ Zm!To("name").phase = "name" /\ Zm!To("name").file = sender.file
      /\ Zm!To("fin").phase = "fin" /\ Zm!To("fin").file = sender.file
      /\ Zm!To("head").phase = "head" /\ Zm!To("head").file = sender.file
      /\ Rewound(h.pos).phase = "head" /\ Rewound(h.pos).file = sender.file
      /\ Rewound(sender.from).phase = "head" /\ Rewound(sender.from).file = sender.file
      /\ sender.file \in Nat /\ sender.from \in Nat
  BY <1>3, SenderTyped, Kinds
<1>5. toRx \o <<>> = toRx
  BY ConcatEmptySeq DEF ZTyped
<1>6. ASSUME sender' = r.state, toRx' = toRx \o r.sends
      PROVE  Offered(h.type) \/ Advanced(h.type) \/ Closed(h.type) \/ Admitted(h.type)
             \/ Continued \/ Started \/ Unmoved
  <2>0. ASSUME NEW a, NEW b, r = [state |-> a, sends |-> b] PROVE sender' = a /\ toRx' = toRx \o b
    <3>1. r.state = a /\ r.sends = b
      BY <2>0
    <3> QED BY <1>6, <3>1
  <2>1. CASE h.type = "ZRINIT" /\ sender.phase \in Asking
             /\ r = [state |-> Zm!To("name"), sends |-> Zm!Announce(sender.file)]
    BY <1>4, <1>6, <2>1 DEF Offered
  <2>2. CASE h.type = "ZRINIT" /\ sender.phase \in Sending /\ r = Zm!NextFile
    <3>1. CASE sender.file + 1 \in 1..Files
      <4> DEFINE t == [phase |-> "name", file |-> sender.file + 1, pos |-> 0, from |-> 0]
                 a == Zm!Announce(sender.file + 1)
      <4>1. sender.file # Files
        BY <3>1, FilesAssumption
      <4>2. Zm!NextFile = [state |-> t, sends |-> a]
        BY <4>1, NextOne
      <4>3. t.phase = "name" /\ t.file = sender.file + 1
        OBVIOUS
      <4> HIDE DEF t, a
      <4>4. sender' = t /\ toRx' = toRx \o a
        BY <1>6, <2>2, <4>2
      <4>5. toRx' = toRx \o Zm!Announce(sender.file + 1)
        BY <4>4 DEF a
      <4> QED BY <2>2, <3>1, <4>3, <4>4, <4>5 DEF Advanced
    <3>2. CASE sender.file + 1 \notin 1..Files
      <4>1. Zm!NextFile = [state |-> Zm!To("fin"), sends |-> <<Zm!Hdr("ZFIN", 0)>>]
        BY <3>2, NextOne
      <4>2. sender' = Zm!To("fin") /\ toRx' = toRx \o <<Zm!Hdr("ZFIN", 0)>>
        BY <2>0, <2>2, <4>1, Zenon
      <4> QED BY <1>4, <2>2, <4>2 DEF Closed
    <3> QED BY <3>1, <3>2
  <2>3. CASE h.type = "ZRPOS" /\ sender.phase \in {"name"} \cup Sending
             /\ r = [state |-> Rewound(h.pos), sends |-> BrokenOff]
    <3>0. sender' = Rewound(h.pos) /\ toRx' = toRx \o BrokenOff
      BY <1>6, <2>3
    <3>1. CASE sender.phase = "name"
      <4>1. BrokenOff = <<>>
        BY <3>1 DEF BrokenOff
      <4> QED BY <1>4, <1>5, <2>3, <3>0, <3>1, <4>1 DEF Admitted
    <3>2. CASE sender.phase \in Sending
      <4>1. BrokenOff = <<>> \/ BrokenOff = <<Zm!EndOfFrame>>
        BY DEF BrokenOff
      <4> QED BY <1>4, <1>5, <3>0, <3>2, <4>1, Kinds DEF Continued
    <3> QED BY <2>3, <3>1, <3>2
  <2>4. CASE h.type = "ZACK" /\ sender.phase = "ack"
             /\ r = [state |-> Zm!To("head"), sends |-> <<>>]
    <3>1. sender' = Zm!To("head") /\ toRx' = toRx \o <<>>
      BY <2>0, <2>4, Zenon
    <3> QED BY <1>4, <1>5, <2>4, <3>1, Kinds DEF Continued
  <2>5. CASE h.type = "ZNAK" /\ sender.phase = "start"
             /\ r = [state |-> sender, sends |-> <<Zm!Hdr("ZRQINIT", 0)>>]
    <3>1. sender' = sender /\ toRx' = toRx \o <<Zm!Hdr("ZRQINIT", 0)>>
      BY <2>0, <2>5, Zenon
    <3> QED BY <2>5, <3>1 DEF Started
  <2>6. CASE h.type = "ZNAK" /\ sender.phase = "name"
             /\ r = [state |-> sender, sends |-> Zm!Announce(sender.file)]
    BY <1>6, <2>6, Kinds DEF Offered
  <2>7. CASE h.type = "ZNAK" /\ sender.phase \in {"data", "ack"}
             /\ r = [state |-> Rewound(sender.from), sends |-> BrokenOff]
    <3>0. sender' = Rewound(sender.from) /\ toRx' = toRx \o BrokenOff
      BY <1>6, <2>7
    <3>1. BrokenOff = <<>> \/ BrokenOff = <<Zm!EndOfFrame>>
      BY DEF BrokenOff
    <3> QED BY <1>4, <1>5, <2>7, <3>0, <3>1, Kinds DEF Continued
  <2>8. CASE h.type = "ZNAK" /\ sender.phase = "eof"
             /\ r = [state |-> sender, sends |-> <<Zm!Hdr("ZEOF", FileBlocks)>>]
    <3>1. sender' = sender /\ toRx' = toRx \o <<Zm!Hdr("ZEOF", FileBlocks)>>
      BY <2>0, <2>8, Zenon
    <3> QED BY <2>8, <3>1, Kinds DEF Continued
  <2>9. CASE sender.phase = "fin" /\ r = [state |-> sender, sends |-> <<Zm!Hdr("ZFIN", 0)>>]
    <3>1. sender' = sender /\ toRx' = toRx \o <<Zm!Hdr("ZFIN", 0)>>
      BY <2>0, <2>9, Zenon
    <3> QED BY <2>9, <3>1 DEF Closed
  <2>10. CASE r = [state |-> sender, sends |-> <<>>]
    <3>1. sender' = sender /\ toRx' = toRx \o <<>>
      BY <2>0, <2>10, Zenon
    <3> QED BY <1>5, <3>1 DEF Unmoved
  <2> HIDE DEF h, r
  <2>11. \/ h.type = "ZRINIT" /\ sender.phase \in Asking
             /\ r = [state |-> Zm!To("name"), sends |-> Zm!Announce(sender.file)]
         \/ h.type = "ZRINIT" /\ sender.phase \in Sending /\ r = Zm!NextFile
         \/ h.type = "ZRPOS" /\ sender.phase \in {"name"} \cup Sending
             /\ r = [state |-> Rewound(h.pos), sends |-> BrokenOff]
         \/ h.type = "ZACK" /\ sender.phase = "ack" /\ r = [state |-> Zm!To("head"), sends |-> <<>>]
         \/ h.type = "ZNAK" /\ sender.phase = "start"
             /\ r = [state |-> sender, sends |-> <<Zm!Hdr("ZRQINIT", 0)>>]
         \/ h.type = "ZNAK" /\ sender.phase = "name"
             /\ r = [state |-> sender, sends |-> Zm!Announce(sender.file)]
         \/ h.type = "ZNAK" /\ sender.phase \in {"data", "ack"}
             /\ r = [state |-> Rewound(sender.from), sends |-> BrokenOff]
         \/ h.type = "ZNAK" /\ sender.phase = "eof"
             /\ r = [state |-> sender, sends |-> <<Zm!Hdr("ZEOF", FileBlocks)>>]
         \/ sender.phase = "fin" /\ r = [state |-> sender, sends |-> <<Zm!Hdr("ZFIN", 0)>>]
         \/ r = [state |-> sender, sends |-> <<>>]
    <3>1. h.type \notin {"ZSKIP", "ZFIN", "ZABORT"}
      BY <1>3
    <3> QED BY <3>1, Reacts, ZenonT(60) DEF r
  <2> QED BY <2>1, <2>2, <2>3, <2>4, <2>5, <2>6, <2>7, <2>8, <2>9, <2>10, <2>11
<1> HIDE DEF r
<1>7. \/ Offered(h.type) \/ Advanced(h.type) \/ Closed(h.type) \/ Admitted(h.type)
      \/ Continued \/ Started \/ Unmoved
  BY <1>1, <1>6
<1> QED BY <1>1, <1>2, <1>7

\* The conversation goes on, whichever reply is heard.
LEMMA HearsSound ==
  ASSUME ZTyped, ConvInv, Zm!SenderHears
  PROVE  ConvInv'
<1>1. /\ toTx # <<>> /\ toTx' = Tail(toTx) /\ ReceiverRests
      /\ \E t \in Answers :
              /\ t = Tag(toTx[1])
              /\ Offered(t) \/ Advanced(t) \/ Closed(t) \/ Admitted(t) \/ Continued \/ Started \/ Unmoved
  BY HeardCases DEF ConvInv
<1>2. PICK t \in Answers :
              /\ t = Tag(toTx[1])
              /\ Offered(t) \/ Advanced(t) \/ Closed(t) \/ Admitted(t) \/ Continued \/ Started \/ Unmoved
  BY <1>1
<1>3. /\ Conversation /\ Replies /\ Requests /\ Stream /\ Reads /\ Written
      /\ filing' = filing /\ kept' = kept /\ rep' = rep /\ UNCHANGED <<ps, role, filing, content>>
      /\ toTx \in Seq(Header) /\ toRx \in Seq(Line)
  BY <1>1, RestsSound DEF ConvInv, ZTyped
<1>4. Written'
  BY <1>1, <1>3, RestsSound
<1>5. /\ sender.file \in 1..Files /\ sender.file \in Nat
      /\ \A T, U, V : NoneAfter(toTx, T, U) /\ All(toTx, V) /\ t \in T => All(toTx', V \ U)
      /\ \A T : All(toTx, T) => All(toTx', T) /\ t \in T
      /\ \A T, U : NoneAfter(toTx, T, U) => NoneAfter(toTx', T, U)
  BY <1>1, <1>2, <1>3, SenderTyped, TailKinds
<1>6. ASSUME Offered(t) PROVE ConvInv'
  <2>1. sender'.phase \in Asking /\ sender'.phase = "name" /\ sender'.file = sender.file /\ sender.phase \in Asking
        /\ toRx' = toRx \o Zm!Announce(sender'.file)
    BY <1>6, Kinds DEF Offered
  <2>2. sender'.phase \notin Sending
    BY <2>1, Kinds
  <2>3. Conversation'
    BY <1>3, <2>1, Kinds DEF Conversation
  <2>4. Replies'
    BY <1>1, <1>3, <2>1, <2>2, RepliesLess
  <2>5. Requests'
    BY <1>3, <1>5, <2>1, OffersFile
  <2>6. Stream' /\ Reads'
    BY <1>3, <1>5, <2>1, OfferKinds, StreamFresh
  <2> QED BY <1>4, <2>3, <2>4, <2>5, <2>6 DEF ConvInv
<1>7. ASSUME Advanced(t) PROVE ConvInv'
  <2>1. sender'.phase = "name" /\ sender'.phase \in Asking /\ sender.phase \in Sending /\ t = "ZRINIT"
        /\ sender'.file = sender.file + 1 /\ sender'.file \in Nat
        /\ toRx' = toRx \o Zm!Announce(sender'.file)
    BY <1>5, <1>7, Kinds DEF Advanced
  <2>2. filing = 0
    <3>1. filing # 0 => All(toTx, Answers \ {"ZRINIT"})
      BY <1>3, <2>1 DEF Replies
    <3>2. "ZRINIT" \notin Answers \ {"ZRINIT"}
      OBVIOUS
    <3> QED BY <1>5, <2>1, <3>1, <3>2
  <2>3. Conversation'
    <3>1. Len(kept) = sender.file
      BY <1>3, <1>5, <2>1, <2>2, Kinds DEF Conversation
    <3> QED BY <1>3, <1>5, <2>1, <2>2, <3>1 DEF Conversation
  <2>4. Replies'
    <3>1. NoneAfter(toTx, {"ZRINIT"}, {"ZRPOS"}) /\ All(toTx, Answers) /\ All(rep, Allowed)
      BY <1>3, <2>2 DEF Replies
    <3>2. All(toTx', Answers \ {"ZRPOS"}) /\ NoneAfter(toTx', {"ZRINIT"}, {"ZRPOS"}) /\ All(toTx', Answers)
      BY <1>5, <2>1, <3>1
    <3>3. All(rep', Allowed')
      BY <1>3, <3>1 DEF Allowed
    <3> QED BY <1>3, <2>2, <3>2, <3>3 DEF Replies
  <2>5. Requests'
    BY <1>3, <2>1, <2>2, OffersFile
  <2>6. Stream' /\ Reads'
    BY <1>3, <2>1, OfferKinds, StreamFresh
  <2> QED BY <1>4, <2>3, <2>4, <2>5, <2>6 DEF ConvInv
<1>8. ASSUME Closed(t) PROVE ConvInv'
  <2>1. /\ sender'.phase = "fin" /\ sender'.file = sender.file /\ sender.phase \in Sending \cup {"fin"}
        /\ sender.phase \in Sending => t = "ZRINIT"
        /\ toRx' = toRx \o <<Zm!Hdr("ZFIN", 0)>>
        /\ sender'.phase \notin Asking /\ sender'.phase \notin Sending
    BY <1>8, Kinds DEF Closed
  <2>2. filing = 0
    <3>1. sender.phase \in Sending /\ filing # 0 => All(toTx, Answers \ {"ZRINIT"})
      BY <1>3, <2>1 DEF Replies
    <3>2. "ZRINIT" \notin Answers \ {"ZRINIT"}
      OBVIOUS
    <3>3. sender.phase = "fin" => filing = 0
      BY <1>3, Kinds DEF Conversation
    <3> QED BY <1>5, <2>1, <3>1, <3>2, <3>3
  <2>3. Conversation'
    BY <1>3, <2>1, <2>2 DEF Conversation
  <2>4. Replies'
    BY <1>1, <1>3, <2>1, RepliesLess
  <2>5. Requests'
    BY <1>3, <2>1, <2>2, SendsFin
  <2>6. Stream' /\ Reads'
    <3>1. Zm!Hdr("ZFIN", 0) \in Line /\ Tag(Zm!Hdr("ZFIN", 0)) = "ZFIN" /\ Fresh(Zm!Hdr("ZFIN", 0))
      BY Made DEF Types, Fresh
    <3> DEFINE r == <<Zm!Hdr("ZFIN", 0)>>
    <3>2. /\ r \in Seq(Line) /\ r # <<>> /\ Fresh(r[1]) /\ Tag(r[Len(r)]) # "ZFILE"
          /\ \A i, j \in 1..Len(r) : j = i + 1 => Fits(r[i], r[j])
      BY <3>1, OneKinds
    <3> QED BY <1>3, <2>1, <3>2, StreamFresh
  <2> QED BY <1>4, <2>3, <2>4, <2>5, <2>6 DEF ConvInv
<1>9. ASSUME Admitted(t) PROVE ConvInv'
  <2>1. sender.phase = "name" /\ sender.phase \in Asking /\ t = "ZRPOS" /\ sender'.phase = "head"
        /\ sender'.phase \in Sending /\ sender'.phase \notin Asking
        /\ sender'.file = sender.file /\ toRx' = toRx
    BY <1>9, Kinds DEF Admitted
  <2>2. filing # 0
    <3>1. filing = 0 => All(toTx, Answers \ {"ZRPOS"})
      BY <1>3, <2>1 DEF Replies
    <3>2. "ZRPOS" \notin Answers \ {"ZRPOS"}
      OBVIOUS
    <3> QED BY <1>5, <2>1, <3>1, <3>2
  <2>3. Conversation'
    BY <1>3, <2>1, <2>2, Kinds DEF Conversation
  <2>4. Replies'
    <3>1. NoneAfter(toTx, {"ZRPOS"}, {"ZRINIT"}) /\ All(toTx, Answers) /\ All(rep, Allowed)
      BY <1>3, <2>2 DEF Replies
    <3>2. All(toTx', Answers \ {"ZRINIT"}) /\ NoneAfter(toTx', {"ZRPOS"}, {"ZRINIT"}) /\ All(toTx', Answers)
      BY <1>5, <2>1, <3>1
    <3>3. All(rep', Allowed')
      BY <1>3, <3>1 DEF Allowed
    <3> QED BY <1>3, <2>1, <2>2, <3>2, <3>3 DEF Replies
  <2>5. Requests'
    BY <1>3, <2>1, <2>2, BeginsPieces
  <2>6. Stream' /\ Reads'
    BY <1>1, <1>3, <2>1, NothingSent
  <2> QED BY <1>4, <2>3, <2>4, <2>5, <2>6 DEF ConvInv
<1>10. ASSUME Continued PROVE ConvInv'
  <2>1. /\ sender.phase \in Sending /\ sender'.phase \in Sending /\ sender'.phase # "data"
        /\ sender'.file = sender.file /\ sender'.phase \notin Asking
    BY <1>10, Kinds DEF Continued
  <2>2. Conversation'
    BY <1>3, <2>1, Kinds DEF Conversation
  <2>3. Replies'
    BY <1>1, <1>3, <2>1, RepliesLess
  <2>4. ASSUME NEW x \in Line, toRx' = toRx \o <<x>>, Tag(x) \in Pieces, Fresh(x), Sound(x, sender.file, filing)
        PROVE  Requests' /\ Stream' /\ Reads'
    <3> DEFINE r == <<x>>
    <3>0. Tag(x) # "ZFILE"
      BY <2>4, Kinds
    <3>1. /\ r \in Seq(Line) /\ r # <<>> /\ r[1] = x /\ Fresh(r[1]) /\ All(r, {Tag(x)})
          /\ \A i, j \in 1..Len(r) : j = i + 1 => Fits(r[i], r[j])
          /\ Tag(r[Len(r)]) # "ZFILE"
          /\ \A i \in 1..Len(r) : Sound(r[i], sender.file, filing)
      BY <2>4, <3>0, OneKinds
    <3>2. All(r, Pieces) /\ toRx' = toRx \o r
      BY <2>4, <3>1 DEF All
    <3> HIDE DEF r
    <3> QED BY <1>3, <2>1, <3>1, <3>2, SendsPieces, StreamFresh
  <2>5. CASE toRx' = toRx
    <3>1. Requests'
      BY <1>3, <2>1, <2>5, Kinds DEF Requests
    <3> QED BY <1>1, <1>3, <1>4, <2>1, <2>2, <2>3, <2>5, <3>1, NothingSent DEF ConvInv
  <2>6. CASE toRx' = toRx \o <<Zm!EndOfFrame>>
    <3>1. /\ Zm!EndOfFrame \in Line /\ Tag(Zm!EndOfFrame) = "data" /\ Zm!EndOfFrame.kind = "sub"
          /\ Zm!EndOfFrame.block = 0 /\ Zm!EndOfFrame.end = "E"
      BY Made DEF Zm!EndOfFrame
    <3>2. Tag(Zm!EndOfFrame) \in Pieces /\ Fresh(Zm!EndOfFrame) /\ Sound(Zm!EndOfFrame, sender.file, filing)
      BY <3>1, Kinds DEF Fresh, Sound
    <3> QED BY <1>4, <2>2, <2>3, <2>4, <2>6, <3>1, <3>2 DEF ConvInv
  <2>7. CASE toRx' = toRx \o <<Zm!Hdr("ZEOF", FileBlocks)>>
    <3> DEFINE x == Zm!Hdr("ZEOF", FileBlocks)
    <3>1. x \in Line /\ Tag(x) = "ZEOF" /\ x.kind = "hdr" /\ x.pos = FileBlocks
      BY Made, FilesAssumption DEF Types
    <3>2. toRx' = toRx \o <<x>>
      BY <2>7
    <3> HIDE DEF x
    <3>3. Tag(x) \in Pieces /\ Fresh(x) /\ Sound(x, sender.file, filing)
      BY <3>1, Kinds DEF Fresh, Sound
    <3> QED BY <1>4, <2>2, <2>3, <2>4, <3>1, <3>2, <3>3 DEF ConvInv
  <2> QED BY <1>10, <2>5, <2>6, <2>7 DEF Continued
<1>11. ASSUME Started PROVE ConvInv'
  <2>1. sender' = sender /\ sender.phase = "start" /\ toRx' = toRx \o <<Zm!Hdr("ZRQINIT", 0)>>
    BY <1>11 DEF Started
  <2>2. Conversation'
    BY <1>3, <2>1, SameConversation
  <2>3. Replies'
    BY <1>1, <1>3, <2>1, RepliesLess
  <2>4. Requests'
    BY <1>3, <2>1, AsksAgain
  <2>5. Stream' /\ Reads'
    <3> DEFINE x == Zm!Hdr("ZRQINIT", 0)
    <3>1. x \in Line /\ Tag(x) = "ZRQINIT" /\ Fresh(x)
      BY Made DEF Types, Fresh
    <3> DEFINE r == <<x>>
    <3>2. /\ r \in Seq(Line) /\ r # <<>> /\ Fresh(r[1]) /\ Tag(r[Len(r)]) # "ZFILE"
          /\ \A i, j \in 1..Len(r) : j = i + 1 => Fits(r[i], r[j])
      BY <3>1, OneKinds
    <3> QED BY <1>3, <2>1, <3>2, StreamFresh
  <2> QED BY <1>4, <2>2, <2>3, <2>4, <2>5 DEF ConvInv
<1>12. ASSUME Unmoved PROVE ConvInv'
  <2>1. sender' = sender /\ toRx' = toRx
    BY <1>12 DEF Unmoved
  <2>2. Conversation'
    BY <1>3, <2>1, SameConversation
  <2>3. Replies'
    BY <1>1, <1>3, <2>1, RepliesLess
  <2>4. Requests'
    BY <1>3, <2>1 DEF Requests
  <2> QED BY <1>1, <1>3, <1>4, <2>1, <2>2, <2>3, <2>4, NothingSent DEF ConvInv
<1> QED BY <1>2, <1>6, <1>7, <1>8, <1>9, <1>10, <1>11, <1>12

\* What a sender in Sending says next, when it fits.
LEMMA PieceLine ==
  ASSUME ZTyped, Stream, Reads, ReceiverRests, NEW x \in Line, toRx' = Append(toRx, x), Tag(x) # "ZFILE",
         sender'.phase = "data" => Fits(x, Zm!DataSub(1, sender'.pos + 1, "G")),
         toRx # <<>> => Fits(toRx[Len(toRx)], x),
         ps = "sub" /\ role = "data" /\ toRx = <<>> => Goes(Len(content), x)
  PROVE  Stream' /\ Reads' /\ toRx' = toRx \o <<x>>
<1> DEFINE r == <<x>>
<1>1. /\ r \in Seq(Line) /\ r # <<>> /\ r[1] = x /\ Len(r) = 1
      /\ \A i, j \in 1..Len(r) : j = i + 1 => Fits(r[i], r[j])
      /\ Tag(r[Len(r)]) # "ZFILE"
  BY OneKinds
<1>2. toRx' = toRx \o r
  <2>1. toRx \in Seq(Line)
    BY DEF ZTyped
  <2> QED BY <2>1, AppendIsConcat
<1> HIDE DEF r
<1>3. Stream' /\ toRx' # <<>> /\ toRx'[1] = IF toRx = <<>> THEN x ELSE toRx[1]
  BY <1>1, <1>2, StreamMore
<1>4. Reads'
  <2>1. UNCHANGED <<ps, role, filing, content>>
    BY RestsSound
  <2> QED BY <1>3, <2>1 DEF Reads
<1> QED BY <1>2, <1>3, <1>4 DEF r

\* ... and the conversation goes on.
LEMMA PieceSound ==
  ASSUME ZTyped, ConvInv, ReceiverRests, toTx' = toTx, Stream', Reads',
         sender.phase \in Sending, sender'.phase \in Sending, sender'.file = sender.file,
         NEW x \in Line, toRx' = toRx \o <<x>>, Tag(x) \in Pieces, Sound(x, sender.file, filing)
  PROVE  ConvInv'
<1> DEFINE r == <<x>>
<1>1. Tag(x) # "ZFILE" /\ sender'.phase \notin Asking /\ sender.phase \notin Asking
  BY Kinds
<1>2. r \in Seq(Line) /\ \A i \in 1..Len(r) : Sound(r[i], sender.file, filing)
  BY <1>1, OneKinds
<1>3. All(r, Pieces) /\ toRx' = toRx \o r
  BY AllOne
<1> HIDE DEF r
<1>4. /\ Conversation /\ Replies /\ Requests /\ Written
      /\ filing' = filing /\ kept' = kept /\ rep' = rep
  BY RestsSound DEF ConvInv
<1>5. Conversation'
  BY <1>4, Kinds DEF Conversation
<1>6. Replies'
  BY <1>1, <1>4 DEF Replies, Allowed
<1>7. Requests'
  BY <1>2, <1>3, <1>4, SendsPieces
<1> QED BY <1>4, <1>5, <1>6, <1>7, RestsSound DEF ConvInv

\* What is sent unasked, and that it fits.
LEMMA SendsPiece ==
  ASSUME ZTyped, Stream, Reads, Zm!SenderSends
  PROVE  /\ ReceiverRests /\ toTx' = toTx /\ Stream' /\ Reads'
         /\ sender.phase \in Sending /\ sender'.phase \in Sending /\ sender'.file = sender.file
         /\ \E x \in Line :
              /\ toRx' = toRx \o <<x>> /\ Tag(x) \in Pieces
              /\ Tag(x) = "ZEOF" => x.pos = FileBlocks
              /\ Tag(x) = "data" => x.file = sender.file /\ x.block \in 1..FileBlocks
<1>1. ReceiverRests /\ toTx' = toTx
  BY DEF Zm!SenderSends, ReceiverRests
<1>2. /\ sender.file \in Nat /\ sender.pos \in Nat /\ sender.from \in Nat /\ FileBlocks \in Nat
      /\ sender \in SenderStates
  BY SenderTyped, FilesAssumption DEF ZTyped
<1>3. /\ toRx # <<>> => Tag(toRx[Len(toRx)]) # "ZFILE"
      /\ sender.phase = "data" /\ toRx # <<>> =>
           Fits(toRx[Len(toRx)], Zm!DataSub(1, sender.pos + 1, "G"))
  BY DEF Stream
<1>4. CASE SendsData
  <2>1. sender.phase = "head" /\ toRx' = Append(toRx, Zm!Hdr("ZDATA", sender.pos))
        /\ sender' = [sender EXCEPT !.phase = "data", !.from = sender.pos]
    BY <1>4 DEF SendsData
  <2>2. sender'.phase = "data" /\ sender'.file = sender.file /\ sender'.pos = sender.pos
    BY <1>2, <2>1 DEF SenderStates
  <2> DEFINE x == Zm!Hdr("ZDATA", sender.pos)
  <2>3. x \in Line /\ Tag(x) = "ZDATA" /\ x.kind = "hdr" /\ x.pos = sender.pos
    BY <1>2, HdrMade DEF Types
  <2>4. toRx' = Append(toRx, x)
    BY <2>1
  <2> HIDE DEF x
  <2>5. Fresh(x) /\ Goes(Len(content), x) /\ Tag(x) \in Pieces /\ Tag(x) # "ZFILE"
    BY <2>3, Kinds DEF Fresh, Goes
  <2>6. Fits(x, Zm!DataSub(1, sender'.pos + 1, "G"))
    <3>1. /\ Tag(Zm!DataSub(1, sender.pos + 1, "G")) = "data"
          /\ Zm!DataSub(1, sender.pos + 1, "G").block = sender.pos + 1
      BY DEF Zm!DataSub, Tag
    <3> QED BY <2>2, <2>3, <3>1 DEF Fits, Goes
  <2>7. toRx # <<>> => Fits(toRx[Len(toRx)], x)
    BY <1>3, <2>5, FreshFits
  <2>8. sender.phase \in Sending /\ sender'.phase \in Sending
    BY <2>1, <2>2, Kinds
  <2>9. Stream' /\ Reads' /\ toRx' = toRx \o <<x>>
    BY <1>1, <2>3, <2>4, <2>5, <2>6, <2>7, PieceLine
  <2> QED BY <1>1, <2>2, <2>3, <2>5, <2>8, <2>9
<1>5. ASSUME NEW e \in {"W", "G", "E"}, SendsBlock(e)
      PROVE  /\ Stream' /\ Reads'
             /\ sender.phase \in Sending /\ sender'.phase \in Sending /\ sender'.file = sender.file
             /\ \E x \in Line :
                  /\ toRx' = toRx \o <<x>> /\ Tag(x) \in Pieces
                  /\ Tag(x) = "ZEOF" => x.pos = FileBlocks
                  /\ Tag(x) = "data" => x.file = sender.file /\ x.block \in 1..FileBlocks
  <2>1. /\ sender.phase = "data" /\ sender.pos < FileBlocks
        /\ toRx' = Append(toRx, Zm!DataSub(sender.file, sender.pos + 1, e))
        /\ sender' = [sender EXCEPT !.pos = @ + 1, !.phase = IF e = "W" THEN "ack" ELSE "data"]
    BY <1>5 DEF SendsBlock
  <2>2. /\ sender'.phase = (IF e = "W" THEN "ack" ELSE "data")
        /\ sender'.file = sender.file /\ sender'.pos = sender.pos + 1
    <3> DEFINE p == IF e = "W" THEN "ack" ELSE "data"
    <3>1. sender' = [sender EXCEPT !.pos = @ + 1, !.phase = p]
      BY <2>1
    <3> HIDE DEF p
    <3>2. sender'.phase = p /\ sender'.file = sender.file /\ sender'.pos = sender.pos + 1
      BY <1>2, <3>1 DEF SenderStates
    <3> QED BY <3>2 DEF p
  <2> DEFINE x == Zm!DataSub(sender.file, sender.pos + 1, e)
  <2>3. /\ x \in Line /\ Tag(x) = "data" /\ x.kind = "sub" /\ x.file = sender.file
        /\ x.block = sender.pos + 1 /\ x.end = e
    <3>1. sender.pos + 1 \in Nat
      BY <1>2
    <3> QED BY <1>2, <3>1, DataMade
  <2>4. toRx' = Append(toRx, x)
    BY <2>1
  <2> HIDE DEF x
  <2>5. sender.phase \in Sending /\ sender'.phase \in Sending /\ Tag(x) \in Pieces /\ Tag(x) # "ZFILE"
    BY <2>1, <2>2, <2>3, Kinds
  <2>8. sender'.phase = "data" => Fits(x, Zm!DataSub(1, sender'.pos + 1, "G"))
    <3>1. /\ Tag(Zm!DataSub(1, sender.pos + 1 + 1, "G")) = "data"
          /\ Zm!DataSub(1, sender.pos + 1 + 1, "G").block = sender.pos + 1 + 1
      BY DEF Zm!DataSub, Tag
    <3> QED BY <2>2, <2>3, <3>1 DEF Fits, Goes
  <2>9. toRx # <<>> => Fits(toRx[Len(toRx)], x)
    <3>1. ASSUME toRx # <<>> PROVE Fits(toRx[Len(toRx)], x)
      <4>1. Fits(toRx[Len(toRx)], Zm!DataSub(1, sender.pos + 1, "G"))
        BY <1>3, <2>1, <3>1
      <4>2. /\ Tag(Zm!DataSub(1, sender.pos + 1, "G")) = "data"
            /\ Zm!DataSub(1, sender.pos + 1, "G").kind = "sub"
            /\ Zm!DataSub(1, sender.pos + 1, "G").block = sender.pos + 1
        BY DEF Zm!DataSub, Tag
      <4> QED BY <1>2, <2>3, <4>1, <4>2 DEF Fits, Goes
    <3> QED BY <3>1
  <2>10. ps = "sub" /\ role = "data" /\ toRx = <<>> => Goes(Len(content), x)
    BY <2>1, <2>3 DEF Reads, Goes
  <2>11. Stream' /\ Reads' /\ toRx' = toRx \o <<x>>
    BY <1>1, <2>3, <2>4, <2>5, <2>8, <2>9, <2>10, PieceLine
  <2>12. x.block \in 1..FileBlocks
    BY <1>2, <2>1, <2>3
  <2> QED BY <2>2, <2>3, <2>5, <2>11, <2>12
<1>6. CASE SendsEof
  <2>1. sender.phase \in {"head", "data"} /\ toRx' = Append(toRx, Zm!Hdr("ZEOF", FileBlocks))
        /\ sender' = Zm!To("eof")
    BY <1>6 DEF SendsEof
  <2>2. sender'.phase = "eof" /\ sender'.file = sender.file
    BY <2>1, SenderTyped, Kinds
  <2> DEFINE x == Zm!Hdr("ZEOF", FileBlocks)
  <2>3. x \in Line /\ Tag(x) = "ZEOF" /\ x.kind = "hdr" /\ x.pos = FileBlocks
    BY <1>2, HdrMade DEF Types
  <2>4. toRx' = Append(toRx, x)
    BY <2>1
  <2> HIDE DEF x
  <2>5. Fresh(x) /\ Goes(Len(content), x) /\ Tag(x) \in Pieces /\ Tag(x) # "ZFILE"
    BY <2>3, Kinds DEF Fresh, Goes
  <2>7. toRx # <<>> => Fits(toRx[Len(toRx)], x)
    BY <1>3, <2>5, FreshFits
  <2>8. sender.phase \in Sending /\ sender'.phase \in Sending
    BY <2>1, <2>2, Kinds
  <2>9. Stream' /\ Reads' /\ toRx' = toRx \o <<x>>
    BY <1>1, <2>2, <2>3, <2>4, <2>5, <2>7, PieceLine
  <2> QED BY <1>1, <2>2, <2>3, <2>5, <2>8, <2>9
<1> QED BY <1>1, <1>4, <1>5, <1>6, SendsCases

\* ... and whatever is sent unasked,
LEMMA SendsSound ==
  ASSUME ZTyped, ConvInv, Zm!SenderSends
  PROVE  ConvInv'
<1>1. /\ ReceiverRests /\ toTx' = toTx /\ Stream' /\ Reads'
      /\ sender.phase \in Sending /\ sender'.phase \in Sending /\ sender'.file = sender.file
      /\ \E x \in Line :
           /\ toRx' = toRx \o <<x>> /\ Tag(x) \in Pieces
           /\ Tag(x) = "ZEOF" => x.pos = FileBlocks
           /\ Tag(x) = "data" => x.file = sender.file /\ x.block \in 1..FileBlocks
  BY SendsPiece DEF ConvInv
<1>2. PICK x \in Line :
           /\ toRx' = toRx \o <<x>> /\ Tag(x) \in Pieces
           /\ Tag(x) = "ZEOF" => x.pos = FileBlocks
           /\ Tag(x) = "data" => x.file = sender.file /\ x.block \in 1..FileBlocks
  BY <1>1
<1>3. filing # 0 => filing = sender.file
  BY <1>1, Kinds DEF ConvInv, Conversation
<1>4. Sound(x, sender.file, filing)
  BY <1>2, <1>3, Kinds DEF Sound
<1> QED BY <1>1, <1>2, <1>4, PieceSound

\* A sender that repeats itself begins something.
LEMMA RepeatsLine ==
  ASSUME ZTyped, Stream, Reads, Zm!SenderRepeats
  PROVE  Stream' /\ Reads'
<1>1. /\ toRx = <<>> /\ sender.phase \in {"start", "name", "eof", "fin"}
      /\ sender.phase = "start" => toRx' = <<Zm!Hdr("ZRQINIT", 0)>>
      /\ sender.phase = "name" => toRx' = Zm!Announce(sender.file)
      /\ sender.phase = "eof" => toRx' = <<Zm!Hdr("ZEOF", FileBlocks)>>
      /\ sender.phase = "fin" => toRx' = <<Zm!Hdr("ZFIN", 0)>>
  BY Repeated
<1>2. UNCHANGED <<ps, role, filing, content>> /\ sender' = sender
  BY DEF Zm!SenderRepeats
<1>3. \A r \in Seq(Line) : toRx \o r = r
  BY <1>1, ConcatEmptySeq
<1>4. \A n \in Nat, t \in {"ZRQINIT", "ZEOF", "ZFIN"} :
           LET x == Zm!Hdr(t, n) IN x \in Line /\ Tag(x) = t /\ Fresh(x)
  BY HdrMade DEF Types, Fresh
<1>5. ASSUME NEW r \in Seq(Line), r # <<>>, toRx' = r, Fresh(r[1]), Tag(r[Len(r)]) # "ZFILE",
             \A i, j \in 1..Len(r) : j = i + 1 => Fits(r[i], r[j])
      PROVE  Stream' /\ Reads'
  <2>1. toRx' = toRx \o r /\ sender'.phase # "data"
    BY <1>1, <1>2, <1>3, <1>5
  <2> QED BY <1>2, <1>5, <2>1, StreamFresh
<1>6. ASSUME NEW x \in Line, Tag(x) # "ZFILE", Fresh(x), toRx' = <<x>>
      PROVE  Stream' /\ Reads'
  <2> DEFINE r == <<x>>
  <2>1. /\ r \in Seq(Line) /\ r # <<>> /\ Fresh(r[1]) /\ Tag(r[Len(r)]) # "ZFILE"
        /\ \A i, j \in 1..Len(r) : j = i + 1 => Fits(r[i], r[j])
    BY <1>6, OneKinds
  <2>2. toRx' = r
    BY <1>6
  <2> HIDE DEF r
  <2> QED BY <1>5, <2>1, <2>2
<1>7. CASE sender.phase = "name"
  <2>1. sender.file \in Nat
    BY SenderTyped
  <2> DEFINE r == Zm!Announce(sender.file)
  <2>2. /\ r \in Seq(Line) /\ r # <<>> /\ Fresh(r[1]) /\ Tag(r[Len(r)]) # "ZFILE"
        /\ \A i, j \in 1..Len(r) : j = i + 1 => Fits(r[i], r[j])
    BY <2>1, OfferKinds
  <2>3. toRx' = r
    BY <1>1, <1>7
  <2> HIDE DEF r
  <2> QED BY <1>5, <2>2, <2>3
<1>8. CASE sender.phase \in {"start", "eof", "fin"}
  <2>1. FileBlocks \in Nat
    BY FilesAssumption
  <2> QED BY <1>1, <1>4, <1>6, <1>8, <2>1
<1> QED BY <1>1, <1>7, <1>8

\* ... or said once more,
LEMMA RepeatsSound ==
  ASSUME ZTyped, ConvInv, Zm!SenderRepeats
  PROVE  ConvInv'
<1>1. /\ toRx = <<>> /\ sender.phase \in {"start", "name", "eof", "fin"}
      /\ sender.phase = "start" => toRx' = <<Zm!Hdr("ZRQINIT", 0)>>
      /\ sender.phase = "name" => toRx' = Zm!Announce(sender.file)
      /\ sender.phase = "eof" => toRx' = <<Zm!Hdr("ZEOF", FileBlocks)>>
      /\ sender.phase = "fin" => toRx' = <<Zm!Hdr("ZFIN", 0)>>
      /\ toRx' \in Seq(Line)
  BY Repeated
<1>2. ReceiverRests /\ toTx' = toTx /\ sender' = sender
  BY DEF Zm!SenderRepeats, ReceiverRests
<1>3. /\ Conversation /\ Replies /\ Requests /\ Stream /\ Reads /\ Written
      /\ filing' = filing /\ kept' = kept /\ rep' = rep /\ UNCHANGED <<ps, role, filing, content>>
      /\ Written'
  BY <1>2, RestsSound DEF ConvInv
<1>4. Conversation' /\ Replies'
  BY <1>2, <1>3, SameConversation, RepliesSame
<1>5. \A r \in Seq(Line) : toRx \o r = r
  BY <1>1, ConcatEmptySeq
<1>6. /\ sender.file \in Nat /\ Zm!Announce(sender.file) \in Seq(Line)
      /\ \A x \in Line : <<x>> \in Seq(Line)
      /\ Zm!Hdr("ZRQINIT", 0) \in Line /\ Zm!Hdr("ZEOF", FileBlocks) \in Line /\ Zm!Hdr("ZFIN", 0) \in Line
      /\ Tag(Zm!Hdr("ZRQINIT", 0)) = "ZRQINIT" /\ Tag(Zm!Hdr("ZEOF", FileBlocks)) = "ZEOF"
      /\ Tag(Zm!Hdr("ZFIN", 0)) = "ZFIN"
      /\ Zm!Hdr("ZEOF", FileBlocks).pos = FileBlocks
  <2>1. sender.file \in Nat /\ Zm!Announce(sender.file) \in Seq(Line)
    BY SenderTyped, OfferMade
  <2>2. \A x \in Line : <<x>> \in Seq(Line)
    BY OneOf
  <2>3. 0 \in Nat /\ FileBlocks \in Nat /\ {"ZRQINIT", "ZEOF", "ZFIN"} \subseteq Types
    BY FilesAssumption DEF Types
  <2>4. \A t \in {"ZRQINIT", "ZEOF", "ZFIN"}, n \in Nat :
             /\ Zm!Hdr(t, n) \in Line /\ Tag(Zm!Hdr(t, n)) = t
             /\ Zm!Hdr(t, n).kind = "hdr" /\ Zm!Hdr(t, n).pos = n
    BY <2>3, HdrMade
  <2> QED BY <2>1, <2>2, <2>3, <2>4
<1>7. Stream' /\ Reads'
  BY RepeatsLine DEF ConvInv
<1>8. CASE sender.phase = "start"
  <2>1. toRx' = toRx \o <<Zm!Hdr("ZRQINIT", 0)>>
    BY <1>1, <1>5, <1>6, <1>8
  <2>2. Requests'
    BY <1>2, <1>3, <1>8, <2>1, AsksAgain
  <2> QED BY <1>3, <1>4, <1>7, <2>2 DEF ConvInv
<1>9. CASE sender.phase = "name"
  <2>1. toRx' = toRx \o Zm!Announce(sender.file) /\ sender.phase \in Asking
    BY <1>1, <1>5, <1>6, <1>9, Kinds
  <2>2. Requests'
    BY <1>2, <1>3, <1>6, <1>9, <2>1, OffersFile
  <2> QED BY <1>3, <1>4, <1>7, <2>2 DEF ConvInv
<1>10. CASE sender.phase = "eof"
  <2> DEFINE x == Zm!Hdr("ZEOF", FileBlocks)
  <2>0. x \in Line /\ toRx' = <<x>> /\ Tag(x) = "ZEOF" /\ x.pos = FileBlocks
    BY <1>1, <1>6, <1>10
  <2> HIDE DEF x
  <2>1. <<x>> \in Seq(Line) /\ toRx' = toRx \o <<x>> /\ sender.phase \in Sending /\ Tag(x) \in Pieces
    BY <1>5, <1>6, <1>10, <2>0, Kinds
  <2>2. Sound(x, sender.file, filing)
    BY <2>0 DEF Sound
  <2>3. /\ \A i \in 1..Len(<<x>>) : Sound(<<x>>[i], sender.file, filing)
        /\ All(<<x>>, Pieces)
    BY <2>0, <2>1, <2>2, OneKinds, AllOne
  <2>4. Requests'
    BY <1>2, <1>3, <2>1, <2>3, SendsPieces
  <2> QED BY <1>3, <1>4, <1>7, <2>4 DEF ConvInv
<1>11. CASE sender.phase = "fin"
  <2>1. toRx' = toRx \o <<Zm!Hdr("ZFIN", 0)>>
    BY <1>1, <1>5, <1>6, <1>11
  <2>2. filing = 0
    BY <1>3, <1>11, Kinds DEF Conversation
  <2>3. Requests'
    BY <1>2, <1>3, <1>11, <2>1, <2>2, SendsFin
  <2> QED BY <1>3, <1>4, <1>7, <2>3 DEF ConvInv
<1> QED BY <1>1, <1>8, <1>9, <1>10, <1>11

\* ... and when the receiver has waited too long.
LEMMA TickSound ==
  ASSUME ZTyped, ConvInv, KeptFirst, Zm!Tick
  PROVE  KeptFirst' /\ (zstate' = "active" => ConvInv')
<1>1. UNCHANGED <<ps, role, sender, toRx>>
  BY DEF Zm!Tick
<1>2. CASE Zm!Finish("failed")
  BY <1>2 DEF Zm!Finish, KeptFirst
<1>3. CASE ~ Zm!Spent /\ Zm!Reply(rep) /\ Zm!Going
  <2>1. UNCHANGED <<filing, content, kept>>
    BY <1>3 DEF Zm!Going
  <2>2. rep \in Seq(Header) /\ rep # <<>>
    BY <1>3 DEF Zm!Spent, ZTyped
  <2>3. toTx' = toTx \o rep /\ rep' = <<rep[Len(rep)]>>
    BY <1>3, <2>2, ReplyKept
  <2>4. Replies'
    BY <1>1, <2>1, <2>2, <2>3, RepliesMore DEF ConvInv, Replies
  <2>5. Conversation' /\ Written' /\ KeptFirst'
    BY <1>1, <2>1, SameConversation DEF ConvInv, Written, KeptFirst
  <2>6. Requests'
    BY <1>1, <2>1 DEF ConvInv, Requests
  <2>7. Stream' /\ Reads'
    BY <1>1, <2>1 DEF ConvInv, Stream, Reads
  <2> QED BY <2>4, <2>5, <2>6, <2>7 DEF ConvInv
<1> QED BY <1>2, <1>3 DEF Zm!Tick

\* FaultlessInv is inductive.
LEMMA FaultlessStep ==
  ASSUME ZTyped, FaultlessInv, [Zm!Next]_zmVars
  PROVE  FaultlessInv'
<1> SUFFICES ASSUME faults' = 0 PROVE KeptFirst' /\ (zstate' = "active" => ConvInv')
  BY DEF FaultlessInv
<1>0. faults \in Nat
  BY DEF ZTyped
<1>1. CASE Zm!Feed
  <2>1. faults = 0 /\ zstate = "active"
    <3>1. faults' \in {faults, faults + 1} /\ zstate = "active"
      BY <1>1, FeedCases DEF Quietly, Replied, Opened, Refused, Completed, Added, Zm!DataWritten, Broken, Ended
    <3> QED BY <1>0, <3>1
  <2> QED BY <1>1, <2>1, FeedSound DEF FaultlessInv
<1>2. CASE Zm!Tick
  <2>1. faults = 0 /\ zstate = "active"
    BY <1>2 DEF Zm!Tick
  <2> QED BY <1>2, <2>1, TickSound DEF FaultlessInv
<1>3. CASE Zm!Cancel
  BY <1>3 DEF Zm!Cancel, Zm!Finish, FaultlessInv, KeptFirst
<1>4. CASE Zm!SenderHears
  <2>1. faults = 0 /\ ReceiverRests
    BY <1>4 DEF Zm!SenderHears, ReceiverRests
  <2> QED BY <1>4, <2>1, HearsSound, RestsSound DEF FaultlessInv
<1>5. CASE Zm!SenderSends
  <2>1. faults = 0 /\ ReceiverRests
    BY <1>5 DEF Zm!SenderSends, ReceiverRests
  <2> QED BY <1>5, <2>1, SendsSound, RestsSound DEF FaultlessInv
<1>6. CASE Zm!SenderRepeats
  <2>1. faults = 0 /\ ReceiverRests
    BY <1>6 DEF Zm!SenderRepeats, ReceiverRests
  <2> QED BY <1>6, <2>1, RepeatsSound, RestsSound DEF FaultlessInv
<1>7. CASE UNCHANGED zmVars
  <2>1. /\ UNCHANGED <<zstate, ps, role, filing, content, kept, rep, sender, toRx, toTx, faults>>
    BY <1>7 DEF zmVars
  <2>2. KeptFirst => KeptFirst'
    BY <2>1 DEF KeptFirst
  <2>3. Conversation /\ Replies => Conversation' /\ Replies'
    BY <2>1, SameConversation, RepliesSame
  <2>4. Requests => Requests'
    BY <2>1 DEF Requests
  <2>5. Stream /\ Reads /\ Written => Stream' /\ Reads' /\ Written'
    BY <2>1 DEF Stream, Reads, Written
  <2> QED BY <2>1, <2>2, <2>3, <2>4, <2>5 DEF FaultlessInv, ConvInv
<1>8. CASE Zm!SenderStops
  BY <1>8, StopEnds DEF FaultlessInv, KeptFirst
<1> QED BY <1>1, <1>2, <1>3, <1>4, <1>5, <1>6, <1>7, <1>8 DEF Zm!Next

\* It holds at the beginning.
LEMMA FaultlessInit ==
  ASSUME Zm!Init
  PROVE  ZTyped /\ FaultlessInv
<1>1. /\ zstate = "active" /\ ps = "hdr" /\ role = "none" /\ filing = 0 /\ content = <<>> /\ kept = <<>>
      /\ rep = <<>> /\ toTx = <<>> /\ toRx = <<Zm!Hdr("ZRQINIT", 0)>>
      /\ sender = [phase |-> "start", file |-> 1, pos |-> 0, from |-> 0]
      /\ damage = 0 /\ stalls = 0 /\ faults = 0
  BY DEF Zm!Init
<1>2. sender \in SenderStates /\ sender.phase = "start" /\ sender.file = 1
  BY <1>1, FilesAssumption DEF SenderStates, Asking
<1> DEFINE x == Zm!Hdr("ZRQINIT", 0)
<1>3. x \in Line /\ Tag(x) = "ZRQINIT" /\ Fresh(x)
  BY Made DEF Types, Fresh
<1>4. toRx = <<x>>
  BY <1>1
<1> HIDE DEF x
<1>5. /\ toRx \in Seq(Line) /\ Len(toRx) = 1 /\ toRx[1] = x /\ All(toRx, {"ZRQINIT"})
      /\ 1..Len(toRx) = {1}
  BY <1>3, <1>4, OneKinds
<1>6. ZTyped
  <2>1. <<>> \in Seq(Header) /\ <<>> \in Seq(Nat \X Nat) /\ <<>> \in Seq(Seq(Nat \X Nat))
    OBVIOUS
  <2> QED BY <1>1, <1>2, <1>5, <2>1 DEF ZTyped
<1>7. KeptFirst
  <2>1. Len(kept) = 0 /\ [i \in 1..0 |-> Zm!Whole(i)] = <<>>
    BY <1>1
  <2> QED BY <1>1, <2>1, FilesAssumption DEF KeptFirst
<1>8. Conversation /\ Written /\ Reads
  <2>1. Len(kept) = 0
    BY <1>1
  <2> QED BY <1>1, <1>2, <2>1, Kinds DEF Conversation, Written, Reads
<1>9. Replies
  <2>1. \A S, T : All(<<>>, S) /\ NoneAfter(<<>>, S, T)
    BY DEF All, NoneAfter
  <2> QED BY <1>1, <2>1 DEF Replies
<1>10. Requests
  <2>1. Sound(x, sender.file, filing)
    BY <1>3 DEF Sound
  <2>2. \A i \in 1..Len(toRx) : Tag(toRx[i]) = "ZRQINIT"
    BY <1>5 DEF All
  <2>3. NoneAfter(toRx, Offers, Pieces) /\ NoneAfter(toRx, {"file"}, {"ZRQINIT"})
    BY <2>2, Kinds DEF NoneAfter
  <2>4. All(toRx, Offers) /\ All(toRx, Offers \cup Pieces)
    BY <1>5, Kinds
  <2> QED BY <1>1, <1>2, <1>5, <2>1, <2>3, <2>4, Kinds DEF Requests
<1>11. Stream
  BY <1>2, <1>3, <1>5 DEF Stream
<1> QED BY <1>6, <1>7, <1>8, <1>9, <1>10, <1>11 DEF FaultlessInv, ConvInv

(* Two who take turns.                                                     *)

\* The kind of a frame by its tag.
LEMMA KindOf ==
  ASSUME NEW f \in Line
  PROVE  /\ Tag(f) \in {"data", "file"} <=> f.kind = "sub"
         /\ Tag(f) \in Types <=> f.kind = "hdr"
         /\ f.kind = "hdr" => Tag(f) = f.type
         /\ f.kind = "sub" => Tag(f) = f.what
BY OnLine DEF Types

\* One frame on the line.
LEMMA OneFrame ==
  ASSUME NEW S, NEW x \in S
  PROVE  /\ <<x>> \in Seq(S) /\ <<x>> # <<>> /\ Len(<<x>>) = 1 /\ <<x>>[1] = x
         /\ Tail(<<x>>) = <<>> /\ Head(<<x>>) = x
         /\ <<>> \o <<x>> = <<x>> /\ Append(<<>>, x) = <<x>> /\ <<x>> \o <<>> = <<x>>
<1>1. /\ <<x>> \in Seq(S) /\ <<x>> # <<>> /\ Len(<<x>>) = 1 /\ <<x>>[1] = x
      /\ Tail(<<x>>) = <<>> /\ Head(<<x>>) = x
  OBVIOUS
<1>2. <<>> \o <<x>> = <<x>> /\ <<x>> \o <<>> = <<x>>
  BY <1>1, ConcatEmptySeq
<1>3. Append(<<>>, x) = <<x>>
  OBVIOUS
<1> QED BY <1>1, <1>2, <1>3

\* A good header is accepted, and so ...
LEMMA GoodHeader ==
  ASSUME NEW f, f.kind = "hdr", ps = "hdr", Zm!Good(f)
  PROVE  /\ UNCHANGED faults
         /\ f.type = "ZRQINIT" => Zm!AcceptRqinit
         /\ f.type = "ZFILE" => Zm!AcceptFile
         /\ f.type = "ZDATA" => Zm!AcceptData(f.pos)
         /\ f.type = "ZEOF" => Zm!AcceptEof(f.pos)
         /\ f.type = "ZFIN" => Zm!AcceptFin
BY DEF Zm!Good, Zm!AcceptHeader

\* ... subpackets are accepted.
LEMMA GoodSub ==
  ASSUME NEW f, f.kind = "sub", ps = "sub", Zm!Good(f)
  PROVE  Zm!AcceptSub(f)
BY DEF Zm!Good

\* An undamaged frame is good.
LEMMA FeedUndamaged ==
  ASSUME ZTyped, Zm!Feed, damage' = damage
  PROVE  /\ zstate = "active" /\ toRx # <<>> /\ toRx[1] \in Line /\ toRx' = Tail(toRx) /\ sender' = sender
         /\ Zm!Good(toRx[1]) /\ toRx \in Seq(Line) /\ toTx \in Seq(Header)
<1> DEFINE f == Head(toRx)
<1>1. /\ zstate = "active" /\ toRx # <<>> /\ f = toRx[1] /\ f \in Line /\ toRx' = Tail(toRx)
      /\ UNCHANGED <<sender, stalls>> /\ Zm!Good(f)
  BY FeedCases
<1> QED BY <1>1 DEF ZTyped

\* The only reply on its way.
LEMMA ReplyTo ==
  ASSUME NEW t \in Types, NEW n \in Nat, toTx = <<>>, Zm!Reply(<<Zm!Hdr(t, n)>>)
  PROVE  toTx' = <<Zm!Hdr(t, n)>>
<1>1. Zm!Hdr(t, n) \in Header
  BY Made
<1>2. toTx' = <<>> \o <<Zm!Hdr(t, n)>>
  BY DEF Zm!Reply
<1> QED BY <1>1, <1>2, OneFrame

\* A whole file names itself in its first block.
LEMMA WholeFirst ==
  ASSUME NEW f \in Nat
  PROVE  Zm!Whole(f)[1][1] = f
BY FilesAssumption DEF Zm!Whole

\* Files of the first n are of the first m.
LEMMA IncreasingMore ==
  ASSUME NEW q, NEW n \in Nat, NEW m \in Nat, n <= m, Increasing(q, n)
  PROVE  Increasing(q, m)
<1>1. 1..n \subseteq 1..m
  OBVIOUS
<1> QED BY <1>1 DEF Increasing

\* The next file is kept.
LEMMA IncreasingNext ==
  ASSUME ZTyped, NEW n \in Nat, n # 0, Increasing(kept, n - 1), kept' = Append(kept, Zm!Whole(n))
  PROVE  Increasing(kept', n)
<1>1. /\ kept \in Seq(Seq(Nat \X Nat)) /\ Len(kept) \in Nat /\ n - 1 \in Nat
      /\ Len(kept') = Len(kept) + 1
      /\ \A i \in 1..Len(kept') : kept'[i] = IF i \in 1..Len(kept) THEN kept[i] ELSE Zm!Whole(n)
  BY DEF ZTyped
<1>2. \A i \in 1..Len(kept) : \E f \in 1..n - 1 : kept[i] = Zm!Whole(f)
  BY DEF Increasing
<1>3. \A i \in 1..Len(kept') : \E f \in 1..n : kept'[i] = Zm!Whole(f)
  <2>1. 1..n - 1 \subseteq 1..n /\ n \in 1..n
    OBVIOUS
  <2> QED BY <1>1, <1>2, <2>1
<1>4. \A i \in 1..Len(kept) : kept[i][1][1] \in Nat /\ kept[i][1][1] < n
  <2> SUFFICES ASSUME NEW i \in 1..Len(kept) PROVE kept[i][1][1] \in Nat /\ kept[i][1][1] < n
    OBVIOUS
  <2>1. PICK f \in 1..n - 1 : kept[i] = Zm!Whole(f)
    BY <1>2
  <2> QED BY <2>1, WholeFirst
<1>5. Zm!Whole(n)[1][1] = n
  BY WholeFirst
<1>6. ASSUME NEW i \in 1..Len(kept'), NEW j \in 1..Len(kept'), i < j
      PROVE  kept'[i][1][1] < kept'[j][1][1]
  <2>1. i \in 1..Len(kept) /\ kept'[i] = kept[i]
    BY <1>1, <1>6
  <2>2. CASE j \in 1..Len(kept)
    BY <1>1, <1>6, <2>1, <2>2 DEF Increasing
  <2>3. CASE j \notin 1..Len(kept)
    BY <1>1, <1>4, <1>5, <2>1, <2>3
  <2> QED BY <2>2, <2>3
<1> QED BY <1>3, <1>6 DEF Increasing

\* What is on the line after its first frame, in flight.
LEMMA FlightLess ==
  ASSUME ZTyped, InFlight, toRx # <<>>, toRx' = Tail(toRx), sender' = sender
  PROVE  /\ \A i \in 1..Len(toRx') : Piece(toRx'[i], sender.file)
         /\ \A i, j \in 1..Len(toRx') : j = i + 1 => Follows(toRx'[i], toRx'[j])
         /\ toRx' # <<>> => Follows(toRx[1], toRx'[1])
         /\ Piece(toRx[1], sender.file) /\ toRx[1] \in Line
         /\ toRx' # <<>> => toRx'[Len(toRx')] = toRx[Len(toRx)]
         /\ toRx' = <<>> => toRx[1] = toRx[Len(toRx)]
<1>1. /\ toRx' \in Seq(Line) /\ Len(toRx') = Len(toRx) - 1 /\ Len(toRx) \in Nat \ {0}
      /\ \A i \in 1..Len(toRx') : i + 1 \in 1..Len(toRx) /\ i \in 1..Len(toRx)
                                  /\ toRx'[i] = toRx[i + 1]
      /\ toRx[1] \in Line
  BY TailOf DEF ZTyped
<1>2. \A i, j \in 1..Len(toRx') : j = i + 1 => Follows(toRx'[i], toRx'[j])
  <2> SUFFICES ASSUME NEW i \in 1..Len(toRx'), NEW j \in 1..Len(toRx'), j = i + 1
               PROVE  Follows(toRx'[i], toRx'[j])
    OBVIOUS
  <2>1. i + 1 \in 1..Len(toRx) /\ j + 1 \in 1..Len(toRx) /\ j + 1 = (i + 1) + 1
        /\ toRx'[i] = toRx[i + 1] /\ toRx'[j] = toRx[j + 1]
    BY <1>1
  <2> QED BY <2>1 DEF InFlight
<1>3. /\ \A i \in 1..Len(toRx') : Piece(toRx'[i], sender.file)
      /\ Piece(toRx[1], sender.file)
  <2>1. 1 \in 1..Len(toRx)
    BY <1>1
  <2> QED BY <1>1, <2>1 DEF InFlight
<1>4. ASSUME toRx' # <<>> PROVE Follows(toRx[1], toRx'[1]) /\ toRx'[Len(toRx')] = toRx[Len(toRx)]
  <2>1. Len(toRx') \in 1..Len(toRx') /\ 1 \in 1..Len(toRx') /\ Len(toRx') + 1 = Len(toRx)
    BY <1>1, <1>4
  <2>2. toRx'[Len(toRx')] = toRx[Len(toRx)] /\ toRx'[1] = toRx[2] /\ 1 \in 1..Len(toRx) /\ 2 \in 1..Len(toRx)
    BY <1>1, <2>1
  <2>3. Follows(toRx[1], toRx[2])
    BY <2>2 DEF InFlight
  <2> QED BY <2>2, <2>3
<1>5. toRx' = <<>> => toRx[1] = toRx[Len(toRx)]
  <2>1. toRx' = <<>> => Len(toRx') = 0
    BY <1>1, EmptySeq
  <2> QED BY <1>1, <2>1
<1> QED BY <1>1, <1>2, <1>3, <1>4, <1>5

\* ... and with one more at the end.
LEMMA FlightMore ==
  ASSUME ZTyped, InFlight, NEW x \in Line, toRx' = Append(toRx, x), Piece(x, sender.file),
         toRx # <<>> => Follows(toRx[Len(toRx)], x),
         toRx = <<>> => Ready(x, ps, Len(content)),
         ReceiverRests, sender'.file = sender.file
  PROVE  InFlight' /\ toRx' # <<>> /\ toRx'[Len(toRx')] = x
<1>1. /\ toRx' \in Seq(Line) /\ Len(toRx') = Len(toRx) + 1 /\ Len(toRx) \in Nat
      /\ \A i \in 1..Len(toRx') : toRx'[i] = IF i \in 1..Len(toRx) THEN toRx[i] ELSE x
  BY DEF ZTyped
<1>2. toRx' # <<>> /\ toRx'[Len(toRx')] = x
  BY <1>1
<1>3. \A i \in 1..Len(toRx') : Piece(toRx'[i], sender.file)
  BY <1>1 DEF InFlight
<1>4. \A i, j \in 1..Len(toRx') : j = i + 1 => Follows(toRx'[i], toRx'[j])
  <2> SUFFICES ASSUME NEW i \in 1..Len(toRx'), NEW j \in 1..Len(toRx'), j = i + 1
               PROVE  Follows(toRx'[i], toRx'[j])
    OBVIOUS
  <2>1. i \in 1..Len(toRx) /\ toRx'[i] = toRx[i]
    BY <1>1
  <2>2. CASE j \in 1..Len(toRx)
    BY <1>1, <2>1, <2>2 DEF InFlight
  <2>3. CASE j \notin 1..Len(toRx)
    <3>1. toRx'[j] = x /\ i = Len(toRx) /\ toRx # <<>>
      BY <1>1, <2>1, <2>3
    <3> QED BY <2>1, <3>1
  <2> QED BY <2>2, <2>3
<1>5. Ready(toRx'[1], ps, Len(content))
  <2>1. CASE toRx = <<>>
    <3>1. toRx'[1] = x
      BY <1>1, <2>1
    <3> QED BY <2>1, <3>1
  <2>2. CASE toRx # <<>>
    <3>1. toRx'[1] = toRx[1]
      BY <1>1, <2>2
    <3> QED BY <2>2, <3>1 DEF InFlight
  <2> QED BY <2>1, <2>2
<1> QED BY <1>2, <1>3, <1>4, <1>5 DEF InFlight, ReceiverRests, Written

\* The file in flight: a block, its header, its end.
LEMMA StreamsFeed ==
  ASSUME ZTyped, Streams, Zm!Feed, damage' = damage
  PROVE  \/ kept' = kept /\ zstate' # "active"
         \/ kept' = kept /\ Streams'
         \/ kept' = Append(kept, Zm!Whole(sender.file)) /\ filing' = 0 /\ ps' = "hdr" /\ sender.phase = "eof"
            /\ toRx' = <<>> /\ toTx' = <<Zm!Hdr("ZRINIT", 0)>> /\ sender' = sender
<1> DEFINE f == toRx[1]
<1>1. /\ zstate = "active" /\ toRx # <<>> /\ f \in Line /\ toRx' = Tail(toRx) /\ sender' = sender
      /\ Zm!Good(f) /\ toRx \in Seq(Line) /\ toTx \in Seq(Header)
  BY FeedUndamaged
<1>2. /\ sender.phase \in Sending /\ Increasing(kept, sender.file - 1) /\ InFlight /\ toTx = <<>>
      /\ LastSent(toRx[Len(toRx)], sender)
  BY <1>1 DEF Streams, CaughtUp
<1>3. /\ \A i \in 1..Len(toRx') : Piece(toRx'[i], sender.file)
      /\ \A i, j \in 1..Len(toRx') : j = i + 1 => Follows(toRx'[i], toRx'[j])
      /\ toRx' # <<>> => Follows(f, toRx'[1])
      /\ Piece(f, sender.file)
      /\ toRx' # <<>> => LastSent(toRx'[Len(toRx')], sender)
      /\ toRx' = <<>> => LastSent(f, sender)
  BY <1>1, <1>2, FlightLess
<1>4. /\ Tag(f) \in {"ZDATA", "ZEOF", "data"}
      /\ Tag(f) = "data" <=> f.kind = "sub"
      /\ Tag(f) \in {"ZDATA", "ZEOF"} <=> f.kind = "hdr"
      /\ f.kind = "hdr" => Tag(f) = f.type /\ f.pos \in Nat
      /\ f.kind = "sub" => f.block \in Nat /\ f.file \in Nat /\ f.end \in {"W", "G", "E"}
  BY <1>1, <1>3, Kinds, KindOf, OnLine DEF Piece, Types
<1>5. /\ filing = sender.file /\ filing # 0 /\ Written /\ ps \in {"hdr", "sub"} /\ (ps = "sub" => role = "data")
      /\ Ready(f, ps, Len(content)) /\ Len(content) \in Nat /\ sender.pos \in Nat
      /\ sender.file \in 1..Files /\ sender.file \in Nat
  BY <1>1, <1>2, SenderTyped DEF InFlight, ZTyped
<1> HIDE DEF f
<1>6. ASSUME kept' = kept, filing' = filing, Written', ps' \in {"hdr", "sub"}, ps' = "sub" => role' = "data",
             toRx' # <<>> => Ready(toRx'[1], ps', Len(content')) /\ toTx' = <<>>,
             toRx' = <<>> =>
               /\ Len(content') = sender.pos
               /\ \/ sender.phase = "data" /\ (ps' = "hdr" <=> sender.pos = FileBlocks) /\ toTx' = <<>>
                  \/ sender.phase = "ack" /\ ps' = "hdr" /\ toTx' = <<Zm!Hdr("ZACK", sender.pos)>>
      PROVE  Streams'
  <2>1. Increasing(kept', sender'.file - 1)
    BY <1>1, <1>2, <1>6
  <2>2. InFlight'
    BY <1>1, <1>3, <1>5, <1>6 DEF InFlight
  <2>3. toRx' = <<>> => CaughtUp'
    BY <1>1, <1>6 DEF CaughtUp
  <2>4. toRx' # <<>> => toTx' = <<>> /\ LastSent(toRx'[Len(toRx')], sender')
    BY <1>1, <1>3, <1>6
  <2> QED BY <1>1, <1>2, <2>1, <2>2, <2>3, <2>4 DEF Streams
<1>7. CASE Tag(f) = "ZDATA"
  <2>1. f.kind = "hdr" /\ ps = "hdr" /\ f.type = "ZDATA" /\ f.pos = Len(content)
    BY <1>4, <1>5, <1>7 DEF Ready
  <2>2. Zm!AcceptData(f.pos) /\ UNCHANGED faults
    BY <1>1, <2>1, GoodHeader
  <2>3. UNCHANGED <<filing, content, kept, toTx>> /\ ps' = "sub" /\ role' = "data"
    BY <1>5, <2>1, <2>2 DEF Zm!AcceptData, Zm!Quiet, Zm!Going
  <2>4. toRx' # <<>> => Ready(toRx'[1], "sub", Len(content'))
    BY <1>3, <1>7, <2>1, <2>3 DEF Follows
  <2>5. toRx' = <<>> => sender.phase = "data" /\ Len(content') = sender.pos /\ sender.pos # FileBlocks
    BY <1>3, <1>7, <2>1, <2>3 DEF LastSent
  <2>6. Written'
    BY <1>5, <2>3 DEF Written
  <2> QED BY <1>2, <1>6, <2>3, <2>4, <2>5, <2>6
<1>8. CASE Tag(f) = "data"
  <2>1. f.kind = "sub" /\ ps = "sub" /\ role = "data" /\ f.block = Len(content) + 1 /\ f.file = filing /\ f.block # 0
    BY <1>3, <1>4, <1>5, <1>8 DEF Ready, Piece
  <2>2. Zm!AcceptSub(f)
    BY <1>1, <2>1, GoodSub
  <2>3. Zm!DataWritten(f) \/ Zm!WriteFails(f)
    BY <1>5, <2>1, <2>2 DEF Zm!AcceptSub
  <2>4. CASE Zm!WriteFails(f)
    BY <2>4 DEF Zm!WriteFails, Zm!Finish
  <2>5. CASE Zm!DataWritten(f)
    <3>1. Added(f)
      BY <1>5, <2>1, <2>5 DEF Added
    <3>2. Written' /\ Len(content') = f.block
      BY <1>1, <1>5, <2>1, <3>1, NewWritten
    <3>3. /\ UNCHANGED <<filing, kept, role>> /\ ps' = IF f.end = "G" THEN "sub" ELSE "hdr"
          /\ IF f.end = "W" THEN Zm!Reply(<<Zm!Hdr("ZACK", Len(content'))>>) ELSE Zm!Quiet
      BY <2>5 DEF Zm!DataWritten
    <3>4. f.end # "W" => toTx' = <<>>
      BY <1>2, <3>3 DEF Zm!Quiet
    <3>5. f.end = "W" => toTx' = <<Zm!Hdr("ZACK", Len(content'))>>
      <4>1. Len(content') \in Nat /\ "ZACK" \in Types
        BY <1>4, <2>1, <3>2 DEF Types
      <4> QED BY <1>2, <3>3, <4>1, ReplyTo
    <3>6. toRx' # <<>> => f.end # "W" /\ Ready(toRx'[1], ps', Len(content'))
      BY <1>3, <1>8, <3>2, <3>3 DEF Follows
    <3>7. toRx' = <<>> =>
            /\ Len(content') = sender.pos
            /\ \/ sender.phase = "data" /\ f.end = IF sender.pos = FileBlocks THEN "E" ELSE "G"
               \/ sender.phase = "ack" /\ f.end = "W"
      BY <1>3, <1>8, <3>2 DEF LastSent
    <3>8. ps' = "hdr" <=> f.end # "G"
      BY <3>3
    <3> QED BY <1>6, <2>1, <3>2, <3>3, <3>4, <3>5, <3>6, <3>7, <3>8
  <2> QED BY <2>3, <2>4, <2>5
<1>9. CASE Tag(f) = "ZEOF"
  <2>1. f.kind = "hdr" /\ ps = "hdr" /\ f.type = "ZEOF" /\ f.pos = Len(content) /\ Len(content) = FileBlocks
    BY <1>3, <1>4, <1>5, <1>9 DEF Ready, Piece
  <2>2. Zm!AcceptEof(f.pos)
    BY <1>1, <2>1, GoodHeader
  <2>3. kept' = Append(kept, content) /\ filing' = 0 /\ Zm!Reply(<<Zm!Hdr("ZRINIT", 0)>>) /\ ps' = "hdr"
    BY <1>5, <2>1, <2>2 DEF Zm!AcceptEof, Zm!Hunting
  <2>4. content = Zm!Whole(sender.file)
    BY <1>5, <2>1 DEF Written, Zm!Whole
  <2>5. toTx' = <<Zm!Hdr("ZRINIT", 0)>>
    BY <1>2, <2>3, ReplyTo DEF Types
  <2>6. toRx' = <<>>
    BY <1>3, <1>9 DEF Follows
  <2>7. sender.phase = "eof"
    BY <1>3, <1>9, <2>6 DEF LastSent
  <2> QED BY <1>1, <2>3, <2>4, <2>5, <2>6, <2>7
<1> QED BY <1>4, <1>7, <1>8, <1>9

\* The two take turns: the receiver,
LEMMA FeedInStep ==
  ASSUME ZTyped, InStep, Increasing(kept, Files), Zm!Feed, damage' = damage
  PROVE  Increasing(kept', Files) /\ (zstate' = "active" => InStep')
<1> DEFINE f == toRx[1]
<1>1. /\ zstate = "active" /\ toRx # <<>> /\ f \in Line /\ toRx' = Tail(toRx) /\ sender' = sender
      /\ Zm!Good(f) /\ toRx \in Seq(Line) /\ toTx \in Seq(Header)
  BY FeedUndamaged
<1>2. /\ sender.file \in 1..Files /\ sender.file \in Nat /\ Files \in Nat
      /\ Zm!Hdr("ZRQINIT", 0) \in Line /\ Zm!Hdr("ZFIN", 0) \in Line /\ Zm!Hdr("ZFILE", 0) \in Line
      /\ Zm!FileSub(sender.file) \in Line
  BY SenderTyped, FilesAssumption, Made DEF Types
<1>3. CASE Begins
  <2>1. /\ sender.phase = "start" /\ sender.file = 1 /\ kept = <<>> /\ filing = 0 /\ ps = "hdr"
        /\ toRx = <<Zm!Hdr("ZRQINIT", 0)>> /\ toTx = <<>>
    BY <1>1, <1>3 DEF Begins
  <2>2. f = Zm!Hdr("ZRQINIT", 0) /\ toRx' = <<>>
    BY <1>1, <1>2, <2>1, OneFrame
  <2>3. f.kind = "hdr" /\ f.type = "ZRQINIT"
    BY <2>2 DEF Zm!Hdr
  <2>4. Zm!AcceptRqinit
    BY <1>1, <2>1, <2>3, GoodHeader
  <2>5. UNCHANGED <<filing, kept>> /\ ps' = "hdr" /\ Zm!Reply(<<Zm!Hdr("ZRINIT", 0)>>)
    BY <2>4 DEF Zm!AcceptRqinit, Zm!Going
  <2>6. toTx' = <<Zm!Hdr("ZRINIT", 0)>>
    BY <2>1, <2>5, ReplyTo DEF Types
  <2>7. Begins'
    BY <1>1, <2>1, <2>2, <2>5, <2>6 DEF Begins
  <2> QED BY <2>5, <2>7 DEF InStep
<1>4. CASE Names
  <2>1. sender.phase = "name" /\ Increasing(kept, sender.file - 1)
        /\ \/ toTx = <<>> /\ toRx = Zm!Announce(sender.file) /\ ps = "hdr" /\ filing = 0
           \/ /\ toTx = <<>> /\ toRx = <<Zm!FileSub(sender.file)>>
              /\ ps = "sub" /\ role = "file" /\ filing = 0
    BY <1>1, <1>4 DEF Names
  <2>2. CASE toTx = <<>> /\ toRx = Zm!Announce(sender.file) /\ ps = "hdr" /\ filing = 0
    <3>1. f = Zm!Hdr("ZFILE", 0) /\ toRx' = <<Zm!FileSub(sender.file)>>
      BY <1>1, <1>2, <2>2 DEF Zm!Announce
    <3>2. f.kind = "hdr" /\ f.type = "ZFILE"
      BY <3>1 DEF Zm!Hdr
    <3>3. Zm!AcceptFile
      BY <1>1, <2>2, <3>2, GoodHeader
    <3>4. UNCHANGED <<filing, kept, toTx>> /\ ps' = "sub" /\ role' = "file"
      BY <3>3 DEF Zm!AcceptFile, Zm!Going, Zm!Quiet
    <3>5. Increasing(kept', sender'.file - 1)
      BY <1>1, <2>1, <3>4
    <3>6. Names'
      BY <1>1, <2>1, <2>2, <3>1, <3>4, <3>5 DEF Names
    <3> QED BY <3>4, <3>6 DEF InStep
  <2>3. CASE toTx = <<>> /\ toRx = <<Zm!FileSub(sender.file)>> /\ ps = "sub" /\ role = "file" /\ filing = 0
    <3>1. f = Zm!FileSub(sender.file) /\ toRx' = <<>>
      BY <1>1, <1>2, <2>3, OneFrame
    <3>2. f.kind = "sub" /\ f.file = sender.file
      BY <3>1 DEF Zm!FileSub
    <3>3. Zm!FileReady(f.file)
      <4>1. Zm!AcceptSub(f)
        BY <1>1, <2>3, <3>2, GoodSub
      <4> QED BY <2>3, <4>1 DEF Zm!AcceptSub
    <3>4. /\ ps' = "hdr" /\ kept' = kept /\ content' = <<>>
          /\ \/ filing' = sender.file /\ Zm!Reply(<<Zm!Hdr("ZRPOS", 0)>>)
             \/ filing' = 0 /\ Zm!Reply(<<Zm!Hdr("ZSKIP", 0)>>)
      BY <3>2, <3>3 DEF Zm!FileReady, Zm!Hunting
    <3>5. Increasing(kept', sender'.file - 1)
      BY <1>1, <2>1, <3>4
    <3>6. \/ filing' = sender.file /\ toTx' = <<Zm!Hdr("ZRPOS", 0)>>
          \/ filing' = 0 /\ toTx' = <<Zm!Hdr("ZSKIP", 0)>>
      BY <2>3, <3>4, ReplyTo DEF Types
    <3>7. Names'
      BY <1>1, <2>1, <3>1, <3>4, <3>5, <3>6 DEF Names
    <3> QED BY <3>4, <3>7 DEF InStep
  <2> QED BY <2>1, <2>2, <2>3
<1>5. CASE Streams
  <2>1. CASE kept' = kept /\ zstate' # "active"
    BY <2>1
  <2>2. CASE kept' = kept /\ Streams'
    BY <2>2 DEF InStep
  <2>3. CASE kept' = Append(kept, Zm!Whole(sender.file)) /\ filing' = 0 /\ ps' = "hdr" /\ sender.phase = "eof"
            /\ toRx' = <<>> /\ toTx' = <<Zm!Hdr("ZRINIT", 0)>> /\ sender' = sender
    <3>1. Increasing(kept', sender.file)
      <4>1. sender.file # 0 /\ Increasing(kept, sender.file - 1)
        BY <1>2, <1>5 DEF Streams
      <4> QED BY <1>2, <2>3, <4>1, IncreasingNext
    <3>2. Keeps'
      BY <2>3, <3>1 DEF Keeps
    <3>3. Increasing(kept', Files)
      BY <1>2, <2>3, <3>1, IncreasingMore
    <3> QED BY <3>2, <3>3 DEF InStep
  <2> QED BY <1>5, <2>1, <2>2, <2>3, StreamsFeed
<1>6. CASE Keeps
  BY <1>1, <1>6 DEF Keeps
<1>7. CASE Ends
  <2>1. filing = 0 /\ ps = "hdr" /\ toRx = <<Zm!Hdr("ZFIN", 0)>>
    BY <1>7 DEF Ends
  <2>2. f = Zm!Hdr("ZFIN", 0)
    BY <1>2, <2>1, OneFrame
  <2>3. f.kind = "hdr" /\ f.type = "ZFIN"
    BY <2>2 DEF Zm!Hdr
  <2>4. Zm!AcceptFin
    BY <1>1, <2>1, <2>3, GoodHeader
  <2>5. kept' = kept /\ zstate' # "active"
    BY <2>1, <2>4 DEF Zm!AcceptFin, Zm!Finish
  <2> QED BY <2>5
<1> QED BY <1>3, <1>4, <1>5, <1>6, <1>7 DEF InStep

\* A sender that goes on to the next file, or has none.
LEMMA NextFileStep ==
  ASSUME ZTyped, ReceiverRests, Increasing(kept, sender.file), ps = "hdr", filing = 0, toRx = <<>>, toTx' = <<>>,
         sender' = Zm!NextFile.state, toRx' = toRx \o Zm!NextFile.sends
  PROVE  Names' \/ Ends'
<1>0. kept' = kept /\ filing' = 0 /\ ps' = "hdr"
  BY DEF ReceiverRests
<1>1. sender.file \in Nat /\ Zm!Hdr("ZFIN", 0) \in Line
  BY SenderTyped, Made DEF Types
<1>2. CASE sender.file + 1 \in 1..Files
  <2> DEFINE t == [phase |-> "name", file |-> sender.file + 1, pos |-> 0, from |-> 0]
             a == Zm!Announce(sender.file + 1)
  <2>1. sender.file # Files
    BY <1>2, FilesAssumption
  <2>2. Zm!NextFile = [state |-> t, sends |-> a]
    BY <2>1, NextOne
  <2>3. t.phase = "name" /\ t.file = sender.file + 1
    OBVIOUS
  <2>4. a \in Seq(Line)
    BY <1>1, OfferMade
  <2> HIDE DEF t, a
  <2>5. sender' = t /\ toRx' = toRx \o a
    BY <2>2
  <2>6. toRx' = a
    BY <2>4, <2>5, ConcatEmptySeq
  <2>7. toRx' = Zm!Announce(sender'.file) /\ sender'.phase = "name" /\ sender'.file - 1 = sender.file
    BY <1>1, <2>3, <2>5, <2>6 DEF a
  <2> QED BY <1>0, <2>7 DEF Names
<1>3. CASE sender.file + 1 \notin 1..Files
  <2> DEFINE a == <<Zm!Hdr("ZFIN", 0)>>
  <2>1. Zm!NextFile = [state |-> Zm!To("fin"), sends |-> a]
    BY <1>3, NextOne
  <2>2. a \in Seq(Line)
    BY <1>1, OneFrame
  <2> HIDE DEF a
  <2>3. sender' = Zm!To("fin") /\ toRx' = toRx \o a
    BY <2>1
  <2>4. toRx' = a
    BY <2>2, <2>3, ConcatEmptySeq
  <2>5. sender'.phase = "fin"
    BY <2>3, SenderTyped
  <2> QED BY <1>0, <2>4, <2>5 DEF Ends, a
<1> QED BY <1>2, <1>3

\* ... the sender, which hears a reply,
LEMMA HearsInStep ==
  ASSUME ZTyped, InStep, Zm!SenderHears, damage' = damage
  PROVE  InStep'
<1> DEFINE h == Head(toTx)
           r == Zm!Reaction(h)
<1>1. /\ toTx # <<>> /\ toTx' = Tail(toTx) /\ ReceiverRests
      /\ sender' = r.state /\ toRx' = toRx \o r.sends
  BY DEF Zm!SenderHears, ReceiverRests, ZTyped
<1>2. UNCHANGED <<ps, role, filing, content, kept>>
  BY <1>1 DEF ReceiverRests
<1>3. /\ \A t \in Types, n \in Nat : /\ Zm!Hdr(t, n) \in Header
                                     /\ Zm!Hdr(t, n).type = t /\ Zm!Hdr(t, n).pos = n
      /\ \A x \in Header : Head(<<x>>) = x /\ Tail(<<x>>) = <<>>
      /\ sender.file \in 1..Files /\ sender.file \in Nat /\ sender.pos \in Nat
      /\ toRx \o <<>> = toRx
  <2>1. \A t \in Types, n \in Nat : /\ Zm!Hdr(t, n) \in Header
                                     /\ Zm!Hdr(t, n).type = t /\ Zm!Hdr(t, n).pos = n
    BY HdrMade
  <2>2. \A x \in Header : Head(<<x>>) = x /\ Tail(<<x>>) = <<>>
    BY OneFrame
  <2>3. toRx \o <<>> = toRx
    BY ConcatEmptySeq DEF ZTyped
  <2>4. sender.file \in 1..Files /\ sender.file \in Nat /\ sender.pos \in Nat
    BY SenderTyped
  <2> QED BY <2>1, <2>2, <2>3, <2>4
<1>4. ASSUME NEW a, NEW b, r = [state |-> a, sends |-> b] PROVE sender' = a /\ toRx' = toRx \o b
  <2>1. r.state = a /\ r.sends = b
    BY <1>4
  <2> QED BY <1>1, <2>1
<1>5. CASE Begins
  <2>1. /\ sender.phase = "start" /\ sender.file = 1 /\ kept = <<>> /\ filing = 0 /\ ps = "hdr"
        /\ toRx = <<>> /\ toTx = <<Zm!Hdr("ZRINIT", 0)>>
    BY <1>1, <1>5 DEF Begins
  <2>2. h.type = "ZRINIT" /\ toTx' = <<>>
    BY <1>1, <1>3, <2>1 DEF Types
  <2> DEFINE a == Zm!Announce(sender.file)
  <2>3. r = [state |-> Zm!To("name"), sends |-> a]
    BY <2>1, <2>2 DEF Zm!Reaction
  <2>4. a \in Seq(Line)
    BY <1>3, OfferMade
  <2> HIDE DEF a, r
  <2>5. sender' = Zm!To("name") /\ toRx' = toRx \o a
    BY <1>4, <2>3
  <2>6. sender'.phase = "name" /\ sender'.file = 1 /\ toRx' = a
    BY <2>1, <2>4, <2>5, SenderTyped, ConcatEmptySeq, Kinds
  <2>7. Increasing(kept', 0)
    <3>1. kept' = <<>> /\ Len(kept') = 0
      BY <1>2, <2>1
    <3> QED BY <3>1 DEF Increasing
  <2>8. toRx' = Zm!Announce(sender'.file) /\ sender'.file - 1 = 0
    BY <2>1, <2>6 DEF a
  <2> QED BY <1>2, <2>1, <2>2, <2>6, <2>7, <2>8 DEF Names, InStep
<1>6. CASE Names
  <2>1. /\ sender.phase = "name" /\ Increasing(kept, sender.file - 1) /\ toRx = <<>> /\ ps = "hdr"
        /\ \/ toTx = <<Zm!Hdr("ZRPOS", 0)>> /\ filing = sender.file /\ content = <<>>
           \/ toTx = <<Zm!Hdr("ZSKIP", 0)>> /\ filing = 0
    BY <1>1, <1>6 DEF Names
  <2>2. CASE toTx = <<Zm!Hdr("ZRPOS", 0)>> /\ filing = sender.file /\ content = <<>>
    <3>1. h.type = "ZRPOS" /\ h.pos = 0 /\ toTx' = <<>>
      BY <1>1, <1>3, <2>2 DEF Types
    <3>2. r = [state |-> Rewound(0), sends |-> <<>>]
      BY <2>1, <3>1 DEF Zm!Reaction, Rewound
    <3> HIDE DEF r
    <3>3. sender' = Rewound(0) /\ toRx' = toRx \o <<>>
      BY <1>4, <3>2, Zenon
    <3>4. sender'.phase = "head" /\ sender'.file = sender.file /\ sender'.pos = 0 /\ toRx' = <<>>
      BY <1>3, <2>1, <3>3, SenderTyped
    <3>5. Len(content') = 0 /\ content' = <<>> /\ Len(toRx') = 0
      BY <1>2, <2>2, <3>4
    <3>6. Written'
      <4>1. [b \in 1..0 |-> <<filing', b>>] = <<>>
        OBVIOUS
      <4> QED BY <3>5, <4>1 DEF Written
    <3>7. InFlight'
      BY <1>2, <2>1, <2>2, <3>4, <3>5, <3>6 DEF InFlight
    <3>8. CaughtUp'
      BY <1>2, <2>1, <3>1, <3>4, <3>5 DEF CaughtUp
    <3>9. Increasing(kept', sender'.file - 1)
      BY <1>2, <2>1, <3>4
    <3> QED BY <3>4, <3>7, <3>8, <3>9, Kinds DEF Streams, InStep
  <2>3. CASE toTx = <<Zm!Hdr("ZSKIP", 0)>> /\ filing = 0
    <3>1. h.type = "ZSKIP" /\ toTx' = <<>>
      BY <1>1, <1>3, <2>3 DEF Types
    <3>2. r = Zm!NextFile
      BY <2>1, <3>1 DEF Zm!Reaction
    <3>3. Increasing(kept, sender.file)
      BY <1>3, <2>1, IncreasingMore
    <3> QED BY <1>1, <2>1, <2>3, <3>1, <3>2, <3>3, NextFileStep DEF InStep
  <2> QED BY <2>1, <2>2, <2>3
<1>7. CASE Streams
  <2>1. /\ sender.phase = "ack" /\ ps = "hdr" /\ toTx = <<Zm!Hdr("ZACK", sender.pos)>>
        /\ toRx = <<>> /\ Len(content) = sender.pos /\ InFlight /\ Increasing(kept, sender.file - 1)
    BY <1>1, <1>7 DEF Streams, CaughtUp
  <2>2. h.type = "ZACK" /\ h.pos = sender.pos /\ toTx' = <<>>
    BY <1>1, <1>3, <2>1 DEF Types
  <2>3. r = [state |-> Zm!To("head"), sends |-> <<>>]
    BY <2>1, <2>2 DEF Zm!Reaction
  <2> HIDE DEF r
  <2>4. sender' = Zm!To("head") /\ toRx' = toRx \o <<>>
    BY <1>4, <2>3, Zenon
  <2>5. sender'.phase = "head" /\ sender'.file = sender.file /\ sender'.pos = sender.pos /\ toRx' = <<>>
    BY <1>3, <2>1, <2>4, SenderTyped, Kinds
  <2>6. InFlight'
    BY <1>2, <2>1, <2>5 DEF InFlight, Written
  <2>7. CaughtUp'
    BY <1>2, <2>1, <2>2, <2>5 DEF CaughtUp
  <2>8. Increasing(kept', sender'.file - 1)
    BY <1>2, <2>1, <2>5
  <2> QED BY <2>5, <2>6, <2>7, <2>8, Kinds DEF Streams, InStep
<1>8. CASE Keeps
  <2>1. /\ sender.phase = "eof" /\ Increasing(kept, sender.file)
        /\ toRx = <<>> /\ toTx = <<Zm!Hdr("ZRINIT", 0)>> /\ filing = 0 /\ ps = "hdr"
    BY <1>8 DEF Keeps
  <2>2. h.type = "ZRINIT" /\ toTx' = <<>>
    BY <1>1, <1>3, <2>1 DEF Types
  <2>3. r = Zm!NextFile
    BY <2>1, <2>2 DEF Zm!Reaction
  <2> QED BY <1>1, <2>1, <2>2, <2>3, NextFileStep DEF InStep
<1>9. CASE Ends
  BY <1>1, <1>9 DEF Ends
<1> QED BY <1>5, <1>6, <1>7, <1>8, <1>9 DEF InStep

\* ... and the sender, which sends what it may send unasked.
LEMMA SendsInStep ==
  ASSUME ZTyped, InStep, Zm!SenderSends
  PROVE  InStep'
<1>1. ReceiverRests /\ toTx' = toTx
  BY DEF Zm!SenderSends, ReceiverRests
<1>2. UNCHANGED <<ps, role, filing, content, kept>>
  BY <1>1 DEF ReceiverRests
<1>3. /\ sender.file \in Nat /\ sender.pos \in Nat /\ sender.from \in Nat /\ FileBlocks \in Nat
      /\ sender \in SenderStates
  BY SenderTyped, FilesAssumption DEF ZTyped
<1>4. /\ Streams /\ Increasing(kept, sender.file - 1) /\ InFlight /\ toTx = <<>>
      /\ \/ CaughtUp
         \/ toRx # <<>> /\ LastSent(toRx[Len(toRx)], sender)
  <2>1. sender.phase \in {"head", "data"}
    BY DEF Zm!SenderSends
  <2> QED BY <2>1 DEF InStep, Begins, Names, Streams, Keeps, Ends, CaughtUp
<1>5. ASSUME NEW x \in Line, toRx' = Append(toRx, x), Piece(x, sender.file),
             toRx # <<>> => Follows(toRx[Len(toRx)], x), toRx = <<>> => Ready(x, ps, Len(content)),
             sender'.phase \in Sending, sender'.file = sender.file, LastSent(x, sender')
      PROVE  InStep'
  <2>1. InFlight' /\ toRx' # <<>> /\ toRx'[Len(toRx')] = x
    BY <1>1, <1>4, <1>5, FlightMore
  <2>2. Increasing(kept', sender'.file - 1)
    BY <1>2, <1>4, <1>5
  <2> QED BY <1>1, <1>4, <1>5, <2>1, <2>2 DEF Streams, InStep
<1>6. CASE SendsData
  <2>1. sender.phase = "head" /\ sender.pos < FileBlocks /\ toRx' = Append(toRx, Zm!Hdr("ZDATA", sender.pos))
        /\ sender' = [sender EXCEPT !.phase = "data", !.from = sender.pos]
    BY <1>6 DEF SendsData
  <2>2. sender'.phase = "data" /\ sender'.file = sender.file /\ sender'.pos = sender.pos
    BY <1>3, <2>1 DEF SenderStates
  <2> DEFINE x == Zm!Hdr("ZDATA", sender.pos)
  <2>3. x \in Line /\ Tag(x) = "ZDATA" /\ x.kind = "hdr" /\ x.pos = sender.pos /\ toRx' = Append(toRx, x)
    BY <1>3, <2>1, Made DEF Types
  <2> HIDE DEF x
  <2>4. toRx = <<>> /\ ps = "hdr" /\ Len(content) = sender.pos
    BY <1>4, <2>1 DEF CaughtUp, LastSent
  <2>5. Piece(x, sender.file) /\ Ready(x, ps, Len(content)) /\ LastSent(x, sender')
    BY <1>3, <2>1, <2>2, <2>3, <2>4, Kinds DEF Piece, Ready, LastSent
  <2> QED BY <1>5, <2>2, <2>3, <2>4, <2>5, Kinds
<1>7. ASSUME NEW e \in {"W", "G", "E"}, SendsBlock(e) PROVE InStep'
  <2>1. /\ sender.phase = "data" /\ sender.pos < FileBlocks
        /\ e = "E" <=> sender.pos + 1 = FileBlocks
        /\ toRx' = Append(toRx, Zm!DataSub(sender.file, sender.pos + 1, e))
        /\ sender' = [sender EXCEPT !.pos = @ + 1, !.phase = IF e = "W" THEN "ack" ELSE "data"]
    BY <1>7 DEF SendsBlock
  <2>2. /\ sender'.phase = IF e = "W" THEN "ack" ELSE "data"
        /\ sender'.file = sender.file /\ sender'.pos = sender.pos + 1
    <3> DEFINE p == IF e = "W" THEN "ack" ELSE "data"
    <3>1. sender' = [sender EXCEPT !.pos = @ + 1, !.phase = p]
      BY <2>1
    <3> HIDE DEF p
    <3>2. sender'.phase = p /\ sender'.file = sender.file /\ sender'.pos = sender.pos + 1
      BY <1>3, <3>1 DEF SenderStates
    <3> QED BY <3>2 DEF p
  <2> DEFINE x == Zm!DataSub(sender.file, sender.pos + 1, e)
  <2>3. /\ x \in Line /\ Tag(x) = "data" /\ x.kind = "sub" /\ x.file = sender.file
        /\ x.block = sender.pos + 1 /\ x.end = e
    <3>1. sender.pos + 1 \in Nat
      BY <1>3
    <3> QED BY <1>3, <3>1, DataMade
  <2>4. toRx' = Append(toRx, x)
    BY <2>1
  <2> HIDE DEF x
  <2>5. Piece(x, sender.file)
    BY <1>3, <2>3, Kinds DEF Piece
  <2>6. toRx = <<>> => Ready(x, ps, Len(content))
    <3>1. toRx = <<>> => ps = "sub" /\ Len(content) = sender.pos
      BY <1>3, <1>4, <2>1 DEF CaughtUp, InFlight
    <3> QED BY <2>3, <3>1 DEF Ready
  <2>7. toRx # <<>> => Follows(toRx[Len(toRx)], x)
    <3>1. toRx # <<>> => LastSent(toRx[Len(toRx)], sender)
      BY <1>4 DEF CaughtUp
    <3> QED BY <1>3, <2>1, <2>3, <3>1 DEF LastSent, Follows, Ready
  <2>8. LastSent(x, sender')
    BY <1>3, <2>1, <2>2, <2>3 DEF LastSent
  <2> QED BY <1>5, <2>2, <2>3, <2>4, <2>5, <2>6, <2>7, <2>8, Kinds
<1>8. CASE SendsEof
  <2>1. sender.phase \in {"head", "data"} /\ sender.pos = FileBlocks
        /\ toRx' = Append(toRx, Zm!Hdr("ZEOF", FileBlocks)) /\ sender' = Zm!To("eof")
    BY <1>8 DEF SendsEof
  <2>2. sender'.phase = "eof" /\ sender'.file = sender.file
    BY <2>1, SenderTyped, Kinds
  <2> DEFINE x == Zm!Hdr("ZEOF", FileBlocks)
  <2>3. x \in Line /\ Tag(x) = "ZEOF" /\ x.kind = "hdr" /\ x.pos = FileBlocks /\ toRx' = Append(toRx, x)
    BY <1>3, <2>1, Made DEF Types
  <2> HIDE DEF x
  <2>4. Piece(x, sender.file) /\ LastSent(x, sender')
    BY <2>2, <2>3, Kinds DEF Piece, LastSent
  <2>5. toRx = <<>> => Ready(x, ps, Len(content))
    <3>1. toRx = <<>> => ps = "hdr" /\ Len(content) = FileBlocks
      BY <1>4, <2>1 DEF CaughtUp
    <3> QED BY <2>3, <3>1 DEF Ready
  <2>6. toRx # <<>> => Follows(toRx[Len(toRx)], x)
    <3>1. toRx # <<>> => LastSent(toRx[Len(toRx)], sender)
      BY <1>4 DEF CaughtUp
    <3> QED BY <2>1, <2>3, <3>1 DEF LastSent, Follows, Ready
  <2> QED BY <1>5, <2>2, <2>3, <2>4, <2>5, <2>6, Kinds
<1> QED BY <1>6, <1>7, <1>8, SendsCases

\* While the two take turns there is always something on its way.
LEMMA NoSilence ==
  ASSUME ZTyped, InStep
  PROVE  ~ Zm!Silence
<1>1. \A x, y : <<x>> # <<>> /\ <<x, y>> # <<>>
  OBVIOUS
<1>2. toRx # <<>> \/ toTx # <<>> \/ sender.phase \in {"head", "data"}
  BY <1>1 DEF InStep, Begins, Names, Streams, Keeps, Ends, CaughtUp, Zm!Announce
<1> QED BY <1>2 DEF Zm!Silence

\* NoDamageInv is inductive.
LEMMA NoDamageStep ==
  ASSUME ZTyped, NoDamageInv, [Zm!Next]_zmVars
  PROVE  NoDamageInv'
<1> SUFFICES ASSUME damage' = 0, stalls' = 0
             PROVE  Increasing(kept', Files) /\ (zstate' = "active" => InStep')
  BY DEF NoDamageInv
<1>0. damage \in Nat /\ stalls \in Nat
  BY DEF ZTyped
<1>1. CASE Zm!Feed
  <2>1. damage' \in {damage, damage + 1} /\ stalls' = stalls /\ zstate = "active"
    BY <1>1, FeedCases
  <2>2. damage = 0 /\ damage' = damage /\ stalls = 0
    BY <1>0, <2>1
  <2> QED BY <1>1, <2>1, <2>2, FeedInStep DEF NoDamageInv
<1>2. CASE Zm!Tick
  <2>1. /\ zstate = "active" /\ damage' = damage
        /\ (stalls' = stalls /\ Zm!Silence) \/ stalls' = stalls + 1
    BY <1>2 DEF Zm!Tick
  <2>2. damage = 0 /\ stalls = 0 /\ Zm!Silence
    BY <1>0, <2>1
  <2> QED BY <2>1, <2>2, NoSilence DEF NoDamageInv
<1>3. CASE Zm!Cancel
  <2>1. zstate' # "active" /\ kept' = kept /\ damage' = damage /\ stalls' = stalls
    BY <1>3 DEF Zm!Cancel, Zm!Finish
  <2> QED BY <2>1 DEF NoDamageInv
<1>4. CASE Zm!SenderHears
  <2>1. (damage' = damage \/ damage' = damage + 1) /\ stalls' = stalls /\ kept' = kept /\ zstate' = zstate
    BY <1>4 DEF Zm!SenderHears
  <2>2. damage = 0 /\ damage' = damage /\ stalls = 0
    BY <1>0, <2>1
  <2> QED BY <1>4, <2>1, <2>2, HearsInStep DEF NoDamageInv
<1>5. CASE Zm!SenderSends
  <2>1. damage' = damage /\ stalls' = stalls /\ kept' = kept /\ zstate' = zstate
    BY <1>5 DEF Zm!SenderSends
  <2> QED BY <1>5, <2>1, SendsInStep DEF NoDamageInv
<1>6. CASE Zm!SenderRepeats
  <2>1. damage' = damage /\ stalls' = stalls /\ kept' = kept /\ zstate' = zstate /\ Zm!Silence
    BY <1>6 DEF Zm!SenderRepeats
  <2> QED BY <2>1, NoSilence DEF NoDamageInv
<1>7. CASE UNCHANGED zmVars
  <2>1. UNCHANGED <<zstate, ps, role, filing, content, kept, sender, toRx, toTx, damage, stalls>>
    BY <1>7 DEF zmVars
  <2> QED BY <2>1 DEF NoDamageInv, InStep, Begins, Names, Streams, Keeps, Ends, CaughtUp, InFlight, Written
<1>8. CASE Zm!SenderStops
  BY <1>8, StopEnds DEF NoDamageInv
<1> QED BY <1>1, <1>2, <1>3, <1>4, <1>5, <1>6, <1>7, <1>8 DEF Zm!Next

\* It holds at the beginning.
LEMMA NoDamageInit ==
  ASSUME Zm!Init
  PROVE  NoDamageInv
<1>1. /\ zstate = "active" /\ ps = "hdr" /\ filing = 0 /\ kept = <<>>
      /\ toTx = <<>> /\ toRx = <<Zm!Hdr("ZRQINIT", 0)>>
      /\ sender = [phase |-> "start", file |-> 1, pos |-> 0, from |-> 0]
  BY DEF Zm!Init
<1>2. Increasing(kept, Files)
  <2>1. Len(kept) = 0
    BY <1>1
  <2> QED BY <2>1 DEF Increasing
<1>3. sender.phase = "start" /\ sender.file = 1
  BY <1>1
<1>4. Begins
  BY <1>1, <1>3 DEF Begins
<1> QED BY <1>2, <1>4 DEF NoDamageInv, InStep

\* What Terminal does is a behaviour of Zmodem, which rests while another part is
\* taken.
LEMMA TerminalReceiver == TerminalSpec => Zm!Init /\ [][Zm!Next]_zmVars
<1>1. TerminalInit => Zm!Init
  BY DEF TerminalInit
<1>2. [TerminalNext]_vars => [Zm!Next]_zmVars
  BY DEF TerminalNext, vars
<1> QED BY <1>1, <1>2, PTL DEF TerminalSpec

\* The three parts of the invariant together.
LEMMA ReceiverInvariant == TerminalSpec => [](ZTyped /\ FaultlessInv /\ NoDamageInv)
<1>1. Zm!Init => ZTyped /\ FaultlessInv /\ NoDamageInv
  BY FaultlessInit, NoDamageInit
<1>2. ZTyped /\ FaultlessInv /\ NoDamageInv /\ [Zm!Next]_zmVars => (ZTyped /\ FaultlessInv /\ NoDamageInv)'
  BY TypedStep, FaultlessStep, NoDamageStep
<1> QED BY <1>1, <1>2, TerminalReceiver, PTL

\* Files kept are whole, in the order sent, and kept once, for any number of
\* them and of damages, silences or faults, as long as the line and the disk do
\* not fail in one session (mmb_zmodem.h:31).
THEOREM KeptTheorem == TerminalSpec => []KeptWhole
<1>1. ZTyped /\ FaultlessInv /\ NoDamageInv => KeptWhole
  <2> SUFFICES ASSUME ZTyped, FaultlessInv, NoDamageInv, faults = 0 \/ damage + stalls = 0
               PROVE  /\ \A i \in DOMAIN kept : \E f \in 1 .. Files : kept[i] = Zm!Whole(f)
                      /\ \A i, j \in DOMAIN kept : i < j => kept[i][1][1] < kept[j][1][1]
    BY DEF KeptWhole, Zm!KeptWhole
  <2>1. DOMAIN kept = 1..Len(kept) /\ Len(kept) \in Nat /\ damage \in Nat /\ stalls \in Nat
    BY DEF ZTyped
  <2>2. CASE faults = 0
    <3>1. Len(kept) <= Files /\ \A i \in 1..Len(kept) : kept[i] = Zm!Whole(i)
      BY <2>2 DEF FaultlessInv, KeptFirst
    <3>2. \A i \in 1..Len(kept) : i \in 1..Files /\ kept[i] = Zm!Whole(i) /\ kept[i][1][1] = i
      BY <2>1, <3>1, FilesAssumption, WholeFirst
    <3> QED BY <2>1, <3>2
  <2>3. CASE damage + stalls = 0
    <3>1. damage = 0 /\ stalls = 0
      BY <2>1, <2>3
    <3> QED BY <2>1, <3>1 DEF NoDamageInv, Increasing
  <2> QED BY <2>2, <2>3
<1> QED BY <1>1, ReceiverInvariant, PTL

-----------------------------------------------------------------------------
(* Files and blocks are numbered, whatever is lost and refused.            *)

\* Of the files named on the line q: all are above n; none is above n; those that
\* come after a piece of a file are above n, and above those before it; those that
\* come before a piece are below n.
Above(q, n) == \A i \in 1..Len(q) : Tag(q[i]) = "file" => n < q[i].file
UpTo(q, n) == \A i \in 1..Len(q) : Tag(q[i]) = "file" => q[i].file <= n
Later(q, n) ==
  \A i, j \in 1..Len(q) :
    i < j /\ Tag(q[i]) \in Pieces /\ Tag(q[j]) = "file" => n < q[j].file
Climbs(q) ==
  \A i, j, l \in 1..Len(q) :
    i < j /\ j < l /\ Tag(q[i]) = "file" /\ Tag(q[j]) \in Pieces /\ Tag(q[l]) = "file" =>
      q[i].file < q[l].file
Passed(q, n) ==
  \A i, j \in 1..Len(q) :
    i < j /\ Tag(q[i]) = "file" /\ Tag(q[j]) \in Pieces => q[i].file < n
HasPiece(q) == \E i \in 1..Len(q) : Tag(q[i]) \in Pieces

\* Files and blocks are numbered, and as many files are kept as were passed at most.
Numbered ==
  /\ filing <= sender.file /\ Len(kept) <= sender.file /\ Len(content) <= FileBlocks
  /\ filing # 0 => Len(kept) < filing
  /\ Above(toRx, Len(kept)) /\ UpTo(toRx, sender.file) /\ Later(toRx, filing) /\ Climbs(toRx)
  /\ sender.phase \in Asking =>
       /\ Len(kept) < sender.file /\ Passed(toRx, sender.file)
       /\ HasPiece(toRx) => filing < sender.file

\* A block is one of a file's, or none and the end of a frame.
Sized(f) == Tag(f) = "data" => f.block <= FileBlocks /\ (f.block = 0 => f.end = "E")

\* What the receiver has of files and blocks is no more than there is.
Counted == /\ filing \in 0..Files /\ Len(content) <= FileBlocks /\ Len(kept) <= Files
           /\ Len(rep) <= 1

LineInv == Stream /\ Reads /\ Numbered /\ \A i \in 1..Len(toRx) : Sized(toRx[i])
CountInv == Counted /\ reps \in 0..MaxRep /\ (zstate = "active" => LineInv)

\* The numbers on what is left of a line.
LEMMA TailNumbers ==
  ASSUME NEW q \in Seq(Line), q # <<>>
  PROVE  /\ \A n : /\ Above(q, n) => Above(Tail(q), n)
                   /\ UpTo(q, n) => UpTo(Tail(q), n)
                   /\ Later(q, n) => Later(Tail(q), n)
                   /\ Passed(q, n) => Passed(Tail(q), n)
                   /\ Later(q, n) /\ Tag(q[1]) \in Pieces => Above(Tail(q), n)
                   /\ Passed(q, n) /\ Tag(q[1]) = "file" /\ HasPiece(Tail(q)) => q[1].file < n
                   /\ Above(q, n) /\ Tag(q[1]) = "file" => n < q[1].file
                   /\ UpTo(q, n) /\ Tag(q[1]) = "file" => q[1].file <= n
         /\ Climbs(q) => Climbs(Tail(q))
         /\ Climbs(q) /\ Tag(q[1]) = "file" => Later(Tail(q), q[1].file)
         /\ HasPiece(Tail(q)) => HasPiece(q)
         /\ Tag(q[1]) \in Pieces => HasPiece(q)
<1> DEFINE r == Tail(q)
<1>1. /\ Len(r) \in Nat /\ Len(q) = Len(r) + 1 /\ 1 \in 1..Len(q)
      /\ \A i \in 1..Len(r) : i + 1 \in 1..Len(q) /\ 1 < i + 1 /\ r[i] = q[i + 1]
      /\ \A i, j \in 1..Len(r) : i < j => i + 1 < j + 1
  BY TailOf
<1> HIDE DEF r
<1>2. ASSUME NEW n
      PROVE  /\ Above(q, n) => Above(r, n)
             /\ UpTo(q, n) => UpTo(r, n)
             /\ Above(q, n) /\ Tag(q[1]) = "file" => n < q[1].file
             /\ UpTo(q, n) /\ Tag(q[1]) = "file" => q[1].file <= n
  BY <1>1 DEF Above, UpTo
<1>3. ASSUME NEW n, Later(q, n) PROVE Later(r, n) /\ (Tag(q[1]) \in Pieces => Above(r, n))
  BY <1>1, <1>3 DEF Later, Above
<1>4. ASSUME NEW n, Passed(q, n)
      PROVE  Passed(r, n) /\ (Tag(q[1]) = "file" /\ HasPiece(r) => q[1].file < n)
  BY <1>1, <1>4 DEF Passed, HasPiece
<1>5. ASSUME Climbs(q) PROVE Climbs(r) /\ (Tag(q[1]) = "file" => Later(r, q[1].file))
  <2>1. ASSUME NEW i \in 1..Len(r), NEW j \in 1..Len(r), NEW l \in 1..Len(r), i < j, j < l,
               Tag(r[i]) = "file", Tag(r[j]) \in Pieces, Tag(r[l]) = "file"
        PROVE  r[i].file < r[l].file
    <3>1. /\ {i + 1, j + 1, l + 1} \subseteq 1..Len(q)
          /\ i + 1 < j + 1 /\ j + 1 < l + 1
          /\ r[i] = q[i + 1] /\ r[j] = q[j + 1] /\ r[l] = q[l + 1]
      BY <1>1, <2>1
    <3> QED BY <1>5, <2>1, <3>1, Zenon DEF Climbs
  <2>2. ASSUME NEW j \in 1..Len(r), NEW l \in 1..Len(r), j < l,
               Tag(q[1]) = "file", Tag(r[j]) \in Pieces, Tag(r[l]) = "file"
        PROVE  q[1].file < r[l].file
    <3>1. /\ {1, j + 1, l + 1} \subseteq 1..Len(q)
          /\ 1 < j + 1 /\ j + 1 < l + 1 /\ r[j] = q[j + 1] /\ r[l] = q[l + 1]
      BY <1>1, <2>2
    <3> QED BY <1>5, <2>2, <3>1, Zenon DEF Climbs
  <2> QED BY <2>1, <2>2 DEF Climbs, Later
<1>6. /\ HasPiece(r) => HasPiece(q)
      /\ Tag(q[1]) \in Pieces => HasPiece(q)
  BY <1>1 DEF HasPiece
<1> QED BY <1>2, <1>3, <1>4, <1>5, <1>6 DEF r

\* ... and on a line with more at its end: one frame that names no file,
LEMMA JoinOther ==
  ASSUME NEW q \in Seq(Line), NEW x \in Line, Tag(x) # "file"
  PROVE  LET r == q \o <<x>>
         IN  /\ \A n : /\ Above(q, n) => Above(r, n)
                       /\ UpTo(q, n) => UpTo(r, n)
                       /\ Later(q, n) => Later(r, n)
                       /\ Passed(q, n) /\ Tag(x) \notin Pieces => Passed(r, n)
             /\ Climbs(q) => Climbs(r)
             /\ HasPiece(r) /\ Tag(x) \notin Pieces => HasPiece(q)
             /\ (\A i \in 1..Len(q) : Sized(q[i])) /\ Sized(x) => \A i \in 1..Len(r) : Sized(r[i])
<1> DEFINE r == q \o <<x>>
<1>1. /\ Len(q) \in Nat /\ Len(r) = Len(q) + 1
      /\ \A i \in 1..Len(r) : \/ i \in 1..Len(q) /\ r[i] = q[i]
                              \/ i = Len(r) /\ r[i] = x
  BY OneOf, JoinOf
<1> HIDE DEF r
<1>2. \A i, j \in 1..Len(r) : i < j => i \in 1..Len(q) /\ r[i] = q[i]
  BY <1>1
<1>3. \A i \in 1..Len(r) : Tag(r[i]) = "file" => i \in 1..Len(q) /\ r[i] = q[i]
  BY <1>1
<1>4. Tag(x) \notin Pieces => \A i \in 1..Len(r) : Tag(r[i]) \in Pieces => i \in 1..Len(q) /\ r[i] = q[i]
  BY <1>1
<1>5. ASSUME NEW n
      PROVE  /\ Above(q, n) => Above(r, n)
             /\ UpTo(q, n) => UpTo(r, n)
             /\ Later(q, n) => Later(r, n)
             /\ Passed(q, n) /\ Tag(x) \notin Pieces => Passed(r, n)
  <2>1. (Above(q, n) => Above(r, n)) /\ (UpTo(q, n) => UpTo(r, n))
    BY <1>3 DEF Above, UpTo
  <2>2. Later(q, n) => Later(r, n)
    BY <1>2, <1>3 DEF Later
  <2>3. Passed(q, n) /\ Tag(x) \notin Pieces => Passed(r, n)
    BY <1>2, <1>4 DEF Passed
  <2> QED BY <2>1, <2>2, <2>3
<1>6. Climbs(q) => Climbs(r)
  BY <1>2, <1>3 DEF Climbs
<1>7. HasPiece(r) /\ Tag(x) \notin Pieces => HasPiece(q)
  BY <1>4 DEF HasPiece
<1>8. (\A i \in 1..Len(q) : Sized(q[i])) /\ Sized(x) => \A i \in 1..Len(r) : Sized(r[i])
  BY <1>1
<1> QED BY <1>5, <1>6, <1>7, <1>8 DEF r

\* ... or the offer of a file.
LEMMA JoinOffer ==
  ASSUME NEW q \in Seq(Line), NEW k \in Nat
  PROVE  LET r == q \o Zm!Announce(k)
         IN  /\ \A n : /\ Above(q, n) /\ n < k => Above(r, n)
                       /\ UpTo(q, n) /\ k <= n => UpTo(r, n)
                       /\ Later(q, n) /\ (HasPiece(q) => n < k) => Later(r, n)
                       /\ Passed(q, n) => Passed(r, n)
             /\ Climbs(q) /\ Passed(q, k) => Climbs(r)
             /\ HasPiece(r) => HasPiece(q)
             /\ (\A i \in 1..Len(q) : Sized(q[i])) => \A i \in 1..Len(r) : Sized(r[i])
<1> DEFINE a == Zm!Announce(k)
           r == q \o a
<1>1. a \in Seq(Line) /\ Len(a) = 2 /\ a[1] = Zm!Hdr("ZFILE", 0) /\ a[2] = Zm!FileSub(k)
  BY OfferMade
<1>2. Tag(a[1]) = "ZFILE" /\ Tag(a[2]) = "file" /\ a[2].file = k
  BY <1>1, Made DEF Types
<1> HIDE DEF a
<1>3. /\ Len(q) \in Nat /\ Len(r) = Len(q) + 2
      /\ \A i \in 1..Len(r) : \/ i \in 1..Len(q) /\ r[i] = q[i]
                              \/ i = Len(q) + 1 /\ r[i] = a[1]
                              \/ i = Len(q) + 2 /\ r[i] = a[2]
  <2>1. /\ Len(q) \in Nat /\ Len(r) = Len(q) + Len(a)
        /\ \A i \in 1..Len(r) : \/ i \in 1..Len(q) /\ r[i] = q[i]
                                \/ i - Len(q) \in 1..Len(a) /\ r[i] = a[i - Len(q)]
    <3>1. Len(q) \in Nat
      OBVIOUS
    <3>2. q \in Seq(Line) /\ a \in Seq(Line)
      BY <1>1
    <3> QED BY <3>1, <3>2, JoinOf
  <2> HIDE DEF r
  <2>2. \A i \in 1..Len(r) : i - Len(q) \in 1..Len(a) =>
             (i = Len(q) + 1 /\ i - Len(q) = 1) \/ (i = Len(q) + 2 /\ i - Len(q) = 2)
    BY <1>1, <2>1
  <2> QED BY <1>1, <2>1, <2>2
<1> HIDE DEF r
<1>4. \A i \in 1..Len(r) : Tag(r[i]) \in Pieces => i \in 1..Len(q) /\ r[i] = q[i]
  BY <1>2, <1>3, Kinds
<1>5. \A i \in 1..Len(r) : Tag(r[i]) = "file" =>
           (i \in 1..Len(q) /\ r[i] = q[i]) \/ (i = Len(q) + 2 /\ r[i].file = k)
  BY <1>2, <1>3
<1>6. \A i, j \in 1..Len(r) : i < j /\ j \in 1..Len(q) => i \in 1..Len(q)
  BY <1>3
<1>7. \A i, j \in 1..Len(r) : i < j /\ Tag(r[i]) = "file" /\ Tag(r[j]) \in Pieces =>
           i \in 1..Len(q) /\ r[i] = q[i] /\ j \in 1..Len(q) /\ r[j] = q[j]
  BY <1>3, <1>4, <1>5, <1>6
<1>8. ASSUME NEW n
      PROVE  /\ Above(q, n) /\ n < k => Above(r, n)
             /\ UpTo(q, n) /\ k <= n => UpTo(r, n)
             /\ Later(q, n) /\ (HasPiece(q) => n < k) => Later(r, n)
             /\ Passed(q, n) => Passed(r, n)
  <2>1. (Above(q, n) /\ n < k => Above(r, n)) /\ (UpTo(q, n) /\ k <= n => UpTo(r, n))
    BY <1>5 DEF Above, UpTo
  <2>2. Later(q, n) /\ (HasPiece(q) => n < k) => Later(r, n)
    BY <1>4, <1>5 DEF Later, HasPiece
  <2>3. Passed(q, n) => Passed(r, n)
    BY <1>7 DEF Passed
  <2> QED BY <2>1, <2>2, <2>3
<1>9. Climbs(q) /\ Passed(q, k) => Climbs(r)
  BY <1>5, <1>7 DEF Climbs, Passed
<1>10. HasPiece(r) => HasPiece(q)
  BY <1>4 DEF HasPiece
<1>11. (\A i \in 1..Len(q) : Sized(q[i])) => \A i \in 1..Len(r) : Sized(r[i])
  BY <1>2, <1>3 DEF Sized
<1> QED BY <1>8, <1>9, <1>10, <1>11 DEF r, a

\* A file not above n is below k, where n is.
LEMMA UpToPassed ==
  ASSUME NEW q \in Seq(Line), NEW n \in Nat, NEW k \in Nat, n < k, UpTo(q, n)
  PROVE  Passed(q, k)
<1>1. \A i \in 1..Len(q) : Tag(q[i]) = "file" => q[i].file \in Nat
  <2>1. \A i \in 1..Len(q) : q[i] \in Line
    OBVIOUS
  <2>2. \A f \in Line : Tag(f) = "file" => f.file \in Nat
    BY OnLine DEF Types
  <2> QED BY <2>1, <2>2
<1> QED BY <1>1 DEF UpTo, Passed

\* The numbers, once they are typed.
LEMMA NumbersTyped ==
  ASSUME ZTyped
  PROVE  /\ filing \in Nat /\ Len(kept) \in Nat /\ Len(content) \in Nat /\ toRx \in Seq(Line)
         /\ sender.file \in Nat /\ sender.file <= Files /\ 0 < sender.file
         /\ FileBlocks \in Nat /\ Files \in Nat
<1>1. filing \in Nat /\ Len(kept) \in Nat /\ Len(content) \in Nat /\ toRx \in Seq(Line)
  BY DEF ZTyped
<1>2. sender.file \in 1..Files /\ FileBlocks \in Nat /\ Files \in Nat
  BY SenderTyped, FilesAssumption
<1> QED BY <1>1, <1>2

\* The frames left are as sized as they were.
LEMMA SizedLess ==
  ASSUME ZTyped, toRx # <<>>, toRx' = Tail(toRx), \A i \in 1..Len(toRx) : Sized(toRx[i])
  PROVE  Sized(toRx[1]) /\ \A i \in 1..Len(toRx') : Sized(toRx'[i])
<1>1. /\ \A i \in 1..Len(toRx') : i + 1 \in 1..Len(toRx) /\ toRx'[i] = toRx[i + 1]
      /\ 1 \in 1..Len(toRx)
  BY TailOf DEF ZTyped
<1> QED BY <1>1

\* A frame is read that opens and closes nothing,
LEMMA NumbersRead ==
  ASSUME ZTyped, Numbered, toRx # <<>>, toRx' = Tail(toRx), UNCHANGED <<filing, kept, sender>>,
         Len(content') <= FileBlocks
  PROVE  Numbered'
<1>1. toRx \in Seq(Line)
  BY NumbersTyped
<1>2. /\ Above(toRx', Len(kept)) /\ UpTo(toRx', sender.file) /\ Later(toRx', filing) /\ Climbs(toRx')
      /\ sender.phase \in Asking => Passed(toRx', sender.file) /\ (HasPiece(toRx') => filing < sender.file)
  BY <1>1, TailNumbers DEF Numbered
<1> QED BY <1>2 DEF Numbered

\* ... the name of a file, whether it can be created or not,
LEMMA NumbersOpened ==
  ASSUME ZTyped, Numbered, toRx # <<>>, toRx' = Tail(toRx), UNCHANGED <<kept, sender>>, content' = <<>>,
         NEW f \in Line, f = toRx[1], Tag(f) = "file", filing' \in {0, f.file}
  PROVE  Numbered'
<1>1. /\ toRx \in Seq(Line) /\ Len(kept) \in Nat /\ sender.file \in Nat /\ 0 < sender.file
      /\ FileBlocks \in Nat /\ f.file \in Nat
  BY NumbersTyped, OnLine DEF Types
<1>2. /\ Above(toRx', Len(kept)) /\ UpTo(toRx', sender.file) /\ Climbs(toRx')
      /\ Later(toRx', f.file) /\ Len(kept) < f.file /\ f.file <= sender.file
      /\ sender.phase \in Asking => Passed(toRx', sender.file) /\ (HasPiece(toRx') => f.file < sender.file)
  BY <1>1, TailNumbers DEF Numbered
<1>3. Later(toRx', 0)
  <2>1. \A i \in 1..Len(toRx') : toRx'[i] \in Line
    BY <1>1, TailOf
  <2>2. \A x \in Line : Tag(x) = "file" => x.file \in Nat
    BY OnLine DEF Types
  <2> QED BY <1>1, <1>2, <2>1, <2>2 DEF Above, Later
<1>4. Len(content') <= FileBlocks
  BY <1>1
<1>5. /\ filing' <= sender.file /\ (filing' # 0 => Len(kept) < filing') /\ Later(toRx', filing')
      /\ sender.phase \in Asking => (HasPiece(toRx') => filing' < sender.file)
  BY <1>1, <1>2, <1>3
<1> QED BY <1>2, <1>4, <1>5 DEF Numbered

\* ... and the end of one.
LEMMA NumbersCompleted ==
  ASSUME ZTyped, Numbered, toRx # <<>>, toRx' = Tail(toRx), sender' = sender,
         Tag(toRx[1]) = "ZEOF", filing # 0, filing' = 0, content' = <<>>, kept' = Append(kept, content)
  PROVE  Numbered'
<1>1. /\ toRx \in Seq(Line) /\ Len(kept) \in Nat /\ sender.file \in Nat /\ 0 < sender.file
      /\ FileBlocks \in Nat /\ filing \in Nat /\ Len(kept') = Len(kept) + 1
  BY NumbersTyped DEF ZTyped
<1>2. /\ Above(toRx', Len(kept)) /\ Above(toRx', filing) /\ UpTo(toRx', sender.file) /\ Climbs(toRx')
      /\ sender.phase \in Asking => Passed(toRx', sender.file) /\ filing < sender.file
  <2>1. Tag(toRx[1]) \in Pieces
    BY Kinds
  <2> QED BY <1>1, <2>1, TailNumbers DEF Numbered
<1>3. Len(kept') <= filing /\ filing <= sender.file
  BY <1>1 DEF Numbered
<1>4. \A i \in 1..Len(toRx') : Tag(toRx'[i]) = "file" => toRx'[i].file \in Nat
  <2>1. \A i \in 1..Len(toRx') : toRx'[i] \in Line
    BY <1>1, TailOf
  <2>2. \A x \in Line : Tag(x) = "file" => x.file \in Nat
    BY OnLine DEF Types
  <2> QED BY <2>1, <2>2
<1>5. Above(toRx', Len(kept')) /\ Later(toRx', 0)
  <2>1. \A i \in 1..Len(toRx') : Tag(toRx'[i]) = "file" => filing < toRx'[i].file
    BY <1>2 DEF Above
  <2>2. \A n \in Nat : Len(kept') <= filing /\ filing < n => Len(kept') < n /\ 0 < n
    BY <1>1
  <2>3. \A i \in 1..Len(toRx') : Tag(toRx'[i]) = "file" => Len(kept') < toRx'[i].file /\ 0 < toRx'[i].file
    BY <1>3, <1>4, <2>1, <2>2
  <2> QED BY <2>3 DEF Above, Later
<1>6. sender.phase \in Asking => Len(kept') < sender.file /\ (HasPiece(toRx') => 0 < sender.file)
  BY <1>1, <1>2, <1>3
<1>7. Len(content') <= FileBlocks /\ Len(kept') <= sender.file
  BY <1>1, <1>3
<1> QED BY <1>1, <1>2, <1>5, <1>6, <1>7 DEF Numbered

\* A reply is one header to repeat.
LEMMA ReplyOne ==
  ASSUME NEW hs, Zm!Reply(hs)
  PROVE  Len(rep') = 1
BY DEF Zm!Reply

\* Who counts along with the sender counts no more than there is.
LEMMA NumberedCounted ==
  ASSUME ZTyped, Numbered
  PROVE  filing \in 0..Files /\ Len(content) <= FileBlocks /\ Len(kept) <= Files
<1>1. /\ filing \in Nat /\ Len(kept) \in Nat /\ sender.file \in Nat /\ sender.file <= Files
      /\ Files \in Nat
  BY NumbersTyped
<1> QED BY <1>1 DEF Numbered

\* The block added is one of the file.
LEMMA AddedFits ==
  ASSUME ZTyped, Reads, Numbered, toRx # <<>>, NEW f \in Line, f = toRx[1], Added(f), Sized(f)
  PROVE  Len(content') <= FileBlocks
<1>1. Tag(f) = "data" /\ f.block \in {0, Len(content) + 1}
  <2>1. ps = "sub" /\ role = "data" /\ f.kind = "sub"
    BY DEF Added
  <2> QED BY <2>1 DEF Reads, Goes
<1>2. Len(content) \in Nat /\ f.block <= FileBlocks /\ Len(content) <= FileBlocks
  BY <1>1, NumbersTyped DEF Sized, Numbered
<1>3. CASE f.block = 0
  BY <1>2, <1>3, AddedContent
<1>4. CASE f.block # 0
  <2>1. content' = Append(content, <<f.file, f.block>>)
    BY <1>4, AddedContent
  <2>2. Len(content') = Len(content) + 1
    BY <2>1 DEF ZTyped
  <2> QED BY <1>1, <1>2, <1>4, <2>2
<1> QED BY <1>3, <1>4

\* The receiver counts along, whatever is fed to it,
LEMMA CountFeed ==
  ASSUME ZTyped, LineInv, Counted, Zm!Feed
  PROVE  Counted' /\ (zstate' = "active" => LineInv')
<1> DEFINE f == Head(toRx)
<1>1. /\ zstate = "active" /\ toRx # <<>> /\ f = toRx[1] /\ f \in Line /\ toRx' = Tail(toRx)
      /\ sender' = sender
      /\ \/ Quietly(f) \/ Replied(f) \/ Opened(f) \/ Refused(f) \/ Completed(f)
         \/ Added(f) \/ Broken \/ Ended(f)
  BY FeedCases
<1> HIDE DEF f
<1>2. Stream /\ Reads /\ Numbered /\ Sized(f) /\ \A i \in 1..Len(toRx') : Sized(toRx'[i])
  BY <1>1, SizedLess DEF LineInv
<1>3. ASSUME Numbered', Len(rep') <= 1,
             Quietly(f) \/ Replied(f) \/ Opened(f) \/ Refused(f) \/ Completed(f) \/ Added(f)
      PROVE  Counted' /\ LineInv'
  <2>1. Stream' /\ Reads'
    <3>1. f = Head(toRx)
      BY DEF f
    <3>2. Tag(f) = "data" /\ f.block = 0 => f.end = "E"
      BY <1>2 DEF Sized
    <3> QED BY <1>2, <1>3, <3>1, <3>2, LineFeed
  <2>2. ZTyped'
    BY FeedTyped
  <2>3. (filing \in 0..Files /\ Len(content) <= FileBlocks /\ Len(kept) <= Files)'
    BY <1>3, <2>2, NumberedCounted, PTL
  <2> QED BY <1>2, <1>3, <2>1, <2>3 DEF Counted, LineInv
<1>4. Len(content) <= FileBlocks /\ Len(rep) <= 1 /\ Len(kept) \in Nat /\ Len(kept) <= Files
  BY NumbersTyped DEF Counted
<1>5. CASE Quietly(f)
  <2>1. UNCHANGED <<filing, content, kept, rep>>
    BY <1>5 DEF Quietly, Zm!Going, Zm!Quiet
  <2>2. Numbered' /\ Len(rep') <= 1
    BY <1>1, <1>2, <1>4, <2>1, NumbersRead
  <2> QED BY <1>3, <1>5, <2>2
<1>6. CASE Replied(f)
  <2>1. UNCHANGED <<filing, content, kept>> /\ Len(rep') = 1
    BY <1>6, ReplyOne DEF Replied, Zm!Going
  <2>2. Numbered' /\ Len(rep') <= 1
    BY <1>1, <1>2, <1>4, <2>1, NumbersRead
  <2> QED BY <1>3, <1>6, <2>2
<1>7. CASE Opened(f) \/ Refused(f)
  <2>1. /\ ps = "sub" /\ role = "file" /\ filing' \in {0, f.file} /\ content' = <<>> /\ kept' = kept
        /\ Len(rep') = 1
    BY <1>7, ReplyOne DEF Opened, Refused
  <2>2. Tag(f) = "file"
    BY <1>1, <1>2, <2>1 DEF Reads
  <2>3. Numbered' /\ Len(rep') <= 1
    BY <1>1, <1>2, <2>1, <2>2, NumbersOpened
  <2> QED BY <1>3, <1>7, <2>3
<1>8. CASE Completed(f)
  <2>1. /\ Tag(f) = "ZEOF" /\ filing # 0 /\ filing' = 0 /\ content' = <<>>
        /\ kept' = Append(kept, content) /\ Len(rep') = 1
    BY <1>8, ReplyOne DEF Completed
  <2>2. Numbered' /\ Len(rep') <= 1
    BY <1>1, <1>2, <2>1, NumbersCompleted
  <2> QED BY <1>3, <1>8, <2>2
<1>9. CASE Added(f)
  <2>1. UNCHANGED <<filing, kept>> /\ (rep' = rep \/ Len(rep') = 1)
    BY <1>9, ReplyOne DEF Added, Zm!DataWritten, Zm!Quiet
  <2>2. Len(content') <= FileBlocks
    BY <1>1, <1>2, <1>9, AddedFits
  <2>3. Numbered'
    BY <1>1, <1>2, <2>1, <2>2, NumbersRead
  <2>4. Len(rep') <= 1
    <3>1. CASE rep' = rep
      BY <1>4, <3>1
    <3>2. CASE Len(rep') = 1
      BY <3>2
    <3> QED BY <2>1, <3>1, <3>2
  <2> QED BY <1>3, <1>9, <2>3, <2>4
<1>10. FileBlocks \in Nat /\ Files \in Nat
  BY NumbersTyped
<1>11. CASE Broken
  <2>1. zstate' = "failed" /\ filing' = 0 /\ content' = <<>> /\ kept' = kept /\ rep' = rep
    BY <1>11 DEF Broken, Zm!Finish, Zm!Quiet
  <2> QED BY <1>4, <1>10, <2>1 DEF Counted
<1>12. CASE Ended(f)
  <2>1. /\ zstate' = "done" /\ filing' = 0 /\ content' = <<>> /\ Len(rep') = 1
        /\ kept' = IF filing # 0 THEN Append(kept, content) ELSE kept
    BY <1>12, ReplyOne DEF Ended, Zm!AcceptFin, Zm!Finish
  <2>2. Len(kept') <= Files
    <3>1. CASE filing = 0
      BY <1>4, <2>1, <3>1
    <3>2. CASE filing # 0
      <4>1. Len(kept') = Len(kept) + 1
        BY <2>1, <3>2 DEF ZTyped
      <4>2. Len(kept) < filing /\ filing \in 0..Files
        BY <1>2, <3>2 DEF Numbered, Counted
      <4> QED BY <1>4, <1>10, <4>1, <4>2
    <3> QED BY <3>1, <3>2
  <2> QED BY <1>10, <2>1, <2>2 DEF Counted
<1> QED BY <1>1, <1>3, <1>5, <1>6, <1>7, <1>8, <1>9, <1>11, <1>12

\* The sender says nothing,
LEMMA SaysNothing ==
  ASSUME ZTyped, Numbered, UNCHANGED <<filing, content, kept, toRx>>, sender'.file = sender.file,
         sender'.phase \in Asking => sender.phase \in Asking
  PROVE  Numbered'
BY DEF Numbered

\* ... or something that names no file,
LEMMA SaysOther ==
  ASSUME ZTyped, Numbered, UNCHANGED <<filing, content, kept>>, sender'.file = sender.file,
         NEW x \in Line, Tag(x) # "file", toRx' = toRx \o <<x>>,
         sender'.phase \in Asking => sender.phase \in Asking /\ Tag(x) \notin Pieces
  PROVE  Numbered'
<1>1. toRx \in Seq(Line)
  BY NumbersTyped
<1>2. /\ Above(toRx', Len(kept)) /\ UpTo(toRx', sender.file) /\ Later(toRx', filing) /\ Climbs(toRx')
      /\ sender'.phase \in Asking => Passed(toRx', sender.file) /\ (HasPiece(toRx') => HasPiece(toRx))
  BY <1>1, JoinOther DEF Numbered
<1> QED BY <1>2 DEF Numbered

\* ... or the name of a file: the one it asks for, or the next.
Offering ==
  /\ sender'.phase = "name" /\ toRx' = toRx \o Zm!Announce(sender'.file)
  /\ \/ sender.phase \in Asking /\ sender'.file = sender.file
     \/ sender'.file = sender.file + 1

\* The name of a file leaves the line numbered.
LEMMA SaysOffer ==
  ASSUME ZTyped, Numbered, UNCHANGED <<filing, content, kept>>, Offering
  PROVE  Numbered'
<1>1. /\ filing \in Nat /\ Len(kept) \in Nat /\ toRx \in Seq(Line) /\ sender.file \in Nat
  BY NumbersTyped
<1> DEFINE k == sender'.file
<1>2. /\ k \in Nat /\ sender.file <= k /\ filing <= k /\ Len(kept) < k
      /\ HasPiece(toRx) => filing < k
  BY <1>1 DEF Numbered, Offering
<1>3. Passed(toRx, k) /\ UpTo(toRx, k)
  <2>1. CASE sender.phase \in Asking /\ k = sender.file
    BY <2>1 DEF Numbered
  <2>2. CASE k = sender.file + 1
    <3>1. Passed(toRx, k)
      BY <1>1, <1>2, <2>2, UpToPassed DEF Numbered
    <3>2. \A i \in 1..Len(toRx) : Tag(toRx[i]) = "file" => toRx[i].file \in Nat
      <4>1. \A i \in 1..Len(toRx) : toRx[i] \in Line
        BY <1>1
      <4>2. \A x \in Line : Tag(x) = "file" => x.file \in Nat
        BY OnLine DEF Types
      <4> QED BY <4>1, <4>2
    <3>3. UpTo(toRx, sender.file)
      BY DEF Numbered
    <3>4. \A n \in Nat : n <= sender.file => n <= k
      BY <1>1, <1>2
    <3> QED BY <3>1, <3>2, <3>3, <3>4 DEF UpTo
  <2> QED BY <2>1, <2>2 DEF Offering
<1>4. toRx' = toRx \o Zm!Announce(k)
  BY DEF Offering
<1> HIDE DEF k
<1>5. /\ Above(toRx, Len(kept)) /\ Later(toRx, filing) /\ Climbs(toRx) /\ k <= k
  BY <1>2 DEF Numbered
<1>6. /\ Above(toRx', Len(kept)) /\ UpTo(toRx', k) /\ Later(toRx', filing) /\ Climbs(toRx')
      /\ Passed(toRx', k) /\ (HasPiece(toRx') => HasPiece(toRx))
  BY <1>1, <1>2, <1>3, <1>4, <1>5, JoinOffer
<1>7. /\ filing' <= k /\ Len(kept') <= k /\ Len(content') <= FileBlocks
      /\ filing' # 0 => Len(kept') < filing'
  BY <1>1, <1>2 DEF Numbered
<1> QED BY <1>2, <1>6, <1>7 DEF Numbered, k

\* What the sender says of itself to a header: one frame that begins something,
Saying(x) ==
  /\ toRx' = toRx \o <<x>> /\ Fresh(x) /\ Tag(x) \notin {"ZFILE", "file"} /\ Sized(x)
  /\ sender'.file = sender.file /\ sender'.phase # "data"
  /\ sender'.phase \in Asking => sender.phase \in Asking /\ Tag(x) \notin Pieces

\* ... or nothing.
Silent ==
  /\ toRx' = toRx /\ sender'.file = sender.file
  /\ sender' = sender \/ sender'.phase # "data"
  /\ sender'.phase \in Asking => sender.phase \in Asking

\* Whatever the sender hears, it says one of these.
LEMMA HeardLine ==
  ASSUME ZTyped, Zm!SenderHears
  PROVE  Offering \/ (\E x \in Line : Saying(x)) \/ Silent
<1> DEFINE h == Head(toTx)
           r == Zm!Reaction(h)
<1>1. /\ toTx # <<>>
      /\ \/ sender' = r.state /\ toRx' = toRx \o r.sends
         \/ sender' = sender /\ toRx' = toRx
  BY DEF Zm!SenderHears
<1>2. h \in Header
  BY <1>1, TailOf DEF ZTyped
<1>3. h.pos \in Nat
  BY <1>2 DEF Header
<1> HIDE DEF h
<1>4. /\ Zm!To("name").phase = "name" /\ Zm!To("name").file = sender.file
      /\ Zm!To("fin").phase = "fin" /\ Zm!To("fin").file = sender.file
      /\ Zm!To("over").phase = "over" /\ Zm!To("over").file = sender.file
      /\ Zm!To("head").phase = "head" /\ Zm!To("head").file = sender.file
      /\ Rewound(h.pos).phase = "head" /\ Rewound(h.pos).file = sender.file
      /\ Rewound(sender.from).phase = "head" /\ Rewound(sender.from).file = sender.file
      /\ sender.file \in Nat /\ sender.from \in Nat
  BY <1>3, SenderTyped, Kinds
<1>5. toRx \o <<>> = toRx
  BY ConcatEmptySeq DEF ZTyped
<1>6. /\ Zm!Hdr("ZRQINIT", 0) \in Line /\ Tag(Zm!Hdr("ZRQINIT", 0)) = "ZRQINIT"
      /\ Zm!Hdr("ZFIN", 0) \in Line /\ Tag(Zm!Hdr("ZFIN", 0)) = "ZFIN"
      /\ Zm!Hdr("ZEOF", FileBlocks) \in Line /\ Tag(Zm!Hdr("ZEOF", FileBlocks)) = "ZEOF"
      /\ Zm!EndOfFrame \in Line /\ Tag(Zm!EndOfFrame) = "data"
      /\ \A x \in {Zm!Hdr("ZRQINIT", 0), Zm!Hdr("ZFIN", 0), Zm!Hdr("ZEOF", FileBlocks), Zm!EndOfFrame} :
           Fresh(x) /\ Sized(x)
  <2>1. \A t \in {"ZRQINIT", "ZFIN", "ZEOF"}, n \in Nat :
             /\ Zm!Hdr(t, n) \in Line /\ Tag(Zm!Hdr(t, n)) = t
             /\ Fresh(Zm!Hdr(t, n)) /\ Sized(Zm!Hdr(t, n))
    BY HdrMade DEF Types, Fresh, Sized
  <2>2. FileBlocks \in Nat
    BY FilesAssumption
  <2>3. /\ Zm!EndOfFrame \in Line /\ Tag(Zm!EndOfFrame) = "data" /\ Zm!EndOfFrame.kind = "sub"
        /\ Zm!EndOfFrame.block = 0 /\ Zm!EndOfFrame.end = "E"
    BY Made DEF Zm!EndOfFrame
  <2>4. Fresh(Zm!EndOfFrame) /\ Sized(Zm!EndOfFrame)
    BY <2>2, <2>3 DEF Fresh, Sized
  <2> QED BY <2>1, <2>2, <2>3, <2>4
<1>7. ASSUME NEW x \in Line, Fresh(x), Sized(x), Tag(x) \notin {"ZFILE", "file"}, toRx' = toRx \o <<x>>,
             sender'.file = sender.file, sender'.phase # "data",
             sender'.phase \in Asking => sender.phase \in Asking /\ Tag(x) \notin Pieces
      PROVE  \E y \in Line : Saying(y)
  BY <1>7 DEF Saying
<1>8. ASSUME sender' = r.state, toRx' = toRx \o r.sends
      PROVE  Offering \/ (\E x \in Line : Saying(x)) \/ Silent
  <2>0. ASSUME NEW a, NEW b, r = [state |-> a, sends |-> b] PROVE sender' = a /\ toRx' = toRx \o b
    <3>1. r.state = a /\ r.sends = b
      BY <2>0
    <3> QED BY <1>8, <3>1
  <2>1. CASE sender.phase \in Asking /\ r = [state |-> Zm!To("name"), sends |-> Zm!Announce(sender.file)]
    <3>1. sender' = Zm!To("name") /\ toRx' = toRx \o Zm!Announce(sender.file)
      BY <2>0, <2>1, Zenon
    <3> QED BY <1>4, <2>1, <3>1 DEF Offering
  <2>2. CASE r = Zm!NextFile
    <3>1. CASE sender.file + 1 \in 1..Files
      <4> DEFINE t == [phase |-> "name", file |-> sender.file + 1, pos |-> 0, from |-> 0]
                 a == Zm!Announce(sender.file + 1)
      <4>1. sender.file # Files
        BY <3>1, FilesAssumption
      <4>2. Zm!NextFile = [state |-> t, sends |-> a]
        BY <4>1, NextOne
      <4>3. t.phase = "name" /\ t.file = sender.file + 1
        OBVIOUS
      <4> HIDE DEF t, a
      <4>4. sender' = t /\ toRx' = toRx \o a
        BY <1>8, <2>2, <4>2
      <4>5. toRx' = toRx \o Zm!Announce(sender.file + 1)
        BY <4>4 DEF a
      <4> QED BY <4>3, <4>4, <4>5 DEF Offering
    <3>2. CASE sender.file + 1 \notin 1..Files
      <4>1. Zm!NextFile = [state |-> Zm!To("fin"), sends |-> <<Zm!Hdr("ZFIN", 0)>>]
        BY <3>2, NextOne
      <4>2. sender' = Zm!To("fin") /\ toRx' = toRx \o <<Zm!Hdr("ZFIN", 0)>>
        BY <2>0, <2>2, <4>1, Zenon
      <4>3. sender'.phase = "fin" /\ sender'.file = sender.file /\ "fin" \notin Asking
        BY <1>4, <4>2, Kinds
      <4> QED BY <1>6, <1>7, <4>2, <4>3
    <3> QED BY <3>1, <3>2
  <2>3. CASE \E n \in {h.pos, sender.from} : r = [state |-> Rewound(n), sends |-> BrokenOff]
    <3>1. PICK n \in {h.pos, sender.from} : r = [state |-> Rewound(n), sends |-> BrokenOff]
      BY <2>3
    <3>2. sender' = Rewound(n) /\ toRx' = toRx \o BrokenOff
      BY <2>0, <3>1, Zenon
    <3>3. sender'.phase = "head" /\ sender'.file = sender.file /\ "head" \notin Asking
      BY <1>4, <3>2, Kinds
    <3>4. CASE BrokenOff = <<>>
      <4>1. toRx' = toRx
        BY <1>5, <3>2, <3>4
      <4> QED BY <3>3, <4>1 DEF Silent
    <3>5. CASE BrokenOff = <<Zm!EndOfFrame>>
      <4>1. toRx' = toRx \o <<Zm!EndOfFrame>>
        BY <3>2, <3>5
      <4> QED BY <1>6, <1>7, <3>3, <4>1
    <3> QED BY <3>4, <3>5 DEF BrokenOff
  <2>4. CASE \E p \in {"head", "over"} : r = [state |-> Zm!To(p), sends |-> <<>>]
    <3>1. PICK p \in {"head", "over"} : r = [state |-> Zm!To(p), sends |-> <<>>]
      BY <2>4
    <3>2. sender' = Zm!To(p) /\ toRx' = toRx \o <<>>
      BY <2>0, <3>1, Zenon
    <3>3. sender'.phase \in {"head", "over"} /\ sender'.file = sender.file /\ toRx' = toRx
      BY <1>4, <1>5, <3>2
    <3> QED BY <3>3, Kinds DEF Silent
  <2>5. CASE sender.phase = "start" /\ r = [state |-> sender, sends |-> <<Zm!Hdr("ZRQINIT", 0)>>]
    <3>1. sender' = sender /\ toRx' = toRx \o <<Zm!Hdr("ZRQINIT", 0)>>
      BY <2>0, <2>5, Zenon
    <3> QED BY <1>6, <1>7, <2>5, <3>1, Kinds
  <2>6. CASE sender.phase = "name" /\ r = [state |-> sender, sends |-> Zm!Announce(sender.file)]
    <3>1. sender' = sender /\ toRx' = toRx \o Zm!Announce(sender.file)
      BY <2>0, <2>6, Zenon
    <3> QED BY <2>6, <3>1, Kinds DEF Offering
  <2>7. CASE sender.phase = "eof" /\ r = [state |-> sender, sends |-> <<Zm!Hdr("ZEOF", FileBlocks)>>]
    <3>1. sender' = sender /\ toRx' = toRx \o <<Zm!Hdr("ZEOF", FileBlocks)>>
      BY <2>0, <2>7, Zenon
    <3> QED BY <1>6, <1>7, <2>7, <3>1, Kinds
  <2>8. CASE sender.phase = "fin" /\ r = [state |-> sender, sends |-> <<Zm!Hdr("ZFIN", 0)>>]
    <3>1. sender' = sender /\ toRx' = toRx \o <<Zm!Hdr("ZFIN", 0)>>
      BY <2>0, <2>8, Zenon
    <3> QED BY <1>6, <1>7, <2>8, <3>1, Kinds
  <2>9. CASE r = [state |-> sender, sends |-> <<>>]
    <3>1. sender' = sender /\ toRx' = toRx \o <<>>
      BY <2>0, <2>9, Zenon
    <3> QED BY <1>5, <3>1 DEF Silent
  <2> HIDE DEF r
  <2>10. \/ sender.phase \in Asking /\ r = [state |-> Zm!To("name"), sends |-> Zm!Announce(sender.file)]
         \/ r = Zm!NextFile
         \/ r = [state |-> Rewound(h.pos), sends |-> BrokenOff]
         \/ r = [state |-> Rewound(sender.from), sends |-> BrokenOff]
         \/ r = [state |-> Zm!To("head"), sends |-> <<>>]
         \/ r = [state |-> Zm!To("over"), sends |-> <<>>]
         \/ sender.phase = "start" /\ r = [state |-> sender, sends |-> <<Zm!Hdr("ZRQINIT", 0)>>]
         \/ sender.phase = "name" /\ r = [state |-> sender, sends |-> Zm!Announce(sender.file)]
         \/ sender.phase = "eof" /\ r = [state |-> sender, sends |-> <<Zm!Hdr("ZEOF", FileBlocks)>>]
         \/ sender.phase = "fin" /\ r = [state |-> sender, sends |-> <<Zm!Hdr("ZFIN", 0)>>]
         \/ r = [state |-> sender, sends |-> <<>>]
    BY Reacts, ZenonT(60) DEF r
  <2>11. /\ r = [state |-> Rewound(h.pos), sends |-> BrokenOff] =>
              \E n \in {h.pos, sender.from} : r = [state |-> Rewound(n), sends |-> BrokenOff]
         /\ r = [state |-> Rewound(sender.from), sends |-> BrokenOff] =>
              \E n \in {h.pos, sender.from} : r = [state |-> Rewound(n), sends |-> BrokenOff]
         /\ r = [state |-> Zm!To("head"), sends |-> <<>>] =>
              \E p \in {"head", "over"} : r = [state |-> Zm!To(p), sends |-> <<>>]
         /\ r = [state |-> Zm!To("over"), sends |-> <<>>] =>
              \E p \in {"head", "over"} : r = [state |-> Zm!To(p), sends |-> <<>>]
    BY Zenon
  <2> QED BY <2>1, <2>2, <2>3, <2>4, <2>5, <2>6, <2>7, <2>8, <2>9, <2>10, <2>11, ZenonT(60)
<1> HIDE DEF r
<1>9. sender' = sender /\ toRx' = toRx => Silent
  BY DEF Silent
<1> QED BY <1>1, <1>8, <1>9

\* A step of the sender leaves the receiver as counted as it was.
LEMMA CountRests ==
  ASSUME Counted, UNCHANGED <<filing, content, kept, rep>>
  PROVE  Counted'
BY DEF Counted

\* ... whatever the sender says,
LEMMA CountHears ==
  ASSUME ZTyped, LineInv, ReceiverRests, Zm!SenderHears
  PROVE  LineInv'
<1>1. /\ Stream /\ Reads /\ Numbered /\ toRx \in Seq(Line)
      /\ \A i \in 1..Len(toRx) : Sized(toRx[i])
      /\ UNCHANGED <<ps, role, filing, content>> /\ UNCHANGED <<filing, content, kept>>
      /\ sender.file \in Nat
  BY NumbersTyped, RestsSound DEF LineInv
<1>2. CASE Offering
  <2> DEFINE k == sender'.file
  <2>1. Numbered'
    BY <1>1, <1>2, SaysOffer
  <2>2. k \in Nat /\ toRx' = toRx \o Zm!Announce(k) /\ sender'.phase = "name"
    BY <1>1, <1>2 DEF Offering
  <2> HIDE DEF k
  <2>3. Stream' /\ Reads'
    BY <1>1, <2>2, OfferKinds, StreamFresh
  <2>4. \A i \in 1..Len(toRx') : Sized(toRx'[i])
    BY <1>1, <2>2, JoinOffer
  <2> QED BY <2>1, <2>3, <2>4 DEF LineInv
<1>3. ASSUME NEW x \in Line, Saying(x) PROVE LineInv'
  <2>1. /\ toRx' = toRx \o <<x>> /\ Fresh(x) /\ Tag(x) # "ZFILE" /\ Tag(x) # "file" /\ Sized(x)
        /\ sender'.file = sender.file /\ sender'.phase # "data"
        /\ sender'.phase \in Asking => sender.phase \in Asking /\ Tag(x) \notin Pieces
    BY <1>3 DEF Saying
  <2>2. Numbered'
    BY <1>1, <2>1, SaysOther
  <2>3. Stream' /\ Reads'
    <3> DEFINE r == <<x>>
    <3>1. /\ r \in Seq(Line) /\ r # <<>> /\ Fresh(r[1]) /\ Tag(r[Len(r)]) # "ZFILE"
          /\ \A i, j \in 1..Len(r) : j = i + 1 => Fits(r[i], r[j])
      BY <2>1, OneKinds
    <3>2. toRx' = toRx \o r
      BY <2>1
    <3> HIDE DEF r
    <3> QED BY <1>1, <2>1, <3>1, <3>2, StreamFresh
  <2>4. \A i \in 1..Len(toRx') : Sized(toRx'[i])
    BY <1>1, <2>1, JoinOther
  <2> QED BY <2>2, <2>3, <2>4 DEF LineInv
<1>4. CASE Silent
  <2>1. Numbered'
    BY <1>1, <1>4, SaysNothing DEF Silent
  <2>2. Stream' /\ Reads'
    BY <1>1, <1>4, NothingSent DEF Silent
  <2> QED BY <1>1, <1>4, <2>1, <2>2 DEF LineInv, Silent
<1> QED BY <1>2, <1>3, <1>4, HeardLine

\* ... sends unasked,
LEMMA CountSends ==
  ASSUME ZTyped, LineInv, Zm!SenderSends
  PROVE  LineInv'
<1>1. /\ Stream /\ Reads /\ Numbered /\ toRx \in Seq(Line)
      /\ \A i \in 1..Len(toRx) : Sized(toRx[i])
  BY NumbersTyped DEF LineInv
<1>2. /\ ReceiverRests /\ Stream' /\ Reads'
      /\ sender.phase \in Sending /\ sender'.phase \in Sending /\ sender'.file = sender.file
      /\ \E x \in Line :
           /\ toRx' = toRx \o <<x>> /\ Tag(x) \in Pieces
           /\ Tag(x) = "ZEOF" => x.pos = FileBlocks
           /\ Tag(x) = "data" => x.file = sender.file /\ x.block \in 1..FileBlocks
  BY <1>1, SendsPiece
<1>3. PICK x \in Line :
           /\ toRx' = toRx \o <<x>> /\ Tag(x) \in Pieces
           /\ Tag(x) = "data" => x.file = sender.file /\ x.block \in 1..FileBlocks
  BY <1>2
<1>4. /\ UNCHANGED <<filing, content, kept>> /\ sender'.phase \notin Asking
      /\ Tag(x) # "file" /\ Sized(x)
  <2>1. UNCHANGED <<filing, content, kept>>
    BY <1>2, RestsSound
  <2>2. sender'.phase \notin Asking /\ Tag(x) # "file"
    BY <1>2, <1>3, Kinds
  <2>3. Sized(x)
    BY <1>3, FilesAssumption DEF Sized
  <2> QED BY <2>1, <2>2, <2>3
<1>5. Numbered'
  BY <1>1, <1>2, <1>3, <1>4, SaysOther
<1>6. \A i \in 1..Len(toRx') : Sized(toRx'[i])
  BY <1>1, <1>3, <1>4, JoinOther
<1> QED BY <1>2, <1>5, <1>6 DEF LineInv

\* ... or says once more,
LEMMA CountRepeats ==
  ASSUME ZTyped, LineInv, ReceiverRests, Zm!SenderRepeats
  PROVE  LineInv'
<1>1. /\ Stream /\ Reads /\ Numbered /\ toRx \in Seq(Line)
      /\ \A i \in 1..Len(toRx) : Sized(toRx[i])
      /\ UNCHANGED <<filing, content, kept>> /\ sender' = sender
      /\ sender.file \in Nat
  BY NumbersTyped, RestsSound DEF LineInv, Zm!SenderRepeats
<1>2. /\ toRx = <<>> /\ sender.phase \in {"start", "name", "eof", "fin"}
      /\ sender.phase = "start" => toRx' = <<Zm!Hdr("ZRQINIT", 0)>>
      /\ sender.phase = "name" => toRx' = Zm!Announce(sender.file)
      /\ sender.phase = "eof" => toRx' = <<Zm!Hdr("ZEOF", FileBlocks)>>
      /\ sender.phase = "fin" => toRx' = <<Zm!Hdr("ZFIN", 0)>>
  BY Repeated
<1>3. Stream' /\ Reads'
  BY <1>1, RepeatsLine
<1>4. \A r \in Seq(Line) : toRx \o r = r
  BY <1>2, ConcatEmptySeq
<1>5. CASE sender.phase = "name"
  <2> DEFINE k == sender.file
  <2>1. toRx' = toRx \o Zm!Announce(k)
    BY <1>1, <1>2, <1>4, <1>5, OfferMade
  <2>2. Offering
    BY <1>1, <1>5, <2>1, Kinds DEF Offering
  <2>3. Numbered'
    BY <1>1, <2>2, SaysOffer
  <2> HIDE DEF k
  <2>4. k \in Nat
    BY <1>1 DEF k
  <2>5. \A i \in 1..Len(toRx') : Sized(toRx'[i])
    BY <1>1, <2>1, <2>4, JoinOffer
  <2> QED BY <1>3, <2>3, <2>5 DEF LineInv
<1>6. ASSUME NEW t \in {"ZRQINIT", "ZEOF", "ZFIN"}, NEW n \in Nat, toRx' = <<Zm!Hdr(t, n)>>,
             sender.phase \in Asking => t = "ZRQINIT"
      PROVE  LineInv'
  <2> DEFINE x == Zm!Hdr(t, n)
  <2>1. x \in Line /\ Tag(x) = t /\ x.kind = "hdr"
    BY HdrMade DEF Types
  <2> HIDE DEF x
  <2>2. <<x>> \in Seq(Line) /\ toRx' = <<x>>
    BY <1>6, <2>1, OneOf DEF x
  <2>3. toRx' = toRx \o <<x>> /\ Sized(x) /\ Tag(x) # "file"
    BY <1>4, <2>1, <2>2 DEF Sized
  <2>4. sender'.phase \in Asking => sender.phase \in Asking /\ Tag(x) \notin Pieces
    BY <1>1, <1>6, <2>1, Kinds
  <2>5. Numbered'
    BY <1>1, <2>1, <2>3, <2>4, SaysOther
  <2>6. \A i \in 1..Len(toRx') : Sized(toRx'[i])
    BY <1>1, <2>1, <2>3, JoinOther
  <2> QED BY <1>3, <2>5, <2>6 DEF LineInv
<1>7. FileBlocks \in Nat
  BY FilesAssumption
<1> QED BY <1>2, <1>5, <1>6, <1>7, Kinds

\* ... and when it has waited too long,
LEMMA CountTick ==
  ASSUME ZTyped, CountInv, Zm!Tick
  PROVE  CountInv'
<1>1. zstate = "active" /\ UNCHANGED <<ps, role, sender, toRx>>
  BY DEF Zm!Tick
<1>2. Counted /\ LineInv /\ reps \in 0..MaxRep /\ MaxRep \in Nat /\ FileBlocks \in Nat /\ Files \in Nat
  BY <1>1, FilesAssumption DEF CountInv
<1>3. CASE Zm!Finish("failed") /\ Zm!Quiet /\ UNCHANGED reps
  <2>1. /\ zstate' = "failed" /\ filing' = 0 /\ content' = <<>> /\ kept' = kept
        /\ rep' = rep /\ reps' = reps
    BY <1>3 DEF Zm!Finish, Zm!Quiet
  <2> QED BY <1>2, <2>1 DEF CountInv, Counted
<1>4. CASE ~ Zm!Spent /\ Zm!Reply(rep) /\ reps' = reps + 1 /\ Zm!Going
  <2>1. UNCHANGED <<zstate, filing, content, kept>> /\ Len(rep') = 1
    BY <1>4, ReplyOne DEF Zm!Going
  <2>2. reps' \in 0..MaxRep
    BY <1>2, <1>4 DEF Zm!Spent
  <2>3. Counted'
    BY <1>2, <2>1 DEF Counted
  <2>4. Numbered'
    BY <1>1, <1>2, <2>1 DEF LineInv, Numbered
  <2>5. Stream' /\ Reads'
    BY <1>1, <1>2, <2>1 DEF LineInv, Stream, Reads
  <2>6. LineInv'
    BY <1>1, <1>2, <2>4, <2>5 DEF LineInv
  <2> QED BY <2>2, <2>3, <2>6 DEF CountInv
<1> QED BY <1>3, <1>4 DEF Zm!Tick

\* ... or the user has.
LEMMA CountCancel ==
  ASSUME ZTyped, CountInv, Zm!Cancel
  PROVE  CountInv'
<1>1. /\ zstate' = "cancelled" /\ filing' = 0 /\ content' = <<>> /\ kept' = kept /\ reps' = reps
      /\ Zm!Reply(<<Zm!Hdr("ZABORT", 0)>>)
  BY DEF Zm!Cancel, Zm!Finish
<1>2. Len(rep') = 1
  BY <1>1, ReplyOne
<1> QED BY <1>1, <1>2, FilesAssumption DEF CountInv, Counted

\* CountInv is inductive.
LEMMA CountStep ==
  ASSUME ZTyped, CountInv, [Zm!Next]_zmVars
  PROVE  CountInv'
<1>1. CASE Zm!Feed
  <2>1. zstate = "active" /\ reps' = reps
    BY <1>1 DEF Zm!Feed
  <2> QED BY <1>1, <2>1, CountFeed DEF CountInv
<1>2. ASSUME ReceiverRests, reps' = reps, LineInv => LineInv'
      PROVE  CountInv'
  <2>1. UNCHANGED <<filing, content, kept, rep>> /\ zstate' = zstate
    BY <1>2 DEF ReceiverRests
  <2> QED BY <1>2, <2>1, CountRests DEF CountInv
<1>3. CASE Zm!SenderHears
  <2>1. ReceiverRests /\ reps' = reps
    BY <1>3 DEF Zm!SenderHears, ReceiverRests
  <2> QED BY <1>2, <1>3, <2>1, CountHears
<1>4. CASE Zm!SenderSends
  <2>1. ReceiverRests /\ reps' = reps
    BY <1>4 DEF Zm!SenderSends, ReceiverRests
  <2> QED BY <1>2, <1>4, <2>1, CountSends
<1>5. CASE Zm!SenderRepeats
  <2>1. ReceiverRests /\ reps' = reps
    BY <1>5 DEF Zm!SenderRepeats, ReceiverRests
  <2> QED BY <1>2, <1>5, <2>1, CountRepeats
<1>6. CASE UNCHANGED zmVars
  <2>1. ReceiverRests /\ reps' = reps /\ sender' = sender /\ toRx' = toRx
    BY <1>6 DEF zmVars, ReceiverRests
  <2>2. UNCHANGED <<ps, role, filing, content, kept>>
    BY <2>1 DEF ReceiverRests
  <2>3. LineInv => LineInv'
    BY <2>1, <2>2 DEF LineInv, Numbered, Stream, Reads
  <2> QED BY <1>2, <2>1, <2>3
<1>7. CASE Zm!SenderStops
  BY <1>7, StopEnds, FilesAssumption DEF CountInv, Counted
<1> QED BY <1>1, <1>3, <1>4, <1>5, <1>6, <1>7, CountTick, CountCancel DEF Zm!Next

\* It holds at the beginning.
LEMMA CountInit ==
  ASSUME Zm!Init
  PROVE  CountInv
<1>1. /\ ps = "hdr" /\ filing = 0 /\ content = <<>> /\ kept = <<>> /\ rep = <<>> /\ reps = 0
      /\ sender = [phase |-> "start", file |-> 1, pos |-> 0, from |-> 0]
      /\ toRx = <<Zm!Hdr("ZRQINIT", 0)>>
  BY DEF Zm!Init
<1>2. sender.phase = "start" /\ sender.file = 1
  BY <1>1
<1> DEFINE x == Zm!Hdr("ZRQINIT", 0)
<1>3. x \in Line /\ Tag(x) = "ZRQINIT"
  BY Made DEF Types
<1>4. toRx = <<x>>
  BY <1>1
<1> HIDE DEF x
<1>5. Len(toRx) = 1 /\ toRx[1] = x /\ toRx # <<>> /\ 1..Len(toRx) = {1}
  BY <1>3, <1>4, OneOf
<1>6. Len(kept) = 0 /\ Len(content) = 0 /\ Len(rep) = 0
  BY <1>1
<1>7. \A i \in 1..Len(toRx) : Tag(toRx[i]) # "file" /\ Tag(toRx[i]) \notin Pieces /\ Sized(toRx[i])
  BY <1>3, <1>5, Kinds DEF Sized
<1>8. /\ Above(toRx, Len(kept)) /\ UpTo(toRx, sender.file) /\ Later(toRx, filing) /\ Climbs(toRx)
      /\ Passed(toRx, sender.file) /\ ~ HasPiece(toRx)
  BY <1>7 DEF Above, UpTo, Later, Climbs, Passed, HasPiece
<1>9. Numbered
  BY <1>1, <1>2, <1>6, <1>8, FilesAssumption DEF Numbered
<1>10. Stream /\ Reads
  <2>1. \A i, j \in 1..Len(toRx) : j # i + 1
    BY <1>5
  <2> QED BY <1>1, <1>2, <1>3, <1>5, <2>1 DEF Stream, Reads
<1> QED BY <1>1, <1>6, <1>7, <1>9, <1>10, FilesAssumption DEF CountInv, LineInv, Counted

\* The types of the receiver, from ZTyped and CountInv.
LEMMA ReceiverTyping == TerminalSpec => []Zm!TypeOK
<1>1. Zm!Init => CountInv
  BY CountInit
<1>2. ZTyped /\ CountInv /\ [Zm!Next]_zmVars => CountInv'
  BY CountStep
<1>3. ZTyped /\ CountInv => Zm!TypeOK
  BY DEF ZTyped, CountInv, Counted, Zm!TypeOK
<1> QED BY <1>1, <1>2, <1>3, TerminalReceiver, ReceiverInvariant, PTL

\* The ring, the users of the socket and the receiver are well typed: the ring for
\* any capacity, the sessions for any consoles, and a receiver holds no more files
\* and blocks than the sender has, and repeats itself no more often than it may.
THEOREM TerminalTyped == TerminalSpec => []Typed
<1>1. TypeOK /\ Tcp!TypeOK /\ Zm!TypeOK => Typed
  BY DEF Typed
<1> QED BY <1>1, RingTyping, SessionsTyping, ReceiverTyping, PTL
=============================================================================
