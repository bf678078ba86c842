------------------------------ MODULE FtpProofs ------------------------------
(***************************************************************************)
(* The FTP server holds what its session needs and no more, and a transfer *)
(* that its client is told to be complete is, for files and windows of any *)
(* size and for clients that do not wait for their replies.                *)
(***************************************************************************)
EXTENDS Services, FiniteSetTheorems, SequenceTheorems, TLAPS

\* What is answered: the replies that end a command.
Finals(s) == {i \in 1 .. Len(s) : s[i] # "mark"}
Count(s) == Cardinality(Finals(s))

\* The last command answered was answered with r.
Endings(s, r) ==
    \E k \in 1 .. Len(s) :
        s[k] = r /\ \A j \in 1 .. Len(s) : j > k => s[j] = "mark"

Talking == link \in {"up", "hung"}
Kinds == {"mark", "final", "stored", "fetched"}

Flags ==
    /\ ctl \in BOOLEAN /\ logged \in BOOLEAN /\ listener \in BOOLEAN
    /\ data \in BOOLEAN /\ writer \in BOOLEAN

FTyping ==
    /\ Flags
    /\ xfer \in {"none", "RETR", "STOR"}
    /\ off \in Nat /\ size \in Nat /\ file \in Nat /\ wire \in Nat
    /\ moved \in Nat /\ asked \in Nat
    /\ link \in {"none", "waiting", "up", "closed", "hung"}
    /\ inbox \in Seq(FTP!Verbs) /\ replies \in Seq(Kinds)
    /\ cdata \in {"none", "open", "fin", "reset"}
    /\ verdict \in {"none", "void", "stored", "fetched"}

\* The two ends of the control connection.
Session ==
    /\ FTP!HandlesHeld
    /\ data => xfer # "none"
    /\ ctl <=> link \in {"up", "closed"}
    /\ ~ctl => inbox = <<>>
    /\ ~Talking => asked = 0 /\ replies = <<>>

\* No command is answered twice.
Counted ==
    Talking => asked >= Count(replies) + Len(inbox) + (IF xfer = "none" THEN 0 ELSE 1)

\* What the two ends of a data connection have of the file.
Moving ==
    /\ data => cdata # "none"
    /\ cdata = "fin" => xfer = "STOR"
    /\ listener /\ xfer = "none" => wire = 0
    /\ listener /\ cdata # "none" /\ xfer # "STOR" => moved = 0 /\ wire = 0
    /\ xfer = "STOR" /\ ~data => file = 0
    /\ xfer = "STOR" /\ cdata \in {"open", "fin"} => moved = file + wire
    /\ xfer = "RETR" => size = file
    /\ xfer = "RETR" /\ ~data => off = 0
    /\ xfer = "RETR" /\ cdata = "open" => moved + wire = off
    /\ xfer = "RETR" /\ cdata = "reset" /\ link = "up" /\ verdict # "void"
         /\ asked = Count(replies) + 1 => moved + wire = off

\* The data connection is gone and what r says is so.
Whole(r) ==
    /\ xfer = "none" /\ ~listener /\ cdata = "none"
    /\ r = "stored" => file = moved /\ wire = 0
    /\ r = "fetched" => moved + wire = file

Told ==
    /\ Talking /\ asked = Count(replies) /\ verdict # "void" =>
         \A r \in {"stored", "fetched"} : Endings(replies, r) => Whole(r)
    /\ verdict \in {"stored", "fetched"} => Talking /\ asked = 0 /\ Whole(verdict)

FInv == FTyping /\ Session /\ Counted /\ Moving /\ Told
-----------------------------------------------------------------------------
(* Replies.                                                                *)

LEMMA FinalsFinite ==
  ASSUME NEW s \in Seq(Kinds)
  PROVE  IsFiniteSet(Finals(s)) /\ Count(s) \in Nat
<1>1. IsFiniteSet(1 .. Len(s)) /\ Finals(s) \subseteq 1 .. Len(s)
  BY FS_Interval DEF Finals
<1>2. IsFiniteSet(Finals(s))
  BY <1>1, FS_Subset
<1> QED BY <1>2, FS_CardinalityType DEF Count

LEMMA CountEmpty ==
  Count(<<>>) = 0 /\ \A r : ~Endings(<<>>, r)
<1>1. Finals(<<>>) = {}
  BY DEF Finals
<1>2. Count(<<>>) = 0
  BY <1>1, FS_EmptySet DEF Count
<1>3. \A r : ~Endings(<<>>, r)
  BY DEF Endings
<1> QED BY <1>2, <1>3

LEMMA CountAppend ==
  ASSUME NEW s \in Seq(Kinds), NEW m \in Kinds
  PROVE  /\ Append(s, m) \in Seq(Kinds)
         /\ Count(Append(s, m)) = Count(s) + (IF m = "mark" THEN 0 ELSE 1)
<1> DEFINE t == Append(s, m)
           n == Len(s)
<1>1. /\ t \in Seq(Kinds) /\ Len(t) = n + 1 /\ n \in Nat
      /\ \A i \in 1 .. n : t[i] = s[i]
      /\ t[n + 1] = m
  OBVIOUS
<1> HIDE DEF t
<1>2. IsFiniteSet(Finals(s)) /\ n + 1 \notin Finals(s) /\ Count(s) \in Nat
  BY <1>1, FinalsFinite DEF Finals
<1>3. CASE m = "mark"
  <2>1. Finals(t) = Finals(s)
    BY <1>1, <1>3 DEF Finals
  <2> QED BY <1>1, <1>2, <1>3, <2>1 DEF Count, t
<1>4. CASE m # "mark"
  <2>1. Finals(t) = Finals(s) \cup {n + 1}
    BY <1>1, <1>4 DEF Finals
  <2>2. Cardinality(Finals(t)) = Cardinality(Finals(s)) + 1
    BY <1>2, <2>1, FS_AddElement
  <2> QED BY <1>1, <1>4, <2>2 DEF Count, t
<1> QED BY <1>3, <1>4

LEMMA EndsAppend ==
  ASSUME NEW s \in Seq(Kinds), NEW m \in Kinds, NEW r
  PROVE  Endings(Append(s, m), r) => (m = "mark" /\ Endings(s, r)) \/ m = r
<1> DEFINE t == Append(s, m)
           n == Len(s)
<1>1. /\ Len(t) = n + 1 /\ n \in Nat
      /\ \A i \in 1 .. n : t[i] = s[i]
      /\ t[n + 1] = m
  OBVIOUS
<1> HIDE DEF t
<1> SUFFICES ASSUME Endings(t, r), m # r PROVE m = "mark" /\ Endings(s, r)
  BY DEF t
<1>2. PICK k \in 1 .. n + 1 :
        t[k] = r /\ \A j \in 1 .. n + 1 : j > k => t[j] = "mark"
  BY <1>1 DEF Endings
<1>3. k \in 1 .. n
  BY <1>1, <1>2
<1>4. m = "mark"
  BY <1>1, <1>2, <1>3
<1>5. s[k] = r /\ \A j \in 1 .. n : j > k => s[j] = "mark"
  BY <1>1, <1>2, <1>3
<1> QED BY <1>3, <1>4, <1>5 DEF Endings

LEMMA CountTail ==
  ASSUME NEW s \in Seq(Kinds), s # <<>>
  PROVE  /\ Tail(s) \in Seq(Kinds) /\ Head(s) \in Kinds
         /\ Count(s) = Count(Tail(s)) + (IF Head(s) = "mark" THEN 0 ELSE 1)
         /\ \A r : Endings(Tail(s), r) => Endings(s, r)
<1> DEFINE t == Tail(s)
           n == Len(s)
           S == Finals(s) \ {1}
           T == Finals(t)
           f == [i \in T |-> i + 1]
<1>1. n \in Nat \ {0}
  BY EmptySeq
<1>2. /\ t \in Seq(Kinds) /\ Len(t) = n - 1 /\ Head(s) = s[1] /\ s[1] \in Kinds
      /\ \A i \in 1 .. n - 1 : t[i] = s[i + 1]
  BY <1>1, HeadTailProperties, ElementOfSeq
<1> HIDE DEF t
<1>3. /\ IsFiniteSet(Finals(s)) /\ IsFiniteSet(T)
      /\ Count(s) \in Nat /\ Count(t) \in Nat
  BY <1>2, FinalsFinite
<1>4. f \in Bijection(T, S)
  <2>1. \A i \in T : i \in 1 .. n - 1 /\ i + 1 \in S
    BY <1>1, <1>2 DEF Finals
  <2>2. \A j \in S : j - 1 \in T /\ (j - 1) + 1 = j
    BY <1>1, <1>2 DEF Finals
  <2>3. f \in [T -> S] /\ \A i \in T : f[i] = i + 1
    BY <2>1
  <2>4. f \in Injection(T, S)
    BY <2>1, <2>3 DEF Injection, IsInjective
  <2>5. f \in Surjection(T, S)
    BY <2>2, <2>3 DEF Surjection
  <2> QED BY <2>4, <2>5 DEF Bijection
<1>5. Cardinality(S) = Cardinality(T)
  BY <1>3, <1>4, FS_Bijection DEF ExistsBijection
<1>6. Count(s) = Count(t) + (IF s[1] = "mark" THEN 0 ELSE 1)
  <2>1. 1 \in Finals(s) <=> s[1] # "mark"
    BY <1>1 DEF Finals
  <2>2. Cardinality(S) = IF 1 \in Finals(s) THEN Cardinality(Finals(s)) - 1
                                            ELSE Cardinality(Finals(s))
    BY <1>3, FS_RemoveElement
  <2> QED BY <1>3, <1>5, <2>1, <2>2 DEF Count
<1>7. ASSUME NEW r, Endings(t, r) PROVE Endings(s, r)
  <2>1. PICK k \in 1 .. n - 1 :
          t[k] = r /\ \A j \in 1 .. n - 1 : j > k => t[j] = "mark"
    BY <1>2, <1>7 DEF Endings
  <2>2. k + 1 \in 1 .. n /\ s[k + 1] = r
    BY <1>1, <1>2, <2>1
  <2>3. ASSUME NEW j \in 1 .. n, j > k + 1 PROVE s[j] = "mark"
    <3>1. j - 1 \in 1 .. n - 1 /\ j - 1 > k /\ (j - 1) + 1 = j
      BY <1>1, <2>1, <2>3
    <3> QED BY <1>2, <2>1, <3>1
  <2> QED BY <2>2, <2>3 DEF Endings
<1> QED BY <1>2, <1>6, <1>7 DEF t

\* A command's reply is one final reply, unless the client is gone.
LEMMA PutCounted ==
  ASSUME replies \in Seq(Kinds), NEW m \in Kinds, FTP!Put(m)
  PROVE  /\ replies' \in Seq(Kinds) /\ Count(replies) \in Nat
         /\ link # "up" => replies' = replies
         /\ link = "up" =>
              /\ Count(replies') = Count(replies) + (IF m = "mark" THEN 0 ELSE 1)
              /\ \A r : Endings(replies', r) => (m = "mark" /\ Endings(replies, r)) \/ m = r
  BY CountAppend, EndsAppend, FinalsFinite DEF FTP!Put

LEMMA CountNat ==
  ASSUME FInv
  PROVE  Count(replies) \in Nat /\ Len(inbox) \in Nat
  BY FinalsFinite DEF FInv, FTyping
-----------------------------------------------------------------------------
LEMMA InitFtp ==
  ASSUME FTP!Init
  PROVE  FInv
<1>1. FTyping
  <2>1. Flags
    BY Zenon DEF FTP!Init, Flags
  <2>2. <<>> \in Seq(FTP!Verbs) /\ <<>> \in Seq(Kinds)
    OBVIOUS
  <2> QED BY <2>1, <2>2 DEF FTP!Init, FTyping
<1>2. Session
  BY DEF FTP!Init, Session, FTP!HandlesHeld, Talking
<1>3. Counted /\ Told
  BY DEF FTP!Init, Counted, Told, Talking
<1>4. Moving
  BY DEF FTP!Init, Moving
<1> QED BY <1>1, <1>2, <1>3, <1>4 DEF FInv

(***************************************************************************)
(* The server.                                                             *)
(***************************************************************************)
LEMMA StartFtp ==
  ASSUME FInv, NEW c \in Starters, FTP!Start(c)
  PROVE  FInv'
<1>1. /\ UNCHANGED <<ctl, logged, listener, data, xfer, off, size, writer, file, FTP!ftpClient>>
      /\ ~ctl
  BY DEF FTP!Start, FInv, Session, FTP!HandlesHeld
<1>2. FTyping' /\ Counted' /\ Moving' /\ Told'
  BY <1>1 DEF FTP!ftpClient, FInv, FTyping, Flags, Counted, Moving, Told,
      Talking, Whole
<1>3. Session'
  BY <1>1 DEF FTP!ftpClient, FInv, Session, FTP!HandlesHeld, Talking
<1> QED BY <1>2, <1>3 DEF FInv

\* What is common to Stop and Dropped: both ends of the session go, and what
\* the client was told, if anything, stays so.
LEMMA GoneFtp ==
  ASSUME FInv, FTP!HangUp, FTP!CloseData, FTP!XferClear, UNCHANGED <<file, polite, asked, moved, verdict>>,
         replies' \in Seq(Kinds),
         Talking => asked >= Count(replies'),
         Talking /\ asked = Count(replies') /\ verdict # "void" =>
             \A r \in {"stored", "fetched"} : Endings(replies', r) => Whole(r),
         ~Talking => replies' = replies
  PROVE  FInv'
<1>1. /\ ~ctl' /\ inbox' = <<>> /\ Len(inbox') = 0
      /\ ~data' /\ ~listener' /\ cdata' = "none"
      /\ xfer' = "none" /\ off' = 0 /\ size' = 0 /\ ~writer'
      /\ wire' = IF xfer = "STOR" THEN 0 ELSE wire
      /\ link' \in {"none", "hung"}
      /\ link' = "hung" => link \in {"waiting", "up", "hung"}
      /\ link \in {"up", "hung"} => link' = "hung"
  BY DEF FTP!HangUp, FTP!CloseData, FTP!XferClear, FInv, FTyping
<1>2. FTyping'
  <2>1. Flags'
    BY Zenon DEF FTP!HangUp, FTP!CloseData, FTP!XferClear, FInv, FTyping, Flags
  <2>2. <<>> \in Seq(FTP!Verbs)
    OBVIOUS
  <2> QED BY <1>1, <2>1, <2>2 DEF FInv, FTyping
<1>3. Session'
  BY <1>1 DEF FInv, Session, FTP!HandlesHeld, Talking, FTyping
<1>4. Counted'
  <2>1. CASE Talking
    BY <1>1, <2>1, FinalsFinite DEF FInv, FTyping, Counted
  <2>2. CASE ~Talking
    BY <1>1, <2>2, CountEmpty DEF FInv, Session, Counted
  <2> QED BY <2>1, <2>2
<1>5. Moving'
  BY <1>1 DEF Moving
<1>6. \A r \in {"stored", "fetched"} : Whole(r) => Whole(r)'
  BY <1>1 DEF Whole
<1>7. Told'
  <2>1. CASE Talking
    BY <1>1, <1>6, <2>1 DEF FInv, Told, Talking
  <2>2. CASE ~Talking
    BY <1>1, <2>2, CountEmpty DEF FInv, Session, Told
  <2> QED BY <2>1, <2>2
<1> QED BY <1>2, <1>3, <1>4, <1>5, <1>7 DEF FInv

LEMMA StopFtp ==
  ASSUME FInv, NEW c \in Starters, FTP!Stop(c)
  PROVE  FInv'
<1>1. /\ FTP!HangUp /\ FTP!CloseData /\ FTP!XferClear
      /\ UNCHANGED <<file, polite, asked, moved, verdict>> /\ replies' = replies
  BY DEF FTP!Stop
<1>2. Talking => asked >= Count(replies)
  BY CountNat DEF FInv, FTyping, Counted
<1> QED BY <1>1, <1>2, GoneFtp DEF FInv, FTyping, Told

LEMMA AcceptFtp ==
  ASSUME FInv, owner # None, FTP!Accept
  PROVE  FInv'
<1>1. /\ ~ctl /\ link = "waiting" /\ ctl' /\ link' = "up" /\ replies' = <<>>
      /\ UNCHANGED <<owner, listener, data, xfer, off, size, writer, file, polite,
                     inbox, asked, cdata, wire, moved, verdict>>
      /\ inbox = <<>> /\ xfer = "none" /\ ~data /\ ~listener /\ asked = 0 /\ ~Talking
  BY DEF FTP!Accept, FInv, Session, FTP!HandlesHeld, Talking
<1>2. FTyping'
  <2>1. Flags'
    BY Zenon DEF FTP!Accept, FInv, FTyping, Flags
  <2>2. <<>> \in Seq(Kinds)
    OBVIOUS
  <2> QED BY <1>1, <2>1, <2>2 DEF FInv, FTyping
<1>3. Session'
  BY <1>1 DEF FInv, Session, FTP!HandlesHeld, Talking
<1>4. Counted'
  BY <1>1, CountEmpty DEF Counted
<1>5. Moving'
  BY <1>1 DEF FInv, Moving
<1>6. Told'
  BY <1>1, CountEmpty DEF FInv, Told
<1> QED BY <1>2, <1>3, <1>4, <1>5, <1>6 DEF FInv

LEMMA AcceptDataFtp ==
  ASSUME FInv, xfer # "none", FTP!AcceptData
  PROVE  FInv'
<1>1. /\ ~data /\ cdata # "none" /\ data' /\ ~listener'
      /\ UNCHANGED <<owner, ctl, logged, xfer, off, size, writer, file, FTP!ftpClient>>
  BY DEF FTP!AcceptData
<1>2. FTyping'
  BY <1>1 DEF FTP!AcceptData, FTP!ftpClient, FInv, FTyping, Flags
<1>3. Session'
  BY <1>1 DEF FTP!ftpClient, FInv, Session, FTP!HandlesHeld, Talking
<1>4. Counted' /\ Told'
  BY <1>1 DEF FTP!ftpClient, FInv, Counted, Told, Talking, Whole
<1>5. Moving'
  BY <1>1 DEF FTP!ftpClient, FInv, Moving
<1> QED BY <1>2, <1>3, <1>4, <1>5 DEF FInv

\* The end of a transfer, told with m.
LEMMA EndedFtp ==
  ASSUME FInv, ctl, xfer # "none", FTP!CloseData, FTP!XferClear, NEW m \in Kinds, m # "mark",
         FTP!Put(m),
         m = "stored" => xfer = "STOR" /\ file = moved,
         m = "fetched" => xfer = "RETR" /\
             (link = "up" /\ verdict # "void" /\ asked = Count(replies) + 1 =>
                moved + wire = file),
         UNCHANGED <<owner, ctl, logged, file, polite, link, inbox, asked, moved, verdict>>
  PROVE  FInv'
<1>1. /\ ~data' /\ ~listener' /\ cdata' = "none"
      /\ xfer' = "none" /\ off' = 0 /\ size' = 0 /\ ~writer'
      /\ wire' = IF xfer = "STOR" THEN 0 ELSE wire
  BY DEF FTP!CloseData, FTP!XferClear
<1>2. /\ replies' \in Seq(Kinds) /\ Count(replies) \in Nat
      /\ link # "up" => replies' = replies
      /\ link = "up" =>
           /\ Count(replies') = Count(replies) + 1
           /\ \A r : Endings(replies', r) => m = r
  BY PutCounted DEF FInv, FTyping
<1>3. link \in {"up", "closed"} /\ (Talking <=> link = "up") /\ (Talking' <=> Talking)
  BY DEF FInv, Session, Talking
<1>4. FTyping'
  <2>1. Flags'
    BY Zenon DEF FTP!CloseData, FTP!XferClear, FInv, FTyping, Flags
  <2> QED BY <1>1, <1>2, <2>1 DEF FInv, FTyping
<1>5. Session'
  BY <1>1, <1>2, <1>3 DEF FInv, Session, FTP!HandlesHeld
<1>6. Counted'
  BY <1>1, <1>2, <1>3, CountNat DEF FInv, Counted
<1>7. Moving'
  BY <1>1 DEF Moving
<1>8. Told'
  <2>1. verdict \notin {"stored", "fetched"}
    BY DEF FInv, Told, Whole
  <2>2. ASSUME Talking', asked = Count(replies'), verdict # "void",
               NEW r \in {"stored", "fetched"}, Endings(replies', r)
        PROVE  Whole(r)'
    <3>1. m = r /\ link = "up" /\ asked = Count(replies) + 1
      BY <1>2, <1>3, <2>2
    <3> QED BY <1>1, <2>2, <3>1 DEF Whole, FInv, FTyping
  <2> QED BY <2>1, <2>2 DEF Told
<1> QED BY <1>4, <1>5, <1>6, <1>7, <1>8 DEF FInv

LEMMA FailFtp ==
  ASSUME FInv, ctl, xfer # "none", FTP!Fail
  PROVE  FInv'
  BY EndedFtp DEF FTP!Fail, Kinds

LEMMA FinishRetrFtp ==
  ASSUME FInv, ctl, xfer = "RETR", data, off = size, FTP!Finish
  PROVE  FInv'
<1>1. cdata \in {"open", "reset"} /\ size = file
  BY DEF FInv, FTyping, Moving
<1>2. link = "up" /\ verdict # "void" /\ asked = Count(replies) + 1 =>
        moved + wire = file
  BY <1>1 DEF FInv, Moving
<1> QED BY <1>2, EndedFtp DEF FTP!Finish, Kinds

LEMMA FinishStorFtp ==
  ASSUME FInv, ctl, xfer = "STOR", data, wire = 0, cdata = "fin", FTP!Finish
  PROVE  FInv'
<1>1. file = moved
  BY DEF FInv, FTyping, Moving
<1> QED BY <1>1, EndedFtp DEF FTP!Finish, Kinds

LEMMA SendChunkFtp ==
  ASSUME FInv, xfer = "RETR", data, FTP!SendChunk
  PROVE  FInv'
<1>1. /\ off' = off + 1 /\ wire' = wire + 1 /\ cdata = "open"
      /\ UNCHANGED <<owner, ctl, logged, listener, data, xfer, size, writer, file,
                     polite, link, inbox, replies, asked, cdata, moved, verdict>>
      /\ off \in Nat /\ wire \in Nat /\ moved \in Nat
  BY DEF FTP!SendChunk, FInv, FTyping
<1>2. FTyping'
  BY <1>1 DEF FInv, FTyping, Flags
<1>3. Session' /\ Counted'
  BY <1>1 DEF FInv, Session, FTP!HandlesHeld, Counted, Talking
<1>4. Moving'
  BY <1>1 DEF FInv, Session, FTP!HandlesHeld, Moving
<1>5. Told'
  <2>1. ~Whole("stored") /\ ~Whole("fetched")
    BY DEF Whole
  <2> QED BY <1>1, <2>1 DEF FInv, Told, Talking
<1> QED BY <1>2, <1>3, <1>4, <1>5 DEF FInv

LEMMA StoreChunkFtp ==
  ASSUME FInv, xfer = "STOR", data, FTP!StoreChunk
  PROVE  FInv'
<1>1. /\ off' = off + 1 /\ wire' = wire - 1 /\ file' = file + 1 /\ wire > 0
      /\ UNCHANGED <<owner, ctl, logged, listener, data, xfer, size, writer,
                     polite, link, inbox, replies, asked, cdata, moved, verdict>>
      /\ off \in Nat /\ wire \in Nat /\ moved \in Nat /\ file \in Nat
  BY DEF FTP!StoreChunk, FInv, FTyping
<1>2. FTyping'
  BY <1>1 DEF FInv, FTyping, Flags
<1>3. Session' /\ Counted'
  BY <1>1 DEF FInv, Session, FTP!HandlesHeld, Counted, Talking
<1>4. Moving'
  BY <1>1 DEF FInv, Session, FTP!HandlesHeld, Moving
<1>5. Told'
  <2>1. ~Whole("stored") /\ ~Whole("fetched")
    BY DEF Whole
  <2> QED BY <1>1, <2>1 DEF FInv, Told, Talking
<1> QED BY <1>2, <1>3, <1>4, <1>5 DEF FInv

LEMMA XferFtp ==
  ASSUME FInv, ctl, FTP!XferPoll
  PROVE  FInv'
<1>1. CASE FTP!AcceptData
  BY <1>1, AcceptDataFtp DEF FTP!XferPoll
<1>2. CASE FTP!NoDataConnection
  BY <1>2, FailFtp DEF FTP!XferPoll, FTP!NoDataConnection
<1>3. CASE FTP!RetrPoll
  BY <1>3, SendChunkFtp, FinishRetrFtp, FailFtp DEF FTP!XferPoll, FTP!RetrPoll
<1>4. CASE FTP!StorPoll
  BY <1>4, StoreChunkFtp, FinishStorFtp, FailFtp
     DEF FTP!XferPoll, FTP!StorPoll, FTP!DiskFull, FTP!StorEnds
<1>5. CASE FTP!StorIdle
  BY <1>5, FailFtp DEF FTP!XferPoll, FTP!StorIdle
<1> QED BY <1>1, <1>2, <1>3, <1>4, <1>5 DEF FTP!XferPoll

(***************************************************************************)
(* Commands.                                                               *)
(***************************************************************************)

\* A command that leaves the transfer alone is answered with one final reply.
LEMMA AnsweredFtp ==
  ASSUME FInv, ctl, xfer = "none", inbox # <<>>, inbox' = Tail(inbox), FTP!Put("final"),
         UNCHANGED <<owner, ctl, data, xfer, polite, link, asked, moved, verdict>>,
         off' \in Nat, size' \in Nat, file' \in Nat, writer' = FALSE,
         \/ logged' \in BOOLEAN /\ UNCHANGED <<listener, cdata, wire>>
         \/ UNCHANGED logged /\ listener' = TRUE /\ cdata' = "none" /\ wire' = 0
  PROVE  FInv'
<1>1. /\ replies' \in Seq(Kinds) /\ Count(replies) \in Nat
      /\ link # "up" => replies' = replies
      /\ link = "up" =>
           /\ Count(replies') = Count(replies) + 1
           /\ \A r : Endings(replies', r) => r = "final"
  BY PutCounted DEF FInv, FTyping, Kinds
<1>2. /\ inbox' \in Seq(FTP!Verbs) /\ Len(inbox') = Len(inbox) - 1
      /\ Len(inbox) \in Nat \ {0}
  BY HeadTailProperties, EmptySeq DEF FInv, FTyping
<1>3. link \in {"up", "closed"} /\ (Talking <=> link = "up") /\ (Talking' <=> Talking)
  BY DEF FInv, Session, Talking
<1>4. ~data /\ xfer' = "none" /\ ~data'
  BY DEF FInv, Session
<1>5. FTyping'
  <2>1. Flags'
    BY Zenon DEF FInv, FTyping, Flags
  <2> QED BY <1>1, <1>2, <2>1 DEF FInv, FTyping
<1>6. Session'
  BY <1>1, <1>3, <1>4 DEF FInv, Session, FTP!HandlesHeld
<1>7. Counted'
  BY <1>1, <1>2, <1>3 DEF FInv, FTyping, Counted
<1>8. Moving'
  BY <1>4 DEF FInv, Moving
<1>9. Told'
  <2>1. Talking => asked > Count(replies)
    BY <1>1, <1>2 DEF FInv, FTyping, Counted
  <2>2. verdict \notin {"stored", "fetched"}
    <3>1. CASE Talking
      BY <1>1, <2>1, <3>1 DEF FInv, FTyping, Told
    <3> QED BY <3>1 DEF FInv, Told
  <2>3. ASSUME Talking', asked = Count(replies'), NEW r \in {"stored", "fetched"}
        PROVE  ~Endings(replies', r)
    BY <1>1, <1>3, <2>3
  <2> QED BY <2>2, <2>3 DEF Told
<1> QED BY <1>5, <1>6, <1>7, <1>8, <1>9 DEF FInv

\* RETR and STOR with a data connection to come.
LEMMA BegunFtp ==
  ASSUME FInv, ctl, xfer = "none", listener, inbox # <<>>,
         NEW n \in 1 .. Len(inbox), inbox' = SubSeq(inbox, n + 1, Len(inbox)),
         NEW verb \in {"RETR", "STOR"},
         xfer' = verb, off' = 0,
         size' = (IF verb = "STOR" THEN 0 ELSE file),
         file' = (IF verb = "STOR" THEN 0 ELSE file),
         writer' = (verb = "STOR"), FTP!Put("mark"),
         UNCHANGED <<owner, ctl, logged, listener, data, polite, link, asked, cdata,
                     wire, moved, verdict>>
  PROVE  FInv'
<1>1. /\ replies' \in Seq(Kinds) /\ Count(replies) \in Nat
      /\ link # "up" => replies' = replies
      /\ link = "up" => Count(replies') = Count(replies)
  BY PutCounted DEF FInv, FTyping, Kinds
<1>2. /\ inbox' \in Seq(FTP!Verbs) /\ Len(inbox') \in Nat /\ Len(inbox') <= Len(inbox) - 1
      /\ Len(inbox) \in Nat
  <2> DEFINE m == n + 1
             k == Len(inbox)
  <2>1. m \in 1 .. k + 1 /\ k \in Nat /\ inbox \in Seq(FTP!Verbs) /\ n >= 1
    BY DEF FInv, FTyping
  <2>2. SubSeq(inbox, m, k) \in Seq(FTP!Verbs)
        /\ Len(SubSeq(inbox, m, k)) = IF m <= k THEN k - m + 1 ELSE 0
    BY <2>1, SubSeqProperties
  <2> QED BY <2>1, <2>2
<1>3. link \in {"up", "closed"} /\ (Talking <=> link = "up") /\ (Talking' <=> Talking)
  BY DEF FInv, Session, Talking
<1>4. ~data
  BY DEF FInv, Session
<1>5. FTyping'
  <2>1. Flags'
    BY Zenon DEF FInv, FTyping, Flags
  <2> QED BY <1>1, <1>2, <2>1 DEF FInv, FTyping
<1>6. Session'
  BY <1>1, <1>3, <1>4 DEF FInv, Session, FTP!HandlesHeld
<1>7. Counted'
  BY <1>1, <1>2, <1>3 DEF FInv, FTyping, Counted
<1>8. Moving'
  BY <1>4 DEF FInv, FTyping, Moving
<1>9. Told'
  <2>1. Talking => asked > Count(replies)
    BY <1>1, <1>2 DEF FInv, FTyping, Counted
  <2>2. verdict \notin {"stored", "fetched"}
    BY DEF FInv, Told, Whole
  <2> QED BY <1>1, <1>3, <2>1, <2>2 DEF FInv, FTyping, Told
<1> QED BY <1>5, <1>6, <1>7, <1>8, <1>9 DEF FInv

LEMMA CommandFtp ==
  ASSUME FInv, ctl, xfer = "none", inbox # <<>>, NEW verb \in FTP!Verbs, FTP!Command(verb),
         IF ctl' = FALSE THEN inbox' = <<>>
         ELSE IF xfer' = "none" THEN inbox' = Tail(inbox)
         ELSE \E n \in 1 .. Len(inbox) : inbox' = SubSeq(inbox, n + 1, Len(inbox))
  PROVE  FInv'
<1>1. /\ writer = FALSE /\ ctl = TRUE /\ off \in Nat /\ size \in Nat /\ file \in Nat
      /\ logged \in BOOLEAN
  BY DEF FInv, FTyping, Flags, Session, FTP!HandlesHeld
<1>2. CASE \/ verb = "PASS" /\ logged' = TRUE /\ FTP!Answer(<<listener, cdata, wire>>)
           \/ FTP!Refused
  BY <1>1, <1>2, AnsweredFtp DEF FTP!Answer, FTP!Refused
<1>3. CASE /\ listener' = TRUE /\ cdata' = "none" /\ wire' = 0
           /\ FTP!Answer(<<logged>>)
  BY <1>1, <1>3, AnsweredFtp DEF FTP!Answer
<1>4. CASE verb \in {"RETR", "STOR"} /\ FTP!Transfer(verb)
  <2>1. CASE /\ listener /\ xfer' = verb /\ off' = 0
             /\ size' = (IF verb = "STOR" THEN 0 ELSE file)
             /\ writer' = (verb = "STOR") /\ FTP!Put("mark")
    <3>1. PICK n \in 1 .. Len(inbox) : inbox' = SubSeq(inbox, n + 1, Len(inbox))
      BY <1>1, <1>4, <2>1 DEF FTP!Transfer
    <3> QED BY <1>4, <2>1, <3>1, BegunFtp DEF FTP!Transfer
  <2>2. CASE ~listener /\ FTP!XferClear /\ FTP!Put("final")
    <3>1. inbox' = Tail(inbox) /\ file' \in Nat
      BY <1>1, <1>4, <2>2 DEF FTP!Transfer, FTP!XferClear
    <3> QED BY <1>1, <1>4, <2>2, <3>1, AnsweredFtp DEF FTP!Transfer,
        FTP!XferClear
  <2> QED BY <1>4, <2>1, <2>2 DEF FTP!Transfer
<1>5. CASE FTP!Put("final") /\ FTP!Dropped
  <2>1. /\ replies' \in Seq(Kinds) /\ Count(replies) \in Nat
        /\ link # "up" => replies' = replies
        /\ link = "up" =>
             /\ Count(replies') = Count(replies) + 1
             /\ \A r : Endings(replies', r) => r = "final"
    BY <1>5, PutCounted DEF FInv, FTyping, Kinds
  <2>2. Talking <=> link = "up"
    BY DEF FInv, Session, Talking
  <2>3. Len(inbox) \in Nat \ {0}
    BY EmptySeq DEF FInv, FTyping
  <2>4. Talking => asked >= Count(replies')
    BY <2>1, <2>2, <2>3 DEF FInv, FTyping, Counted
  <2>5. ~Talking => replies' = replies
    BY <2>1, <2>2
  <2>6. Talking => \A r \in {"stored", "fetched"} : ~Endings(replies', r)
    BY <2>1, <2>2
  <2> QED BY <1>5, <2>1, <2>4, <2>5, <2>6, GoneFtp DEF FTP!Dropped
<1> QED BY <1>2, <1>3, <1>4, <1>5 DEF FTP!Command

LEMMA CtlReadFtp ==
  ASSUME FInv, ctl, FTP!CtlRead
  PROVE  FInv'
<1>1. CASE /\ inbox # <<>> /\ FTP!Command(Head(inbox))
           /\ IF ctl' = FALSE THEN inbox' = <<>>
              ELSE IF xfer' = "none" THEN inbox' = Tail(inbox)
              ELSE \E n \in 1 .. Len(inbox) :
                      inbox' = SubSeq(inbox, n + 1, Len(inbox))
  <2>1. Head(inbox) \in FTP!Verbs /\ xfer = "none"
    BY <1>1, HeadTailProperties DEF FTP!CtlRead, FInv, FTyping
  <2> QED BY <1>1, <2>1, CommandFtp
<1>2. CASE inbox = <<>> /\ link = "closed" /\ FTP!Dropped /\ UNCHANGED replies
  <2>1. ~Talking /\ replies' \in Seq(Kinds)
    BY <1>2 DEF Talking, FInv, FTyping
  <2> QED BY <1>2, <2>1, GoneFtp DEF FTP!Dropped
<1> QED BY <1>1, <1>2 DEF FTP!CtlRead

LEMMA PollFtp ==
  ASSUME FInv, FTP!Poll
  PROVE  FInv'
  BY AcceptFtp, XferFtp, CtlReadFtp DEF FTP!Poll

(***************************************************************************)
(* The client.                                                             *)
(***************************************************************************)
LEMMA ConnectFtp ==
  ASSUME FInv, FTP!Connect
  PROVE  FInv'
<1>1. /\ link = "none" /\ link' = "waiting" /\ wire' = 0 /\ ~Talking /\ ~Talking'
      /\ UNCHANGED <<FTP!ftpServer, polite, inbox, replies, asked, cdata, moved, verdict>>
      /\ ~ctl /\ xfer = "none"
  BY DEF FTP!Connect, Talking, FInv, Session, FTP!HandlesHeld
<1>2. FTyping'
  BY <1>1 DEF FTP!ftpServer, FInv, FTyping, Flags
<1>3. Session' /\ Counted' /\ Told'
  BY <1>1 DEF FTP!ftpServer, FInv, Session, FTP!HandlesHeld, Counted, Told
<1>4. Moving'
  BY <1>1 DEF FTP!ftpServer, FInv, Moving
<1> QED BY <1>2, <1>3, <1>4 DEF FInv

LEMMA AskFtp ==
  ASSUME FInv, NEW verb \in FTP!Verbs, FTP!Ask(verb)
  PROVE  FInv'
<1>1. /\ link = "up" /\ inbox' = Append(inbox, verb) /\ asked' = asked + 1
      /\ verdict' = "none" /\ asked \in Nat
      /\ UNCHANGED <<FTP!ftpServer, polite, link, replies, cdata, wire, moved>>
      /\ Talking /\ Talking'
  BY DEF FTP!Ask, Talking, FInv, FTyping
<1>2. inbox' \in Seq(FTP!Verbs) /\ Len(inbox') = Len(inbox) + 1
  BY <1>1 DEF FInv, FTyping
<1>3. FTyping'
  BY <1>1, <1>2 DEF FTP!ftpServer, FInv, FTyping, Flags
<1>4. Session'
  BY <1>1 DEF FTP!ftpServer, FInv, Session, FTP!HandlesHeld
<1>5. Counted'
  BY <1>1, <1>2, CountNat DEF FTP!ftpServer, FInv, Counted
<1>6. asked >= Count(replies) + (IF xfer = "none" THEN 0 ELSE 1)
  BY <1>1, CountNat DEF FInv, Counted
<1>7. Moving'
  <2>1. xfer = "RETR" => asked' # Count(replies') + 1
    BY <1>1, <1>6, CountNat DEF FTP!ftpServer
  <2> QED BY <1>1, <2>1 DEF FTP!ftpServer, FInv, Moving
<1>8. Told'
  <2>1. asked' # Count(replies')
    BY <1>1, <1>6, CountNat
  <2> QED BY <1>1, <2>1 DEF Told
<1> QED BY <1>3, <1>4, <1>5, <1>7, <1>8 DEF FInv

LEMMA DialFtp ==
  ASSUME FInv, FTP!Dial
  PROVE  FInv'
<1>1. /\ link = "up" /\ listener /\ cdata = "none"
      /\ cdata' = "open" /\ wire' = 0 /\ moved' = 0
      /\ UNCHANGED <<FTP!ftpServer, polite, link, inbox, replies, asked, verdict>>
  BY DEF FTP!Dial
<1>2. FTyping'
  BY <1>1 DEF FTP!ftpServer, FInv, FTyping, Flags
<1>3. Session' /\ Counted'
  BY <1>1 DEF FTP!ftpServer, FInv, Session, FTP!HandlesHeld, Counted, Talking
<1>4. Moving'
  BY <1>1 DEF FTP!ftpServer, FInv, Session, FTP!HandlesHeld, Moving
<1>5. Told'
  <2>1. ~Whole("stored") /\ ~Whole("fetched")
    BY <1>1 DEF Whole
  <2> QED BY <1>1, <2>1 DEF FTP!ftpServer, FInv, Told, Talking
<1> QED BY <1>2, <1>3, <1>4, <1>5 DEF FInv

LEMMA UploadFtp ==
  ASSUME FInv, FTP!Upload
  PROVE  FInv'
<1>1. /\ xfer = "STOR" /\ cdata = "open" /\ moved' = moved + 1 /\ wire' = wire + 1
      /\ UNCHANGED <<FTP!ftpServer, polite, link, inbox, replies, asked, cdata, verdict>>
      /\ moved \in Nat /\ wire \in Nat /\ file \in Nat
  BY DEF FTP!Upload, FInv, FTyping
<1>2. FTyping'
  BY <1>1 DEF FTP!ftpServer, FInv, FTyping, Flags
<1>3. Session' /\ Counted'
  BY <1>1 DEF FTP!ftpServer, FInv, Session, FTP!HandlesHeld, Counted, Talking
<1>4. Moving'
  BY <1>1 DEF FTP!ftpServer, FInv, Moving
<1>5. Told'
  <2>1. ~Whole("stored") /\ ~Whole("fetched")
    BY <1>1 DEF Whole
  <2> QED BY <1>1, <2>1 DEF FTP!ftpServer, FInv, Told, Talking
<1> QED BY <1>2, <1>3, <1>4, <1>5 DEF FInv

LEMMA DownloadFtp ==
  ASSUME FInv, FTP!Download
  PROVE  FInv'
<1>1. /\ xfer # "STOR" /\ wire > 0 /\ moved' = moved + 1 /\ wire' = wire - 1
      /\ UNCHANGED <<FTP!ftpServer, polite, link, inbox, replies, asked, cdata, verdict>>
      /\ moved \in Nat /\ wire \in Nat
  BY DEF FTP!Download, FInv, FTyping
<1>2. FTyping'
  BY <1>1 DEF FTP!ftpServer, FInv, FTyping, Flags
<1>3. Session' /\ Counted'
  BY <1>1 DEF FTP!ftpServer, FInv, Session, FTP!HandlesHeld, Counted, Talking
<1>4. Moving'
  BY <1>1 DEF FTP!ftpServer, FInv, FTyping, Moving
<1>5. Told'
  <2>1. \A r \in {"stored", "fetched"} : Whole(r) => Whole(r)'
    BY <1>1 DEF FTP!ftpServer, Whole
  <2> QED BY <1>1, <2>1 DEF FTP!ftpServer, FInv, Told, Talking
<1> QED BY <1>2, <1>3, <1>4, <1>5 DEF FInv

LEMMA EndDataFtp ==
  ASSUME FInv, FTP!EndData
  PROVE  FInv'
<1>1. /\ cdata = "open" /\ cdata' \in {"fin", "reset"} /\ wire' \in {wire, 0}
      /\ cdata' = "fin" => xfer = "STOR" /\ wire' = wire
      /\ verdict' = IF cdata' = "reset" /\ xfer = "RETR" THEN "void" ELSE verdict
      /\ UNCHANGED <<FTP!ftpServer, polite, link, inbox, replies, asked, moved>>
  BY DEF FTP!EndData
<1>2. FTyping'
  BY <1>1 DEF FTP!ftpServer, FInv, FTyping, Flags
<1>3. Session' /\ Counted'
  BY <1>1 DEF FTP!ftpServer, FInv, Session, FTP!HandlesHeld, Counted, Talking
<1>4. Moving'
  BY <1>1 DEF FTP!ftpServer, FInv, FTyping, Moving
<1>5. Told'
  <2>1. ~Whole("stored") /\ ~Whole("fetched")
    BY <1>1 DEF Whole
  <2> QED BY <1>1, <2>1 DEF FTP!ftpServer, FInv, Told, Talking
<1> QED BY <1>2, <1>3, <1>4, <1>5 DEF FInv

LEMMA ReadReplyFtp ==
  ASSUME FInv, FTP!ReadReply
  PROVE  FInv'
<1>1. /\ replies # <<>> /\ replies' = Tail(replies)
      /\ UNCHANGED <<FTP!ftpServer, polite, link, inbox, cdata, wire, moved>>
      /\ Talking /\ Talking'
  BY DEF FTP!ReadReply, Talking, FInv, Session
<1>2. /\ replies' \in Seq(Kinds) /\ Head(replies) \in Kinds
      /\ Count(replies) = Count(replies') + (IF Head(replies) = "mark" THEN 0 ELSE 1)
      /\ \A r : Endings(replies', r) => Endings(replies, r)
      /\ Count(replies) \in Nat /\ Count(replies') \in Nat
  BY <1>1, CountTail, FinalsFinite DEF FInv, FTyping
<1>3. CASE Head(replies) = "mark" /\ UNCHANGED <<asked, verdict>>
  <2>1. FTyping'
    BY <1>1, <1>2, <1>3 DEF FTP!ftpServer, FInv, FTyping, Flags
  <2>2. Session' /\ Counted'
    BY <1>1, <1>2, <1>3 DEF FTP!ftpServer, FInv, Session, FTP!HandlesHeld,
        Counted
  <2>3. Moving'
    BY <1>1, <1>2, <1>3 DEF FTP!ftpServer, FInv, Moving
  <2>4. Told'
    BY <1>1, <1>2, <1>3 DEF FTP!ftpServer, FInv, Told, Whole
  <2> QED BY <2>1, <2>2, <2>3, <2>4 DEF FInv
<1>4. CASE /\ Head(replies) # "mark" /\ asked' = asked - 1
           /\ verdict' = IF asked = 1 /\ Head(replies) # "final" /\ verdict # "void"
                         THEN Head(replies) ELSE verdict
  <2>1. /\ asked >= Count(replies) + Len(inbox) + (IF xfer = "none" THEN 0 ELSE 1)
        /\ asked \in Nat \ {0} /\ Count(replies) = Count(replies') + 1
        /\ Len(inbox) \in Nat
    BY <1>1, <1>2, <1>4, CountNat DEF FInv, FTyping, Counted
  <2>2. FTyping'
    BY <1>1, <1>2, <1>4, <2>1 DEF FTP!ftpServer, FInv, FTyping, Flags, Kinds
  <2>3. Session'
    BY <1>1 DEF FTP!ftpServer, FInv, Session, FTP!HandlesHeld
  <2>4. Counted'
    BY <1>1, <1>2, <1>4, <2>1 DEF FTP!ftpServer, Counted
  <2>5. verdict \notin {"stored", "fetched"}
    BY <2>1 DEF FInv, Told
  <2>6. CASE asked = 1 /\ Head(replies) # "final" /\ verdict # "void"
    <3>1. Head(replies) \in {"stored", "fetched"} /\ verdict' = Head(replies) /\ asked' = 0
      BY <1>2, <1>4, <2>6 DEF Kinds
    <3>2. asked = Count(replies) /\ Count(replies') = 0
      BY <1>2, <2>1, <2>6
    <3>3. Endings(replies, Head(replies))
      <4>1. Len(replies) \in Nat \ {0} /\ Head(replies) = replies[1]
        BY <1>1, EmptySeq DEF FInv, FTyping
      <4>2. IsFiniteSet(Finals(replies)) /\ Cardinality(Finals(replies)) = 1
        BY <2>6, <3>2, FinalsFinite DEF Count, FInv, FTyping
      <4>3. 1 \in Finals(replies)
        BY <1>4, <4>1 DEF Finals
      <4>4. Finals(replies) = {1}
        BY <4>2, <4>3, FS_Singleton
      <4>5. \A j \in 1 .. Len(replies) : j > 1 => replies[j] = "mark"
        BY <4>1, <4>4 DEF Finals
      <4> QED BY <4>1, <4>5 DEF Endings
    <3>4. Whole(Head(replies))
      BY <1>1, <2>6, <3>1, <3>2, <3>3 DEF FInv, Told
    <3>5. xfer = "none"
      BY <3>4 DEF Whole
    <3>6. Moving'
      BY <1>1, <3>5 DEF FTP!ftpServer, FInv, Moving
    <3>7. \A r : ~Endings(replies', r) \/ r = "mark"
      <4>1. Finals(replies') = {}
        BY <1>2, <3>2, FinalsFinite, FS_EmptySet DEF Count
      <4> QED BY <4>1 DEF Finals, Endings
    <3>8. Told'
      BY <1>1, <3>1, <3>4, <3>7 DEF FTP!ftpServer, Told, Whole
    <3> QED BY <2>2, <2>3, <2>4, <3>6, <3>8 DEF FInv
  <2>7. CASE verdict' = verdict
    <3>1. Moving'
      BY <1>1, <1>2, <1>4, <2>1, <2>7 DEF FTP!ftpServer, FInv, Moving
    <3>2. Told'
      BY <1>1, <1>2, <1>4, <2>1, <2>5, <2>7, SMTT(30) DEF FTP!ftpServer, FInv, Told,
          Whole
    <3> QED BY <2>2, <2>3, <2>4, <3>1, <3>2 DEF FInv
  <2> QED BY <1>4, <2>6, <2>7
<1> QED BY <1>3, <1>4 DEF FTP!ReadReply

LEMMA LeaveFtp ==
  ASSUME FInv, FTP!Leave
  PROVE  FInv'
<1>1. /\ \/ link = "up" /\ link' = "closed" /\ wire' = wire
            /\ cdata' = IF cdata = "none" THEN "none" ELSE "reset"
         \/ link = "hung" /\ link' = "none" /\ UNCHANGED <<cdata, wire>>
      /\ replies' = <<>> /\ asked' = 0 /\ verdict' = "none" /\ ~Talking'
      /\ UNCHANGED <<FTP!ftpServer, polite, inbox, moved>>
  BY DEF FTP!Leave, Talking
<1>2. FTyping'
  <2>1. <<>> \in Seq(Kinds)
    OBVIOUS
  <2> QED BY <1>1, <2>1 DEF FTP!ftpServer, FInv, FTyping, Flags
<1>3. Session' /\ Counted' /\ Told'
  BY <1>1 DEF FTP!ftpServer, FInv, Session, FTP!HandlesHeld, Counted, Told
<1>4. Moving'
  BY <1>1 DEF FTP!ftpServer, FInv, FTyping, Moving
<1> QED BY <1>2, <1>3, <1>4 DEF FInv

LEMMA StepFtp ==
  ASSUME FInv, [FTP!Next]_ftpVars
  PROVE  FInv'
<1>1. CASE UNCHANGED ftpVars
  BY <1>1 DEF ftpVars, FTP!ftpServer, FTP!ftpClient, FInv, FTyping, Flags,
     Session, FTP!HandlesHeld, Counted, Moving, Told, Talking, Whole
<1>2. CASE \E c \in Starters : FTP!Start(c) \/ FTP!Stop(c)
  BY <1>2, StartFtp, StopFtp
<1>3. CASE FTP!Poll
  BY <1>3, PollFtp
<1>4. CASE FTP!Client
  BY <1>4, ConnectFtp, DialFtp, UploadFtp, DownloadFtp, EndDataFtp,
     ReadReplyFtp, LeaveFtp, AskFtp DEF FTP!Client
<1> QED BY <1>1, <1>2, <1>3, <1>4 DEF FTP!Next

\* The other services rest while this one is taken.
LEMMA ServicesFtp == ServicesSpec => FTP!Init /\ [][FTP!Next]_ftpVars
<1>1. ServicesInit => FTP!Init
  BY DEF ServicesInit
<1>2. [ServicesNext]_vars => [FTP!Next]_ftpVars
  BY DEF ServicesNext, vars
<1> QED BY <1>1, <1>2, PTL DEF ServicesSpec

LEMMA InvariantFtp == ServicesSpec => []FInv
BY ServicesFtp, InitFtp, StepFtp, PTL
-----------------------------------------------------------------------------
\* Between polls the server holds a writer for an upload only, and data
\* sockets and transfers for a connected client only (ftp_ctl_drop,
\* mmb_ftp_stop_owned), whatever the client does.
THEOREM HandlesTheorem == ServicesSpec => []HandlesHeld
<1>1. FInv => HandlesHeld
  BY DEF FInv, Session, HandlesHeld
<1> QED BY <1>1, InvariantFtp, PTL

\* A client that is told its transfer is complete has all of it
\* (ftp_xfer_finish, cmd_ftp.c:360), for files and windows of any size, also
\* when it sends commands without waiting and some of them are thrown away.
THEOREM CompleteTheorem == ServicesSpec => []CompleteMeansWhole
<1>1. FInv => CompleteMeansWhole
  BY DEF FInv, Told, Whole, FTP!CompleteMeansWhole, CompleteMeansWhole
<1> QED BY <1>1, InvariantFtp, PTL
-----------------------------------------------------------------------------
(* What is counted has its limit.                                          *)

Limits ==
    /\ owner \in Starters \cup {None} /\ polite \in BOOLEAN
    /\ asked <= 2 /\ wire <= Window /\ moved <= Chunks
    /\ off <= Chunks /\ size <= Chunks /\ file <= Chunks

\* An upload is read as far as it is written, a download no further than the file.
Reached ==
    /\ xfer = "STOR" => off = file
    /\ xfer = "RETR" => off <= size

LEMMA InitLimits == FTP!Init => Limits /\ Reached
BY TransferAssumption DEF FTP!Init, Limits, Reached

\* What is in an upload's connection was sent.
LEMMA UploadFits ==
  ASSUME FInv, Limits, xfer = "STOR", data, cdata # "reset"
  PROVE  moved = file + wire
BY DEF FInv, FTyping, Flags, Moving

LEMMA PollLimits ==
  ASSUME FInv, Limits, Reached, FTP!Poll
  PROVE  Limits' /\ Reached'
<1>0. /\ off \in Nat /\ size \in Nat /\ file \in Nat /\ wire \in Nat /\ moved \in Nat
      /\ asked \in Nat /\ Chunks \in Nat /\ Window \in Nat
  BY TransferAssumption DEF FInv, FTyping
<1>1. ASSUME FTP!XferClear, UNCHANGED <<owner, file, polite, asked, moved>>, wire' \in {0, wire}
      PROVE  Limits' /\ Reached'
  BY <1>0, <1>1 DEF FTP!XferClear, Limits, Reached
<1>2. ASSUME UNCHANGED <<owner, polite, asked, moved, xfer, off, size, file>>, wire' \in {0, wire}
      PROVE  Limits' /\ Reached'
  BY <1>0, <1>2 DEF Limits, Reached
<1>3. ASSUME FTP!Finish \/ FTP!Fail PROVE Limits' /\ Reached'
  BY <1>1, <1>3 DEF FTP!Finish, FTP!Fail, FTP!CloseData
<1>4. ASSUME FTP!Dropped PROVE Limits' /\ Reached'
  BY <1>1, <1>4 DEF FTP!Dropped, FTP!CloseData
<1>5. ASSUME FTP!Refused PROVE Limits' /\ Reached'
  BY <1>2, <1>5 DEF FTP!Refused, FTP!Answer
<1>6. CASE FTP!Accept
  BY <1>2, <1>6 DEF FTP!Accept
<1>7. CASE FTP!XferPoll
  <2>1. CASE FTP!AcceptData \/ FTP!NoDataConnection \/ FTP!StorIdle
    BY <1>2, <1>3, <2>1 DEF FTP!AcceptData, FTP!NoDataConnection, FTP!StorIdle, FTP!ftpClient
  <2>2. CASE xfer = "RETR" /\ FTP!SendChunk
    BY <1>0, <2>2 DEF FTP!SendChunk, Limits, Reached
  <2>3. CASE xfer = "STOR" /\ data /\ FTP!StoreChunk
    <3>1. moved = file + wire
      BY <2>3, UploadFits DEF FTP!StoreChunk
    <3> QED BY <1>0, <2>3, <3>1 DEF FTP!StoreChunk, Limits, Reached
  <2>4. CASE FTP!Finish \/ FTP!Fail
    BY <1>3, <2>4
  <2> QED BY <1>7, <2>1, <2>2, <2>3, <2>4
      DEF FTP!XferPoll, FTP!RetrPoll, FTP!StorPoll, FTP!DiskFull, FTP!StorEnds
<1>8. CASE FTP!CtlRead
  <2>1. CASE FTP!Dropped \/ FTP!Refused
    BY <1>4, <1>5, <2>1
  <2>2. CASE \E verb \in {"RETR", "STOR"} : FTP!Transfer(verb)
    <3> PICK verb \in {"RETR", "STOR"} : FTP!Transfer(verb)
      BY <2>2
    <3>1. /\ UNCHANGED <<owner, polite, asked, moved, wire>>
          /\ file' = IF verb = "STOR" THEN 0 ELSE file
          /\ \/ xfer' = verb /\ off' = 0 /\ size' = IF verb = "STOR" THEN 0 ELSE file
             \/ FTP!XferClear
      BY DEF FTP!Transfer
    <3> QED BY <1>0, <3>1 DEF FTP!XferClear, Limits, Reached
  <2>3. CASE \E changed : FTP!Answer(changed) /\ wire' \in {0, wire}
    BY <1>2, <2>3 DEF FTP!Answer
  <2>4. FTP!Dropped \/ FTP!Command(Head(inbox))
    BY <1>8 DEF FTP!CtlRead
  <2>5. FTP!Command(Head(inbox)) =>
          \/ FTP!Dropped \/ FTP!Refused
          \/ \E verb \in {"RETR", "STOR"} : FTP!Transfer(verb)
          \/ FTP!Answer(<<listener, cdata, wire>>)
          \/ FTP!Answer(<<logged>>) /\ wire' = 0
    BY Zenon DEF FTP!Command
  <2>6. FTP!Answer(<<listener, cdata, wire>>) => wire' = wire
    BY DEF FTP!Answer
  <2> QED BY <2>1, <2>2, <2>3, <2>4, <2>5, <2>6
<1> QED BY <1>6, <1>7, <1>8 DEF FTP!Poll

LEMMA StepLimits ==
  ASSUME FInv, FInv', Limits, Reached, [FTP!Next]_ftpVars
  PROVE  Limits' /\ Reached'
<1>0. /\ off \in Nat /\ size \in Nat /\ file \in Nat /\ wire \in Nat /\ moved \in Nat
      /\ asked \in Nat /\ Chunks \in Nat /\ Window \in Nat
  BY TransferAssumption DEF FInv, FTyping
<1>1. CASE UNCHANGED ftpVars
  BY <1>1 DEF ftpVars, Limits, Reached
<1>2. CASE \E c \in Starters : FTP!Start(c) \/ FTP!Stop(c)
  BY <1>0, <1>2 DEF FTP!Start, FTP!Stop, FTP!XferClear, FTP!CloseData, FTP!ftpClient,
     Limits, Reached
<1>3. CASE FTP!Poll
  BY <1>3, PollLimits
<1>4. CASE FTP!Connect \/ FTP!Dial \/ FTP!Upload \/ FTP!Download
  BY <1>0, <1>4 DEF FTP!Connect, FTP!Dial, FTP!Upload, FTP!Download, FTP!ftpServer,
     Limits, Reached
<1>5. CASE FTP!EndData \/ FTP!ReadReply \/ FTP!Leave
  BY <1>0, <1>5 DEF FTP!EndData, FTP!ReadReply, FTP!Leave, FTP!ftpServer, Limits, Reached
<1>6. CASE \E v \in FTP!Verbs : FTP!Ask(v)
  BY <1>0, <1>6 DEF FTP!Ask, FTP!ftpServer, Limits, Reached
<1> QED BY <1>1, <1>2, <1>3, <1>4, <1>5, <1>6 DEF FTP!Next, FTP!Client

LEMMA FtpTyped == ServicesSpec => []FTP!TypeOK
<1>1. FInv /\ Limits => FTP!TypeOK
  BY TransferAssumption DEF FInv, FTyping, Flags, Kinds, Limits, FTP!TypeOK
<1>2. FInv /\ FInv' /\ Limits /\ Reached /\ [FTP!Next]_ftpVars => Limits' /\ Reached'
  BY StepLimits
<1> QED BY <1>1, <1>2, InitLimits, InvariantFtp, ServicesFtp, PTL
=============================================================================
