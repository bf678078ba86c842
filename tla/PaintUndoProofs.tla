--------------------------- MODULE PaintUndoProofs ---------------------------
(***************************************************************************)
(* The history of PAINT implements the line of pictures of PaintHistory,   *)
(* and a picture that is not the stored one is never discarded unasked,    *)
(* for any pictures, any depth of the history and any allocations that     *)
(* fail.                                                                   *)
(***************************************************************************)
EXTENDS Services, SequenceTheorems, TLAPS

Stacks ==
    /\ undo \in Seq(Pictures) /\ redo \in Seq(Pictures)
    /\ canvas \in Pictures
    /\ Len(undo) + Len(redo) <= Depth

\* Unless memory ran out, the depths shown are those of the stacks, and with
\* both empty the canvas is what was stored.
Depths ==
    ~blurred =>
        /\ shownUndo = Len(undo) /\ shownRedo = Len(redo)
        /\ Len(undo) = 0 /\ Len(redo) = 0 => canvas = stored

HInv == Stacks /\ Depths /\ blurred \in BOOLEAN
-----------------------------------------------------------------------------
(* The stacks as sequences.                                                *)

LEMMA TrimmedSeq ==
  ASSUME Depth \in Nat \ {0}, NEW s \in Seq(Pictures)
  PROVE  /\ Art!Trimmed(s) \in Seq(Pictures)
         /\ Len(s) < Depth => Art!Trimmed(s) = s
         /\ Len(s) >= Depth => /\ s # <<>> /\ Art!Trimmed(s) = Tail(s)
                               /\ Len(Art!Trimmed(s)) = Len(s) - 1
<1>1. CASE Len(s) < Depth
  BY <1>1 DEF Art!Trimmed
<1>2. CASE Len(s) >= Depth
  <2>1. s # <<>>
    BY <1>2
  <2> QED BY <1>2, <2>1, HeadTailProperties DEF Art!Trimmed
<1> QED BY <1>1, <1>2

LEMMA AppendSeq ==
  ASSUME NEW s \in Seq(Pictures), NEW p \in Pictures
  PROVE  /\ Append(s, p) \in Seq(Pictures)
         /\ Len(Append(s, p)) = Len(s) + 1
         /\ \A i \in 1 .. Len(s) : Append(s, p)[i] = s[i]
         /\ Append(s, p)[Len(s) + 1] = p
  OBVIOUS

LEMMA FrontSeq ==
  ASSUME NEW s \in Seq(Pictures), s # <<>>
  PROVE  /\ Art!Front(s) \in Seq(Pictures) /\ Len(Art!Front(s)) = Len(s) - 1
         /\ \A i \in 1 .. Len(s) - 1 : Art!Front(s)[i] = s[i]
         /\ Art!Last(s) \in Pictures /\ Len(s) \in Nat \ {0}
<1>1. Len(s) \in Nat \ {0}
  BY EmptySeq
<1>2. \A i \in 1 .. Len(s) - 1 : s[i] \in Pictures
  BY <1>1, ElementOfSeq
<1>3. /\ SubSeq(s, 1, Len(s) - 1) \in Seq(Pictures)
      /\ Len(SubSeq(s, 1, Len(s) - 1)) = Len(s) - 1
      /\ \A i \in 1 .. Len(s) - 1 : SubSeq(s, 1, Len(s) - 1)[i] = s[i]
  <2> DEFINE n == Len(s) - 1
  <2>1. n \in Int /\ 1 \in Int /\ n - 1 + 1 = n /\ n >= 0
    BY <1>1
  <2>2. \A i \in 1 .. n : s[i] \in Pictures
    BY <1>2
  <2> HIDE DEF n
  <2>3. /\ SubSeq(s, 1, n) \in Seq(Pictures)
        /\ Len(SubSeq(s, 1, n)) = IF 1 <= n THEN n - 1 + 1 ELSE 0
        /\ \A i \in 1 .. n - 1 + 1 : SubSeq(s, 1, n)[i] = s[1 + i - 1]
    BY <2>1, <2>2
  <2>4. /\ Len(SubSeq(s, 1, n)) = n
        /\ \A i \in 1 .. n : SubSeq(s, 1, n)[i] = s[i]
    BY <2>1, <2>3
  <2> QED BY <2>3, <2>4 DEF n
<1>4. s[Len(s)] \in Pictures
  BY <1>1, ElementOfSeq
<1> QED BY <1>1, <1>3, <1>4 DEF Art!Front, Art!Last

LEMMA Joined ==
  ASSUME NEW a \in Seq(Pictures), NEW b \in Seq(Pictures)
  PROVE  /\ a \o b \in Seq(Pictures) /\ Len(a \o b) = Len(a) + Len(b)
         /\ \A i \in 1 .. Len(a) + Len(b) : (a \o b)[i] =
              IF i <= Len(a) THEN a[i] ELSE b[i - Len(a)]
  BY ConcatProperties

\* The line of pictures, element by element.
Line(u, c, r) == u \o <<c>> \o Art!Reverse(r)

LEMMA LineSeq ==
  ASSUME NEW u \in Seq(Pictures), NEW c \in Pictures, NEW r \in Seq(Pictures)
  PROVE  /\ Line(u, c, r) \in Seq(Pictures)
         /\ Len(Line(u, c, r)) = Len(u) + 1 + Len(r)
         /\ \A i \in 1 .. Len(u) : Line(u, c, r)[i] = u[i]
         /\ Line(u, c, r)[Len(u) + 1] = c
         /\ \A i \in Len(u) + 2 .. Len(u) + 1 + Len(r) :
              Line(u, c, r)[i] = r[Len(r) + Len(u) + 2 - i]
<1>1. /\ Art!Reverse(r) \in Seq(Pictures) /\ Len(Art!Reverse(r)) = Len(r)
      /\ \A i \in 1 .. Len(r) : Art!Reverse(r)[i] = r[Len(r) - i + 1]
  BY DEF Art!Reverse
<1>2. /\ u \o <<c>> \in Seq(Pictures) /\ Len(u \o <<c>>) = Len(u) + 1
      /\ \A i \in 1 .. Len(u) : (u \o <<c>>)[i] = u[i]
      /\ (u \o <<c>>)[Len(u) + 1] = c
  OBVIOUS
<1>3. /\ (u \o <<c>>) \o Art!Reverse(r) \in Seq(Pictures)
      /\ Len((u \o <<c>>) \o Art!Reverse(r)) = Len(u) + 1 + Len(r)
      /\ \A i \in 1 .. Len(u) + 1 + Len(r) : ((u \o <<c>>) \o Art!Reverse(r))[i] =
           IF i <= Len(u) + 1 THEN (u \o <<c>>)[i]
                              ELSE Art!Reverse(r)[i - (Len(u) + 1)]
  <2> DEFINE a == u \o <<c>>
             b == Art!Reverse(r)
  <2>1. a \in Seq(Pictures) /\ b \in Seq(Pictures)
    BY <1>1, <1>2
  <2>2. Len(a) = Len(u) + 1 /\ Len(b) = Len(r)
    BY <1>1, <1>2
  <2> HIDE DEF a, b
  <2>3. /\ a \o b \in Seq(Pictures) /\ Len(a \o b) = Len(a) + Len(b)
        /\ \A i \in 1 .. Len(a) + Len(b) : (a \o b)[i] =
             IF i <= Len(a) THEN a[i] ELSE b[i - Len(a)]
    BY <2>1, Joined, Zenon
  <2> QED BY <2>2, <2>3 DEF a, b
<1>4. Len(u) \in Nat /\ Len(r) \in Nat
  OBVIOUS
<1>5. \A i \in 1 .. Len(u) + 1 : Line(u, c, r)[i] = (u \o <<c>>)[i]
  BY <1>3, <1>4 DEF Line
<1>6. ASSUME NEW i \in Len(u) + 2 .. Len(u) + 1 + Len(r)
      PROVE  Line(u, c, r)[i] = r[Len(r) + Len(u) + 2 - i]
  <2>1. Line(u, c, r)[i] = Art!Reverse(r)[i - (Len(u) + 1)]
    BY <1>3, <1>4 DEF Line
  <2>2. i - (Len(u) + 1) \in 1 .. Len(r)
    BY <1>4
  <2>3. Len(r) - (i - (Len(u) + 1)) + 1 = Len(r) + Len(u) + 2 - i
    BY <1>4
  <2> QED BY <1>1, <2>1, <2>2, <2>3
<1> QED BY <1>2, <1>3, <1>4, <1>5, <1>6 DEF Line

\* l is the line of the stacks u and r around the picture c.
Spelt(l, u, c, r) ==
    /\ l \in Seq(Pictures)
    /\ Len(l) = Len(u) + 1 + Len(r)
    /\ \A i \in 1 .. Len(u) : l[i] = u[i]
    /\ l[Len(u) + 1] = c
    /\ \A i \in Len(u) + 2 .. Len(u) + 1 + Len(r) :
         l[i] = r[Len(r) + Len(u) + 2 - i]

LEMMA SpeltLine ==
  ASSUME NEW u \in Seq(Pictures), NEW c \in Pictures, NEW r \in Seq(Pictures)
  PROVE  Spelt(Line(u, c, r), u, c, r)
  BY LineSeq, Zenon DEF Spelt

LEMMA SpeltOnce ==
  ASSUME NEW u \in Seq(Pictures), NEW c \in Pictures, NEW r \in Seq(Pictures),
         NEW k, NEW l, Spelt(k, u, c, r), Spelt(l, u, c, r)
  PROVE  k = l
<1>1. Len(u) \in Nat /\ Len(r) \in Nat
  OBVIOUS
<1>2. k \in Seq(Pictures) /\ l \in Seq(Pictures) /\ Len(k) = Len(l)
  BY DEF Spelt
<1>3. ASSUME NEW i \in 1 .. Len(k) PROVE k[i] = l[i]
  <2>1. CASE i \in 1 .. Len(u)
    BY <2>1 DEF Spelt
  <2>2. CASE i = Len(u) + 1
    BY <2>2 DEF Spelt
  <2>3. CASE i \in Len(u) + 2 .. Len(u) + 1 + Len(r)
    BY <2>3 DEF Spelt
  <2> QED BY <1>1, <2>1, <2>2, <2>3 DEF Spelt
<1> QED BY <1>2, <1>3, SeqEqual

LEMMA LineSpelt ==
  ASSUME NEW u \in Seq(Pictures), NEW c \in Pictures, NEW r \in Seq(Pictures),
         NEW l, Spelt(l, u, c, r)
  PROVE  l = Line(u, c, r)
  BY SpeltLine, SpeltOnce, ZenonT(30)
-----------------------------------------------------------------------------
(* What the operations do to the line.                                     *)

LEMMA ForgetSpelt ==
  ASSUME NEW c \in Pictures
  PROVE  Spelt(<<c>>, <<>>, c, <<>>)
  BY DEF Spelt

LEMMA UndoSpelt ==
  ASSUME NEW u \in Seq(Pictures), NEW c \in Pictures, NEW r \in Seq(Pictures),
         u # <<>>, NEW l, Spelt(l, u, c, r)
  PROVE  Spelt(l, Art!Front(u), Art!Last(u), Append(r, c))
<1> DEFINE f == Art!Front(u)
           a == Append(r, c)
<1>1. /\ Len(f) = Len(u) - 1
      /\ \A i \in 1 .. Len(u) - 1 : f[i] = u[i]
      /\ Art!Last(u) = u[Len(u)]
      /\ Len(u) \in Nat \ {0} /\ Len(r) \in Nat
  BY FrontSeq DEF Art!Last
<1>2. /\ Len(a) = Len(r) + 1
      /\ \A i \in 1 .. Len(r) : a[i] = r[i]
      /\ a[Len(r) + 1] = c
  BY AppendSeq
<1> HIDE DEF f, a
<1>3. Len(l) = Len(f) + 1 + Len(a) /\ l \in Seq(Pictures)
  BY <1>1, <1>2 DEF Spelt
<1>4. \A i \in 1 .. Len(f) : l[i] = f[i]
  BY <1>1 DEF Spelt
<1>5. l[Len(f) + 1] = Art!Last(u)
  <2>1. Len(f) + 1 = Len(u) /\ Len(u) \in 1 .. Len(u)
    BY <1>1
  <2> QED BY <1>1, <2>1 DEF Spelt
<1>6. ASSUME NEW i \in Len(f) + 2 .. Len(f) + 1 + Len(a)
      PROVE  l[i] = a[Len(a) + Len(f) + 2 - i]
  <2>1. Len(a) + Len(f) + 2 - i = Len(r) + Len(u) + 2 - i
    BY <1>1, <1>2
  <2>2. CASE i = Len(u) + 1
    BY <1>1, <1>2, <2>1, <2>2 DEF Spelt
  <2>3. CASE i # Len(u) + 1
    <3>1. i \in Len(u) + 2 .. Len(u) + 1 + Len(r)
      BY <1>1, <1>2, <2>3
    <3>2. Len(r) + Len(u) + 2 - i \in 1 .. Len(r)
      BY <1>1, <3>1
    <3>3. l[i] = r[Len(r) + Len(u) + 2 - i]
      BY <3>1 DEF Spelt
    <3> QED BY <1>2, <2>1, <3>2, <3>3
  <2> QED BY <2>2, <2>3
<1>7. Spelt(l, f, Art!Last(u), a)
  BY <1>3, <1>4, <1>5, <1>6 DEF Spelt
<1> QED BY <1>7 DEF f, a

LEMMA RedoSpelt ==
  ASSUME NEW u \in Seq(Pictures), NEW c \in Pictures, NEW r \in Seq(Pictures),
         r # <<>>, NEW l, Spelt(l, u, c, r)
  PROVE  Spelt(l, Append(u, c), Art!Last(r), Art!Front(r))
<1> DEFINE f == Art!Front(r)
           a == Append(u, c)
<1>1. /\ Len(f) = Len(r) - 1
      /\ \A i \in 1 .. Len(r) - 1 : f[i] = r[i]
      /\ Art!Last(r) = r[Len(r)]
      /\ Len(r) \in Nat \ {0} /\ Len(u) \in Nat
  BY FrontSeq DEF Art!Last
<1>2. /\ Len(a) = Len(u) + 1
      /\ \A i \in 1 .. Len(u) : a[i] = u[i]
      /\ a[Len(u) + 1] = c
  BY AppendSeq
<1> HIDE DEF f, a
<1>3. Len(l) = Len(a) + 1 + Len(f) /\ l \in Seq(Pictures)
  BY <1>1, <1>2 DEF Spelt
<1>4. ASSUME NEW i \in 1 .. Len(a) PROVE l[i] = a[i]
  <2>1. CASE i = Len(u) + 1
    BY <1>2, <2>1 DEF Spelt
  <2>2. CASE i \in 1 .. Len(u)
    BY <1>2, <2>2 DEF Spelt
  <2> QED BY <1>1, <1>2, <2>1, <2>2
<1>5. l[Len(a) + 1] = Art!Last(r)
  <2>1. Len(a) + 1 = Len(u) + 2 /\ Len(r) + Len(u) + 2 - (Len(u) + 2) = Len(r)
    BY <1>1, <1>2
  <2>2. Len(u) + 2 \in Len(u) + 2 .. Len(u) + 1 + Len(r)
    BY <1>1
  <2>3. l[Len(u) + 2] = r[Len(r) + Len(u) + 2 - (Len(u) + 2)]
    BY <2>2 DEF Spelt
  <2> QED BY <1>1, <2>1, <2>3
<1>6. ASSUME NEW i \in Len(a) + 2 .. Len(a) + 1 + Len(f)
      PROVE  l[i] = f[Len(f) + Len(a) + 2 - i]
  <2>1. Len(f) + Len(a) + 2 - i = Len(r) + Len(u) + 2 - i
    BY <1>1, <1>2
  <2>2. i \in Len(u) + 2 .. Len(u) + 1 + Len(r)
    BY <1>1, <1>2
  <2>3. l[i] = r[Len(r) + Len(u) + 2 - i]
    BY <2>2 DEF Spelt
  <2>4. Len(r) + Len(u) + 2 - i \in 1 .. Len(r) - 1
    BY <1>1, <1>2
  <2> QED BY <1>1, <2>1, <2>3, <2>4
<1>7. Spelt(l, a, Art!Last(r), f)
  BY <1>3, <1>4, <1>5, <1>6 DEF Spelt
<1> QED BY <1>7 DEF f, a

\* The part of the line up to the canvas, or before it.
LEMMA PrefixSeq ==
  ASSUME NEW l \in Seq(Pictures), NEW n \in Nat, n <= Len(l)
  PROVE  /\ SubSeq(l, 1, n) \in Seq(Pictures) /\ Len(SubSeq(l, 1, n)) = n
         /\ \A i \in 1 .. n : SubSeq(l, 1, n)[i] = l[i]
<1>1. \A i \in 1 .. n : l[i] \in Pictures
  BY ElementOfSeq
<1>2. n \in Int /\ 1 \in Int /\ n - 1 + 1 = n /\ n >= 0
  OBVIOUS
<1>3. /\ SubSeq(l, 1, n) \in Seq(Pictures)
      /\ Len(SubSeq(l, 1, n)) = IF 1 <= n THEN n - 1 + 1 ELSE 0
      /\ \A i \in 1 .. n - 1 + 1 : SubSeq(l, 1, n)[i] = l[1 + i - 1]
  BY <1>1, <1>2
<1> QED BY <1>2, <1>3

LEMMA TailSeq ==
  ASSUME NEW s \in Seq(Pictures), s # <<>>
  PROVE  /\ Tail(s) \in Seq(Pictures) /\ Len(Tail(s)) = Len(s) - 1
         /\ Len(s) \in Nat \ {0}
         /\ \A i \in 1 .. Len(s) - 1 : Tail(s)[i] = s[i + 1]
<1>1. Len(s) \in Nat \ {0}
  BY EmptySeq
<1> QED BY <1>1, HeadTailProperties

\* An edit's line is that of the stack pushed to.
LEMMA PushedSpelt ==
  ASSUME NEW u \in Seq(Pictures), NEW p \in Pictures
  PROVE  Spelt(Append(u, p), u, p, <<>>)
<1>1. /\ Append(u, p) \in Seq(Pictures) /\ Len(Append(u, p)) = Len(u) + 1
      /\ \A i \in 1 .. Len(u) : Append(u, p)[i] = u[i]
      /\ Append(u, p)[Len(u) + 1] = p
  BY AppendSeq
<1>2. Len(u) \in Nat /\ Len(<<>>) = 0
  OBVIOUS
<1> QED BY <1>1, <1>2 DEF Spelt

\* Before the canvas lie the pictures of the undo stack.
LEMMA PastIsUndo ==
  ASSUME NEW u \in Seq(Pictures), NEW c \in Pictures, NEW r \in Seq(Pictures),
         NEW l, Spelt(l, u, c, r)
  PROVE  SubSeq(l, 1, Len(u)) = u /\ SubSeq(l, 1, Len(u) + 1) = Append(u, c)
<1>1. Len(u) \in Nat /\ Len(r) \in Nat
  OBVIOUS
<1>2. l \in Seq(Pictures) /\ Len(u) <= Len(l) /\ Len(u) + 1 <= Len(l)
  BY <1>1 DEF Spelt
<1>3. SubSeq(l, 1, Len(u)) = u
  <2>1. /\ SubSeq(l, 1, Len(u)) \in Seq(Pictures)
        /\ Len(SubSeq(l, 1, Len(u))) = Len(u)
        /\ \A i \in 1 .. Len(u) : SubSeq(l, 1, Len(u))[i] = l[i]
    BY <1>1, <1>2, PrefixSeq
  <2>2. \A i \in 1 .. Len(u) : SubSeq(l, 1, Len(u))[i] = u[i]
    BY <2>1 DEF Spelt
  <2> DEFINE s == SubSeq(l, 1, Len(u))
  <2>3. s \in Seq(Pictures) /\ Len(s) = Len(u) /\ \A i \in 1 .. Len(s) : s[i] = u[i]
    BY <2>1, <2>2
  <2> HIDE DEF s
  <2>4. s = u
    BY <2>3, SeqEqual
  <2> QED BY <2>4 DEF s
<1>4. SubSeq(l, 1, Len(u) + 1) = Append(u, c)
  <2> DEFINE n == Len(u) + 1
             s == SubSeq(l, 1, n)
             t == Append(u, c)
  <2>1. /\ s \in Seq(Pictures) /\ Len(s) = n
        /\ \A i \in 1 .. n : s[i] = l[i]
    BY <1>1, <1>2, PrefixSeq
  <2>2. /\ t \in Seq(Pictures) /\ Len(t) = n
        /\ \A i \in 1 .. Len(u) : t[i] = u[i]
        /\ t[n] = c
    BY AppendSeq
  <2> HIDE DEF s, t
  <2>3. ASSUME NEW i \in 1 .. Len(s) PROVE s[i] = t[i]
    <3>1. s[i] = l[i]
      BY <2>1
    <3>2. CASE i = Len(u) + 1
      BY <2>2, <3>1, <3>2 DEF Spelt
    <3>3. CASE i \in 1 .. Len(u)
      BY <2>2, <3>1, <3>3 DEF Spelt
    <3> QED BY <1>1, <2>1, <3>2, <3>3
  <2>4. s = t
    BY <2>1, <2>2, <2>3, SeqEqual
  <2> QED BY <2>4 DEF s, t
<1> QED BY <1>3, <1>4

LEMMA PaintedOver ==
  ASSUME Depth \in Nat \ {0},
         NEW u \in Seq(Pictures), NEW c \in Pictures, NEW r \in Seq(Pictures),
         NEW l, Spelt(l, u, c, r), NEW p \in Pictures
  PROVE  /\ SubSeq(l, 1, Len(u) + 1 - 1) = u
         /\ Append(Art!Trimmed(u), p) = Line(Art!Trimmed(u), p, <<>>)
<1>1. SubSeq(l, 1, Len(u) + 1 - 1) = u
  <2>1. Len(u) + 1 - 1 = Len(u)
    OBVIOUS
  <2> QED BY <2>1, PastIsUndo
<1>2. Art!Trimmed(u) \in Seq(Pictures) /\ <<>> \in Seq(Pictures)
  BY TrimmedSeq
<1>3. Append(Art!Trimmed(u), p) = Line(Art!Trimmed(u), p, <<>>)
  BY <1>2, PushedSpelt, LineSpelt, Zenon
<1> QED BY <1>1, <1>3

LEMMA Edited ==
  ASSUME Depth \in Nat \ {0},
         NEW u \in Seq(Pictures), NEW c \in Pictures, NEW r \in Seq(Pictures),
         NEW l, Spelt(l, u, c, r), NEW p \in Pictures
  PROVE  Art!History!Latest(Append(SubSeq(l, 1, Len(u) + 1), p))
           = Line(Append(Art!Trimmed(u), c), p, <<>>)
<1> DEFINE a == Append(u, c)
           s == Append(a, p)
           k == Append(Art!Trimmed(u), c)
           t == Append(k, p)
<1>1. SubSeq(l, 1, Len(u) + 1) = a
  BY PastIsUndo
<1>2. a \in Seq(Pictures) /\ Len(a) = Len(u) + 1 /\ Len(u) \in Nat
  BY AppendSeq
<1>3. s \in Seq(Pictures) /\ Len(s) = Len(u) + 2
  BY <1>2, AppendSeq
<1>4. Art!Trimmed(u) \in Seq(Pictures) /\ <<>> \in Seq(Pictures)
  BY TrimmedSeq
<1>5. k \in Seq(Pictures)
  BY <1>4, AppendSeq
<1>6. t = Line(k, p, <<>>)
  BY <1>4, <1>5, PushedSpelt, LineSpelt, Zenon
<1>7. (IF Len(s) > Depth + 1 THEN Tail(s) ELSE s) = t
  <2>1. CASE Len(u) < Depth
    <3>1. Art!Trimmed(u) = u
      BY <2>1, TrimmedSeq
    <3> QED BY <1>2, <1>3, <2>1, <3>1
  <2>2. CASE Len(u) >= Depth
    <3>1. u # <<>> /\ Art!Trimmed(u) = Tail(u)
      BY <2>2, TrimmedSeq
    <3>2. /\ Len(Tail(u)) = Len(u) - 1 /\ Len(u) \in Nat \ {0}
          /\ Tail(u) \in Seq(Pictures)
          /\ \A i \in 1 .. Len(u) - 1 : Tail(u)[i] = u[i + 1]
      BY <3>1, TailSeq
    <3>3. Tail(s) = t
      BY <3>1, <3>2
    <3> QED BY <1>2, <1>3, <2>2, <3>3, SMTT(30)
  <2> HIDE DEF s, t
  <2> QED BY <1>2, <2>1, <2>2
<1> QED BY <1>1, <1>6, <1>7 DEF Art!History!Latest
-----------------------------------------------------------------------------
(* The stacks stay within the depth, and the depths shown are theirs.      *)

LEMMA InitHistory ==
  ASSUME Depth \in Nat \ {0}, Blank \in Pictures, Art!Init
  PROVE  HInv
<1>1. <<>> \in Seq(Pictures) /\ Len(<<>>) = 0
  OBVIOUS
<1>2. Stacks
  BY <1>1 DEF Art!Init, Stacks
<1>3. Depths
  BY <1>1 DEF Art!Init, Depths
<1> QED BY <1>2, <1>3 DEF Art!Init, HInv

\* Undo and redo move one snapshot from a stack to the other.
LEMMA UndoStacks ==
  ASSUME Depth \in Nat \ {0}, HInv, Art!Undo
  PROVE  HInv' /\ undo' = Art!Front(undo) /\ redo' = Append(redo, canvas)
<1>1. /\ Art!Front(undo) \in Seq(Pictures) /\ Len(Art!Front(undo)) = Len(undo) - 1
      /\ Art!Last(undo) \in Pictures /\ Len(undo) \in Nat \ {0}
  BY FrontSeq DEF HInv, Stacks, Art!Undo
<1>2. Len(redo) \in Nat /\ Len(redo) < Depth
  BY <1>1 DEF HInv, Stacks
<1>3. redo' = Append(redo, canvas)
  BY <1>2, TrimmedSeq DEF HInv, Stacks, Art!Undo
<1>4. redo' \in Seq(Pictures) /\ Len(redo') = Len(redo) + 1
  BY <1>3, AppendSeq DEF HInv, Stacks
<1>5. Stacks'
  BY <1>1, <1>2, <1>4 DEF HInv, Stacks, Art!Undo
<1>6. Depths'
  BY <1>2, <1>4 DEF Depths, Art!Undo, Art!SyncDepths
<1> QED BY <1>3, <1>5, <1>6 DEF HInv, Art!Undo

LEMMA RedoStacks ==
  ASSUME Depth \in Nat \ {0}, HInv, Art!Redo
  PROVE  HInv' /\ redo' = Art!Front(redo) /\ undo' = Append(undo, canvas)
<1>1. /\ Art!Front(redo) \in Seq(Pictures) /\ Len(Art!Front(redo)) = Len(redo) - 1
      /\ Art!Last(redo) \in Pictures /\ Len(redo) \in Nat \ {0}
  BY FrontSeq DEF HInv, Stacks, Art!Redo
<1>2. Len(undo) \in Nat /\ Len(undo) < Depth
  BY <1>1 DEF HInv, Stacks
<1>3. undo' = Append(undo, canvas)
  BY <1>2, TrimmedSeq DEF HInv, Stacks, Art!Redo
<1>4. undo' \in Seq(Pictures) /\ Len(undo') = Len(undo) + 1
  BY <1>3, AppendSeq DEF HInv, Stacks
<1>5. Stacks'
  BY <1>1, <1>2, <1>4 DEF HInv, Stacks, Art!Redo
<1>6. Depths'
  BY <1>2, <1>4 DEF Depths, Art!Redo, Art!SyncDepths
<1> QED BY <1>3, <1>5, <1>6 DEF HInv, Art!Redo

LEMMA EditStacks ==
  ASSUME Depth \in Nat \ {0}, HInv, NEW p \in Pictures, Art!Edit(p)
  PROVE  /\ HInv' /\ canvas' = p /\ redo' = <<>>
         /\ \/ undo' = Append(Art!Trimmed(undo), canvas)
            \/ undo' = Art!Trimmed(undo)
<1>1. /\ Art!Trimmed(undo) \in Seq(Pictures) /\ Len(undo) \in Nat
      /\ Len(Art!Trimmed(undo)) \in Nat /\ Len(Art!Trimmed(undo)) < Depth
  <2>1. undo \in Seq(Pictures) /\ Len(undo) \in Nat /\ Len(undo) <= Depth
    BY DEF HInv, Stacks
  <2>2. Art!Trimmed(undo) \in Seq(Pictures)
    BY <2>1, TrimmedSeq
  <2>3. CASE Len(undo) < Depth
    BY <2>1, <2>2, <2>3, TrimmedSeq
  <2>4. CASE Len(undo) >= Depth
    BY <2>1, <2>2, <2>4, TrimmedSeq
  <2> QED BY <2>1, <2>3, <2>4
<1>2. CASE /\ undo' = Append(Art!Trimmed(undo), canvas)
           /\ Art!SyncDepths /\ UNCHANGED <<blurred, refused>>
  <2>1. undo' \in Seq(Pictures) /\ Len(undo') = Len(Art!Trimmed(undo)) + 1
    BY <1>1, <1>2, AppendSeq DEF HInv, Stacks
  <2>2. Stacks'
    BY <1>1, <2>1 DEF Stacks, Art!Edit, Art!Push
  <2>3. Depths'
    BY <1>1, <1>2, <2>1 DEF Depths, Art!Edit, Art!Push, Art!SyncDepths
  <2> QED BY <1>2, <2>2, <2>3 DEF HInv, Art!Edit, Art!Push
<1>3. CASE undo' = Art!Trimmed(undo) /\ blurred' = TRUE
  BY <1>1, <1>3 DEF HInv, Stacks, Depths, Art!Edit, Art!Push
<1> QED BY <1>2, <1>3 DEF Art!Edit, Art!Push

LEMMA ForgetStacks ==
  ASSUME Depth \in Nat \ {0}, Blank \in Pictures, HInv,
         Art!Save \/ Art!Clear \/ \E p \in Pictures : Art!Replace(p)
  PROVE  HInv' /\ undo' = <<>> /\ redo' = <<>>
<1>1. undo' = <<>> /\ redo' = <<>> /\ Art!SyncDepths
  BY DEF Art!Save, Art!Clear, Art!Replace, Art!Clean
<1>2. canvas' \in Pictures /\ blurred' \in BOOLEAN /\ (~blurred' => canvas' = stored')
  BY DEF HInv, Stacks, Art!Save, Art!Clear, Art!Replace
<1> QED BY <1>1, <1>2 DEF HInv, Stacks, Depths, Art!SyncDepths

LEMMA StepHistory ==
  ASSUME Depth \in Nat \ {0}, Blank \in Pictures, HInv, [Art!Next]_paintVars
  PROVE  HInv'
<1>1. ASSUME NEW p \in Pictures, Art!Edit(p) PROVE HInv'
  BY <1>1, EditStacks
<1>2. CASE Art!Undo
  BY <1>2, UndoStacks
<1>3. CASE Art!Redo
  BY <1>3, RedoStacks
<1>4. CASE Art!Save \/ Art!Clear \/ \E p \in Pictures : Art!Replace(p)
  BY <1>4, ForgetStacks
<1>5. CASE UNCHANGED paintVars
  BY <1>5 DEF HInv, Stacks, Depths, paintVars
<1> QED BY <1>1, <1>2, <1>3, <1>4, <1>5 DEF Art!Next

\* The other services rest while this one is taken.
LEMMA ServicesPaint == ServicesSpec => Art!Init /\ [][Art!Next]_paintVars
<1>1. ServicesInit => Art!Init
  BY DEF ServicesInit
<1>2. [ServicesNext]_vars => [Art!Next]_paintVars
  BY DEF ServicesNext, vars
<1> QED BY <1>1, <1>2, PTL DEF ServicesSpec

LEMMA InvariantHistory == ServicesSpec => []HInv
BY ServicesPaint, InitHistory, StepHistory, HistoryAssumption, PTL

\* A picture that is not the stored one is discarded only after asking, for
\* every depth of the history: the depths shown, which New, Open and Quit go
\* by, are zero together only where the canvas is what was stored, unless it
\* was cleared or memory ran out.
THEOREM DiscardsTheorem == ServicesSpec => []DiscardsAsked
<1>1. HInv => DiscardsAsked
  BY DEF HInv, Stacks, Depths, Art!DiscardsAsked, DiscardsAsked, Art!Unsaved
<1> QED BY <1>1, InvariantHistory, PTL
-----------------------------------------------------------------------------
(* The refinement.                                                         *)

pictures == Line(undo, canvas, redo)
place == Len(undo) + 1

LEMMA ShownLine ==
  ASSUME HInv
  PROVE  Spelt(pictures, undo, canvas, redo)
  BY SpeltLine DEF HInv, Stacks, pictures

LEMMA InitLine ==
  ASSUME Blank \in Pictures, Art!Init
  PROVE  Art!History!Init
<1>1. pictures = <<Blank>> /\ place = 1
  <2>1. <<Blank>> = Line(<<>>, Blank, <<>>)
    <3>1. <<>> \in Seq(Pictures)
      OBVIOUS
    <3> QED BY <3>1, ForgetSpelt, LineSpelt, Zenon
  <2> QED BY <2>1 DEF Art!Init, pictures, place
<1> QED BY <1>1 DEF Art!History!Init, pictures, place, Line

LEMMA StepLine ==
  ASSUME Depth \in Nat \ {0}, Blank \in Pictures, HInv, Art!Next
  PROVE  [Art!History!Next]_(Art!History!historyVars)
<1>1. HInv' /\ undo \in Seq(Pictures) /\ redo \in Seq(Pictures) /\ canvas \in Pictures
  BY StepHistory DEF HInv, Stacks
<1>2. Spelt(pictures, undo, canvas, redo)
  BY ShownLine
<1>3. /\ undo' \in Seq(Pictures) /\ redo' \in Seq(Pictures) /\ canvas' \in Pictures
      /\ Len(undo) \in Nat /\ Len(redo) \in Nat
  BY <1>1 DEF HInv, Stacks
<1>4. CASE Art!Undo
  <2>1. Spelt(pictures, Art!Front(undo), Art!Last(undo), Append(redo, canvas))
    BY <1>1, <1>2, <1>4, UndoSpelt DEF Art!Undo
  <2>2. Spelt(pictures, undo', canvas', redo')
    BY <1>4, <2>1, UndoStacks DEF Art!Undo
  <2>3. pictures' = pictures
    BY <1>3, <2>2, LineSpelt DEF pictures
  <2>4. place' = place - 1 /\ place > 1
    BY <1>1, <1>4, FrontSeq DEF Art!Undo, place
  <2> QED BY <2>3, <2>4 DEF Art!History!Next, Art!History!Undo, pictures,
      place, Line
<1>5. CASE Art!Redo
  <2>1. Spelt(pictures, Append(undo, canvas), Art!Last(redo), Art!Front(redo))
    BY <1>1, <1>2, <1>5, RedoSpelt DEF Art!Redo
  <2>2. Spelt(pictures, undo', canvas', redo')
    BY <1>5, <2>1, RedoStacks DEF Art!Redo
  <2>3. pictures' = pictures
    BY <1>3, <2>2, LineSpelt DEF pictures
  <2>4. place' = place + 1
    BY <1>1, <1>5, RedoStacks, AppendSeq DEF place
  <2>5. place < Len(pictures)
    BY <1>1, <1>2, <1>3, <1>5, FrontSeq DEF Spelt, Art!Redo, place
  <2> QED BY <2>3, <2>4, <2>5 DEF Art!History!Next, Art!History!Redo,
      pictures, place, Line
<1>6. ASSUME NEW p \in Pictures, Art!Edit(p) PROVE Art!History!Next
  <2>1. canvas' = p /\ redo' = <<>>
    BY <1>6, EditStacks
  <2>2. place' = Len(pictures')
    <3>1. pictures' = Line(undo', p, <<>>) /\ <<>> \in Seq(Pictures)
      BY <2>1 DEF pictures, Line
    <3>2. Len(Line(undo', p, <<>>)) = Len(undo') + 1 + Len(<<>>)
      BY <1>3, <3>1, LineSeq, Zenon
    <3> QED BY <1>3, <3>1, <3>2 DEF place
  <2>3. CASE undo' = Append(Art!Trimmed(undo), canvas)
    <3>1. Art!History!Latest(Append(SubSeq(pictures, 1, place), p)) = pictures'
      BY <1>1, <1>2, <2>1, <2>3, Edited DEF pictures, place
    <3>2. Art!History!Edit(p)
      BY <2>2, <3>1 DEF Art!History!Edit, pictures, place, Line
    <3> QED BY <3>2 DEF Art!History!Next
  <2>4. CASE undo' = Art!Trimmed(undo)
    <3>1. LET past == SubSeq(pictures, 1, place - 1)
          IN  Append(IF Len(past) >= Depth THEN Tail(past) ELSE past, p) = pictures'
      <4>1. /\ SubSeq(pictures, 1, Len(undo) + 1 - 1) = undo
            /\ Append(Art!Trimmed(undo), p) = Line(Art!Trimmed(undo), p, <<>>)
        BY <1>1, <1>2, PaintedOver, Zenon
      <4>2. pictures' = Line(Art!Trimmed(undo), p, <<>>)
        BY <2>1, <2>4 DEF pictures, Line
      <4>3. SubSeq(pictures, 1, place - 1) = undo
        BY <4>1 DEF place
      <4>4. Append(IF Len(undo) >= Depth THEN Tail(undo) ELSE undo, p) = pictures'
        BY <4>1, <4>2, Zenon DEF Art!Trimmed
      <4> QED BY <4>3, <4>4, Zenon
    <3>2. Art!History!PaintOver(p)
      BY <2>2, <3>1 DEF Art!History!PaintOver, pictures, place, Line
    <3> QED BY <3>2 DEF Art!History!Next
  <2> QED BY <1>6, <2>3, <2>4, EditStacks
<1>7. CASE Art!Save \/ Art!Clear \/ \E p \in Pictures : Art!Replace(p)
  <2>1. undo' = <<>> /\ redo' = <<>>
    BY <1>7, ForgetStacks
  <2>2. pictures' = <<canvas'>>
    BY <1>3, <2>1, ForgetSpelt, LineSpelt DEF pictures
  <2>3. place' = 1
    BY <2>1 DEF place
  <2>4. Art!History!Forget(canvas')
    BY <2>2, <2>3 DEF Art!History!Forget, pictures, place, Line
  <2> QED BY <1>3, <2>4 DEF Art!History!Next
<1> QED BY <1>4, <1>5, <1>6, <1>7 DEF Art!Next

\* Undo and redo go back and forth over one line of pictures, as PaintHistory
\* says, for every depth, whatever was trimmed and whatever allocations
\* failed.
THEOREM LineTheorem == ServicesSpec => OneLine
<1>1. HInv /\ UNCHANGED paintVars => UNCHANGED Art!History!historyVars
  BY DEF paintVars, Art!History!historyVars
<1>2. HInv /\ [Art!Next]_paintVars
        => [Art!History!Next]_(Art!History!historyVars)
  BY <1>1, StepLine, HistoryAssumption
<1>3. Art!Init => Art!History!Init
  BY InitLine, HistoryAssumption
<1> QED BY <1>2, <1>3, ServicesPaint, InvariantHistory, PTL
        DEF OneLine, Art!OneLine, Art!History!Spec
-----------------------------------------------------------------------------
\* What is shown and stored, and the allocations that failed.
Shown == /\ stored \in Pictures /\ refused \in 0 .. MaxRefused
         /\ shownUndo \in 0 .. Depth /\ shownRedo \in 0 .. Depth

LEMMA PaintTyped == ServicesSpec => []Art!TypeOK
<1>1. Art!Init => Shown
  BY HistoryAssumption DEF Art!Init, Shown
<1>2. ASSUME HInv, HInv', Shown, [Art!Next]_paintVars
      PROVE  Shown'
  <2>0. /\ Len(undo') \in 0 .. Depth /\ Len(redo') \in 0 .. Depth
        /\ canvas \in Pictures /\ Depth \in Nat /\ MaxRefused \in Nat
    <3>1. /\ undo' \in Seq(Pictures) /\ redo' \in Seq(Pictures)
          /\ Len(undo') + Len(redo') <= Depth /\ canvas \in Pictures
      BY <1>2 DEF HInv, Stacks
    <3>2. Len(undo') \in Nat /\ Len(redo') \in Nat
      BY <3>1, LenProperties
    <3> QED BY <3>1, <3>2, HistoryAssumption
  <2>1. ASSUME Art!SyncDepths
        PROVE  shownUndo' \in 0 .. Depth /\ shownRedo' \in 0 .. Depth
    BY <2>0, <2>1 DEF Art!SyncDepths
  <2>2. CASE UNCHANGED paintVars
    BY <1>2, <2>2 DEF paintVars, Shown
  <2>3. CASE \E p \in Pictures : Art!Edit(p)
    BY <1>2, <2>0, <2>1, <2>3 DEF Shown, Art!Edit, Art!Push
  <2>4. CASE \E p \in Pictures : Art!Replace(p)
    BY <1>2, <2>0, <2>1, <2>4 DEF Shown, Art!Replace, Art!Clean
  <2>5. CASE Art!Undo \/ Art!Redo
    BY <1>2, <2>0, <2>1, <2>5 DEF Shown, Art!Undo, Art!Redo
  <2>6. CASE Art!Save \/ Art!Clear
    BY <1>2, <2>0, <2>1, <2>6 DEF Shown, Art!Save, Art!Clear, Art!Clean
  <2> QED BY <1>2, <2>2, <2>3, <2>4, <2>5, <2>6 DEF Art!Next
<1>3. HInv /\ Shown => Art!TypeOK
  BY DEF HInv, Stacks, Shown, Art!TypeOK
<1> QED BY <1>1, <1>2, <1>3, InvariantHistory, ServicesPaint, PTL
=============================================================================
