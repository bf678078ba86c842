-------------------------- MODULE InterpreterProofs --------------------------
(***************************************************************************)
(* Proofs about the variables of a program that runs: no slot is lost, the *)
(* indexes know what is there, and a cached statement finds its variable,  *)
(* whatever is called, hidden by LOCAL, restored, made and cleared.        *)
(* The last part carries over to the whole program what FramesProofs shows *)
(* of its frames.                                                          *)
(***************************************************************************)
EXTENDS Interpreter, FiniteSetTheorems, SequenceTheorems, WellFoundedInduction, TLAPS

\* Sizes of sets are the same there as here.
LEMMA SameSizes == \A S : Vars!Cardinality(S) = Cardinality(S)
BY DEF Vars!Cardinality, Cardinality

\* ... and so is the order of the slots that hash_rebuild takes.
LEMMA SameOrder ==
  \A S : Vars!InTableOrder(S) =
           [i \in 1..Cardinality(S) |->
              CHOOSE s \in S : Cardinality({t \in S : t < s}) = i - 1]
BY DEF Vars!InTableOrder, Vars!Cardinality, Cardinality

-----------------------------------------------------------------------------
(* Numbers and finite sets.                                                *)

\* Order of the numbers, as the pairs that are in order.
Below == {p \in Nat \X Nat : p[1] < p[2]}

\* A set of numbers has a least one, and a bounded one a greatest.
LEMMA LeastOne ==
  ASSUME NEW S, S \subseteq Nat, S # {}
  PROVE  Vars!Min(S) \in S /\ \A x \in S : Vars!Min(S) <= x
<1>1. IsWellFoundedOn(Below, Nat)
  BY NatLessThanWellFounded DEF Below, OpToRel
<1>2. PICK x \in S : \A y \in S : ~ (<<y, x>> \in Below)
  BY <1>1, WFMin
<1>3. \A y \in S : x <= y
  <2> SUFFICES ASSUME NEW y \in S, ~ (x <= y) PROVE FALSE
    OBVIOUS
  <2>1. x \in Nat /\ y \in Nat /\ y < x
    OBVIOUS
  <2>2. <<y, x>> \in Below
    BY <2>1 DEF Below
  <2> QED BY <1>2, <2>2
<1> QED BY <1>2, <1>3 DEF Vars!Min

\* ... and one that is bounded has a greatest.
LEMMA GreatestOne ==
  ASSUME NEW n \in Nat, NEW S, S \subseteq 0..n, S # {}
  PROVE  Vars!Max(S) \in S /\ \A x \in S : x <= Vars!Max(S)
<1> DEFINE T == {n - x : x \in S}
<1>1. T \subseteq Nat /\ T # {}
  <2>1. \A x \in 0..n : n - x \in Nat
    OBVIOUS
  <2> QED BY <2>1
<1> HIDE DEF T
<1>2. Vars!Min(T) \in T /\ \A x \in T : Vars!Min(T) <= x
  BY <1>1, LeastOne
<1> USE DEF T
<1>3. PICK x \in S : Vars!Min(T) = n - x
  BY <1>2
<1>4. \A y \in S : y <= x
  <2> SUFFICES ASSUME NEW y \in S PROVE y <= x
    OBVIOUS
  <2>1. n - x <= n - y
    BY <1>2, <1>3
  <2>2. x \in Nat /\ y \in Nat
    OBVIOUS
  <2> QED BY <2>1, <2>2
<1> QED BY <1>4 DEF Vars!Max

\* Induction over the numbers in a set.
LEMMA InductionInSet ==
  ASSUME NEW S, 0 \in S, \A n \in Nat : n \in S => n + 1 \in S
  PROVE  Nat \subseteq S
<1> DEFINE T == Nat \ S
<1> SUFFICES ASSUME T # {} PROVE FALSE
  OBVIOUS
<1>1. T \subseteq Nat
  OBVIOUS
<1> HIDE DEF T
<1>2. Vars!Min(T) \in T /\ \A x \in T : Vars!Min(T) <= x
  BY <1>1, LeastOne
<1> USE DEF T
<1>3. Vars!Min(T) \in Nat /\ Vars!Min(T) # 0 /\ Vars!Min(T) \notin S
  BY <1>2
<1>4. Vars!Min(T) - 1 \in Nat /\ (Vars!Min(T) - 1) + 1 = Vars!Min(T)
  BY <1>3
<1>5. Vars!Min(T) - 1 \in S
  BY <1>2, <1>3, <1>4
<1> QED BY <1>3, <1>4, <1>5

\* A finite set does not hold every number up to its size and one more.
LEMMA LeastAbsent ==
  ASSUME NEW S, IsFiniteSet(S)
  PROVE  /\ Vars!Least(S) \in Nat \ {0} /\ Vars!Least(S) \notin S
         /\ Vars!Least(S) <= Cardinality(S) + 1
<1> DEFINE n == Cardinality(S) + 1
<1>1. Cardinality(S) \in Nat
  BY FS_CardinalityType
<1>2. IsFiniteSet(1..n) /\ Cardinality(1..n) = n
  BY <1>1, FS_Interval
<1>3. (1..n) \ S # {}
  <2> SUFFICES ASSUME 1..n \subseteq S PROVE FALSE
    OBVIOUS
  <2>1. Cardinality(1..n) <= Cardinality(S)
    BY FS_Subset
  <2> QED BY <1>1, <1>2, <2>1
<1>4. (1..n) \ S \subseteq Nat
  OBVIOUS
<1>5. Vars!Min((1..n) \ S) \in (1..n) \ S
  BY <1>3, <1>4, LeastOne
<1> QED BY <1>5, SameSizes DEF Vars!Least

\* The members of a set of numbers in order are its members.
LEMMA TableOrder ==
  ASSUME NEW n \in Nat, NEW S, S \subseteq 1..n
  PROVE  /\ Vars!InTableOrder(S) \in Seq(S)
         /\ \A s \in S : \E i \in 1..Len(Vars!InTableOrder(S)) : Vars!InTableOrder(S)[i] = s
<1> DEFINE k == Cardinality(S)
           under(s) == {t \in S : t < s}
           rank == [s \in S |-> Cardinality(under(s)) + 1]
<1>1. IsFiniteSet(1..n)
  BY FS_Interval
<1>2. IsFiniteSet(S) /\ k \in Nat
  BY <1>1, FS_Subset, FS_CardinalityType
<1>3. ASSUME NEW s \in S
      PROVE  /\ IsFiniteSet(under(s)) /\ Cardinality(under(s)) \in Nat
             /\ Cardinality(under(s)) < k
  <2>1. under(s) \in SUBSET S /\ under(s) # S
    OBVIOUS
  <2>2. /\ IsFiniteSet(under(s)) /\ Cardinality(under(s)) <= k
        /\ k = Cardinality(under(s)) => S = under(s)
    BY <1>2, <2>1, FS_Subset
  <2>3. Cardinality(under(s)) \in Nat
    BY <2>2, FS_CardinalityType
  <2> QED BY <1>2, <2>1, <2>2, <2>3
<1>4. ASSUME NEW s \in S, NEW t \in S, s < t
      PROVE  Cardinality(under(s)) < Cardinality(under(t))
  <2>0. s \in Nat /\ t \in Nat
    OBVIOUS
  <2>a. \A u \in under(s) : u \in under(t)
    BY <1>4, <2>0
  <2>b. s \in under(t) /\ s \notin under(s)
    BY <1>4, <2>0
  <2>1. under(s) \in SUBSET under(t) /\ s \in under(t) /\ s \notin under(s)
    BY <2>a, <2>b, Zenon
  <2>2. /\ Cardinality(under(s)) <= Cardinality(under(t))
        /\ Cardinality(under(t)) = Cardinality(under(s)) => under(t) = under(s)
    BY <1>3, <2>1, FS_Subset
  <2>3. under(t) # under(s)
    BY <2>1
  <2> HIDE DEF under
  <2> QED BY <1>3, <2>2, <2>3
<1>5. ASSUME NEW s \in S, NEW t \in S, Cardinality(under(s)) = Cardinality(under(t))
      PROVE  s = t
  <2>1. s \in Nat /\ t \in Nat
    OBVIOUS
  <2>2. s < t \/ t < s \/ s = t
    BY <2>1
  <2> HIDE DEF under
  <2> QED BY <1>3, <1>4, <1>5, <2>2
<1>6. rank \in Injection(S, 1..k)
  <2>1. \A s \in S : rank[s] \in 1..k
    <3> HIDE DEF under
    <3> QED BY <1>2, <1>3
  <2>2. \A s, t \in S : rank[s] = rank[t] => s = t
    <3> HIDE DEF under
    <3> QED BY <1>3, <1>5
  <2>3. rank \in [S -> 1..k]
    BY <2>1
  <2> HIDE DEF rank, k
  <2> QED BY <2>2, <2>3 DEF Injection, IsInjective
<1>7. IsFiniteSet(1..k) /\ Cardinality(1..k) = k
  BY <1>2, FS_Interval
<1>8. rank \in Surjection(S, 1..k)
  BY <1>6, <1>7, FS_Injection
<1>9. \A i \in 1..k : \E s \in S : rank[s] = i
  BY <1>8 DEF Surjection
<1>10. \A i \in 1..k : /\ Vars!InTableOrder(S)[i] \in S
                       /\ Cardinality(under(Vars!InTableOrder(S)[i])) = i - 1
  <2> SUFFICES ASSUME NEW i \in 1..k
               PROVE  /\ Vars!InTableOrder(S)[i] \in S
                      /\ Cardinality(under(Vars!InTableOrder(S)[i])) = i - 1
    OBVIOUS
  <2>1. PICK s \in S : Cardinality(under(s)) + 1 = i
    BY <1>9
  <2>2. Cardinality(under(s)) = i - 1
    <3> HIDE DEF under
    <3> QED BY <1>3, <2>1
  <2>3. Vars!InTableOrder(S)[i] = CHOOSE t \in S : Cardinality(under(t)) = i - 1
    BY SameOrder
  <2> HIDE DEF under
  <2> QED BY <2>2, <2>3
<1>11. Vars!InTableOrder(S) \in [1..k -> S]
  BY <1>10, SameOrder
<1>12. Vars!InTableOrder(S) \in Seq(S) /\ Len(Vars!InTableOrder(S)) = k
  BY <1>2, <1>11, SMT
<1>13. \A s \in S : \E i \in 1..k : Vars!InTableOrder(S)[i] = s
  <2> SUFFICES ASSUME NEW s \in S PROVE \E i \in 1..k : Vars!InTableOrder(S)[i] = s
    OBVIOUS
  <2>1. rank[s] \in 1..k /\ rank[s] - 1 = Cardinality(under(s))
    <3> HIDE DEF under
    <3> QED BY <1>2, <1>3
  <2>2. Vars!InTableOrder(S)[rank[s]] \in S
        /\ Cardinality(under(Vars!InTableOrder(S)[rank[s]])) = Cardinality(under(s))
    BY <1>10, <2>1
  <2> HIDE DEF under, rank
  <2> QED BY <1>5, <2>1, <2>2
<1> QED BY <1>12, <1>13

-----------------------------------------------------------------------------
(* The memory of a context, and the parts of the invariant.                *)

\* What the memory of a context consists of.
Text == Names \cup {""}
Storage == (Nat \X Nat) \cup {<<>>}

Slot == [used : BOOLEAN, name : Text, type : Types, unsuffixed : BOOLEAN,
         gen : Nat, cell : Storage]
Save == [slot : Nat, existed : BOOLEAN, type : Types, unsuffixed : BOOLEAN,
         cell : Storage]
Entry == [slot : Nat, gen : Nat, name : Text, type : Types]
Left == [gen : Nat, of : (Text \X Types \X BOOLEAN) \cup {<<>>}]
Static == [index : SUBSET (Text \X Types \X Nat), bare : Seq(Text \X Nat),
           built : BOOLEAN, free : Seq(Nat), high : Nat,
           left : [1..MaxSlots -> Left]]

Memory == [slots : Seq(Slot), calls : Seq(Seq(Save)),
           cache : [Vars!Statements -> Entry], names : Static]

\* Slots v and the lists of the free ones: each slot that was handed out is used or
\* free, once, but for t, that vars_free_slot has just taken from them (0: none).
SlotsPart(v, n, t) ==
  /\ Len(v) <= MaxSlots /\ n.high <= Len(v)
  /\ t # 0 => t \in 1..n.high /\ ~v[t].used
  /\ \A s \in 1..Len(v) : v[s].used => s <= n.high
  /\ \A s \in 1..n.high : \/ v[s].used \/ s = t
                          \/ \E i \in 1..Len(n.free) : n.free[i] = s
  /\ \A i \in 1..Len(n.free) :
       n.free[i] \in 1..n.high /\ ~v[n.free[i]].used /\ n.free[i] # t
  /\ \A i, j \in 1..Len(n.free) : n.free[i] = n.free[j] => i = j

\* No LOCAL has a suffix.
Plain == "suffix" \notin Uses

\* The index of keys has the used slots.
Indexes(v, n) ==
  n.index = {<<v[s].name, v[s].type, s>> : s \in {u \in 1..Len(v) : v[u].used}}

\* ... and the index of bare names has those of a bare name.
IndexPart(v, n) ==
  /\ \A s \in 1..Len(v) : v[s].used => n.built
  /\ Indexes(v, n)
  /\ Plain => \A s \in 1..Len(v) : v[s].used /\ v[s].unsuffixed =>
                \E i \in 1..Len(n.bare) : n.bare[i] = <<v[s].name, s>>

\* What is cached for a statement, e, and what LOCALs left, l.
Valid(e, v, l) ==
  e.slot # 0 =>
    /\ e.gen # 0 /\ e.slot \in 1..Len(v)
    /\ e.gen = v[e.slot].gen =>
         v[e.slot].used /\ v[e.slot].name = e.name /\ v[e.slot].type = e.type
    /\ e.gen = l[e.slot].gen =>
         \E u \in BOOLEAN : l[e.slot].of = <<e.name, e.type, u>>

\* What is used has a generation, and its slot has nothing left by a LOCAL; what is
\* cached was compiled for the slot's variable, or for another generation.
CachePart(v, ca, n) ==
  /\ \A s \in 1..MaxSlots : n.left[s].of # <<>> => n.left[s].gen # 0
  /\ \A s \in 1..Len(v) : v[s].used => v[s].gen # 0 /\ n.left[s] = Vars!Taken
  /\ \A r \in Vars!Statements : Valid(ca[r], v, n.left)

\* All but the LOCALs that calls hide: the memory between two steps, or within one.
Rest(m, t) ==
  /\ m \in Memory
  /\ SlotsPart(m.slots, m.names, t)
  /\ IndexPart(m.slots, m.names)
  /\ CachePart(m.slots, m.cache, m.names)

\* LOCAL i of call g is to be restored yet, where k are left of the last call.
Waiting(cs, k, g, i) == g \in 1..Len(cs) /\ i \in 1..Len(cs[g]) /\ (g < Len(cs) \/ i <= k)

\* It has its slot, and the key is the same.
Pending(v, save) ==
  /\ save.slot \in 1..Len(v) /\ v[save.slot].used
  /\ save.existed => save.type = v[save.slot].type
  /\ Plain => v[save.slot].unsuffixed

\* It hides another LOCAL of the slot, so it found the slot in use.
Later(save) == save.existed /\ (Plain => save.unsuffixed)

\* That of all that are to be restored: the first of a slot may have made it.
PendingPart(v, cs, k) ==
  /\ \A g, i \in Nat : Waiting(cs, k, g, i) => Pending(v, cs[g][i])
  /\ \A g, i, h, j \in Nat :
       /\ Waiting(cs, k, g, i) /\ Waiting(cs, k, h, j)
       /\ cs[g][i].slot = cs[h][j].slot
       /\ g < h \/ (g = h /\ i < j)
       => Later(cs[h][j])

\* The values that slots, cache entries and signatures begin with.
LEMMA Shapes ==
  /\ Vars!Empty \in Slot /\ ~Vars!Empty.used /\ Vars!Empty.gen = 0
  /\ Vars!Uncompiled \in Entry /\ Vars!Uncompiled.slot = 0
  /\ Vars!Taken \in Left /\ Vars!Taken.gen = 0 /\ Vars!Taken.of = <<>>
BY VariablesAssumption
   DEF Vars!Empty, Vars!Uncompiled, Vars!Taken, Slot, Entry, Left, Text, Storage

\* The fields of a slot have their types.
LEMMA SlotFields ==
  ASSUME NEW v \in Seq(Slot), NEW s \in 1..Len(v)
  PROVE  /\ v[s] \in Slot /\ s \in Nat
         /\ v[s].used \in BOOLEAN /\ v[s].name \in Text /\ v[s].type \in Types
         /\ v[s].unsuffixed \in BOOLEAN /\ v[s].gen \in Nat /\ v[s].cell \in Storage
<1>1. v[s] \in Slot
  OBVIOUS
<1>2. \A x \in Slot : /\ x.used \in BOOLEAN /\ x.name \in Text /\ x.type \in Types
                       /\ x.unsuffixed \in BOOLEAN /\ x.gen \in Nat /\ x.cell \in Storage
  BY DEF Slot
<1> QED BY <1>1, <1>2

\* The cache is empty after a table has moved.
LEMMA NoCacheTyped ==
  /\ Vars!NoCache \in [Vars!Statements -> Entry]
  /\ \A r \in Vars!Statements : Vars!NoCache[r].slot = 0
BY Shapes DEF Vars!NoCache

\* The static state after CLEAR.
LEMMA NoNamesTyped == Vars!NoNames \in Static /\ Vars!NoNames.index = {}
   /\ Vars!NoNames.bare = <<>>
   /\ Vars!NoNames.built = FALSE /\ Vars!NoNames.free = <<>> /\ Vars!NoNames.high = 0
   /\ Vars!NoNames.left = [s \in 1..MaxSlots |-> Vars!Taken]
BY Shapes DEF Vars!NoNames, Static

\* A function has finitely many values on a finite set.
LEMMA FiniteImage ==
  ASSUME NEW S, IsFiniteSet(S), NEW f, DOMAIN f = S
  PROVE  IsFiniteSet({f[x] : x \in S})
<1> DEFINE T == {f[x] : x \in S}
           g == [x \in S |-> f[x]]
<1>1. g \in Surjection(S, T)
  BY DEF Surjection
<1> QED BY <1>1, FS_Surjection

\* The statements are finitely many.
LEMMA StatementsFinite == IsFiniteSet(Vars!Statements)
<1>1. IsFiniteSet(Suffixed) /\ IsFiniteSet(Types \ {Default}) /\ IsFiniteSet({"bare"})
  BY VariablesAssumption, FS_Subset, FS_Singleton, FS_Difference
<1> DEFINE P == (Names \X {"bare"}) \cup (Suffixed \X (Types \ {Default}))
           f == [p \in P |-> [name |-> p[1], type |-> p[2]]]
<1>2. IsFiniteSet(P)
  BY <1>1, VariablesAssumption, FS_Product, FS_Union
<1>3. \A r \in Vars!Statements : \E p \in P : f[p] = r
  <2> SUFFICES ASSUME NEW r \in Vars!Statements PROVE \E p \in P : f[p] = r
    OBVIOUS
  <2>1. <<r.name, r.type>> \in P /\ r = [name |-> r.name, type |-> r.type]
    BY DEF Vars!Statements
  <2> QED BY <2>1
<1>4. Vars!Statements \subseteq {f[p] : p \in P}
  BY <1>3
<1>5. IsFiniteSet({f[p] : p \in P})
  <2>1. DOMAIN f = P
    OBVIOUS
  <2> HIDE DEF f, P
  <2> QED BY <1>2, <2>1, FiniteImage
<1> QED BY <1>4, <1>5, FS_Subset

\* ++G.var_gen: a new generation is none that the slot left, or that is cached for it.
LEMMA Freshness ==
  ASSUME NEW m \in Memory, NEW s \in 1..MaxSlots
  PROVE  /\ Vars!Fresh(m, s) \in Nat \ {0}
         /\ Vars!Fresh(m, s) # m.names.left[s].gen
         /\ \A r \in Vars!Statements : m.cache[r].slot = s => m.cache[r].gen # Vars!Fresh(m, s)
<1> DEFINE Q == {q \in Vars!Statements : m.cache[q].slot = s}
           G == {m.cache[r].gen : r \in Q}
           S == {m.names.left[s].gen} \cup G
<1>1. IsFiniteSet(Q)
  BY StatementsFinite, FS_Subset
<1>2. IsFiniteSet(G)
  <2> DEFINE f == [r \in Q |-> m.cache[r].gen]
  <2>1. IsFiniteSet({f[r] : r \in Q})
    <3>1. DOMAIN f = Q
      OBVIOUS
    <3> HIDE DEF f, Q
    <3> QED BY <1>1, <3>1, FiniteImage
  <2>2. G = {f[r] : r \in Q}
    OBVIOUS
  <2> QED BY <2>1, <2>2
<1>3. IsFiniteSet(S)
  BY <1>2, FS_Singleton, FS_Union
<1>4. Vars!Least(S) \in Nat \ {0} /\ Vars!Least(S) \notin S
  BY <1>3, LeastAbsent
<1>5. Vars!Fresh(m, s) = Vars!Least(S)
  BY DEF Vars!Fresh
<1> QED BY <1>4, <1>5

\* The storage of a new variable is a place of its slot.
LEMMA FreshStorage ==
  ASSUME NEW m, NEW s \in Nat
  PROVE  Vars!FreshCell(m, s) \in Storage
<1> DEFINE S == {n \in 1..MaxCalls + 1 : <<s, n>> \in Vars!Held(m)}
<1>1. IsFiniteSet(1..MaxCalls + 1)
  BY VariablesAssumption, FS_Interval
<1>2. IsFiniteSet(S)
  BY <1>1, FS_Subset
<1>3. Vars!Least(S) \in Nat
  BY <1>2, LeastAbsent
<1> HIDE DEF S
<1>4. Vars!FreshCell(m, s) = <<s, Vars!Least(S)>>
  BY DEF Vars!FreshCell, S
<1> QED BY <1>3, <1>4 DEF Storage

\* A new binding is a used slot.
LEMMA BindingTyped ==
  ASSUME NEW m, NEW s \in Nat, NEW name \in Names, NEW type \in Types, NEW u \in BOOLEAN
  PROVE  /\ Vars!Binding(m, s, name, type, u) \in Slot
         /\ Vars!Binding(m, s, name, type, u).used
         /\ Vars!Binding(m, s, name, type, u).name = name
         /\ Vars!Binding(m, s, name, type, u).type = type
         /\ Vars!Binding(m, s, name, type, u).unsuffixed = u
BY FreshStorage DEF Vars!Binding, Slot, Text

\* ... with storage of its own.
LEMMA BindingCell ==
  \A m, s, name, type, u : Vars!Binding(m, s, name, type, u).cell = Vars!FreshCell(m, s)
BY DEF Vars!Binding

-----------------------------------------------------------------------------
(* Slots.                                                                  *)

\* A memory by its parts.
LEMMA Parts ==
  ASSUME NEW m \in Memory
  PROVE  /\ m.slots \in Seq(Slot) /\ m.calls \in Seq(Seq(Save))
         /\ m.cache \in [Vars!Statements -> Entry] /\ m.names \in Static
BY DEF Memory

\* The first table of a context is sound (vars_ensure_cap).
LEMMA AllocatedSound ==
  ASSUME NEW m \in Memory, Rest(m, 0), m.slots = <<>>
  PROVE  /\ Rest(Vars!Allocated(m), 0) /\ Vars!Allocated(m).calls = m.calls
         /\ Len(Vars!Allocated(m).slots) = TableSize
         /\ \A s \in 1..TableSize : Vars!Allocated(m).slots[s] = Vars!Empty
         /\ Vars!Allocated(m).names.free = <<>> /\ Vars!Allocated(m).names.high = 0
<1> DEFINE a == Vars!Allocated(m)
           v == [s \in 1..TableSize |-> Vars!Empty]
           n == [m.names EXCEPT !.free = <<>>, !.high = 0, !.left = Vars!NoNames.left]
<1>1. a = [m EXCEPT !.slots = v, !.names = n]
  BY DEF Vars!Allocated, Memory, Static
<1>2. a.slots = v /\ a.calls = m.calls /\ a.cache = m.cache /\ a.names = n
  BY <1>1 DEF Memory
<1>3. v \in Seq(Slot) /\ Len(v) = TableSize /\ \A s \in 1..TableSize : v[s] = Vars!Empty
  BY Shapes, VariablesAssumption
<1>4. /\ n \in Static /\ n.index = m.names.index /\ n.bare = m.names.bare
      /\ n.free = <<>> /\ n.high = 0 /\ \A s \in 1..MaxSlots : n.left[s] = Vars!Taken
  BY NoNamesTyped, Parts DEF Static
<1>5. a \in Memory
  BY <1>1, <1>3, <1>4 DEF Memory
<1> HIDE DEF v, n
<1>6. SlotsPart(v, n, 0)
  BY <1>3, <1>4, Shapes, VariablesAssumption DEF SlotsPart
<1>7. IndexPart(v, n)
  <2>1. Indexes(m.slots, m.names) /\ Len(m.slots) = 0
    BY DEF Rest, IndexPart
  <2>2. m.names.index = {}
    BY <2>1 DEF Indexes
  <2>3. Indexes(v, n)
    BY <2>2, <1>3, <1>4, Shapes DEF Indexes
  <2> QED BY <2>3, <1>3, Shapes DEF IndexPart
<1>8. CachePart(v, m.cache, n)
  <2>1. \A r \in Vars!Statements : m.cache[r].slot = 0
    <3> SUFFICES ASSUME NEW r \in Vars!Statements PROVE m.cache[r].slot = 0
      OBVIOUS
    <3>1. Valid(m.cache[r], m.slots, m.names.left)
      BY DEF Rest, CachePart
    <3>2. Len(m.slots) = 0
      OBVIOUS
    <3> QED BY <3>1, <3>2, SMTT(30) DEF Valid
  <2> QED BY <2>1, <1>3, <1>4, Shapes DEF CachePart, Valid
<1>9. \A s \in 1..TableSize : v[s] = Vars!Empty
  BY <1>3
<1> QED BY <1>2, <1>3, <1>4, <1>5, <1>6, <1>7, <1>8, <1>9 DEF Rest

\* A table that has grown is sound: nothing is cached.
LEMMA GrownSound ==
  ASSUME NEW m \in Memory, Rest(m, 0), 2 * Len(m.slots) <= MaxSlots
  PROVE  /\ Rest(Vars!Grown(m), 0) /\ Vars!Grown(m).calls = m.calls
         /\ Vars!Grown(m).names = m.names /\ Len(Vars!Grown(m).slots) = 2 * Len(m.slots)
         /\ \A s \in 1..Len(m.slots) : Vars!Grown(m).slots[s] = m.slots[s]
         /\ \A s \in 1..2 * Len(m.slots) : s > Len(m.slots) => Vars!Grown(m).slots[s] = Vars!Empty
<1> DEFINE v == m.slots
           d == Vars!Doubled(v)
           n == m.names
<1>1. Vars!Grown(m) = [m EXCEPT !.slots = d, !.cache = Vars!NoCache]
  BY DEF Vars!Grown
<1>2. /\ v \in Seq(Slot) /\ Len(v) \in Nat /\ n \in Static
  BY Parts
<1> HIDE DEF v, n
<1>3. /\ d \in Seq(Slot) /\ Len(d) = 2 * Len(v)
      /\ \A s \in 1..Len(v) : d[s] = v[s]
      /\ \A s \in 1..2 * Len(v) : s > Len(v) => d[s] = Vars!Empty
  <2>1. d = [s \in 1..2 * Len(v) |-> IF s <= Len(v) THEN v[s] ELSE Vars!Empty]
    BY DEF Vars!Doubled
  <2>2. \A s \in 1..2 * Len(v) : d[s] \in Slot
    BY <2>1, <1>2, Shapes
  <2>3. d \in [1..2 * Len(v) -> Slot]
    BY <2>1, <2>2
  <2>4. d \in Seq(Slot) /\ Len(d) = 2 * Len(v)
    BY <2>3, <1>2, SMT
  <2> HIDE DEF d
  <2> QED BY <2>1, <2>4, <1>2
<1> HIDE DEF d
<1>4. Vars!Grown(m) \in Memory /\ Vars!Grown(m).slots = d /\ Vars!Grown(m).calls = m.calls
      /\ Vars!Grown(m).cache = Vars!NoCache /\ Vars!Grown(m).names = n
  BY <1>1, <1>3, NoCacheTyped DEF Memory, n
<1>5. SlotsPart(v, n, 0) /\ IndexPart(v, n) /\ CachePart(v, m.cache, n)
      /\ 2 * Len(v) <= MaxSlots
  BY DEF Rest, v, n
<1>6. \A s \in 1..2 * Len(v) : d[s].used => s \in 1..Len(v) /\ d[s] = v[s]
  BY <1>2, <1>3, Shapes
<1>7. SlotsPart(d, n, 0)
  <2>1. n.high \in Nat /\ n.free \in Seq(Nat)
    BY <1>2 DEF Static
  <2>2. n.high <= Len(v) /\ Len(v) <= Len(d) /\ Len(d) <= MaxSlots
    BY <1>2, <1>3, <1>5 DEF SlotsPart
  <2>3. \A s \in 1..n.high : s \in 1..Len(v) /\ d[s] = v[s]
    BY <2>1, <2>2, <1>2, <1>3
  <2>4. \A s \in 1..Len(d) : d[s].used => s <= n.high
    BY <1>3, <1>5, <1>6 DEF SlotsPart
  <2>5. n.high <= Len(d)
    BY <2>1, <2>2, <1>2, <1>3
  <2> QED BY <2>2, <2>3, <2>4, <2>5, <1>5 DEF SlotsPart
<1>8. IndexPart(d, n)
  <2>1. {u \in 1..Len(d) : d[u].used} = {u \in 1..Len(v) : v[u].used}
    BY <1>2, <1>3, <1>6
  <2>2. Indexes(d, n)
    BY <2>1, <1>3, <1>5 DEF IndexPart, Indexes
  <2> QED BY <2>2, <1>2, <1>3, <1>5, <1>6 DEF IndexPart
<1>9. CachePart(d, Vars!NoCache, n)
  BY <1>2, <1>3, <1>5, <1>6, NoCacheTyped DEF CachePart, Valid
<1> QED BY <1>3, <1>4, <1>7, <1>8, <1>9, Shapes DEF Rest, v, n

\* vars_free_slot takes the slot that was freed last.
LEMMA TakenFromList ==
  ASSUME NEW m \in Memory, Rest(m, 0), m.names.free # <<>>
  PROVE  LET t == [m EXCEPT !.names.free = Tail(@)]
         IN  Rest(t, Head(m.names.free)) /\ Head(m.names.free) # 0 /\ t.calls = m.calls
<1> DEFINE f == m.names.free
           n == [m.names EXCEPT !.free = Tail(f)]
           t == [m EXCEPT !.names = n]
<1>1. f \in Seq(Nat) /\ Len(f) \in Nat \ {0}
  BY Parts DEF Static
<1>2. Tail(f) \in Seq(Nat) /\ Len(Tail(f)) = Len(f) - 1
      /\ \A i \in 1..Len(Tail(f)) : Tail(f)[i] = f[i + 1] /\ i + 1 \in 1..Len(f)
  BY <1>1
<1>3. n \in Static /\ n.free = Tail(f) /\ n.high = m.names.high /\ n.index = m.names.index
      /\ n.bare = m.names.bare /\ n.built = m.names.built /\ n.left = m.names.left
  BY <1>2, Parts DEF Static
<1>4. t \in Memory /\ t.slots = m.slots /\ t.calls = m.calls /\ t.cache = m.cache /\ t.names = n
  <2> HIDE DEF n
  <2> QED BY <1>3 DEF Memory
<1>5. Head(f) = f[1] /\ 1 \in 1..Len(f)
  BY <1>1
<1>6. SlotsPart(m.slots, n, Head(f)) /\ Head(f) # 0
  <2> DEFINE v == m.slots
             h == m.names.high
  <2>0. SlotsPart(v, m.names, 0) /\ h \in Nat /\ Len(v) \in Nat
    BY Parts DEF Rest, Static
  <2> HIDE DEF v, h, n, f
  <2>1. f[1] \in 1..h /\ ~v[f[1]].used /\ f[1] # 0
    BY <2>0, <1>5 DEF SlotsPart, f, h
  <2>2. \A i \in 1..Len(Tail(f)) : Tail(f)[i] # f[1]
    BY <2>0, <1>1, <1>2, <1>5 DEF SlotsPart, f
  <2>3. \A i \in 1..Len(Tail(f)) : Tail(f)[i] \in 1..h /\ ~v[Tail(f)[i]].used
    BY <2>0, <1>2 DEF SlotsPart, f, h
  <2>4. \A i, j \in 1..Len(Tail(f)) : Tail(f)[i] = Tail(f)[j] => i = j
    <3> SUFFICES ASSUME NEW i \in 1..Len(Tail(f)), NEW j \in 1..Len(Tail(f)),
                        Tail(f)[i] = Tail(f)[j]
                 PROVE  i = j
      OBVIOUS
    <3>1. i + 1 = j + 1
      BY <2>0, <1>2 DEF SlotsPart, f
    <3> QED BY <3>1
  <2>5. ASSUME NEW s \in 1..h
        PROVE \/ v[s].used \/ s = f[1] \/ \E i \in 1..Len(Tail(f)) : Tail(f)[i] = s
    <3> SUFFICES ASSUME ~v[s].used, s # f[1] PROVE \E i \in 1..Len(Tail(f)) : Tail(f)[i] = s
      OBVIOUS
    <3>1. PICK j \in 1..Len(f) : f[j] = s
      BY <2>0 DEF SlotsPart, f, h
    <3>2. j - 1 \in 1..Len(Tail(f)) /\ Tail(f)[j - 1] = f[j]
      BY <3>1, <1>1, <1>2
    <3> QED BY <3>1, <3>2
  <2>6. h <= Len(v) /\ Len(v) <= MaxSlots /\ \A s \in 1..Len(v) : v[s].used => s <= h
    BY <2>0 DEF SlotsPart, h
  <2>7. n.high = h /\ n.free = Tail(f) /\ Head(f) = f[1]
    BY <1>3, <1>5 DEF h
  <2> QED BY <2>1, <2>2, <2>3, <2>4, <2>5, <2>6, <2>7 DEF SlotsPart, v
<1>7. IndexPart(m.slots, n) /\ CachePart(m.slots, m.cache, n)
  BY <1>3 DEF Rest, IndexPart, Indexes, CachePart
<1>8. t = [m EXCEPT !.names.free = Tail(@)]
  BY DEF Memory, Static
<1> QED BY <1>4, <1>6, <1>7, <1>8 DEF Rest

\* ... or one never used.
LEMMA TakenFromTable ==
  ASSUME NEW m \in Memory, Rest(m, 0), m.names.free = <<>>, m.names.high < Len(m.slots)
  PROVE  LET t == [m EXCEPT !.names.high = @ + 1]
         IN  Rest(t, m.names.high + 1) /\ m.names.high + 1 # 0 /\ t.calls = m.calls
<1> DEFINE h == m.names.high
           n == [m.names EXCEPT !.high = h + 1]
           t == [m EXCEPT !.names = n]
<1>1. h \in Nat /\ Len(m.slots) \in Nat
  BY Parts DEF Static
<1>2. m.names \in Static
  BY Parts
<1>3. n \in Static /\ n.free = <<>> /\ n.high = h + 1 /\ n.index = m.names.index
      /\ n.bare = m.names.bare /\ n.built = m.names.built /\ n.left = m.names.left
  <2>1. m.names.free = <<>> /\ h + 1 \in Nat
    BY <1>1
  <2>2. n.high = h + 1 /\ n.free = <<>>
    BY <1>2, <2>1 DEF Static
  <2>3. n.index = m.names.index /\ n.bare = m.names.bare /\ n.built = m.names.built
        /\ n.left = m.names.left
    BY <1>2 DEF Static
  <2>4. n \in Static
    <3> DEFINE x == h + 1
    <3> HIDE DEF x
    <3>1. [m.names EXCEPT !.high = x] \in Static
      BY <1>2, <2>1 DEF Static, x
    <3> QED BY <3>1 DEF x
  <2> QED BY <2>2, <2>3, <2>4
<1>4. t \in Memory /\ t.slots = m.slots /\ t.calls = m.calls /\ t.cache = m.cache /\ t.names = n
  <2> HIDE DEF n
  <2> QED BY <1>3 DEF Memory
<1>6. SlotsPart(m.slots, n, h + 1)
  <2>1. SlotsPart(m.slots, m.names, 0) /\ h < Len(m.slots)
    BY DEF Rest
  <2>2. h + 1 \in 1..Len(m.slots) /\ ~m.slots[h + 1].used
    BY <2>1, <1>1 DEF SlotsPart
  <2>3. \A s \in 1..h + 1 : s \in 1..h \/ s = h + 1
    BY <1>1
  <2> HIDE DEF n
  <2> QED BY <2>1, <2>2, <2>3, <1>1, <1>3 DEF SlotsPart
<1>7. IndexPart(m.slots, n) /\ CachePart(m.slots, m.cache, n)
  BY <1>3 DEF Rest, IndexPart, Indexes, CachePart
<1>8. t = [m EXCEPT !.names.high = @ + 1]
  BY DEF Memory, Static
<1> QED BY <1>1, <1>4, <1>6, <1>7, <1>8 DEF Rest

\* hash_rebuild: both indexes have what is used, in the order of the slots.
LEMMA RebuiltIndex ==
  ASSUME NEW m \in Memory, m.names.built
  PROVE  /\ Vars!Rebuilt(m) \in Memory
         /\ Vars!Rebuilt(m).slots = m.slots /\ Vars!Rebuilt(m).calls = m.calls
         /\ Vars!Rebuilt(m).cache = m.cache
         /\ Vars!Rebuilt(m).names.built /\ Vars!Rebuilt(m).names.free = m.names.free
         /\ Vars!Rebuilt(m).names.high = m.names.high
            /\ Vars!Rebuilt(m).names.left = m.names.left
         /\ IndexPart(m.slots, Vars!Rebuilt(m).names)
<1> DEFINE v == m.slots
           used == {s \in 1..Len(v) : v[s].used}
           S == {s \in used : v[s].unsuffixed}
           order == Vars!InTableOrder(S)
           index == {<<v[s].name, v[s].type, s>> : s \in used}
           bare == [i \in DOMAIN order |-> <<v[order[i]].name, order[i]>>]
           n == [m.names EXCEPT !.index = index, !.bare = bare]
<1>1. v \in Seq(Slot) /\ Len(v) \in Nat /\ m.names \in Static /\ DOMAIN v = 1..Len(v)
  BY Parts
<1>2. Vars!Rebuilt(m) = [m EXCEPT !.names = n]
  <2>1. Vars!Rebuilt(m) = [m EXCEPT !.names.index = index, !.names.bare = bare]
    BY <1>1, Zenon DEF Vars!Rebuilt
  <2> HIDE DEF index, bare
  <2> QED BY <2>1 DEF Memory, Static
<1>3. /\ order \in Seq(S) /\ \A s \in S : \E i \in 1..Len(order) : order[i] = s
  <2>1. S \subseteq 1..Len(v)
    OBVIOUS
  <2> HIDE DEF S
  <2>2. /\ Vars!InTableOrder(S) \in Seq(S)
        /\ \A s \in S : \E i \in 1..Len(Vars!InTableOrder(S)) : Vars!InTableOrder(S)[i] = s
    BY <1>1, <2>1, TableOrder, ZenonT(30)
  <2> QED BY <2>2
<1>4. bare \in Seq(Text \X Nat) /\ Len(bare) = Len(order)
      /\ \A i \in 1..Len(order) : bare[i] = <<v[order[i]].name, order[i]>>
  <2>0. \A s \in 1..Len(v) : v[s].name \in Text /\ s \in Nat
    BY <1>1, SlotFields
  <2>1. \A s \in S : <<v[s].name, s>> \in Text \X Nat
    BY <2>0
  <2>2. DOMAIN order = 1..Len(order) /\ Len(order) \in Nat
        /\ \A i \in 1..Len(order) : order[i] \in S
    <3> HIDE DEF S, order
    <3> QED BY <1>3
  <2> HIDE DEF S, order
  <2>3. bare \in [1..Len(order) -> Text \X Nat]
    BY <2>1, <2>2
  <2> HIDE DEF v
  <2>4. Len(bare) = Len(order) /\ bare \in Seq(Text \X Nat)
    <3> HIDE DEF bare
    <3> QED BY <2>2, <2>3
  <2> QED BY <2>2, <2>4
<1>5. index \in SUBSET (Text \X Types \X Nat)
  <2>1. \A s \in 1..Len(v) : v[s].name \in Text /\ v[s].type \in Types /\ s \in Nat
    BY <1>1, SlotFields
  <2> HIDE DEF v
  <2>2. \A s \in used : <<v[s].name, v[s].type, s>> \in Text \X Types \X Nat
    BY <2>1
  <2> HIDE DEF used
  <2> QED BY <2>2
<1>6. n \in Static /\ n.index = index /\ n.bare = bare /\ n.built = m.names.built
      /\ n.free = m.names.free /\ n.high = m.names.high /\ n.left = m.names.left
  <2> HIDE DEF index, bare
  <2> QED BY <1>1, <1>4, <1>5 DEF Static
<1>7. /\ Vars!Rebuilt(m) \in Memory /\ Vars!Rebuilt(m).slots = m.slots
         /\ Vars!Rebuilt(m).calls = m.calls
      /\ Vars!Rebuilt(m).cache = m.cache /\ Vars!Rebuilt(m).names = n
  <2> HIDE DEF n
  <2> QED BY <1>2, <1>6 DEF Memory
<1>8. IndexPart(v, n)
  <2>1. Indexes(v, n)
    <3>1. n.index = index
      BY <1>6
    <3> QED BY <3>1, Zenon DEF Indexes
  <2>2. ASSUME NEW s \in 1..Len(v), v[s].used, v[s].unsuffixed
        PROVE  \E i \in 1..Len(n.bare) : n.bare[i] = <<v[s].name, s>>
    <3>1. s \in S
      BY <2>2
    <3> HIDE DEF S, n, bare, order, v
    <3>2. PICK i \in 1..Len(order) : order[i] = s
      BY <1>3, <3>1
    <3>3. bare[i] = <<v[s].name, s>> /\ i \in 1..Len(bare)
      BY <1>4, <3>2
    <3> QED BY <1>6, <3>3
  <2>3. n.built
    BY <1>6
  <2> HIDE DEF n, v
  <2> QED BY <2>1, <2>2, <2>3 DEF IndexPart
<1> QED BY <1>6, <1>7, <1>8

\* What is cached stays valid where the slots and what they left stay.
LEMMA SameLeft ==
  ASSUME NEW v, NEW ca, NEW n, NEW o, o.left = n.left, CachePart(v, ca, n)
  PROVE  CachePart(v, ca, o)
BY Zenon DEF CachePart

\* A lookup's tables are made with the first slot.
LEMMA EnsuredIndex ==
  ASSUME NEW m \in Memory, NEW t, Rest(m, t)
  PROVE  LET e == IF m.names.built THEN m ELSE Vars!Rebuilt([m EXCEPT !.names.built = TRUE])
         IN  Rest(e, t) /\ e.names.built /\ e.calls = m.calls /\ e.slots = m.slots
<1>1. CASE m.names.built
  BY <1>1
<1>2. CASE ~m.names.built
  <2> DEFINE n == [m.names EXCEPT !.built = TRUE]
             b == [m EXCEPT !.names = n]
  <2>1. m.names \in Static
    BY Parts
  <2>2. n \in Static /\ n.built /\ n.free = m.names.free /\ n.high = m.names.high
        /\ n.left = m.names.left
    BY <2>1 DEF Static
  <2>3. b = [m EXCEPT !.names.built = TRUE]
    BY DEF Memory, Static
  <2> HIDE DEF n
  <2>4. b \in Memory /\ b.slots = m.slots /\ b.calls = m.calls /\ b.cache = m.cache
        /\ b.names = n
    BY <2>2 DEF Memory
  <2> HIDE DEF b
  <2> DEFINE r == Vars!Rebuilt(b)
  <2>5. /\ r \in Memory /\ r.slots = m.slots /\ r.calls = m.calls /\ r.cache = m.cache
        /\ r.names.built /\ r.names.free = m.names.free
        /\ r.names.high = m.names.high /\ r.names.left = m.names.left
        /\ IndexPart(m.slots, r.names)
    BY <2>2, <2>4, RebuiltIndex
  <2> HIDE DEF r
  <2>6. SlotsPart(m.slots, r.names, t)
    BY <2>5 DEF Rest, SlotsPart
  <2>7. CachePart(m.slots, m.cache, r.names)
    BY <2>5, SameLeft DEF Rest
  <2>8. Rest(r, t)
    BY <2>5, <2>6, <2>7 DEF Rest
  <2> QED BY <1>2, <2>3, <2>5, <2>8 DEF r
<1> QED BY <1>1, <1>2

\* vars_free_slot gives a slot that nothing has, and leaves the rest sound.
LEMMA FreeSlotSound ==
  ASSUME NEW m \in Memory, Rest(m, 0), Vars!HasRoom(m)
  PROVE  LET f == Vars!FreeSlot(m)
         IN  /\ Rest(f.left, f.slot) /\ f.slot # 0
             /\ f.left.names.built /\ f.left.calls = m.calls
             /\ \A s \in 1..Len(m.slots) : /\ s \in 1..Len(f.left.slots)
                                           /\ f.left.slots[s] = m.slots[s]
             /\ \A s \in 1..Len(f.left.slots) :
                  s > Len(m.slots) => f.left.slots[s] = Vars!Empty
<1> DEFINE table == IF m.slots = <<>> THEN Vars!Allocated(m)
                    ELSE IF m.names.free = <<>>
                    /\ m.names.high >= Len(m.slots) THEN Vars!Grown(m)
                    ELSE m
           slot == IF table.names.free # <<>> THEN Head(table.names.free)
                   ELSE table.names.high + 1
           taken == IF table.names.free # <<>> THEN [table EXCEPT !.names.free = Tail(@)]
                    ELSE [table EXCEPT !.names.high = @ + 1]
           left == IF taken.names.built THEN taken
                   ELSE Vars!Rebuilt([taken EXCEPT !.names.built = TRUE])
<1>1. Vars!FreeSlot(m) = [slot |-> slot, left |-> left]
  BY DEF Vars!FreeSlot
<1>2. /\ Rest(table, 0) /\ table.calls = m.calls
      /\ table.names.free # <<>> \/ table.names.high < Len(table.slots)
      /\ \A s \in 1..Len(m.slots) : s \in 1..Len(table.slots) /\ table.slots[s] = m.slots[s]
      /\ \A s \in 1..Len(table.slots) : s > Len(m.slots) => table.slots[s] = Vars!Empty
  <2>0. Len(m.slots) \in Nat /\ m.names.high \in Nat /\ m.slots \in Seq(Slot)
    BY Parts DEF Static
  <2>1. CASE m.slots = <<>>
    <3>1. table = Vars!Allocated(m)
      BY <2>1
    <3> HIDE DEF table
    <3> QED BY <2>1, <3>1, AllocatedSound, VariablesAssumption
  <2>2. CASE m.slots # <<>> /\ m.names.free = <<>> /\ m.names.high >= Len(m.slots)
    <3>1. table = Vars!Grown(m)
      BY <2>2
    <3>2. 2 * Len(m.slots) <= MaxSlots /\ Len(m.slots) # 0
      BY <2>0, <2>2 DEF Vars!HasRoom
    <3>3. m.names.high <= Len(m.slots)
      BY DEF Rest, SlotsPart
    <3> HIDE DEF table
    <3>4. /\ Rest(table, 0) /\ table.calls = m.calls
          /\ table.names = m.names /\ Len(table.slots) = 2 * Len(m.slots)
          /\ \A s \in 1..Len(m.slots) : table.slots[s] = m.slots[s]
          /\ \A s \in 1..2 * Len(m.slots) : s > Len(m.slots) => table.slots[s] = Vars!Empty
      BY <3>1, <3>2, GrownSound
    <3>5. table.names.high < Len(table.slots) /\ Len(m.slots) <= Len(table.slots)
      BY <2>0, <3>2, <3>3, <3>4
    <3> QED BY <2>0, <3>4, <3>5
  <2>3. CASE m.slots # <<>> /\ ~(m.names.free = <<>> /\ m.names.high >= Len(m.slots))
    <3>1. table = m
      BY <2>3
    <3> QED BY <2>0, <2>3, <3>1
  <2> QED BY <2>1, <2>2, <2>3
<1> HIDE DEF table
<1>3. Rest(taken, slot) /\ slot # 0 /\ taken.calls = m.calls /\ taken.slots = table.slots
  <2>0. table \in Memory
    BY <1>2 DEF Rest
  <2>1. CASE table.names.free # <<>>
    <3>1. [table EXCEPT !.names.free = Tail(@)].slots = table.slots
      BY <2>0 DEF Memory
    <3> QED BY <2>0, <2>1, <1>2, <3>1, TakenFromList
  <2>2. CASE table.names.free = <<>>
    <3>1. [table EXCEPT !.names.high = @ + 1].slots = table.slots
      BY <2>0 DEF Memory
    <3> QED BY <2>0, <2>2, <1>2, <3>1, TakenFromTable
  <2> QED BY <2>1, <2>2
<1> HIDE DEF taken, slot
<1>4. Rest(left, slot) /\ left.names.built /\ left.calls = m.calls /\ left.slots = table.slots
  <2>1. taken \in Memory
    BY <1>3 DEF Rest
  <2> QED BY <1>3, <2>1, EnsuredIndex
<1> HIDE DEF left
<1>5. Vars!FreeSlot(m).slot = slot /\ Vars!FreeSlot(m).left = left
  BY <1>1
<1> QED BY <1>2, <1>3, <1>4, <1>5

-----------------------------------------------------------------------------
(* Bindings.                                                               *)

\* Slot s holds w, and what a LOCAL left of it is gone.
Put(m, s, w) == [m EXCEPT !.slots[s] = w, !.names.left[s] = Vars!Taken]

\* w may be bound to slot s: what is cached for it there was compiled for w.
Fits(m, s, w) ==
  /\ w \in Slot /\ w.used /\ w.gen # 0
  /\ \A r \in Vars!Statements : m.cache[r].slot = s /\ m.cache[r].gen = w.gen =>
       m.cache[r].name = w.name /\ m.cache[r].type = w.type

\* Nothing else changes.
LEMMA PutFields ==
  ASSUME NEW m \in Memory, NEW s \in 1..Len(m.slots), s <= MaxSlots, NEW w \in Slot
  PROVE  /\ Put(m, s, w) \in Memory
         /\ Put(m, s, w).slots = [m.slots EXCEPT ![s] = w]
         /\ Put(m, s, w).calls = m.calls /\ Put(m, s, w).cache = m.cache
         /\ Put(m, s, w).names \in Static
         /\ Put(m, s, w).names.index = m.names.index /\ Put(m, s, w).names.bare = m.names.bare
         /\ Put(m, s, w).names.built = m.names.built /\ Put(m, s, w).names.free = m.names.free
         /\ Put(m, s, w).names.high = m.names.high
         /\ Put(m, s, w).names.left = [m.names.left EXCEPT ![s] = Vars!Taken]
<1> DEFINE v == [m.slots EXCEPT ![s] = w]
           l == [m.names.left EXCEPT ![s] = Vars!Taken]
           n == [m.names EXCEPT !.left = l]
<1>1. m.names \in Static /\ m.slots \in Seq(Slot) /\ s \in 1..MaxSlots
  BY Parts
<1>2. v \in Seq(Slot)
  BY <1>1
<1>3. l \in [1..MaxSlots -> Left]
  BY <1>1, Shapes DEF Static
<1> HIDE DEF l, v
<1>4. /\ n \in Static
      /\ n.index = m.names.index /\ n.bare = m.names.bare
      /\ n.built = m.names.built /\ n.free = m.names.free
      /\ n.high = m.names.high /\ n.left = l
  BY <1>1, <1>3 DEF Static
<1>5. Put(m, s, w) = [m EXCEPT !.slots = v, !.names = n]
  BY DEF Put, v, l, Memory, Static
<1> HIDE DEF n
<1>6. Put(m, s, w) \in Memory /\ Put(m, s, w).slots = v /\ Put(m, s, w).calls = m.calls
      /\ Put(m, s, w).cache = m.cache /\ Put(m, s, w).names = n
  BY <1>2, <1>4, <1>5 DEF Memory
<1> QED BY <1>4, <1>6 DEF l, v

\* var_bind_gen: a new binding has a generation that nothing is cached with.
LEMMA BoundPut ==
  ASSUME NEW m \in Memory, NEW s \in 1..Len(m.slots), s <= MaxSlots, NEW v \in Slot, v.used
  PROVE  \E w : /\ Vars!Bound(m, s, v) = Put(m, s, w) /\ Fits(m, s, w)
                /\ w.name = v.name /\ w.type = v.type /\ w.unsuffixed = v.unsuffixed
                /\ w.cell = v.cell
<1> DEFINE g == Vars!Fresh(m, s)
           w == [v EXCEPT !.gen = g]
<1>1. s \in 1..MaxSlots
  BY Parts
<1>2. g \in Nat \ {0} /\ \A r \in Vars!Statements : m.cache[r].slot = s => m.cache[r].gen # g
  BY <1>1, Freshness
<1> HIDE DEF g
<1>3. w \in Slot /\ w.used /\ w.gen = g /\ w.name = v.name /\ w.type = v.type
      /\ w.unsuffixed = v.unsuffixed /\ w.cell = v.cell
  BY <1>2 DEF Slot
<1>4. Vars!Bound(m, s, v) = Put(m, s, w)
  BY DEF Vars!Bound, Put, g
<1> HIDE DEF w
<1>5. Fits(m, s, w)
  BY <1>2, <1>3 DEF Fits
<1> QED BY <1>3, <1>4, <1>5

\* var_bind_local: a LOCAL that gets its generation back is the one that left it.
LEMMA RevivedPut ==
  ASSUME NEW m \in Memory, NEW s \in 1..Len(m.slots), s <= MaxSlots, NEW v \in Slot, v.used,
         CachePart(m.slots, m.cache, m.names)
  PROVE  \E w : /\ Vars!Revived(m, s, v) = Put(m, s, w) /\ Fits(m, s, w)
                /\ w.name = v.name /\ w.type = v.type /\ w.unsuffixed = v.unsuffixed
                /\ w.cell = v.cell
<1>1. CASE m.names.left[s].of # Vars!Signature(v)
  BY <1>1, BoundPut DEF Vars!Revived
<1>2. CASE m.names.left[s].of = Vars!Signature(v)
  <2> DEFINE g == m.names.left[s].gen
             w == [v EXCEPT !.gen = g]
  <2>1. s \in 1..MaxSlots /\ m.names.left \in [1..MaxSlots -> Left]
    BY Parts DEF Static
  <2>2. g \in Nat /\ g # 0
    <3>a. Vars!Signature(v) # <<>>
      BY DEF Vars!Signature
    <3>b. m.names.left[s] \in Left
      BY <2>1
    <3>1. m.names.left[s] \in Left /\ m.names.left[s].of # <<>>
      BY <1>2, <3>a, <3>b, Zenon
    <3>2. g # 0
      BY <2>1, <3>1 DEF CachePart
    <3> QED BY <3>1, <3>2 DEF Left
  <2>3. ASSUME NEW r \in Vars!Statements, m.cache[r].slot = s, m.cache[r].gen = g
        PROVE  m.cache[r].name = v.name /\ m.cache[r].type = v.type
    <3>0. s # 0
      BY Parts
    <3>1. \E u \in BOOLEAN : m.names.left[s].of = <<m.cache[r].name, m.cache[r].type, u>>
      BY <2>3, <3>0 DEF CachePart, Valid
    <3> QED BY <3>1, <1>2 DEF Vars!Signature
  <2> HIDE DEF g
  <2>4. w \in Slot /\ w.used /\ w.gen = g /\ w.name = v.name /\ w.type = v.type
        /\ w.unsuffixed = v.unsuffixed /\ w.cell = v.cell
    BY <2>2 DEF Slot
  <2>5. Vars!Revived(m, s, v) = Put(m, s, w)
    BY <1>2 DEF Vars!Revived, Put, g
  <2> HIDE DEF w
  <2>6. Fits(m, s, w)
    BY <2>2, <2>3, <2>4 DEF Fits
  <2> QED BY <2>4, <2>5, <2>6
<1> QED BY <1>1, <1>2

\* What is cached for a statement stays right when a slot is bound.
LEMMA ValidPut ==
  ASSUME NEW e \in Entry, NEW v \in Seq(Slot), NEW l, l \in [1..MaxSlots -> Left],
         Len(v) <= MaxSlots, NEW s \in 1..Len(v), NEW w \in Slot, w.used,
         e.slot = s /\ e.gen = w.gen => e.name = w.name /\ e.type = w.type,
         Valid(e, v, l)
  PROVE  Valid(e, [v EXCEPT ![s] = w], [l EXCEPT ![s] = Vars!Taken])
<1> DEFINE u == [v EXCEPT ![s] = w]
           k == [l EXCEPT ![s] = Vars!Taken]
<1>1. Len(v) \in Nat /\ s \in 1..MaxSlots /\ e.slot \in Nat
  BY VariablesAssumption DEF Entry
<1>2. /\ Len(u) = Len(v) /\ u[s] = w /\ \A x \in 1..Len(v) : x # s => u[x] = v[x]
      /\ k[s] = Vars!Taken /\ \A x \in 1..MaxSlots : x # s => k[x] = l[x]
  BY <1>1
<1>3. Vars!Taken.gen = 0
  BY Shapes
<1> HIDE DEF u, k
<1> SUFFICES ASSUME e.slot # 0 PROVE Valid(e, u, k)
  BY DEF Valid, u, k
<1>4. e.gen # 0 /\ e.slot \in 1..Len(v) /\ e.slot \in 1..MaxSlots
  BY <1>1, VariablesAssumption DEF Valid
<1>5. CASE e.slot = s
  BY <1>2, <1>3, <1>4, <1>5 DEF Valid
<1>6. CASE e.slot # s
  <2>1. u[e.slot] = v[e.slot] /\ k[e.slot] = l[e.slot] /\ Len(u) = Len(v)
    BY <1>2, <1>4, <1>6
  <2> QED BY <2>1, Zenon DEF Valid
<1> QED BY <1>5, <1>6

\* ... for every statement.
LEMMA PutCache ==
  ASSUME NEW m \in Memory, NEW s \in 1..Len(m.slots), Len(m.slots) <= MaxSlots, NEW w,
         Fits(m, s, w), CachePart(m.slots, m.cache, m.names)
  PROVE  CachePart(Put(m, s, w).slots, m.cache, Put(m, s, w).names)
<1> DEFINE v == m.slots
           u == [v EXCEPT ![s] = w]
           l == m.names.left
           k == [l EXCEPT ![s] = Vars!Taken]
<1>1. v \in Seq(Slot) /\ Len(v) \in Nat /\ s \in 1..MaxSlots /\ w \in Slot /\ s <= MaxSlots
  BY Parts, VariablesAssumption DEF Fits
<1>2. l \in [1..MaxSlots -> Left]
  BY Parts DEF Static
<1>3. Put(m, s, w).slots = u /\ Put(m, s, w).names.left = k
  BY <1>1, PutFields, SMTT(30)
<1>4. /\ Len(u) = Len(v) /\ u[s] = w /\ \A x \in 1..Len(v) : x # s => u[x] = v[x]
      /\ k[s] = Vars!Taken /\ \A x \in 1..MaxSlots : x # s => k[x] = l[x]
  <2> HIDE DEF v, l
  <2>1. s \in 1..Len(v)
    BY DEF v
  <2>2. Len(u) = Len(v) /\ u[s] = w /\ \A x \in 1..Len(v) : x # s => u[x] = v[x]
    BY <1>1, <2>1
  <2>3. k[s] = Vars!Taken /\ \A x \in 1..MaxSlots : x # s => k[x] = l[x]
    BY <1>1, <1>2
  <2> HIDE DEF u, k
  <2> QED BY <2>2, <2>3
<1>5. Vars!Taken.of = <<>> /\ w.gen # 0
  BY Shapes DEF Fits
<1>6. \A r \in Vars!Statements : Valid(m.cache[r], u, k)
  <2> SUFFICES ASSUME NEW r \in Vars!Statements PROVE Valid(m.cache[r], u, k)
    OBVIOUS
  <2>1. m.cache[r] \in Entry
    BY Parts
  <2>2. Valid(m.cache[r], v, l)
    BY DEF CachePart
  <2>3. w.used /\ (m.cache[r].slot = s /\ m.cache[r].gen = w.gen =>
                     m.cache[r].name = w.name /\ m.cache[r].type = w.type)
    BY DEF Fits
  <2> HIDE DEF v, l
  <2>4. Len(v) <= MaxSlots /\ s \in 1..Len(v)
    BY DEF v
  <2> QED BY <1>1, <1>2, <2>1, <2>2, <2>3, <2>4, ValidPut
<1>7. \A x \in 1..MaxSlots : k[x].of # <<>> => k[x].gen # 0
  <2>1. \A x \in 1..MaxSlots : l[x].of # <<>> => l[x].gen # 0
    BY DEF CachePart
  <2> HIDE DEF k, l
  <2> QED BY <2>1, <1>4, <1>5
<1>8. \A x \in 1..Len(u) : u[x].used => u[x].gen # 0 /\ k[x] = Vars!Taken
  <2>1. \A x \in 1..Len(v) : v[x].used => v[x].gen # 0 /\ l[x] = Vars!Taken
    BY DEF CachePart
  <2>2. \A x \in 1..Len(v) : x \in 1..MaxSlots
    BY <1>1, VariablesAssumption
  <2> HIDE DEF u, v, k, l
  <2> QED BY <2>1, <2>2, <1>4, <1>5
<1> HIDE DEF u, k, v, l
<1> QED BY <1>3, <1>6, <1>7, <1>8 DEF CachePart

\* hash_ins: both indexes know the slot.
LEMMA IndexedFields ==
  ASSUME NEW m \in Memory, m.names.built, NEW s \in 1..Len(m.slots)
  PROVE  LET x == Vars!Indexed(m, s)
             v == m.slots[s]
         IN  /\ x \in Memory
             /\ x.slots = m.slots /\ x.calls = m.calls /\ x.cache = m.cache
             /\ x.names.index = m.names.index \cup {<<v.name, v.type, s>>}
             /\ x.names.bare = IF v.unsuffixed THEN Append(m.names.bare, <<v.name, s>>)
                               ELSE m.names.bare
             /\ x.names.built /\ x.names.free = m.names.free
             /\ x.names.high = m.names.high /\ x.names.left = m.names.left
<1> DEFINE v == m.slots[s]
           index == m.names.index \cup {<<v.name, v.type, s>>}
           bare == IF v.unsuffixed THEN Append(m.names.bare, <<v.name, s>>) ELSE m.names.bare
           n == [m.names EXCEPT !.index = index, !.bare = bare]
<1>1. m.names \in Static /\ v.name \in Text /\ v.type \in Types /\ s \in Nat
  BY Parts, SlotFields
<1>2. Vars!Indexed(m, s) = [m EXCEPT !.names = n]
  <2>1. Vars!Indexed(m, s) = [m EXCEPT !.names.index = index, !.names.bare = bare]
    BY Zenon DEF Vars!Indexed
  <2> HIDE DEF index, bare
  <2> QED BY <2>1 DEF Memory, Static
<1>3. index \in SUBSET (Text \X Types \X Nat) /\ bare \in Seq(Text \X Nat)
  <2>1. m.names.index \in SUBSET (Text \X Types \X Nat) /\ m.names.bare \in Seq(Text \X Nat)
    BY <1>1 DEF Static
  <2>2. <<v.name, v.type, s>> \in Text \X Types \X Nat /\ <<v.name, s>> \in Text \X Nat
    BY <1>1
  <2> DEFINE a == <<v.name, v.type, s>>
             b == <<v.name, s>>
  <2> HIDE DEF v, a, b
  <2>3. a \in Text \X Types \X Nat /\ b \in Text \X Nat
    BY <2>2 DEF a, b
  <2>4. m.names.index \cup {a} \in SUBSET (Text \X Types \X Nat)
    BY <2>1, <2>3
  <2>5. Append(m.names.bare, b) \in Seq(Text \X Nat)
    BY <2>1, <2>3
  <2> QED BY <2>1, <2>4, <2>5 DEF a, b
<1> HIDE DEF index, bare
<1>4. /\ n \in Static /\ n.index = index /\ n.bare = bare /\ n.built = m.names.built
      /\ n.free = m.names.free /\ n.high = m.names.high /\ n.left = m.names.left
  BY <1>1, <1>3 DEF Static
<1> HIDE DEF n
<1>5. Vars!Indexed(m, s) \in Memory /\ Vars!Indexed(m, s).slots = m.slots
      /\ Vars!Indexed(m, s).calls = m.calls
      /\ Vars!Indexed(m, s).cache = m.cache /\ Vars!Indexed(m, s).names = n
  BY <1>2, <1>4 DEF Memory
<1> QED BY <1>4, <1>5 DEF index, bare

\* A slot that was taken is bound, and indexed.
LEMMA PutNew ==
  ASSUME NEW m \in Memory, NEW t, Rest(m, t), t # 0, m.names.built, NEW w, Fits(m, t, w)
  PROVE  LET x == Vars!Indexed(Put(m, t, w), t)
         IN  /\ Rest(x, 0) /\ x.calls = m.calls /\ x.slots = [m.slots EXCEPT ![t] = w]
             /\ <<w.name, w.type, t>> \in x.names.index
<1> DEFINE v == m.slots
           u == [v EXCEPT ![t] = w]
           p == Put(m, t, w)
           x == Vars!Indexed(p, t)
           n == m.names
           h == n.high
           f == n.free
<1>1. /\ v \in Seq(Slot) /\ Len(v) \in Nat /\ n \in Static /\ h \in Nat /\ f \in Seq(Nat)
      /\ Len(f) \in Nat
  BY Parts DEF Static
<1>2. SlotsPart(v, n, t) /\ IndexPart(v, n) /\ CachePart(v, m.cache, n)
  BY DEF Rest
<1>3. t \in 1..h /\ ~v[t].used /\ h <= Len(v) /\ Len(v) <= MaxSlots
  BY <1>2 DEF SlotsPart
<1>4. t \in 1..Len(v) /\ t <= MaxSlots
  BY <1>1, <1>3, VariablesAssumption
<1>5. w \in Slot /\ w.used
  BY DEF Fits
<1>6. /\ p \in Memory /\ p.slots = u /\ p.calls = m.calls /\ p.cache = m.cache
      /\ p.names.index = n.index /\ p.names.bare = n.bare /\ p.names.built = n.built
      /\ p.names.free = f /\ p.names.high = h
  <2>1. m.slots \in Seq(Slot) /\ t \in 1..Len(m.slots) /\ t <= MaxSlots /\ w \in Slot
    BY <1>1, <1>4, <1>5
  <2>2. /\ Put(m, t, w) \in Memory
        /\ Put(m, t, w).slots = [m.slots EXCEPT ![t] = w]
        /\ Put(m, t, w).calls = m.calls /\ Put(m, t, w).cache = m.cache
        /\ Put(m, t, w).names \in Static
        /\ Put(m, t, w).names.index = m.names.index /\ Put(m, t, w).names.bare = m.names.bare
        /\ Put(m, t, w).names.built = m.names.built /\ Put(m, t, w).names.free = m.names.free
        /\ Put(m, t, w).names.high = m.names.high
        /\ Put(m, t, w).names.left = [m.names.left EXCEPT ![t] = Vars!Taken]
    BY <2>1, PutFields, ZenonT(30)
  <2> QED BY <2>2
<1>7. Len(u) = Len(v) /\ u[t] = w /\ \A s \in 1..Len(v) : s # t => u[s] = v[s]
  <2> HIDE DEF v
  <2> QED BY <1>1, <1>4
<1>8. CachePart(u, m.cache, p.names)
  BY <1>2, <1>3, <1>4, <1>6, PutCache
<1> HIDE DEF p, u, v, n, h, f
<1>9. /\ x \in Memory /\ x.slots = u /\ x.calls = m.calls /\ x.cache = m.cache
      /\ x.names.index = n.index \cup {<<w.name, w.type, t>>}
      /\ x.names.bare = IF w.unsuffixed THEN Append(n.bare, <<w.name, t>>) ELSE n.bare
      /\ x.names.built /\ x.names.free = f /\ x.names.high = h /\ x.names.left = p.names.left
  <2>1. p \in Memory /\ p.names.built /\ t \in 1..Len(p.slots) /\ p.slots[t] = w
    BY <1>4, <1>6, <1>7 DEF n
  <2>2. /\ x \in Memory /\ x.slots = p.slots /\ x.calls = p.calls /\ x.cache = p.cache
        /\ x.names.index = p.names.index \cup {<<p.slots[t].name, p.slots[t].type, t>>}
        /\ x.names.bare = IF p.slots[t].unsuffixed
                          THEN Append(p.names.bare, <<p.slots[t].name, t>>) ELSE p.names.bare
        /\ x.names.built /\ x.names.free = p.names.free
        /\ x.names.high = p.names.high /\ x.names.left = p.names.left
    BY <2>1, IndexedFields, ZenonT(30)
  <2> HIDE DEF x
  <2> QED BY <1>6, <2>1, <2>2
<1> HIDE DEF x
<1>10. SlotsPart(u, x.names, 0)
  <2>1. \A s \in 1..Len(v) : u[s].used => s <= h
    <3>1. \A s \in 1..Len(v) : v[s].used => s <= n.high
      BY <1>2 DEF SlotsPart
    <3>2. t <= n.high
      BY <1>1, <1>3 DEF h
    <3> QED BY <1>7, <3>1, <3>2 DEF h
  <2>2. \A s \in 1..h : u[s].used \/ \E i \in 1..Len(f) : f[i] = s
    <3> SUFFICES ASSUME NEW s \in 1..h, s # t
                 PROVE  u[s].used \/ \E i \in 1..Len(f) : f[i] = s
      BY <1>5, <1>7
    <3>1. s \in 1..Len(v)
      BY <1>1, <1>2, <1>3 DEF SlotsPart, h
    <3>2. u[s] = v[s]
      BY <1>7, <3>1
    <3>3. v[s].used \/ \E i \in 1..Len(f) : f[i] = s
      BY <1>2, <1>3 DEF SlotsPart, h, f
    <3> QED BY <3>2, <3>3
  <2>3. \A i \in 1..Len(f) : f[i] \in 1..h /\ ~u[f[i]].used
    <3> SUFFICES ASSUME NEW i \in 1..Len(f) PROVE f[i] \in 1..h /\ ~u[f[i]].used
      OBVIOUS
    <3>1. f[i] \in 1..h /\ ~v[f[i]].used /\ f[i] # t
      BY <1>2 DEF SlotsPart, h, f
    <3>2. f[i] \in 1..Len(v)
      BY <1>1, <1>3, <3>1
    <3> QED BY <1>7, <3>1, <3>2
  <2>4. \A i, j \in 1..Len(f) : f[i] = f[j] => i = j
    BY <1>2 DEF SlotsPart, f
  <2>5. \A i \in 1..Len(f) : f[i] # 0
    BY <2>3, <1>1
  <2> QED BY <2>1, <2>2, <2>3, <2>4, <2>5, <1>3, <1>7, <1>9 DEF SlotsPart
<1>11. IndexPart(u, x.names)
  <2>1. Indexes(u, x.names)
    <3>1. n.index = {<<v[s].name, v[s].type, s>> : s \in {y \in 1..Len(v) : v[y].used}}
      BY <1>2 DEF IndexPart, Indexes
    <3>2. {y \in 1..Len(u) : u[y].used} = {y \in 1..Len(v) : v[y].used} \cup {t}
      BY <1>4, <1>5, <1>7
    <3>3. t \notin {y \in 1..Len(v) : v[y].used}
      BY <1>3
    <3>4. \A s \in {y \in 1..Len(v) : v[y].used} : u[s] = v[s]
      BY <1>7, <3>3
    <3> QED BY <1>7, <1>9, <3>1, <3>2, <3>4 DEF Indexes
  <2>2. ASSUME Plain, NEW s \in 1..Len(u), u[s].used, u[s].unsuffixed
        PROVE  \E i \in 1..Len(x.names.bare) : x.names.bare[i] = <<u[s].name, s>>
    <3>1. n.bare \in Seq(Text \X Nat) /\ Len(n.bare) \in Nat
      BY <1>1 DEF Static
    <3>2. CASE s = t
      <4> DEFINE b == <<w.name, t>>
      <4> HIDE DEF b
      <4>1. x.names.bare = Append(n.bare, b)
        BY <2>2, <3>2, <1>7, <1>9 DEF b
      <4>2. Len(x.names.bare) = Len(n.bare) + 1 /\ x.names.bare[Len(n.bare) + 1] = b
        BY <3>1, <4>1
      <4>3. Len(n.bare) + 1 \in 1..Len(x.names.bare)
        BY <3>1, <4>2
      <4> QED BY <4>2, <4>3, <3>2, <1>7 DEF b
    <3>3. CASE s # t
      <4>1. s \in 1..Len(v) /\ u[s] = v[s]
        BY <3>3, <1>7
      <4>2. PICK i \in 1..Len(n.bare) : n.bare[i] = <<u[s].name, s>>
        BY <2>2, <4>1, <1>2 DEF IndexPart
      <4> DEFINE b == <<w.name, t>>
      <4> HIDE DEF b
      <4>a. b \in Text \X Nat
        BY <1>5, <1>4 DEF b, Slot
      <4>3. x.names.bare = n.bare \/ x.names.bare = Append(n.bare, b)
        BY <1>9 DEF b
      <4>4. i \in 1..Len(x.names.bare) /\ x.names.bare[i] = n.bare[i]
        <5>1. i \in 1..Len(n.bare) /\ i \in Nat
          BY <4>2
        <5> HIDE DEF n
        <5>2. CASE x.names.bare = n.bare
          BY <5>1, <5>2
        <5>3. CASE x.names.bare = Append(n.bare, b)
          <6>1. Append(n.bare, b)[i] = n.bare[i] /\ Len(Append(n.bare, b)) = Len(n.bare) + 1
            BY <5>1, <3>1, <4>a
          <6> QED BY <5>1, <5>3, <6>1, <3>1
        <5> QED BY <4>3, <5>2, <5>3
      <4> QED BY <4>2, <4>4
    <3> QED BY <3>2, <3>3
  <2> QED BY <2>1, <2>2, <1>9 DEF IndexPart
<1>12. CachePart(u, m.cache, x.names)
  BY <1>8, <1>9, SameLeft
<1> QED BY <1>9, <1>10, <1>11, <1>12 DEF Rest, u, v, x, p

\* What is to be restored may be, while its slots keep their keys.
LEMMA PendingMoved ==
  ASSUME NEW v \in Seq(Slot), NEW u \in Seq(Slot), NEW cs, NEW k, PendingPart(v, cs, k),
         \A s \in 1..Len(v) : v[s].used =>
           /\ s \in 1..Len(u) /\ u[s].used /\ u[s].type = v[s].type
           /\ Plain /\ v[s].unsuffixed => u[s].unsuffixed
  PROVE  PendingPart(u, cs, k)
<1>1. \A save : Pending(v, save) => Pending(u, save)
  BY DEF Pending
<1> QED BY <1>1 DEF PendingPart

-----------------------------------------------------------------------------
(* Variables made, and hidden by LOCAL.                                    *)

\* All of them, for every number of the last call.
PendingAll(v, cs) == \A k \in Nat : PendingPart(v, cs, k)

\* The memory of the context that runs, between two statements.
Sound(m) == Rest(m, 0) /\ PendingAll(m.slots, m.calls)

\* Slot s has the variable.
Has(m, s, name, type) ==
  /\ s \in 1..Len(m.slots) /\ m.slots[s].used
  /\ m.slots[s].name = name /\ m.slots[s].type = type

\* From m to x a variable is made, in the slot that vars_free_slot gives.
Gains(m, x, name, type) ==
  LET f == Vars!FreeSlot(m)
      s == f.slot
  IN  /\ Has(x, s, name, type) /\ x.slots[s].cell = Vars!FreshCell(m, s)
      /\ Len(x.slots) = Len(f.left.slots)
      /\ \A y \in 1..Len(x.slots) : y # s => x.slots[y] = f.left.slots[y]

\* A new variable: the end of mmb_find_var, and of DIM outside a call.
LEMMA MadeSound ==
  ASSUME NEW m \in Memory, Sound(m), Vars!HasRoom(m),
         NEW name \in Names, NEW type \in Types, NEW b \in BOOLEAN
  PROVE  LET x == Vars!Made(m, name, type, b)
         IN  /\ Sound(x) /\ x.calls = m.calls /\ Gains(m, x, name, type)
             /\ \E s \in 1..Len(x.slots) : /\ <<name, type, s>> \in x.names.index
                                           /\ Has(x, s, name, type)
<1> DEFINE f == Vars!FreeSlot(m)
           l == f.left
           t == f.slot
           v == Vars!Binding(m, t, name, type, b)
           x == Vars!Indexed(Vars!Bound(l, t, v), t)
<1>1. /\ Rest(l, t) /\ t # 0 /\ l.names.built /\ l.calls = m.calls
      /\ \A s \in 1..Len(m.slots) : s \in 1..Len(l.slots) /\ l.slots[s] = m.slots[s]
  BY FreeSlotSound DEF Sound
<1>2. Vars!Made(m, name, type, b) = x
  BY DEF Vars!Made
<1> HIDE DEF f, l, t
<1>3. l \in Memory /\ l.slots \in Seq(Slot) /\ Len(l.slots) \in Nat /\ m.slots \in Seq(Slot)
  BY <1>1, Parts DEF Rest
<1>4. t \in 1..Len(l.slots) /\ t <= MaxSlots /\ ~l.slots[t].used /\ t \in Nat
  <2>1. l.names.high \in Nat /\ SlotsPart(l.slots, l.names, t)
    BY <1>1, <1>3, Parts DEF Rest, Static
  <2> QED BY <2>1, <1>1, <1>3, VariablesAssumption DEF SlotsPart
<1>5. v \in Slot /\ v.used /\ v.name = name /\ v.type = type
  BY <1>4, BindingTyped
<1>a. v.cell = Vars!FreshCell(m, t)
  BY BindingCell
<1> HIDE DEF v
<1>6. PICK w : /\ Vars!Bound(l, t, v) = Put(l, t, w) /\ Fits(l, t, w)
               /\ w.name = v.name /\ w.type = v.type /\ w.unsuffixed = v.unsuffixed
               /\ w.cell = v.cell
  BY <1>3, <1>4, <1>5, BoundPut
<1>7. /\ Rest(x, 0) /\ x.calls = m.calls /\ x.slots = [l.slots EXCEPT ![t] = w]
      /\ <<w.name, w.type, t>> \in x.names.index
  <2>1. LET y == Vars!Indexed(Put(l, t, w), t)
        IN  /\ Rest(y, 0) /\ y.calls = l.calls /\ y.slots = [l.slots EXCEPT ![t] = w]
            /\ <<w.name, w.type, t>> \in y.names.index
    BY <1>1, <1>3, <1>6, PutNew, ZenonT(30)
  <2>2. x = Vars!Indexed(Put(l, t, w), t)
    BY <1>6
  <2> QED BY <2>1, <2>2, <1>1, Zenon
<1> HIDE DEF x
<1>8. w \in Slot /\ w.used
  BY <1>6 DEF Fits
<1>9. /\ x.slots \in Seq(Slot) /\ Len(x.slots) = Len(l.slots) /\ x.slots[t] = w
      /\ \A s \in 1..Len(l.slots) : s # t => x.slots[s] = l.slots[s]
  BY <1>3, <1>4, <1>7, <1>8
<1>10. PendingAll(x.slots, x.calls)
  <2>1. \A s \in 1..Len(m.slots) : m.slots[s].used =>
           s \in 1..Len(x.slots) /\ x.slots[s] = m.slots[s]
    BY <1>1, <1>4, <1>9
  <2>2. PendingAll(m.slots, m.calls)
    BY DEF Sound
  <2> QED BY <2>1, <2>2, <1>3, <1>7, <1>9, PendingMoved DEF PendingAll
<1>11. Has(x, t, name, type)
  BY <1>4, <1>5, <1>6, <1>8, <1>9 DEF Has
<1>12. Gains(m, x, name, type)
  BY <1>a, <1>6, <1>9, <1>11 DEF Gains, f, l, t
<1> QED BY <1>2, <1>4, <1>5, <1>6, <1>7, <1>9, <1>10, <1>11, <1>12 DEF Sound

\* mmb_local_save changes the last call, once for a slot.
LEMMA SavedFields ==
  ASSUME NEW m \in Memory, m.calls # <<>>, NEW save \in Save,
         \A s \in Vars!ToSet(Vars!Last(m.calls)) : s.slot # save.slot
  PROVE  LET x == Vars!Saved(m, save)
             g == Len(m.calls)
         IN  /\ x \in Memory /\ x.slots = m.slots /\ x.cache = m.cache /\ x.names = m.names
             /\ x.calls = [m.calls EXCEPT ![g] = Append(m.calls[g], save)]
<1> DEFINE g == Len(m.calls)
           cs == [m.calls EXCEPT ![g] = Append(m.calls[g], save)]
<1>1. m.calls \in Seq(Seq(Save)) /\ g \in 1..Len(m.calls)
  BY Parts
<1>2. Append(m.calls[g], save) \in Seq(Save)
  <2>1. m.calls[g] \in Seq(Save)
    BY <1>1
  <2> HIDE DEF g
  <2> QED BY <2>1
<1>3. cs \in Seq(Seq(Save))
  <2> DEFINE a == Append(m.calls[g], save)
  <2> HIDE DEF a, g
  <2> QED BY <1>1, <1>2 DEF a
<1>4. Vars!Saved(m, save) = [m EXCEPT !.calls = cs]
  <2>1. Vars!Saved(m, save) = [m EXCEPT !.calls[Len(m.calls)] = Append(@, save)]
    BY Zenon DEF Vars!Saved
  <2> QED BY <2>1 DEF Memory
<1> HIDE DEF cs
<1>5. Vars!Saved(m, save) \in Memory /\ Vars!Saved(m, save).slots = m.slots
      /\ Vars!Saved(m, save).cache = m.cache
      /\ Vars!Saved(m, save).names = m.names /\ Vars!Saved(m, save).calls = cs
  BY <1>3, <1>4 DEF Memory
<1> QED BY <1>5 DEF cs

\* A call saves one variable more.
LEMMA PendingAppend ==
  ASSUME NEW v \in Seq(Slot), NEW cs \in Seq(Seq(Save)), cs # <<>>, NEW save \in Save,
         PendingAll(v, cs), Pending(v, save),
         \A g \in 1..Len(cs) : \A i \in 1..Len(cs[g]) :
           cs[g][i].slot = save.slot => Later(save)
  PROVE  PendingAll(v, [cs EXCEPT ![Len(cs)] = Append(cs[Len(cs)], save)])
<1> DEFINE e == Len(cs)
           c == cs[e]
           z == Len(c) + 1
           ds == [cs EXCEPT ![e] = Append(c, save)]
<1> SUFFICES ASSUME NEW k \in Nat PROVE PendingPart(v, ds, k)
  BY DEF PendingAll
<1>1. e \in Nat /\ e \in 1..e /\ c \in Seq(Save) /\ Len(c) \in Nat /\ z \in Nat
  OBVIOUS
<1>2. Len(ds) = e /\ ds[e] = Append(c, save) /\ \A g \in 1..e : g # e => ds[g] = cs[g]
  <2> DEFINE a == Append(c, save)
  <2> HIDE DEF a, e
  <2> QED BY <1>1 DEF e
<1> HIDE DEF ds, e
<1>3. Len(Append(c, save)) = z /\ Append(c, save)[z] = save
      /\ \A i \in 1..Len(c) : Append(c, save)[i] = c[i]
  <2> HIDE DEF c
  <2> QED BY <1>1
<1> HIDE DEF c
<1>4. ASSUME NEW g \in Nat, NEW i \in Nat, Waiting(ds, k, g, i), ~(g = e /\ i = z)
      PROVE  Waiting(cs, k, g, i) /\ ds[g][i] = cs[g][i]
  <2>1. CASE g = e
    <3>1. i \in 1..z /\ i # z /\ i <= k /\ Len(c) \in Nat
      BY <1>1, <1>2, <1>3, <1>4, <2>1 DEF Waiting
    <3>2. i \in 1..Len(c)
      BY <3>1
    <3> QED BY <1>1, <1>2, <1>3, <2>1, <3>1, <3>2 DEF Waiting, c, e
  <2>2. CASE g # e
    BY <1>2, <1>4, <2>2 DEF Waiting, e
  <2> QED BY <2>1, <2>2
<1>5. ds[e][z] = save
  BY <1>2, <1>3
<1>6. PendingPart(v, cs, k)
  BY DEF PendingAll
<1>7. ASSUME NEW g \in Nat, NEW i \in Nat, Waiting(ds, k, g, i)
      PROVE  Pending(v, ds[g][i])
  BY <1>4, <1>5, <1>6, <1>7 DEF PendingPart
<1>8. ASSUME NEW g \in Nat, NEW i \in Nat, NEW h \in Nat, NEW j \in Nat,
             Waiting(ds, k, g, i), Waiting(ds, k, h, j), ds[g][i].slot = ds[h][j].slot,
             g < h \/ (g = h /\ i < j)
      PROVE  Later(ds[h][j])
  <2>1. CASE h = e /\ j = z
    <3>1. ~(g = e /\ i = z)
      BY <1>8, <2>1, <1>1
    <3>2. Waiting(cs, k, g, i) /\ ds[g][i] = cs[g][i]
      BY <3>1, <1>4, <1>8
    <3> QED BY <2>1, <3>2, <1>5, <1>8 DEF Waiting
  <2>2. CASE g = e /\ i = z
    <3>1. h \in 1..e /\ (h = e => j \in 1..z)
      BY <1>2, <1>3, <1>8 DEF Waiting
    <3> QED BY <2>2, <3>1, <1>1, <1>8
  <2>3. CASE ~(h = e /\ j = z) /\ ~(g = e /\ i = z)
    <3>1. Waiting(cs, k, g, i) /\ ds[g][i] = cs[g][i] /\ Waiting(cs, k, h, j)
          /\ ds[h][j] = cs[h][j]
      BY <2>3, <1>4, <1>8
    <3> QED BY <3>1, <1>6, <1>8 DEF PendingPart
  <2> QED BY <2>1, <2>2, <2>3
<1> QED BY <1>7, <1>8 DEF PendingPart, ds, e, c

\* What is saved of a slot that a LOCAL has alone, and of one that it takes over.
Alone(s) == [slot |-> s, existed |-> FALSE, type |-> Default,
             unsuffixed |-> FALSE, cell |-> <<>>]
Outer(v, s) == [slot |-> s, existed |-> TRUE, type |-> v[s].type,
                unsuffixed |-> v[s].unsuffixed, cell |-> v[s].cell]

\* What LOCAL of a key that nothing has leads to: a sound state with one more variable, in a
\* slot that the innermost call saves as one to be undone.
LocallyMade(m, x, name, type) ==
  LET e == Len(m.calls)
  IN  /\ Sound(x) /\ Gains(m, x, name, type)
      /\ m.calls = <<>> => x.calls = m.calls
      /\ m.calls # <<>> =>
           x.calls = [m.calls EXCEPT ![e] = Append(m.calls[e], Alone(Vars!FreeSlot(m).slot))]

\* LOCAL of a key that nothing has.
LEMMA LocalMadeSound ==
  ASSUME NEW m \in Memory, Sound(m), Vars!HasRoom(m),
         NEW name \in Names, NEW type \in Types, NEW b \in BOOLEAN, Plain => b
  PROVE  LocallyMade(m, Vars!LocalMade(m, name, type, b), name, type)
<1> DEFINE f == Vars!FreeSlot(m)
           l == f.left
           t == f.slot
           new == Alone(t)
           v == Vars!Binding(m, t, name, type, b)
           kept == IF m.calls = <<>> THEN l ELSE Vars!Saved(l, new)
           x == Vars!Indexed(Vars!Revived(kept, t, v), t)
<1>1. /\ Rest(l, t) /\ t # 0 /\ l.names.built /\ l.calls = m.calls
      /\ \A s \in 1..Len(m.slots) : s \in 1..Len(l.slots) /\ l.slots[s] = m.slots[s]
  BY FreeSlotSound DEF Sound
<1>2. Vars!LocalMade(m, name, type, b) = x
  BY DEF Vars!LocalMade, Alone
<1> HIDE DEF f, l, t
<1>3. l \in Memory /\ l.slots \in Seq(Slot) /\ Len(l.slots) \in Nat /\ m.slots \in Seq(Slot)
      /\ m.calls \in Seq(Seq(Save))
  BY <1>1, Parts DEF Rest
<1>4. t \in 1..Len(l.slots) /\ t <= MaxSlots /\ ~l.slots[t].used /\ t \in Nat
  <2>1. l.names.high \in Nat /\ SlotsPart(l.slots, l.names, t)
    BY <1>1, <1>3, Parts DEF Rest, Static
  <2> QED BY <2>1, <1>1, <1>3, VariablesAssumption DEF SlotsPart
<1>5. v \in Slot /\ v.used /\ v.name = name /\ v.type = type /\ v.unsuffixed = b
  BY <1>4, BindingTyped
<1>6. /\ new \in Save /\ new.slot = t /\ ~new.existed
  BY <1>4, VariablesAssumption DEF Save, Storage, Alone
<1>a. v.cell = Vars!FreshCell(m, t)
  BY BindingCell
<1> HIDE DEF v, new
<1>7. PendingAll(l.slots, m.calls)
  <2>1. \A s \in 1..Len(m.slots) : m.slots[s].used =>
           s \in 1..Len(l.slots) /\ l.slots[s] = m.slots[s]
    BY <1>1
  <2>2. PendingAll(m.slots, m.calls)
    BY DEF Sound
  <2> QED BY <2>1, <2>2, <1>3, PendingMoved DEF PendingAll
<1>8. \A g \in 1..Len(m.calls) : \A i \in 1..Len(m.calls[g]) : m.calls[g][i].slot # t
  <2> SUFFICES ASSUME NEW g \in 1..Len(m.calls), NEW i \in 1..Len(m.calls[g])
               PROVE  m.calls[g][i].slot # t
    OBVIOUS
  <2>1. Waiting(m.calls, i, g, i) /\ g \in Nat /\ i \in Nat
    BY <1>3 DEF Waiting
  <2>2. Pending(l.slots, m.calls[g][i])
    BY <2>1, <1>7 DEF PendingAll, PendingPart
  <2> QED BY <2>2, <1>4 DEF Pending
<1>9. /\ kept \in Memory /\ kept.slots = l.slots /\ kept.cache = l.cache /\ kept.names = l.names
      /\ m.calls = <<>> => kept.calls = m.calls
      /\ m.calls # <<>> =>
           kept.calls = [m.calls EXCEPT ![Len(m.calls)] = Append(m.calls[Len(m.calls)], new)]
  <2>1. CASE m.calls = <<>>
    BY <2>1, <1>1, <1>3
  <2>2. CASE m.calls # <<>>
    <3>1. Len(m.calls) \in 1..Len(m.calls) /\ m.calls[Len(m.calls)] \in Seq(Save)
      BY <2>2, <1>3
    <3>2. \A s \in Vars!ToSet(Vars!Last(l.calls)) : s.slot # new.slot
      <4> DEFINE q == m.calls[Len(m.calls)]
      <4>1. Vars!Last(l.calls) = q /\ DOMAIN q = 1..Len(q)
        BY <3>1, <1>1 DEF Vars!Last
      <4>2. \A i \in 1..Len(q) : q[i].slot # new.slot
        BY <3>1, <1>6, <1>8
      <4> HIDE DEF q
      <4> QED BY <4>1, <4>2 DEF Vars!ToSet
    <3>3. LET y == Vars!Saved(l, new)
              g == Len(l.calls)
          IN  /\ y \in Memory /\ y.slots = l.slots /\ y.cache = l.cache /\ y.names = l.names
              /\ y.calls = [l.calls EXCEPT ![g] = Append(l.calls[g], new)]
      BY <3>2, <2>2, <1>1, <1>3, <1>6, SavedFields, ZenonT(30)
    <3>4. kept = Vars!Saved(l, new)
      BY <2>2
    <3> HIDE DEF kept
    <3> QED BY <3>3, <3>4, <2>2, <1>1
  <2> QED BY <2>1, <2>2
<1> HIDE DEF kept
<1>10. Rest(kept, t) /\ kept.names.built
  BY <1>1, <1>9 DEF Rest
<1>11. PICK w : /\ Vars!Revived(kept, t, v) = Put(kept, t, w) /\ Fits(kept, t, w)
                /\ w.name = v.name /\ w.type = v.type /\ w.unsuffixed = v.unsuffixed
                /\ w.cell = v.cell
  <2>1. t \in 1..Len(kept.slots) /\ CachePart(kept.slots, kept.cache, kept.names)
    BY <1>4, <1>9, <1>10 DEF Rest
  <2> QED BY <2>1, <1>4, <1>5, <1>9, RevivedPut, ZenonT(30)
<1>12. /\ Rest(x, 0) /\ x.calls = kept.calls /\ x.slots = [l.slots EXCEPT ![t] = w]
  <2>1. LET y == Vars!Indexed(Put(kept, t, w), t)
        IN  /\ Rest(y, 0) /\ y.calls = kept.calls /\ y.slots = [kept.slots EXCEPT ![t] = w]
            /\ <<w.name, w.type, t>> \in y.names.index
    BY <1>1, <1>9, <1>10, <1>11, PutNew, ZenonT(30)
  <2>2. x = Vars!Indexed(Put(kept, t, w), t)
    BY <1>11
  <2> QED BY <2>1, <2>2, <1>9, Zenon
<1> HIDE DEF x
<1>13. w \in Slot /\ w.used
  BY <1>11 DEF Fits
<1>14. /\ x.slots \in Seq(Slot) /\ Len(x.slots) = Len(l.slots) /\ x.slots[t] = w
       /\ \A s \in 1..Len(l.slots) : s # t => x.slots[s] = l.slots[s]
  BY <1>3, <1>4, <1>12, <1>13
<1>15. PendingAll(x.slots, m.calls)
  <2>1. \A s \in 1..Len(l.slots) : l.slots[s].used =>
           s \in 1..Len(x.slots) /\ x.slots[s] = l.slots[s]
    BY <1>4, <1>14
  <2> QED BY <2>1, <1>3, <1>7, <1>14, PendingMoved DEF PendingAll
<1>16. Pending(x.slots, new)
  BY <1>4, <1>5, <1>6, <1>11, <1>13, <1>14 DEF Pending
<1>17. PendingAll(x.slots, x.calls)
  <2>1. CASE m.calls = <<>>
    BY <2>1, <1>9, <1>12, <1>15
  <2>2. CASE m.calls # <<>>
    <3>1. \A g \in 1..Len(m.calls) : \A i \in 1..Len(m.calls[g]) :
            m.calls[g][i].slot = new.slot => Later(new)
      BY <1>6, <1>8
    <3>2. PendingAll(x.slots, [m.calls EXCEPT ![Len(m.calls)] = Append(m.calls[Len(m.calls)], new)])
      BY <3>1, <2>2, <1>3, <1>6, <1>14, <1>15, <1>16, PendingAppend
    <3> QED BY <3>2, <2>2, <1>9, <1>12
  <2> QED BY <2>1, <2>2
<1>18. Gains(m, x, name, type)
  BY <1>a, <1>4, <1>5, <1>11, <1>13, <1>14 DEF Gains, Has, f, l, t
<1> QED BY <1>2, <1>9, <1>12, <1>17, <1>18 DEF LocallyMade, Sound, new, t, f

\* A used slot is bound to another variable of its name and type.
LEMMA PutOver ==
  ASSUME NEW m \in Memory, Rest(m, 0), NEW s \in 1..Len(m.slots), m.slots[s].used,
         NEW w, Fits(m, s, w), w.name = m.slots[s].name, w.type = m.slots[s].type
  PROVE  LET x == Put(m, s, w)
         IN  /\ x \in Memory /\ x.calls = m.calls /\ x.slots = [m.slots EXCEPT ![s] = w]
             /\ x.cache = m.cache /\ x.names.built
             /\ SlotsPart(x.slots, x.names, 0) /\ CachePart(x.slots, x.cache, x.names)
             /\ (Plain /\ w.unsuffixed => m.slots[s].unsuffixed) => IndexPart(x.slots, x.names)
<1> DEFINE v == m.slots
           u == [v EXCEPT ![s] = w]
           p == Put(m, s, w)
           n == m.names
<1>1. v \in Seq(Slot) /\ Len(v) \in Nat /\ n \in Static /\ s \in Nat /\ n.high \in Nat
  BY Parts DEF Static
<1>2. SlotsPart(v, n, 0) /\ IndexPart(v, n) /\ CachePart(v, m.cache, n)
  BY DEF Rest
<1>3. Len(v) <= MaxSlots /\ s <= MaxSlots /\ s \in 1..n.high /\ n.built /\ n.high <= Len(v)
  BY <1>1, <1>2, VariablesAssumption DEF SlotsPart, IndexPart
<1>4. w \in Slot /\ w.used
  BY DEF Fits
<1>5. /\ p \in Memory /\ p.slots = u /\ p.calls = m.calls /\ p.cache = m.cache
      /\ p.names.index = n.index /\ p.names.bare = n.bare /\ p.names.built = n.built
      /\ p.names.free = n.free /\ p.names.high = n.high
  BY <1>3, <1>4, PutFields, ZenonT(30)
<1>6. /\ Len(u) = Len(v) /\ u[s] = w /\ \A x \in 1..Len(v) : x # s => u[x] = v[x]
  <2>1. s \in 1..Len(v)
    OBVIOUS
  <2> HIDE DEF v
  <2> QED BY <1>1, <2>1
<1>7. CachePart(u, m.cache, p.names)
  BY <1>2, <1>3, <1>5, PutCache
<1>8. /\ \A x \in 1..Len(v) : u[x].used = v[x].used /\ u[x].name = v[x].name
         /\ u[x].type = v[x].type
  <2>1. v[s].used = TRUE /\ w.used = TRUE
    BY <1>1, <1>4, SlotFields DEF Slot
  <2>2. w.name = v[s].name /\ w.type = v[s].type
    OBVIOUS
  <2> HIDE DEF u, v
  <2> QED BY <2>1, <2>2, <1>6
<1> HIDE DEF p, u, v, n
<1>9. SlotsPart(u, p.names, 0)
  <2>1. \A x \in 1..n.high : x \in 1..Len(v)
    BY <1>1, <1>3
  <2>2. SlotsPart(v, n, 0)
    BY <1>2
  <2>3. \A x \in 1..Len(v) : u[x].used = v[x].used
    BY <1>8
  <2>4. \A i \in 1..Len(n.free) : ~u[n.free[i]].used
    BY <2>1, <2>2, <2>3 DEF SlotsPart
  <2> QED BY <2>1, <2>2, <2>3, <2>4, <1>5, <1>6 DEF SlotsPart
<1>10. ASSUME Plain /\ w.unsuffixed => v[s].unsuffixed
       PROVE  IndexPart(u, p.names)
  <2>1. {y \in 1..Len(u) : u[y].used} = {y \in 1..Len(v) : v[y].used}
    BY <1>6, <1>8
  <2>2. \A y \in {y \in 1..Len(v) : v[y].used} : u[y].name = v[y].name /\ u[y].type = v[y].type
    BY <1>8
  <2>3. Indexes(u, p.names)
    BY <1>2, <1>5, <2>1, <2>2 DEF IndexPart, Indexes
  <2>4. ASSUME Plain, NEW x \in 1..Len(u), u[x].used, u[x].unsuffixed
        PROVE  \E i \in 1..Len(p.names.bare) : p.names.bare[i] = <<u[x].name, x>>
    <3>1. x \in 1..Len(v) /\ v[x].used /\ v[x].unsuffixed /\ u[x].name = v[x].name
      BY <1>6, <1>8, <1>10, <2>4
    <3>2. \E i \in 1..Len(n.bare) : n.bare[i] = <<v[x].name, x>>
      BY <3>1, <2>4, <1>2 DEF IndexPart
    <3> QED BY <3>1, <3>2, <1>5
  <2> QED BY <2>3, <2>4, <1>3, <1>5 DEF IndexPart
<1> QED BY <1>3, <1>5, <1>7, <1>9, <1>10 DEF u, v, p, n

\* The indexes made anew leave the rest as it is.
LEMMA RebuiltRest ==
  ASSUME NEW m \in Memory, m.names.built, SlotsPart(m.slots, m.names, 0),
         CachePart(m.slots, m.cache, m.names)
  PROVE  /\ Rest(Vars!Rebuilt(m), 0) /\ Vars!Rebuilt(m).slots = m.slots
         /\ Vars!Rebuilt(m).calls = m.calls
<1> DEFINE r == Vars!Rebuilt(m)
<1>1. /\ r \in Memory /\ r.slots = m.slots /\ r.calls = m.calls /\ r.cache = m.cache
      /\ r.names.built /\ r.names.free = m.names.free
      /\ r.names.high = m.names.high /\ r.names.left = m.names.left
      /\ IndexPart(m.slots, r.names)
  BY RebuiltIndex
<1> HIDE DEF r
<1>2. SlotsPart(m.slots, r.names, 0)
  BY <1>1 DEF SlotsPart
<1>3. CachePart(m.slots, m.cache, r.names)
  BY <1>1, SameLeft
<1> QED BY <1>1, <1>2, <1>3 DEF Rest, r

\* LOCAL of a key that a slot has.
LEMMA HiddenSound ==
  ASSUME NEW m \in Memory, Sound(m), NEW s \in 1..Len(m.slots), m.slots[s].used,
         m.slots[s].name \in Names, ~Vars!IsLocal(m, s), NEW b \in BOOLEAN, Plain => b
  PROVE  LET x == Vars!Hidden(m, s, b)
             e == Len(m.calls)
         IN  /\ Sound(x)
             /\ x.calls = [m.calls EXCEPT ![e] = Append(m.calls[e], Outer(m.slots, s))]
             /\ Has(x, s, m.slots[s].name, m.slots[s].type)
             /\ x.slots[s].cell = Vars!FreshCell(m, s) /\ Len(x.slots) = Len(m.slots)
             /\ \A y \in 1..Len(m.slots) : y # s => x.slots[y] = m.slots[y]
<1> DEFINE v == m.slots[s]
           save == Outer(m.slots, s)
           l == Vars!Saved(m, save)
           y == Vars!Binding(m, s, v.name, v.type, b)
           over == Vars!Bound(l, s, y)
<1>1. Vars!Hidden(m, s, b) = IF b = v.unsuffixed THEN over ELSE Vars!Rebuilt(over)
  BY DEF Vars!Hidden, Outer
<1>2. /\ m.slots \in Seq(Slot) /\ Len(m.slots) \in Nat /\ m.calls \in Seq(Seq(Save))
      /\ s \in Nat /\ v.type \in Types /\ v.unsuffixed \in BOOLEAN /\ v.cell \in Storage
  BY Parts, SlotFields
<1>3. save \in Save /\ save.slot = s /\ save.existed /\ save.type = v.type
      /\ save.unsuffixed = v.unsuffixed
  BY <1>2 DEF Save, Outer
<1> HIDE DEF save
<1>4. m.calls # <<>> /\ \A x \in Vars!ToSet(Vars!Last(m.calls)) : x.slot # save.slot
  BY <1>3 DEF Vars!IsLocal
<1>5. /\ l \in Memory /\ l.slots = m.slots /\ l.cache = m.cache /\ l.names = m.names
      /\ l.calls = [m.calls EXCEPT ![Len(m.calls)] = Append(m.calls[Len(m.calls)], save)]
  BY <1>3, <1>4, SavedFields, ZenonT(30)
<1>6. Rest(l, 0)
  BY <1>5 DEF Rest, Sound
<1>7. y \in Slot /\ y.used /\ y.name = v.name /\ y.type = v.type /\ y.unsuffixed = b
  BY <1>2, BindingTyped
<1>8. Len(m.slots) <= MaxSlots /\ s <= MaxSlots
  BY <1>2, VariablesAssumption DEF Sound, Rest, SlotsPart
<1>a. y.cell = Vars!FreshCell(m, s)
  BY BindingCell
<1> HIDE DEF l, y
<1>9. PICK w : /\ over = Put(l, s, w) /\ Fits(l, s, w)
               /\ w.name = v.name /\ w.type = v.type /\ w.unsuffixed = b
               /\ w.cell = y.cell
  <2>1. s \in 1..Len(l.slots)
    BY <1>5
  <2>2. \E w : /\ Vars!Bound(l, s, y) = Put(l, s, w) /\ Fits(l, s, w)
               /\ w.name = y.name /\ w.type = y.type /\ w.unsuffixed = y.unsuffixed
               /\ w.cell = y.cell
    BY <2>1, <1>5, <1>7, <1>8, BoundPut, ZenonT(30)
  <2> QED BY <2>2, <1>7
<1> HIDE DEF over
<1>10. /\ over \in Memory /\ over.calls = l.calls /\ over.slots = [m.slots EXCEPT ![s] = w]
       /\ over.names.built
       /\ SlotsPart(over.slots, over.names, 0) /\ CachePart(over.slots, over.cache, over.names)
       /\ (Plain /\ w.unsuffixed => v.unsuffixed) => IndexPart(over.slots, over.names)
  <2>1. s \in 1..Len(l.slots) /\ l.slots[s].used
    BY <1>5
  <2>2. w.name = l.slots[s].name /\ w.type = l.slots[s].type /\ l.slots[s] = v
    BY <1>5, <1>9
  <2>3. LET x == Put(l, s, w)
        IN  /\ x \in Memory /\ x.calls = l.calls /\ x.slots = [l.slots EXCEPT ![s] = w]
            /\ x.cache = l.cache /\ x.names.built
            /\ SlotsPart(x.slots, x.names, 0) /\ CachePart(x.slots, x.cache, x.names)
            /\ (Plain /\ w.unsuffixed => l.slots[s].unsuffixed) => IndexPart(x.slots, x.names)
    BY <2>1, <2>2, <1>5, <1>6, <1>9, PutOver, ZenonT(60)
  <2> QED BY <2>2, <2>3, <1>5, <1>9, Zenon
<1>11. w \in Slot /\ w.used
  BY <1>9 DEF Fits
<1>12. /\ over.slots \in Seq(Slot) /\ Len(over.slots) = Len(m.slots) /\ over.slots[s] = w
       /\ \A x \in 1..Len(m.slots) : x # s => over.slots[x] = m.slots[x]
  BY <1>2, <1>10, <1>11
<1>13. PendingAll(m.slots, m.calls)
  BY DEF Sound
<1>14. PendingAll(over.slots, m.calls)
  <2>1. \A x \in 1..Len(m.slots) : m.slots[x].used =>
           /\ x \in 1..Len(over.slots) /\ over.slots[x].used
           /\ over.slots[x].type = m.slots[x].type
           /\ Plain /\ m.slots[x].unsuffixed => over.slots[x].unsuffixed
    BY <1>9, <1>11, <1>12
  <2> QED BY <2>1, <1>2, <1>12, <1>13, PendingMoved DEF PendingAll
<1>15. PendingAll(over.slots, over.calls)
  <2>1. Pending(over.slots, save)
    BY <1>3, <1>9, <1>11, <1>12 DEF Pending
  <2>2. ASSUME NEW g \in 1..Len(m.calls), NEW i \in 1..Len(m.calls[g]),
               m.calls[g][i].slot = save.slot
        PROVE  Later(save)
    <3>1. Waiting(m.calls, i, g, i) /\ g \in Nat /\ i \in Nat
      BY <1>2 DEF Waiting
    <3>2. Pending(m.slots, m.calls[g][i])
      BY <3>1, <1>13 DEF PendingAll, PendingPart
    <3> QED BY <3>2, <2>2, <1>3 DEF Pending, Later
  <2>3. PendingAll(over.slots, [m.calls EXCEPT ![Len(m.calls)] = Append(m.calls[Len(m.calls)], save)])
    BY <2>1, <2>2, <1>2, <1>3, <1>4, <1>12, <1>14, PendingAppend
  <2> QED BY <2>3, <1>5, <1>10
<1>18. /\ over.calls = [m.calls EXCEPT ![Len(m.calls)] = Append(m.calls[Len(m.calls)], save)]
       /\ s \in 1..Len(over.slots) /\ over.slots[s].used
       /\ over.slots[s].name = v.name /\ over.slots[s].type = v.type
       /\ over.slots[s].cell = Vars!FreshCell(m, s) /\ Len(over.slots) = Len(m.slots)
       /\ \A x \in 1..Len(m.slots) : x # s => over.slots[x] = m.slots[x]
  BY <1>a, <1>5, <1>9, <1>10, <1>11, <1>12
<1>16. CASE b = v.unsuffixed
  <2>1. Vars!Hidden(m, s, b) = over
    BY <1>1, <1>16
  <2> QED BY <2>1, <1>9, <1>10, <1>15, <1>16, <1>18 DEF Sound, Rest, Has, save
<1>17. CASE b # v.unsuffixed
  <2>1. /\ Rest(Vars!Rebuilt(over), 0) /\ Vars!Rebuilt(over).slots = over.slots
        /\ Vars!Rebuilt(over).calls = over.calls
    BY <1>10, RebuiltRest
  <2>2. Vars!Hidden(m, s, b) = Vars!Rebuilt(over)
    BY <1>1, <1>17
  <2> QED BY <1>15, <1>18, <2>1, <2>2 DEF Sound, Has, save
<1> QED BY <1>16, <1>17

-----------------------------------------------------------------------------
(* LOCALs restored.                                                        *)

\* All but one entry of a sequence are there without the first e.
LEMMA WithoutFirst ==
  ASSUME NEW T, NEW q \in Seq(T), NEW e
  PROVE  /\ Vars!RemoveFirst(q, e) \in Seq(T)
         /\ \A i \in 1..Len(q) : q[i] # e =>
              \E j \in 1..Len(Vars!RemoveFirst(q, e)) : Vars!RemoveFirst(q, e)[j] = q[i]
<1>0. Len(q) \in Nat
  OBVIOUS
<1>1. CASE ~ \E i \in 1..Len(q) : q[i] = e
  <2>1. Vars!RemoveFirst(q, e) = q
    BY <1>1 DEF Vars!RemoveFirst
  <2> QED BY <2>1
<1>2. CASE \E i \in 1..Len(q) : q[i] = e
  <2> DEFINE I == {i \in 1..Len(q) : q[i] = e}
             k == Vars!Min(I)
             a == SubSeq(q, 1, k - 1)
             b == SubSeq(q, k + 1, Len(q))
  <2>1. I \subseteq Nat /\ I # {}
    BY <1>2
  <2>2. k \in I
    <3> HIDE DEF I
    <3> QED BY <2>1, LeastOne
  <2>3. Vars!SelectInSeq(q, LAMBDA v : v = e) = k
    BY <2>1 DEF Vars!SelectInSeq
  <2>4. Vars!RemoveFirst(q, e) = a \o b
    BY <1>2, <2>3 DEF Vars!RemoveFirst, Vars!RemoveAt
  <2>5. k \in 1..Len(q) /\ q[k] = e
    BY <2>2
  <2> HIDE DEF k, I
  <2>6. a \in Seq(T) /\ Len(a) = k - 1 /\ \A i \in 1..k - 1 : a[i] = q[i]
    BY <2>5, <1>0
  <2>7. b \in Seq(T) /\ Len(b) = Len(q) - k /\ \A i \in 1..Len(q) - k : b[i] = q[k + i]
    BY <2>5, <1>0
  <2> HIDE DEF a, b
  <2>8. /\ a \o b \in Seq(T) /\ Len(a \o b) = Len(q) - 1
        /\ \A i \in 1..k - 1 : (a \o b)[i] = a[i]
        /\ \A i \in 1..Len(q) - k : (a \o b)[k - 1 + i] = b[i]
    <3>1. a \o b \in Seq(T) /\ Len(a \o b) = Len(a) + Len(b)
      BY <2>6, <2>7
    <3>2. \A i \in 1..Len(a) + Len(b) :
            (a \o b)[i] = IF i <= Len(a) THEN a[i] ELSE b[i - Len(a)]
      BY <2>6, <2>7, ConcatProperties, Zenon
    <3>3. ASSUME NEW i \in 1..k - 1 PROVE (a \o b)[i] = a[i]
      BY <3>2, <2>5, <2>6, <2>7, <1>0
    <3>4. ASSUME NEW i \in 1..Len(q) - k PROVE (a \o b)[k - 1 + i] = b[i]
      <4>1. k - 1 + i \in 1..Len(a) + Len(b) /\ ~(k - 1 + i <= Len(a))
            /\ (k - 1 + i) - Len(a) = i
        BY <2>5, <2>6, <2>7, <1>0
      <4> QED BY <4>1, <3>2
    <3>5. Len(a) + Len(b) = Len(q) - 1
      BY <2>5, <2>6, <2>7, <1>0
    <3> QED BY <3>1, <3>3, <3>4, <3>5
  <2>9. ASSUME NEW i \in 1..Len(q), q[i] # e
        PROVE  \E j \in 1..Len(a \o b) : (a \o b)[j] = q[i]
    <3>1. i # k /\ i \in Nat /\ k \in Nat
      BY <2>5, <2>9
    <3>2. CASE i < k
      <4>1. i \in 1..k - 1 /\ i \in 1..Len(a \o b)
        BY <3>1, <3>2, <2>5, <2>8, <1>0
      <4> QED BY <4>1, <2>6, <2>8
    <3>3. CASE i > k
      <4>1. i - k \in 1..Len(q) - k /\ i - 1 \in 1..Len(a \o b) /\ k - 1 + (i - k) = i - 1
            /\ k + (i - k) = i
        BY <3>1, <3>3, <2>5, <2>8, <1>0
      <4>2. (a \o b)[i - 1] = b[i - k] /\ b[i - k] = q[i]
        BY <4>1, <2>7, <2>8
      <4> QED BY <4>1, <4>2
    <3> QED BY <3>1, <3>2, <3>3
  <2> QED BY <2>4, <2>8, <2>9
<1> QED BY <1>1, <1>2

\* hash_del leaves the entries of the other slots.
LEMMA StillThere ==
  ASSUME NEW T, NEW q \in Seq(T), NEW e, NEW i \in 1..Len(q), q[i] # e
  PROVE  \E j \in 1..Len(Vars!RemoveFirst(q, e)) : Vars!RemoveFirst(q, e)[j] = q[i]
BY WithoutFirst

\* One LOCAL less is to be restored.
LEMMA PendingLess ==
  ASSUME NEW v \in Seq(Slot), NEW u \in Seq(Slot), NEW cs \in Seq(Seq(Save)),
         cs # <<>>, NEW j \in 1..Len(cs[Len(cs)]), PendingPart(v, cs, j),
         \A s \in 1..Len(v) : v[s].used /\ s # cs[Len(cs)][j].slot =>
           s \in 1..Len(u) /\ u[s] = v[s],
         LET save == cs[Len(cs)][j]
         IN  save.existed => /\ save.slot \in 1..Len(u) /\ u[save.slot].used
                             /\ u[save.slot].type = v[save.slot].type
                             /\ Plain /\ save.unsuffixed => u[save.slot].unsuffixed
  PROVE  PendingPart(u, cs, j - 1)
<1> DEFINE e == Len(cs)
           save == cs[e][j]
<1>1. e \in Nat /\ e \in 1..e /\ j \in Nat /\ j - 1 \in Nat
  OBVIOUS
<1>2. Waiting(cs, j, e, j)
  BY <1>1 DEF Waiting
<1>3. ASSUME NEW g \in Nat, NEW i \in Nat, Waiting(cs, j - 1, g, i)
      PROVE  Waiting(cs, j, g, i) /\ (g < e \/ (g = e /\ i < j))
  BY <1>1, <1>3 DEF Waiting
<1>4. ASSUME NEW g \in Nat, NEW i \in Nat, Waiting(cs, j - 1, g, i)
      PROVE  Pending(u, cs[g][i])
  <2>1. Pending(v, cs[g][i])
    BY <1>3, <1>4 DEF PendingPart
  <2>2. CASE cs[g][i].slot = save.slot
    <3>1. Later(save)
      BY <1>1, <1>2, <1>3, <1>4, <2>2 DEF PendingPart
    <3> QED BY <2>1, <2>2, <3>1 DEF Pending, Later
  <2>3. CASE cs[g][i].slot # save.slot
    BY <2>1, <2>3 DEF Pending
  <2> QED BY <2>2, <2>3
<1>5. ASSUME NEW g \in Nat, NEW i \in Nat, NEW h \in Nat, NEW k \in Nat,
             Waiting(cs, j - 1, g, i), Waiting(cs, j - 1, h, k), cs[g][i].slot = cs[h][k].slot,
             g < h \/ (g = h /\ i < k)
      PROVE  Later(cs[h][k])
  <2>1. Waiting(cs, j, g, i) /\ Waiting(cs, j, h, k)
    BY <1>3, <1>5
  <2> QED BY <2>1, <1>5 DEF PendingPart
<1> QED BY <1>4, <1>5 DEF PendingPart

\* From v to w the LOCAL that saved this is undone.
Undone(v, w, save) ==
  LET s == save.slot
  IN  IF save.existed
      THEN w[s].used /\ w[s].name = v[s].name /\ w[s].type = v[s].type /\ w[s].cell = save.cell
      ELSE ~w[s].used /\ w[s].cell = <<>>

\* One save is undone, and the other slots are as before.
Back(v, w, save) ==
  /\ Len(w) = Len(v) /\ Undone(v, w, save)
  /\ \A y \in 1..Len(v) : y # save.slot => w[y] = v[y]

\* A call that saved each slot once.
Once(saves) == \A i, j \in 1..Len(saves) : saves[i].slot = saves[j].slot => i = j

\* The saves from k on are undone, and the other slots are as before.
BackTo(v, w, saves, k) ==
  /\ Len(w) = Len(v) /\ \A i \in k..Len(saves) : Undone(v, w, saves[i])
  /\ \A y \in 1..Len(v) : (\A i \in k..Len(saves) : saves[i].slot # y) => w[y] = v[y]

\* To undo one save more is to undo those from the one before on.
LEMMA BackStep ==
  ASSUME NEW v, NEW w, NEW x, NEW saves \in Seq(Save), NEW k \in 1..Len(saves), Once(saves),
         BackTo(v, w, saves, k + 1), Back(w, x, saves[k]),
         \A i \in 1..Len(saves) : saves[i].slot \in 1..Len(v)
  PROVE  BackTo(v, x, saves, k)
<1> DEFINE s == saves[k].slot
<1>1. \A i \in k..Len(saves) : i # k => i \in k + 1..Len(saves)
  OBVIOUS
<1>2. \A i \in k + 1..Len(saves) : saves[i].slot # s /\ i \in k..Len(saves)
  BY DEF Once
<1>3. w[s] = v[s] /\ Len(w) = Len(v)
  BY <1>2 DEF BackTo
<1>4. Undone(v, x, saves[k])
  BY <1>3 DEF Back, Undone
<1>5. ASSUME NEW i \in k + 1..Len(saves) PROVE Undone(v, x, saves[i])
  <2>1. Undone(v, w, saves[i]) /\ saves[i].slot # s
    BY <1>2 DEF BackTo
  <2>2. x[saves[i].slot] = w[saves[i].slot]
    BY <1>3, <2>1 DEF Back
  <2> QED BY <2>1, <2>2, Zenon DEF Undone
<1>6. ASSUME NEW y \in 1..Len(v), \A i \in k..Len(saves) : saves[i].slot # y
      PROVE  x[y] = v[y]
  <2>1. k \in k..Len(saves)
    OBVIOUS
  <2>2. y # s /\ w[y] = v[y]
    BY <1>2, <1>6, <2>1 DEF BackTo
  <2> QED BY <1>3, <2>2 DEF Back
<1> QED BY <1>1, <1>3, <1>4, <1>5, <1>6 DEF BackTo, Back

\* mmb_local_restore of a LOCAL that hid a variable: it is back in its slot.
LEMMA RestoredOuter ==
  ASSUME NEW m \in Memory, Rest(m, 0), NEW save \in Save, Pending(m.slots, save), save.existed
  PROVE  LET x == Vars!Restored(m, save)
             s == save.slot
         IN  /\ Rest(x, 0) /\ x.calls = m.calls /\ Len(x.slots) = Len(m.slots)
             /\ \A y \in 1..Len(m.slots) : y # s => x.slots[y] = m.slots[y]
             /\ x.slots[s].used /\ x.slots[s].type = m.slots[s].type
             /\ x.slots[s].unsuffixed = save.unsuffixed
             /\ Back(m.slots, x.slots, save)
<1> DEFINE s == save.slot
           v == m.slots[s]
           outer == [v EXCEPT !.used = TRUE, !.type = save.type,
                              !.unsuffixed = save.unsuffixed, !.cell = save.cell]
           x == Vars!Restored(m, save)
<1>1. /\ m.slots \in Seq(Slot) /\ Len(m.slots) \in Nat /\ s \in 1..Len(m.slots) /\ v.used
      /\ v \in Slot /\ save.type = v.type
      /\ Plain => v.unsuffixed
  BY Parts, SlotFields DEF Pending
<1>2. x = Vars!Bound(m, s, outer)
  <2>1. s \in DOMAIN m.slots
    BY <1>1
  <2> QED BY <2>1, Zenon DEF Vars!Restored
<1>3. /\ outer \in Slot /\ outer.used /\ outer.name = v.name /\ outer.type = v.type
      /\ outer.unsuffixed = save.unsuffixed /\ outer.cell = save.cell
  <2>1. save.type \in Types /\ save.unsuffixed \in BOOLEAN /\ save.cell \in Storage
    BY DEF Save
  <2> HIDE DEF v
  <2> QED BY <1>1, <2>1 DEF Slot
<1> HIDE DEF outer
<1>4. Len(m.slots) <= MaxSlots /\ s <= MaxSlots
  BY <1>1, VariablesAssumption DEF Rest, SlotsPart
<1>5. PICK w : /\ Vars!Bound(m, s, outer) = Put(m, s, w) /\ Fits(m, s, w)
               /\ w.name = outer.name /\ w.type = outer.type
               /\ w.unsuffixed = outer.unsuffixed /\ w.cell = outer.cell
  BY <1>1, <1>3, <1>4, BoundPut, ZenonT(30)
<1>6. w.name = v.name /\ w.type = v.type /\ w.unsuffixed = save.unsuffixed
      /\ w \in Slot /\ w.used /\ w.cell = save.cell
  BY <1>3, <1>5 DEF Fits
<1> HIDE DEF x
<1>7. /\ x \in Memory /\ x.calls = m.calls /\ x.slots = [m.slots EXCEPT ![s] = w]
      /\ x.cache = m.cache /\ x.names.built
      /\ SlotsPart(x.slots, x.names, 0) /\ CachePart(x.slots, x.cache, x.names)
      /\ (Plain /\ w.unsuffixed => m.slots[s].unsuffixed) => IndexPart(x.slots, x.names)
  <2>1. x = Put(m, s, w)
    BY <1>2, <1>5
  <2> QED BY <2>1, <1>1, <1>5, <1>6, PutOver, ZenonT(60)
<1>8. Rest(x, 0)
  BY <1>1, <1>7 DEF Rest
<1>9. /\ Len(x.slots) = Len(m.slots) /\ x.slots[s] = w
      /\ \A y \in 1..Len(m.slots) : y # s => x.slots[y] = m.slots[y]
  BY <1>1, <1>7
<1>10. Back(m.slots, x.slots, save)
  BY <1>6, <1>9 DEF Back, Undone
<1> QED BY <1>6, <1>7, <1>8, <1>9, <1>10 DEF x

\* mmb_local_restore of a LOCAL that had the slot alone: the slot is free.
LEMMA RestoredFree ==
  ASSUME NEW m \in Memory, Rest(m, 0), NEW save \in Save, Pending(m.slots, save), ~save.existed
  PROVE  LET x == Vars!Restored(m, save)
             s == save.slot
         IN  /\ Rest(x, 0) /\ x.calls = m.calls /\ Len(x.slots) = Len(m.slots)
             /\ \A y \in 1..Len(m.slots) : y # s => x.slots[y] = m.slots[y]
             /\ Back(m.slots, x.slots, save)
<1> DEFINE s == save.slot
           v == m.slots
           n == m.names
           b == v[s]
           l == [n.left EXCEPT ![s] = [gen |-> b.gen, of |-> Vars!Signature(b)]]
           f == <<s>> \o n.free
           n0 == [n EXCEPT !.left = l, !.free = f]
           m0 == [m EXCEPT !.names = n0]
           index == n.index \ {<<b.name, b.type, s>>}
           bare == IF b.unsuffixed THEN Vars!RemoveFirst(n.bare, <<b.name, s>>) ELSE n.bare
           n1 == [n0 EXCEPT !.index = index, !.bare = bare]
           m1 == [m EXCEPT !.names = n1]
           g == Vars!Fresh(m1, s)
           e == [Vars!Empty EXCEPT !.gen = g]
           u == [v EXCEPT ![s] = e]
           x == [m1 EXCEPT !.slots = u]
<1>1. /\ v \in Seq(Slot) /\ Len(v) \in Nat /\ s \in 1..Len(v) /\ b \in Slot /\ b.used
      /\ s \in Nat /\ n \in Static
  BY Parts, SlotFields DEF Pending
<1>2. /\ b.name \in Text /\ b.type \in Types /\ b.unsuffixed \in BOOLEAN /\ b.gen \in Nat
  BY <1>1, SlotFields
<1>3. SlotsPart(v, n, 0) /\ IndexPart(v, n) /\ CachePart(v, m.cache, n)
  BY DEF Rest
<1>4. Len(v) <= MaxSlots /\ s \in 1..MaxSlots /\ b.gen # 0 /\ n.built
  BY <1>1, <1>3, VariablesAssumption DEF SlotsPart, CachePart, IndexPart
<1>5. n.left \in [1..MaxSlots -> Left] /\ n.free \in Seq(Nat) /\ n.high \in Nat
      /\ n.index \in SUBSET (Text \X Types \X Nat) /\ n.bare \in Seq(Text \X Nat)
  BY <1>1 DEF Static
<1>6. Vars!Restored(m, save) = x
  <2>1. s \in DOMAIN v
    BY <1>1
  <2>2. m0 = [m EXCEPT !.names.left[s] = [gen |-> b.gen, of |-> Vars!Signature(b)],
                       !.names.free = <<s>> \o @]
    BY DEF Memory, Static
  <2>3. m0.slots = v /\ m0.names = n0
    <3> HIDE DEF n0
    <3> QED BY DEF Memory
  <2>4. n0.index = n.index /\ n0.bare = n.bare
    <3> HIDE DEF l, f
    <3> QED BY <1>1 DEF Static
  <2>5. Vars!Unindexed(m0, s) = m1
    <3> HIDE DEF n0
    <3>1. Vars!Unindexed(m0, s) = [m0 EXCEPT !.names.index = n0.index \ {<<b.name, b.type, s>>},
                !.names.bare = IF b.unsuffixed THEN Vars!RemoveFirst(n0.bare, <<b.name, s>>)
                               ELSE n0.bare]
      BY <1>1, <2>3 DEF Vars!Unindexed
    <3>2. Vars!Unindexed(m0, s) = [m0 EXCEPT !.names.index = index, !.names.bare = bare]
      BY <2>4, <3>1
    <3> HIDE DEF index, bare
    <3> QED BY <2>3, <3>2 DEF Memory
  <2>6. Vars!Restored(m, save) = [Vars!Unindexed(m0, s) EXCEPT !.slots[s] =
                                [Vars!Empty EXCEPT !.gen = Vars!Fresh(Vars!Unindexed(m0, s), s)]]
    BY <2>1, <2>2, Zenon DEF Vars!Restored
  <2>7. Vars!Restored(m, save) = [m1 EXCEPT !.slots[s] = e]
    BY <2>5, <2>6
  <2>8. m1.slots = v
    <3> HIDE DEF n1
    <3> QED BY DEF Memory
  <2> HIDE DEF m1, e, v
  <2> QED BY <2>7, <2>8
<1>7. /\ n1 \in Static /\ n1.index = index /\ n1.bare = bare /\ n1.built /\ n1.free = f
      /\ n1.high = n.high /\ n1.left = l
  <2>1. l \in [1..MaxSlots -> Left]
    <3> DEFINE y == [gen |-> b.gen, of |-> Vars!Signature(b)]
    <3>1. Vars!Signature(b) \in Text \X Types \X BOOLEAN
      BY <1>2 DEF Vars!Signature
    <3>2. y \in Left
      BY <1>2, <3>1 DEF Left
    <3> HIDE DEF y
    <3> QED BY <1>4, <1>5, <3>2 DEF y
  <2>2. f \in Seq(Nat)
    BY <1>1, <1>5
  <2>3. index \in SUBSET (Text \X Types \X Nat)
    BY <1>5
  <2>4. bare \in Seq(Text \X Nat)
    BY <1>5, WithoutFirst
  <2> HIDE DEF l, f, index, bare
  <2>5. n0 \in Static /\ n0.high = n.high /\ n0.built = n.built /\ n0.left = l /\ n0.free = f
    BY <1>1, <2>1, <2>2 DEF Static
  <2> HIDE DEF n0
  <2>6. n1 \in Static /\ n1.index = index /\ n1.bare = bare /\ n1.built = n0.built
        /\ n1.free = n0.free /\ n1.high = n0.high /\ n1.left = n0.left
    BY <2>3, <2>4, <2>5 DEF Static
  <2> QED BY <1>4, <2>5, <2>6
<1>8. m1 \in Memory /\ m1.slots = v /\ m1.calls = m.calls /\ m1.cache = m.cache /\ m1.names = n1
  <2> HIDE DEF n1
  <2> QED BY <1>7 DEF Memory
<1>9. g \in Nat \ {0} /\ \A r \in Vars!Statements : m.cache[r].slot = s => m.cache[r].gen # g
  <2> HIDE DEF m1, v
  <2>1. m1 \in Memory /\ s \in 1..MaxSlots
    BY <1>4, <1>8
  <2>2. g \in Nat \ {0}
        /\ \A r \in Vars!Statements : m1.cache[r].slot = s => m1.cache[r].gen # g
    BY <2>1, Freshness
  <2> QED BY <2>2, <1>8
<1> HIDE DEF g
<1>10. e \in Slot /\ ~e.used /\ e.gen = g /\ e.cell = <<>>
  <2>1. g \in Nat
    BY <1>9
  <2>2. Vars!Empty.cell = <<>>
    BY DEF Vars!Empty
  <2> QED BY <2>1, <2>2, Shapes DEF Slot
<1> HIDE DEF e
<1>11. /\ u \in Seq(Slot) /\ Len(u) = Len(v) /\ u[s] = e
       /\ \A y \in 1..Len(v) : y # s => u[y] = v[y]
  <2> HIDE DEF v
  <2> QED BY <1>1, <1>10
<1> HIDE DEF u, m1, n1
<1>12. x \in Memory /\ x.slots = u /\ x.calls = m.calls /\ x.cache = m.cache /\ x.names = n1
  BY <1>8, <1>11 DEF Memory
<1>13. SlotsPart(u, n1, 0)
  <2>1. s <= n.high /\ \A i \in 1..Len(n.free) : n.free[i] # s
    BY <1>1, <1>3 DEF SlotsPart
  <2> DEFINE q == n.free
             h == n.high
  <2>2. Len(q) \in Nat /\ Len(f) = Len(q) + 1 /\ f[1] = s
        /\ \A i \in 1..Len(q) : f[i + 1] = q[i]
    <3>1. q \in Seq(Nat) /\ f = <<s>> \o q /\ s \in Nat
      BY <1>1, <1>5
    <3> HIDE DEF q, f
    <3>2. /\ Len(<<s>> \o q) = Len(q) + 1 /\ (<<s>> \o q)[1] = s
          /\ \A i \in 1..Len(q) : (<<s>> \o q)[i + 1] = q[i]
      BY <3>1
    <3> QED BY <3>1, <3>2
  <2>3. /\ Len(v) <= MaxSlots /\ h <= Len(v) /\ \A y \in 1..Len(v) : v[y].used => y <= h
        /\ \A y \in 1..h : v[y].used \/ \E i \in 1..Len(q) : q[i] = y
        /\ \A i \in 1..Len(q) : q[i] \in 1..h /\ ~v[q[i]].used
        /\ \A i, j \in 1..Len(q) : q[i] = q[j] => i = j
    <3>1. \A y \in 1..h : y # 0
      BY <1>5
    <3> QED BY <3>1, <1>3 DEF SlotsPart
  <2> HIDE DEF f, v, n
  <2>4. \A i \in 1..Len(f) : i = 1 \/ (i - 1 \in 1..Len(q) /\ f[i] = q[i - 1])
    <3> SUFFICES ASSUME NEW i \in 1..Len(f), i # 1 PROVE i - 1 \in 1..Len(q) /\ f[i] = q[i - 1]
      OBVIOUS
    <3>1. i - 1 \in 1..Len(q) /\ (i - 1) + 1 = i
      BY <2>2
    <3> QED BY <3>1, <2>2
  <2>5. \A y \in 1..h : y \in 1..Len(v)
    BY <1>1, <1>5, <2>3
  <2>6. \A y \in 1..Len(u) : u[y].used => y <= h
    BY <1>10, <1>11, <2>3
  <2>7. ASSUME NEW y \in 1..h PROVE u[y].used \/ \E i \in 1..Len(f) : f[i] = y
    <3>1. CASE y = s
      <4>1. 1 \in 1..Len(f)
        BY <2>2
      <4> QED BY <4>1, <3>1, <2>2
    <3>2. CASE y # s /\ v[y].used
      BY <3>2, <2>5, <1>11
    <3>3. CASE y # s /\ ~v[y].used
      <4>1. PICK i \in 1..Len(q) : q[i] = y
        BY <3>3, <2>3
      <4>2. i + 1 \in 1..Len(f) /\ f[i + 1] = y
        BY <4>1, <2>2
      <4> QED BY <4>2
    <3> QED BY <3>1, <3>2, <3>3
  <2>8. ASSUME NEW i \in 1..Len(f) PROVE f[i] \in 1..h /\ ~u[f[i]].used /\ f[i] # 0
    <3>1. CASE i = 1
      BY <3>1, <2>1, <2>2, <1>1, <1>5, <1>10, <1>11
    <3>2. CASE i # 1
      <4>1. i - 1 \in 1..Len(q) /\ f[i] = q[i - 1]
        BY <3>2, <2>4
      <4>2. f[i] \in 1..h /\ ~v[f[i]].used /\ f[i] # s
        BY <4>1, <2>1, <2>3
      <4> QED BY <4>2, <2>5, <1>5, <1>11
    <3> QED BY <3>1, <3>2
  <2>9. ASSUME NEW i \in 1..Len(f), NEW j \in 1..Len(f), f[i] = f[j] PROVE i = j
    <3>1. CASE i = 1 /\ j = 1
      BY <3>1
    <3>2. CASE i = 1 /\ j # 1
      BY <3>2, <2>1, <2>2, <2>4, <2>9
    <3>3. CASE i # 1 /\ j = 1
      BY <3>3, <2>1, <2>2, <2>4, <2>9
    <3>4. CASE i # 1 /\ j # 1
      <4>1. i - 1 \in 1..Len(q) /\ j - 1 \in 1..Len(q) /\ q[i - 1] = q[j - 1]
        BY <3>4, <2>4, <2>9
      <4>2. i - 1 = j - 1
        BY <4>1, <2>3, Zenon
      <4> QED BY <4>2
    <3> QED BY <3>1, <3>2, <3>3, <3>4
  <2> QED BY <2>3, <2>6, <2>7, <2>8, <2>9, <1>7, <1>11 DEF SlotsPart
<1>14. IndexPart(u, n1)
  <2>1. Indexes(u, n1)
    <3> DEFINE used == {y \in 1..Len(v) : v[y].used}
    <3>1. n.index = {<<v[y].name, v[y].type, y>> : y \in used}
      BY <1>3 DEF IndexPart, Indexes
    <3>2. {y \in 1..Len(u) : u[y].used} = used \ {s}
      BY <1>10, <1>11
    <3>3. \A y \in used \ {s} : u[y] = v[y]
      BY <1>11
    <3>4. n1.index = {<<v[y].name, v[y].type, y>> : y \in used \ {s}}
      <4> HIDE DEF v
      <4> QED BY <1>7, <3>1
    <3> HIDE DEF used, v
    <3> QED BY <3>2, <3>3, <3>4 DEF Indexes
  <2>2. ASSUME Plain, NEW y \in 1..Len(u), u[y].used, u[y].unsuffixed
        PROVE  \E i \in 1..Len(n1.bare) : n1.bare[i] = <<u[y].name, y>>
    <3>1. y \in 1..Len(v) /\ y # s /\ u[y] = v[y]
      BY <2>2, <1>10, <1>11
    <3>2. PICK i \in 1..Len(n.bare) : n.bare[i] = <<u[y].name, y>>
      BY <2>2, <3>1, <1>3 DEF IndexPart
    <3>3. n.bare[i] # <<b.name, s>>
      BY <3>1, <3>2
    <3>4. \E j \in 1..Len(Vars!RemoveFirst(n.bare, <<b.name, s>>)) :
            Vars!RemoveFirst(n.bare, <<b.name, s>>)[j] = n.bare[i]
      <4> DEFINE z == <<b.name, s>>
                 q == n.bare
                 T == Text \X Nat
      <4>1. q \in Seq(T) /\ i \in 1..Len(q) /\ q[i] # z
        BY <3>2, <3>3, <1>5
      <4> HIDE DEF z, q, T
      <4>2. \E j \in 1..Len(Vars!RemoveFirst(q, z)) : Vars!RemoveFirst(q, z)[j] = q[i]
        BY <4>1, StillThere
      <4> QED BY <4>2 DEF z, q
    <3> QED BY <2>2, <3>1, <3>2, <3>4, <1>1, <1>7
  <2> QED BY <2>1, <2>2, <1>7 DEF IndexPart
<1>15. CachePart(u, m.cache, n1)
  <2>1. /\ l[s] = [gen |-> b.gen, of |-> Vars!Signature(b)]
        /\ \A y \in 1..MaxSlots : y # s => l[y] = n.left[y]
    BY <1>4, <1>5
  <2> DEFINE k == n.left
  <2> HIDE DEF l, k
  <2>2. /\ l[s].gen = b.gen /\ l[s].of = Vars!Signature(b)
        /\ \A y \in 1..MaxSlots : y # s => l[y] = k[y]
    BY <2>1 DEF k
  <2>3. \A y \in 1..MaxSlots : l[y].of # <<>> => l[y].gen # 0
    BY <2>2, <1>3, <1>4 DEF CachePart, k
  <2>4. \A y \in 1..Len(u) : u[y].used => u[y].gen # 0 /\ l[y] = Vars!Taken
    <3>1. \A y \in 1..Len(v) : y \in 1..MaxSlots
      BY <1>1, <1>4, VariablesAssumption
    <3>2. \A y \in 1..Len(v) : v[y].used => v[y].gen # 0 /\ k[y] = Vars!Taken
      BY <1>3 DEF CachePart, k
    <3> QED BY <3>1, <3>2, <2>2, <1>10, <1>11
  <2>5. ASSUME NEW r \in Vars!Statements PROVE Valid(m.cache[r], u, l)
    <3> DEFINE c == m.cache[r]
    <3>1. Valid(c, v, k)
      BY <1>3 DEF CachePart, k
    <3>2. c.slot = s => c.gen # g
      BY <1>9
    <3>3. c \in Entry
      BY Parts
    <3> HIDE DEF c
    <3> SUFFICES ASSUME c.slot # 0 PROVE Valid(c, u, l)
      BY DEF Valid, c
    <3>4. CASE c.slot = s
      <4>1. c.gen # 0 /\ (c.gen = b.gen => b.name = c.name /\ b.type = c.type)
        BY <3>1, <3>4 DEF Valid
      <4>2. c.gen = l[s].gen => \E y \in BOOLEAN : l[s].of = <<c.name, c.type, y>>
        BY <4>1, <2>2, <1>2 DEF Vars!Signature
      <4>3. c.slot \in 1..Len(u) /\ u[c.slot].gen = g
        BY <3>4, <1>1, <1>10, <1>11
      <4> QED BY <4>1, <4>2, <4>3, <3>2, <3>4 DEF Valid
    <3>5. CASE c.slot # s
      <4>1. c.slot \in 1..Len(v) /\ c.slot \in 1..MaxSlots
        BY <3>1, <1>1, <1>4, VariablesAssumption DEF Valid
      <4>2. u[c.slot] = v[c.slot] /\ l[c.slot] = k[c.slot] /\ Len(u) = Len(v)
        BY <4>1, <3>5, <1>11, <2>2
      <4> QED BY <4>2, <3>1, Zenon DEF Valid
    <3> QED BY <3>4, <3>5
  <2> QED BY <2>3, <2>4, <2>5, <1>7 DEF CachePart
<1>16. Back(v, u, save)
  BY <1>10, <1>11 DEF Back, Undone
<1> QED BY <1>6, <1>11, <1>12, <1>13, <1>14, <1>15, <1>16 DEF Rest

\* ... in the memory of the calls: one LOCAL less is to be restored.
LEMMA RestoredSound ==
  ASSUME NEW m, Rest(m, 0), NEW cs \in Seq(Seq(Save)), cs = m.calls, cs # <<>>,
         NEW j \in 1..Len(cs[Len(cs)]), PendingPart(m.slots, cs, j)
  PROVE  LET x == Vars!Restored(m, cs[Len(cs)][j])
         IN  /\ Rest(x, 0) /\ x.calls = cs /\ PendingPart(x.slots, cs, j - 1)
             /\ Back(m.slots, x.slots, cs[Len(cs)][j])
<1> DEFINE save == cs[Len(cs)][j]
           s == save.slot
           x == Vars!Restored(m, save)
<1>1. m \in Memory /\ m.slots \in Seq(Slot) /\ Len(m.slots) \in Nat
  BY Parts DEF Rest
<1>2. Len(cs) \in 1..Len(cs) /\ Len(cs) \in Nat /\ j \in Nat
  OBVIOUS
<1>3. save \in Save
  BY <1>2
<1>4. Pending(m.slots, save)
  <2>1. Waiting(cs, j, Len(cs), j)
    BY <1>2 DEF Waiting
  <2> QED BY <2>1, <1>2 DEF PendingPart
<1>5. s \in 1..Len(m.slots)
  BY <1>4 DEF Pending
<1>6. CASE save.existed
  <2> HIDE DEF save
  <2>1. /\ Rest(x, 0) /\ x.calls = m.calls /\ Len(x.slots) = Len(m.slots)
        /\ \A y \in 1..Len(m.slots) : y # s => x.slots[y] = m.slots[y]
        /\ x.slots[s].used /\ x.slots[s].type = m.slots[s].type
        /\ x.slots[s].unsuffixed = save.unsuffixed
        /\ Back(m.slots, x.slots, save)
    BY <1>1, <1>3, <1>4, <1>6, RestoredOuter, ZenonT(30)
  <2> HIDE DEF x
  <2>2. x.slots \in Seq(Slot)
    BY <2>1, Parts DEF Rest
  <2>3. save = cs[Len(cs)][j]
    BY DEF save
  <2>4. PendingPart(x.slots, cs, j - 1)
    BY <2>1, <2>2, <2>3, <1>1, <1>5, PendingLess
  <2> QED BY <2>1, <2>4 DEF x, save
<1>7. CASE ~save.existed
  <2> HIDE DEF save
  <2>1. /\ Rest(x, 0) /\ x.calls = m.calls /\ Len(x.slots) = Len(m.slots)
        /\ \A y \in 1..Len(m.slots) : y # s => x.slots[y] = m.slots[y]
        /\ Back(m.slots, x.slots, save)
    BY <1>1, <1>3, <1>4, <1>7, RestoredFree, ZenonT(30)
  <2> HIDE DEF x
  <2>2. x.slots \in Seq(Slot)
    BY <2>1, Parts DEF Rest
  <2>3. save = cs[Len(cs)][j]
    BY DEF save
  <2>4. PendingPart(x.slots, cs, j - 1)
    BY <2>1, <2>2, <2>3, <1>1, <1>7, PendingLess
  <2> QED BY <2>1, <2>4 DEF x, save
<1> QED BY <1>6, <1>7

\* f[k] is the memory after the LOCALs from the last down to k are restored.
Backwards(f, n, m, saves) ==
  f = [k \in 1..n + 1 |-> IF k = n + 1 THEN m ELSE Vars!Restored(f[k + 1], saves[k])]

\* The function of Returned is defined: restoring backwards from n.
LEMMA BackwardsDefined ==
  ASSUME NEW n \in Nat, NEW m, NEW saves
  PROVE  \E f : Backwards(f, n, m, saves)
<1> DEFINE P(j, f) == f = [k \in (n + 1 - j)..n + 1 |->
                             IF k = n + 1 THEN m ELSE Vars!Restored(f[k + 1], saves[k])]
           S == {j \in 0..n : \E f : P(j, f)}
           T == S \cup {j \in Nat : j > n}
<1>1. 0 \in S
  <2> DEFINE f == [k \in n + 1..n + 1 |-> m]
  <2>1. P(0, f)
    OBVIOUS
  <2>2. 0 \in 0..n
    OBVIOUS
  <2> HIDE DEF P, f
  <2> QED BY <2>1, <2>2
<1>2. ASSUME NEW j \in Nat, j \in T PROVE j + 1 \in T
  <2>1. CASE j >= n
    BY <2>1
  <2>2. CASE j < n
    <3>1. PICK f : P(j, f)
      BY <1>2, <2>2
    <3> DEFINE a == n - j
               D == a..n + 1
               h == [k \in D |-> IF k = a THEN Vars!Restored(f[a + 1], saves[a]) ELSE f[k]]
    <3>2. a \in 1..n /\ n + 1 - j = a + 1 /\ n + 1 - (j + 1) = a
      BY <2>2
    <3>3. \A k \in a + 1..n + 1 : f[k] = IF k = n + 1 THEN m ELSE Vars!Restored(f[k + 1], saves[k])
      BY <3>1, <3>2
    <3>4. \A k \in D : h[k] = IF k = n + 1 THEN m ELSE Vars!Restored(h[k + 1], saves[k])
      <4> SUFFICES ASSUME NEW k \in D
                   PROVE  h[k] = IF k = n + 1 THEN m ELSE Vars!Restored(h[k + 1], saves[k])
        OBVIOUS
      <4>1. CASE k = a
        <5>1. a + 1 \in D /\ a + 1 # a /\ a # n + 1
          BY <3>2
        <5>2. h[a + 1] = f[a + 1] /\ h[k] = Vars!Restored(f[a + 1], saves[a])
          BY <4>1, <5>1
        <5> HIDE DEF h
        <5> QED BY <4>1, <5>1, <5>2
      <4>2. CASE k = n + 1
        <5>1. k # a /\ k \in a + 1..n + 1
          BY <4>2, <3>2
        <5> QED BY <4>2, <5>1, <3>3
      <4>3. CASE k # a /\ k # n + 1
        <5>1. k \in a + 1..n + 1 /\ k + 1 \in D /\ k + 1 # a
          BY <4>3, <3>2
        <5>2. h[k] = f[k] /\ h[k + 1] = f[k + 1]
          BY <5>1, <4>3
        <5>3. f[k] = Vars!Restored(f[k + 1], saves[k])
          BY <5>1, <4>3, <3>3
        <5> HIDE DEF h
        <5> QED BY <5>2, <5>3, <4>3
      <4> QED BY <4>1, <4>2, <4>3
    <3>5. h = [k \in D |-> h[k]]
      OBVIOUS
    <3>6. h = [k \in D |-> IF k = n + 1 THEN m ELSE Vars!Restored(h[k + 1], saves[k])]
      <4> HIDE DEF h
      <4> QED BY <3>4, <3>5
    <3>7. P(j + 1, h)
      <4> HIDE DEF h
      <4> QED BY <3>2, <3>6
    <3>8. j + 1 \in S
      <4> HIDE DEF P
      <4> QED BY <2>2, <3>7
    <3> QED BY <3>8
  <2> QED BY <2>1, <2>2
<1>3. n \in T
  <2>1. 0 \in T
    BY <1>1
  <2> HIDE DEF T
  <2>2. Nat \subseteq T
    BY <2>1, <1>2, InductionInSet
  <2> QED BY <2>2
<1>4. PICK f : P(n, f)
  BY <1>3
<1>5. n + 1 - n = 1
  OBVIOUS
<1> QED BY <1>4, <1>5 DEF Backwards

\* All calls but the last.
LEMMA FrontFields ==
  ASSUME NEW cs \in Seq(Seq(Save)), cs # <<>>
  PROVE  /\ Len(cs) \in Nat \ {0} /\ Vars!Front(cs) \in Seq(Seq(Save))
         /\ Len(Vars!Front(cs)) = Len(cs) - 1
         /\ \A g \in 1..Len(cs) - 1 : Vars!Front(cs)[g] = cs[g]
<1> DEFINE ds == Vars!Front(cs)
           e == Len(cs)
           T == Seq(Save)
<1>1. e \in Nat /\ e # 0 /\ ds = SubSeq(cs, 1, e - 1)
  BY DEF Vars!Front
<1> HIDE DEF T
<1>2. cs \in Seq(T) /\ e - 1 \in Nat /\ e - 1 <= e
  BY <1>1 DEF T
<1>3. SubSeq(cs, 1, e - 1) \in Seq(T) /\ Len(SubSeq(cs, 1, e - 1)) = e - 1
      /\ \A g \in 1..e - 1 : SubSeq(cs, 1, e - 1)[g] = cs[g]
  <2> HIDE DEF e
  <2>1. e = Len(cs)
    BY DEF e
  <2>2. 1 \in 1..Len(cs) + 1 /\ e - 1 \in 0..Len(cs)
    BY <1>1, <2>1
  <2>3. /\ SubSeq(cs, 1, e - 1) \in Seq(T)
        /\ Len(SubSeq(cs, 1, e - 1)) = IF 1 <= e - 1 THEN (e - 1) - 1 + 1 ELSE 0
        /\ \A i \in 1..(e - 1) - 1 + 1 : SubSeq(cs, 1, e - 1)[i] = cs[1 + i - 1]
    BY <1>2, <2>2, SubSeqProperties
  <2>4. (e - 1) - 1 + 1 = e - 1 /\ \A i \in 1..e - 1 : 1 + i - 1 = i
    BY <1>1
  <2> QED BY <1>1, <2>3, <2>4
<1> QED BY <1>1, <1>3 DEF T

\* When the LOCALs of the last call are restored, the others are as they were.
LEMMA PendingFront ==
  ASSUME NEW v, NEW cs \in Seq(Seq(Save)), cs # <<>>, PendingPart(v, cs, 0)
  PROVE  Vars!Front(cs) \in Seq(Seq(Save)) /\ PendingAll(v, Vars!Front(cs))
<1> DEFINE ds == Vars!Front(cs)
           e == Len(cs)
<1>1. e \in Nat /\ e # 0
  BY FrontFields
<1>2. ds \in Seq(Seq(Save)) /\ Len(ds) = e - 1 /\ \A g \in 1..e - 1 : ds[g] = cs[g]
  BY FrontFields
<1> HIDE DEF ds
<1> SUFFICES ASSUME NEW k \in Nat PROVE PendingPart(v, ds, k)
  BY <1>2 DEF PendingAll, ds
<1>3. ASSUME NEW g \in Nat, NEW i \in Nat, Waiting(ds, k, g, i)
      PROVE  Waiting(cs, 0, g, i) /\ ds[g][i] = cs[g][i]
  <2>1. g \in 1..e - 1 /\ i \in 1..Len(ds[g])
    BY <1>2, <1>3 DEF Waiting
  <2>2. ds[g] = cs[g] /\ g \in 1..e /\ g < e
    BY <2>1, <1>1, <1>2
  <2> QED BY <2>1, <2>2 DEF Waiting
<1>4. ASSUME NEW g \in Nat, NEW i \in Nat, Waiting(ds, k, g, i) PROVE Pending(v, ds[g][i])
  BY <1>3, <1>4 DEF PendingPart
<1>5. ASSUME NEW g \in Nat, NEW i \in Nat, NEW h \in Nat, NEW j \in Nat,
             Waiting(ds, k, g, i), Waiting(ds, k, h, j), ds[g][i].slot = ds[h][j].slot,
             g < h \/ (g = h /\ i < j)
      PROVE  Later(ds[h][j])
  <2>1. /\ Waiting(cs, 0, g, i) /\ Waiting(cs, 0, h, j)
        /\ ds[g][i] = cs[g][i] /\ ds[h][j] = cs[h][j]
    BY <1>3, <1>5
  <2> QED BY <2>1, <1>5 DEF PendingPart
<1> QED BY <1>4, <1>5 DEF PendingPart

\* The end of a call: by induction over the LOCALs that are restored, from the
\* last to the first, what is restored next has its slot.
LEMMA ReturnedSound ==
  ASSUME NEW m \in Memory, Sound(m), m.calls # <<>>
  PROVE  LET x == Vars!Returned(m)
             saves == m.calls[Len(m.calls)]
         IN  /\ Sound(x) /\ x.calls = Vars!Front(m.calls)
             /\ Once(saves) => BackTo(m.slots, x.slots, saves, 1)
<1> DEFINE cs == m.calls
           saves == Vars!Last(cs)
           n == Len(saves)
           from == CHOOSE f : Backwards(f, n, m, saves)
<1>1. Vars!Returned(m) = [from[1] EXCEPT !.calls = Vars!Front(@)]
  BY DEF Vars!Returned, Backwards
<1>2. cs \in Seq(Seq(Save)) /\ Len(cs) \in 1..Len(cs) /\ saves = cs[Len(cs)]
      /\ saves \in Seq(Save)
      /\ n \in Nat
  BY Parts DEF Vars!Last
<1>3. \E f : Backwards(f, n, m, saves)
  <2> HIDE DEF saves, n
  <2> QED BY <1>2, BackwardsDefined
<1>4. Backwards(from, n, m, saves)
  BY <1>3
<1> HIDE DEF from
<1>5. \A k \in 1..n + 1 : from[k] = IF k = n + 1 THEN m ELSE Vars!Restored(from[k + 1], saves[k])
  <2> HIDE DEF saves, n
  <2> QED BY <1>4 DEF Backwards
<1> HIDE DEF cs, saves, n
<1> DEFINE G(k) == Rest(from[k], 0) /\ from[k].calls = cs
    /\ PendingPart(from[k].slots, cs, k - 1)
    /\ (Once(saves) => BackTo(m.slots, from[k].slots, saves, k))
           S == {j \in 0..n : G(n + 1 - j)} \cup {j \in Nat : j > n}
<1>a. \A i \in 1..Len(saves) : saves[i].slot \in 1..Len(m.slots)
  <2> SUFFICES ASSUME NEW i \in 1..Len(saves) PROVE saves[i].slot \in 1..Len(m.slots)
    OBVIOUS
  <2>1. Waiting(cs, i, Len(cs), i) /\ i \in Nat /\ Len(cs) \in Nat
    BY <1>2 DEF Waiting
  <2>2. Pending(m.slots, cs[Len(cs)][i])
    BY <2>1 DEF Sound, PendingAll, PendingPart, cs
  <2> QED BY <2>2, <1>2 DEF Pending
<1>6. 0 \in S
  <2>1. from[n + 1] = m /\ n + 1 - 0 = n + 1 /\ n + 1 - 1 = n /\ 0 \in 0..n
    BY <1>2, <1>5
  <2>2. Rest(m, 0) /\ m.calls = cs /\ PendingPart(m.slots, cs, n)
    BY <1>2 DEF Sound, PendingAll, cs
  <2> DEFINE a == n + 1
             b == a - 1
  <2>a. from[a] = m /\ b = n
    BY <2>1, <1>2
  <2> HIDE DEF a, b
  <2>c. BackTo(m.slots, from[a].slots, saves, a)
    <3>1. \A i : ~(i \in a..Len(saves))
      BY <1>2 DEF a, n
    <3> QED BY <3>1, <2>a DEF BackTo
  <2>b. Rest(from[a], 0) /\ from[a].calls = cs /\ PendingPart(from[a].slots, cs, b)
        /\ (Once(saves) => BackTo(m.slots, from[a].slots, saves, a))
    BY <2>2, <2>a, <2>c
  <2>3. G(n + 1)
    BY <2>b DEF a, b
  <2> HIDE DEF G
  <2> QED BY <2>1, <2>3
<1>7. ASSUME NEW j \in Nat, j \in S PROVE j + 1 \in S
  <2>1. CASE j >= n
    BY <2>1, <1>2
  <2>2. CASE j < n
    <3> DEFINE k == n - j
               x == from[k + 1]
    <3>1. k \in 1..n /\ n + 1 - j = k + 1 /\ n + 1 - (j + 1) = k /\ (k + 1) - 1 = k
          /\ k # n + 1 /\ k \in 1..n + 1 /\ j + 1 \in 0..n
      BY <2>2, <1>2
    <3>2. G(k + 1)
      <4> HIDE DEF G, k
      <4>1. ~(j > n)
        BY <2>2, <1>2
      <4>2. G(n + 1 - j)
        BY <1>7, <4>1
      <4> QED BY <3>1, <4>2
    <3> HIDE DEF k
    <3>3. from[k] = Vars!Restored(x, saves[k])
      BY <1>5, <3>1
    <3>4. Rest(x, 0) /\ x.calls = cs /\ PendingPart(x.slots, cs, k)
          /\ (Once(saves) => BackTo(m.slots, x.slots, saves, k + 1))
      BY <3>1, <3>2
    <3> HIDE DEF x
    <3>5. k \in 1..Len(cs[Len(cs)]) /\ cs # <<>> /\ saves[k] = cs[Len(cs)][k]
      BY <3>1, <1>2 DEF n, cs
    <3>6. LET y == Vars!Restored(x, cs[Len(cs)][k])
          IN  /\ Rest(y, 0) /\ y.calls = cs /\ PendingPart(y.slots, cs, k - 1)
              /\ Back(x.slots, y.slots, cs[Len(cs)][k])
      BY <3>4, <3>5, <1>2, RestoredSound
    <3>8. Once(saves) => BackTo(m.slots, from[k].slots, saves, k)
      <4>1. Back(x.slots, from[k].slots, saves[k])
        BY <3>3, <3>5, <3>6
      <4>2. k \in 1..Len(saves) /\ \A i \in 1..Len(saves) : saves[i].slot \in 1..Len(m.slots)
        BY <3>5, <1>2, <1>a
      <4> QED BY <4>1, <4>2, <3>4, <1>2, BackStep
    <3>7. G(k)
      BY <3>3, <3>5, <3>6, <3>8
    <3> HIDE DEF G
    <3> QED BY <3>1, <3>7 DEF k
  <2> QED BY <2>1, <2>2, <1>2
<1>8. n \in S
  <2> HIDE DEF S
  <2>1. Nat \subseteq S
    BY <1>6, <1>7, InductionInSet
  <2> QED BY <2>1, <1>2
<1>9. G(1)
  <2>1. n + 1 - n = 1 /\ ~(n > n)
    BY <1>2
  <2>2. G(n + 1 - n)
    <3> HIDE DEF G
    <3> QED BY <1>8, <2>1
  <2> QED BY <2>1, <2>2
<1> DEFINE x == from[1]
           y == [x EXCEPT !.calls = Vars!Front(cs)]
<1>10. Rest(x, 0) /\ x.calls = cs /\ PendingPart(x.slots, cs, 0) /\ x \in Memory
       /\ (Once(saves) => BackTo(m.slots, x.slots, saves, 1))
  BY <1>9 DEF Rest
<1>11. cs # <<>>
  BY DEF cs
<1> HIDE DEF x
<1>12. Vars!Front(cs) \in Seq(Seq(Save)) /\ PendingAll(x.slots, Vars!Front(cs))
  BY <1>2, <1>10, <1>11, PendingFront
<1>13. y \in Memory /\ y.slots = x.slots /\ y.cache = x.cache /\ y.names = x.names
       /\ y.calls = Vars!Front(cs)
  BY <1>10, <1>12 DEF Memory
<1>14. Vars!Returned(m) = y
  BY <1>1, <1>10 DEF x
<1> HIDE DEF y
<1>15. Rest(y, 0)
  BY <1>10, <1>13 DEF Rest
<1> QED BY <1>2, <1>10, <1>12, <1>13, <1>14, <1>15 DEF Sound, cs

-----------------------------------------------------------------------------
(* Statements.                                                             *)

\* A lookup finds a variable of the name and type, or none.
LEMMA Found ==
  ASSUME NEW m \in Memory, NEW name, NEW type
  PROVE  /\ Vars!Find(m, name, type) # 0 => Has(m, Vars!Find(m, name, type), name, type)
         /\ \A s \in 1..Len(m.slots) :
              <<name, type, s>> \in m.names.index /\ Has(m, s, name, type) =>
                Vars!Find(m, name, type) # 0
<1> DEFINE hits == {s \in 1..Len(m.slots) : /\ <<name, type, s>> \in m.names.index
                                            /\ m.slots[s].used
                                            /\ m.slots[s].name = name /\ m.slots[s].type = type}
<1>1. Vars!Find(m, name, type) = IF hits = {} THEN 0 ELSE Vars!Min(hits)
  <2>1. DOMAIN m.slots = 1..Len(m.slots)
    BY Parts
  <2> QED BY <2>1, Zenon DEF Vars!Find
<1>2. hits \subseteq Nat
  BY Parts
<1>3. ASSUME hits # {} PROVE Vars!Min(hits) \in hits
  <2> HIDE DEF hits
  <2> QED BY <1>2, <1>3, LeastOne
<1>4. \A s \in hits : Has(m, s, name, type) /\ s # 0
  BY Parts DEF Has
<1>5. \A s \in 1..Len(m.slots) :
         <<name, type, s>> \in m.names.index /\ Has(m, s, name, type) => s \in hits
  BY DEF Has
<1> HIDE DEF hits
<1> QED BY <1>1, <1>3, <1>4, <1>5

\* A bare name has a type.
LEMMA TypeFound ==
  ASSUME NEW m \in Memory, NEW r \in Vars!Statements
  PROVE  /\ r.name \in Names /\ Vars!TypeOf(m, r) \in Types
         /\ \/ r.type # "bare" /\ Vars!TypeOf(m, r) = r.type
            \/ Vars!TypeOf(m, r) = Default
            \/ \E s : Has(m, s, r.name, Vars!TypeOf(m, r))
<1> DEFINE Known == {t \in Types : \E s : Has(m, s, r.name, t)}
<1>1. r.name \in Names /\ (r.type = "bare" \/ r.type \in Types)
  BY VariablesAssumption DEF Vars!Statements
<1>2. Vars!BareTypes(m, r.name) \subseteq Known
  <2> DEFINE local(g) == {i \in DOMAIN m.calls[g] :
                            LET s == m.calls[g][i].slot
                            IN  /\ s \in DOMAIN m.slots
                                /\ m.slots[s].used /\ m.slots[s].unsuffixed
                                /\ m.slots[s].name = r.name}
             hiding == {g \in DOMAIN m.calls : local(g) # {}}
             last == Vars!Max(hiding)
             i == Vars!Min(local(last))
             s == m.calls[last][i].slot
  <2>1. Vars!BareTypes(m, r.name) = IF hiding = {} THEN {} ELSE {m.slots[s].type}
    BY Zenon DEF Vars!BareTypes
  <2>2. m.calls \in Seq(Seq(Save)) /\ m.slots \in Seq(Slot)
    BY Parts
  <2>3. \A g \in DOMAIN m.calls : local(g) \subseteq Nat
    BY <2>2
  <2>4. hiding \subseteq 0..Len(m.calls) /\ Len(m.calls) \in Nat
    BY <2>2
  <2>5. CASE hiding # {}
    <3>1. last \in hiding
      <4> HIDE DEF hiding
      <4> QED BY <2>4, <2>5, GreatestOne
    <3>2. local(last) # {} /\ local(last) \subseteq Nat
      BY <3>1, <2>3
    <3>3. i \in local(last)
      <4> HIDE DEF local, last
      <4> QED BY <3>2, LeastOne
    <3>4. s \in 1..Len(m.slots) /\ m.slots[s].used /\ m.slots[s].name = r.name
      <4> HIDE DEF last
      <4>1. DOMAIN m.slots = 1..Len(m.slots)
        BY <2>2
      <4>2. \A j \in local(last) : /\ m.calls[last][j].slot \in DOMAIN m.slots
                                   /\ m.slots[m.calls[last][j].slot].used
                                   /\ m.slots[m.calls[last][j].slot].name = r.name
        OBVIOUS
      <4> HIDE DEF local, i
      <4> QED BY <4>1, <4>2, <3>3
    <3> HIDE DEF s
    <3>5. m.slots[s].type \in Known
      BY <3>4, <2>2, SlotFields DEF Has
    <3> HIDE DEF hiding
    <3> QED BY <2>1, <2>5, <3>5
  <2> HIDE DEF hiding
  <2> QED BY <2>1, <2>5
<1>3. Vars!UnsuffixedTypes(m, r.name) \subseteq Known
  <2> DEFINE hits == {i \in DOMAIN m.names.bare :
                        LET s == m.names.bare[i][2]
                        IN  /\ m.names.bare[i][1] = r.name /\ s \in DOMAIN m.slots
                            /\ m.slots[s].used /\ m.slots[s].unsuffixed
                            /\ m.slots[s].name = r.name}
             s == m.names.bare[Vars!Min(hits)][2]
  <2>1. Vars!UnsuffixedTypes(m, r.name) = IF hits = {} THEN {} ELSE {m.slots[s].type}
    BY Zenon DEF Vars!UnsuffixedTypes
  <2>2. m.names.bare \in Seq(Text \X Nat) /\ m.slots \in Seq(Slot)
    BY Parts DEF Static
  <2>3. CASE hits # {}
    <3>1. hits \subseteq Nat
      BY <2>2
    <3>2. Vars!Min(hits) \in hits
      <4> HIDE DEF hits
      <4> QED BY <2>3, <3>1, LeastOne
    <3>3. s \in 1..Len(m.slots) /\ m.slots[s].used /\ m.slots[s].name = r.name
      <4>1. \A j \in hits : /\ m.names.bare[j][2] \in 1..Len(m.slots)
                            /\ m.slots[m.names.bare[j][2]].used
                            /\ m.slots[m.names.bare[j][2]].name = r.name
        BY <2>2, SMTT(30)
      <4> HIDE DEF hits
      <4> QED BY <4>1, <3>2
    <3> HIDE DEF s
    <3>4. m.slots[s].type \in Known
      BY <3>3, <2>2, SlotFields DEF Has
    <3> HIDE DEF hits
    <3> QED BY <2>1, <2>3, <3>4
  <2> HIDE DEF hits
  <2> QED BY <2>1, <2>3
<1>4. \/ r.type # "bare" /\ r.type \in Types /\ Vars!TypeOf(m, r) = r.type
      \/ Vars!TypeOf(m, r) \in Known \cup {Default}
  <2>1. CASE r.type # "bare"
    BY <1>1, <2>1 DEF Vars!TypeOf
  <2>2. CASE r.type = "bare"
    <3> DEFINE local == Vars!BareTypes(m, r.name)
               known == Vars!UnsuffixedTypes(m, r.name)
               C == IF local # {} THEN local ELSE IF known # {} THEN known ELSE {Default}
    <3>1. Vars!TypeOf(m, r) = CHOOSE t \in C : TRUE
      BY <2>2 DEF Vars!TypeOf
    <3>2. C # {} /\ C \subseteq Known \cup {Default}
      BY <1>2, <1>3
    <3> HIDE DEF C
    <3> QED BY <3>1, <3>2
  <2> QED BY <2>1, <2>2
<1> QED BY <1>1, <1>4, VariablesAssumption

\* A statement is compiled for a variable.
LEMMA CompiledSound ==
  ASSUME NEW m, Sound(m), NEW r \in Vars!Statements, NEW s, s \in 1..Len(m.slots),
         m.slots[s].used
  PROVE  Sound(Vars!Compiled(m, r, s))
<1> DEFINE v == m.slots
           e == [slot |-> s, gen |-> v[s].gen, name |-> v[s].name, type |-> v[s].type]
           c == [m.cache EXCEPT ![r] = e]
           x == [m EXCEPT !.cache = c]
<1>1. m \in Memory /\ v \in Seq(Slot) /\ m.cache \in [Vars!Statements -> Entry] /\ s \in Nat
  BY Parts DEF Sound, Rest
<1>2. e \in Entry /\ e.slot = s /\ e.gen = v[s].gen /\ e.name = v[s].name /\ e.type = v[s].type
  BY <1>1, SlotFields DEF Entry
<1>3. Vars!Compiled(m, r, s) = x
  BY <1>1 DEF Vars!Compiled, Memory
<1> HIDE DEF e
<1>4. c \in [Vars!Statements -> Entry]
      /\ \A q \in Vars!Statements : c[q] = IF q = r THEN e ELSE m.cache[q]
  BY <1>1, <1>2
<1> HIDE DEF c
<1>5. x \in Memory /\ x.slots = v /\ x.calls = m.calls /\ x.names = m.names /\ x.cache = c
  BY <1>1, <1>4 DEF Memory
<1> HIDE DEF x
<1>6. CachePart(v, m.cache, m.names) /\ SlotsPart(v, m.names, 0) /\ IndexPart(v, m.names)
      /\ PendingAll(v, m.calls)
  BY DEF Sound, Rest
<1>7. v[s].gen # 0 /\ m.names.left[s] = Vars!Taken
  BY <1>6 DEF CachePart
<1>8. Valid(e, v, m.names.left)
  BY <1>2, <1>7, Shapes DEF Valid
<1>9. CachePart(v, c, m.names)
  BY <1>4, <1>6, <1>8 DEF CachePart
<1> QED BY <1>3, <1>5, <1>6, <1>9 DEF Sound, Rest

-----------------------------------------------------------------------------
(* Steps.                                                                  *)

\* The memory as Becomes keeps it.
Shown(m) == [slots |-> m.slots, calls |-> m.calls, cache |-> Vars!UsefulCache(m),
             names |-> [m.names EXCEPT !.left = Vars!UsefulLeft(m)]]

\* What counts for nothing may be forgotten.
LEMMA ShownSound ==
  ASSUME NEW m, Sound(m)
  PROVE  Sound(Shown(m))
<1> DEFINE v == m.slots
           l == m.names.left
           c == Vars!UsefulCache(m)
           k == Vars!UsefulLeft(m)
           n == [m.names EXCEPT !.left = k]
           x == Shown(m)
<1>1. m \in Memory /\ m.names \in Static /\ m.cache \in [Vars!Statements -> Entry]
      /\ l \in [1..MaxSlots -> Left]
  BY Parts DEF Sound, Rest, Static
<1>2. c \in [Vars!Statements -> Entry]
      /\ \A r \in Vars!Statements : c[r] = m.cache[r] \/ c[r] = Vars!Uncompiled
  <2>1. \A r \in Vars!Statements : c[r] = m.cache[r] \/ c[r] = Vars!Uncompiled
    BY DEF Vars!UsefulCache
  <2>2. c = [r \in Vars!Statements |-> c[r]]
    BY DEF Vars!UsefulCache
  <2> HIDE DEF c
  <2>3. \A r \in Vars!Statements : c[r] \in Entry
    BY <2>1, <1>1, Shapes
  <2> QED BY <2>1, <2>2, <2>3
<1>3. k \in [1..MaxSlots -> Left] /\ \A s \in 1..MaxSlots : k[s] = l[s] \/ k[s] = Vars!Taken
  <2>1. \A s \in 1..MaxSlots : k[s] = l[s] \/ k[s] = Vars!Taken
    BY DEF Vars!UsefulLeft
  <2>2. k = [s \in 1..MaxSlots |-> k[s]]
    BY DEF Vars!UsefulLeft
  <2> HIDE DEF k, l
  <2>3. \A s \in 1..MaxSlots : k[s] \in Left
    BY <2>1, <1>1, Shapes
  <2> QED BY <2>1, <2>2, <2>3
<1> HIDE DEF c, k
<1>4. /\ n \in Static /\ n.index = m.names.index /\ n.bare = m.names.bare
      /\ n.built = m.names.built /\ n.free = m.names.free /\ n.high = m.names.high
      /\ n.left = k
  BY <1>1, <1>3 DEF Static
<1> HIDE DEF n
<1>5. x \in Memory /\ x.slots = v /\ x.calls = m.calls /\ x.cache = c /\ x.names = n
  BY <1>1, <1>2, <1>4 DEF Memory, Shown, n, c, k
<1>6. SlotsPart(v, m.names, 0) /\ IndexPart(v, m.names) /\ CachePart(v, m.cache, m.names)
      /\ PendingAll(v, m.calls)
  BY DEF Sound, Rest
<1> HIDE DEF x
<1>7. SlotsPart(v, n, 0)
  BY <1>4, <1>6 DEF SlotsPart
<1>8. IndexPart(v, n)
  BY <1>4, <1>6 DEF IndexPart, Indexes
<1>9. CachePart(v, c, n)
  <2>1. \A s \in 1..MaxSlots : k[s].of # <<>> => k[s].gen # 0
    BY <1>3, <1>6, Shapes DEF CachePart
  <2>2. \A s \in 1..Len(v) : v[s].used => v[s].gen # 0 /\ k[s] = Vars!Taken
    <3>1. \A s \in 1..Len(v) : s \in 1..MaxSlots
      BY <1>1, <1>6, Parts, VariablesAssumption DEF SlotsPart
    <3>2. \A s \in 1..Len(v) : v[s].used => v[s].gen # 0 /\ l[s] = Vars!Taken
      BY <1>6 DEF CachePart
    <3> QED BY <3>1, <3>2, <1>3
  <2>3. ASSUME NEW r \in Vars!Statements PROVE Valid(c[r], v, k)
    <3>1. CASE c[r] = Vars!Uncompiled
      BY <3>1, Shapes DEF Valid
    <3>2. CASE c[r] = m.cache[r]
      <4> DEFINE e == m.cache[r]
      <4>1. Valid(e, v, l)
        BY <1>6 DEF CachePart
      <4> HIDE DEF e
      <4> SUFFICES ASSUME e.slot # 0 PROVE Valid(e, v, k)
        BY <3>2 DEF Valid, e
      <4>2. e.gen # 0 /\ e.slot \in 1..Len(v)
        BY <4>1 DEF Valid
      <4>3. e.slot \in 1..MaxSlots
        BY <4>2, <1>1, <1>6, Parts, VariablesAssumption DEF SlotsPart
      <4>4. k[e.slot] = l[e.slot] \/ k[e.slot].gen = 0
        BY <4>3, <1>3, Shapes
      <4> QED BY <4>1, <4>2, <4>4 DEF Valid
    <3> QED BY <3>1, <3>2, <1>2
  <2> QED BY <2>1, <2>2, <2>3, <1>4 DEF CachePart
<1> QED BY <1>5, <1>6, <1>7, <1>8, <1>9 DEF Sound, Rest, x
-----------------------------------------------------------------------------
(* The variables by their keys.                                            *)

\* Storage at a place of slot s.
At(c, s) == \E n \in Nat : c = <<s, n>>

\* The keys of two variables differ, each has storage that is its slot's, and a call
\* saves a slot once.
OwnPart(v, cs) ==
  /\ Len(cs) <= MaxCalls
  /\ \A s \in 1..Len(v) : v[s].used => <<v[s].name, v[s].type>> \in Vars!Keys
  /\ \A s \in 1..Len(v) : IF v[s].used THEN At(v[s].cell, s) ELSE v[s].cell = <<>>
  /\ \A s, t \in 1..Len(v) :
       v[s].used /\ v[t].used /\ v[s].name = v[t].name /\ v[s].type = v[t].type => s = t
  /\ \A g \in 1..Len(cs) : Once(cs[g])
  /\ \A g \in 1..Len(cs) : \A i \in 1..Len(cs[g]) :
       IF cs[g][i].existed THEN At(cs[g][i].cell, cs[g][i].slot) ELSE cs[g][i].cell = <<>>

\* Nothing but slot s, and what is saved of it, has storage at a place of s.
Owns(v, cs, s) ==
  \A n : /\ \A t \in 1..Len(v) : v[t].cell = <<s, n>> => v[t].used /\ t = s
         /\ \A g \in 1..Len(cs) : \A i \in 1..Len(cs[g]) :
              cs[g][i].cell = <<s, n>> => cs[g][i].existed /\ cs[g][i].slot = s

\* Storage at a place of a slot is the slot's.
LEMMA HeldBy ==
  ASSUME NEW v, NEW cs, OwnPart(v, cs), NEW s
  PROVE  Owns(v, cs, s)
<1> SUFFICES ASSUME NEW n
             PROVE  /\ \A t \in 1..Len(v) : v[t].cell = <<s, n>> => v[t].used /\ t = s
                    /\ \A g \in 1..Len(cs) : \A i \in 1..Len(cs[g]) :
                         cs[g][i].cell = <<s, n>> => cs[g][i].existed /\ cs[g][i].slot = s
  BY DEF Owns
<1>0. \A c, t : At(c, t) /\ c = <<s, n>> => t = s
  BY DEF At
<1>00. <<s, n>> # <<>>
  OBVIOUS
<1>1. ASSUME NEW t \in 1..Len(v), v[t].cell = <<s, n>> PROVE v[t].used /\ t = s
  <2>1. IF v[t].used THEN At(v[t].cell, t) ELSE v[t].cell = <<>>
    BY Zenon DEF OwnPart
  <2> QED BY <1>0, <1>00, <1>1, <2>1
<1>2. ASSUME NEW g \in 1..Len(cs), NEW i \in 1..Len(cs[g]), cs[g][i].cell = <<s, n>>
      PROVE  cs[g][i].existed /\ cs[g][i].slot = s
  <2>1. IF cs[g][i].existed THEN At(cs[g][i].cell, cs[g][i].slot) ELSE cs[g][i].cell = <<>>
    BY Zenon DEF OwnPart
  <2> QED BY <1>0, <1>00, <1>2, <2>1
<1> QED BY <1>1, <1>2

\* A sound memory in which every variable has a key and storage of its own.
Scoping(m) == Sound(m) /\ OwnPart(m.slots, m.calls)

\* The calls that made s local are those that saved it, each once.
Recorded(m, s) ==
  /\ \A g \in 1..Len(m.calls) : \A i \in 1..Len(m.calls[g]) :
       m.calls[g][i].slot = s =>
         g \in Vars!LocalIn(m, s) /\ Vars!SavedBy(m, g, s) = m.calls[g][i]
  /\ \A g \in Vars!LocalIn(m, s) :
       /\ g \in 1..Len(m.calls) /\ g \in Nat
       /\ \E i \in 1..Len(m.calls[g]) :
            m.calls[g][i].slot = s /\ Vars!SavedBy(m, g, s) = m.calls[g][i]

\* A call that made a slot local saved it, once.
LEMMA SavedOnce ==
  ASSUME NEW m \in Memory, OwnPart(m.slots, m.calls), NEW s
  PROVE  Recorded(m, s)
<1> DEFINE cs == m.calls
           of(g) == {cs[g][i] : i \in 1..Len(cs[g])}
<1>1. cs \in Seq(Seq(Save)) /\ DOMAIN cs = 1..Len(cs)
  BY Parts
<1> HIDE DEF cs
<1>2. ASSUME NEW g \in 1..Len(cs) PROVE Vars!ToSet(cs[g]) = of(g)
  <2>1. cs[g] \in Seq(Save)
    BY <1>1
  <2> DEFINE q == cs[g]
  <2> HIDE DEF q
  <2>2. DOMAIN q = 1..Len(q)
    BY <2>1 DEF q
  <2> QED BY <2>2 DEF Vars!ToSet, q
<1>3. Vars!LocalIn(m, s) = {g \in 1..Len(cs) : \E save \in of(g) : save.slot = s}
  <2>1. Vars!LocalIn(m, s) = {g \in DOMAIN cs : \E save \in Vars!ToSet(cs[g]) : save.slot = s}
    BY DEF Vars!LocalIn, cs
  <2> HIDE DEF of
  <2> QED BY <1>1, <1>2, <2>1
<1>4. ASSUME NEW g \in 1..Len(cs), NEW i \in 1..Len(cs[g]), cs[g][i].slot = s
      PROVE  g \in Vars!LocalIn(m, s) /\ Vars!SavedBy(m, g, s) = cs[g][i]
  <2>1. cs[g][i] \in of(g)
    OBVIOUS
  <2>2. \A save \in of(g) : save.slot = s => save = cs[g][i]
    BY <1>4 DEF OwnPart, Once, cs
  <2>3. Vars!SavedBy(m, g, s) = CHOOSE save \in of(g) : save.slot = s
    BY <1>2 DEF Vars!SavedBy, cs
  <2> HIDE DEF of
  <2> QED BY <1>3, <1>4, <2>1, <2>2, <2>3
<1>5. ASSUME NEW g \in Vars!LocalIn(m, s)
      PROVE  /\ g \in 1..Len(cs) /\ g \in Nat
             /\ \E i \in 1..Len(cs[g]) : cs[g][i].slot = s /\ Vars!SavedBy(m, g, s) = cs[g][i]
  <2>1. PICK i \in 1..Len(cs[g]) : cs[g][i].slot = s
    BY <1>3
  <2>2. g \in 1..Len(cs)
    BY <1>3
  <2> QED BY <1>4, <2>1, <2>2
<1> QED BY <1>4, <1>5 DEF cs, Recorded

\* The bindings of slot s.
Of(m, s) == {[key |-> Vars!Key(m, s), depth |-> d, cell |-> Vars!CellAt(m, s, d)] :
               d \in Vars!Depths(m, s)}

\* A lookup finds every variable: there is one of its key, and the index has it.
LEMMA BindingsAre ==
  ASSUME NEW m \in Memory, Scoping(m)
  PROVE  Vars!Bindings(m) = UNION {Of(m, s) : s \in {t \in 1..Len(m.slots) : m.slots[t].used}}
<1> DEFINE v == m.slots
           used == {t \in 1..Len(v) : v[t].used}
<1>1. v \in Seq(Slot) /\ DOMAIN v = 1..Len(v)
  BY Parts
<1>2. ASSUME NEW t \in used PROVE Vars!Find(m, Vars!Key(m, t)[1], Vars!Key(m, t)[2]) = t
  <2> DEFINE name == v[t].name
             type == v[t].type
             f == Vars!Find(m, name, type)
  <2>1. Vars!Key(m, t)[1] = name /\ Vars!Key(m, t)[2] = type
    BY DEF Vars!Key
  <2>2. Has(m, t, name, type) /\ <<name, type, t>> \in m.names.index
    BY DEF Has, Scoping, Sound, Rest, IndexPart, Indexes
  <2> HIDE DEF name, type
  <2>3. Has(m, f, name, type)
    BY <2>2, Found DEF Has
  <2>4. \A x \in 1..Len(v) : Has(m, x, name, type) => x = t
    BY <2>2 DEF Scoping, OwnPart, Has
  <2>5. f = t
    BY <2>3, <2>4 DEF Has
  <2> QED BY <2>1, <2>5
<1>3. {t \in DOMAIN v : v[t].used /\ Vars!Find(m, Vars!Key(m, t)[1], Vars!Key(m, t)[2]) = t} = used
  BY <1>1, <1>2
<1> HIDE DEF used
<1> QED BY <1>3, Zenon DEF Vars!Bindings, Of, used

\* The storage of a binding is held by its slot, or by what a LOCAL saved.
Stored(m, c) ==
  \/ \E s \in 1..Len(m.slots) : c = m.slots[s].cell
  \/ \E g \in 1..Len(m.calls) : \E i \in 1..Len(m.calls[g]) : c = m.calls[g][i].cell

\* The storage in use is that of the slots and that of what was saved.
LEMMA HeldIs ==
  ASSUME NEW m \in Memory
  PROVE  \A c : c \in Vars!Held(m) <=> Stored(m, c)
<1> DEFINE v == m.slots
           cs == m.calls
<1>1. v \in Seq(Slot) /\ DOMAIN v = 1..Len(v) /\ cs \in Seq(Seq(Save)) /\ DOMAIN cs = 1..Len(cs)
  BY Parts
<1> HIDE DEF v, cs
<1>2. \A g \in 1..Len(cs) : Vars!ToSet(cs[g]) = {cs[g][i] : i \in 1..Len(cs[g])}
  <2> SUFFICES ASSUME NEW g \in 1..Len(cs)
               PROVE  Vars!ToSet(cs[g]) = {cs[g][i] : i \in 1..Len(cs[g])}
    OBVIOUS
  <2>1. cs[g] \in Seq(Save)
    BY <1>1
  <2> DEFINE q == cs[g]
  <2> HIDE DEF q
  <2>2. DOMAIN q = 1..Len(q)
    BY <2>1 DEF q
  <2> QED BY <2>2 DEF Vars!ToSet, q
<1>3. Vars!Held(m) = {v[s].cell : s \in 1..Len(v)}
                     \cup UNION {{save.cell : save \in Vars!ToSet(cs[g])} : g \in 1..Len(cs)}
  BY <1>1, Zenon DEF Vars!Held, v, cs
<1> SUFFICES ASSUME NEW c PROVE c \in Vars!Held(m) <=> Stored(m, c)
  OBVIOUS
<1>4. Stored(m, c) <=> \/ \E s \in 1..Len(v) : c = v[s].cell
                       \/ \E g \in 1..Len(cs) : \E i \in 1..Len(cs[g]) : c = cs[g][i].cell
  BY DEF Stored, v, cs
<1>5. c \in UNION {{save.cell : save \in Vars!ToSet(cs[g])} : g \in 1..Len(cs)}
        <=> \E g \in 1..Len(cs) : \E save \in Vars!ToSet(cs[g]) : c = save.cell
  OBVIOUS
<1>6. \A g \in 1..Len(cs) : (\E save \in Vars!ToSet(cs[g]) : c = save.cell)
                              <=> \E i \in 1..Len(cs[g]) : c = cs[g][i].cell
  <2> SUFFICES ASSUME NEW g \in 1..Len(cs)
               PROVE  (\E save \in Vars!ToSet(cs[g]) : c = save.cell)
                        <=> \E i \in 1..Len(cs[g]) : c = cs[g][i].cell
    OBVIOUS
  <2>1. Vars!ToSet(cs[g]) = {cs[g][i] : i \in 1..Len(cs[g])}
    BY <1>2
  <2> QED BY <2>1
<1> QED BY <1>3, <1>4, <1>5, <1>6

\* Every binding of a slot has storage that a slot or a save has.
LEMMA BindingStored ==
  ASSUME NEW m \in Memory, OwnPart(m.slots, m.calls), NEW s \in 1..Len(m.slots), NEW d
  PROVE  Stored(m, Vars!CellAt(m, s, d))
<1> DEFINE inner == {g \in Vars!LocalIn(m, s) : g > d}
           g == Vars!Min(inner)
<1>0. Recorded(m, s)
  BY SavedOnce
<1>1. Vars!CellAt(m, s, d) = IF inner = {} THEN m.slots[s].cell ELSE Vars!SavedBy(m, g, s).cell
  BY DEF Vars!CellAt
<1>2. CASE inner = {}
  BY <1>1, <1>2 DEF Stored
<1>3. CASE inner # {}
  <2>1. inner \subseteq Nat
    BY <1>0 DEF Recorded
  <2> HIDE DEF inner
  <2>2. g \in inner
    BY <1>3, <2>1, LeastOne
  <2> USE DEF inner
  <2>3. g \in Vars!LocalIn(m, s)
    BY <2>2
  <2> HIDE DEF g, inner
  <2>4. PICK i \in 1..Len(m.calls[g]) : Vars!SavedBy(m, g, s) = m.calls[g][i]
    BY <1>0, <2>3 DEF Recorded
  <2>5. g \in 1..Len(m.calls)
    BY <1>0, <2>3 DEF Recorded
  <2> QED BY <1>1, <1>3, <2>4, <2>5 DEF Stored
<1> QED BY <1>2, <1>3

\* A slot that is free, and that no call has to restore, holds no storage.
LEMMA FreshFree ==
  ASSUME NEW m \in Memory, OwnPart(m.slots, m.calls), NEW s \in Nat,
         s \in 1..Len(m.slots) => ~m.slots[s].used,
         \A g \in 1..Len(m.calls) : \A i \in 1..Len(m.calls[g]) : m.calls[g][i].slot # s
  PROVE  Vars!FreshCell(m, s) = <<s, 1>> /\ ~Stored(m, <<s, 1>>)
<1>0. Owns(m.slots, m.calls, s)
  BY HeldBy
<1>1. ASSUME NEW n \in Nat, Stored(m, <<s, n>>) PROVE FALSE
  <2>1. CASE \E t \in 1..Len(m.slots) : <<s, n>> = m.slots[t].cell
    <3>1. PICK t \in 1..Len(m.slots) : <<s, n>> = m.slots[t].cell
      BY <2>1
    <3>2. m.slots[t].used /\ t = s
      BY <3>1, <1>0 DEF Owns
    <3> QED BY <3>2
  <2>2. CASE \E g \in 1..Len(m.calls) : \E i \in 1..Len(m.calls[g]) : <<s, n>> = m.calls[g][i].cell
    <3>1. PICK g \in 1..Len(m.calls) : \E i \in 1..Len(m.calls[g]) : <<s, n>> = m.calls[g][i].cell
      BY <2>2
    <3>2. PICK i \in 1..Len(m.calls[g]) : <<s, n>> = m.calls[g][i].cell
      BY <3>1
    <3>4. m.calls[g][i].slot = s
      BY <3>2, <1>0 DEF Owns
    <3> QED BY <3>4
  <2> QED BY <1>1, <2>1, <2>2 DEF Stored
<1>2. {n \in 1..MaxCalls + 1 : <<s, n>> \in Vars!Held(m)} = {}
  <2>1. \A n \in 1..MaxCalls + 1 : n \in Nat
    BY VariablesAssumption
  <2> QED BY <1>1, <2>1, HeldIs
<1>3. Vars!Least({}) = 1
  <2>1. Vars!Least({}) \in Nat \ {0} /\ Vars!Least({}) <= 0 + 1
    BY LeastAbsent, FS_EmptySet
  <2> QED BY <2>1
<1> QED BY <1>1, <1>2, <1>3 DEF Vars!FreshCell

\* A slot that a LOCAL takes over has fewer bindings than there may be calls.
LEMMA FreshHidden ==
  ASSUME NEW m \in Memory, OwnPart(m.slots, m.calls), NEW s \in 1..Len(m.slots), m.calls # <<>>,
         \A i \in 1..Len(m.calls[Len(m.calls)]) : m.calls[Len(m.calls)][i].slot # s
  PROVE  \E n \in 1..MaxCalls + 1 : Vars!FreshCell(m, s) = <<s, n>> /\ ~Stored(m, <<s, n>>)
<1>0. Owns(m.slots, m.calls, s)
  BY HeldBy
<1> DEFINE e == Len(m.calls)
           D == 0..e - 1
           f == [g \in D |-> IF g = 0 THEN m.slots[s].cell[2] ELSE Vars!SavedBy(m, g, s).cell[2]]
           I == {f[g] : g \in D}
           S == {n \in 1..MaxCalls + 1 : <<s, n>> \in Vars!Held(m)}
<1>1. e \in Nat \ {0} /\ e <= MaxCalls /\ MaxCalls \in Nat
  BY Parts, VariablesAssumption DEF OwnPart
<1>2. S \subseteq I
  <2> SUFFICES ASSUME NEW n \in 1..MaxCalls + 1, Stored(m, <<s, n>>) PROVE n \in I
    BY HeldIs
  <2>1. CASE \E t \in 1..Len(m.slots) : <<s, n>> = m.slots[t].cell
    <3>1. PICK t \in 1..Len(m.slots) : <<s, n>> = m.slots[t].cell
      BY <2>1
    <3>2. m.slots[t].cell = <<s, n>> => m.slots[t].used /\ t = s
      BY <1>0, ZenonT(30) DEF Owns
    <3>3. t = s
      BY <3>1, <3>2
    <3>4. m.slots[s].cell[2] = n /\ 0 \in D
      BY <1>1, <3>1, <3>3
    <3> HIDE DEF D
    <3>5. f[0] = n
      BY <3>4
    <3> QED BY <3>4, <3>5
  <2>2. CASE \E g \in 1..Len(m.calls) : \E i \in 1..Len(m.calls[g]) : <<s, n>> = m.calls[g][i].cell
    <3>1. PICK g \in 1..Len(m.calls) : \E i \in 1..Len(m.calls[g]) : <<s, n>> = m.calls[g][i].cell
      BY <2>2
    <3>2. PICK i \in 1..Len(m.calls[g]) : <<s, n>> = m.calls[g][i].cell
      BY <3>1
    <3>4. m.calls[g][i].slot = s
      BY <1>0, <3>2 DEF Owns
    <3>5. g # e
      BY <3>2, <3>4
    <3>6. Vars!SavedBy(m, g, s) = m.calls[g][i]
      <4>1. Recorded(m, s)
        BY SavedOnce
      <4> QED BY <3>4, <4>1 DEF Recorded
    <3>7. g \in D /\ g # 0
      BY <1>1, <3>5
    <3> HIDE DEF D
    <3>8. f[g] = n
      BY <3>2, <3>6, <3>7
    <3> QED BY <3>7, <3>8
  <2> QED BY <2>1, <2>2 DEF Stored
<1>3. IsFiniteSet(D) /\ Cardinality(D) = e
  <2> HIDE DEF e
  <2> DEFINE z == e - 1
  <2>1. z \in Nat /\ z + 1 = e
    BY <1>1
  <2> HIDE DEF z
  <2>2. /\ IsFiniteSet(0..z)
        /\ Cardinality(0..z) = IF 0 > z THEN 0 ELSE z - 0 + 1
    BY <2>1, FS_Interval
  <2>3. Cardinality(0..z) = e
    BY <2>1, <2>2
  <2> QED BY <2>2, <2>3 DEF z
<1>4. IsFiniteSet(I) /\ Cardinality(I) <= e
  <2> HIDE DEF D, e
  <2>1. f \in Surjection(D, I)
    BY DEF Surjection
  <2> HIDE DEF f, I
  <2>2. IsFiniteSet(I) /\ Cardinality(I) <= Cardinality(D)
    BY <1>3, <2>1, FS_Surjection
  <2> QED BY <1>3, <2>2
<1>5. IsFiniteSet(S) /\ Cardinality(S) <= Cardinality(I)
  <2> HIDE DEF I, S
  <2> QED BY <1>2, <1>4, FS_Subset
<1>6. Cardinality(S) \in Nat /\ Cardinality(I) \in Nat
  BY <1>4, <1>5, FS_CardinalityType
<1> DEFINE n == Vars!Least(S)
<1>7. n \in Nat \ {0} /\ n \notin S /\ n <= Cardinality(S) + 1
  BY <1>5, LeastAbsent
<1>8. Vars!FreshCell(m, s) = <<s, n>>
  BY DEF Vars!FreshCell
<1> DEFINE z == Cardinality(S)
           y == Cardinality(I)
<1>9. n \in 1..MaxCalls + 1
  <2> HIDE DEF e, D, f, n, z, y
  <2>1. n <= z + 1 /\ z <= y /\ y <= e /\ z \in Nat /\ y \in Nat
    BY <1>4, <1>5, <1>6, <1>7 DEF z, y
  <2> QED BY <1>1, <1>7, <2>1
<1>10. ~Stored(m, <<s, n>>)
  <2> HIDE DEF n, I
  <2>1. <<s, n>> \notin Vars!Held(m)
    BY <1>7, <1>9 
  <2> QED BY <2>1, HeldIs
<1> HIDE DEF n
<1> QED BY <1>8, <1>9, <1>10

\* The bindings of a slot are the same in two memories where what it holds and what
\* LOCALs saved of it are.
LEMMA SameOf ==
  ASSUME NEW m, NEW x, NEW s, Vars!Key(x, s) = Vars!Key(m, s),
         x.slots[s].cell = m.slots[s].cell, Vars!LocalIn(x, s) = Vars!LocalIn(m, s),
         Vars!LocalIn(m, s) \subseteq Nat,
         \A g \in Vars!LocalIn(m, s) : Vars!SavedBy(x, g, s) = Vars!SavedBy(m, g, s)
  PROVE  Of(x, s) = Of(m, s)
<1>1. Vars!Depths(x, s) = Vars!Depths(m, s)
  BY DEF Vars!Depths
<1>2. ASSUME NEW d PROVE Vars!CellAt(x, s, d) = Vars!CellAt(m, s, d)
  <2> DEFINE inner == {g \in Vars!LocalIn(m, s) : g > d}
             g == Vars!Min(inner)
  <2>1. /\ Vars!CellAt(m, s, d) = IF inner = {} THEN m.slots[s].cell ELSE Vars!SavedBy(m, g, s).cell
        /\ Vars!CellAt(x, s, d) = IF inner = {} THEN m.slots[s].cell ELSE Vars!SavedBy(x, g, s).cell
    BY DEF Vars!CellAt
  <2>2. inner # {} => g \in Vars!LocalIn(m, s)
    <3>1. inner \subseteq Nat /\ inner \subseteq Vars!LocalIn(m, s)
      OBVIOUS
    <3> HIDE DEF inner
    <3> QED BY <3>1, LeastOne
  <2> HIDE DEF inner, g
  <2> QED BY <2>1, <2>2
<1> QED BY <1>1, <1>2 DEF Of

\* A slot that no LOCAL made has one binding, outside of all calls.
LEMMA OnlyOne ==
  ASSUME NEW m, NEW s, Vars!LocalIn(m, s) = {}
  PROVE  Of(m, s) = {[key |-> Vars!Key(m, s), depth |-> 0, cell |-> m.slots[s].cell]}
<1>1. Vars!Depths(m, s) = {0}
  BY DEF Vars!Depths
<1>2. Vars!CellAt(m, s, 0) = m.slots[s].cell
  BY DEF Vars!CellAt
<1> QED BY <1>1, <1>2 DEF Of

\* ... and one that a LOCAL got for itself, that of the LOCAL.
LEMMA OnlyLocal ==
  ASSUME NEW m, NEW s, NEW e \in Nat, Vars!LocalIn(m, s) = {e}, Vars!SavedBy(m, e, s).existed = FALSE
  PROVE  Of(m, s) = {[key |-> Vars!Key(m, s), depth |-> e, cell |-> m.slots[s].cell]}
<1>1. Vars!Depths(m, s) = {e}
  BY DEF Vars!Depths
<1>2. Vars!CellAt(m, s, e) = m.slots[s].cell
  <2>1. {g \in Vars!LocalIn(m, s) : g > e} = {}
    BY SMT
  <2> QED BY <2>1 DEF Vars!CellAt
<1> QED BY <1>1, <1>2 DEF Of

\* A slot that the last call takes over keeps its bindings, below the new one.
LEMMA TakenOver ==
  ASSUME NEW m, NEW x, NEW s, NEW e \in Nat, Vars!Key(x, s) = Vars!Key(m, s),
         Vars!LocalIn(m, s) \subseteq 0..e - 1, Vars!LocalIn(x, s) = Vars!LocalIn(m, s) \cup {e},
         e # 0,
         \A g \in Vars!LocalIn(m, s) : Vars!SavedBy(x, g, s) = Vars!SavedBy(m, g, s),
         Vars!SavedBy(x, e, s).existed = TRUE, Vars!SavedBy(x, e, s).cell = m.slots[s].cell
  PROVE  /\ Of(x, s) = Of(m, s) \cup
                         {[key |-> Vars!Key(m, s), depth |-> e, cell |-> x.slots[s].cell]}
         /\ \A b \in Of(m, s) : b.depth < e
<1> DEFINE L == Vars!LocalIn(m, s)
<1>1. Vars!Depths(x, s) = Vars!Depths(m, s) \cup {e}
  <2>1. (\A g \in L \cup {e} : Vars!SavedBy(x, g, s).existed)
          <=> (\A g \in L : Vars!SavedBy(m, g, s).existed)
    OBVIOUS
  <2> QED BY <2>1 DEF Vars!Depths
<1>2. \A d \in Vars!Depths(m, s) : d \in Nat /\ d < e
  BY SMT DEF Vars!Depths
<1>3. Vars!CellAt(x, s, e) = x.slots[s].cell
  <2>1. {g \in L \cup {e} : g > e} = {}
    BY SMT
  <2> QED BY <2>1 DEF Vars!CellAt
<1>4. ASSUME NEW d \in Vars!Depths(m, s) PROVE Vars!CellAt(x, s, d) = Vars!CellAt(m, s, d)
  <2> DEFINE inner == {g \in L : g > d}
             more == {g \in L \cup {e} : g > d}
  <2>0. more = inner \cup {e}
    BY <1>2
  <2>1. /\ Vars!CellAt(m, s, d) = IF inner = {} THEN m.slots[s].cell
                                  ELSE Vars!SavedBy(m, Vars!Min(inner), s).cell
        /\ Vars!CellAt(x, s, d) = IF more = {} THEN x.slots[s].cell
                                  ELSE Vars!SavedBy(x, Vars!Min(more), s).cell
    BY DEF Vars!CellAt
  <2>2. inner \subseteq 0..e - 1 /\ inner \subseteq L
    OBVIOUS
  <2> HIDE DEF inner, more
  <2>3. more \subseteq Nat /\ more # {} /\ inner \subseteq Nat
    BY <2>0, <2>2
  <2>4. Vars!Min(more) \in more /\ \A y \in more : Vars!Min(more) <= y
    BY <2>3, LeastOne
  <2>5. CASE inner = {}
    <3>1. Vars!Min(more) = e
      BY <2>0, <2>4, <2>5
    <3> QED BY <2>1, <2>3, <2>5, <3>1
  <2>6. CASE inner # {}
    <3>1. Vars!Min(inner) \in inner /\ \A y \in inner : Vars!Min(inner) <= y
      BY <2>3, <2>6, LeastOne
    <3>2. Vars!Min(more) = Vars!Min(inner)
      <4> DEFINE p == Vars!Min(more)
                 q == Vars!Min(inner)
      <4> HIDE DEF p, q
      <4>1. /\ p \in more /\ \A y \in more : p <= y
            /\ q \in inner /\ \A y \in inner : q <= y
        BY <2>4, <3>1 DEF p, q
      <4>2. p \in Nat /\ q \in Nat /\ p <= q /\ q < e
        BY <2>0, <2>2, <2>3, <4>1
      <4>3. p \in inner
        BY <2>0, <4>1, <4>2
      <4>4. q <= p
        BY <4>1, <4>3
      <4>5. p = q
        BY <4>2, <4>4
      <4> QED BY <4>5 DEF p, q
    <3>3. Vars!Min(inner) \in L
      BY <2>2, <3>1
    <3> QED BY <2>1, <2>3, <2>6, <3>2, <3>3
  <2> QED BY <2>5, <2>6
<1>5. Of(m, s) = {[key |-> Vars!Key(m, s), depth |-> d, cell |-> Vars!CellAt(m, s, d)] :
                    d \in Vars!Depths(m, s)}
  BY DEF Of
<1>6. Of(x, s) = {[key |-> Vars!Key(m, s), depth |-> d, cell |-> Vars!CellAt(x, s, d)] :
                    d \in Vars!Depths(m, s) \cup {e}}
  BY <1>1 DEF Of
<1> DEFINE K == Vars!Key(m, s)
           N == Vars!Depths(m, s)
           c(d) == Vars!CellAt(m, s, d)
           w == x.slots[s].cell
<1>7. \A d \in N : Vars!CellAt(x, s, d) = c(d)
  BY <1>4
<1> HIDE DEF K, N, c, w
<1>8. Of(x, s) = {[key |-> K, depth |-> d, cell |-> c(d)] : d \in N}
                   \cup {[key |-> K, depth |-> e, cell |-> w]}
  <2>1. Of(x, s) = {[key |-> K, depth |-> d, cell |-> Vars!CellAt(x, s, d)] : d \in N}
                   \cup {[key |-> K, depth |-> e, cell |-> Vars!CellAt(x, s, e)]}
    BY <1>6 DEF K, N
  <2>2. {[key |-> K, depth |-> d, cell |-> Vars!CellAt(x, s, d)] : d \in N}
          = {[key |-> K, depth |-> d, cell |-> c(d)] : d \in N}
    BY <1>7
  <2>3. Vars!CellAt(x, s, e) = w
    BY <1>3 DEF w
  <2> QED BY <2>1, <2>2, <2>3
<1>9. \A b \in Of(m, s) : b.depth < e
  BY <1>2, <1>5 DEF N
<1> QED BY <1>5, <1>8, <1>9 DEF K, N, c, w

\* What is saved is of a slot that is used.
LEMMA NoSaves ==
  ASSUME NEW m \in Memory, Sound(m), NEW s, s \in 1..Len(m.slots) => ~m.slots[s].used
  PROVE  /\ \A g \in 1..Len(m.calls) : \A i \in 1..Len(m.calls[g]) : m.calls[g][i].slot # s
         /\ Vars!LocalIn(m, s) = {} \/ ~OwnPart(m.slots, m.calls)
<1>1. ASSUME NEW g \in 1..Len(m.calls), NEW i \in 1..Len(m.calls[g]) PROVE m.calls[g][i].slot # s
  <2>1. g \in Nat /\ i \in Nat /\ Waiting(m.calls, i, g, i)
    BY DEF Waiting
  <2>2. PendingPart(m.slots, m.calls, i)
    BY <2>1 DEF Sound, PendingAll
  <2>3. Pending(m.slots, m.calls[g][i])
    BY <2>1, <2>2 DEF PendingPart
  <2> QED BY <2>3 DEF Pending
<1>2. ASSUME OwnPart(m.slots, m.calls) PROVE Vars!LocalIn(m, s) = {}
  <2>1. Recorded(m, s)
    BY <1>2, SavedOnce
  <2> QED BY <1>1, <2>1 DEF Recorded
<1> QED BY <1>1, <1>2

\* A lookup that finds nothing: there is no such variable.
LEMMA NothingFound ==
  ASSUME NEW m \in Memory, Sound(m), NEW name, NEW type, Vars!Find(m, name, type) = 0
  PROVE  \A y : ~Has(m, y, name, type)
<1> SUFFICES ASSUME NEW y, Has(m, y, name, type) PROVE FALSE
  OBVIOUS
<1>1. y \in 1..Len(m.slots) /\ m.slots[y].used
      /\ m.slots[y].name = name /\ m.slots[y].type = type
  BY DEF Has
<1>2. m.names.index = {<<m.slots[s].name, m.slots[s].type, s>> :
                         s \in {u \in 1..Len(m.slots) : m.slots[u].used}}
  BY DEF Sound, Rest, IndexPart, Indexes
<1>3. <<name, type, y>> \in m.names.index
  BY <1>1, <1>2
<1> QED BY <1>1, <1>3, Found

\* Calls whose last one saves a variable more.
LEMMA OneMore ==
  ASSUME NEW cs \in Seq(Seq(Save)), cs # <<>>, NEW save \in Save
  PROVE  LET e == Len(cs)
             ds == [cs EXCEPT ![e] = Append(cs[e], save)]
         IN  /\ e \in Nat \ {0} /\ Len(ds) = e
             /\ \A g \in 1..e : g # e => ds[g] = cs[g]
             /\ Len(cs[e]) \in Nat /\ Len(ds[e]) = Len(cs[e]) + 1
             /\ \A i \in 1..Len(cs[e]) : ds[e][i] = cs[e][i]
             /\ ds[e][Len(cs[e]) + 1] = save
<1> DEFINE e == Len(cs)
           T == Seq(Save)
           ds == [cs EXCEPT ![e] = Append(cs[e], save)]
<1>1. cs \in Seq(T)
  OBVIOUS
<1>2. e \in Nat \ {0}
  BY <1>1
<1>3. cs[e] \in T
  BY <1>1, <1>2
<1> DEFINE q == cs[e]
           p == Append(q, save)
<1> HIDE DEF q
<1>4. q \in Seq(Save)
  BY <1>3 DEF q
<1>5. p \in Seq(Save) /\ Len(q) \in Nat /\ Len(p) = Len(q) + 1 /\ p[Len(q) + 1] = save
      /\ \A i \in 1..Len(q) : p[i] = q[i]
  BY <1>4
<1> HIDE DEF p, T, e
<1> DEFINE es == [cs EXCEPT ![e] = p]
<1>6. es \in Seq(T) /\ Len(es) = e /\ es[e] = p /\ \A g \in 1..e : g # e => es[g] = cs[g]
  BY <1>1, <1>2, <1>5 DEF e, T
<1>7. es = ds
  BY DEF p, q
<1> QED BY <1>2, <1>5, <1>6, <1>7 DEF q, e

\* What a call saved of a slot is found again.
LEMMA SavedFound ==
  ASSUME NEW m \in Memory, OwnPart(m.slots, m.calls),
         NEW g \in 1..Len(m.calls), NEW i \in 1..Len(m.calls[g])
  PROVE  LET y == m.calls[g][i].slot
         IN  g \in Vars!LocalIn(m, y) /\ Vars!SavedBy(m, g, y) = m.calls[g][i]
<1> DEFINE y == m.calls[g][i].slot
<1>1. Recorded(m, y)
  BY SavedOnce
<1> QED BY <1>1 DEF Recorded

\* What LOCALs made of the slots, when one is one more.
LEMMA SavedMore ==
  ASSUME NEW m \in Memory, NEW x \in Memory, OwnPart(m.slots, m.calls), OwnPart(x.slots, x.calls),
         m.calls # <<>>, NEW save \in Save,
         x.calls = [m.calls EXCEPT ![Len(m.calls)] = Append(m.calls[Len(m.calls)], save)]
  PROVE  LET e == Len(m.calls)
         IN  /\ \A y : y # save.slot => Vars!LocalIn(x, y) = Vars!LocalIn(m, y)
             /\ \A y : \A g \in Vars!LocalIn(m, y) : Vars!SavedBy(x, g, y) = Vars!SavedBy(m, g, y)
             /\ Vars!LocalIn(x, save.slot) = Vars!LocalIn(m, save.slot) \cup {e}
             /\ Vars!SavedBy(x, e, save.slot) = save
<1> DEFINE cs == m.calls
           ds == x.calls
           e == Len(cs)
<1>1. cs \in Seq(Seq(Save))
  BY Parts
<1>2. /\ e \in Nat \ {0} /\ Len(ds) = e
      /\ \A g \in 1..e : g # e => ds[g] = cs[g]
      /\ Len(cs[e]) \in Nat /\ Len(ds[e]) = Len(cs[e]) + 1
      /\ \A i \in 1..Len(cs[e]) : ds[e][i] = cs[e][i]
      /\ ds[e][Len(cs[e]) + 1] = save
  BY <1>1, OneMore
<1>3. \A y : Recorded(m, y) /\ Recorded(x, y)
  BY SavedOnce
<1>4. ASSUME NEW y, NEW g \in 1..e, NEW i \in 1..Len(cs[g])
      PROVE  i \in 1..Len(ds[g]) /\ ds[g][i] = cs[g][i]
  BY <1>2
<1>5. ASSUME NEW g \in 1..e, NEW i \in 1..Len(ds[g])
      PROVE  (i \in 1..Len(cs[g]) /\ ds[g][i] = cs[g][i]) \/ (g = e /\ ds[g][i] = save)
  <2>1. CASE g # e
    BY <1>2, <2>1
  <2>2. CASE g = e /\ i <= Len(cs[e])
    BY <1>2, <2>2
  <2>3. CASE g = e /\ i = Len(cs[e]) + 1
    BY <1>2, <2>3
  <2> QED BY <1>2, <2>1, <2>2, <2>3
<1> HIDE DEF cs, ds, e
<1>6. \A g \in 1..e : \A i \in 1..Len(cs[g]) :
        /\ g \in Vars!LocalIn(m, cs[g][i].slot)
        /\ Vars!SavedBy(m, g, cs[g][i].slot) = cs[g][i]
  BY SavedFound DEF cs, e
<1>7. \A g \in 1..e : \A i \in 1..Len(ds[g]) :
        /\ g \in Vars!LocalIn(x, ds[g][i].slot)
        /\ Vars!SavedBy(x, g, ds[g][i].slot) = ds[g][i]
  <2>1. \A g \in 1..Len(ds) : \A i \in 1..Len(ds[g]) :
          /\ g \in Vars!LocalIn(x, ds[g][i].slot)
          /\ Vars!SavedBy(x, g, ds[g][i].slot) = ds[g][i]
    BY SavedFound DEF ds
  <2>2. Len(ds) = e
    BY <1>2
  <2> QED BY <2>1, <2>2
<1>8. \A y : \A g \in Vars!LocalIn(m, y) : g \in 1..e /\ \E i \in 1..Len(cs[g]) : cs[g][i].slot = y
  BY <1>3 DEF Recorded, cs, e
<1>9. \A y : \A g \in Vars!LocalIn(x, y) : g \in 1..e /\ \E i \in 1..Len(ds[g]) : ds[g][i].slot = y
  BY <1>2, <1>3 DEF Recorded, ds
<1>10. ASSUME NEW y, NEW g \in Vars!LocalIn(m, y)
       PROVE  g \in Vars!LocalIn(x, y) /\ Vars!SavedBy(x, g, y) = Vars!SavedBy(m, g, y)
  <2>1. PICK i \in 1..Len(cs[g]) : cs[g][i].slot = y
    BY <1>8
  <2>2. g \in 1..e
    BY <1>8
  <2>3. Vars!SavedBy(m, g, y) = cs[g][i]
    BY <1>6, <2>1, <2>2
  <2>4. i \in 1..Len(ds[g]) /\ ds[g][i] = cs[g][i]
    BY <1>4, <2>2
  <2>5. ds[g][i].slot = y
    BY <2>1, <2>4
  <2>6. g \in Vars!LocalIn(x, y) /\ Vars!SavedBy(x, g, y) = ds[g][i]
    BY <1>7, <2>2, <2>4, <2>5
  <2> QED BY <2>3, <2>4, <2>6
<1>11. ASSUME NEW y, NEW g \in Vars!LocalIn(x, y)
       PROVE  g \in Vars!LocalIn(m, y) \/ (g = e /\ y = save.slot)
  <2>1. PICK i \in 1..Len(ds[g]) : ds[g][i].slot = y
    BY <1>9
  <2>2. g \in 1..e
    BY <1>9
  <2> QED BY <1>5, <1>6, <2>1, <2>2
<1>12. e \in Vars!LocalIn(x, save.slot) /\ Vars!SavedBy(x, e, save.slot) = save
  <2> DEFINE i == Len(cs[e]) + 1
  <2>1. i \in 1..Len(ds[e]) /\ ds[e][i] = save /\ e \in 1..e
    BY <1>2
  <2> HIDE DEF i
  <2> QED BY <1>7, <2>1
<1>13. \A y : y # save.slot => Vars!LocalIn(x, y) = Vars!LocalIn(m, y)
  <2> SUFFICES ASSUME NEW y, y # save.slot PROVE Vars!LocalIn(x, y) = Vars!LocalIn(m, y)
    OBVIOUS
  <2>1. \A g \in Vars!LocalIn(m, y) : g \in Vars!LocalIn(x, y)
    BY <1>10
  <2>2. \A g \in Vars!LocalIn(x, y) : g \in Vars!LocalIn(m, y)
    BY <1>11
  <2> QED BY <2>1, <2>2
<1>14. Vars!LocalIn(x, save.slot) = Vars!LocalIn(m, save.slot) \cup {e}
  BY <1>10, <1>11, <1>12
<1>15. \A y : \A g \in Vars!LocalIn(m, y) : Vars!SavedBy(x, g, y) = Vars!SavedBy(m, g, y)
  BY <1>10
<1> QED BY <1>12, <1>13, <1>14, <1>15 DEF e, cs

\* Slot s of x has a variable of its own; the other slots are those of m, or empty.
NewIn(m, x, s, name, type) ==
  /\ Has(x, s, name, type) /\ x.slots[s].cell = Vars!FreshCell(m, s)
  /\ s <= MaxSlots /\ (s \in 1..Len(m.slots) => ~m.slots[s].used)
  /\ \A y \in 1..Len(m.slots) : y \in 1..Len(x.slots) /\ (y # s => x.slots[y] = m.slots[y])
  /\ \A y \in 1..Len(x.slots) : y # s /\ y \notin 1..Len(m.slots) => x.slots[y] = Vars!Empty

\* A memory that gained a variable has it in the slot that vars_free_slot gave.
LEMMA GainsNew ==
  ASSUME NEW m \in Memory, NEW x \in Memory, Sound(m), Sound(x), Vars!HasRoom(m),
         NEW name, NEW type, Gains(m, x, name, type)
  PROVE  NewIn(m, x, Vars!FreeSlot(m).slot, name, type)
<1> DEFINE f == Vars!FreeSlot(m)
           s == f.slot
           u == f.left.slots
           v == m.slots
           w == x.slots
<1>1. /\ Rest(f.left, s) /\ s # 0
      /\ \A y \in 1..Len(v) : y \in 1..Len(u) /\ u[y] = v[y]
      /\ \A y \in 1..Len(u) : y > Len(v) => u[y] = Vars!Empty
  BY FreeSlotSound DEF Sound
<1>2. ~u[s].used
  BY <1>1 DEF Rest, SlotsPart
<1>3. /\ Has(x, s, name, type) /\ w[s].cell = Vars!FreshCell(m, s)
      /\ Len(w) = Len(u) /\ \A y \in 1..Len(w) : y # s => w[y] = u[y]
  BY DEF Gains
<1>4. Len(w) <= MaxSlots /\ Len(w) \in Nat /\ MaxSlots \in Nat /\ Len(v) \in Nat
  BY Parts, VariablesAssumption DEF Sound, Rest, SlotsPart
<1>5. s <= MaxSlots
  BY <1>3, <1>4 DEF Has
<1> HIDE DEF s, u, v, w
<1>6. \A y \in 1..Len(w) : y # s /\ y \notin 1..Len(v) => w[y] = Vars!Empty
  BY <1>1, <1>3, <1>4
<1>7. \A y \in 1..Len(v) : y \in 1..Len(w) /\ (y # s => w[y] = v[y])
  BY <1>1, <1>3
<1>8. s \in 1..Len(v) => ~v[s].used
  BY <1>1, <1>2
<1> QED BY <1>3, <1>5, <1>6, <1>7, <1>8 DEF NewIn, s, v, w

\* The new slot's storage is its own, and nothing else's.
LEMMA NewStorage ==
  ASSUME NEW m \in Memory, Scoping(m), NEW x \in Memory, NEW s, NEW name, NEW type,
         NewIn(m, x, s, name, type)
  PROVE  /\ At(x.slots[s].cell, s) /\ x.slots[s].cell \in Vars!Cells
         /\ ~Stored(m, x.slots[s].cell)
<1>1. s \in 1..Len(x.slots) /\ Len(x.slots) \in Nat
  BY Parts DEF NewIn, Has
<1>2. s \in Nat /\ s \in 1..MaxSlots
  BY <1>1, VariablesAssumption DEF NewIn
<1>3. s \in 1..Len(m.slots) => ~m.slots[s].used
  BY DEF NewIn
<1>4. \A g \in 1..Len(m.calls) : \A i \in 1..Len(m.calls[g]) : m.calls[g][i].slot # s
  BY <1>3, NoSaves DEF Scoping
<1>5. Vars!FreshCell(m, s) = <<s, 1>> /\ ~Stored(m, <<s, 1>>)
  BY <1>2, <1>3, <1>4, FreshFree DEF Scoping
<1>6. x.slots[s].cell = <<s, 1>>
  BY <1>5 DEF NewIn
<1>7. <<s, 1>> \in Vars!Cells
  BY <1>2, VariablesAssumption DEF Vars!Cells
<1> QED BY <1>5, <1>6, <1>7 DEF At

\* The slots of x have keys and storage of their own.
LEMMA NewSlots ==
  ASSUME NEW m \in Memory, Scoping(m), NEW x \in Memory, NEW s, NEW name, NEW type,
         NewIn(m, x, s, name, type), <<name, type>> \in Vars!Keys, Vars!Find(m, name, type) = 0
  PROVE  LET v == x.slots
         IN  /\ \A y \in 1..Len(v) : v[y].used => <<v[y].name, v[y].type>> \in Vars!Keys
             /\ \A y \in 1..Len(v) : IF v[y].used THEN At(v[y].cell, y) ELSE v[y].cell = <<>>
             /\ \A y, t \in 1..Len(v) :
                  v[y].used /\ v[t].used /\ v[y].name = v[t].name /\ v[y].type = v[t].type => y = t
<1> DEFINE v == x.slots
           u == m.slots
<1>1. /\ s \in 1..Len(v) /\ v[s].used /\ v[s].name = name /\ v[s].type = type
      /\ \A y \in 1..Len(u) : y \in 1..Len(v) /\ (y # s => v[y] = u[y])
      /\ \A y \in 1..Len(v) : y # s /\ y \notin 1..Len(u) => v[y] = Vars!Empty
  BY DEF NewIn, Has
<1>2. Vars!Empty.used = FALSE /\ Vars!Empty.cell = <<>>
  BY DEF Vars!Empty
<1>3. /\ \A y \in 1..Len(u) : u[y].used => <<u[y].name, u[y].type>> \in Vars!Keys
      /\ \A y \in 1..Len(u) : IF u[y].used THEN At(u[y].cell, y) ELSE u[y].cell = <<>>
      /\ \A y, t \in 1..Len(u) :
           u[y].used /\ u[t].used /\ u[y].name = u[t].name /\ u[y].type = u[t].type => y = t
  BY DEF Scoping, OwnPart
<1>4. At(v[s].cell, s)
  BY NewStorage
<1>5. \A y \in 1..Len(u) : ~(u[y].used /\ u[y].name = name /\ u[y].type = type)
  BY NothingFound DEF Scoping, Has
<1> HIDE DEF u, v
<1>6. \A y \in 1..Len(v) : y # s /\ v[y].used => y \in 1..Len(u) /\ v[y] = u[y]
  BY <1>1, <1>2
<1>7. \A y \in 1..Len(v) : v[y].used => <<v[y].name, v[y].type>> \in Vars!Keys
  <2> SUFFICES ASSUME NEW y \in 1..Len(v), v[y].used PROVE <<v[y].name, v[y].type>> \in Vars!Keys
    OBVIOUS
  <2>1. CASE y = s
    BY <1>1, <2>1
  <2>2. CASE y # s
    BY <1>3, <1>6, <2>2
  <2> QED BY <2>1, <2>2
<1>8. \A y \in 1..Len(v) : IF v[y].used THEN At(v[y].cell, y) ELSE v[y].cell = <<>>
  <2> SUFFICES ASSUME NEW y \in 1..Len(v) PROVE IF v[y].used THEN At(v[y].cell, y) ELSE v[y].cell = <<>>
    OBVIOUS
  <2>1. CASE y = s
    BY <1>1, <1>4, <2>1
  <2>2. CASE y # s /\ y \in 1..Len(u)
    BY <1>1, <1>3, <2>2
  <2>3. CASE y # s /\ y \notin 1..Len(u)
    BY <1>1, <1>2, <2>3
  <2> QED BY <2>1, <2>2, <2>3
<1>9. \A y, t \in 1..Len(v) :
        v[y].used /\ v[t].used /\ v[y].name = v[t].name /\ v[y].type = v[t].type => y = t
  <2> SUFFICES ASSUME NEW y \in 1..Len(v), NEW t \in 1..Len(v),
                      v[y].used /\ v[t].used /\ v[y].name = v[t].name /\ v[y].type = v[t].type
               PROVE  y = t
    OBVIOUS
  <2>1. CASE y = s /\ t # s
    BY <1>1, <1>5, <1>6, <2>1
  <2>2. CASE y # s /\ t = s
    BY <1>1, <1>5, <1>6, <2>2
  <2>3. CASE y # s /\ t # s
    BY <1>3, <1>6, <2>3
  <2> QED BY <2>1, <2>2, <2>3
<1> QED BY <1>7, <1>8, <1>9 DEF v

\* A LOCAL that is saved: its call has nothing else of the slot.
LEMMA MoreSaved ==
  ASSUME NEW cs \in Seq(Seq(Save)), cs # <<>>, NEW save \in Save, NEW v, NEW u, OwnPart(v, cs),
         \A i \in 1..Len(cs[Len(cs)]) : cs[Len(cs)][i].slot # save.slot,
         IF save.existed THEN At(save.cell, save.slot) ELSE save.cell = <<>>
  PROVE  LET e == Len(cs)
             ds == [cs EXCEPT ![e] = Append(cs[e], save)]
         IN  /\ Len(ds) <= MaxCalls
             /\ \A g \in 1..Len(ds) : Once(ds[g])
             /\ \A g \in 1..Len(ds) : \A i \in 1..Len(ds[g]) :
                  IF ds[g][i].existed THEN At(ds[g][i].cell, ds[g][i].slot)
                  ELSE ds[g][i].cell = <<>>
<1> DEFINE e == Len(cs)
           ds == [cs EXCEPT ![e] = Append(cs[e], save)]
           ok(r) == IF r.existed THEN At(r.cell, r.slot) ELSE r.cell = <<>>
<1>1. /\ e \in Nat \ {0} /\ Len(ds) = e
      /\ \A g \in 1..e : g # e => ds[g] = cs[g]
      /\ Len(cs[e]) \in Nat /\ Len(ds[e]) = Len(cs[e]) + 1
      /\ \A i \in 1..Len(cs[e]) : ds[e][i] = cs[e][i]
      /\ ds[e][Len(cs[e]) + 1] = save
  BY OneMore
<1>2. /\ e <= MaxCalls /\ \A g \in 1..e : Once(cs[g])
      /\ \A g \in 1..e : \A i \in 1..Len(cs[g]) : ok(cs[g][i])
  BY DEF OwnPart
<1>3. ok(save) /\ \A i \in 1..Len(cs[e]) : cs[e][i].slot # save.slot
  OBVIOUS
<1> HIDE DEF e, ds, ok
<1>4. \A g \in 1..e : \A i \in 1..Len(ds[g]) : ok(ds[g][i])
  <2> SUFFICES ASSUME NEW g \in 1..e, NEW i \in 1..Len(ds[g]) PROVE ok(ds[g][i])
    OBVIOUS
  <2>1. CASE g # e
    BY <1>1, <1>2, <2>1
  <2>2. CASE g = e /\ i = Len(cs[e]) + 1
    BY <1>1, <1>3, <2>2
  <2>3. CASE g = e /\ i # Len(cs[e]) + 1
    <3>1. i \in 1..Len(cs[e]) /\ ds[g][i] = cs[e][i] /\ e \in 1..e
      BY <1>1, <2>3
    <3> QED BY <1>2, <3>1
  <2> QED BY <2>1, <2>2, <2>3
<1>5. \A g \in 1..e : Once(ds[g])
  <2> SUFFICES ASSUME NEW g \in 1..e PROVE Once(ds[g])
    OBVIOUS
  <2>1. CASE g # e
    BY <1>1, <1>2, <2>1
  <2>2. CASE g = e
    <3> DEFINE p == ds[e]
               q == cs[e]
               n == Len(q)
    <3>1. \A i, j \in 1..Len(q) : q[i].slot = q[j].slot => i = j
      BY <1>1, <1>2 DEF Once
    <3>2. n \in Nat /\ Len(p) = n + 1 /\ p[n + 1] = save
          /\ \A i \in 1..n : p[i] = q[i] /\ q[i].slot # save.slot
      BY <1>1, <1>3
    <3> HIDE DEF p, q, n
    <3> SUFFICES ASSUME NEW i \in 1..Len(p), NEW j \in 1..Len(p), p[i].slot = p[j].slot PROVE i = j
      BY <2>2 DEF p, Once
    <3>3. CASE i = n + 1 /\ j \in 1..n
      BY <3>2, <3>3
    <3>4. CASE j = n + 1 /\ i \in 1..n
      BY <3>2, <3>4
    <3>5. CASE i \in 1..n /\ j \in 1..n
      BY <3>1, <3>2, <3>5 DEF n
    <3>6. (i = n + 1 \/ i \in 1..n) /\ (j = n + 1 \/ j \in 1..n)
      BY <3>2
    <3> QED BY <3>3, <3>4, <3>5, <3>6
  <2> QED BY <2>1, <2>2
<1> QED BY <1>1, <1>2, <1>4, <1>5 DEF e, ds, ok

\* Storage that is not held is no binding's.
LEMMA Unshared ==
  ASSUME NEW m \in Memory, Scoping(m), NEW c, ~Stored(m, c)
  PROVE  \A b \in Vars!Bindings(m) : b.cell # c
<1> SUFFICES ASSUME NEW b \in Vars!Bindings(m) PROVE b.cell # c
  OBVIOUS
<1>1. PICK s \in {t \in 1..Len(m.slots) : m.slots[t].used} : b \in Of(m, s)
  BY BindingsAre
<1>2. PICK d : b = [key |-> Vars!Key(m, s), depth |-> d, cell |-> Vars!CellAt(m, s, d)]
  BY <1>1 DEF Of
<1>3. Stored(m, Vars!CellAt(m, s, d))
  BY BindingStored DEF Scoping
<1> QED BY <1>2, <1>3

\* The memory x has one binding more, of storage of its own.
Adds(m, x, key, d) ==
  \E c \in Vars!Cells :
    /\ \A b \in Vars!Bindings(m) : b.cell # c
    /\ Vars!Bindings(x) = Vars!Bindings(m) \cup {[key |-> key, depth |-> d, cell |-> c]}

\* Slot s has the binding b as well, the other slots have what they had.
OneSlotMore(m, x, s, b) ==
  /\ {t \in 1..Len(x.slots) : x.slots[t].used}
       = {t \in 1..Len(m.slots) : m.slots[t].used} \cup {s}
  /\ \A y \in 1..Len(m.slots) : m.slots[y].used /\ y # s => Of(x, y) = Of(m, y)
  /\ Of(x, s) = (IF s \in 1..Len(m.slots) /\ m.slots[s].used THEN Of(m, s) ELSE {}) \cup {b}

\* One slot has a binding more, the others have what they had.
LEMMA OneSlot ==
  ASSUME NEW m \in Memory, NEW x \in Memory, Scoping(m), Scoping(x), NEW s, NEW b,
         OneSlotMore(m, x, s, b)
  PROVE  Vars!Bindings(x) = Vars!Bindings(m) \cup {b}
<1> DEFINE U == {t \in 1..Len(m.slots) : m.slots[t].used}
           W == {t \in 1..Len(x.slots) : x.slots[t].used}
<1>1. Vars!Bindings(m) = UNION {Of(m, y) : y \in U} /\ Vars!Bindings(x) = UNION {Of(x, y) : y \in W}
  BY BindingsAre
<1>2. W = U \cup {s} /\ (\A y \in U : y # s => Of(x, y) = Of(m, y))
      /\ (s \in U => Of(x, s) = Of(m, s) \cup {b}) /\ (s \notin U => Of(x, s) = {b})
  BY DEF OneSlotMore
<1> HIDE DEF U, W
<1>3. ASSUME NEW a PROVE a \in Vars!Bindings(x) <=> a \in Vars!Bindings(m) \/ a = b
  <2>1. a \in Vars!Bindings(x) <=> \E y \in W : a \in Of(x, y)
    BY <1>1
  <2>2. a \in Vars!Bindings(m) <=> \E y \in U : a \in Of(m, y)
    BY <1>1
  <2>3. (\E y \in W : a \in Of(x, y)) <=> (\E y \in U : a \in Of(m, y)) \/ a = b
    <3>1. a \in Of(x, s) <=> (s \in U /\ a \in Of(m, s)) \/ a = b
      BY <1>2
    <3>2. \A y \in U : y # s => (a \in Of(x, y) <=> a \in Of(m, y))
      BY <1>2
    <3> QED BY <1>2, <3>1, <3>2, Zenon
  <2> QED BY <2>1, <2>2, <2>3
<1> QED BY <1>3

\* A variable with a slot of its own, in the last call or outside of all calls.
LEMMA NewBinding ==
  ASSUME NEW m \in Memory, Scoping(m), NEW x \in Memory, Sound(x), NEW s, NEW name, NEW type,
         NewIn(m, x, s, name, type), <<name, type>> \in Vars!Keys, Vars!Find(m, name, type) = 0,
         NEW d,
         \/ x.calls = m.calls /\ d = 0
         \/ /\ m.calls # <<>> /\ d = Len(m.calls)
            /\ x.calls = [m.calls EXCEPT ![d] = Append(m.calls[d], Alone(s))]
  PROVE  Scoping(x) /\ Adds(m, x, <<name, type>>, d)
<1> DEFINE key == <<name, type>>
           c == x.slots[s].cell
<1>1. s \in 1..Len(x.slots) /\ s \in Nat /\ x.slots[s].used /\ Vars!Key(x, s) = key
      /\ (s \in 1..Len(m.slots) => ~m.slots[s].used)
      /\ Len(m.slots) \in Nat /\ Len(x.slots) \in Nat
  BY Parts DEF NewIn, Has, Vars!Key
<1>2. /\ \A g \in 1..Len(m.calls) : \A i \in 1..Len(m.calls[g]) : m.calls[g][i].slot # s
      /\ Vars!LocalIn(m, s) = {}
  BY <1>1, NoSaves DEF Scoping
<1>3. Alone(s) \in Save /\ Alone(s).slot = s /\ Alone(s).existed = FALSE /\ Alone(s).cell = <<>>
  BY <1>1, VariablesAssumption DEF Alone, Save, Storage
<1>4. m.calls \in Seq(Seq(Save)) /\ (m.calls # <<>> => Len(m.calls) \in 1..Len(m.calls))
  BY Parts
<1>5. OwnPart(x.slots, x.calls)
  <2>1. /\ \A y \in 1..Len(x.slots) : x.slots[y].used => <<x.slots[y].name, x.slots[y].type>> \in Vars!Keys
        /\ \A y \in 1..Len(x.slots) : IF x.slots[y].used THEN At(x.slots[y].cell, y)
                                      ELSE x.slots[y].cell = <<>>
        /\ \A y, t \in 1..Len(x.slots) :
             x.slots[y].used /\ x.slots[t].used
             /\ x.slots[y].name = x.slots[t].name /\ x.slots[y].type = x.slots[t].type => y = t
    BY NewSlots
  <2> DEFINE cs == x.calls
  <2>2. /\ Len(cs) <= MaxCalls
        /\ \A g \in 1..Len(cs) : Once(cs[g])
        /\ \A g \in 1..Len(cs) : \A i \in 1..Len(cs[g]) :
             IF cs[g][i].existed THEN At(cs[g][i].cell, cs[g][i].slot) ELSE cs[g][i].cell = <<>>
    <3>1. CASE x.calls = m.calls
      BY <3>1 DEF Scoping, OwnPart
    <3>2. CASE /\ m.calls # <<>> /\ d = Len(m.calls)
               /\ x.calls = [m.calls EXCEPT ![d] = Append(m.calls[d], Alone(s))]
      <4> DEFINE bs == m.calls
                 a == Alone(s)
      <4>1. bs \in Seq(Seq(Save)) /\ bs # <<>> /\ a \in Save /\ OwnPart(m.slots, bs)
            /\ (\A i \in 1..Len(bs[Len(bs)]) : bs[Len(bs)][i].slot # a.slot)
            /\ (IF a.existed THEN At(a.cell, a.slot) ELSE a.cell = <<>>)
            /\ cs = [bs EXCEPT ![Len(bs)] = Append(bs[Len(bs)], a)]
        BY <1>2, <1>3, <1>4, <3>2 DEF Scoping
      <4> HIDE DEF bs, a, cs
      <4> QED BY <4>1, MoreSaved
    <3> QED BY <3>1, <3>2
  <2> QED BY <2>1, <2>2 DEF OwnPart
<1>6. Scoping(x)
  BY <1>5 DEF Scoping
<1>7. \A y : Vars!LocalIn(m, y) \subseteq Nat
  <2> SUFFICES ASSUME NEW y PROVE Vars!LocalIn(m, y) \subseteq Nat
    OBVIOUS
  <2>1. Recorded(m, y)
    BY SavedOnce DEF Scoping
  <2> QED BY <2>1 DEF Recorded
<1>8. /\ \A y : y # s => /\ Vars!LocalIn(x, y) = Vars!LocalIn(m, y)
                         /\ \A g \in Vars!LocalIn(m, y) : Vars!SavedBy(x, g, y) = Vars!SavedBy(m, g, y)
      /\ \/ Vars!LocalIn(x, s) = {} /\ d = 0
         \/ Vars!LocalIn(x, s) = {d} /\ d \in Nat /\ Vars!SavedBy(x, d, s).existed = FALSE
  <2>1. CASE x.calls = m.calls /\ d = 0
    <3>1. \A y : Vars!LocalIn(x, y) = Vars!LocalIn(m, y)
      BY <2>1 DEF Vars!LocalIn
    <3>2. \A y, g : Vars!SavedBy(x, g, y) = Vars!SavedBy(m, g, y)
      BY <2>1 DEF Vars!SavedBy
    <3> QED BY <1>2, <2>1, <3>1, <3>2
  <2>2. CASE /\ m.calls # <<>> /\ d = Len(m.calls)
             /\ x.calls = [m.calls EXCEPT ![d] = Append(m.calls[d], Alone(s))]
    <3> DEFINE a == Alone(s)
    <3>1. a \in Save /\ a.slot = s /\ a.existed = FALSE
      BY <1>3
    <3>2. x.calls = [m.calls EXCEPT ![Len(m.calls)] = Append(m.calls[Len(m.calls)], a)]
      BY <2>2
    <3> HIDE DEF a
    <3>3. LET e == Len(m.calls)
          IN  /\ \A y : y # a.slot => Vars!LocalIn(x, y) = Vars!LocalIn(m, y)
              /\ \A y : \A g \in Vars!LocalIn(m, y) : Vars!SavedBy(x, g, y) = Vars!SavedBy(m, g, y)
              /\ Vars!LocalIn(x, a.slot) = Vars!LocalIn(m, a.slot) \cup {e}
              /\ Vars!SavedBy(x, e, a.slot) = a
      BY <1>5, <2>2, <3>1, <3>2, SavedMore DEF Scoping
    <3> QED BY <1>2, <1>4, <2>2, <3>1, <3>3
  <2> QED BY <2>1, <2>2
<1> DEFINE b == [key |-> key, depth |-> d, cell |-> c]
<1>9. Of(x, s) = {b}
  <2>1. CASE Vars!LocalIn(x, s) = {} /\ d = 0
    <3>1. Of(x, s) = {[key |-> Vars!Key(x, s), depth |-> 0, cell |-> x.slots[s].cell]}
      BY <2>1, OnlyOne
    <3> QED BY <1>1, <2>1, <3>1
  <2>2. CASE Vars!LocalIn(x, s) = {d} /\ d \in Nat /\ Vars!SavedBy(x, d, s).existed = FALSE
    <3>1. Of(x, s) = {[key |-> Vars!Key(x, s), depth |-> d, cell |-> x.slots[s].cell]}
      BY <2>2, OnlyLocal
    <3> QED BY <1>1, <3>1
  <2> QED BY <1>8, <2>1, <2>2
<1>10. ASSUME NEW y \in 1..Len(m.slots), m.slots[y].used, y # s PROVE Of(x, y) = Of(m, y)
  <2>1. x.slots[y] = m.slots[y]
    BY <1>10 DEF NewIn
  <2>2. Vars!Key(x, y) = Vars!Key(m, y)
    BY <2>1 DEF Vars!Key
  <2> QED BY <1>7, <1>8, <1>10, <2>1, <2>2, SameOf
<1>11. {t \in 1..Len(x.slots) : x.slots[t].used}
         = {t \in 1..Len(m.slots) : m.slots[t].used} \cup {s}
  <2>1. Vars!Empty.used = FALSE
    BY DEF Vars!Empty
  <2> QED BY <1>1, <2>1 DEF NewIn
<1>12. Vars!Bindings(x) = Vars!Bindings(m) \cup {b}
  <2> HIDE DEF b
  <2>1. Of(x, s) = (IF s \in 1..Len(m.slots) /\ m.slots[s].used THEN Of(m, s) ELSE {}) \cup {b}
    BY <1>1, <1>9
  <2>2. \A y \in 1..Len(m.slots) : m.slots[y].used /\ y # s => Of(x, y) = Of(m, y)
    BY <1>10
  <2>3. OneSlotMore(m, x, s, b)
    BY <1>11, <2>1, <2>2 DEF OneSlotMore
  <2> QED BY <1>6, <2>3, OneSlot
<1>13. c \in Vars!Cells /\ \A a \in Vars!Bindings(m) : a.cell # c
  BY NewStorage, Unshared
<1> QED BY <1>6, <1>12, <1>13 DEF Adds

\* LOCAL of a variable that there is: its slot is taken over, and gets storage that
\* nothing has.
LEMMA HiddenBinding ==
  ASSUME NEW m \in Memory, Scoping(m), NEW s \in 1..Len(m.slots), m.slots[s].used,
         m.slots[s].name \in Names, ~Vars!IsLocal(m, s), NEW u \in BOOLEAN, Plain => u
  PROVE  LET x == Vars!Hidden(m, s, u)
             e == Len(m.calls)
         IN  /\ Scoping(x) /\ Adds(m, x, Vars!Key(m, s), e) /\ e \in Nat \ {0}
             /\ \A b \in Of(m, s) : b.depth < e
<1> DEFINE x == Vars!Hidden(m, s, u)
           e == Len(m.calls)
           a == Outer(m.slots, s)
<1>1. /\ Sound(x) /\ x.calls = [m.calls EXCEPT ![e] = Append(m.calls[e], a)]
      /\ Has(x, s, m.slots[s].name, m.slots[s].type)
      /\ x.slots[s].cell = Vars!FreshCell(m, s) /\ Len(x.slots) = Len(m.slots)
      /\ \A y \in 1..Len(m.slots) : y # s => x.slots[y] = m.slots[y]
  BY HiddenSound DEF Scoping
<1> HIDE DEF x
<1>2. x \in Memory /\ m.calls \in Seq(Seq(Save)) /\ m.slots \in Seq(Slot) /\ s \in Nat
      /\ Len(m.slots) \in Nat
  BY <1>1, Parts DEF Sound, Rest
<1>3. m.calls # <<>> /\ e \in Nat \ {0} /\ m.calls[e] \in Seq(Save)
      /\ \A i \in 1..Len(m.calls[e]) : m.calls[e][i].slot # s
  <2>1. m.calls # <<>> /\ \A save \in Vars!ToSet(Vars!Last(m.calls)) : save.slot # s
    BY DEF Vars!IsLocal
  <2>2. e \in Nat \ {0} /\ m.calls[e] \in Seq(Save)
    <3> DEFINE T == Seq(Save)
    <3>1. m.calls \in Seq(T)
      BY <1>2
    <3> HIDE DEF T
    <3>2. e \in Nat \ {0} /\ m.calls[e] \in T
      BY <2>1, <3>1
    <3> QED BY <3>2 DEF T
  <2> DEFINE q == m.calls[e]
  <2>3. Vars!Last(m.calls) = q
    BY DEF Vars!Last
  <2> HIDE DEF q
  <2>4. DOMAIN q = 1..Len(q)
    BY <2>2 DEF q
  <2>5. \A i \in 1..Len(q) : q[i] \in Vars!ToSet(q)
    BY <2>4 DEF Vars!ToSet
  <2> QED BY <2>1, <2>2, <2>3, <2>5 DEF q
<1>4. a \in Save /\ a.slot = s /\ a.existed = TRUE /\ a.cell = m.slots[s].cell
  BY <1>2, SlotFields DEF Outer, Save
<1> HIDE DEF a
<1>5. PICK n \in 1..MaxCalls + 1 : Vars!FreshCell(m, s) = <<s, n>> /\ ~Stored(m, <<s, n>>)
  BY <1>3, FreshHidden DEF Scoping
<1> DEFINE c == x.slots[s].cell
<1>6. c = <<s, n>> /\ ~Stored(m, c) /\ At(c, s) /\ c \in Vars!Cells
  <2>1. s \in 1..MaxSlots
    BY <1>2, VariablesAssumption DEF Scoping, Sound, Rest, SlotsPart
  <2> QED BY <1>1, <1>5, <2>1, VariablesAssumption DEF At, Vars!Cells
<1> HIDE DEF c
<1>7. Vars!Key(x, s) = Vars!Key(m, s) /\ x.slots[s].used
  BY <1>1 DEF Has, Vars!Key
<1>8. OwnPart(x.slots, x.calls)
  <2> DEFINE w == x.slots
             v == m.slots
  <2>1. /\ \A y \in 1..Len(v) : v[y].used => <<v[y].name, v[y].type>> \in Vars!Keys
        /\ \A y \in 1..Len(v) : IF v[y].used THEN At(v[y].cell, y) ELSE v[y].cell = <<>>
        /\ \A y, t \in 1..Len(v) :
             v[y].used /\ v[t].used /\ v[y].name = v[t].name /\ v[y].type = v[t].type => y = t
    BY DEF Scoping, OwnPart
  <2>2. /\ Len(w) = Len(v) /\ w[s].used /\ v[s].used /\ w[s].name = v[s].name /\ w[s].type = v[s].type
        /\ At(w[s].cell, s) /\ s \in 1..Len(v)
        /\ \A y \in 1..Len(v) : y # s => w[y] = v[y]
    BY <1>1, <1>6 DEF Has, c
  <2> HIDE DEF w, v
  <2>3. \A y \in 1..Len(w) : w[y].used = v[y].used /\ w[y].name = v[y].name /\ w[y].type = v[y].type
    <3> SUFFICES ASSUME NEW y \in 1..Len(w)
                 PROVE  w[y].used = v[y].used /\ w[y].name = v[y].name /\ w[y].type = v[y].type
      OBVIOUS
    <3>1. CASE y = s
      <4>1. w[s].used \in BOOLEAN /\ v[s].used \in BOOLEAN
        BY <1>2, <2>2, Parts, SlotFields DEF v, w
      <4> QED BY <2>2, <3>1, <4>1
    <3>2. CASE y # s
      BY <2>2, <3>2
    <3> QED BY <3>1, <3>2
  <2>4. \A y \in 1..Len(w) : IF w[y].used THEN At(w[y].cell, y) ELSE w[y].cell = <<>>
    <3> SUFFICES ASSUME NEW y \in 1..Len(w)
                 PROVE  IF w[y].used THEN At(w[y].cell, y) ELSE w[y].cell = <<>>
      OBVIOUS
    <3>1. CASE y = s
      BY <2>2, <3>1
    <3>2. CASE y # s
      BY <2>1, <2>2, <3>2
    <3> QED BY <3>1, <3>2
  <2>5. /\ \A y \in 1..Len(w) : w[y].used => <<w[y].name, w[y].type>> \in Vars!Keys
        /\ \A y, t \in 1..Len(w) :
             w[y].used /\ w[t].used /\ w[y].name = w[t].name /\ w[y].type = w[t].type => y = t
    BY <2>1, <2>2, <2>3
  <2> DEFINE bs == m.calls
             cs == x.calls
  <2>6. bs \in Seq(Seq(Save)) /\ bs # <<>> /\ a \in Save /\ OwnPart(m.slots, bs)
        /\ (\A i \in 1..Len(bs[Len(bs)]) : bs[Len(bs)][i].slot # a.slot)
        /\ cs = [bs EXCEPT ![Len(bs)] = Append(bs[Len(bs)], a)]
    BY <1>1, <1>2, <1>3, <1>4 DEF Scoping
  <2>7. IF a.existed THEN At(a.cell, a.slot) ELSE a.cell = <<>>
    BY <1>4, <2>1, <2>2 DEF v
  <2> HIDE DEF bs, cs
  <2>8. /\ Len(cs) <= MaxCalls
        /\ \A g \in 1..Len(cs) : Once(cs[g])
        /\ \A g \in 1..Len(cs) : \A i \in 1..Len(cs[g]) :
             IF cs[g][i].existed THEN At(cs[g][i].cell, cs[g][i].slot) ELSE cs[g][i].cell = <<>>
    BY <2>6, <2>7, MoreSaved
  <2> QED BY <2>4, <2>5, <2>8 DEF OwnPart, w, cs
<1>9. Scoping(x)
  BY <1>1, <1>8 DEF Scoping
<1>10. \A y : /\ Vars!LocalIn(m, y) \subseteq 1..e
              /\ Vars!LocalIn(m, y) \subseteq Nat
  <2> SUFFICES ASSUME NEW y
               PROVE  Vars!LocalIn(m, y) \subseteq 1..e /\ Vars!LocalIn(m, y) \subseteq Nat
    OBVIOUS
  <2>1. Recorded(m, y)
    BY SavedOnce DEF Scoping
  <2> QED BY <2>1 DEF Recorded
<1>11. e \notin Vars!LocalIn(m, s)
  <2>1. Recorded(m, s)
    BY SavedOnce DEF Scoping
  <2> QED BY <1>3, <2>1 DEF Recorded
<1>12. /\ \A y : y # s => Vars!LocalIn(x, y) = Vars!LocalIn(m, y)
       /\ \A y : \A g \in Vars!LocalIn(m, y) : Vars!SavedBy(x, g, y) = Vars!SavedBy(m, g, y)
       /\ Vars!LocalIn(x, s) = Vars!LocalIn(m, s) \cup {e}
       /\ Vars!SavedBy(x, e, s) = a
  <2>1. /\ \A y : y # a.slot => Vars!LocalIn(x, y) = Vars!LocalIn(m, y)
        /\ \A y : \A g \in Vars!LocalIn(m, y) : Vars!SavedBy(x, g, y) = Vars!SavedBy(m, g, y)
        /\ Vars!LocalIn(x, a.slot) = Vars!LocalIn(m, a.slot) \cup {e}
        /\ Vars!SavedBy(x, e, a.slot) = a
    BY <1>1, <1>2, <1>3, <1>4, <1>8, SavedMore DEF Scoping
  <2> QED BY <1>4, <2>1
<1> DEFINE b == [key |-> Vars!Key(m, s), depth |-> e, cell |-> c]
<1>13. Of(x, s) = Of(m, s) \cup {b} /\ \A d \in Of(m, s) : d.depth < e
  <2>1. Vars!LocalIn(m, s) \subseteq 0..e - 1
    BY <1>3, <1>10, <1>11
  <2>2. Vars!SavedBy(x, e, s).existed = TRUE /\ Vars!SavedBy(x, e, s).cell = m.slots[s].cell
    BY <1>4, <1>12
  <2>3. e \in Nat /\ e # 0
    BY <1>3
  <2>4. \A g \in Vars!LocalIn(m, s) : Vars!SavedBy(x, g, s) = Vars!SavedBy(m, g, s)
    BY <1>12
  <2>5. Vars!LocalIn(x, s) = Vars!LocalIn(m, s) \cup {e}
    BY <1>12
  <2> HIDE DEF e
  <2>6. /\ Of(x, s) = Of(m, s) \cup
                        {[key |-> Vars!Key(m, s), depth |-> e, cell |-> x.slots[s].cell]}
        /\ \A d \in Of(m, s) : d.depth < e
    BY <1>7, <2>1, <2>2, <2>3, <2>4, <2>5, TakenOver
  <2> QED BY <2>6 DEF c
<1>14. \A y \in 1..Len(m.slots) : m.slots[y].used /\ y # s => Of(x, y) = Of(m, y)
  <2> SUFFICES ASSUME NEW y \in 1..Len(m.slots), y # s PROVE Of(x, y) = Of(m, y)
    OBVIOUS
  <2>1. x.slots[y] = m.slots[y]
    BY <1>1
  <2>2. Vars!Key(x, y) = Vars!Key(m, y)
    BY <2>1 DEF Vars!Key
  <2> QED BY <1>10, <1>12, <2>1, <2>2, SameOf
<1>15. {t \in 1..Len(x.slots) : x.slots[t].used}
         = {t \in 1..Len(m.slots) : m.slots[t].used} \cup {s}
  BY <1>1, <1>7
<1>16. Vars!Bindings(x) = Vars!Bindings(m) \cup {b}
  <2> HIDE DEF b
  <2>1. OneSlotMore(m, x, s, b)
    BY <1>13, <1>14, <1>15 DEF OneSlotMore
  <2> QED BY <1>2, <1>9, <2>1, OneSlot
<1>17. \A d \in Vars!Bindings(m) : d.cell # c
  BY <1>6, Unshared
<1>18. Adds(m, x, Vars!Key(m, s), e)
  BY <1>6, <1>16, <1>17 DEF Adds
<1> QED BY <1>3, <1>9, <1>13, <1>18 DEF x

\* What LOCALs made of the slots, when those of the last call are gone.
LEMMA SavedLess ==
  ASSUME NEW m \in Memory, NEW x \in Memory, OwnPart(m.slots, m.calls), OwnPart(x.slots, x.calls),
         m.calls # <<>>, x.calls = Vars!Front(m.calls)
  PROVE  \A y : /\ Vars!LocalIn(x, y) = Vars!LocalIn(m, y) \ {Len(m.calls)}
                /\ Vars!LocalIn(m, y) \subseteq 1..Len(m.calls)
                /\ \A g \in Vars!LocalIn(x, y) : Vars!SavedBy(x, g, y) = Vars!SavedBy(m, g, y)
<1> SUFFICES ASSUME NEW y
             PROVE  /\ Vars!LocalIn(x, y) = Vars!LocalIn(m, y) \ {Len(m.calls)}
                    /\ Vars!LocalIn(m, y) \subseteq 1..Len(m.calls)
                    /\ \A g \in Vars!LocalIn(x, y) : Vars!SavedBy(x, g, y) = Vars!SavedBy(m, g, y)
  OBVIOUS
<1> DEFINE cs == m.calls
           ds == x.calls
           e == Len(cs)
<1>1. cs \in Seq(Seq(Save))
  BY Parts
<1>2. e \in Nat \ {0} /\ Len(ds) = e - 1 /\ \A g \in 1..e - 1 : ds[g] = cs[g]
  BY <1>1, FrontFields
<1>3. Recorded(m, y) /\ Recorded(x, y)
  BY SavedOnce
<1>4. /\ \A g \in 1..e : \A i \in 1..Len(cs[g]) :
           cs[g][i].slot = y => g \in Vars!LocalIn(m, y) /\ Vars!SavedBy(m, g, y) = cs[g][i]
      /\ \A g \in Vars!LocalIn(m, y) : g \in 1..e /\ \E i \in 1..Len(cs[g]) : cs[g][i].slot = y
  BY <1>3 DEF Recorded
<1>5. /\ \A g \in 1..e - 1 : \A i \in 1..Len(ds[g]) :
           ds[g][i].slot = y => g \in Vars!LocalIn(x, y) /\ Vars!SavedBy(x, g, y) = ds[g][i]
      /\ \A g \in Vars!LocalIn(x, y) : g \in 1..e - 1 /\ \E i \in 1..Len(ds[g]) : ds[g][i].slot = y
  <2>1. /\ \A g \in 1..Len(ds) : \A i \in 1..Len(ds[g]) :
             ds[g][i].slot = y => g \in Vars!LocalIn(x, y) /\ Vars!SavedBy(x, g, y) = ds[g][i]
        /\ \A g \in Vars!LocalIn(x, y) : g \in 1..Len(ds) /\ \E i \in 1..Len(ds[g]) : ds[g][i].slot = y
    BY <1>3 DEF Recorded
  <2>2. Len(ds) = e - 1
    BY <1>2
  <2> HIDE DEF ds, e
  <2> QED BY <2>1, <2>2
<1> HIDE DEF cs, ds, e
<1>6. ASSUME NEW g \in Vars!LocalIn(m, y), g # e
      PROVE  g \in Vars!LocalIn(x, y)
  <2>1. PICK i \in 1..Len(cs[g]) : cs[g][i].slot = y
    BY <1>4
  <2>2. g \in 1..e - 1
    BY <1>2, <1>4, <1>6
  <2>3. ds[g] = cs[g]
    BY <1>2, <2>2
  <2> QED BY <1>5, <2>1, <2>2, <2>3
<1>7. ASSUME NEW g \in Vars!LocalIn(x, y)
      PROVE  g \in Vars!LocalIn(m, y) /\ g # e /\ Vars!SavedBy(x, g, y) = Vars!SavedBy(m, g, y)
  <2>1. PICK i \in 1..Len(ds[g]) : ds[g][i].slot = y
    BY <1>5
  <2>2. g \in 1..e - 1
    BY <1>5
  <2>3. ds[g] = cs[g] /\ g \in 1..e
    BY <1>2, <2>2
  <2>4. g \in Vars!LocalIn(m, y) /\ Vars!SavedBy(m, g, y) = cs[g][i]
    BY <1>4, <2>1, <2>3
  <2>5. Vars!SavedBy(x, g, y) = ds[g][i]
    BY <1>5, <2>1, <2>2
  <2> QED BY <1>2, <2>2, <2>3, <2>4, <2>5
<1>8. Vars!LocalIn(x, y) = Vars!LocalIn(m, y) \ {e}
  BY <1>6, <1>7
<1>9. Vars!LocalIn(m, y) \subseteq 1..e
  BY <1>4
<1> QED BY <1>7, <1>8, <1>9 DEF e, cs

\* mmb_local_restore leaves every variable a key and storage of its own.
LEMMA ReturnedOwn ==
  ASSUME NEW m \in Memory, Scoping(m), m.calls # <<>>
  PROVE  LET x == Vars!Returned(m)
         IN  Scoping(x) /\ BackTo(m.slots, x.slots, m.calls[Len(m.calls)], 1)
<1> DEFINE x == Vars!Returned(m)
           e == Len(m.calls)
           saves == m.calls[e]
<1>1. m.calls \in Seq(Seq(Save)) /\ e \in Nat \ {0} /\ Len(Vars!Front(m.calls)) = e - 1
      /\ \A g \in 1..e - 1 : Vars!Front(m.calls)[g] = m.calls[g]
  BY Parts, FrontFields
<1>2. Once(saves)
  BY <1>1 DEF Scoping, OwnPart
<1>3. Sound(x) /\ x.calls = Vars!Front(m.calls) /\ BackTo(m.slots, x.slots, saves, 1)
  BY <1>2, ReturnedSound DEF Scoping
<1> HIDE DEF x
<1>4. \A i \in 1..Len(saves) : Pending(m.slots, saves[i])
  <2> SUFFICES ASSUME NEW i \in 1..Len(saves) PROVE Pending(m.slots, saves[i])
    OBVIOUS
  <2>1. e \in Nat /\ i \in Nat /\ Waiting(m.calls, i, e, i)
    BY <1>1 DEF Waiting
  <2>2. PendingPart(m.slots, m.calls, i)
    BY <2>1 DEF Scoping, Sound, PendingAll
  <2> QED BY <2>1, <2>2 DEF PendingPart
<1>5. OwnPart(x.slots, x.calls)
  <2> DEFINE w == x.slots
             v == m.slots
             ok(r) == IF r.existed THEN At(r.cell, r.slot) ELSE r.cell = <<>>
             own(u, y) == IF u[y].used THEN At(u[y].cell, y) ELSE u[y].cell = <<>>
  <2>1. /\ \A y \in 1..Len(v) : v[y].used => <<v[y].name, v[y].type>> \in Vars!Keys
        /\ \A y \in 1..Len(v) : own(v, y)
        /\ \A y, t \in 1..Len(v) :
             v[y].used /\ v[t].used /\ v[y].name = v[t].name /\ v[y].type = v[t].type => y = t
    BY DEF Scoping, OwnPart
  <2>2. /\ e <= MaxCalls /\ \A g \in 1..e : Once(m.calls[g])
        /\ \A g \in 1..e : \A i \in 1..Len(m.calls[g]) : ok(m.calls[g][i])
    BY DEF Scoping, OwnPart
  <2>3. /\ Len(w) = Len(v)
        /\ \A i \in 1..Len(saves) : Undone(v, w, saves[i]) /\ ok(saves[i]) /\ Pending(v, saves[i])
        /\ \A y \in 1..Len(v) : (\A i \in 1..Len(saves) : saves[i].slot # y) => w[y] = v[y]
    BY <1>1, <1>3, <1>4, <2>2 DEF BackTo
  <2> HIDE DEF w, v
  <2>4. \A y \in 1..Len(w) : own(w, y) /\ (w[y].used => /\ v[y].used
                                                        /\ w[y].name = v[y].name
                                                        /\ w[y].type = v[y].type)
    <3> SUFFICES ASSUME NEW y \in 1..Len(w)
                 PROVE  own(w, y) /\ (w[y].used => /\ v[y].used
                                                   /\ w[y].name = v[y].name
                                                   /\ w[y].type = v[y].type)
      OBVIOUS
    <3>1. CASE \A i \in 1..Len(saves) : saves[i].slot # y
      BY <2>1, <2>3, <3>1
    <3>2. CASE \E i \in 1..Len(saves) : saves[i].slot = y
      <4>1. PICK i \in 1..Len(saves) : saves[i].slot = y
        BY <3>2
      <4>2. Undone(v, w, saves[i]) /\ ok(saves[i]) /\ Pending(v, saves[i])
        BY <2>3
      <4>3. CASE saves[i].existed
        <5>1. /\ w[y].used /\ w[y].name = v[y].name /\ w[y].type = v[y].type
              /\ w[y].cell = saves[i].cell
          BY <4>1, <4>2, <4>3 DEF Undone
        <5>2. At(saves[i].cell, y)
          BY <4>1, <4>2, <4>3
        <5>3. v[y].used
          BY <4>1, <4>2 DEF Pending
        <5> QED BY <5>1, <5>2, <5>3
      <4>4. CASE ~saves[i].existed
        BY <4>1, <4>2, <4>4 DEF Undone
      <4> QED BY <4>3, <4>4
    <3> QED BY <3>1, <3>2
  <2> HIDE DEF own
  <2>5. /\ \A y \in 1..Len(w) : w[y].used => <<w[y].name, w[y].type>> \in Vars!Keys
        /\ \A y, t \in 1..Len(w) :
             w[y].used /\ w[t].used /\ w[y].name = w[t].name /\ w[y].type = w[t].type => y = t
    BY <2>1, <2>3, <2>4
  <2> DEFINE cs == x.calls
  <2>6. /\ Len(cs) = e - 1 /\ \A g \in 1..e - 1 : cs[g] = m.calls[g]
    BY <1>1, <1>3
  <2> HIDE DEF cs, ok
  <2>7. /\ Len(cs) <= MaxCalls
        /\ \A g \in 1..Len(cs) : Once(cs[g])
        /\ \A g \in 1..Len(cs) : \A i \in 1..Len(cs[g]) : ok(cs[g][i])
    <3>1. \A g \in 1..Len(cs) : g \in 1..e /\ cs[g] = m.calls[g]
      BY <1>1, <2>6
    <3>2. Len(cs) <= MaxCalls
      BY <1>1, <2>2, <2>6, VariablesAssumption
    <3>3. \A g \in 1..Len(cs) : Once(cs[g])
      BY <2>2, <3>1
    <3>4. \A g \in 1..Len(cs) : \A i \in 1..Len(cs[g]) : ok(cs[g][i])
      BY <2>2, <3>1
    <3> QED BY <3>2, <3>3, <3>4
  <2> QED BY <2>4, <2>5, <2>7 DEF OwnPart, w, cs, ok, own
<1> QED BY <1>3, <1>5 DEF Scoping, x

\* The end of a call: the bindings of the calls outside of it are left.
LEMMA ReturnedBindings ==
  ASSUME NEW m \in Memory, Scoping(m), m.calls # <<>>
  PROVE  Vars!Bindings(Vars!Returned(m)) = {b \in Vars!Bindings(m) : b.depth < Len(m.calls)}
<1> DEFINE x == Vars!Returned(m)
           e == Len(m.calls)
           saves == m.calls[e]
           below(y) == {b \in Of(m, y) : b.depth < e}
           U == {y \in 1..Len(m.slots) : m.slots[y].used}
           W == {y \in 1..Len(x.slots) : x.slots[y].used}
<1>1. m.calls \in Seq(Seq(Save)) /\ e \in Nat \ {0}
  BY Parts, FrontFields
<1>2. Scoping(x) /\ BackTo(m.slots, x.slots, saves, 1)
  BY ReturnedOwn
<1>3. x.calls = Vars!Front(m.calls)
  BY ReturnedSound DEF Scoping
<1>4. x \in Memory
  BY <1>2 DEF Scoping, Sound, Rest
<1> HIDE DEF x
<1>5. \A y : /\ Vars!LocalIn(x, y) = Vars!LocalIn(m, y) \ {e}
             /\ Vars!LocalIn(m, y) \subseteq 1..e
             /\ \A g \in Vars!LocalIn(x, y) : Vars!SavedBy(x, g, y) = Vars!SavedBy(m, g, y)
  BY <1>2, <1>3, <1>4, SavedLess DEF Scoping
<1>6. ASSUME NEW y \in 1..Len(m.slots), \A i \in 1..Len(saves) : saves[i].slot # y
      PROVE  x.slots[y] = m.slots[y] /\ Of(x, y) = below(y)
  <2>1. x.slots[y] = m.slots[y]
    BY <1>2, <1>6 DEF BackTo
  <2>2. Vars!Key(x, y) = Vars!Key(m, y)
    BY <2>1 DEF Vars!Key
  <2>3. e \notin Vars!LocalIn(m, y)
    <3>1. Recorded(m, y)
      BY SavedOnce DEF Scoping
    <3> QED BY <1>6, <3>1 DEF Recorded
  <2>4. Vars!LocalIn(x, y) = Vars!LocalIn(m, y) /\ Vars!LocalIn(m, y) \subseteq Nat
    BY <1>5, <2>3
  <2>5. Of(x, y) = Of(m, y)
    BY <1>5, <2>1, <2>2, <2>4, SameOf
  <2>6. \A d \in Vars!Depths(m, y) : d < e
    BY <1>1, <1>5, <2>3 DEF Vars!Depths
  <2>7. \A b \in Of(m, y) : b.depth < e
    BY <2>6 DEF Of
  <2> QED BY <2>1, <2>5, <2>7
<1>7. ASSUME NEW i \in 1..Len(saves), saves[i].existed
      PROVE  LET y == saves[i].slot IN x.slots[y].used /\ Of(x, y) = below(y)
  <2> DEFINE y == saves[i].slot
  <2>1. x.slots[y].used /\ Vars!Key(x, y) = Vars!Key(m, y) /\ x.slots[y].cell = saves[i].cell
    BY <1>2, <1>7 DEF BackTo, Undone, Vars!Key
  <2>2. e \in Vars!LocalIn(m, y) /\ Vars!SavedBy(m, e, y) = saves[i]
    <3>1. e \in 1..Len(m.calls)
      BY <1>1
    <3> QED BY <3>1, SavedFound DEF Scoping
  <2>3. saves[i].existed = TRUE
    <3>1. saves \in Seq(Save)
      BY <1>1
    <3> DEFINE q == saves
    <3>2. q \in Seq(Save) /\ i \in 1..Len(q)
      BY <3>1
    <3> HIDE DEF q
    <3>3. q[i] \in Save
      BY <3>2
    <3> QED BY <1>7, <3>3 DEF Save, q
  <2> HIDE DEF y
  <2>4. Vars!LocalIn(x, y) \subseteq 0..e - 1
    BY <1>1, <1>5
  <2>5. Vars!LocalIn(m, y) = Vars!LocalIn(x, y) \cup {e}
    BY <1>5, <2>2
  <2>6. \A g \in Vars!LocalIn(x, y) : Vars!SavedBy(m, g, y) = Vars!SavedBy(x, g, y)
    BY <1>5
  <2>7. e \in Nat /\ e # 0 /\ Vars!SavedBy(m, e, y).existed = TRUE
        /\ Vars!SavedBy(m, e, y).cell = x.slots[y].cell
    BY <1>1, <2>1, <2>2, <2>3
  <2> HIDE DEF e
  <2>8. /\ Of(m, y) = Of(x, y) \cup
                        {[key |-> Vars!Key(x, y), depth |-> e, cell |-> m.slots[y].cell]}
        /\ \A b \in Of(x, y) : b.depth < e
    BY <2>1, <2>4, <2>5, <2>6, <2>7, TakenOver
  <2>9. Of(x, y) = {b \in Of(m, y) : b.depth < e}
    BY <2>7, <2>8
  <2> QED BY <2>1, <2>9 DEF y
<1>8. ASSUME NEW i \in 1..Len(saves), ~saves[i].existed
      PROVE  LET y == saves[i].slot IN ~x.slots[y].used /\ below(y) = {}
  <2> DEFINE y == saves[i].slot
  <2>1. ~x.slots[y].used
    BY <1>2, <1>8 DEF BackTo, Undone
  <2>2. e \in Vars!LocalIn(m, y) /\ Vars!SavedBy(m, e, y) = saves[i] /\ e \in 1..Len(m.calls)
    <3>1. e \in 1..Len(m.calls)
      BY <1>1
    <3> QED BY <3>1, SavedFound DEF Scoping
  <2>3. saves[i].existed = FALSE
    <3>1. saves \in Seq(Save)
      BY <1>1
    <3> DEFINE q == saves
    <3>2. q \in Seq(Save) /\ i \in 1..Len(q)
      BY <3>1
    <3> HIDE DEF q
    <3>3. q[i] \in Save
      BY <3>2
    <3> QED BY <1>8, <3>3 DEF Save, q
  <2>4. ASSUME NEW g \in Vars!LocalIn(m, y), g # e PROVE FALSE
    <3>1. Recorded(m, y)
      BY SavedOnce DEF Scoping
    <3>2. PICK j \in 1..Len(m.calls[g]) : m.calls[g][j].slot = y
      BY <3>1 DEF Recorded
    <3>3. g \in Nat /\ e \in Nat /\ i \in Nat /\ j \in Nat /\ g < e /\ g \in 1..e
      BY <1>1, <1>5, <2>4
    <3>4. Waiting(m.calls, i, g, j) /\ Waiting(m.calls, i, e, i)
      BY <1>1, <3>3 DEF Waiting
    <3>5. PendingPart(m.slots, m.calls, i)
      BY <3>3 DEF Scoping, Sound, PendingAll
    <3>6. Later(m.calls[e][i])
      BY <3>2, <3>3, <3>4, <3>5 DEF PendingPart
    <3> QED BY <1>8, <3>6 DEF Later
  <2> HIDE DEF y
  <2>5. Vars!LocalIn(m, y) = {e} /\ Vars!SavedBy(m, e, y).existed = FALSE /\ e \in Nat
    BY <1>1, <2>2, <2>3, <2>4
  <2> HIDE DEF e
  <2>6. Of(m, y) = {[key |-> Vars!Key(m, y), depth |-> e, cell |-> m.slots[y].cell]}
    BY <2>5, OnlyLocal
  <2> QED BY <2>1, <2>5, <2>6 DEF y
<1>9. Len(x.slots) = Len(m.slots)
  BY <1>2 DEF BackTo
<1>10. ASSUME NEW y \in 1..Len(m.slots)
       PROVE  /\ x.slots[y].used => Of(x, y) = below(y)
              /\ x.slots[y].used => m.slots[y].used
              /\ ~x.slots[y].used /\ m.slots[y].used => below(y) = {}
  <2>1. CASE \A i \in 1..Len(saves) : saves[i].slot # y
    BY <1>6, <2>1
  <2>2. CASE \E i \in 1..Len(saves) : saves[i].slot = y
    <3>1. PICK i \in 1..Len(saves) : saves[i].slot = y
      BY <2>2
    <3>2. m.slots[y].used
      <4>1. e \in Nat /\ i \in Nat /\ Waiting(m.calls, i, e, i)
        BY <1>1 DEF Waiting
      <4>2. PendingPart(m.slots, m.calls, i)
        BY <4>1 DEF Scoping, Sound, PendingAll
      <4>3. Pending(m.slots, saves[i])
        BY <4>1, <4>2 DEF PendingPart
      <4> QED BY <3>1, <4>3 DEF Pending
    <3> HIDE DEF below
    <3>3. CASE saves[i].existed
      BY <1>7, <3>1, <3>2, <3>3
    <3>4. CASE ~saves[i].existed
      BY <1>8, <3>1, <3>4
    <3> QED BY <3>3, <3>4
  <2> QED BY <2>1, <2>2
<1>11. Vars!Bindings(m) = UNION {Of(m, y) : y \in U} /\ Vars!Bindings(x) = UNION {Of(x, y) : y \in W}
  BY <1>2, <1>4, BindingsAre
<1>12. /\ W \subseteq U /\ \A y \in W : Of(x, y) = below(y)
       /\ \A y \in U : y \notin W => below(y) = {}
  <2> HIDE DEF below
  <2> QED BY <1>9, <1>10
<1>13. Vars!Bindings(x) = {b \in Vars!Bindings(m) : b.depth < e}
  <2> HIDE DEF e, U, W
  <2>1. ASSUME NEW b \in Vars!Bindings(x) PROVE b \in Vars!Bindings(m) /\ b.depth < e
    BY <1>11, <1>12
  <2>2. ASSUME NEW b \in Vars!Bindings(m), b.depth < e PROVE b \in Vars!Bindings(x)
    <3>1. PICK y \in U : b \in Of(m, y)
      BY <1>11
    <3>2. b \in below(y)
      BY <2>2, <3>1
    <3>3. y \in W
      BY <1>12, <3>2
    <3> QED BY <1>11, <1>12, <3>2, <3>3
  <2> QED BY <2>1, <2>2
<1> QED BY <1>13 DEF x

\* A memory with the slots and the calls of another has its bindings.
LEMMA SameBindings ==
  ASSUME NEW m \in Memory, NEW x \in Memory, Scoping(m), Scoping(x), x.slots = m.slots,
         \A y : /\ Vars!LocalIn(x, y) = Vars!LocalIn(m, y)
                /\ \A g \in Vars!LocalIn(m, y) : Vars!SavedBy(x, g, y) = Vars!SavedBy(m, g, y)
  PROVE  Vars!Bindings(x) = Vars!Bindings(m)
<1>1. \A y : Vars!Key(x, y) = Vars!Key(m, y)
  BY DEF Vars!Key
<1>2. \A y : Vars!LocalIn(m, y) \subseteq Nat
  <2> SUFFICES ASSUME NEW y PROVE Vars!LocalIn(m, y) \subseteq Nat
    OBVIOUS
  <2>1. Recorded(m, y)
    BY SavedOnce DEF Scoping
  <2> QED BY <2>1 DEF Recorded
<1>3. ASSUME NEW y PROVE Of(x, y) = Of(m, y)
  BY <1>1, <1>2, SameOf
<1> DEFINE U == {t \in 1..Len(m.slots) : m.slots[t].used}
<1>4. Vars!Bindings(m) = UNION {Of(m, y) : y \in U} /\ Vars!Bindings(x) = UNION {Of(x, y) : y \in U}
  BY BindingsAre
<1> HIDE DEF U
<1> QED BY <1>3, <1>4

\* A key has bindings only in the slot that it is found in.
LEMMA KeyBindings ==
  ASSUME NEW m \in Memory, Scoping(m), NEW b \in Vars!Bindings(m), NEW name, NEW type,
         b.key = <<name, type>>
  PROVE  /\ Vars!Find(m, name, type) # 0
         /\ \A s : Has(m, s, name, type) => b \in Of(m, s)
<1>1. PICK y \in {t \in 1..Len(m.slots) : m.slots[t].used} : b \in Of(m, y)
  BY BindingsAre
<1>2. b.key = Vars!Key(m, y)
  <2>1. PICK d : b = [key |-> Vars!Key(m, y), depth |-> d, cell |-> Vars!CellAt(m, y, d)]
    BY <1>1 DEF Of
  <2> QED BY <2>1
<1>3. Has(m, y, name, type)
  BY <1>2 DEF Has, Vars!Key
<1>4. Vars!Find(m, name, type) # 0
  BY <1>3, NothingFound DEF Scoping
<1>5. \A s : Has(m, s, name, type) => s = y
  BY <1>3 DEF Has, Scoping, OwnPart
<1> QED BY <1>1, <1>4, <1>5

\* No slots, no bindings.
LEMMA NoBindings ==
  ASSUME NEW m, Sound(m), m.slots = <<>>, m.calls = <<>> \/ \E v : OwnPart(v, m.calls)
  PROVE  Scoping(m) /\ Vars!Bindings(m) = {}
<1>1. m \in Memory /\ Len(m.slots) = 0
  BY DEF Sound, Rest
<1>2. OwnPart(m.slots, m.calls)
  <2>1. CASE m.calls = <<>>
    <3>1. Len(m.calls) = 0
      BY <2>1
    <3> QED BY <1>1, <3>1, VariablesAssumption DEF OwnPart
  <2>2. CASE \E v : OwnPart(v, m.calls)
    BY <1>1, <2>2 DEF OwnPart
  <2> QED BY <2>1, <2>2
<1>3. Scoping(m)
  BY <1>2 DEF Scoping
<1>4. {t \in 1..Len(m.slots) : m.slots[t].used} = {}
  BY <1>1
<1> QED BY <1>1, <1>3, <1>4, BindingsAre
-----------------------------------------------------------------------------
(* The steps.                                                              *)

\* What the mapping to Scopes gives its variables.
Bound == Vars!Bindings(Vars!Now)
Depth == Len(calls[ctx])

\* A step of Scopes, or one that it does not see.
ScopesStep == [Vars!S!Next]_<<Bound, Depth>>

\* The inductive invariant of the variables.
VarInv ==
  /\ ctx \in Contexts
  /\ DOMAIN slots = Contexts /\ DOMAIN calls = Contexts /\ DOMAIN cache = Contexts
  /\ Scoping(Vars!Now)

\* The memory of the context that runs is sound.
LEMMA NowMemory ==
  ASSUME VarInv
  PROVE  /\ Scoping(Vars!Now) /\ Sound(Vars!Now) /\ Vars!Now \in Memory
         /\ Vars!Now.calls = calls[ctx] /\ Vars!Now.slots = slots[ctx]
         /\ Vars!Now.names = names /\ Vars!Now.cache = cache[ctx]
BY DEF VarInv, Scoping, Sound, Rest, Vars!Now

\* A step to a sound memory keeps the invariant.
LEMMA BecomesSound ==
  ASSUME NEW m, Scoping(m), VarInv, Vars!Becomes(m)
  PROVE  VarInv' /\ Bound' = Vars!Bindings(m) /\ Depth' = Len(m.calls)
<1>1. ctx' = ctx /\ ctx \in Contexts
  BY DEF Vars!Becomes, VarInv
<1>2. slots'[ctx] = m.slots /\ calls'[ctx] = m.calls /\ cache'[ctx] = Vars!UsefulCache(m)
      /\ names' = [m.names EXCEPT !.left = Vars!UsefulLeft(m)]
  BY DEF Vars!Becomes, VarInv
<1>3. DOMAIN slots' = Contexts /\ DOMAIN calls' = Contexts /\ DOMAIN cache' = Contexts
  BY DEF Vars!Becomes, VarInv
<1> DEFINE x == Shown(m)
<1>4. Vars!Now' = x
  BY <1>1, <1>2 DEF Vars!Now, Shown
<1>5. Sound(x) /\ x.slots = m.slots /\ x.calls = m.calls
  BY ShownSound DEF Shown, Scoping
<1> HIDE DEF x
<1>6. Scoping(x) /\ x \in Memory /\ m \in Memory
  BY <1>5 DEF Scoping, Sound, Rest
<1>7. Vars!Bindings(x) = Vars!Bindings(m)
  <2>1. \A y : Vars!LocalIn(x, y) = Vars!LocalIn(m, y)
    BY <1>5 DEF Vars!LocalIn
  <2>2. \A y, g : Vars!SavedBy(x, g, y) = Vars!SavedBy(m, g, y)
    BY <1>5 DEF Vars!SavedBy
  <2> QED BY <1>5, <1>6, <2>1, <2>2, SameBindings
<1>8. VarInv'
  BY <1>1, <1>3, <1>4, <1>6 DEF VarInv
<1>9. Bound' = Vars!Bindings(m)
  BY <1>4, <1>7 DEF Bound
<1>10. Depth' = Len(m.calls)
  BY <1>1, <1>2 DEF Depth
<1> QED BY <1>8, <1>9, <1>10

\* A step that leaves the bindings is none of Scopes.
LEMMA StepSame ==
  ASSUME VarInv, NEW x, Scoping(x), Vars!Becomes(x),
         x.slots = Vars!Now.slots, x.calls = Vars!Now.calls
  PROVE  VarInv' /\ ScopesStep
<1>1. VarInv' /\ Bound' = Vars!Bindings(x) /\ Depth' = Len(x.calls)
  BY BecomesSound
<1> DEFINE m == Vars!Now
<1>2. Scoping(m) /\ m \in Memory /\ x \in Memory /\ x.calls = calls[ctx]
  BY NowMemory DEF Scoping, Sound, Rest
<1>3. Vars!Bindings(x) = Vars!Bindings(m)
  <2> HIDE DEF m
  <2>1. \A y : Vars!LocalIn(x, y) = Vars!LocalIn(m, y)
    BY DEF Vars!LocalIn, m
  <2>2. \A y, g : Vars!SavedBy(x, g, y) = Vars!SavedBy(m, g, y)
    BY DEF Vars!SavedBy, m
  <2>3. x.slots = m.slots
    BY DEF m
  <2> QED BY <1>2, <2>1, <2>2, <2>3, SameBindings
<1>4. Bound' = Bound /\ Depth' = Depth
  BY <1>1, <1>2, <1>3 DEF Bound, Depth
<1> QED BY <1>1, <1>4 DEF ScopesStep

\* A variable is made where there is none.
LEMMA StepMake ==
  ASSUME VarInv, NEW x, Scoping(x), Vars!Becomes(x), NEW k \in Vars!Keys,
         Adds(Vars!Now, x, k, 0), \A b \in Vars!Bindings(Vars!Now) : b.key # k,
         Len(x.calls) = Len(calls[ctx])
  PROVE  VarInv' /\ ScopesStep
<1>1. VarInv' /\ Bound' = Vars!Bindings(x) /\ Depth' = Depth
  BY BecomesSound DEF Depth
<1>2. PICK c \in Vars!Cells :
        /\ \A b \in Bound : b.cell # c
        /\ Bound' = Bound \cup {[key |-> k, depth |-> 0, cell |-> c]}
  BY <1>1 DEF Adds, Bound
<1>3. Vars!S!Under(k) = {}
  BY DEF Vars!S!Under
<1>4. c \notin Vars!S!InUse
  BY <1>2 DEF Vars!S!InUse, Bound
<1>5. Vars!S!Make(k)
  BY <1>1, <1>2, <1>3, <1>4 DEF Vars!S!Make, Vars!S!Bind, Bound, Depth
<1> QED BY <1>1, <1>5 DEF ScopesStep, Vars!S!Next

\* A LOCAL is made, deeper than what has its key.
LEMMA StepLocal ==
  ASSUME VarInv, NEW x, Scoping(x), Vars!Becomes(x), NEW k \in Vars!Keys,
         Adds(Vars!Now, x, k, Len(calls[ctx])), Len(calls[ctx]) # 0,
         \A b \in Vars!Bindings(Vars!Now) : b.key = k => b.depth < Len(calls[ctx]),
         Len(x.calls) = Len(calls[ctx])
  PROVE  VarInv' /\ ScopesStep
<1>1. VarInv' /\ Bound' = Vars!Bindings(x) /\ Depth' = Depth
  BY BecomesSound DEF Depth
<1>2. PICK c \in Vars!Cells :
        /\ \A b \in Bound : b.cell # c
        /\ Bound' = Bound \cup {[key |-> k, depth |-> Depth, cell |-> c]}
  BY <1>1 DEF Adds, Bound, Depth
<1>3. \A b \in Vars!S!Under(k) : b.depth < Len(calls[ctx])
  BY DEF Vars!S!Under
<1>4. c \notin Vars!S!InUse
  BY <1>2 DEF Vars!S!InUse, Bound
<1>5. Vars!S!Local(k)
  BY <1>1, <1>2, <1>3, <1>4 DEF Vars!S!Local, Vars!S!Bind, Bound, Depth
<1> QED BY <1>1, <1>5 DEF ScopesStep, Vars!S!Next

\* Everything goes.
LEMMA StepClear ==
  ASSUME VarInv, NEW x, Scoping(x), Vars!Becomes(x), Vars!Bindings(x) = {},
         Len(x.calls) \in {0, Len(calls[ctx])}
  PROVE  VarInv' /\ ScopesStep
<1>1. VarInv' /\ Bound' = {} /\ Depth' \in {0, Depth}
  BY BecomesSound DEF Depth
<1>2. Vars!S!Clear
  BY <1>1 DEF Vars!S!Clear, Bound, Depth
<1> QED BY <1>1, <1>2 DEF ScopesStep, Vars!S!Next

\* A memory without slots, variables and calls that hide any.
LEMMA BareSound ==
  ASSUME NEW m \in Memory, m.slots = <<>>, m.cache = Vars!NoCache, m.names = Vars!NoNames,
         \A g \in 1..Len(m.calls) : m.calls[g] = <<>>
  PROVE  Sound(m)
<1>1. Len(m.slots) = 0
  BY DEF Memory
<1>2. SlotsPart(m.slots, m.names, 0)
  BY <1>1, NoNamesTyped, VariablesAssumption DEF SlotsPart
<1>3. IndexPart(m.slots, m.names)
  <2>1. Indexes(m.slots, m.names)
    BY <1>1, NoNamesTyped DEF Indexes
  <2> QED BY <1>1, <2>1 DEF IndexPart
<1>4. CachePart(m.slots, m.cache, m.names)
  BY <1>1, NoNamesTyped, NoCacheTyped, Shapes DEF CachePart, Valid
<1>5. PendingAll(m.slots, m.calls)
  <2>1. \A k, g, i : ~Waiting(m.calls, k, g, i)
    <3> SUFFICES ASSUME NEW k, NEW g, NEW i, Waiting(m.calls, k, g, i) PROVE FALSE
      OBVIOUS
    <3>1. i \in 1..Len(m.calls[g]) /\ m.calls[g] = <<>>
      BY DEF Waiting
    <3> QED BY <3>1
  <2> QED BY <2>1 DEF PendingAll, PendingPart
<1> QED BY <1>2, <1>3, <1>4, <1>5 DEF Sound, Rest

\* No variable is there at the beginning.
LEMMA VarInit == Vars!Init => VarInv /\ Vars!S!Init
<1> SUFFICES ASSUME Vars!Init PROVE VarInv /\ Vars!S!Init
  OBVIOUS
<1>1. ctx \in Contexts /\ calls[ctx] = <<>>
      /\ Vars!Now = [slots |-> <<>>, calls |-> <<>>, cache |-> Vars!NoCache, names |-> Vars!NoNames]
  BY VariablesAssumption DEF Vars!Init, Vars!Now
<1> DEFINE m == Vars!Now
<1>2. m \in Memory
  BY <1>1, NoCacheTyped, NoNamesTyped DEF Memory
<1>3. m.slots = <<>> /\ m.cache = Vars!NoCache /\ m.names = Vars!NoNames /\ m.calls = <<>>
      /\ \A g \in 1..Len(m.calls) : m.calls[g] = <<>>
  BY <1>1
<1> HIDE DEF m
<1>4. Sound(m)
  BY <1>2, <1>3, BareSound
<1>5. Scoping(m) /\ Vars!Bindings(m) = {}
  BY <1>3, <1>4, NoBindings
<1>6. VarInv
  BY <1>1, <1>5 DEF VarInv, Vars!Init, m
<1>7. Len(calls[ctx]) = 0
  BY <1>1
<1> QED BY <1>5, <1>6, <1>7 DEF Vars!S!Init, m

\* A new variable outside of all calls, or in none: Make.
LEMMA MadeBinding ==
  ASSUME NEW m \in Memory, Scoping(m), Vars!HasRoom(m), NEW name \in Names, NEW type \in Types,
         NEW u \in BOOLEAN, <<name, type>> \in Vars!Keys, Vars!Find(m, name, type) = 0
  PROVE  LET x == Vars!Made(m, name, type, u)
         IN  Scoping(x) /\ x.calls = m.calls /\ Adds(m, x, <<name, type>>, 0)
<1> DEFINE x == Vars!Made(m, name, type, u)
           s == Vars!FreeSlot(m).slot
<1>1. Sound(x) /\ x.calls = m.calls /\ Gains(m, x, name, type)
  BY MadeSound DEF Scoping
<1> HIDE DEF x
<1>2. x \in Memory
  BY <1>1 DEF Sound, Rest
<1>3. NewIn(m, x, s, name, type)
  BY <1>1, <1>2, GainsNew DEF Scoping
<1> DEFINE d == 0
<1>4. x.calls = m.calls /\ d = 0
  BY <1>1
<1> HIDE DEF d, s
<1>5. Scoping(x) /\ Adds(m, x, <<name, type>>, d)
  BY <1>1, <1>2, <1>3, <1>4, NewBinding
<1> QED BY <1>1, <1>4, <1>5 DEF x

\* A statement that uses a variable is a step of Scopes if it makes one.
LEMMA ExecuteKeeps ==
  ASSUME VarInv, NEW r \in Vars!Statements, Vars!Execute(r)
  PROVE  VarInv' /\ ScopesStep
<1> DEFINE m == Vars!Now
           t == Vars!TypeOf(m, r)
           s == Vars!Find(m, r.name, t)
           b == r.type = "bare"
           made == Vars!Made(m, r.name, t, b)
<1>1. Scoping(m) /\ Sound(m) /\ m \in Memory /\ m.calls = calls[ctx]
  BY NowMemory
<1>2. /\ s # 0 => Vars!Becomes(Vars!Compiled(m, r, s))
      /\ s = 0 => /\ Vars!HasRoom(m)
                  /\ \/ Vars!Becomes(made)
                     \/ Vars!Becomes(Vars!Compiled(made, r, Vars!Find(made, r.name, t)))
  BY DEF Vars!Execute
<1>3. b \in BOOLEAN
  OBVIOUS
<1> HIDE DEF b
<1>4. /\ r.name \in Names /\ t \in Types
      /\ \/ r.type # "bare" /\ t = r.type
         \/ t = Default
         \/ \E y : Has(m, y, r.name, t)
  <2> HIDE DEF m
  <2> QED BY <1>1, TypeFound
<1>5. s = 0 => <<r.name, t>> \in Vars!Keys
  <2>1. CASE r.type # "bare" /\ t = r.type
    BY <1>4, <2>1 DEF Vars!Statements, Vars!Keys
  <2>2. CASE t = Default
    BY <1>4, <2>2 DEF Vars!Keys
  <2>3. CASE \E y : Has(m, y, r.name, t)
    <3> HIDE DEF m, t
    <3> QED BY <1>1, <2>3, NothingFound
  <2> QED BY <1>4, <2>1, <2>2, <2>3
<1>6. \A x, y : LET z == Vars!Compiled(x, r, y) IN x \in Memory => z.slots = x.slots /\ z.calls = x.calls
  BY DEF Vars!Compiled, Memory
<1>7. CASE s # 0
  <2> HIDE DEF m, t
  <2>1. Has(m, s, r.name, t)
    BY <1>1, <1>7, Found
  <2> DEFINE z == Vars!Compiled(m, r, s)
  <2>2. Vars!Becomes(z) /\ z.slots = m.slots /\ z.calls = m.calls
    BY <1>1, <1>2, <1>6, <1>7
  <2> HIDE DEF s
  <2>3. Sound(z)
    BY <1>1, <2>1, CompiledSound DEF Has
  <2> HIDE DEF z
  <2>4. Scoping(z)
    BY <1>1, <2>2, <2>3 DEF Scoping
  <2> QED BY <2>2, <2>4, StepSame DEF m
<1>8. CASE s = 0
  <2> DEFINE k == <<r.name, t>>
             y == Vars!Find(made, r.name, t)
             z == Vars!Compiled(made, r, y)
  <2>1. k \in Vars!Keys /\ Vars!HasRoom(m) /\ (Vars!Becomes(made) \/ Vars!Becomes(z))
    BY <1>2, <1>5, <1>8
  <2> HIDE DEF m, t
  <2>2. Scoping(made) /\ made.calls = m.calls /\ Adds(m, made, k, 0)
    BY <1>1, <1>3, <1>4, <1>8, <2>1, MadeBinding
  <2>3. \E j \in 1..Len(made.slots) : /\ <<r.name, t, j>> \in made.names.index
                                      /\ Has(made, j, r.name, t)
    BY <1>1, <1>3, <1>4, <2>1, MadeSound
  <2>4. \A a \in Vars!Bindings(m) : a.key # k
    BY <1>1, <1>8, KeyBindings
  <2> HIDE DEF made, s, k
  <2>5. made \in Memory /\ Sound(made)
    BY <2>2 DEF Scoping, Sound, Rest
  <2>6. Has(made, y, r.name, t)
    BY <2>3, <2>5, Found
  <2> HIDE DEF y
  <2>7. Sound(z) /\ z.slots = made.slots /\ z.calls = made.calls
    BY <1>6, <2>5, <2>6, CompiledSound DEF Has
  <2> HIDE DEF z
  <2>8. Scoping(z) /\ z \in Memory
    BY <2>2, <2>7 DEF Scoping, Sound, Rest
  <2>9. Adds(m, z, k, 0)
    <3>1. \A j : Vars!LocalIn(z, j) = Vars!LocalIn(made, j)
      BY <2>7 DEF Vars!LocalIn
    <3>2. \A j, g : Vars!SavedBy(z, g, j) = Vars!SavedBy(made, g, j)
      BY <2>7 DEF Vars!SavedBy
    <3>3. Vars!Bindings(z) = Vars!Bindings(made)
      BY <2>2, <2>5, <2>7, <2>8, <3>1, <3>2, SameBindings
    <3> QED BY <2>2, <3>3 DEF Adds
  <2>10. CASE Vars!Becomes(made)
    <3>1. Len(made.calls) = Len(calls[ctx])
      BY <1>1, <2>2
    <3> QED BY <2>1, <2>2, <2>4, <2>10, <3>1, StepMake DEF m
  <2>11. CASE Vars!Becomes(z)
    <3>1. Len(z.calls) = Len(calls[ctx])
      BY <1>1, <2>2, <2>7
    <3> QED BY <2>1, <2>4, <2>8, <2>9, <2>11, <3>1, StepMake DEF m
  <2> QED BY <2>1, <2>10, <2>11
<1> QED BY <1>7, <1>8

\* mmb_cmd_dim in a LOCAL is one of Scopes if it makes or hides a variable.
LEMMA DimLocalKeeps ==
  ASSUME VarInv, NEW k \in Vars!Keys, NEW u \in BOOLEAN, Plain => u,
         Vars!DimLocal(k[1], k[2], u)
  PROVE  VarInv' /\ ScopesStep
<1> DEFINE m == Vars!Now
           name == k[1]
           type == k[2]
           s == Vars!Find(m, name, type)
           e == Len(calls[ctx])
<1>1. Scoping(m) /\ Sound(m) /\ m \in Memory /\ m.calls = calls[ctx] /\ m.calls \in Seq(Seq(Save))
  BY NowMemory, Parts
<1>2. name \in Names /\ type \in Types /\ <<name, type>> = k
  BY VariablesAssumption DEF Vars!Keys
<1>3. \/ s = 0 /\ Vars!HasRoom(m) /\ Vars!Becomes(Vars!LocalMade(m, name, type, u))
      \/ s # 0 /\ Vars!IsLocal(m, s) /\ Vars!Becomes(m)
      \/ s # 0 /\ ~Vars!IsLocal(m, s) /\ Vars!Becomes(Vars!Hidden(m, s, u))
  BY DEF Vars!DimLocal
<1> HIDE DEF m, name, type
<1>4. CASE s = 0 /\ Vars!HasRoom(m) /\ Vars!Becomes(Vars!LocalMade(m, name, type, u))
  <2> DEFINE x == Vars!LocalMade(m, name, type, u)
             y == Vars!FreeSlot(m).slot
             g == Len(m.calls)
             d == IF m.calls = <<>> THEN 0 ELSE g
  <2>1. /\ Sound(x) /\ Gains(m, x, name, type)
        /\ m.calls = <<>> => x.calls = m.calls
        /\ m.calls # <<>> => x.calls = [m.calls EXCEPT ![g] = Append(m.calls[g], Alone(y))]
    <3>1. Plain => u
      OBVIOUS
    <3> HIDE DEF s
    <3>2. LocallyMade(m, x, name, type)
      BY <1>1, <1>2, <1>4, <3>1, LocalMadeSound, SMTT(30)
    <3> HIDE DEF x
    <3> QED BY <3>2 DEF LocallyMade
  <2> HIDE DEF x, y
  <2>2. x \in Memory
    BY <2>1 DEF Sound, Rest
  <2>3. NewIn(m, x, y, name, type)
    BY <1>1, <1>4, <2>1, <2>2, GainsNew DEF y
  <2>4. \/ x.calls = m.calls /\ d = 0
        \/ /\ m.calls # <<>> /\ d = Len(m.calls)
           /\ x.calls = [m.calls EXCEPT ![d] = Append(m.calls[d], Alone(y))]
    BY <2>1
  <2>5. m.calls # <<>> => Len(m.calls) # 0 /\ Len(x.calls) = Len(m.calls)
    <3> SUFFICES ASSUME m.calls # <<>> PROVE Len(m.calls) # 0 /\ Len(x.calls) = Len(m.calls)
      OBVIOUS
    <3> DEFINE T == Seq(Save)
               cs == m.calls
    <3>1. cs \in Seq(T) /\ cs # <<>>
      BY <1>1
    <3>2. x.calls = [cs EXCEPT ![g] = Append(cs[g], Alone(y))]
      BY <2>1
    <3>3. DOMAIN x.calls = DOMAIN cs /\ x.calls \in Seq(T)
      BY <2>2, <3>2, Parts
    <3> HIDE DEF T, cs
    <3>4. Len(cs) # 0 /\ Len(x.calls) = Len(cs)
      BY <3>1, <3>3
    <3> QED BY <3>4 DEF cs
  <2>6. \A b \in Vars!Bindings(m) : b.key # k
    BY <1>1, <1>2, <1>4, KeyBindings
  <2>7. Scoping(x) /\ Adds(m, x, k, d)
    <3> HIDE DEF d
    <3>1. Scoping(x) /\ Adds(m, x, <<name, type>>, d)
      BY <1>1, <1>2, <1>4, <2>1, <2>2, <2>3, <2>4, NewBinding
    <3> QED BY <1>2, <3>1
  <2>8. CASE m.calls = <<>>
    <3>1. Adds(m, x, k, 0) /\ Len(x.calls) = Len(calls[ctx])
      BY <1>1, <2>1, <2>7, <2>8
    <3> QED BY <1>4, <2>6, <2>7, <3>1, StepMake DEF m, x
  <2>9. CASE m.calls # <<>>
    <3>1. /\ Adds(m, x, k, Len(calls[ctx])) /\ Len(calls[ctx]) # 0
          /\ Len(x.calls) = Len(calls[ctx])
      BY <1>1, <2>5, <2>7, <2>9
    <3> QED BY <1>4, <2>6, <2>7, <3>1, StepLocal DEF m, x
  <2> QED BY <2>8, <2>9
<1>5. CASE s # 0 /\ Vars!IsLocal(m, s) /\ Vars!Becomes(m)
  BY <1>1, <1>5, StepSame DEF m
<1>6. CASE s # 0 /\ ~Vars!IsLocal(m, s) /\ Vars!Becomes(Vars!Hidden(m, s, u))
  <2>1. Has(m, s, name, type)
    BY <1>1, <1>6, Found
  <2> HIDE DEF s
  <2> DEFINE x == Vars!Hidden(m, s, u)
  <2>2. s \in 1..Len(m.slots) /\ m.slots[s].used /\ m.slots[s].name \in Names /\ Vars!Key(m, s) = k
    BY <1>2, <2>1 DEF Has, Vars!Key
  <2>3. /\ Scoping(x) /\ Adds(m, x, Vars!Key(m, s), Len(m.calls)) /\ Len(m.calls) \in Nat \ {0}
        /\ \A b \in Of(m, s) : b.depth < Len(m.calls)
    BY <1>1, <1>6, <2>2, HiddenBinding
  <2>4. x.calls = [m.calls EXCEPT ![Len(m.calls)] = Append(m.calls[Len(m.calls)], Outer(m.slots, s))]
    <3>1. /\ Sound(x)
          /\ x.calls = [m.calls EXCEPT ![Len(m.calls)] = Append(m.calls[Len(m.calls)], Outer(m.slots, s))]
          /\ Has(x, s, m.slots[s].name, m.slots[s].type)
          /\ x.slots[s].cell = Vars!FreshCell(m, s) /\ Len(x.slots) = Len(m.slots)
          /\ \A y \in 1..Len(m.slots) : y # s => x.slots[y] = m.slots[y]
      BY <1>1, <1>6, <2>2, HiddenSound, ZenonT(30)
    <3> QED BY <3>1
  <2>5. x \in Memory
    BY <2>3 DEF Scoping, Sound, Rest
  <2> HIDE DEF x
  <2>6. Len(x.calls) = Len(m.calls)
    <3> DEFINE T == Seq(Save)
    <3>1. DOMAIN x.calls = DOMAIN m.calls /\ x.calls \in Seq(T) /\ m.calls \in Seq(T)
      BY <1>1, <2>4, <2>5, Parts
    <3> HIDE DEF T
    <3> QED BY <3>1
  <2>7. \A b \in Vars!Bindings(m) : b.key = k => b.depth < Len(m.calls)
    BY <1>1, <1>2, <2>1, <2>3, KeyBindings
  <2> QED BY <1>1, <1>6, <2>2, <2>3, <2>6, <2>7, StepLocal DEF m, x
<1> QED BY <1>3, <1>4, <1>5, <1>6

\* ... mmb_cmd_local, ...
LEMMA LocalKeeps ==
  ASSUME VarInv, NEW k \in Vars!Keys, Vars!Local(k[1], k[2])
  PROVE  VarInv' /\ ScopesStep
<1>1. PICK u \in {TRUE} \cup (IF "suffix" \in Uses THEN {FALSE} ELSE {}) : Vars!DimLocal(k[1], k[2], u)
  BY DEF Vars!Local
<1>2. u \in BOOLEAN /\ (Plain => u)
  BY DEF Plain
<1> QED BY <1>1, <1>2, DimLocalKeeps

\* ... DIM, also one after a LOCAL that failed, ...
LEMMA DimKeeps ==
  ASSUME VarInv, NEW k \in Vars!Keys, Vars!Dim(k[1], k[2])
  PROVE  VarInv' /\ ScopesStep
<1>1. CASE dimming[ctx]
  <2>1. Vars!DimLocal(k[1], k[2], TRUE)
    BY <1>1 DEF Vars!Dim
  <2> QED BY <2>1, DimLocalKeeps
<1>2. CASE ~dimming[ctx]
  <2> DEFINE m == Vars!Now
             name == k[1]
             type == k[2]
             x == Vars!Made(m, name, type, TRUE)
  <2>1. Vars!HasRoom(m) /\ Vars!Becomes(x) /\ Vars!Find(m, name, type) = 0
    BY <1>2 DEF Vars!Dim
  <2>2. Scoping(m) /\ m \in Memory /\ m.calls = calls[ctx]
    BY NowMemory
  <2>3. name \in Names /\ type \in Types /\ <<name, type>> = k
    BY VariablesAssumption DEF Vars!Keys
  <2> HIDE DEF m, name, type
  <2>4. Scoping(x) /\ x.calls = m.calls /\ Adds(m, x, k, 0)
    BY <2>1, <2>2, <2>3, MadeBinding
  <2> HIDE DEF x
  <2>5. \A b \in Vars!Bindings(m) : b.key # k
    BY <2>1, <2>2, <2>3, KeyBindings
  <2>6. Len(x.calls) = Len(calls[ctx])
    BY <2>2, <2>4
  <2> QED BY <2>1, <2>4, <2>5, <2>6, StepMake DEF m
<1> QED BY <1>1, <1>2

\* One call more has made nothing local.
LEMMA CallSound ==
  ASSUME NEW m \in Memory, Sound(m), NEW cs, cs = m.calls
  PROVE  LET ds == Append(cs, <<>>)
             x == [m EXCEPT !.calls = ds]
         IN  /\ Sound(x) /\ x.slots = m.slots /\ x.calls = ds
             /\ Len(cs) \in Nat /\ Len(ds) = Len(cs) + 1 /\ ds[Len(cs) + 1] = <<>>
             /\ \A g \in 1..Len(cs) : ds[g] = cs[g]
<1> DEFINE ds == Append(cs, <<>>)
           x == [m EXCEPT !.calls = ds]
<1>1. cs \in Seq(Seq(Save))
  BY Parts
<1>4. Len(cs) \in Nat /\ ds \in Seq(Seq(Save)) /\ Len(ds) = Len(cs) + 1
      /\ ds[Len(cs) + 1] = <<>>
      /\ \A g \in 1..Len(cs) : ds[g] = cs[g]
  <2> DEFINE T == Seq(Save)
  <2>1. cs \in Seq(T) /\ <<>> \in T
    BY <1>1
  <2> HIDE DEF T
  <2>2. ds \in Seq(T)
    BY <2>1
  <2> QED BY <2>1, <2>2 DEF T
<1> HIDE DEF ds
<1>5. x \in Memory /\ x.slots = m.slots /\ x.calls = ds /\ x.cache = m.cache
      /\ x.names = m.names
  BY <1>1, <1>4 DEF Memory
<1> HIDE DEF x
<1>6. PendingAll(m.slots, ds)
  <2> SUFFICES ASSUME NEW k \in Nat PROVE PendingPart(m.slots, ds, k)
    BY DEF PendingAll
  <2>1. ASSUME NEW g \in Nat, NEW i \in Nat, Waiting(ds, k, g, i)
        PROVE  \A n \in Nat : n >= i => Waiting(cs, n, g, i) /\ ds[g][i] = cs[g][i]
    <3>1. g \in 1..Len(cs) + 1 /\ i \in 1..Len(ds[g])
      BY <2>1, <1>4 DEF Waiting
    <3>2. g # Len(cs) + 1
      BY <3>1, <1>4
    <3>3. g \in 1..Len(cs)
      <4> DEFINE n == Len(cs)
      <4>1. n \in Nat /\ g \in 1..n + 1 /\ g # n + 1
        BY <3>1, <3>2, <1>4
      <4> HIDE DEF n
      <4>2. g \in 1..n
        BY <4>1
      <4> QED BY <4>2 DEF n
    <3>4. ds[g] = cs[g]
      BY <3>3, <1>4
    <3> QED BY <3>1, <3>3, <3>4 DEF Waiting
  <2>2. PendingAll(m.slots, cs)
    BY DEF Sound
  <2>3. ASSUME NEW g \in Nat, NEW i \in Nat,
               Waiting(ds, k, g, i) PROVE Pending(m.slots, ds[g][i])
    <3>1. Waiting(cs, i, g, i) /\ ds[g][i] = cs[g][i]
      BY <2>1, <2>3
    <3> QED BY <3>1, <2>2 DEF PendingAll, PendingPart
  <2>4. ASSUME NEW g \in Nat, NEW i \in Nat, NEW h \in Nat, NEW j \in Nat,
               Waiting(ds, k, g, i), Waiting(ds, k, h, j), ds[g][i].slot = ds[h][j].slot,
               g < h \/ (g = h /\ i < j)
        PROVE  Later(ds[h][j])
    <3> DEFINE n == i + j
    <3>1. n \in Nat /\ n >= i /\ n >= j
      OBVIOUS
    <3> HIDE DEF n
    <3>2. /\ Waiting(cs, n, g, i) /\ Waiting(cs, n, h, j)
          /\ ds[g][i] = cs[g][i] /\ ds[h][j] = cs[h][j]
      BY <3>1, <2>1, <2>4
    <3>3. PendingPart(m.slots, cs, n)
      BY <3>1, <2>2 DEF PendingAll
    <3> QED BY <3>2, <3>3, <2>4 DEF PendingPart
  <2> QED BY <2>3, <2>4 DEF PendingPart
<1>7. Sound(x)
  BY <1>5, <1>6 DEF Sound, Rest
<1> QED BY <1>4, <1>5, <1>7 DEF x, ds

\* ... a call, ...
LEMMA CallKeeps ==
  ASSUME VarInv, Vars!Call
  PROVE  VarInv' /\ ScopesStep
<1> DEFINE m == Vars!Now
           cs == m.calls
           ds == Append(cs, <<>>)
           x == [m EXCEPT !.calls = ds]
           e == Len(cs)
<1>1. Scoping(m) /\ Sound(m) /\ m \in Memory /\ cs = calls[ctx]
  BY NowMemory
<1>2. Vars!Becomes(x) /\ Len(calls[ctx]) < MaxCalls
  <2>1. [m EXCEPT !.calls = Append(@, <<>>)] = x
    OBVIOUS
  <2> QED BY <2>1 DEF Vars!Call
<1> HIDE DEF m
<1>3. /\ Sound(x) /\ x.slots = m.slots /\ x.calls = ds
      /\ e \in Nat /\ Len(ds) = e + 1 /\ ds[e + 1] = <<>>
      /\ \A g \in 1..e : ds[g] = cs[g]
  BY <1>1, CallSound
<1> HIDE DEF x, ds
<1>4. x \in Memory
  BY <1>3 DEF Sound, Rest
<1>5. OwnPart(x.slots, x.calls)
  <2>1. OwnPart(m.slots, cs)
    BY <1>1 DEF Scoping
  <2>2. Len(ds) <= MaxCalls
    BY <1>1, <1>2, <1>3, VariablesAssumption
  <2>3. ASSUME NEW g \in 1..Len(ds) PROVE (g \in 1..e /\ ds[g] = cs[g]) \/ ds[g] = <<>>
    BY <1>3
  <2>4. Len(<<>>) = 0
    OBVIOUS
  <2>5. \A g \in 1..Len(ds) : Once(ds[g])
    BY <2>1, <2>3, <2>4 DEF OwnPart, Once
  <2>6. \A g \in 1..Len(ds) : \A i \in 1..Len(ds[g]) :
          IF ds[g][i].existed THEN At(ds[g][i].cell, ds[g][i].slot) ELSE ds[g][i].cell = <<>>
    BY <2>1, <2>3, <2>4 DEF OwnPart
  <2> QED BY <1>3, <2>1, <2>2, <2>5, <2>6 DEF OwnPart
<1>6. Scoping(x)
  BY <1>3, <1>5 DEF Scoping
<1>7. \A y : /\ Vars!LocalIn(x, y) = Vars!LocalIn(m, y)
             /\ \A g \in Vars!LocalIn(m, y) : Vars!SavedBy(x, g, y) = Vars!SavedBy(m, g, y)
  <2> SUFFICES ASSUME NEW y
               PROVE  /\ Vars!LocalIn(x, y) = Vars!LocalIn(m, y)
                      /\ \A g \in Vars!LocalIn(m, y) : Vars!SavedBy(x, g, y) = Vars!SavedBy(m, g, y)
    OBVIOUS
  <2>1. Recorded(m, y) /\ Recorded(x, y)
    BY <1>1, <1>4, <1>6, SavedOnce DEF Scoping
  <2>2. /\ \A g \in 1..e : \A i \in 1..Len(cs[g]) :
             cs[g][i].slot = y => g \in Vars!LocalIn(m, y) /\ Vars!SavedBy(m, g, y) = cs[g][i]
        /\ \A g \in Vars!LocalIn(m, y) : g \in 1..e /\ \E i \in 1..Len(cs[g]) : cs[g][i].slot = y
    BY <2>1 DEF Recorded
  <2>3. /\ \A g \in 1..Len(ds) : \A i \in 1..Len(ds[g]) :
             ds[g][i].slot = y => g \in Vars!LocalIn(x, y) /\ Vars!SavedBy(x, g, y) = ds[g][i]
        /\ \A g \in Vars!LocalIn(x, y) : g \in 1..Len(ds) /\ \E i \in 1..Len(ds[g]) : ds[g][i].slot = y
    BY <1>3, <2>1 DEF Recorded
  <2> HIDE DEF cs, e
  <2>4. ASSUME NEW g \in Vars!LocalIn(m, y)
        PROVE  g \in Vars!LocalIn(x, y) /\ Vars!SavedBy(x, g, y) = Vars!SavedBy(m, g, y)
    <3>1. PICK i \in 1..Len(cs[g]) : cs[g][i].slot = y
      BY <2>2
    <3>2. g \in 1..e /\ g \in 1..Len(ds) /\ ds[g] = cs[g]
      BY <1>3, <2>2
    <3>3. Vars!SavedBy(m, g, y) = cs[g][i]
      BY <2>2, <3>1, <3>2
    <3>4. g \in Vars!LocalIn(x, y) /\ Vars!SavedBy(x, g, y) = ds[g][i]
      BY <2>3, <3>1, <3>2
    <3> QED BY <3>2, <3>3, <3>4
  <2>5. ASSUME NEW g \in Vars!LocalIn(x, y) PROVE g \in Vars!LocalIn(m, y)
    <3>1. PICK i \in 1..Len(ds[g]) : ds[g][i].slot = y
      BY <2>3
    <3>2. g \in 1..e + 1 /\ ds[g] # <<>>
      BY <1>3, <2>3, <3>1
    <3>3. g \in 1..e /\ ds[g] = cs[g]
      BY <1>3, <3>2
    <3> QED BY <2>2, <3>1, <3>3
  <2> QED BY <2>4, <2>5
<1>8. Vars!Bindings(x) = Vars!Bindings(m)
  BY <1>1, <1>3, <1>4, <1>6, <1>7, SameBindings
<1>9. VarInv' /\ Bound' = Vars!Bindings(x) /\ Depth' = Len(x.calls)
  BY <1>2, <1>6, BecomesSound
<1>10. Bound' = Bound /\ Depth' = Depth + 1
  BY <1>1, <1>3, <1>8, <1>9 DEF Bound, Depth, m
<1>11. Vars!S!Call
  BY <1>10 DEF Vars!S!Call, Bound, Depth
<1> QED BY <1>9, <1>11 DEF ScopesStep, Vars!S!Next

\* ... its return, ...
LEMMA ReturnKeeps ==
  ASSUME VarInv, Vars!Return
  PROVE  VarInv' /\ ScopesStep
<1> DEFINE m == Vars!Now
           x == Vars!Returned(m)
<1>1. Scoping(m) /\ Sound(m) /\ m \in Memory /\ m.calls = calls[ctx] /\ m.calls \in Seq(Seq(Save))
  BY NowMemory, Parts
<1>2. m.calls # <<>> /\ Vars!Becomes(x)
  BY <1>1 DEF Vars!Return
<1> HIDE DEF m
<1>3. Scoping(x) /\ x.calls = Vars!Front(m.calls)
      /\ Vars!Bindings(x) = {b \in Vars!Bindings(m) : b.depth < Len(m.calls)}
  BY <1>1, <1>2, ReturnedOwn, ReturnedSound, ReturnedBindings
<1>4. Len(m.calls) \in Nat \ {0} /\ Len(Vars!Front(m.calls)) = Len(m.calls) - 1
  BY <1>1, <1>2, FrontFields
<1> HIDE DEF x
<1>5. VarInv' /\ Bound' = Vars!Bindings(x) /\ Depth' = Len(x.calls)
  BY <1>2, <1>3, BecomesSound
<1>6. Depth # 0 /\ Depth' = Depth - 1 /\ Bound' = {b \in Bound : b.depth < Depth}
  BY <1>1, <1>3, <1>4, <1>5 DEF Bound, Depth, m
<1>7. Vars!S!Return
  BY <1>6 DEF Vars!S!Return, Bound, Depth
<1> QED BY <1>5, <1>7 DEF ScopesStep, Vars!S!Next

\* mmb_clear_vars leaves a memory without variables.
LEMMA ClearedFields ==
  ASSUME NEW m \in Memory, NEW cs \in Seq(Seq(Save))
  PROVE  LET x == [Vars!Cleared(m) EXCEPT !.calls = cs]
         IN  /\ x \in Memory /\ x.slots = <<>> /\ x.cache = Vars!NoCache
                /\ x.names = Vars!NoNames
             /\ x.calls = cs
             /\ cs = m.calls => x = Vars!Cleared(m)
<1>1. <<>> \in Seq(Slot)
  OBVIOUS
<1> QED BY <1>1, NoCacheTyped, NoNamesTyped DEF Vars!Cleared, Memory

\* ... CLEAR where no LOCAL is, ...
LEMMA ClearKeeps ==
  ASSUME VarInv, "clear" \notin Uses, Vars!Clear
  PROVE  VarInv' /\ ScopesStep
<1>1. Scoping(Vars!Now) /\ Vars!Now \in Memory /\ Vars!Now.calls = calls[ctx]
      /\ calls[ctx] \in Seq(Seq(Save))
  BY NowMemory, Parts
<1>2. \A g \in 1..Len(calls[ctx]) : calls[ctx][g] = <<>>
  BY <1>1 DEF Vars!Clear
<1> DEFINE m == Vars!Now
           cs == calls[ctx]
           x == [Vars!Cleared(m) EXCEPT !.calls = cs]
<1> HIDE DEF m, cs
<1>3. /\ x \in Memory /\ x.slots = <<>> /\ x.cache = Vars!NoCache /\ x.names = Vars!NoNames
      /\ x.calls = cs /\ x = Vars!Cleared(m)
  BY <1>1, ClearedFields DEF m, cs
<1>4. Vars!Becomes(Vars!Cleared(m))
  BY DEF Vars!Clear, m
<1> HIDE DEF x
<1>5. Sound(x)
  BY <1>2, <1>3, BareSound DEF cs
<1>6. OwnPart(m.slots, x.calls)
  BY <1>1, <1>3 DEF Scoping, m, cs
<1>7. Scoping(x) /\ Vars!Bindings(x) = {}
  BY <1>3, <1>5, <1>6, NoBindings
<1>8. Vars!Becomes(x) /\ Len(x.calls) \in {0, Len(calls[ctx])}
  BY <1>3, <1>4 DEF cs
<1> QED BY <1>7, <1>8, StepClear

\* ... and RUN.
LEMMA RunKeeps ==
  ASSUME VarInv, Vars!Run
  PROVE  VarInv' /\ ScopesStep
<1>1. Sound(Vars!Now) /\ Vars!Now \in Memory /\ <<>> \in Seq(Seq(Save))
  BY NowMemory
<1> DEFINE m == Vars!Now
           cs == <<>>
           x == [Vars!Cleared(m) EXCEPT !.calls = cs]
<1>2. Vars!Becomes(x)
  BY DEF Vars!Run
<1> HIDE DEF m, cs
<1>3. /\ x \in Memory /\ x.slots = <<>> /\ x.cache = Vars!NoCache /\ x.names = Vars!NoNames
      /\ x.calls = cs
  BY <1>1, ClearedFields DEF m, cs
<1> HIDE DEF x
<1>4. Sound(x)
  BY <1>3, BareSound DEF cs
<1>5. x.calls = <<>> /\ Len(x.calls) = 0
  BY <1>3 DEF cs
<1>6. Scoping(x) /\ Vars!Bindings(x) = {}
  BY <1>3, <1>4, <1>5, NoBindings
<1> QED BY <1>2, <1>5, <1>6, StepClear

\* Each statement keeps the invariant, and is a step of Scopes or none.
LEMMA NextKeeps ==
  ASSUME VarInv, "clear" \notin Uses, [Vars!Next]_varVars
  PROVE  VarInv' /\ ScopesStep
<1>1. CASE \E r \in Vars!Statements : Vars!Execute(r)
  BY <1>1, ExecuteKeeps
<1>2. CASE \E k \in Vars!Keys : Vars!Local(k[1], k[2]) \/ Vars!Dim(k[1], k[2])
  BY <1>2, LocalKeeps, DimKeeps
<1>3. CASE Vars!Call
  BY <1>3, CallKeeps
<1>4. CASE Vars!Return
  BY <1>4, ReturnKeeps
<1>5. CASE Vars!Clear
  BY <1>5, ClearKeeps
<1>6. CASE Vars!Run
  BY <1>6, RunKeeps
<1>7. CASE UNCHANGED varVars
  <2>1. Vars!Now' = Vars!Now
    BY <1>7 DEF varVars, Vars!Now
  <2>2. VarInv'
    BY <1>7, <2>1 DEF varVars, VarInv
  <2>3. Bound' = Bound /\ Depth' = Depth
    BY <1>7, <2>1 DEF varVars, Bound, Depth
  <2> QED BY <2>2, <2>3 DEF ScopesStep
<1> QED BY <1>1, <1>2, <1>3, <1>4, <1>5, <1>6, <1>7 DEF Vars!Next

\* In a sound memory no slot is lost and none is free twice.
LEMMA SoundSlots == VarInv => Vars!SlotsSound
<1> SUFFICES ASSUME VarInv PROVE Vars!SlotsSound
  OBVIOUS
<1> DEFINE v == slots[ctx]
           f == names.free
           h == names.high
           used == {s \in 1..Len(v) : v[s].used}
<1>1. Sound(Vars!Now) /\ Vars!Now \in Memory /\ Vars!Now.slots = v /\ Vars!Now.names = names
  BY NowMemory
<1>2. v \in Seq(Slot) /\ f \in Seq(Nat) /\ h \in Nat /\ Len(v) \in Nat /\ Len(f) \in Nat
  BY <1>1, Parts DEF Static
<1>3. SlotsPart(v, names, 0)
  BY <1>1 DEF Sound, Rest
<1>4. Vars!ToSet(f) = {f[i] : i \in 1..Len(f)}
  <2>1. DOMAIN f = 1..Len(f)
    BY <1>2
  <2> HIDE DEF f
  <2> QED BY <2>1 DEF Vars!ToSet
<1>5. used \cap Vars!ToSet(f) = {}
  BY <1>3, <1>4 DEF SlotsPart
<1>6. used \cup Vars!ToSet(f) = 1..h
  <2>1. \A s \in 1..h : s \in 1..Len(v) /\ s # 0
    BY <1>2, <1>3 DEF SlotsPart
  <2>2. \A s \in 1..h : s \in used \/ s \in Vars!ToSet(f)
    BY <2>1, <1>3, <1>4 DEF SlotsPart
  <2>3. \A s \in used : s \in 1..h
    BY <1>2, <1>3 DEF SlotsPart
  <2>4. \A s \in Vars!ToSet(f) : s \in 1..h
    BY <1>3, <1>4 DEF SlotsPart
  <2> HIDE DEF used, f, h
  <2> QED BY <2>2, <2>3, <2>4
<1>7. Cardinality(Vars!ToSet(f)) = Len(f)
  <2> DEFINE D == 1..Len(f)
  <2>1. f \in Surjection(D, Vars!ToSet(f))
    <3> HIDE DEF f
    <3> QED BY <1>2, <1>4 DEF Surjection
  <2>2. \A i, j \in D : f[i] = f[j] => i = j
    BY <1>3 DEF SlotsPart
  <2>3. IsFiniteSet(D) /\ Cardinality(D) = Len(f)
    <3> DEFINE n == Len(f)
    <3>1. n \in Nat
      BY <1>2
    <3> HIDE DEF n
    <3>2. /\ IsFiniteSet(1..n)
          /\ Cardinality(1..n) = IF 1 > n THEN 0 ELSE n - 1 + 1
      BY <3>1, FS_Interval
    <3>3. Cardinality(1..n) = n
      BY <3>1, <3>2
    <3> QED BY <3>2, <3>3 DEF n
  <2> HIDE DEF D
  <2>4. f \in Injection(D, Vars!ToSet(f))
    BY <2>1, <2>2 DEF Surjection, Injection, IsInjective
  <2>5. Cardinality(Vars!ToSet(f)) = Cardinality(D)
    BY <2>1, <2>3, <2>4, FS_Surjection
  <2> QED BY <2>3, <2>5
<1>8. {s \in DOMAIN v : v[s].used} = used
  BY <1>2
<1> QED BY <1>5, <1>6, <1>7, <1>8, SameSizes DEF Vars!SlotsSound

\* In a sound memory the indexes have what is used.
LEMMA IndexSound == VarInv /\ "suffix" \notin Uses => Vars!IndexAuthoritative
<1> SUFFICES ASSUME VarInv, Plain PROVE Vars!IndexAuthoritative
  BY DEF Plain
<1> DEFINE v == slots[ctx]
<1>1. Sound(Vars!Now) /\ Vars!Now \in Memory /\ Vars!Now.slots = v /\ Vars!Now.names = names
  BY NowMemory
<1>2. v \in Seq(Slot)
  BY <1>1, Parts
<1>3. IndexPart(v, names)
  BY <1>1 DEF Sound, Rest
<1> HIDE DEF v
<1>4. names.index = {<<v[s].name, v[s].type, s>> : s \in {u \in DOMAIN v : v[u].used}}
  <2>1. DOMAIN v = 1..Len(v)
    BY <1>2
  <2> QED BY <2>1, <1>3, Zenon DEF IndexPart, Indexes
<1>5. \A s \in {u \in DOMAIN v : v[u].used} : v[s].unsuffixed => Vars!Contains(names.bare, <<v[s].name, s>>)
  <2>1. DOMAIN v = 1..Len(v)
    BY <1>2
  <2> SUFFICES ASSUME NEW s \in 1..Len(v), v[s].used, v[s].unsuffixed
               PROVE  Vars!Contains(names.bare, <<v[s].name, s>>)
    BY <2>1
  <2> QED BY <1>3 DEF IndexPart, Vars!Contains
<1> QED BY <1>4, <1>5, Zenon DEF Vars!IndexAuthoritative, v

\* In a sound memory a statement that is replayed finds its variable.
LEMMA ReplaysSound == VarInv => Vars!ReplaysItsOwn
<1> SUFFICES ASSUME VarInv, NEW r \in Vars!Statements, Vars!Replays(Vars!Now, r)
             PROVE  LET e == cache[ctx][r]
                        v == slots[ctx][e.slot]
                    IN  v.used /\ v.name = e.name /\ v.type = e.type
  BY DEF Vars!ReplaysItsOwn
<1>1. Sound(Vars!Now) /\ Vars!Now.slots = slots[ctx] /\ Vars!Now.cache = cache[ctx]
  BY NowMemory
<1>2. Valid(Vars!Now.cache[r], Vars!Now.slots, Vars!Now.names.left)
  BY <1>1 DEF Sound, Rest, CachePart
<1> QED BY <1>1, <1>2 DEF Valid, Vars!Replays

-----------------------------------------------------------------------------
(* The program that runs: its frames leave the variables alone.            *)

\* What runs keeps the invariant of the variables, whichever part it takes.
LEMMA ProgramKeeps ==
  ASSUME "clear" \notin Uses
  PROVE  /\ InterpreterInit => VarInv /\ Vars!S!Init
         /\ VarInv /\ [InterpreterNext]_interpreterVars => VarInv' /\ ScopesStep
<1>1. InterpreterInit => VarInv /\ Vars!S!Init
  BY VarInit DEF InterpreterInit
<1>2. ASSUME VarInv, [InterpreterNext]_interpreterVars PROVE VarInv' /\ ScopesStep
  <2>1. [Vars!Next]_varVars
    BY <1>2 DEF InterpreterNext, interpreterVars
  <2> QED BY <1>2, <2>1, NextKeeps
<1> QED BY <1>1, <1>2

\* A slot that was handed out is used or free, and no slot is free twice, for any
\* program in which no CLEAR is reached while a LOCAL is (vars_free_slot,
\* mmb_local_restore).
THEOREM SlotsTheorem == "clear" \notin Uses => (InterpreterSpec => []SlotsSound)
<1> SUFFICES ASSUME "clear" \notin Uses PROVE InterpreterSpec => []SlotsSound
  OBVIOUS
<1>1. InterpreterInit => VarInv
  BY ProgramKeeps
<1>2. VarInv /\ [InterpreterNext]_interpreterVars => VarInv'
  BY ProgramKeeps
<1>3. VarInv => SlotsSound
  BY SoundSlots DEF SlotsSound
<1> QED BY <1>1, <1>2, <1>3, PTL DEF InterpreterSpec

\* The indexes know every variable and nothing else, where no LOCAL has a suffix:
\* a lookup that finds nothing means that there is no such variable (hash_ins,
\* hash_del, hash_rebuild).
THEOREM IndexTheorem ==
  "clear" \notin Uses /\ "suffix" \notin Uses => (InterpreterSpec => []IndexAuthoritative)
<1> SUFFICES ASSUME "clear" \notin Uses, "suffix" \notin Uses
             PROVE  InterpreterSpec => []IndexAuthoritative
  OBVIOUS
<1>1. InterpreterInit => VarInv
  BY ProgramKeeps
<1>2. VarInv /\ [InterpreterNext]_interpreterVars => VarInv'
  BY ProgramKeeps
<1>3. VarInv => IndexAuthoritative
  BY IndexSound DEF IndexAuthoritative
<1> QED BY <1>1, <1>2, <1>3, PTL DEF InterpreterSpec

\* A statement that is replayed from the cache finds in its slot the variable it
\* was compiled for, however often the slot was freed, taken again or hidden in
\* between (tc_entry_valid, var_bind_local).
THEOREM ReplaysTheorem == "clear" \notin Uses => (InterpreterSpec => []ReplaysItsOwn)
<1> SUFFICES ASSUME "clear" \notin Uses PROVE InterpreterSpec => []ReplaysItsOwn
  OBVIOUS
<1>1. InterpreterInit => VarInv
  BY ProgramKeeps
<1>2. VarInv /\ [InterpreterNext]_interpreterVars => VarInv'
  BY ProgramKeeps
<1>3. VarInv => ReplaysItsOwn
  BY ReplaysSound DEF ReplaysItsOwn
<1> QED BY <1>1, <1>2, <1>3, PTL DEF InterpreterSpec

\* LOCAL hides the variable of its key, which comes back with the call's return,
\* and no two variables share storage, for any number of slots, calls, names and
\* types: Variables implements Scopes (mmb_local_save, mmb_local_restore).
THEOREM ScopesTheorem == "clear" \notin Uses => (InterpreterSpec => Scoped)
<1> SUFFICES ASSUME "clear" \notin Uses PROVE InterpreterSpec => Scoped
  OBVIOUS
<1>1. InterpreterInit => VarInv /\ Vars!S!Init
  BY ProgramKeeps
<1>2. VarInv /\ [InterpreterNext]_interpreterVars => VarInv'
  BY ProgramKeeps
<1>3. VarInv /\ [InterpreterNext]_interpreterVars => [Vars!S!Next]_<<Bound, Depth>>
  BY ProgramKeeps DEF ScopesStep
<1> QED BY <1>1, <1>2, <1>3, PTL
        DEF InterpreterSpec, Scoped, Vars!Scoped, Vars!S!Spec, Bound, Depth

-----------------------------------------------------------------------------
(* The callers of the two machines of frames.  What FramesProofs has shown *)
(* of Frames holds of each of them: CallsDone and TrapsDone are the same   *)
(* machines, with their theorems.                                          *)

CallsDone == INSTANCE FramesProofs WITH MaxIf <- 0, Lines <- {}, OnError <- "abort"

TrapsDone == INSTANCE FramesProofs WITH
  MaxGosub <- 1, MaxNested <- 1, Kinds <- {"function", "event"}, OnError <- "goto"

\* The machine without a trap is the one that the theorem is about.
LEMMA SameCalls ==
  /\ Calls!Init => CallsDone!Init
  /\ [Calls!Next]_(Calls!vars) => [CallsDone!Next]_(CallsDone!vars)
BY DEF
       CallsDone!vars, Calls!vars, CallsDone!Frame, Calls!Frame, CallsDone!Loop,
       Calls!Loop, CallsDone!NoLoop, Calls!NoLoop, CallsDone!Gosub, Calls!Gosub,
       CallsDone!CFrame, Calls!CFrame, CallsDone!Lower, Calls!Lower, CallsDone!Higher,
       Calls!Higher, CallsDone!Pop, Calls!Pop, CallsDone!Top, Calls!Top,
       CallsDone!Least, Calls!Least, CallsDone!Greatest, Calls!Greatest,
       CallsDone!Clean, Calls!Clean, CallsDone!Entered, Calls!Entered,
       CallsDone!SelAfter, Calls!SelAfter, CallsDone!SelFreed, Calls!SelFreed,
       CallsDone!Restored, Calls!Restored, CallsDone!Returned, Calls!Returned,
       CallsDone!InKind, Calls!InKind, CallsDone!BodyDone, Calls!BodyDone,
       CallsDone!AtStatement, Calls!AtStatement, CallsDone!Executing, Calls!Executing,
       CallsDone!AtLineBoundary, Calls!AtLineBoundary, CallsDone!GuardedCallers,
       Calls!GuardedCallers, CallsDone!Trap, Calls!Trap, CallsDone!Abort, Calls!Abort,
       CallsDone!Unhandled, Calls!Unhandled, CallsDone!Skip, Calls!Skip,
       CallsDone!RaiseInStatement, Calls!RaiseInStatement, CallsDone!RaiseOutside,
       Calls!RaiseOutside, CallsDone!StatementError, Calls!StatementError,
       CallsDone!Break, Calls!Break, CallsDone!OpenIf, Calls!OpenIf, CallsDone!EndIf,
       Calls!EndIf, CallsDone!InlineIf, Calls!InlineIf, CallsDone!OpenSelect,
       Calls!OpenSelect, CallsDone!EndSelect, Calls!EndSelect, CallsDone!LoopRestored,
       Calls!LoopRestored, CallsDone!LowestSel, Calls!LowestSel, CallsDone!PoppedTo,
       Calls!PoppedTo, CallsDone!Reentered, Calls!Reentered, CallsDone!AfterReenter,
       Calls!AfterReenter, CallsDone!FreedByReenter, Calls!FreedByReenter,
       CallsDone!Do, Calls!Do, CallsDone!LoopBack, Calls!LoopBack,
       CallsDone!LeaveLoop, Calls!LeaveLoop, CallsDone!PushGosub, Calls!PushGosub,
       CallsDone!GosubStatement, Calls!GosubStatement, CallsDone!GosubNowhere,
       Calls!GosubNowhere, CallsDone!CallSub, Calls!CallSub, CallsDone!CallIslandSub,
       Calls!CallIslandSub, CallsDone!NestedPush, Calls!NestedPush,
       CallsDone!EnterFunction, Calls!EnterFunction, CallsDone!EnterEvent,
       Calls!EnterEvent, CallsDone!RefuseEvent, Calls!RefuseEvent,
       CallsDone!EnterExecute, Calls!EnterExecute, CallsDone!Entering, Calls!Entering,
       CallsDone!BodyStarted, Calls!BodyStarted, CallsDone!BindCall, Calls!BindCall,
       CallsDone!StartBody, Calls!StartBody, CallsDone!EntryError, Calls!EntryError,
       CallsDone!ReturnInLoop, Calls!ReturnInLoop, CallsDone!LoopEnds, Calls!LoopEnds,
       CallsDone!ReturnFromBody, Calls!ReturnFromBody, CallsDone!ReturnFromIsland,
       Calls!ReturnFromIsland, CallsDone!BindStopped, Calls!BindStopped,
       CallsDone!ExecuteEnds, Calls!ExecuteEnds, CallsDone!End, Calls!End,
       CallsDone!LoopStops, Calls!LoopStops, CallsDone!ProgramEnds, Calls!ProgramEnds,
       CallsDone!OnErrorGoto, Calls!OnErrorGoto, CallsDone!UnwindGosub,
       Calls!UnwindGosub, CallsDone!UnwindNested, Calls!UnwindNested,
       CallsDone!Trapped, Calls!Trapped, CallsDone!Aborted, Calls!Aborted,
       CallsDone!Run, Calls!Run, CallsDone!Init, Calls!Init, CallsDone!Structure,
       Calls!Structure, CallsDone!Call, Calls!Call, CallsDone!Leave, Calls!Leave,
       CallsDone!Failure, Calls!Failure, CallsDone!Program, Calls!Program,
       CallsDone!Next, Calls!Next

\* A behaviour of the part "calls" is one of that machine, and stays one.
LEMMA CallsPart ==
  /\ InterpreterInit /\ part = "calls" => CallsDone!Init
  /\ part = "calls" /\ [InterpreterNext]_interpreterVars =>
       (part = "calls")' /\ [CallsDone!Next]_(CallsDone!vars)
<1>1. Init => Calls!Init
  BY DEF Init, Calls!Init, Clean, Calls!Clean, NoLoop, Calls!NoLoop
<1>2. UNCHANGED vars => UNCHANGED Calls!vars
  BY DEF vars, Calls!vars
<1>3. part = "calls" /\ [InterpreterNext]_interpreterVars =>
        (part = "calls")' /\ (Calls!Next \/ UNCHANGED vars)
  BY DEF InterpreterNext, interpreterVars
<1> QED BY <1>1, <1>2, <1>3, SameCalls DEF InterpreterInit

\* The activity seen in the part "calls" is that of its machine.
LEMMA CallsActivity ==
  /\ part = "calls" /\ CallsDone!A!Init => Activity!Init
  /\ part = "calls" /\ (part = "calls")' /\ [CallsDone!A!Next]_(CallsDone!A!vars) =>
       [Activity!Next]_(Activity!vars)
<1> DEFINE r == IF part = "traps" THEN Traps!running ELSE Calls!running
           c == IF part = "traps" THEN Traps!callers ELSE Calls!callers
<1>1. part = "calls" => r = CallsDone!running /\ c = CallsDone!callers
  BY DEF
       CallsDone!StructureOf, Calls!StructureOf, CallsDone!Entries, Calls!Entries,
       CallsDone!OfEntry, Calls!OfEntry, CallsDone!CallerIn, Calls!CallerIn,
       CallsDone!NestedCallerOf, Calls!NestedCallerOf, CallsDone!FreshStructure,
       Calls!FreshStructure, CallsDone!running, Calls!running, CallsDone!callers,
       Calls!callers
<1>2. (part = "calls")' => r' = CallsDone!running' /\ c' = CallsDone!callers'
  BY DEF
       CallsDone!StructureOf, Calls!StructureOf, CallsDone!Entries, Calls!Entries,
       CallsDone!OfEntry, Calls!OfEntry, CallsDone!CallerIn, Calls!CallerIn,
       CallsDone!NestedCallerOf, Calls!NestedCallerOf, CallsDone!FreshStructure,
       Calls!FreshStructure, CallsDone!running, Calls!running, CallsDone!callers,
       Calls!callers
<1>3. Calls!FreshStructure = CallsDone!FreshStructure
  BY DEF Calls!FreshStructure, CallsDone!FreshStructure
<1> QED BY <1>1, <1>2, <1>3 DEF
       CallsDone!A!vars, Activity!vars, CallsDone!A!Outside, Activity!Outside,
       CallsDone!A!CallersOf, Activity!CallersOf, CallsDone!A!Init, Activity!Init,
       CallsDone!A!Start, Activity!Start, CallsDone!A!Step, Activity!Step,
       CallsDone!A!Enter, Activity!Enter, CallsDone!A!Leave, Activity!Leave,
       CallsDone!A!HandOver, Activity!HandOver, CallsDone!A!Stop, Activity!Stop,
       CallsDone!A!Next, Activity!Next

\* So is the machine with ON ERROR GOTO.
LEMMA SameTraps ==
  /\ Traps!Init => TrapsDone!Init
  /\ [Traps!Next]_(Traps!vars) => [TrapsDone!Next]_(TrapsDone!vars)
BY DEF
       TrapsDone!vars, Traps!vars, TrapsDone!Frame, Traps!Frame, TrapsDone!Loop,
       Traps!Loop, TrapsDone!NoLoop, Traps!NoLoop, TrapsDone!Gosub, Traps!Gosub,
       TrapsDone!CFrame, Traps!CFrame, TrapsDone!Lower, Traps!Lower, TrapsDone!Higher,
       Traps!Higher, TrapsDone!Pop, Traps!Pop, TrapsDone!Top, Traps!Top,
       TrapsDone!Least, Traps!Least, TrapsDone!Greatest, Traps!Greatest,
       TrapsDone!Clean, Traps!Clean, TrapsDone!Entered, Traps!Entered,
       TrapsDone!SelAfter, Traps!SelAfter, TrapsDone!SelFreed, Traps!SelFreed,
       TrapsDone!Restored, Traps!Restored, TrapsDone!Returned, Traps!Returned,
       TrapsDone!InKind, Traps!InKind, TrapsDone!BodyDone, Traps!BodyDone,
       TrapsDone!AtStatement, Traps!AtStatement, TrapsDone!Executing, Traps!Executing,
       TrapsDone!AtLineBoundary, Traps!AtLineBoundary, TrapsDone!GuardedCallers,
       Traps!GuardedCallers, TrapsDone!Trap, Traps!Trap, TrapsDone!Abort, Traps!Abort,
       TrapsDone!Unhandled, Traps!Unhandled, TrapsDone!Skip, Traps!Skip,
       TrapsDone!RaiseInStatement, Traps!RaiseInStatement, TrapsDone!RaiseOutside,
       Traps!RaiseOutside, TrapsDone!StatementError, Traps!StatementError,
       TrapsDone!Break, Traps!Break, TrapsDone!OpenIf, Traps!OpenIf, TrapsDone!EndIf,
       Traps!EndIf, TrapsDone!InlineIf, Traps!InlineIf, TrapsDone!OpenSelect,
       Traps!OpenSelect, TrapsDone!EndSelect, Traps!EndSelect, TrapsDone!LoopRestored,
       Traps!LoopRestored, TrapsDone!LowestSel, Traps!LowestSel, TrapsDone!PoppedTo,
       Traps!PoppedTo, TrapsDone!Reentered, Traps!Reentered, TrapsDone!AfterReenter,
       Traps!AfterReenter, TrapsDone!FreedByReenter, Traps!FreedByReenter,
       TrapsDone!Do, Traps!Do, TrapsDone!LoopBack, Traps!LoopBack,
       TrapsDone!LeaveLoop, Traps!LeaveLoop, TrapsDone!PushGosub, Traps!PushGosub,
       TrapsDone!GosubStatement, Traps!GosubStatement, TrapsDone!GosubNowhere,
       Traps!GosubNowhere, TrapsDone!CallSub, Traps!CallSub, TrapsDone!CallIslandSub,
       Traps!CallIslandSub, TrapsDone!NestedPush, Traps!NestedPush,
       TrapsDone!EnterFunction, Traps!EnterFunction, TrapsDone!EnterEvent,
       Traps!EnterEvent, TrapsDone!RefuseEvent, Traps!RefuseEvent,
       TrapsDone!EnterExecute, Traps!EnterExecute, TrapsDone!Entering, Traps!Entering,
       TrapsDone!BodyStarted, Traps!BodyStarted, TrapsDone!BindCall, Traps!BindCall,
       TrapsDone!StartBody, Traps!StartBody, TrapsDone!EntryError, Traps!EntryError,
       TrapsDone!ReturnInLoop, Traps!ReturnInLoop, TrapsDone!LoopEnds, Traps!LoopEnds,
       TrapsDone!ReturnFromBody, Traps!ReturnFromBody, TrapsDone!ReturnFromIsland,
       Traps!ReturnFromIsland, TrapsDone!BindStopped, Traps!BindStopped,
       TrapsDone!ExecuteEnds, Traps!ExecuteEnds, TrapsDone!End, Traps!End,
       TrapsDone!LoopStops, Traps!LoopStops, TrapsDone!ProgramEnds, Traps!ProgramEnds,
       TrapsDone!OnErrorGoto, Traps!OnErrorGoto, TrapsDone!UnwindGosub,
       Traps!UnwindGosub, TrapsDone!UnwindNested, Traps!UnwindNested,
       TrapsDone!Trapped, Traps!Trapped, TrapsDone!Aborted, Traps!Aborted,
       TrapsDone!Run, Traps!Run, TrapsDone!Init, Traps!Init, TrapsDone!Structure,
       Traps!Structure, TrapsDone!Call, Traps!Call, TrapsDone!Leave, Traps!Leave,
       TrapsDone!Failure, Traps!Failure, TrapsDone!Program, Traps!Program,
       TrapsDone!Next, Traps!Next

\* A behaviour of the part "traps" is one of that machine, and stays one.
LEMMA TrapsPart ==
  /\ InterpreterInit /\ part = "traps" => TrapsDone!Init
  /\ part = "traps" /\ [InterpreterNext]_interpreterVars =>
       (part = "traps")' /\ [TrapsDone!Next]_(TrapsDone!vars)
<1>1. Init => Traps!Init
  BY DEF Init, Traps!Init, Clean, Traps!Clean, NoLoop, Traps!NoLoop
<1>2. UNCHANGED vars => UNCHANGED Traps!vars
  BY DEF vars, Traps!vars
<1>3. part = "traps" /\ [InterpreterNext]_interpreterVars =>
        (part = "traps")' /\ (Traps!Next \/ UNCHANGED vars)
  BY DEF InterpreterNext, interpreterVars
<1> QED BY <1>1, <1>2, <1>3, SameTraps DEF InterpreterInit

\* The activity seen in the part "traps" is that of its machine.
LEMMA TrapsActivity ==
  /\ part = "traps" /\ TrapsDone!A!Init => Activity!Init
  /\ part = "traps" /\ (part = "traps")' /\ [TrapsDone!A!Next]_(TrapsDone!A!vars) =>
       [Activity!Next]_(Activity!vars)
<1> DEFINE r == IF part = "traps" THEN Traps!running ELSE Calls!running
           c == IF part = "traps" THEN Traps!callers ELSE Calls!callers
<1>1. part = "traps" => r = TrapsDone!running /\ c = TrapsDone!callers
  BY DEF
       TrapsDone!StructureOf, Traps!StructureOf, TrapsDone!Entries, Traps!Entries,
       TrapsDone!OfEntry, Traps!OfEntry, TrapsDone!CallerIn, Traps!CallerIn,
       TrapsDone!NestedCallerOf, Traps!NestedCallerOf, TrapsDone!FreshStructure,
       Traps!FreshStructure, TrapsDone!running, Traps!running, TrapsDone!callers,
       Traps!callers
<1>2. (part = "traps")' => r' = TrapsDone!running' /\ c' = TrapsDone!callers'
  BY DEF
       TrapsDone!StructureOf, Traps!StructureOf, TrapsDone!Entries, Traps!Entries,
       TrapsDone!OfEntry, Traps!OfEntry, TrapsDone!CallerIn, Traps!CallerIn,
       TrapsDone!NestedCallerOf, Traps!NestedCallerOf, TrapsDone!FreshStructure,
       Traps!FreshStructure, TrapsDone!running, Traps!running, TrapsDone!callers,
       Traps!callers
<1>3. Calls!FreshStructure = TrapsDone!FreshStructure
  BY DEF Calls!FreshStructure, TrapsDone!FreshStructure
<1> QED BY <1>1, <1>2, <1>3 DEF
       TrapsDone!A!vars, Activity!vars, TrapsDone!A!Outside, Activity!Outside,
       TrapsDone!A!CallersOf, Activity!CallersOf, TrapsDone!A!Init, Activity!Init,
       TrapsDone!A!Start, Activity!Start, TrapsDone!A!Step, Activity!Step,
       TrapsDone!A!Enter, Activity!Enter, TrapsDone!A!Leave, Activity!Leave,
       TrapsDone!A!HandOver, Activity!HandOver, TrapsDone!A!Stop, Activity!Stop,
       TrapsDone!A!Next, Activity!Next

\* No program is seen to run while the variables move.
LEMMA VariablesActivity ==
  /\ InterpreterInit => Activity!Init
  /\ part = "variables" /\ [InterpreterNext]_interpreterVars =>
       (part = "variables")' /\ [Activity!Next]_(Activity!vars)
<1>1. ASSUME InterpreterInit PROVE Activity!Init
  <2>1. status = "idle"
    BY <1>1 DEF InterpreterInit, Init
  <2> QED BY <2>1 DEF Activity!Init, Calls!running, Calls!callers, Traps!running, Traps!callers
<1>2. ASSUME part = "variables", [InterpreterNext]_interpreterVars
      PROVE  (part = "variables")' /\ UNCHANGED vars
  BY <1>2 DEF InterpreterNext, interpreterVars
<1>3. part = "variables" /\ (part = "variables")' /\ UNCHANGED vars => UNCHANGED Activity!vars
  BY DEF vars, Activity!vars,
       Calls!StructureOf, Traps!StructureOf, Calls!Entries, Traps!Entries,
       Calls!OfEntry, Traps!OfEntry, Calls!CallerIn, Traps!CallerIn,
       Calls!NestedCallerOf, Traps!NestedCallerOf, Calls!running, Traps!running,
       Calls!callers, Traps!callers
<1> QED BY <1>1, <1>2, <1>3

\* Both machines of frames implement Activations: each caller finds its own IFs
\* and SELECTs again, whatever its callees do and however they are left
\* (run_gosub_body, mmb_frame_restore).
THEOREM CallersTheorem == InterpreterSpec => CallersKept
<1>1. InterpreterInit => part = "calls" \/ part = "traps" \/ part = "variables"
  BY DEF InterpreterInit
<1>2. CallsDone!Spec => CallsDone!CallersKept
  <2>1. /\ "abort" \in {"abort", "goto", "skip"} /\ "abort" # "skip"
        /\ Kinds \subseteq {"function", "event", "execute"}
        /\ Faults \subseteq {"statement", "entry", "target", "break"}
        /\ MaxGosub \in Nat /\ MaxNested \in Nat /\ 0 \in Nat
        /\ MaxSel \in Nat /\ MaxCtrl \in Nat
    BY LimitsAssumption, KindsAssumption, FaultsAssumption
  <2> QED BY <2>1, CallsDone!CallersStay
<1>3. TrapsDone!Spec => TrapsDone!CallersKept
  <2>1. /\ "goto" \in {"abort", "goto", "skip"} /\ "goto" # "skip"
        /\ {"function", "event"} \subseteq {"function", "event", "execute"}
        /\ Faults \subseteq {"statement", "entry", "target", "break"}
        /\ 1 \in Nat /\ MaxIf \in Nat
        /\ MaxSel \in Nat /\ MaxCtrl \in Nat
    BY LimitsAssumption, FaultsAssumption
  <2> QED BY <2>1, TrapsDone!CallersStay
<1>4. InterpreterSpec /\ part = "calls" => CallersKept
  BY <1>2, CallsPart, CallsActivity, PTL
     DEF InterpreterSpec, CallersKept, Activity!Spec,
         CallsDone!Spec, CallsDone!CallersKept, CallsDone!A!Spec
<1>5. InterpreterSpec /\ part = "traps" => CallersKept
  BY <1>3, TrapsPart, TrapsActivity, PTL
     DEF InterpreterSpec, CallersKept, Activity!Spec,
         TrapsDone!Spec, TrapsDone!CallersKept, TrapsDone!A!Spec
<1>6. InterpreterSpec /\ part = "variables" => CallersKept
  BY VariablesActivity, PTL DEF InterpreterSpec, CallersKept, Activity!Spec
<1> QED BY <1>1, <1>4, <1>5, <1>6, PTL DEF InterpreterSpec
=============================================================================
