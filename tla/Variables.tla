------------------------------ MODULE Variables ------------------------------
(***************************************************************************)
(* The variables of the interpreter (vars.c) and the cache of parsed       *)
(* statements that points at them (tracecache.c): slots of a table that    *)
(* LOCAL takes over or gets from a free list, two indexes of names, and a  *)
(* generation per slot that tells a cached pointer whether the slot still  *)
(* holds what it held.                                                     *)
(*                                                                         *)
(* Table, calls and cache belong to a console's context; the indexes and   *)
(* the lists of free slots are static.                                     *)
(*                                                                         *)
(* Abstracted: a value is the storage it lies in; a statement is its       *)
(* one variable; no two keys share a place of an index; a generation is    *)
(* any number that neither the slot nor a cache entry for it holds.        *)
(* Left out: arrays, structures, CONST, parameters (assigned and assigned  *)
(* back, not bound), and the resolve cache, which has the same entries and *)
(* is emptied whenever this one is.                                        *)
(***************************************************************************)
EXTENDS Naturals, Sequences, FiniteSets, SequencesExt, FiniteSetsExt

CONSTANTS
  Contexts,   \* the consoles
  First,      \* the console that begins
  Names,      \* bound: the names in programs
  Suffixed,   \* bound: the names used with a suffix too
  Types,      \* bound: T_NUM, the default, and others
  Default,
  TableSize,  \* MMB_MAX_VARS, the size of the first table
  MaxSlots,   \* bound: the largest table
  MaxCalls,   \* bound: active calls
  Uses        \* what programs do besides: "suffix", "clear", "skip"

VARIABLES
  ctx,     \* g_console
  slots,    \* G.vars of each context; empty: not allocated
  calls,   \* G.gosub_local: what the LOCALs of each call saved, outermost first
  cache,   \* G.tcache: the slot and generation each statement was compiled for
  dimming, \* G.dim_local
  names    \* the static state of vars.c

all == <<ctx, slots, calls, cache, dimming, names>>
-----------------------------------------------------------------------------
\* A bare x denotes whatever type x has; x% is of its own type.
Statements ==
  [name : Names, type : {"bare"}] \cup [name : Suffixed, type : Types \ {Default}]

\* What a variable is found by.
Keys == (Names \X {Default}) \cup (Suffixed \X Types)

Empty == [used |-> FALSE, name |-> "", type |-> Default, unsuffixed |-> FALSE,
          gen |-> 0, cell |-> <<>>]
Uncompiled == [slot |-> 0, gen |-> 0, name |-> "", type |-> Default]
Taken == [gen |-> 0, of |-> <<>>]

\* index is var_tab, bare is unsuf_tab, as a program meets their entries;
\* built is hash_cap > 0; free is the list from free_head; high is alloc_high;
\* left is reuse_gen with slot_sig, what a LOCAL that ended left of itself.
NoNames == [index |-> {}, bare |-> <<>>, built |-> FALSE, free |-> <<>>, high |-> 0,
            left |-> [s \in 1..MaxSlots |-> Taken]]

NoCache == [r \in Statements |-> Uncompiled]

Init ==
  /\ ctx = First
  /\ slots = [c \in Contexts |-> <<>>]
  /\ calls = [c \in Contexts |-> <<>>]
  /\ cache = [c \in Contexts |-> NoCache]
  /\ dimming = [c \in Contexts |-> FALSE]
  /\ names = NoNames

\* The operations below map the memory of the running context to another one.
Now == [slots |-> slots[ctx], calls |-> calls[ctx], cache |-> cache[ctx], names |-> names]

\* A cached statement counts for something while its generation is the slot's, or
\* may be once more; and what was left, while a statement has its generation.
UsefulCache(m) ==
  [r \in Statements |->
     LET e == m.cache[r]
     IN  IF e.slot # 0 /\ e.gen \in {m.slots[e.slot].gen, m.names.left[e.slot].gen}
         THEN e ELSE Uncompiled]

UsefulLeft(m) ==
  [s \in 1..MaxSlots |->
     IF \E r \in Statements : m.cache[r].slot = s /\ m.cache[r].gen = m.names.left[s].gen
     THEN m.names.left[s] ELSE Taken]

Becomes(m) ==
  /\ slots' = [slots EXCEPT ![ctx] = m.slots]
  /\ calls' = [calls EXCEPT ![ctx] = m.calls]
  /\ cache' = [cache EXCEPT ![ctx] = UsefulCache(m)]
  /\ names' = [m.names EXCEPT !.left = UsefulLeft(m)]
  /\ UNCHANGED ctx
-----------------------------------------------------------------------------
(* Generations, signatures and the indexes.                                *)

Least(S) == Min((1..Cardinality(S) + 1) \ S)

\* ++G.var_gen, and ++free_gen_seq: a generation that nothing has for slot s.
Fresh(m, s) ==
  Least({m.names.left[s].gen}
        \cup {m.cache[r].gen : r \in {q \in Statements : m.cache[q].slot = s}})

\* The storage that a slot may have: that of its variable, and of those it hides.
Cells == (1..MaxSlots) \X (1..MaxCalls + 1)

Held(m) ==
  {m.slots[s].cell : s \in DOMAIN m.slots}
  \cup UNION {{save.cell : save \in ToSet(m.calls[g])} : g \in DOMAIN m.calls}

FreshCell(m, s) == <<s, Least({n \in 1..MaxCalls + 1 : <<s, n>> \in Held(m)})>>

\* var_binding_sig: what a compiled statement takes for granted.
Signature(v) == <<v.name, v.type, v.unsuffixed>>

\* var_bind_gen: slot s gets binding v and a new generation.
Bound(m, s, v) ==
  [m EXCEPT !.slots[s] = [v EXCEPT !.gen = Fresh(m, s)],
            !.names.left[s] = Taken]

\* Bug: the generation comes back with any LOCAL.
RevivedByAny(m, s, v) ==
  [m EXCEPT !.slots[s] = [v EXCEPT !.gen = m.names.left[s].gen], !.names.left[s] = Taken]

\* var_bind_local: the generation of a LOCAL that left the slot comes back with
\* the same LOCAL.
Revived(m, s, v) ==
  IF m.names.left[s].of = Signature(v)
  THEN [m EXCEPT !.slots[s] = [v EXCEPT !.gen = m.names.left[s].gen], !.names.left[s] = Taken]
  ELSE Bound(m, s, v)

\* hash_ins.
Indexed(m, s) ==
  LET v == m.slots[s]
  IN  IF ~m.names.built THEN m
      ELSE [m EXCEPT !.names.index = @ \cup {<<v.name, v.type, s>>},
                     !.names.bare = IF v.unsuffixed THEN Append(@, <<v.name, s>>) ELSE @]

InTableOrder(S) ==
  [i \in 1..Cardinality(S) |-> CHOOSE s \in S : Cardinality({t \in S : t < s}) = i - 1]

\* hash_rebuild.
Rebuilt(m) ==
  LET used == {s \in DOMAIN m.slots : m.slots[s].used}
      bare == InTableOrder({s \in used : m.slots[s].unsuffixed})
  IN  IF ~m.names.built THEN m
      ELSE [m EXCEPT
        !.names.index = {<<m.slots[s].name, m.slots[s].type, s>> : s \in used},
        !.names.bare = [i \in DOMAIN bare |-> <<m.slots[bare[i]].name, bare[i]>>]]

\* hash_del: one entry of each index.
Unindexed(m, s) ==
  LET v == m.slots[s]
  IN  IF ~v.used THEN m
      ELSE [m EXCEPT !.names.index = @ \ {<<v.name, v.type, s>>},
                     !.names.bare = IF v.unsuffixed THEN RemoveFirst(@, <<v.name, s>>) ELSE @]

\* hash_lookup; 0: there is none.
Find(m, name, type) ==
  LET hits == {s \in DOMAIN m.slots : /\ <<name, type, s>> \in m.names.index
                                     /\ m.slots[s].used
                                     /\ m.slots[s].name = name /\ m.slots[s].type = type}
  IN  IF hits = {} THEN 0 ELSE Min(hits)

\* A lookup reads the slot of every entry it comes by, also one left by another
\* context that this table does not have.
Strays(m, name, type) ==
  \E s \in 1..MaxSlots \ DOMAIN m.slots : <<name, type, s>> \in m.names.index
BareStrays(m, name) ==
  \E s \in 1..MaxSlots \ DOMAIN m.slots : <<name, s>> \in ToSet(m.names.bare)

\* mmb_bare_name_type: the type of the LOCAL that hides the rest, or none.
BareTypes(m, name) ==
  LET local(g) == {i \in DOMAIN m.calls[g] :
                     LET s == m.calls[g][i].slot
                     IN  /\ s \in DOMAIN m.slots
                         /\ m.slots[s].used /\ m.slots[s].unsuffixed
                         /\ m.slots[s].name = name}
      hiding == {g \in DOMAIN m.calls : local(g) # {}}
      last == Max(hiding)
  IN  IF hiding = {} THEN {} ELSE {m.slots[m.calls[last][Min(local(last))].slot].type}

\* unsuf_lookup.
UnsuffixedTypes(m, name) ==
  LET hits == {i \in DOMAIN m.names.bare :
                 LET s == m.names.bare[i][2]
                 IN  /\ m.names.bare[i][1] = name /\ s \in DOMAIN m.slots
                     /\ m.slots[s].used /\ m.slots[s].unsuffixed
                     /\ m.slots[s].name = name}
  IN  IF hits = {} THEN {} ELSE {m.slots[m.names.bare[Min(hits)][2]].type}

\* The type that mmb_find_var and mmb_lookup_var_nothrow look for.
TypeOf(m, r) ==
  IF r.type # "bare" THEN r.type
  ELSE LET local == BareTypes(m, r.name)
           known == UnsuffixedTypes(m, r.name)
       IN  CHOOSE t \in IF local # {} THEN local
                        ELSE IF known # {} THEN known ELSE {Default} : TRUE
-----------------------------------------------------------------------------
(* Slots.                                                                  *)

Doubled(v) == [s \in 1..2 * Len(v) |-> IF s <= Len(v) THEN v[s] ELSE Empty]

\* The table is moved to one of twice its size; cached pointers are dropped.
Grown(m) == [m EXCEPT !.slots = Doubled(m.slots), !.cache = NoCache]

\* The first variable of a context: a table, and new lists for its slots.
Allocated(m) ==
  [m EXCEPT !.slots = [s \in 1..TableSize |-> Empty],
            !.names.free = <<>>, !.names.high = 0, !.names.left = NoNames.left]

HasRoom(m) ==
  \/ m.slots = <<>> \/ m.names.free # <<>>
  \/ m.names.high < Len(m.slots) \/ 2 * Len(m.slots) <= MaxSlots

\* vars_free_slot, with hash_ensure at its end: the slot, and what it leaves.
FreeSlot(m) ==
  LET table == IF m.slots = <<>> THEN Allocated(m)
               ELSE IF m.names.free = <<>> /\ m.names.high >= Len(m.slots) THEN Grown(m)
               ELSE m
      slot == IF table.names.free # <<>> THEN Head(table.names.free)
              ELSE table.names.high + 1
      taken == IF table.names.free # <<>> THEN [table EXCEPT !.names.free = Tail(@)]
               ELSE [table EXCEPT !.names.high = @ + 1]
  IN  [slot |-> slot,
       left |-> IF taken.names.built THEN taken
                ELSE Rebuilt([taken EXCEPT !.names.built = TRUE])]

Binding(m, s, name, type, unsuffixed) ==
  [used |-> TRUE, name |-> name, type |-> type, unsuffixed |-> unsuffixed,
   gen |-> 0, cell |-> FreshCell(m, s)]

\* The end of mmb_find_var, and of DIM outside a call: a new variable.
Made(m, name, type, unsuffixed) ==
  LET f == FreeSlot(m)
  IN  Indexed(Bound(f.left, f.slot, Binding(m, f.slot, name, type, unsuffixed)), f.slot)

\* mmb_local_save, for the last call.
Saved(m, save) ==
  IF \E s \in ToSet(Last(m.calls)) : s.slot = save.slot THEN m
  ELSE [m EXCEPT !.calls[Len(m.calls)] = Append(@, save)]

\* LOCAL of a key that nothing has: a slot of its own.
LocalMade(m, name, type, unsuffixed) ==
  LET f == FreeSlot(m)
      new == [slot |-> f.slot, existed |-> FALSE, type |-> Default,
              unsuffixed |-> FALSE, cell |-> <<>>]
      b == Binding(m, f.slot, name, type, unsuffixed)
      kept == IF m.calls = <<>> THEN f.left ELSE Saved(f.left, new)
  IN  Indexed(Revived(kept, f.slot, b), f.slot)

\* Bug: what is saved is the new binding.
HiddenFirst(m, s, unsuffixed) ==
  LET v == Binding(m, s, m.slots[s].name, m.slots[s].type, unsuffixed)
      save == [slot |-> s, existed |-> TRUE, type |-> v.type,
               unsuffixed |-> v.unsuffixed, cell |-> v.cell]
  IN  Rebuilt(Bound(Saved(m, save), s, v))

\* Bug: the index of bare names is left as it was.
HiddenUnindexed(m, s, unsuffixed) ==
  LET v == m.slots[s]
      save == [slot |-> s, existed |-> TRUE, type |-> v.type,
               unsuffixed |-> v.unsuffixed, cell |-> v.cell]
  IN  Bound(Saved(m, save), s, Binding(m, s, v.name, v.type, unsuffixed))

\* LOCAL of a key that slot s has: the slot is taken over until the call returns.
Hidden(m, s, unsuffixed) ==
  LET v == m.slots[s]
      save == [slot |-> s, existed |-> TRUE, type |-> v.type,
               unsuffixed |-> v.unsuffixed, cell |-> v.cell]
      over == Bound(Saved(m, save), s, Binding(m, s, v.name, v.type, unsuffixed))
  IN  IF unsuffixed = v.unsuffixed THEN over ELSE Rebuilt(over)

IsLocal(m, s) == m.calls # <<>> => \E save \in ToSet(Last(m.calls)) : save.slot = s

\* Bug: the slot of a LOCAL that ends is not put on the list.
RestoredLost(m, save) ==
  LET s == save.slot
      v == m.slots[s]
      outer == [v EXCEPT !.used = TRUE, !.type = save.type,
                         !.unsuffixed = save.unsuffixed, !.cell = save.cell]
      gone == Unindexed(m, s)
  IN  IF s \notin DOMAIN m.slots THEN m
      ELSE IF save.existed THEN Bound(m, s, outer)
      ELSE [gone EXCEPT !.slots[s] = [Empty EXCEPT !.gen = Fresh(gone, s)]]

\* mmb_local_restore, for one LOCAL.
Restored(m, save) ==
  LET s == save.slot
      v == m.slots[s]
      outer == [v EXCEPT !.used = TRUE, !.type = save.type,
                         !.unsuffixed = save.unsuffixed, !.cell = save.cell]
      gone == Unindexed([m EXCEPT !.names.left[s] = [gen |-> v.gen, of |-> Signature(v)],
                                  !.names.free = <<s>> \o @], s)
  IN  IF s \notin DOMAIN m.slots THEN m
      ELSE IF save.existed THEN Bound(m, s, outer)
      ELSE [gone EXCEPT !.slots[s] = [Empty EXCEPT !.gen = Fresh(gone, s)]]

\* mmb_local_restore: the last LOCAL of the call first.
Returned(m) ==
  LET saves == Last(m.calls)
      from[k \in 1..Len(saves) + 1] ==
        IF k = Len(saves) + 1 THEN m ELSE Restored(from[k + 1], saves[k])
  IN  [from[1] EXCEPT !.calls = Front(@)]

\* mmb_clear_vars.
Cleared(m) == [m EXCEPT !.slots = <<>>, !.cache = NoCache, !.names = NoNames]
-----------------------------------------------------------------------------
(* Statements.                                                             *)

\* tc_entry_valid: the entry is replayed, and nothing is looked up.
Replays(m, r) ==
  m.cache[r].slot # 0 /\ m.slots[m.cache[r].slot].gen = m.cache[r].gen

Compiled(m, r, s) ==
  [m EXCEPT !.cache[r] = [slot |-> s, gen |-> m.slots[s].gen,
                          name |-> m.slots[s].name, type |-> m.slots[s].type]]

\* A statement that uses a variable, which is made if there is none, by tc_try,
\* or by mmb_find_var for a statement that is not compiled then.
Execute(r) ==
  LET s == Find(Now, r.name, TypeOf(Now, r))
      made == Made(Now, r.name, TypeOf(Now, r), r.type = "bare")
  IN  /\ ~Replays(Now, r)
      /\ r.type = "bare" => ~BareStrays(Now, r.name)
      /\ ~Strays(Now, r.name, TypeOf(Now, r))
      /\ IF s # 0 THEN Becomes(Compiled(Now, r, s))
         ELSE /\ HasRoom(Now)
              /\ \/ Becomes(made)
                 \/ Becomes(Compiled(made, r, Find(made, r.name, TypeOf(Now, r))))
      /\ UNCHANGED dimming

\* mmb_cmd_dim, in a LOCAL.
DimLocal(name, type, unsuffixed) ==
  LET s == Find(Now, name, type)
  IN  /\ ~Strays(Now, name, type)
      /\ \/ /\ s = 0 /\ HasRoom(Now)
            /\ Becomes(LocalMade(Now, name, type, unsuffixed))
         \/ s # 0 /\ IsLocal(Now, s) /\ Becomes(Now)
         \/ s # 0 /\ ~IsLocal(Now, s) /\ Becomes(Hidden(Now, s, unsuffixed))

\* mmb_cmd_local, whose variable may be one with a suffix; dim_local stays set if
\* its initial value is wrong and the error is skipped.
Local(name, type) ==
  /\ \E unsuffixed \in {TRUE} \cup (IF "suffix" \in Uses THEN {FALSE} ELSE {}) :
       DimLocal(name, type, unsuffixed)
  /\ dimming' \in {[dimming EXCEPT ![ctx] = fails] :
                     fails \in {FALSE} \cup (IF "skip" \in Uses THEN {TRUE} ELSE {})}

\* DIM: an error where the variable exists.
Dim(name, type) ==
  /\ IF dimming[ctx] THEN DimLocal(name, type, TRUE)
     ELSE /\ ~Strays(Now, name, type) /\ Find(Now, name, type) = 0
          /\ HasRoom(Now)
          /\ Becomes(Made(Now, name, type, TRUE))
  /\ UNCHANGED dimming

\* A SUB, FUNCTION, GOSUB or event handler is entered, and left: at its end, or
\* unwound by an error that ON ERROR GOTO traps.  An error that ends the run leaves
\* the calls as they are, until RUN.
Call ==
  /\ Len(calls[ctx]) < MaxCalls
  /\ Becomes([Now EXCEPT !.calls = Append(@, <<>>)])
  /\ UNCHANGED dimming

Return ==
  /\ calls[ctx] # <<>>
  /\ Becomes(Returned(Now))
  /\ UNCHANGED dimming

\* CLEAR, where nothing is local, or anywhere.
Clear ==
  /\ "clear" \notin Uses => \A g \in DOMAIN calls[ctx] : calls[ctx][g] = <<>>
  /\ Becomes(Cleared(Now))
  /\ UNCHANGED dimming

\* RUN: no call is active.
Run ==
  /\ Becomes([Cleared(Now) EXCEPT !.calls = <<>>])
  /\ UNCHANGED dimming

\* console_do_switch: another context, and the same static state.
Switch(c) == ctx' = c /\ UNCHANGED <<slots, calls, cache, dimming, names>>

Next ==
  \/ \E r \in Statements : Execute(r)
  \/ \E k \in Keys : Local(k[1], k[2]) \/ Dim(k[1], k[2])
  \/ Call \/ Return \/ Clear \/ Run

Spec == Init /\ [][Next]_all

\* Several consoles; with Spec the first is the only one.
ConsolesSpec == Init /\ [][Next \/ \E c \in Contexts \ {ctx} : Switch(c)]_all
-----------------------------------------------------------------------------
\* Every slot that was handed out is either used or free, and no slot is free
\* twice ("Slots released by a returning LOCAL frame are kept on a LIFO list;
\* alloc_high bounds the never-yet-handed-out prefix", vars.c).
SlotsSound ==
  LET used == {s \in DOMAIN slots[ctx] : slots[ctx][s].used}
  IN  /\ used \cap ToSet(names.free) = {}
      /\ used \cup ToSet(names.free) = 1..names.high
      /\ Cardinality(ToSet(names.free)) = Len(names.free)

\* The indexes know every variable, and nothing else ("every in-place binding
\* change re-inserts or rebuilds it, so a miss means the variable does not
\* exist", vars.c).
IndexAuthoritative ==
  LET v == slots[ctx]
      used == {s \in DOMAIN v : v[s].used}
  IN  /\ names.index = {<<v[s].name, v[s].type, s>> : s \in used}
      /\ \A s \in used : v[s].unsuffixed => Contains(names.bare, <<v[s].name, s>>)

\* A statement that is replayed finds in its slot the variable it was compiled
\* for ("the cache can never read a slot that was freed and reused for a
\* different name, type or dims", tracecache.c).
ReplaysItsOwn ==
  \A r \in Statements :
    LET e == cache[ctx][r]
        v == slots[ctx][e.slot]
    IN  Replays(Now, r) => v.used /\ v.name = e.name /\ v.type = e.type

\* A statement that is replayed means what it would mean if its name were looked
\* up ("A frame's LOCALs shadow everything outside it", vars.c).
ReplaysTheInnermost ==
  \A r \in Statements :
    Replays(Now, r) => cache[ctx][r].slot = Find(Now, r.name, TypeOf(Now, r))

Denotes(c, k) ==
  LET m == [slots |-> slots[c], names |-> names]
  IN  [outside |-> Strays(m, k[1], k[2]), slot |-> Find(m, k[1], k[2])]

\* What a name denotes on one console is changed on that console only ("Each
\* console owns a complete interpreter context", session.h).
OwnVariables ==
  [][\A c \in Contexts \ {ctx}, k \in Keys :
       Denotes(c, k)' = Denotes(c, k)]_all
-----------------------------------------------------------------------------
(* The variables by their keys.                                            *)

Key(m, s) == <<m.slots[s].name, m.slots[s].type>>

\* The calls that made slot s local.
LocalIn(m, s) == {g \in DOMAIN m.calls : \E save \in ToSet(m.calls[g]) : save.slot = s}

SavedBy(m, g, s) == CHOOSE save \in ToSet(m.calls[g]) : save.slot = s

\* How deep the bindings of slot s are: 0 is the one outside of all calls, if the
\* first LOCAL found it.
Depths(m, s) ==
  LocalIn(m, s) \cup {d \in {0} : \A g \in LocalIn(m, s) : SavedBy(m, g, s).existed}

\* What a LOCAL hides is what it saved.
CellAt(m, s, d) ==
  LET inner == {g \in LocalIn(m, s) : g > d}
  IN  IF inner = {} THEN m.slots[s].cell ELSE SavedBy(m, Min(inner), s).cell

\* The bindings of all variables that a lookup finds.
Bindings(m) ==
  UNION {{[key |-> Key(m, s), depth |-> d, cell |-> CellAt(m, s, d)] : d \in Depths(m, s)} :
           s \in {t \in DOMAIN m.slots : m.slots[t].used /\ Find(m, Key(m, t)[1], Key(m, t)[2]) = t}}

S == INSTANCE Scopes WITH bound <- Bindings(Now), depth <- Len(calls[ctx])

\* LOCAL hides a variable and brings it back with its value, whatever slots the
\* two had, and no two variables share storage: Variables implements Scopes.
Scoped == S!Spec
=============================================================================
