-------------------------------- MODULE Scopes --------------------------------
(***************************************************************************)
(* What variables promise: a key, a name with its type, is bound to        *)
(* storage of its own.  A binding made by LOCAL lasts as long as the call  *)
(* that made it, and hides those outside of it; any other lasts until all  *)
(* variables are cleared.                                                  *)
(***************************************************************************)
EXTENDS Naturals

CONSTANTS Keys, Cells

VARIABLES
  bound,   \* the bindings that last; a key denotes the deepest of its own
  depth    \* how many calls are active

Init == bound = {} /\ depth = 0

InUse == {b.cell : b \in bound}

Under(k) == {b \in bound : b.key = k}

\* Key k gets storage that nothing has, until the depth falls below d.
Bind(k, d) ==
  bound' \in {bound \cup {[key |-> k, depth |-> d, cell |-> cell]} : cell \in Cells \ InUse}

\* A variable is made where there is none.
Make(k) == Under(k) = {} /\ Bind(k, 0) /\ UNCHANGED depth

Local(k) ==
  /\ depth # 0 /\ \A b \in Under(k) : b.depth < depth
  /\ Bind(k, depth) /\ UNCHANGED depth

Call == depth' = depth + 1 /\ UNCHANGED bound

Return ==
  /\ depth # 0 /\ depth' = depth - 1
  /\ bound' = {b \in bound : b.depth < depth}

\* All variables are cleared, by RUN in every call, by CLEAR where none of
\* them is local.
Clear == bound' = {} /\ depth' \in {0, depth}

Next ==
  \/ Call \/ Return \/ Clear
  \/ \E k \in Keys : Make(k) \/ Local(k)

Spec == Init /\ [][Next]_<<bound, depth>>
=============================================================================
