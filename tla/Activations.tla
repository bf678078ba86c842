----------------------------- MODULE Activations -----------------------------
(***************************************************************************)
(* What the frame protocol of Frames promises a BASIC program: of the      *)
(* activations that are live, each with its own block structure, only the  *)
(* running one changes its structure; whatever it does, calls or fails at, *)
(* its callers are found as they were, the innermost first.                *)
(***************************************************************************)
EXTENDS Naturals

CONSTANT Fresh   \* the structure an activation starts with; its inl: a one-line IF

VARIABLES
  running,   \* the set of the running activation's structure; {}: no program runs
  callers    \* those that wait: [depth, structure], the depth a pair

vars == <<running, callers>>

\* Depths are ordered by their first component, then by their second.
Outside(a, b) ==
  \/ a.depth[1] < b.depth[1]
  \/ a.depth[1] = b.depth[1] /\ a.depth[2] < b.depth[2]

CallersOf(c) == {a \in callers : Outside(a, c)}

Init == running = {} /\ callers = {}

\* The program, or an ON ERROR handler at its outer level, starts to run.
Start == running = {} /\ running' # {} /\ callers' = {}

\* The running activation changes its own structure.
Step == running # {} /\ running' # {} /\ UNCHANGED callers

\* It calls another one, which hides all others, and waits as it is; if the call
\* is the last thing on its line, its one-line IF is over.
Enter ==
  /\ running' = {Fresh}
  /\ \E s \in running, c \in callers' :
       /\ c.structure \in {s, [s EXCEPT !.inl = FALSE]}
       /\ callers' = callers \cup {c}
       /\ \A a \in callers : Outside(a, c)

\* It ends, and perhaps some of its callers with it.
Leave == \E c \in callers : running' = {c.structure} /\ callers' = CallersOf(c)

\* Its caller ends under it: an EXECUTE string that has called something else
\* leaves its own caller in its place.
HandOver ==
  /\ UNCHANGED running
  /\ \E c \in callers, d \in callers' :
       /\ d.structure = c.structure
       /\ callers' = CallersOf(c) \cup {d}
       /\ \A a \in CallersOf(c) : Outside(a, d)

\* The program ends or is stopped.
Stop == running' = {} /\ callers' = {}

Next == Start \/ Step \/ Enter \/ Leave \/ HandOver \/ Stop

Spec == Init /\ [][Next]_vars
=============================================================================
