----------------------------- MODULE FramesLifo -----------------------------
(***************************************************************************)
(* Frames seen as live activations: the refinement mapping from the saved  *)
(* frames, which lie in two arrays, to the callers they stand for.         *)
(***************************************************************************)
EXTENDS Frames

\* A GOSUB in an EXECUTE body abandons the caller's line, and with it the
\* caller's one-line IF: inl is compared only in programs without EXECUTE.
StructureOf(f) == [if_depth |-> f.if_depth,
                   inl |-> f.inl /\ "execute" \notin Kinds,
                   selects |-> [i \in f.sel_base + 1..f.sel_sp |-> selstack[i]]]

\* The C frames of the nested entries: each has its frame in G.nested_frame.
Entries == {i \in 1..Len(cstack) : cstack[i].kind # "island_sub"}

\* The gosub frame of a FUNCTION or handler holds the clean state of its entry,
\* not an activation: the nested frame before it holds the caller.
OfEntry(g) == \E i \in Entries :
                /\ cstack[i].kind # "execute" /\ cstack[i].phase = "body"
                /\ cstack[i].gsp + 1 = g

\* A gosub frame lies outside those pushed later, and outside the nested frames
\* that found it.
CallerIn(g) ==
  [depth |-> <<g, 0>>,
   structure |-> StructureOf([gosub[g].ctl EXCEPT !.inl = @ /\ gosub[g].ret # "line"])]
NestedCallerOf(i) ==
  [depth |-> <<cstack[i].gsp, cstack[i].depth>>,
   structure |-> StructureOf(nested[cstack[i].depth])]

FreshStructure == [if_depth |-> 0, inl |-> FALSE, selects |-> [i \in {} |-> "free"]]

running == IF status = "run" THEN {StructureOf(ctl)} ELSE {}
callers == IF status = "run"
           THEN {NestedCallerOf(i) : i \in Entries}
                \cup {CallerIn(g) : g \in {h \in 1..Len(gosub) : ~OfEntry(h)}}
           ELSE {}

A == INSTANCE Activations WITH Fresh <- FreshStructure

\* Callers are kept: whatever a SUB, a FUNCTION, an event handler or an EXECUTE
\* body does to the shared IF and SELECT stacks, each caller finds its own IF
\* depth, one-line IF and SELECT frames as it left them (core.c 1527-1580,
\* exec_frame.c 111-141, mmb_cmd_execute).
CallersKept == A!Spec
=============================================================================
