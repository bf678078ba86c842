----------------------------- MODULE Interpreter -----------------------------
(***************************************************************************)
(* What a program that runs keeps, in three parts: the frames of its calls *)
(* where an error ends the run, the frames where ON ERROR GOTO traps it,   *)
(* and its variables.  Each behaviour takes one part; the variables rest   *)
(* while the frames move, and the other way round.                         *)
(*                                                                         *)
(* The two machines of frames differ in what is small: without a trap the  *)
(* calls are deep and of every kind, with one there are IFs and loops.     *)
(***************************************************************************)
EXTENDS Frames, FiniteSets, TLC

CONSTANTS
  Contexts, First, Names, Suffixed, Types, Default,         \* Variables
  TableSize, MaxSlots, MaxCalls, Uses

ASSUME VariablesAssumption ==
  /\ IsFiniteSet(Names) /\ IsFiniteSet(Types) /\ Default \in Types /\ Suffixed \subseteq Names
  /\ TableSize \in Nat \ {0} /\ MaxSlots \in Nat /\ TableSize <= MaxSlots
  /\ MaxCalls \in Nat /\ First \in Contexts

VARIABLES part, ctx, slots, calls, cache, dimming, names

Calls == INSTANCE FramesLifo WITH MaxIf <- 0, Lines <- {}, OnError <- "abort"

Traps == INSTANCE FramesLifo WITH
  MaxGosub <- 1, MaxNested <- 1, Kinds <- {"function", "event"}, OnError <- "goto"

Vars == INSTANCE Variables

varVars == <<ctx, slots, calls, cache, dimming, names>>

interpreterVars == <<part, vars, varVars>>
-----------------------------------------------------------------------------
InterpreterInit ==
  /\ part \in {"calls", "traps", "variables"}
  /\ Init /\ Vars!Init

InterpreterNext ==
  \/ part = "calls" /\ Calls!Next /\ UNCHANGED <<part, varVars>>
  \/ part = "traps" /\ Traps!Next /\ UNCHANGED <<part, varVars>>
  \/ part = "variables" /\ Vars!Next /\ UNCHANGED <<part, vars>>

InterpreterSpec == InterpreterInit /\ [][InterpreterNext]_interpreterVars

\* Frames compares lines, and nothing else.
LineSymmetry == Permutations(Lines)
-----------------------------------------------------------------------------
(* The properties of the parts, under the names they have there; those of  *)
(* Frames are its own.                                                     *)

Activity == INSTANCE Activations WITH
  running <- IF part = "traps" THEN Traps!running ELSE Calls!running,
  callers <- IF part = "traps" THEN Traps!callers ELSE Calls!callers,
  Fresh <- Calls!FreshStructure

\* Each caller finds its own structure again, whatever its callees do: both
\* machines of frames implement Activations (run_gosub_body, mmb_frame_restore).
CallersKept == Activity!Spec

\* A slot that was handed out is used or free (vars_free_slot).
SlotsSound == Vars!SlotsSound

\* The indexes know every variable and nothing else (hash_ins, hash_del).
IndexAuthoritative == Vars!IndexAuthoritative

\* A statement that is replayed finds its own variable (tc_entry_valid).
ReplaysItsOwn == Vars!ReplaysItsOwn

\* LOCAL hides a variable and brings it back: Variables implements Scopes.
Scoped == Vars!Scoped
=============================================================================
