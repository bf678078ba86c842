------------------------------- MODULE Running -------------------------------
(***************************************************************************)
(* What happens while programs run, in two parts that Consoles and         *)
(* LineLoop keep apart: the consoles that start, park and continue them,   *)
(* and the walk over the lines of one.  Each behaviour takes one part; the *)
(* other rests.                                                            *)
(***************************************************************************)
EXTENDS Consoles, Sequences

CONSTANTS MaxTokens, MaxDepth, Shapes   \* LineLoopPrograms

VARIABLES
  part,
  program, jumps, pc, pos, ifs, shadow, inline, sels, fors, count, out, status

Walk == INSTANCE LineLoopPrograms WITH prog <- program

walkVars == <<program, jumps, pc, pos, ifs, shadow, inline, sels, fors, count,
              out, status>>

runningVars == <<part, vars, walkVars>>
-----------------------------------------------------------------------------
\* The walk that rests is that of the program of one token.
RunningInit ==
  /\ Walk!Init /\ Init
  /\ part \in {"consoles", "lines"}
  /\ part # "lines" => Len(program.lines) = 1 /\ Len(program.lines[1]) = 1

\* A program that ends, and a jump into a dead frame: nothing else may stop.
MayStop == IF part = "lines" THEN status # "run" ELSE where = "stray"

RunningNext ==
  \/ part = "consoles" /\ Next /\ UNCHANGED <<part, walkVars>>
  \/ part = "lines" /\ Walk!Next /\ UNCHANGED <<part, vars>>
  \/ MayStop /\ UNCHANGED runningVars

\* The fairness of Consoles.
RunningFairness ==
  /\ SF_vars(part = "consoles" /\ ConsolePoll)
  /\ WF_vars(part = "consoles" /\ (BeginLine \/ Park))

RunningSpec ==
  RunningInit /\ [][RunningNext]_runningVars /\ RunningFairness
-----------------------------------------------------------------------------
(* The properties of the parts, under the names they have there; those of  *)
(* Consoles are its own.                                                   *)

\* A program prints what its blocks and loops say (exec_stmt_loop).
PrintsWhatItSays == Walk!PrintsWhatItSays

\* The walk goes back only by a NEXT that counts (run_program).
GoesOn == Walk!GoesOn
=============================================================================
