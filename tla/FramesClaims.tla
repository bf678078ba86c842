----------------------------- MODULE FramesClaims -----------------------------
(***************************************************************************)
(* What the help pages say of the frames, stated with a history variable:  *)
(* where a trapped error has to land.                                      *)
(***************************************************************************)
EXTENDS FramesLifo

VARIABLE outer  \* the structure of the main program when the last error was trapped

claimsVars == <<vars, outer>>

\* The first frame pushed, in either array, saved the main program.
OutermostCaller ==
  IF \E i \in Entries : cstack[i].depth = 1 /\ cstack[i].gsp = 0 THEN nested[1]
  ELSE IF gosub # <<>> THEN gosub[1].ctl ELSE ctl

ClaimsInit == Init /\ outer = Clean

ClaimsNext ==
  /\ Next
  /\ outer' = IF status' = "trap" /\ status # "trap" THEN OutermostCaller
              ELSE outer

ClaimsSpec == ClaimsInit /\ [][ClaimsNext]_claimsVars
-----------------------------------------------------------------------------
\* ON ERROR GOTO: "Entering the handler unwinds any active SUB/FUNCTION/GOSUB
\* call frames, so the handler sees the enclosing scope" (docs/help/on.txt).
TrapLands ==
  status = "trap" /\ gosub = <<>> /\ nested = <<>> =>
    /\ ctl.if_depth = outer.if_depth
    /\ ctl.sel_sp = outer.sel_sp /\ ctl.sel_base = outer.sel_base
=============================================================================
