--------------------------- MODULE ConsolesProofs ---------------------------
(***************************************************************************)
(* Foreground and OneProgram, for any number of consoles.  OneProgram is   *)
(* inductive as it stands: a switch that is not deferred finds no program  *)
(* running, so that the one it continues is the only one.                  *)
(* ParkedContinues needs, besides, that a line loop which is on the stack  *)
(* runs the program of the console shown (Working): then what ends, or is  *)
(* parked, is never a program that is parked already.                      *)
(***************************************************************************)
EXTENDS Consoles, TLAPS

Inv == TypeOK /\ Foreground /\ OneProgram
-----------------------------------------------------------------------------
\* console_do_switch keeps the invariant when nothing runs: this is what
\* mmb_console_switch and mmb_console_poll make sure of before they call it.
LEMMA SwitchKeepsInv ==
  ASSUME Inv, NEW i \in Consoles, ~Running, DoSwitch(i),
         pending' \in Consoles \cup {NoSwitch}, UNCHANGED <<trap, landing, edit>>
  PROVE  Inv'
<1>1. \A c \in Consoles : prog[c] # "running"
  BY DEF Inv, OneProgram, Running
<1>2. CASE UNCHANGED <<screen, prog, where>>
  BY <1>1, <1>2 DEF Inv, TypeOK, Foreground, OneProgram, screen
<1>3. ASSUME Show(i), ready' = ready \cup {i}  PROVE Inv'
  <2>1. TypeOK'
    BY <1>3 DEF Inv, TypeOK, Show
  <2>2. Foreground'
    BY <1>3 DEF Inv, TypeOK, Foreground, Show
  <2>3. OneProgram'
    BY <1>1, <1>3 DEF Inv, TypeOK, OneProgram, Show
  <2> QED BY <2>1, <2>2, <2>3 DEF Inv
<1>4. CASE i \in ready /\ Show(i) /\ UNCHANGED ready
  <2>1. ready' = ready \cup {i}
    BY <1>4
  <2> QED BY <1>3, <1>4, <2>1
<1>5. CASE i \notin ready /\ Show(i) /\ ready' = ready \cup {i}
  BY <1>3, <1>5
<1> QED BY <1>2, <1>4, <1>5 DEF DoSwitch

\* A run_program that returns leaves nothing running.
LEMMA ReturnKeepsInv ==
  ASSUME Inv, NEW p \in {"idle", "parked"}, Return(p), UNCHANGED trap,
         edit' \in [Consoles -> {"closed", "open", "running", "pending", "wait"}]
  PROVE  Inv'
<1>1. TypeOK'
  BY DEF Inv, TypeOK, Return, screen
<1>2. Foreground' /\ OneProgram'
  BY DEF Inv, TypeOK, Foreground, OneProgram, Return, screen
<1> QED BY <1>1, <1>2 DEF Inv

\* run_program is only called from the host loop.
LEMMA StartKeepsInv ==
  ASSUME Inv, where = "host", StartProgram,
         edit' \in [Consoles -> {"closed", "open", "running", "pending", "wait"}]
  PROVE  Inv'
<1>1. TypeOK'
  BY DEF Inv, TypeOK, StartProgram, screen
<1>2. Foreground' /\ OneProgram'
  BY DEF Inv, TypeOK, Foreground, OneProgram, StartProgram, screen
<1> QED BY <1>1, <1>2 DEF Inv

\* The end of a program.
LEMMA StopKeepsInv == ASSUME Inv, Stop PROVE Inv'
<1>1. edit' \in [Consoles -> {"closed", "open", "running", "pending", "wait"}]
  BY DEF Inv, TypeOK, Stop, Finished
<1> QED BY <1>1, ReturnKeepsInv DEF Stop
-----------------------------------------------------------------------------
LEMMA InitInv == Init => Inv
BY BootAssumption DEF Init, Inv, TypeOK, Foreground, OneProgram

LEMMA NextInv == Inv /\ [Next]_vars => Inv'
<1> SUFFICES ASSUME Inv, [Next]_vars PROVE Inv'
  OBVIOUS
<1> USE DEF Inv
<1>1. ASSUME NEW i \in Consoles, Switch(i) PROVE Inv'
  <2>1. pending' \in Consoles \cup {NoSwitch}
    BY <1>1 DEF Switch, TypeOK
  <2>2. CASE i # console /\ ~Running
    <3>1. DoSwitch(i) /\ UNCHANGED <<trap, landing, edit>>
      BY <1>1, <2>2 DEF Switch
    <3> QED BY <2>1, <2>2, <3>1, SwitchKeepsInv
  <2>3. CASE i = console \/ Running
    BY <1>1, <2>1, <2>3 DEF Switch, TypeOK, Foreground, OneProgram, screen
  <2> QED BY <2>2, <2>3
<1>2. CASE ConsolePoll
  <2>1. pending \in Consoles
    BY <1>2 DEF ConsolePoll, TypeOK
  <2> QED BY <1>2, <2>1, SwitchKeepsInv DEF ConsolePoll
<1>3. CASE Run
  BY <1>3, StartKeepsInv DEF Run, TypeOK
<1>4. CASE EditorRun
  <2>1. edit' \in [Consoles -> {"closed", "open", "running", "pending", "wait"}]
    BY <1>4 DEF EditorRun, TypeOK
  <2> QED BY <1>4, <2>1, StartKeepsInv DEF EditorRun
<1>5. CASE BeginLine
  BY <1>5 DEF BeginLine, TypeOK, Foreground, OneProgram, screen
<1>6. CASE Park
  <2>1. edit' \in [Consoles -> {"closed", "open", "running", "pending", "wait"}]
    BY <1>6 DEF Park, TypeOK
  <2> QED BY <1>6, <2>1, ReturnKeepsInv DEF Park
<1>7. CASE EndLine
  BY <1>7 DEF EndLine, TypeOK, Foreground, OneProgram, screen
<1>8. CASE OnError
  BY <1>8 DEF OnError, TypeOK, Foreground, OneProgram, screen
<1>9. CASE End
  BY <1>9, StopKeepsInv DEF End
<1>10. CASE Error
  <2>1. CASE trap[console] # "armed"
    BY <1>10, <2>1, StopKeepsInv DEF Error
  <2>2. CASE trap[console] = "armed"
    BY <1>10, <2>2 DEF Error, InProgram, TypeOK, Foreground, OneProgram, screen
  <2> QED BY <2>1, <2>2
<1>11. CASE EditorKey
  BY <1>11 DEF EditorKey, Editing, TypeOK, Foreground, OneProgram, screen
<1>12. CASE EditorPoll
  BY <1>12 DEF EditorPoll, Editing, Finished, TypeOK, Foreground, OneProgram, screen
<1>13. CASE WarmReset
  BY <1>13, BootAssumption DEF WarmReset, TypeOK, Foreground, OneProgram
<1>14. CASE Orphan
  BY <1>14 DEF Orphan, TypeOK, Foreground, OneProgram, screen
<1>15. CASE UNCHANGED vars
  BY <1>15 DEF vars, TypeOK, Foreground, OneProgram, Inv
<1> QED
  BY <1>1, <1>2, <1>3, <1>4, <1>5, <1>6, <1>7, <1>8, <1>9, <1>10, <1>11, <1>12,
     <1>13, <1>14, <1>15 DEF Next
-----------------------------------------------------------------------------
LEMMA Invariant == Spec => []Inv
<1>1. Init => Inv
  BY InitInv
<1>2. Inv /\ [Next]_vars => Inv'
  BY NextInv
<1> QED BY <1>1, <1>2, PTL DEF Spec

\* Every variable keeps its type, whatever the interpreter is executing.
THEOREM ConsoleTyping == Spec => []TypeOK
<1>1. Inv => TypeOK
  BY DEF Inv
<1> QED BY <1>1, Invariant, PTL

\* The selected console is the one that is shown, and no other one draws.
THEOREM OneForeground == Spec => []Foreground
<1>1. Inv => Foreground
  BY DEF Inv
<1> QED BY <1>1, Invariant, PTL

\* However chords, parked programs, the editor and resets interleave, at most one
\* program is running, and it is that of the console that is shown.
THEOREM ProgramsAlternate == Spec => []OneProgram
<1>1. Inv => OneProgram
  BY DEF Inv
<1> QED BY <1>1, Invariant, PTL
-----------------------------------------------------------------------------
Working == InProgram => prog[console] = "running"

LEMMA NextWorking == Inv /\ Working /\ [Next]_vars => Working'
<1> SUFFICES ASSUME Inv, Working, [Next]_vars PROVE Working'
  OBVIOUS
<1> USE DEF Working, InProgram
<1>1. ASSUME NEW i \in Consoles, Switch(i) PROVE Working'
  BY <1>1 DEF Inv, TypeOK, Switch, DoSwitch, Show, Running, screen
<1>2. CASE ConsolePoll
  <2>1. pending \in Consoles
    BY <1>2 DEF Inv, TypeOK, ConsolePoll
  <2> QED BY <1>2, <2>1 DEF Inv, TypeOK, ConsolePoll, DoSwitch, Show, Running, screen
<1>3. CASE Run \/ EditorRun
  BY <1>3 DEF Inv, TypeOK, Run, EditorRun, StartProgram, screen
<1>4. CASE BeginLine \/ EndLine \/ OnError
  BY <1>4 DEF BeginLine, EndLine, OnError, screen
<1>5. CASE Park \/ End
  BY <1>5 DEF Park, End, Stop, Return
<1>6. CASE Error
  BY <1>6 DEF Error, Stop, Return, screen
<1>7. CASE EditorKey \/ EditorPoll
  BY <1>7 DEF EditorKey, EditorPoll, Editing, screen
<1>8. CASE WarmReset
  BY <1>8 DEF WarmReset
<1>9. CASE Orphan
  BY <1>9 DEF Orphan, screen
<1>10. CASE UNCHANGED vars
  BY <1>10 DEF vars
<1> QED
  BY <1>1, <1>2, <1>3, <1>4, <1>5, <1>6, <1>7, <1>8, <1>9, <1>10 DEF Next

\* What may become of a parked program in one step.
Continues(c) ==
  \/ prog'[c] = "parked" /\ ~(visible # c /\ visible' = c)
  \/ prog'[c] = "running" /\ visible' = c
  \/ WarmReset

\* A console that is shown continues its program; no other program is touched.
LEMMA SwitchContinues ==
  ASSUME Inv, NEW i \in Consoles, DoSwitch(i), NEW c \in Consoles, prog[c] = "parked"
  PROVE  Continues(c)
<1>1. CASE Show(i)
  BY <1>1 DEF Continues, Show, Inv, TypeOK, Foreground
<1>2. CASE UNCHANGED <<screen, prog, where>>
  BY <1>2 DEF Continues, screen
<1> QED BY <1>1, <1>2 DEF DoSwitch

LEMMA NextContinues ==
  ASSUME Inv, Working, [Next]_vars, NEW c \in Consoles, prog[c] = "parked"
  PROVE  Continues(c)
<1>1. ASSUME NEW i \in Consoles, Switch(i) PROVE Continues(c)
  <2>1. CASE DoSwitch(i)
    BY <2>1, SwitchContinues
  <2>2. CASE UNCHANGED <<screen, prog, where>>
    BY <2>2 DEF Continues, screen
  <2> QED BY <1>1, <2>1, <2>2 DEF Switch
<1>2. CASE ConsolePoll
  <2>1. pending \in Consoles
    BY <1>2 DEF Inv, TypeOK, ConsolePoll
  <2> QED BY <1>2, <2>1, SwitchContinues DEF ConsolePoll
<1>3. CASE Run \/ EditorRun
  BY <1>3 DEF Continues, Inv, TypeOK, Foreground, Run, EditorRun, StartProgram, screen
<1>4. CASE BeginLine \/ EndLine \/ OnError
  BY <1>4 DEF Continues, BeginLine, EndLine, OnError, screen
<1>5. ASSUME InProgram, NEW p \in {"idle", "parked"}, Return(p) PROVE Continues(c)
  <2>1. c # console
    BY <1>5 DEF Working
  <2> QED BY <1>5, <2>1 DEF Continues, Return, Inv, TypeOK, screen
<1>6. CASE Park \/ End
  BY <1>5, <1>6 DEF Park, End, Stop, InProgram
<1>7. CASE Error
  <2>1. CASE Stop
    BY <1>5, <1>7, <2>1 DEF Error, Stop
  <2>2. CASE ~Stop
    BY <1>7, <2>2 DEF Continues, Error, screen
  <2> QED BY <2>1, <2>2
<1>8. CASE EditorKey \/ EditorPoll
  BY <1>8 DEF Continues, EditorKey, EditorPoll, Editing, screen
<1>9. CASE WarmReset
  BY <1>9 DEF Continues
<1>10. CASE Orphan
  BY <1>10 DEF Continues, Orphan, screen
<1>11. CASE UNCHANGED vars
  BY <1>11 DEF Continues, vars
<1> QED
  BY <1>1, <1>2, <1>3, <1>4, <1>6, <1>7, <1>8, <1>9, <1>10, <1>11 DEF Next

\* A parked program stays parked until its console is shown, which continues it
\* at once; what runs, ends, fails or is parked on other consoles never ends it.
THEOREM ParkedTheorem == Spec => ParkedContinues
<1>1. Init => Inv /\ Working
  BY InitInv DEF Init, Working, InProgram
<1>2. Inv /\ Working /\ [Next]_vars => Inv' /\ Working'
  BY NextInv, NextWorking
<1>3. Inv /\ Working /\ [Next]_vars =>
        [\A c \in Consoles : prog[c] = "parked" =>
           \/ prog'[c] = "parked" /\ ~(visible # c /\ visible' = c)
           \/ prog'[c] = "running" /\ visible' = c
           \/ WarmReset]_vars
  BY NextContinues DEF Continues
<1> QED BY <1>1, <1>2, <1>3, PTL DEF Spec, ParkedContinues
=============================================================================
