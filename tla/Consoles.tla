------------------------------ MODULE Consoles ------------------------------
(***************************************************************************)
(* The virtual consoles (session.c) and the programs they run: which       *)
(* console is shown, the switch that waits for a running program, the      *)
(* program parked by a switch and continued by the next one (core.c), the  *)
(* editor that started it (editor.c), and the warm reset.                  *)
(*                                                                         *)
(* The interpreter is one thread.  where is what it is executing: the host *)
(* loop; a program, in the poll at the head of a line or in the line; a    *)
(* run_program whose context a reset has wiped; or nothing that the code   *)
(* defines.                                                                *)
(*                                                                         *)
(* Abstracted: screens, sound and settings; a context is its program, its  *)
(* ON ERROR GOTO and its editor.  The background callbacks enter and leave *)
(* a context within one poll and change none of this.                      *)
(***************************************************************************)
EXTENDS Naturals

CONSTANTS
  Consoles,   \* 0 .. MMB_MAX_CONSOLES - 1
  Boot,       \* the console of the boot prompt
  Editors     \* bound: the consoles on which the user opens the editor

ASSUME BootAssumption == Boot \in Consoles

NoSwitch == "none"
ASSUME NoSwitchAssumption == NoSwitch \notin Consoles

VARIABLES
  console,    \* g_console, whose context is g_cur
  visible,    \* s_visible
  pending,    \* s_pending
  ready,      \* the consoles that have a context (s_initialized)
  back,       \* gfx.background of each context
  prog,       \* running, parked (run_suspended) or idle
  trap,       \* on_error_pc: off, armed, or busy (error_active)
  landing,    \* run_errjmp: the frame it was set in is none, live or dead
  edit,       \* the editor: closed, open, in its RUN, or waiting for it
  where

vars == <<console, visible, pending, ready, back, prog, trap, landing, edit, where>>
screen == <<console, visible, ready, back>>
-----------------------------------------------------------------------------
Init ==
  /\ console = Boot /\ visible = Boot
  /\ pending = NoSwitch
  /\ ready = {Boot}
  /\ back = [c \in Consoles |-> FALSE]
  /\ prog = [c \in Consoles |-> "idle"]
  /\ trap = [c \in Consoles |-> "off"]
  /\ landing = [c \in Consoles |-> "none"]
  /\ edit = [c \in Consoles |-> "closed"]
  /\ where = "host"

\* mmb_is_running: of the context selected, not of the machine.
Running == prog[console] = "running"

InProgram == where \in {"head", "line"}
-----------------------------------------------------------------------------
(* Switching.                                                              *)

\* Bug: the console that is left may still draw.
ShowOver(i) ==
  /\ console' = i /\ visible' = i
  /\ back' = [back EXCEPT ![i] = FALSE]
  /\ IF prog[i] = "parked"
     THEN prog' = [prog EXCEPT ![i] = "running"] /\ where' = "head"
     ELSE UNCHANGED <<prog, where>>

\* Bug: the parked program is left parked.
ShowStill(i) ==
  /\ console' = i /\ visible' = i
  /\ back' = [back EXCEPT ![console] = TRUE, ![i] = FALSE]
  /\ UNCHANGED <<prog, where>>

\* The second half of console_do_switch, with mmb_resume_program.
Show(i) ==
  /\ console' = i /\ visible' = i
  /\ back' = [back EXCEPT ![console] = TRUE, ![i] = FALSE]
  /\ IF prog[i] = "parked"
     THEN prog' = [prog EXCEPT ![i] = "running"] /\ where' = "head"
     ELSE UNCHANGED <<prog, where>>

\* console_do_switch: a new console needs a context, and may not get one.
DoSwitch(i) ==
  \/ i \in ready /\ Show(i) /\ UNCHANGED ready
  \/ i \notin ready /\ Show(i) /\ ready' = ready \cup {i}
  \/ i \notin ready /\ UNCHANGED <<screen, prog, where>>

\* Bug: the switch does not wait for the program.
SwitchAtOnce(i) ==
  /\ where # "orphan" /\ where # "stray"
  /\ IF i = console
     THEN pending' = NoSwitch /\ UNCHANGED <<screen, prog, where>>
     ELSE DoSwitch(i) /\ UNCHANGED pending
  /\ UNCHANGED <<trap, landing, edit>>

\* mmb_console_switch, for the chord of console i: from the host loop, or from
\* the input poll of a running program.
Switch(i) ==
  /\ where # "orphan" /\ where # "stray"
  /\ IF i = console
     THEN pending' = NoSwitch /\ UNCHANGED <<screen, prog, where>>
     ELSE IF Running
     THEN pending' = i /\ UNCHANGED <<screen, prog, where>>
     ELSE DoSwitch(i) /\ UNCHANGED pending
  /\ UNCHANGED <<trap, landing, edit>>

\* mmb_console_poll.
ConsolePoll ==
  /\ where = "host"
  /\ pending # NoSwitch /\ ~Running
  /\ pending' = NoSwitch
  /\ DoSwitch(pending)
  /\ UNCHANGED <<trap, landing, edit>>
-----------------------------------------------------------------------------
(* A program.                                                              *)

\* run_program, as far as its first line: a parked program is continued,
\* whoever calls.
StartProgram ==
  /\ prog' = [prog EXCEPT ![console] = "running"]
  /\ trap' = [trap EXCEPT ![console] = IF prog[console] = "parked" THEN @ ELSE "off"]
  /\ where' = "head"
  /\ UNCHANGED <<screen, pending, landing>>

\* RUN at the prompt.
Run ==
  /\ where = "host" /\ edit[console] = "closed"
  /\ StartProgram
  /\ UNCHANGED edit

\* run_program returns: the frame that run_errjmp was set in is gone.
Return(p) ==
  /\ prog' = [prog EXCEPT ![console] = p]
  /\ landing' = [landing EXCEPT ![console] = IF @ = "live" THEN "dead" ELSE @]
  /\ where' = "host"
  /\ UNCHANGED <<screen, pending>>

\* editor_run_finished: to the editor if G.err is set, else to a keypress.
Finished == {"wait", "open"}

\* Bug: the switch is not looked for between lines.
BeginLineBlind ==
  /\ where = "head"
  /\ landing' = [landing EXCEPT ![console] = IF trap[console] = "off" THEN @ ELSE "live"]
  /\ where' = "line"
  /\ UNCHANGED <<screen, pending, prog, trap, edit>>

BeginLine ==
  /\ where = "head" /\ pending = NoSwitch
  /\ landing' = [landing EXCEPT ![console] = IF trap[console] = "off" THEN @ ELSE "live"]
  /\ where' = "line"
  /\ UNCHANGED <<screen, pending, prog, trap, edit>>

\* The switch waits: the program is parked, and the editor that ran it with it.
Park ==
  /\ where = "head" /\ pending # NoSwitch
  /\ Return("parked")
  /\ edit' = [edit EXCEPT ![console] = IF @ = "running" THEN "pending" ELSE @]
  /\ UNCHANGED trap

EndLine == where = "line" /\ where' = "head"
           /\ UNCHANGED <<screen, pending, prog, trap, landing, edit>>

\* ON ERROR GOTO, ON ERROR CLEAR and RESUME.
OnError ==
  /\ where = "line"
  /\ \E t \in {"off", "armed"} : trap' = [trap EXCEPT ![console] = t]
  /\ UNCHANGED <<screen, pending, prog, landing, edit, where>>

\* The program ends, by itself or by an error that nothing traps.
Stop ==
  /\ Return("idle")
  /\ \E e \in Finished :
       edit' = [edit EXCEPT ![console] = IF @ = "running" THEN e ELSE @]
  /\ UNCHANGED trap

End == where = "line" /\ Stop

\* mmb_error, in a line or in the poll before it (BREAK, or an event handler).
Error ==
  /\ InProgram
  /\ IF trap[console] # "armed" THEN Stop
     ELSE /\ trap' = [trap EXCEPT ![console] = "busy"]
          /\ where' = IF landing[console] = "live" THEN "head" ELSE "stray"
          /\ UNCHANGED <<screen, pending, prog, landing, edit>>
-----------------------------------------------------------------------------
(* The editor.                                                             *)

Editing(from, to) ==
  /\ edit[console] = from
  /\ edit' = [edit EXCEPT ![console] = to]
  /\ UNCHANGED <<screen, pending, prog, trap, landing, where>>

\* EDIT, Alt+X, and the key that ends "Press any key to continue".
EditorKey ==
  /\ where = "host"
  /\ console \in Editors
  /\ Editing("closed", "open") \/ Editing("open", "closed") \/ Editing("wait", "open")

\* editor_run: RUN, called from the editor.
EditorRun ==
  /\ where = "host" /\ edit[console] = "open"
  /\ StartProgram
  /\ edit' = [edit EXCEPT ![console] = "running"]

\* mmb_editor_poll, from the host loop or from the spin of a PAUSE.
EditorPoll ==
  /\ where \in {"host", "line"}
  /\ prog[console] # "parked"
  /\ \E e \in Finished : Editing("pending", e)
-----------------------------------------------------------------------------
(* Ctrl+Alt+Del.                                                           *)

\* mmb_warm_reset with mmb_console_reset.  The run_program that polled for the
\* key is still on the stack.
WarmReset ==
  /\ where # "orphan" /\ where # "stray"
  /\ console' = Boot /\ visible' = Boot
  /\ pending' = NoSwitch
  /\ ready' = {Boot}
  /\ back' = [c \in Consoles |-> FALSE]
  /\ prog' = [c \in Consoles |-> "idle"]
  /\ trap' = [c \in Consoles |-> "off"]
  /\ landing' = [c \in Consoles |-> "none"]
  /\ edit' = [c \in Consoles |-> "closed"]
  /\ where' = IF InProgram THEN "orphan" ELSE "host"

\* run_program goes on to the line at its pc, of a program that no longer
\* exists; if that does not fault, the loop ends because nothing is running.
Orphan ==
  /\ where = "orphan"
  /\ where' \in {"host", "stray"}
  /\ UNCHANGED <<screen, pending, prog, trap, landing, edit>>
-----------------------------------------------------------------------------
Next == \/ \E i \in Consoles : Switch(i)
        \/ ConsolePoll
        \/ Run \/ BeginLine \/ Park \/ EndLine \/ OnError \/ End \/ Error
        \/ EditorKey \/ EditorRun \/ EditorPoll
        \/ WarmReset \/ Orphan

\* Every turn of the host loop calls mmb_console_poll, so that it cannot come back
\* to the loop for ever without the poll (a chord in the same turn may get in
\* between); a program that has polled goes on.
Fairness == SF_vars(ConsolePoll) /\ WF_vars(BeginLine \/ Park)

Spec == Init /\ [][Next]_vars /\ Fairness
-----------------------------------------------------------------------------
TypeOK ==
  /\ console \in Consoles /\ visible \in Consoles
  /\ pending \in Consoles \cup {NoSwitch}
  /\ ready \subseteq Consoles
  /\ back \in [Consoles -> BOOLEAN]
  /\ prog \in [Consoles -> {"idle", "running", "parked"}]
  /\ trap \in [Consoles -> {"off", "armed", "busy"}]
  /\ landing \in [Consoles -> {"none", "live", "dead"}]
  /\ edit \in [Consoles -> {"closed", "open", "running", "pending", "wait"}]
  /\ where \in {"host", "head", "line", "orphan", "stray"}

\* The console that is selected is the one that is shown, it has a context, and
\* it is the only one whose graphics reach the display.
Foreground ==
  /\ console = visible /\ visible \in ready
  /\ \A c \in ready : back[c] <=> c # visible

\* A program runs only on the console that is shown, and only while a
\* run_program is on the stack: a second one could never be returned to.
OneProgram ==
  \A c \in Consoles : prog[c] = "running" => c = console /\ where \in {"head", "line", "stray"}

\* A parked program is continued by the switch that shows its console, and by
\* nothing that happens elsewhere.
ParkedContinues ==
  [][\A c \in Consoles : prog[c] = "parked" =>
       \/ prog'[c] = "parked" /\ ~(visible # c /\ visible' = c)
       \/ prog'[c] = "running" /\ visible' = c
       \/ WarmReset]_vars

\* A deferred switch happens, or is cancelled, however many chords replace it,
\* provided that the program keeps coming to the end of its lines: a line that
\* calls a FUNCTION which never returns holds the switch for ever.
SwitchHappens ==
  []<>(where \in {"host", "head"}) => (pending # NoSwitch ~> pending = NoSwitch)
-----------------------------------------------------------------------------
\* The editor takes the screen back only once its program has ended ("leave the
\* editor yielded and finish the run from mmb_editor_poll() once it really
\* ends", editor.c).
EditorWaits == \A c \in Consoles : prog[c] = "running" => edit[c] # "wait"

\* "ON ERROR GOTO jumps to the handler when a runtime error occurs during RUN"
\* (docs/help/on.txt), for which the run_program that mmb_error jumps into must
\* still be on the stack.
TrapLandingLive == Running /\ trap[console] = "armed" => landing[console] = "live"
=============================================================================
