------------------------------- MODULE Frames -------------------------------
(***************************************************************************)
(* Control frames of the interpreter (mmbasic/src/core.c, exec_frame.c).   *)
(*                                                                         *)
(* A running program opens block IFs, SELECTs and DO loops; GOSUB and SUB  *)
(* statements save them in G.gosub_*; FUNCTION calls, event handlers and   *)
(* EXECUTE save them in G.nested_frame AND leave a C frame behind, which   *)
(* an ON ERROR longjmp throws away.  One action is one statement, one      *)
(* dispatch, or one iteration of an unwinding loop.                        *)
(*                                                                         *)
(* Abstracted: which line a program is at (only the line of a DO is kept,  *)
(* because ctrl_reenter compares it), the contents of the IF stack (its    *)
(* depth is kept), the saved arguments and LOCALs, and the difference      *)
(* between DO, WHILE and FOR frames, which are saved and cut alike.        *)
(***************************************************************************)
EXTENDS Naturals, Sequences

CONSTANTS
  MaxGosub,    \* MMB_MAX_GOSUB
  MaxNested,   \* MMB_MAX_NESTED
  MaxIf,       \* MMB_MAX_IF_DEPTH
  MaxSel,      \* MMB_MAX_SELECT
  MaxCtrl,     \* MMB_MAX_CTRL
  Lines,       \* the lines of the program that hold a DO
  Kinds,       \* which nested entries the program uses
  Faults,      \* where an error may strike
  OnError      \* the error mode the program runs under

ASSUME LimitsAssumption ==
  /\ MaxGosub \in Nat /\ MaxNested \in Nat /\ MaxIf \in Nat
  /\ MaxSel \in Nat /\ MaxCtrl \in Nat
ASSUME KindsAssumption == Kinds \subseteq {"function", "event", "execute"}
ASSUME FaultsAssumption ==
  Faults \subseteq {"statement", "entry", "target", "break"}
ASSUME OnErrorAssumption == OnError \in {"abort", "goto", "skip"}

VARIABLES
  status,      \* G.running / G.end_req, and the loops of an unwind
  ctl,         \* the live control state: the fields an mmb_exec_frame frames
  selstack,    \* G.selstack: whether a slot holds a value
  ctrlstack,   \* G.ctrlstack: line and checkpoint of each loop frame
  gosub,       \* G.gosub_*[0 .. gosub_sp-1]
  nested,      \* G.nested_frame[0 .. nested_depth-1]
  cstack,      \* the C frames of run_gosub_loop and mmb_cmd_execute
  tick_busy,   \* G.tick_busy
  error_active \* G.error_active

vars == <<status, ctl, selstack, ctrlstack, gosub, nested, cstack, tick_busy,
          error_active>>
-----------------------------------------------------------------------------
Frame == [if_depth : 0..MaxIf, inl : BOOLEAN, sel_sp : 0..MaxSel,
          sel_base : 0..MaxSel, ctrl_sp : 0..MaxCtrl]
Loop == [line : Lines, if_depth : 0..MaxIf, sel_depth : 0..MaxSel]
NoLoop == [line |-> "none", if_depth |-> 0, sel_depth |-> 0]
Gosub == [ctl : Frame, ret : {"line", "mid", "nested"}]
\* gsp is the gosub_sp the C function remembers (saved_sp, gosub_before), or the
\* depth at entry; depth the nested_depth its own code runs at (body_depth + 1);
\* in_stmt: entered from within a statement, not between lines.
CFrame == [kind : {"function", "event", "execute", "island_sub"},
           phase : {"entry", "body"}, gsp : 0..MaxGosub, depth : 0..MaxNested,
           in_stmt : BOOLEAN]

Lower(a, b) == IF a < b THEN a ELSE b
Higher(a, b) == IF a < b THEN b ELSE a
Pop(s) == SubSeq(s, 1, Len(s) - 1)
Top(s) == s[Len(s)]
Least(S) == CHOOSE m \in S : \A n \in S : m <= n
Greatest(S) == CHOOSE m \in S : \A n \in S : n <= m

Clean == [if_depth |-> 0, inl |-> FALSE, sel_sp |-> 0, sel_base |-> 0,
          ctrl_sp |-> 0]

\* Bug: the callee sees the caller's SELECTs.
EnteredUnhidden(c) == [c EXCEPT !.if_depth = 0, !.inl = FALSE]

\* Clean structure state for a callee, the caller's SELECTs hidden.
Entered(c) == [if_depth |-> 0, inl |-> FALSE, sel_sp |-> c.sel_sp,
               sel_base |-> c.sel_sp, ctrl_sp |-> c.ctrl_sp]

\* Bug: a truncation goes on below the base.
SelAfterNoBase(c, depth) == Lower(depth, c.sel_sp)

\* mmb_sel_truncate: where sel_sp stops, and the slots it empties on the way.
SelAfter(c, depth) ==
  IF c.sel_sp > depth /\ c.sel_sp > c.sel_base
  THEN Higher(depth, c.sel_base) ELSE c.sel_sp
SelFreed(s, c, depth) ==
  [i \in 1..MaxSel |->
     IF SelAfter(c, depth) < i /\ i <= c.sel_sp THEN "free" ELSE s[i]]

\* Bugs: an exact restore; one that forgets the SELECT base, or the IF depth.
RestoredExactly(c, f) == [f EXCEPT !.ctrl_sp = f.ctrl_sp]
RestoredNoBase(c, f) == [f EXCEPT !.ctrl_sp = Lower(c.ctrl_sp, @),
                                  !.sel_base = c.sel_base]
RestoredNoIf(c, f) == [f EXCEPT !.ctrl_sp = Lower(c.ctrl_sp, @),
                                !.if_depth = c.if_depth]

\* The shrink-only restore shared by RETURN and the nested pop: everything is
\* put back, but a loop the callee closed stays closed.
Restored(c, f) == [f EXCEPT !.ctrl_sp = Lower(c.ctrl_sp, f.ctrl_sp)]

\* RETURN: a return to the next line leaves the caller's one-line IF.
Returned(c, g) == [Restored(c, g.ctl) EXCEPT !.inl = @ /\ g.ret # "line"]
-----------------------------------------------------------------------------
InKind(k) == cstack # <<>> /\ Top(cstack).kind = k

\* A GOSUB in an EXECUTE body ends the body: its branch is taken afterwards.
BodyDone == InKind("execute") /\ Len(gosub) > Top(cstack).gsp

AtStatement == /\ cstack # <<>> => Top(cstack).phase = "body"
               /\ ~BodyDone

\* A statement can execute.  After END the rest of the line still executes.
Executing == status \in {"run", "end"} /\ AtStatement

\* Between two lines of a line loop; EXECUTE's body has no line loop.
AtLineBoundary == status = "run" /\ AtStatement /\ ~InKind("execute")
-----------------------------------------------------------------------------
(* Raising an error (mmb_error): which landing the longjmp reaches.          *)

\* The C frames whose callers are in the middle of a guarded statement: an
\* error outside the top line loop's own statement lands at the newest one.
GuardedCallers ==
  {i \in 1..Len(cstack) :
     /\ cstack[i].in_stmt
     /\ i = 1 \/ cstack[i - 1].phase = "body"}

Trap(busy) ==     \* ON ERROR GOTO: unwind_call_frames follows
  /\ OnError = "goto" /\ status = "run" /\ ~error_active
  /\ status' = "trap"
  /\ error_active' = TRUE
  /\ cstack' = <<>>
  /\ tick_busy' = busy
  /\ UNCHANGED <<ctl, selstack, ctrlstack, gosub, nested>>

Abort(busy) ==    \* exec_error_reset follows
  /\ status' = "abort"
  /\ cstack' = <<>>
  /\ tick_busy' = busy
  /\ UNCHANGED <<ctl, selstack, ctrlstack, gosub, nested, error_active>>

Unhandled == \/ OnError = "abort"
             \/ OnError = "goto" /\ error_active
             \/ status = "end"

Skip(level, busy) ==    \* ON ERROR SKIP: only the C frames are abandoned
  /\ OnError = "skip" /\ status = "run"
  /\ cstack' = SubSeq(cstack, 1, level)
  /\ tick_busy' = busy
  /\ UNCHANGED <<status, ctl, selstack, ctrlstack, gosub, nested, error_active>>

\* busy is tick_busy at the moment the error rises.
RaiseInStatement(busy) == \/ Trap(busy)
                          \/ Unhandled /\ Abort(busy)
                          \/ Skip(Len(cstack), busy)

RaiseOutside(busy) ==
  \/ Trap(busy)
  \/ Unhandled /\ Abort(busy)
  \/ GuardedCallers # {} /\ Skip(Greatest(GuardedCallers) - 1, busy)
  \/ OnError = "skip" /\ GuardedCallers = {} /\ Abort(busy)

\* Any statement may fail; one at a limit always does (?IF ?SELECT ?DO ?GOSUB
\* ?NESTING).
StatementError ==
  /\ Executing
  /\ \/ "statement" \in Faults
     \/ ctl.if_depth = MaxIf \/ ctl.sel_sp = MaxSel \/ ctl.ctrl_sp = MaxCtrl
     \/ Len(gosub) = MaxGosub \/ Len(nested) = MaxNested
  /\ RaiseInStatement(tick_busy)

\* BREAK, seen by mmb_check_break between two lines.
Break == "break" \in Faults /\ AtLineBoundary /\ RaiseOutside(tick_busy)
-----------------------------------------------------------------------------
(* Block structure of the running body.                                      *)

OpenIf ==
  /\ Executing /\ ctl.if_depth < MaxIf
  /\ ctl' = [ctl EXCEPT !.if_depth = @ + 1]
  /\ UNCHANGED <<status, selstack, ctrlstack, gosub, nested, cstack, tick_busy,
                 error_active>>

EndIf ==
  /\ Executing /\ ctl.if_depth > 0
  /\ ctl' = [ctl EXCEPT !.if_depth = @ - 1]
  /\ UNCHANGED <<status, selstack, ctrlstack, gosub, nested, cstack, tick_busy,
                 error_active>>

\* A one-line IF takes its arm, or the line it is on ends.
InlineIf ==
  /\ Executing
  /\ ctl' = [ctl EXCEPT !.inl = ~@]
  /\ UNCHANGED <<status, selstack, ctrlstack, gosub, nested, cstack, tick_busy,
                 error_active>>

OpenSelect ==
  /\ Executing /\ ctl.sel_sp < MaxSel
  /\ ctl' = [ctl EXCEPT !.sel_sp = @ + 1]
  /\ selstack' = [selstack EXCEPT ![ctl.sel_sp + 1] = "held"]
  /\ UNCHANGED <<status, ctrlstack, gosub, nested, cstack, tick_busy,
                 error_active>>

EndSelect ==
  /\ Executing /\ ctl.sel_sp > ctl.sel_base
  /\ ctl' = [ctl EXCEPT !.sel_sp = @ - 1]
  /\ selstack' = [selstack EXCEPT ![ctl.sel_sp] = "free"]
  /\ UNCHANGED <<status, ctrlstack, gosub, nested, cstack, tick_busy,
                 error_active>>

\* loop_restore: the IF and SELECT depths a loop was opened at.
LoopRestored(c, if_depth, sel_depth) ==
  [if_depth |-> if_depth, inl |-> c.inl, sel_sp |-> SelAfter(c, sel_depth),
   sel_base |-> c.sel_base, ctrl_sp |-> c.ctrl_sp]

\* pop_ctrl_top on every frame from the top down to i.
LowestSel(i) == Least({ctrlstack[k].sel_depth : k \in i..ctl.ctrl_sp})
PoppedTo(i) == [LoopRestored(ctl, ctrlstack[i].if_depth, LowestSel(i))
                EXCEPT !.ctrl_sp = i - 1]

\* ctrl_reenter looks for the line in the whole stack, callers' loops included.
Reentered(line) == {i \in 1..ctl.ctrl_sp : ctrlstack[i].line = line}
AfterReenter(line) ==
  IF Reentered(line) = {} THEN ctl ELSE PoppedTo(Least(Reentered(line)))
FreedByReenter(line) ==
  IF Reentered(line) = {} THEN selstack
  ELSE SelFreed(selstack, ctl, LowestSel(Least(Reentered(line))))

Do(line, enter) ==
  LET c == AfterReenter(line)
  IN  /\ Executing
      /\ selstack' = FreedByReenter(line)
      /\ \/ /\ ~enter
            /\ ctl' = c
            /\ UNCHANGED ctrlstack
         \/ /\ enter /\ c.ctrl_sp < MaxCtrl
            /\ ctl' = [c EXCEPT !.ctrl_sp = @ + 1]
            /\ ctrlstack' = [ctrlstack EXCEPT ![c.ctrl_sp + 1] =
                 [line |-> line, if_depth |-> c.if_depth,
                  sel_depth |-> c.sel_sp]]
      /\ UNCHANGED <<status, gosub, nested, cstack, tick_busy, error_active>>

\* LOOP whose condition goes round again, and CONTINUE DO.
LoopBack ==
  /\ Executing /\ ctl.ctrl_sp > 0
  /\ ctl' = LoopRestored(ctl, ctrlstack[ctl.ctrl_sp].if_depth,
                          ctrlstack[ctl.ctrl_sp].sel_depth)
  /\ selstack' = SelFreed(selstack, ctl, ctrlstack[ctl.ctrl_sp].sel_depth)
  /\ UNCHANGED <<status, ctrlstack, gosub, nested, cstack, tick_busy,
                 error_active>>

\* LOOP that ends, and EXIT DO.
LeaveLoop ==
  /\ Executing /\ ctl.ctrl_sp > 0
  /\ ctl' = PoppedTo(ctl.ctrl_sp)
  /\ selstack' = SelFreed(selstack, ctl, ctrlstack[ctl.ctrl_sp].sel_depth)
  /\ UNCHANGED <<status, ctrlstack, gosub, nested, cstack, tick_busy,
                 error_active>>
-----------------------------------------------------------------------------
(* Calls and returns.                                                        *)

\* Bug: the limit is not tested.
PushGosubUnchecked(inl, ret) ==
  /\ gosub' = Append(gosub, [ctl |-> [ctl EXCEPT !.inl = inl], ret |-> ret])
  /\ ctl' = Entered(ctl)

\* gosub_save_ctrl, then the clean state of the callee.
PushGosub(inl, ret) ==
  /\ Len(gosub) < MaxGosub
  /\ gosub' = Append(gosub, [ctl |-> [ctl EXCEPT !.inl = inl], ret |-> ret])
  /\ ctl' = Entered(ctl)

\* GOSUB and ON n GOSUB; the return frame is pushed before the target is parsed.
GosubStatement ==
  /\ status = "run" /\ AtStatement
  /\ PushGosub(ctl.inl, "line")
  /\ UNCHANGED <<status, selstack, ctrlstack, nested, cstack, tick_busy,
                 error_active>>

\* Its target does not exist: the frame is already there when the error rises.
GosubNowhere ==
  /\ "target" \in Faults /\ status = "run" /\ AtStatement
  /\ Len(gosub) < MaxGosub
  /\ \/ /\ OnError = "skip"
        /\ PushGosub(ctl.inl, "line")
        /\ UNCHANGED <<status, selstack, ctrlstack, nested, cstack, tick_busy,
                       error_active>>
     \/ OnError # "skip" /\ RaiseInStatement(tick_busy)

\* A SUB called as a statement; more: the line goes on after the call.
CallSub(more) ==
  /\ status = "run" /\ AtStatement /\ ~InKind("execute")
  /\ PushGosub(ctl.inl /\ more, IF more THEN "mid" ELSE "line")
  /\ UNCHANGED <<status, selstack, ctrlstack, nested, cstack, tick_busy,
                 error_active>>

\* In an EXECUTE body it runs at once, in a line loop above the live body.
CallIslandSub ==
  /\ status = "run" /\ AtStatement /\ InKind("execute")
  /\ PushGosub(ctl.inl, "nested")
  /\ cstack' = Append(cstack, [kind |-> "island_sub", phase |-> "body",
                 gsp |-> Len(gosub), depth |-> Len(nested),
                 in_stmt |-> TRUE])
  /\ UNCHANGED <<status, selstack, ctrlstack, nested, tick_busy, error_active>>

\* mmb_nested_push: the first half of every nested entry.
NestedPush(kind, in_stmt) ==
  /\ kind \in Kinds /\ Len(nested) < MaxNested
  /\ nested' = Append(nested, ctl)
  /\ ctl' = Entered(ctl)
  /\ cstack' = Append(cstack, [kind |-> kind, phase |-> "entry",
                 gsp |-> Len(gosub), depth |-> Len(nested) + 1,
                 in_stmt |-> in_stmt])
  /\ UNCHANGED <<status, selstack, ctrlstack, gosub, error_active>>

\* A FUNCTION in an expression of a statement, or in the arguments of another
\* FUNCTION: the frame is pushed before the arguments are evaluated.
EnterFunction ==
  /\ status = "run"
  /\ AtStatement \/ (InKind("function") /\ Top(cstack).phase = "entry")
  /\ NestedPush("function", TRUE)
  /\ UNCHANGED tick_busy

\* An event handler, between two lines or inside PAUSE and VSYNC (paused).
EnterEvent(paused) ==
  /\ status = "run" /\ ~tick_busy
  /\ IF paused THEN AtStatement ELSE AtLineBoundary
  /\ NestedPush("event", paused)
  /\ tick_busy' = TRUE

\* ?NESTING at the dispatch of a handler: tick_busy is already set.
RefuseEvent(paused) ==
  /\ "event" \in Kinds /\ Len(nested) = MaxNested
  /\ status = "run" /\ ~tick_busy
  /\ \/ paused /\ AtStatement /\ RaiseInStatement(TRUE)
     \/ ~paused /\ AtLineBoundary /\ RaiseOutside(TRUE)

EnterExecute ==
  /\ status = "run" /\ AtStatement
  /\ NestedPush("execute", TRUE)
  /\ UNCHANGED tick_busy

Entering == status \in {"run", "end"} /\ cstack # <<>> /\ Top(cstack).phase = "entry"
BodyStarted == cstack' = [cstack EXCEPT ![Len(cstack)].phase = "body"]

\* The second half: the call frame of a FUNCTION or handler ...
BindCall ==
  /\ Entering /\ status = "run" /\ ~InKind("execute")
  /\ PushGosub(ctl.inl, "nested")
  /\ BodyStarted
  /\ UNCHANGED <<status, selstack, ctrlstack, nested, tick_busy, error_active>>

\* ... and the heap body of EXECUTE.
StartBody ==
  /\ Entering /\ status = "run" /\ InKind("execute")
  /\ BodyStarted
  /\ UNCHANGED <<status, ctl, selstack, ctrlstack, gosub, nested, tick_busy,
                 error_active>>

\* An argument cannot be evaluated, the body cannot be allocated, or ?GOSUB.
EntryError ==
  /\ Entering
  /\ \/ "entry" \in Faults
     \/ Top(cstack).kind # "execute" /\ Len(gosub) = MaxGosub
     \/ Top(cstack).kind = "function" /\ Len(nested) = MaxNested
  /\ RaiseOutside(tick_busy)

\* RETURN, END SUB and END FUNCTION in a line loop that keeps running.
ReturnInLoop ==
  /\ Executing /\ gosub # <<>> /\ ~InKind("execute")
  /\ Top(gosub).ret # "nested" \/ cstack = <<>>
  /\ gosub' = Pop(gosub)
  /\ ctl' = Returned(ctl, Top(gosub))
  /\ selstack' = SelFreed(selstack, ctl, Top(gosub).ctl.sel_sp)
  /\ UNCHANGED <<status, ctrlstack, nested, cstack, tick_busy, error_active>>

\* Bug: the handler's end leaves tick_busy set.
LoopEndsBusy(k, c, s, gs, ns) ==
  /\ IF cstack[k].kind = "island_sub"
     THEN ctl' = c /\ selstack' = s /\ nested' = ns
     ELSE /\ ns # <<>>
          /\ ctl' = Restored(c, Top(ns))
          /\ selstack' = SelFreed(s, c, Top(ns).sel_sp)
          /\ nested' = Pop(ns)
  /\ gosub' = IF cstack[k].kind = "event" THEN SubSeq(gs, 1, cstack[k].gsp)
              ELSE gs
  /\ cstack' = SubSeq(cstack, 1, k - 1)
  /\ UNCHANGED <<status, ctrlstack, tick_busy, error_active>>

\* The loop of C frame k ends: its nested frame, if it has one, is popped from
\* ns over the control state c and the slots s, and run_event_handler puts
\* gosub_sp and tick_busy back.
LoopEnds(k, c, s, gs, ns) ==
  /\ IF cstack[k].kind = "island_sub"
     THEN ctl' = c /\ selstack' = s /\ nested' = ns
     ELSE /\ ns # <<>>
          /\ ctl' = Restored(c, Top(ns))
          /\ selstack' = SelFreed(s, c, Top(ns).sel_sp)
          /\ nested' = Pop(ns)
  /\ gosub' = IF cstack[k].kind = "event" THEN SubSeq(gs, 1, cstack[k].gsp)
              ELSE gs
  /\ tick_busy' = (tick_busy /\ cstack[k].kind # "event")
  /\ cstack' = SubSeq(cstack, 1, k - 1)
  /\ UNCHANGED <<status, ctrlstack, error_active>>

\* A return that ends the line loop of a FUNCTION, a handler or an island SUB.
ReturnFromBody ==
  /\ Executing /\ gosub # <<>> /\ Top(gosub).ret = "nested"
  /\ cstack # <<>> /\ ~InKind("execute")
  /\ LoopEnds(Len(cstack), Returned(ctl, Top(gosub)),
              SelFreed(selstack, ctl, Top(gosub).ctl.sel_sp),
              Pop(gosub), nested)

\* RETURN in an EXECUTE body leaves the enclosing call: the frame of every island
\* above the line loop k is dropped unused, and a line loop the return was aimed
\* at ends as well.
ReturnFromIsland(k) ==
  LET g == Top(gosub)  c == Returned(ctl, g)
      s == SelFreed(selstack, ctl, g.ctl.sel_sp)
      outer == SubSeq(nested, 1, Len(nested) - (Len(cstack) - k))
  IN
  /\ Executing /\ gosub # <<>> /\ Len(nested) >= Len(cstack) - k
  /\ \A i \in k + 1..Len(cstack) : cstack[i].kind = "execute"
  /\ k > 0 => cstack[k].kind # "execute"
  /\ \/ /\ g.ret = "nested" /\ k > 0
        /\ LoopEnds(k, c, s, Pop(gosub), outer)
     \/ /\ g.ret # "nested" \/ k = 0
        /\ ctl' = c /\ selstack' = s
        /\ gosub' = Pop(gosub)
        /\ nested' = outer
        /\ cstack' = SubSeq(cstack, 1, k)
        /\ UNCHANGED <<status, ctrlstack, tick_busy, error_active>>

\* Bug: a body that left a call behind leaves its frame, too.
ExecuteEndsUndropped ==
  /\ status \in {"run", "end"} /\ InKind("execute") /\ nested # <<>>
  /\ Top(cstack).phase = "body"
  /\ \/ /\ Len(gosub) = Top(cstack).gsp
        /\ ctl' = Top(nested) /\ nested' = Pop(nested)
        /\ UNCHANGED gosub
     \/ /\ BodyDone
        /\ gosub' = [gosub EXCEPT ![Top(cstack).gsp + 1].ctl = Top(nested)]
        /\ UNCHANGED <<ctl, nested>>
  /\ cstack' = Pop(cstack)
  /\ UNCHANGED <<status, selstack, ctrlstack, tick_busy, error_active>>

\* An argument of the FUNCTION ran END: its body is bound but never runs.
BindStopped ==
  /\ Entering /\ status = "end" /\ InKind("function") /\ Len(gosub) < MaxGosub
  /\ LoopEnds(Len(cstack), Entered(ctl), selstack,
              Append(gosub, [ctl |-> ctl, ret |-> "nested"]), nested)

\* The EXECUTE body is over: the caller is put back exactly, unless the body
\* left a call behind, whose return frame is then pointed at the caller.
ExecuteEnds ==
  /\ status \in {"run", "end"} /\ InKind("execute") /\ nested # <<>>
  /\ Top(cstack).phase = "body"
  /\ \/ /\ Len(gosub) = Top(cstack).gsp
        /\ ctl' = Top(nested)
        /\ UNCHANGED gosub
     \/ /\ BodyDone
        /\ gosub' = [gosub EXCEPT ![Top(cstack).gsp + 1].ctl = Top(nested)]
        /\ UNCHANGED ctl
  /\ nested' = Pop(nested)
  /\ cstack' = Pop(cstack)
  /\ UNCHANGED <<status, selstack, ctrlstack, tick_busy, error_active>>
-----------------------------------------------------------------------------
(* The life of the program.                                                  *)

\* END and STOP.
End ==
  /\ status = "run" /\ AtStatement
  /\ status' = "end"
  /\ UNCHANGED <<ctl, selstack, ctrlstack, gosub, nested, cstack, tick_busy,
                 error_active>>

\* A line loop stops without a return: after END.
LoopStops ==
  /\ status = "end"
  /\ cstack # <<>> /\ Top(cstack).phase = "body" /\ ~InKind("execute")
  /\ LoopEnds(Len(cstack), ctl, selstack, gosub, nested)

ProgramEnds ==
  /\ status \in {"run", "end"} /\ cstack = <<>>
  /\ status' = "idle"
  /\ UNCHANGED <<ctl, selstack, ctrlstack, gosub, nested, cstack, tick_busy,
                 error_active>>

\* ON ERROR GOTO executed again: the next error is trapped too.
OnErrorGoto ==
  /\ OnError = "goto" /\ Executing /\ error_active
  /\ error_active' = FALSE
  /\ UNCHANGED <<status, ctl, selstack, ctrlstack, gosub, nested, cstack,
                 tick_busy>>

\* unwind_call_frames: every gosub frame, newest first ...
UnwindGosub ==
  /\ status = "trap" /\ gosub # <<>>
  /\ gosub' = Pop(gosub)
  /\ ctl' = Restored(ctl, Top(gosub).ctl)
  /\ selstack' = SelFreed(selstack, ctl, Top(gosub).ctl.sel_sp)
  /\ UNCHANGED <<status, ctrlstack, nested, cstack, tick_busy, error_active>>

\* ... then every nested frame (mmb_nested_unwind, also after an abort) ...
UnwindNested ==
  /\ status = "abort" \/ (status = "trap" /\ gosub = <<>>)
  /\ nested # <<>>
  /\ nested' = Pop(nested)
  /\ ctl' = Restored(ctl, Top(nested))
  /\ selstack' = SelFreed(selstack, ctl, Top(nested).sel_sp)
  /\ UNCHANGED <<status, ctrlstack, gosub, cstack, tick_busy, error_active>>

\* Bugs: the handler starts before the nested frames are unwound, or with
\* tick_busy still set.
TrappedEarly ==
  /\ status = "trap" /\ gosub = <<>>
  /\ status' = "run"
  /\ tick_busy' = FALSE
  /\ UNCHANGED <<ctl, selstack, ctrlstack, gosub, nested, cstack, error_active>>
TrappedBusy ==
  /\ status = "trap" /\ gosub = <<>> /\ nested = <<>>
  /\ status' = "run"
  /\ UNCHANGED <<ctl, selstack, ctrlstack, gosub, nested, cstack, tick_busy,
                 error_active>>

\* ... and the handler runs at the outer level.
Trapped ==
  /\ status = "trap" /\ gosub = <<>> /\ nested = <<>>
  /\ status' = "run"
  /\ tick_busy' = FALSE
  /\ UNCHANGED <<ctl, selstack, ctrlstack, gosub, nested, cstack, error_active>>

\* exec_error_reset after the unwinding, with clear_exec_flags.
Aborted ==
  /\ status = "abort" /\ nested = <<>>
  /\ status' = "idle"
  /\ ctl' = [Clean EXCEPT !.ctrl_sp = ctl.ctrl_sp]
  /\ selstack' = SelFreed(selstack, [ctl EXCEPT !.sel_base = 0], 0)
  /\ tick_busy' = FALSE
  /\ UNCHANGED <<ctrlstack, gosub, nested, cstack, error_active>>

\* RUN: run_program resets everything that is not a resumed program's.
Run ==
  /\ status = "idle"
  /\ status' = "run"
  /\ ctl' = Clean
  /\ selstack' = SelFreed(selstack, [ctl EXCEPT !.sel_base = 0], 0)
  /\ gosub' = <<>>
  /\ nested' = <<>>
  /\ tick_busy' = FALSE
  /\ error_active' = FALSE
  /\ UNCHANGED <<ctrlstack, cstack>>
-----------------------------------------------------------------------------
Init ==
  /\ status = "idle"
  /\ ctl = Clean
  /\ selstack = [i \in 1..MaxSel |-> "free"]
  /\ ctrlstack = [i \in 1..MaxCtrl |-> NoLoop]
  /\ gosub = <<>> /\ nested = <<>> /\ cstack = <<>>
  /\ tick_busy = FALSE
  /\ error_active = FALSE

Structure == OpenIf \/ EndIf \/ InlineIf \/ OpenSelect \/ EndSelect
             \/ LoopBack \/ LeaveLoop
             \/ \E line \in Lines, enter \in BOOLEAN : Do(line, enter)

Call == GosubStatement \/ GosubNowhere \/ CallIslandSub
        \/ (\E more \in BOOLEAN : CallSub(more))
        \/ EnterFunction \/ EnterExecute \/ BindCall \/ StartBody
        \/ \E paused \in BOOLEAN : EnterEvent(paused) \/ RefuseEvent(paused)

Leave == ReturnInLoop \/ ReturnFromBody \/ ExecuteEnds \/ BindStopped
         \/ LoopStops
         \/ \E k \in 0..Len(cstack) - 1 : ReturnFromIsland(k)

Failure == StatementError \/ EntryError \/ Break \/ UnwindGosub \/ UnwindNested
           \/ Trapped \/ Aborted

Program == Run \/ End \/ ProgramEnds \/ OnErrorGoto

Next == Structure \/ Call \/ Leave \/ Failure \/ Program

Spec == Init /\ [][Next]_vars
-----------------------------------------------------------------------------
TypeOK ==
  /\ status \in {"idle", "run", "end", "trap", "abort"}
  /\ ctl \in Frame
  /\ selstack \in [1..MaxSel -> {"free", "held"}]
  /\ ctrlstack \in [1..MaxCtrl -> Loop \cup {NoLoop}]
  /\ gosub \in Seq(Gosub) /\ Len(gosub) <= MaxGosub
  /\ nested \in Seq(Frame) /\ Len(nested) <= MaxNested
  /\ cstack \in Seq(CFrame)
  /\ tick_busy \in BOOLEAN
  /\ error_active \in BOOLEAN

Live == status \in {"run", "end"}

\* Every C frame pops its own snapshot: the nested frames recorded in G are those
\* of the C frames that are still there, so an unwinding that loses one of the
\* two hands a caller's state to somebody else (exec_frame.c 9-12,
\* unwind_call_frames).
NestedMatchesC ==
  Live => Len(nested) = IF cstack = <<>> THEN 0 ELSE Top(cstack).depth

\* tick_busy is set exactly while a handler's C frame is live; left behind, it
\* would stop every later dispatch (core.c 2713-2716, #1359).
TickBusyLive ==
  Live => (tick_busy <=> \E i \in 1..Len(cstack) : cstack[i].kind = "event")

\* A SELECT that is open holds its value: nothing a callee does, and no
\* unwinding, frees the value the caller's next CASE compares (mmb_sel_truncate,
\* #1299).  What lies below sel_base is a caller's, and is open again when the
\* caller is; after a trapped error, which leaves no caller, it may be free.
OpenSelectsHold ==
  status = "run" =>
    \A i \in ctl.sel_base + 1..ctl.sel_sp : selstack[i] = "held"

\* A return never resurrects a loop that the callee closed: the loop depth grows
\* only when a DO opens a loop (core.c 1567-1569).  The end of an EXECUTE string
\* puts the depth back exactly, so that this is for programs without it.
NoResurrection ==
  [][ctl'.ctrl_sp > ctl.ctrl_sp =>
       /\ ctl'.ctrl_sp = ctl.ctrl_sp + 1
       /\ UNCHANGED <<gosub, nested, cstack>>]_vars

=============================================================================
