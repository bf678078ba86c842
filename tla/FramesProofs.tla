---------------------------- MODULE FramesProofs ----------------------------
(***************************************************************************)
(* Proofs about Frames, for every depth of the stacks and every program.   *)
(* The error mode is any but SKIP, whose landing abandons C frames without *)
(* their nested frames: NestedMatchesC fails with OnError = "skip".        *)
(*                                                                         *)
(* The inductive invariant relates the three stacks.  Frames knows that a  *)
(* line loop ends with "a" return to a C caller; that it is the loop's own *)
(* return frame that is on top, and not that of a caller's loop, needs     *)
(* CallsInv.  DepthInv says the same of the snapshots, and RunSel, further *)
(* down, of the SELECTs that every saved frame holds open.                 *)
(*                                                                         *)
(* The last part shows that Frames implements Activations.  IslandInv says *)
(* where the activations lie that EXECUTE strings have called.             *)
(***************************************************************************)
EXTENDS FramesLifo, SequenceTheorems, WellFoundedInduction, TLAPS

\* A line loop that runs, and the gosub frames below its caller's.
Bound(f) == f.kind # "execute" /\ f.phase = "body"
Owned(f) == IF Bound(f) THEN f.gsp + 1 ELSE f.gsp

\* The gosub frames of the C frames lie in gosub in the order of cstack, each
\* marked as a return to C, and no other frame is.
CallsInv ==
  /\ cstack # <<>> => Live
  /\ \A i \in 1..Len(cstack) : Owned(cstack[i]) <= Len(gosub)
  /\ \A i, j \in 1..Len(cstack) :
       i < j => Owned(cstack[i]) <= cstack[j].gsp
  /\ \A i \in 1..Len(cstack) :
       Bound(cstack[i]) => gosub[cstack[i].gsp + 1].ret = "nested"
  /\ status = "run" =>
       \A g \in 1..Len(gosub) : gosub[g].ret = "nested" =>
         \E i \in 1..Len(cstack) : Bound(cstack[i]) /\ cstack[i].gsp + 1 = g
  /\ \A i, j \in 1..Len(cstack) :
       j = i + 1 /\ cstack[i].phase = "entry" =>
         /\ cstack[i].kind = "function" /\ cstack[j].kind = "function"
         /\ cstack[j].gsp = cstack[i].gsp
  /\ status = "run" /\ cstack # <<>> /\ Top(cstack).phase = "entry" =>
       Len(gosub) = Top(cstack).gsp

\* Each C frame runs one nested frame above the C frame below it, a SUB called in
\* an island at the island's own depth.
DepthAt(i) == IF i = 0 THEN 0 ELSE cstack[i].depth
DepthInv ==
  /\ Live => Len(nested) = DepthAt(Len(cstack))
  /\ \A i \in 1..Len(cstack) :
       DepthAt(i) = IF cstack[i].kind = "island_sub" THEN DepthAt(i - 1)
                    ELSE DepthAt(i - 1) + 1
  /\ \A i, j \in 0..Len(cstack) :
       i <= j /\ (\A m \in i + 1..j : cstack[m].kind = "execute") =>
         DepthAt(j) = DepthAt(i) + (j - i)

\* Handlers do not nest.
BusyInv ==
  /\ TickBusyLive
  /\ \A i, j \in 1..Len(cstack) :
       cstack[i].kind = "event" /\ cstack[j].kind = "event" => i = j
-----------------------------------------------------------------------------
(* Sequences, least elements, and the types of the operators of Frames.      *)

\* A cut of a sequence keeps its first elements.
LEMMA CutType ==
  ASSUME NEW S, NEW s \in Seq(S), NEW n \in 0..Len(s)
  PROVE  /\ SubSeq(s, 1, n) \in Seq(S)
         /\ Len(SubSeq(s, 1, n)) = n
         /\ \A i \in 1..n : SubSeq(s, 1, n)[i] = s[i]
<1>1. n \in Int /\ 1 \in 1..Len(s) + 1
  BY LenProperties, SMT
<1> QED BY SubSeqProperties, LenProperties, SMT

\* Pop leaves the elements below the top.
LEMMA PopType ==
  ASSUME NEW S, NEW s \in Seq(S), s # <<>>
  PROVE  /\ Pop(s) \in Seq(S)
         /\ Len(Pop(s)) = Len(s) - 1
         /\ \A i \in 1..Len(s) - 1 : Pop(s)[i] = s[i]
         /\ Top(s) \in S
         /\ Len(s) \in Nat \ {0}
<1> DEFINE m == Len(s) - 1
<1>1. Len(s) \in Nat \ {0}
  BY EmptySeq
<1>2. m \in 0..Len(s)
  BY <1>1, SMT
<1>3. /\ SubSeq(s, 1, m) \in Seq(S)
      /\ Len(SubSeq(s, 1, m)) = m
      /\ \A i \in 1..m : SubSeq(s, 1, m)[i] = s[i]
  BY <1>2, CutType
<1>4. Len(s) \in 1..Len(s)
  BY <1>1, SMT
<1>5. s[Len(s)] \in S
  BY <1>4, ElementOfSeq
<1> QED BY <1>1, <1>3, <1>5 DEF Pop, Top

\* Every set of numbers that is not empty has a least element.
LEMMA LeastIn ==
  ASSUME NEW S \in SUBSET Nat, S # {}
  PROVE  Least(S) \in S /\ \A n \in S : Least(S) <= n
<1>1. \E m \in S : \A n \in S : ~(<<n, m>> \in OpToRel(<, Nat))
  BY WFMin, NatLessThanWellFounded, Zenon
<1>2. ASSUME NEW m \in Nat, NEW n \in Nat, n < m
      PROVE  <<n, m>> \in OpToRel(<, Nat)
  BY <1>2, Zenon DEF OpToRel
<1>3. \E m \in S : \A n \in S : ~(n < m)
  BY <1>1, <1>2
<1>4. \A m, n \in S : ~(n < m) => m <= n
  BY SMT
<1> QED BY <1>3, <1>4 DEF Least

\* Truncating the SELECT stack stays within it.
LEMMA SelType ==
  ASSUME NEW c \in Frame, NEW depth \in 0..MaxSel,
         NEW s \in [1..MaxSel -> {"free", "held"}]
  PROVE  /\ SelAfter(c, depth) \in 0..MaxSel
         /\ SelFreed(s, c, depth) \in [1..MaxSel -> {"free", "held"}]
<1>1. SelAfter(c, depth) \in 0..MaxSel
  BY LimitsAssumption, SMT DEF SelAfter, Higher, Frame
<1>2. SelFreed(s, c, depth) \in [1..MaxSel -> {"free", "held"}]
  BY SMT DEF SelFreed
<1> QED BY <1>1, <1>2

\* Entering a callee and the two restores map frames to frames.
LEMMA FrameOps ==
  ASSUME NEW c \in Frame, NEW f \in Frame
  PROVE  /\ Entered(c) \in Frame
         /\ Restored(c, f) \in Frame
         /\ Restored(c, f).sel_sp = f.sel_sp
<1>1. Entered(c) \in Frame
  BY LimitsAssumption, SMT DEF Entered, Frame
<1>2. Restored(c, f) \in Frame /\ Restored(c, f).sel_sp = f.sel_sp
  BY LimitsAssumption, SMT DEF Restored, Lower, Frame
<1> QED BY <1>1, <1>2

\* Changing the one-line IF of a frame gives a frame.
LEMMA InlType == \A f \in Frame, b \in BOOLEAN : [f EXCEPT !.inl = b] \in Frame
BY SMT DEF Frame

\* What a return restores is a frame.
LEMMA ReturnedType ==
  ASSUME NEW c \in Frame, NEW g \in Gosub
  PROVE  Returned(c, g) \in Frame /\ g.ctl \in Frame /\ g.ctl.sel_sp \in 0..MaxSel
<1>1. g.ctl \in Frame
  BY SMT DEF Gosub
<1>2. Restored(c, g.ctl) \in Frame
  BY <1>1, FrameOps
<1>3. Restored(c, g.ctl).inl \in BOOLEAN
  BY <1>2, SMT DEF Frame
<1>4. (Restored(c, g.ctl).inl /\ g.ret # "line") \in BOOLEAN
  BY <1>3
<1>5. Returned(c, g) \in Frame
  BY <1>2, <1>4, InlType, Zenon DEF Returned
<1> QED BY <1>1, <1>5, SMT DEF Frame

\* Going back to a loop frame, and cutting the loop stack above frame i.
LEMMA LoopType ==
  ASSUME NEW c \in Frame, NEW d \in 0..MaxIf, NEW s \in 0..MaxSel
  PROVE  LoopRestored(c, d, s) \in Frame
<1>1. SelAfter(c, s) \in 0..MaxSel
  BY LimitsAssumption, SMT DEF SelAfter, Higher, Frame
<1> QED BY <1>1, SMT DEF LoopRestored, Frame

\* Every slot of the loop stack records depths the stacks have.
LEMMA LoopFrameType ==
  ASSUME TypeOK
  PROVE  \A k \in 1..MaxCtrl : /\ ctrlstack[k].if_depth \in 0..MaxIf
                              /\ ctrlstack[k].sel_depth \in 0..MaxSel
<1> TAKE k \in 1..MaxCtrl
<1>1. ctrlstack[k] \in Loop \/ ctrlstack[k] = NoLoop
  BY SMT DEF TypeOK
<1> QED BY <1>1, LimitsAssumption, SMT DEF Loop, NoLoop

\* Popping loop frames leaves a frame.
LEMMA PoppedType ==
  ASSUME TypeOK, NEW i \in 1..ctl.ctrl_sp
  PROVE  /\ LowestSel(i) \in 0..MaxSel
         /\ PoppedTo(i) \in Frame
<1>1. ctl \in Frame /\ ctl.ctrl_sp \in 0..MaxCtrl
  BY SMT DEF TypeOK, Frame
<1>2. \A k \in i..ctl.ctrl_sp : ctrlstack[k].sel_depth \in 0..MaxSel
  BY <1>1, LoopFrameType, LimitsAssumption, SMT
<1>3. LowestSel(i) \in 0..MaxSel
  <2> DEFINE D == {ctrlstack[k].sel_depth : k \in i..ctl.ctrl_sp}
  <2>1. D \in SUBSET (0..MaxSel)
    BY <1>2
  <2>2. i \in i..ctl.ctrl_sp
    BY <1>1, SMT
  <2>3. D # {}
    BY <2>2
  <2>4. 0..MaxSel \subseteq Nat
    BY LimitsAssumption, SMT
  <2>5. Least(D) \in D
    BY <2>1, <2>3, <2>4, LeastIn
  <2> QED BY <2>1, <2>5 DEF LowestSel
<1>4. ctrlstack[i].if_depth \in 0..MaxIf
  BY <1>1, LoopFrameType, LimitsAssumption, SMT
<1>5. LoopRestored(ctl, ctrlstack[i].if_depth, LowestSel(i)) \in Frame
  BY <1>1, <1>3, <1>4, LoopType
<1>6. i - 1 \in 0..MaxCtrl
  BY <1>1, LimitsAssumption, SMT
<1>7. \A f \in Frame, n \in 0..MaxCtrl : [f EXCEPT !.ctrl_sp = n] \in Frame
  BY SMT DEF Frame
<1> QED BY <1>3, <1>5, <1>6, <1>7 DEF PoppedTo
-----------------------------------------------------------------------------
(* Type correctness.                                                         *)

\* PushGosub appends one frame and hides the SELECTs of the caller.
LEMMA PushGosubType ==
  ASSUME TypeOK, NEW inl \in BOOLEAN, NEW ret \in {"line", "mid", "nested"},
         PushGosub(inl, ret)
  PROVE  /\ gosub' \in Seq(Gosub) /\ Len(gosub') <= MaxGosub
         /\ Len(gosub') = Len(gosub) + 1
         /\ \A g \in 1..Len(gosub) : gosub'[g] = gosub[g]
         /\ gosub'[Len(gosub) + 1].ret = ret
         /\ ctl' \in Frame
<1> DEFINE g == [ctl |-> [ctl EXCEPT !.inl = inl], ret |-> ret]
<1>1. [ctl EXCEPT !.inl = inl] \in Frame
  BY InlType DEF TypeOK
<1>2. g \in Gosub /\ g.ret = ret
  BY <1>1, SMT DEF Gosub
<1>3. gosub' = Append(gosub, g) /\ Len(gosub) < MaxGosub /\ ctl' = Entered(ctl)
  BY DEF PushGosub
<1>4. gosub \in Seq(Gosub) /\ Len(gosub) \in Nat
  BY LenProperties DEF TypeOK
<1> HIDE DEF g
<1>5. /\ gosub' \in Seq(Gosub)
      /\ Len(gosub') = Len(gosub) + 1
      /\ \A i \in 1..Len(gosub) + 1 :
           gosub'[i] = IF i = Len(gosub) + 1 THEN g ELSE gosub[i]
  BY <1>2, <1>3, <1>4, AppendProperties
<1>6. ctl' \in Frame
  BY <1>3, FrameOps DEF TypeOK
<1> QED BY <1>2, <1>3, <1>4, <1>5, <1>6, LimitsAssumption, SMT

\* NestedPush appends one snapshot and one C frame.
LEMMA NestedPushType ==
  ASSUME TypeOK, NEW kind \in {"function", "event", "execute"},
         NEW in_stmt \in BOOLEAN, NestedPush(kind, in_stmt)
  PROVE  /\ nested' \in Seq(Frame) /\ Len(nested') <= MaxNested
         /\ Len(nested') = Len(nested) + 1
         /\ ctl' \in Frame
         /\ cstack' \in Seq(CFrame)
         /\ Len(cstack') = Len(cstack) + 1
         /\ \A i \in 1..Len(cstack) : cstack'[i] = cstack[i]
         /\ cstack'[Len(cstack) + 1] =
              [kind |-> kind, phase |-> "entry", gsp |-> Len(gosub),
               depth |-> Len(nested) + 1, in_stmt |-> in_stmt]
<1> DEFINE f == [kind |-> kind, phase |-> "entry", gsp |-> Len(gosub),
                 depth |-> Len(nested) + 1, in_stmt |-> in_stmt]
<1>1. /\ nested' = Append(nested, ctl) /\ Len(nested) < MaxNested
      /\ ctl' = Entered(ctl) /\ cstack' = Append(cstack, f)
  BY DEF NestedPush
<1>2. /\ nested \in Seq(Frame) /\ Len(nested) \in Nat
      /\ cstack \in Seq(CFrame) /\ Len(cstack) \in Nat
      /\ Len(gosub) \in 0..MaxGosub /\ ctl \in Frame
  <2>1. /\ nested \in Seq(Frame) /\ cstack \in Seq(CFrame)
        /\ gosub \in Seq(Gosub) /\ Len(gosub) <= MaxGosub /\ ctl \in Frame
    BY DEF TypeOK
  <2> QED BY <2>1, LenProperties, LimitsAssumption, SMT
<1>3. f \in CFrame
  BY <1>1, <1>2, LimitsAssumption, SMT DEF CFrame
<1> HIDE DEF f
<1>4. /\ nested' \in Seq(Frame) /\ Len(nested') = Len(nested) + 1
  BY <1>1, <1>2, AppendProperties
<1>5. /\ cstack' \in Seq(CFrame) /\ Len(cstack') = Len(cstack) + 1
      /\ \A i \in 1..Len(cstack) + 1 :
           cstack'[i] = IF i = Len(cstack) + 1 THEN f ELSE cstack[i]
  BY <1>1, <1>2, <1>3, AppendProperties
<1>6. ctl' \in Frame
  BY <1>1, <1>2, FrameOps
<1>7. Len(nested') <= MaxNested
  BY <1>1, <1>2, <1>4, LimitsAssumption, SMT
<1>8. cstack'[Len(cstack) + 1] = f
  BY <1>2, <1>5, SMT
<1>9. \A i \in 1..Len(cstack) : cstack'[i] = cstack[i]
  BY <1>2, <1>5, SMT
<1> QED BY <1>4, <1>5, <1>6, <1>7, <1>8, <1>9 DEF f

\* The frames of the C stack below k, and the gosub frames of an event's caller.
LEMMA LoopEndsType ==
  ASSUME TypeOK, NEW k \in 1..Len(cstack), NEW c \in Frame,
         NEW s \in [1..MaxSel -> {"free", "held"}],
         NEW gs \in Seq(Gosub), Len(gs) <= MaxGosub,
         NEW ns \in Seq(Frame), Len(ns) <= MaxNested,
         cstack[k].gsp <= Len(gs),
         LoopEnds(k, c, s, gs, ns)
  PROVE  /\ TypeOK'
         /\ Len(cstack') = k - 1
         /\ \A i \in 1..k - 1 : cstack'[i] = cstack[i]
         /\ Len(nested') = IF cstack[k].kind = "island_sub" THEN Len(ns)
                           ELSE Len(ns) - 1
         /\ Len(gosub') = IF cstack[k].kind = "event" THEN cstack[k].gsp
                          ELSE Len(gs)
         /\ \A g \in 1..Len(gosub') : gosub'[g] = gs[g]
<1>1. cstack \in Seq(CFrame) /\ Len(cstack) \in Nat /\ cstack[k] \in CFrame
  BY LenProperties, ElementOfSeq DEF TypeOK
<1>2. /\ cstack' \in Seq(CFrame) /\ Len(cstack') = k - 1
      /\ \A i \in 1..k - 1 : cstack'[i] = cstack[i]
  <2>1. k - 1 \in 0..Len(cstack)
    BY <1>1, SMT
  <2> QED BY <1>1, <2>1, CutType DEF LoopEnds
<1>3. Len(gs) \in Nat /\ Len(ns) \in Nat
  BY LenProperties
<1>4. /\ gosub' \in Seq(Gosub) /\ Len(gosub') <= MaxGosub
      /\ Len(gosub') = IF cstack[k].kind = "event" THEN cstack[k].gsp
                       ELSE Len(gs)
      /\ \A g \in 1..Len(gosub') : gosub'[g] = gs[g]
  <2>1. CASE cstack[k].kind = "event"
    <3>1. cstack[k].gsp \in 0..Len(gs)
      BY <1>1, <1>3, SMT DEF CFrame
    <3>2. gosub' = SubSeq(gs, 1, cstack[k].gsp)
      BY <2>1 DEF LoopEnds
    <3>3. /\ gosub' \in Seq(Gosub) /\ Len(gosub') = cstack[k].gsp
          /\ \A g \in 1..cstack[k].gsp : gosub'[g] = gs[g]
      BY <3>1, <3>2, CutType
    <3> QED BY <2>1, <3>1, <3>3, <1>3, LimitsAssumption, SMT
  <2>2. CASE cstack[k].kind # "event"
    BY <2>2, SMT DEF LoopEnds
  <2> QED BY <2>1, <2>2
<1>5. /\ nested' \in Seq(Frame) /\ Len(nested') <= MaxNested
      /\ Len(nested') = IF cstack[k].kind = "island_sub" THEN Len(ns)
                        ELSE Len(ns) - 1
      /\ ctl' \in Frame
      /\ selstack' \in [1..MaxSel -> {"free", "held"}]
  <2>1. CASE cstack[k].kind = "island_sub"
    BY <2>1, SMT DEF LoopEnds
  <2>2. CASE cstack[k].kind # "island_sub"
    <3>1. /\ ns # <<>> /\ ctl' = Restored(c, Top(ns)) /\ nested' = Pop(ns)
          /\ selstack' = SelFreed(s, c, Top(ns).sel_sp)
      BY <2>2 DEF LoopEnds
    <3>2. /\ Pop(ns) \in Seq(Frame) /\ Len(Pop(ns)) = Len(ns) - 1
          /\ Top(ns) \in Frame
      BY <3>1, PopType
    <3>3. Top(ns).sel_sp \in 0..MaxSel
      BY <3>2, SMT DEF Frame
    <3>4. ctl' \in Frame
      BY <3>1, <3>2, FrameOps
    <3>5. selstack' \in [1..MaxSel -> {"free", "held"}]
      BY <3>1, <3>3, SelType
    <3>6. Len(nested') <= MaxNested
      BY <3>1, <3>2, <1>3, LimitsAssumption, SMT
    <3> QED BY <2>2, <3>1, <3>2, <3>4, <3>5, <3>6
  <2> QED BY <2>1, <2>2
<1>6. tick_busy' \in BOOLEAN
  BY DEF LoopEnds
<1> QED BY <1>2, <1>4, <1>5, <1>6 DEF TypeOK, LoopEnds
\* What every error does first, in any mode but SKIP.
Raised == /\ status' \in {"trap", "abort"}
          /\ status' = "trap" => status = "run"
          /\ cstack' = <<>>
          /\ UNCHANGED <<ctl, selstack, ctrlstack, gosub, nested>>
          /\ tick_busy' \in BOOLEAN /\ error_active' \in BOOLEAN

\* Unless errors are skipped, every error lands in an unwinding.
LEMMA RaisedStep ==
  ASSUME TypeOK, OnError # "skip",
         \/ StatementError \/ EntryError \/ Break \/ GosubNowhere
         \/ \E paused \in BOOLEAN : RefuseEvent(paused)
  PROVE  Raised
<1>1. tick_busy \in BOOLEAN /\ error_active \in BOOLEAN
  BY DEF TypeOK
<1>2. ASSUME NEW busy \in BOOLEAN, Trap(busy) PROVE Raised
  BY <1>2 DEF Trap, Raised
<1>3. ASSUME NEW busy \in BOOLEAN, Abort(busy) PROVE Raised
  BY <1>1, <1>3 DEF Abort, Raised
<1>4. ASSUME NEW busy \in BOOLEAN, RaiseInStatement(busy) PROVE Raised
  BY <1>2, <1>3, <1>4 DEF RaiseInStatement, Skip
<1>5. ASSUME NEW busy \in BOOLEAN, RaiseOutside(busy) PROVE Raised
  BY <1>2, <1>3, <1>5 DEF RaiseOutside, Skip
<1>6. TRUE \in BOOLEAN
  OBVIOUS
<1>7. CASE StatementError
  BY <1>1, <1>4, <1>7 DEF StatementError
<1>8. CASE EntryError
  BY <1>1, <1>5, <1>8 DEF EntryError
<1>9. CASE Break
  BY <1>1, <1>5, <1>9 DEF Break
<1>10. CASE GosubNowhere
  BY <1>1, <1>4, <1>10 DEF GosubNowhere
<1>11. CASE \E paused \in BOOLEAN : RefuseEvent(paused)
  BY <1>4, <1>5, <1>6, <1>11 DEF RefuseEvent
<1> QED BY <1>7, <1>8, <1>9, <1>10, <1>11

\* Every action but the errors, in the groups the proofs treat alike: those that
\* leave the three stacks alone, those that touch gosub only, and the rest.
LEMMA StepCases ==
  ASSUME Next
  PROVE  \/ StatementError \/ EntryError \/ Break \/ GosubNowhere
         \/ \E paused \in BOOLEAN : RefuseEvent(paused)
         \/ OpenIf \/ EndIf \/ InlineIf \/ OpenSelect \/ EndSelect
         \/ LoopBack \/ LeaveLoop
         \/ \E line \in Lines, enter \in BOOLEAN : Do(line, enter)
         \/ OnErrorGoto
         \/ GosubStatement \/ \E more \in BOOLEAN : CallSub(more)
         \/ CallIslandSub \/ BindCall \/ StartBody
         \/ EnterFunction \/ EnterExecute
         \/ \E paused \in BOOLEAN : EnterEvent(paused)
         \/ ReturnInLoop \/ ReturnFromBody \/ ExecuteEnds
         \/ \E k \in 0..Len(cstack) - 1 : ReturnFromIsland(k)
         \/ BindStopped \/ LoopStops
         \/ UnwindGosub \/ UnwindNested \/ Trapped \/ Aborted
         \/ Run \/ End \/ ProgramEnds
<1>1. CASE Structure
  BY <1>1 DEF Structure
<1>2. CASE Call
  BY <1>2 DEF Call
<1>3. CASE Leave
  BY <1>3 DEF Leave
<1>4. CASE Failure
  BY <1>4 DEF Failure
<1>5. CASE Program
  BY <1>5 DEF Program
<1> QED BY <1>1, <1>2, <1>3, <1>4, <1>5 DEF Next
\* Structure statements change the live state and the SELECT slots, only.
LEMMA StructureType ==
  ASSUME TypeOK,
         \/ OpenIf \/ EndIf \/ InlineIf \/ OpenSelect \/ EndSelect
         \/ LoopBack \/ LeaveLoop
         \/ \E line \in Lines, enter \in BOOLEAN : Do(line, enter)
  PROVE  /\ TypeOK'
         /\ UNCHANGED <<status, gosub, nested, cstack, tick_busy, error_active>>
<1> USE LimitsAssumption
<1>1. /\ ctl \in Frame /\ ctl.if_depth \in 0..MaxIf /\ ctl.inl \in BOOLEAN
      /\ ctl.sel_sp \in 0..MaxSel /\ ctl.sel_base \in 0..MaxSel
      /\ ctl.ctrl_sp \in 0..MaxCtrl
      /\ selstack \in [1..MaxSel -> {"free", "held"}]
      /\ ctrlstack \in [1..MaxCtrl -> Loop \cup {NoLoop}]
  BY SMT DEF TypeOK, Frame
<1>2. \A n \in 0..MaxIf : [ctl EXCEPT !.if_depth = n] \in Frame
  BY <1>1, SMT DEF Frame
<1>3. \A n \in 0..MaxSel : [ctl EXCEPT !.sel_sp = n] \in Frame
  BY <1>1, SMT DEF Frame
<1>4. \A i \in 1..MaxSel, v \in {"free", "held"} :
        [selstack EXCEPT ![i] = v] \in [1..MaxSel -> {"free", "held"}]
  BY <1>1
<1>5. CASE OpenIf
  <2>1. ctl.if_depth + 1 \in 0..MaxIf
    BY <1>1, <1>5, SMT DEF OpenIf
  <2>2. ctl' \in Frame
    BY <1>2, <1>5, <2>1 DEF OpenIf
  <2> QED BY <1>5, <2>2 DEF OpenIf, TypeOK
<1>6. CASE EndIf
  <2>1. ctl.if_depth - 1 \in 0..MaxIf
    BY <1>1, <1>6, SMT DEF EndIf
  <2>2. ctl' \in Frame
    BY <1>2, <1>6, <2>1 DEF EndIf
  <2> QED BY <1>6, <2>2 DEF EndIf, TypeOK
<1>7. CASE InlineIf
  <2>1. ctl' \in Frame
    BY <1>1, <1>7, InlType DEF InlineIf
  <2> QED BY <1>7, <2>1 DEF InlineIf, TypeOK
<1>8. CASE OpenSelect
  <2>1. ctl.sel_sp + 1 \in 1..MaxSel /\ ctl.sel_sp + 1 \in 0..MaxSel
    BY <1>1, <1>8, SMT DEF OpenSelect
  <2>2. ctl' \in Frame /\ selstack' \in [1..MaxSel -> {"free", "held"}]
    BY <1>3, <1>4, <1>8, <2>1 DEF OpenSelect
  <2> QED BY <1>8, <2>2 DEF OpenSelect, TypeOK
<1>9. CASE EndSelect
  <2>1. ctl.sel_sp \in 1..MaxSel /\ ctl.sel_sp - 1 \in 0..MaxSel
    BY <1>1, <1>9, SMT DEF EndSelect
  <2>2. ctl' \in Frame /\ selstack' \in [1..MaxSel -> {"free", "held"}]
    BY <1>3, <1>4, <1>9, <2>1 DEF EndSelect
  <2> QED BY <1>9, <2>2 DEF EndSelect, TypeOK
<1>10. CASE LoopBack
  <2>1. ctl.ctrl_sp \in 1..MaxCtrl
    BY <1>1, <1>10, SMT DEF LoopBack
  <2>2. /\ ctrlstack[ctl.ctrl_sp].if_depth \in 0..MaxIf
        /\ ctrlstack[ctl.ctrl_sp].sel_depth \in 0..MaxSel
    BY <2>1, LoopFrameType
  <2>3. ctl' \in Frame /\ selstack' \in [1..MaxSel -> {"free", "held"}]
    BY <1>1, <1>10, <2>2, LoopType, SelType DEF LoopBack
  <2> QED BY <1>10, <2>3 DEF LoopBack, TypeOK
<1>11. CASE LeaveLoop
  <2>1. ctl.ctrl_sp \in 1..MaxCtrl /\ ctl.ctrl_sp \in 1..ctl.ctrl_sp
    BY <1>1, <1>11, SMT DEF LeaveLoop
  <2>2. ctrlstack[ctl.ctrl_sp].sel_depth \in 0..MaxSel
    BY <2>1, LoopFrameType
  <2>3. ctl' \in Frame /\ selstack' \in [1..MaxSel -> {"free", "held"}]
    BY <1>1, <1>11, <2>1, <2>2, PoppedType, SelType DEF LeaveLoop
  <2> QED BY <1>11, <2>3 DEF LeaveLoop, TypeOK
<1>12. ASSUME NEW line \in Lines, NEW enter \in BOOLEAN, Do(line, enter)
       PROVE  TypeOK' /\ UNCHANGED <<status, gosub, nested, cstack, tick_busy,
                                     error_active>>
  <2> DEFINE R == Reentered(line)  c == AfterReenter(line)
  <2>1. R # {} => Least(R) \in 1..ctl.ctrl_sp
    <3>1. R \in SUBSET (1..ctl.ctrl_sp) /\ 1..ctl.ctrl_sp \in SUBSET Nat
      BY <1>1, SMT DEF Reentered
    <3> QED BY <3>1, LeastIn
  <2>2. c \in Frame
    BY <1>1, <2>1, PoppedType DEF AfterReenter
  <2>3. FreedByReenter(line) \in [1..MaxSel -> {"free", "held"}]
    BY <1>1, <2>1, PoppedType, SelType DEF FreedByReenter
  <2> HIDE DEF R, c
  <2>4. /\ c.if_depth \in 0..MaxIf /\ c.sel_sp \in 0..MaxSel
        /\ c.ctrl_sp \in 0..MaxCtrl
    BY <2>2, SMT DEF Frame
  <2>5. ctl' \in Frame /\ ctrlstack' \in [1..MaxCtrl -> Loop \cup {NoLoop}]
    <3>1. CASE enter /\ c.ctrl_sp < MaxCtrl
               /\ ctl' = [c EXCEPT !.ctrl_sp = @ + 1]
               /\ ctrlstack' = [ctrlstack EXCEPT ![c.ctrl_sp + 1] =
                    [line |-> line, if_depth |-> c.if_depth,
                     sel_depth |-> c.sel_sp]]
      <4>1. c.ctrl_sp + 1 \in 0..MaxCtrl
        BY <2>4, <3>1, SMT
      <4>2. ctl' \in Frame
        BY <2>2, <3>1, <4>1, SMT DEF Frame
      <4>3. [line |-> line, if_depth |-> c.if_depth, sel_depth |-> c.sel_sp]
              \in Loop
        BY <2>4 DEF Loop
      <4> QED BY <1>1, <3>1, <4>2, <4>3
    <3>2. CASE ctl' = c /\ UNCHANGED ctrlstack
      BY <1>1, <2>2, <3>2
    <3> QED BY <1>12, <3>1, <3>2 DEF Do, c
  <2> QED BY <1>12, <2>3, <2>5 DEF Do, TypeOK
<1> QED BY <1>5, <1>6, <1>7, <1>8, <1>9, <1>10, <1>11, <1>12
\* A frame on top of a stack, and the stack below it, have their types.
LEMMA TopTypes ==
  ASSUME TypeOK
  PROVE  /\ Len(gosub) \in 0..MaxGosub /\ Len(nested) \in 0..MaxNested
         /\ Len(cstack) \in Nat
         /\ \A i \in 1..Len(cstack) : cstack[i] \in CFrame
         /\ gosub # <<>> =>
              /\ Pop(gosub) \in Seq(Gosub) /\ Len(Pop(gosub)) = Len(gosub) - 1
              /\ \A i \in 1..Len(gosub) - 1 : Pop(gosub)[i] = gosub[i]
              /\ Top(gosub) \in Gosub /\ Len(gosub) \in 1..MaxGosub
              /\ Returned(ctl, Top(gosub)) \in Frame
              /\ Top(gosub).ctl \in Frame
              /\ SelFreed(selstack, ctl, Top(gosub).ctl.sel_sp)
                   \in [1..MaxSel -> {"free", "held"}]
         /\ nested # <<>> =>
              /\ Pop(nested) \in Seq(Frame) /\ Len(Pop(nested)) = Len(nested) - 1
              /\ Top(nested) \in Frame /\ Len(nested) \in 1..MaxNested
              /\ SelFreed(selstack, ctl, Top(nested).sel_sp)
                   \in [1..MaxSel -> {"free", "held"}]
         /\ cstack # <<>> =>
              /\ Pop(cstack) \in Seq(CFrame) /\ Len(Pop(cstack)) = Len(cstack) - 1
              /\ \A i \in 1..Len(cstack) - 1 : Pop(cstack)[i] = cstack[i]
              /\ Len(cstack) \in 1..Len(cstack)
              /\ Top(cstack) = cstack[Len(cstack)]
<1>1. /\ gosub \in Seq(Gosub) /\ Len(gosub) <= MaxGosub
      /\ nested \in Seq(Frame) /\ Len(nested) <= MaxNested
      /\ cstack \in Seq(CFrame) /\ ctl \in Frame
      /\ selstack \in [1..MaxSel -> {"free", "held"}]
  BY DEF TypeOK
<1>2. Len(gosub) \in Nat /\ Len(nested) \in Nat /\ Len(cstack) \in Nat
  BY <1>1, LenProperties
<1>3. Len(gosub) \in 0..MaxGosub /\ Len(nested) \in 0..MaxNested
  BY <1>1, <1>2, LimitsAssumption, SMT
<1>4. \A i \in 1..Len(cstack) : cstack[i] \in CFrame
  BY <1>1, ElementOfSeq
<1>5. ASSUME gosub # <<>>
      PROVE  /\ Pop(gosub) \in Seq(Gosub) /\ Len(Pop(gosub)) = Len(gosub) - 1
             /\ \A i \in 1..Len(gosub) - 1 : Pop(gosub)[i] = gosub[i]
             /\ Top(gosub) \in Gosub /\ Len(gosub) \in 1..MaxGosub
             /\ Returned(ctl, Top(gosub)) \in Frame
             /\ Top(gosub).ctl \in Frame
             /\ SelFreed(selstack, ctl, Top(gosub).ctl.sel_sp)
                  \in [1..MaxSel -> {"free", "held"}]
  <2>1. /\ Pop(gosub) \in Seq(Gosub) /\ Len(Pop(gosub)) = Len(gosub) - 1
        /\ \A i \in 1..Len(gosub) - 1 : Pop(gosub)[i] = gosub[i]
        /\ Top(gosub) \in Gosub /\ Len(gosub) \in Nat \ {0}
    BY <1>1, <1>5, PopType
  <2>2. Len(gosub) \in 1..MaxGosub
    BY <1>1, <2>1, LimitsAssumption, SMT
  <2> QED BY <1>1, <2>1, <2>2, ReturnedType, SelType
<1>6. ASSUME nested # <<>>
      PROVE  /\ Pop(nested) \in Seq(Frame) /\ Len(Pop(nested)) = Len(nested) - 1
             /\ Top(nested) \in Frame /\ Len(nested) \in 1..MaxNested
             /\ SelFreed(selstack, ctl, Top(nested).sel_sp)
                  \in [1..MaxSel -> {"free", "held"}]
  <2>1. /\ Pop(nested) \in Seq(Frame) /\ Len(Pop(nested)) = Len(nested) - 1
        /\ Top(nested) \in Frame /\ Len(nested) \in Nat \ {0}
    BY <1>1, <1>6, PopType
  <2>2. Len(nested) \in 1..MaxNested
    BY <1>1, <2>1, LimitsAssumption, SMT
  <2>3. Top(nested).sel_sp \in 0..MaxSel
    BY <2>1, SMT DEF Frame
  <2> QED BY <1>1, <2>1, <2>2, <2>3, SelType
<1>7. ASSUME cstack # <<>>
      PROVE  /\ Pop(cstack) \in Seq(CFrame)
             /\ Len(Pop(cstack)) = Len(cstack) - 1
             /\ \A i \in 1..Len(cstack) - 1 : Pop(cstack)[i] = cstack[i]
             /\ Len(cstack) \in 1..Len(cstack)
             /\ Top(cstack) = cstack[Len(cstack)]
  <2>1. /\ Pop(cstack) \in Seq(CFrame) /\ Len(Pop(cstack)) = Len(cstack) - 1
        /\ \A i \in 1..Len(cstack) - 1 : Pop(cstack)[i] = cstack[i]
        /\ Len(cstack) \in Nat \ {0}
    BY <1>1, <1>7, PopType
  <2> QED BY <2>1, SMT DEF Top
<1> QED BY <1>2, <1>3, <1>4, <1>5, <1>6, <1>7

\* A C frame that ends: what its gosub and nested frames are cut from, and that
\* the frame the handler's wrapper restores is there.
LEMMA OwnedBelow ==
  ASSUME TypeOK, CallsInv, NEW k \in 1..Len(cstack)
  PROVE  /\ cstack[k].gsp \in Nat /\ cstack[k].gsp <= Len(gosub)
         /\ Bound(cstack[k]) =>
              /\ cstack[k].gsp + 1 <= Len(gosub) /\ gosub # <<>>
              /\ gosub[cstack[k].gsp + 1].ret = "nested"
<1>1. cstack[k] \in CFrame /\ Len(gosub) \in Nat
  BY TopTypes, SMT
<1>2. cstack[k].gsp \in Nat
  BY <1>1, LimitsAssumption, SMT DEF CFrame
<1>3. Owned(cstack[k]) <= Len(gosub)
  BY DEF CallsInv
<1>4. gosub = <<>> => Len(gosub) = 0
  BY EmptySeq
<1>5. Bound(cstack[k]) => gosub[cstack[k].gsp + 1].ret = "nested"
  BY DEF CallsInv
<1> QED BY <1>1, <1>2, <1>3, <1>4, <1>5, SMT DEF Owned

\* The frame whose statements execute is a line loop or an EXECUTE body.
LEMMA TopBound ==
  ASSUME TypeOK, AtStatement, cstack # <<>>, ~InKind("execute")
  PROVE  Len(cstack) \in 1..Len(cstack) /\ Bound(cstack[Len(cstack)])
<1>1. Len(cstack) \in 1..Len(cstack) /\ Top(cstack) = cstack[Len(cstack)]
  BY TopTypes
<1> QED BY <1>1 DEF AtStatement, InKind, Bound

\* The line loop that RETURN leaves is below its islands.
LEMMA IslandBase ==
  ASSUME TypeOK, CallsInv, AtStatement, InKind("execute"), gosub # <<>>,
         NEW k \in 1..Len(cstack) - 1,
         \A i \in k + 1..Len(cstack) : cstack[i].kind = "execute",
         cstack[k].kind # "execute"
  PROVE  k \in 1..Len(cstack) /\ Bound(cstack[k])
<1>1. Len(cstack) \in Nat
  BY TopTypes
<1>2. k \in 1..Len(cstack) /\ k + 1 \in 1..Len(cstack) /\ k + 1 \in k + 1..Len(cstack)
  BY <1>1, SMT
<1>3. cstack[k].phase # "entry"
  <2>1. cstack[k + 1].kind = "execute"
    BY <1>2
  <2>2. cstack[k].phase = "entry" => cstack[k + 1].kind = "function"
    BY <1>2 DEF CallsInv
  <2> QED BY <2>1, <2>2
<1>4. cstack[k].phase \in {"entry", "body"}
  BY <1>2, TopTypes, SMT DEF CFrame
<1> QED BY <1>2, <1>3, <1>4 DEF Bound
\* A reset frees every SELECT slot.
LEMMA ResetType ==
  ASSUME TypeOK
  PROVE  /\ Clean \in Frame
         /\ [Clean EXCEPT !.ctrl_sp = ctl.ctrl_sp] \in Frame
         /\ SelFreed(selstack, [ctl EXCEPT !.sel_base = 0], 0)
              \in [1..MaxSel -> {"free", "held"}]
<1> USE LimitsAssumption
<1>1. Clean \in Frame
  BY SMT DEF Clean, Frame
<1>2. \A f \in Frame, n \in 0..MaxCtrl : [f EXCEPT !.ctrl_sp = n] \in Frame
  BY SMT DEF Frame
<1>3. 0 \in 0..MaxSel /\ selstack \in [1..MaxSel -> {"free", "held"}]
  BY SMT DEF TypeOK
<1>4. \A f \in Frame, n \in 0..MaxSel : [f EXCEPT !.sel_base = n] \in Frame
  BY SMT DEF Frame
<1>5. ctl.ctrl_sp \in 0..MaxCtrl /\ [ctl EXCEPT !.sel_base = 0] \in Frame
  <2>1. ctl \in Frame
    BY DEF TypeOK
  <2>2. ctl.ctrl_sp \in 0..MaxCtrl
    BY <2>1, SMT DEF Frame
  <2> QED BY <1>3, <1>4, <2>1, <2>2
<1> QED BY <1>1, <1>2, <1>3, <1>5, SelType

\* BodyStarted turns the top frame into a body, and changes nothing else.
LEMMA BodyStartedType ==
  ASSUME TypeOK, cstack # <<>>, BodyStarted
  PROVE  /\ cstack' \in Seq(CFrame) /\ Len(cstack') = Len(cstack)
         /\ \A i \in 1..Len(cstack) : i # Len(cstack) => cstack'[i] = cstack[i]
         /\ cstack'[Len(cstack)] = [cstack[Len(cstack)] EXCEPT !.phase = "body"]
<1> DEFINE f == [cstack[Len(cstack)] EXCEPT !.phase = "body"]
<1>1. Len(cstack) \in 1..Len(cstack) /\ cstack[Len(cstack)] \in CFrame
  BY TopTypes
<1>2. f \in CFrame
  BY <1>1, SMT DEF CFrame
<1>3. cstack' = [cstack EXCEPT ![Len(cstack)] = f]
  BY DEF BodyStarted
<1> HIDE DEF f
<1>4. /\ cstack' \in Seq(CFrame) /\ Len(cstack') = Len(cstack)
      /\ \A i \in 1..Len(cstack) :
           cstack'[i] = IF i = Len(cstack) THEN f ELSE cstack[i]
  BY <1>1, <1>2, <1>3, ExceptSeq DEF TypeOK
<1> QED BY <1>1, <1>4 DEF f

\* The types are kept by the calls and the nested entries,
LEMMA CallType ==
  ASSUME TypeOK,
         \/ GosubStatement \/ \E more \in BOOLEAN : CallSub(more)
         \/ CallIslandSub \/ BindCall \/ StartBody
         \/ EnterFunction \/ EnterExecute
         \/ \E paused \in BOOLEAN : EnterEvent(paused)
  PROVE  TypeOK'
<1>1. ctl.inl \in BOOLEAN /\ TRUE \in BOOLEAN
  BY SMT DEF TypeOK, Frame
<1>2. CASE GosubStatement
  <2>1. PushGosub(ctl.inl, "line")
    BY <1>2 DEF GosubStatement
  <2> QED BY <1>1, <1>2, <2>1, PushGosubType DEF GosubStatement, TypeOK
<1>3. ASSUME NEW more \in BOOLEAN, CallSub(more) PROVE TypeOK'
  <2>1. PushGosub(ctl.inl /\ more, IF more THEN "mid" ELSE "line")
    BY <1>3 DEF CallSub
  <2>2. (ctl.inl /\ more) \in BOOLEAN
        /\ (IF more THEN "mid" ELSE "line") \in {"line", "mid", "nested"}
    BY <1>1
  <2> QED BY <1>3, <2>1, <2>2, PushGosubType DEF CallSub, TypeOK
<1>4. CASE CallIslandSub
  <2> DEFINE f == [kind |-> "island_sub", phase |-> "body", gsp |-> Len(gosub),
                   depth |-> Len(nested), in_stmt |-> TRUE]
  <2>1. PushGosub(ctl.inl, "nested") /\ cstack' = Append(cstack, f)
    BY <1>4 DEF CallIslandSub
  <2>2. f \in CFrame
    BY TopTypes, SMT DEF CFrame
  <2> HIDE DEF f
  <2>3. cstack' \in Seq(CFrame)
    BY <2>1, <2>2, AppendProperties DEF TypeOK
  <2> QED BY <1>1, <1>4, <2>1, <2>3, PushGosubType DEF CallIslandSub, TypeOK
<1>5. CASE BindCall
  <2>1. PushGosub(ctl.inl, "nested") /\ BodyStarted /\ cstack # <<>>
    BY <1>5 DEF BindCall, Entering
  <2> QED BY <1>1, <1>5, <2>1, PushGosubType, BodyStartedType
          DEF BindCall, TypeOK
<1>6. CASE StartBody
  <2>1. BodyStarted /\ cstack # <<>>
    BY <1>6 DEF StartBody, Entering
  <2> QED BY <1>6, <2>1, BodyStartedType DEF StartBody, TypeOK
<1>7. ASSUME NEW kind \in {"function", "event", "execute"},
             NEW in_stmt \in BOOLEAN, NestedPush(kind, in_stmt),
             tick_busy' \in BOOLEAN
      PROVE  TypeOK'
  BY <1>7, NestedPushType DEF NestedPush, TypeOK
<1>8. CASE EnterFunction \/ EnterExecute
  <2>1. /\ NestedPush("function", TRUE) \/ NestedPush("execute", TRUE)
        /\ tick_busy' \in BOOLEAN
    BY <1>8 DEF EnterFunction, EnterExecute, TypeOK
  <2> QED BY <1>7, <2>1
<1>9. ASSUME NEW paused \in BOOLEAN, EnterEvent(paused) PROVE TypeOK'
  BY <1>7, <1>9 DEF EnterEvent
<1> QED BY <1>2, <1>3, <1>4, <1>5, <1>6, <1>8, <1>9

\* by the returns,
LEMMA LeaveType ==
  ASSUME TypeOK, CallsInv,
         \/ ReturnInLoop \/ ReturnFromBody \/ ExecuteEnds
         \/ \E k \in 0..Len(cstack) - 1 : ReturnFromIsland(k)
         \/ BindStopped \/ LoopStops
  PROVE  TypeOK'
<1>1. /\ ctl \in Frame /\ selstack \in [1..MaxSel -> {"free", "held"}]
      /\ gosub \in Seq(Gosub) /\ nested \in Seq(Frame) /\ cstack \in Seq(CFrame)
      /\ Len(gosub) \in 0..MaxGosub /\ Len(nested) \in 0..MaxNested
      /\ Len(cstack) \in Nat
  BY TopTypes DEF TypeOK
<1>2. Len(gosub) <= MaxGosub /\ Len(nested) <= MaxNested
      /\ (gosub # <<>> => Len(Pop(gosub)) <= MaxGosub)
  BY <1>1, TopTypes, LimitsAssumption, SMT
<1>3. CASE ReturnInLoop
  BY <1>2, <1>3, TopTypes DEF ReturnInLoop, TypeOK
<1>4. CASE ReturnFromBody
  <2> DEFINE k == Len(cstack)
  <2>1. gosub # <<>> /\ cstack # <<>> /\ AtStatement /\ ~InKind("execute")
        /\ LoopEnds(k, Returned(ctl, Top(gosub)),
                    SelFreed(selstack, ctl, Top(gosub).ctl.sel_sp),
                    Pop(gosub), nested)
    BY <1>4 DEF ReturnFromBody, Executing
  <2>2. k \in 1..Len(cstack) /\ Bound(cstack[k])
    BY <2>1, TopBound
  <2>3. cstack[k].gsp <= Len(Pop(gosub))
    BY <1>1, <2>1, <2>2, OwnedBelow, TopTypes, SMT
  <2> QED BY <1>1, <1>2, <2>1, <2>2, <2>3, TopTypes, LoopEndsType
<1>5. ASSUME NEW k \in 0..Len(cstack) - 1, ReturnFromIsland(k)
      PROVE  TypeOK'
  <2> DEFINE outer == SubSeq(nested, 1, Len(nested) - (Len(cstack) - k))
             c == Returned(ctl, Top(gosub))
             s == SelFreed(selstack, ctl, Top(gosub).ctl.sel_sp)
  <2>1. /\ AtStatement /\ gosub # <<>>
        /\ \A i \in k + 1..Len(cstack) : cstack[i].kind = "execute"
        /\ k > 0 => cstack[k].kind # "execute"
        /\ Len(nested) >= Len(cstack) - k
    BY <1>5, Zenon DEF ReturnFromIsland, Executing
  <2>2. InKind("execute")
    <3>1. Len(cstack) \in k + 1..Len(cstack) /\ cstack # <<>>
      BY <1>1, EmptySeq, SMT
    <3> QED BY <2>1, <3>1 DEF InKind, Top
  <2>3. Len(nested) - (Len(cstack) - k) \in 0..Len(nested)
    BY <1>1, <2>1, <2>2, SMT
  <2>4. outer \in Seq(Frame) /\ Len(outer) <= MaxNested
    <3>1. outer \in Seq(Frame) /\ Len(outer) = Len(nested) - (Len(cstack) - k)
      BY <1>1, <2>3, CutType
    <3> QED BY <1>1, <1>2, <2>3, <3>1, LimitsAssumption, SMT
  <2>5. CASE k > 0 /\ LoopEnds(k, c, s, Pop(gosub), outer)
    <3>1. k \in 1..Len(cstack) - 1 /\ k \in 1..Len(cstack)
      BY <1>1, <2>5, SMT
    <3>2. Bound(cstack[k])
      BY <2>1, <2>2, <2>5, <3>1, IslandBase
    <3>3. cstack[k].gsp <= Len(Pop(gosub))
      BY <1>1, <2>1, <2>2, <3>1, <3>2, OwnedBelow, TopTypes, SMTT(30)
    <3>4. c \in Frame /\ s \in [1..MaxSel -> {"free", "held"}]
          /\ Pop(gosub) \in Seq(Gosub)
      BY <2>1, <2>2, TopTypes
    <3> HIDE DEF outer, c, s
    <3> QED BY <1>2, <2>1, <2>2, <2>4, <2>5, <3>1, <3>3, <3>4, LoopEndsType
  <2>6. CASE /\ ctl' = c /\ selstack' = s /\ gosub' = Pop(gosub)
             /\ nested' = outer /\ cstack' = SubSeq(cstack, 1, k)
             /\ UNCHANGED <<status, ctrlstack, tick_busy, error_active>>
    <3>1. k \in 0..Len(cstack)
      BY <1>1, SMT
    <3>2. cstack' \in Seq(CFrame)
      BY <1>1, <2>6, <3>1, CutType
    <3> QED BY <1>2, <2>1, <2>2, <2>4, <2>6, <3>2, TopTypes DEF TypeOK
  <2> QED BY <1>5, <2>5, <2>6 DEF ReturnFromIsland
<1>6. CASE ExecuteEnds
  <2>1. nested # <<>> /\ cstack # <<>>
    BY <1>6 DEF ExecuteEnds, InKind
  <2>2. /\ Pop(nested) \in Seq(Frame) /\ Len(Pop(nested)) <= MaxNested
        /\ Pop(cstack) \in Seq(CFrame) /\ Top(nested) \in Frame
    BY <1>1, <2>1, TopTypes, LimitsAssumption, SMT
  <2>3. /\ ctl' \in Frame
        /\ gosub' \in Seq(Gosub) /\ Len(gosub') <= MaxGosub
    <3>1. CASE ctl' = Top(nested) /\ UNCHANGED gosub
      BY <1>1, <1>2, <2>2, <3>1
    <3>2. CASE /\ BodyDone /\ UNCHANGED ctl
               /\ gosub' = [gosub EXCEPT ![Top(cstack).gsp + 1].ctl = Top(nested)]
      <4> DEFINE g == Top(cstack).gsp + 1
      <4>1. g \in 1..Len(gosub)
        <5>1. Top(cstack).gsp < Len(gosub)
          BY <1>1, <3>2, <2>1, TopTypes, OwnedBelow, SMT DEF BodyDone
        <5>2. Top(cstack).gsp \in Nat
          BY <2>1, TopTypes, OwnedBelow
        <5> QED BY <1>1, <5>1, <5>2, SMT
      <4>2. gosub[g] \in Gosub
        BY <1>1, <4>1, ElementOfSeq
      <4>3. [gosub[g] EXCEPT !.ctl = Top(nested)] \in Gosub
        BY <2>2, <4>2, SMT DEF Gosub
      <4>4. gosub' = [gosub EXCEPT ![g] = [gosub[g] EXCEPT !.ctl = Top(nested)]]
        BY <3>2
      <4> HIDE DEF g
      <4>5. gosub' \in Seq(Gosub) /\ Len(gosub') = Len(gosub)
        BY <1>1, <4>1, <4>3, <4>4, ExceptSeq
      <4> QED BY <1>1, <1>2, <3>2, <4>5
    <3> QED BY <1>6, <3>1, <3>2 DEF ExecuteEnds
  <2> QED BY <1>6, <2>2, <2>3 DEF ExecuteEnds, TypeOK
<1>7. CASE BindStopped
  <2> DEFINE g == [ctl |-> ctl, ret |-> "nested"]
             k == Len(cstack)
  <2>1. /\ cstack # <<>> /\ Len(gosub) < MaxGosub
        /\ LoopEnds(k, Entered(ctl), selstack, Append(gosub, g), nested)
    BY <1>7 DEF BindStopped, Entering
  <2>2. g \in Gosub
    BY <1>1, SMT DEF Gosub
  <2> HIDE DEF g
  <2>3. /\ Append(gosub, g) \in Seq(Gosub)
        /\ Len(Append(gosub, g)) = Len(gosub) + 1
    BY <1>1, <2>2, AppendProperties
  <2>4. k \in 1..Len(cstack) /\ cstack[k].gsp \in Nat /\ cstack[k].gsp <= Len(gosub)
    BY <2>1, TopTypes, OwnedBelow
  <2>5. cstack[k].gsp <= Len(Append(gosub, g))
        /\ Len(Append(gosub, g)) <= MaxGosub
    BY <1>1, <2>1, <2>3, <2>4, LimitsAssumption, SMT
  <2>6. Entered(ctl) \in Frame
    BY <1>1, FrameOps
  <2> QED BY <1>1, <1>2, <2>1, <2>3, <2>4, <2>5, <2>6, LoopEndsType
<1>8. CASE LoopStops
  <2> DEFINE k == Len(cstack)
  <2>1. cstack # <<>> /\ LoopEnds(k, ctl, selstack, gosub, nested)
    BY <1>8 DEF LoopStops
  <2>2. k \in 1..Len(cstack) /\ cstack[k].gsp <= Len(gosub)
    BY <2>1, TopTypes, OwnedBelow
  <2> QED BY <1>1, <1>2, <2>1, <2>2, LoopEndsType
<1> QED BY <1>3, <1>4, <1>5, <1>6, <1>7, <1>8

\* and so by every step.
LEMMA TypeStep ==
  ASSUME TypeOK, CallsInv, OnError # "skip", Next
  PROVE  TypeOK'
<1>1. /\ Len(gosub) <= MaxGosub /\ Len(nested) <= MaxNested
      /\ (gosub # <<>> => Len(Pop(gosub)) <= MaxGosub)
      /\ (nested # <<>> => Len(Pop(nested)) <= MaxNested)
  BY TopTypes, LimitsAssumption, SMT
<1>2. CASE Raised
  BY <1>2 DEF Raised, TypeOK
<1>3. CASE OnErrorGoto
  BY <1>3 DEF OnErrorGoto, TypeOK
<1>4. CASE UnwindGosub
  <2>1. Restored(ctl, Top(gosub).ctl) \in Frame
    BY <1>4, TopTypes, FrameOps DEF UnwindGosub, TypeOK
  <2> QED BY <1>1, <1>4, <2>1, TopTypes DEF UnwindGosub, TypeOK
<1>5. CASE UnwindNested
  <2>1. Restored(ctl, Top(nested)) \in Frame
    BY <1>5, TopTypes, FrameOps DEF UnwindNested, TypeOK
  <2> QED BY <1>1, <1>5, <2>1, TopTypes DEF UnwindNested, TypeOK
<1>6. CASE Trapped
  BY <1>6 DEF Trapped, TypeOK
<1>7. CASE Aborted
  BY <1>7, ResetType DEF Aborted, TypeOK
<1>8. CASE Run
  <2>1. Len(<<>>) <= MaxGosub /\ Len(<<>>) <= MaxNested
        /\ <<>> \in Seq(Gosub) /\ <<>> \in Seq(Frame)
    BY EmptySeq, LimitsAssumption, SMT
  <2> QED BY <1>8, <2>1, ResetType DEF Run, TypeOK
<1>9. CASE End \/ ProgramEnds
  BY <1>9 DEF End, ProgramEnds, TypeOK
<1> QED BY <1>2, <1>3, <1>4, <1>5, <1>6, <1>7, <1>8, <1>9, StepCases,
           RaisedStep, StructureType, CallType, LeaveType
\* What TypeOK needs to be inductive, and what the theorems state.
Inv == CallsInv /\ DepthInv /\ BusyInv

\* Nothing is left to check when no C frame is live.
LEMMA InvEmpty ==
  ASSUME cstack' = <<>>, status' = "run" => gosub' = <<>>,
         Live' => nested' = <<>> /\ ~tick_busy'
  PROVE  Inv'
<1>1. Len(cstack') = 0 /\ Len(<<>>) = 0 /\ 1..0 = {} /\ 0..0 = {0}
  BY SMT
<1>2. CallsInv'
  BY <1>1 DEF CallsInv
<1>3. DepthInv'
  <2>1. DepthAt(0)' = 0
    BY DEF DepthAt
  <2> QED BY <1>1, <2>1, SMT DEF DepthInv
<1>4. BusyInv'
  BY <1>1 DEF BusyInv, TickBusyLive
<1> QED BY <1>2, <1>3, <1>4 DEF Inv

\* C frames above k are gone.  What the step does to gosub must leave the frames
\* the others own, and no return to C that nobody owns.
LEMMA InvCut ==
  ASSUME TypeOK, TypeOK', Inv, Live,
         NEW k \in 0..Len(cstack), Len(cstack') = k,
         \A i \in 1..k : cstack'[i] = cstack[i],
         k = 0 \/ Live',
         \A i \in 1..k : Owned(cstack[i]) <= Len(gosub'),
         \A g \in 1..Len(gosub) :
           g <= Len(gosub') => gosub'[g].ret = gosub[g].ret,
         status' = "run" =>
           /\ status = "run" /\ Len(gosub') <= Len(gosub)
           /\ \A i \in k + 1..Len(cstack) :
                Bound(cstack[i]) => Len(gosub') <= cstack[i].gsp
           /\ k > 0 /\ cstack[k].phase = "entry" => Len(gosub') = cstack[k].gsp,
         Live' => Len(nested') = DepthAt(k),
         Live' => (tick_busy' <=> \E i \in 1..k : cstack[i].kind = "event")
  PROVE  Inv'
<1>1. /\ Len(cstack) \in Nat /\ Len(gosub) \in Nat /\ k \in Nat
      /\ Len(cstack') \in Nat /\ Len(gosub') \in Nat
      /\ cstack \in Seq(CFrame) /\ cstack' \in Seq(CFrame)
      /\ \A i \in 1..Len(cstack) : cstack[i] \in CFrame
  <2>1. Len(cstack) \in Nat /\ Len(gosub) \in Nat /\ cstack \in Seq(CFrame)
        /\ \A i \in 1..Len(cstack) : cstack[i] \in CFrame
    BY TopTypes, SMT DEF TypeOK
  <2>2. cstack' \in Seq(CFrame) /\ gosub' \in Seq(Gosub)
    BY DEF TypeOK
  <2> QED BY <2>1, <2>2, LenProperties, SMT
<1>2. \A i \in 1..k : i \in 1..Len(cstack) /\ i \in Nat
  BY <1>1, SMT
<1>3. CallsInv'
  <2>1. (cstack # <<>> => Live)'
    BY <1>1, EmptySeq, SMT
  <2>2. \A i \in 1..k : Owned(cstack'[i]) = Owned(cstack[i])
                        /\ Bound(cstack'[i]) = Bound(cstack[i])
    OBVIOUS
  <2>3. (\A i \in 1..Len(cstack) : Owned(cstack[i]) <= Len(gosub))'
    BY <2>2
  <2>4. (\A i, j \in 1..Len(cstack) :
           i < j => Owned(cstack[i]) <= cstack[j].gsp)'
    BY <1>2, <2>2, Zenon DEF Inv, CallsInv
  <2>5. (\A i \in 1..Len(cstack) :
           Bound(cstack[i]) => gosub[cstack[i].gsp + 1].ret = "nested")'
    <3>1. ASSUME NEW i \in 1..k, Bound(cstack[i])
          PROVE  gosub'[cstack[i].gsp + 1].ret = "nested"
      <4>1. /\ cstack[i].gsp \in Nat /\ cstack[i].gsp + 1 <= Len(gosub)
            /\ gosub[cstack[i].gsp + 1].ret = "nested"
        BY <1>2, <3>1, OwnedBelow DEF Inv
      <4>2. cstack[i].gsp + 1 <= Len(gosub')
        BY <3>1 DEF Owned
      <4>3. cstack[i].gsp + 1 \in 1..Len(gosub)
        BY <1>1, <4>1, SMT
      <4> QED BY <4>1, <4>2, <4>3
    <3> QED BY <2>2, <3>1
  <2>6. (status = "run" =>
          \A g \in 1..Len(gosub) : gosub[g].ret = "nested" =>
            \E i \in 1..Len(cstack) : Bound(cstack[i]) /\ cstack[i].gsp + 1 = g)'
    <3>1. ASSUME status' = "run", NEW g \in 1..Len(gosub'),
                 gosub'[g].ret = "nested"
          PROVE  \E i \in 1..k : Bound(cstack[i]) /\ cstack[i].gsp + 1 = g
      <4>1. g \in 1..Len(gosub) /\ g <= Len(gosub')
        BY <1>1, <3>1, SMT
      <4>2. PICK i \in 1..Len(cstack) : Bound(cstack[i]) /\ cstack[i].gsp + 1 = g
        BY <3>1, <4>1, Zenon DEF Inv, CallsInv
      <4>3. i \in 1..k
        <5>1. cstack[i].gsp \in Nat
          BY OwnedBelow DEF Inv
        <5>2. i \in k + 1..Len(cstack) => Len(gosub') <= cstack[i].gsp
          BY <3>1, <4>2
        <5> QED BY <1>1, <4>1, <4>2, <5>1, <5>2, SMT
      <4> QED BY <4>2, <4>3
    <3> QED BY <2>2, <3>1
  <2>7. (\A i, j \in 1..Len(cstack) :
           j = i + 1 /\ cstack[i].phase = "entry" =>
             /\ cstack[i].kind = "function" /\ cstack[j].kind = "function"
             /\ cstack[j].gsp = cstack[i].gsp)'
    <3>1. ASSUME NEW i \in 1..k, NEW j \in 1..k, j = i + 1,
                 cstack'[i].phase = "entry"
          PROVE  /\ cstack'[i].kind = "function" /\ cstack'[j].kind = "function"
                 /\ cstack'[j].gsp = cstack'[i].gsp
      <4>1. i \in 1..Len(cstack) /\ j \in 1..Len(cstack) /\ cstack[i].phase = "entry"
        BY <1>2, <3>1
      <4>2. /\ cstack[i].kind = "function" /\ cstack[j].kind = "function"
            /\ cstack[j].gsp = cstack[i].gsp
        BY <3>1, <4>1, Zenon DEF Inv, CallsInv
      <4> QED BY <4>2
    <3> QED BY <3>1, Zenon
  <2>8. (status = "run" /\ cstack # <<>> /\ Top(cstack).phase = "entry" =>
           Len(gosub) = Top(cstack).gsp)'
    <3>1. cstack' # <<>> => k > 0 /\ Top(cstack') = cstack[k]
      BY <1>1, EmptySeq, SMT DEF Top
    <3> QED BY <3>1 DEF Top
  <2> QED BY <2>1, <2>3, <2>4, <2>5, <2>6, <2>7, <2>8 DEF CallsInv
<1>4. DepthInv'
  <2>1. \A i \in 0..k : DepthAt(i)' = DepthAt(i)
    <3>1. \A i \in 0..k : i = 0 \/ i \in 1..k
      BY <1>1, SMT
    <3> QED BY <3>1 DEF DepthAt
  <2>2. \A i \in 1..k : i - 1 \in 0..k /\ i \in 0..k
    BY <1>1, SMT
  <2>3. (Live => Len(nested) = DepthAt(Len(cstack)))'
    <3>1. k \in 0..k
      BY <1>1, SMT
    <3>2. DepthAt(Len(cstack))' = DepthAt(k)
      BY <2>1, <3>1 DEF DepthAt
    <3> QED BY <3>2
  <2>4. (\A i \in 1..Len(cstack) :
           DepthAt(i) = IF cstack[i].kind = "island_sub" THEN DepthAt(i - 1)
                        ELSE DepthAt(i - 1) + 1)'
    <3>1. \A i \in 1..k : DepthAt(i - 1)' = DepthAt(i - 1)
      BY <2>1, <2>2
    <3>2. \A i \in 1..k :
            DepthAt(i) = IF cstack[i].kind = "island_sub" THEN DepthAt(i - 1)
                         ELSE DepthAt(i - 1) + 1
      BY <1>2, Zenon DEF Inv, DepthInv
    <3>3. \A i \in 1..k : DepthAt(i)' = DepthAt(i)
      BY <2>1, <2>2
    <3> QED BY <3>1, <3>2, <3>3
  <2>5. (\A i, j \in 0..Len(cstack) :
           i <= j /\ (\A m \in i + 1..j : cstack[m].kind = "execute") =>
             DepthAt(j) = DepthAt(i) + (j - i))'
    <3>1. ASSUME NEW i \in 0..k, NEW j \in 0..k, i <= j,
                 \A m \in i + 1..j : cstack'[m].kind = "execute"
          PROVE  DepthAt(j)' = DepthAt(i)' + (j - i)
      <4>1. \A m \in i + 1..j : m \in 1..k
        BY <1>1, SMT
      <4>2. \A m \in i + 1..j : cstack[m].kind = "execute"
        BY <3>1, <4>1
      <4>3. i \in 0..Len(cstack) /\ j \in 0..Len(cstack)
        BY <1>1, SMT
      <4>4. DepthAt(j) = DepthAt(i) + (j - i)
        BY <3>1, <4>2, <4>3, Zenon DEF Inv, DepthInv
      <4> QED BY <2>1, <4>4
    <3> QED BY <3>1
  <2> QED BY <2>3, <2>4, <2>5 DEF DepthInv
<1>5. BusyInv'
  BY <1>2, Zenon DEF Inv, BusyInv, TickBusyLive
<1> QED BY <1>3, <1>4, <1>5 DEF Inv
\* DepthInv only looks at the kinds and the depths of the C frames.
LEMMA DepthSame ==
  ASSUME Inv, status' = status, Len(nested') = Len(nested),
         Len(cstack') = Len(cstack),
         \A i \in 1..Len(cstack) : /\ cstack'[i].kind = cstack[i].kind
                                  /\ cstack'[i].depth = cstack[i].depth,
         Len(cstack) \in Nat
  PROVE  DepthInv'
<1>1. \A i \in 0..Len(cstack) : DepthAt(i)' = DepthAt(i)
  <2>1. \A i \in 0..Len(cstack) : i = 0 \/ i \in 1..Len(cstack)
    BY SMT
  <2> QED BY <2>1 DEF DepthAt
<1>2. (Live => Len(nested) = DepthAt(Len(cstack)))'
  <2>1. DepthAt(Len(cstack))' = DepthAt(Len(cstack))
    <3>1. Len(cstack) \in 0..Len(cstack)
      BY SMT
    <3> QED BY <1>1, <3>1 DEF DepthAt
  <2> QED BY <2>1 DEF Inv, DepthInv, Live
<1>3. (\A i \in 1..Len(cstack) :
         DepthAt(i) = IF cstack[i].kind = "island_sub" THEN DepthAt(i - 1)
                      ELSE DepthAt(i - 1) + 1)'
  <2>1. \A i \in 1..Len(cstack) : i - 1 \in 0..Len(cstack) /\ i \in 0..Len(cstack)
    BY SMT
  <2>2. \A i \in 1..Len(cstack) :
          /\ DepthAt(i - 1)' = DepthAt(i - 1) /\ DepthAt(i)' = DepthAt(i)
    BY <1>1, <2>1
  <2>3. \A i \in 1..Len(cstack) :
          DepthAt(i) = IF cstack[i].kind = "island_sub" THEN DepthAt(i - 1)
                       ELSE DepthAt(i - 1) + 1
    BY Zenon DEF Inv, DepthInv
  <2> QED BY <2>2, <2>3
<1>4. (\A i, j \in 0..Len(cstack) :
         i <= j /\ (\A m \in i + 1..j : cstack[m].kind = "execute") =>
           DepthAt(j) = DepthAt(i) + (j - i))'
  <2>1. ASSUME NEW i \in 0..Len(cstack), NEW j \in 0..Len(cstack), i <= j,
               \A m \in i + 1..j : cstack'[m].kind = "execute"
        PROVE  DepthAt(j)' = DepthAt(i)' + (j - i)
    <3>1. \A m \in i + 1..j : m \in 1..Len(cstack)
      BY SMT
    <3>2. \A m \in i + 1..j : cstack[m].kind = "execute"
      BY <2>1, <3>1
    <3>3. DepthAt(j) = DepthAt(i) + (j - i)
      BY <2>1, <3>2, Zenon DEF Inv, DepthInv
    <3> QED BY <1>1, <3>3
  <2> QED BY <2>1
<1> QED BY <1>2, <1>3, <1>4 DEF DepthInv

\* A frame of a GOSUB or a SUB is not a return to C.
LEMMA PushStep ==
  ASSUME TypeOK, TypeOK', Inv, status = "run", AtStatement,
         NEW inl \in BOOLEAN, NEW ret \in {"line", "mid"},
         PushGosub(inl, ret), UNCHANGED <<status, nested, cstack, tick_busy>>
  PROVE  Inv'
<1>1. /\ Len(cstack) \in Nat /\ Len(gosub) \in Nat
      /\ \A i \in 1..Len(cstack) : cstack[i].gsp \in Nat
  BY TopTypes, OwnedBelow, SMT DEF Inv
<1>2. /\ Len(gosub') = Len(gosub) + 1
      /\ \A g \in 1..Len(gosub) : gosub'[g] = gosub[g]
      /\ gosub'[Len(gosub) + 1].ret = ret
  BY PushGosubType
<1>3. CallsInv'
  <2>1. (\A i \in 1..Len(cstack) : Owned(cstack[i]) <= Len(gosub))'
    <3>1. ASSUME NEW i \in 1..Len(cstack) PROVE Owned(cstack[i]) <= Len(gosub')
      <4>1. Owned(cstack[i]) <= Len(gosub) /\ Owned(cstack[i]) \in Nat
        BY <1>1 DEF Inv, CallsInv, Owned
      <4> QED BY <1>1, <1>2, <4>1, SMT
    <3> QED BY <3>1 DEF Owned, Bound
  <2>2. (\A i \in 1..Len(cstack) :
           Bound(cstack[i]) => gosub[cstack[i].gsp + 1].ret = "nested")'
    <3>1. ASSUME NEW i \in 1..Len(cstack), Bound(cstack[i])
          PROVE  gosub'[cstack[i].gsp + 1].ret = "nested"
      <4>1. /\ cstack[i].gsp + 1 <= Len(gosub)
            /\ gosub[cstack[i].gsp + 1].ret = "nested"
        BY <3>1, OwnedBelow DEF Inv
      <4>2. cstack[i].gsp + 1 \in 1..Len(gosub)
        BY <1>1, <4>1, SMT
      <4> QED BY <1>2, <4>1, <4>2
    <3> QED BY <3>1 DEF Bound
  <2>3. (status = "run" =>
          \A g \in 1..Len(gosub) : gosub[g].ret = "nested" =>
            \E i \in 1..Len(cstack) : Bound(cstack[i]) /\ cstack[i].gsp + 1 = g)'
    <3>1. ASSUME NEW g \in 1..Len(gosub'), gosub'[g].ret = "nested"
          PROVE  \E i \in 1..Len(cstack) : Bound(cstack[i]) /\ cstack[i].gsp + 1 = g
      <4>1. g # Len(gosub) + 1
        BY <1>2, <3>1
      <4>2. g \in 1..Len(gosub)
        BY <1>1, <1>2, <4>1, SMT
      <4>3. gosub[g].ret = "nested"
        BY <1>2, <3>1, <4>2
      <4> QED BY <4>2, <4>3, Zenon DEF Inv, CallsInv
    <3> QED BY <3>1 DEF Bound
  <2>4. ~(cstack' # <<>> /\ Top(cstack').phase = "entry")
    BY DEF AtStatement, Top, CFrame, TypeOK
  <2> QED BY <2>1, <2>2, <2>3, <2>4 DEF Inv, CallsInv, Live, Bound, Owned, Top
<1>4. DepthInv'
  BY DepthSame DEF Live
<1>5. BusyInv'
  BY Zenon DEF Inv, BusyInv, TickBusyLive, Live
<1> QED BY <1>3, <1>4, <1>5 DEF Inv
\* A C frame is entered: its nested frame is there already, and its return frame
\* if its body runs at once.
LEMMA EnterStep ==
  ASSUME TypeOK, TypeOK', Inv, status = "run", status' = "run",
         NEW f \in CFrame, cstack' = Append(cstack, f),
         f.gsp = Len(gosub), f.depth = Len(nested'),
         Len(nested') = IF f.kind = "island_sub" THEN Len(nested)
                        ELSE Len(nested) + 1,
         f.phase = "entry" => gosub' = gosub,
         f.phase = "body" =>
           /\ f.kind # "execute" /\ Len(gosub') = Len(gosub) + 1
           /\ \A g \in 1..Len(gosub) : gosub'[g] = gosub[g]
           /\ gosub'[Len(gosub) + 1].ret = "nested",
         cstack # <<>> /\ Top(cstack).phase = "entry" =>
           f.kind = "function" /\ Top(cstack).kind = "function",
         IF f.kind = "event" THEN ~tick_busy /\ tick_busy'
         ELSE tick_busy' = tick_busy,
         NEW n \in Nat, n = Len(cstack)
  PROVE  Inv'
<1>1. /\ n \in Nat /\ Len(gosub) \in Nat /\ cstack \in Seq(CFrame)
      /\ \A i \in 1..n : cstack[i] \in CFrame /\ cstack[i].gsp \in Nat
      /\ \A i \in 1..n : Owned(cstack[i]) \in Nat
  <2>1. /\ n \in Nat /\ Len(gosub) \in Nat /\ cstack \in Seq(CFrame)
        /\ \A i \in 1..n : cstack[i] \in CFrame /\ cstack[i].gsp \in Nat
    BY TopTypes, OwnedBelow, SMT DEF Inv, TypeOK
  <2> QED BY <2>1 DEF Owned
<1>2. Len(cstack') = n + 1 /\ (\A i \in 1..n : cstack'[i] = cstack[i])
      /\ cstack'[n + 1] = f /\ cstack' # <<>>
  BY <1>1, AppendProperties
<1>3. n + 1 \in 1..n + 1 /\ (\A i \in 1..n + 1 : i = n + 1 \/ i \in 1..n)
      /\ (\A i \in 1..n : i \in 1..n + 1)
  BY <1>1, SMT
<1>4. f.phase \in {"entry", "body"}
  BY SMT DEF CFrame
<1>5. Len(gosub') \in Nat /\ Len(gosub) <= Len(gosub')
      /\ (Bound(f) <=> f.phase = "body")
      /\ (\A g \in 1..Len(gosub) : gosub'[g] = gosub[g])
  BY <1>1, <1>4, SMT DEF Bound
<1>6. Owned(f) <= Len(gosub')
  BY <1>1, <1>4, <1>5, SMT DEF Owned
<1>7. CallsInv'
  <2>1. (\A i \in 1..Len(cstack) : Owned(cstack[i]) <= Len(gosub))'
    <3>1. ASSUME NEW i \in 1..n PROVE Owned(cstack'[i]) <= Len(gosub')
      <4>1. Owned(cstack[i]) <= Len(gosub)
        BY DEF Inv, CallsInv
      <4>2. cstack'[i] = cstack[i]
        BY <1>2
      <4>3. Owned(cstack[i]) <= Len(gosub')
        BY <1>1, <1>5, <4>1, SMT
      <4> QED BY <4>2, <4>3
    <3> QED BY <1>2, <1>3, <1>6, <3>1
  <2>2. (\A i, j \in 1..Len(cstack) :
           i < j => Owned(cstack[i]) <= cstack[j].gsp)'
    <3>1. ASSUME NEW i \in 1..n + 1, NEW j \in 1..n + 1, i < j
          PROVE  Owned(cstack'[i]) <= cstack'[j].gsp
      <4>1. i \in 1..n
        BY <1>1, <3>1, SMT
      <4>2. cstack'[i] = cstack[i] /\ Owned(cstack[i]) <= Len(gosub)
        BY <1>2, <4>1 DEF Inv, CallsInv
      <4>3. CASE j = n + 1
        BY <1>2, <4>2, <4>3
      <4>4. CASE j \in 1..n
        BY <1>2, <3>1, <4>1, <4>2, <4>4, Zenon DEF Inv, CallsInv
      <4> QED BY <1>3, <4>3, <4>4
    <3> QED BY <1>2, <3>1
  <2>3. (\A i \in 1..Len(cstack) :
           Bound(cstack[i]) => gosub[cstack[i].gsp + 1].ret = "nested")'
    <3>1. ASSUME NEW i \in 1..n, Bound(cstack[i])
          PROVE  gosub'[cstack[i].gsp + 1].ret = "nested"
      <4>1. /\ cstack[i].gsp \in Nat /\ cstack[i].gsp + 1 <= Len(gosub)
            /\ gosub[cstack[i].gsp + 1].ret = "nested"
        BY <3>1, OwnedBelow DEF Inv
      <4>2. cstack[i].gsp + 1 \in 1..Len(gosub)
        BY <1>1, <4>1, SMT
      <4> QED BY <1>5, <4>1, <4>2
    <3>2. Bound(f) => gosub'[f.gsp + 1].ret = "nested"
      BY <1>5
    <3> QED BY <1>2, <1>3, <3>1, <3>2
  <2>4. (status = "run" =>
          \A g \in 1..Len(gosub) : gosub[g].ret = "nested" =>
            \E i \in 1..Len(cstack) : Bound(cstack[i]) /\ cstack[i].gsp + 1 = g)'
    <3>1. ASSUME NEW g \in 1..Len(gosub'), gosub'[g].ret = "nested"
          PROVE  \E i \in 1..n + 1 : Bound(cstack'[i]) /\ cstack'[i].gsp + 1 = g
      <4>1. CASE g \in 1..Len(gosub)
        <5>1. gosub[g].ret = "nested"
          BY <1>5, <3>1, <4>1
        <5>2. PICK i \in 1..n : Bound(cstack[i]) /\ cstack[i].gsp + 1 = g
          BY <4>1, <5>1, Zenon DEF Inv, CallsInv
        <5> QED BY <1>2, <1>3, <5>2
      <4>2. CASE g = Len(gosub) + 1 /\ f.phase = "body"
        BY <1>2, <1>3, <1>5, <4>2
      <4>3. g \in 1..Len(gosub) \/ (g = Len(gosub) + 1 /\ f.phase = "body")
        BY <1>1, <1>4, SMT
      <4> QED BY <4>1, <4>2, <4>3
    <3> QED BY <1>2, <3>1
  <2>5. (\A i, j \in 1..Len(cstack) :
           j = i + 1 /\ cstack[i].phase = "entry" =>
             /\ cstack[i].kind = "function" /\ cstack[j].kind = "function"
             /\ cstack[j].gsp = cstack[i].gsp)'
    <3>1. ASSUME NEW i \in 1..Len(cstack'), NEW j \in 1..Len(cstack'), j = i + 1,
                 cstack'[i].phase = "entry"
          PROVE  /\ cstack'[i].kind = "function" /\ cstack'[j].kind = "function"
                 /\ cstack'[j].gsp = cstack'[i].gsp
      <4>1. i \in 1..n /\ j \in 1..n + 1
        BY <1>1, <1>2, <3>1, SMT
      <4>2. cstack[i].phase = "entry" /\ cstack'[i] = cstack[i]
        BY <1>2, <3>1, <4>1
      <4>3. CASE j \in 1..n
        BY <1>2, <3>1, <4>1, <4>2, <4>3, Zenon DEF Inv, CallsInv
      <4>4. CASE j = n + 1
        <5>1. i = n /\ cstack # <<>>
          BY <1>1, <3>1, <4>1, <4>4, EmptySeq, SMT
        <5>2. Top(cstack) = cstack[i]
          BY <5>1 DEF Top
        <5>3. Len(gosub) = Top(cstack).gsp
          BY <4>2, <5>1, <5>2, Zenon DEF Inv, CallsInv
        <5> QED BY <1>2, <4>2, <4>4, <5>1, <5>2, <5>3
      <4> QED BY <1>3, <4>1, <4>3, <4>4
    <3> QED BY <3>1, Zenon
  <2>6. (status = "run" /\ cstack # <<>> /\ Top(cstack).phase = "entry" =>
           Len(gosub) = Top(cstack).gsp)'
    <3>1. Top(cstack') = f
      BY <1>2 DEF Top
    <3> QED BY <3>1 DEF Top
  <2>7. Live'
    BY DEF Live
  <2> QED BY <2>1, <2>2, <2>3, <2>4, <2>5, <2>6, <2>7 DEF CallsInv
<1>8. DepthInv'
  <2>1. \A i \in 0..n : DepthAt(i)' = DepthAt(i)
    <3>1. \A i \in 0..n : i = 0 \/ i \in 1..n
      BY <1>1, SMT
    <3> QED BY <1>2, <3>1 DEF DepthAt
  <2>2. DepthAt(n + 1)' = f.depth /\ DepthAt(n) = Len(nested) /\ n \in 0..n
    <3>1. n + 1 # 0 /\ n \in 0..n
      BY <1>1, SMT
    <3> QED BY <1>2, <3>1 DEF DepthAt, Inv, DepthInv, Live
  <2>3. (Live => Len(nested) = DepthAt(Len(cstack)))'
    <3>1. Len(cstack') # 0 /\ cstack'[Len(cstack')] = f
      BY <1>1, <1>2, SMT
    <3> QED BY <3>1 DEF DepthAt
  <2>4. (\A i \in 1..Len(cstack) :
           DepthAt(i) = IF cstack[i].kind = "island_sub" THEN DepthAt(i - 1)
                        ELSE DepthAt(i - 1) + 1)'
    <3>1. ASSUME NEW i \in 1..n
          PROVE  DepthAt(i)' = IF cstack'[i].kind = "island_sub"
                               THEN DepthAt(i - 1)' ELSE DepthAt(i - 1)' + 1
      <4>1. i \in 0..n /\ i - 1 \in 0..n
        BY <1>1, SMT
      <4>2. DepthAt(i) = IF cstack[i].kind = "island_sub" THEN DepthAt(i - 1)
                         ELSE DepthAt(i - 1) + 1
        BY Zenon DEF Inv, DepthInv
      <4>3. DepthAt(i)' = DepthAt(i) /\ DepthAt(i - 1)' = DepthAt(i - 1)
            /\ cstack'[i] = cstack[i]
        BY <1>2, <2>1, <4>1
      <4> QED BY <4>2, <4>3
    <3>2. ASSUME NEW i, i = n + 1
          PROVE  DepthAt(i)' = IF cstack'[i].kind = "island_sub"
                               THEN DepthAt(i - 1)' ELSE DepthAt(i - 1)' + 1
      <4>1. i - 1 = n
        BY <1>1, <3>2, SMT
      <4>2. DepthAt(i - 1)' = Len(nested) /\ DepthAt(i)' = f.depth
            /\ cstack'[i] = f
        BY <1>2, <2>1, <2>2, <3>2, <4>1
      <4> QED BY <4>2
    <3> QED BY <1>2, <1>3, <3>1, <3>2
  <2>5. (\A i, j \in 0..Len(cstack) :
           i <= j /\ (\A m \in i + 1..j : cstack[m].kind = "execute") =>
             DepthAt(j) = DepthAt(i) + (j - i))'
    <3>1. ASSUME NEW i \in 0..n + 1, NEW j \in 0..n + 1, i <= j,
                 \A m \in i + 1..j : cstack'[m].kind = "execute"
          PROVE  DepthAt(j)' = DepthAt(i)' + (j - i)
      <4>1. CASE j \in 0..n
        <5>1. (\A m \in i + 1..j : m \in 1..n) /\ i \in 0..n
          BY <1>1, <3>1, <4>1, SMT
        <5>2. \A m \in i + 1..j : cstack[m].kind = "execute"
          BY <1>2, <3>1, <5>1
        <5>3. DepthAt(j) = DepthAt(i) + (j - i)
          BY <3>1, <4>1, <5>1, <5>2, Zenon DEF Inv, DepthInv
        <5> QED BY <2>1, <4>1, <5>1, <5>3
      <4>2. CASE j = n + 1 /\ i = n + 1
        <5>1. j - i = 0 /\ f.depth \in Nat
          BY <1>1, <4>2, SMT DEF CFrame
        <5> QED BY <2>2, <4>2, <5>1, SMT
      <4>3. CASE j = n + 1 /\ i \in 0..n
        <5>1. (\A m \in i + 1..n : m \in 1..n /\ m \in i + 1..j)
              /\ n + 1 \in i + 1..j /\ i <= n
          BY <1>1, <3>1, <4>3, SMT
        <5>2. (\A m \in i + 1..n : cstack[m].kind = "execute")
              /\ f.kind = "execute"
          BY <1>2, <3>1, <5>1
        <5>3. DepthAt(n) = DepthAt(i) + (n - i)
          BY <2>2, <4>3, <5>1, <5>2, Zenon DEF Inv, DepthInv
        <5>4. f.depth = Len(nested) + 1
          BY <5>2
        <5>5. DepthAt(i)' = DepthAt(i) /\ DepthAt(i) \in Nat
          <6>1. i = 0 \/ i \in 1..n
            BY <1>1, <4>3, SMT
          <6>2. i \in 1..n => cstack[i].depth \in Nat
            BY <1>1, SMT DEF CFrame
          <6> QED BY <2>1, <4>3, <6>1, <6>2 DEF DepthAt
        <5>6. Len(nested) = DepthAt(i) + (n - i) /\ DepthAt(j)' = Len(nested) + 1
          BY <2>2, <4>3, <5>3, <5>4
        <5>7. j - i = (n - i) + 1 /\ i \in Nat
          BY <1>1, <4>3, SMT
        <5> QED BY <1>1, <5>5, <5>6, <5>7, SMT
      <4> QED BY <1>1, <4>1, <4>2, <4>3, SMT
    <3> QED BY <1>2, <3>1
  <2> QED BY <2>3, <2>4, <2>5 DEF DepthInv
<1>9. BusyInv'
  <2>1. tick_busy <=> \E i \in 1..n : cstack[i].kind = "event"
    BY DEF Inv, BusyInv, TickBusyLive, Live
  <2>2. TickBusyLive'
    <3>1. tick_busy' <=> \E i \in 1..n + 1 : cstack'[i].kind = "event"
      BY <1>2, <1>3, <2>1
    <3> QED BY <1>2, <3>1 DEF TickBusyLive
  <2>3. (\A i, j \in 1..Len(cstack) :
           cstack[i].kind = "event" /\ cstack[j].kind = "event" => i = j)'
    <3>1. ASSUME NEW i \in 1..n + 1, NEW j \in 1..n + 1,
                 cstack'[i].kind = "event", cstack'[j].kind = "event"
          PROVE  i = j
      <4>1. CASE i \in 1..n /\ j \in 1..n
        BY <1>2, <3>1, <4>1, Zenon DEF Inv, BusyInv
      <4>2. CASE i = n + 1 \/ j = n + 1
        <5>1. f.kind = "event" => \A m \in 1..n : cstack[m].kind # "event"
          BY <2>1
        <5> QED BY <1>2, <1>3, <3>1, <4>2, <5>1
      <4> QED BY <1>3, <4>1, <4>2
    <3> QED BY <1>2, <3>1
  <2> QED BY <2>2, <2>3 DEF BusyInv
<1> QED BY <1>7, <1>8, <1>9 DEF Inv
\* The second half of a nested entry: the return frame of a FUNCTION or a handler
\* is bound to the C frame that runs the body.
LEMMA BodyStep ==
  ASSUME TypeOK, TypeOK', Inv, Entering, status = "run", BodyStarted,
         UNCHANGED <<status, nested, tick_busy>>,
         IF InKind("execute") THEN gosub' = gosub ELSE PushGosub(ctl.inl, "nested"),
         NEW n \in Nat, n = Len(cstack)
  PROVE  Inv'
<1>1. /\ Len(gosub) \in Nat /\ cstack # <<>> /\ n \in 1..n
      /\ \A i \in 1..n : cstack[i] \in CFrame /\ cstack[i].gsp \in Nat
      /\ \A i \in 1..n : Owned(cstack[i]) \in Nat
  <2>1. /\ Len(gosub) \in Nat /\ cstack # <<>> /\ n \in 1..n
        /\ \A i \in 1..n : cstack[i] \in CFrame /\ cstack[i].gsp \in Nat
    BY TopTypes, OwnedBelow, SMT DEF Inv, Entering
  <2> QED BY <2>1 DEF Owned
<1>2. /\ cstack' \in Seq(CFrame) /\ Len(cstack') = n
      /\ \A i \in 1..n : i # n => cstack'[i] = cstack[i]
      /\ cstack'[n] = [cstack[n] EXCEPT !.phase = "body"]
  BY <1>1, BodyStartedType
<1>3. /\ cstack'[n].phase = "body" /\ cstack'[n].kind = cstack[n].kind
      /\ cstack'[n].gsp = cstack[n].gsp /\ cstack'[n].depth = cstack[n].depth
  BY <1>1, <1>2, SMT DEF CFrame
<1>4. /\ \A i \in 1..n : /\ cstack'[i].kind = cstack[i].kind
                         /\ cstack'[i].gsp = cstack[i].gsp
                         /\ cstack'[i].depth = cstack[i].depth
  BY <1>2, <1>3
<1>5. cstack[n].phase = "entry" /\ cstack[n].gsp = Len(gosub) /\ ~Bound(cstack[n])
      /\ (InKind("execute") <=> cstack[n].kind = "execute")
  BY <1>1, Zenon DEF Entering, Top, Inv, CallsInv, Bound, InKind
<1>6. /\ \A g \in 1..Len(gosub) : gosub'[g] = gosub[g]
      /\ cstack[n].kind = "execute" => Len(gosub') = Len(gosub)
      /\ cstack[n].kind # "execute" =>
           /\ Len(gosub') = Len(gosub) + 1
           /\ gosub'[Len(gosub) + 1].ret = "nested"
  <2>1. CASE InKind("execute")
    BY <1>5, <2>1
  <2>2. CASE ~InKind("execute")
    <3>1. ctl.inl \in BOOLEAN
      BY SMT DEF TypeOK, Frame
    <3> QED BY <1>5, <2>2, <3>1, PushGosubType
  <2> QED BY <2>1, <2>2
<1>7. Bound(cstack'[n]) <=> cstack[n].kind # "execute"
  BY <1>3 DEF Bound
<1>8. \A i \in 1..n : i # n => /\ Owned(cstack'[i]) = Owned(cstack[i])
                               /\ Bound(cstack'[i]) = Bound(cstack[i])
  BY <1>2
<1>9. Len(gosub') \in Nat /\ Len(gosub) <= Len(gosub')
      /\ Owned(cstack'[n]) <= Len(gosub')
  <2>1. Owned(cstack'[n]) = IF cstack[n].kind # "execute" THEN Len(gosub) + 1
                            ELSE Len(gosub)
    BY <1>3, <1>5, <1>7 DEF Owned
  <2> QED BY <1>1, <1>6, <2>1, SMT
<1>10. CallsInv'
  <2>1. (\A i \in 1..Len(cstack) : Owned(cstack[i]) <= Len(gosub))'
    <3>1. ASSUME NEW i \in 1..n, i # n PROVE Owned(cstack'[i]) <= Len(gosub')
      <4>1. Owned(cstack[i]) <= Len(gosub) /\ Owned(cstack[i]) \in Nat
        BY <1>1 DEF Inv, CallsInv
      <4>2. Owned(cstack[i]) <= Len(gosub')
        BY <1>1, <1>9, <4>1, SMT
      <4> QED BY <1>8, <3>1, <4>2
    <3> QED BY <1>2, <1>9, <3>1
  <2>2. (\A i, j \in 1..Len(cstack) :
           i < j => Owned(cstack[i]) <= cstack[j].gsp)'
    <3>1. ASSUME NEW i \in 1..n, NEW j \in 1..n, i < j
          PROVE  Owned(cstack'[i]) <= cstack'[j].gsp
      <4>1. i # n
        BY <3>1, SMT
      <4>2. Owned(cstack[i]) <= cstack[j].gsp
        BY <3>1, Zenon DEF Inv, CallsInv
      <4> QED BY <1>4, <1>8, <4>1, <4>2
    <3> QED BY <1>2, <3>1
  <2>3. (\A i \in 1..Len(cstack) :
           Bound(cstack[i]) => gosub[cstack[i].gsp + 1].ret = "nested")'
    <3>1. ASSUME NEW i \in 1..n, Bound(cstack'[i])
          PROVE  gosub'[cstack[i].gsp + 1].ret = "nested"
      <4>1. CASE i = n
        BY <1>5, <1>6, <1>7, <3>1, <4>1
      <4>2. CASE i # n
        <5>1. /\ cstack[i].gsp \in Nat /\ cstack[i].gsp + 1 <= Len(gosub)
              /\ gosub[cstack[i].gsp + 1].ret = "nested"
          BY <1>8, <3>1, <4>2, OwnedBelow DEF Inv
        <5>2. cstack[i].gsp + 1 \in 1..Len(gosub)
          BY <1>1, <5>1, SMT
        <5> QED BY <1>6, <5>1, <5>2
      <4> QED BY <4>1, <4>2
    <3> QED BY <1>2, <1>4, <3>1
  <2>4. (status = "run" =>
          \A g \in 1..Len(gosub) : gosub[g].ret = "nested" =>
            \E i \in 1..Len(cstack) : Bound(cstack[i]) /\ cstack[i].gsp + 1 = g)'
    <3>1. ASSUME NEW g \in 1..Len(gosub'), gosub'[g].ret = "nested"
          PROVE  \E i \in 1..n : Bound(cstack'[i]) /\ cstack'[i].gsp + 1 = g
      <4>1. CASE g \in 1..Len(gosub)
        <5>1. gosub[g].ret = "nested"
          BY <1>6, <3>1, <4>1
        <5>2. PICK i \in 1..n : Bound(cstack[i]) /\ cstack[i].gsp + 1 = g
          BY <4>1, <5>1, Zenon DEF Inv, CallsInv
        <5>3. i # n
          BY <1>5, <5>2
        <5> QED BY <1>4, <1>8, <5>2, <5>3
      <4>2. CASE g = Len(gosub) + 1 /\ cstack[n].kind # "execute"
        BY <1>1, <1>3, <1>5, <1>7, <4>2
      <4>3. g \in 1..Len(gosub) \/ (g = Len(gosub) + 1 /\ cstack[n].kind # "execute")
        BY <1>1, <1>6, SMT
      <4> QED BY <4>1, <4>2, <4>3
    <3> QED BY <1>2, <3>1
  <2>5. (\A i, j \in 1..Len(cstack) :
           j = i + 1 /\ cstack[i].phase = "entry" =>
             /\ cstack[i].kind = "function" /\ cstack[j].kind = "function"
             /\ cstack[j].gsp = cstack[i].gsp)'
    <3>1. ASSUME NEW i \in 1..Len(cstack'), NEW j \in 1..Len(cstack'), j = i + 1,
                 cstack'[i].phase = "entry"
          PROVE  /\ cstack'[i].kind = "function" /\ cstack'[j].kind = "function"
                 /\ cstack'[j].gsp = cstack'[i].gsp
      <4>1. i \in 1..n /\ j \in 1..n /\ i # n
        BY <1>2, <3>1, SMT
      <4>2. /\ cstack[i].kind = "function" /\ cstack[j].kind = "function"
            /\ cstack[j].gsp = cstack[i].gsp
        <5>1. /\ i \in 1..Len(cstack) /\ j \in 1..Len(cstack)
              /\ cstack[i].phase = "entry"
          BY <1>2, <3>1, <4>1
        <5> QED BY <3>1, <5>1, Zenon DEF Inv, CallsInv
      <4> QED BY <1>4, <4>1, <4>2
    <3> QED BY <3>1, Zenon
  <2>6. ~(cstack' # <<>> /\ Top(cstack').phase = "entry") /\ Live'
    BY <1>2, <1>3 DEF Top, Live
  <2> QED BY <2>1, <2>2, <2>3, <2>4, <2>5, <2>6 DEF CallsInv
<1>11. DepthInv'
  BY <1>2, <1>4, DepthSame
<1>12. BusyInv'
  <2>1. (\E i \in 1..n : cstack'[i].kind = "event")
          <=> (\E i \in 1..n : cstack[i].kind = "event")
    BY <1>4
  <2>2. TickBusyLive'
    BY <1>2, <2>1, Zenon DEF Inv, BusyInv, TickBusyLive, Live
  <2>3. (\A i, j \in 1..Len(cstack) :
           cstack[i].kind = "event" /\ cstack[j].kind = "event" => i = j)'
    BY <1>2, <1>4, Zenon DEF Inv, BusyInv
  <2> QED BY <2>2, <2>3 DEF BusyInv
<1> QED BY <1>10, <1>11, <1>12 DEF Inv
\* The return frame on top belongs to the newest line loop.
LEMMA TopOwner ==
  ASSUME TypeOK, Inv, status = "run", gosub # <<>>, Top(gosub).ret = "nested",
         NEW k \in 1..Len(cstack), Bound(cstack[k]),
         \A i \in k + 1..Len(cstack) : cstack[i].kind = "execute"
  PROVE  Len(gosub) = cstack[k].gsp + 1
<1>1. /\ Len(gosub) \in 1..Len(gosub) /\ Len(gosub) \in Nat /\ Len(cstack) \in Nat
      /\ cstack[k].gsp \in Nat /\ cstack[k].gsp + 1 <= Len(gosub)
  BY TopTypes, OwnedBelow, SMT DEF Inv
<1>2. PICK i \in 1..Len(cstack) : Bound(cstack[i]) /\ cstack[i].gsp + 1 = Len(gosub)
  <2>1. gosub[Len(gosub)].ret = "nested"
    BY DEF Top
  <2> QED BY <1>1, <2>1, Zenon DEF Inv, CallsInv
<1>3. i \notin k + 1..Len(cstack)
  BY <1>2 DEF Bound
<1>4. i = k
  <2>1. CASE i < k
    <3>1. Owned(cstack[i]) <= cstack[k].gsp
      BY <2>1, Zenon DEF Inv, CallsInv
    <3>2. Owned(cstack[i]) = Len(gosub)
      BY <1>2 DEF Owned
    <3> QED BY <1>1, <3>1, <3>2, SMT
  <2> QED BY <1>1, <1>3, <2>1, SMT
<1> QED BY <1>2, <1>4

\* What the C frames below k own is below what the line loop of k owns.
LEMMA BelowOwner ==
  ASSUME TypeOK, Inv, NEW k \in 1..Len(cstack), NEW n \in Nat, cstack[k].gsp <= n
  PROVE  \A i \in 1..k - 1 : Owned(cstack[i]) <= n
<1>1. Len(cstack) \in Nat /\ cstack[k].gsp \in Nat
  BY TopTypes, OwnedBelow DEF Inv
<1> SUFFICES ASSUME NEW i \in 1..k - 1 PROVE Owned(cstack[i]) <= n
  OBVIOUS
<1>2. i \in 1..Len(cstack) /\ i < k
  BY <1>1, SMT
<1>3. Owned(cstack[i]) <= cstack[k].gsp
  BY <1>2, Zenon DEF Inv, CallsInv
<1>4. Owned(cstack[i]) \in Nat
  BY <1>1, <1>2, OwnedBelow DEF Owned, Inv
<1> QED BY <1>1, <1>3, <1>4, SMT

\* A line loop ends: its C frame is gone, its snapshot popped, its return frame
\* gone unless END stopped it.
LEMMA LoopEndsStep ==
  ASSUME TypeOK, TypeOK', Inv, Live, status' = status,
         NEW k \in 1..Len(cstack), NEW c, NEW s,
         NEW gs \in Seq(Gosub), NEW ns \in Seq(Frame),
         LoopEnds(k, c, s, gs, ns),
         Bound(cstack[k]) \/ cstack[k].kind = "function",
         \A i \in k + 1..Len(cstack) : cstack[i].kind = "execute",
         Len(ns) = DepthAt(k), cstack[k].gsp <= Len(gs),
         \A g \in 1..Len(gosub) : g <= Len(gs) => gs[g].ret = gosub[g].ret,
         status = "run" => Bound(cstack[k]) /\ Len(gs) = cstack[k].gsp
  PROVE  Inv'
<1>1. /\ Len(cstack) \in Nat /\ Len(gosub) \in Nat /\ Len(gs) \in Nat
      /\ Len(ns) \in Nat /\ cstack[k].gsp \in Nat /\ cstack[k].gsp <= Len(gosub)
      /\ cstack[k] \in CFrame /\ cstack \in Seq(CFrame)
  BY TopTypes, OwnedBelow, LenProperties, SMT DEF Inv, TypeOK
<1>2. k - 1 \in 0..Len(cstack)
  BY <1>1, SMT
<1>3. Len(cstack') = k - 1 /\ \A i \in 1..k - 1 : cstack'[i] = cstack[i]
  BY <1>1, <1>2, CutType DEF LoopEnds
<1>4. /\ Len(gosub') \in Nat /\ cstack[k].gsp <= Len(gosub') /\ Len(gosub') <= Len(gs)
      /\ \A g \in 1..Len(gosub) : g <= Len(gosub') => gosub'[g].ret = gosub[g].ret
      /\ (status = "run" => Len(gosub') = cstack[k].gsp)
  <2>1. CASE cstack[k].kind # "event"
    <3>1. gosub' = gs
      BY <2>1 DEF LoopEnds
    <3> QED BY <1>1, <3>1
  <2>2. CASE cstack[k].kind = "event"
    <3>1. gosub' = SubSeq(gs, 1, cstack[k].gsp)
      BY <2>2 DEF LoopEnds
    <3>2. cstack[k].gsp \in 0..Len(gs)
      BY <1>1, SMT
    <3>3. /\ Len(gosub') = cstack[k].gsp
          /\ \A g \in 1..cstack[k].gsp : gosub'[g] = gs[g]
      BY <3>1, <3>2, CutType
    <3>4. ASSUME NEW g \in 1..Len(gosub), g <= Len(gosub')
          PROVE  gosub'[g].ret = gosub[g].ret
      <4>1. g \in 1..cstack[k].gsp /\ g <= Len(gs)
        BY <1>1, <3>3, <3>4, SMT
      <4> QED BY <3>3, <4>1
    <3> QED BY <1>1, <3>3, <3>4
  <2> QED BY <2>1, <2>2
<1>5. \A i \in 1..k - 1 : Owned(cstack[i]) <= Len(gosub')
  BY <1>4, BelowOwner
<1>6. Len(nested') = DepthAt(k - 1)
  <2>1. DepthAt(k) = IF cstack[k].kind = "island_sub" THEN DepthAt(k - 1)
                     ELSE DepthAt(k - 1) + 1
    BY Zenon DEF Inv, DepthInv
  <2>2. DepthAt(k - 1) \in Nat
    <3>1. k - 1 = 0 \/ k - 1 \in 1..Len(cstack)
      BY <1>1, SMT
    <3>2. k - 1 \in 1..Len(cstack) => cstack[k - 1].depth \in Nat
      BY TopTypes, SMT DEF CFrame
    <3> QED BY <3>1, <3>2 DEF DepthAt
  <2>3. CASE cstack[k].kind = "island_sub"
    BY <2>1, <2>3, ZenonT(30) DEF LoopEnds
  <2>4. CASE cstack[k].kind # "island_sub"
    <3>1. ns # <<>> /\ nested' = Pop(ns)
      BY <2>4 DEF LoopEnds
    <3>2. Len(nested') = Len(ns) - 1
      BY <3>1, PopType
    <3> QED BY <2>1, <2>2, <2>4, <3>2, SMT
  <2> QED BY <2>3, <2>4
<1>7. tick_busy' <=> \E i \in 1..k - 1 : cstack[i].kind = "event"
  <2>1. tick_busy <=> \E i \in 1..Len(cstack) : cstack[i].kind = "event"
    BY DEF Inv, BusyInv, TickBusyLive
  <2>2. tick_busy' = (tick_busy /\ cstack[k].kind # "event")
    BY DEF LoopEnds
  <2>3. \A i \in 1..Len(cstack) : i \in 1..k - 1 \/ i = k \/ i \in k + 1..Len(cstack)
    BY <1>1, SMT
  <2>4. \A i \in 1..k - 1 : i \in 1..Len(cstack) /\ i # k
    BY <1>1, SMT
  <2>5. ASSUME NEW i \in 1..k - 1, cstack[i].kind = "event"
        PROVE  cstack[k].kind # "event"
    BY <2>4, <2>5, Zenon DEF Inv, BusyInv
  <2>6. ASSUME NEW i \in 1..Len(cstack), cstack[i].kind = "event",
               cstack[k].kind # "event"
        PROVE  i \in 1..k - 1
    BY <2>3, <2>6
  <2> QED BY <2>1, <2>2, <2>4, <2>5, <2>6
<1>8. status' = "run" =>
        /\ status = "run" /\ Len(gosub') <= Len(gosub)
        /\ \A i \in k - 1 + 1..Len(cstack) :
             Bound(cstack[i]) => Len(gosub') <= cstack[i].gsp
        /\ k - 1 > 0 /\ cstack[k - 1].phase = "entry" =>
             Len(gosub') = cstack[k - 1].gsp
  <2> SUFFICES ASSUME status = "run"
               PROVE  /\ Len(gosub') <= Len(gosub)
                      /\ \A i \in k - 1 + 1..Len(cstack) :
                           Bound(cstack[i]) => Len(gosub') <= cstack[i].gsp
                      /\ k - 1 > 0 /\ cstack[k - 1].phase = "entry" =>
                           Len(gosub') = cstack[k - 1].gsp
    OBVIOUS
  <2>1. ASSUME NEW i \in k - 1 + 1..Len(cstack), Bound(cstack[i])
        PROVE  Len(gosub') <= cstack[i].gsp
    <3>1. i = k \/ i \in k + 1..Len(cstack)
      BY <1>1, SMT
    <3>2. i = k
      BY <2>1, <3>1 DEF Bound
    <3> QED BY <1>1, <1>4, <3>2, SMT
  <2>2. ASSUME k - 1 > 0, cstack[k - 1].phase = "entry"
        PROVE  Len(gosub') = cstack[k - 1].gsp
    <3>1. k - 1 \in 1..Len(cstack) /\ k = (k - 1) + 1
      BY <1>1, <2>2, SMT
    <3>2. cstack[k].gsp = cstack[k - 1].gsp
      BY <2>2, <3>1, Zenon DEF Inv, CallsInv
    <3> QED BY <1>4, <3>2
  <2> QED BY <1>1, <1>4, <2>1, <2>2
<1>9. Live'
  BY DEF Live
<1> QED BY <1>2, <1>3, <1>4, <1>5, <1>6, <1>7, <1>8, <1>9, InvCut
\* A step that leaves the stacks alone.
LEMMA InvSame ==
  ASSUME TypeOK, TypeOK', Inv,
         UNCHANGED <<gosub, nested, cstack, tick_busy>>,
         status' = status \/ (status = "run" /\ status' = "end")
  PROVE  Inv'
<1>1. CASE ~Live
  <2>1. cstack' = <<>> /\ ~Live' /\ status' # "run"
    BY <1>1 DEF Inv, CallsInv, Live
  <2> QED BY <2>1, InvEmpty
<1>2. CASE Live
  <2>1. /\ Len(cstack) \in 0..Len(cstack) /\ Len(cstack) \in Nat
        /\ \A i \in 1..Len(cstack) : Owned(cstack[i]) <= Len(gosub)
        /\ Len(cstack) + 1..Len(cstack) = {} /\ Len(gosub') <= Len(gosub)
    BY TopTypes, SMT DEF Inv, CallsInv
  <2>2. Live' /\ (status' = "run" => status = "run")
    BY <1>2 DEF Live
  <2>3. Len(nested') = DepthAt(Len(cstack))
        /\ (tick_busy' <=> \E i \in 1..Len(cstack) : cstack[i].kind = "event")
    BY <1>2 DEF Inv, DepthInv, BusyInv, TickBusyLive
  <2>4. status = "run" /\ Len(cstack) > 0 /\ cstack[Len(cstack)].phase = "entry"
          => Len(gosub') = cstack[Len(cstack)].gsp
    <3>1. Len(cstack) > 0 => cstack # <<>>
      BY <2>1, SMT
    <3> QED BY <3>1 DEF Inv, CallsInv, Top
  <2> QED BY <1>2, <2>1, <2>2, <2>3, <2>4, InvCut
<1> QED BY <1>1, <1>2

\* RETURN, END SUB and END FUNCTION in a line loop that keeps running.
LEMMA ReturnInLoopStep ==
  ASSUME TypeOK, TypeOK', Inv, ReturnInLoop
  PROVE  Inv'
<1>1. /\ Live /\ AtStatement /\ gosub # <<>> /\ ~InKind("execute")
      /\ Top(gosub).ret # "nested" \/ cstack = <<>>
      /\ gosub' = Pop(gosub)
      /\ UNCHANGED <<status, nested, cstack, tick_busy>>
  BY Zenon DEF ReturnInLoop, Executing, Live
<1>2. /\ Len(cstack) \in 0..Len(cstack) /\ Len(cstack) \in Nat
      /\ Len(gosub) \in Nat \ {0} /\ Len(gosub') = Len(gosub) - 1
      /\ \A g \in 1..Len(gosub) - 1 : gosub'[g] = gosub[g]
  BY <1>1, TopTypes, SMT
<1>3. \A i \in 1..Len(cstack) : Owned(cstack[i]) <= Len(gosub')
  <2> SUFFICES ASSUME NEW i \in 1..Len(cstack)
               PROVE  Owned(cstack[i]) <= Len(gosub')
    OBVIOUS
  <2>1. cstack # <<>>
    BY EmptySeq, SMT
  <2>2. Len(cstack) \in 1..Len(cstack) /\ Bound(cstack[Len(cstack)])
    BY <1>1, <2>1, TopBound
  <2>3. /\ cstack[Len(cstack)].gsp \in Nat
        /\ cstack[Len(cstack)].gsp + 1 <= Len(gosub)
        /\ gosub[cstack[Len(cstack)].gsp + 1].ret = "nested"
    BY <2>2, OwnedBelow DEF Inv
  <2>4. cstack[Len(cstack)].gsp + 1 # Len(gosub)
    BY <1>1, <2>1, <2>3 DEF Top
  <2>5. cstack[Len(cstack)].gsp + 1 <= Len(gosub')
    BY <1>2, <2>3, <2>4, SMT
  <2>6. CASE i = Len(cstack)
    BY <2>2, <2>5, <2>6 DEF Owned
  <2>7. CASE i # Len(cstack)
    <3>1. i \in 1..Len(cstack) - 1 /\ cstack[Len(cstack)].gsp <= Len(gosub')
          /\ Len(gosub') \in Nat
      BY <1>2, <2>3, <2>5, <2>7, SMT
    <3> QED BY <2>2, <3>1, BelowOwner
  <2> QED BY <2>6, <2>7
<1>4. \A g \in 1..Len(gosub) : g <= Len(gosub') => gosub'[g].ret = gosub[g].ret
  <2> SUFFICES ASSUME NEW g \in 1..Len(gosub), g <= Len(gosub')
               PROVE  gosub'[g].ret = gosub[g].ret
    OBVIOUS
  <2>1. g \in 1..Len(gosub) - 1
    BY <1>2, SMT
  <2> QED BY <1>2, <2>1
<1>5. Len(nested') = DepthAt(Len(cstack))
      /\ (tick_busy' <=> \E i \in 1..Len(cstack) : cstack[i].kind = "event")
  BY <1>1 DEF Inv, DepthInv, BusyInv, TickBusyLive
<1>6. Len(gosub') <= Len(gosub) /\ Live'
      /\ (\A i \in Len(cstack) + 1..Len(cstack) :
            Bound(cstack[i]) => Len(gosub') <= cstack[i].gsp)
  <2>1. Len(cstack) + 1..Len(cstack) = {}
    BY <1>2, SMT
  <2> QED BY <1>1, <1>2, <2>1, SMT DEF Live
<1>7. ~(Len(cstack) > 0 /\ cstack[Len(cstack)].phase = "entry")
  BY <1>1, <1>2, EmptySeq, SMT DEF AtStatement, Top
<1> QED BY <1>1, <1>2, <1>3, <1>4, <1>5, <1>6, <1>7, InvCut

\* A return that ends the line loop of a C frame.
LEMMA ReturnFromBodyStep ==
  ASSUME TypeOK, TypeOK', Inv, ReturnFromBody
  PROVE  Inv'
<1> DEFINE c == Returned(ctl, Top(gosub))
           s == SelFreed(selstack, ctl, Top(gosub).ctl.sel_sp)
<1>1. /\ Live /\ AtStatement /\ gosub # <<>> /\ Top(gosub).ret = "nested"
      /\ cstack # <<>> /\ ~InKind("execute")
      /\ LoopEnds(Len(cstack), c, s, Pop(gosub), nested)
  BY Zenon DEF ReturnFromBody, Executing, Live
<1> HIDE DEF c, s
<1>2. Len(cstack) \in 1..Len(cstack) /\ Bound(cstack[Len(cstack)])
  BY <1>1, TopBound
<1>3. /\ Pop(gosub) \in Seq(Gosub) /\ Len(Pop(gosub)) = Len(gosub) - 1
      /\ \A g \in 1..Len(gosub) - 1 : Pop(gosub)[g] = gosub[g]
      /\ Len(gosub) \in Nat /\ Len(cstack) \in Nat /\ nested \in Seq(Frame)
  BY <1>1, TopTypes, SMT DEF TypeOK
<1>4. \A i \in Len(cstack) + 1..Len(cstack) : cstack[i].kind = "execute"
  BY <1>3, SMT
<1>5. /\ cstack[Len(cstack)].gsp <= Len(Pop(gosub))
      /\ status = "run" => Len(Pop(gosub)) = cstack[Len(cstack)].gsp
  <2>1. /\ cstack[Len(cstack)].gsp \in Nat
        /\ cstack[Len(cstack)].gsp + 1 <= Len(gosub)
    BY <1>2, OwnedBelow DEF Inv
  <2>2. status = "run" => Len(gosub) = cstack[Len(cstack)].gsp + 1
    BY <1>1, <1>2, <1>4, TopOwner
  <2> QED BY <1>3, <2>1, <2>2, SMT
<1>6. \A g \in 1..Len(gosub) :
        g <= Len(Pop(gosub)) => Pop(gosub)[g].ret = gosub[g].ret
  <2> SUFFICES ASSUME NEW g \in 1..Len(gosub), g <= Len(Pop(gosub))
               PROVE  Pop(gosub)[g].ret = gosub[g].ret
    OBVIOUS
  <2>1. g \in 1..Len(gosub) - 1
    BY <1>3, SMT
  <2> QED BY <1>3, <2>1
<1>7. Len(nested) = DepthAt(Len(cstack)) /\ status' = status
  BY <1>1 DEF Inv, DepthInv, LoopEnds
<1> QED BY <1>1, <1>2, <1>3, <1>4, <1>5, <1>6, <1>7, LoopEndsStep
\* The numbers of a C frame.
LEMMA DepthNat == \A f \in CFrame : f.depth \in Nat /\ f.gsp \in Nat
BY LimitsAssumption, SMT DEF CFrame

\* What the island's return cuts, and the line loop it lands in.
LEMMA IslandFacts ==
  ASSUME TypeOK, Inv, NEW k \in 0..Len(cstack) - 1, ReturnFromIsland(k),
         NEW outer, outer = SubSeq(nested, 1, Len(nested) - (Len(cstack) - k))
  PROVE  /\ outer \in Seq(Frame) /\ Len(outer) = DepthAt(k)
         /\ Len(outer) <= Len(nested)
         /\ \A j \in 1..Len(outer) : outer[j] = nested[j]
         /\ k > 0 => k \in 1..Len(cstack) /\ Bound(cstack[k])
         /\ cstack # <<>> /\ InKind("execute")
<1>1. /\ Live /\ AtStatement /\ gosub # <<>>
      /\ \A i \in k + 1..Len(cstack) : cstack[i].kind = "execute"
      /\ k > 0 => cstack[k].kind # "execute"
      /\ Len(nested) >= Len(cstack) - k
  BY Zenon DEF ReturnFromIsland, Executing, Live
<1>2. /\ Len(cstack) \in Nat /\ nested \in Seq(Frame)
      /\ Len(nested) \in Nat /\ cstack \in Seq(CFrame) /\ cstack # <<>>
  <2>1. Len(cstack) \in Nat /\ Len(cstack) > 0
    BY TopTypes, SMT
  <2>2. cstack # <<>>
    BY <2>1, SMT
  <2> QED BY <2>1, <2>2, TopTypes, SMT DEF TypeOK
<1>3. InKind("execute")
  <2>1. Len(cstack) \in k + 1..Len(cstack)
    BY <1>2, SMT
  <2> QED BY <1>1, <1>2, <2>1 DEF InKind, Top
<1>4. Len(nested) - (Len(cstack) - k) \in 0..Len(nested)
  BY <1>1, <1>2, SMT
<1>5. Len(outer) = DepthAt(k)
  <2>1. Len(nested) = DepthAt(Len(cstack))
    BY <1>1 DEF Inv, DepthInv
  <2>2. DepthAt(Len(cstack)) = DepthAt(k) + (Len(cstack) - k)
    <3>1. k \in 0..Len(cstack) /\ Len(cstack) \in 0..Len(cstack) /\ k <= Len(cstack)
      BY <1>2, SMT
    <3> QED BY <1>1, <3>1, Zenon DEF Inv, DepthInv
  <2>3. DepthAt(k) \in Nat
    <3>1. k = 0 \/ k \in 1..Len(cstack)
      BY <1>2, SMT
    <3>2. k \in 1..Len(cstack) => cstack[k].depth \in Nat
      BY TopTypes, DepthNat
    <3> QED BY <3>1, <3>2 DEF DepthAt
  <2>4. Len(outer) = Len(nested) - (Len(cstack) - k)
    BY <1>2, <1>4, CutType
  <2> QED BY <1>2, <2>1, <2>2, <2>3, <2>4, SMT
<1>6. /\ outer \in Seq(Frame) /\ Len(outer) \in 0..Len(nested)
      /\ \A j \in 1..Len(outer) : outer[j] = nested[j]
  BY <1>2, <1>4, CutType
<1>7. k > 0 => k \in 1..Len(cstack) /\ Bound(cstack[k])
  <2>1. k > 0 => k \in 1..Len(cstack) - 1
    BY <1>2, SMT
  <2> QED BY <1>1, <1>3, <2>1, IslandBase DEF Inv
<1>8. Len(outer) <= Len(nested)
  BY <1>2, <1>6, SMT
<1> QED BY <1>2, <1>3, <1>5, <1>6, <1>7, <1>8

\* RETURN in an EXECUTE body.
LEMMA ReturnFromIslandStep ==
  ASSUME TypeOK, TypeOK', Inv, NEW k \in 0..Len(cstack) - 1, ReturnFromIsland(k)
  PROVE  Inv'
<1> DEFINE outer == SubSeq(nested, 1, Len(nested) - (Len(cstack) - k))
           c == Returned(ctl, Top(gosub))
           s == SelFreed(selstack, ctl, Top(gosub).ctl.sel_sp)
<1>1. /\ Live /\ AtStatement /\ gosub # <<>>
      /\ \A i \in k + 1..Len(cstack) : cstack[i].kind = "execute"
      /\ k > 0 => cstack[k].kind # "execute"
      /\ Len(nested) >= Len(cstack) - k
  BY Zenon DEF ReturnFromIsland, Executing, Live
<1>2. /\ Pop(gosub) \in Seq(Gosub) /\ Len(Pop(gosub)) = Len(gosub) - 1
      /\ \A g \in 1..Len(gosub) - 1 : Pop(gosub)[g] = gosub[g]
      /\ Len(gosub) \in Nat \ {0} /\ Len(cstack) \in Nat /\ nested \in Seq(Frame)
      /\ Len(nested) \in Nat /\ cstack \in Seq(CFrame) /\ cstack # <<>>
  <2>1. Len(cstack) \in Nat /\ Len(cstack) > 0
    BY TopTypes, SMT
  <2>2. cstack # <<>>
    BY <2>1, SMT
  <2> QED BY <1>1, <2>1, <2>2, TopTypes, SMT DEF TypeOK
<1>3. /\ InKind("execute") /\ outer \in Seq(Frame) /\ Len(outer) = DepthAt(k)
      /\ k > 0 => k \in 1..Len(cstack) /\ Bound(cstack[k])
  BY IslandFacts
<1>4. \A g \in 1..Len(gosub) :
        g <= Len(Pop(gosub)) => Pop(gosub)[g].ret = gosub[g].ret
  <2> SUFFICES ASSUME NEW g \in 1..Len(gosub), g <= Len(Pop(gosub))
               PROVE  Pop(gosub)[g].ret = gosub[g].ret
    OBVIOUS
  <2>1. g \in 1..Len(gosub) - 1
    BY <1>2, SMT
  <2> QED BY <1>2, <2>1
<1>5. k > 0 => cstack[k].gsp \in Nat /\ cstack[k].gsp + 1 <= Len(gosub)
               /\ gosub[cstack[k].gsp + 1].ret = "nested"
  BY <1>3, OwnedBelow DEF Inv
<1>6. CASE Top(gosub).ret = "nested" /\ k > 0 /\ LoopEnds(k, c, s, Pop(gosub), outer)
  <2> HIDE DEF outer, c, s
  <2>1. status = "run" => Len(gosub) = cstack[k].gsp + 1
    BY <1>1, <1>3, <1>6, TopOwner
  <2>2. /\ cstack[k].gsp <= Len(Pop(gosub))
        /\ status = "run" => Len(Pop(gosub)) = cstack[k].gsp
    BY <1>2, <1>5, <1>6, <2>1, SMT
  <2>3. status' = status
    BY <1>6 DEF LoopEnds
  <2> QED BY <1>1, <1>2, <1>4, <1>3, <1>6, <2>2, <2>3, LoopEndsStep
<1>7. CASE /\ Top(gosub).ret # "nested" \/ k = 0
           /\ gosub' = Pop(gosub) /\ nested' = outer
           /\ cstack' = SubSeq(cstack, 1, k)
           /\ UNCHANGED <<status, ctrlstack, tick_busy, error_active>>
  <2> HIDE DEF outer, c, s
  <2>1. k \in 0..Len(cstack) /\ k \in Nat
    BY <1>2, SMT
  <2>2. Len(cstack') = k /\ \A i \in 1..k : cstack'[i] = cstack[i]
    BY <1>2, <1>7, <2>1, CutType
  <2>3. \A i \in 1..k : Owned(cstack[i]) <= Len(gosub')
    <3> SUFFICES ASSUME NEW i \in 1..k PROVE Owned(cstack[i]) <= Len(gosub')
      OBVIOUS
    <3>1. k > 0
      BY <2>1, SMT
    <3>2. cstack[k].gsp + 1 # Len(gosub)
      BY <1>5, <1>7, <3>1 DEF Top
    <3>3. cstack[k].gsp + 1 <= Len(gosub') /\ cstack[k].gsp <= Len(gosub')
          /\ Len(gosub') \in Nat
      BY <1>2, <1>5, <1>7, <3>1, <3>2, SMT
    <3>4. CASE i = k
      BY <1>3, <3>1, <3>3, <3>4 DEF Owned
    <3>5. CASE i \in 1..k - 1
      BY <1>3, <3>1, <3>3, <3>5, BelowOwner
    <3> QED BY <2>1, <3>4, <3>5, SMT
  <2>4. \A i \in k + 1..Len(cstack) : ~Bound(cstack[i])
    BY <1>1 DEF Bound
  <2>5. ~(k > 0 /\ cstack[k].phase = "entry")
    BY <1>3 DEF Bound
  <2>6. Len(gosub') <= Len(gosub)
    BY <1>2, <1>7, SMT
  <2>7. tick_busy' <=> \E i \in 1..k : cstack[i].kind = "event"
    <3>1. tick_busy <=> \E i \in 1..Len(cstack) : cstack[i].kind = "event"
      BY <1>1 DEF Inv, BusyInv, TickBusyLive
    <3>2. /\ \A i \in 1..k : i \in 1..Len(cstack)
          /\ \A i \in 1..Len(cstack) : i \in 1..k \/ i \in k + 1..Len(cstack)
      BY <1>2, <2>1, SMT
    <3>3. ASSUME NEW i \in 1..Len(cstack), cstack[i].kind = "event"
          PROVE  i \in 1..k
      BY <1>1, <3>2, <3>3
    <3> QED BY <1>7, <3>1, <3>2, <3>3
  <2>8. Live' /\ status' = status
    BY <1>1, <1>7 DEF Live
  <2> QED BY <1>1, <1>4, <1>3, <1>7, <2>1, <2>2, <2>3, <2>4, <2>5, <2>6, <2>7,
             <2>8, InvCut
<1> QED BY <1>6, <1>7, Zenon DEF ReturnFromIsland

\* A line loop that END stopped.
LEMMA StoppedStep ==
  ASSUME TypeOK, TypeOK', Inv, BindStopped \/ LoopStops
  PROVE  Inv'
<1>1. /\ Len(gosub) \in Nat /\ Len(cstack) \in Nat /\ nested \in Seq(Frame)
      /\ gosub \in Seq(Gosub)
      /\ \A i \in Len(cstack) + 1..Len(cstack) : cstack[i].kind = "execute"
  BY TopTypes, SMT DEF TypeOK
<1>2. status = "end" /\ Live /\ cstack # <<>>
  BY DEF BindStopped, LoopStops, Entering, Live
<1>3. /\ Len(cstack) \in 1..Len(cstack) /\ cstack[Len(cstack)].gsp <= Len(gosub)
      /\ cstack[Len(cstack)].gsp \in Nat
  BY <1>2, TopTypes, OwnedBelow DEF Inv
<1>4. Len(nested) = DepthAt(Len(cstack))
  BY <1>2 DEF Inv, DepthInv
<1>5. CASE BindStopped
  <2> DEFINE g == [ctl |-> ctl, ret |-> "nested"]
             e == Entered(ctl)
  <2>1. LoopEnds(Len(cstack), e, selstack, Append(gosub, g), nested)
        /\ cstack[Len(cstack)].kind = "function"
    BY <1>5 DEF BindStopped, InKind, Top
  <2>2. g \in Gosub
    BY SMT DEF Gosub, TypeOK
  <2> HIDE DEF g, e
  <2>3. /\ Append(gosub, g) \in Seq(Gosub)
        /\ Len(Append(gosub, g)) = Len(gosub) + 1
        /\ \A i \in 1..Len(gosub) : Append(gosub, g)[i] = gosub[i]
    BY <1>1, <2>2, AppendProperties
  <2>4. cstack[Len(cstack)].gsp <= Len(Append(gosub, g)) /\ status' = status
    <3>1. cstack[Len(cstack)].gsp <= Len(Append(gosub, g))
      BY <1>1, <1>3, <2>3, SMT
    <3> QED BY <2>1, <3>1 DEF LoopEnds
  <2> QED BY <1>1, <1>2, <1>3, <1>4, <2>1, <2>3, <2>4, LoopEndsStep
<1>6. CASE LoopStops
  <2>1. LoopEnds(Len(cstack), ctl, selstack, gosub, nested) /\ status' = status
        /\ Bound(cstack[Len(cstack)])
    BY <1>6 DEF LoopStops, LoopEnds, InKind, Top, Bound
  <2> QED BY <1>1, <1>2, <1>3, <1>4, <2>1, LoopEndsStep
<1> QED BY <1>5, <1>6

\* The end of an EXECUTE body.
LEMMA ExecuteEndsStep ==
  ASSUME TypeOK, TypeOK', Inv, ExecuteEnds
  PROVE  Inv'
<1> DEFINE n == Len(cstack)
<1>1. /\ Live /\ cstack # <<>> /\ nested # <<>>
      /\ n \in 1..n /\ n \in Nat /\ cstack[n] \in CFrame
      /\ cstack[n].kind = "execute" /\ cstack[n].phase = "body"
      /\ nested' = Pop(nested) /\ cstack' = Pop(cstack)
      /\ UNCHANGED <<status, tick_busy>>
  <2>1. /\ Live /\ cstack # <<>> /\ nested # <<>>
        /\ cstack[n].kind = "execute" /\ cstack[n].phase = "body"
        /\ nested' = Pop(nested) /\ cstack' = Pop(cstack)
        /\ UNCHANGED <<status, tick_busy>>
    BY Zenon DEF ExecuteEnds, InKind, Top, Live
  <2> QED BY <2>1, TopTypes
<1>2. /\ n - 1 \in 0..n /\ n - 1 \in Nat
      /\ Len(gosub) \in Nat /\ gosub \in Seq(Gosub)
      /\ Len(cstack') = n - 1 /\ \A i \in 1..n - 1 : cstack'[i] = cstack[i]
      /\ cstack[n].gsp \in Nat /\ cstack[n].gsp <= Len(gosub)
  <2>1. Len(gosub) \in Nat /\ gosub \in Seq(Gosub) /\ n - 1 \in 0..n /\ n - 1 \in Nat
    BY <1>1, TopTypes, SMT DEF TypeOK
  <2>2. Len(cstack') = n - 1 /\ \A i \in 1..n - 1 : cstack'[i] = cstack[i]
    BY <1>1, PopType DEF TypeOK
  <2> QED BY <1>1, <2>1, <2>2, OwnedBelow DEF Inv
<1>3. /\ Len(gosub') = Len(gosub)
      /\ \A g \in 1..Len(gosub) : gosub'[g].ret = gosub[g].ret
  <2>1. CASE UNCHANGED gosub
    BY <2>1
  <2>2. CASE /\ BodyDone
             /\ gosub' = [gosub EXCEPT ![Top(cstack).gsp + 1].ctl = Top(nested)]
    <3> DEFINE g == Top(cstack).gsp + 1
    <3>1. g \in 1..Len(gosub)
      BY <1>1, <1>2, <2>2, SMT DEF BodyDone, Top
    <3>2. gosub[g] \in Gosub /\ Top(nested) \in Frame
      BY <1>1, <1>2, <3>1, ElementOfSeq, PopType DEF TypeOK
    <3>3. /\ [gosub[g] EXCEPT !.ctl = Top(nested)] \in Gosub
          /\ [gosub[g] EXCEPT !.ctl = Top(nested)].ret = gosub[g].ret
      BY <3>2, SMT DEF Gosub
    <3>4. gosub' = [gosub EXCEPT ![g] = [gosub[g] EXCEPT !.ctl = Top(nested)]]
      BY <2>2
    <3> HIDE DEF g
    <3>5. /\ Len(gosub') = Len(gosub)
          /\ \A i \in 1..Len(gosub) :
               gosub'[i] = IF i = g THEN [gosub[g] EXCEPT !.ctl = Top(nested)]
                           ELSE gosub[i]
      BY <1>2, <3>1, <3>3, <3>4, ExceptSeq
    <3> QED BY <3>3, <3>5
  <2> QED BY <2>1, <2>2, Zenon DEF ExecuteEnds
<1>4. \A i \in 1..n - 1 : Owned(cstack[i]) <= Len(gosub')
  BY <1>1, <1>2, <1>3, BelowOwner
<1>5. \A i \in n - 1 + 1..n : ~Bound(cstack[i])
  <2>1. \A i \in n - 1 + 1..n : i = n
    BY <1>2, SMT
  <2> QED BY <1>1, <2>1 DEF Bound
<1>6. ~(n - 1 > 0 /\ cstack[n - 1].phase = "entry")
  <2> SUFFICES ASSUME n - 1 > 0, cstack[n - 1].phase = "entry" PROVE FALSE
    OBVIOUS
  <2>1. n - 1 \in 1..n /\ n = (n - 1) + 1
    BY <1>2, SMT
  <2>2. cstack[n].kind = "function"
    BY <1>1, <2>1, Zenon DEF Inv, CallsInv
  <2> QED BY <1>1, <2>2
<1>7. Len(nested') = DepthAt(n - 1)
  <2>1. Len(nested') = Len(nested) - 1 /\ Len(nested) \in Nat
    BY <1>1, PopType, TopTypes, SMT DEF TypeOK
  <2>2. Len(nested) = DepthAt(n) /\ DepthAt(n) = DepthAt(n - 1) + 1
    BY <1>1, Zenon DEF Inv, DepthInv
  <2>3. DepthAt(n - 1) \in Nat
    <3>1. n - 1 = 0 \/ n - 1 \in 1..n
      BY <1>2, SMT
    <3>2. ASSUME n - 1 \in 1..n PROVE cstack[n - 1].depth \in Nat
      <4>1. cstack[n - 1] \in CFrame
        BY <3>2, TopTypes
      <4> QED BY <4>1, SMT DEF CFrame
    <3> QED BY <3>1, <3>2 DEF DepthAt
  <2> QED BY <2>1, <2>2, <2>3, SMT
<1>8. tick_busy' <=> \E i \in 1..n - 1 : cstack[i].kind = "event"
  <2>1. tick_busy <=> \E i \in 1..n : cstack[i].kind = "event"
    BY <1>1 DEF Inv, BusyInv, TickBusyLive
  <2>2. /\ \A i \in 1..n - 1 : i \in 1..n
        /\ \A i \in 1..n : i = n \/ i \in 1..n - 1
    BY <1>2, SMT
  <2>3. ASSUME NEW i \in 1..n, cstack[i].kind = "event" PROVE i \in 1..n - 1
    BY <1>1, <2>2, <2>3
  <2> QED BY <1>1, <2>1, <2>2, <2>3
<1>9. Live' /\ Len(gosub') <= Len(gosub)
  BY <1>1, <1>2, <1>3, SMT DEF Live
<1> QED BY <1>1, <1>2, <1>3, <1>4, <1>5, <1>6, <1>7, <1>8, <1>9, InvCut

\* The first half of a nested entry, with what its three dispatchers check.
LEMMA NestedPushStep ==
  ASSUME TypeOK, TypeOK', Inv, status = "run",
         NEW kind \in {"function", "event", "execute"}, NEW in_stmt \in BOOLEAN,
         NestedPush(kind, in_stmt),
         cstack # <<>> /\ Top(cstack).phase = "entry" =>
           kind = "function" /\ Top(cstack).kind = "function",
         IF kind = "event" THEN ~tick_busy /\ tick_busy'
         ELSE tick_busy' = tick_busy
  PROVE  Inv'
<1> DEFINE f == [kind |-> kind, phase |-> "entry", gsp |-> Len(gosub),
                 depth |-> Len(nested) + 1, in_stmt |-> in_stmt]
<1>1. Len(cstack) \in Nat /\ Len(gosub) \in 0..MaxGosub /\ Len(nested) \in 0..MaxNested
  BY TopTypes
<1>2. /\ cstack' = Append(cstack, f) /\ Len(nested) < MaxNested
      /\ UNCHANGED <<status, gosub>>
  BY DEF NestedPush
<1>3. f \in CFrame
  <2>1. Len(nested) + 1 \in 0..MaxNested
    BY <1>1, <1>2, LimitsAssumption, SMT
  <2> QED BY <1>1, <2>1, SMT DEF CFrame
<1>4. Len(nested') = Len(nested) + 1
  BY NestedPushType
<1>5. /\ f.kind = kind /\ f.phase = "entry" /\ f.gsp = Len(gosub)
      /\ f.depth = Len(nested) + 1
  OBVIOUS
<1> HIDE DEF f
<1> QED BY <1>1, <1>2, <1>3, <1>4, <1>5, EnterStep

\* The dispatchers, and the call of a SUB in an island.
LEMMA EntryStep ==
  ASSUME TypeOK, TypeOK', Inv,
         \/ CallIslandSub \/ EnterFunction \/ EnterExecute
         \/ \E paused \in BOOLEAN : EnterEvent(paused)
  PROVE  Inv'
<1>1. Len(cstack) \in Nat /\ Len(gosub) \in 0..MaxGosub /\ Len(nested) \in 0..MaxNested
  BY TopTypes
<1>2. CASE CallIslandSub
  <2> DEFINE f == [kind |-> "island_sub", phase |-> "body", gsp |-> Len(gosub),
                   depth |-> Len(nested), in_stmt |-> TRUE]
  <2>1. /\ PushGosub(ctl.inl, "nested") /\ cstack' = Append(cstack, f)
        /\ status = "run" /\ AtStatement /\ UNCHANGED <<status, nested, tick_busy>>
    BY <1>2 DEF CallIslandSub
  <2>2. ctl.inl \in BOOLEAN /\ f \in CFrame
    BY <1>1, SMT DEF CFrame, TypeOK, Frame
  <2>3. /\ Len(gosub') = Len(gosub) + 1
        /\ \A g \in 1..Len(gosub) : gosub'[g] = gosub[g]
        /\ gosub'[Len(gosub) + 1].ret = "nested"
    BY <2>1, <2>2, PushGosubType
  <2>4. ~(cstack # <<>> /\ Top(cstack).phase = "entry")
    BY <2>1 DEF AtStatement
  <2>5. /\ f.kind = "island_sub" /\ f.phase = "body" /\ f.gsp = Len(gosub)
        /\ f.depth = Len(nested)
    OBVIOUS
  <2> HIDE DEF f
  <2> QED BY <1>1, <2>1, <2>2, <2>3, <2>4, <2>5, EnterStep
<1>3. CASE EnterFunction
  <2>1. /\ NestedPush("function", TRUE) /\ tick_busy' = tick_busy /\ status = "run"
        /\ AtStatement \/ (InKind("function") /\ Top(cstack).phase = "entry")
    BY <1>3 DEF EnterFunction
  <2>2. cstack # <<>> /\ Top(cstack).phase = "entry" => Top(cstack).kind = "function"
    BY <2>1 DEF AtStatement, InKind
  <2> QED BY <2>1, <2>2, NestedPushStep
<1>4. CASE EnterExecute
  <2>1. /\ NestedPush("execute", TRUE) /\ tick_busy' = tick_busy /\ status = "run"
        /\ ~(cstack # <<>> /\ Top(cstack).phase = "entry")
    BY <1>4 DEF EnterExecute, AtStatement
  <2> QED BY <2>1, NestedPushStep
<1>5. ASSUME NEW paused \in BOOLEAN, EnterEvent(paused) PROVE Inv'
  <2>1. /\ NestedPush("event", paused) /\ tick_busy' /\ ~tick_busy /\ status = "run"
        /\ ~(cstack # <<>> /\ Top(cstack).phase = "entry")
    BY <1>5 DEF EnterEvent, AtLineBoundary, AtStatement
  <2> QED BY <2>1, NestedPushStep
<1> QED BY <1>2, <1>3, <1>4, <1>5

\* Every step keeps the invariant.
LEMMA InvStep ==
  ASSUME TypeOK, Inv, OnError # "skip", Next
  PROVE  Inv'
<1>1. TypeOK'
  BY TypeStep DEF Inv
<1>2. ~Live => cstack = <<>>
  BY DEF Inv, CallsInv
<1>3. CASE Raised
  <2>1. cstack' = <<>> /\ ~Live' /\ status' # "run"
    BY <1>3 DEF Raised, Live
  <2> QED BY <2>1, InvEmpty
<1>4. CASE \/ OpenIf \/ EndIf \/ InlineIf \/ OpenSelect \/ EndSelect
           \/ LoopBack \/ LeaveLoop
           \/ \E line \in Lines, enter \in BOOLEAN : Do(line, enter)
  BY <1>1, <1>4, StructureType, InvSame
<1>5. CASE OnErrorGoto \/ End
  <2>1. /\ UNCHANGED <<gosub, nested, cstack, tick_busy>>
        /\ status' = status \/ (status = "run" /\ status' = "end")
    BY <1>5 DEF OnErrorGoto, End
  <2> QED BY <1>1, <2>1, InvSame
<1>6. CASE GosubStatement \/ \E more \in BOOLEAN : CallSub(more)
  <2>1. CASE GosubStatement
    <3>1. /\ status = "run" /\ AtStatement /\ PushGosub(ctl.inl, "line")
          /\ UNCHANGED <<status, nested, cstack, tick_busy>>
      BY <2>1 DEF GosubStatement
    <3>2. ctl.inl \in BOOLEAN
      BY SMT DEF TypeOK, Frame
    <3> QED BY <1>1, <3>1, <3>2, PushStep
  <2>2. ASSUME NEW more \in BOOLEAN, CallSub(more) PROVE Inv'
    <3>1. /\ status = "run" /\ AtStatement
          /\ PushGosub(ctl.inl /\ more, IF more THEN "mid" ELSE "line")
          /\ UNCHANGED <<status, nested, cstack, tick_busy>>
      BY <2>2 DEF CallSub
    <3>2. ctl.inl \in BOOLEAN
      BY SMT DEF TypeOK, Frame
    <3>3. (ctl.inl /\ more) \in BOOLEAN
          /\ (IF more THEN "mid" ELSE "line") \in {"line", "mid"}
      BY <3>2
    <3> QED BY <1>1, <3>1, <3>3, PushStep
  <2> QED BY <1>6, <2>1, <2>2
<1>7. CASE BindCall \/ StartBody
  <2>1. /\ Entering /\ status = "run" /\ BodyStarted
        /\ UNCHANGED <<status, nested, tick_busy>>
        /\ IF InKind("execute") THEN gosub' = gosub
           ELSE PushGosub(ctl.inl, "nested")
    BY <1>7 DEF BindCall, StartBody
  <2>2. Len(cstack) \in Nat
    BY TopTypes
  <2> QED BY <1>1, <2>1, <2>2, BodyStep
<1>8. CASE ProgramEnds
  <2>1. cstack' = <<>> /\ ~Live' /\ status' # "run"
    BY <1>8 DEF ProgramEnds, Live
  <2> QED BY <2>1, InvEmpty
<1>9. CASE UnwindGosub \/ UnwindNested
  <2>1. cstack' = <<>> /\ ~Live' /\ status' # "run"
    BY <1>2, <1>9 DEF UnwindGosub, UnwindNested, Live
  <2> QED BY <2>1, InvEmpty
<1>10. CASE Trapped
  <2>1. cstack' = <<>> /\ gosub' = <<>> /\ nested' = <<>> /\ ~tick_busy'
    BY <1>2, <1>10 DEF Trapped, Live
  <2> QED BY <2>1, InvEmpty
<1>11. CASE Aborted \/ Run
  <2>1. cstack' = <<>> /\ ~tick_busy'
        /\ (status' # "idle" => gosub' = <<>> /\ nested' = <<>>)
    BY <1>2, <1>11 DEF Aborted, Run, Live
  <2> QED BY <2>1, InvEmpty DEF Live
<1> QED BY <1>1, <1>3, <1>4, <1>5, <1>6, <1>7, <1>8, <1>9, <1>10, <1>11,
           StepCases, RaisedStep, EntryStep, ReturnInLoopStep,
           ReturnFromBodyStep, ReturnFromIslandStep, StoppedStep,
           ExecuteEndsStep

\* The invariant holds in every reachable state.
LEMMA Invariant ==
  ASSUME OnError # "skip"
  PROVE  Spec => [](TypeOK /\ Inv)
<1>1. Init => TypeOK /\ Inv
  <2> SUFFICES ASSUME Init PROVE TypeOK /\ Inv
    OBVIOUS
  <2>1. TypeOK
    <3>1. /\ Len(<<>>) <= MaxGosub /\ Len(<<>>) <= MaxNested
          /\ <<>> \in Seq(Gosub) /\ <<>> \in Seq(Frame) /\ <<>> \in Seq(CFrame)
      BY EmptySeq, LimitsAssumption, SMT
    <3>2. Clean \in Frame
      BY LimitsAssumption, SMT DEF Clean, Frame
    <3> QED BY <3>1, <3>2 DEF Init, TypeOK
  <2>2. CallsInv /\ BusyInv
    <3>1. 1..Len(<<>>) = {}
      BY SMT
    <3> QED BY <3>1 DEF Init, CallsInv, BusyInv, TickBusyLive, Live
  <2>3. DepthInv
    <3>1. 1..Len(<<>>) = {} /\ 0..Len(<<>>) = {0} /\ Len(<<>>) = 0
      BY SMT
    <3>2. DepthAt(0) = 0
      BY DEF DepthAt
    <3> QED BY <3>1, <3>2, SMT DEF Init, DepthInv
  <2> QED BY <2>1, <2>2, <2>3 DEF Inv
<1>2. TypeOK /\ Inv /\ [Next]_vars => (TypeOK /\ Inv)'
  <2> SUFFICES ASSUME TypeOK, Inv, [Next]_vars PROVE TypeOK' /\ Inv'
    OBVIOUS
  <2>1. CASE Next
    BY <2>1, TypeStep, InvStep DEF Inv
  <2>2. CASE UNCHANGED vars
    <3>1. TypeOK'
      BY <2>2 DEF TypeOK, vars
    <3> QED BY <2>2, <3>1, InvSame DEF vars
  <2> QED BY <2>1, <2>2
<1> QED BY <1>1, <1>2, PTL DEF Spec

\* Unless the program runs under ON ERROR SKIP, every stack stays within its
\* limit and every depth is one the stacks have.
THEOREM Typing ==
  ASSUME OnError # "skip"
  PROVE  Spec => []TypeOK
<1>1. TypeOK /\ Inv => TypeOK
  OBVIOUS
<1> QED BY <1>1, Invariant, PTL

\* Unless the program runs under ON ERROR SKIP, the nested frames are those of the
\* live C frames, so that every one of them pops its own snapshot.
THEOREM SnapshotsMatch ==
  ASSUME OnError # "skip"
  PROVE  Spec => []NestedMatchesC
<1>1. TypeOK /\ Inv => NestedMatchesC
  <2> SUFFICES ASSUME TypeOK, Inv PROVE NestedMatchesC
    OBVIOUS
  <2>1. Len(cstack) = 0 <=> cstack = <<>>
    BY EmptySeq DEF TypeOK
  <2>2. DepthAt(Len(cstack)) = IF cstack = <<>> THEN 0 ELSE Top(cstack).depth
    BY <2>1 DEF DepthAt, Top
  <2> QED BY <2>2 DEF Inv, DepthInv, NestedMatchesC
<1> QED BY <1>1, Invariant, PTL

\* Unless the program runs under ON ERROR SKIP, tick_busy is set exactly while a
\* handler runs, so that no error, END or RETURN leaves the dispatcher blocked.
THEOREM HandlersReleased ==
  ASSUME OnError # "skip"
  PROVE  Spec => []TickBusyLive
<1>1. TypeOK /\ Inv => TickBusyLive
  BY DEF Inv, BusyInv
<1> QED BY <1>1, Invariant, PTL

-----------------------------------------------------------------------------
(* The open SELECTs.  The two arrays of saved frames are one stack in time: *)
(* whoever was saved earlier has its SELECTs below those of whoever came   *)
(* later, so that nothing that the running activation may free is anybody  *)
(* else's.  RunSel says so of a program that runs.  The unwinding of a     *)
(* trapped error takes the gosub frames first and leaves that order, so    *)
(* that only the outermost snapshot is sure of its values (TrapSel).       *)

\* The SELECTs of h lie above all those of f, and its callers.
Under(f, h) == f.sel_sp <= h.sel_base

\* The SELECTs open in f hold their values.
Kept(f, s) == /\ f.sel_base <= f.sel_sp
              /\ \A i \in f.sel_base + 1..f.sel_sp : s[i] = "held"

SavedOrder(gs, ns) ==
  /\ \A g, h \in 1..Len(gs) : g < h => Under(gs[g].ctl, gs[h].ctl)
  /\ \A j, k \in 1..Len(ns) : j < k => Under(ns[j], ns[k])
  /\ \A g \in 1..Len(gs), j \in 1..Len(ns) :
       Under(gs[g].ctl, ns[j]) \/ Under(ns[j], gs[g].ctl)

DepthOrder(ns, cs) ==
  /\ \A i \in 1..Len(cs) :
       /\ cs[i].depth <= Len(ns)
       /\ cs[i].kind # "island_sub" => cs[i].depth > 0
  /\ \A i, j \in 1..Len(cs) :
       i < j => IF cs[j].kind = "island_sub" THEN cs[i].depth <= cs[j].depth
                ELSE cs[i].depth < cs[j].depth

\* The gosub frames that a C frame found were there before its snapshot, those
\* that came later are above it and all the earlier ones.
EntryOrder(gs, ns, cs) ==
  \A i \in 1..Len(cs), g \in 1..Len(gs) :
    IF g <= cs[i].gsp
    THEN cs[i].kind # "island_sub" => Under(gs[g].ctl, ns[cs[i].depth])
    ELSE \A j \in 1..cs[i].depth : Under(ns[j], gs[g].ctl)

RunSel(c, s, gs, ns, cs) ==
  /\ Kept(c, s)
  /\ \A g \in 1..Len(gs) : Kept(gs[g].ctl, s) /\ Under(gs[g].ctl, c)
  /\ \A j \in 1..Len(ns) : Kept(ns[j], s) /\ Under(ns[j], c)
  /\ SavedOrder(gs, ns) /\ DepthOrder(ns, cs) /\ EntryOrder(gs, ns, cs)

TrapSel(c, s, gs, ns) ==
  /\ c.sel_base <= c.sel_sp
  /\ SavedOrder(gs, ns)
  /\ \A g \in 1..Len(gs) : Kept(gs[g].ctl, s) /\ Under(gs[g].ctl, c)
  /\ \A j \in 1..Len(ns) : ns[j].sel_base <= ns[j].sel_sp
  /\ IF ns = <<>> THEN Kept(c, s)
     ELSE Kept(ns[1], s) /\ (Under(ns[1], c) \/ Under(c, ns[1]))

SelInv == /\ status = "run" => RunSel(ctl, selstack, gosub, nested, cstack)
          /\ status = "trap" => TrapSel(ctl, selstack, gosub, nested)

Slots == [1..MaxSel -> {"free", "held"}]

\* What a truncation leaves alone.
LEMMA SlotsLeft ==
  ASSUME NEW s \in Slots, NEW c \in Frame, NEW depth \in 0..MaxSel
  PROVE  /\ \A i \in 1..MaxSel :
              i <= depth \/ i <= c.sel_base \/ i > c.sel_sp
                \/ i <= SelAfter(c, depth)
              => SelFreed(s, c, depth)[i] = s[i]
         /\ c.sel_base <= c.sel_sp =>
              c.sel_base <= SelAfter(c, depth) /\ SelAfter(c, depth) <= c.sel_sp
<1>1. /\ c.sel_sp \in Nat /\ c.sel_base \in Nat /\ depth \in Nat
  BY LimitsAssumption, SMT DEF Frame
<1> QED BY <1>1, LimitsAssumption, SMT DEF SelFreed, SelAfter, Higher, Slots

\* A frame keeps its values while nobody touches the slots up to its own.
LEMMA KeptSame ==
  ASSUME NEW s \in Slots, NEW t \in Slots, NEW f \in Frame, Kept(f, s),
         \A i \in 1..MaxSel : f.sel_base < i /\ i <= f.sel_sp => t[i] = s[i]
  PROVE  Kept(f, t)
<1>1. /\ f.sel_sp \in 0..MaxSel /\ f.sel_base \in 0..MaxSel
  BY SMT DEF Frame
<1>2. f.sel_base + 1..f.sel_sp \subseteq 1..MaxSel
  BY <1>1, LimitsAssumption, SMT
<1> QED BY <1>1, <1>2, LimitsAssumption, SMT DEF Kept

\* The numbers of a frame.
LEMMA FrameNat ==
  /\ \A f \in Frame : f.sel_sp \in 0..MaxSel /\ f.sel_base \in 0..MaxSel
                      /\ f.sel_sp \in Nat /\ f.sel_base \in Nat
  /\ \A g \in Gosub : g.ctl \in Frame
<1>1. \A f \in Frame : f.sel_sp \in 0..MaxSel /\ f.sel_base \in 0..MaxSel
  BY SMT DEF Frame
<1>2. \A g \in Gosub : g.ctl \in Frame
  BY SMT DEF Gosub
<1> QED BY <1>1, <1>2, LimitsAssumption, SMT

\* Under is transitive through a frame that is in order.
LEMMA UnderTrans ==
  ASSUME NEW e \in Frame, NEW f \in Frame, NEW h \in Frame,
         f.sel_base <= f.sel_sp, Under(e, f), Under(f, h)
  PROVE  Under(e, h)
BY FrameNat, SMT DEF Under

\* Saved frames that stay, and a running activation that lies above them: every
\* statement that opens or closes a block, and every return.
LEMMA StaySel ==
  ASSUME NEW s \in Slots, NEW s2 \in Slots, NEW c \in Frame, NEW c2 \in Frame,
         NEW gs \in Seq(Gosub), NEW gs2 \in Seq(Gosub),
         NEW ns \in Seq(Frame), NEW ns2 \in Seq(Frame),
         NEW cs \in Seq(CFrame), NEW cs2 \in Seq(CFrame),
         RunSel(c, s, gs, ns, cs),
         Len(gs2) <= Len(gs), \A g \in 1..Len(gs2) : gs2[g] = gs[g],
         Len(ns2) <= Len(ns), \A j \in 1..Len(ns2) : ns2[j] = ns[j],
         Len(cs2) <= Len(cs),
         \A i \in 1..Len(cs2) :
           /\ cs2[i].kind = cs[i].kind /\ cs2[i].gsp = cs[i].gsp
           /\ cs2[i].depth = cs[i].depth /\ cs[i].depth <= Len(ns2),
         Kept(c2, s2),
         \A g \in 1..Len(gs2) : Under(gs[g].ctl, c2),
         \A j \in 1..Len(ns2) : Under(ns[j], c2),
         \A i \in 1..MaxSel : i <= c2.sel_base => s2[i] = s[i]
  PROVE  RunSel(c2, s2, gs2, ns2, cs2)
<1>1. /\ Len(gs) \in Nat /\ Len(gs2) \in Nat /\ Len(ns) \in Nat
      /\ Len(ns2) \in Nat /\ Len(cs) \in Nat /\ Len(cs2) \in Nat
  BY LenProperties
<1>2. /\ 1..Len(gs2) \subseteq 1..Len(gs) /\ 1..Len(ns2) \subseteq 1..Len(ns)
      /\ 1..Len(cs2) \subseteq 1..Len(cs)
  BY <1>1, SMT
<1>3. /\ \A g \in 1..Len(gs) : gs[g].ctl \in Frame
      /\ \A j \in 1..Len(ns) : ns[j] \in Frame
      /\ \A i \in 1..Len(cs) : cs[i] \in CFrame
  BY ElementOfSeq, FrameNat
<1>4. \A f \in Frame : Kept(f, s) /\ Under(f, c2) => Kept(f, s2)
  <2> SUFFICES ASSUME NEW f \in Frame, Kept(f, s), Under(f, c2)
               PROVE  Kept(f, s2)
    OBVIOUS
  <2>1. \A i \in 1..MaxSel : f.sel_base < i /\ i <= f.sel_sp => s2[i] = s[i]
    BY FrameNat, SMT DEF Under
  <2> QED BY <2>1, KeptSame
<1>5. \A g \in 1..Len(gs2) : Kept(gs2[g].ctl, s2) /\ Under(gs2[g].ctl, c2)
  BY <1>2, <1>3, <1>4 DEF RunSel
<1>6. \A j \in 1..Len(ns2) : Kept(ns2[j], s2) /\ Under(ns2[j], c2)
  BY <1>2, <1>3, <1>4 DEF RunSel
<1>7. SavedOrder(gs2, ns2)
  BY <1>2 DEF RunSel, SavedOrder
<1>8. DepthOrder(ns2, cs2)
  BY <1>2 DEF RunSel, DepthOrder
<1>9. EntryOrder(gs2, ns2, cs2)
  <2> SUFFICES ASSUME NEW i \in 1..Len(cs2), NEW g \in 1..Len(gs2)
               PROVE  IF g <= cs2[i].gsp
                      THEN cs2[i].kind # "island_sub" =>
                             Under(gs2[g].ctl, ns2[cs2[i].depth])
                      ELSE \A j \in 1..cs2[i].depth : Under(ns2[j], gs2[g].ctl)
    BY DEF EntryOrder
  <2>1. /\ i \in 1..Len(cs) /\ g \in 1..Len(gs) /\ gs2[g] = gs[g]
        /\ cs2[i].depth = cs[i].depth /\ cs2[i].gsp = cs[i].gsp
        /\ cs2[i].kind = cs[i].kind /\ cs[i].depth <= Len(ns2)
        /\ (cs[i].kind # "island_sub" => cs[i].depth > 0)
    BY <1>2 DEF RunSel, DepthOrder
  <2>2. cs[i].depth \in Nat
    <3>1. cs[i] \in CFrame
      BY <1>3, <2>1
    <3> QED BY <3>1, DepthNat
  <2>3. /\ 1..cs[i].depth \subseteq 1..Len(ns2)
        /\ cs[i].kind # "island_sub" => cs[i].depth \in 1..Len(ns2)
    BY <1>1, <2>1, <2>2, SMT
  <2>4. /\ \A j \in 1..cs[i].depth : ns2[j] = ns[j]
        /\ cs[i].kind # "island_sub" => ns2[cs[i].depth] = ns[cs[i].depth]
    BY <2>3
  <2> QED BY <2>1, <2>4 DEF RunSel, EntryOrder
<1> QED BY <1>5, <1>6, <1>7, <1>8, <1>9 DEF RunSel

\* What StaySel says of the frames, for lemmas that add or change one.
LEMMA SelTypes ==
  ASSUME NEW gs \in Seq(Gosub), NEW ns \in Seq(Frame), NEW cs \in Seq(CFrame)
  PROVE  /\ Len(gs) \in Nat /\ Len(ns) \in Nat /\ Len(cs) \in Nat
         /\ \A g \in 1..Len(gs) : gs[g].ctl \in Frame
         /\ \A j \in 1..Len(ns) : ns[j] \in Frame
         /\ \A i \in 1..Len(cs) : cs[i].depth \in Nat /\ cs[i].gsp \in Nat
<1>1. \A i \in 1..Len(cs) : cs[i] \in CFrame
  BY ElementOfSeq
<1> QED BY <1>1, LenProperties, ElementOfSeq, FrameNat, DepthNat

\* Entering a callee hides the caller's SELECTs, and keeps everybody's.
LEMMA EnteredSel ==
  ASSUME NEW s \in Slots, NEW c \in Frame, NEW f \in Frame, Kept(c, s),
         f.sel_sp = c.sel_sp, f.sel_base = c.sel_base
  PROVE  /\ Entered(c) \in Frame /\ Kept(Entered(c), s)
         /\ Kept(f, s) /\ Under(f, Entered(c)) /\ Under(c, Entered(c))
         /\ \A e \in Frame : Under(e, c) => Under(e, f) /\ Under(e, Entered(c))
<1>1. /\ c.sel_sp \in Nat /\ c.sel_base \in Nat /\ c.sel_base <= c.sel_sp
      /\ \A e \in Frame : e.sel_sp \in Nat
  BY FrameNat DEF Kept
<1>2. Entered(c) \in Frame
  BY FrameOps
<1>3. Entered(c).sel_sp = c.sel_sp /\ Entered(c).sel_base = c.sel_sp
  BY DEF Entered
<1>4. Kept(Entered(c), s)
  <2>1. c.sel_sp + 1..c.sel_sp = {}
    BY <1>1, SMT
  <2> QED BY <1>1, <1>3, <2>1, SMT DEF Kept
<1>5. Kept(f, s)
  BY DEF Kept
<1> QED BY <1>1, <1>2, <1>3, <1>4, <1>5, SMT DEF Under

\* A gosub frame is pushed, in an island with a C frame for its line loop.
LEMMA PushSel ==
  ASSUME NEW s \in Slots, NEW c \in Frame,
         NEW gs \in Seq(Gosub), NEW gs2 \in Seq(Gosub), NEW ns \in Seq(Frame),
         NEW cs \in Seq(CFrame), NEW cs2 \in Seq(CFrame),
         RunSel(c, s, gs, ns, cs),
         \A i \in 1..Len(cs) : cs[i].gsp <= Len(gs),
         Len(gs2) = Len(gs) + 1, \A g \in 1..Len(gs) : gs2[g] = gs[g],
         gs2[Len(gs) + 1].ctl.sel_sp = c.sel_sp,
         gs2[Len(gs) + 1].ctl.sel_base = c.sel_base,
         Len(cs2) >= Len(cs),
         \A i \in 1..Len(cs) :
           /\ cs2[i].kind = cs[i].kind /\ cs2[i].gsp = cs[i].gsp
           /\ cs2[i].depth = cs[i].depth,
         \A i \in Len(cs) + 1..Len(cs2) :
           /\ cs2[i].kind = "island_sub" /\ cs2[i].gsp = Len(gs)
           /\ cs2[i].depth = Len(ns)
  PROVE  RunSel(Entered(c), s, gs2, ns, cs2)
<1> DEFINE f == gs2[Len(gs) + 1].ctl
<1>1. /\ Len(gs) \in Nat /\ Len(ns) \in Nat /\ Len(cs) \in Nat /\ Len(cs2) \in Nat
      /\ \A g \in 1..Len(gs) : gs[g].ctl \in Frame
      /\ \A g \in 1..Len(gs2) : gs2[g].ctl \in Frame
      /\ \A j \in 1..Len(ns) : ns[j] \in Frame
      /\ \A i \in 1..Len(cs) : cs[i].depth \in Nat /\ cs[i].gsp \in Nat
  BY SelTypes
<1>2. /\ 1..Len(gs2) = 1..Len(gs) \cup {Len(gs) + 1}
      /\ \A g \in 1..Len(gs) : g < Len(gs) + 1
      /\ ~(Len(gs) + 1 < Len(gs) + 1)
      /\ \A g \in 1..Len(gs2) : ~(Len(gs) + 1 < g)
  BY <1>1, SMT
<1>3. f \in Frame
  BY <1>1, <1>2
<1>4. /\ Kept(Entered(c), s) /\ Kept(f, s) /\ Under(f, Entered(c))
      /\ \A e \in Frame : Under(e, c) => Under(e, f) /\ Under(e, Entered(c))
  BY <1>3, EnteredSel DEF RunSel
<1> HIDE DEF f
<1>5. \A g \in 1..Len(gs) : gs2[g] = gs[g] /\ Under(gs[g].ctl, f)
  BY <1>1, <1>4 DEF RunSel
<1>6. \A j \in 1..Len(ns) : Under(ns[j], f)
  BY <1>1, <1>4 DEF RunSel
<1>7. gs2[Len(gs) + 1].ctl = f
  BY DEF f
<1>8. \A g \in 1..Len(gs2) : Kept(gs2[g].ctl, s) /\ Under(gs2[g].ctl, Entered(c))
  BY <1>1, <1>2, <1>4, <1>5, <1>7 DEF RunSel
<1>9. \A j \in 1..Len(ns) : Kept(ns[j], s) /\ Under(ns[j], Entered(c))
  BY <1>1, <1>4 DEF RunSel
<1>10. SavedOrder(gs2, ns)
  BY <1>2, <1>5, <1>6, <1>7 DEF RunSel, SavedOrder
<1>11. \A i \in 1..Len(cs2) : i \in 1..Len(cs) \/ i \in Len(cs) + 1..Len(cs2)
  BY <1>1, SMT
<1>12. DepthOrder(ns, cs2)
  <2>1. \A i \in 1..Len(cs2) : /\ cs2[i].depth <= Len(ns)
                               /\ cs2[i].kind # "island_sub" => cs2[i].depth > 0
    <3>1. Len(ns) <= Len(ns)
      BY <1>1, SMT
    <3> QED BY <1>11, <3>1 DEF RunSel, DepthOrder
  <2>2. \A i, j \in 1..Len(cs2) :
          i < j => IF cs2[j].kind = "island_sub" THEN cs2[i].depth <= cs2[j].depth
                   ELSE cs2[i].depth < cs2[j].depth
    <3> SUFFICES ASSUME NEW i \in 1..Len(cs2), NEW j \in 1..Len(cs2), i < j
                 PROVE  IF cs2[j].kind = "island_sub"
                        THEN cs2[i].depth <= cs2[j].depth
                        ELSE cs2[i].depth < cs2[j].depth
      OBVIOUS
    <3>1. CASE j \in 1..Len(cs)
      <4>1. i \in 1..Len(cs)
        BY <1>1, <3>1, SMT
      <4> QED BY <3>1, <4>1 DEF RunSel, DepthOrder
    <3>2. CASE j \in Len(cs) + 1..Len(cs2)
      BY <2>1, <3>2
    <3> QED BY <1>11, <3>1, <3>2
  <2> QED BY <2>1, <2>2 DEF DepthOrder
<1>13. EntryOrder(gs2, ns, cs2)
  <2> SUFFICES ASSUME NEW i \in 1..Len(cs2), NEW g \in 1..Len(gs2)
               PROVE  IF g <= cs2[i].gsp
                      THEN cs2[i].kind # "island_sub" =>
                             Under(gs2[g].ctl, ns[cs2[i].depth])
                      ELSE \A j \in 1..cs2[i].depth : Under(ns[j], gs2[g].ctl)
    BY DEF EntryOrder
  <2>1. cs2[i].gsp \in Nat /\ cs2[i].gsp <= Len(gs)
        /\ cs2[i].depth \in Nat /\ cs2[i].depth <= Len(ns)
    <3>1. CASE i \in 1..Len(cs)
      BY <1>1, <3>1 DEF RunSel, DepthOrder
    <3>2. CASE i \in Len(cs) + 1..Len(cs2)
      BY <1>1, <3>2, SMT
    <3> QED BY <1>11, <3>1, <3>2
  <2>2. CASE g = Len(gs) + 1
    <3>1. ~(g <= cs2[i].gsp) /\ 1..cs2[i].depth \subseteq 1..Len(ns)
      BY <1>1, <2>1, <2>2, SMT
    <3> QED BY <1>6, <1>7, <2>2, <3>1
  <2>3. CASE g \in 1..Len(gs) /\ i \in 1..Len(cs)
    BY <1>5, <2>3 DEF RunSel, EntryOrder
  <2>4. CASE g \in 1..Len(gs) /\ i \in Len(cs) + 1..Len(cs2)
    <3>1. cs2[i].gsp = Len(gs) /\ cs2[i].kind = "island_sub"
      BY <2>4
    <3>2. g <= Len(gs)
      BY <1>1, <2>4, SMT
    <3> QED BY <3>1, <3>2
  <2> QED BY <1>2, <1>11, <2>2, <2>3, <2>4
<1> QED BY <1>4, <1>8, <1>9, <1>10, <1>12, <1>13 DEF RunSel

\* A snapshot is taken: it lies above all the frames there are.
LEMMA SnapshotSel ==
  ASSUME NEW s \in Slots, NEW c \in Frame,
         NEW gs \in Seq(Gosub), NEW ns \in Seq(Frame), NEW ns2 \in Seq(Frame),
         NEW cs \in Seq(CFrame), NEW cs2 \in Seq(CFrame),
         RunSel(c, s, gs, ns, cs),
         Len(ns2) = Len(ns) + 1, \A j \in 1..Len(ns) : ns2[j] = ns[j],
         ns2[Len(ns) + 1] = c,
         Len(cs2) = Len(cs) + 1, \A i \in 1..Len(cs) : cs2[i] = cs[i],
         cs2[Len(cs) + 1].kind # "island_sub",
         cs2[Len(cs) + 1].gsp = Len(gs), cs2[Len(cs) + 1].depth = Len(ns) + 1
  PROVE  RunSel(Entered(c), s, gs, ns2, cs2)
<1> DEFINE last == Len(cs) + 1
<1>1. /\ Len(gs) \in Nat /\ Len(ns) \in Nat /\ Len(cs) \in Nat
      /\ \A g \in 1..Len(gs) : gs[g].ctl \in Frame
      /\ \A j \in 1..Len(ns) : ns[j] \in Frame
      /\ \A i \in 1..Len(cs) : cs[i].depth \in Nat /\ cs[i].gsp \in Nat
  BY SelTypes
<1>2. /\ 1..Len(ns2) = 1..Len(ns) \cup {Len(ns) + 1}
      /\ \A j \in 1..Len(ns2) : ~(Len(ns) + 1 < j)
      /\ 1..Len(cs2) = 1..Len(cs) \cup {last}
      /\ \A i \in 1..Len(cs2) : ~(last < i)
  BY <1>1, SMT
<1>3. /\ Kept(c, s) /\ Kept(Entered(c), s) /\ Under(c, Entered(c))
      /\ \A e \in Frame : Under(e, c) => Under(e, Entered(c))
  BY EnteredSel DEF RunSel
<1>4. \A g \in 1..Len(gs) : Kept(gs[g].ctl, s) /\ Under(gs[g].ctl, Entered(c))
  BY <1>1, <1>3 DEF RunSel
<1>5. \A j \in 1..Len(ns2) : Kept(ns2[j], s) /\ Under(ns2[j], Entered(c))
  BY <1>1, <1>2, <1>3 DEF RunSel
<1>6. SavedOrder(gs, ns2)
  BY <1>2 DEF RunSel, SavedOrder
<1>7. DepthOrder(ns2, cs2)
  <2>1. /\ \A i \in 1..Len(cs) :
             cs2[i].depth = cs[i].depth /\ cs2[i].kind = cs[i].kind
             /\ cs[i].depth \in Nat /\ cs[i].depth <= Len(ns)
             /\ (cs[i].kind # "island_sub" => cs[i].depth > 0)
        /\ cs2[last].depth = Len(ns) + 1 /\ cs2[last].kind # "island_sub"
    BY <1>1 DEF RunSel, DepthOrder
  <2>2. \A i \in 1..Len(cs2) : /\ cs2[i].depth <= Len(ns2)
                               /\ cs2[i].kind # "island_sub" => cs2[i].depth > 0
    BY <1>1, <1>2, <2>1, SMT
  <2>3. ASSUME NEW i \in 1..Len(cs2), NEW j \in 1..Len(cs2), i < j
        PROVE  IF cs2[j].kind = "island_sub" THEN cs2[i].depth <= cs2[j].depth
               ELSE cs2[i].depth < cs2[j].depth
    <3>1. i \in 1..Len(cs)
      BY <1>2, <2>3
    <3>2. CASE j \in 1..Len(cs)
      BY <2>1, <2>3, <3>1, <3>2 DEF RunSel, DepthOrder
    <3>3. CASE j = last
      <4>1. cs2[i].depth < Len(ns) + 1
        BY <1>1, <2>1, <3>1, SMT
      <4> QED BY <2>1, <3>3, <4>1
    <3> QED BY <1>2, <3>2, <3>3
  <2> QED BY <2>2, <2>3 DEF DepthOrder
<1>8. EntryOrder(gs, ns2, cs2)
  <2> SUFFICES ASSUME NEW i \in 1..Len(cs2), NEW g \in 1..Len(gs)
               PROVE  IF g <= cs2[i].gsp
                      THEN cs2[i].kind # "island_sub" =>
                             Under(gs[g].ctl, ns2[cs2[i].depth])
                      ELSE \A j \in 1..cs2[i].depth : Under(ns2[j], gs[g].ctl)
    BY DEF EntryOrder
  <2>1. CASE i \in 1..Len(cs)
    <3>1. cs2[i] = cs[i]
      BY <2>1
    <3>2. /\ cs[i].depth <= Len(ns) /\ cs[i].depth \in Nat
          /\ (cs[i].kind # "island_sub" => cs[i].depth > 0)
      BY <1>1, <2>1, <3>1 DEF RunSel, DepthOrder
    <3>3. /\ 1..cs[i].depth \subseteq 1..Len(ns)
          /\ cs[i].kind # "island_sub" => cs[i].depth \in 1..Len(ns)
      BY <1>1, <3>2, SMT
    <3>4. /\ \A j \in 1..cs[i].depth : ns2[j] = ns[j]
          /\ cs[i].kind # "island_sub" => ns2[cs[i].depth] = ns[cs[i].depth]
      BY <3>3
    <3> QED BY <2>1, <3>1, <3>4 DEF RunSel, EntryOrder
  <2>2. CASE i = last
    <3>1. g <= cs2[i].gsp
      BY <1>1, <2>2, SMT
    <3>2. Under(gs[g].ctl, c)
      BY DEF RunSel
    <3> QED BY <2>2, <3>1, <3>2
  <2> QED BY <1>2, <2>1, <2>2
<1> QED BY <1>3, <1>4, <1>5, <1>6, <1>7, <1>8 DEF RunSel

\* An EXECUTE body that left a call behind ends: the call's frame is pointed at
\* the caller of EXECUTE, in the place of the body.
LEMMA RebaseSel ==
  ASSUME NEW s \in Slots, NEW c \in Frame,
         NEW gs \in Seq(Gosub), NEW gs2 \in Seq(Gosub),
         NEW ns \in Seq(Frame), NEW ns2 \in Seq(Frame),
         NEW cs \in Seq(CFrame), NEW cs2 \in Seq(CFrame),
         RunSel(c, s, gs, ns, cs),
         Len(cs) > 0, NEW x, x = cs[Len(cs)].gsp + 1,
         cs[Len(cs)].kind # "island_sub", cs[Len(cs)].depth = Len(ns), x <= Len(gs),
         \A i \in 1..Len(cs) - 1 : cs[i].gsp <= cs[Len(cs)].gsp,
         Len(gs2) = Len(gs), gs2[x].ctl = ns[Len(ns)],
         \A g \in 1..Len(gs) : g # x => gs2[g] = gs[g],
         Len(ns2) = Len(ns) - 1, \A j \in 1..Len(ns2) : ns2[j] = ns[j],
         Len(cs2) = Len(cs) - 1, \A i \in 1..Len(cs) - 1 : cs2[i] = cs[i]
  PROVE  RunSel(c, s, gs2, ns2, cs2)
<1> DEFINE f == ns[Len(ns)]
           top == Len(cs)
<1>1. /\ Len(gs) \in Nat /\ Len(ns) \in Nat /\ Len(cs) \in Nat /\ Len(ns2) \in Nat
      /\ top \in Nat /\ top \in 1..Len(cs)
      /\ \A g \in 1..Len(gs) : gs[g].ctl \in Frame
      /\ \A g \in 1..Len(gs) : gs2[g].ctl \in Frame
      /\ \A j \in 1..Len(ns) : ns[j] \in Frame
      /\ \A i \in 1..Len(cs) : cs[i].depth \in Nat /\ cs[i].gsp \in Nat
  <2>1. Len(cs) \in Nat
    BY SelTypes
  <2>2. top \in Nat /\ top \in 1..Len(cs)
    BY <2>1, SMT
  <2> QED BY <2>2, SelTypes
<1>2. /\ Len(ns) > 0
      /\ \A i \in 1..top - 1 : cs[i].depth < Len(ns) /\ cs[i].depth <= Len(ns)
      /\ \A i \in 1..Len(cs) : cs[i].kind # "island_sub" => cs[i].depth > 0
  <2>1. \A i \in 1..top - 1 : i \in 1..Len(cs) /\ i < top
    BY <1>1, SMT
  <2> QED BY <1>1, <2>1 DEF RunSel, DepthOrder
<1>3. /\ Len(ns) \in 1..Len(ns)
      /\ \A j \in 1..Len(ns2) : j \in 1..Len(ns) /\ j < Len(ns)
      /\ x \in Nat /\ x \in 1..Len(gs)
      /\ \A i \in 1..top - 1 : i \in 1..Len(cs)
  <2>1. cs[top].gsp \in Nat
    BY <1>1
  <2> QED BY <1>1, <1>2, <2>1, SMT
<1>4. /\ f \in Frame /\ Kept(f, s) /\ Under(f, c)
      /\ \A j \in 1..Len(ns2) : Under(ns[j], f)
  BY <1>1, <1>3 DEF RunSel, SavedOrder
<1>5. \A g \in 1..Len(gs) : IF g <= cs[top].gsp THEN Under(gs[g].ctl, f)
                            ELSE Under(f, gs[g].ctl)
  BY <1>1, <1>3 DEF RunSel, EntryOrder
<1> HIDE DEF f
<1>6. gs2[x].ctl = f
  BY DEF f
<1>7. \A g \in 1..Len(gs) : /\ g < x => g <= cs[top].gsp
                            /\ x < g => ~(g <= cs[top].gsp)
  <2>1. cs[top].gsp \in Nat
    BY <1>1
  <2> QED BY <1>1, <2>1, SMT
<1>8. \A g \in 1..Len(gs) : /\ g < x => Under(gs[g].ctl, f)
                            /\ x < g => Under(f, gs[g].ctl)
  BY <1>5, <1>7
<1>9. \A g \in 1..Len(gs2) : Kept(gs2[g].ctl, s) /\ Under(gs2[g].ctl, c)
  BY <1>3, <1>4, <1>6 DEF RunSel
<1>10. \A j \in 1..Len(ns2) : Kept(ns2[j], s) /\ Under(ns2[j], c)
  BY <1>3 DEF RunSel
<1>11. SavedOrder(gs2, ns2)
  <2>1. \A g, h \in 1..Len(gs2) : g < h => Under(gs2[g].ctl, gs2[h].ctl)
    <3> SUFFICES ASSUME NEW g \in 1..Len(gs), NEW h \in 1..Len(gs), g < h
                 PROVE  Under(gs2[g].ctl, gs2[h].ctl)
      OBVIOUS
    <3>1. CASE g = x
      <4>1. h # x
        BY <1>3, <3>1, SMT
      <4> QED BY <1>6, <1>8, <3>1, <4>1
    <3>2. CASE h = x
      <4>1. g # x
        BY <1>3, <3>2, SMT
      <4> QED BY <1>6, <1>8, <3>2, <4>1
    <3>3. CASE g # x /\ h # x
      BY <3>3 DEF RunSel, SavedOrder
    <3> QED BY <3>1, <3>2, <3>3
  <2>2. \A j, k \in 1..Len(ns2) : j < k => Under(ns2[j], ns2[k])
    BY <1>3 DEF RunSel, SavedOrder
  <2>3. \A g \in 1..Len(gs2), j \in 1..Len(ns2) :
          Under(gs2[g].ctl, ns2[j]) \/ Under(ns2[j], gs2[g].ctl)
    BY <1>3, <1>4, <1>6 DEF RunSel, SavedOrder
  <2> QED BY <2>1, <2>2, <2>3 DEF SavedOrder
<1>12. DepthOrder(ns2, cs2)
  <2>1. \A i \in 1..top - 1 : cs[i].depth <= Len(ns2)
    <3> SUFFICES ASSUME NEW i \in 1..top - 1 PROVE cs[i].depth <= Len(ns2)
      OBVIOUS
    <3>1. cs[i].depth < Len(ns) /\ cs[i].depth \in Nat
      BY <1>1, <1>2, <1>3
    <3> QED BY <1>1, <3>1, SMT
  <2> QED BY <1>3, <2>1 DEF RunSel, DepthOrder
<1>13. EntryOrder(gs2, ns2, cs2)
  <2> SUFFICES ASSUME NEW i \in 1..top - 1, NEW g \in 1..Len(gs)
               PROVE  IF g <= cs[i].gsp
                      THEN cs[i].kind # "island_sub" =>
                             Under(gs2[g].ctl, ns2[cs[i].depth])
                      ELSE \A j \in 1..cs[i].depth : Under(ns2[j], gs2[g].ctl)
    BY DEF EntryOrder
  <2>1. /\ i \in 1..Len(cs) /\ cs[i].depth < Len(ns) /\ cs[i].depth \in Nat
        /\ (cs[i].kind # "island_sub" => cs[i].depth > 0)
    BY <1>1, <1>2, <1>3
  <2>2. /\ 1..cs[i].depth \subseteq 1..Len(ns2)
        /\ cs[i].kind # "island_sub" => cs[i].depth \in 1..Len(ns2)
    BY <1>1, <2>1, SMT
  <2>3. /\ \A j \in 1..cs[i].depth : ns2[j] = ns[j]
        /\ cs[i].kind # "island_sub" => ns2[cs[i].depth] = ns[cs[i].depth]
    BY <2>2
  <2>4. CASE g = x
    <3>1. cs[i].gsp <= cs[top].gsp /\ cs[i].gsp \in Nat /\ cs[top].gsp \in Nat
      BY <1>1, <1>3
    <3>2. ~(g <= cs[i].gsp)
      BY <2>4, <3>1, SMT
    <3> QED BY <1>4, <1>6, <2>2, <2>3, <2>4, <3>2
  <2>5. CASE g # x
    BY <2>1, <2>3, <2>5 DEF RunSel, EntryOrder
  <2> QED BY <2>4, <2>5
<1> QED BY <1>9, <1>10, <1>11, <1>12, <1>13 DEF RunSel

\* A trapped error starts the unwinding.
LEMMA RaisedSel ==
  ASSUME NEW s, NEW c, NEW gs \in Seq(Gosub), NEW ns \in Seq(Frame),
         NEW cs, RunSel(c, s, gs, ns, cs)
  PROVE  TrapSel(c, s, gs, ns)
<1>1. ns # <<>> => 1 \in 1..Len(ns)
  <2>1. Len(ns) \in Nat /\ (ns # <<>> => Len(ns) # 0)
    BY LenProperties, EmptySeq
  <2> QED BY <2>1, SMT
<1> QED BY <1>1 DEF RunSel, TrapSel, Kept

\* The values of a frame survive the unwinding to t from a state that lies above
\* or below it, and those of t itself survive.
LEMMA UnwoundKept ==
  ASSUME NEW s \in Slots, NEW c \in Frame, NEW t \in Frame, NEW f \in Frame,
         Kept(f, s), Under(f, c) \/ Under(c, f) \/ f = t
  PROVE  /\ SelFreed(s, c, t.sel_sp) \in Slots
         /\ Kept(f, SelFreed(s, c, t.sel_sp))
<1>1. t.sel_sp \in 0..MaxSel
  BY FrameNat
<1>2. SelFreed(s, c, t.sel_sp) \in Slots
  BY <1>1, SelType DEF Slots
<1>3. \A i \in 1..MaxSel : i <= t.sel_sp \/ i <= c.sel_base \/ i > c.sel_sp
        => SelFreed(s, c, t.sel_sp)[i] = s[i]
  BY <1>1, SlotsLeft
<1>4. \A i \in 1..MaxSel : f.sel_base < i /\ i <= f.sel_sp =>
        SelFreed(s, c, t.sel_sp)[i] = s[i]
  <2> SUFFICES ASSUME NEW i \in 1..MaxSel, f.sel_base < i, i <= f.sel_sp
               PROVE  i <= t.sel_sp \/ i <= c.sel_base \/ i > c.sel_sp
    BY <1>3
  <2> QED BY FrameNat, SMT DEF Under
<1> QED BY <1>2, <1>4, KeptSame

\* The newest gosub frame is unwound ...
LEMMA UnwindGosubSel ==
  ASSUME NEW s \in Slots, NEW c \in Frame, NEW c2 \in Frame,
         NEW gs \in Seq(Gosub), NEW gs2 \in Seq(Gosub), NEW ns \in Seq(Frame),
         TrapSel(c, s, gs, ns), NEW t, t = gs[Len(gs)].ctl, gs # <<>>,
         Len(gs2) = Len(gs) - 1, \A g \in 1..Len(gs2) : gs2[g] = gs[g],
         c2.sel_sp = t.sel_sp, c2.sel_base = t.sel_base
  PROVE  TrapSel(c2, SelFreed(s, c, t.sel_sp), gs2, ns)
<1> DEFINE s2 == SelFreed(s, c, t.sel_sp)
<1>1. /\ Len(gs) \in Nat /\ Len(gs) # 0 /\ Len(ns) \in Nat
      /\ \A g \in 1..Len(gs) : gs[g].ctl \in Frame
      /\ \A j \in 1..Len(ns) : ns[j] \in Frame
      /\ (ns # <<>> => Len(ns) # 0)
  BY LenProperties, EmptySeq, ElementOfSeq, FrameNat
<1>2. /\ Len(gs) \in 1..Len(gs) /\ (ns # <<>> => 1 \in 1..Len(ns))
      /\ \A g \in 1..Len(gs2) : g \in 1..Len(gs) /\ g < Len(gs)
  BY <1>1, SMT
<1>3. t \in Frame /\ Kept(t, s) /\ Under(t, c)
  BY <1>1, <1>2 DEF TrapSel
<1>4. \A f \in Frame : Kept(f, s) /\ (Under(f, c) \/ Under(c, f)) => Kept(f, s2)
  BY <1>3, UnwoundKept
<1>5. \A f \in Frame : /\ Under(f, t) <=> Under(f, c2)
                       /\ Under(t, f) <=> Under(c2, f)
  BY DEF Under
<1>6. Kept(c2, s2)
  <2>1. Kept(t, s2)
    BY <1>3, <1>4
  <2> QED BY <2>1 DEF Kept
<1> HIDE DEF s2
<1>7. \A g \in 1..Len(gs2) : Kept(gs2[g].ctl, s2) /\ Under(gs2[g].ctl, c2)
  BY <1>1, <1>2, <1>4, <1>5 DEF TrapSel, SavedOrder
<1>8. SavedOrder(gs2, ns)
  BY <1>2 DEF TrapSel, SavedOrder
<1>9. ns # <<>> => Kept(ns[1], s2) /\ (Under(ns[1], c2) \/ Under(c2, ns[1]))
  <2> SUFFICES ASSUME ns # <<>>
               PROVE  Kept(ns[1], s2) /\ (Under(ns[1], c2) \/ Under(c2, ns[1]))
    OBVIOUS
  <2>1. ns[1] \in Frame /\ 1 \in 1..Len(ns)
    BY <1>1, <1>2
  <2>2. Kept(ns[1], s2)
    BY <1>4, <2>1 DEF TrapSel
  <2>3. Under(ns[1], t) \/ Under(t, ns[1])
    BY <1>2, <2>1 DEF TrapSel, SavedOrder
  <2> QED BY <1>5, <2>1, <2>2, <2>3
<1>10. c2.sel_base <= c2.sel_sp /\ \A j \in 1..Len(ns) : ns[j].sel_base <= ns[j].sel_sp
  BY <1>6 DEF Kept, TrapSel
<1>11. TrapSel(c2, s2, gs2, ns)
  BY <1>6, <1>7, <1>8, <1>9, <1>10 DEF TrapSel
<1> QED BY <1>11 DEF s2

\* ... and when there are none, the newest snapshot.
LEMMA UnwindNestedSel ==
  ASSUME NEW s \in Slots, NEW c \in Frame, NEW c2 \in Frame,
         NEW ns \in Seq(Frame), NEW ns2 \in Seq(Frame),
         TrapSel(c, s, <<>>, ns), NEW t, t = ns[Len(ns)], ns # <<>>,
         Len(ns2) = Len(ns) - 1, \A j \in 1..Len(ns2) : ns2[j] = ns[j],
         c2.sel_sp = t.sel_sp, c2.sel_base = t.sel_base
  PROVE  TrapSel(c2, SelFreed(s, c, t.sel_sp), <<>>, ns2)
<1> DEFINE s2 == SelFreed(s, c, t.sel_sp)
<1>1. /\ Len(ns) \in Nat /\ Len(ns) # 0 /\ Len(ns2) \in Nat
      /\ \A j \in 1..Len(ns) : ns[j] \in Frame
      /\ (ns2 # <<>> <=> Len(ns2) # 0)
      /\ 1..Len(<<>>) = {}
  <2>1. 1..Len(<<>>) = {}
    BY SMT
  <2> QED BY <2>1, LenProperties, EmptySeq, ElementOfSeq
<1>2. /\ Len(ns) \in 1..Len(ns) /\ 1 \in 1..Len(ns)
      /\ \A j \in 1..Len(ns2) : j \in 1..Len(ns) /\ j < Len(ns)
      /\ (ns2 = <<>> => Len(ns) = 1)
      /\ (ns2 # <<>> => 1 \in 1..Len(ns2))
  BY <1>1, SMT
<1>3. t \in Frame /\ t.sel_base <= t.sel_sp
  BY <1>1, <1>2 DEF TrapSel
<1>4. ns[1] \in Frame /\ Kept(ns[1], s2)
  <2>1. Kept(ns[1], s) /\ (Under(ns[1], c) \/ Under(c, ns[1]))
    BY DEF TrapSel
  <2> QED BY <1>1, <1>2, <1>3, <2>1, UnwoundKept
<1> HIDE DEF s2
<1>5. SavedOrder(<<>>, ns2)
  BY <1>1, <1>2 DEF TrapSel, SavedOrder
<1>6. CASE ns2 = <<>>
  <2>1. Kept(c2, s2)
    BY <1>2, <1>4, <1>6 DEF Kept
  <2> QED BY <1>1, <1>3, <1>5, <1>6, <2>1 DEF TrapSel, s2
<1>7. CASE ns2 # <<>>
  <2>1. ns2[1] = ns[1] /\ 1 \in 1..Len(ns) /\ 1 < Len(ns)
    BY <1>2, <1>7
  <2>2. Under(ns[1], t)
    BY <1>2, <2>1 DEF TrapSel, SavedOrder
  <2>3. Under(ns2[1], c2)
    BY <2>1, <2>2 DEF Under
  <2>4. \A j \in 1..Len(ns2) : ns2[j].sel_base <= ns2[j].sel_sp
    BY <1>2 DEF TrapSel
  <2> QED BY <1>1, <1>3, <1>4, <1>5, <1>7, <2>1, <2>3, <2>4 DEF TrapSel, s2
<1> QED BY <1>6, <1>7
-----------------------------------------------------------------------------
(* The steps of a program that runs.                                         *)

\* The types of what the running program keeps.
LEMMA LiveTypes ==
  ASSUME TypeOK
  PROVE  /\ ctl \in Frame /\ selstack \in Slots
         /\ gosub \in Seq(Gosub) /\ nested \in Seq(Frame) /\ cstack \in Seq(CFrame)
         /\ Len(gosub) \in Nat /\ Len(nested) \in Nat /\ Len(cstack) \in Nat
BY LenProperties DEF TypeOK, Slots

\* The slots of the callers' SELECTs are not touched.
BaseStays == /\ ctl'.sel_base = ctl.sel_base
             /\ \A i \in 1..MaxSel : i <= ctl.sel_base => selstack'[i] = selstack[i]

\* A statement that leaves all saved frames alone.
LEMMA BlockSel ==
  ASSUME TypeOK, TypeOK', RunSel(ctl, selstack, gosub, nested, cstack),
         UNCHANGED <<gosub, nested>>, Len(cstack') = Len(cstack),
         \A i \in 1..Len(cstack) :
           /\ cstack'[i].kind = cstack[i].kind /\ cstack'[i].gsp = cstack[i].gsp
           /\ cstack'[i].depth = cstack[i].depth,
         ctl'.sel_base = ctl.sel_base, Kept(ctl', selstack'),
         \A i \in 1..MaxSel : i <= ctl.sel_base => selstack'[i] = selstack[i]
  PROVE  RunSel(ctl, selstack, gosub, nested, cstack)' /\ BaseStays
<1>1. /\ ctl \in Frame /\ selstack \in Slots
      /\ gosub \in Seq(Gosub) /\ nested \in Seq(Frame) /\ cstack \in Seq(CFrame)
      /\ ctl' \in Frame /\ selstack' \in Slots /\ cstack' \in Seq(CFrame)
      /\ Len(gosub) <= Len(gosub) /\ Len(nested) <= Len(nested)
      /\ Len(cstack') <= Len(cstack)
  BY LiveTypes, SMT DEF TypeOK, Slots
<1>2. \A i \in 1..Len(cstack) : cstack[i].depth <= Len(nested)
  BY DEF RunSel, DepthOrder
<1>3. /\ \A g \in 1..Len(gosub) : Under(gosub[g].ctl, ctl')
      /\ \A j \in 1..Len(nested) : Under(nested[j], ctl')
  BY DEF RunSel, Under
<1>4. RunSel(ctl', selstack', gosub, nested, cstack')
  BY <1>1, <1>2, <1>3, StaySel
<1> QED BY <1>4 DEF BaseStays

\* A truncation within the running activation.
LEMMA CutSel ==
  ASSUME TypeOK, TypeOK', RunSel(ctl, selstack, gosub, nested, cstack),
         NEW depth \in 0..MaxSel,
         UNCHANGED <<gosub, nested, cstack>>,
         ctl'.sel_base = ctl.sel_base, ctl'.sel_sp = SelAfter(ctl, depth),
         selstack' = SelFreed(selstack, ctl, depth)
  PROVE  RunSel(ctl, selstack, gosub, nested, cstack)' /\ BaseStays
<1>1. ctl \in Frame /\ selstack \in Slots /\ ctl' \in Frame /\ selstack' \in Slots
  BY LiveTypes DEF TypeOK, Slots
<1>2. Kept(ctl, selstack)
  BY DEF RunSel
<1>3. /\ ctl.sel_base <= SelAfter(ctl, depth) /\ SelAfter(ctl, depth) <= ctl.sel_sp
      /\ \A i \in 1..MaxSel : i <= ctl.sel_base \/ i <= SelAfter(ctl, depth) =>
           selstack'[i] = selstack[i]
  BY <1>1, <1>2, SlotsLeft DEF Kept
<1>4. Kept(ctl', selstack)
  <2>1. /\ ctl.sel_sp \in Nat /\ ctl.sel_base \in Nat /\ ctl'.sel_sp \in Nat
    BY <1>1, FrameNat
  <2>2. ctl'.sel_base + 1..ctl'.sel_sp \subseteq ctl.sel_base + 1..ctl.sel_sp
    BY <1>3, <2>1, SMT
  <2> QED BY <1>2, <1>3, <2>2 DEF Kept
<1>5. Kept(ctl', selstack')
  BY <1>1, <1>3, <1>4, KeptSame
<1> QED BY <1>3, <1>5, BlockSel

\* Every statement about blocks.
LEMMA StructureSel ==
  ASSUME TypeOK, RunSel(ctl, selstack, gosub, nested, cstack),
         \/ OpenIf \/ EndIf \/ InlineIf \/ OpenSelect \/ EndSelect
         \/ LoopBack \/ LeaveLoop
         \/ \E line \in Lines, enter \in BOOLEAN : Do(line, enter)
  PROVE  RunSel(ctl, selstack, gosub, nested, cstack)' /\ BaseStays
<1>1. /\ TypeOK' /\ UNCHANGED <<gosub, nested, cstack>>
  BY StructureType
<1>2. /\ ctl \in Frame /\ selstack \in Slots /\ ctl' \in Frame /\ selstack' \in Slots
      /\ ctl.sel_sp \in 0..MaxSel /\ ctl.sel_base \in 0..MaxSel
      /\ ctl.sel_sp \in Nat /\ ctl.sel_base \in Nat
      /\ ctl.ctrl_sp \in 0..MaxCtrl
  <2>1. ctl \in Frame /\ selstack \in Slots /\ ctl' \in Frame /\ selstack' \in Slots
    BY <1>1, LiveTypes DEF TypeOK, Slots
  <2>2. ctl.ctrl_sp \in 0..MaxCtrl
    BY <2>1, SMT DEF Frame
  <2> QED BY <2>1, <2>2, FrameNat
<1>3. Kept(ctl, selstack)
  BY DEF RunSel
<1>4. CASE OpenIf \/ EndIf \/ InlineIf
  <2>1. ctl'.sel_sp = ctl.sel_sp /\ ctl'.sel_base = ctl.sel_base
        /\ selstack' = selstack
    BY <1>2, <1>4, SMT DEF OpenIf, EndIf, InlineIf, Frame
  <2>2. Kept(ctl', selstack')
    BY <1>3, <2>1 DEF Kept
  <2> QED BY <1>1, <2>1, <2>2, BlockSel
<1>5. CASE OpenSelect
  <2>1. /\ ctl'.sel_sp = ctl.sel_sp + 1 /\ ctl'.sel_base = ctl.sel_base
        /\ ctl.sel_sp < MaxSel
        /\ selstack' = [selstack EXCEPT ![ctl.sel_sp + 1] = "held"]
    BY <1>2, <1>5, SMT DEF OpenSelect, Frame
  <2>2. \A i \in 1..MaxSel :
          selstack'[i] = IF i = ctl.sel_sp + 1 THEN "held" ELSE selstack[i]
    BY <1>2, <2>1 DEF Slots
  <2>3. ctl.sel_base <= ctl.sel_sp
    BY <1>3 DEF Kept
  <2>4. Kept(ctl', selstack')
    <3>1. ctl'.sel_base <= ctl'.sel_sp
      BY <1>2, <2>1, <2>3, SMT
    <3>2. ASSUME NEW i \in ctl'.sel_base + 1..ctl'.sel_sp PROVE selstack'[i] = "held"
      <4>1. i \in 1..MaxSel
            /\ (i = ctl.sel_sp + 1 \/ i \in ctl.sel_base + 1..ctl.sel_sp)
        BY <1>2, <2>1, LimitsAssumption, SMT
      <4> QED BY <1>3, <2>2, <4>1 DEF Kept
    <3> QED BY <3>1, <3>2 DEF Kept
  <2>5. \A i \in 1..MaxSel : i <= ctl.sel_base => selstack'[i] = selstack[i]
    <3>1. \A i \in 1..MaxSel : i <= ctl.sel_base => i # ctl.sel_sp + 1
      BY <1>2, <2>3, SMT
    <3> QED BY <2>2, <3>1
  <2> QED BY <1>1, <2>1, <2>4, <2>5, BlockSel
<1>6. CASE EndSelect
  <2>1. /\ ctl'.sel_sp = ctl.sel_sp - 1 /\ ctl'.sel_base = ctl.sel_base
        /\ ctl.sel_base < ctl.sel_sp
        /\ selstack' = [selstack EXCEPT ![ctl.sel_sp] = "free"]
    BY <1>2, <1>6, SMT DEF EndSelect, Frame
  <2>2. \A i \in 1..MaxSel : i # ctl.sel_sp => selstack'[i] = selstack[i]
    BY <1>2, <2>1 DEF Slots
  <2>3. Kept(ctl', selstack')
    <3>1. ctl'.sel_base <= ctl'.sel_sp
      BY <1>2, <2>1, SMT
    <3>2. ASSUME NEW i \in ctl'.sel_base + 1..ctl'.sel_sp PROVE selstack'[i] = "held"
      <4>1. i \in 1..MaxSel /\ i # ctl.sel_sp /\ i \in ctl.sel_base + 1..ctl.sel_sp
        BY <1>2, <2>1, LimitsAssumption, SMT
      <4> QED BY <1>3, <2>2, <4>1 DEF Kept
    <3> QED BY <3>1, <3>2 DEF Kept
  <2>4. \A i \in 1..MaxSel : i <= ctl.sel_base => selstack'[i] = selstack[i]
    <3>1. \A i \in 1..MaxSel : i <= ctl.sel_base => i # ctl.sel_sp
      BY <1>2, <2>1, SMT
    <3> QED BY <2>2, <3>1
  <2> QED BY <1>1, <2>1, <2>3, <2>4, BlockSel
<1>7. CASE LoopBack
  <2>1. ctl.ctrl_sp \in 1..MaxCtrl
    BY <1>2, <1>7, LimitsAssumption, SMT DEF LoopBack
  <2>2. ctrlstack[ctl.ctrl_sp].sel_depth \in 0..MaxSel
    BY <2>1, LoopFrameType
  <2>3. /\ ctl'.sel_base = ctl.sel_base
        /\ ctl'.sel_sp = SelAfter(ctl, ctrlstack[ctl.ctrl_sp].sel_depth)
        /\ selstack' = SelFreed(selstack, ctl, ctrlstack[ctl.ctrl_sp].sel_depth)
    BY <1>7 DEF LoopBack, LoopRestored
  <2> QED BY <1>1, <2>2, <2>3, CutSel
<1>8. CASE LeaveLoop
  <2>1. ctl.ctrl_sp \in 1..MaxCtrl /\ ctl.ctrl_sp \in 1..ctl.ctrl_sp
        /\ ctl.ctrl_sp..ctl.ctrl_sp = {ctl.ctrl_sp}
    BY <1>2, <1>8, LimitsAssumption, SMT DEF LeaveLoop
  <2>2. ctrlstack[ctl.ctrl_sp].sel_depth \in 0..MaxSel
    BY <2>1, LoopFrameType
  <2>3. LowestSel(ctl.ctrl_sp) = ctrlstack[ctl.ctrl_sp].sel_depth
    <3>1. {ctrlstack[k].sel_depth : k \in ctl.ctrl_sp..ctl.ctrl_sp}
            = {ctrlstack[ctl.ctrl_sp].sel_depth}
      BY <2>1
    <3>2. ctrlstack[ctl.ctrl_sp].sel_depth \in Nat
      BY <2>2, LimitsAssumption, SMT
    <3> QED BY <3>1, <3>2, LeastIn DEF LowestSel
  <2>4. /\ ctl'.sel_base = ctl.sel_base
        /\ ctl'.sel_sp = SelAfter(ctl, ctrlstack[ctl.ctrl_sp].sel_depth)
        /\ selstack' = SelFreed(selstack, ctl, ctrlstack[ctl.ctrl_sp].sel_depth)
    BY <1>8, <2>3 DEF LeaveLoop, PoppedTo, LoopRestored
  <2> QED BY <1>1, <2>2, <2>4, CutSel
<1>9. ASSUME NEW line \in Lines, NEW enter \in BOOLEAN, Do(line, enter)
      PROVE  RunSel(ctl, selstack, gosub, nested, cstack)' /\ BaseStays
  <2> DEFINE R == Reentered(line)  c == AfterReenter(line)
  <2>1. /\ ctl'.sel_sp = c.sel_sp /\ ctl'.sel_base = c.sel_base
        /\ selstack' = FreedByReenter(line)
    <3>1. c \in Frame
      <4>1. R # {} => Least(R) \in 1..ctl.ctrl_sp
        <5>1. R \in SUBSET (1..ctl.ctrl_sp) /\ 1..ctl.ctrl_sp \in SUBSET Nat
          BY <1>2, SMT DEF Reentered
        <5> QED BY <5>1, LeastIn
      <4> QED BY <1>2, <4>1, PoppedType DEF AfterReenter
    <3> HIDE DEF c
    <3>2. ctl' = c \/ ctl' = [c EXCEPT !.ctrl_sp = @ + 1]
      BY <1>9 DEF Do, c
    <3>3. selstack' = FreedByReenter(line)
      BY <1>9 DEF Do
    <3> QED BY <3>1, <3>2, <3>3, SMT DEF Frame
  <2>2. CASE R = {}
    <3>1. c = ctl /\ selstack' = selstack
      BY <2>1, <2>2 DEF AfterReenter, FreedByReenter
    <3>2. Kept(ctl', selstack')
      BY <1>3, <2>1, <3>1 DEF Kept
    <3> QED BY <1>1, <2>1, <3>1, <3>2, BlockSel
  <2>3. CASE R # {}
    <3>1. Least(R) \in 1..ctl.ctrl_sp
      <4>1. R \in SUBSET (1..ctl.ctrl_sp) /\ 1..ctl.ctrl_sp \in SUBSET Nat
        BY <1>2, SMT DEF Reentered
      <4> QED BY <2>3, <4>1, LeastIn
    <3>2. LowestSel(Least(R)) \in 0..MaxSel
      BY <3>1, PoppedType
    <3>3. /\ c.sel_base = ctl.sel_base
          /\ c.sel_sp = SelAfter(ctl, LowestSel(Least(R)))
      BY <2>3 DEF AfterReenter, PoppedTo, LoopRestored
    <3>4. selstack' = SelFreed(selstack, ctl, LowestSel(Least(R)))
      BY <2>1, <2>3 DEF FreedByReenter
    <3> QED BY <1>1, <2>1, <3>2, <3>3, <3>4, CutSel
  <2> QED BY <2>2, <2>3
<1> QED BY <1>4, <1>5, <1>6, <1>7, <1>8, <1>9

\* What the two restores put back.
LEMMA RestoredSel ==
  ASSUME NEW c \in Frame
  PROVE  /\ \A f \in Frame : /\ Restored(c, f).sel_sp = f.sel_sp
                             /\ Restored(c, f).sel_base = f.sel_base
         /\ \A g \in Gosub : /\ Returned(c, g).sel_sp = g.ctl.sel_sp
                             /\ Returned(c, g).sel_base = g.ctl.sel_base
<1>1. \A f \in Frame : /\ Restored(c, f) \in Frame
                       /\ Restored(c, f).sel_sp = f.sel_sp
                       /\ Restored(c, f).sel_base = f.sel_base
  <2> TAKE f \in Frame
  <2>1. Restored(c, f) \in Frame
    BY FrameOps
  <2> QED BY <2>1, SMT DEF Restored, Frame
<1>2. ASSUME NEW g \in Gosub
      PROVE  /\ Returned(c, g).sel_sp = g.ctl.sel_sp
             /\ Returned(c, g).sel_base = g.ctl.sel_base
  <2>1. Restored(c, g.ctl) \in Frame
    BY <1>1, FrameNat
  <2>2. /\ Returned(c, g).sel_sp = Restored(c, g.ctl).sel_sp
        /\ Returned(c, g).sel_base = Restored(c, g.ctl).sel_base
    BY <2>1, SMT DEF Returned, Frame
  <2> QED BY <1>1, <2>2, FrameNat
<1> QED BY <1>1, <1>2

\* A return to a line loop that is still there.
LEMMA LandSel ==
  ASSUME TypeOK, TypeOK', RunSel(ctl, selstack, gosub, nested, cstack), gosub # <<>>,
         Len(gosub') = Len(gosub) - 1,
         \A g \in 1..Len(gosub') : gosub'[g] = gosub[g],
         Len(nested') <= Len(nested),
         \A j \in 1..Len(nested') : nested'[j] = nested[j],
         Len(cstack') <= Len(cstack),
         \A i \in 1..Len(cstack') : cstack'[i] = cstack[i],
         \A i \in 1..Len(cstack') : cstack[i].depth <= Len(nested'),
         \A j \in 1..Len(nested') : Under(nested[j], Top(gosub).ctl),
         ctl'.sel_sp = Top(gosub).ctl.sel_sp,
         ctl'.sel_base = Top(gosub).ctl.sel_base,
         selstack' = SelFreed(selstack, ctl, Top(gosub).ctl.sel_sp)
  PROVE  RunSel(ctl, selstack, gosub, nested, cstack)'
<1> DEFINE t == Top(gosub).ctl
<1>1. /\ ctl \in Frame /\ selstack \in Slots
      /\ gosub \in Seq(Gosub) /\ nested \in Seq(Frame) /\ cstack \in Seq(CFrame)
      /\ ctl' \in Frame /\ selstack' \in Slots /\ gosub' \in Seq(Gosub)
      /\ nested' \in Seq(Frame) /\ cstack' \in Seq(CFrame)
  BY LiveTypes DEF TypeOK, Slots
<1>2. /\ Len(gosub) \in 1..Len(gosub) /\ Len(gosub) \in Nat
      /\ Top(gosub) = gosub[Len(gosub)] /\ t \in Frame
  <2>1. Len(gosub) \in 1..MaxGosub /\ t \in Frame
    BY TopTypes
  <2> QED BY <2>1, TopTypes, LimitsAssumption, SMT DEF Top
<1>3. /\ \A g \in 1..Len(gosub') : g \in 1..Len(gosub) /\ g < Len(gosub)
      /\ Len(gosub') <= Len(gosub)
  BY <1>2, SMT
<1>4. Kept(t, selstack) /\ Under(t, ctl)
  BY <1>2 DEF RunSel
<1>5. \A g \in 1..Len(gosub') : Under(gosub[g].ctl, t)
  BY <1>2, <1>3 DEF RunSel, SavedOrder
<1>6. Kept(t, selstack')
  BY <1>1, <1>2, <1>4, UnwoundKept
<1>7. Kept(ctl', selstack')
  BY <1>6 DEF Kept
<1>8. \A i \in 1..MaxSel : i <= ctl'.sel_base => selstack'[i] = selstack[i]
  <2>1. t.sel_sp \in 0..MaxSel /\ t.sel_sp \in Nat /\ t.sel_base \in Nat
    BY <1>2, FrameNat
  <2>2. \A i \in 1..MaxSel : i <= t.sel_sp => selstack'[i] = selstack[i]
    BY <1>1, <2>1, SlotsLeft
  <2>3. t.sel_base <= t.sel_sp
    BY <1>4 DEF Kept
  <2>4. \A i \in 1..MaxSel : i <= t.sel_base => i <= t.sel_sp
    BY <2>1, <2>3, SMT
  <2> QED BY <2>2, <2>4
<1>9. /\ \A g \in 1..Len(gosub') : Under(gosub[g].ctl, ctl')
      /\ \A j \in 1..Len(nested') : Under(nested[j], ctl')
  BY <1>5 DEF Under
<1>10. \A i \in 1..Len(cstack') :
         /\ cstack'[i].kind = cstack[i].kind /\ cstack'[i].gsp = cstack[i].gsp
         /\ cstack'[i].depth = cstack[i].depth
         /\ cstack[i].depth <= Len(nested')
  OBVIOUS
<1> HIDE DEF t
<1>11. Len(gosub') <= Len(gosub)
  BY <1>3
<1>12. RunSel(ctl', selstack', gosub', nested', cstack')
  BY <1>1, <1>7, <1>8, <1>9, <1>10, <1>11, StaySel, ZenonT(60)
<1> QED BY <1>12

\* What is below a number is at most its predecessor.
LEMMA BelowPredecessor ==
  ASSUME NEW a \in Nat, NEW b \in Nat, a < b, NEW n, n = b - 1
  PROVE  a <= n
BY SMT

\* A return to the C caller of k, whose snapshot is popped.
LEMMA NestedLandSel ==
  ASSUME TypeOK, TypeOK', RunSel(ctl, selstack, gosub, nested, cstack),
         NEW k \in 1..Len(cstack), cstack[k].kind # "island_sub",
         Len(gosub') <= Len(gosub), Len(gosub') <= cstack[k].gsp,
         \A g \in 1..Len(gosub') : gosub'[g] = gosub[g],
         Len(nested') = cstack[k].depth - 1,
         \A j \in 1..Len(nested') : nested'[j] = nested[j],
         Len(cstack') = k - 1, \A i \in 1..k - 1 : cstack'[i] = cstack[i],
         NEW f, f = nested[cstack[k].depth],
         ctl'.sel_sp = f.sel_sp, ctl'.sel_base = f.sel_base,
         NEW c \in Frame, NEW t \in Frame,
         \/ selstack' = selstack
         \/ selstack' = SelFreed(SelFreed(selstack, ctl, t.sel_sp), c, f.sel_sp)
  PROVE  RunSel(ctl, selstack, gosub, nested, cstack)'
<1> DEFINE s1 == SelFreed(selstack, ctl, t.sel_sp)
<1>1. /\ ctl \in Frame /\ selstack \in Slots
      /\ gosub \in Seq(Gosub) /\ nested \in Seq(Frame) /\ cstack \in Seq(CFrame)
      /\ ctl' \in Frame /\ selstack' \in Slots /\ gosub' \in Seq(Gosub)
      /\ nested' \in Seq(Frame) /\ cstack' \in Seq(CFrame)
      /\ Len(gosub) \in Nat /\ Len(nested) \in Nat /\ Len(cstack) \in Nat
      /\ Len(gosub') \in Nat /\ Len(nested') \in Nat
  BY LiveTypes, LenProperties DEF TypeOK, Slots
<1>2. /\ cstack[k].depth \in Nat /\ cstack[k].depth > 0
      /\ cstack[k].depth <= Len(nested) /\ cstack[k].gsp \in Nat
      /\ \A i \in 1..Len(cstack) : cstack[i].depth \in Nat
      /\ \A i \in 1..Len(cstack) : i < k => cstack[i].depth < cstack[k].depth
  BY <1>1, SelTypes DEF RunSel, DepthOrder
<1>3. /\ cstack[k].depth \in 1..Len(nested) /\ Len(nested') <= Len(nested)
      /\ \A j \in 1..Len(nested') : j \in 1..Len(nested) /\ j < cstack[k].depth
      /\ \A i \in 1..k - 1 : i \in 1..Len(cstack) /\ i < k
      /\ Len(cstack') <= Len(cstack)
      /\ \A g \in 1..Len(gosub') : g \in 1..Len(gosub) /\ g <= cstack[k].gsp
  BY <1>1, <1>2, SMTT(30)
<1>4. \A i \in 1..Len(cstack') : cstack[i].depth <= Len(nested')
  <2> SUFFICES ASSUME NEW i \in 1..k - 1 PROVE cstack[i].depth <= Len(nested')
    OBVIOUS
  <2>1. cstack[i].depth < cstack[k].depth /\ cstack[i].depth \in Nat
    BY <1>2, <1>3
  <2>2. Len(nested') = cstack[k].depth - 1
    OBVIOUS
  <2> HIDE DEF s1
  <2> QED BY <1>1, <1>2, <2>1, <2>2, BelowPredecessor
<1>5. f \in Frame /\ Kept(f, selstack) /\ Under(f, ctl)
  BY <1>1, <1>3, ElementOfSeq DEF RunSel
<1>6. /\ \A g \in 1..Len(gosub') : Under(gosub[g].ctl, f)
      /\ \A j \in 1..Len(nested') : Under(nested[j], f)
  BY <1>3 DEF RunSel, EntryOrder, SavedOrder
<1>7. \A i \in 1..MaxSel : i <= f.sel_sp => selstack'[i] = selstack[i]
  <2>1. /\ t.sel_sp \in 0..MaxSel /\ f.sel_sp \in 0..MaxSel /\ f.sel_sp \in Nat
        /\ ctl.sel_base \in Nat
    BY <1>1, <1>5, FrameNat
  <2>2. s1 \in Slots /\ \A i \in 1..MaxSel : i <= ctl.sel_base => s1[i] = selstack[i]
    <3>1. s1 \in Slots
      BY <1>1, <2>1, SelType DEF Slots
    <3>2. \A i \in 1..MaxSel : i <= ctl.sel_base => s1[i] = selstack[i]
      BY <1>1, <2>1, SlotsLeft
    <3> QED BY <3>1, <3>2
  <2>3. \A i \in 1..MaxSel : i <= f.sel_sp => SelFreed(s1, c, f.sel_sp)[i] = s1[i]
    BY <2>1, <2>2, SlotsLeft
  <2>4. \A i \in 1..MaxSel : i <= f.sel_sp => i <= ctl.sel_base
    BY <1>5, <2>1, SMT DEF Under
  <2> QED BY <2>2, <2>3, <2>4
<1>8. Kept(f, selstack')
  BY <1>1, <1>5, <1>7, KeptSame
<1>9. Kept(ctl', selstack')
  BY <1>8 DEF Kept
<1>10. \A i \in 1..MaxSel : i <= ctl'.sel_base => selstack'[i] = selstack[i]
  <2>1. f.sel_sp \in Nat /\ f.sel_base \in Nat /\ f.sel_base <= f.sel_sp
    BY <1>5, FrameNat DEF Kept
  <2>2. \A i \in 1..MaxSel : i <= f.sel_base => i <= f.sel_sp
    BY <2>1, SMT
  <2> QED BY <1>7, <2>2
<1>11. /\ \A g \in 1..Len(gosub') : Under(gosub[g].ctl, ctl')
       /\ \A j \in 1..Len(nested') : Under(nested[j], ctl')
  BY <1>6 DEF Under
<1>12. RunSel(ctl', selstack', gosub', nested', cstack')
  BY <1>1, <1>3, <1>4, <1>9, <1>10, <1>11, StaySel
<1> QED BY <1>12

\* A return ends the line loop of k.
LEMMA LoopEndsSel ==
  ASSUME TypeOK, TypeOK', Inv, RunSel(ctl, selstack, gosub, nested, cstack),
         status = "run", gosub # <<>>, Top(gosub).ret = "nested",
         NEW k \in 1..Len(cstack), Bound(cstack[k]),
         \A i \in k + 1..Len(cstack) : cstack[i].kind = "execute",
         NEW ns \in Seq(Frame), Len(ns) = cstack[k].depth,
         \A j \in 1..Len(ns) : ns[j] = nested[j],
         LoopEnds(k, Returned(ctl, Top(gosub)),
                  SelFreed(selstack, ctl, Top(gosub).ctl.sel_sp), Pop(gosub), ns)
  PROVE  RunSel(ctl, selstack, gosub, nested, cstack)'
<1> DEFINE t == Top(gosub).ctl
           c == Returned(ctl, Top(gosub))
           s == SelFreed(selstack, ctl, t.sel_sp)
<1>1. /\ Len(gosub) \in Nat /\ Len(gosub) \in 1..Len(gosub)
      /\ Len(cstack) \in Nat /\ Len(nested) \in Nat /\ cstack \in Seq(CFrame)
      /\ Pop(gosub) \in Seq(Gosub) /\ Len(Pop(gosub)) = Len(gosub) - 1
      /\ \A g \in 1..Len(gosub) - 1 : Pop(gosub)[g] = gosub[g]
      /\ Top(gosub) \in Gosub /\ t \in Frame /\ c \in Frame /\ ctl \in Frame
      /\ cstack[k] \in CFrame
  <2>1. Len(gosub) \in 1..MaxGosub
    BY TopTypes
  <2> QED BY <2>1, TopTypes, LiveTypes, LimitsAssumption, SMT
<1>2. c.sel_sp = t.sel_sp /\ c.sel_base = t.sel_base
  BY <1>1, RestoredSel
<1>3. Len(gosub) = cstack[k].gsp + 1 /\ cstack[k].gsp \in Nat
  BY <1>1, TopOwner, DepthNat
<1>4. /\ cstack[k].depth <= Len(nested) /\ cstack[k].depth \in Nat
      /\ \A i \in 1..Len(cstack) : i < k => cstack[i].depth <= cstack[k].depth
      /\ cstack[k].kind # "island_sub" => cstack[k].depth > 0
  <2>1. \A i \in 1..Len(cstack) : cstack[i].depth \in Nat
    BY TopTypes, DepthNat
  <2>2. \A m, n \in Nat : m < n => m <= n
    BY SMT
  <2> QED BY <2>1, <2>2 DEF RunSel, DepthOrder
<1>5. /\ Len(cstack') = k - 1 /\ \A i \in 1..k - 1 : cstack'[i] = cstack[i]
      /\ k - 1 <= Len(cstack) /\ \A i \in 1..k - 1 : i \in 1..Len(cstack) /\ i < k
  <2>1. k - 1 \in 0..Len(cstack)
    BY <1>1, SMT
  <2>2. Len(cstack') = k - 1 /\ \A i \in 1..k - 1 : cstack'[i] = cstack[i]
    BY <1>1, <2>1, CutType DEF LoopEnds
  <2>3. k - 1 <= Len(cstack) /\ \A i \in 1..k - 1 : i \in 1..Len(cstack) /\ i < k
    BY <1>1, SMT
  <2> QED BY <2>2, <2>3
<1>6. gosub' = Pop(gosub) \/ gosub' = SubSeq(Pop(gosub), 1, cstack[k].gsp)
  BY DEF LoopEnds
<1>7. /\ Len(gosub') = cstack[k].gsp
      /\ \A g \in 1..Len(gosub') : gosub'[g] = gosub[g]
      /\ Len(gosub') <= Len(gosub)
  <2>1. /\ cstack[k].gsp \in 0..Len(Pop(gosub)) /\ Len(Pop(gosub)) = cstack[k].gsp
        /\ cstack[k].gsp <= Len(gosub) /\ cstack[k].gsp = Len(gosub) - 1
        /\ cstack[k].gsp <= cstack[k].gsp
    BY <1>1, <1>3, SMT
  <2>2. CASE gosub' = Pop(gosub)
    BY <1>1, <2>1, <2>2
  <2>3. CASE gosub' = SubSeq(Pop(gosub), 1, cstack[k].gsp)
    <3>1. /\ Len(gosub') = cstack[k].gsp
          /\ \A g \in 1..cstack[k].gsp : gosub'[g] = Pop(gosub)[g]
      BY <1>1, <2>1, <2>3, CutType
    <3> QED BY <1>1, <2>1, <3>1
  <2> QED BY <1>6, <2>2, <2>3
<1>8. CASE cstack[k].kind = "island_sub"
  <2>1. gosub' = Pop(gosub) /\ ctl' = c /\ selstack' = s /\ nested' = ns
    BY <1>8 DEF LoopEnds
  <2>2. \A j \in 1..Len(nested') : Under(nested[j], t)
    <3>1. ~(Len(gosub) <= cstack[k].gsp)
      BY <1>3, SMT
    <3> QED BY <1>1, <2>1, <3>1 DEF RunSel, EntryOrder, Top
  <2>3. Len(gosub') = Len(gosub) - 1
    BY <1>1, <2>1
  <2>4. /\ Len(nested') <= Len(nested)
        /\ \A j \in 1..Len(nested') : nested'[j] = nested[j]
        /\ \A i \in 1..Len(cstack') : cstack[i].depth <= Len(nested')
    BY <1>4, <1>5, <2>1
  <2> QED BY <1>2, <1>5, <1>7, <2>1, <2>2, <2>3, <2>4, LandSel
<1>9. CASE cstack[k].kind # "island_sub"
  <2>1. /\ ns # <<>> /\ ctl' = Restored(c, Top(ns)) /\ nested' = Pop(ns)
        /\ selstack' = SelFreed(s, c, Top(ns).sel_sp)
    BY <1>9 DEF LoopEnds
  <2>2. /\ Len(nested') = cstack[k].depth - 1
        /\ \A j \in 1..Len(ns) - 1 : nested'[j] = ns[j]
        /\ Top(ns) \in Frame
    BY <2>1, PopType
  <2>3. /\ \A j \in 1..Len(nested') : nested'[j] = nested[j]
        /\ Top(ns) = nested[cstack[k].depth]
    <3>1. /\ \A j \in 1..cstack[k].depth - 1 : j \in 1..cstack[k].depth
          /\ cstack[k].depth \in 1..cstack[k].depth
      BY <1>4, <1>9, SMT
    <3> QED BY <2>2, <3>1 DEF Top
  <2>4. /\ ctl'.sel_sp = Top(ns).sel_sp /\ ctl'.sel_base = Top(ns).sel_base
    BY <1>1, <2>1, <2>2, RestoredSel
  <2>5. Len(gosub') <= cstack[k].gsp
    BY <1>3, <1>7, SMT
  <2> HIDE DEF c, t
  <2> QED BY <1>1, <1>5, <1>7, <1>9, <2>1, <2>2, <2>3, <2>4, <2>5, NestedLandSel
<1> QED BY <1>8, <1>9

\* The return frame on top of the line loop of k lies above all the snapshots
\* that k runs on.
LEMMA NewestAbove ==
  ASSUME TypeOK, Inv, RunSel(ctl, selstack, gosub, nested, cstack), gosub # <<>>,
         NEW k \in 0..Len(cstack), k > 0 => Bound(cstack[k])
  PROVE  \A j \in 1..DepthAt(k) : Under(nested[j], Top(gosub).ctl)
<1>1. Len(cstack) \in Nat /\ Len(gosub) \in 1..Len(gosub) /\ Len(gosub) \in Nat
  <2>1. Len(gosub) \in 1..MaxGosub /\ Len(cstack) \in Nat
    BY TopTypes
  <2> QED BY <2>1, LimitsAssumption, SMT
<1>2. CASE k = 0
  <2>1. 1..0 = {}
    BY SMT
  <2> QED BY <1>2, <2>1 DEF DepthAt
<1>3. CASE k # 0
  <2>1. k \in 1..Len(cstack) /\ k > 0
    BY <1>1, <1>3, SMT
  <2>2. cstack[k].gsp \in Nat /\ cstack[k].gsp + 1 <= Len(gosub)
    BY <2>1, OwnedBelow DEF Inv
  <2>3. ~(Len(gosub) <= cstack[k].gsp)
    BY <1>1, <2>2, SMT
  <2> QED BY <1>1, <1>3, <2>1, <2>3 DEF RunSel, EntryOrder, Top, DepthAt
<1> QED BY <1>2, <1>3

LEMMA ReturnInLoopSel ==
  ASSUME TypeOK, TypeOK', Inv, RunSel(ctl, selstack, gosub, nested, cstack),
         status = "run", ReturnInLoop
  PROVE  RunSel(ctl, selstack, gosub, nested, cstack)'
<1>1. /\ AtStatement /\ gosub # <<>> /\ ~InKind("execute") /\ gosub' = Pop(gosub)
      /\ ctl' = Returned(ctl, Top(gosub))
      /\ selstack' = SelFreed(selstack, ctl, Top(gosub).ctl.sel_sp)
      /\ UNCHANGED <<nested, cstack>>
  BY Zenon DEF ReturnInLoop, Executing
<1>2. /\ Len(gosub') = Len(gosub) - 1 /\ Len(nested) \in Nat
      /\ \A g \in 1..Len(gosub') : gosub'[g] = gosub[g]
      /\ Len(cstack) \in 0..Len(cstack) /\ Len(cstack) \in Nat
      /\ Top(gosub) \in Gosub /\ ctl \in Frame
  <2>1. /\ Len(gosub') = Len(gosub) - 1 /\ Top(gosub) \in Gosub /\ ctl \in Frame
        /\ \A g \in 1..Len(gosub') : gosub'[g] = gosub[g]
    BY <1>1, TopTypes, LiveTypes
  <2> QED BY <2>1, LiveTypes, SMT
<1>3. Len(cstack) > 0 => Bound(cstack[Len(cstack)])
  <2>1. Len(cstack) > 0 => cstack # <<>>
    BY SMT
  <2> QED BY <1>1, <2>1, TopBound
<1>4. Len(nested) = DepthAt(Len(cstack))
  BY DEF Inv, DepthInv, Live
<1>5. \A j \in 1..Len(nested') : Under(nested[j], Top(gosub).ctl)
  BY <1>1, <1>2, <1>3, <1>4, NewestAbove
<1>6. /\ \A i \in 1..Len(cstack') : cstack[i].depth <= Len(nested')
      /\ Len(nested') <= Len(nested) /\ Len(cstack') <= Len(cstack)
  <2>1. Len(nested) <= Len(nested) /\ Len(cstack) <= Len(cstack)
    BY <1>2, SMT
  <2> QED BY <1>1, <2>1 DEF RunSel, DepthOrder
<1>7. /\ ctl'.sel_sp = Top(gosub).ctl.sel_sp
      /\ ctl'.sel_base = Top(gosub).ctl.sel_base
  BY <1>1, <1>2, RestoredSel
<1> QED BY <1>1, <1>2, <1>5, <1>6, <1>7, LandSel

LEMMA ReturnFromBodySel ==
  ASSUME TypeOK, TypeOK', Inv, RunSel(ctl, selstack, gosub, nested, cstack),
         status = "run", ReturnFromBody
  PROVE  RunSel(ctl, selstack, gosub, nested, cstack)'
<1> DEFINE n == Len(cstack)
<1>1. /\ AtStatement /\ gosub # <<>> /\ Top(gosub).ret = "nested"
      /\ cstack # <<>> /\ ~InKind("execute")
      /\ LoopEnds(n, Returned(ctl, Top(gosub)),
                  SelFreed(selstack, ctl, Top(gosub).ctl.sel_sp), Pop(gosub), nested)
  BY Zenon DEF ReturnFromBody, Executing
<1>2. n \in 1..Len(cstack) /\ Bound(cstack[n])
  BY <1>1, TopBound
<1>3. /\ \A i \in n + 1..Len(cstack) : cstack[i].kind = "execute"
      /\ n # 0 /\ nested \in Seq(Frame)
  <2>1. n \in Nat /\ nested \in Seq(Frame)
    BY LiveTypes
  <2> QED BY <1>2, <2>1, SMT
<1>4. Len(nested) = cstack[n].depth
  BY <1>3 DEF Inv, DepthInv, Live, DepthAt
<1> HIDE DEF n
<1> QED BY <1>1, <1>2, <1>3, <1>4, LoopEndsSel

LEMMA ReturnFromIslandSel ==
  ASSUME TypeOK, TypeOK', Inv, RunSel(ctl, selstack, gosub, nested, cstack),
         status = "run", NEW k \in 0..Len(cstack) - 1, ReturnFromIsland(k)
  PROVE  RunSel(ctl, selstack, gosub, nested, cstack)'
<1> DEFINE outer == SubSeq(nested, 1, Len(nested) - (Len(cstack) - k))
           c == Returned(ctl, Top(gosub))
           s == SelFreed(selstack, ctl, Top(gosub).ctl.sel_sp)
<1>1. /\ gosub # <<>>
      /\ \A i \in k + 1..Len(cstack) : cstack[i].kind = "execute"
  BY Zenon DEF ReturnFromIsland
<1>2. /\ outer \in Seq(Frame) /\ Len(outer) = DepthAt(k)
      /\ Len(outer) <= Len(nested)
      /\ \A j \in 1..Len(outer) : outer[j] = nested[j]
      /\ k > 0 => k \in 1..Len(cstack) /\ Bound(cstack[k])
  BY IslandFacts
<1>3. CASE Top(gosub).ret = "nested" /\ k > 0 /\ LoopEnds(k, c, s, Pop(gosub), outer)
  <2> HIDE DEF outer
  <2>1. k # 0
    BY <1>3, SMT
  <2>2. Len(outer) = cstack[k].depth
    BY <1>2, <2>1 DEF DepthAt
  <2> QED BY <1>1, <1>2, <1>3, <2>2, LoopEndsSel
<1>4. CASE /\ Top(gosub).ret # "nested" \/ k = 0
           /\ ctl' = c /\ selstack' = s
           /\ gosub' = Pop(gosub) /\ nested' = outer
           /\ cstack' = SubSeq(cstack, 1, k)
  <2> HIDE DEF outer
  <2>1. /\ k \in 0..Len(cstack) /\ k \in Nat /\ Len(cstack) \in Nat
        /\ cstack \in Seq(CFrame) /\ Top(gosub) \in Gosub /\ ctl \in Frame
        /\ Len(gosub') = Len(gosub) - 1
        /\ \A g \in 1..Len(gosub') : gosub'[g] = gosub[g]
    <3>1. Len(cstack) \in Nat /\ cstack \in Seq(CFrame) /\ ctl \in Frame
      BY LiveTypes
    <3>2. /\ Top(gosub) \in Gosub /\ Len(gosub') = Len(gosub) - 1
          /\ \A g \in 1..Len(gosub') : gosub'[g] = gosub[g]
      BY <1>1, <1>4, TopTypes
    <3>3. k \in 0..Len(cstack) /\ k \in Nat
      BY <3>1, SMT
    <3> QED BY <3>1, <3>2, <3>3
  <2>2. Len(cstack') = k /\ \A i \in 1..k : cstack'[i] = cstack[i]
    BY <1>4, <2>1, CutType
  <2>3. \A j \in 1..Len(nested') : Under(nested[j], Top(gosub).ctl)
    BY <1>1, <1>2, <1>4, <2>1, NewestAbove
  <2>4. \A i \in 1..k : cstack[i].depth <= Len(nested')
    <3> SUFFICES ASSUME NEW i \in 1..k PROVE cstack[i].depth <= cstack[k].depth
      <4>1. 1..k # {} => k # 0
        BY SMT
      <4> QED BY <1>2, <1>4, <4>1 DEF DepthAt
    <3>1. i \in 1..Len(cstack) /\ k \in 1..Len(cstack) /\ (i < k \/ i = k)
      BY <2>1, SMT
    <3>2. cstack[i].depth \in Nat /\ cstack[k].depth \in Nat
      <4>1. cstack[i] \in CFrame /\ cstack[k] \in CFrame
        BY <3>1, TopTypes
      <4> QED BY <4>1, DepthNat
    <3>3. CASE i < k
      <4>1. \/ cstack[i].depth <= cstack[k].depth
            \/ cstack[i].depth < cstack[k].depth
        BY <3>1, <3>3 DEF RunSel, DepthOrder
      <4> QED BY <3>2, <4>1, SMT
    <3>4. CASE i = k
      BY <3>2, <3>4, SMT
    <3> QED BY <3>1, <3>3, <3>4
  <2>5. ctl'.sel_sp = Top(gosub).ctl.sel_sp /\ ctl'.sel_base = Top(gosub).ctl.sel_base
    BY <1>4, <2>1, RestoredSel
  <2>6. k <= Len(cstack)
    BY <2>1, SMT
  <2> QED BY <1>1, <1>2, <1>4, <2>1, <2>2, <2>3, <2>4, <2>5, <2>6, LandSel
<1> QED BY <1>3, <1>4, Zenon DEF ReturnFromIsland

LEMMA ExecuteEndsSel ==
  ASSUME TypeOK, TypeOK', Inv, RunSel(ctl, selstack, gosub, nested, cstack),
         status = "run", ExecuteEnds
  PROVE  RunSel(ctl, selstack, gosub, nested, cstack)'
<1> DEFINE n == Len(cstack)
<1>1. /\ cstack # <<>> /\ nested # <<>> /\ n \in 1..n /\ n \in Nat
      /\ cstack[n] \in CFrame /\ cstack[n].kind = "execute" /\ Top(cstack) = cstack[n]
      /\ nested' = Pop(nested) /\ cstack' = Pop(cstack)
      /\ selstack' = selstack
  <2>1. /\ cstack # <<>> /\ nested # <<>> /\ cstack[n].kind = "execute"
        /\ nested' = Pop(nested) /\ cstack' = Pop(cstack)
        /\ selstack' = selstack
    BY Zenon DEF ExecuteEnds, InKind, Top
  <2> QED BY <2>1, TopTypes
<1>2. /\ Len(nested) = cstack[n].depth
      /\ cstack[n].gsp \in Nat /\ cstack[n].gsp <= Len(gosub)
      /\ \A i \in 1..n - 1 : cstack[i].gsp <= cstack[n].gsp
  <2>1. n # 0
    BY <1>1, SMT
  <2>2. Len(nested) = cstack[n].depth
    BY <2>1 DEF Inv, DepthInv, Live, DepthAt
  <2>3. cstack[n].gsp \in Nat /\ cstack[n].gsp <= Len(gosub)
    BY <1>1, OwnedBelow DEF Inv
  <2>4. ASSUME NEW i \in 1..n - 1 PROVE cstack[i].gsp <= cstack[n].gsp
    <3>1. cstack[n].gsp <= cstack[n].gsp
      BY <2>3, SMT
    <3>2. Owned(cstack[i]) <= cstack[n].gsp
      BY <1>1, <2>3, <3>1, BelowOwner
    <3>3. i \in 1..n
      BY <1>1, SMT
    <3>4. cstack[i].gsp \in Nat
      BY <3>3, OwnedBelow DEF Inv
    <3> QED BY <2>3, <3>2, <3>4, SMT DEF Owned
  <2> QED BY <2>2, <2>3, <2>4
<1>3. /\ Len(cstack') = n - 1 /\ \A i \in 1..n - 1 : cstack'[i] = cstack[i]
      /\ Len(nested') = Len(nested) - 1 /\ Len(nested) \in Nat
      /\ \A j \in 1..Len(nested') : nested'[j] = nested[j]
      /\ Top(nested) = nested[Len(nested)] /\ Top(nested) \in Frame
  BY <1>1, PopType, LiveTypes DEF Top
<1>4. /\ ctl \in Frame /\ ctl' \in Frame /\ selstack \in Slots
      /\ gosub \in Seq(Gosub) /\ gosub' \in Seq(Gosub)
      /\ nested \in Seq(Frame) /\ nested' \in Seq(Frame)
      /\ cstack \in Seq(CFrame) /\ cstack' \in Seq(CFrame)
      /\ Len(gosub) \in Nat
  BY LiveTypes DEF TypeOK
<1>5. CASE Len(gosub) = Top(cstack).gsp /\ ctl' = Top(nested) /\ UNCHANGED gosub
  <2>1. /\ Len(gosub') <= Len(gosub) /\ Len(gosub') <= cstack[n].gsp
    BY <1>1, <1>2, <1>4, <1>5, SMT
  <2>2. /\ \A g \in 1..Len(gosub') : gosub'[g] = gosub[g]
        /\ Top(nested) = nested[cstack[n].depth]
        /\ ctl'.sel_sp = Top(nested).sel_sp /\ ctl'.sel_base = Top(nested).sel_base
        /\ cstack[n].kind # "island_sub" /\ Len(nested') = cstack[n].depth - 1
    BY <1>1, <1>2, <1>3, <1>5
  <2> QED BY <1>1, <1>2, <1>3, <1>4, <2>1, <2>2, NestedLandSel
<1>6. CASE /\ BodyDone /\ UNCHANGED ctl
           /\ gosub' = [gosub EXCEPT ![Top(cstack).gsp + 1].ctl = Top(nested)]
  <2> DEFINE x == cstack[n].gsp + 1
  <2>1. x \in 1..Len(gosub) /\ x <= Len(gosub) /\ n > 0
    BY <1>1, <1>2, <1>4, <1>6, SMT DEF BodyDone
  <2>2. gosub[x] \in Gosub
    BY <1>4, <2>1, ElementOfSeq
  <2>3. /\ [gosub[x] EXCEPT !.ctl = Top(nested)] \in Gosub
        /\ [gosub[x] EXCEPT !.ctl = Top(nested)].ctl = Top(nested)
    BY <1>3, <2>2, SMT DEF Gosub
  <2>4. gosub' = [gosub EXCEPT ![x] = [gosub[x] EXCEPT !.ctl = Top(nested)]]
    BY <1>1, <1>6
  <2> HIDE DEF x
  <2>5. /\ Len(gosub') = Len(gosub)
        /\ \A i \in 1..Len(gosub) :
             gosub'[i] = IF i = x THEN [gosub[x] EXCEPT !.ctl = Top(nested)]
                         ELSE gosub[i]
    BY <1>4, <2>1, <2>3, <2>4, ExceptSeq
  <2>6. /\ gosub'[x].ctl = nested[Len(nested)]
        /\ \A g \in 1..Len(gosub) : g # x => gosub'[g] = gosub[g]
    BY <1>3, <2>1, <2>3, <2>5
  <2>7. x = cstack[n].gsp + 1 /\ cstack[n].kind # "island_sub"
    BY <1>1 DEF x
  <2>8. /\ cstack[n].depth = Len(nested) /\ cstack[n].gsp + 1 = x
        /\ Len(gosub') = Len(gosub) /\ Len(nested') = Len(nested) - 1
        /\ Len(cstack') = n - 1
    BY <1>2, <1>3, <2>5, <2>7
  <2>9. /\ \A i \in 1..n - 1 : cstack'[i] = cstack[i] /\ cstack[i].gsp <= cstack[n].gsp
        /\ \A j \in 1..Len(nested') : nested'[j] = nested[j]
    BY <1>2, <1>3
  <2>10. RunSel(ctl, selstack, gosub', nested', cstack')
    BY <1>4, <2>1, <2>6, <2>7, <2>8, <2>9, RebaseSel, ZenonT(30)
  <2> QED BY <1>1, <1>6, <2>10
<1> QED BY <1>5, <1>6, Zenon DEF ExecuteEnds

\* A gosub frame is pushed.
LEMMA PushGosubSel ==
  ASSUME TypeOK, TypeOK', Inv, RunSel(ctl, selstack, gosub, nested, cstack),
         NEW inl \in BOOLEAN, NEW ret \in {"line", "mid", "nested"},
         PushGosub(inl, ret), UNCHANGED <<selstack, nested>>,
         Len(cstack') >= Len(cstack),
         \A i \in 1..Len(cstack) :
           /\ cstack'[i].kind = cstack[i].kind /\ cstack'[i].gsp = cstack[i].gsp
           /\ cstack'[i].depth = cstack[i].depth,
         \A i \in Len(cstack) + 1..Len(cstack') :
           /\ cstack'[i].kind = "island_sub" /\ cstack'[i].gsp = Len(gosub)
           /\ cstack'[i].depth = Len(nested)
  PROVE  RunSel(ctl, selstack, gosub, nested, cstack)'
<1> DEFINE f == [ctl |-> [ctl EXCEPT !.inl = inl], ret |-> ret]
<1>1. /\ ctl \in Frame /\ selstack \in Slots
      /\ gosub \in Seq(Gosub) /\ gosub' \in Seq(Gosub) /\ Len(gosub) \in Nat
      /\ nested \in Seq(Frame) /\ cstack \in Seq(CFrame) /\ cstack' \in Seq(CFrame)
  BY LiveTypes DEF TypeOK
<1>2. gosub' = Append(gosub, f) /\ ctl' = Entered(ctl)
  BY DEF PushGosub
<1>3. /\ [ctl EXCEPT !.inl = inl] \in Frame
      /\ [ctl EXCEPT !.inl = inl].sel_sp = ctl.sel_sp
      /\ [ctl EXCEPT !.inl = inl].sel_base = ctl.sel_base
  BY <1>1, InlType, SMT DEF Frame
<1>4. f \in Gosub /\ f.ctl.sel_sp = ctl.sel_sp /\ f.ctl.sel_base = ctl.sel_base
  <2>1. f \in Gosub
    BY <1>3, SMT DEF Gosub
  <2> QED BY <1>3, <2>1
<1> HIDE DEF f
<1>5. /\ Len(gosub') = Len(gosub) + 1
      /\ \A g \in 1..Len(gosub) : gosub'[g] = gosub[g]
      /\ gosub'[Len(gosub) + 1] = f
  BY <1>1, <1>2, <1>4, AppendProperties
<1>6. \A i \in 1..Len(cstack) : cstack[i].gsp <= Len(gosub)
  BY OwnedBelow DEF Inv
<1>7. RunSel(Entered(ctl), selstack, gosub', nested, cstack')
  BY <1>1, <1>4, <1>5, <1>6, PushSel
<1> QED BY <1>2, <1>7

LEMMA CallSel ==
  ASSUME TypeOK, TypeOK', Inv, RunSel(ctl, selstack, gosub, nested, cstack),
         \/ GosubStatement \/ \E more \in BOOLEAN : CallSub(more)
         \/ CallIslandSub \/ BindCall \/ StartBody
  PROVE  RunSel(ctl, selstack, gosub, nested, cstack)'
<1>1. ctl.inl \in BOOLEAN /\ \A more \in BOOLEAN : (ctl.inl /\ more) \in BOOLEAN
  <2>1. ctl.inl \in BOOLEAN
    BY SMT DEF TypeOK, Frame
  <2> QED BY <2>1
<1>2. /\ Len(cstack) \in Nat /\ Len(cstack) >= Len(cstack)
      /\ Len(cstack) + 1..Len(cstack) = {}
  BY LiveTypes, SMT
<1>3. CASE GosubStatement
  <2>1. PushGosub(ctl.inl, "line") /\ UNCHANGED <<selstack, nested, cstack>>
    BY <1>3 DEF GosubStatement
  <2>2. RunSel(ctl, selstack, gosub, nested, cstack)'
    BY <1>1, <1>2, <2>1, PushGosubSel
  <2> QED BY <2>2
<1>4. ASSUME NEW more \in BOOLEAN, CallSub(more)
      PROVE  RunSel(ctl, selstack, gosub, nested, cstack)'
  <2>1. /\ PushGosub(ctl.inl /\ more, IF more THEN "mid" ELSE "line")
        /\ UNCHANGED <<selstack, nested, cstack>>
    BY <1>4 DEF CallSub
  <2>2. (IF more THEN "mid" ELSE "line") \in {"line", "mid", "nested"}
    OBVIOUS
  <2> QED BY <1>1, <1>2, <2>1, <2>2, PushGosubSel
<1>5. CASE CallIslandSub
  <2> DEFINE f == [kind |-> "island_sub", phase |-> "body", gsp |-> Len(gosub),
                   depth |-> Len(nested), in_stmt |-> TRUE]
  <2>1. /\ PushGosub(ctl.inl, "nested") /\ UNCHANGED <<selstack, nested>>
        /\ cstack' = Append(cstack, f)
    BY <1>5 DEF CallIslandSub
  <2>2. f \in CFrame
    BY TopTypes, SMT DEF CFrame
  <2>3. f.kind = "island_sub" /\ f.gsp = Len(gosub) /\ f.depth = Len(nested)
    OBVIOUS
  <2> HIDE DEF f
  <2>4. /\ Len(cstack') = Len(cstack) + 1
        /\ \A i \in 1..Len(cstack) : cstack'[i] = cstack[i]
        /\ cstack'[Len(cstack) + 1] = f
    <3>1. cstack \in Seq(CFrame)
      BY LiveTypes
    <3> QED BY <2>1, <2>2, <3>1, AppendProperties
  <2>5. /\ Len(cstack') >= Len(cstack)
        /\ \A i \in Len(cstack) + 1..Len(cstack') : i = Len(cstack) + 1
    BY <1>2, <2>4, SMT
  <2>6. \A i \in Len(cstack) + 1..Len(cstack') :
          /\ cstack'[i].kind = "island_sub" /\ cstack'[i].gsp = Len(gosub)
          /\ cstack'[i].depth = Len(nested)
    BY <2>3, <2>4, <2>5
  <2> QED BY <1>1, <2>1, <2>4, <2>5, <2>6, PushGosubSel
<1>6. ASSUME cstack # <<>>, BodyStarted
      PROVE  /\ Len(cstack') = Len(cstack)
             /\ \A i \in 1..Len(cstack) :
                  /\ cstack'[i].kind = cstack[i].kind /\ cstack'[i].gsp = cstack[i].gsp
                  /\ cstack'[i].depth = cstack[i].depth
  <2>1. /\ Len(cstack') = Len(cstack) /\ Len(cstack) \in 1..Len(cstack)
        /\ \A i \in 1..Len(cstack) : i # Len(cstack) => cstack'[i] = cstack[i]
        /\ cstack'[Len(cstack)] = [cstack[Len(cstack)] EXCEPT !.phase = "body"]
        /\ cstack[Len(cstack)] \in CFrame
    BY <1>6, BodyStartedType, TopTypes
  <2>2. /\ cstack'[Len(cstack)].kind = cstack[Len(cstack)].kind
        /\ cstack'[Len(cstack)].gsp = cstack[Len(cstack)].gsp
        /\ cstack'[Len(cstack)].depth = cstack[Len(cstack)].depth
    BY <2>1, SMT DEF CFrame
  <2> QED BY <2>1, <2>2
<1>7. CASE BindCall
  <2>1. /\ PushGosub(ctl.inl, "nested") /\ UNCHANGED <<selstack, nested>>
        /\ BodyStarted /\ cstack # <<>>
    BY <1>7 DEF BindCall, Entering
  <2>2. Len(cstack') >= Len(cstack) /\ Len(cstack) + 1..Len(cstack') = {}
    BY <1>2, <1>6, <2>1
  <2> QED BY <1>1, <1>6, <2>1, <2>2, PushGosubSel
<1>8. CASE StartBody
  <2>1. /\ BodyStarted /\ cstack # <<>>
        /\ UNCHANGED <<ctl, selstack, gosub, nested>>
    BY <1>8 DEF StartBody, Entering
  <2>2. Kept(ctl', selstack')
    BY <2>1 DEF RunSel
  <2> QED BY <1>6, <2>1, <2>2, BlockSel
<1> QED BY <1>3, <1>4, <1>5, <1>7, <1>8

LEMMA EntrySel ==
  ASSUME TypeOK, TypeOK', Inv, RunSel(ctl, selstack, gosub, nested, cstack),
         \/ EnterFunction \/ EnterExecute
         \/ \E paused \in BOOLEAN : EnterEvent(paused)
  PROVE  RunSel(ctl, selstack, gosub, nested, cstack)'
<1>1. ASSUME NEW kind \in {"function", "event", "execute"},
             NEW in_stmt \in BOOLEAN, NestedPush(kind, in_stmt)
      PROVE  RunSel(ctl, selstack, gosub, nested, cstack)'
  <2> DEFINE f == [kind |-> kind, phase |-> "entry", gsp |-> Len(gosub),
                   depth |-> Len(nested) + 1, in_stmt |-> in_stmt]
  <2>1. /\ nested' = Append(nested, ctl) /\ ctl' = Entered(ctl)
        /\ UNCHANGED <<selstack, gosub>>
    BY <1>1 DEF NestedPush
  <2>2. /\ ctl \in Frame /\ selstack \in Slots /\ gosub \in Seq(Gosub)
        /\ nested \in Seq(Frame) /\ nested' \in Seq(Frame)
        /\ cstack \in Seq(CFrame) /\ cstack' \in Seq(CFrame)
    BY LiveTypes DEF TypeOK
  <2>3. /\ Len(cstack') = Len(cstack) + 1
        /\ \A i \in 1..Len(cstack) : cstack'[i] = cstack[i]
        /\ cstack'[Len(cstack) + 1] = f
    BY <1>1, NestedPushType
  <2>4. f.kind # "island_sub" /\ f.gsp = Len(gosub) /\ f.depth = Len(nested) + 1
    OBVIOUS
  <2> HIDE DEF f
  <2>5. /\ Len(nested') = Len(nested) + 1
        /\ \A j \in 1..Len(nested) : nested'[j] = nested[j]
        /\ nested'[Len(nested) + 1] = ctl
    BY <2>1, <2>2, AppendProperties
  <2>6. RunSel(Entered(ctl), selstack, gosub, nested', cstack')
    BY <2>2, <2>3, <2>4, <2>5, SnapshotSel
  <2> QED BY <2>1, <2>6
<1>2. CASE EnterFunction \/ EnterExecute
  BY <1>1, <1>2 DEF EnterFunction, EnterExecute
<1>3. ASSUME NEW paused \in BOOLEAN, EnterEvent(paused)
      PROVE  RunSel(ctl, selstack, gosub, nested, cstack)'
  BY <1>1, <1>3 DEF EnterEvent
<1> QED BY <1>2, <1>3

\* The unwinding of a trapped error: newest first, the gosub frames before the
\* snapshots.
LEMMA UnwindSel ==
  ASSUME TypeOK, TypeOK', TrapSel(ctl, selstack, gosub, nested), status = "trap",
         UnwindGosub \/ UnwindNested
  PROVE  TrapSel(ctl, selstack, gosub, nested)'
<1>1. /\ ctl \in Frame /\ ctl' \in Frame /\ selstack \in Slots
      /\ gosub \in Seq(Gosub) /\ gosub' \in Seq(Gosub)
      /\ nested \in Seq(Frame) /\ nested' \in Seq(Frame)
  BY LiveTypes DEF TypeOK
<1>2. CASE UnwindGosub
  <2>1. /\ gosub # <<>> /\ gosub' = Pop(gosub) /\ nested' = nested
        /\ ctl' = Restored(ctl, Top(gosub).ctl)
        /\ selstack' = SelFreed(selstack, ctl, Top(gosub).ctl.sel_sp)
    BY <1>2 DEF UnwindGosub
  <2>2. /\ Len(gosub') = Len(gosub) - 1 /\ Top(gosub).ctl \in Frame
        /\ \A g \in 1..Len(gosub') : gosub'[g] = gosub[g]
        /\ Top(gosub) = gosub[Len(gosub)]
    BY <2>1, TopTypes DEF Top
  <2>3. /\ ctl'.sel_sp = Top(gosub).ctl.sel_sp
        /\ ctl'.sel_base = Top(gosub).ctl.sel_base
    BY <1>1, <2>1, <2>2, RestoredSel
  <2>4. TrapSel(ctl', SelFreed(selstack, ctl, Top(gosub).ctl.sel_sp), gosub', nested)
    BY <1>1, <2>1, <2>2, <2>3, UnwindGosubSel
  <2> QED BY <2>1, <2>4
<1>3. CASE UnwindNested
  <2>1. /\ gosub = <<>> /\ nested # <<>> /\ nested' = Pop(nested) /\ gosub' = gosub
        /\ ctl' = Restored(ctl, Top(nested))
        /\ selstack' = SelFreed(selstack, ctl, Top(nested).sel_sp)
    BY <1>3 DEF UnwindNested
  <2>2. /\ Len(nested') = Len(nested) - 1 /\ Top(nested) \in Frame
        /\ \A j \in 1..Len(nested') : nested'[j] = nested[j]
        /\ Top(nested) = nested[Len(nested)]
    BY <1>1, <2>1, PopType DEF Top
  <2>3. ctl'.sel_sp = Top(nested).sel_sp /\ ctl'.sel_base = Top(nested).sel_base
    BY <1>1, <2>1, <2>2, RestoredSel
  <2>4. TrapSel(ctl', SelFreed(selstack, ctl, Top(nested).sel_sp), <<>>, nested')
    BY <1>1, <2>1, <2>2, <2>3, UnwindNestedSel
  <2> QED BY <2>1, <2>4
<1> QED BY <1>2, <1>3

\* A program that starts, and a handler that starts after the unwinding.
LEMMA EmptySel ==
  ASSUME NEW c, NEW s, Kept(c, s)
  PROVE  RunSel(c, s, <<>>, <<>>, <<>>)
<1>1. 1..Len(<<>>) = {}
  BY SMT
<1> QED BY <1>1 DEF RunSel, SavedOrder, DepthOrder, EntryOrder

\* Every step keeps the order.
LEMMA SelStep ==
  ASSUME TypeOK, TypeOK', Inv, SelInv, OnError # "skip", Next
  PROVE  SelInv'
<1>1. ~Live => cstack = <<>>
  BY DEF Inv, CallsInv
<1>2. status = "run" => RunSel(ctl, selstack, gosub, nested, cstack)
  BY DEF SelInv
<1>3. CASE Raised
  <2>1. status' # "run"
    BY <1>3 DEF Raised
  <2>2. ASSUME status' = "trap" PROVE TrapSel(ctl, selstack, gosub, nested)'
    <3>1. RunSel(ctl, selstack, gosub, nested, cstack)
          /\ UNCHANGED <<ctl, selstack, gosub, nested>>
      BY <1>2, <1>3, <2>2 DEF Raised
    <3>2. TrapSel(ctl, selstack, gosub, nested)
      BY <3>1, RaisedSel, LiveTypes
    <3> QED BY <3>1, <3>2
  <2> QED BY <2>1, <2>2 DEF SelInv
<1>4. CASE status = "run" /\ status' = "run"
           /\ ( \/ OpenIf \/ EndIf \/ InlineIf \/ OpenSelect \/ EndSelect
                \/ LoopBack \/ LeaveLoop
                \/ \E line \in Lines, enter \in BOOLEAN : Do(line, enter) )
  BY <1>2, <1>4, StructureSel DEF SelInv
<1>5. CASE OnErrorGoto
  <2>1. UNCHANGED <<status, ctl, selstack, gosub, nested, cstack>>
    BY <1>5 DEF OnErrorGoto
  <2> QED BY <2>1 DEF SelInv
<1>6. CASE status = "run" /\ status' = "run"
           /\ ( \/ GosubStatement \/ \E more \in BOOLEAN : CallSub(more)
                \/ CallIslandSub \/ BindCall \/ StartBody )
  BY <1>2, <1>6, CallSel DEF SelInv
<1>7. CASE status = "run" /\ status' = "run"
           /\ ( \/ EnterFunction \/ EnterExecute
                \/ \E paused \in BOOLEAN : EnterEvent(paused) )
  BY <1>2, <1>7, EntrySel DEF SelInv
<1>8. CASE status = "run" /\ status' = "run"
           /\ ( \/ ReturnInLoop \/ ReturnFromBody \/ ExecuteEnds
                \/ \E k \in 0..Len(cstack) - 1 : ReturnFromIsland(k) )
  BY <1>2, <1>8, ReturnInLoopSel, ReturnFromBodySel, ExecuteEndsSel,
     ReturnFromIslandSel DEF SelInv
<1>9. CASE UnwindGosub \/ UnwindNested
  <2>1. status' = status /\ status \in {"trap", "abort"}
    BY <1>9 DEF UnwindGosub, UnwindNested
  <2>2. status = "trap" => TrapSel(ctl, selstack, gosub, nested)'
    BY <1>9, UnwindSel DEF SelInv
  <2> QED BY <2>1, <2>2 DEF SelInv
<1>10. CASE Trapped
  <2>1. /\ status = "trap" /\ status' = "run" /\ gosub = <<>> /\ nested = <<>>
        /\ UNCHANGED <<ctl, selstack, gosub, nested, cstack>> /\ cstack = <<>>
    BY <1>1, <1>10 DEF Trapped, Live
  <2>2. Kept(ctl, selstack)
    BY <2>1 DEF SelInv, TrapSel
  <2>3. RunSel(ctl, selstack, <<>>, <<>>, <<>>)
    BY <2>2, EmptySel
  <2> QED BY <2>1, <2>3 DEF SelInv
<1>11. CASE Run
  <2>1. /\ status' = "run" /\ ctl' = Clean
        /\ gosub' = <<>> /\ nested' = <<>> /\ cstack' = <<>>
    BY <1>1, <1>11 DEF Run, Live
  <2>2. 0 + 1..0 = {} /\ 0 <= 0
    BY SMT
  <2>3. Kept(ctl', selstack')
    BY <2>1, <2>2 DEF Kept, Clean
  <2>4. RunSel(ctl', selstack', <<>>, <<>>, <<>>)
    BY <2>3, EmptySel
  <2> QED BY <2>1, <2>4 DEF SelInv
<1>12. CASE status' \notin {"run", "trap"}
  BY <1>12 DEF SelInv
<1>13. CASE BindStopped \/ LoopStops \/ End \/ ProgramEnds \/ Aborted
  <2>1. status' \notin {"run", "trap"}
    BY <1>13 DEF BindStopped, LoopStops, LoopEnds, End, ProgramEnds, Aborted
  <2> QED BY <1>12, <2>1
<1>14. CASE status' = status /\ status = "end"
  BY <1>12, <1>14
<1>15. ASSUME \/ OpenIf \/ EndIf \/ InlineIf \/ OpenSelect \/ EndSelect
              \/ LoopBack \/ LeaveLoop
              \/ \E line \in Lines, enter \in BOOLEAN : Do(line, enter)
       PROVE  status' = status /\ status \in {"run", "end"}
  BY <1>15 DEF OpenIf, EndIf, InlineIf, OpenSelect, EndSelect, LoopBack,
               LeaveLoop, Do, Executing
<1>16. ASSUME \/ GosubStatement \/ \E more \in BOOLEAN : CallSub(more)
              \/ CallIslandSub \/ BindCall \/ StartBody
              \/ EnterFunction \/ EnterExecute
              \/ \E paused \in BOOLEAN : EnterEvent(paused)
       PROVE  status' = status /\ status = "run"
  BY <1>16 DEF GosubStatement, CallSub, CallIslandSub, BindCall, StartBody,
               EnterFunction, EnterExecute, EnterEvent, NestedPush
<1>17. ASSUME \/ ReturnInLoop \/ ReturnFromBody \/ ExecuteEnds
              \/ \E k \in 0..Len(cstack) - 1 : ReturnFromIsland(k)
       PROVE  status' = status /\ status \in {"run", "end"}
  BY <1>17 DEF ReturnInLoop, ReturnFromBody, ExecuteEnds, ReturnFromIsland,
               LoopEnds, Executing
<1> QED BY <1>3, <1>4, <1>5, <1>6, <1>7, <1>8, <1>9, <1>10, <1>11, <1>13, <1>14,
           <1>15, <1>16, <1>17, StepCases, RaisedStep

\* Unless the program runs under ON ERROR SKIP, the value of every SELECT that is
\* open is still in its slot: no callee, handler or EXECUTE string, and no
\* unwinding of a trapped error, frees the value the next CASE compares.
THEOREM OpenSelectsKept ==
  ASSUME OnError # "skip"
  PROVE  Spec => []OpenSelectsHold
<1>1. Init => SelInv
  BY DEF Init, SelInv
<1>2. TypeOK /\ Inv /\ TypeOK' /\ SelInv /\ [Next]_vars => SelInv'
  <2> SUFFICES ASSUME TypeOK, Inv, TypeOK', SelInv, [Next]_vars PROVE SelInv'
    OBVIOUS
  <2>1. CASE Next
    BY <2>1, SelStep
  <2>2. CASE UNCHANGED vars
    BY <2>2 DEF vars, SelInv
  <2> QED BY <2>1, <2>2
<1>3. SelInv => OpenSelectsHold
  BY DEF SelInv, RunSel, Kept, OpenSelectsHold
<1> QED BY <1>1, <1>2, <1>3, Invariant, PTL DEF Spec
-----------------------------------------------------------------------------
(* The loop depth.  Only the end of an EXECUTE string puts it back exactly.   *)

NoStrings == \A i \in 1..Len(cstack) : cstack[i].kind # "execute"

\* A program without EXECUTE never has the C frame of one.
LEMMA NoStringsStep ==
  ASSUME TypeOK, Inv, NoStrings, OnError # "skip", "execute" \notin Kinds, Next
  PROVE  NoStrings'
<1>1. /\ cstack \in Seq(CFrame) /\ Len(cstack) \in Nat
      /\ 1..Len(<<>>) = {} /\ ~InKind("execute")
  <2>1. cstack # <<>> => Len(cstack) \in 1..Len(cstack) /\ Top(cstack) = cstack[Len(cstack)]
    BY TopTypes
  <2>2. 1..Len(<<>>) = {}
    BY SMT
  <2> QED BY <2>1, <2>2, LiveTypes DEF NoStrings, InKind
<1>2. CASE cstack' = cstack \/ cstack' = <<>>
  BY <1>1, <1>2 DEF NoStrings
<1>3. ASSUME NEW k \in 0..Len(cstack), cstack' = SubSeq(cstack, 1, k)
      PROVE  NoStrings'
  <2>1. Len(cstack') = k /\ \A i \in 1..k : cstack'[i] = cstack[i]
    BY <1>1, <1>3, CutType
  <2>2. \A i \in 1..k : i \in 1..Len(cstack)
    BY <1>1, SMT
  <2> QED BY <2>1, <2>2 DEF NoStrings
<1>4. ASSUME NEW k \in 1..Len(cstack), cstack' = SubSeq(cstack, 1, k - 1)
      PROVE  NoStrings'
  <2>1. k - 1 \in 0..Len(cstack)
    BY <1>1, SMT
  <2> QED BY <1>3, <1>4, <2>1
<1>5. ASSUME NEW kind \in {"function", "event"}, NEW in_stmt \in BOOLEAN,
             NestedPush(kind, in_stmt)
      PROVE  NoStrings'
  <2>1. /\ Len(cstack') = Len(cstack) + 1
        /\ \A i \in 1..Len(cstack) : cstack'[i] = cstack[i]
        /\ cstack'[Len(cstack) + 1].kind = kind
    <3>1. kind \in {"function", "event", "execute"}
      OBVIOUS
    <3>2. /\ Len(cstack') = Len(cstack) + 1
          /\ \A i \in 1..Len(cstack) : cstack'[i] = cstack[i]
          /\ cstack'[Len(cstack) + 1] =
               [kind |-> kind, phase |-> "entry", gsp |-> Len(gosub),
                depth |-> Len(nested) + 1, in_stmt |-> in_stmt]
      BY <1>5, <3>1, NestedPushType
    <3> QED BY <3>2
  <2>2. \A i \in 1..Len(cstack) + 1 : i \in 1..Len(cstack) \/ i = Len(cstack) + 1
    BY <1>1, SMT
  <2> QED BY <2>1, <2>2 DEF NoStrings
<1>6. CASE BindCall \/ StartBody
  <2>1. BodyStarted /\ cstack # <<>>
    BY <1>6 DEF BindCall, StartBody, Entering
  <2>2. /\ Len(cstack') = Len(cstack) /\ Len(cstack) \in 1..Len(cstack)
        /\ \A i \in 1..Len(cstack) : i # Len(cstack) => cstack'[i] = cstack[i]
        /\ cstack'[Len(cstack)] = [cstack[Len(cstack)] EXCEPT !.phase = "body"]
        /\ cstack[Len(cstack)] \in CFrame
    BY <2>1, BodyStartedType, TopTypes
  <2>3. cstack'[Len(cstack)].kind = cstack[Len(cstack)].kind
    BY <2>2, SMT DEF CFrame
  <2> QED BY <2>2, <2>3 DEF NoStrings
<1>7. CASE EnterFunction \/ EnterExecute \/ \E paused \in BOOLEAN : EnterEvent(paused)
  <2>1. ~EnterExecute
    BY DEF EnterExecute, NestedPush
  <2>2. EnterFunction => NestedPush("function", TRUE)
    BY DEF EnterFunction
  <2>3. \A paused \in BOOLEAN : EnterEvent(paused) => NestedPush("event", paused)
    BY DEF EnterEvent
  <2> QED BY <1>5, <1>7, <2>1, <2>2, <2>3
<1>8. CASE ReturnFromBody \/ BindStopped \/ LoopStops
  <2>1. cstack # <<>> /\ cstack' = SubSeq(cstack, 1, Len(cstack) - 1)
    BY <1>8, Zenon DEF ReturnFromBody, BindStopped, LoopStops, LoopEnds, Entering
  <2>2. Len(cstack) \in 1..Len(cstack)
    BY <2>1, TopTypes
  <2> QED BY <1>4, <2>1, <2>2
<1>9. ASSUME NEW k \in 0..Len(cstack) - 1, ReturnFromIsland(k) PROVE NoStrings'
  <2>1. InKind("execute")
    BY <1>9, IslandFacts
  <2> QED BY <1>1, <2>1
<1>10. CASE ExecuteEnds \/ CallIslandSub
  BY <1>1, <1>10 DEF ExecuteEnds, CallIslandSub
<1>11. CASE Raised
  BY <1>2, <1>11 DEF Raised
<1>12. CASE \/ OpenIf \/ EndIf \/ InlineIf \/ OpenSelect \/ EndSelect
            \/ LoopBack \/ LeaveLoop
            \/ \E line \in Lines, enter \in BOOLEAN : Do(line, enter)
  BY <1>2, <1>12, StructureType
<1>13. CASE \/ OnErrorGoto \/ GosubStatement \/ \E more \in BOOLEAN : CallSub(more)
            \/ ReturnInLoop \/ UnwindGosub \/ UnwindNested \/ Trapped \/ Aborted
            \/ Run \/ End \/ ProgramEnds
  <2>1. cstack' = cstack
    BY <1>13 DEF OnErrorGoto, GosubStatement, CallSub, ReturnInLoop, UnwindGosub,
                 UnwindNested, Trapped, Aborted, Run, End, ProgramEnds
  <2> QED BY <1>2, <2>1
<1> QED BY <1>6, <1>7, <1>8, <1>9, <1>10, <1>11, <1>12, <1>13, StepCases, RaisedStep

\* What the operators do to the loop depth.
LEMMA LoopDepths ==
  ASSUME NEW c \in Frame
  PROVE  /\ c.ctrl_sp \in Nat
         /\ Entered(c).ctrl_sp = c.ctrl_sp
         /\ \A f \in Frame : Restored(c, f) \in Frame
                             /\ Restored(c, f).ctrl_sp <= c.ctrl_sp
         /\ \A g \in Gosub : Returned(c, g) \in Frame
                             /\ Returned(c, g).ctrl_sp <= c.ctrl_sp
<1>1. \A f \in Frame : f.ctrl_sp \in Nat
  BY LimitsAssumption, SMT DEF Frame
<1>2. ASSUME NEW f \in Frame
      PROVE  Restored(c, f) \in Frame /\ Restored(c, f).ctrl_sp <= c.ctrl_sp
  <2>1. Restored(c, f).ctrl_sp = Lower(c.ctrl_sp, f.ctrl_sp)
    BY SMT DEF Restored, Frame
  <2> QED BY <1>1, <2>1, FrameOps, SMT DEF Lower
<1>3. ASSUME NEW g \in Gosub
      PROVE  Returned(c, g) \in Frame /\ Returned(c, g).ctrl_sp <= c.ctrl_sp
  <2>1. g.ctl \in Frame /\ Returned(c, g) \in Frame
    BY ReturnedType
  <2>2. Returned(c, g).ctrl_sp = Restored(c, g.ctl).ctrl_sp
    <3>1. Restored(c, g.ctl) \in Frame
      BY <1>2, <2>1
    <3> QED BY <3>1, SMT DEF Returned, Frame
  <2> QED BY <1>2, <2>1, <2>2
<1> QED BY <1>1, <1>2, <1>3 DEF Entered

\* A statement about blocks leaves the loop depth where it is or lower, or is a
\* DO that opens one loop.
LEMMA BlockDepth ==
  ASSUME TypeOK,
         \/ OpenIf \/ EndIf \/ InlineIf \/ OpenSelect \/ EndSelect
         \/ LoopBack \/ LeaveLoop
         \/ \E line \in Lines, enter \in BOOLEAN : Do(line, enter)
  PROVE  ctl'.ctrl_sp <= ctl.ctrl_sp + 1
<1>1. ctl \in Frame /\ ctl.ctrl_sp \in 0..MaxCtrl /\ ctl.ctrl_sp \in Nat
  <2>1. ctl \in Frame /\ ctl.ctrl_sp \in 0..MaxCtrl
    BY SMT DEF TypeOK, Frame
  <2> QED BY <2>1, LimitsAssumption, SMT
<1>2. \A n \in Nat : n <= ctl.ctrl_sp => n <= ctl.ctrl_sp + 1
  BY <1>1, SMT
<1>3. CASE OpenIf \/ EndIf \/ InlineIf \/ OpenSelect \/ EndSelect
  <2>1. ctl'.ctrl_sp = ctl.ctrl_sp
    BY <1>1, <1>3, SMT DEF OpenIf, EndIf, InlineIf, OpenSelect, EndSelect, Frame
  <2> QED BY <1>1, <2>1, SMT
<1>4. CASE LoopBack
  <2>1. ctl'.ctrl_sp = ctl.ctrl_sp
    BY <1>4 DEF LoopBack, LoopRestored
  <2> QED BY <1>1, <2>1, SMT
<1>5. \A i : PoppedTo(i).ctrl_sp = i - 1
  BY DEF PoppedTo, LoopRestored
<1>6. CASE LeaveLoop
  <2>1. ctl'.ctrl_sp = ctl.ctrl_sp - 1
    BY <1>5, <1>6 DEF LeaveLoop
  <2> QED BY <1>1, <2>1, SMT
<1>7. ASSUME NEW line \in Lines, NEW enter \in BOOLEAN, Do(line, enter)
      PROVE  ctl'.ctrl_sp <= ctl.ctrl_sp + 1
  <2> DEFINE R == Reentered(line)  c == AfterReenter(line)
  <2>1. R # {} => Least(R) \in 1..ctl.ctrl_sp
    <3>1. R \in SUBSET (1..ctl.ctrl_sp) /\ 1..ctl.ctrl_sp \in SUBSET Nat
      BY <1>1, SMT DEF Reentered
    <3> QED BY <3>1, LeastIn
  <2>2. c \in Frame
    BY <1>1, <2>1, PoppedType DEF AfterReenter
  <2>3. c.ctrl_sp = ctl.ctrl_sp \/ (R # {} /\ c.ctrl_sp = Least(R) - 1)
    BY <1>5 DEF AfterReenter
  <2>4. c.ctrl_sp \in Nat /\ c.ctrl_sp <= ctl.ctrl_sp
    BY <1>1, <2>1, <2>3, SMT
  <2>5. ctl' = c \/ ctl' = [c EXCEPT !.ctrl_sp = @ + 1]
    BY <1>7 DEF Do
  <2> HIDE DEF R, c
  <2>6. ctl'.ctrl_sp = c.ctrl_sp \/ ctl'.ctrl_sp = c.ctrl_sp + 1
    BY <2>2, <2>5, SMT DEF Frame
  <2> QED BY <1>1, <2>4, <2>6, SMT
<1> QED BY <1>3, <1>4, <1>6, <1>7

\* The end of a line loop lowers the loop depth, or leaves it.
LEMMA LoopEndsDepth ==
  ASSUME NEW k, NEW c \in Frame, NEW s, NEW gs, NEW ns \in Seq(Frame),
         NEW n \in Nat, c.ctrl_sp <= n, LoopEnds(k, c, s, gs, ns)
  PROVE  ctl'.ctrl_sp <= n
<1>1. CASE cstack[k].kind = "island_sub"
  BY <1>1 DEF LoopEnds
<1>2. CASE cstack[k].kind # "island_sub"
  <2>1. ns # <<>> /\ ctl' = Restored(c, Top(ns))
    BY <1>2 DEF LoopEnds
  <2>2. Top(ns) \in Frame
    BY <2>1, PopType
  <2>3. Restored(c, Top(ns)) \in Frame /\ Restored(c, Top(ns)).ctrl_sp <= c.ctrl_sp
    BY <2>2, LoopDepths
  <2>4. Restored(c, Top(ns)).ctrl_sp \in Nat /\ c.ctrl_sp \in Nat
    BY <2>3, LoopDepths
  <2> QED BY <2>1, <2>3, <2>4, SMT
<1> QED BY <1>1, <1>2

\* The loop depth never rises but by one, at a DO.
LEMMA DepthStep ==
  ASSUME TypeOK, TypeOK', Inv, NoStrings, OnError # "skip", Next
  PROVE  ctl'.ctrl_sp > ctl.ctrl_sp =>
           ctl'.ctrl_sp = ctl.ctrl_sp + 1 /\ UNCHANGED <<gosub, nested, cstack>>
<1> DEFINE n == ctl.ctrl_sp
<1>1. /\ ctl \in Frame /\ n \in Nat /\ n <= n /\ ctl'.ctrl_sp \in Nat
      /\ nested \in Seq(Frame)
  <2>1. ctl \in Frame /\ ctl' \in Frame /\ nested \in Seq(Frame)
    BY DEF TypeOK
  <2>2. n \in Nat /\ ctl'.ctrl_sp \in Nat
    BY <2>1, LoopDepths
  <2> QED BY <2>1, <2>2, SMT
<1>2. ~InKind("execute")
  <2>1. cstack # <<>> => Len(cstack) \in 1..Len(cstack) /\ Top(cstack) = cstack[Len(cstack)]
    BY TopTypes
  <2> QED BY <2>1 DEF NoStrings, InKind
<1>3. CASE \/ OpenIf \/ EndIf \/ InlineIf \/ OpenSelect \/ EndSelect
           \/ LoopBack \/ LeaveLoop
           \/ \E line \in Lines, enter \in BOOLEAN : Do(line, enter)
  <2>1. ctl'.ctrl_sp <= n + 1
    BY <1>3, BlockDepth
  <2>2. UNCHANGED <<gosub, nested, cstack>>
    BY <1>3, StructureType
  <2>3. ctl'.ctrl_sp > n => ctl'.ctrl_sp = n + 1
    BY <1>1, <2>1, SMT
  <2> QED BY <2>2, <2>3
<1>4. SUFFICES ASSUME ~( \/ OpenIf \/ EndIf \/ InlineIf \/ OpenSelect \/ EndSelect
                         \/ LoopBack \/ LeaveLoop
                         \/ \E line \in Lines, enter \in BOOLEAN : Do(line, enter) )
               PROVE  ctl'.ctrl_sp <= n
  <2>1. ctl'.ctrl_sp <= n => ~(ctl'.ctrl_sp > n)
    BY <1>1, SMT
  <2> QED BY <1>3, <2>1
<1>5. CASE ctl' = ctl \/ ctl' = Entered(ctl)
  BY <1>1, <1>5, LoopDepths
<1>6. CASE ReturnInLoop
  <2>1. gosub # <<>> /\ ctl' = Returned(ctl, Top(gosub))
    BY <1>6 DEF ReturnInLoop
  <2> QED BY <1>1, <2>1, TopTypes, LoopDepths
<1>7. CASE ReturnFromBody
  <2>1. gosub # <<>>
    BY <1>7 DEF ReturnFromBody
  <2>2. /\ Returned(ctl, Top(gosub)) \in Frame
        /\ Returned(ctl, Top(gosub)).ctrl_sp <= n
    BY <1>1, <2>1, TopTypes, LoopDepths
  <2> QED BY <1>1, <1>7, <2>2, LoopEndsDepth DEF ReturnFromBody
<1>8. ASSUME NEW k \in 0..Len(cstack) - 1, ReturnFromIsland(k)
      PROVE  ctl'.ctrl_sp <= n
  BY <1>2, <1>8, IslandFacts
<1>9. CASE BindStopped
  <2>1. Entered(ctl) \in Frame /\ Entered(ctl).ctrl_sp <= n
    BY <1>1, FrameOps, LoopDepths
  <2> QED BY <1>1, <1>9, <2>1, LoopEndsDepth DEF BindStopped
<1>10. CASE LoopStops
  BY <1>1, <1>10, LoopEndsDepth DEF LoopStops
<1>11. CASE ExecuteEnds
  BY <1>2, <1>11 DEF ExecuteEnds
<1>12. CASE UnwindGosub
  <2>1. gosub # <<>> /\ ctl' = Restored(ctl, Top(gosub).ctl)
    BY <1>12 DEF UnwindGosub
  <2> QED BY <1>1, <2>1, TopTypes, LoopDepths
<1>13. CASE UnwindNested
  <2>1. nested # <<>> /\ ctl' = Restored(ctl, Top(nested))
    BY <1>13 DEF UnwindNested
  <2> QED BY <1>1, <2>1, TopTypes, LoopDepths
<1>14. CASE Aborted
  <2>1. ctl'.ctrl_sp = n
    BY <1>14 DEF Aborted, Clean
  <2> QED BY <1>1, <2>1
<1>15. CASE Run
  <2>1. ctl'.ctrl_sp = 0
    BY <1>15 DEF Run, Clean
  <2> QED BY <1>1, <2>1, SMT
<1>16. CASE Raised
  BY <1>5, <1>16 DEF Raised
<1>17. CASE \/ OnErrorGoto \/ GosubStatement \/ \E more \in BOOLEAN : CallSub(more)
            \/ CallIslandSub \/ BindCall \/ StartBody \/ EnterFunction
            \/ EnterExecute \/ \E paused \in BOOLEAN : EnterEvent(paused)
            \/ Trapped \/ End \/ ProgramEnds
  <2>1. ctl' = ctl \/ ctl' = Entered(ctl)
    BY <1>17 DEF OnErrorGoto, GosubStatement, CallSub, CallIslandSub, BindCall,
                 StartBody, EnterFunction, EnterExecute, EnterEvent, NestedPush,
                 PushGosub, Trapped, End, ProgramEnds
  <2> QED BY <1>5, <2>1
<1> HIDE DEF n
<1> QED BY <1>4, <1>6, <1>7, <1>8, <1>9, <1>10, <1>11, <1>12, <1>13, <1>14, <1>15,
           <1>16, <1>17, StepCases, RaisedStep

\* Unless the program runs under ON ERROR SKIP or uses EXECUTE, no return, handler's
\* end or unwinding reopens a loop that the callee closed.
THEOREM LoopsStayClosed ==
  ASSUME OnError # "skip", "execute" \notin Kinds
  PROVE  Spec => NoResurrection
<1>1. Init => NoStrings
  <2>1. 1..Len(<<>>) = {}
    BY SMT
  <2> QED BY <2>1 DEF Init, NoStrings
<1>2. TypeOK /\ Inv /\ NoStrings /\ [Next]_vars => NoStrings'
  <2> SUFFICES ASSUME TypeOK, Inv, NoStrings, [Next]_vars PROVE NoStrings'
    OBVIOUS
  <2>1. CASE Next
    BY <2>1, NoStringsStep
  <2>2. CASE UNCHANGED vars
    BY <2>2 DEF vars, NoStrings
  <2> QED BY <2>1, <2>2
<1>3. TypeOK /\ Inv /\ NoStrings /\ TypeOK' /\ [Next]_vars =>
        [ctl'.ctrl_sp > ctl.ctrl_sp =>
           /\ ctl'.ctrl_sp = ctl.ctrl_sp + 1
           /\ UNCHANGED <<gosub, nested, cstack>>]_vars
  BY DepthStep
<1> QED BY <1>1, <1>2, <1>3, Invariant, PTL DEF Spec, NoResurrection
-----------------------------------------------------------------------------
(* Callers are kept.  What the refinement mapping reads off the variables is *)
(* written here as operators on them: the callers saved by the first k C     *)
(* frames and the first m gosub frames.                                      *)

\* The structure that a saved frame stands for.
Seen(f, s) == [if_depth |-> f.if_depth,
               inl |-> f.inl /\ "execute" \notin Kinds,
               selects |-> [i \in f.sel_base + 1..f.sel_sp |-> s[i]]]

FromNested(s, ns, f) == [depth |-> <<f.gsp, f.depth>>, structure |-> Seen(ns[f.depth], s)]
FromGosub(s, h, g) ==
  [depth |-> <<g, 0>>,
   structure |-> Seen([h.ctl EXCEPT !.inl = @ /\ h.ret # "line"], s)]

\* No gosub frame g is a caller's that an entry pushed for its own body.
Counts(cs, g) ==
  \A i \in 1..Len(cs) :
    ~(cs[i].kind # "island_sub" /\ Bound(cs[i]) /\ cs[i].gsp + 1 = g)

NestedOnes(s, ns, cs, k) ==
  {FromNested(s, ns, cs[i]) : i \in {j \in 1..k : cs[j].kind # "island_sub"}}
GosubOnes(s, gs, cs, m) == {FromGosub(s, gs[g], g) : g \in {h \in 1..m : Counts(cs, h)}}

Saved(s, gs, ns, cs, k, m) == NestedOnes(s, ns, cs, k) \cup GosubOnes(s, gs, cs, m)

\* The mapping in these terms.
LEMMA MappedTo ==
  /\ status = "run" =>
       /\ callers = Saved(selstack, gosub, nested, cstack, Len(cstack), Len(gosub))
       /\ running = {Seen(ctl, selstack)}
  /\ status # "run" => callers = {} /\ running = {}
<1>1. \A f : StructureOf(f) = Seen(f, selstack)
  BY DEF StructureOf, Seen
<1>2. \A g : OfEntry(g) <=> ~Counts(cstack, g)
  BY DEF OfEntry, Counts, Entries, Bound
<1>3. \A g : CallerIn(g) = FromGosub(selstack, gosub[g], g)
  BY <1>1, Zenon DEF CallerIn, FromGosub
<1>4. \A i : NestedCallerOf(i) = FromNested(selstack, nested, cstack[i])
  BY <1>1, Zenon DEF NestedCallerOf, FromNested
<1>5. {NestedCallerOf(i) : i \in Entries}
        = NestedOnes(selstack, nested, cstack, Len(cstack))
  BY <1>4, Zenon DEF NestedOnes, Entries
<1>6. {CallerIn(g) : g \in {h \in 1..Len(gosub) : ~OfEntry(h)}}
        = GosubOnes(selstack, gosub, cstack, Len(gosub))
  <2>1. {h \in 1..Len(gosub) : ~OfEntry(h)} = {h \in 1..Len(gosub) : Counts(cstack, h)}
    BY <1>2, Zenon
  <2> QED BY <1>3, <2>1, Zenon DEF GosubOnes
<1> QED BY <1>1, <1>5, <1>6, Zenon DEF callers, running, Saved

\* What the slots above n hold is nothing to a frame below.
LEMMA SeenSame ==
  ASSUME NEW f \in Frame, NEW n \in Nat, f.sel_sp <= n, NEW s, NEW t,
         \A i \in 1..MaxSel : i <= n => t[i] = s[i]
  PROVE  Seen(f, t) = Seen(f, s)
<1>1. f.sel_sp \in 0..MaxSel /\ f.sel_base \in Nat /\ MaxSel \in Nat
  BY LimitsAssumption, SMT DEF Frame
<1>2. \A i \in f.sel_base + 1..f.sel_sp : i \in 1..MaxSel /\ i <= n
  BY <1>1, SMT
<1>3. [i \in f.sel_base + 1..f.sel_sp |-> t[i]] = [i \in f.sel_base + 1..f.sel_sp |-> s[i]]
  BY <1>2
<1> QED BY <1>3, Zenon DEF Seen

\* The first k C frames and the first m gosub frames, and the values of their
\* SELECTs, are those they were; n bounds the slots they own.
FramesStay(gs, hs, ns, ms, cs, ds, k, m, n) ==
  /\ \A i \in 1..k :
       /\ ds[i].kind = cs[i].kind /\ ds[i].gsp = cs[i].gsp /\ ds[i].depth = cs[i].depth
       /\ cs[i].kind # "island_sub" =>
            /\ cs[i].depth \in 1..Len(ns) /\ ms[cs[i].depth] = ns[cs[i].depth]
            /\ ns[cs[i].depth].sel_sp <= n
  /\ \A g \in 1..m :
       /\ g \in 1..Len(gs) /\ hs[g] = gs[g] /\ gs[g].ctl.sel_sp <= n
       /\ Counts(ds, g) <=> Counts(cs, g)
SlotsStay(s, t, n) == \A i \in 1..MaxSel : i <= n => t[i] = s[i]

\* Frames that are still there stand for the same callers.
LEMMA SavedSame ==
  ASSUME NEW s, NEW t, NEW gs \in Seq(Gosub), NEW hs, NEW ns \in Seq(Frame), NEW ms,
         NEW cs, NEW ds, NEW k, NEW m, NEW n \in Nat,
         FramesStay(gs, hs, ns, ms, cs, ds, k, m, n), SlotsStay(s, t, n)
  PROVE  Saved(t, hs, ms, ds, k, m) = Saved(s, gs, ns, cs, k, m)
<1> USE DEF FramesStay, SlotsStay
<1>1. ASSUME NEW i \in 1..k, cs[i].kind # "island_sub"
      PROVE  FromNested(t, ms, ds[i]) = FromNested(s, ns, cs[i])
  <2>1. ns[cs[i].depth] \in Frame /\ ns[cs[i].depth].sel_sp <= n
    BY <1>1, ElementOfSeq
  <2>2. Seen(ns[cs[i].depth], t) = Seen(ns[cs[i].depth], s)
    BY <2>1, SeenSame
  <2> QED BY <1>1, <2>2 DEF FromNested
<1>2. ASSUME NEW g \in 1..m
      PROVE  FromGosub(t, hs[g], g) = FromGosub(s, gs[g], g)
  <2> DEFINE f == [gs[g].ctl EXCEPT !.inl = @ /\ gs[g].ret # "line"]
  <2>1. gs[g] \in Gosub /\ gs[g].ctl.sel_sp <= n
    BY ElementOfSeq
  <2>2. gs[g].ctl \in Frame /\ gs[g].ctl.inl \in BOOLEAN
    BY <2>1, SMT DEF Gosub, Frame
  <2>3. (gs[g].ctl.inl /\ gs[g].ret # "line") \in BOOLEAN
    BY <2>2
  <2>4. f \in Frame /\ f.sel_sp <= n
    <3>1. f \in Frame
      BY <2>2, <2>3, InlType
    <3>2. f.sel_sp = gs[g].ctl.sel_sp
      BY <2>2 DEF Frame
    <3> HIDE DEF f
    <3> QED BY <2>1, <3>1, <3>2
  <2> HIDE DEF f
  <2>5. Seen(f, t) = Seen(f, s)
    BY <2>4, SeenSame
  <2> QED BY <2>5, Zenon DEF FromGosub, f
<1>3. NestedOnes(t, ms, ds, k) = NestedOnes(s, ns, cs, k)
  <2>1. {j \in 1..k : ds[j].kind # "island_sub"} = {j \in 1..k : cs[j].kind # "island_sub"}
    OBVIOUS
  <2> DEFINE D == {j \in 1..k : cs[j].kind # "island_sub"}
  <2>2. \A i \in D : FromNested(t, ms, ds[i]) = FromNested(s, ns, cs[i])
    BY <1>1
  <2> HIDE DEF D
  <2>3. {FromNested(t, ms, ds[i]) : i \in D} = {FromNested(s, ns, cs[i]) : i \in D}
    BY <2>2
  <2> QED BY <2>1, <2>3 DEF NestedOnes, D
<1>4. GosubOnes(t, hs, ds, m) = GosubOnes(s, gs, cs, m)
  <2>1. {h \in 1..m : Counts(ds, h)} = {h \in 1..m : Counts(cs, h)}
    OBVIOUS
  <2> QED BY <1>2, <2>1, Zenon DEF GosubOnes
<1> QED BY <1>3, <1>4 DEF Saved

\* One C frame more, and one gosub frame more.
LEMMA SavedNested ==
  ASSUME NEW s, NEW gs, NEW ns, NEW cs, NEW k \in Nat, NEW m
  PROVE  Saved(s, gs, ns, cs, k + 1, m) =
           Saved(s, gs, ns, cs, k, m)
             \cup (IF cs[k + 1].kind # "island_sub"
                   THEN {FromNested(s, ns, cs[k + 1])} ELSE {})
<1>1. 1..k + 1 = 1..k \cup {k + 1}
  BY SMT
<1>2. NestedOnes(s, ns, cs, k + 1)
        = NestedOnes(s, ns, cs, k) \cup (IF cs[k + 1].kind # "island_sub"
                                         THEN {FromNested(s, ns, cs[k + 1])} ELSE {})
  BY <1>1, Zenon DEF NestedOnes
<1> QED BY <1>2, Zenon DEF Saved

LEMMA SavedGosub ==
  ASSUME NEW s, NEW gs, NEW ns, NEW cs, NEW k, NEW m \in Nat
  PROVE  Saved(s, gs, ns, cs, k, m + 1) =
           Saved(s, gs, ns, cs, k, m)
             \cup (IF Counts(cs, m + 1) THEN {FromGosub(s, gs[m + 1], m + 1)} ELSE {})
<1>1. 1..m + 1 = 1..m \cup {m + 1}
  BY SMT
<1>2. GosubOnes(s, gs, cs, m + 1)
        = GosubOnes(s, gs, cs, m) \cup (IF Counts(cs, m + 1)
                                        THEN {FromGosub(s, gs[m + 1], m + 1)} ELSE {})
  BY <1>1, Zenon DEF GosubOnes
<1> QED BY <1>2, Zenon DEF Saved

\* C frames in the order in which they were entered.
Placed(cs) ==
  /\ Len(cs) \in Nat
  /\ \A i \in 1..Len(cs) :
       /\ cs[i].gsp \in Nat /\ cs[i].depth \in Nat
       /\ cs[i].kind # "island_sub" => 0 < cs[i].depth
  /\ \A i, j \in 1..Len(cs) :
       i < j => /\ cs[i].gsp <= cs[j].gsp
                /\ cs[j].kind # "island_sub" => cs[i].depth < cs[j].depth

\* A program that runs has them so.
LEMMA FramesPlaced ==
  ASSUME TypeOK, Inv, RunSel(ctl, selstack, gosub, nested, cstack)
  PROVE  Placed(cstack)
<1>1. Len(cstack) \in Nat /\ \A i \in 1..Len(cstack) : cstack[i] \in CFrame
  BY TopTypes
<1>2. \A i \in 1..Len(cstack) : cstack[i].gsp \in Nat /\ cstack[i].depth \in Nat
  BY <1>1, DepthNat
<1>3. \A i \in 1..Len(cstack) : cstack[i].kind # "island_sub" => 0 < cstack[i].depth
  BY <1>2, SMT DEF RunSel, DepthOrder
<1>4. ASSUME NEW i \in 1..Len(cstack), NEW j \in 1..Len(cstack), i < j
      PROVE  /\ cstack[i].gsp <= cstack[j].gsp
             /\ cstack[j].kind # "island_sub" => cstack[i].depth < cstack[j].depth
  <2>1. Owned(cstack[i]) <= cstack[j].gsp
    BY <1>4, Zenon DEF Inv, CallsInv
  <2>2. cstack[i].gsp <= cstack[j].gsp
    BY <1>2, <2>1, SMT DEF Owned
  <2>3. cstack[j].kind # "island_sub" => cstack[i].depth < cstack[j].depth
    BY <1>4, Zenon DEF RunSel, DepthOrder
  <2> QED BY <2>2, <2>3
<1> QED BY <1>1, <1>2, <1>3, <1>4 DEF Placed

\* The callers of the one that a nested frame stands for.
LEMMA OutsideNested ==
  ASSUME NEW s, NEW gs, NEW ns, NEW cs, Placed(cs), NEW m \in Nat,
         NEW e \in 1..Len(cs), cs[e].kind # "island_sub", cs[e].gsp <= m
  PROVE  {a \in Saved(s, gs, ns, cs, Len(cs), m) : A!Outside(a, FromNested(s, ns, cs[e]))}
           = Saved(s, gs, ns, cs, e - 1, cs[e].gsp)
<1> DEFINE c == FromNested(s, ns, cs[e])
           q == cs[e].gsp
           I == {j \in 1..Len(cs) : cs[j].kind # "island_sub"}
           J == {j \in 1..e - 1 : cs[j].kind # "island_sub"}
<1>1. /\ c.depth[1] = q /\ c.depth[2] = cs[e].depth /\ 0 < cs[e].depth
      /\ Len(cs) \in Nat /\ q \in Nat /\ cs[e].depth \in Nat
  BY DEF FromNested, Placed
<1>2. \A i \in I : A!Outside(FromNested(s, ns, cs[i]), c) <=> i \in J
  <2> SUFFICES ASSUME NEW i \in I PROVE A!Outside(FromNested(s, ns, cs[i]), c) <=> i \in J
    OBVIOUS
  <2>1. /\ i \in 1..Len(cs) /\ cs[i].gsp \in Nat /\ cs[i].depth \in Nat
        /\ i < e => cs[i].gsp <= q /\ cs[i].depth < cs[e].depth
        /\ e < i => q <= cs[i].gsp /\ cs[e].depth < cs[i].depth
        /\ i = e => cs[i].gsp = q
    BY DEF Placed
  <2>2. i \in J <=> i < e
    BY <1>1, SMT
  <2>3. A!Outside(FromNested(s, ns, cs[i]), c) <=>
          (cs[i].gsp < q \/ (cs[i].gsp = q /\ cs[i].depth < cs[e].depth))
    <3>1. FromNested(s, ns, cs[i]).depth = <<cs[i].gsp, cs[i].depth>>
      BY DEF FromNested
    <3> HIDE DEF c, q, I, J
    <3> QED BY <1>1, <3>1 DEF A!Outside
  <2>4. i < e \/ i = e \/ e < i
    BY <1>1, <2>1, SMT
  <2> HIDE DEF q, c, I, J
  <2> QED BY <1>1, <2>1, <2>2, <2>3, <2>4, SMT
<1>3. \A g \in 1..m : A!Outside(FromGosub(s, gs[g], g), c) <=> g \in 1..q
  <2> SUFFICES ASSUME NEW g \in 1..m
               PROVE  A!Outside(FromGosub(s, gs[g], g), c) <=> g \in 1..q
    OBVIOUS
  <2>1. A!Outside(FromGosub(s, gs[g], g), c) <=> (g < q \/ (g = q /\ 0 < cs[e].depth))
    <3>1. FromGosub(s, gs[g], g).depth = <<g, 0>>
      BY DEF FromGosub
    <3> HIDE DEF c, q, I, J
    <3> QED BY <1>1, <3>1 DEF A!Outside
  <2> HIDE DEF q, c
  <2> QED BY <1>1, <2>1, SMT
<1>4. J \subseteq I /\ 1..q \subseteq 1..m
  BY <1>1, SMT
<1> HIDE DEF c, q, I, J
<1>5. {a \in {FromNested(s, ns, cs[i]) : i \in I} : A!Outside(a, c)}
        = {FromNested(s, ns, cs[i]) : i \in J}
  BY <1>2, <1>4
<1>6. {a \in GosubOnes(s, gs, cs, m) : A!Outside(a, c)} = GosubOnes(s, gs, cs, q)
  BY <1>3, <1>4 DEF GosubOnes
<1>7. {a \in NestedOnes(s, ns, cs, Len(cs)) : A!Outside(a, c)}
        = NestedOnes(s, ns, cs, e - 1)
  BY <1>5 DEF NestedOnes, I, J
<1> QED BY <1>6, <1>7, Zenon DEF Saved, c, q

\* ... and of the one that the newest gosub frame stands for.
LEMMA OutsideGosub ==
  ASSUME NEW s, NEW gs, NEW ns, NEW cs, Placed(cs), NEW m \in Nat,
         NEW k \in 0..Len(cs), \A i \in 1..k : cs[i].gsp <= m,
         \A i \in k + 1..Len(cs) : cs[i].kind # "island_sub" => m < cs[i].gsp
  PROVE  {a \in Saved(s, gs, ns, cs, Len(cs), m + 1) :
            A!Outside(a, FromGosub(s, gs[m + 1], m + 1))}
           = Saved(s, gs, ns, cs, k, m)
<1> DEFINE c == FromGosub(s, gs[m + 1], m + 1)
           I == {j \in 1..Len(cs) : cs[j].kind # "island_sub"}
           J == {j \in 1..k : cs[j].kind # "island_sub"}
<1>1. c.depth[1] = m + 1 /\ c.depth[2] = 0 /\ Len(cs) \in Nat
  BY DEF FromGosub, Placed
<1>2. \A i \in I : A!Outside(FromNested(s, ns, cs[i]), c) <=> i \in J
  <2> SUFFICES ASSUME NEW i \in I PROVE A!Outside(FromNested(s, ns, cs[i]), c) <=> i \in J
    OBVIOUS
  <2>1. /\ i \in 1..Len(cs) /\ cs[i].gsp \in Nat /\ cs[i].depth \in Nat
        /\ cs[i].kind # "island_sub"
    BY DEF Placed
  <2>2. i \in J <=> i \in 1..k
    OBVIOUS
  <2>3. A!Outside(FromNested(s, ns, cs[i]), c) <=>
          (cs[i].gsp < m + 1 \/ (cs[i].gsp = m + 1 /\ cs[i].depth < 0))
    <3>1. FromNested(s, ns, cs[i]).depth = <<cs[i].gsp, cs[i].depth>>
      BY DEF FromNested
    <3> HIDE DEF c, I, J
    <3> QED BY <1>1, <3>1 DEF A!Outside
  <2>4. i \in 1..k \/ i \in k + 1..Len(cs)
    BY <1>1, <2>1, SMT
  <2> HIDE DEF c, I, J
  <2> QED BY <1>1, <2>1, <2>2, <2>3, <2>4, SMT
<1>3. \A g \in 1..m + 1 : A!Outside(FromGosub(s, gs[g], g), c) <=> g \in 1..m
  <2> SUFFICES ASSUME NEW g \in 1..m + 1
               PROVE  A!Outside(FromGosub(s, gs[g], g), c) <=> g \in 1..m
    OBVIOUS
  <2>1. A!Outside(FromGosub(s, gs[g], g), c) <=> (g < m + 1 \/ (g = m + 1 /\ 0 < 0))
    <3>1. FromGosub(s, gs[g], g).depth = <<g, 0>>
      BY DEF FromGosub
    <3> HIDE DEF c, I, J
    <3> QED BY <1>1, <3>1 DEF A!Outside
  <2> HIDE DEF c
  <2> QED BY <2>1, SMT
<1>4. J \subseteq I /\ 1..m \subseteq 1..m + 1
  BY <1>1, SMT
<1> HIDE DEF c, I, J
<1>5. {a \in {FromNested(s, ns, cs[i]) : i \in I} : A!Outside(a, c)}
        = {FromNested(s, ns, cs[i]) : i \in J}
  BY <1>2, <1>4
<1>6. {a \in GosubOnes(s, gs, cs, m + 1) : A!Outside(a, c)} = GosubOnes(s, gs, cs, m)
  BY <1>3, <1>4 DEF GosubOnes
<1>7. {a \in NestedOnes(s, ns, cs, Len(cs)) : A!Outside(a, c)} = NestedOnes(s, ns, cs, k)
  BY <1>5 DEF NestedOnes, I, J
<1> QED BY <1>6, <1>7, Zenon DEF Saved, c

\* The step leaves the first k C frames, the first m gosub frames, and the
\* snapshots that are still there.
Remain(k, m) ==
  /\ k \in Nat /\ m \in Nat
  /\ k <= Len(cstack) /\ k <= Len(cstack') /\ m <= Len(gosub) /\ m <= Len(gosub')
  /\ \A i \in 1..k : /\ cstack'[i].kind = cstack[i].kind
                     /\ cstack'[i].gsp = cstack[i].gsp
                     /\ cstack'[i].depth = cstack[i].depth
  /\ \A g \in 1..m : gosub'[g] = gosub[g]
  /\ \A j \in 1..Len(nested) : j <= Len(nested') => nested'[j] = nested[j]

\* They stand for the same callers before and after.
LEMMA CallersRemain ==
  ASSUME TypeOK, TypeOK', RunSel(ctl, selstack, gosub, nested, cstack),
         RunSel(ctl, selstack, gosub, nested, cstack)',
         NEW k, NEW m, Remain(k, m),
         \A g \in 1..m : Counts(cstack', g) <=> Counts(cstack, g),
         \A i \in 1..MaxSel : i <= ctl'.sel_base => selstack'[i] = selstack[i]
  PROVE  Saved(selstack', gosub', nested', cstack', k, m)
           = Saved(selstack, gosub, nested, cstack, k, m)
<1> DEFINE n == ctl'.sel_base
<1>1. /\ gosub \in Seq(Gosub) /\ nested \in Seq(Frame) /\ ctl' \in Frame /\ n \in Nat
      /\ Len(gosub) \in Nat /\ Len(nested) \in Nat /\ Len(cstack) \in Nat
      /\ Len(gosub') \in Nat /\ Len(nested') \in Nat /\ Len(cstack') \in Nat
      /\ k \in Nat /\ m \in Nat
  <2>1. /\ gosub' \in Seq(Gosub) /\ nested' \in Seq(Frame) /\ cstack' \in Seq(CFrame)
        /\ ctl' \in Frame
    BY DEF TypeOK
  <2> QED BY <2>1, LiveTypes, FrameNat, LenProperties DEF Remain
<1>2. ASSUME NEW i \in 1..k
      PROVE  /\ cstack'[i].kind = cstack[i].kind /\ cstack'[i].gsp = cstack[i].gsp
             /\ cstack'[i].depth = cstack[i].depth
             /\ cstack[i].kind # "island_sub" =>
                  /\ cstack[i].depth \in 1..Len(nested)
                  /\ nested'[cstack[i].depth] = nested[cstack[i].depth]
                  /\ nested[cstack[i].depth].sel_sp <= n
  <2>1. i \in 1..Len(cstack) /\ i \in 1..Len(cstack') /\ cstack[i].depth \in Nat
    <3>1. i \in 1..Len(cstack) /\ i \in 1..Len(cstack')
      BY <1>1, <1>2, SMT DEF Remain
    <3> QED BY <3>1, LiveTypes, SelTypes
  <2>2. /\ cstack'[i].kind = cstack[i].kind /\ cstack'[i].gsp = cstack[i].gsp
        /\ cstack'[i].depth = cstack[i].depth
    BY <1>2 DEF Remain
  <2>3. ASSUME cstack[i].kind # "island_sub"
        PROVE  /\ cstack[i].depth \in 1..Len(nested)
               /\ nested'[cstack[i].depth] = nested[cstack[i].depth]
               /\ nested[cstack[i].depth].sel_sp <= n
    <3>1. 0 < cstack[i].depth /\ cstack[i].depth <= Len(nested)
      BY <2>1, <2>3, Zenon DEF RunSel, DepthOrder
    <3>2. cstack[i].depth <= Len(nested')
      BY <2>1, <2>2, Zenon DEF RunSel, DepthOrder
    <3>3. cstack[i].depth \in 1..Len(nested) /\ cstack[i].depth \in 1..Len(nested')
      BY <1>1, <2>1, <3>1, <3>2, SMT
    <3>4. nested'[cstack[i].depth] = nested[cstack[i].depth]
      BY <3>2, <3>3 DEF Remain
    <3>5. Under(nested'[cstack[i].depth], ctl')
      BY <3>3 DEF RunSel
    <3> QED BY <3>3, <3>4, <3>5 DEF Under
  <2> QED BY <2>2, <2>3
<1>3. ASSUME NEW g \in 1..m
      PROVE  /\ g \in 1..Len(gosub) /\ gosub'[g] = gosub[g] /\ gosub[g].ctl.sel_sp <= n
             /\ Counts(cstack', g) <=> Counts(cstack, g)
  <2>1. g \in 1..Len(gosub) /\ g \in 1..Len(gosub')
    BY <1>1, <1>3, SMT DEF Remain
  <2>2. gosub'[g] = gosub[g]
    BY <1>3 DEF Remain
  <2>3. Under(gosub'[g].ctl, ctl')
    BY <2>1 DEF RunSel
  <2> QED BY <2>1, <2>2, <2>3, <1>3 DEF Under
<1>4. \A i \in 1..MaxSel : i <= n => selstack'[i] = selstack[i]
  OBVIOUS
<1> HIDE DEF n
<1>5. /\ FramesStay(gosub, gosub', nested, nested', cstack, cstack', k, m, n)
      /\ SlotsStay(selstack, selstack', n)
  BY <1>2, <1>3, <1>4, Zenon DEF FramesStay, SlotsStay
<1> QED BY <1>1, <1>5, SavedSame

\* Whose frames are cut owned no gosub frame that is left.
LEMMA CountsCut ==
  ASSUME NEW cs, NEW ds, NEW k, NEW m, Len(cs) \in Nat, k = Len(ds), k \in Nat,
         k <= Len(cs), \A i \in 1..k : ds[i] = cs[i], m \in Nat,
         \A i \in 1..Len(cs) : cs[i].gsp \in Nat,
         \A i \in k + 1..Len(cs) : cs[i].kind # "island_sub" => m <= cs[i].gsp
  PROVE  \A g \in 1..m : Counts(ds, g) <=> Counts(cs, g)
<1> SUFFICES ASSUME NEW g \in 1..m PROVE Counts(ds, g) <=> Counts(cs, g)
  OBVIOUS
<1> DEFINE Mine(f) == f.kind # "island_sub" /\ Bound(f) /\ f.gsp + 1 = g
<1>1. \A i \in 1..k : i \in 1..Len(cs) /\ (Mine(ds[i]) <=> Mine(cs[i]))
  BY SMT
<1>2. \A i \in 1..Len(cs) : i \in 1..k \/ ~Mine(cs[i])
  <2> SUFFICES ASSUME NEW i \in 1..Len(cs), i \notin 1..k, cs[i].kind # "island_sub"
               PROVE  cs[i].gsp + 1 # g
    OBVIOUS
  <2>1. i \in k + 1..Len(cs) /\ g \in Nat /\ g <= m
    BY SMT
  <2> QED BY <2>1, SMT
<1>3. /\ Counts(ds, g) <=> \A i \in 1..k : ~Mine(ds[i])
      /\ Counts(cs, g) <=> \A i \in 1..Len(cs) : ~Mine(cs[i])
  BY DEF Counts
<1> HIDE DEF Mine
<1> QED BY <1>1, <1>2, <1>3

\* Frames that differ in the loop depth only, which is nothing of the structure.
Alike(f, h) == /\ f.if_depth = h.if_depth /\ f.inl = h.inl
               /\ f.sel_sp = h.sel_sp /\ f.sel_base = h.sel_base

LEMMA SeenAlike ==
  ASSUME NEW f, NEW h \in Frame, Alike(f, h), NEW s, NEW t, SlotsStay(s, t, h.sel_sp)
  PROVE  Seen(f, t) = Seen(h, s)
<1>1. Seen(f, t) = Seen(h, t)
  BY Zenon DEF Alike, Seen
<1>2. h.sel_sp \in Nat /\ h.sel_sp <= h.sel_sp
  BY FrameNat, SMT
<1>3. Seen(h, t) = Seen(h, s)
  BY <1>2, SeenSame DEF SlotsStay
<1> QED BY <1>1, <1>3

\* What a return does to the frames: the first k C frames are left, and the
\* running activation goes on with what the newest gosub frame saved ...
LandsOnGosub(k) ==
  /\ k \in 0..Len(cstack) /\ Len(cstack') = k /\ \A i \in 1..k : cstack'[i] = cstack[i]
  /\ gosub # <<>> /\ gosub' = Pop(gosub)
  /\ \A j \in 1..Len(nested) : j <= Len(nested') => nested'[j] = nested[j]
  /\ ctl' = Returned(ctl, Top(gosub))
  /\ selstack' = SelFreed(selstack, ctl, Top(gosub).ctl.sel_sp)
  /\ \A i \in 1..k : cstack[i].gsp < Len(gosub)
  /\ \A i \in k + 1..Len(cstack) :
       cstack[i].kind # "island_sub" => Len(gosub) <= cstack[i].gsp
  /\ Counts(cstack, Len(gosub))

\* ... or the snapshot of the C frame e.
LandsOnNested(e) ==
  /\ e \in 1..Len(cstack) /\ cstack[e].kind # "island_sub"
  /\ Len(cstack') = e - 1 /\ \A i \in 1..e - 1 : cstack'[i] = cstack[i]
  /\ Len(gosub') = cstack[e].gsp /\ cstack[e].gsp <= Len(gosub)
  /\ \A g \in 1..cstack[e].gsp : gosub'[g] = gosub[g]
  /\ \A j \in 1..Len(nested) : j <= Len(nested') => nested'[j] = nested[j]
  /\ Alike(ctl', nested[cstack[e].depth])
  /\ \A i \in 1..MaxSel : i <= ctl'.sel_sp => selstack'[i] = selstack[i]

\* The mapping after a step.
LEMMA MappedNext ==
  ASSUME status' = "run"
  PROVE  /\ callers' = Saved(selstack', gosub', nested', cstack',
                            Len(cstack'), Len(gosub'))
         /\ running' = {Seen(ctl', selstack')}
<1>1. (/\ status = "run" =>
            /\ callers = Saved(selstack, gosub, nested, cstack, Len(cstack), Len(gosub))
            /\ running = {Seen(ctl, selstack)}
       /\ status # "run" => callers = {} /\ running = {})'
  BY MappedTo, PTL
<1> QED BY <1>1

\* A return to a gosub frame.
LEMMA LeaveToGosub ==
  ASSUME TypeOK, TypeOK', Inv, RunSel(ctl, selstack, gosub, nested, cstack),
         RunSel(ctl, selstack, gosub, nested, cstack)',
         status = "run", status' = "run", NEW k, LandsOnGosub(k)
  PROVE  A!Leave
<1> DEFINE m == Len(gosub) - 1
           g == gosub[Len(gosub)]
           f == [g.ctl EXCEPT !.inl = @ /\ g.ret # "line"]
           c == FromGosub(selstack, gosub[m + 1], m + 1)
<1>1. /\ Len(gosub) \in Nat /\ m \in Nat /\ m + 1 = Len(gosub) /\ g \in Gosub
      /\ Len(cstack) \in Nat /\ k \in 0..Len(cstack) /\ k \in Nat /\ k <= Len(cstack)
      /\ Len(gosub') = m /\ g = Top(gosub) /\ m <= Len(gosub)
      /\ \A h \in 1..m : gosub'[h] = gosub[h]
  <2>1. /\ gosub # <<>> /\ gosub' = Pop(gosub) /\ k \in 0..Len(cstack)
    BY DEF LandsOnGosub
  <2>2. /\ Len(gosub') = Len(gosub) - 1 /\ Top(gosub) \in Gosub
        /\ Len(gosub) \in 1..MaxGosub /\ Len(cstack) \in Nat
        /\ \A h \in 1..Len(gosub) - 1 : gosub'[h] = gosub[h]
    BY <2>1, TopTypes
  <2> QED BY <2>1, <2>2, LimitsAssumption, SMT DEF Top
<1>2. Remain(k, m)
  <2>1. m <= m /\ k <= k
    BY <1>1, SMT
  <2> QED BY <1>1, <2>1 DEF Remain, LandsOnGosub
<1>3. \A i \in 1..Len(cstack) : cstack[i].gsp \in Nat
  BY LiveTypes, SelTypes
<1>4. \A h \in 1..m : Counts(cstack', h) <=> Counts(cstack, h)
  <2>1. \A i \in k + 1..Len(cstack) : cstack[i].kind # "island_sub" =>
            m <= cstack[i].gsp
    <3> SUFFICES ASSUME NEW i \in k + 1..Len(cstack), cstack[i].kind # "island_sub"
                 PROVE  m <= cstack[i].gsp
      OBVIOUS
    <3>1. Len(gosub) <= cstack[i].gsp /\ i \in 1..Len(cstack)
      BY <1>1, SMT DEF LandsOnGosub
    <3> HIDE DEF m
    <3> QED BY <1>1, <1>3, <3>1, SMT
  <2>2. k = Len(cstack') /\ \A i \in 1..k : cstack'[i] = cstack[i]
    BY DEF LandsOnGosub
  <2> HIDE DEF m
  <2> QED BY <1>1, <1>3, <2>1, <2>2, CountsCut
<1>5. /\ f \in Frame /\ Alike(ctl', f) /\ f.sel_sp \in 0..MaxSel
      /\ f.sel_sp = g.ctl.sel_sp
  <2>1. /\ g.ctl \in Frame /\ ctl \in Frame /\ (g.ctl.inl /\ g.ret # "line") \in BOOLEAN
    BY <1>1, SMT DEF Gosub, Frame, TypeOK
  <2>2. ctl' = [Restored(ctl, g.ctl) EXCEPT !.inl = @ /\ g.ret # "line"]
    BY <1>1 DEF LandsOnGosub, Returned
  <2>3. Alike(ctl', f) /\ f.sel_sp = g.ctl.sel_sp
    BY <2>1, <2>2, SMT DEF Alike, Restored, Frame
  <2>4. f \in Frame
    BY <2>1, InlType
  <2> QED BY <2>3, <2>4, FrameNat
<1>6. SlotsStay(selstack, selstack', f.sel_sp)
  <2>1. selstack' = SelFreed(selstack, ctl, f.sel_sp) /\ selstack \in Slots /\ ctl \in Frame
    BY <1>1, <1>5, LiveTypes DEF LandsOnGosub
  <2> HIDE DEF f
  <2> QED BY <1>5, <2>1, SlotsLeft DEF SlotsStay
<1>7. \A i \in 1..MaxSel : i <= ctl'.sel_base => selstack'[i] = selstack[i]
  <2>1. ctl'.sel_base <= ctl'.sel_sp /\ ctl'.sel_sp = f.sel_sp
    BY <1>5 DEF RunSel, Kept, Alike
  <2>2. ctl'.sel_base \in Nat /\ ctl'.sel_sp \in Nat
    BY FrameNat DEF TypeOK
  <2> HIDE DEF f
  <2> QED BY <1>6, <2>1, <2>2, SMT DEF SlotsStay
<1>8. callers' = Saved(selstack, gosub, nested, cstack, k, m)
  <2>1. Len(cstack') = k
    BY DEF LandsOnGosub
  <2> HIDE DEF m
  <2> QED BY <1>1, <1>2, <1>4, <1>7, <2>1, CallersRemain, MappedNext
<1>9. Seen(ctl', selstack') = Seen(f, selstack)
  <2> HIDE DEF f
  <2> QED BY <1>5, <1>6, SeenAlike
<1>10. c.structure = Seen(f, selstack)
  BY <1>1 DEF FromGosub
<1>11. callers = Saved(selstack, gosub, nested, cstack, Len(cstack), m + 1)
  BY <1>1, MappedTo
<1>12. c \in callers
  <2>1. Counts(cstack, m + 1)
    BY <1>1 DEF LandsOnGosub
  <2> HIDE DEF c, m
  <2>2. c \in GosubOnes(selstack, gosub, cstack, m + 1)
    <3>1. m + 1 \in 1..m + 1
      BY <1>1, SMT
    <3> QED BY <2>1, <3>1, Zenon DEF GosubOnes, c
  <2> QED BY <1>11, <2>2 DEF Saved
<1>13. A!CallersOf(c) = Saved(selstack, gosub, nested, cstack, k, m)
  <2>1. /\ Placed(cstack)
        /\ \A i \in 1..k : cstack[i].gsp <= m
        /\ \A i \in k + 1..Len(cstack) : cstack[i].kind # "island_sub" => m < cstack[i].gsp
    <3>1. Placed(cstack)
      BY FramesPlaced
    <3>2. ASSUME NEW i \in 1..k PROVE cstack[i].gsp <= m
      <4>1. cstack[i].gsp < Len(gosub) /\ i \in 1..Len(cstack)
        BY <1>1, SMT DEF LandsOnGosub
      <4> QED BY <1>1, <1>3, <4>1, SMT
    <3>3. ASSUME NEW i \in k + 1..Len(cstack), cstack[i].kind # "island_sub"
          PROVE  m < cstack[i].gsp
      <4>1. Len(gosub) <= cstack[i].gsp /\ i \in 1..Len(cstack)
        BY <1>1, <3>3, SMT DEF LandsOnGosub
      <4> QED BY <1>1, <1>3, <4>1, SMT
    <3> QED BY <3>1, <3>2, <3>3
  <2> HIDE DEF m
  <2>2. {a \in Saved(selstack, gosub, nested, cstack, Len(cstack), m + 1) : A!Outside(a, c)}
          = Saved(selstack, gosub, nested, cstack, k, m)
    BY <1>1, <2>1, OutsideGosub
  <2> QED BY <1>11, <2>2, Zenon DEF A!CallersOf
<1>14. running' = {Seen(ctl', selstack')}
  BY MappedNext
<1> HIDE DEF c, f, m
<1> QED BY <1>8, <1>9, <1>10, <1>12, <1>13, <1>14, Zenon DEF A!Leave

\* A return to the snapshot of a C frame.
LEMMA LeaveToNested ==
  ASSUME TypeOK, TypeOK', Inv, RunSel(ctl, selstack, gosub, nested, cstack),
         RunSel(ctl, selstack, gosub, nested, cstack)',
         status = "run", status' = "run", NEW e, LandsOnNested(e)
  PROVE  A!Leave
<1> DEFINE q == cstack[e].gsp
           f == nested[cstack[e].depth]
           c == FromNested(selstack, nested, cstack[e])
<1>1. /\ Len(gosub) \in Nat /\ Len(cstack) \in Nat /\ q \in Nat /\ q <= Len(gosub)
      /\ e \in 1..Len(cstack) /\ e - 1 \in Nat /\ e - 1 <= Len(cstack)
      /\ Len(gosub') = q /\ Len(cstack') = e - 1 /\ cstack[e].kind # "island_sub"
      /\ \A h \in 1..q : gosub'[h] = gosub[h]
  <2>1. /\ e \in 1..Len(cstack) /\ q \in Nat /\ Len(gosub) \in Nat
        /\ Len(cstack) \in Nat
    BY LiveTypes, SelTypes DEF LandsOnNested
  <2>2. e - 1 \in Nat /\ e - 1 <= Len(cstack)
    BY <2>1, SMT
  <2> QED BY <2>1, <2>2, Zenon DEF LandsOnNested
<1>2. f \in Frame /\ Alike(ctl', f)
  <2>1. cstack[e].depth <= Len(nested) /\ 0 < cstack[e].depth
    BY <1>1, Zenon DEF RunSel, DepthOrder
  <2>2. cstack[e].depth \in Nat /\ Len(nested) \in Nat /\ nested \in Seq(Frame)
    BY <1>1, LiveTypes, SelTypes
  <2>3. cstack[e].depth \in 1..Len(nested)
    BY <2>1, <2>2, SMT
  <2> QED BY <2>2, <2>3, ElementOfSeq DEF LandsOnNested
<1>3. Remain(e - 1, q)
  <2>1. q <= q /\ e - 1 <= e - 1
    BY <1>1, SMT
  <2> QED BY <1>1, <2>1 DEF Remain, LandsOnNested
<1>4. \A i \in 1..Len(cstack) : cstack[i].gsp \in Nat
  BY LiveTypes, SelTypes
<1>5. Placed(cstack)
  BY FramesPlaced
<1>6. \A h \in 1..q : Counts(cstack', h) <=> Counts(cstack, h)
  <2>1. \A i \in e - 1 + 1..Len(cstack) : cstack[i].kind # "island_sub" =>
            q <= cstack[i].gsp
    <3> SUFFICES ASSUME NEW i \in e - 1 + 1..Len(cstack) PROVE q <= cstack[i].gsp
      OBVIOUS
    <3>1. i \in 1..Len(cstack) /\ (e < i \/ i = e)
      BY <1>1, SMT
    <3>2. i = e => q <= cstack[i].gsp
      BY <1>1, SMT
    <3> QED BY <1>1, <1>5, <3>1, <3>2, Zenon DEF Placed
  <2>2. e - 1 = Len(cstack') /\ \A i \in 1..e - 1 : cstack'[i] = cstack[i]
    BY DEF LandsOnNested
  <2> HIDE DEF q
  <2> QED BY <1>1, <1>4, <2>1, <2>2, CountsCut
<1>7. SlotsStay(selstack, selstack', f.sel_sp)
  BY <1>2 DEF LandsOnNested, SlotsStay, Alike
<1>8. \A i \in 1..MaxSel : i <= ctl'.sel_base => selstack'[i] = selstack[i]
  <2>1. ctl'.sel_base <= ctl'.sel_sp /\ ctl'.sel_sp = f.sel_sp
    BY <1>2 DEF RunSel, Kept, Alike
  <2>2. ctl'.sel_base \in Nat /\ ctl'.sel_sp \in Nat
    BY FrameNat DEF TypeOK
  <2> HIDE DEF f
  <2> QED BY <1>7, <2>1, <2>2, SMT DEF SlotsStay
<1>9. callers' = Saved(selstack, gosub, nested, cstack, e - 1, q)
  <2> HIDE DEF q
  <2> QED BY <1>1, <1>3, <1>6, <1>8, CallersRemain, MappedNext
<1>10. Seen(ctl', selstack') = Seen(f, selstack)
  <2> HIDE DEF f
  <2> QED BY <1>2, <1>7, SeenAlike
<1>11. c.structure = Seen(f, selstack)
  BY DEF FromNested
<1>12. callers = Saved(selstack, gosub, nested, cstack, Len(cstack), Len(gosub))
  BY MappedTo
<1>13. c \in callers
  <2>1. c \in NestedOnes(selstack, nested, cstack, Len(cstack))
    BY <1>1, Zenon DEF NestedOnes
  <2> QED BY <1>12, <2>1, Zenon DEF Saved
<1>14. A!CallersOf(c) = Saved(selstack, gosub, nested, cstack, e - 1, q)
  <2>1. {a \in Saved(selstack, gosub, nested, cstack, Len(cstack), Len(gosub)) :
           A!Outside(a, c)} = Saved(selstack, gosub, nested, cstack, e - 1, q)
    BY <1>1, <1>5, OutsideNested
  <2> QED BY <1>12, <2>1, Zenon DEF A!CallersOf
<1>15. running' = {Seen(ctl', selstack')}
  BY MappedNext
<1> HIDE DEF c, f, q
<1> QED BY <1>9, <1>10, <1>11, <1>13, <1>14, <1>15, Zenon DEF A!Leave

\* Every caller that is saved lies outside a newer one.
LEMMA AllOutside ==
  ASSUME NEW s, NEW gs, NEW ns, NEW cs, NEW k, NEW m, NEW c, NEW x, NEW y,
         c.depth = <<x, y>>,
         \A i \in 1..k : cs[i].kind # "island_sub" =>
           (cs[i].gsp < x \/ (cs[i].gsp = x /\ cs[i].depth < y)),
         \A g \in 1..m : g < x \/ (g = x /\ 0 < y)
  PROVE  \A a \in Saved(s, gs, ns, cs, k, m) : A!Outside(a, c)
<1>1. ASSUME NEW i \in 1..k, cs[i].kind # "island_sub"
      PROVE  A!Outside(FromNested(s, ns, cs[i]), c)
  <2>1. FromNested(s, ns, cs[i]).depth = <<cs[i].gsp, cs[i].depth>>
    BY DEF FromNested
  <2> QED BY <1>1, <2>1 DEF A!Outside
<1>2. ASSUME NEW g \in 1..m PROVE A!Outside(FromGosub(s, gs[g], g), c)
  <2>1. FromGosub(s, gs[g], g).depth = <<g, 0>>
    BY DEF FromGosub
  <2> QED BY <2>1 DEF A!Outside
<1> QED BY <1>1, <1>2, Zenon DEF Saved, NestedOnes, GosubOnes

\* The caller of an EXECUTE body that has called something else ends: its
\* structure goes from the snapshot to the gosub frame of the call.
LEMMA HandsOver ==
  ASSUME TypeOK, TypeOK', Inv, RunSel(ctl, selstack, gosub, nested, cstack),
         RunSel(ctl, selstack, gosub, nested, cstack)',
         status = "run", ExecuteEnds, BodyDone, Len(gosub) <= Top(cstack).gsp + 1,
         "execute" \in Kinds
  PROVE  A!HandOver
<1> DEFINE e == Len(cstack)
           q == cstack[e].gsp
           f == nested[cstack[e].depth]
           c == FromNested(selstack, nested, cstack[e])
           d == FromGosub(selstack, gosub'[q + 1], q + 1)
<1>1. /\ status' = "run" /\ Len(gosub) = q + 1 /\ q \in Nat /\ e \in 1..Len(cstack)
      /\ e \in Nat /\ e - 1 \in Nat /\ e - 1 <= e /\ q <= q + 1
      /\ Len(gosub) \in 1..Len(gosub)
      /\ cstack[e].kind = "execute" /\ Top(cstack) = cstack[e] /\ nested # <<>>
      /\ cstack # <<>> /\ gosub \in Seq(Gosub) /\ e - 1 + 1 = e /\ q + 1 <= q + 1
  <2>1. /\ status' = "run" /\ InKind("execute") /\ nested # <<>> /\ cstack # <<>>
        /\ Len(gosub) > Top(cstack).gsp
    BY Zenon DEF ExecuteEnds, BodyDone, InKind
  <2>2. /\ Len(cstack) \in 1..Len(cstack) /\ Top(cstack) = cstack[Len(cstack)]
    BY <2>1, TopTypes
  <2>3. Len(gosub) \in Nat /\ cstack[e].gsp \in Nat /\ Len(cstack) \in Nat
    BY <2>2, LiveTypes, SelTypes
  <2>4. Len(gosub) = q + 1
    BY <2>1, <2>2, <2>3, SMT
  <2>5. e - 1 \in Nat /\ e - 1 <= e /\ q <= q + 1 /\ Len(gosub) \in 1..Len(gosub)
        /\ e - 1 + 1 = e /\ q + 1 <= q + 1
    BY <2>2, <2>3, <2>4, SMT
  <2> QED BY <2>1, <2>2, <2>3, <2>4, <2>5, LiveTypes DEF InKind
<1>2. /\ gosub' = [gosub EXCEPT ![q + 1].ctl = Top(nested)]
      /\ cstack' = Pop(cstack) /\ nested' = Pop(nested) /\ selstack' = selstack
      /\ ctl' = ctl
  <2>1. ~(Len(gosub) = Top(cstack).gsp)
    <3>1. Top(cstack).gsp = q
      BY <1>1
    <3> HIDE DEF e, q
    <3> QED BY <1>1, <3>1, SMT
  <2> HIDE DEF e, q
  <2> QED BY <1>1, <2>1, Zenon DEF ExecuteEnds, q
<1>3. Top(nested) = f /\ f \in Frame
  <2>1. Len(nested) = cstack[e].depth
    <3>1. e # 0
      BY <1>1, SMT
    <3> QED BY <3>1 DEF Inv, DepthInv, Live, DepthAt
  <2> QED BY <1>1, <2>1, TopTypes, LiveTypes, PopType DEF Top
<1>4. /\ Len(gosub') = q + 1 /\ \A h \in 1..q : gosub'[h] = gosub[h]
      /\ gosub'[q + 1] = [gosub[q + 1] EXCEPT !.ctl = f]
  <2>1. gosub' = [gosub EXCEPT ![q + 1].ctl = f]
    BY <1>2, <1>3
  <2>2. q + 1 \in 1..Len(gosub)
    BY <1>1
  <2> HIDE DEF q, f
  <2> QED BY <1>1, <2>1, <2>2, SMT
<1>5. /\ Len(cstack') = e - 1 /\ \A i \in 1..e - 1 : cstack'[i] = cstack[i]
      /\ \A j \in 1..Len(nested) : j <= Len(nested') => nested'[j] = nested[j]
  <2>1. /\ Len(cstack') = e - 1 /\ \A i \in 1..e - 1 : cstack'[i] = cstack[i]
    BY <1>1, <1>2, LiveTypes, PopType
  <2>2. /\ Len(nested') = Len(nested) - 1
        /\ \A j \in 1..Len(nested) - 1 : nested'[j] = nested[j]
        /\ Len(nested) \in Nat
    BY <1>1, <1>2, LiveTypes, PopType
  <2>3. \A j \in 1..Len(nested) : j <= Len(nested') => nested'[j] = nested[j]
    BY <2>2, SMT
  <2> QED BY <2>1, <2>3
<1>6. Remain(e - 1, q)
  <2>1. e - 1 <= e - 1
    BY <1>1, SMT
  <2> HIDE DEF e, q, f
  <2> QED BY <1>1, <1>4, <1>5, <2>1 DEF Remain, e
<1>7. \A i \in 1..Len(cstack) : cstack[i].gsp \in Nat
  BY LiveTypes, SelTypes
<1>8. \A h \in 1..q + 1 : Counts(cstack', h) <=> Counts(cstack, h)
  <2> SUFFICES ASSUME NEW h \in 1..q + 1 PROVE Counts(cstack', h) <=> Counts(cstack, h)
    OBVIOUS
  <2>1. 1..Len(cstack) = 1..Len(cstack') \cup {e} /\ 1..Len(cstack') = 1..e - 1
    BY <1>1, <1>5, SMT
  <2>2. ~Bound(cstack[e])
    BY <1>1 DEF Bound
  <2> HIDE DEF e
  <2> QED BY <1>5, <2>1, <2>2, Zenon DEF Counts
<1>9. Saved(selstack', gosub', nested', cstack', e - 1, q)
        = Saved(selstack, gosub, nested, cstack, e - 1, q)
  <2>1. \A h \in 1..q : Counts(cstack', h) <=> Counts(cstack, h)
    <3>1. \A h \in 1..q : h \in 1..q + 1
      BY <1>1, SMT
    <3> QED BY <1>8, <3>1
  <2>2. \A i \in 1..MaxSel : i <= ctl'.sel_base => selstack'[i] = selstack[i]
    BY <1>2
  <2> HIDE DEF e, q
  <2> QED BY <1>6, <2>1, <2>2, CallersRemain
<1>10. Counts(cstack, q + 1)
  <2> SUFFICES ASSUME NEW i \in 1..Len(cstack), Bound(cstack[i]), cstack[i].gsp + 1 = q + 1
               PROVE  FALSE
    BY DEF Counts
  <2>1. i # e
    BY <1>1 DEF Bound
  <2>2. i < e
    <3>1. e \in Nat /\ e = Len(cstack)
      BY <1>1
    <3> HIDE DEF e, q
    <3> QED BY <2>1, <3>1
  <2>3. Owned(cstack[i]) <= q
    <3>1. i \in 1..Len(cstack) /\ e \in 1..Len(cstack) /\ i < e
      BY <1>1, <2>2
    <3> HIDE DEF e
    <3> QED BY <3>1, Zenon DEF Inv, CallsInv
  <2>4. Owned(cstack[i]) = q + 1
    BY DEF Owned
  <2> HIDE DEF q
  <2> QED BY <1>1, <2>3, <2>4, SMT
<1>11. callers' = Saved(selstack, gosub, nested, cstack, e - 1, q) \cup {d}
  <2>1. callers' = Saved(selstack', gosub', nested', cstack', e - 1, q + 1)
    BY <1>1, <1>4, <1>5, MappedNext
  <2>2. Counts(cstack', q + 1)
    <3>1. q + 1 \in 1..q + 1
      BY <1>1, SMT
    <3> QED BY <1>8, <1>10, <3>1
  <2>3. Saved(selstack', gosub', nested', cstack', e - 1, q + 1)
          = Saved(selstack', gosub', nested', cstack', e - 1, q)
              \cup {FromGosub(selstack', gosub'[q + 1], q + 1)}
    <3> HIDE DEF e, q
    <3>1. Saved(selstack', gosub', nested', cstack', e - 1, q + 1)
            = Saved(selstack', gosub', nested', cstack', e - 1, q)
                \cup (IF Counts(cstack', q + 1)
                      THEN {FromGosub(selstack', gosub'[q + 1], q + 1)} ELSE {})
      BY <1>1, SavedGosub
    <3> QED BY <2>2, <3>1
  <2> HIDE DEF e, q
  <2> QED BY <1>2, <1>9, <2>1, <2>3 DEF d
<1>12. callers = Saved(selstack, gosub, nested, cstack, Len(cstack), Len(gosub))
  BY MappedTo
<1>13. c \in callers /\ d \in callers'
  <2>1. c \in NestedOnes(selstack, nested, cstack, Len(cstack))
    <3>1. cstack[e].kind # "island_sub"
      BY <1>1
    <3> QED BY <1>1, <3>1, Zenon DEF NestedOnes
  <2>2. c \in callers
    BY <1>12, <2>1, Zenon DEF Saved
  <2> HIDE DEF d, c
  <2> QED BY <1>11, <2>2
<1>14. A!CallersOf(c) = Saved(selstack, gosub, nested, cstack, e - 1, q)
  <2>1. {a \in Saved(selstack, gosub, nested, cstack, Len(cstack), Len(gosub)) :
           A!Outside(a, c)} = Saved(selstack, gosub, nested, cstack, e - 1, q)
    <3>1. Placed(cstack) /\ cstack[e].kind # "island_sub" /\ Len(gosub) \in Nat
      BY <1>1, FramesPlaced, LiveTypes
    <3>2. cstack[e].gsp <= Len(gosub) /\ e \in 1..Len(cstack)
      BY <1>1
    <3> HIDE DEF e
    <3> QED BY <3>1, <3>2, OutsideNested
  <2> QED BY <1>12, <2>1, Zenon DEF A!CallersOf
<1>15. c.structure = d.structure
  <2>1. c.structure = Seen(f, selstack)
    BY DEF FromNested
  <2>2. gosub[q + 1] \in Gosub /\ gosub'[q + 1] \in Gosub
    <3>1. gosub[q + 1] \in Gosub
      BY <1>1, ElementOfSeq
    <3> HIDE DEF q, f
    <3> QED BY <1>3, <1>4, <3>1, SMT DEF Gosub
  <2>3. Seen([gosub'[q + 1].ctl EXCEPT !.inl = @ /\ gosub'[q + 1].ret # "line"], selstack)
          = Seen(f, selstack)
    <3>1. gosub'[q + 1].ctl = f
      BY <1>4, <2>2, SMT DEF Gosub
    <3> DEFINE h(b) == [f EXCEPT !.inl = b]
    <3>2. \A b : /\ h(b).if_depth = f.if_depth /\ h(b).sel_sp = f.sel_sp
                 /\ h(b).sel_base = f.sel_base
      BY <1>3 DEF Frame
    <3>3. \A b : Seen(h(b), selstack) = Seen(f, selstack)
      <4> HIDE DEF h, f
      <4> QED BY <3>2, Zenon DEF Seen
    <3> QED BY <3>1, <3>3
  <2> HIDE DEF f
  <2> QED BY <2>1, <2>3 DEF FromGosub
<1>16. \A a \in A!CallersOf(c) : A!Outside(a, d)
  <2>1. d.depth = <<q + 1, 0>>
    BY DEF FromGosub
  <2>2. ASSUME NEW i \in 1..e - 1 PROVE cstack[i].gsp < q + 1
    <3>1. i \in 1..Len(cstack) /\ i < e /\ cstack[i].gsp \in Nat
      BY <1>1, <1>7, SMT
    <3>2. cstack[i].gsp <= q
      BY <1>1, <3>1, FramesPlaced, Zenon DEF Placed
    <3> HIDE DEF q
    <3> QED BY <1>1, <3>1, <3>2, SMT
  <2>3. \A g \in 1..q : g < q + 1
    BY <1>1, SMT
  <2> HIDE DEF c, d, q, e, f
  <2> QED BY <1>14, <2>1, <2>2, <2>3, AllOutside
<1>17. running' = running
  <2>1. running' = {Seen(ctl', selstack')} /\ running = {Seen(ctl, selstack)}
    BY <1>1, MappedNext, MappedTo
  <2> QED BY <1>2, <2>1
<1> HIDE DEF c, d, f, q, e
<1> QED BY <1>11, <1>13, <1>14, <1>15, <1>16, <1>17, Zenon DEF A!HandOver

\* An activation that starts has the structure of all that start.
LEMMA EnteredFresh ==
  ASSUME NEW c \in Frame, NEW s PROVE Seen(Entered(c), s) = FreshStructure
<1>1. c.sel_sp + 1..c.sel_sp = {}
  BY FrameNat, SMT
<1>2. \A i \in {} : s[i] = "free"
  OBVIOUS
<1>3. [i \in c.sel_sp + 1..c.sel_sp |-> s[i]] = [i \in {} |-> "free"]
  BY <1>1, <1>2
<1> QED BY <1>3 DEF Seen, Entered, FreshStructure

\* SUBs called in islands keep no activation of their own.
LEMMA SavedBelow ==
  ASSUME NEW s, NEW gs, NEW ns, NEW cs, NEW m, NEW k \in Nat, NEW l \in Nat, k <= l,
         \A i \in k + 1..l : cs[i].kind = "island_sub"
  PROVE  Saved(s, gs, ns, cs, l, m) = Saved(s, gs, ns, cs, k, m)
<1>1. {i \in 1..l : cs[i].kind # "island_sub"} = {i \in 1..k : cs[i].kind # "island_sub"}
  BY SMT
<1> QED BY <1>1, Zenon DEF Saved, NestedOnes

\* The C frames own no gosub frame above the newest.
LEMMA NewestCounts ==
  ASSUME TypeOK, Inv PROVE Counts(cstack, Len(gosub) + 1)
<1> SUFFICES ASSUME NEW i \in 1..Len(cstack), Bound(cstack[i]),
                    cstack[i].gsp + 1 = Len(gosub) + 1
             PROVE  FALSE
  BY DEF Counts
<1>1. cstack[i].gsp + 1 <= Len(gosub) /\ Len(gosub) \in Nat
  BY OwnedBelow, LiveTypes DEF Inv
<1> QED BY <1>1, SMT

\* GOSUB, a SUB, and a SUB in an island: the caller waits in the gosub frame.
LEMMA EnterByGosub ==
  ASSUME TypeOK, TypeOK', Inv, RunSel(ctl, selstack, gosub, nested, cstack),
         RunSel(ctl, selstack, gosub, nested, cstack)',
         status = "run", status' = "run",
         NEW inl \in BOOLEAN, NEW ret \in {"line", "mid", "nested"},
         inl = ctl.inl \/ inl = FALSE,
         PushGosub(inl, ret), UNCHANGED <<selstack, nested>>,
         Len(cstack') >= Len(cstack),
         \A i \in 1..Len(cstack) : cstack'[i] = cstack[i],
         \A i \in Len(cstack) + 1..Len(cstack') :
           cstack'[i].kind = "island_sub" /\ cstack'[i].gsp = Len(gosub)
  PROVE  A!Enter
<1> DEFINE n == Len(cstack)
           m == Len(gosub)
           f == [ctl EXCEPT !.inl = inl]
           c == FromGosub(selstack, gosub'[m + 1], m + 1)
           z == Seen(ctl, selstack)
<1>1. /\ n \in Nat /\ m \in Nat /\ Len(cstack') \in Nat /\ ctl \in Frame /\ f \in Frame
      /\ n <= n /\ m <= m /\ m <= m + 1 /\ n <= Len(cstack') /\ n \in 0..n
      /\ \A i \in 1..n : cstack[i].gsp \in Nat
  <2>1. cstack' \in Seq(CFrame) /\ f \in Frame
    BY InlType DEF TypeOK
  <2>2. Len(cstack') \in Nat /\ n \in Nat /\ m \in Nat
    BY <2>1, LenProperties, LiveTypes
  <2> QED BY <2>1, <2>2, LiveTypes, SelTypes, SMT
<1>2. /\ Len(gosub') = m + 1 /\ \A g \in 1..m : gosub'[g] = gosub[g]
      /\ gosub'[m + 1] = [ctl |-> f, ret |-> ret] /\ ctl' = Entered(ctl)
  <2> DEFINE r == [ctl |-> f, ret |-> ret]
  <2>1. gosub' = Append(gosub, r) /\ ctl' = Entered(ctl)
    BY DEF PushGosub
  <2>2. r \in Gosub /\ gosub \in Seq(Gosub)
    BY <1>1, LiveTypes, SMT DEF Gosub
  <2> HIDE DEF r
  <2>3. /\ Len(gosub') = m + 1 /\ \A g \in 1..m : gosub'[g] = gosub[g]
        /\ gosub'[m + 1] = r
    BY <2>1, <2>2, AppendProperties
  <2> QED BY <2>1, <2>3 DEF r
<1>3. Remain(n, m)
  BY <1>1, <1>2 DEF Remain
<1>4. \A g \in 1..m : Counts(cstack', g) <=> Counts(cstack, g)
  <2> SUFFICES ASSUME NEW g \in 1..m PROVE Counts(cstack', g) <=> Counts(cstack, g)
    OBVIOUS
  <2>1. /\ \A i \in 1..n : i \in 1..Len(cstack') /\ cstack'[i] = cstack[i]
        /\ \A i \in 1..Len(cstack') : i \in 1..n \/ cstack'[i].kind = "island_sub"
    BY <1>1, SMT
  <2> QED BY <2>1 DEF Counts
<1>5. Counts(cstack', m + 1)
  <2>1. Counts(cstack, m + 1)
    BY NewestCounts
  <2>2. \A i \in 1..Len(cstack') : i \in 1..n \/ cstack'[i].kind = "island_sub"
    BY <1>1, SMT
  <2> QED BY <2>1, <2>2 DEF Counts
<1>6. callers' = callers \cup {c}
  <2>1. callers' = Saved(selstack', gosub', nested', cstack', Len(cstack'), m + 1)
    BY <1>2, MappedNext
  <2>2. Saved(selstack', gosub', nested', cstack', Len(cstack'), m + 1)
          = Saved(selstack', gosub', nested', cstack', n, m + 1)
    <3> HIDE DEF n, m
    <3> QED BY <1>1, SavedBelow DEF n
  <2>3. Saved(selstack', gosub', nested', cstack', n, m + 1)
          = Saved(selstack', gosub', nested', cstack', n, m) \cup {c}
    <3> HIDE DEF n, m
    <3>1. Saved(selstack', gosub', nested', cstack', n, m + 1)
            = Saved(selstack', gosub', nested', cstack', n, m)
                \cup (IF Counts(cstack', m + 1)
                      THEN {FromGosub(selstack', gosub'[m + 1], m + 1)} ELSE {})
      BY <1>1, SavedGosub
    <3> QED BY <1>5, <3>1 DEF c
  <2>4. Saved(selstack', gosub', nested', cstack', n, m)
          = Saved(selstack, gosub, nested, cstack, n, m)
    <3>1. \A i \in 1..MaxSel : i <= ctl'.sel_base => selstack'[i] = selstack[i]
      OBVIOUS
    <3> HIDE DEF n, m
    <3> QED BY <1>3, <1>4, <3>1, CallersRemain
  <2>5. callers = Saved(selstack, gosub, nested, cstack, n, m)
    BY MappedTo
  <2> HIDE DEF n, m, c
  <2> QED BY <2>1, <2>2, <2>3, <2>4, <2>5
<1>7. c.structure \in {z, [z EXCEPT !.inl = FALSE]}
  <2> DEFINE b == f.inl /\ ret # "line"
             e == [f EXCEPT !.inl = b]
  <2>1. c.structure = Seen(e, selstack)
    <3>1. gosub'[m + 1].ctl = f /\ gosub'[m + 1].ret = ret
      BY <1>2
    <3> HIDE DEF f, m
    <3> QED BY <3>1 DEF FromGosub
  <2>2. /\ e.if_depth = ctl.if_depth /\ e.sel_sp = ctl.sel_sp
        /\ e.sel_base = ctl.sel_base
        /\ e.inl = b
    BY <1>1, SMT DEF Frame
  <2>3. b = ctl.inl \/ b = FALSE
    <3>1. f.inl = inl
      BY <1>1, SMT DEF Frame
    <3> QED BY <3>1
  <2> HIDE DEF e, b, f
  <2>4. CASE b = ctl.inl
    BY <2>1, <2>2, <2>4 DEF Seen
  <2>5. CASE b = FALSE
    <3>1. Seen(e, selstack) = [z EXCEPT !.inl = FALSE]
      <4> DEFINE v == ctl.inl /\ "execute" \notin Kinds
                 w == [i \in ctl.sel_base + 1..ctl.sel_sp |-> selstack[i]]
      <4>1. Seen(e, selstack) = [if_depth |-> ctl.if_depth, inl |-> FALSE, selects |-> w]
        BY <2>2, <2>5 DEF Seen
      <4>2. z = [if_depth |-> ctl.if_depth, inl |-> v, selects |-> w]
        BY DEF Seen
      <4> HIDE DEF v, w, z
      <4>3. \A b2 : [if_depth |-> ctl.if_depth, inl |-> b2, selects |-> w]
                    = [z EXCEPT !.inl = b2]
        BY <4>2
      <4> QED BY <4>1, <4>3, Zenon
    <3> QED BY <2>1, <3>1
  <2> QED BY <2>3, <2>4, <2>5
<1>8. \A a \in callers : A!Outside(a, c)
  <2>1. callers = Saved(selstack, gosub, nested, cstack, n, m)
    BY MappedTo
  <2>2. c.depth = <<m + 1, 0>>
    BY DEF FromGosub
  <2>3. \A i \in 1..n : cstack[i].gsp < m + 1
    <3> SUFFICES ASSUME NEW i \in 1..n PROVE cstack[i].gsp < m + 1
      OBVIOUS
    <3>1. cstack[i].gsp <= m /\ cstack[i].gsp \in Nat
      BY OwnedBelow DEF Inv
    <3> QED BY <1>1, <3>1, SMT
  <2>4. \A g \in 1..m : g < m + 1
    BY <1>1, SMT
  <2> HIDE DEF c, n, m
  <2> QED BY <2>1, <2>2, <2>3, <2>4, AllOutside
<1>9. running = {z} /\ running' = {FreshStructure}
  <2>1. running' = {Seen(ctl', selstack')} /\ running = {Seen(ctl, selstack)}
    BY MappedNext, MappedTo
  <2> QED BY <1>1, <1>2, <2>1, EnteredFresh
<1>10. c \in callers'
  <2> HIDE DEF c
  <2> QED BY <1>6
<1> HIDE DEF c, z
<1> QED BY <1>6, <1>7, <1>8, <1>9, <1>10 DEF A!Enter

\* A FUNCTION, a handler and EXECUTE: the caller waits in the snapshot.
LEMMA EnterBySnapshot ==
  ASSUME TypeOK, TypeOK', Inv, RunSel(ctl, selstack, gosub, nested, cstack),
         RunSel(ctl, selstack, gosub, nested, cstack)',
         status = "run", status' = "run",
         NEW kind \in {"function", "event", "execute"}, NEW in_stmt \in BOOLEAN,
         NestedPush(kind, in_stmt)
  PROVE  A!Enter
<1> DEFINE n == Len(cstack)
           m == Len(gosub)
           j == Len(nested)
           c == FromNested(selstack, nested', cstack'[n + 1])
           z == Seen(ctl, selstack)
<1>1. /\ n \in Nat /\ m \in Nat /\ j \in Nat /\ ctl \in Frame
      /\ n <= n /\ m <= m /\ n <= n + 1
      /\ \A i \in 1..n : cstack[i].gsp \in Nat /\ cstack[i].depth \in Nat
  <2>1. n \in Nat /\ m \in Nat /\ j \in Nat
    BY LiveTypes
  <2> QED BY <2>1, LiveTypes, SelTypes, SMT
<1>2. /\ selstack' = selstack /\ gosub' = gosub /\ ctl' = Entered(ctl)
      /\ nested' = Append(nested, ctl)
  BY DEF NestedPush
<1>3. /\ Len(cstack') = n + 1 /\ \A i \in 1..n : cstack'[i] = cstack[i]
      /\ cstack'[n + 1].kind = kind /\ cstack'[n + 1].phase = "entry"
      /\ cstack'[n + 1].gsp = m /\ cstack'[n + 1].depth = j + 1
  <2>1. /\ Len(cstack') = n + 1 /\ \A i \in 1..n : cstack'[i] = cstack[i]
        /\ cstack'[n + 1] = [kind |-> kind, phase |-> "entry", gsp |-> m,
                             depth |-> j + 1, in_stmt |-> in_stmt]
    BY NestedPushType, Zenon
  <2> QED BY <2>1
<1>4. nested'[j + 1] = ctl /\ \A i \in 1..j : nested'[i] = nested[i]
  BY <1>1, <1>2, LiveTypes, AppendProperties
<1>5. Remain(n, m)
  BY <1>1, <1>2, <1>3, <1>4 DEF Remain
<1>6. \A g \in 1..m : Counts(cstack', g) <=> Counts(cstack, g)
  <2> SUFFICES ASSUME NEW g \in 1..m PROVE Counts(cstack', g) <=> Counts(cstack, g)
    OBVIOUS
  <2>1. 1..Len(cstack') = 1..n \cup {n + 1}
    BY <1>1, <1>3, SMT
  <2>2. ~Bound(cstack'[n + 1])
    BY <1>3 DEF Bound
  <2> HIDE DEF n
  <2> QED BY <1>3, <2>1, <2>2, Zenon DEF Counts, n
<1>7. callers' = callers \cup {c}
  <2>1. callers' = Saved(selstack', gosub', nested', cstack', n + 1, m)
    BY <1>2, <1>3, MappedNext
  <2>2. Saved(selstack', gosub', nested', cstack', n + 1, m)
          = Saved(selstack', gosub', nested', cstack', n, m) \cup {c}
    <3>1. cstack'[n + 1].kind # "island_sub"
      BY <1>3
    <3> HIDE DEF n, m
    <3>2. Saved(selstack', gosub', nested', cstack', n + 1, m)
            = Saved(selstack', gosub', nested', cstack', n, m)
                \cup (IF cstack'[n + 1].kind # "island_sub"
                      THEN {FromNested(selstack', nested', cstack'[n + 1])} ELSE {})
      BY <1>1, SavedNested
    <3> QED BY <1>2, <3>1, <3>2 DEF c
  <2>3. Saved(selstack', gosub', nested', cstack', n, m)
          = Saved(selstack, gosub, nested, cstack, n, m)
    <3>1. \A i \in 1..MaxSel : i <= ctl'.sel_base => selstack'[i] = selstack[i]
      BY <1>2
    <3> HIDE DEF n, m
    <3> QED BY <1>5, <1>6, <3>1, CallersRemain
  <2>4. callers = Saved(selstack, gosub, nested, cstack, n, m)
    BY MappedTo
  <2> HIDE DEF n, m, c
  <2> QED BY <2>1, <2>2, <2>3, <2>4
<1>8. c.structure = z
  BY <1>3, <1>4 DEF FromNested
<1>9. \A a \in callers : A!Outside(a, c)
  <2>1. callers = Saved(selstack, gosub, nested, cstack, n, m)
    BY MappedTo
  <2>2. c.depth = <<m, j + 1>>
    BY <1>3 DEF FromNested
  <2>3. \A i \in 1..n : cstack[i].gsp < m \/ (cstack[i].gsp = m /\ cstack[i].depth < j + 1)
    <3> SUFFICES ASSUME NEW i \in 1..n
                 PROVE  cstack[i].gsp < m \/ (cstack[i].gsp = m /\ cstack[i].depth < j + 1)
      OBVIOUS
    <3>1. cstack[i].gsp <= m /\ cstack[i].depth <= j
      BY OwnedBelow DEF Inv, RunSel, DepthOrder
    <3> QED BY <1>1, <3>1, SMT
  <2>4. \A g \in 1..m : g < m \/ (g = m /\ 0 < j + 1)
    BY <1>1, SMT
  <2> HIDE DEF c, n, m, j
  <2> QED BY <2>1, <2>2, <2>3, <2>4, AllOutside
<1>10. running = {z} /\ running' = {FreshStructure}
  <2>1. running' = {Seen(ctl', selstack')} /\ running = {Seen(ctl, selstack)}
    BY MappedNext, MappedTo
  <2> QED BY <1>1, <1>2, <2>1, EnteredFresh
<1>11. c \in callers'
  <2> HIDE DEF c
  <2> QED BY <1>7
<1> HIDE DEF c, z
<1> QED BY <1>7, <1>8, <1>9, <1>10, <1>11 DEF A!Enter

\* What an EXECUTE body calls finds the depth of gosub that the body found: it
\* runs on its caller's frames, and leaves at most one call behind.
Rows(cs) ==
  \A i, j \in 1..Len(cs) :
    i <= j /\ (\A n \in i..j - 1 : cs[n].kind = "execute") => cs[j].gsp = cs[i].gsp
OneLeft(cs, m) ==
  cs # <<>> /\ cs[Len(cs)].kind = "execute" => m <= cs[Len(cs)].gsp + 1

\* A SUB called there has no arguments to evaluate before its body.
Begun(cs) == \A i \in 1..Len(cs) : cs[i].kind = "island_sub" => cs[i].phase = "body"

IslandInv == /\ status = "run" => Rows(cstack) /\ OneLeft(cstack, Len(gosub))
             /\ Begun(cstack)
             /\ "execute" \notin Kinds => NoStrings

\* The C frames that a return cuts, and where it goes on.
LEMMA LoopEndsLands ==
  ASSUME TypeOK, TypeOK', Inv, RunSel(ctl, selstack, gosub, nested, cstack),
         status = "run", gosub # <<>>, Top(gosub).ret = "nested",
         NEW k \in 1..Len(cstack), Bound(cstack[k]),
         \A i \in k + 1..Len(cstack) : cstack[i].kind = "execute",
         \A i \in k + 1..Len(cstack) : Len(gosub) <= cstack[i].gsp,
         NEW ns \in Seq(Frame), Len(ns) = cstack[k].depth, Len(ns) <= Len(nested),
         \A j \in 1..Len(ns) : ns[j] = nested[j],
         LoopEnds(k, Returned(ctl, Top(gosub)),
                  SelFreed(selstack, ctl, Top(gosub).ctl.sel_sp), Pop(gosub), ns)
  PROVE  IF cstack[k].kind = "island_sub" THEN LandsOnGosub(k - 1) ELSE LandsOnNested(k)
<1> DEFINE c == Returned(ctl, Top(gosub))
           s == SelFreed(selstack, ctl, Top(gosub).ctl.sel_sp)
           q == cstack[k].gsp
<1>1. /\ Len(gosub) = q + 1 /\ q \in Nat /\ Len(cstack) \in Nat /\ k \in Nat
      /\ k - 1 \in 0..Len(cstack) /\ Len(gosub) \in 1..Len(gosub) /\ q <= q
      /\ k - 1 + 1 = k /\ q <= Len(gosub)
  <2>1. Len(gosub) = q + 1 /\ q \in Nat /\ Len(cstack) \in Nat
    BY TopOwner, LiveTypes, SelTypes
  <2> QED BY <2>1, SMT
<1>2. /\ Len(Pop(gosub)) = q /\ \A g \in 1..q : Pop(gosub)[g] = gosub[g]
      /\ Top(gosub) \in Gosub /\ Pop(gosub) \in Seq(Gosub)
  <2>1. /\ Len(Pop(gosub)) = Len(gosub) - 1 /\ Top(gosub) \in Gosub
        /\ \A g \in 1..Len(gosub) - 1 : Pop(gosub)[g] = gosub[g]
        /\ Pop(gosub) \in Seq(Gosub)
    BY TopTypes
  <2>2. Len(gosub) - 1 = q
    BY <1>1, SMT
  <2> QED BY <2>1, <2>2
<1>3. /\ Len(cstack') = k - 1 /\ \A i \in 1..k - 1 : cstack'[i] = cstack[i]
  <2>1. cstack' = SubSeq(cstack, 1, k - 1) /\ cstack \in Seq(CFrame)
    BY LiveTypes DEF LoopEnds
  <2> QED BY <1>1, <2>1, CutType
<1>4. \A i \in 1..k - 1 : Owned(cstack[i]) <= q
  BY <1>1, BelowOwner
<1>5. CASE cstack[k].kind = "island_sub"
  <2>1. /\ ctl' = c /\ selstack' = s /\ nested' = ns /\ gosub' = Pop(gosub)
    BY <1>5, Zenon DEF LoopEnds
  <2>2. \A j \in 1..Len(nested) : j <= Len(nested') => nested'[j] = nested[j]
    <3>1. Len(ns) \in Nat /\ Len(nested) \in Nat
      BY LenProperties, LiveTypes
    <3> QED BY <2>1, <3>1, SMT
  <2>3. ASSUME NEW i \in 1..k - 1 PROVE cstack[i].gsp < Len(gosub)
    <3>1. cstack[i].gsp \in Nat /\ Owned(cstack[i]) <= q
      BY <1>1, <1>4, LiveTypes, SelTypes
    <3> HIDE DEF q
    <3> QED BY <1>1, <3>1, SMT DEF Owned
  <2>4. ASSUME NEW i \in k - 1 + 1..Len(cstack), cstack[i].kind # "island_sub"
        PROVE  Len(gosub) <= cstack[i].gsp
    <3>1. i = k \/ i \in k + 1..Len(cstack)
      BY <1>1, SMT
    <3> QED BY <1>5, <2>4, <3>1
  <2>5. Counts(cstack, Len(gosub))
    <3> SUFFICES ASSUME NEW i \in 1..Len(cstack), cstack[i].kind # "island_sub",
                        Bound(cstack[i]), cstack[i].gsp + 1 = Len(gosub)
                 PROVE  FALSE
      BY DEF Counts
    <3>1. i \notin k + 1..Len(cstack)
      BY DEF Bound
    <3>2. i \in 1..k - 1
      BY <1>1, <1>5, <3>1, SMT
    <3>3. Len(gosub) <= q
      BY <1>4, <3>2 DEF Owned
    <3> HIDE DEF q
    <3> QED BY <1>1, <3>3, SMT
  <2>6. k - 1 \in 0..Len(cstack)
    BY <1>1
  <2> HIDE DEF c, s, q
  <2> QED BY <1>3, <1>5, <2>1, <2>2, <2>3, <2>4, <2>5, <2>6 DEF LandsOnGosub, c, s
<1>6. CASE cstack[k].kind # "island_sub"
  <2> DEFINE d == cstack[k].depth
             f == nested[d]
  <2>1. /\ ctl' = Restored(c, Top(ns)) /\ selstack' = SelFreed(s, c, Top(ns).sel_sp)
        /\ nested' = Pop(ns) /\ ns # <<>>
        /\ gosub' = IF cstack[k].kind = "event" THEN SubSeq(Pop(gosub), 1, q)
                    ELSE Pop(gosub)
    BY <1>6, Zenon DEF LoopEnds
  <2>2. /\ Top(ns) = f /\ f \in Frame /\ d \in Nat /\ d \in 1..Len(nested) /\ d \in 1..d
        /\ Len(nested') = d - 1 /\ \A j \in 1..d - 1 : nested'[j] = nested[j]
    <3>1. /\ Len(ns) \in Nat \ {0} /\ Top(ns) \in Frame /\ Len(Pop(ns)) = Len(ns) - 1
          /\ \A j \in 1..Len(ns) - 1 : Pop(ns)[j] = ns[j]
      BY <2>1, PopType
    <3>2. Len(ns) \in 1..Len(ns) /\ Len(ns) \in 1..Len(nested)
          /\ \A j \in 1..Len(ns) - 1 : j \in 1..Len(ns)
      BY <3>1, LiveTypes, SMT
    <3>3. Top(ns) = nested[Len(ns)]
      BY <3>2 DEF Top
    <3> QED BY <2>1, <3>1, <3>2, <3>3
  <2>3. /\ Len(gosub') = q /\ \A g \in 1..q : gosub'[g] = gosub[g]
    <3>1. q \in 0..Len(Pop(gosub))
      BY <1>1, <1>2, SMT
    <3>2. /\ Len(SubSeq(Pop(gosub), 1, q)) = q
          /\ \A g \in 1..q : SubSeq(Pop(gosub), 1, q)[g] = Pop(gosub)[g]
      BY <1>2, <3>1, CutType
    <3> HIDE DEF q
    <3> QED BY <1>2, <2>1, <3>2
  <2>4. \A j \in 1..Len(nested) : j <= Len(nested') => nested'[j] = nested[j]
    <3> HIDE DEF d, f
    <3>1. \A j \in 1..Len(nested) : j <= d - 1 => j \in 1..d - 1
      BY <2>2, SMT
    <3> QED BY <2>2, <3>1
  <2>5. c \in Frame /\ Alike(ctl', f)
    <3>1. c \in Frame /\ ctl \in Frame
      BY <1>2, ReturnedType, LiveTypes
    <3> HIDE DEF c, f, d
    <3>2. ctl' = Restored(c, f)
      BY <2>1, <2>2
    <3> QED BY <2>2, <3>1, <3>2, SMT DEF Alike, Restored, Frame
  <2>6. f.sel_sp <= Top(gosub).ctl.sel_sp
    <3>1. Under(f, Top(gosub).ctl)
      <4>1. k \in 0..Len(cstack) /\ k # 0
        BY <1>1, SMT
      <4>2. \A j \in 1..DepthAt(k) : Under(nested[j], Top(gosub).ctl)
        BY <4>1, NewestAbove
      <4> QED BY <2>2, <4>1, <4>2 DEF DepthAt
    <3>2. Top(gosub).ctl.sel_base <= Top(gosub).ctl.sel_sp
      BY <1>1 DEF RunSel, Kept, Top
    <3>3. /\ Top(gosub).ctl.sel_base \in Nat /\ Top(gosub).ctl.sel_sp \in Nat
          /\ f.sel_sp \in Nat
      BY <1>2, <2>2, FrameNat
    <3> HIDE DEF f
    <3> QED BY <3>1, <3>2, <3>3, SMT DEF Under
  <2>7. \A i \in 1..MaxSel : i <= ctl'.sel_sp => selstack'[i] = selstack[i]
    <3>1. /\ s \in Slots /\ selstack \in Slots /\ ctl \in Frame
          /\ Top(gosub).ctl.sel_sp \in 0..MaxSel /\ f.sel_sp \in 0..MaxSel
          /\ f.sel_sp \in Nat /\ Top(gosub).ctl.sel_sp \in Nat
          /\ ctl'.sel_sp = f.sel_sp
      <4>1. selstack \in Slots /\ ctl \in Frame
        BY LiveTypes
      <4>2. Top(gosub).ctl.sel_sp \in 0..MaxSel /\ Top(gosub).ctl.sel_sp \in Nat
        BY <1>2, FrameNat
      <4>3. s \in Slots
        BY <4>1, <4>2, SelType DEF Slots
      <4>4. f.sel_sp \in 0..MaxSel /\ f.sel_sp \in Nat
        BY <2>2, FrameNat
      <4>5. ctl'.sel_sp = f.sel_sp
        BY <2>5 DEF Alike
      <4> QED BY <4>1, <4>2, <4>3, <4>4, <4>5
    <3>2. \A i \in 1..MaxSel : i <= Top(gosub).ctl.sel_sp => s[i] = selstack[i]
      BY <3>1, SlotsLeft
    <3>3. selstack' = SelFreed(s, c, f.sel_sp)
      BY <2>1, <2>2
    <3> HIDE DEF s, c, f, d
    <3>4. \A i \in 1..MaxSel : i <= f.sel_sp => selstack'[i] = s[i]
      BY <2>5, <3>1, <3>3, SlotsLeft
    <3>5. \A i \in 1..MaxSel : i <= f.sel_sp => i <= Top(gosub).ctl.sel_sp
      BY <2>6, <3>1, SMT
    <3> QED BY <3>1, <3>2, <3>4, <3>5
  <2>8. q <= Len(gosub)
    BY <1>1
  <2> HIDE DEF c, s
  <2> QED BY <1>3, <1>6, <2>3, <2>4, <2>5, <2>7, <2>8 DEF LandsOnNested
<1> QED BY <1>5, <1>6

\* The C frames up to a line loop found fewer gosub frames than there are.
LEMMA FoundFewer ==
  ASSUME TypeOK, Inv, gosub # <<>>, NEW k \in 0..Len(cstack), k > 0 => Bound(cstack[k])
  PROVE  \A i \in 1..k : cstack[i].gsp < Len(gosub)
<1> SUFFICES ASSUME NEW i \in 1..k PROVE cstack[i].gsp < Len(gosub)
  OBVIOUS
<1>1. /\ Len(cstack) \in Nat /\ Len(gosub) \in Nat /\ k \in 1..Len(cstack) /\ k > 0
      /\ i \in 1..Len(cstack) /\ (i < k \/ i = k)
  <2>1. Len(cstack) \in Nat /\ Len(gosub) \in Nat
    BY LiveTypes
  <2> QED BY <2>1, SMT
<1>2. cstack[k].gsp \in Nat /\ cstack[k].gsp + 1 <= Len(gosub) /\ cstack[i].gsp \in Nat
  BY <1>1, OwnedBelow DEF Inv
<1>3. i < k => Owned(cstack[i]) <= cstack[k].gsp
  BY <1>1, Zenon DEF Inv, CallsInv
<1>4. i < k => cstack[i].gsp <= cstack[k].gsp
  BY <1>2, <1>3, SMT DEF Owned
<1>5. i = k => cstack[i].gsp + 1 <= Len(gosub)
  BY <1>2
<1> QED BY <1>1, <1>2, <1>4, <1>5, SMT

\* A return frame that is not marked as one to C is no line loop's own.
LEMMA UnmarkedCounts ==
  ASSUME Inv, gosub[Len(gosub)].ret # "nested"
  PROVE  Counts(cstack, Len(gosub))
<1> SUFFICES ASSUME NEW i \in 1..Len(cstack), Bound(cstack[i]),
                    cstack[i].gsp + 1 = Len(gosub)
             PROVE  FALSE
  BY DEF Counts
<1>1. gosub[cstack[i].gsp + 1].ret = "nested"
  BY Zenon DEF Inv, CallsInv
<1> QED BY <1>1

\* A row of EXECUTE bodies at the top was entered at the depth that gosub has.
LEMMA IslandDepth ==
  ASSUME TypeOK, Inv, IslandInv, status = "run", AtStatement, NEW k \in Nat,
         \A i \in k + 1..Len(cstack) : cstack[i].kind = "execute"
  PROVE  \A i \in k + 1..Len(cstack) : cstack[i].gsp = Len(gosub)
<1> SUFFICES ASSUME NEW i \in k + 1..Len(cstack) PROVE cstack[i].gsp = Len(gosub)
  OBVIOUS
<1>1. /\ Len(cstack) \in Nat /\ Len(gosub) \in Nat /\ i \in 1..Len(cstack)
      /\ Len(cstack) \in 1..Len(cstack) /\ i <= Len(cstack) /\ cstack # <<>>
      /\ Len(cstack) \in k + 1..Len(cstack)
      /\ i..Len(cstack) - 1 \subseteq k + 1..Len(cstack)
  <2>1. Len(cstack) \in Nat /\ Len(gosub) \in Nat
    BY LiveTypes
  <2>2. i \in 1..Len(cstack)
    BY <2>1, SMT
  <2>3. cstack # <<>>
    BY <2>1, <2>2, SMT
  <2> QED BY <2>1, <2>2, <2>3, SMT
<1>2. cstack[Len(cstack)].gsp = cstack[i].gsp
  BY <1>1 DEF IslandInv, Rows
<1>3. cstack[Len(cstack)].gsp \in Nat /\ cstack[Len(cstack)].gsp <= Len(gosub)
  BY <1>1, OwnedBelow DEF Inv
<1>4. InKind("execute") /\ Top(cstack) = cstack[Len(cstack)]
  BY <1>1 DEF InKind, Top
<1>5. ~(Len(gosub) > cstack[Len(cstack)].gsp)
  BY <1>4 DEF AtStatement, BodyDone
<1> QED BY <1>1, <1>2, <1>3, <1>5, SMT

LEMMA ReturnInLoopLands ==
  ASSUME TypeOK, Inv, status = "run", ReturnInLoop
  PROVE  LandsOnGosub(Len(cstack))
<1>1. /\ AtStatement /\ gosub # <<>> /\ ~InKind("execute")
      /\ Top(gosub).ret # "nested" \/ cstack = <<>>
      /\ gosub' = Pop(gosub) /\ ctl' = Returned(ctl, Top(gosub))
      /\ selstack' = SelFreed(selstack, ctl, Top(gosub).ctl.sel_sp)
      /\ UNCHANGED <<nested, cstack>>
  BY Zenon DEF ReturnInLoop, Executing
<1>2. Len(cstack) \in Nat /\ Len(cstack) \in 0..Len(cstack)
      /\ Len(cstack) + 1..Len(cstack) = {}
  BY LiveTypes, SMT
<1>3. Len(cstack) > 0 => Bound(cstack[Len(cstack)])
  <2>1. Len(cstack) > 0 => cstack # <<>>
    BY SMT
  <2> QED BY <1>1, <2>1, TopBound
<1>4. \A i \in 1..Len(cstack) : cstack[i].gsp < Len(gosub)
  BY <1>1, <1>2, <1>3, FoundFewer
<1>5. Counts(cstack, Len(gosub))
  <2>1. CASE Top(gosub).ret # "nested"
    BY <2>1, UnmarkedCounts DEF Top
  <2>2. CASE cstack = <<>>
    <3>1. 1..Len(<<>>) = {}
      BY SMT
    <3> QED BY <2>2, <3>1 DEF Counts
  <2> QED BY <1>1, <2>1, <2>2
<1> QED BY <1>1, <1>2, <1>4, <1>5 DEF LandsOnGosub

LEMMA ReturnFromBodyLands ==
  ASSUME TypeOK, TypeOK', Inv, RunSel(ctl, selstack, gosub, nested, cstack),
         status = "run", ReturnFromBody
  PROVE  /\ cstack # <<>> /\ Len(gosub) = Top(cstack).gsp + 1
         /\ LandsOnGosub(Len(cstack) - 1) \/ LandsOnNested(Len(cstack))
<1> DEFINE n == Len(cstack)
<1>1. /\ AtStatement /\ gosub # <<>> /\ Top(gosub).ret = "nested"
      /\ cstack # <<>> /\ ~InKind("execute")
      /\ LoopEnds(n, Returned(ctl, Top(gosub)),
                  SelFreed(selstack, ctl, Top(gosub).ctl.sel_sp), Pop(gosub), nested)
  BY Zenon DEF ReturnFromBody, Executing
<1>2. n \in 1..Len(cstack) /\ Bound(cstack[n])
  BY <1>1, TopBound
<1>3. /\ n + 1..Len(cstack) = {} /\ n # 0 /\ nested \in Seq(Frame)
      /\ Len(nested) <= Len(nested)
  <2>1. n \in Nat /\ nested \in Seq(Frame) /\ Len(nested) \in Nat
    BY LiveTypes
  <2> QED BY <1>2, <2>1, SMT
<1>4. Len(nested) = cstack[n].depth
  BY <1>3 DEF Inv, DepthInv, Live, DepthAt
<1> HIDE DEF n
<1>5. IF cstack[n].kind = "island_sub" THEN LandsOnGosub(n - 1) ELSE LandsOnNested(n)
  BY <1>1, <1>2, <1>3, <1>4, LoopEndsLands
<1>6. Len(gosub) = cstack[n].gsp + 1
  BY <1>1, <1>2, <1>3, TopOwner
<1> QED BY <1>1, <1>5, <1>6 DEF n, Top

LEMMA ReturnFromIslandLands ==
  ASSUME TypeOK, TypeOK', Inv, IslandInv, RunSel(ctl, selstack, gosub, nested, cstack),
         status = "run", NEW k \in 0..Len(cstack) - 1, ReturnFromIsland(k)
  PROVE  \/ LandsOnGosub(k) /\ (k > 0 => cstack[k].kind # "execute")
         \/ /\ k \in 1..Len(cstack) /\ Len(gosub) = cstack[k].gsp + 1
            /\ LandsOnGosub(k - 1) \/ LandsOnNested(k)
<1> DEFINE outer == SubSeq(nested, 1, Len(nested) - (Len(cstack) - k))
           c == Returned(ctl, Top(gosub))
           s == SelFreed(selstack, ctl, Top(gosub).ctl.sel_sp)
<1>1. /\ gosub # <<>> /\ AtStatement
      /\ k > 0 => cstack[k].kind # "execute"
      /\ \A i \in k + 1..Len(cstack) : cstack[i].kind = "execute"
  BY Zenon DEF ReturnFromIsland, Executing
<1>2. /\ outer \in Seq(Frame) /\ Len(outer) = DepthAt(k)
      /\ Len(outer) <= Len(nested)
      /\ \A j \in 1..Len(outer) : outer[j] = nested[j]
      /\ k > 0 => k \in 1..Len(cstack) /\ Bound(cstack[k])
  BY IslandFacts
<1>3. Len(gosub) \in Nat /\ k \in Nat /\ Len(cstack) \in Nat /\ k \in 0..Len(cstack)
  BY LiveTypes, SMT
<1>4. \A i \in k + 1..Len(cstack) : Len(gosub) <= cstack[i].gsp
  <2>1. \A i \in k + 1..Len(cstack) : cstack[i].gsp = Len(gosub)
    BY <1>1, <1>3, IslandDepth
  <2>2. Len(gosub) <= Len(gosub)
    BY <1>3, SMT
  <2> QED BY <2>1, <2>2
<1>5. CASE Top(gosub).ret = "nested" /\ k > 0 /\ LoopEnds(k, c, s, Pop(gosub), outer)
  <2> HIDE DEF outer
  <2>1. k # 0
    BY <1>5, SMT
  <2>2. Len(outer) = cstack[k].depth
    BY <1>2, <2>1 DEF DepthAt
  <2>3. IF cstack[k].kind = "island_sub" THEN LandsOnGosub(k - 1) ELSE LandsOnNested(k)
    BY <1>1, <1>2, <1>4, <1>5, <2>2, LoopEndsLands
  <2>4. Len(gosub) = cstack[k].gsp + 1
    BY <1>1, <1>2, <1>5, TopOwner
  <2> QED BY <1>2, <1>5, <2>3, <2>4
<1>6. CASE /\ Top(gosub).ret # "nested" \/ k = 0
           /\ ctl' = c /\ selstack' = s
           /\ gosub' = Pop(gosub) /\ nested' = outer
           /\ cstack' = SubSeq(cstack, 1, k)
  <2> HIDE DEF outer
  <2>1. Len(cstack') = k /\ \A i \in 1..k : cstack'[i] = cstack[i]
    BY <1>3, <1>6, CutType, LiveTypes
  <2>2. \A j \in 1..Len(nested) : j <= Len(nested') => nested'[j] = nested[j]
    <3>1. Len(outer) \in Nat /\ Len(nested) \in Nat
      BY <1>2, LenProperties, LiveTypes
    <3> QED BY <1>2, <1>6, <3>1, SMT
  <2>3. \A i \in 1..k : cstack[i].gsp < Len(gosub)
    BY <1>1, <1>2, <1>3, FoundFewer
  <2>4. Counts(cstack, Len(gosub))
    <3>1. CASE Top(gosub).ret # "nested"
      BY <3>1, UnmarkedCounts DEF Top
    <3>2. CASE k = 0
      <4>1. \A i \in 1..Len(cstack) : ~Bound(cstack[i])
        <5>1. \A i \in 1..Len(cstack) : i \in k + 1..Len(cstack)
          BY <1>3, <3>2, SMT
        <5> QED BY <1>1, <5>1 DEF Bound
      <4> QED BY <4>1 DEF Counts
    <3> QED BY <1>6, <3>1, <3>2
  <2>5. LandsOnGosub(k)
    BY <1>1, <1>3, <1>4, <1>6, <2>1, <2>2, <2>3, <2>4 DEF LandsOnGosub
  <2> QED BY <1>1, <2>5
<1> QED BY <1>5, <1>6, Zenon DEF ReturnFromIsland

LEMMA ExecuteEndsLands ==
  ASSUME TypeOK, Inv, status = "run", ExecuteEnds, ~BodyDone
  PROVE  LandsOnNested(Len(cstack))
<1> DEFINE e == Len(cstack)
           f == nested[cstack[e].depth]
<1>1. /\ InKind("execute") /\ nested # <<>> /\ cstack # <<>> /\ selstack' = selstack
      /\ Len(gosub) = Top(cstack).gsp /\ ctl' = Top(nested) /\ gosub' = gosub
      /\ nested' = Pop(nested) /\ cstack' = Pop(cstack)
  BY Zenon DEF ExecuteEnds, InKind
<1>2. /\ e \in 1..Len(cstack) /\ Top(cstack) = cstack[e] /\ e # 0
      /\ Len(gosub) \in Nat /\ Len(gosub) <= Len(gosub)
  <2>1. e \in 1..Len(cstack) /\ Top(cstack) = cstack[e] /\ Len(gosub) \in Nat
    BY <1>1, TopTypes, LiveTypes
  <2> QED BY <2>1, SMT
<1>3. Top(nested) = f
  <2>1. Len(nested) = cstack[e].depth
    BY <1>2 DEF Inv, DepthInv, Live, DepthAt
  <2> QED BY <2>1 DEF Top
<1>4. /\ Len(cstack') = e - 1 /\ \A i \in 1..e - 1 : cstack'[i] = cstack[i]
  BY <1>1, LiveTypes, PopType
<1>5. \A j \in 1..Len(nested) : j <= Len(nested') => nested'[j] = nested[j]
  <2>1. /\ Len(nested') = Len(nested) - 1
        /\ \A j \in 1..Len(nested) - 1 : nested'[j] = nested[j]
        /\ Len(nested) \in Nat
    BY <1>1, LiveTypes, PopType
  <2> QED BY <2>1, SMT
<1>6. cstack[e].kind # "island_sub" /\ Len(gosub) = cstack[e].gsp
  BY <1>1, <1>2 DEF InKind
<1>7. Alike(ctl', f)
  BY <1>1, <1>3 DEF Alike
<1> HIDE DEF e, f
<1> QED BY <1>1, <1>2, <1>4, <1>5, <1>6, <1>7 DEF LandsOnNested, f, e

\* Frames that are left, and one that is pushed.
LEMMA RowsCut ==
  ASSUME NEW cs, NEW ds, Rows(cs), Len(cs) \in Nat, Len(ds) \in Nat, Len(ds) <= Len(cs),
         \A i \in 1..Len(ds) : ds[i].kind = cs[i].kind /\ ds[i].gsp = cs[i].gsp
  PROVE  Rows(ds)
<1> SUFFICES ASSUME NEW i \in 1..Len(ds), NEW j \in 1..Len(ds), i <= j,
                    \A n \in i..j - 1 : ds[n].kind = "execute"
             PROVE  ds[j].gsp = ds[i].gsp
  BY Zenon DEF Rows
<1>1. i \in 1..Len(cs) /\ j \in 1..Len(cs) /\ \A n \in i..j - 1 : n \in 1..Len(ds)
  BY SMT
<1>2. \A n \in i..j - 1 : cs[n].kind = "execute"
  BY <1>1
<1>3. cs[j].gsp = cs[i].gsp
  BY <1>1, <1>2, Zenon DEF Rows
<1> QED BY <1>3

LEMMA RowsPush ==
  ASSUME NEW cs, NEW ds, Rows(cs), Len(cs) \in Nat, Len(ds) = Len(cs) + 1,
         \A i \in 1..Len(cs) : ds[i] = cs[i],
         \A i \in 1..Len(cs) :
           (\A n \in i..Len(cs) : cs[n].kind = "execute") =>
             ds[Len(cs) + 1].gsp = cs[i].gsp
  PROVE  Rows(ds)
<1> SUFFICES ASSUME NEW i \in 1..Len(ds), NEW j \in 1..Len(ds), i <= j,
                    \A n \in i..j - 1 : ds[n].kind = "execute"
             PROVE  ds[j].gsp = ds[i].gsp
  BY Zenon DEF Rows
<1>1. j \in 1..Len(cs) \/ j = Len(cs) + 1
  BY SMT
<1>2. CASE j \in 1..Len(cs)
  <2>1. i \in 1..Len(cs) /\ \A n \in i..j - 1 : n \in 1..Len(cs)
    BY <1>2, SMT
  <2>2. \A n \in i..j - 1 : cs[n].kind = "execute"
    BY <2>1
  <2>3. cs[j].gsp = cs[i].gsp
    BY <1>2, <2>1, <2>2, Zenon DEF Rows
  <2> QED BY <1>2, <2>1, <2>3
<1>3. CASE j = Len(cs) + 1 /\ i \in 1..Len(cs)
  <2>1. \A n \in i..Len(cs) : n \in i..j - 1 /\ n \in 1..Len(cs)
    BY <1>3, SMT
  <2>2. \A n \in i..Len(cs) : cs[n].kind = "execute"
    BY <2>1
  <2> QED BY <1>3, <2>2
<1>4. i \in 1..Len(cs) \/ i = j
  BY <1>1, SMT
<1> QED BY <1>1, <1>2, <1>3, <1>4

\* A cut, after which the depth of gosub is what the frame above it found, or
\* one more.
LEMMA RowsLeft ==
  ASSUME TypeOK, Rows(cstack), NEW e \in 1..Len(cstack),
         NEW ds \in Seq(CFrame), NEW m \in Nat, Len(ds) = e - 1,
         \A i \in 1..e - 1 : ds[i] = cstack[i],
         m <= cstack[e].gsp + 1
  PROVE  Rows(ds) /\ OneLeft(ds, m)
<1>1. /\ Len(cstack) \in Nat /\ e \in Nat /\ Len(ds) \in Nat /\ Len(ds) <= Len(cstack)
  <2>1. Len(cstack) \in Nat
    BY LiveTypes
  <2> QED BY <2>1, SMT
<1>2. Rows(ds)
  BY <1>1, RowsCut
<1>3. ASSUME ds # <<>>, ds[Len(ds)].kind = "execute" PROVE m <= ds[Len(ds)].gsp + 1
  <2>1. CASE e = 1
    <3>1. Len(ds) = 0
      BY <2>1, SMT
    <3> QED BY <1>3, <3>1, EmptySeq
  <2>2. CASE e # 1
    <3>1. /\ e - 1 \in 1..Len(cstack) /\ e - 1 <= e /\ e - 1 \in 1..e - 1
          /\ e - 1..e - 1 = {e - 1}
      BY <1>1, <2>2, SMT
    <3>2. ds[Len(ds)] = cstack[e - 1]
      BY <3>1
    <3>3. cstack[e].gsp = cstack[e - 1].gsp
      BY <1>3, <3>1, <3>2 DEF Rows
    <3> QED BY <3>2, <3>3
  <2> QED BY <2>1, <2>2
<1> QED BY <1>2, <1>3 DEF OneLeft

\* A nested entry finds what the row of EXECUTE bodies it is called from found.
LEMMA RowsEnter ==
  ASSUME TypeOK, Inv, IslandInv, status = "run",
         AtStatement \/ (InKind("function") /\ Top(cstack).phase = "entry"),
         NEW ds, Len(ds) = Len(cstack) + 1, \A i \in 1..Len(cstack) : ds[i] = cstack[i],
         ds[Len(cstack) + 1].gsp = Len(gosub)
  PROVE  Rows(ds)
<1>1. Len(cstack) \in Nat
  BY LiveTypes
<1>2. ASSUME NEW i \in 1..Len(cstack), \A n \in i..Len(cstack) : cstack[n].kind = "execute"
      PROVE  ds[Len(cstack) + 1].gsp = cstack[i].gsp
  <2>1. /\ i - 1 \in Nat /\ Len(cstack) \in i..Len(cstack)
        /\ i \in i - 1 + 1..Len(cstack)
        /\ i - 1 + 1..Len(cstack) = i..Len(cstack)
    BY <1>1, SMT
  <2>2. ~InKind("function")
    BY <1>2, <2>1 DEF InKind, Top
  <2>3. \A n \in i - 1 + 1..Len(cstack) : cstack[n].gsp = Len(gosub)
    BY <1>2, <2>1, <2>2, IslandDepth
  <2> QED BY <2>1, <2>3
<1>3. Rows(cstack)
  BY DEF IslandInv
<1> QED BY <1>1, <1>2, <1>3, RowsPush

\* Every step of a program that runs on.
LEMMA RowsStep ==
  ASSUME TypeOK, TypeOK', Inv, IslandInv, RunSel(ctl, selstack, gosub, nested, cstack),
         OnError # "skip", status = "run", status' = "run", Next
  PROVE  Rows(cstack') /\ OneLeft(cstack', Len(gosub'))
<1>1. /\ Len(cstack) \in Nat /\ Len(gosub) \in Nat /\ Len(cstack') \in Nat
      /\ Len(gosub') \in Nat /\ cstack' \in Seq(CFrame)
      /\ Rows(cstack) /\ OneLeft(cstack, Len(gosub))
  <2>1. cstack' \in Seq(CFrame) /\ gosub' \in Seq(Gosub)
    BY DEF TypeOK
  <2> QED BY <2>1, LiveTypes, LenProperties DEF IslandInv
<1>2. CASE UNCHANGED <<gosub, cstack>>
  BY <1>1, <1>2
<1>3. CASE cstack' = cstack /\ AtStatement /\ Len(gosub') = Len(gosub) + 1
  <2>1. OneLeft(cstack', Len(gosub'))
    <3> SUFFICES ASSUME cstack # <<>>, cstack[Len(cstack)].kind = "execute"
                 PROVE  Len(gosub') <= cstack[Len(cstack)].gsp + 1
      BY <1>3 DEF OneLeft
    <3>1. InKind("execute") /\ Top(cstack) = cstack[Len(cstack)]
      BY DEF InKind, Top
    <3>2. cstack[Len(cstack)].gsp \in Nat
      <4>1. Len(cstack) \in 1..Len(cstack)
        BY TopTypes
      <4> QED BY <4>1, LiveTypes, SelTypes
    <3>3. ~(Len(gosub) > cstack[Len(cstack)].gsp)
      BY <1>3, <3>1 DEF AtStatement, BodyDone
    <3> QED BY <1>1, <1>3, <3>2, <3>3, SMT
  <2> QED BY <1>1, <1>3, <2>1
<1>4. CASE cstack' = <<>>
  <2>1. 1..Len(<<>>) = {}
    BY SMT
  <2> QED BY <1>4, <2>1 DEF Rows, OneLeft
<1>5. CASE GosubStatement
  <2>1. AtStatement /\ PushGosub(ctl.inl, "line") /\ cstack' = cstack
    BY <1>5 DEF GosubStatement
  <2>2. ctl.inl \in BOOLEAN
    BY SMT DEF TypeOK, Frame
  <2>3. Len(gosub') = Len(gosub) + 1
    BY <2>1, <2>2, PushGosubType
  <2> QED BY <1>3, <2>1, <2>3
<1>6. ASSUME NEW more \in BOOLEAN, CallSub(more)
      PROVE  Rows(cstack') /\ OneLeft(cstack', Len(gosub'))
  <2>1. /\ AtStatement /\ cstack' = cstack
        /\ PushGosub(ctl.inl /\ more, IF more THEN "mid" ELSE "line")
    BY <1>6 DEF CallSub
  <2>2. (ctl.inl /\ more) \in BOOLEAN
        /\ (IF more THEN "mid" ELSE "line") \in {"line", "mid", "nested"}
    BY SMT DEF TypeOK, Frame
  <2>3. Len(gosub') = Len(gosub) + 1
    BY <2>1, <2>2, PushGosubType
  <2> QED BY <1>3, <2>1, <2>3
<1>7. CASE CallIslandSub
  <2> DEFINE f == [kind |-> "island_sub", phase |-> "body", gsp |-> Len(gosub),
                   depth |-> Len(nested), in_stmt |-> TRUE]
  <2>1. AtStatement /\ cstack' = Append(cstack, f)
    BY <1>7 DEF CallIslandSub
  <2>2. f \in CFrame
    BY TopTypes, SMT DEF CFrame
  <2>3. f.kind = "island_sub" /\ f.gsp = Len(gosub)
    OBVIOUS
  <2> HIDE DEF f
  <2>4. /\ Len(cstack') = Len(cstack) + 1
        /\ \A i \in 1..Len(cstack) : cstack'[i] = cstack[i]
        /\ cstack'[Len(cstack) + 1] = f
    BY <2>1, <2>2, LiveTypes, AppendProperties
  <2>5. Rows(cstack')
    BY <2>1, <2>3, <2>4, RowsEnter
  <2> QED BY <2>3, <2>4, <2>5 DEF OneLeft
<1>8. ASSUME NEW kind \in {"function", "event", "execute"}, NEW in_stmt \in BOOLEAN,
             NestedPush(kind, in_stmt),
             AtStatement \/ (InKind("function") /\ Top(cstack).phase = "entry")
      PROVE  Rows(cstack') /\ OneLeft(cstack', Len(gosub'))
  <2>1. /\ Len(cstack') = Len(cstack) + 1
        /\ \A i \in 1..Len(cstack) : cstack'[i] = cstack[i]
        /\ cstack'[Len(cstack) + 1].gsp = Len(gosub)
    <3>1. /\ Len(cstack') = Len(cstack) + 1
          /\ \A i \in 1..Len(cstack) : cstack'[i] = cstack[i]
          /\ cstack'[Len(cstack) + 1] =
               [kind |-> kind, phase |-> "entry", gsp |-> Len(gosub),
                depth |-> Len(nested) + 1, in_stmt |-> in_stmt]
      BY <1>8, NestedPushType, Zenon
    <3> QED BY <3>1
  <2>2. Rows(cstack')
    BY <1>8, <2>1, RowsEnter
  <2>3. gosub' = gosub /\ Len(gosub) <= Len(gosub) + 1
    BY <1>1, <1>8, SMT DEF NestedPush
  <2> QED BY <2>1, <2>2, <2>3 DEF OneLeft
<1>9. CASE EnterFunction \/ EnterExecute \/ \E paused \in BOOLEAN : EnterEvent(paused)
  <2>1. EnterFunction => /\ NestedPush("function", TRUE)
                         /\ \/ AtStatement
                            \/ InKind("function") /\ Top(cstack).phase = "entry"
    BY DEF EnterFunction
  <2>2. EnterExecute => NestedPush("execute", TRUE) /\ AtStatement
    BY DEF EnterExecute
  <2>3. \A paused \in BOOLEAN : EnterEvent(paused) =>
            NestedPush("event", paused) /\ AtStatement
    BY DEF EnterEvent, AtLineBoundary
  <2> QED BY <1>8, <1>9, <2>1, <2>2, <2>3
<1>10. CASE BindCall \/ StartBody
  <2>1. /\ BodyStarted /\ cstack # <<>>
        /\ StartBody => gosub' = gosub
        /\ BindCall => ~InKind("execute")
    BY <1>10 DEF BindCall, StartBody, Entering
  <2>2. /\ Len(cstack') = Len(cstack) /\ Len(cstack) \in 1..Len(cstack)
        /\ Len(cstack) <= Len(cstack)
        /\ \A i \in 1..Len(cstack) : i # Len(cstack) => cstack'[i] = cstack[i]
        /\ cstack'[Len(cstack)] = [cstack[Len(cstack)] EXCEPT !.phase = "body"]
        /\ cstack[Len(cstack)] \in CFrame
    BY <1>1, <2>1, BodyStartedType, TopTypes, SMT
  <2>3. /\ cstack'[Len(cstack)].kind = cstack[Len(cstack)].kind
        /\ cstack'[Len(cstack)].gsp = cstack[Len(cstack)].gsp
    BY <2>2, SMT DEF CFrame
  <2>4. \A i \in 1..Len(cstack) :
          cstack'[i].kind = cstack[i].kind /\ cstack'[i].gsp = cstack[i].gsp
    BY <2>2, <2>3
  <2>5. Rows(cstack')
    BY <1>1, <2>2, <2>4, RowsCut
  <2>6. OneLeft(cstack', Len(gosub'))
    <3>1. StartBody => OneLeft(cstack', Len(gosub'))
      BY <1>1, <2>1, <2>2, <2>3 DEF OneLeft
    <3>2. BindCall => OneLeft(cstack', Len(gosub'))
      BY <2>1, <2>2, <2>3 DEF OneLeft, InKind, Top
    <3> QED BY <1>10, <3>1, <3>2
  <2> QED BY <2>5, <2>6
<1>11. ASSUME NEW e \in 1..Len(cstack), Len(cstack') = e - 1,
              \A i \in 1..e - 1 : cstack'[i] = cstack[i],
              Len(gosub') <= cstack[e].gsp + 1
       PROVE  Rows(cstack') /\ OneLeft(cstack', Len(gosub'))
  BY <1>1, <1>11, RowsLeft
<1>12. ASSUME NEW e \in 1..Len(cstack), LandsOnNested(e)
       PROVE  Rows(cstack') /\ OneLeft(cstack', Len(gosub'))
  <2>1. /\ Len(cstack') = e - 1 /\ \A i \in 1..e - 1 : cstack'[i] = cstack[i]
        /\ Len(gosub') = cstack[e].gsp
    BY <1>12 DEF LandsOnNested
  <2>2. Len(gosub') <= cstack[e].gsp + 1
    BY <1>1, <2>1, SMT
  <2> QED BY <1>11, <2>1, <2>2
<1>13. ASSUME NEW e \in 1..Len(cstack), LandsOnGosub(e - 1), Len(gosub) = cstack[e].gsp + 1
       PROVE  Rows(cstack') /\ OneLeft(cstack', Len(gosub'))
  <2>1. /\ Len(cstack') = e - 1 /\ \A i \in 1..e - 1 : cstack'[i] = cstack[i]
        /\ gosub # <<>> /\ gosub' = Pop(gosub)
    BY <1>13 DEF LandsOnGosub
  <2>2. Len(gosub') = Len(gosub) - 1
    BY <2>1, TopTypes
  <2>3. Len(gosub') <= cstack[e].gsp + 1
    BY <1>1, <1>13, <2>2, SMT
  <2> QED BY <1>11, <2>1, <2>3
<1>14. ASSUME NEW k, LandsOnGosub(k), k > 0 => cstack[k].kind # "execute"
       PROVE  Rows(cstack') /\ OneLeft(cstack', Len(gosub'))
  <2>1. /\ Len(cstack') = k /\ \A i \in 1..k : cstack'[i] = cstack[i]
        /\ k \in 0..Len(cstack)
    BY <1>14 DEF LandsOnGosub
  <2>2. k <= Len(cstack) /\ k \in Nat
    BY <1>1, <2>1, SMT
  <2>3. Rows(cstack')
    BY <1>1, <2>1, <2>2, RowsCut
  <2>4. ASSUME cstack' # <<>> PROVE cstack'[Len(cstack')].kind # "execute"
    <3>1. k # 0
      BY <1>1, <2>1, <2>4, EmptySeq
    <3>2. k > 0 /\ k \in 1..k
      BY <2>2, <3>1, SMT
    <3> QED BY <1>14, <2>1, <3>2
  <2> QED BY <2>3, <2>4 DEF OneLeft
<1>15. CASE ReturnInLoop
  <2>1. LandsOnGosub(Len(cstack)) /\ ~InKind("execute")
    BY <1>15, ReturnInLoopLands DEF ReturnInLoop
  <2>2. Len(cstack) > 0 => cstack[Len(cstack)].kind # "execute"
    <3>1. Len(cstack) > 0 => cstack # <<>>
      BY SMT
    <3> QED BY <2>1, <3>1 DEF InKind, Top
  <2> QED BY <1>14, <2>1, <2>2
<1>16. CASE ReturnFromBody
  <2>1. /\ cstack # <<>> /\ Len(gosub) = Top(cstack).gsp + 1
        /\ LandsOnGosub(Len(cstack) - 1) \/ LandsOnNested(Len(cstack))
    BY <1>16, ReturnFromBodyLands
  <2>2. Len(cstack) \in 1..Len(cstack) /\ Top(cstack) = cstack[Len(cstack)]
    BY <2>1, TopTypes
  <2> QED BY <1>12, <1>13, <2>1, <2>2
<1>17. ASSUME NEW k \in 0..Len(cstack) - 1, ReturnFromIsland(k)
       PROVE  Rows(cstack') /\ OneLeft(cstack', Len(gosub'))
  <2>1. \/ LandsOnGosub(k) /\ (k > 0 => cstack[k].kind # "execute")
        \/ /\ k \in 1..Len(cstack) /\ Len(gosub) = cstack[k].gsp + 1
           /\ LandsOnGosub(k - 1) \/ LandsOnNested(k)
    BY <1>17, ReturnFromIslandLands
  <2> QED BY <1>12, <1>13, <1>14, <2>1
<1>18. CASE ExecuteEnds
  <2>1. /\ InKind("execute") /\ cstack # <<>> /\ cstack' = Pop(cstack)
    BY <1>18, Zenon DEF ExecuteEnds, InKind
  <2>2. /\ Len(cstack) \in 1..Len(cstack) /\ Top(cstack) = cstack[Len(cstack)]
        /\ Len(cstack') = Len(cstack) - 1
        /\ \A i \in 1..Len(cstack) - 1 : cstack'[i] = cstack[i]
    BY <2>1, TopTypes
  <2>3. Len(gosub') = Len(gosub)
    <3>1. \/ gosub' = gosub
          \/ gosub' = [gosub EXCEPT ![Top(cstack).gsp + 1].ctl = Top(nested)]
      BY <1>18, Zenon DEF ExecuteEnds
    <3>2. gosub \in Seq(Gosub)
      BY LiveTypes
    <3> QED BY <3>1, <3>2
  <2>4. Len(gosub') <= cstack[Len(cstack)].gsp + 1
    BY <1>1, <2>1, <2>2, <2>3 DEF OneLeft, InKind
  <2> QED BY <1>11, <2>2, <2>4
<1>19. CASE \/ OpenIf \/ EndIf \/ InlineIf \/ OpenSelect \/ EndSelect
            \/ LoopBack \/ LeaveLoop
            \/ \E line \in Lines, enter \in BOOLEAN : Do(line, enter)
  BY <1>2, <1>19, StructureType
<1>20. CASE OnErrorGoto
  BY <1>2, <1>20 DEF OnErrorGoto
<1>21. ~( \/ Raised \/ BindStopped \/ LoopStops \/ UnwindGosub \/ UnwindNested
          \/ Trapped \/ Aborted \/ Run \/ End \/ ProgramEnds )
  BY DEF Raised, BindStopped, LoopStops, UnwindGosub, UnwindNested, Trapped, Aborted,
         Run, End, ProgramEnds
<1> QED BY <1>5, <1>6, <1>7, <1>9, <1>10, <1>15, <1>16, <1>17, <1>18, <1>19, <1>20,
           <1>21, StepCases, RaisedStep

\* A SUB in an island starts with its body, and goes on in it.
LEMMA BegunStep ==
  ASSUME TypeOK, Inv, Begun(cstack), OnError # "skip", Next
  PROVE  Begun(cstack')
<1>1. /\ cstack \in Seq(CFrame) /\ Len(cstack) \in Nat /\ 1..Len(<<>>) = {}
  BY LiveTypes, SMT
<1>2. CASE cstack' = cstack \/ cstack' = <<>>
  BY <1>1, <1>2 DEF Begun
<1>3. ASSUME NEW k \in 0..Len(cstack), cstack' = SubSeq(cstack, 1, k)
      PROVE  Begun(cstack')
  <2>1. Len(cstack') = k /\ \A i \in 1..k : cstack'[i] = cstack[i]
    BY <1>1, <1>3, CutType
  <2>2. \A i \in 1..k : i \in 1..Len(cstack)
    BY <1>1, SMT
  <2> QED BY <2>1, <2>2 DEF Begun
<1>4. ASSUME NEW k \in 1..Len(cstack), cstack' = SubSeq(cstack, 1, k - 1)
      PROVE  Begun(cstack')
  <2>1. k - 1 \in 0..Len(cstack)
    BY <1>1, SMT
  <2> QED BY <1>3, <1>4, <2>1
<1>5. ASSUME NEW f, Len(cstack') = Len(cstack) + 1,
             \A i \in 1..Len(cstack) : cstack'[i] = cstack[i],
             cstack'[Len(cstack) + 1] = f, f.kind = "island_sub" => f.phase = "body"
      PROVE  Begun(cstack')
  <2>1. \A i \in 1..Len(cstack) + 1 : i \in 1..Len(cstack) \/ i = Len(cstack) + 1
    BY <1>1, SMT
  <2> QED BY <1>5, <2>1 DEF Begun
<1>6. CASE CallIslandSub
  <2> DEFINE f == [kind |-> "island_sub", phase |-> "body", gsp |-> Len(gosub),
                   depth |-> Len(nested), in_stmt |-> TRUE]
  <2>1. cstack' = Append(cstack, f)
    BY <1>6 DEF CallIslandSub
  <2>2. f \in CFrame
    BY TopTypes, SMT DEF CFrame
  <2>3. f.phase = "body"
    OBVIOUS
  <2> HIDE DEF f
  <2>4. /\ Len(cstack') = Len(cstack) + 1
        /\ \A i \in 1..Len(cstack) : cstack'[i] = cstack[i]
        /\ cstack'[Len(cstack) + 1] = f
    BY <2>1, <2>2, LiveTypes, AppendProperties
  <2> QED BY <1>5, <2>3, <2>4
<1>7. ASSUME NEW kind \in {"function", "event", "execute"}, NEW in_stmt \in BOOLEAN,
             NestedPush(kind, in_stmt)
      PROVE  Begun(cstack')
  <2> DEFINE f == [kind |-> kind, phase |-> "entry", gsp |-> Len(gosub),
                   depth |-> Len(nested) + 1, in_stmt |-> in_stmt]
  <2>1. /\ Len(cstack') = Len(cstack) + 1
        /\ \A i \in 1..Len(cstack) : cstack'[i] = cstack[i]
        /\ cstack'[Len(cstack) + 1] = f
    BY <1>7, NestedPushType, Zenon
  <2>2. f.kind # "island_sub"
    OBVIOUS
  <2> HIDE DEF f
  <2> QED BY <1>5, <2>1, <2>2
<1>8. CASE EnterFunction \/ EnterExecute \/ \E paused \in BOOLEAN : EnterEvent(paused)
  <2>1. /\ EnterFunction => NestedPush("function", TRUE)
        /\ EnterExecute => NestedPush("execute", TRUE)
    BY DEF EnterFunction, EnterExecute
  <2>2. \A paused \in BOOLEAN : EnterEvent(paused) => NestedPush("event", paused)
    BY DEF EnterEvent
  <2> QED BY <1>7, <1>8, <2>1, <2>2
<1>9. CASE BindCall \/ StartBody
  <2>1. BodyStarted /\ cstack # <<>>
    BY <1>9 DEF BindCall, StartBody, Entering
  <2>2. /\ Len(cstack') = Len(cstack) /\ Len(cstack) \in 1..Len(cstack)
        /\ \A i \in 1..Len(cstack) : i # Len(cstack) => cstack'[i] = cstack[i]
        /\ cstack'[Len(cstack)] = [cstack[Len(cstack)] EXCEPT !.phase = "body"]
        /\ cstack[Len(cstack)] \in CFrame
    BY <2>1, BodyStartedType, TopTypes
  <2>3. cstack'[Len(cstack)].phase = "body"
    BY <2>2, SMT DEF CFrame
  <2> QED BY <2>2, <2>3 DEF Begun
<1>10. CASE ReturnFromBody \/ BindStopped \/ LoopStops
  <2>1. cstack # <<>> /\ cstack' = SubSeq(cstack, 1, Len(cstack) - 1)
    BY <1>10, Zenon DEF ReturnFromBody, BindStopped, LoopStops, LoopEnds, Entering
  <2>2. Len(cstack) \in 1..Len(cstack)
    BY <2>1, TopTypes
  <2> QED BY <1>4, <2>1, <2>2
<1>11. ASSUME NEW k \in 0..Len(cstack) - 1, ReturnFromIsland(k) PROVE Begun(cstack')
  <2>1. k \in 0..Len(cstack) /\ (k > 0 => k \in 1..Len(cstack))
    BY <1>1, SMT
  <2>2. \/ k > 0 /\ cstack' = SubSeq(cstack, 1, k - 1)
        \/ cstack' = SubSeq(cstack, 1, k)
    BY <1>11, Zenon DEF ReturnFromIsland, LoopEnds
  <2> QED BY <1>3, <1>4, <2>1, <2>2
<1>12. CASE ExecuteEnds
  <2>1. cstack # <<>> /\ cstack' = Pop(cstack)
    BY <1>12, Zenon DEF ExecuteEnds, InKind
  <2>2. Len(cstack) \in 1..Len(cstack)
    BY <2>1, TopTypes
  <2> QED BY <1>4, <2>1, <2>2 DEF Pop
<1>13. CASE Raised
  BY <1>2, <1>13 DEF Raised
<1>14. CASE \/ OpenIf \/ EndIf \/ InlineIf \/ OpenSelect \/ EndSelect
            \/ LoopBack \/ LeaveLoop
            \/ \E line \in Lines, enter \in BOOLEAN : Do(line, enter)
  BY <1>2, <1>14, StructureType
<1>15. CASE \/ OnErrorGoto \/ GosubStatement \/ \E more \in BOOLEAN : CallSub(more)
            \/ ReturnInLoop \/ UnwindGosub \/ UnwindNested \/ Trapped \/ Aborted
            \/ Run \/ End \/ ProgramEnds
  <2>1. cstack' = cstack
    BY <1>15 DEF OnErrorGoto, GosubStatement, CallSub, ReturnInLoop, UnwindGosub,
                 UnwindNested, Trapped, Aborted, Run, End, ProgramEnds
  <2> QED BY <1>2, <2>1
<1> QED BY <1>6, <1>8, <1>9, <1>10, <1>11, <1>12, <1>13, <1>14, <1>15, StepCases,
           RaisedStep

\* A program starts with RUN, or at its error handler.
LEMMA StartsOnly ==
  ASSUME Next, status # "run", status' = "run", TypeOK, OnError # "skip"
  PROVE  Trapped \/ Run
<1>1. ~( \/ OpenIf \/ EndIf \/ InlineIf \/ OpenSelect \/ EndSelect
         \/ LoopBack \/ LeaveLoop
         \/ \E line \in Lines, enter \in BOOLEAN : Do(line, enter) )
  BY DEF OpenIf, EndIf, InlineIf, OpenSelect, EndSelect, LoopBack, LeaveLoop, Do
<1>2. ~( \/ GosubStatement \/ \E more \in BOOLEAN : CallSub(more)
         \/ CallIslandSub \/ BindCall \/ StartBody
         \/ EnterFunction \/ EnterExecute
         \/ \E paused \in BOOLEAN : EnterEvent(paused) )
  BY DEF GosubStatement, CallSub, CallIslandSub, BindCall, StartBody,
         EnterFunction, EnterExecute, EnterEvent
<1>3. ~( \/ ReturnInLoop \/ ReturnFromBody \/ ExecuteEnds \/ BindStopped \/ LoopStops
         \/ \E k \in 0..Len(cstack) - 1 : ReturnFromIsland(k) )
  BY Zenon DEF ReturnInLoop, ReturnFromBody, ExecuteEnds, ReturnFromIsland, BindStopped,
         LoopStops, LoopEnds
<1>4. ~( \/ Raised \/ OnErrorGoto \/ UnwindGosub \/ UnwindNested
         \/ Aborted \/ End \/ ProgramEnds )
  BY DEF Raised, OnErrorGoto, UnwindGosub, UnwindNested, Aborted, End, ProgramEnds
<1> QED BY <1>1, <1>2, <1>3, <1>4, StepCases, RaisedStep

\* Every step keeps it.
LEMMA IslandStep ==
  ASSUME TypeOK, TypeOK', Inv, IslandInv, SelInv, OnError # "skip", Next
  PROVE  IslandInv'
<1>1. "execute" \notin Kinds => NoStrings'
  BY NoStringsStep DEF IslandInv
<1>2. ASSUME status' = "run" PROVE Rows(cstack') /\ OneLeft(cstack', Len(gosub'))
  <2>1. CASE status = "run"
    BY <1>2, <2>1, RowsStep DEF SelInv
  <2>2. CASE status # "run"
    <3>1. Trapped \/ Run
      BY <1>2, <2>2, StartsOnly
    <3>2. cstack' = <<>>
      BY <3>1 DEF Trapped, Run, Inv, CallsInv, Live
    <3>3. 1..Len(<<>>) = {}
      BY SMT
    <3> QED BY <3>2, <3>3 DEF Rows, OneLeft
  <2> QED BY <2>1, <2>2
<1>3. Begun(cstack')
  BY BegunStep DEF IslandInv
<1> QED BY <1>1, <1>2, <1>3 DEF IslandInv

\* After a step that does not leave a program running, nobody waits.
LEMMA MappedEnd ==
  ASSUME status' # "run"
  PROVE  callers' = {} /\ running' = {}
<1>1. (/\ status = "run" =>
            /\ callers = Saved(selstack, gosub, nested, cstack, Len(cstack), Len(gosub))
            /\ running = {Seen(ctl, selstack)}
       /\ status # "run" => callers = {} /\ running = {})'
  BY MappedTo, PTL
<1> QED BY <1>1

\* A step that leaves every caller as it waits.
LEMMA StepInPlace ==
  ASSUME status = "run", status' = "run",
         Saved(selstack', gosub', nested', cstack', Len(cstack'), Len(gosub'))
           = Saved(selstack, gosub, nested, cstack, Len(cstack), Len(gosub))
  PROVE  A!Step
<1>1. /\ running = {Seen(ctl, selstack)} /\ running' = {Seen(ctl', selstack')}
      /\ callers' = callers
  BY MappedTo, MappedNext
<1> QED BY <1>1 DEF A!Step

\* A statement about blocks.
LEMMA StructureLands ==
  ASSUME TypeOK, TypeOK', RunSel(ctl, selstack, gosub, nested, cstack),
         RunSel(ctl, selstack, gosub, nested, cstack)',
         status = "run", status' = "run",
         UNCHANGED <<gosub, nested, cstack>>, BaseStays
  PROVE  A!Step
<1>1. /\ Len(cstack) \in Nat /\ Len(gosub) \in Nat
      /\ Len(cstack) <= Len(cstack) /\ Len(gosub) <= Len(gosub)
  <2>1. Len(cstack) \in Nat /\ Len(gosub) \in Nat
    BY LiveTypes
  <2> QED BY <2>1, SMT
<1>2. Remain(Len(cstack), Len(gosub))
  BY <1>1 DEF Remain
<1>3. \A g \in 1..Len(gosub) : Counts(cstack', g) <=> Counts(cstack, g)
  OBVIOUS
<1>4. \A i \in 1..MaxSel : i <= ctl'.sel_base => selstack'[i] = selstack[i]
  BY DEF BaseStays
<1>5. Saved(selstack', gosub', nested', cstack', Len(cstack), Len(gosub))
        = Saved(selstack, gosub, nested, cstack, Len(cstack), Len(gosub))
  BY <1>1, <1>2, <1>3, <1>4, CallersRemain
<1>6. Len(cstack') = Len(cstack) /\ Len(gosub') = Len(gosub)
  OBVIOUS
<1> QED BY <1>5, <1>6, StepInPlace

\* The second half of a nested entry: the frame that it pushes for its own body
\* is nobody's caller.
LEMMA BodyLands ==
  ASSUME TypeOK, TypeOK', Inv, RunSel(ctl, selstack, gosub, nested, cstack),
         RunSel(ctl, selstack, gosub, nested, cstack)',
         status = "run", status' = "run", Entering, BodyStarted,
         Begun(cstack), UNCHANGED <<selstack, nested>>,
         IF InKind("execute") THEN gosub' = gosub ELSE PushGosub(ctl.inl, "nested")
  PROVE  A!Step
<1> DEFINE n == Len(cstack)
           m == Len(gosub)
<1>1. /\ n \in Nat /\ m \in Nat /\ n \in 1..n /\ n <= n /\ m <= m /\ m <= m + 1
      /\ cstack # <<>> /\ Top(cstack) = cstack[n] /\ cstack[n].phase = "entry"
      /\ cstack[n].gsp = m
  <2>1. cstack # <<>> /\ Top(cstack).phase = "entry"
    BY DEF Entering
  <2>2. n \in 1..n /\ Top(cstack) = cstack[n] /\ n \in Nat /\ m \in Nat
    BY <2>1, TopTypes, LiveTypes
  <2>3. m = Top(cstack).gsp
    BY <2>1 DEF Inv, CallsInv
  <2> QED BY <2>1, <2>2, <2>3, SMT
<1>2. /\ Len(cstack') = n /\ \A i \in 1..n : i # n => cstack'[i] = cstack[i]
      /\ cstack'[n].kind = cstack[n].kind /\ cstack'[n].gsp = m
      /\ cstack'[n].depth = cstack[n].depth /\ cstack'[n].phase = "body"
  <2>1. /\ Len(cstack') = n /\ \A i \in 1..n : i # n => cstack'[i] = cstack[i]
        /\ cstack'[n] = [cstack[n] EXCEPT !.phase = "body"] /\ cstack[n] \in CFrame
    BY <1>1, BodyStartedType, TopTypes
  <2>2. /\ cstack'[n].kind = cstack[n].kind /\ cstack'[n].gsp = cstack[n].gsp
        /\ cstack'[n].depth = cstack[n].depth /\ cstack'[n].phase = "body"
    BY <2>1, SMT DEF CFrame
  <2> QED BY <1>1, <2>1, <2>2
<1>3. InKind("execute") <=> cstack[n].kind = "execute"
  BY <1>1 DEF InKind
<1>4. /\ m <= Len(gosub') /\ \A g \in 1..m : gosub'[g] = gosub[g]
      /\ ~InKind("execute") => Len(gosub') = m + 1
  <2>1. CASE InKind("execute")
    BY <1>1, <2>1
  <2>2. CASE ~InKind("execute")
    <3>1. PushGosub(ctl.inl, "nested") /\ ctl.inl \in BOOLEAN
      BY <2>2, SMT DEF TypeOK, Frame
    <3>2. Len(gosub') = m + 1 /\ \A g \in 1..m : gosub'[g] = gosub[g]
      BY <3>1, PushGosubType
    <3> QED BY <1>1, <3>2
  <2> QED BY <2>1, <2>2
<1>5. Remain(n, m)
  BY <1>1, <1>2, <1>4 DEF Remain
<1>6. \A g \in 1..m : Counts(cstack', g) <=> Counts(cstack, g)
  <2> SUFFICES ASSUME NEW g \in 1..m PROVE Counts(cstack', g) <=> Counts(cstack, g)
    OBVIOUS
  <2> DEFINE Mine(f) == f.kind # "island_sub" /\ Bound(f) /\ f.gsp + 1 = g
  <2>1. ~Mine(cstack'[n])
    <3>1. m + 1 # g
      BY <1>1, SMT
    <3> HIDE DEF m, n
    <3> QED BY <1>2, <3>1
  <2>2. ~Mine(cstack[n])
    BY <1>1 DEF Bound
  <2>3. \A i \in 1..n : i # n => (Mine(cstack'[i]) <=> Mine(cstack[i]))
    BY <1>2
  <2>4. /\ Counts(cstack', g) <=> \A i \in 1..n : ~Mine(cstack'[i])
        /\ Counts(cstack, g) <=> \A i \in 1..n : ~Mine(cstack[i])
    BY <1>2 DEF Counts
  <2> HIDE DEF Mine, n
  <2> QED BY <2>1, <2>2, <2>3, <2>4
<1>7. \A i \in 1..MaxSel : i <= ctl'.sel_base => selstack'[i] = selstack[i]
  OBVIOUS
<1>8. Saved(selstack', gosub', nested', cstack', n, m)
        = Saved(selstack, gosub, nested, cstack, n, m)
  <2> HIDE DEF n, m
  <2> QED BY <1>5, <1>6, <1>7, CallersRemain
<1>9. Saved(selstack', gosub', nested', cstack', n, Len(gosub'))
        = Saved(selstack', gosub', nested', cstack', n, m)
  <2>1. CASE InKind("execute")
    BY <2>1
  <2>2. CASE ~InKind("execute")
    <3>1. ~Counts(cstack', m + 1)
      <4>1. \/ cstack[n].kind = "function" \/ cstack[n].kind = "event"
            \/ cstack[n].kind = "island_sub"
        <5>1. cstack[n] \in CFrame
          BY <1>1, TopTypes
        <5>2. cstack[n].kind \in {"function", "event", "execute", "island_sub"}
          BY <5>1, SMT DEF CFrame
        <5> QED BY <1>3, <2>2, <5>2
      <4>2. cstack[n].kind # "island_sub"
        BY <1>1 DEF Begun
      <4>3. Bound(cstack'[n]) /\ cstack'[n].kind # "island_sub" /\ cstack'[n].gsp + 1 = m + 1
        BY <1>2, <1>3, <2>2, <4>2 DEF Bound
      <4>4. n \in 1..Len(cstack')
        BY <1>1, <1>2
      <4> HIDE DEF n, m
      <4> QED BY <4>3, <4>4 DEF Counts
    <3> HIDE DEF n, m
    <3>2. Saved(selstack', gosub', nested', cstack', n, m + 1)
            = Saved(selstack', gosub', nested', cstack', n, m)
                \cup (IF Counts(cstack', m + 1)
                      THEN {FromGosub(selstack', gosub'[m + 1], m + 1)} ELSE {})
      BY <1>1, SavedGosub
    <3> QED BY <1>4, <2>2, <3>1, <3>2
  <2> QED BY <2>1, <2>2
<1> HIDE DEF m
<1>10. Saved(selstack', gosub', nested', cstack', Len(cstack'), Len(gosub'))
         = Saved(selstack, gosub, nested, cstack, Len(cstack), m)
  BY <1>2, <1>8, <1>9
<1> QED BY <1>10, StepInPlace DEF m

\* A call, whoever makes it, is an Enter.
LEMMA CallLands ==
  ASSUME TypeOK, TypeOK', Inv, RunSel(ctl, selstack, gosub, nested, cstack),
         RunSel(ctl, selstack, gosub, nested, cstack)',
         status = "run", status' = "run",
         \/ GosubStatement \/ \E more \in BOOLEAN : CallSub(more) \/ CallIslandSub
         \/ EnterFunction \/ EnterExecute
         \/ \E paused \in BOOLEAN : EnterEvent(paused)
  PROVE  A!Enter
<1>1. /\ Len(cstack) \in Nat /\ ctl.inl \in BOOLEAN /\ FALSE \in BOOLEAN
      /\ Len(cstack) >= Len(cstack) /\ Len(cstack) + 1..Len(cstack) = {}
      /\ Len(cstack) + 1 >= Len(cstack)
      /\ Len(cstack) + 1..Len(cstack) + 1 = {Len(cstack) + 1}
  <2>1. Len(cstack) \in Nat
    BY LiveTypes
  <2>2. ctl.inl \in BOOLEAN
    BY SMT DEF TypeOK, Frame
  <2> QED BY <2>1, <2>2, SMT
<1>2. ASSUME NEW inl \in BOOLEAN, NEW ret \in {"line", "mid", "nested"},
             inl = ctl.inl \/ inl = FALSE, PushGosub(inl, ret),
             UNCHANGED <<selstack, nested, cstack>>
      PROVE  A!Enter
  <2>1. /\ Len(cstack') >= Len(cstack)
        /\ \A i \in 1..Len(cstack) : cstack'[i] = cstack[i]
        /\ \A i \in Len(cstack) + 1..Len(cstack') :
             cstack'[i].kind = "island_sub" /\ cstack'[i].gsp = Len(gosub)
    BY <1>1, <1>2
  <2>2. UNCHANGED <<selstack, nested>>
    BY <1>2
  <2> QED BY <1>2, <2>1, <2>2, EnterByGosub
<1>3. CASE GosubStatement
  <2>1. PushGosub(ctl.inl, "line") /\ UNCHANGED <<selstack, nested, cstack>>
    BY <1>3 DEF GosubStatement
  <2> QED BY <1>1, <1>2, <2>1
<1>4. ASSUME NEW more \in BOOLEAN, CallSub(more) PROVE A!Enter
  <2> DEFINE inl == ctl.inl /\ more
             ret == IF more THEN "mid" ELSE "line"
  <2>1. PushGosub(inl, ret) /\ UNCHANGED <<selstack, nested, cstack>>
    BY <1>4 DEF CallSub
  <2>2. inl \in BOOLEAN /\ (inl = ctl.inl \/ inl = FALSE)
        /\ ret \in {"line", "mid", "nested"}
    BY <1>1
  <2> HIDE DEF inl, ret
  <2> QED BY <1>2, <2>1, <2>2
<1>5. CASE CallIslandSub
  <2> DEFINE f == [kind |-> "island_sub", phase |-> "body", gsp |-> Len(gosub),
                   depth |-> Len(nested), in_stmt |-> TRUE]
  <2>1. /\ PushGosub(ctl.inl, "nested") /\ UNCHANGED <<selstack, nested>>
        /\ cstack' = Append(cstack, f)
    BY <1>5 DEF CallIslandSub
  <2>2. f \in CFrame
    BY TopTypes, SMT DEF CFrame
  <2>3. f.kind = "island_sub" /\ f.gsp = Len(gosub)
    OBVIOUS
  <2> HIDE DEF f
  <2>4. /\ Len(cstack') = Len(cstack) + 1
        /\ \A i \in 1..Len(cstack) : cstack'[i] = cstack[i]
        /\ cstack'[Len(cstack) + 1] = f
    BY <2>1, <2>2, LiveTypes, AppendProperties
  <2>5. /\ Len(cstack') >= Len(cstack)
        /\ \A i \in Len(cstack) + 1..Len(cstack') :
             cstack'[i].kind = "island_sub" /\ cstack'[i].gsp = Len(gosub)
    BY <1>1, <2>3, <2>4
  <2> QED BY <1>1, <2>1, <2>4, <2>5, EnterByGosub
<1>6. ASSUME NEW kind \in {"function", "event", "execute"}, NEW in_stmt \in BOOLEAN,
             NestedPush(kind, in_stmt)
      PROVE  A!Enter
  BY <1>6, EnterBySnapshot
<1>7. CASE EnterFunction \/ EnterExecute \/ \E paused \in BOOLEAN : EnterEvent(paused)
  <2>1. /\ EnterFunction => NestedPush("function", TRUE)
        /\ EnterExecute => NestedPush("execute", TRUE)
    BY DEF EnterFunction, EnterExecute
  <2>2. \A paused \in BOOLEAN : EnterEvent(paused) => NestedPush("event", paused)
    BY DEF EnterEvent
  <2> QED BY <1>6, <1>7, <2>1, <2>2
<1> QED BY <1>3, <1>4, <1>5, <1>7

\* A return is a Leave, but for an EXECUTE body that has called something else.
LEMMA ReturnLands ==
  ASSUME TypeOK, TypeOK', Inv, IslandInv, RunSel(ctl, selstack, gosub, nested, cstack),
         RunSel(ctl, selstack, gosub, nested, cstack)',
         status = "run", status' = "run",
         \/ ReturnInLoop \/ ReturnFromBody \/ ExecuteEnds
         \/ \E k \in 0..Len(cstack) - 1 : ReturnFromIsland(k)
  PROVE  A!Leave \/ A!HandOver
<1>1. ASSUME NEW k, LandsOnGosub(k) PROVE A!Leave
  BY <1>1, LeaveToGosub
<1>2. ASSUME NEW e, LandsOnNested(e) PROVE A!Leave
  BY <1>2, LeaveToNested
<1>3. CASE ReturnInLoop
  BY <1>1, <1>3, ReturnInLoopLands
<1>4. CASE ReturnFromBody
  BY <1>1, <1>2, <1>4, ReturnFromBodyLands
<1>5. ASSUME NEW k \in 0..Len(cstack) - 1, ReturnFromIsland(k) PROVE A!Leave
  <2>1. \/ LandsOnGosub(k) /\ (k > 0 => cstack[k].kind # "execute")
        \/ /\ k \in 1..Len(cstack) /\ Len(gosub) = cstack[k].gsp + 1
           /\ LandsOnGosub(k - 1) \/ LandsOnNested(k)
    BY <1>5, ReturnFromIslandLands
  <2> QED BY <1>1, <1>2, <2>1
<1>6. CASE ExecuteEnds /\ ~BodyDone
  BY <1>2, <1>6, ExecuteEndsLands
<1>7. CASE ExecuteEnds /\ BodyDone
  <2>1. cstack # <<>> /\ Top(cstack).kind = "execute" /\ Top(cstack) = cstack[Len(cstack)]
        /\ Len(cstack) \in 1..Len(cstack)
    <3>1. cstack # <<>> /\ Top(cstack).kind = "execute"
      BY <1>7 DEF BodyDone, InKind
    <3> QED BY <3>1, TopTypes
  <2>2. Len(gosub) <= Top(cstack).gsp + 1
    BY <2>1 DEF IslandInv, OneLeft
  <2>3. "execute" \in Kinds
    BY <2>1 DEF IslandInv, NoStrings
  <2> QED BY <1>7, <2>2, <2>3, HandsOver
<1> QED BY <1>3, <1>4, <1>5, <1>6, <1>7

\* Every step of a program that runs on is one of the abstract program's.
LEMMA RunsOn ==
  ASSUME TypeOK, TypeOK', Inv, IslandInv, RunSel(ctl, selstack, gosub, nested, cstack),
         RunSel(ctl, selstack, gosub, nested, cstack)', OnError # "skip",
         status = "run", status' = "run", Next
  PROVE  A!Step \/ A!Enter \/ A!Leave \/ A!HandOver
<1>1. CASE \/ OpenIf \/ EndIf \/ InlineIf \/ OpenSelect \/ EndSelect
           \/ LoopBack \/ LeaveLoop
           \/ \E line \in Lines, enter \in BOOLEAN : Do(line, enter)
  <2>1. BaseStays
    BY <1>1, StructureSel
  <2>2. UNCHANGED <<gosub, nested, cstack>>
    BY <1>1, StructureType
  <2> QED BY <2>1, <2>2, StructureLands
<1>2. CASE OnErrorGoto
  <2>1. UNCHANGED <<ctl, selstack, gosub, nested, cstack>>
    BY <1>2 DEF OnErrorGoto
  <2>2. BaseStays
    BY <2>1 DEF BaseStays
  <2> QED BY <2>1, <2>2, StructureLands
<1>3. CASE BindCall \/ StartBody
  <2>1. /\ Entering /\ BodyStarted /\ UNCHANGED <<selstack, nested>>
        /\ IF InKind("execute") THEN gosub' = gosub ELSE PushGosub(ctl.inl, "nested")
    BY <1>3 DEF BindCall, StartBody
  <2>2. Begun(cstack)
    BY DEF IslandInv
  <2> QED BY <2>1, <2>2, BodyLands
<1>4. ~( \/ Raised \/ BindStopped \/ LoopStops \/ UnwindGosub \/ UnwindNested
         \/ Trapped \/ Aborted \/ Run \/ End \/ ProgramEnds )
  BY DEF Raised, BindStopped, LoopStops, UnwindGosub, UnwindNested, Trapped, Aborted,
         Run, End, ProgramEnds
<1> QED BY <1>1, <1>2, <1>3, <1>4, StepCases, RaisedStep, CallLands, ReturnLands

\* Every step of Frames is a step of Activations, or leaves its variables alone.
LEMMA Refines ==
  ASSUME TypeOK, TypeOK', Inv, IslandInv, SelInv, SelInv', OnError # "skip", Next
  PROVE  A!Next \/ UNCHANGED A!vars
<1>1. CASE status = "run" /\ status' = "run"
  <2>1. /\ RunSel(ctl, selstack, gosub, nested, cstack)
        /\ RunSel(ctl, selstack, gosub, nested, cstack)'
    BY <1>1 DEF SelInv
  <2> QED BY <1>1, <2>1, RunsOn DEF A!Next
<1>2. CASE status' # "run"
  <2>1. callers' = {} /\ running' = {}
    BY <1>2, MappedEnd
  <2> QED BY <2>1 DEF A!Next, A!Stop
<1>3. CASE status # "run" /\ status' = "run"
  <2>1. cstack' = <<>> /\ gosub' = <<>>
    <3>1. Trapped \/ Run
      BY <1>3, StartsOnly
    <3> QED BY <3>1 DEF Trapped, Run, Inv, CallsInv, Live
  <2>2. callers' = {}
    <3>1. callers' = Saved(selstack', gosub', nested', cstack', Len(cstack'), Len(gosub'))
      BY <1>3, MappedNext
    <3>2. 1..Len(<<>>) = {}
      BY SMT
    <3>3. callers' = Saved(selstack', <<>>, nested', <<>>, Len(<<>>), Len(<<>>))
      BY <2>1, <3>1
    <3> QED BY <3>2, <3>3, Zenon DEF Saved, NestedOnes, GosubOnes
  <2>3. running = {} /\ running' = {Seen(ctl', selstack')}
    BY <1>3, MappedTo, MappedNext
  <2> QED BY <2>2, <2>3 DEF A!Next, A!Start
<1> QED BY <1>1, <1>2, <1>3

\* Unless the program runs under ON ERROR SKIP, Frames implements Activations:
\* whatever a SUB, a FUNCTION, a handler or an EXECUTE string does to the shared
\* stacks, every caller finds its own IFs and SELECTs as it left them.
THEOREM CallersStay ==
  ASSUME OnError # "skip"
  PROVE  Spec => CallersKept
<1>1. Init => SelInv /\ IslandInv /\ A!Init
  <2> SUFFICES ASSUME Init PROVE SelInv /\ IslandInv /\ A!Init
    OBVIOUS
  <2>1. status = "idle" /\ cstack = <<>> /\ 1..Len(<<>>) = {}
    BY SMT DEF Init
  <2>2. SelInv /\ IslandInv
    BY <2>1 DEF SelInv, IslandInv, Begun, NoStrings
  <2>3. callers = {} /\ running = {}
    BY <2>1, MappedTo
  <2> QED BY <2>2, <2>3 DEF A!Init
<1>2. /\ TypeOK /\ Inv /\ TypeOK' /\ SelInv /\ IslandInv /\ [Next]_vars
      => (SelInv /\ IslandInv)' /\ [A!Next]_(A!vars)
  <2> SUFFICES ASSUME TypeOK, Inv, TypeOK', SelInv, IslandInv, [Next]_vars
               PROVE  SelInv' /\ IslandInv' /\ (A!Next \/ UNCHANGED A!vars)
    BY Zenon
  <2>1. CASE Next
    <3>1. SelInv' /\ IslandInv'
      BY <2>1, SelStep, IslandStep
    <3> QED BY <2>1, <3>1, Refines
  <2>2. CASE UNCHANGED vars
    <3>1. UNCHANGED <<status, ctl, selstack, gosub, nested, cstack>>
      BY <2>2 DEF vars
    <3>2. SelInv' /\ IslandInv'
      BY <3>1 DEF SelInv, IslandInv, NoStrings
    <3>3. callers' = callers /\ running' = running
      <4>1. CASE status = "run"
        BY <3>1, <4>1, MappedTo, MappedNext
      <4>2. CASE status # "run"
        BY <3>1, <4>2, MappedTo, MappedEnd
      <4> QED BY <4>1, <4>2
    <3> QED BY <3>2, <3>3 DEF A!vars
  <2> QED BY <2>1, <2>2
<1> QED BY <1>1, <1>2, Invariant, PTL DEF Spec, CallersKept, A!Spec
=============================================================================
