------------------------------ MODULE LineLoop ------------------------------
(***************************************************************************)
(* How run_program walks the lines of a program (core.c): the jump tables  *)
(* built from the lines, the structure processed at the start of a line,   *)
(* the statements of a line, one-line IFs, the hop over the arms of a      *)
(* block IF, SELECT, and FOR loops whose body or NEXT shares a line with   *)
(* other statements.  A program is a sequence of lines, a line a sequence  *)
(* of tokens; a position is a line and a token of it.                      *)
(*                                                                         *)
(* Abstracted: a condition is "yes", "no" or "first" (the counter of the   *)
(* innermost FOR around it is 1); FOR counts from 1 in steps of 1; PRINT   *)
(* prints the token's number.  Left out: labels, GOTO, DO and WHILE, named *)
(* NEXTs (GOSUB and the rest are in Frames).                               *)
(***************************************************************************)
EXTENDS Integers, Sequences, FiniteSets, SequencesExt

CONSTANT Programs   \* records: the lines, and what running them should print

VARIABLES
    prog,       \* the program: lines and says
    jumps,      \* G.jmp_next, G.jmp_else, G.jmp_endif: line -> line, or 0
    pc, pos,    \* the line, and the token about to run: 0 at the line start
    ifs,        \* the block IFs open: state, and the line of the IF
    shadow,     \* G.if_shadow
    inline,     \* G.if_inline: the arm of a one-line IF that is running
    sels,       \* the SELECTs open: active, skip, skipped
    fors,       \* G.forstack
    count,      \* the FOR variables, by nesting depth
    out,        \* what was printed
    status      \* "run", "done" or "error"

vars == <<prog, jumps, pc, pos, ifs, shadow, inline, sels, fors, count, out,
          status>>

Lines == prog.lines
Line == Lines[pc]
Token == Line[pos]
AtLine(lines, n, ops) == lines[n][1].op \in ops

\* Before a statement there is a colon or the start of the line.
IsStatement(line, i) == i = 1 \/ line[i].colon

\* block_ifs_from and select_openers_from: openers among the statements.
Openers(line, from, op) ==
    Cardinality({i \in from .. Len(line) :
                    IsStatement(line, i) /\ line[i].op = op})

-----------------------------------------------------------------------------
(* build_jumps.                                                            *)

\* FOR lines are paired with NEXT lines by a stack; 0 is no line.
NextTable(lines) ==
    LET scan[n \in 0 .. Len(lines)] ==
          IF n = 0 THEN [open |-> <<>>, table |-> [l \in DOMAIN lines |-> 0]]
          ELSE LET s == scan[n - 1] IN
            IF AtLine(lines, n, {"for"})
            THEN [s EXCEPT !.open = Append(@, n)]
            ELSE IF AtLine(lines, n, {"next"}) /\ s.open # <<>>
            THEN [open |-> Front(s.open),
                  table |-> [s.table EXCEPT ![Last(s.open)] = n]]
            ELSE s
    IN scan[Len(lines)].table

\* The lines of each block IF, from the IF to the ENDIF, as the stack pairs
\* them; the IF is 0 when its line cannot name it.
IfChains(lines) ==
    LET opened(n) ==
          LET k == Openers(lines[n], 1, "if")
              named == ~AtLine(lines, n, {"else", "elseif"})
          IN [j \in 1 .. k |-> <<IF j = 1 /\ named THEN n ELSE 0>>]
        scan[n \in 0 .. Len(lines)] ==
          IF n = 0 THEN [open |-> <<>>, chains |-> {}]
          ELSE LET s == scan[n - 1]
                   closed == AtLine(lines, n, {"endif"}) /\ s.open # <<>>
                   arm == AtLine(lines, n, {"else", "elseif"}) /\ s.open # <<>>
                   with == IF s.open = <<>> THEN <<>> ELSE Append(Last(s.open), n)
               IN [open |-> (IF closed THEN Front(s.open)
                             ELSE IF arm THEN Append(Front(s.open), with)
                             ELSE s.open) \o opened(n),
                   chains |-> IF closed THEN s.chains \cup {with}
                              ELSE s.chains]
    IN scan[Len(lines)].chains

\* Bug: an arm is recorded as the last one before it is linked.
ElseTableSelf(lines) ==
    [l \in DOMAIN lines |-> IF AtLine(lines, l, {"elseif"}) THEN l ELSE 0]

\* jmp_else links the lines of a chain; jmp_endif points them at its end.
ElseTable(lines) ==
    LET chains == IfChains(lines)
    IN [l \in DOMAIN lines |->
        LET after == {c[k + 1] : <<c, k>> \in
               {ck \in chains \X DOMAIN lines :
                   ck[2] < Len(ck[1]) /\ ck[1][ck[2]] = l}}
        IN IF after = {} THEN 0 ELSE CHOOSE n \in after : TRUE]

EndifTable(lines) ==
    LET chains == IfChains(lines)
    IN [l \in DOMAIN lines |->
        LET ends == {Last(c) : c \in
               {d \in chains : d[1] # 0 /\ \E k \in 1 .. Len(d) - 1 :
                                                         d[k] = l}}
        IN IF ends = {} THEN 0 ELSE CHOOSE n \in ends : TRUE]

\* run_program, a fresh run.
Init ==
    /\ prog \in Programs
    /\ jumps = [next |-> NextTable(prog.lines), else |-> ElseTable(prog.lines),
                endif |-> EndifTable(prog.lines)]
    /\ pc = 1 /\ pos = 0
    /\ ifs = <<>> /\ shadow = 0 /\ inline = "no"
    /\ sels = <<>> /\ fors = <<>>
    /\ count = [d \in 1 .. 2 |-> 0]
    /\ out = <<>>
    /\ status = "run"

-----------------------------------------------------------------------------
(* The start of a line: process_line_structure.                            *)

Skips(stack) == stack # <<>> /\ Last(stack).state # "body"
SelSkips(stack) == stack # <<>> /\ Last(stack).skip
WithTop(stack, field, value) ==
    [stack EXCEPT ![Len(stack)] = [@ EXCEPT ![field] = value]]

Holds(t) == t.arg = "yes" \/ (t.arg = "first" /\ count[t.depth] = 1)

AtStart == status = "run" /\ pos = 0
StartsWith(op) == Line[1].op = op
LineDone == pos' = Len(Line) + 1

StructureOnly == UNCHANGED <<prog, jumps, pc, inline, fors, count, out, status>>

\* An ENDIF closes its block; what follows on its line runs, unless a block
\* around it is skipped: then the IFs it opens are counted.
LineEndif ==
    /\ AtStart /\ ifs # <<>> /\ StartsWith("endif")
    /\ Skips(ifs) \/ ~SelSkips(sels)
    /\ LET shadowed == Skips(ifs) /\ shadow > 0
           left == IF shadowed THEN ifs ELSE Front(ifs)
           shadows == IF shadowed THEN shadow - 1 ELSE shadow
       IN /\ ifs' = left
          /\ IF Skips(left) \/ SelSkips(sels)
             THEN /\ shadow' = shadows + Openers(Line, 2, "if")
                  /\ LineDone
             ELSE shadow' = shadows /\ pos' = 2
    /\ UNCHANGED sels /\ StructureOnly

\* Only the innermost IF that still searches evaluates an ELSEIF.
LineElseif ==
    /\ AtStart /\ Skips(ifs) /\ StartsWith("elseif")
    /\ ifs' = IF shadow = 0 /\ Last(ifs).state = "search" /\ Holds(Line[1])
              THEN WithTop(ifs, "state", "body") ELSE ifs
    /\ LineDone
    /\ UNCHANGED <<shadow, sels>> /\ StructureOnly

LineElse ==
    /\ AtStart /\ Skips(ifs) /\ StartsWith("else")
    /\ IF shadow = 0 /\ Last(ifs).state = "search"
       THEN ifs' = WithTop(ifs, "state", "body") /\ pos' = 1
       ELSE UNCHANGED ifs /\ LineDone
    /\ UNCHANGED <<shadow, sels>> /\ StructureOnly

LineSkipped ==
    /\ AtStart /\ Skips(ifs)
    /\ Line[1].op \notin {"endif", "elseif", "else"}
    /\ shadow' = shadow + Openers(Line, 1, "if")
    /\ LineDone
    /\ UNCHANGED <<ifs, sels>> /\ StructureOnly

Skipped == [active |-> FALSE, skip |-> TRUE, skipped |-> TRUE]

LineSelSkipped ==
    /\ AtStart /\ ~Skips(ifs) /\ SelSkips(sels)
    /\ \/ /\ StartsWith("select")
          /\ sels' = Append(sels, Skipped)
          /\ LineDone
       \/ /\ StartsWith("endsel")
          /\ IF SelSkips(Front(sels))
             THEN /\ sels' = Front(sels) \o
                        [i \in 1 .. Openers(Line, 2, "select") |-> Skipped]
                  /\ LineDone
             ELSE sels' = Front(sels) /\ pos' = 2
       \/ /\ StartsWith("case")
          /\ IF Last(sels).skipped THEN LineDone ELSE pos' = 1
          /\ UNCHANGED sels
       \/ /\ Line[1].op \notin {"select", "endsel", "case"}
          /\ LineDone
          /\ UNCHANGED sels
    /\ UNCHANGED <<ifs, shadow>> /\ StructureOnly

\* The end of the arm that ran.
LineArmEnds ==
    /\ AtStart /\ ifs # <<>> /\ ~Skips(ifs) /\ ~SelSkips(sels)
    /\ StartsWith("else") \/ StartsWith("elseif")
    /\ ifs' = WithTop(ifs, "state", "done")
    /\ LineDone
    /\ UNCHANGED <<shadow, sels>> /\ StructureOnly

LinePlain ==
    /\ AtStart /\ ~Skips(ifs) /\ ~SelSkips(sels)
    /\ ifs = <<>> \/ Line[1].op \notin {"else", "elseif", "endif"}
    /\ pos' = 1
    /\ UNCHANGED <<ifs, shadow, sels>> /\ StructureOnly

-----------------------------------------------------------------------------
(* The statements of a line: exec_stmt_loop.                               *)

At(op) == status = "run" /\ pos \in 1 .. Len(Line) /\ Token.op = op

\* The colon that ends this statement, or the end of the line (skip_stmt).
NextColon(i) ==
    LET colons == {j \in i + 1 .. Len(Line) : Line[j].colon}
    IN IF colons = {} THEN Len(Line) + 1
       ELSE CHOOSE j \in colons : \A k \in colons : j <= k

\* After a statement: the arm of a one-line IF ends at its ELSE, and in the
\* body of a FOR on this line at the colon.
Proceed ==
    /\ pos' = IF inline = "arm" THEN NextColon(pos)
              ELSE IF /\ inline = "then" /\ pos < Len(Line)
                      /\ Line[pos + 1].op = "else1" THEN Len(Line) + 1
              ELSE pos + 1
    /\ inline' = IF inline = "arm" THEN "no" ELSE inline
    /\ UNCHANGED <<pc, status>>

Branch(line, at) == pc' = line /\ pos' = at /\ inline' = "no" /\ UNCHANGED status

Fail == status' = "error" /\ UNCHANGED <<pc, pos, inline>>

Rest == UNCHANGED <<prog, jumps>>

PrintStatement ==
    /\ At("print")
    /\ out' = Append(out, Token.id)
    /\ Proceed
    /\ Rest /\ UNCHANGED <<ifs, shadow, sels, fors, count>>

\* An ELSE at the start of the arm that is taken, as a statement.
ElseWord ==
    /\ At("else")
    /\ Proceed
    /\ Rest /\ UNCHANGED <<ifs, shadow, sels, fors, count, out>>

If ==
    /\ At("if")
    /\ ifs' = Append(ifs, [state |-> IF Holds(Token) THEN "body" ELSE "search",
                           line |-> pc])
    /\ Proceed
    /\ Rest /\ UNCHANGED <<shadow, sels, fors, count, out>>

Before(p, q) == p[1] < q[1] \/ (p[1] = q[1] /\ p[2] < q[2])

\* if_in_same_line_for_body compares addresses, over all the lines between.
InForBody ==
    /\ fors # <<>>
    /\ Last(fors).next # <<>>
    /\ ~Before(<<pc, pos>>, <<Last(fors).line, Last(fors).pos>>)
    /\ Before(<<pc, pos>>, Last(fors).next)

\* The arm of a one-line IF runs to the ELSE or the end of the line; in the
\* body of a FOR on this line it is one statement.
OneLineIf ==
    /\ At("if1")
    /\ LET end == IF InForBody THEN NextColon(pos) ELSE Len(Line) + 1
           elses == {i \in pos + 1 .. end - 1 : Line[i].op = "else1"}
           mode(arm) == IF InForBody THEN "arm" ELSE arm
       IN \/ /\ Holds(Token)
             /\ pos' = pos + 1 /\ inline' = mode("then")
          \/ /\ ~Holds(Token) /\ elses # {}
             /\ \E i \in elses :
                   /\ \A j \in elses : i <= j
                   /\ pos' = i + 1 /\ inline' = mode("else")
          \/ /\ ~Holds(Token) /\ elses = {}
             /\ pos' = end /\ UNCHANGED inline
    /\ UNCHANGED <<pc, status>>
    /\ Rest /\ UNCHANGED <<ifs, shadow, sels, fors, count, out>>

Select ==
    /\ At("select")
    /\ sels' = Append(sels, [active |-> FALSE, skip |-> TRUE, skipped |-> FALSE])
    /\ Proceed
    /\ Rest /\ UNCHANGED <<ifs, shadow, fors, count, out>>

\* A CASE that is not taken eats its line.
Case ==
    /\ At("case")
    /\ IF sels # <<>> /\ ~Last(sels).skipped /\ ~Last(sels).active /\ Holds(Token)
       THEN /\ sels' = WithTop(WithTop(sels, "skip", FALSE), "active", TRUE)
            /\ Proceed
       ELSE /\ sels' = IF sels = <<>> \/ Last(sels).skipped THEN sels
                       ELSE WithTop(sels, "skip", TRUE)
            /\ pos' = Len(Line) + 1
            /\ UNCHANGED <<pc, inline, status>>
    /\ Rest /\ UNCHANGED <<ifs, shadow, fors, count, out>>

EndSelect ==
    /\ At("endsel")
    /\ sels' = IF sels = <<>> THEN sels ELSE Front(sels)
    /\ Proceed
    /\ Rest /\ UNCHANGED <<ifs, shadow, fors, count, out>>

\* The statements after this one, on this line and the lines below.
Ahead == {p \in (pc .. Len(Lines)) \X (1 .. 9) :
             /\ p[2] <= Len(Lines[p[1]])
             /\ Before(<<pc, pos>>, p)
             /\ IsStatement(Lines[p[1]], p[2])}

\* find_matching_next
MatchingNext ==
    LET loops(p, op) == Cardinality({q \in Ahead :
                            Before(q, p) /\ Lines[q[1]][q[2]].op = op})
        matches == {p \in Ahead : /\ Lines[p[1]][p[2]].op = "next"
                                  /\ loops(p, "for") = loops(p, "next")}
    IN IF matches = {} THEN <<>>
       ELSE CHOOSE p \in matches : \A q \in matches : p = q \/ Before(p, q)

\* stmt_after: where a loop is left to, the next line when nothing follows.
After(p) == IF p[2] < Len(Lines[p[1]]) THEN <<p[1], p[2] + 1>>
            ELSE <<p[1] + 1, 0>>

\* mmb_cmd_for.  An empty range is tested before the first pass.
For ==
    /\ At("for")
    /\ count' = [count EXCEPT ![Token.depth] = 1]
    /\ LET body == pos < Len(Line)
           next == IF body THEN MatchingNext ELSE <<>>
       IN \/ /\ Token.arg > 0
             /\ fors' = Append(fors,
                  [depth |-> Token.depth, to |-> Token.arg, at |-> pc,
                   line |-> IF body THEN pc ELSE pc + 1,
                   pos |-> IF body THEN pos + 1 ELSE 0,
                   next |-> next, ifs |-> Len(ifs), sels |-> Len(sels)])
             /\ Proceed
          \/ /\ Token.arg = 0 /\ next # <<>>
             /\ Branch(After(next)[1], After(next)[2])
             /\ UNCHANGED fors
          \/ /\ Token.arg = 0 /\ ~body /\ jumps.next[pc] # 0
             /\ Branch(jumps.next[pc] + 1, 0)
             /\ UNCHANGED fors
          \/ /\ Token.arg = 0 /\ next = <<>> /\ (body \/ jumps.next[pc] = 0)
             /\ Proceed
             /\ UNCHANGED fors
    /\ Rest /\ UNCHANGED <<ifs, shadow, sels, out>>

\* Bug: the blocks opened in the loop stay open.
LoopKeeps(f) == UNCHANGED <<ifs, sels>>

\* loop_restore: the blocks opened in the loop are dropped.
LoopRestore(f) ==
    /\ ifs' = SubSeq(ifs, 1, f.ifs)
    /\ sels' = SubSeq(sels, 1, f.sels)

Frame == Last(fors)

\* mmb_cmd_next: back to the body, or out of the loop.
NextStatement ==
    /\ At("next")
    /\ \/ /\ fors # <<>>
          /\ count' = [count EXCEPT ![Frame.depth] = @ + 1]
          /\ LoopRestore(Frame)
          /\ \/ /\ count'[Frame.depth] <= Frame.to
                /\ pc' = Frame.line /\ pos' = Frame.pos
                /\ UNCHANGED <<fors, inline, status>>
             \/ /\ count'[Frame.depth] > Frame.to
                /\ fors' = Front(fors)
                /\ Proceed
       \/ /\ fors = <<>> /\ Fail
          /\ UNCHANGED <<fors, count, ifs, sels>>
    /\ Rest /\ UNCHANGED <<shadow, out>>

\* The NEXT of the loop: the one found when it began, or the NEXT line the
\* jump table gives its line; line 0 when there is none.
NextOf(f) == IF f.next # <<>> THEN f.next ELSE <<jumps.next[f.at], 0>>
NextKnown == fors # <<>> /\ NextOf(Frame)[1] # 0

\* EXIT FOR and CONTINUE FOR.
ExitFor ==
    /\ At("exit")
    /\ \/ /\ NextKnown
          /\ LET next == NextOf(Frame)
                 to == IF Frame.next # <<>> THEN After(next) ELSE <<next[1] + 1, 0>>
             IN Branch(to[1], to[2])
          /\ LoopRestore(Frame) /\ fors' = Front(fors)
       \/ /\ ~NextKnown
          /\ Fail /\ UNCHANGED <<ifs, sels, fors>>
    /\ Rest /\ UNCHANGED <<shadow, count, out>>

ContinueFor ==
    /\ At("continue")
    /\ \/ /\ NextKnown
          /\ Branch(NextOf(Frame)[1], NextOf(Frame)[2])
          /\ LoopRestore(Frame)
       \/ /\ ~NextKnown
          /\ Fail /\ UNCHANGED <<ifs, sels>>
    /\ Rest /\ UNCHANGED <<shadow, fors, count, out>>

-----------------------------------------------------------------------------
(* The end of a line: if_skip_pc and the next line.                        *)

\* Only a line of the block on top of the IF stack may hop.
MayHop ==
    /\ ifs # <<>> /\ shadow = 0
    /\ jumps.endif[Last(ifs).line] # 0
    /\ jumps.endif[pc] = jumps.endif[Last(ifs).line]

EndLine ==
    /\ status = "run" /\ pc <= Len(Lines) /\ pos > Len(Line)
    /\ LET end == jumps.endif[pc]
           arm == jumps.else[pc]
           leaves == \/ Last(ifs).state = "done"
                     \/ Last(ifs).state = "search" /\ arm = end
       IN IF MayHop /\ leaves
          THEN ifs' = Front(ifs) /\ pc' = end + 1
          ELSE /\ pc' = IF MayHop /\ Last(ifs).state = "search" /\ arm # 0
                        THEN arm ELSE pc + 1
               /\ UNCHANGED ifs
    /\ pos' = 0 /\ inline' = "no"
    /\ Rest /\ UNCHANGED <<shadow, sels, fors, count, out, status>>

Stop ==
    /\ status = "run" /\ pc > Len(Lines)
    /\ status' = "done"
    /\ Rest /\ UNCHANGED <<pc, pos, ifs, shadow, inline, sels, fors, count, out>>

Structure == \/ LineEndif \/ LineElseif \/ LineElse \/ LineSkipped
             \/ LineSelSkipped \/ LineArmEnds \/ LinePlain

Statement == \/ PrintStatement \/ ElseWord \/ If \/ OneLineIf \/ Select \/ Case
             \/ EndSelect \/ For \/ NextStatement \/ ExitFor \/ ContinueFor

Next == \/ /\ pc <= Len(Lines)
           /\ Structure \/ Statement \/ EndLine
        \/ Stop

Spec == Init /\ [][Next]_vars

-----------------------------------------------------------------------------
(* Properties.                                                             *)

\* A program prints what its blocks and loops say, in whatever way they are
\* spread over the lines: no hop over an arm, mid-line resume, empty range or
\* EXIT loses a statement, repeats one or runs one that is skipped, and a
\* program that ends leaves no block and no loop open.
PrintsWhatItSays ==
    /\ status # "error"
    /\ IsPrefix(out, prog.says)
    /\ status = "done" => out = prog.says /\ ifs = <<>> /\ shadow = 0
                          /\ sels = <<>> /\ fors = <<>>

\* No EXIT FOR, CONTINUE FOR or NEXT of a program whose loops are well nested
\* fails to find its loop.
LoopsFound == status # "error"

\* Every program ends, because the walk goes back in the text only by a NEXT that
\* counts a pass of its loop: no hop, empty range, EXIT or mid-line resume leads
\* it to where it was (if_skip_pc, mmb_cmd_for, mmb_cmd_exit).
GoesOn ==
    [][\/ Before(<<pc, pos>>, <<pc', pos'>>)
       \/ status' # "run"
       \/ /\ At("next") /\ count'[Frame.depth] = count[Frame.depth] + 1
          /\ count'[Frame.depth] <= Frame.to]_vars
=============================================================================
