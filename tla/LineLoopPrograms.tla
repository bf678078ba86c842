-------------------------- MODULE LineLoopPrograms --------------------------
(***************************************************************************)
(* The programs LineLoop is run on: every well-formed sequence of at most  *)
(* MaxTokens tokens, spread over lines in every way the language allows,   *)
(* with what each should print.  The meaning is read from the blocks       *)
(* alone: lines play no part in it.  Shapes names the layouts included     *)
(* that the line loop gets wrong; each is a claim of its own.              *)
(***************************************************************************)
EXTENDS Integers, Sequences, FiniteSets, SequencesExt, FiniteSetsExt

CONSTANTS MaxTokens, MaxDepth, Shapes

-----------------------------------------------------------------------------
(* Tokens and blocks.                                                      *)

\* A tied token is part of the one-line IF before it.
T(op, arg, depth) ==
    [op |-> op, arg |-> arg, depth |-> depth, tied |-> FALSE, colon |-> FALSE]
P == T("print", "", 0)
Tied(t, colon) == [t EXCEPT !.tied = TRUE, !.colon = colon]

Conds(d) == IF d = 0 THEN {"yes", "no"} ELSE {"no", "first"}
Cat(A, B) == {a \o b : <<a, b>> \in A \X B}
One(tokens) == {<<t>> : t \in tokens}

OneLineIfs(d) ==
    LET arms == {<<P>>, <<P, P>>} \cup
                IF d = 0 THEN {}
                ELSE One({T("exit", "", d), T("continue", "", d)})
        tie(arm) == [i \in DOMAIN arm |-> Tied(arm[i], i > 1)]
        if1(c, arm) == <<T("if1", c, d)>> \o tie(arm)
    IN UNION {{if1(c, a),
               if1(c, a) \o <<Tied(T("else1", "", d), FALSE), Tied(P, FALSE)>>} :
              <<c, a>> \in Conds(d) \X arms}

RECURSIVE Blocks(_, _), Arms(_, _, _, _)

\* n tokens: a body and then arms with theirs, one of last only at the end.
Arms(n, d, arms, last) ==
    LET with(A, m) == Cat(Blocks(m, d), One(A))
    IN Blocks(n, d) \cup
       UNION {Cat(with(arms, m), Arms(n - 1 - m, d, arms, last)) \cup
              Cat(with(last, m), Blocks(n - 1 - m, d)) : m \in 0 .. n - 1}

\* The sequences of n tokens that stand within d FOR loops.
Blocks(n, d) ==
    LET rest(k, A) == IF k > n THEN {} ELSE Cat(A, Blocks(n - k, d))
        block(open, inner, close) ==
            Cat(Cat(One(open), inner), One({T(close, "", d)}))
        cases == {T("case", c, d) : c \in Conds(d)}
        ifs(k) == block({T("if", c, d) : c \in Conds(d)},
                        Arms(k - 2, d, {T("elseif", c, d) : c \in Conds(d)},
                             {T("else", "yes", d)}), "endif")
        sels(k) == block({T("select", "", d)},
                         Cat(One(cases), Arms(k - 3, d, cases, {})), "endsel")
        loops(k) == Cat(Cat(One({T("for", m, d + 1) : m \in {0, 2}}),
                            Blocks(k - 2, d + 1)),
                        One({T("next", "", d + 1)}))
    IN IF n = 0 THEN {<<>>}
       ELSE rest(1, {<<P>>})
            \cup UNION {rest(Len(s), {s}) : s \in OneLineIfs(d)}
            \cup UNION {rest(k, ifs(k)) : k \in 2 .. n}
            \cup UNION {rest(k, sels(k)) : k \in 3 .. n}
            \cup IF d = MaxDepth THEN {}
                 ELSE UNION {rest(k, loops(k)) : k \in 2 .. n}

\* The token that closes, or is an arm of, the block opened at i.
Partners(ts, i, ops) ==
    LET open(j) == Cardinality({k \in i .. j : ts[k].op = ts[i].op})
        shut(j) == Cardinality({k \in i .. j - 1 : ts[k].op =
                     [if |-> "endif", select |-> "endsel", for |-> "next"]
                        [ts[i].op]})
    IN {j \in i + 1 .. Len(ts) : ts[j].op \in ops /\ open(j) - shut(j) = 1}

Close(ts, i) ==
    Min(Partners(ts, i, {[if |-> "endif", select |-> "endsel",
                          for |-> "next"][ts[i].op]}))

-----------------------------------------------------------------------------
(* Layouts: the tokens that share a line with the one before.              *)

Joinable(ts) ==
    {i \in 2 .. Len(ts) :
        /\ ~ts[i].tied
        /\ ts[i].op \notin {"else", "elseif", "endif", "case", "endsel"}
        /\ ts[i - 1].op \notin {"if", "elseif", "select"}}

Starts(ts, J) == {i \in DOMAIN ts : ~ts[i].tied /\ i \notin J}
LineAt(ts, J, i) == Max({s \in Starts(ts, J) : s <= i})
SameLine(ts, J, i, j) == LineAt(ts, J, i) = LineAt(ts, J, j)
InLine(ts, J, i) == i \notin Starts(ts, J)

Fors(ts) == {i \in DOMAIN ts : ts[i].op = "for"}
HasBody(J, f) == f + 1 \in J

\* The loops around i, on one line with their NEXT.
LineLoopsAround(ts, J, i) ==
    {f \in Fors(ts) : f < i /\ i < Close(ts, f)
                      /\ SameLine(ts, J, f, Close(ts, f))}

\* What the language leaves no doubt about.
Allowed(ts, J) ==
    \A i \in DOMAIN ts :
        /\ i \in J /\ ts[i - 1].tied => LineLoopsAround(ts, J, i - 1) # {}
        /\ ts[i].tied /\ ts[i].colon => LineLoopsAround(ts, J, i) = {}

\* A statement after an ENDIF that may be reached by a hop.
EndifTail(ts, J) ==
    \E i \in DOMAIN ts :
        /\ ts[i].op = "if"
        /\ Close(ts, i) + 1 \in J
        /\ ts[i].arg # "yes" \/ Partners(ts, i, {"else", "elseif"}) # {}

\* A loop of which only the FOR or only the NEXT begins a line, or a FOR that
\* ends a line it did not begin: the lines of the table are not its own.
OddLoop(ts, J) ==
    \E f \in Fors(ts) :
        \/ /\ InLine(ts, J, f) # InLine(ts, J, Close(ts, f))
           /\ ts[f].depth > 1 \/ ~HasBody(J, f)
        \/ InLine(ts, J, f) /\ ~HasBody(J, f)

\* A one-line IF of several statements, in a loop that begins on the line of
\* its FOR and does not end there.
OpenLoop(ts, J) ==
    \E f \in Fors(ts) : \E i \in f .. Close(ts, f) :
        /\ HasBody(J, f)
        /\ ts[i].tied /\ ts[i].colon

\* A statement after the NEXT of a loop whose FOR ends its line, when the
\* loop may be left from elsewhere than its NEXT.
NextTail(ts, J) ==
    \E f \in Fors(ts) :
        /\ ~HasBody(J, f)
        /\ Close(ts, f) + 1 \in J
        /\ \/ ts[f].arg = 0
           \/ \E i \in f .. Close(ts, f) : ts[i].op = "exit"
                                         /\ ts[i].depth = ts[f].depth

\* A block IF that is opened on the line of an ELSE.
ArmOpens(ts, J) ==
    \E i \in DOMAIN ts : /\ ts[i].op = "if" /\ InLine(ts, J, i)
                         /\ ts[LineAt(ts, J, i)].op = "else"

Layouts(ts) ==
    {J \in SUBSET Joinable(ts) :
        /\ Allowed(ts, J)
        /\ EndifTail(ts, J) => "endif" \in Shapes
        /\ NextTail(ts, J) => "next" \in Shapes
        /\ ArmOpens(ts, J) => "arm" \in Shapes
        /\ OddLoop(ts, J) => "odd" \in Shapes
        /\ OpenLoop(ts, J) => "open" \in Shapes}

LinesOf(ts, J) ==
    LET starts == Starts(ts, J)
        token(i) == [op |-> ts[i].op, arg |-> ts[i].arg, depth |-> ts[i].depth,
                     colon |-> ts[i].colon \/ i \in J, id |-> i]
        from[i \in 1 .. Len(ts) + 1] ==   \* the lines of the tokens from i
            IF i > Len(ts) THEN <<>>
            ELSE LET ends == {j \in i .. Len(ts) : j = Len(ts) \/ j + 1 \in starts}
                     end == Min(ends)
                 IN <<[n \in 1 .. end - i + 1 |-> token(i + n - 1)]>> \o from[end + 1]
    IN from[1]

-----------------------------------------------------------------------------
(* The meaning: what tokens i to j print, and how they are left, when the  *)
(* FOR counters are env.                                                   *)

RECURSIVE Meaning(_, _, _, _)
Meaning(ts, i, j, env) ==
    LET t == ts[i]
        holds(k) == ts[k].arg = "yes"
                    \/ (ts[k].arg = "first" /\ env[ts[k].depth] = 1)
        then(a, b) == [out |-> a.out \o b.out, sig |-> b.sig]
        nothing == [out |-> <<>>, sig |-> "on"]
        goon(a, k) == IF a.sig = "on" THEN then(a, Meaning(ts, k, j, env)) ELSE a
        \* the arm of a block that runs, from the first that holds
        arm(from, ops) ==
            LET close == Close(ts, i)
                arms == from \cup Partners(ts, i, ops)
                taken == {k \in arms : holds(k)}
                first == Min(taken)
                ends == {k \in arms : k > first} \cup {close}
            IN goon(IF taken = {} THEN nothing
                    ELSE Meaning(ts, first + 1, Min(ends) - 1, env), close + 1)
        passes[n \in 1 .. 3] ==
            IF n > t.arg THEN nothing
            ELSE LET p == Meaning(ts, i + 1, Close(ts, i) - 1,
                                  [env EXCEPT ![t.depth] = n])
                 IN IF p.sig = "exit" THEN [p EXCEPT !.sig = "on"]
                    ELSE then(p, passes[n + 1])
        tied == {k \in i .. j : \A l \in i + 1 .. k : ts[l].tied}
        else == {k \in tied : ts[k].op = "else1"}
    IN IF i > j THEN nothing
       ELSE CASE t.op = "print" -> goon([out |-> <<i>>, sig |-> "on"], i + 1)
            [] t.op \in {"exit", "continue"} -> [out |-> <<>>, sig |-> t.op]
            [] t.op = "if" -> arm({i}, {"else", "elseif"})
            [] t.op = "select" -> arm({}, {"case"})
            [] t.op = "for" -> goon(passes[1], Close(ts, i) + 1)
            [] t.op = "if1" ->
                 goon(IF holds(i)
                      THEN Meaning(ts, i + 1,
                                   IF else = {} THEN Max(tied) ELSE Min(else) - 1,
                                   env)
                      ELSE IF else = {} THEN nothing
                      ELSE Meaning(ts, Min(else) + 1, Max(tied), env),
                      Max(tied) + 1)

Says(ts) == Meaning(ts, 1, Len(ts), <<0, 0>>).out

MCPrograms ==
    UNION {LET says == Says(ts)
           IN {[lines |-> LinesOf(ts, J), says |-> says] : J \in Layouts(ts)} :
           ts \in UNION {Blocks(n, 0) : n \in 1 .. MaxTokens}}

-----------------------------------------------------------------------------
VARIABLES prog, jumps, pc, pos, ifs, shadow, inline, sels, fors, count, out,
          status

INSTANCE LineLoop WITH Programs <- MCPrograms
=============================================================================
