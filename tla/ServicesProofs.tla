---------------------------- MODULE ServicesProofs ----------------------------
(***************************************************************************)
(* The socket leads where it was last asked to, what a poll says of a dial *)
(* stays so, the clock is asked for within the window only, and the RAM    *)
(* disk is a tree of names in which every node is found and CWD$ leads     *)
(* back, for any hosts, any number of dials, any window and clock, any     *)
(* number of nodes and any paths.  All the services are well typed.        *)
(***************************************************************************)
EXTENDS Services, FtpProofs, PaintUndoProofs, TermPresentProofs, Integers,
        SequenceTheorems, WellFoundedInduction, TLAPS

\* No task has the generation of one that is still to be created.
GenKnown == \A t \in tasks : t.gen <= gen

\* At most one task is of a generation.
OneEach == \A t, u \in tasks : t.gen = u.gen => t = u

\* The task of the current generation works on what is wanted, and has not
\* ended: nothing was reached or said of the dial.
Current(t) ==
    /\ abandon = FALSE /\ wanted \in Hosts /\ openHost = wanted /\ waiting = None
    /\ sock = None /\ openDone = FALSE /\ told = "nothing"
    /\ t.at \in {"dns", "connect"} => t.host = wanted
    /\ t.at = "connect" => t.port = wanted

CurrentWanted == \A t \in tasks : t.gen = gen => Current(t)

\* A dial that waits for a task to end is the one wanted.
WaitingWanted ==
    waiting # None => waiting = wanted /\ abandon = TRUE /\ sock = None
                      /\ told = "nothing"

\* An outcome is of the dial that is wanted.
DoneWanted ==
    /\ openDone = TRUE /\ openResult = TRUE /\ wanted # None /\ waiting = None
          => sock # None
    /\ abandon = TRUE /\ wanted # None => waiting # None

\* What was said is for a dial that has its outcome.
ToldOutcome ==
    /\ told # "nothing" => wanted # None /\ waiting = None
    /\ told = "failed" => sock = None
    /\ told = "connected" => sock # None

IInv == /\ TypeOK /\ GenKnown /\ OneEach /\ CurrentWanted
        /\ WaitingWanted /\ DoneWanted /\ ToldOutcome /\ SocketAsked
-----------------------------------------------------------------------------
LEMMA InitIInv == Init => IInv
<1> SUFFICES ASSUME Init PROVE IInv
  OBVIOUS
<1>1. TypeOK
  BY DEF Init, TypeOK
<1>2. GenKnown /\ OneEach /\ CurrentWanted
  BY DEF Init, GenKnown, OneEach, CurrentWanted
<1>3. WaitingWanted /\ DoneWanted /\ ToldOutcome /\ SocketAsked
  BY DEF Init, WaitingWanted, DoneWanted, ToldOutcome, SocketAsked
<1> QED BY <1>1, <1>2, <1>3 DEF IInv

\* A task that was created is of the newest generation and at its beginning.
NewTask(g) == [gen |-> g, at |-> "new", host |-> None, port |-> None]

LEMMA BeginStep ==
  ASSUME IInv, NEW h \in Hosts, Begin(h)
  PROVE  IInv'
<1> USE DEF IInv
<1>1. TypeOK'
  <2>1. /\ wanted' \in Hosts \cup {None} /\ openHost' \in Hosts \cup {None}
        /\ told' \in {"nothing", "connected", "failed"}
        /\ sock' \in Address \cup {None} /\ dials' \in Nat
        /\ taskBusy' \in BOOLEAN
    BY DEF Begin, TypeOK
  <2>2. CASE taskBusy
    BY <2>1, <2>2 DEF Begin, TypeOK
  <2>3. CASE ~taskBusy
    <3>1. /\ tasks' = tasks \cup {NewTask(gen + 2)}
          /\ gen' = gen + 2 /\ waiting' = None
          /\ abandon' = FALSE /\ openDone' = FALSE /\ openResult' = FALSE
      BY <2>3 DEF Begin, StartTask, NewTask
    <3>2. gen + 2 \in Nat /\ NewTask(gen + 2) \in Task
      BY DEF TypeOK, NewTask, Task
    <3> QED BY <2>1, <3>1, <3>2 DEF TypeOK
  <2> QED BY <2>2, <2>3
<1>2. CASE taskBusy
  <2>1. tasks' = tasks /\ gen' = gen + 1 /\ \A t \in tasks : t.gen \in Nat
    BY <1>2 DEF Begin, TypeOK, Task
  <2>2. GenKnown' /\ OneEach' /\ CurrentWanted'
    BY <2>1 DEF GenKnown, OneEach, CurrentWanted, TypeOK
  <2>3. WaitingWanted' /\ DoneWanted' /\ ToldOutcome' /\ SocketAsked'
    BY <1>2, NoHost DEF Begin, WaitingWanted, DoneWanted, ToldOutcome, SocketAsked
  <2> QED BY <1>1, <2>2, <2>3
<1>3. CASE ~taskBusy
  <2>1. /\ tasks' = tasks \cup {NewTask(gen + 2)}
        /\ gen' = gen + 2 /\ gen \in Nat
        /\ \A t \in tasks : t.gen \in Nat
    BY <1>3 DEF Begin, StartTask, NewTask, TypeOK, Task
  <2>2. GenKnown' /\ OneEach'
    BY <2>1 DEF GenKnown, OneEach, NewTask
  <2>3. \A t \in tasks' : t.gen = gen' => t = NewTask(gen + 2)
    BY <2>1 DEF GenKnown, NewTask
  <2>4. CurrentWanted'
    BY <1>3, <2>3 DEF CurrentWanted, Current, Begin, StartTask, NewTask
  <2>5. WaitingWanted' /\ DoneWanted' /\ ToldOutcome' /\ SocketAsked'
    BY <1>3, NoHost DEF Begin, StartTask, WaitingWanted, DoneWanted, ToldOutcome,
      SocketAsked
  <2> QED BY <1>1, <2>2, <2>4, <2>5
<1> QED BY <1>2, <1>3

LEMMA CloseStep ==
  ASSUME IInv, Close
  PROVE  IInv'
<1> USE DEF IInv
<1>1. TypeOK'
  BY DEF Close, TypeOK, Task, Address
<1>2. tasks' = tasks /\ gen' = gen + 1 /\ \A t \in tasks : t.gen \in Nat
  BY DEF Close, TypeOK, Task
<1>3. GenKnown' /\ OneEach' /\ CurrentWanted'
  BY <1>2 DEF GenKnown, OneEach, CurrentWanted, TypeOK
<1>4. WaitingWanted' /\ DoneWanted' /\ ToldOutcome' /\ SocketAsked'
  BY NoHost DEF Close, WaitingWanted, DoneWanted, ToldOutcome, SocketAsked
<1> QED BY <1>1, <1>3, <1>4

\* Polling without starting a task: only what is said may change, and it is
\* said only when the dial has its outcome.
LEMMA SaidStep ==
  ASSUME IInv, NEW what \in {"nothing", "connected", "failed"}, Said(what),
         UNCHANGED <<wanted, taskBusy, sock, dials>>,
         what = told
           \/ /\ wanted # None /\ waiting = None
              /\ sock # None \/ openDone = TRUE
              /\ what = "failed" => sock = None
              /\ what = "connected" => sock # None
  PROVE  IInv'
<1> USE DEF IInv
<1>1. TypeOK'
  BY DEF Said, TypeOK, Task, Address
<1>2. GenKnown' /\ OneEach' /\ WaitingWanted' /\ DoneWanted' /\ SocketAsked'
  BY DEF Said, GenKnown, OneEach, WaitingWanted, DoneWanted, SocketAsked
<1>3. CurrentWanted'
  BY DEF Said, CurrentWanted, Current
<1>4. ToldOutcome'
  BY DEF Said, ToldOutcome
<1> QED BY <1>1, <1>2, <1>3, <1>4

LEMMA StatusStep ==
  ASSUME IInv, Status
  PROVE  IInv'
<1> USE DEF IInv
<1>0. /\ wanted # None /\ told \in {"nothing", "connected", "failed"}
      /\ UNCHANGED <<wanted, taskBusy, sock, dials>>
  BY DEF Status, TypeOK
<1>1. CASE sock # None
  <2>1. Said("connected")
    BY <1>1 DEF Status
  <2>2. waiting = None
    BY <1>1 DEF WaitingWanted
  <2> QED BY <1>0, <1>1, <2>1, <2>2, SaidStep
<1>2. CASE sock = None /\ waiting # None /\ ~taskBusy
  <2>1. /\ tasks' = tasks \cup {NewTask(gen + 1)}
        /\ gen' = gen + 1 /\ gen \in Nat
        /\ \A t \in tasks : t.gen \in Nat
    BY <1>2 DEF Status, StartTask, NewTask, TypeOK, Task
  <2>2. TypeOK'
    <3>1. /\ waiting' = None /\ openHost' = waiting
          /\ abandon' = FALSE /\ openDone' = FALSE /\ openResult' = FALSE
          /\ UNCHANGED <<wanted, told, taskBusy, sock, dials>>
      BY <1>2 DEF Status, StartTask
    <3>2. gen + 1 \in Nat /\ NewTask(gen + 1) \in Task
      BY DEF TypeOK, NewTask, Task
    <3> QED BY <2>1, <3>1, <3>2 DEF TypeOK
  <2>3. GenKnown' /\ OneEach'
    BY <2>1 DEF GenKnown, OneEach, NewTask
  <2>4. \A t \in tasks' : t.gen = gen' => t = NewTask(gen + 1)
    BY <2>1 DEF GenKnown, NewTask
  <2>5. waiting = wanted /\ waiting \in Hosts /\ told = "nothing"
    BY <1>2 DEF WaitingWanted, TypeOK
  <2>6. CurrentWanted'
    BY <1>2, <2>4, <2>5 DEF CurrentWanted, Current, Status, StartTask, NewTask
  <2>7. WaitingWanted' /\ DoneWanted' /\ ToldOutcome' /\ SocketAsked'
    BY <1>2, <2>5, NoHost DEF Status, StartTask, WaitingWanted, DoneWanted,
      ToldOutcome, SocketAsked
  <2> QED BY <2>2, <2>3, <2>6, <2>7
<1>3. CASE sock = None /\ waiting # None /\ taskBusy
  <2>1. Said(told)
    BY <1>3 DEF Status
  <2> QED BY <1>0, <2>1, SaidStep
<1>4. CASE sock = None /\ waiting = None
  <2>1. abandon = FALSE
    BY <1>0, <1>4 DEF DoneWanted, TypeOK
  <2>2. CASE openDone
    <3>1. openResult = FALSE
      BY <1>0, <1>4, <2>2 DEF DoneWanted, TypeOK
    <3>2. Said("failed")
      BY <1>4, <2>1, <2>2, <3>1 DEF Status
    <3>3. openDone = TRUE
      BY <2>2 DEF TypeOK
    <3> QED BY <1>0, <1>4, <3>2, <3>3, SaidStep
  <2>3. CASE ~openDone
    <3>1. Said(told)
      BY <1>4, <2>1, <2>3 DEF Status
    <3> QED BY <1>0, <3>1, SaidStep
  <2> QED BY <2>2, <2>3
<1> QED BY <1>1, <1>2, <1>3, <1>4

\* A task goes on.
LEMMA GoesStep ==
  ASSUME IInv, NEW t \in tasks, NEW next \in Task, Goes(t, next),
         next.gen = t.gen, taskBusy' \in BOOLEAN,
         t.gen = gen => Current(next),
         UNCHANGED <<wanted, told, gen, openHost, waiting, abandon, dials>>
  PROVE  IInv'
<1> USE DEF IInv
<1>1. tasks' = (tasks \ {t}) \cup {next}
  BY DEF Goes
<1>2. TypeOK'
  BY <1>1 DEF Goes, TypeOK
<1>3. GenKnown' /\ OneEach'
  BY <1>1 DEF GenKnown, OneEach
<1>4. CurrentWanted'
  BY <1>1 DEF Goes, CurrentWanted, Current
<1>5. WaitingWanted' /\ DoneWanted' /\ ToldOutcome' /\ SocketAsked'
  BY DEF Goes, WaitingWanted, DoneWanted, ToldOutcome, SocketAsked
<1> QED BY <1>2, <1>3, <1>4, <1>5

\* A task ends: it was of the current generation, or nothing is kept of it.
LEMMA EndsStep ==
  ASSUME IInv, NEW t \in tasks, NEW ok \in BOOLEAN, Ends(t, ok),
         ok => t.at = "connect",
         UNCHANGED <<wanted, told, gen, openHost, waiting, abandon, dials>>
  PROVE  IInv'
<1> USE DEF IInv
<1>1. tasks' = tasks \ {t} /\ taskBusy' = FALSE
  BY DEF Ends
<1>2. GenKnown' /\ OneEach'
  BY <1>1 DEF GenKnown, OneEach
<1>3. CASE t.gen # gen \/ abandon
  <2>1. UNCHANGED <<openDone, openResult, sock>>
    BY <1>3 DEF Ends
  <2>2. TypeOK'
    BY <1>1, <2>1 DEF TypeOK
  <2>3. CurrentWanted'
    BY <1>1, <2>1 DEF CurrentWanted, Current
  <2>4. WaitingWanted' /\ DoneWanted' /\ ToldOutcome' /\ SocketAsked'
    BY <2>1 DEF WaitingWanted, DoneWanted, ToldOutcome, SocketAsked
  <2> QED BY <1>2, <2>2, <2>3, <2>4
<1>4. CASE t.gen = gen /\ ~abandon
  <2>1. Current(t)
    BY <1>4 DEF CurrentWanted
  <2>2. /\ sock' = IF ok THEN [host |-> t.host, port |-> t.port] ELSE sock
        /\ openResult' = ok /\ openDone' = TRUE
    BY <1>4 DEF Ends
  <2>3. ok => sock' = [host |-> wanted, port |-> wanted]
    BY <2>1, <2>2 DEF Current
  <2>4. ~ok => sock' = None
    BY <2>1, <2>2 DEF Current
  <2>5. [host |-> wanted, port |-> wanted] \in Address
    BY <2>1 DEF Current, Address
  <2>6. TypeOK'
    BY <1>1, <2>2, <2>3, <2>4, <2>5 DEF TypeOK
  <2>7. \A u \in tasks' : u.gen # gen
    BY <1>1, <1>4 DEF OneEach
  <2>8. CurrentWanted'
    BY <2>7 DEF CurrentWanted
  <2>9. sock' # None <=> ok
    BY <2>3, <2>4, <2>5, NoHost DEF Address
  <2>10. WaitingWanted' /\ DoneWanted' /\ ToldOutcome'
    BY <2>1, <2>2, <2>9 DEF Current, WaitingWanted, DoneWanted, ToldOutcome
  <2>11. SocketAsked'
    BY <2>3, <2>4 DEF SocketAsked
  <2> QED BY <1>2, <2>6, <2>8, <2>10, <2>11
<1> QED BY <1>3, <1>4

LEMMA TaskSteps ==
  ASSUME IInv, TaskStep
  PROVE  IInv'
<1>1. PICK t \in tasks :
        /\ Runs(t) \/ NetUp(t) \/ Resolved(t) \/ Connected(t)
        /\ UNCHANGED <<wanted, told, gen, openHost, waiting, abandon, dials>>
  BY DEF TaskStep
<1>2. t \in Task /\ (t.gen = gen => Current(t))
  BY DEF IInv, TypeOK, CurrentWanted
<1>3. CASE Runs(t)
  <2> DEFINE next == [t EXCEPT !.at = "net"]
  <2>1. next \in Task /\ next.gen = t.gen /\ Goes(t, next) /\ taskBusy' = TRUE
    BY <1>2, <1>3 DEF Task, Runs
  <2>2. t.gen = gen => Current(next)
    BY <1>2 DEF Current, Task
  <2> HIDE DEF next
  <2> QED BY <1>1, <2>1, <2>2, GoesStep
<1>4. CASE NetUp(t)
  <2>1. CASE Ends(t, FALSE)
    BY <1>1, <2>1, EndsStep
  <2>2. CASE UNCHANGED taskBusy /\ Goes(t, [t EXCEPT !.at = "dns", !.host = openHost])
    <3> DEFINE next == [t EXCEPT !.at = "dns", !.host = openHost]
    <3>1. next \in Task /\ next.gen = t.gen /\ Goes(t, next) /\ taskBusy' \in BOOLEAN
      BY <1>2, <2>2 DEF Task, IInv, TypeOK
    <3>2. t.gen = gen => Current(next)
      BY <1>2 DEF Current, Task
    <3> HIDE DEF next
    <3> QED BY <1>1, <3>1, <3>2, GoesStep
  <2> QED BY <1>4, <2>1, <2>2 DEF NetUp
<1>5. CASE Resolved(t)
  <2>1. CASE Ends(t, FALSE)
    BY <1>1, <2>1, EndsStep
  <2>2. CASE /\ t.at = "dns" /\ UNCHANGED taskBusy
             /\ Goes(t, [t EXCEPT !.at = "connect", !.port = openHost])
    <3> DEFINE next == [t EXCEPT !.at = "connect", !.port = openHost]
    <3>1. next \in Task /\ next.gen = t.gen /\ Goes(t, next) /\ taskBusy' \in BOOLEAN
      BY <1>2, <2>2 DEF Task, IInv, TypeOK
    <3>2. t.gen = gen => Current(next)
      BY <1>2, <2>2 DEF Current, Task
    <3> HIDE DEF next
    <3> QED BY <1>1, <3>1, <3>2, GoesStep
  <2> QED BY <1>5, <2>1, <2>2 DEF Resolved
<1>6. CASE Connected(t)
  <2>1. PICK ok \in BOOLEAN : Ends(t, ok)
    BY <1>6 DEF Connected
  <2>2. t.at = "connect"
    BY <1>6 DEF Connected
  <2> QED BY <1>1, <2>1, <2>2, EndsStep
<1> QED BY <1>1, <1>3, <1>4, <1>5, <1>6

LEMMA StepIInv == IInv /\ [Next]_dialVars => IInv'
<1> SUFFICES ASSUME IInv, [Next]_dialVars PROVE IInv'
  OBVIOUS
<1>1. CASE \E h \in Hosts : Begin(h)
  BY <1>1, BeginStep
<1>2. CASE Close
  BY <1>2, CloseStep
<1>3. CASE Status
  BY <1>3, StatusStep
<1>4. CASE TaskStep
  BY <1>4, TaskSteps
<1>5. CASE UNCHANGED dialVars
  BY <1>5 DEF dialVars, IInv, TypeOK, GenKnown, OneEach, CurrentWanted, Current,
    WaitingWanted, DoneWanted, ToldOutcome, SocketAsked
<1> QED BY <1>1, <1>2, <1>3, <1>4, <1>5 DEF Next

LEMMA ServicesDial == ServicesSpec => Init /\ [][Next]_dialVars
<1>1. ServicesInit => Init
  BY DEF ServicesInit
<1>2. [ServicesNext]_vars => [Next]_dialVars
  BY DEF ServicesNext, vars
<1> QED BY <1>1, <1>2, PTL DEF ServicesSpec

\* An abandoned task never sets the socket, whatever was dialled since and
\* however late it ends (CTcpOpenTask::Run).
THEOREM SocketTheorem == ServicesSpec => []SocketAsked
<1>1. IInv => SocketAsked
  BY DEF IInv
<1> QED BY InitIInv, StepIInv, <1>1, ServicesDial, PTL

\* What mmb_net_tcp_status says of a dial is final: no dial said to have failed
\* connects later.
THEOREM ToldTheorem == ServicesSpec => []ToldForGood
<1>1. IInv => ToldForGood
  BY DEF IInv, ToldForGood, ToldOutcome, CurrentWanted, Current
<1> QED BY InitIInv, StepIInv, <1>1, ServicesDial, PTL

-----------------------------------------------------------------------------
(* The clock.                                                              *)

\* Typing of what the window depends on.
ClockTyped ==
  /\ now \in 0 .. Wrap - 1 /\ age \in 0 .. Lifetime
  /\ seenUp \in 0 .. Lifetime /\ seenUp <= age
  /\ deadline \in 0 .. Wrap - 1

\* The clock is as far from a deadline that is set as the age from the end of
\* the window, but for one turn of the clock.
DeadlineTrue ==
  wasReady /\ deadline # 0 =>
    LET past == age - seenUp - Patience
    IN  now - deadline \in {past - Wrap, past, past + Wrap}

ClockInv == ClockTyped /\ DeadlineTrue /\ WindowBounded

LEMMA Residue ==
  ASSUME NEW w \in Nat, NEW a \in 0 .. w - 1
  PROVE  a % w = a /\ (a + w) % w = a
<1>1. a % w = a
  BY SMT
<1>2. (a + w) % w = a
  BY SMT
<1> QED BY <1>1, <1>2

\* A time of day some seconds on.
LEMMA InTime ==
  ASSUME NEW w \in Nat, NEW n \in 0 .. w - 1, NEW s \in 0 .. w - 1
  PROVE  /\ (n + s) % w \in 0 .. w - 1
         /\ (n + s) % w \in {n + s, n + s - w}
<1>1. CASE n + s < w
  <2>1. n + s \in 0 .. w - 1
    BY <1>1
  <2> QED BY <2>1, Residue
<1>2. CASE ~(n + s < w)
  <2>1. n + s - w \in 0 .. w - 1 /\ (n + s - w) + w = n + s
    BY <1>2
  <2>2. (n + s) % w = n + s - w
    BY <2>1, Residue
  <2> QED BY <2>1, <2>2
<1> QED BY <1>1, <1>2

\* A deadline that the age has reached, less than half a turn ago, has passed.
LEMMA HasPassed ==
  ASSUME NEW w \in Nat, NEW n \in 0 .. w - 1, NEW d \in 0 .. w - 1,
         NEW past \in Nat, past < w \div 2, n - d \in {past - w, past, past + w}
  PROVE  (n - d + w) % w < w \div 2
<1>1. past \in 0 .. w - 1
  BY SMT
<1>2. n - d + w = past \/ n - d + w = past + w
  BY <1>1, SMT
<1>3. (n - d + w) % w = past
  BY <1>1, <1>2, Residue
<1> QED BY <1>3

LEMMA ClockStarts == NTP!Init => ClockInv
<1> SUFFICES ASSUME NTP!Init PROVE ClockInv
  OBVIOUS
<1>1. now \in 0 .. Wrap - 1 /\ age = 0 /\ seenUp = 0 /\ deadline = 0
      /\ wasReady = FALSE /\ late = "no"
  BY DEF NTP!Init
<1>2. 0 \in 0 .. Wrap - 1 /\ 0 \in 0 .. Lifetime /\ 0 <= 0
  BY <1>1, ClockAssumption
<1>3. ClockTyped
  BY <1>1, <1>2 DEF ClockTyped
<1> QED BY <1>1, <1>3 DEF ClockInv, DeadlineTrue, WindowBounded, NTP!WindowBounded

LEMMA TickStep ==
  ASSUME ClockInv, NTP!Tick
  PROVE  ClockInv'
<1>1. /\ now \in 0 .. Wrap - 1 /\ Wrap \in Nat /\ Patience \in 0 .. Wrap - 1
      /\ age \in Nat /\ seenUp \in Nat /\ Lifetime \in Nat /\ deadline \in 0 .. Wrap - 1
      /\ age' = age + 1 /\ now' = (now + 1) % Wrap /\ age < Lifetime
      /\ UNCHANGED <<seenUp, deadline, wasReady, late>>
  BY ClockAssumption DEF ClockInv, ClockTyped, NTP!Tick
<1>2. now' \in 0 .. Wrap - 1 /\ now' \in {now + 1, now + 1 - Wrap}
  <2>1. CASE Wrap = 1
    BY <1>1, <2>1
  <2>2. CASE Wrap # 1
    <3>1. 1 \in 0 .. Wrap - 1
      BY <1>1, <2>2
    <3> QED BY <1>1, <3>1, InTime
  <2> QED BY <2>1, <2>2
<1>3. ClockTyped'
  BY <1>1, <1>2 DEF ClockInv, ClockTyped
<1>4. DeadlineTrue'
  <2> SUFFICES ASSUME wasReady, deadline # 0
               PROVE  LET past == age + 1 - seenUp - Patience
                      IN  now' - deadline \in {past - Wrap, past, past + Wrap}
    BY <1>1 DEF DeadlineTrue
  <2> DEFINE was == age - seenUp - Patience
  <2>1. now - deadline \in {was - Wrap, was, was + Wrap}
    BY DEF ClockInv, DeadlineTrue
  <2>2. age - seenUp - Patience + 1 < Wrap /\ age - seenUp - Patience > -Wrap
    BY <1>1, ClockAssumption DEF ClockInv, ClockTyped
  <2> QED BY <1>1, <1>2, <2>1, <2>2, SMT
<1> QED BY <1>1, <1>3, <1>4 DEF ClockInv, WindowBounded, NTP!WindowBounded

\* A poll that leaves the window as it is, or unsets it.
LEMMA WindowStays ==
  ASSUME ClockInv, UNCHANGED <<now, age, seenUp>>, deadline' \in {0, deadline},
         wasReady' => wasReady, late' # "yes"
  PROVE  ClockInv'
<1>1. deadline' \in 0 .. Wrap - 1
  BY ClockAssumption DEF ClockInv, ClockTyped
<1>2. ClockTyped'
  BY <1>1 DEF ClockInv, ClockTyped
<1>3. DeadlineTrue'
  BY DEF ClockInv, DeadlineTrue
<1> QED BY <1>2, <1>3 DEF ClockInv, WindowBounded, NTP!WindowBounded

Statics(o) == o = [done |-> o.done, fails |-> o.fails, nextAt |-> o.nextAt,
                   deadline |-> o.deadline]

\* The statics as the poll finds them, after a change of the option.
LEMMA NoticedDeadline ==
  NTP!Noticed.deadline \in {0, deadline} /\ Statics(NTP!Noticed)
BY DEF NTP!Noticed, Statics

\* What a poll with a network does to them.
LEMMA OnlineDeadline ==
  ASSUME NEW o, Statics(o), NTP!Online(o)
  PROVE  deadline' = o.deadline
<1>1. [o EXCEPT !.done = TRUE].deadline = o.deadline
  BY DEF Statics
<1>2. ASSUME NEW n, NEW t
      PROVE  [o EXCEPT !.fails = n, !.nextAt = t].deadline = o.deadline
  BY DEF Statics
<1>3. CASE NTP!Set(o)
  BY <1>3 DEF NTP!Set
<1>4. CASE NTP!Attempt(o)
  BY <1>1, <1>2, <1>4 DEF NTP!Attempt, NTP!Set
<1> QED BY <1>3, <1>4 DEF NTP!Online

\* An attempt of a poll that keeps its window is within it.
LEMMA AttemptInTime ==
  ASSUME ClockInv, NEW o, o.deadline \in {0, deadline}, wasReady,
         ~(o.deadline # 0 /\ NTP!Passed(o.deadline)),
         o.deadline # 0
  PROVE  ~(age - seenUp >= Patience)
<1> SUFFICES ASSUME age - seenUp >= Patience PROVE FALSE
  OBVIOUS
<1> DEFINE past == age - seenUp - Patience
<1>1. now - deadline \in {past - Wrap, past, past + Wrap}
  BY DEF ClockInv, DeadlineTrue
<1>2. /\ now \in 0 .. Wrap - 1 /\ deadline \in 0 .. Wrap - 1 /\ Wrap \in Nat
      /\ past \in Nat /\ past < Wrap \div 2
  BY ClockAssumption DEF ClockInv, ClockTyped
<1>3. (now - deadline + Wrap) % Wrap < Wrap \div 2
  BY <1>1, <1>2, HasPassed
<1> QED BY <1>3 DEF NTP!Passed

LEMMA PollStep ==
  ASSUME ClockInv, NTP!Poll
  PROVE  ClockInv'
<1> DEFINE o == NTP!Noticed
<1>1. o.deadline \in {0, deadline} /\ Statics(o)
  BY NoticedDeadline
<1>2. UNCHANGED <<now, age>> /\ late # "yes"
  BY DEF NTP!Poll, NTP!ntpEnv, ClockInv, ClockTyped, WindowBounded, NTP!WindowBounded
<1>3. \/ NTP!Nothing(o)
      \/ NTP!Offline(o)
      \/ NTP!Online(NTP!Opened(o))
  BY DEF NTP!Poll
<1> HIDE DEF o
<1>4. CASE NTP!Nothing(o)
  BY <1>1, <1>2, <1>4, WindowStays DEF NTP!Nothing, NTP!Set
<1>5. CASE NTP!Offline(o)
  <2>1. deadline' = 0 /\ wasReady' = FALSE /\ UNCHANGED <<seenUp, late>>
    BY <1>5 DEF NTP!Offline, NTP!Set, NTP!Fresh
  <2> QED BY <1>2, <2>1, WindowStays
<1>6. CASE NTP!Online(NTP!Opened(o)) /\ wasReady
  <2>1. NTP!Opened(o) = o
    BY <1>6 DEF NTP!Opened
  <2>2. wasReady' = wasReady /\ seenUp' = seenUp
    BY <1>6, <2>1, <1>2 DEF NTP!Online
  <2>3. deadline' = o.deadline
    BY <1>1, <1>6, <2>1, OnlineDeadline
  <2>4. late' # "yes"
    <3>1. CASE late' = late
      BY <1>2, <3>1
    <3>2. CASE late' # late
      <4>1. /\ ~(o.deadline # 0 /\ NTP!Passed(o.deadline))
            /\ NTP!Attempt(o)
        BY <1>6, <2>1, <3>2 DEF NTP!Online
      <4>2. late' = IF wasReady /\ age - seenUp >= Patience
                    THEN IF o.deadline = 0 THEN "unset" ELSE "yes"
                    ELSE late
        BY <4>1 DEF NTP!Attempt
      <4>3. o.deadline # 0 => ~(age - seenUp >= Patience)
        BY <1>1, <1>6, <4>1, AttemptInTime
      <4> QED BY <4>2, <4>3, <1>2
    <3> QED BY <3>1, <3>2
  <2> QED BY <1>1, <1>2, <2>2, <2>3, <2>4, WindowStays
<1>7. CASE NTP!Online(NTP!Opened(o)) /\ ~wasReady
  <2>1. /\ NTP!Opened(o).deadline = (now + Patience) % Wrap
        /\ Statics(NTP!Opened(o))
    BY <1>1, <1>7 DEF NTP!Opened, NTP!Fresh, NTP!In, Statics
  <2>2. wasReady' = TRUE /\ seenUp' = age
    BY <1>7 DEF NTP!Online
  <2>3. deadline' = (now + Patience) % Wrap
    BY <1>7, <2>1, OnlineDeadline
  <2>4. late' = late
    BY <1>7 DEF NTP!Online, NTP!Attempt
  <2>5. /\ Wrap \in Nat /\ Patience \in 0 .. Wrap - 1 /\ now \in 0 .. Wrap - 1
        /\ age \in 0 .. Lifetime /\ age \in Int /\ age <= age
    BY ClockAssumption DEF ClockInv, ClockTyped
  <2>6. /\ deadline' \in 0 .. Wrap - 1
        /\ deadline' \in {now + Patience, now + Patience - Wrap}
    BY <2>3, <2>5, InTime
  <2>7. ClockTyped'
    BY <1>2, <2>2, <2>5, <2>6 DEF ClockTyped
  <2>8. DeadlineTrue'
    <3>1. age' - seenUp' - Patience = 0 - Patience
      BY <1>2, <2>2, <2>5
    <3> QED BY <1>2, <2>5, <2>6, <3>1 DEF DeadlineTrue
  <2> QED BY <1>2, <2>4, <2>7, <2>8 DEF ClockInv, WindowBounded, NTP!WindowBounded
<1> QED BY <1>2, <1>3, <1>4, <1>5, <1>6, <1>7

LEMMA ClockStep == ClockInv /\ [NTP!Next]_ntpVars => ClockInv'
<1> SUFFICES ASSUME ClockInv, [NTP!Next]_ntpVars PROVE ClockInv'
  OBVIOUS
<1>1. CASE NTP!Poll
  BY <1>1, PollStep
<1>2. CASE NTP!Tick
  BY <1>2, TickStep
<1>3. CASE NTP!World \/ UNCHANGED ntpVars
  <2>1. UNCHANGED <<now, age, seenUp, deadline, wasReady, late>>
    BY <1>3 DEF NTP!World, ntpVars
  <2> QED BY <2>1, WindowStays DEF ClockInv, WindowBounded, NTP!WindowBounded
<1> QED BY <1>1, <1>2, <1>3 DEF NTP!Next

LEMMA ServicesClock == ServicesSpec => NTP!Init /\ [][NTP!Next]_ntpVars
<1>1. ServicesInit => NTP!Init
  BY DEF ServicesInit
<1>2. [ServicesNext]_vars => [NTP!Next]_ntpVars
  BY DEF ServicesNext, vars, ntpVars
<1> QED BY <1>1, <1>2, PTL DEF ServicesSpec

THEOREM WindowTheorem == ServicesSpec => []WindowBounded
<1>1. ClockInv => WindowBounded
  BY DEF ClockInv
<1> QED BY <1>1, ClockStarts, ClockStep, ServicesClock, PTL

-----------------------------------------------------------------------------
(* Numbers, and functions defined from 0 on.                               *)

\* Order of the numbers, as the pairs that are in order.
Below == {p \in Nat \X Nat : p[1] < p[2]}

\* A set of numbers has a least one.
LEMMA LeastOne ==
  ASSUME NEW S, S \subseteq Nat, S # {}
  PROVE  \E x \in S : \A y \in S : x <= y
<1>1. IsWellFoundedOn(Below, Nat)
  BY NatLessThanWellFounded DEF Below, OpToRel
<1>2. PICK x \in S : \A y \in S : ~ (<<y, x>> \in Below)
  BY <1>1, WFMin
<1>3. \A y \in S : x <= y
  <2> SUFFICES ASSUME NEW y \in S, ~ (x <= y) PROVE FALSE
    OBVIOUS
  <2>1. x \in Nat /\ y \in Nat /\ y < x
    OBVIOUS
  <2>2. <<y, x>> \in Below
    BY <2>1 DEF Below
  <2> QED BY <1>2, <2>2
<1> QED BY <1>3

\* Induction up to n.
LEMMA UpTo ==
  ASSUME NEW n \in Nat, NEW S, 0 \in S, \A k \in 1 .. n : k - 1 \in S => k \in S
  PROVE  0 .. n \subseteq S
<1> DEFINE T == (0 .. n) \ S
<1> SUFFICES ASSUME T # {} PROVE FALSE
  OBVIOUS
<1>1. T \subseteq Nat
  OBVIOUS
<1> HIDE DEF T
<1>2. PICK x \in T : \A y \in T : x <= y
  BY <1>1, LeastOne
<1>3. x \in 0 .. n /\ x \notin S /\ x # 0
  BY <1>2 DEF T
<1>4. x \in 1 .. n /\ x - 1 \in 0 .. n /\ ~ (x <= x - 1)
  BY <1>3
<1>5. x - 1 \in S
  BY <1>2, <1>4 DEF T
<1> QED BY <1>3, <1>4, <1>5

\* Steps from a value of D that stay in D, one after the other.
Steps(f, n, D, x, step) ==
  /\ f \in [0 .. n -> D] /\ f[0] = x
  /\ \A k \in 1 .. n : f[k] = step[<<f[k - 1], k>>]

LEMMA Stepwise ==
  ASSUME NEW n \in Nat, NEW D, NEW x \in D, NEW step \in [D \X (1 .. n) -> D]
  PROVE  \E f : Steps(f, n, D, x, step)
<1> DEFINE Good(m, f) == f[0] = x /\ \A k \in 1 .. m : f[k] = step[<<f[k - 1], k>>]
           S == {m \in 0 .. n : \E f \in [0 .. m -> D] : Good(m, f)}
<1>1. 0 \in S
  <2>1. [k \in 0 .. 0 |-> x] \in [0 .. 0 -> D] /\ Good(0, [k \in 0 .. 0 |-> x])
    OBVIOUS
  <2>2. 0 \in 0 .. n
    OBVIOUS
  <2> HIDE DEF Good
  <2> QED BY <2>1, <2>2
<1>2. ASSUME NEW m \in 1 .. n, m - 1 \in S PROVE m \in S
  <2>1. PICK f \in [0 .. m - 1 -> D] : Good(m - 1, f)
    BY <1>2
  <2> DEFINE last == step[<<f[m - 1], m>>]
             g == [k \in 0 .. m |-> IF k = m THEN last ELSE f[k]]
  <2>2. m - 1 \in 0 .. m - 1 /\ f[m - 1] \in D
    OBVIOUS
  <2>3. last \in D
    BY <2>2
  <2> HIDE DEF last
  <2>4. g \in [0 .. m -> D]
    <3>1. ASSUME NEW k \in 0 .. m, k # m PROVE f[k] \in D
      <4>1. k \in 0 .. m - 1
        BY <3>1
      <4> QED BY <4>1
    <3> QED BY <2>3, <3>1
  <2>5. g[0] = x /\ g[m] = last
    <3>1. 0 \in 0 .. m /\ 0 # m /\ m \in 0 .. m
      OBVIOUS
    <3> QED BY <3>1, <2>1
  <2>6. \A k \in 1 .. m : g[k] = step[<<g[k - 1], k>>]
    <3> SUFFICES ASSUME NEW k \in 1 .. m PROVE g[k] = step[<<g[k - 1], k>>]
      OBVIOUS
    <3>1. k - 1 \in 0 .. m /\ k - 1 # m /\ k \in 0 .. m
      OBVIOUS
    <3>2. g[k - 1] = f[k - 1]
      BY <3>1
    <3>3. CASE k = m
      BY <2>5, <3>2, <3>3 DEF last
    <3>4. CASE k # m
      <4>1. k \in 1 .. m - 1 /\ g[k] = f[k]
        BY <3>1, <3>4
      <4> HIDE DEF g
      <4> QED BY <2>1, <3>2, <4>1
    <3> QED BY <3>3, <3>4
  <2> HIDE DEF g
  <2>7. Good(m, g)
    BY <2>5, <2>6
  <2> HIDE DEF Good
  <2>8. m \in 0 .. n
    OBVIOUS
  <2> QED BY <2>4, <2>7, <2>8
<1> HIDE DEF S
<1>3. 0 .. n \subseteq S
  BY <1>1, <1>2, UpTo
<1>4. n \in S
  BY <1>3
<1>5. PICK f \in [0 .. n -> D] : Good(n, f)
  BY <1>4 DEF S
<1> QED BY <1>5 DEF Steps

-----------------------------------------------------------------------------
(* The disk.                                                               *)

AnyName == Names \cup {"/"}
Entry == [used : BOOLEAN, name : AnyName, dir : BOOLEAN, parent : -1 .. Slots - 1]
Table == [Disk!Index -> Entry]
Places == Disk!Index \cup {Disk!Nowhere}

\* The facts about indices, in numbers.
LEMMA Indices ==
  /\ Disk!Index \subseteq Nat /\ 0 \in Disk!Index
  /\ Disk!Nowhere \notin Disk!Index /\ -1 \notin Disk!Index
  /\ Disk!Index \subseteq -1 .. Slots - 1
  /\ \A p \in -1 .. Slots - 1 : p # -1 => p \in Disk!Index
  /\ \A p \in Disk!Index : ~ (p <= 0) <=> p # 0
BY DiskAssumption DEF Disk!Index, Disk!Nowhere

\* A least index of a set of them can be chosen.
LEMMA LeastChosen ==
  ASSUME NEW S, S \subseteq Disk!Index, S # {}
  PROVE  (CHOOSE i \in S : \A j \in S : i <= j) \in S
<1>1. \E i \in S : \A j \in S : i <= j
  BY Indices, LeastOne
<1> QED BY <1>1

LEMMA ChildFound ==
  ASSUME NEW t, NEW dir, NEW name
  PROVE  LET i == Disk!Child(t, dir, name)
         IN  /\ i \in Places
             /\ i # Disk!Nowhere =>
                  i \in Disk!Index /\ t[i].used /\ t[i].parent = dir /\ t[i].name = name
             /\ i = Disk!Nowhere =>
                  \A j \in Disk!Index : ~ (t[j].used /\ t[j].parent = dir /\ t[j].name = name)
<1> DEFINE found == {i \in Disk!Index : t[i].used /\ t[i].parent = dir
                                        /\ t[i].name = name}
           first == CHOOSE i \in found : \A j \in found : i <= j
<1>1. Disk!Child(t, dir, name) = IF found = {} THEN Disk!Nowhere ELSE first
  BY DEF Disk!Child
<1>2. CASE found = {}
  BY <1>1, <1>2 DEF Places
<1>3. CASE found # {}
  <2>1. found \subseteq Disk!Index
    OBVIOUS
  <2> HIDE DEF found
  <2>2. first \in found
    BY <1>3, <2>1, LeastChosen
  <2> HIDE DEF first
  <2> USE DEF found
  <2> QED BY <1>1, <1>3, <2>2, Indices DEF Places
<1> QED BY <1>2, <1>3

LEMMA SlotFound ==
  ASSUME NEW t
  PROVE  LET i == Disk!FreeSlot(t)
         IN  i \in Places /\ (i # Disk!Nowhere => i \in Disk!Index /\ ~ t[i].used)
<1> DEFINE free == {i \in Disk!Index : ~ t[i].used}
           first == CHOOSE i \in free : \A j \in free : i <= j
<1>1. Disk!FreeSlot(t) = IF free = {} THEN Disk!Nowhere ELSE first
  BY DEF Disk!FreeSlot
<1>2. CASE free = {}
  BY <1>1, <1>2 DEF Places
<1>3. CASE free # {}
  <2>1. free \subseteq Disk!Index
    OBVIOUS
  <2> HIDE DEF free
  <2>2. first \in free
    BY <1>3, <2>1, LeastChosen
  <2> HIDE DEF first
  <2> USE DEF free
  <2> QED BY <1>1, <1>3, <2>2, Indices DEF Places
<1> QED BY <1>2, <1>3

-----------------------------------------------------------------------------
(* Walking a path.                                                         *)

\* f is the way along a path from a on.
Trail(f, a, path) ==
  /\ f \in [0 .. Len(path) -> Places] /\ f[0] = a
  /\ \A k \in 1 .. Len(path) : f[k] = Disk!WalkStep(f[k - 1], path[k])

LEMMA WalkStepFound ==
  ASSUME NEW p \in Places, NEW name
  PROVE  LET i == Disk!WalkStep(p, name)
         IN  /\ i \in Places
             /\ i # Disk!Nowhere =>
                  /\ i \in Disk!Index /\ nodes[i].used /\ nodes[i].parent = p
                  /\ nodes[i].name = name /\ p # Disk!Nowhere
BY ChildFound DEF Disk!WalkStep, Places

LEMMA TrailExists ==
  ASSUME NEW a \in Places, NEW path, Len(path) \in Nat
  PROVE  \E f : Trail(f, a, path)
<1> DEFINE n == Len(path)
           step == [r \in Places \X (1 .. n) |-> Disk!WalkStep(r[1], path[r[2]])]
<1>1. step \in [Places \X (1 .. n) -> Places]
  BY WalkStepFound
<1>2. \A p \in Places, k \in 1 .. n : step[<<p, k>>] = Disk!WalkStep(p, path[k])
  OBVIOUS
<1> HIDE DEF step, n
<1>3. n \in Nat
  BY DEF n
<1>4. PICK f : Steps(f, n, Places, a, step)
  BY <1>1, <1>3, Stepwise
<1>5. /\ f \in [0 .. n -> Places] /\ f[0] = a
      /\ \A k \in 1 .. n : f[k] = step[<<f[k - 1], k>>]
  BY <1>4 DEF Steps
<1>6. \A k \in 1 .. n : f[k - 1] \in Places
  <2>1. \A k \in 1 .. n : k - 1 \in 0 .. n
    BY <1>3
  <2> QED BY <1>5, <2>1
<1>7. \A k \in 1 .. n : f[k] = Disk!WalkStep(f[k - 1], path[k])
  BY <1>2, <1>5, <1>6
<1> QED BY <1>5, <1>7 DEF Trail, n

\* The walk ends where the way along the path from the root ends.
LEMMA WalkEnds ==
  ASSUME NEW path, Len(path) \in Nat, NEW f, Trail(f, 0, path)
  PROVE  Disk!Walk(path) = f[Len(path)]
<1> DEFINE n == Len(path)
           Is(g) == g = [k \in 0 .. n |-> IF k = 0 THEN 0
                                          ELSE Disk!WalkStep(g[k - 1], path[k])]
           at == CHOOSE g : Is(g)
<1>1. Disk!Walk(path) = at[n]
  BY DEF Disk!Walk
<1>2. Is(f)
  <2>1. f = [k \in 0 .. n |-> f[k]]
    BY DEF Trail
  <2>2. \A k \in 0 .. n : f[k] = IF k = 0 THEN 0 ELSE Disk!WalkStep(f[k - 1], path[k])
    <3>1. \A k \in 0 .. n : k = 0 \/ k \in 1 .. n
      OBVIOUS
    <3> QED BY <3>1 DEF Trail
  <2> HIDE DEF n
  <2> QED BY <2>1, <2>2
<1>3. Is(at)
  <2> HIDE DEF Is
  <2> QED BY <1>2
<1> HIDE DEF at
<1>4. \A k \in 0 .. n : at[k] = IF k = 0 THEN 0 ELSE Disk!WalkStep(at[k - 1], path[k])
  BY <1>3
<1> DEFINE S == {k \in 0 .. n : at[k] = f[k]}
<1>5. 0 \in S
  <2>1. 0 \in 0 .. n
    OBVIOUS
  <2> QED BY <1>4, <2>1 DEF Trail
<1>6. ASSUME NEW k \in 1 .. n, k - 1 \in S PROVE k \in S
  <2>1. k \in 0 .. n /\ k # 0 /\ at[k - 1] = f[k - 1]
    BY <1>6
  <2> QED BY <1>4, <2>1 DEF Trail
<1> HIDE DEF S
<1>7. 0 .. n \subseteq S
  BY <1>5, <1>6, UpTo
<1>8. n \in S
  BY <1>7
<1> QED BY <1>1, <1>8 DEF S

\* There is a way to where a walk ends.
LEMMA WalkTrail ==
  ASSUME NEW path, Len(path) \in Nat
  PROVE  \E f : Trail(f, 0, path) /\ Disk!Walk(path) = f[Len(path)]
<1>1. 0 \in Places
  BY Indices DEF Places
<1>2. PICK f : Trail(f, 0, path)
  BY <1>1, TrailExists
<1> QED BY <1>2, WalkEnds

\* The walk of a part of a path ends on the way of the whole.
LEMMA WalkPart ==
  ASSUME NEW D, NEW path \in Seq(D), NEW f, Trail(f, 0, path), NEW k \in 0 .. Len(path)
  PROVE  Disk!Walk(SubSeq(path, 1, k)) = f[k]
<1> DEFINE part1 == SubSeq(path, 1, k)
           g == [m \in 0 .. k |-> f[m]]
<1>1. Len(part1) = k /\ \A m \in 1 .. k : part1[m] = path[m]
  OBVIOUS
<1>2. k \in Nat /\ 0 .. k \subseteq 0 .. Len(path) /\ 1 .. k \subseteq 1 .. Len(path)
      /\ 0 \in 0 .. k /\ k \in 0 .. k /\ \A m \in 1 .. k : m - 1 \in 0 .. k /\ m \in 0 .. k
  OBVIOUS
<1> HIDE DEF part1
<1>3. Trail(g, 0, part1)
  <2>1. \A m \in 0 .. k : f[m] \in Places
    BY <1>2 DEF Trail
  <2>2. \A m \in 1 .. k : g[m] = Disk!WalkStep(g[m - 1], part1[m])
    <3>1. \A m \in 1 .. k : f[m] = Disk!WalkStep(f[m - 1], path[m])
      BY <1>2 DEF Trail
    <3> QED BY <1>1, <1>2, <3>1
  <2>3. g[0] = 0
    BY <1>2 DEF Trail
  <2>4. g \in [0 .. k -> Places]
    BY <2>1
  <2> HIDE DEF g
  <2> QED BY <1>1, <2>2, <2>3, <2>4 DEF Trail
<1> HIDE DEF g
<1>4. Disk!Walk(part1) = g[k]
  BY <1>1, <1>2, <1>3, WalkEnds
<1> QED BY <1>2, <1>4 DEF part1, g

-----------------------------------------------------------------------------
(* What holds of the table.                                                *)

Distinct(t) ==
  \A i, j \in Disk!Index :
    t[i].used /\ t[j].used /\ t[i].parent = t[j].parent /\ t[i].name = t[j].name => i = j

\* The root stays as it was made.
RootStays(t) == t[0] = Disk!Root

\* Every node is in a directory.
Held(t) ==
  \A i \in Disk!Index \ {0} : t[i].used =>
    t[i].parent \in Disk!Index /\ t[t[i].parent].used /\ t[t[i].parent].dir

\* No nodes hang on one another alone.
Grounded(t) ==
  \A S \in SUBSET (Disk!Index \ {0}) :
    (\A i \in S : t[i].used /\ t[i].parent \in S) => S = {}

Sound(t) == t \in Table /\ Distinct(t) /\ RootStays(t)

\* The current directories are directories, where none is removed that is
\* current.
CwdHeld ==
  "vacate" \notin habits =>
    \A c \in Users : nodes[cwd[c]].used /\ nodes[cwd[c]].dir

DiskInv ==
  /\ Sound(nodes) /\ cwd \in [Users -> Disk!Index] /\ habits \subseteq {"under", "vacate"}
  /\ "under" \notin habits => Held(nodes) /\ Grounded(nodes)
  /\ CwdHeld

LEMMA RootFacts ==
  ASSUME NEW t, RootStays(t)
  PROVE  t[0].used /\ t[0].dir /\ t[0].parent = -1
BY DEF RootStays, Disk!Root

LEMMA DiskStarts == Disk!Init => DiskInv
<1> SUFFICES ASSUME Disk!Init PROVE DiskInv
  OBVIOUS
<1>1. /\ nodes = [i \in Disk!Index |-> IF i = 0 THEN Disk!Root ELSE Disk!Free]
      /\ cwd = [c \in Users |-> 0] /\ habits \subseteq {"under", "vacate"}
  BY DiskAssumption DEF Disk!Init
<1>2. Disk!Root \in Entry /\ Disk!Free \in Entry /\ Disk!Free.used = FALSE
  <2>1. -1 \in -1 .. Slots - 1 /\ 0 \in -1 .. Slots - 1
    BY DiskAssumption
  <2> QED BY <2>1 DEF Disk!Root, Disk!Free, Entry, AnyName
<1>3. nodes \in Table /\ nodes[0] = Disk!Root
      /\ \A i \in Disk!Index \ {0} : nodes[i].used = FALSE
  BY <1>1, <1>2, Indices DEF Table
<1>4. Sound(nodes)
  BY <1>3 DEF Sound, Distinct, RootStays
<1>5. Held(nodes) /\ Grounded(nodes)
  BY <1>3 DEF Held, Grounded
<1>6. CwdHeld
  BY <1>1, <1>4, RootFacts DEF CwdHeld, Sound
<1>7. cwd \in [Users -> Disk!Index]
  BY <1>1, Indices
<1> QED BY <1>1, <1>4, <1>5, <1>6, <1>7 DEF DiskInv

\* What is reached is there.
LEMMA WalkFound ==
  ASSUME Sound(nodes), NEW path, Len(path) \in Nat
  PROVE  /\ Disk!Walk(path) \in Places
         /\ Disk!Walk(path) # Disk!Nowhere =>
              Disk!Walk(path) \in Disk!Index /\ nodes[Disk!Walk(path)].used
<1>1. PICK f : Trail(f, 0, path) /\ Disk!Walk(path) = f[Len(path)]
  BY WalkTrail
<1>2. CASE Len(path) = 0
  <2>1. Disk!Walk(path) = 0
    BY <1>1, <1>2 DEF Trail
  <2> QED BY <2>1, Indices, RootFacts DEF Sound, Places
<1>3. CASE Len(path) # 0
  <2> DEFINE n == Len(path)
  <2>1. n \in 1 .. n /\ n - 1 \in 0 .. n
    BY <1>3
  <2> HIDE DEF n
  <2>2. f[n] = Disk!WalkStep(f[n - 1], path[n]) /\ f[n - 1] \in Places
    BY <1>1, <2>1 DEF Trail, n
  <2> QED BY <1>1, <2>2, WalkStepFound DEF n
<1> QED BY <1>2, <1>3

-----------------------------------------------------------------------------
(* Making what a path names.                                               *)

\* What is in use in t is so in u.
Kept(t, u) == \A i \in Disk!Index : t[i].used => u[i] = t[i]

\* A table that was made from the one there is, and a place.
Makings == {r \in [table : Table, at : Places] : Sound(r.table) /\ Kept(nodes, r.table)}

\* A name that a slot is taken for.
Entered(r, name, dir, slot) ==
  [r.table EXCEPT ![slot] = [used |-> TRUE, name |-> name, parent |-> r.at, dir |-> dir]]

\* The ways one name can go.
LEMMA MakeStepCases ==
  ASSUME NEW r \in Makings, NEW name, NEW dir
  PROVE  LET found == Disk!Child(r.table, r.at, name)
             slot == Disk!FreeSlot(r.table)
             q == Disk!MakeStep(r, name, dir)
         IN  \/ r.at = Disk!Nowhere /\ q = r
             \/ /\ r.at \in Disk!Index /\ found \in Disk!Index
                /\ q = [table |-> r.table, at |-> found]
             \/ /\ r.at \in Disk!Index
                /\ q = [table |-> r.table, at |-> Disk!Nowhere]
             \/ /\ r.at \in Disk!Index /\ found = Disk!Nowhere
                /\ slot \in Disk!Index /\ ~ r.table[slot].used
                /\ q = [table |-> Entered(r, name, dir, slot), at |-> slot]
<1> DEFINE found == Disk!Child(r.table, r.at, name)
           slot == Disk!FreeSlot(r.table)
<1>1. r = [table |-> r.table, at |-> r.at] /\ r.at \in Places
  BY DEF Makings
<1>2. found \in Places
  BY ChildFound
<1>3. slot \in Places /\ (slot # Disk!Nowhere => slot \in Disk!Index /\ ~ r.table[slot].used)
  BY SlotFound
<1>4. Disk!MakeStep(r, name, dir) =
        IF r.at = Disk!Nowhere THEN r
        ELSE IF found # Disk!Nowhere THEN [r EXCEPT !.at = found]
        ELSE IF slot = Disk!Nowhere THEN [r EXCEPT !.at = Disk!Nowhere]
        ELSE [table |-> Entered(r, name, dir, slot), at |-> slot]
  BY DEF Disk!MakeStep, Entered
<1> HIDE DEF found, slot
<1>5. \A p : [r EXCEPT !.at = p] = [table |-> r.table, at |-> p]
  BY <1>1
<1> QED BY <1>1, <1>2, <1>3, <1>4, <1>5 DEF Places, found, slot

\* What the table is then, when it was made from the one there is.
IsEntered(u, r, name, dir, slot) ==
  /\ u \in Table /\ Sound(u) /\ Kept(nodes, u) /\ slot # 0
  /\ \A i \in Disk!Index : i # slot => u[i] = r.table[i]
  /\ u[slot] = [used |-> TRUE, name |-> name, parent |-> r.at, dir |-> dir]

\* A slot that is taken: the table stays sound.
LEMMA EnteredSound ==
  ASSUME NEW r \in Makings, NEW name \in AnyName, NEW dir \in BOOLEAN,
         NEW slot \in Disk!Index, r.at \in Disk!Index, ~ r.table[slot].used,
         Disk!Child(r.table, r.at, name) = Disk!Nowhere
  PROVE  IsEntered(Entered(r, name, dir, slot), r, name, dir, slot)
<1> DEFINE t == r.table
           e == [used |-> TRUE, name |-> name, parent |-> r.at, dir |-> dir]
           u == Entered(r, name, dir, slot)
<1>1. t \in Table /\ Sound(t) /\ Kept(nodes, t) /\ ~ t[slot].used
  BY DEF Makings
<1>2. e \in Entry
  BY Indices DEF Entry
<1>3. /\ u \in Table /\ u[slot] = e
      /\ \A i \in Disk!Index : i # slot => u[i] = t[i]
  BY <1>1, <1>2 DEF Table, Entered
<1>4. e.used = TRUE /\ e.name = name /\ e.parent = r.at
  OBVIOUS
<1>5. \A j \in Disk!Index : ~ (t[j].used /\ t[j].parent = r.at /\ t[j].name = name)
  BY ChildFound
<1> HIDE DEF u, e, t
<1>6. slot # 0
  BY <1>1, RootFacts DEF Sound
<1>7. Distinct(u)
  <2> SUFFICES ASSUME NEW i \in Disk!Index, NEW j \in Disk!Index,
                      u[i].used, u[j].used, u[i].parent = u[j].parent,
                      u[i].name = u[j].name, i # j
               PROVE  FALSE
    BY DEF Distinct
  <2>1. CASE i = slot
    BY <1>3, <1>4, <1>5, <2>1
  <2>2. CASE j = slot
    BY <1>3, <1>4, <1>5, <2>2
  <2>3. CASE i # slot /\ j # slot
    <3>1. u[i] = t[i] /\ u[j] = t[j]
      BY <1>3, <2>3
    <3> QED BY <1>1, <3>1 DEF Sound, Distinct
  <2> QED BY <2>1, <2>2, <2>3
<1>8. RootStays(u)
  BY <1>1, <1>3, <1>6, Indices DEF Sound, RootStays
<1>9. Kept(nodes, u)
  <2> SUFFICES ASSUME NEW i \in Disk!Index, nodes[i].used PROVE u[i] = nodes[i]
    BY DEF Kept
  <2>1. t[i] = nodes[i]
    BY <1>1 DEF Kept
  <2>2. i # slot
    BY <1>1, <2>1
  <2> QED BY <1>3, <2>1, <2>2
<1> QED BY <1>3, <1>6, <1>7, <1>8, <1>9 DEF Sound, IsEntered, u, e, t

LEMMA MakeStepSound ==
  ASSUME NEW r \in Makings, NEW name \in AnyName, NEW dir \in BOOLEAN
  PROVE  Disk!MakeStep(r, name, dir) \in Makings
<1> DEFINE found == Disk!Child(r.table, r.at, name)
           slot == Disk!FreeSlot(r.table)
           q == Disk!MakeStep(r, name, dir)
<1>0. r.table \in Table /\ Sound(r.table) /\ Kept(nodes, r.table)
      /\ Disk!Nowhere \in Places /\ Disk!Index \subseteq Places
  BY DEF Makings, Places
<1>1. CASE r.at = Disk!Nowhere /\ q = r
  BY <1>1
<1>2. ASSUME NEW p \in Places, q = [table |-> r.table, at |-> p]
      PROVE  q \in Makings
  BY <1>0, <1>2 DEF Makings
<1>3. CASE /\ r.at \in Disk!Index /\ found = Disk!Nowhere
           /\ slot \in Disk!Index /\ ~ r.table[slot].used
           /\ q = [table |-> Entered(r, name, dir, slot), at |-> slot]
  <2> DEFINE u == Entered(r, name, dir, slot)
  <2>1. u \in Table /\ Sound(u) /\ Kept(nodes, u)
    <3> HIDE DEF slot, u
    <3>1. IsEntered(Entered(r, name, dir, slot), r, name, dir, slot)
      BY <1>3, EnteredSound
    <3> QED BY <3>1 DEF IsEntered, u
  <2> HIDE DEF u
  <2>2. q = [table |-> u, at |-> slot] /\ slot \in Places
    BY <1>0, <1>3 DEF u
  <2> HIDE DEF q, slot
  <2>3. q \in Makings
    BY <2>1, <2>2 DEF Makings
  <2> QED BY <2>3 DEF q
<1>4. \/ r.at = Disk!Nowhere /\ q = r
      \/ found \in Disk!Index /\ q = [table |-> r.table, at |-> found]
      \/ q = [table |-> r.table, at |-> Disk!Nowhere]
      \/ /\ r.at \in Disk!Index /\ found = Disk!Nowhere
         /\ slot \in Disk!Index /\ ~ r.table[slot].used
         /\ q = [table |-> Entered(r, name, dir, slot), at |-> slot]
  BY MakeStepCases
<1> HIDE DEF q, found, slot
<1> QED BY <1>0, <1>1, <1>2, <1>3, <1>4 DEF q

\* f is how a path is made.
Way(f, path, kind) ==
  /\ f \in [0 .. Len(path) -> Makings] /\ f[0] = [table |-> nodes, at |-> 0]
  /\ \A k \in 1 .. Len(path) :
       f[k] = Disk!MakeStep(f[k - 1], path[k], kind = "dir" \/ k < Len(path))

LEMMA WayExists ==
  ASSUME Sound(nodes), NEW path \in Seq(AnyName), NEW kind
  PROVE  \E f : Way(f, path, kind) /\ Disk!Made(path, kind) = f[Len(path)]
<1> DEFINE n == Len(path)
           x == [table |-> nodes, at |-> 0]
           one(r, k) == Disk!MakeStep(r, path[k], kind = "dir" \/ k < n)
           step == [p \in Makings \X (1 .. n) |-> one(p[1], p[2])]
           Is(g) == g = [k \in 0 .. n |-> IF k = 0 THEN x ELSE one(g[k - 1], k)]
           made == CHOOSE g : Is(g)
<1>1. n \in Nat /\ \A k \in 1 .. n : path[k] \in AnyName /\ k \in 0 .. n /\ k - 1 \in 0 .. n
  OBVIOUS
<1>2. x \in Makings
  BY Indices DEF Makings, Sound, Kept, Places
<1>3. \A r \in Makings, k \in 1 .. n : one(r, k) \in Makings
  <2> HIDE DEF n
  <2>1. \A k \in 1 .. n : (kind = "dir" \/ k < n) \in BOOLEAN
    OBVIOUS
  <2> QED BY <1>1, <2>1, MakeStepSound
<1>4. step \in [Makings \X (1 .. n) -> Makings]
      /\ \A r \in Makings, k \in 1 .. n : step[<<r, k>>] = one(r, k)
  <2> HIDE DEF one, n
  <2> QED BY <1>3
<1>a. Disk!Made(path, kind) = made[n]
  BY DEF Disk!Made
<1> HIDE DEF step, x, n, made
<1>5. PICK f : Steps(f, n, Makings, x, step)
  BY <1>1, <1>2, <1>4, Stepwise
<1> HIDE DEF one
<1>6. /\ f \in [0 .. n -> Makings] /\ f[0] = x
      /\ \A k \in 1 .. n : f[k] = one(f[k - 1], k)
  BY <1>1, <1>4, <1>5 DEF Steps
<1>7. Is(f)
  <2>1. \A k \in 0 .. n : f[k] = IF k = 0 THEN x ELSE one(f[k - 1], k)
    <3>1. \A k \in 0 .. n : k = 0 \/ k \in 1 .. n
      BY <1>1
    <3> QED BY <1>6, <3>1
  <2>2. f = [k \in 0 .. n |-> f[k]]
    BY <1>6
  <2> QED BY <2>1, <2>2
<1>8. Is(made)
  <2> HIDE DEF Is
  <2> QED BY <1>7 DEF made
<1>9. \A k \in 0 .. n : made[k] = IF k = 0 THEN x ELSE one(made[k - 1], k)
  BY <1>8
<1> DEFINE S == {k \in 0 .. n : made[k] = f[k]}
<1>10. 0 \in S
  <2>1. 0 \in 0 .. n
    BY <1>1
  <2> QED BY <1>6, <1>9, <2>1
<1>11. ASSUME NEW k \in 1 .. n, k - 1 \in S PROVE k \in S
  <2>1. k \in 0 .. n /\ k # 0 /\ made[k - 1] = f[k - 1]
    BY <1>1, <1>11
  <2> QED BY <1>6, <1>9, <2>1
<1> HIDE DEF S
<1>12. 0 .. n \subseteq S
  BY <1>1, <1>10, <1>11, UpTo
<1>13. n \in S
  BY <1>1, <1>12
<1>14. made[n] = f[n]
  BY <1>13 DEF S
<1> QED BY <1>6, <1>14, <1>a DEF Way, one, x, n

\* The table that making a path leaves.
LEMMA MadeSound ==
  ASSUME Sound(nodes), NEW path \in Seq(AnyName), NEW kind
  PROVE  LET u == Disk!Made(path, kind).table
         IN  u \in Table /\ Sound(u) /\ Kept(nodes, u)
<1>1. PICK f : Way(f, path, kind) /\ Disk!Made(path, kind) = f[Len(path)]
  BY WayExists
<1>2. f[Len(path)] \in Makings
  BY <1>1 DEF Way
<1> QED BY <1>1, <1>2 DEF Makings

\* No node is in this one.
Empty(t, i) == \A j \in Disk!Index : t[j].used => t[j].parent # i

\* A new node in a directory: no node loses its own, and none is adrift.
LEMMA EnteredHeld ==
  ASSUME NEW r \in Makings, NEW name \in AnyName, NEW dir \in BOOLEAN,
         NEW slot \in Disk!Index, r.at \in Disk!Index, ~ r.table[slot].used,
         Disk!Child(r.table, r.at, name) = Disk!Nowhere,
         r.table[r.at].used, r.table[r.at].dir, Held(r.table), Grounded(r.table)
  PROVE  LET u == Entered(r, name, dir, slot)
         IN  Held(u) /\ Grounded(u) /\ u[slot].used /\ u[slot].dir = dir /\ Empty(u, slot)
<1> DEFINE t == r.table
           u == Entered(r, name, dir, slot)
<1>1. /\ slot # 0 /\ u[slot].used /\ u[slot].parent = r.at /\ u[slot].dir = dir
      /\ \A i \in Disk!Index : i # slot => u[i] = t[i]
  <2>1. IsEntered(u, r, name, dir, slot)
    BY EnteredSound
  <2> HIDE DEF u
  <2> QED BY <2>1 DEF IsEntered
<1>2. /\ r.at # slot /\ ~ t[slot].used /\ t[r.at].used /\ t[r.at].dir
      /\ t[0].parent = -1 /\ Held(t) /\ Grounded(t)
  BY RootFacts DEF Makings, Sound
<1> HIDE DEF u, t
<1>3. \A i \in Disk!Index \ {0} : t[i].used => t[i].parent # slot
  BY <1>2 DEF Held
<1>4. Held(u)
  <2> SUFFICES ASSUME NEW i \in Disk!Index \ {0}, u[i].used
               PROVE  u[i].parent \in Disk!Index /\ u[u[i].parent].used
                      /\ u[u[i].parent].dir
    BY DEF Held
  <2>1. CASE i = slot
    BY <1>1, <1>2, <2>1
  <2>2. CASE i # slot
    <3>1. u[i] = t[i]
      BY <1>1, <2>2
    <3>2. t[i].parent \in Disk!Index /\ t[t[i].parent].used /\ t[t[i].parent].dir
      BY <1>2, <3>1 DEF Held
    <3>3. u[t[i].parent] = t[t[i].parent]
      BY <1>1, <1>2, <3>2
    <3> QED BY <3>1, <3>2, <3>3
  <2> QED BY <2>1, <2>2
<1>5. Grounded(u)
  <2> SUFFICES ASSUME NEW S \in SUBSET (Disk!Index \ {0}),
                      \A i \in S : u[i].used /\ u[i].parent \in S
               PROVE  S = {}
    BY DEF Grounded
  <2> DEFINE R == S \ {slot}
  <2>1. \A i \in R : t[i].used /\ t[i].parent \in R
    <3> SUFFICES ASSUME NEW i \in R PROVE t[i].used /\ t[i].parent \in R
      OBVIOUS
    <3>1. u[i] = t[i] /\ u[i].used /\ u[i].parent \in S
      BY <1>1
    <3> QED BY <1>3, <3>1
  <2>2. R = {}
    BY <1>2, <2>1 DEF Grounded
  <2>3. slot \notin S
    <3> SUFFICES ASSUME slot \in S PROVE FALSE
      OBVIOUS
    <3>1. r.at \in S
      BY <1>1
    <3> QED BY <1>2, <2>2, <3>1
  <2> QED BY <2>2, <2>3
<1>6. Empty(u, slot)
  <2> SUFFICES ASSUME NEW j \in Disk!Index, u[j].used PROVE u[j].parent # slot
    BY DEF Empty
  <2>1. CASE j = slot
    BY <1>1, <1>2, <2>1
  <2>2. CASE j # slot /\ j # 0
    BY <1>1, <1>3, <2>2
  <2>3. CASE j # slot /\ j = 0
    BY <1>1, <1>2, <2>3, Indices
  <2> QED BY <2>1, <2>2, <2>3
<1> QED BY <1>1, <1>4, <1>5, <1>6 DEF u

\* While a path is made: the place reached is the one that the walk reaches in
\* the table as it was, or is empty and new.
Making(r, w, last) ==
  /\ Held(r.table) /\ Grounded(r.table)
  /\ r.at # Disk!Nowhere => r.table[r.at].used /\ (~ last => r.table[r.at].dir)
  /\ \/ r.table = nodes /\ r.at = w
     \/ r.at # Disk!Nowhere => Empty(r.table, r.at)

LEMMA MakingStep ==
  ASSUME NEW r \in Makings, NEW w, NEW name \in AnyName, NEW dir \in BOOLEAN,
         NEW last \in BOOLEAN, ~ last => dir, Making(r, w, FALSE),
         LET v == Disk!WalkStep(w, name)
         IN  ~ last /\ v # Disk!Nowhere => nodes[v].dir
  PROVE  Making(Disk!MakeStep(r, name, dir), Disk!WalkStep(w, name), last)
<1> DEFINE found == Disk!Child(r.table, r.at, name)
           slot == Disk!FreeSlot(r.table)
           q == Disk!MakeStep(r, name, dir)
           v == Disk!WalkStep(w, name)
<1>1. \/ r.at = Disk!Nowhere /\ q = r
      \/ /\ r.at \in Disk!Index /\ found \in Disk!Index
         /\ q = [table |-> r.table, at |-> found]
      \/ r.at \in Disk!Index /\ q = [table |-> r.table, at |-> Disk!Nowhere]
      \/ /\ r.at \in Disk!Index /\ found = Disk!Nowhere
         /\ slot \in Disk!Index /\ ~ r.table[slot].used
         /\ q = [table |-> Entered(r, name, dir, slot), at |-> slot]
  BY MakeStepCases
<1>2. Disk!Nowhere \notin Disk!Index
  BY Indices
<1>3. CASE r.at = Disk!Nowhere /\ q = r
  <2> HIDE DEF q
  <2> QED BY <1>3 DEF Making, q
<1>4. CASE /\ r.at \in Disk!Index /\ found \in Disk!Index
           /\ q = [table |-> r.table, at |-> found]
  <2>1. /\ r.table[found].used /\ r.table[found].parent = r.at
    <3>1. found # Disk!Nowhere
      BY <1>2, <1>4
    <3> QED BY <3>1, ChildFound
  <2>2. ~ Empty(r.table, r.at)
    BY <1>4, <2>1 DEF Empty
  <2>3. r.table = nodes /\ r.at = w
    BY <1>2, <1>4, <2>2 DEF Making
  <2>4. v = found
    BY <1>2, <1>4, <2>3 DEF Disk!WalkStep
  <2>5. ~ last => nodes[found].dir
    BY <1>2, <1>4, <2>4
  <2>6. q.table = r.table /\ q.at = found
    BY <1>4
  <2> HIDE DEF q, v, found
  <2>7. Making(q, v, last)
    BY <2>1, <2>3, <2>4, <2>5, <2>6 DEF Making
  <2> QED BY <2>7 DEF q, v
<1>5. CASE q = [table |-> r.table, at |-> Disk!Nowhere]
  <2>1. q.table = r.table /\ q.at = Disk!Nowhere
    BY <1>5
  <2> HIDE DEF q
  <2> QED BY <2>1 DEF Making, q
<1>6. CASE /\ r.at \in Disk!Index /\ found = Disk!Nowhere
           /\ slot \in Disk!Index /\ ~ r.table[slot].used
           /\ q = [table |-> Entered(r, name, dir, slot), at |-> slot]
  <2> DEFINE u == Entered(r, name, dir, slot)
  <2>0. q.table = u /\ q.at = slot
    BY <1>6
  <2>1. r.table[r.at].used /\ r.table[r.at].dir /\ Held(r.table) /\ Grounded(r.table)
    BY <1>2, <1>6 DEF Making
  <2>2. Held(u) /\ Grounded(u) /\ u[slot].used /\ u[slot].dir = dir /\ Empty(u, slot)
    <3> HIDE DEF slot
    <3>1. /\ slot \in Disk!Index /\ r.at \in Disk!Index /\ ~ r.table[slot].used
          /\ Disk!Child(r.table, r.at, name) = Disk!Nowhere
      BY <1>6
    <3> QED BY <3>1, <2>1, EnteredHeld
  <2> HIDE DEF u, q, slot
  <2>3. Making(q, v, last)
    <3>1. ~ last => dir
      OBVIOUS
    <3> QED BY <2>0, <2>2, <3>1 DEF Making
  <2> QED BY <2>3 DEF q
<1> HIDE DEF q, found, slot
<1> QED BY <1>1, <1>3, <1>4, <1>5, <1>6 DEF q

\* No node loses its directory when a path is made that does not go on below a
\* file.
LEMMA MadeHeld ==
  ASSUME Sound(nodes), Held(nodes), Grounded(nodes), NEW path \in Seq(AnyName),
         NEW kind, ~ Disk!BelowFile(path)
  PROVE  LET u == Disk!Made(path, kind).table IN Held(u) /\ Grounded(u)
<1> DEFINE n == Len(path)
<1>1. n \in Nat /\ \A k \in 1 .. n : path[k] \in AnyName
  OBVIOUS
<1>2. PICK f : Trail(f, 0, path)
  BY WalkTrail
<1>3. PICK g : Way(g, path, kind) /\ Disk!Made(path, kind) = g[n]
  BY WayExists
<1>4. /\ f[0] = 0 /\ \A k \in 1 .. n : f[k] = Disk!WalkStep(f[k - 1], path[k])
  BY <1>2 DEF Trail
<1>5. /\ g \in [0 .. n -> Makings] /\ g[0] = [table |-> nodes, at |-> 0]
      /\ \A k \in 1 .. n :
           g[k] = Disk!MakeStep(g[k - 1], path[k], kind = "dir" \/ k < n)
  BY <1>3 DEF Way
<1>6. \A k \in 1 .. n - 1 : f[k] # Disk!Nowhere => nodes[f[k]].dir
  <2> SUFFICES ASSUME NEW k \in 1 .. n - 1, f[k] # Disk!Nowhere PROVE nodes[f[k]].dir
    OBVIOUS
  <2>1. k \in 0 .. Len(path) /\ k \in 1 .. Len(path) - 1
    OBVIOUS
  <2>2. Disk!Walk(SubSeq(path, 1, k)) = f[k]
    BY <1>2, <2>1, WalkPart
  <2> QED BY <2>1, <2>2 DEF Disk!BelowFile
<1> HIDE DEF n
<1> DEFINE S == {k \in 0 .. n : Making(g[k], f[k], k = n)}
<1>7. 0 \in S
  <2> DEFINE r == [table |-> nodes, at |-> 0]
  <2>1. r.table = nodes /\ r.at = 0
    OBVIOUS
  <2>2. nodes[0].used /\ nodes[0].dir
    BY RootFacts DEF Sound
  <2> HIDE DEF r
  <2>3. Making(r, 0, 0 = n)
    BY <2>1, <2>2 DEF Making
  <2>4. 0 \in 0 .. n
    BY <1>1
  <2> QED BY <1>4, <1>5, <2>3, <2>4 DEF r
<1>8. ASSUME NEW k \in 1 .. n, k - 1 \in S PROVE k \in S
  <2> DEFINE r == g[k - 1]
             w == f[k - 1]
             last == k = n
             v == Disk!WalkStep(w, path[k])
             dir == kind = "dir" \/ k < n
             q == Disk!MakeStep(r, path[k], dir)
  <2>1. k - 1 \in 0 .. n /\ k \in 0 .. n /\ (k - 1 = n) = FALSE
    BY <1>1
  <2>2. (~ last => dir) /\ last \in BOOLEAN /\ dir \in BOOLEAN
    BY <1>1
  <2>3. f[k] = v /\ g[k] = q
    BY <1>4, <1>5
  <2>4. Making(r, w, FALSE)
    BY <1>8, <2>1
  <2>5. ~ last /\ v # Disk!Nowhere => nodes[v].dir
    <3>1. ~ last => k \in 1 .. n - 1
      BY <1>1
    <3> QED BY <1>6, <2>3, <3>1
  <2>6. r \in Makings /\ path[k] \in AnyName
    BY <1>1, <1>5, <2>1
  <2>7. Making(q, v, last)
    <3> HIDE DEF dir, last, r, w
    <3> QED BY <2>2, <2>4, <2>5, <2>6, MakingStep
  <2> HIDE DEF q, v
  <2> QED BY <2>1, <2>3, <2>7
<1> HIDE DEF S
<1>9. 0 .. n \subseteq S
  BY <1>1, <1>7, <1>8, UpTo
<1>10. n \in S
  BY <1>1, <1>9
<1> QED BY <1>3, <1>10 DEF S, Making

-----------------------------------------------------------------------------
(* Removing and renaming.                                                  *)

LEMMA RemovedTable ==
  ASSUME Sound(nodes), NEW i \in Disk!Index, i # 0, Disk!Removed(i)
  PROVE  /\ Sound(nodes')
         /\ ~ nodes'[i].used
         /\ \A j \in Disk!Index : j # i => nodes'[j] = nodes[j]
<1>1. nodes \in Table /\ nodes[i] \in Entry
  BY DEF Sound, Table
<1> DEFINE e == [nodes[i] EXCEPT !.used = FALSE]
<1>2. e \in Entry /\ e.used = FALSE
  BY <1>1 DEF Entry
<1>3. Disk!Free \in Entry /\ Disk!Free.used = FALSE
  <2>1. 0 \in -1 .. Slots - 1
    BY DiskAssumption
  <2> QED BY <2>1 DEF Disk!Free, Entry, AnyName
<1>4. nodes' \in {[nodes EXCEPT ![i] = e], [nodes EXCEPT ![i] = Disk!Free]}
  BY DEF Disk!Removed
<1> HIDE DEF e
<1>5. /\ nodes' \in Table /\ nodes'[i].used = FALSE
      /\ \A j \in Disk!Index : j # i => nodes'[j] = nodes[j]
  BY <1>1, <1>2, <1>3, <1>4 DEF Table
<1>6. Distinct(nodes')
  <2> SUFFICES ASSUME NEW j \in Disk!Index, NEW k \in Disk!Index,
                      nodes'[j].used, nodes'[k].used, nodes'[j].parent = nodes'[k].parent,
                      nodes'[j].name = nodes'[k].name
               PROVE  j = k
    BY DEF Distinct
  <2>1. nodes'[j] = nodes[j] /\ nodes'[k] = nodes[k]
    BY <1>5
  <2> QED BY <2>1 DEF Sound, Distinct
<1>7. RootStays(nodes')
  BY <1>5, Indices DEF Sound, RootStays
<1> QED BY <1>5, <1>6, <1>7 DEF Sound

LEMMA RemovedHeld ==
  ASSUME Sound(nodes), NEW i \in Disk!Index, i # 0, Disk!Removed(i),
         Held(nodes), Grounded(nodes), Empty(nodes, i)
  PROVE  Held(nodes') /\ Grounded(nodes')
<1>1. ~ nodes'[i].used /\ \A j \in Disk!Index : j # i => nodes'[j] = nodes[j]
  BY RemovedTable
<1>2. Held(nodes')
  <2> SUFFICES ASSUME NEW j \in Disk!Index \ {0}, nodes'[j].used
               PROVE  nodes'[j].parent \in Disk!Index /\ nodes'[nodes'[j].parent].used
                      /\ nodes'[nodes'[j].parent].dir
    BY DEF Held
  <2>1. nodes'[j] = nodes[j]
    BY <1>1
  <2>2. nodes[j].parent \in Disk!Index /\ nodes[nodes[j].parent].used
        /\ nodes[nodes[j].parent].dir /\ nodes[j].parent # i
    BY <2>1 DEF Held, Empty
  <2>3. nodes'[nodes[j].parent] = nodes[nodes[j].parent]
    BY <1>1, <2>2
  <2> QED BY <2>1, <2>2, <2>3
<1>3. Grounded(nodes')
  <2> SUFFICES ASSUME NEW S \in SUBSET (Disk!Index \ {0}),
                      \A j \in S : nodes'[j].used /\ nodes'[j].parent \in S
               PROVE  S = {}
    BY DEF Grounded
  <2>1. \A j \in S : nodes[j].used /\ nodes[j].parent \in S
    <3> SUFFICES ASSUME NEW j \in S PROVE nodes[j].used /\ nodes[j].parent \in S
      OBVIOUS
    <3>1. j # i /\ j \in Disk!Index
      BY <1>1
    <3>2. nodes'[j] = nodes[j]
      BY <1>1, <3>1
    <3> QED BY <3>2
  <2> QED BY <2>1 DEF Grounded
<1> QED BY <1>2, <1>3

\* All but the last name of a path.
LEMMA FrontOf ==
  ASSUME NEW D, NEW s \in Seq(D), s # <<>>
  PROVE  Disk!Front(s) \in Seq(D) /\ Len(Disk!Front(s)) = Len(s) - 1
<1>1. Len(s) \in Nat /\ Len(s) # 0 /\ 1 \in 1 .. Len(s) + 1 /\ Len(s) - 1 \in 0 .. Len(s)
  OBVIOUS
<1> DEFINE n == Len(s) - 1
           l == Len(SubSeq(s, 1, n))
<1>2. SubSeq(s, 1, n) \in Seq(D) /\ l = IF 1 <= n THEN n - 1 + 1 ELSE 0
  BY <1>1, SubSeqProperties
<1>3. n \in Nat
  BY <1>1
<1> HIDE DEF n, l
<1>4. l = n
  BY <1>2, <1>3
<1> QED BY <1>2, <1>4 DEF Disk!Front, n, l

\* What a rename leaves: only the name and the directory of s are others.
LEMMA RenamedTable ==
  ASSUME Sound(nodes), NEW src \in Seq(AnyName), NEW dst \in Seq(AnyName), dst # <<>>,
         Disk!Rename(src, dst)
  PROVE  LET s == Disk!Walk(src)
             d == Disk!Walk(Disk!Front(dst))
         IN  /\ s \in Disk!Index \ {0} /\ nodes[s].used
             /\ d \in Disk!Index /\ nodes[d].used /\ nodes[d].dir
             /\ Sound(nodes')
             /\ nodes'[s].used = nodes[s].used /\ nodes'[s].dir = nodes[s].dir
             /\ nodes'[s].parent = d
             /\ \A j \in Disk!Index : j # s => nodes'[j] = nodes[j]
             /\ UNCHANGED <<cwd, habits>>
<1> DEFINE s == Disk!Walk(src)
           m == Disk!Front(dst)
           d == Disk!Walk(m)
           name == Disk!Last(dst)
<1>1. Len(m) \in Nat /\ name \in AnyName
  <2>1. Len(m) \in Nat
    BY FrontOf
  <2> QED BY <2>1 DEF Disk!Last
<1> HIDE DEF m
<1>2. /\ s \in Places /\ (s # Disk!Nowhere => s \in Disk!Index /\ nodes[s].used)
      /\ d \in Places /\ (d # Disk!Nowhere => d \in Disk!Index /\ nodes[d].used)
  BY <1>1, WalkFound
<1>3. /\ s \notin {0, Disk!Nowhere} /\ d # Disk!Nowhere /\ nodes[d].dir
      /\ Disk!Child(nodes, d, name) \in {Disk!Nowhere, s}
      /\ nodes' = [nodes EXCEPT ![s].name = name, ![s].parent = d]
      /\ UNCHANGED <<cwd, habits>>
  BY DEF Disk!Rename, Disk!MayMove, m
<1> HIDE DEF s, d, name
<1>4. s \in Disk!Index \ {0} /\ nodes[s].used /\ d \in Disk!Index /\ nodes[d].used
  BY <1>2, <1>3
<1>5. nodes \in Table /\ nodes[s] \in Entry
  BY <1>4 DEF Sound, Table
<1> DEFINE a == [nodes[s] EXCEPT !.name = name]
           e == [a EXCEPT !.parent = d]
<1>6. a \in Entry /\ a.used = nodes[s].used /\ a.dir = nodes[s].dir /\ a.name = name
  BY <1>1, <1>5 DEF Entry
<1> HIDE DEF a
<1>7. e \in Entry /\ e.used = nodes[s].used /\ e.dir = nodes[s].dir /\ e.name = name
      /\ e.parent = d
  BY <1>4, <1>6, Indices DEF Entry
<1>8. nodes' = [nodes EXCEPT ![s] = e]
  <2> USE DEF a
  <2> QED BY <1>3, <1>4, <1>5 DEF Table
<1> HIDE DEF e
<1>9. /\ nodes' \in Table /\ nodes'[s] = e
      /\ \A j \in Disk!Index : j # s => nodes'[j] = nodes[j]
  BY <1>4, <1>5, <1>7, <1>8 DEF Table
<1>10. RootStays(nodes')
  BY <1>4, <1>9, Indices DEF Sound, RootStays
<1>11. \A j \in Disk!Index :
         nodes[j].used /\ nodes[j].parent = d /\ nodes[j].name = name => j = s
  <2>1. CASE Disk!Child(nodes, d, name) = Disk!Nowhere
    BY <2>1, ChildFound
  <2>2. CASE Disk!Child(nodes, d, name) = s
    <3>1. nodes[s].used /\ nodes[s].parent = d /\ nodes[s].name = name
      BY <1>3, <2>2, ChildFound
    <3> QED BY <1>4, <3>1 DEF Sound, Distinct
  <2> QED BY <1>3, <2>1, <2>2
<1>12. Distinct(nodes')
  <2> SUFFICES ASSUME NEW j \in Disk!Index, NEW k \in Disk!Index,
                      nodes'[j].used, nodes'[k].used, nodes'[j].parent = nodes'[k].parent,
                      nodes'[j].name = nodes'[k].name, j # k
               PROVE  FALSE
    BY DEF Distinct
  <2>1. CASE j = s
    BY <1>7, <1>9, <1>11, <2>1
  <2>2. CASE k = s
    BY <1>7, <1>9, <1>11, <2>2
  <2>3. CASE j # s /\ k # s
    BY <1>9, <2>3 DEF Sound, Distinct
  <2> QED BY <2>1, <2>2, <2>3
<1> QED BY <1>3, <1>4, <1>7, <1>9, <1>10, <1>12 DEF Sound, s, d, m

LEMMA RenamedHeld ==
  ASSUME Sound(nodes), NEW src \in Seq(AnyName), NEW dst \in Seq(AnyName), dst # <<>>,
         Disk!Rename(src, dst), Held(nodes), Grounded(nodes)
  PROVE  Held(nodes') /\ Grounded(nodes')
<1> DEFINE s == Disk!Walk(src)
           m == Disk!Front(dst)
           d == Disk!Walk(m)
<1>1. /\ s \in Disk!Index \ {0} /\ nodes[s].used
      /\ d \in Disk!Index /\ nodes[d].used /\ nodes[d].dir
      /\ nodes'[s].used = nodes[s].used /\ nodes'[s].dir = nodes[s].dir
      /\ nodes'[s].parent = d
      /\ \A j \in Disk!Index : j # s => nodes'[j] = nodes[j]
  BY RenamedTable
<1>2. nodes[s].dir => s \notin {Disk!Walk(SubSeq(dst, 1, k)) : k \in 1 .. Len(dst) - 1}
  BY DEF Disk!Rename, Disk!MayMove
<1>3. m \in Seq(AnyName) /\ Len(m) = Len(dst) - 1
      /\ \A k \in 1 .. Len(m) : SubSeq(m, 1, k) = SubSeq(dst, 1, k)
  <2>1. m \in Seq(AnyName) /\ Len(m) = Len(dst) - 1
    BY FrontOf
  <2>2. ASSUME NEW k \in 1 .. Len(dst) - 1
        PROVE  SubSeq(SubSeq(dst, 1, Len(dst) - 1), 1, k) = SubSeq(dst, 1, k)
    OBVIOUS
  <2> QED BY <2>1, <2>2 DEF Disk!Front
<1>4. PICK f : Trail(f, 0, m) /\ d = f[Len(m)]
  <2> HIDE DEF m
  <2> QED BY <1>3, WalkTrail
<1>5. nodes[s].dir => \A k \in 1 .. Len(m) : f[k] # s
  <2> SUFFICES ASSUME nodes[s].dir, NEW k \in 1 .. Len(m) PROVE f[k] # s
    OBVIOUS
  <2> HIDE DEF m, s, d
  <2>1. k \in 0 .. Len(m) /\ k \in 1 .. Len(dst) - 1
    BY <1>3
  <2>2. Disk!Walk(SubSeq(dst, 1, k)) = f[k]
    BY <1>3, <1>4, <2>1, WalkPart
  <2> QED BY <1>2, <2>1, <2>2
<1> HIDE DEF s, m, d
<1>6. \A j \in Disk!Index : nodes'[j].used = nodes[j].used /\ nodes'[j].dir = nodes[j].dir
  <2> SUFFICES ASSUME NEW j \in Disk!Index
               PROVE  nodes'[j].used = nodes[j].used /\ nodes'[j].dir = nodes[j].dir
    OBVIOUS
  <2>1. CASE j = s
    BY <1>1, <2>1
  <2>2. CASE j # s
    <3>1. nodes'[j] = nodes[j]
      BY <1>1, <2>2
    <3> QED BY <3>1
  <2> QED BY <2>1, <2>2
<1>7. Held(nodes')
  <2> SUFFICES ASSUME NEW j \in Disk!Index \ {0}, nodes'[j].used
               PROVE  nodes'[j].parent \in Disk!Index /\ nodes'[nodes'[j].parent].used
                      /\ nodes'[nodes'[j].parent].dir
    BY DEF Held
  <2>1. CASE j = s
    BY <1>1, <1>6, <2>1
  <2>2. CASE j # s
    <3>1. nodes'[j] = nodes[j]
      BY <1>1, <2>2
    <3>2. nodes[j].parent \in Disk!Index /\ nodes[nodes[j].parent].used
          /\ nodes[nodes[j].parent].dir
      BY <3>1 DEF Held
    <3> QED BY <1>6, <3>1, <3>2
  <2> QED BY <2>1, <2>2
<1>8. Grounded(nodes')
  <2> SUFFICES ASSUME NEW S \in SUBSET (Disk!Index \ {0}),
                      \A j \in S : nodes'[j].used /\ nodes'[j].parent \in S
               PROVE  S = {}
    BY DEF Grounded
  <2>1. CASE s \notin S
    <3>1. \A j \in S : nodes[j].used /\ nodes[j].parent \in S
      <4> SUFFICES ASSUME NEW j \in S PROVE nodes[j].used /\ nodes[j].parent \in S
        OBVIOUS
      <4>1. nodes'[j] = nodes[j]
        BY <1>1, <2>1
      <4> QED BY <4>1
    <3> QED BY <3>1 DEF Grounded
  <2>2. CASE s \in S /\ ~ nodes[s].dir
    <3> DEFINE R == S \ {s}
    <3>1. \A j \in R : nodes[j].used /\ nodes[j].parent \in R
      <4> SUFFICES ASSUME NEW j \in R PROVE nodes[j].used /\ nodes[j].parent \in R
        OBVIOUS
      <4>1. nodes'[j] = nodes[j] /\ nodes'[j].used /\ nodes'[j].parent \in S
        BY <1>1
      <4>2. nodes[j].parent # s
        BY <2>2, <4>1 DEF Held
      <4> QED BY <4>1, <4>2
    <3>2. R = {}
      BY <3>1 DEF Grounded
    <3>3. d \in S /\ d # s
      BY <1>1, <2>2
    <3> QED BY <3>2, <3>3
  <2>3. CASE s \in S /\ nodes[s].dir
    <3> DEFINE n == Len(m)
    <3>1. n \in Nat /\ f[n] = d /\ f[0] = 0
      BY <1>3, <1>4 DEF Trail
    <3>2. \A k \in 1 .. n : f[k] = Disk!WalkStep(f[k - 1], m[k]) /\ f[k - 1] \in Places
          /\ f[k] # s
      <4>1. \A k \in 1 .. n : k - 1 \in 0 .. n
        BY <3>1
      <4> QED BY <1>4, <1>5, <2>3, <4>1 DEF Trail
    <3> HIDE DEF n
    <3> DEFINE T == {k \in 0 .. n : f[n - k] \in S}
    <3>3. 0 \in T
      <4>1. n - 0 = n /\ 0 \in 0 .. n
        BY <3>1
      <4> QED BY <1>1, <2>3, <3>1, <4>1
    <3>4. ASSUME NEW k \in 1 .. n, k - 1 \in T PROVE k \in T
      <4> DEFINE j == n - (k - 1)
      <4>1. j \in 1 .. n /\ j - 1 = n - k /\ k \in 0 .. n
        BY <3>1
      <4>2. f[j] \in S
        BY <3>4
      <4> HIDE DEF j
      <4>3. f[j] # Disk!Nowhere /\ f[j] \in Disk!Index
        BY <4>2, Indices
      <4>4. nodes[f[j]].parent = f[j - 1]
        BY <3>2, <4>1, <4>3, WalkStepFound
      <4>5. nodes'[f[j]] = nodes[f[j]]
        BY <1>1, <3>2, <4>1, <4>3
      <4> QED BY <4>1, <4>2, <4>4, <4>5
    <3> HIDE DEF T
    <3>5. 0 .. n \subseteq T
      BY <3>1, <3>3, <3>4, UpTo
    <3>6. n \in T /\ n - n = 0
      BY <3>1, <3>5
    <3>7. 0 \in S
      BY <3>1, <3>6 DEF T
    <3> QED BY <3>7
  <2> QED BY <2>1, <2>2, <2>3
<1> QED BY <1>7, <1>8

-----------------------------------------------------------------------------
(* The paths that are named.                                               *)

\* Steps that follow a function's own definition are the function.
LEMMA StepsAre ==
  ASSUME NEW n \in Nat, NEW D, NEW x, NEW step, NEW f, Steps(f, n, D, x, step),
         NEW g, g[0] = x, \A k \in 1 .. n : g[k - 1] \in D => g[k] = step[<<g[k - 1], k>>]
  PROVE  \A k \in 0 .. n : g[k] = f[k]
<1> DEFINE S == {k \in 0 .. n : g[k] = f[k]}
<1>1. /\ f \in [0 .. n -> D] /\ f[0] = x
      /\ \A k \in 1 .. n : f[k] = step[<<f[k - 1], k>>]
  BY DEF Steps
<1>2. 0 \in S
  <2>1. 0 \in 0 .. n
    OBVIOUS
  <2> QED BY <1>1, <2>1
<1>3. ASSUME NEW k \in 1 .. n, k - 1 \in S PROVE k \in S
  <2>1. k \in 0 .. n /\ k - 1 \in 0 .. n /\ g[k - 1] = f[k - 1]
    BY <1>3
  <2>2. f[k - 1] \in D
    BY <1>1, <2>1
  <2> QED BY <1>1, <2>1, <2>2
<1> HIDE DEF S
<1>4. 0 .. n \subseteq S
  BY <1>2, <1>3, UpTo
<1> QED BY <1>4 DEF S

\* Up the tree from a node: the names passed, and the node reached.
Climbs == [at : -1 .. Slots - 1, path : Seq(AnyName)]

LEMMA UpStepIn ==
  ASSUME Sound(nodes), NEW r \in Climbs
  PROVE  Disk!UpStep(r) \in Climbs
<1>1. r.at \in -1 .. Slots - 1 /\ r.path \in Seq(AnyName)
  BY DEF Climbs
<1>2. CASE r.at <= 0
  BY <1>2 DEF Disk!UpStep
<1>3. CASE ~ (r.at <= 0)
  <2>1. r.at \in Disk!Index
    BY <1>1, <1>3, DiskAssumption DEF Disk!Index
  <2>2. nodes[r.at] \in Entry
    BY <2>1 DEF Sound, Table
  <2>3. nodes[r.at].parent \in -1 .. Slots - 1 /\ nodes[r.at].name \in AnyName
    BY <2>2 DEF Entry
  <2>4. <<nodes[r.at].name>> \o r.path \in Seq(AnyName)
    <3>1. <<nodes[r.at].name>> \in Seq(AnyName)
      BY <2>3
    <3> QED BY <1>1, <3>1
  <2> QED BY <1>3, <2>3, <2>4 DEF Disk!UpStep, Climbs
<1> QED BY <1>1, <1>2, <1>3

\* u is the way up from node i.
Climb(u, i) ==
  /\ u \in [0 .. 8 -> Climbs] /\ u[0] = [at |-> i, path |-> <<>>]
  /\ \A k \in 1 .. 8 : u[k] = Disk!UpStep(u[k - 1])

LEMMA ClimbExists ==
  ASSUME Sound(nodes), NEW i \in Disk!Index
  PROVE  \E u : Climb(u, i) /\ Disk!Climbed(i) = u[8]
<1> DEFINE x == [at |-> i, path |-> <<>>]
           step == [p \in Climbs \X (1 .. 8) |-> Disk!UpStep(p[1])]
           Is(g) == g = [k \in 0 .. 8 |-> IF k = 0 THEN x ELSE Disk!UpStep(g[k - 1])]
           up == CHOOSE g : Is(g)
<1>1. x \in Climbs
  <2>1. i \in -1 .. Slots - 1 /\ <<>> \in Seq(AnyName)
    BY Indices
  <2> QED BY <2>1 DEF Climbs
<1>2. step \in [Climbs \X (1 .. 8) -> Climbs]
      /\ \A r \in Climbs, k \in 1 .. 8 : step[<<r, k>>] = Disk!UpStep(r)
  BY UpStepIn
<1>3. Disk!Climbed(i) = up[8]
  BY DEF Disk!Climbed
<1>4. 8 \in Nat
  OBVIOUS
<1> HIDE DEF step, x, up
<1>5. PICK f : Steps(f, 8, Climbs, x, step)
  BY <1>1, <1>2, <1>4, Stepwise
<1>6. /\ f \in [0 .. 8 -> Climbs] /\ f[0] = x
      /\ \A k \in 1 .. 8 : k - 1 \in 0 .. 8 /\ f[k] = Disk!UpStep(f[k - 1])
  <2>1. \A k \in 1 .. 8 : k - 1 \in 0 .. 8
    OBVIOUS
  <2> QED BY <1>2, <1>5, <2>1 DEF Steps
<1>7. Is(f)
  <2>1. \A k \in 0 .. 8 : f[k] = IF k = 0 THEN x ELSE Disk!UpStep(f[k - 1])
    <3>1. \A k \in 0 .. 8 : k = 0 \/ k \in 1 .. 8
      OBVIOUS
    <3> QED BY <1>6, <3>1
  <2>2. f = [k \in 0 .. 8 |-> f[k]]
    BY <1>6
  <2> QED BY <2>1, <2>2
<1>8. Is(up)
  <2> HIDE DEF Is
  <2> QED BY <1>7 DEF up
<1>9. up[0] = x /\ \A k \in 1 .. 8 : up[k] = Disk!UpStep(up[k - 1])
  <2>1. 0 \in 0 .. 8 /\ \A k \in 1 .. 8 : k \in 0 .. 8 /\ k # 0
    OBVIOUS
  <2> HIDE DEF Is
  <2>2. up = [k \in 0 .. 8 |-> IF k = 0 THEN x ELSE Disk!UpStep(up[k - 1])]
    BY <1>8 DEF Is
  <2> QED BY <2>1, <2>2
<1>10. \A k \in 0 .. 8 : up[k] = f[k]
  <2>1. \A k \in 1 .. 8 : up[k - 1] \in Climbs => up[k] = step[<<up[k - 1], k>>]
    BY <1>2, <1>9
  <2> QED BY <1>4, <1>5, <1>9, <2>1, StepsAre
<1>11. up[8] = f[8]
  <2>1. 8 \in 0 .. 8
    OBVIOUS
  <2> QED BY <1>10, <2>1
<1> QED BY <1>3, <1>6, <1>11 DEF Climb, x

LEMMA PathOfNames ==
  ASSUME Sound(nodes), NEW i \in Disk!Index
  PROVE  Disk!PathOf(i) \in Seq(AnyName)
<1>1. PICK u : Climb(u, i) /\ Disk!Climbed(i) = u[8]
  BY ClimbExists
<1>2. u[8] \in Climbs
  <2>1. 8 \in 0 .. 8
    OBVIOUS
  <2> QED BY <1>1, <2>1 DEF Climb
<1> QED BY <1>1, <1>2 DEF Disk!PathOf, Climbs

LEMMA CollapsedNames ==
  ASSUME NEW path \in Seq(AnyName \cup {".."})
  PROVE  Disk!Collapsed(path) \in Seq(AnyName)
<1> DEFINE n == Len(path)
           D == Seq(AnyName)
           one(q, k) == Disk!CollapseStep(q, path[k])
           step == [p \in D \X (1 .. n) |-> one(p[1], p[2])]
           Is(g) == g = [k \in 0 .. n |-> IF k = 0 THEN <<>> ELSE one(g[k - 1], k)]
           kept == CHOOSE g : Is(g)
<1>1. n \in Nat /\ \A k \in 1 .. n : path[k] \in AnyName \cup {".."}
  OBVIOUS
<1>2. <<>> \in D
  OBVIOUS
<1>3. \A q \in D, k \in 1 .. n : one(q, k) \in D
  <2> SUFFICES ASSUME NEW q \in D, NEW k \in 1 .. n PROVE one(q, k) \in D
    OBVIOUS
  <2> HIDE DEF n
  <2>1. CASE path[k] # ".."
    <3>1. Append(q, path[k]) \in D
      BY <1>1, <2>1
    <3> QED BY <2>1, <3>1 DEF Disk!CollapseStep
  <2>2. CASE path[k] = ".." /\ q = <<>>
    BY <2>2 DEF Disk!CollapseStep
  <2>3. CASE path[k] = ".." /\ q # <<>>
    <3>1. Disk!Front(q) \in D
      BY <2>3, FrontOf
    <3> QED BY <2>3, <3>1 DEF Disk!CollapseStep
  <2> QED BY <2>1, <2>2, <2>3
<1>4. Disk!Collapsed(path) = kept[n]
  BY DEF Disk!Collapsed
<1>5. step \in [D \X (1 .. n) -> D]
      /\ \A q \in D, k \in 1 .. n : step[<<q, k>>] = one(q, k)
  <2> HIDE DEF one, n, D
  <2> QED BY <1>3
<1> HIDE DEF step, n, D, kept
<1>6. PICK f : Steps(f, n, D, <<>>, step)
  BY <1>1, <1>2, <1>5, Stepwise
<1> HIDE DEF one
<1>7. /\ f \in [0 .. n -> D] /\ f[0] = <<>>
      /\ \A k \in 1 .. n : f[k] = one(f[k - 1], k)
  <2>1. \A k \in 1 .. n : k - 1 \in 0 .. n
    BY <1>1
  <2> QED BY <1>5, <1>6, <2>1 DEF Steps
<1>8. Is(f)
  <2>1. \A k \in 0 .. n : f[k] = IF k = 0 THEN <<>> ELSE one(f[k - 1], k)
    <3>1. \A k \in 0 .. n : k = 0 \/ k \in 1 .. n
      BY <1>1
    <3> QED BY <1>7, <3>1
  <2>2. f = [k \in 0 .. n |-> f[k]]
    BY <1>7
  <2> QED BY <2>1, <2>2
<1>9. Is(kept)
  <2> HIDE DEF Is
  <2> QED BY <1>8 DEF kept
<1>10. kept[0] = <<>> /\ \A k \in 1 .. n : kept[k] = one(kept[k - 1], k)
  <2>1. 0 \in 0 .. n /\ \A k \in 1 .. n : k \in 0 .. n /\ k # 0
    BY <1>1
  <2>2. kept = [k \in 0 .. n |-> IF k = 0 THEN <<>> ELSE one(kept[k - 1], k)]
    BY <1>9
  <2> QED BY <2>1, <2>2
<1>11. \A k \in 0 .. n : kept[k] = f[k]
  <2>1. \A k \in 1 .. n : kept[k - 1] \in D => kept[k] = step[<<kept[k - 1], k>>]
    BY <1>5, <1>10
  <2> QED BY <1>1, <1>6, <1>10, <2>1, StepsAre
<1>12. kept[n] = f[n] /\ f[n] \in D
  <2>1. n \in 0 .. n
    BY <1>1
  <2> QED BY <1>7, <1>11, <2>1
<1> QED BY <1>4, <1>12 DEF D

LEMMA TypedNames ==
  ASSUME Sound(nodes), cwd \in [Users -> Disk!Index], NEW c \in Users
  PROVE  Disk!Typed(c) \subseteq Seq(AnyName)
<1>1. Disk!CwdPath(c) \in Seq(AnyName)
  <2>1. cwd[c] \in Disk!Index
    OBVIOUS
  <2> QED BY <2>1, PathOfNames DEF Disk!CwdPath
<1>2. ASSUME NEW n \in Names \cup {".."}
      PROVE  Disk!Collapsed(Append(Disk!CwdPath(c), n)) \in Seq(AnyName)
  <2>1. Append(Disk!CwdPath(c), n) \in Seq(AnyName \cup {".."})
    BY <1>1 DEF AnyName
  <2> QED BY <2>1, CollapsedNames
<1>3. \A p \in Disk!Absolute : p \in Seq(AnyName)
  <2> SUFFICES ASSUME NEW p \in Disk!Absolute PROVE p \in Seq(AnyName)
    OBVIOUS
  <2>1. PICK n \in 0 .. MaxPath : p \in [1 .. n -> Names]
    BY DEF Disk!Absolute
  <2>2. n \in Nat /\ p \in [1 .. n -> AnyName]
    BY <2>1 DEF AnyName
  <2> QED BY <2>2
<1> QED BY <1>2, <1>3 DEF Disk!Typed

-----------------------------------------------------------------------------
(* The commands.                                                           *)

\* What a console may name.
Nameable(path) == path \in Seq(AnyName) /\ Disk!Allowed(path)

\* A table in which what was in use is as it was.
LEMMA KeptHeld ==
  ASSUME DiskInv, Kept(nodes, nodes'), UNCHANGED <<cwd, habits>>
  PROVE  CwdHeld'
<1> SUFFICES ASSUME "vacate" \notin habits, NEW c \in Users
             PROVE  nodes'[cwd[c]].used /\ nodes'[cwd[c]].dir
  BY DEF CwdHeld
<1>1. nodes[cwd[c]].used /\ nodes[cwd[c]].dir /\ cwd[c] \in Disk!Index
  BY DEF DiskInv, CwdHeld
<1> QED BY <1>1 DEF Kept

LEMMA MadeStep ==
  ASSUME DiskInv, NEW path, Nameable(path), NEW kind,
         nodes' = Disk!Made(path, kind).table, UNCHANGED <<cwd, habits>>
  PROVE  DiskInv'
<1>1. path \in Seq(AnyName) /\ Sound(nodes)
  BY DEF Nameable, DiskInv
<1>2. Sound(nodes') /\ Kept(nodes, nodes')
  BY <1>1, MadeSound
<1>3. "under" \notin habits => Held(nodes') /\ Grounded(nodes')
  <2> SUFFICES ASSUME "under" \notin habits PROVE Held(nodes') /\ Grounded(nodes')
    OBVIOUS
  <2>1. ~ Disk!BelowFile(path) /\ Held(nodes) /\ Grounded(nodes)
    BY DEF Nameable, Disk!Allowed, DiskInv
  <2> QED BY <1>1, <2>1, MadeHeld
<1>4. CwdHeld'
  BY <1>2, KeptHeld
<1> QED BY <1>2, <1>3, <1>4 DEF DiskInv

LEMMA ChdirStep ==
  ASSUME DiskInv, NEW path, Nameable(path), NEW c \in Users, Disk!Chdir(c, path)
  PROVE  DiskInv'
<1> DEFINE i == Disk!Walk(path)
<1>1. Len(path) \in Nat /\ Sound(nodes)
  BY DEF Nameable, DiskInv
<1>2. i \in Disk!Index /\ nodes[i].used /\ nodes[i].dir
      /\ cwd' = [cwd EXCEPT ![c] = i] /\ UNCHANGED <<nodes, habits>>
  BY <1>1, WalkFound DEF Disk!Chdir
<1> HIDE DEF i
<1>3. CwdHeld' /\ cwd' \in [Users -> Disk!Index]
  BY <1>2 DEF CwdHeld, DiskInv
<1> QED BY <1>2, <1>3 DEF DiskInv

\* A file or an empty directory is removed that is not current on a console, or
\* may be.
LEMMA RemoveStep ==
  ASSUME DiskInv, NEW i \in Disk!Index, i # 0, Disk!Removed(i), UNCHANGED <<cwd, habits>>,
         "under" \notin habits => Empty(nodes, i),
         "vacate" \notin habits => \A c \in Users : cwd[c] # i
  PROVE  DiskInv'
<1>1. /\ Sound(nodes') /\ ~ nodes'[i].used
      /\ \A j \in Disk!Index : j # i => nodes'[j] = nodes[j]
  BY RemovedTable DEF DiskInv
<1>2. "under" \notin habits => Held(nodes') /\ Grounded(nodes')
  BY RemovedHeld DEF DiskInv
<1>3. CwdHeld'
  <2> SUFFICES ASSUME "vacate" \notin habits, NEW c \in Users
               PROVE  nodes'[cwd[c]].used /\ nodes'[cwd[c]].dir
    BY DEF CwdHeld
  <2>1. nodes[cwd[c]].used /\ nodes[cwd[c]].dir /\ cwd[c] \in Disk!Index /\ cwd[c] # i
    BY DEF DiskInv, CwdHeld
  <2>2. nodes'[cwd[c]] = nodes[cwd[c]]
    BY <1>1, <2>1
  <2> QED BY <2>1, <2>2
<1> QED BY <1>1, <1>2, <1>3 DEF DiskInv

LEMMA RmdirStep ==
  ASSUME DiskInv, NEW path, Nameable(path), Disk!Rmdir(path)
  PROVE  DiskInv'
<1> DEFINE i == Disk!Walk(path)
<1>1. Len(path) \in Nat /\ Sound(nodes)
  BY DEF Nameable, DiskInv
<1>2. i \in Disk!Index /\ i # 0
  BY <1>1, WalkFound DEF Disk!Rmdir
<1>3. Disk!Removed(i) /\ UNCHANGED <<cwd, habits>> /\ Empty(nodes, i)
      /\ ("vacate" \notin habits => \A c \in Users : cwd[c] # i)
  BY DEF Disk!Rmdir, Empty
<1> HIDE DEF i
<1> QED BY <1>2, <1>3, RemoveStep

LEMMA KillStep ==
  ASSUME DiskInv, NEW path, Nameable(path), Disk!Kill(path)
  PROVE  DiskInv'
<1> DEFINE i == Disk!Walk(path)
<1>1. Len(path) \in Nat /\ Sound(nodes)
  BY DEF Nameable, DiskInv
<1>2. i \in Disk!Index /\ i # 0 /\ ~ nodes[i].dir
  BY <1>1, WalkFound DEF Disk!Kill
<1>3. Disk!Removed(i) /\ UNCHANGED <<cwd, habits>>
  BY DEF Disk!Kill
<1> HIDE DEF i
<1>4. "under" \notin habits => Empty(nodes, i)
  <2> SUFFICES ASSUME "under" \notin habits, NEW j \in Disk!Index, nodes[j].used,
                      nodes[j].parent = i
               PROVE  FALSE
    BY DEF Empty
  <2>1. CASE j = 0
    BY <1>1, <1>2, <2>1, RootFacts, Indices DEF Sound
  <2>2. CASE j # 0
    BY <1>2, <2>2 DEF DiskInv, Held
  <2> QED BY <2>1, <2>2
<1>5. "vacate" \notin habits => \A c \in Users : cwd[c] # i
  BY <1>2 DEF DiskInv, CwdHeld
<1> QED BY <1>2, <1>3, <1>4, <1>5, RemoveStep

LEMMA NameStep ==
  ASSUME DiskInv, NEW src, NEW dst, Nameable(src), Nameable(dst), Disk!Name(src, dst)
  PROVE  DiskInv'
<1> DEFINE i == Disk!Walk(dst)
           into == i # Disk!Nowhere /\ nodes[i].dir /\ src # <<>>
           target == IF into THEN Append(dst, Disk!Last(src)) ELSE dst
<1>1. src \in Seq(AnyName) /\ dst \in Seq(AnyName) /\ Sound(nodes)
      /\ cwd \in [Users -> Disk!Index]
  BY DEF Nameable, DiskInv
<1>2. target \in Seq(AnyName)
  <2> HIDE DEF i
  <2>1. src # <<>> => Disk!Last(src) \in AnyName
    BY <1>1 DEF Disk!Last
  <2> QED BY <1>1, <2>1
<1>3. target # <<>> /\ Disk!Rename(src, target)
  BY DEF Disk!Name
<1> HIDE DEF target
<1> DEFINE s == Disk!Walk(src)
<1>4. /\ s \in Disk!Index /\ Sound(nodes')
      /\ nodes'[s].used = nodes[s].used /\ nodes'[s].dir = nodes[s].dir
      /\ \A j \in Disk!Index : j # s => nodes'[j] = nodes[j]
      /\ UNCHANGED <<cwd, habits>>
  BY <1>1, <1>2, <1>3, RenamedTable
<1> HIDE DEF s
<1>5. "under" \notin habits => Held(nodes') /\ Grounded(nodes')
  BY <1>1, <1>2, <1>3, RenamedHeld DEF DiskInv
<1>6. CwdHeld'
  <2> SUFFICES ASSUME "vacate" \notin habits, NEW c \in Users
               PROVE  nodes'[cwd[c]].used /\ nodes'[cwd[c]].dir
    BY <1>4 DEF CwdHeld
  <2>1. nodes[cwd[c]].used /\ nodes[cwd[c]].dir /\ cwd[c] \in Disk!Index
    BY DEF DiskInv, CwdHeld
  <2>2. CASE cwd[c] = s
    BY <1>4, <2>1, <2>2
  <2>3. CASE cwd[c] # s
    <3>1. nodes'[cwd[c]] = nodes[cwd[c]]
      BY <1>4, <2>1, <2>3
    <3> QED BY <2>1, <3>1
  <2> QED BY <2>2, <2>3
<1> QED BY <1>1, <1>4, <1>5, <1>6 DEF DiskInv

LEMMA DiskStep == DiskInv /\ [Disk!Next]_diskVars => DiskInv'
<1> SUFFICES ASSUME DiskInv, [Disk!Next]_diskVars PROVE DiskInv'
  OBVIOUS
<1>1. CASE UNCHANGED diskVars
  BY <1>1 DEF diskVars, DiskInv, CwdHeld
<1>2. ASSUME NEW c \in Users, Disk!Command(c) PROVE DiskInv'
  <2>1. \A path \in Disk!Typed(c) : Disk!Allowed(path) => Nameable(path)
    BY TypedNames DEF DiskInv, Nameable
  <2>2. CASE Disk!Home(c)
    <3>1. cwd' = [cwd EXCEPT ![c] = 0] /\ UNCHANGED <<nodes, habits>>
      BY <2>2 DEF Disk!Home
    <3>2. nodes[0].used /\ nodes[0].dir /\ 0 \in Disk!Index
      BY RootFacts, Indices DEF DiskInv, Sound
    <3>3. CwdHeld' /\ cwd' \in [Users -> Disk!Index]
      BY <3>1, <3>2 DEF CwdHeld, DiskInv
    <3> QED BY <3>1, <3>3 DEF DiskInv
  <2>3. ASSUME NEW path, Nameable(path),
               \/ path # <<>> /\ (Disk!Write(path) \/ Disk!Mkdir(path))
               \/ Disk!Chdir(c, path) \/ Disk!Rmdir(path) \/ Disk!Kill(path)
        PROVE  DiskInv'
    <3>1. CASE Disk!Write(path)
      BY <2>3, <3>1, MadeStep DEF Disk!Write
    <3>2. CASE Disk!Mkdir(path)
      BY <2>3, <3>2, MadeStep DEF Disk!Mkdir
    <3>3. CASE Disk!Chdir(c, path)
      BY <2>3, <3>3, ChdirStep
    <3>4. CASE Disk!Rmdir(path)
      BY <2>3, <3>4, RmdirStep
    <3>5. CASE Disk!Kill(path)
      BY <2>3, <3>5, KillStep
    <3> QED BY <2>3, <3>1, <3>2, <3>3, <3>4, <3>5
  <2>4. ASSUME NEW src, NEW dst, Nameable(src), Nameable(dst), Disk!Name(src, dst)
        PROVE  DiskInv'
    BY <2>4, NameStep
  <2> QED BY <1>2, <2>1, <2>2, <2>3, <2>4 DEF Disk!Command
<1> QED BY <1>1, <1>2 DEF Disk!Next

LEMMA ServicesDisk == ServicesSpec => Disk!Init /\ [][Disk!Next]_diskVars
<1>1. ServicesInit => Disk!Init
  BY DEF ServicesInit
<1>2. [ServicesNext]_vars => [Disk!Next]_diskVars
  BY DEF ServicesNext, vars, diskVars
<1> QED BY <1>1, <1>2, PTL DEF ServicesSpec

\* No directory has two entries of one name, on a disk of any size and whatever
\* paths are named: a name is looked for where it is made, and a rename is
\* refused where the name is another's (ram_walk, mmb_vfs_rename).
THEOREM NamesTheorem == ServicesSpec => []NamesUnique
<1>1. DiskInv => NamesUnique
  BY DEF DiskInv, Sound, Distinct, NamesUnique, Disk!NamesUnique
<1> QED BY <1>1, DiskStarts, DiskStep, ServicesDisk, PTL

-----------------------------------------------------------------------------
(* The way back to a node by its path.                                     *)

\* A way that begins one name earlier.
LEMMA LongerTrail ==
  ASSUME NEW p \in Disk!Index, NEW name \in AnyName, NEW path \in Seq(AnyName), NEW f,
         Trail(f, Disk!WalkStep(p, name), path)
  PROVE  LET longer == <<name>> \o path
         IN  /\ longer \in Seq(AnyName)
             /\ \E g : Trail(g, p, longer) /\ g[Len(longer)] = f[Len(path)]
<1> DEFINE longer == <<name>> \o path
           n == Len(path)
           g == [k \in 0 .. n + 1 |-> IF k = 0 THEN p ELSE f[k - 1]]
<1>1. /\ longer \in Seq(AnyName) /\ Len(longer) = n + 1 /\ longer[1] = name
      /\ \A k \in 1 .. n : longer[k + 1] = path[k]
  OBVIOUS
<1>2. n \in Nat
  OBVIOUS
<1>3. /\ f \in [0 .. n -> Places] /\ f[0] = Disk!WalkStep(p, name)
      /\ \A k \in 1 .. n : f[k] = Disk!WalkStep(f[k - 1], path[k])
  BY DEF Trail
<1> HIDE DEF longer, n
<1>4. g[0] = p /\ \A k \in 0 .. n : g[k + 1] = f[k]
  BY <1>2
<1>5. g \in [0 .. n + 1 -> Places]
  <2>1. \A k \in 0 .. n + 1 : k # 0 => k - 1 \in 0 .. n
    BY <1>2
  <2>2. p \in Places
    BY DEF Places
  <2> QED BY <1>3, <2>1, <2>2
<1> HIDE DEF g
<1>6. ASSUME NEW k \in 1 .. n + 1 PROVE g[k] = Disk!WalkStep(g[k - 1], longer[k])
  <2>1. CASE k = 1
    <3>1. g[0 + 1] = f[0] /\ 0 + 1 = 1 /\ 1 - 1 = 0
      BY <1>2, <1>4
    <3> QED BY <1>1, <1>3, <1>4, <2>1, <3>1
  <2>2. CASE k # 1
    <3> DEFINE j == k - 1
    <3>1. j \in 1 .. n /\ j \in 0 .. n /\ j - 1 \in 0 .. n /\ k = j + 1 /\ (j - 1) + 1 = j
      BY <1>2, <2>2
    <3>2. g[k] = f[j] /\ g[j] = f[j - 1] /\ longer[k] = path[j]
      <4> HIDE DEF j
      <4> QED BY <1>1, <1>4, <3>1
    <3> QED BY <1>3, <3>1, <3>2
  <2> QED BY <2>1, <2>2
<1>7. Trail(g, p, longer)
  BY <1>1, <1>4, <1>5, <1>6 DEF Trail
<1>8. g[Len(longer)] = f[n]
  <2>1. n \in 0 .. n
    BY <1>2
  <2> QED BY <1>1, <1>4, <2>1
<1> QED BY <1>1, <1>7, <1>8 DEF longer, n

\* The place reached on the way up, from which the names passed lead back to i.
LeadsTo(r, i) ==
  /\ r.at \in Disk!Index /\ nodes[r.at].used /\ r.path \in Seq(AnyName)
  /\ \E f : Trail(f, r.at, r.path) /\ f[Len(r.path)] = i

LEMMA UpLeads ==
  ASSUME Sound(nodes), Held(nodes), NEW r, NEW i, LeadsTo(r, i)
  PROVE  LeadsTo(Disk!UpStep(r), i)
<1>1. CASE r.at <= 0
  <2>1. Disk!UpStep(r) = r
    BY <1>1 DEF Disk!UpStep
  <2> QED BY <2>1
<1>2. CASE ~ (r.at <= 0)
  <2> DEFINE a == r.at
             p == nodes[a].parent
             name == nodes[a].name
             q == [at |-> p, path |-> <<name>> \o r.path]
  <2>1. Disk!UpStep(r) = q
    BY <1>2 DEF Disk!UpStep
  <2>2. a \in Disk!Index /\ a # 0 /\ nodes[a].used
    BY <1>2, Indices DEF LeadsTo
  <2>3. p \in Disk!Index /\ nodes[p].used /\ name \in AnyName
    <3>1. nodes[a] \in Entry
      BY <2>2 DEF Sound, Table
    <3> QED BY <2>2, <3>1 DEF Held, Entry
  <2>4. Disk!WalkStep(p, name) = a
    <3>1. p # Disk!Nowhere
      BY <2>3, Indices
    <3> DEFINE j == Disk!Child(nodes, p, name)
    <3>2. j # Disk!Nowhere
      BY <2>2, ChildFound
    <3>3. j \in Disk!Index /\ nodes[j].used /\ nodes[j].parent = p /\ nodes[j].name = name
      BY <3>2, ChildFound
    <3> HIDE DEF j
    <3>4. j = a
      BY <2>2, <3>3 DEF Sound, Distinct
    <3> QED BY <3>1, <3>4 DEF Disk!WalkStep, j
  <2>5. PICK f : Trail(f, a, r.path) /\ f[Len(r.path)] = i
    BY DEF LeadsTo
  <2> DEFINE longer == <<name>> \o r.path
  <2>6. r.path \in Seq(AnyName)
    BY DEF LeadsTo
  <2> HIDE DEF p, name, a
  <2>7. longer \in Seq(AnyName)
        /\ \E g : Trail(g, p, longer) /\ g[Len(longer)] = f[Len(r.path)]
    BY <2>3, <2>4, <2>5, <2>6, LongerTrail
  <2>8. q.at = p /\ q.path = longer
    OBVIOUS
  <2> HIDE DEF q, longer
  <2>9. LeadsTo(q, i)
    BY <2>3, <2>5, <2>7, <2>8 DEF LeadsTo
  <2> QED BY <2>1, <2>9
<1> QED BY <1>1, <1>2

\* Where its path reaches the root, a node is found under it.
LEMMA PathBack ==
  ASSUME Sound(nodes), Held(nodes), NEW i \in Disk!Index, nodes[i].used, Disk!Shallow(i)
  PROVE  Disk!Walk(Disk!PathOf(i)) = i
<1>1. PICK u : Climb(u, i) /\ Disk!Climbed(i) = u[8]
  BY ClimbExists
<1>2. u[0] = [at |-> i, path |-> <<>>] /\ \A k \in 1 .. 8 : u[k] = Disk!UpStep(u[k - 1])
  BY <1>1 DEF Climb
<1> DEFINE S == {k \in 0 .. 8 : LeadsTo(u[k], i)}
<1>3. 0 \in S
  <2> DEFINE r == [at |-> i, path |-> <<>>]
             f == [k \in 0 .. 0 |-> i]
  <2>1. r.at = i /\ r.path = <<>> /\ r.path \in Seq(AnyName) /\ Len(<<>>) = 0
    OBVIOUS
  <2>2. f[0] = i /\ f \in [0 .. 0 -> Places]
    BY DEF Places
  <2> HIDE DEF f
  <2>3. Trail(f, i, <<>>)
    BY <2>1, <2>2 DEF Trail
  <2> HIDE DEF r
  <2>4. LeadsTo(r, i)
    BY <2>1, <2>2, <2>3 DEF LeadsTo
  <2>5. 0 \in 0 .. 8
    OBVIOUS
  <2> QED BY <1>2, <2>4, <2>5 DEF r
<1>4. ASSUME NEW k \in 1 .. 8, k - 1 \in S PROVE k \in S
  <2>1. k \in 0 .. 8
    OBVIOUS
  <2> QED BY <1>2, <1>4, <2>1, UpLeads
<1> HIDE DEF S
<1>5. 0 .. 8 \subseteq S
  <2>1. 8 \in Nat
    OBVIOUS
  <2> QED BY <1>3, <1>4, <2>1, UpTo
<1>6. 8 \in S
  <2>1. 8 \in 0 .. 8
    OBVIOUS
  <2> QED BY <1>5, <2>1
<1>7. LeadsTo(u[8], i)
  BY <1>6 DEF S
<1>8. u[8].at = 0 /\ Disk!PathOf(i) = u[8].path
  BY <1>1 DEF Disk!Shallow, Disk!PathOf
<1>9. PICK f : Trail(f, 0, u[8].path) /\ f[Len(u[8].path)] = i
  BY <1>7, <1>8 DEF LeadsTo
<1>10. Len(u[8].path) \in Nat
  BY <1>7 DEF LeadsTo
<1> QED BY <1>8, <1>9, <1>10, WalkEnds

\* Nothing is lost with its directory, or comes back in another one that got
\* its index: every node is in a directory, below the root, and where its path
\* is whole it is found under it (mmb_vfs_rmdir, mmb_vfs_kill,
\* mmb_vfs_rename).
THEOREM TreeTheorem == ServicesSpec => []TreeSound
<1>1. DiskInv => TreeSound
  <2> SUFFICES ASSUME DiskInv, "under" \notin habits
               PROVE  /\ \A i \in Disk!Index \ {0} : nodes[i].used =>
                           /\ nodes[nodes[i].parent].used /\ nodes[nodes[i].parent].dir
                           /\ Disk!Shallow(i) => Disk!Walk(Disk!PathOf(i)) = i
                      /\ Disk!NothingAdrift
    BY DEF TreeSound, Disk!TreeSound
  <2>1. Sound(nodes) /\ Held(nodes) /\ Grounded(nodes)
    BY DEF DiskInv
  <2>2. Disk!NothingAdrift
    BY <2>1 DEF Grounded, Disk!NothingAdrift
  <2> QED BY <2>1, <2>2, PathBack DEF Held
<1> QED BY <1>1, DiskStarts, DiskStep, ServicesDisk, PTL

\* Where no directory is removed that is current on some console, CWD$ leads
\* back to where the console is, through renames of what is above it
\* (mmb_vfs_rename edits the node where it is).
THEOREM CwdTheorem == ServicesSpec => []CwdLeadsBack
<1>1. DiskInv => CwdLeadsBack
  <2> SUFFICES ASSUME DiskInv, habits = {}, NEW c \in Users
               PROVE  /\ nodes[cwd[c]].used /\ nodes[cwd[c]].dir
                      /\ Disk!Shallow(cwd[c]) => Disk!Walk(Disk!CwdPath(c)) = cwd[c]
    BY DEF CwdLeadsBack, Disk!CwdLeadsBack
  <2>1. nodes[cwd[c]].used /\ nodes[cwd[c]].dir /\ cwd[c] \in Disk!Index
    BY DEF DiskInv, CwdHeld
  <2>2. Sound(nodes) /\ Held(nodes)
    BY DEF DiskInv
  <2>3. Disk!CwdPath(c) = Disk!PathOf(cwd[c])
    BY <2>1 DEF Disk!CwdPath
  <2> QED BY <2>1, <2>2, <2>3, PathBack
<1> QED BY <1>1, DiskStarts, DiskStep, ServicesDisk, PTL
-----------------------------------------------------------------------------
(* The types of all the services.                                          *)

Flag == {enabled, lastMode, done, wasReady, linkUp, busy, answering, sawDown}
Moments == 0 .. Wrap - 1
StaticsTyped == [done : BOOLEAN, fails : 0 .. 6, nextAt : Moments, deadline : Moments]

\* What the attempts depend on, but for the window.
AttemptsTyped ==
  /\ Flag \subseteq BOOLEAN
  /\ fails \in 0 .. 6 /\ nextAt \in Moments
  /\ late \in {"no", "unset", "yes"}

LEMMA PauseCounted ==
  ASSUME NEW n \in 0 .. 6
  PROVE  NTP!Pause(n) \in Int
<1>1. 2 ^ n \in Int
  <2>1. /\ 2 ^ 0 \in Int /\ 2 ^ 1 \in Int /\ 2 ^ 2 \in Int /\ 2 ^ 3 \in Int
        /\ 2 ^ 4 \in Int /\ 2 ^ 5 \in Int /\ 2 ^ 6 \in Int
    BY SMT
  <2>2. n \in {0, 1, 2, 3, 4, 5, 6}
    BY SMT
  <2> QED BY <2>1, <2>2, Zenon
<1> QED BY <1>1, ClockAssumption DEF NTP!Pause, NTP!Sooner

LEMMA InMoments ==
  ASSUME ClockTyped, NEW s \in Int
  PROVE  NTP!In(s) \in Moments
<1>1. now \in Int /\ Wrap \in Int /\ Wrap > 0
  BY ClockAssumption DEF ClockTyped
<1>2. now + s \in Int
  BY <1>1
<1>3. ASSUME NEW a \in Int PROVE a % Wrap \in 0 .. Wrap - 1
  BY <1>1
<1> QED BY <1>2, <1>3 DEF NTP!In, Moments

LEMMA PollTyped ==
  ASSUME ClockTyped, AttemptsTyped, NTP!Poll
  PROVE  AttemptsTyped'
<1> DEFINE o == NTP!Noticed
           p == NTP!Opened(o)
<1>0. 0 \in Moments /\ deadline \in Moments /\ Patience \in Int
  BY ClockAssumption DEF ClockTyped, Moments
<1>1. o \in StaticsTyped
  BY <1>0 DEF NTP!Noticed, StaticsTyped, AttemptsTyped, Flag
<1>2. NTP!Fresh(o) \in StaticsTyped
  <2>1. ASSUME NEW q \in StaticsTyped
        PROVE  /\ [q EXCEPT !.fails = 0] \in StaticsTyped
               /\ [q EXCEPT !.nextAt = 0] \in StaticsTyped
               /\ [q EXCEPT !.deadline = 0] \in StaticsTyped
    BY <1>0 DEF StaticsTyped
  <2> HIDE DEF o
  <2> QED BY <1>1, <2>1, Zenon DEF NTP!Fresh
<1>3. p \in StaticsTyped
  BY <1>0, <1>1, <1>2, InMoments DEF NTP!Opened, StaticsTyped
<1>4. ASSUME NEW q \in StaticsTyped, NTP!Set(q)
      PROVE  done' \in BOOLEAN /\ fails' \in 0 .. 6 /\ nextAt' \in Moments
  BY <1>4 DEF NTP!Set, StaticsTyped
<1>5. \/ NTP!Nothing(o) /\ UNCHANGED sawDown
      \/ NTP!Offline(o) /\ sawDown' = ~linkUp
      \/ NTP!Online(p) /\ sawDown' = ~linkUp
  BY DEF NTP!Poll
<1>6. {enabled', lastMode', linkUp', busy', answering', sawDown'} \subseteq BOOLEAN
  BY <1>5 DEF NTP!Poll, NTP!ntpEnv, AttemptsTyped, Flag
<1> HIDE DEF o, p
<1>7. CASE NTP!Nothing(o) \/ NTP!Offline(o)
  BY <1>1, <1>2, <1>4, <1>6, <1>7 DEF NTP!Nothing, NTP!Offline, AttemptsTyped, Flag
<1>8. CASE NTP!Online(p)
  <2>1. wasReady' = TRUE
    BY <1>8 DEF NTP!Online
  <2>2. CASE NTP!Set(p) /\ UNCHANGED late
    BY <1>3, <1>4, <1>6, <2>1, <2>2 DEF AttemptsTyped, Flag
  <2>3. CASE NTP!Attempt(p)
    <3>1. late' \in {"no", "unset", "yes"}
      BY <2>3 DEF NTP!Attempt, AttemptsTyped
    <3>2. CASE NTP!Set([p EXCEPT !.done = TRUE])
      <4>1. [p EXCEPT !.done = TRUE] \in StaticsTyped
        BY <1>3 DEF StaticsTyped
      <4> QED BY <1>4, <1>6, <2>1, <3>1, <3>2, <4>1 DEF AttemptsTyped, Flag
    <3>3. CASE ~answering
      <4> DEFINE n == NTP!Sooner(p.fails + 1, 6)
                 t == NTP!In(NTP!Pause(n))
      <4>1. n \in 0 .. 6
        BY <1>3 DEF NTP!Sooner, StaticsTyped
      <4>2. NTP!Set([p EXCEPT !.fails = n, !.nextAt = t])
        BY <2>3, <3>3 DEF NTP!Attempt
      <4> HIDE DEF n
      <4>3. t \in Moments
        BY <4>1, PauseCounted, InMoments
      <4> HIDE DEF t
      <4>4. [p EXCEPT !.fails = n, !.nextAt = t] \in StaticsTyped
        BY <1>3, <4>1, <4>3 DEF StaticsTyped
      <4> QED BY <1>4, <1>6, <2>1, <3>1, <4>2, <4>4 DEF AttemptsTyped, Flag
    <3> QED BY <2>3, <3>2, <3>3 DEF NTP!Attempt
  <2> QED BY <1>8, <2>2, <2>3 DEF NTP!Online
<1> QED BY <1>5, <1>7, <1>8

LEMMA ClockTypes == ServicesSpec => []NTP!TypeOK
<1>1. NTP!Init => AttemptsTyped
  <2> SUFFICES ASSUME NTP!Init PROVE AttemptsTyped
    OBVIOUS
  <2>1. Flag \subseteq BOOLEAN
    BY Zenon DEF NTP!Init, Flag
  <2>2. 0 \in Moments
    BY ClockAssumption DEF NTP!Init, Moments
  <2> QED BY <2>1, <2>2 DEF NTP!Init, AttemptsTyped
<1>2. ClockInv /\ AttemptsTyped /\ [NTP!Next]_ntpVars => AttemptsTyped'
  <2> SUFFICES ASSUME ClockInv, AttemptsTyped, [NTP!Next]_ntpVars PROVE AttemptsTyped'
    OBVIOUS
  <2>1. CASE NTP!Poll
    BY <2>1, PollTyped DEF ClockInv
  <2>2. CASE NTP!Tick \/ NTP!World \/ UNCHANGED ntpVars
    BY <2>2 DEF NTP!Tick, NTP!World, ntpVars, AttemptsTyped, Flag
  <2> QED BY <2>1, <2>2 DEF NTP!Next
<1>3. ClockInv /\ AttemptsTyped => NTP!TypeOK
  BY DEF ClockInv, ClockTyped, AttemptsTyped, Flag, Moments, NTP!TypeOK
<1> QED BY <1>1, <1>2, <1>3, ClockStarts, ClockStep, ServicesClock, PTL

\* Every service is well typed, for any hosts, disk, files, pictures, clock and
\* page: what the FTP server and its client have of a file is no more than the
\* largest file, however they interrupt each other (ftp_xfer_poll), the depths
\* that PAINT shows stay within its history, also where memory runs out
\* (pt_undo_push), and no buffer of TERM grows beyond the page, however its
\* rectangles merge (term_merge_pending).
THEOREM ServicesTyped == ServicesSpec => []Typed
<1>1. ServicesSpec => []TypeOK
  <2>1. IInv => TypeOK
    BY DEF IInv
  <2> QED BY <2>1, InitIInv, StepIInv, ServicesDial, PTL
<1>2. ServicesSpec => []Disk!TypeOK
  <2>1. DiskInv => Disk!TypeOK
    BY DEF DiskInv, Sound, Table, Entry, AnyName, Disk!TypeOK
  <2> QED BY <2>1, DiskStarts, DiskStep, ServicesDisk, PTL
<1>3. /\ TypeOK /\ Disk!TypeOK /\ FTP!TypeOK /\ Art!TypeOK /\ NTP!TypeOK /\ Show!TypeOK
      => Typed
  BY DEF Typed
<1> QED BY <1>1, <1>2, <1>3, FtpTyped, PaintTyped, ClockTypes, ScreenTyped, PTL
=============================================================================
