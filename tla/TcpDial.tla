------------------------------- MODULE TcpDial -------------------------------
(***************************************************************************)
(* Dialling the one TCP socket on the Raspberry Pi (console/net.cpp:95): a *)
(* dial is done by a task of its own, which waits for the network, asks    *)
(* the DNS and connects, while the interpreter polls for the outcome, may  *)
(* hang up, and may dial another host.  An abandoned task cannot be        *)
(* stopped: it is told apart by its generation.                            *)
(*                                                                         *)
(* Tasks and the interpreter take turns: an action is what one of them     *)
(* does from one wait to the next.  A task that was created has not run.   *)
(* A host stands for its name and its port, which the task reads one after *)
(* the other.  MaxDials bounds the dials.                                  *)
(***************************************************************************)
EXTENDS Naturals

CONSTANTS Hosts, None, MaxDials

VARIABLES
    wanted,             \* the host last dialled, or None after hanging up
    told,               \* what mmb_net_tcp_status last said of it
    gen,                \* s_gen
    openHost,           \* s_open_host, s_open_port
    waiting,            \* s_pending_host when s_pending, or None
    abandon, taskBusy,  \* s_abandon, s_task_busy
    openDone,           \* s_open_done
    openResult,         \* s_open_result is 0
    sock,               \* where s_sock leads, or None
    tasks,              \* the tasks that have not ended
    dials

dialVars == <<wanted, told, gen, openHost, waiting, abandon, taskBusy, openDone,
              openResult, sock, tasks, dials>>

ASSUME NoHost == None \notin Hosts /\ None \notin [host : Hosts, port : Hosts]

Address == [host : Hosts, port : Hosts]
Task == [gen : Nat, at : {"new", "net", "dns", "connect"},
         host : Hosts \cup {None}, port : Hosts \cup {None}]

Init ==
    /\ wanted = None /\ told = "nothing"
    /\ gen = 0 /\ openHost = None /\ waiting = None
    /\ abandon = FALSE /\ taskBusy = FALSE
    /\ openDone = FALSE /\ openResult = FALSE
    /\ sock = None /\ tasks = {} /\ dials = 0

TypeOK ==
    /\ wanted \in Hosts \cup {None}
    /\ told \in {"nothing", "connected", "failed"}
    /\ gen \in Nat
    /\ openHost \in Hosts \cup {None} /\ waiting \in Hosts \cup {None}
    /\ abandon \in BOOLEAN /\ taskBusy \in BOOLEAN
    /\ openDone \in BOOLEAN /\ openResult \in BOOLEAN
    /\ sock \in Address \cup {None}
    /\ tasks \subseteq Task
    /\ dials \in Nat

-----------------------------------------------------------------------------
(* The interpreter.                                                        *)

\* Bug: the outcome of the last dial is kept.
StartTaskKeepsDone(g) ==
    /\ abandon' = FALSE /\ UNCHANGED <<openDone, openResult>>
    /\ gen' = g
    /\ tasks' = tasks \cup
         {[gen |-> g, at |-> "new", host |-> None, port |-> None]}

\* start_open_task, for generation g
StartTask(g) ==
    /\ openDone' = FALSE /\ openResult' = FALSE /\ abandon' = FALSE
    /\ gen' = g
    /\ tasks' = tasks \cup
         {[gen |-> g, at |-> "new", host |-> None, port |-> None]}

\* mmb_net_tcp_begin: a task that runs is left to end first.
Begin(h) ==
    /\ dials < MaxDials
    /\ dials' = dials + 1
    /\ wanted' = h /\ told' = "nothing"
    /\ sock' = None
    /\ openHost' = h
    /\ IF taskBusy
       THEN /\ waiting' = h
            /\ abandon' = TRUE /\ gen' = gen + 1
            /\ UNCHANGED <<openDone, openResult, tasks>>
       ELSE /\ waiting' = None
            /\ StartTask(gen + 2)
    /\ UNCHANGED taskBusy

\* mmb_net_tcp_close, of a dial or a connection
Close ==
    /\ wanted # None
    /\ wanted' = None /\ told' = "nothing"
    /\ abandon' = TRUE /\ waiting' = None
    /\ gen' = gen + 1
    /\ sock' = None
    /\ UNCHANGED <<openHost, taskBusy, openDone, openResult, tasks, dials>>

Said(what) ==
    /\ told' = what
    /\ UNCHANGED <<gen, openHost, waiting, abandon, openDone, openResult,
                   tasks>>

\* mmb_net_tcp_status, polled by who dialled until he hangs up
Status ==
    /\ wanted # None
    /\ IF sock # None THEN Said("connected")
       ELSE IF waiting # None /\ ~taskBusy
       THEN /\ openHost' = waiting /\ waiting' = None
            /\ StartTask(gen + 1)
            /\ UNCHANGED told
       ELSE IF waiting # None THEN Said(told)
       ELSE IF abandon /\ ~taskBusy /\ ~openDone THEN Said("failed")
       ELSE IF openDone THEN Said(IF openResult THEN "connected" ELSE "failed")
       ELSE Said(told)
    /\ UNCHANGED <<wanted, taskBusy, sock, dials>>

-----------------------------------------------------------------------------
(* The task: CTcpOpenTask and tcp_connect_once.                            *)

Goes(t, next) ==
    /\ tasks' = (tasks \ {t}) \cup {next}
    /\ UNCHANGED <<openDone, openResult, sock>>

\* Bug: only a task that is told to give up is stale.
EndsUnlessAbandoned(t, ok) ==
    /\ tasks' = tasks \ {t}
    /\ taskBusy' = FALSE
    /\ IF abandon
       THEN UNCHANGED <<openDone, openResult, sock>>
       ELSE /\ sock' = IF ok THEN [host |-> t.host, port |-> t.port] ELSE sock
            /\ openResult' = ok
            /\ openDone' = TRUE

\* Bug: a stale task keeps s_task_busy.
EndsBusy(t, ok) ==
    /\ tasks' = tasks \ {t}
    /\ IF t.gen # gen \/ abandon
       THEN UNCHANGED <<taskBusy, openDone, openResult, sock>>
       ELSE /\ sock' = IF ok THEN [host |-> t.host, port |-> t.port] ELSE sock
            /\ openResult' = ok
            /\ openDone' = TRUE
            /\ taskBusy' = FALSE

\* The end of Run: what a stale task has reached is dropped.
Ends(t, ok) ==
    /\ tasks' = tasks \ {t}
    /\ taskBusy' = FALSE
    /\ IF t.gen # gen \/ abandon
       THEN UNCHANGED <<openDone, openResult, sock>>
       ELSE /\ sock' = IF ok THEN [host |-> t.host, port |-> t.port] ELSE sock
            /\ openResult' = ok
            /\ openDone' = TRUE

Runs(t) ==
    /\ t.at = "new"
    /\ taskBusy' = TRUE
    /\ Goes(t, [t EXCEPT !.at = "net"])

\* wait_net has an answer; the DNS is asked for s_open_host.
NetUp(t) ==
    /\ t.at = "net"
    /\ \/ Ends(t, FALSE)
       \/ /\ ~abandon /\ UNCHANGED taskBusy
          /\ Goes(t, [t EXCEPT !.at = "dns", !.host = openHost])

\* The DNS has one; s_open_port is read for the connection.
Resolved(t) ==
    /\ t.at = "dns"
    /\ \/ Ends(t, FALSE)
       \/ /\ ~abandon /\ UNCHANGED taskBusy
          /\ Goes(t, [t EXCEPT !.at = "connect", !.port = openHost])

Connected(t) ==
    /\ t.at = "connect"
    /\ \E ok \in BOOLEAN : Ends(t, ok)

TaskStep == \E t \in tasks :
    /\ Runs(t) \/ NetUp(t) \/ Resolved(t) \/ Connected(t)
    /\ UNCHANGED <<wanted, told, gen, openHost, waiting, abandon, dials>>

Next ==
    \/ \E h \in Hosts : Begin(h)
    \/ Close \/ Status
    \/ TaskStep

\* TERM polls while it is connecting (cmd_term.c:8487); every wait of a task
\* has a limit of its own.
Fairness == WF_dialVars(Status) /\ WF_dialVars(TaskStep)

Spec == Init /\ [][Next]_dialVars /\ Fairness

-----------------------------------------------------------------------------
(* Properties.                                                             *)

\* The socket leads where it was last asked to, and to nowhere after hanging
\* up: a task that was abandoned never sets it, however late it ends and
\* whatever was dialled since (CTcpOpenTask::Run).
SocketAsked == sock # None => sock = [host |-> wanted, port |-> wanted]

\* What a poll says of a dial stays so until the next dial or hanging up: none
\* is reported failed that connects later, none connected without a socket
\* (mmb_net_tcp_status).
ToldForGood ==
    /\ told = "connected" => sock # None
    /\ told = "failed" => sock = None /\ \A t \in tasks : t.gen # gen

\* A dial that is polled is told to have connected or failed, unless it is
\* given up (mmb_net_tcp_status).
DialEnds == (wanted # None) ~> (wanted = None \/ told # "nothing")
=============================================================================
