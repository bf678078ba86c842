---------------------------- MODULE TermSessions ----------------------------
(***************************************************************************)
(* The one TCP socket of the machine and its users on several consoles:    *)
(* TERM (cmd_term.c), CONNECT (cmd_connect.c) and OPEN "TCP:..." AS #n     *)
(* (cmd_files.c), the console that owns the socket (cmd_files.c:747), the  *)
(* receive ring all TERMs share, and the callbacks that drain a session    *)
(* whose console is not shown (yield.c).  A byte is represented by the     *)
(* console whose connection it arrived on.                                 *)
(***************************************************************************)
EXTENDS Naturals, Sequences, FiniteSets, Functions

CONSTANTS
    Consoles, First,    \* the consoles, and the one shown after a reset
    Nobody,             \* no console
    MaxArrived          \* bytes waiting in the socket

VARIABLES
    front,      \* the console shown: g_console outside of a callback
    term,       \* console -> what its TERM is doing
    connect,    \* console -> C.active of CONNECT
    tcpfile,    \* console -> a TCP file is open in its file table
    owner,      \* s_tcp_owner
    sock,       \* the socket: its state, and the console that dialled
    arrived,    \* bytes received that nobody has read from the socket
    rxring,     \* term_rx: bytes drained and not yet interpreted
    strays,     \* consoles shown a byte of another console's connection
    drains,     \* yield registrations: <<"term" or "connect", console>>
    uses        \* the commands the users of this behaviour type

termVars == <<front, term, connect, tcpfile, owner, sock, arrived, rxring, strays,
          drains, uses>>

Idle == [state |-> "idle", by |-> Nobody]

Init ==
    /\ front = First
    /\ term = [c \in Consoles |-> "off"]
    /\ connect = [c \in Consoles |-> FALSE]
    /\ tcpfile = [c \in Consoles |-> FALSE]
    /\ owner = Nobody
    /\ sock = Idle
    /\ arrived = 0
    /\ rxring = <<>>
    /\ strays = {}
    /\ drains = {}
    /\ uses \in {{"connect", "file"}, {"term", "file"}, {"term", "connect"}}

TypeOK ==
    /\ front \in Consoles
    /\ term \in [Consoles ->
         {"off", "idle", "canned", "connecting", "tcp", "lost"}]
    /\ connect \in [Consoles -> BOOLEAN]
    /\ tcpfile \in [Consoles -> BOOLEAN]
    /\ owner \in Consoles \cup {Nobody}
    /\ sock \in [state : {"idle", "connecting", "connected", "closed",
                          "failed"},
                 by : Consoles \cup {Nobody}]
    /\ arrived \in 0 .. MaxArrived
    /\ rxring \in Seq(Consoles)
    /\ strays \subseteq Consoles
    /\ drains \subseteq {"term", "connect"} \X Consoles
    /\ uses \subseteq {"connect", "file", "term"}

\* Bug: CONNECT does not ask who owns the socket.
FreeAlways(c) == TRUE

Free(c) == owner \in {Nobody, c}

\* mmb_net_tcp_close and mmb_tcp_release, which always go together.
Hangup ==
    /\ sock' = Idle
    /\ arrived' = 0
    /\ owner' = Nobody

\* mmb_net_tcp_begin and, when it succeeds, mmb_tcp_claim.
Dialled(c) ==
    /\ \E s \in {"connecting", "connected"} : sock' = [state |-> s, by |-> c]
    /\ arrived' = 0
    /\ owner' = c
DialFails ==
    /\ sock' = [state |-> "failed", by |-> Nobody]
    /\ arrived' = 0

Shown(c, tags) == strays' = IF tags \subseteq {c} THEN strays ELSE strays \cup {c}

\* Bug: the background drain is not registered.
RegisteredNot(app, c) == drains

Registered(app, c) == {d \in drains : d[1] # app} \cup {<<app, c>>}
Unregistered(app) == {d \in drains : d[1] # app}

-----------------------------------------------------------------------------
(* TERM.                                                                   *)

\* The statement resets the session and the shared ring first, and only then
\* asks who owns the socket: ?IN USE, or ?FILE with a TCP file of its own.
TermRefused(c) ==
    /\ ~Free(c) \/ tcpfile[c]
    /\ term' = [term EXCEPT ![c] = "off"]
    /\ rxring' = <<>>
    /\ UNCHANGED <<front, connect, tcpfile, owner, sock, arrived, strays,
                   drains, uses>>

TermStarted(c, state) ==
    /\ term' = [term EXCEPT ![c] = state]
    /\ rxring' = <<>>
    /\ drains' = Registered("term", c)
    /\ UNCHANGED <<front, connect, tcpfile, strays, uses>>

\* Demo, replay and file sessions have no socket and are never refused.
TermCanned(c) ==
    /\ TermStarted(c, "canned")
    /\ UNCHANGED <<owner, sock, arrived>>

\* TERM alone shows the bookmarks.
TermIdle(c) ==
    /\ Free(c) /\ ~tcpfile[c]
    /\ TermStarted(c, "idle")
    /\ UNCHANGED <<owner, sock, arrived>>

TermHost(c) ==
    /\ Free(c) /\ ~tcpfile[c]
    /\ \/ TermStarted(c, "connecting") /\ Dialled(c)
       \/ TermStarted(c, "idle") /\ DialFails /\ UNCHANGED owner

StartTerm(c) ==
    /\ "term" \in uses
    /\ TermRefused(c) \/ TermCanned(c) \/ TermIdle(c) \/ TermHost(c)

\* A bookmark chosen in the menu of a running TERM.
Bookmark(c) ==
    /\ term[c] # "off"
    /\ \/ /\ Free(c) /\ ~tcpfile[c]           \* a host
          /\ \/ Dialled(c) /\ term' = [term EXCEPT ![c] = "connecting"]
             \/ /\ DialFails /\ owner' = Nobody
                /\ term' = [term EXCEPT ![c] = "idle"]
       \/ /\ Free(c) /\ tcpfile[c]            \* hung up first, then refused
          /\ Hangup
          /\ term' = [term EXCEPT ![c] = "idle"]
       \/ /\ IF owner = c THEN Hangup          \* demo or replay
                          ELSE UNCHANGED <<owner, sock, arrived>>
          /\ term' = [term EXCEPT ![c] = "canned"]
    /\ UNCHANGED <<front, connect, tcpfile, rxring, strays, drains, uses>>

LeaveTerm(c) ==
    /\ term[c] # "off"
    /\ Hangup
    /\ term' = [term EXCEPT ![c] = "off"]
    /\ rxring' = <<>>
    /\ drains' = Unregistered("term")
    /\ UNCHANGED <<front, connect, tcpfile, strays, uses>>

\* term_rx_interpret stops before the last byte when it may begin a telnet
\* command of which the rest has not come.
Interpreted(c, bytes) ==
    \E n \in 0 .. Len(bytes) :
        /\ Len(bytes) - n <= 1
        /\ rxring' = SubSeq(bytes, n + 1, Len(bytes))
        /\ Shown(c, Range(SubSeq(bytes, 1, n)))

TermConnecting(c) ==
    /\ term[c] = "connecting"
    /\ \/ /\ sock.state = "connected"
          /\ term' = [term EXCEPT ![c] = "tcp"]
          /\ UNCHANGED <<owner, sock, arrived>>
       \/ /\ sock.state # "connected"          \* failed, or the time is up
          /\ term' = [term EXCEPT ![c] = "idle"]
          /\ Hangup
    /\ UNCHANGED <<rxring, strays>>

TermIngest(c) ==
    /\ term[c] = "tcp"
    /\ \/ /\ sock.state = "closed" /\ arrived = 0
          /\ term' = [term EXCEPT ![c] = "lost"]
          /\ Hangup
          /\ UNCHANGED <<rxring, strays>>
       \/ /\ sock.state # "closed" \/ arrived > 0
          /\ Interpreted(c, rxring \o [i \in 1 .. arrived |-> sock.by])
          /\ arrived' = 0
          /\ UNCHANGED <<term, owner, sock>>

TermReport(c) ==
    /\ term[c] = "lost"
    /\ term' = [term EXCEPT ![c] = "idle"]
    /\ Interpreted(c, rxring)
    /\ UNCHANGED <<owner, sock, arrived>>

TermPoll(c) ==
    /\ TermConnecting(c) \/ TermIngest(c) \/ TermReport(c)
    /\ UNCHANGED <<front, connect, tcpfile, drains, uses>>

\* mmb_poll for the console shown, term_bg_yield for the others.
ServeTerm(c) ==
    /\ front = c \/ (<<"term", c>> \in drains /\ owner = c)
    /\ TermPoll(c)

-----------------------------------------------------------------------------
(* CONNECT.                                                                *)

StartConnect(c) ==
    /\ "connect" \in uses
    /\ Free(c) /\ ~tcpfile[c]
    /\ \/ /\ sock' = [state |-> "connected", by |-> c]
          /\ arrived' = 0
          /\ owner' = c
          /\ connect' = [connect EXCEPT ![c] = TRUE]
          /\ drains' = Registered("connect", c)
       \/ DialFails /\ UNCHANGED <<owner, connect, drains>>
    /\ UNCHANGED <<front, term, tcpfile, rxring, strays, uses>>

\* session_close
LeaveConnect(c) ==
    /\ connect[c]
    /\ Hangup
    /\ connect' = [connect EXCEPT ![c] = FALSE]
    /\ drains' = Unregistered("connect")
    /\ UNCHANGED <<front, term, tcpfile, rxring, strays, uses>>

Received(c) ==
    /\ arrived > 0
    /\ arrived' = 0
    /\ Shown(c, {sock.by})
    /\ UNCHANGED <<front, term, connect, tcpfile, owner, sock, rxring, drains,
                   uses>>

ConnectPoll(c) ==
    /\ connect[c]
    /\ Received(c) \/ (sock.state = "closed" /\ arrived = 0 /\ LeaveConnect(c))

\* In the background the end of the connection is left for the foreground.
ConnectBgYield(c) ==
    /\ <<"connect", c>> \in drains /\ connect[c] /\ owner = c
    /\ Received(c)

ServeConnect(c) ==
    \/ front = c /\ ConnectPoll(c)
    \/ front # c /\ ConnectBgYield(c)

-----------------------------------------------------------------------------
(* OPEN "TCP:host:port" AS #n, INPUT #n, CLOSE #n and NEW.                 *)

OpenTcp(c) ==
    /\ "file" \in uses
    /\ ~connect[c] /\ term[c] = "off"
    /\ Free(c)
    /\ \/ Dialled(c) /\ tcpfile' = [tcpfile EXCEPT ![c] = TRUE]
       \/ /\ DialFails
          /\ owner' = IF tcpfile[c] THEN Nobody ELSE owner
          /\ tcpfile' = [tcpfile EXCEPT ![c] = FALSE]
    /\ UNCHANGED <<front, term, connect, rxring, strays, drains, uses>>

ReadTcp(c) == tcpfile[c] /\ Received(c)

\* Bug: NEW releases the owner, whether or not the file was open here (#801).
CloseTcpUnowned(c) ==
    /\ owner' = Nobody
    /\ IF tcpfile[c] THEN sock' = Idle /\ arrived' = 0
                     ELSE UNCHANGED <<sock, arrived>>
    /\ tcpfile' = [tcpfile EXCEPT ![c] = FALSE]
    /\ UNCHANGED <<front, term, connect, rxring, strays, drains, uses>>

\* mmb_file_close_n; NEW and REBOOT close the files of their console only.
CloseTcp(c) ==
    /\ tcpfile[c]
    /\ Hangup
    /\ tcpfile' = [tcpfile EXCEPT ![c] = FALSE]
    /\ UNCHANGED <<front, term, connect, rxring, strays, drains, uses>>

-----------------------------------------------------------------------------
(* The peer, the user's console chords, and Ctrl+Alt+Del.                  *)

Peer ==
    /\ \/ /\ sock.state = "connecting"
          /\ \E s \in {"connected", "failed"} :
                sock' = [sock EXCEPT !.state = s]
          /\ UNCHANGED arrived
       \/ /\ sock.state = "connected"
          /\ arrived < MaxArrived
          /\ arrived' = arrived + 1
          /\ UNCHANGED sock
       \/ /\ sock.state = "connected"
          /\ sock' = [sock EXCEPT !.state = "closed"]
          /\ UNCHANGED arrived
    /\ UNCHANGED <<front, term, connect, tcpfile, owner, rxring, strays, drains,
                   uses>>

SwitchTo(c) ==
    /\ front # c
    /\ front' = c
    /\ UNCHANGED <<term, connect, tcpfile, owner, sock, arrived, rxring, strays,
                   drains, uses>>

\* Every TCP file, TERM and CONNECT is closed, wherever it is open, before the
\* contexts are freed; TERM resets the ring on its way out.
WarmReset ==
    /\ Hangup
    /\ front' = First
    /\ term' = [c \in Consoles |-> "off"]
    /\ connect' = [c \in Consoles |-> FALSE]
    /\ tcpfile' = [c \in Consoles |-> FALSE]
    /\ rxring' = IF \E c \in Consoles : term[c] # "off" THEN <<>> ELSE rxring
    /\ strays' = {}
    /\ drains' = {}
    /\ UNCHANGED uses

\* A command is typed at, or run by, the console shown.
Command(c) ==
    /\ front = c
    /\ \/ StartTerm(c) \/ Bookmark(c) \/ LeaveTerm(c)
       \/ StartConnect(c) \/ LeaveConnect(c)
       \/ OpenTcp(c) \/ ReadTcp(c) \/ CloseTcp(c)

Next ==
    \/ \E c \in Consoles :
          Command(c) \/ ServeTerm(c) \/ ServeConnect(c) \/ SwitchTo(c)
    \/ Peer
    \/ WarmReset

\* mmb_poll runs for ever: the console shown is polled, the callbacks of the
\* others are run.
Fairness == \A c \in Consoles :
    WF_termVars(ServeTerm(c)) /\ WF_termVars(ServeConnect(c))

Spec == Init /\ [][Next]_termVars /\ Fairness

-----------------------------------------------------------------------------
(* Properties.                                                             *)

\* A connection that is up, or being made, belongs to the console that dialled
\* it: no start, failure, NEW or reset of another console leaves it without an
\* owner, or with another one (cmd_files.c:742 and :793).
SocketOwned ==
    sock.state \in {"connecting", "connected"} => owner = sock.by

\* Where nobody uses TERM, a console is shown only bytes of its own
\* connection: no CONNECT or file outlives its connection so as to read from
\* the next one.
OwnBytes ==
    "term" \notin uses => strays = {}

\* Where nobody uses TERM, what arrives for a CONNECT is read, whether its
\* console is shown or not: the peer is never stalled by a chord (yield.h:23).
ConnectDrained ==
    \A c \in Consoles :
        ("term" \notin uses /\ connect[c] /\ arrived > 0) ~> (arrived = 0)

\* What cmd_files.c:742 promises of the ownership: "Without it a second console
\* would reset the connection out from under the first".  A connection that is
\* up keeps its owner through whatever is done on the other consoles, a warm
\* reset excepted.
OthersKeepConnection ==
    [][\A c \in Consoles :
          (owner = c /\ sock.state = "connected" /\ front # c /\ ~WarmReset)
              => owner' = c]_termVars
=============================================================================
