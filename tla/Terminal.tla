------------------------------- MODULE Terminal -------------------------------
(***************************************************************************)
(* What the terminal is made of, one part at a time: the receive ring, the *)
(* users of the TCP socket, and the ZMODEM receiver.  Each behaviour takes *)
(* one part from its own Init through its own Next; the others rest.       *)
(* TermSessions keeps the ring as a sequence, which is what NetRxBuf shows *)
(* it to be, and Zmodem begins where TERM has seen a sender's first frame. *)
(***************************************************************************)
EXTENDS NetRxBuf

CONSTANTS
  Consoles, First, Nobody, MaxArrived,                      \* TermSessions
  Files, FileBlocks, MaxRep, Troubles, MaxDamage, MaxStalls, MaxFaults,
  MaxLine                                                   \* Zmodem

ASSUME NobodyAssumption == Nobody \notin Consoles
ASSUME SessionsAssumption == First \in Consoles /\ MaxArrived \in Nat
\* The sender has a file to send, and a file has a block.
ASSUME FilesAssumption ==
  Files \in Nat \ {0} /\ FileBlocks \in Nat \ {0} /\ MaxRep \in Nat

VARIABLES
  part,
  front, term, connect, tcpfile, owner, sock, arrived, rxring, strays, drains, uses,
  zstate, ps, role, synced, filing, content, kept, rep, reps, sender, patience,
  toRx, toTx, trouble, damage, stalls, faults

tcpVars == <<front, term, connect, tcpfile, owner, sock, arrived, rxring, strays,
             drains, uses>>
zmVars == <<zstate, ps, role, synced, filing, content, kept, rep, reps, sender,
            patience, toRx, toTx, trouble, damage, stalls, faults>>
vars == <<part, ringVars, tcpVars, zmVars>>

Tcp == INSTANCE TermSessions
Zm  == INSTANCE Zmodem WITH Blocks <- FileBlocks
-----------------------------------------------------------------------------
\* A part that is not taken rests in one of its initial states.
Resting(p) ==
  /\ p # "ring" => data = [i \in 0..Capacity - 1 |-> Zero]
  /\ p # "tcp" => uses = {"connect", "file"}
  /\ p # "zmodem" => trouble = CHOOSE t \in Troubles : TRUE

TerminalInit ==
  /\ part \in {"ring", "tcp", "zmodem"}
  /\ Init /\ Tcp!Init /\ Zm!Init
  /\ Resting(part)

TerminalNext ==
  \/ part = "ring" /\ Next /\ UNCHANGED <<part, tcpVars, zmVars>>
  \/ part = "tcp" /\ Tcp!Next /\ UNCHANGED <<part, ringVars, zmVars>>
  \/ part = "zmodem" /\ Zm!Next /\ UNCHANGED <<part, ringVars, tcpVars>>

\* The fairness of each part, when it is the one taken.
TcpFairness == \A c \in Consoles :
  /\ WF_tcpVars(part = "tcp" /\ Tcp!ServeTerm(c))
  /\ WF_tcpVars(part = "tcp" /\ Tcp!ServeConnect(c))

ZmFairness ==
  /\ WF_zmVars(part = "zmodem" /\ Zm!Feed)
  /\ WF_zmVars(part = "zmodem" /\ Zm!Tick)
  /\ WF_zmVars(part = "zmodem" /\ Zm!SenderHears)
  /\ WF_zmVars(part = "zmodem" /\ Zm!SenderSends)
  /\ WF_zmVars(part = "zmodem" /\ Zm!SenderRepeats)

TerminalSpec == /\ TerminalInit /\ [][TerminalNext]_vars
                /\ TcpFairness /\ ZmFairness
-----------------------------------------------------------------------------
(* The properties of the parts, under the names they have there.           *)

\* The ring, the sessions and the receiver are well typed.
Typed == TypeOK /\ Tcp!TypeOK /\ Zm!TypeOK

\* A connection belongs to the console that dialled it (cmd_files.c:742).
SocketOwned == Tcp!SocketOwned

\* A console is shown bytes of its own connection only, TERM aside.
OwnBytes == Tcp!OwnBytes

\* What arrives for a CONNECT is read, shown or not (yield.h:23).
ConnectDrained == Tcp!ConnectDrained

\* What ZMODEM keeps is whole, in order and kept once (mmb_zmodem.h:31).
KeptWhole == Zm!KeptWhole

\* A ZMODEM session ends, with every file unless something hindered it.
AllArrive == (part = "zmodem") => Zm!AllArrive
=============================================================================
