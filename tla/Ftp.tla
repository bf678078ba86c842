-------------------------------- MODULE Ftp --------------------------------
(***************************************************************************)
(* The FTP server of FILES (cmd_ftp.c): one server for the machine, owned  *)
(* by the console that started it, one control and one data connection at  *)
(* a time, polled from mmb_poll; and a client, which sends commands, data  *)
(* and resets as it likes.  Files move in chunks over a data connection    *)
(* that holds a few of them.                                               *)
(*                                                                         *)
(* Abstracted: paths (one file and one directory stand for all), the names *)
(* of commands that only reply, the text of replies.  Nobody else touches  *)
(* the file; it is on a drive that cannot fail to close a file (A:).  The  *)
(* reply buffer is not filled.                                             *)
(***************************************************************************)
EXTENDS Naturals, Sequences

CONSTANTS
    Starters,       \* consoles whose FILES screen starts and stops it
    None,           \* no console
    Chunks,         \* chunks in the largest file
    Window          \* chunks in a data connection

VARIABLES
    \* the server
    owner,          \* FT.owner; the server runs while it is a console
    ctl,            \* FT.ctl >= 0
    logged,         \* FT.logged
    listener,       \* FT.data_lsn >= 0
    data,           \* FT.data >= 0
    xfer,           \* FT.xfer
    off, size,      \* FT.xoff, FT.xsize
    writer,         \* FT.writer >= 0: one of the 2 streams of the file system
    file,           \* chunks in the file
    \* the client and the network
    polite,         \* the client waits for a reply before it goes on
    link,           \* its control connection
    inbox,          \* commands not read by the server
    replies,        \* replies not read by the client
    asked,          \* commands without a final reply
    cdata,          \* its data connection
    wire,           \* chunks in it
    moved,          \* chunks the client has put into it or taken out
    verdict         \* what the last command, if alone, was told to be

ftpServer == <<owner, ctl, logged, listener, data, xfer, off, size, writer, file>>
ftpClient == <<polite, link, inbox, replies, asked, cdata, wire, moved, verdict>>
ftpVars == <<ftpServer, ftpClient>>

Verbs == {"PASS", "PASV", "RETR", "STOR", "QUIT", "NOOP"}

Init ==
    /\ owner = None /\ ctl = FALSE /\ logged = FALSE
    /\ listener = FALSE /\ data = FALSE
    /\ xfer = "none" /\ off = 0 /\ size = 0 /\ writer = FALSE
    /\ file = 1
    /\ polite \in BOOLEAN
    /\ link = "none" /\ inbox = <<>> /\ replies = <<>> /\ asked = 0
    /\ cdata = "none" /\ wire = 0 /\ moved = 0 /\ verdict = "none"

TypeOK ==
    /\ owner \in Starters \cup {None}
    /\ ctl \in BOOLEAN /\ logged \in BOOLEAN
    /\ listener \in BOOLEAN /\ data \in BOOLEAN
    /\ xfer \in {"none", "RETR", "STOR"}
    /\ off \in 0 .. Chunks /\ size \in 0 .. Chunks /\ file \in 0 .. Chunks
    /\ writer \in BOOLEAN /\ polite \in BOOLEAN
    /\ link \in {"none", "waiting", "up", "closed", "hung"}
    /\ inbox \in Seq(Verbs)
    /\ replies \in Seq({"mark", "final", "stored", "fetched"})
    /\ asked \in 0 .. 2
    /\ cdata \in {"none", "open", "fin", "reset"}
    /\ wire \in 0 .. Window /\ moved \in 0 .. Chunks
    /\ verdict \in {"none", "void", "stored", "fetched"}

Put(r) == replies' = IF link = "up" THEN Append(replies, r) ELSE replies

\* ftp_close_data.  What was sent on it the client still reads.
CloseData ==
    /\ data' = FALSE /\ listener' = FALSE
    /\ cdata' = "none"
    /\ wire' = IF xfer = "STOR" THEN 0 ELSE wire

\* ftp_xfer_clear
XferClear == xfer' = "none" /\ off' = 0 /\ size' = 0 /\ writer' = FALSE

-----------------------------------------------------------------------------
(* Starting and stopping.                                                  *)

\* mmb_ftp_start: another console is told BUSY.
Start(c) ==
    /\ owner = None
    /\ owner' = c
    /\ UNCHANGED <<ctl, logged, listener, data, xfer, off, size, writer, file,
                   ftpClient>>

\* The server's end of the control connection goes.
HangUp ==
    /\ ctl' = FALSE /\ logged' = FALSE
    /\ link' = IF link \in {"none", "closed"} THEN "none" ELSE "hung"
    /\ inbox' = <<>>

\* Bug: the server stops in the middle of a transfer and keeps its stream.
StopKeepsStream(c) ==
    /\ owner = c
    /\ owner' = None
    /\ CloseData /\ HangUp
    /\ UNCHANGED <<xfer, off, size, writer>>
    /\ UNCHANGED <<file, polite, replies, asked, moved, verdict>>

\* mmb_ftp_stop_owned, when the FILES screen of the owner is left.
Stop(c) ==
    /\ owner = c
    /\ owner' = None
    /\ XferClear /\ CloseData /\ HangUp
    /\ UNCHANGED <<file, polite, replies, asked, moved, verdict>>

\* ftp_ctl_drop
Dropped ==
    /\ HangUp /\ CloseData /\ XferClear
    /\ UNCHANGED <<owner, file, polite, asked, moved, verdict>>

-----------------------------------------------------------------------------
(* mmb_ftp_poll.                                                           *)

Accept ==
    /\ ~ctl /\ link = "waiting"
    /\ ctl' = TRUE /\ logged' = FALSE
    /\ link' = "up"
    /\ replies' = <<>>          \* the greeting answers no command
    /\ UNCHANGED <<owner, listener, data, xfer, off, size, writer, file, polite,
                   inbox, asked, cdata, wire, moved, verdict>>

\* ftp_xfer_finish: the reply is sent whatever closing the file gives.
Finish ==
    /\ CloseData /\ XferClear
    /\ Put(IF xfer = "STOR" THEN "stored" ELSE "fetched")
    /\ UNCHANGED <<owner, ctl, logged, file, polite, link, inbox, asked, moved,
                   verdict>>

\* ftp_xfer_fail, ftp_stor_fail
Fail ==
    /\ CloseData /\ XferClear
    /\ Put("final")
    /\ UNCHANGED <<owner, ctl, logged, file, polite, link, inbox, asked, moved,
                   verdict>>

AcceptData ==
    /\ ~data /\ cdata # "none"
    /\ data' = TRUE /\ listener' = FALSE
    /\ UNCHANGED <<owner, ctl, logged, xfer, off, size, writer, file, ftpClient>>

\* 10 s without a data connection.
NoDataConnection == ~data /\ cdata = "none" /\ Fail

SendChunk ==
    /\ off < size /\ wire < Window /\ cdata = "open"
    /\ off' = off + 1
    /\ wire' = wire + 1
    /\ UNCHANGED <<owner, ctl, logged, listener, data, xfer, size, writer, file,
                   polite, link, inbox, replies, asked, cdata, moved, verdict>>

\* A peer that neither reads nor closes is waited for without a limit.
RetrPoll ==
    /\ xfer = "RETR" /\ data
    /\ \/ SendChunk
       \/ off = size /\ Finish
       \/ off < size /\ cdata # "open" /\ Fail

\* Bug: any end of the connection completes the upload.
StorEndsAny == wire = 0 /\ cdata # "open" /\ Finish

StorEnds ==
    \/ wire = 0 /\ cdata = "fin" /\ Finish
    \/ cdata = "reset" /\ Fail

StoreChunk ==
    /\ wire > 0 /\ cdata # "reset"
    /\ wire' = wire - 1
    /\ off' = off + 1
    /\ file' = file + 1
    /\ UNCHANGED <<owner, ctl, logged, listener, data, xfer, size, writer,
                   polite, link, inbox, replies, asked, cdata, moved, verdict>>

DiskFull == wire > 0 /\ cdata # "reset" /\ Fail

StorPoll == xfer = "STOR" /\ data /\ (StoreChunk \/ DiskFull \/ StorEnds)

\* Bug: an upload whose peer is silent is waited for.
NotIdle == FALSE

\* 30 s without data in an upload.
StorIdle == xfer = "STOR" /\ data /\ wire = 0 /\ cdata = "open" /\ Fail

XferPoll ==
    /\ xfer # "none"
    /\ AcceptData \/ NoDataConnection \/ RetrPoll \/ StorPoll \/ StorIdle

\* ftp_command for a verb that changes only what is said here.
Answer(changed) ==
    /\ Put("final")
    /\ UNCHANGED <<changed, owner, ctl, data, xfer, off, size, writer, file,
                   polite, link, asked, moved, verdict>>

\* ftp_cmd_retr, ftp_start_list; ftp_cmd_stor opens the file, which empties it,
\* before it looks for a data connection, and closes it again without one.
Transfer(verb) ==
    /\ file' = IF verb = "STOR" THEN 0 ELSE file
    /\ \/ /\ listener
          /\ xfer' = verb
          /\ off' = 0
          /\ size' = IF verb = "STOR" THEN 0 ELSE file
          /\ writer' = (verb = "STOR")
          /\ Put("mark")
       \/ /\ ~listener
          /\ XferClear
          /\ Put("final")
    /\ UNCHANGED <<owner, ctl, logged, listener, data, polite, link, asked,
                   cdata, wire, moved, verdict>>

Refused == Answer(<<logged, listener, cdata, wire>>)

Command(verb) ==
    \/ /\ verb = "PASS" /\ logged' = TRUE
       /\ Answer(<<listener, cdata, wire>>)
    \/ verb = "NOOP" /\ Refused
    \/ verb \in {"PASV", "RETR", "STOR"} /\ ~logged /\ Refused
    \/ /\ verb = "PASV" /\ logged
       /\ listener' = TRUE /\ cdata' = "none" /\ wire' = 0
       /\ Answer(<<logged>>)
    \/ verb \in {"RETR", "STOR"} /\ logged /\ Transfer(verb)
    \/ verb \in {"RETR", "STOR"} /\ logged /\ Refused      \* no such file
    \/ verb = "QUIT" /\ Put("final") /\ Dropped

\* ftp_ctl_read.  What came in the same piece as a command that starts a
\* transfer is thrown away with it.
CtlRead ==
    /\ xfer = "none"
    /\ \/ /\ inbox # <<>>
          /\ Command(Head(inbox))
          /\ IF ctl' = FALSE THEN inbox' = <<>>
             ELSE IF xfer' = "none" THEN inbox' = Tail(inbox)
             ELSE \E n \in 1 .. Len(inbox) :
                     inbox' = SubSeq(inbox, n + 1, Len(inbox))
       \/ /\ inbox = <<>> /\ link = "closed"
          /\ Dropped
          /\ UNCHANGED replies

Poll == owner # None /\ (Accept \/ (ctl /\ (XferPoll \/ CtlRead)))

-----------------------------------------------------------------------------
(* The client.                                                             *)

Connect ==
    /\ link = "none" /\ owner # None
    /\ link' = "waiting"
    /\ wire' = 0
    /\ UNCHANGED <<ftpServer, polite, inbox, replies, asked, cdata, moved, verdict>>

Ask(verb) ==
    /\ link = "up"
    /\ asked < (IF polite THEN 1 ELSE 2)
    /\ inbox' = Append(inbox, verb)
    /\ asked' = asked + 1
    /\ verdict' = "none"
    /\ UNCHANGED <<ftpServer, polite, link, replies, cdata, wire, moved>>

Dial ==
    /\ link = "up" /\ listener /\ cdata = "none"
    /\ cdata' = "open" /\ wire' = 0 /\ moved' = 0
    /\ UNCHANGED <<ftpServer, polite, link, inbox, replies, asked, verdict>>

\* Data goes up once the upload was announced, and down as long as it lasts.
Upload ==
    /\ xfer = "STOR" /\ cdata = "open" /\ moved < Chunks /\ wire < Window
    /\ moved' = moved + 1 /\ wire' = wire + 1
    /\ UNCHANGED <<ftpServer, polite, link, inbox, replies, asked, cdata, verdict>>

Download ==
    /\ xfer # "STOR" /\ wire > 0 /\ moved < Chunks
    /\ moved' = moved + 1 /\ wire' = wire - 1
    /\ UNCHANGED <<ftpServer, polite, link, inbox, replies, asked, cdata, verdict>>

\* A client that resets a download knows that it does not have all of it.
EndData ==
    /\ cdata = "open"
    /\ \/ cdata' = "fin" /\ xfer = "STOR" /\ UNCHANGED <<wire, verdict>>
       \/ /\ cdata' = "reset" /\ wire' = 0
          /\ verdict' = IF xfer = "RETR" THEN "void" ELSE verdict
    /\ UNCHANGED <<ftpServer, polite, link, inbox, replies, asked, moved>>

ReadReply ==
    /\ replies # <<>>
    /\ replies' = Tail(replies)
    /\ \/ Head(replies) = "mark" /\ UNCHANGED <<asked, verdict>>
       \/ /\ Head(replies) # "mark"
          /\ asked' = asked - 1
          /\ verdict' = IF asked = 1 /\ Head(replies) # "final" /\ verdict # "void"
                        THEN Head(replies) ELSE verdict
    /\ UNCHANGED <<ftpServer, polite, link, inbox, cdata, wire, moved>>

\* The client closes its connections, or finds that the server did.
Leave ==
    /\ \/ link = "up" /\ link' = "closed" /\ UNCHANGED <<wire>>
          /\ cdata' = IF cdata = "none" THEN "none" ELSE "reset"
       \/ link = "hung" /\ replies = <<>> /\ link' = "none"
          /\ UNCHANGED <<cdata, wire>>
    /\ replies' = <<>> /\ asked' = 0 /\ verdict' = "none"
    /\ UNCHANGED <<ftpServer, polite, inbox, moved>>

Client ==
    \/ Connect \/ Dial \/ Upload \/ Download \/ EndData \/ ReadReply \/ Leave
    \/ \E v \in Verbs : Ask(v)

Next == (\E c \in Starters : Start(c) \/ Stop(c)) \/ Poll \/ Client

\* mmb_poll runs for ever and the clock with it; replies, and what is sent for
\* a download, are read.
Fairness == /\ WF_ftpVars(Poll) /\ WF_ftpVars(ReadReply) /\ WF_ftpVars(Download)
            /\ WF_ftpVars(link = "hung" /\ Leave)

Spec == Init /\ [][Next]_ftpVars /\ Fairness

-----------------------------------------------------------------------------
(* Properties.                                                             *)

\* Between polls the server holds exactly what its session needs: a writer
\* (there are 2 for the whole machine) for an upload only, data sockets and
\* transfers for a connected client only, however it left or was stopped.
HandlesHeld ==
    /\ writer <=> xfer = "STOR"
    /\ listener \/ data \/ xfer # "none" => ctl
    /\ ctl => owner # None
    /\ ~(listener /\ data)

\* A client that is told its transfer is complete has all of it: the chunks
\* it sent are in the file, or the file is what it has been sent.  "The client
\* must see a 4xx/5xx reply, never the 226 that used to be sent for a dropped
\* connection" (cmd_ftp.c:360).
CompleteMeansWhole ==
    /\ verdict = "stored" => file = moved
    /\ verdict = "fetched" => moved + wire = file

\* A client that waits for its replies gets one for each command, or loses its
\* connection: whatever happens to the data connection ends the transfer, and
\* a client that stops in the middle of an upload is given up.
Answered == (polite /\ asked > 0) ~> (asked = 0)
=============================================================================
