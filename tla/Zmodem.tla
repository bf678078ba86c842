------------------------------- MODULE Zmodem -------------------------------
(***************************************************************************)
(* The ZMODEM receiver of TERM (zmodem.c, and the file callbacks of        *)
(* cmd_term.c:6536) against a sender that follows the protocol, over a     *)
(* line that damages what it carries.  A frame on the line is a header or  *)
(* a data subpacket; the bytes inside are not modelled, only whether they  *)
(* check out and whether the end of a subpacket is still found.            *)
(***************************************************************************)
EXTENDS Naturals, Sequences, SequencesExt

CONSTANTS
    Files, Blocks,  \* the sender has files 1..Files of Blocks blocks each
    MaxRep,         \* repeats of the last reply in one session (8)
    Troubles,       \* what may go wrong together: sets of "line", "disk" and
                    \* "ends" (the line loses the end of a subpacket)
    MaxDamage,      \* frames the line damages
    MaxStalls,      \* silences of 5 s while something is still to come
    MaxFaults,      \* files not created and blocks not written
    MaxLine         \* frames on the line

VARIABLES
    zstate,         \* z->state
    ps,             \* z->ps: "hdr", "sub", or "cut" in a subpacket whose end
                    \* was lost
    role,           \* z->role
    synced,         \* a valid header was accepted
    filing,         \* the file open (file_open), 0 when none is
    content,        \* what was written to it; z->got is its length
    kept,           \* the files closed with ok, as contents
    rep, reps,      \* the last reply, and how often it was repeated
    sender,         \* the sender: phase, file, position, and where its data
                    \* frame began
    patience,       \* the receiver has repeated itself since a byte came
    toRx, toTx,     \* the two directions of the line
    trouble,        \* what may go wrong in this session
    damage, stalls, faults  \* and how often it has

zvars == <<zstate, ps, role, synced, filing, content, kept, rep, reps, sender,
           patience, toRx, toTx, trouble, damage, stalls, faults>>

Hdr(type, pos) == [kind |-> "hdr", type |-> type, pos |-> pos]
FileSub(f) == [kind |-> "sub", what |-> "file", file |-> f, block |-> 0,
               end |-> "W"]
DataSub(f, b, e) == [kind |-> "sub", what |-> "data", file |-> f, block |-> b,
                     end |-> e]
EndOfFrame == DataSub(0, 0, "E")       \* no data: the sender breaks off
Whole(f) == [b \in 1 .. Blocks |-> <<f, b>>]

\* zmodem_start: the detector saw the beginning of the sender's ZRQINIT.
Init ==
    /\ zstate = "active" /\ ps = "hdr" /\ role = "none" /\ synced = FALSE
    /\ filing = 0 /\ content = <<>> /\ kept = <<>>
    /\ rep = <<>> /\ reps = 0
    /\ sender = [phase |-> "start", file |-> 1, pos |-> 0, from |-> 0]
    /\ patience = FALSE
    /\ toRx = <<Hdr("ZRQINIT", 0)>> /\ toTx = <<>>
    /\ trouble \in Troubles
    /\ damage = 0 /\ stalls = 0 /\ faults = 0

TypeOK ==
    /\ zstate \in {"active", "done", "failed", "cancelled"}
    /\ ps \in {"hdr", "sub", "cut"}
    /\ role \in {"none", "file", "data"}
    /\ filing \in 0 .. Files
    /\ Len(content) <= Blocks
    /\ Len(kept) <= Files
    /\ Len(rep) <= 1 /\ reps \in 0 .. MaxRep

-----------------------------------------------------------------------------
(* The receiver.                                                           *)

\* Bug: the last reply is not kept for the repeat.
ReplyOnce(hs) == toTx' = toTx \o hs /\ UNCHANGED rep

\* send_hdr keeps the last header for the repeat after a silence.
Reply(hs) ==
    /\ toTx' = toTx \o hs
    /\ rep' = <<Last(hs)>>

Quiet == UNCHANGED <<toTx, rep>>

\* finish: a file still open is closed, and kept only when all is well.
Finish(st) ==
    /\ zstate' = st
    /\ kept' = IF filing # 0 /\ st = "done" THEN Append(kept, content) ELSE kept
    /\ filing' = 0
    /\ content' = <<>>

DiskFails == /\ "disk" \in trouble /\ faults < MaxFaults
             /\ faults' = faults + 1

Going == UNCHANGED <<zstate, filing, content, kept>>
Hunting == ps' = "hdr" /\ role' = "none"

\* accept_header, one action per type of header that the sender below sends: it
\* sends no ZSINIT, no ZRINIT and no type the receiver passes over.
AcceptRqinit == Reply(<<Hdr("ZRINIT", 0)>>) /\ Going /\ ps' = "hdr"
                /\ UNCHANGED role

AcceptFile == Quiet /\ Going /\ ps' = "sub" /\ role' = "file"

AcceptData(pos) ==
    \/ /\ filing = 0
       /\ Quiet /\ Going /\ ps' = "hdr" /\ UNCHANGED role
    \/ /\ filing # 0 /\ Len(content) # pos
       /\ Reply(<<Hdr("ZRPOS", Len(content))>>)
       /\ Going /\ ps' = "hdr" /\ UNCHANGED role
    \/ /\ filing # 0 /\ Len(content) = pos
       /\ Quiet /\ Going /\ ps' = "sub" /\ role' = "data"

\* Bug: ZEOF closes the file without comparing the position.
AcceptEofAny(pos) ==
    /\ Hunting
    /\ UNCHANGED zstate
    /\ IF filing # 0 THEN kept' = Append(kept, content) /\ filing' = 0
                          /\ content' = <<>>
       ELSE UNCHANGED <<filing, content, kept>>
    /\ Reply(<<Hdr("ZRINIT", 0)>>)

AcceptEof(pos) ==
    /\ Hunting
    /\ UNCHANGED zstate
    /\ \/ /\ filing # 0 /\ Len(content) = pos
          /\ kept' = Append(kept, content)
          /\ filing' = 0 /\ content' = <<>>
          /\ Reply(<<Hdr("ZRINIT", 0)>>)
       \/ /\ filing # 0 /\ Len(content) # pos
          /\ Reply(<<Hdr("ZRPOS", Len(content))>>)
          /\ UNCHANGED <<filing, content, kept>>
       \/ /\ filing = 0
          /\ Reply(<<Hdr("ZRINIT", 0)>>)
          /\ UNCHANGED <<filing, content, kept>>

AcceptFin == Finish("done") /\ Reply(<<Hdr("ZFIN", 0)>>)
             /\ ps' = "hdr" /\ UNCHANGED role

AcceptAbort == Finish("failed") /\ Quiet /\ ps' = "hdr" /\ UNCHANGED role

AcceptCancel == Finish("cancelled") /\ Quiet /\ ps' = "hdr" /\ UNCHANGED role

AcceptHeader(h) ==
    /\ synced' = TRUE
    /\ \/ h.type = "ZRQINIT" /\ AcceptRqinit
       \/ h.type = "ZFILE" /\ AcceptFile
       \/ h.type = "ZDATA" /\ AcceptData(h.pos)
       \/ h.type = "ZEOF" /\ AcceptEof(h.pos)
       \/ h.type = "ZFIN" /\ AcceptFin
       \/ h.type \in {"ZABORT", "ZFERR"} /\ AcceptAbort
       \/ h.type = "ZCAN" /\ AcceptCancel
    /\ UNCHANGED faults

\* header_bad: before the first good header the detector had misfired.
HeaderBad ==
    /\ \/ ~synced /\ Finish("failed") /\ Quiet /\ UNCHANGED <<ps, role>>
       \/ synced /\ Going /\ Reply(<<Hdr("ZNAK", 0)>>) /\ Hunting
    /\ UNCHANGED <<synced, faults>>

SubBad ==
    /\ Hunting
    /\ Going
    /\ Reply(IF filing = 0 THEN <<Hdr("ZNAK", 0)>>
             ELSE <<Hdr("ZNAK", 0), Hdr("ZRPOS", Len(content))>>)
    /\ UNCHANGED <<synced, faults>>

\* zfile_ready: a file left open is removed, the new one is created; a file
\* that cannot be created is skipped.
FileReady(f) ==
    /\ Hunting
    /\ content' = <<>>
    /\ \/ filing' = f /\ Reply(<<Hdr("ZRPOS", 0)>>) /\ UNCHANGED faults
       \/ /\ DiskFails
          /\ filing' = 0
          /\ Reply(<<Hdr("ZSKIP", 0)>>)
    /\ UNCHANGED <<zstate, kept, synced>>

\* A subpacket ends with ZCRCE, ZCRCG or ZCRCW: the sender below asks for a ZACK
\* at the end of a frame only, never within one (ZCRCQ).
DataWritten(s) ==
    /\ content' = IF s.block = 0 THEN content
                  ELSE Append(content, <<s.file, s.block>>)
    /\ ps' = IF s.end = "G" THEN "sub" ELSE "hdr"
    /\ IF s.end = "W" THEN Reply(<<Hdr("ZACK", Len(content'))>>) ELSE Quiet
    /\ UNCHANGED <<zstate, filing, kept, role, synced, faults>>

WriteFails(s) ==
    /\ s.block # 0
    /\ DiskFails
    /\ Finish("failed")
    /\ Quiet
    /\ UNCHANGED <<ps, role, synced>>

\* accept_sub with a good checksum.
AcceptSub(s) ==
    \/ role = "file" /\ FileReady(s.file)
    \/ role = "data" /\ filing # 0 /\ (DataWritten(s) \/ WriteFails(s))
    \/ /\ role = "data" /\ filing = 0
       /\ Hunting /\ Going /\ Quiet /\ UNCHANGED <<synced, faults>>

Ignored == Going /\ Quiet /\ UNCHANGED <<ps, role, synced, faults>>

\* Within a subpacket a header is data like any other, up to the end of the
\* next subpacket, whose checksum then fails.
Swallowed == Going /\ Quiet /\ ps' = "cut" /\ UNCHANGED <<role, synced, faults>>

Good(f) ==
    \/ f.kind = "hdr" /\ ps = "hdr" /\ AcceptHeader(f)
    \/ f.kind = "hdr" /\ ps # "hdr" /\ Swallowed
    \/ f.kind = "sub" /\ ps = "hdr" /\ Ignored
    \/ f.kind = "sub" /\ ps = "sub" /\ AcceptSub(f)
    \/ f.kind = "sub" /\ ps = "cut" /\ SubBad

LineDamages == "line" \in trouble /\ damage < MaxDamage

\* A damaged header is not recognised or fails its check; a damaged
\* subpacket fails its check or loses its end.
Damaged(f) ==
    /\ LineDamages
    /\ \/ f.kind = "hdr" /\ ps = "hdr" /\ synced /\ Ignored
       \/ f.kind = "hdr" /\ ps = "hdr" /\ HeaderBad
       \/ f.kind = "sub" /\ ps # "hdr" /\ SubBad
       \/ "ends" \in trouble /\ ps # "hdr" /\ Swallowed

\* mmb_zm_feed
Feed ==
    /\ zstate = "active"
    /\ toRx # <<>>
    /\ toRx' = Tail(toRx)
    /\ \/ Good(Head(toRx)) /\ UNCHANGED damage
       \/ Damaged(Head(toRx)) /\ damage' = damage + 1
    /\ patience' = FALSE
    /\ UNCHANGED <<reps, sender, trouble, stalls>>

\* Nothing is on its way, and the sender waits for a reply.
Silence == toRx = <<>> /\ toTx = <<>> /\ sender.phase \notin {"head", "data"}

Announce(f) == <<Hdr("ZFILE", 0), FileSub(f)>>

\* What the sender sends again after a timeout of its own, which is longer
\* than the receiver's and shorter than two of them.
Waiting == [start |-> <<Hdr("ZRQINIT", 0)>>, name |-> Announce(sender.file),
            eof |-> <<Hdr("ZEOF", Blocks)>>, fin |-> <<Hdr("ZFIN", 0)>>]

SenderTurn == patience /\ sender.phase \in DOMAIN Waiting

\* Bug: one repeat too many.
SpentLate == rep = <<>> \/ reps > MaxRep

\* There is nothing to repeat, or it was repeated often enough.
Spent == rep = <<>> \/ reps >= MaxRep

\* mmb_zm_tick, 5 s after the last byte.
Tick ==
    /\ zstate = "active"
    /\ \/ Silence /\ ~SenderTurn /\ UNCHANGED stalls
       \/ ~Silence /\ "line" \in trouble /\ stalls < MaxStalls /\ stalls' = stalls + 1
    /\ \/ /\ Spent
          /\ Finish("failed")
          /\ Quiet /\ UNCHANGED reps
       \/ /\ ~Spent
          /\ Reply(rep)
          /\ reps' = reps + 1
          /\ Going
    /\ patience' = TRUE
    /\ UNCHANGED <<ps, role, synced, sender, toRx, trouble, damage, faults>>

\* mmb_zm_cancel: ZABORT and enough CANs to stop the sender.
Cancel ==
    /\ zstate = "active"
    /\ Finish("cancelled")
    /\ Reply(<<Hdr("ZABORT", 0)>>)
    /\ UNCHANGED <<ps, role, synced, reps, sender, patience, toRx, trouble,
                   damage, stalls, faults>>

-----------------------------------------------------------------------------
(* The sender, as Forsberg's protocol has it: phases start, name (ZFILE    *)
(* sent), head (a ZDATA header is next), data, ack (ZCRCW sent), eof (ZEOF *)
(* sent), fin (ZFIN sent) and over.  What was garbled is sent again.       *)

To(phase) == [sender EXCEPT !.phase = phase]

NextFile ==
    IF sender.file < Files
    THEN [state |-> [phase |-> "name", file |-> sender.file + 1, pos |-> 0,
                     from |-> 0],
          sends |-> Announce(sender.file + 1)]
    ELSE [state |-> To("fin"), sends |-> <<Hdr("ZFIN", 0)>>]

\* What the sender makes of a header: its next state, and what it sends.
Reaction(h) ==
    LET in(phases) == sender.phase \in phases
        resend(frames) == [state |-> sender, sends |-> frames]
    IN CASE h.type = "ZRINIT" /\ in({"start", "name"}) ->
              [state |-> To("name"), sends |-> Announce(sender.file)]
         [] h.type = "ZRINIT" /\ in({"head", "data", "ack", "eof"}) -> NextFile
         [] h.type = "ZSKIP" /\ in({"name", "head", "data", "ack", "eof"}) ->
              NextFile
         [] h.type = "ZRPOS" /\ in({"name", "head", "data", "ack", "eof"}) ->
              [state |-> [sender EXCEPT !.phase = "head", !.pos = h.pos],
               sends |-> IF in({"data"}) THEN <<EndOfFrame>> ELSE <<>>]
         [] h.type = "ZACK" /\ in({"ack"}) /\ h.pos = sender.pos ->
              [state |-> To("head"), sends |-> <<>>]
         [] h.type = "ZNAK" /\ in({"start"}) -> resend(<<Hdr("ZRQINIT", 0)>>)
         [] h.type = "ZNAK" /\ in({"name"}) -> resend(Announce(sender.file))
         [] h.type = "ZNAK" /\ in({"data", "ack"}) ->
              [state |-> [sender EXCEPT !.phase = "head", !.pos = sender.from],
               sends |-> IF in({"data"}) THEN <<EndOfFrame>> ELSE <<>>]
         [] h.type = "ZNAK" /\ in({"eof"}) -> resend(<<Hdr("ZEOF", Blocks)>>)
         [] h.type \in {"ZNAK", "ZRINIT"} /\ in({"fin"}) ->
              resend(<<Hdr("ZFIN", 0)>>)
         [] h.type \in {"ZFIN", "ZABORT"} ->
              [state |-> To("over"), sends |-> <<>>]
         [] OTHER -> resend(<<>>)

SenderHears ==
    /\ toTx # <<>>
    /\ toTx' = Tail(toTx)
    /\ LET r == Reaction(Head(toTx)) IN
         \/ /\ Len(toRx) + Len(r.sends) <= MaxLine
            /\ sender' = r.state
            /\ toRx' = toRx \o r.sends
            /\ UNCHANGED damage
         \/ /\ LineDamages
            /\ damage' = damage + 1
            /\ UNCHANGED <<sender, toRx>>
    /\ UNCHANGED <<zstate, ps, role, synced, filing, content, kept, rep, reps,
                   patience, trouble, stalls, faults>>

SenderSends ==
    /\ Len(toRx) < MaxLine
    /\ \/ /\ sender.phase = "head" /\ sender.pos < Blocks
          /\ toRx' = Append(toRx, Hdr("ZDATA", sender.pos))
          /\ sender' = [sender EXCEPT !.phase = "data", !.from = sender.pos]
       \/ /\ sender.phase = "data" /\ sender.pos < Blocks
          /\ \E e \in IF sender.pos + 1 = Blocks THEN {"E"} ELSE {"G", "W"} :
                /\ toRx' = Append(toRx,
                                  DataSub(sender.file, sender.pos + 1, e))
                /\ sender' = [sender EXCEPT !.pos = @ + 1,
                                !.phase = IF e = "W" THEN "ack" ELSE "data"]
       \/ /\ sender.phase \in {"head", "data"} /\ sender.pos = Blocks
          /\ toRx' = Append(toRx, Hdr("ZEOF", Blocks))
          /\ sender' = To("eof")
    /\ UNCHANGED <<zstate, ps, role, synced, filing, content, kept, rep, reps,
                   patience, toTx, trouble, damage, stalls, faults>>

SenderRepeats ==
    /\ Silence /\ SenderTurn
    /\ toRx' = Waiting[sender.phase]
    /\ patience' = FALSE
    /\ UNCHANGED <<zstate, ps, role, synced, filing, content, kept, rep, reps,
                   sender, toTx, trouble, damage, stalls, faults>>

\* mmb_zm_feed counts five CANs in a row wherever the parser is.
FiveCans == /\ Finish("cancelled") /\ Quiet
            /\ UNCHANGED <<ps, role, synced, faults>>

\* The user of the sender stops it, at any point of the session, and the
\* receiver comes to its last word: what it had sent before has been read, and
\* its five CANs come in one read (the count starts again with every read).
SenderStops ==
    /\ zstate = "active" /\ toRx = <<>> /\ sender.phase # "over"
    /\ \/ /\ ps = "hdr"
          /\ \E t \in {"ZABORT", "ZFERR", "ZCAN"} : AcceptHeader(Hdr(t, 0))
       \/ FiveCans
    /\ sender' = To("over")
    /\ patience' = FALSE
    /\ UNCHANGED <<reps, toRx, trouble, damage, stalls>>

Next == Feed \/ Tick \/ Cancel \/ SenderHears \/ SenderSends \/ SenderRepeats
        \/ SenderStops

\* TERM polls the receiver and the clock runs (mmb_term_poll), and the sender
\* is at work.
Fairness == /\ WF_zvars(Feed) /\ WF_zvars(Tick)
            /\ WF_zvars(SenderHears) /\ WF_zvars(SenderSends)
            /\ WF_zvars(SenderRepeats)

Spec == Init /\ [][Next]_zvars /\ Fairness

-----------------------------------------------------------------------------
(* Properties.                                                             *)

\* What is kept is whole, in the order sent, and kept once, whatever the line
\* damages, the receiver repeats or either side stops, or the disk refuses: "ok
\* != 0 keeps the file; ok == 0 removes the partial" (mmb_zmodem.h:31).  When
\* line and disk both fail it is not so: a sender that hears two ZSKIPs skips
\* two files, and its ZFIN keeps what was written of the second.
KeptWhole ==
    (faults = 0 \/ damage + stalls = 0) =>
        /\ \A i \in DOMAIN kept : \E f \in 1 .. Files : kept[i] = Whole(f)
        /\ \A i, j \in DOMAIN kept : i < j => kept[i][1][1] < kept[j][1][1]

\* The session ends, and with every file kept unless either side stops it, the
\* disk fails, the first header was bad or the end of a subpacket was lost: each
\* damage is answered, or repeated after a silence, until it is made good.  (A
\* subpacket without an end swallows the headers after it, while the receiver
\* may have nothing to repeat but an old ZACK.)
AllArrive ==
    <>(\/ zstate = "done" /\ Len(kept) = Files
       \/ zstate = "cancelled"
       \/ zstate = "failed" /\ sender.phase = "over"
       \/ zstate = "failed" /\ (faults > 0 \/ ~synced \/ "ends" \in trouble)
       \/ zstate = "done" /\ faults > 0)
=============================================================================
