------------------------------- MODULE Services -------------------------------
(***************************************************************************)
(* The services of the machine that keep a state of their own and do not   *)
(* touch each other's: the RAM disk, the FTP server, the history of PAINT, *)
(* the clock synchronisation, the way of TERM's page to the screen, and    *)
(* the dialling of the TCP socket.  Each behaviour takes one of them, the  *)
(* part, from its own Init through its own Next; the others rest.          *)
(***************************************************************************)
EXTENDS TcpDial

CONSTANTS
  Users, Names, Slots, MaxPath, Wild,                       \* RamDisk
  Starters, Chunks, Window,                                 \* Ftp
  Pictures, Blank, Depth, MaxRefused,                       \* PaintUndo
  Wrap, Patience, LongestPause, Lifetime,                   \* Ntp
  Height, Width, MaxFailures,                               \* TermPresent
  Tops, Bottoms, Lefts, Rights                              \* and its rectangles

\* VFS_MAX, and what users may be allowed to do.
ASSUME DiskAssumption ==
  Slots \in Nat \ {0} /\ Wild \subseteq SUBSET {"under", "vacate"}

ASSUME HistoryAssumption ==
  Depth \in Nat \ {0} /\ MaxRefused \in Nat /\ Blank \in Pictures

\* There is room for the file that is there at first.
ASSUME TransferAssumption == Chunks \in Nat \ {0} /\ Window \in Nat

ASSUME PageAssumption ==
  /\ Height \in Nat \ {0} /\ Width \in Nat \ {0} /\ MaxFailures \in Nat
  /\ Tops \cup Bottoms \subseteq 1..Height
  /\ Lefts \cup Rights \subseteq 1..Width

\* Differences of two times that are compared stay below half the modulus.
ASSUME ClockAssumption ==
  /\ Wrap \in Nat /\ Patience \in 0 .. Wrap - 1
  /\ Lifetime \in Nat /\ Lifetime - Patience < Wrap \div 2
  /\ LongestPause \in Nat

VARIABLES
  part,
  nodes, cwd, habits,
  owner, ctl, logged, listener, data, xfer, off, size, writer, file, polite,
  link, inbox, replies, asked, cdata, wire, moved, verdict,
  canvas, undo, redo, shownUndo, shownRedo, stored, blurred, refused,
  now, age, enabled, lastMode, done, wasReady, fails, nextAt, deadline, linkUp,
  busy, answering, seenUp, late, sawDown,
  screen, flight, direct, fidx, sidx, pending, prect, bounce, cap, cpu, lost, freed

Disk == INSTANCE RamDisk
FTP  == INSTANCE Ftp
Art  == INSTANCE PaintUndo
NTP  == INSTANCE Ntp

\* The rectangles that TERM presents.
Presented == [top : Tops, bottom : Bottoms, left : Lefts, right : Rights]

Show == INSTANCE TermPresent WITH Rects <- Presented

diskVars == <<nodes, cwd, habits>>
ftpVars == <<owner, ctl, logged, listener, data, xfer, off, size, writer, file,
             polite, link, inbox, replies, asked, cdata, wire, moved, verdict>>
paintVars == <<canvas, undo, redo, shownUndo, shownRedo, stored, blurred, refused>>
ntpVars == <<now, age, enabled, lastMode, done, wasReady, fails, nextAt, deadline,
             linkUp, busy, answering, seenUp, late, sawDown>>

screenVars == <<screen, flight, direct, fidx, sidx, pending, prect, bounce, cap,
                cpu, lost, freed>>

vars == <<part, dialVars, diskVars, ftpVars, paintVars, ntpVars, screenVars>>
-----------------------------------------------------------------------------
\* A part that is not taken rests in one of its initial states.
Resting(p) ==
  /\ p # "disk" => habits = CHOOSE w \in Wild : TRUE
  /\ p # "ftp" => polite
  /\ p # "ntp" => now = 0 /\ enabled

ServicesInit ==
  /\ part \in {"dial", "disk", "ftp", "paint", "ntp", "screen"}
  /\ Init /\ Disk!Init /\ FTP!Init /\ Art!Init /\ NTP!Init /\ Show!Init
  /\ Resting(part)

ServicesNext ==
  \/ /\ part = "dial" /\ Next
     /\ UNCHANGED <<part, diskVars, ftpVars, paintVars, ntpVars, screenVars>>
  \/ /\ part = "disk" /\ Disk!Next
     /\ UNCHANGED <<part, dialVars, ftpVars, paintVars, ntpVars, screenVars>>
  \/ /\ part = "ftp" /\ FTP!Next
     /\ UNCHANGED <<part, dialVars, diskVars, paintVars, ntpVars, screenVars>>
  \/ /\ part = "paint" /\ Art!Next
     /\ UNCHANGED <<part, dialVars, diskVars, ftpVars, ntpVars, screenVars>>
  \/ /\ part = "ntp" /\ NTP!Next
     /\ UNCHANGED <<part, dialVars, diskVars, ftpVars, paintVars, screenVars>>
  \/ /\ part = "screen" /\ Show!Next
     /\ UNCHANGED <<part, dialVars, diskVars, ftpVars, paintVars, ntpVars>>

\* The fairness of each part, when it is the one taken.
FtpFairness ==
  /\ WF_ftpVars(part = "ftp" /\ FTP!Poll)
  /\ WF_ftpVars(part = "ftp" /\ FTP!ReadReply)
  /\ WF_ftpVars(part = "ftp" /\ FTP!Download)
  /\ WF_ftpVars(part = "ftp" /\ link = "hung" /\ FTP!Leave)

NtpFairness == WF_ntpVars(part = "ntp" /\ NTP!Poll)

DialFairness ==
  /\ WF_dialVars(part = "dial" /\ Status)
  /\ WF_dialVars(part = "dial" /\ TaskStep)

ScreenFairness ==
  /\ WF_screenVars(part = "screen" /\ Show!Present)
  /\ WF_screenVars(part = "screen" /\ Show!DrainEnd)
  /\ WF_screenVars(part = "screen" /\ Show!Transfer)
  /\ WF_screenVars(part = "screen" /\ Show!Done)

ServicesSpec == /\ ServicesInit /\ [][ServicesNext]_vars
                /\ FtpFairness /\ NtpFairness /\ DialFairness /\ ScreenFairness
-----------------------------------------------------------------------------
(* The properties of the parts, under the names they have there; those of  *)
(* TcpDial are its own.                                                    *)

\* Every part is well typed.
Typed == /\ TypeOK /\ Disk!TypeOK /\ FTP!TypeOK /\ Art!TypeOK
         /\ NTP!TypeOK /\ Show!TypeOK

\* No directory has two entries of one name (ram_find_child).
NamesUnique == Disk!NamesUnique

\* What is under something is under a directory that exists (mmb_vfs_rmdir).
TreeSound == Disk!TreeSound

\* Every console's current directory is one (mmb_vfs_rmdir, mmb_vfs_rename).
CwdLeadsBack == Disk!CwdLeadsBack

\* The FTP server holds what its session needs and no more (ctl_drop, stop).
HandlesHeld == FTP!HandlesHeld

\* A transfer reported complete is (xfer_finish).
CompleteMeansWhole == FTP!CompleteMeansWhole

\* A client that waits is answered (mmb_ftp_poll).
Answered == FTP!Answered

\* A picture that is not the stored one is not discarded unasked (unsaved).
DiscardsAsked == Art!DiscardsAsked

\* Undo and redo walk one line of pictures: PaintUndo implements PaintHistory.
OneLine == Art!OneLine

\* The clock is asked for in a bounded window after the link came up (#1181).
WindowBounded == NTP!WindowBounded

\* A link that comes up while the server answers is used (mmb_ntp_poll).
LinkUsed == NTP!LinkUsed

\* What TERM drew is on the screen when DMA is at rest
\* (plat_term_present_async).
ScreenCurrent == Show!ScreenCurrent

\* Waiting for DMA ends (plat_term_present_drain).
DrainEnds == Show!DrainEnds
=============================================================================
