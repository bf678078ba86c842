-------------------------------- MODULE Ntp --------------------------------
(***************************************************************************)
(* The background synchronisation of the clock (mmb_ntp_poll of ntp.c):    *)
(* attempts begin when the network appears, are repeated with growing      *)
(* pauses, and stop after a window.  Times are seconds of a clock that     *)
(* wraps around, compared by their signed difference; 0 stands for a time  *)
(* that is not set.                                                        *)
(*                                                                         *)
(* Abstracted: the exchange with the server, which answers or does not;    *)
(* the name of the server is set.                                          *)
(***************************************************************************)
EXTENDS Integers

CONSTANTS
    Wrap,               \* the clock counts modulo Wrap, an even number
    Patience,           \* MMB_NTP_AUTOSYNC_WINDOW_MS
    LongestPause,       \* the cap of the pauses 2, 4, 8, ...
    Lifetime            \* seconds of a behaviour

VARIABLES
    now,                \* mmb_now_ms
    age,                \* seconds since the start
    enabled,            \* G.opt.ntp_enabled
    lastMode, done, wasReady, fails, nextAt, deadline,  \* the statics
    linkUp, busy,       \* the network is available; G.running
    answering,          \* the server answers
    seenUp,             \* the age at which a poll first found the link up
    late,               \* attempts made after the window
    sawDown             \* the last poll that looked at the link found it down

ntpEnv == <<now, age, enabled, linkUp, busy, answering>>
ntpVars == <<ntpEnv, lastMode, done, wasReady, fails, nextAt, deadline, seenUp, late,
            sawDown>>

Init ==
    /\ now \in 0 .. Wrap - 1
    /\ age = 0
    /\ enabled \in BOOLEAN /\ lastMode = FALSE
    /\ done = FALSE /\ wasReady = FALSE /\ fails = 0
    /\ nextAt = 0 /\ deadline = 0
    /\ linkUp = FALSE /\ busy = FALSE /\ answering = FALSE
    /\ seenUp = 0 /\ late = "no" /\ sawDown = TRUE

TypeOK ==
    /\ now \in 0 .. Wrap - 1 /\ age \in 0 .. Lifetime /\ seenUp \in 0 .. Lifetime
    /\ {enabled, lastMode, done, wasReady, linkUp, busy, answering, sawDown} \subseteq BOOLEAN
    /\ fails \in 0 .. 6
    /\ {nextAt, deadline} \subseteq 0 .. Wrap - 1
    /\ late \in {"no", "unset", "yes"}

\* Bug: times are compared as they are.
PassedUnsigned(t) == now >= t

\* (int32_t)(now - t) >= 0
Passed(t) == (now - t + Wrap) % Wrap < Wrap \div 2

Sooner(a, b) == IF a < b THEN a ELSE b
Pause(n) == Sooner(2 ^ n, LongestPause)
In(s) == (now + s) % Wrap

-----------------------------------------------------------------------------
(* mmb_ntp_poll, with o the statics as they are after a change of the      *)
(* option was noticed.                                                     *)

Noticed ==
    IF enabled # lastMode
    THEN [done |-> FALSE, fails |-> 0, nextAt |-> 0, deadline |-> 0]
    ELSE [done |-> done, fails |-> fails, nextAt |-> nextAt, deadline |-> deadline]

Set(o) == /\ done' = o.done /\ fails' = o.fails
          /\ nextAt' = o.nextAt /\ deadline' = o.deadline

Nothing(o) == Set(o) /\ UNCHANGED <<wasReady, seenUp, late>>

Fresh(o) == [o EXCEPT !.fails = 0, !.nextAt = 0, !.deadline = 0]

\* Bug: the window of the last connection is kept.
OfflineKept(o) == Set(o) /\ UNCHANGED <<wasReady, seenUp, late>>

Offline(o) == Set(Fresh(o)) /\ wasReady' = FALSE /\ UNCHANGED <<seenUp, late>>

\* The window opens with the first poll that finds the network.
Opened(o) ==
    IF wasReady THEN o ELSE [Fresh(o) EXCEPT !.deadline = In(Patience)]

Attempt(o) ==
    /\ IF answering THEN Set([o EXCEPT !.done = TRUE])
       ELSE LET n == Sooner(o.fails + 1, 6)    \* beyond 6 the pause is the same
            IN  Set([o EXCEPT !.fails = n, !.nextAt = In(Pause(n))])
    /\ late' = IF wasReady /\ age - seenUp >= Patience
               THEN IF o.deadline = 0 THEN "unset" ELSE "yes"
               ELSE late

Online(o) ==
    /\ wasReady' = TRUE
    /\ seenUp' = IF wasReady THEN seenUp ELSE age
    /\ IF (o.deadline # 0 /\ Passed(o.deadline)) \/ (o.nextAt # 0 /\ ~Passed(o.nextAt))
       THEN Set(o) /\ UNCHANGED late
       ELSE Attempt(o)

Poll ==
    /\ lastMode' = enabled
    /\ LET o == Noticed
       IN  \/ /\ o.done \/ ~enabled \/ busy
              /\ Nothing(o) /\ UNCHANGED sawDown
           \/ /\ ~(o.done \/ ~enabled \/ busy)
              /\ sawDown' = ~linkUp
              /\ \/ ~linkUp /\ Offline(o)
                 \/ linkUp /\ Online(Opened(o))
    /\ UNCHANGED ntpEnv

-----------------------------------------------------------------------------
(* What happens around it: the user sets the option or runs a program, the *)
(* network and the server come and go.                                     *)

Tick ==
    /\ age < Lifetime
    /\ age' = age + 1
    /\ now' = (now + 1) % Wrap
    /\ UNCHANGED <<enabled, linkUp, busy, answering, lastMode, done, wasReady,
                   fails, nextAt, deadline, seenUp, late, sawDown>>

World ==
    /\ \/ enabled' = ~enabled /\ ~busy /\ UNCHANGED <<linkUp, busy, answering>>
       \/ linkUp' = ~linkUp /\ UNCHANGED <<enabled, busy, answering>>
       \/ busy' = ~busy /\ UNCHANGED <<enabled, linkUp, answering>>
       \/ answering' = ~answering /\ UNCHANGED <<enabled, linkUp, busy>>
    /\ UNCHANGED <<now, age, lastMode, done, wasReady, fails, nextAt, deadline,
                   seenUp, late, sawDown>>

Next == Poll \/ Tick \/ World

\* mmb_poll runs for ever.
Spec == Init /\ [][Next]_ntpVars /\ WF_ntpVars(Poll)

-----------------------------------------------------------------------------
(* Properties.                                                             *)

\* Attempts are made in a "bounded window" after the network appeared (#1181),
\* wherever the clock wraps around: later ones are made only when the deadline
\* is not set, which is so after the option was changed with the network up,
\* or when it falls on 0.
WindowBounded == late # "yes"

\* A network that appears while the server answers is used at once, however
\* many windows before it were used up in vain.
LinkUsed ==
    (linkUp /\ sawDown /\ enabled /\ answering /\ ~busy /\ ~done)
        ~> (done \/ ~linkUp \/ ~enabled \/ ~answering \/ busy)
=============================================================================
