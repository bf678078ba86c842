# mmcore in TLA+

Specifications of the parts of mmcore (an MMBasic interpreter with virtual
consoles, for the Raspberry Pi and the desktop) in which many small steps share
state: the control frames of the interpreter and its walk over lines, the consoles
and the programs they run, variables and the statements compiled for them, the one TCP socket and what uses it, file transfers,
and the services that are polled in the background. Each module is translated
from the C source; `PROJECT.json` names, for every definition, the lines it stands
for. Paths below are relative to the repository.

## 1. The system

One thread executes almost everything. A *host loop* (`native/main_sdl.c`,
`console/kernel.cpp`) polls input, calls `mmb_poll` (full-screen applications,
network, sound) and `mmb_console_poll`, and feeds keys to the prompt. A BASIC
program runs inside such a call: `run_program` executes line after line and polls
by itself between lines (`mmb_check_break`) and inside waiting statements
(`mmb_cmd_pause`), so that keys, timers and chords are handled *within* the
program that they interrupt. What looks concurrent is this re-entrance, together
with `longjmp`: an error leaves any number of C frames at once. On the Raspberry
Pi there are, besides, completion interrupts and cooperative tasks.

| Component | Its state | Operations | Interacts with |
|---|---|---|---|
| Control frames (`core.c`, `exec_frame.c`) | IF, SELECT and loop stacks, `gosub_*`, `nested_frame`, `tick_busy` | block statements, GOSUB, SUB, FUNCTION, handlers, EXECUTE, errors, END | line loop, expressions, events |
| Line loop (`core.c`) | `run_pc`, jump tables, `if_shadow`, `forstack` | line starts, hops, mid-line resumes | frames |
| Run life cycle (`core.c`) | `running`, `run_suspended`, error landings | RUN, poll, park, resume, trap, end | frames, consoles, editor |
| Virtual consoles (`session.c`) | `g_console`, `s_visible`, `s_pending`, contexts | switch, deferred switch, bring-up, warm reset | run life cycle, graphics, prompt |
| Editor (`editor.c`) | tabs, undo, `run_pending`, `wait_continue` | keys, RUN, poll | run life cycle, file system |
| Prompt (`frontend.c`) | line, history | feed, submit | `mmb_exec_line` |
| Yields (`yield.c`) | callbacks with their console | add, remove, run | TERM, CONNECT, JUKE, FTP |
| TERM, CONNECT, TCP files (`cmd_term.c`, `cmd_connect.c`, `cmd_files.c`) | one socket, its owner, one receive ring | open, poll, background drain, leave | ring, yields, consoles, ZMODEM |
| Receive ring (`console/net_rxbuf.c`) | data, head, tail, used | push, pop, peek, at, drop, reset | TERM |
| TCP dialling (`console/net.cpp`) | socket, generation, outcome, tasks | begin, status, close, the task | TERM, CONNECT, files |
| TERM's screen (`console/platform.cpp`) | DMA transfer, two bounce buffers, pending rectangle | present, interrupt, drain | TERM |
| ZMODEM receiver (`zmodem.c`) | protocol state, file, retries | bytes in, timeouts, cancel | TERM, files |
| PAINT history (`paint_undo.c`) | undo and redo stacks, depths shown | record, undo, redo, save, load, clear | the PAINT application |
| RAM disk (`vfs.c`) | node table, current directories | open, MKDIR, CHDIR, RMDIR, KILL, NAME | everything |
| FTP server (`cmd_ftp.c`) | control and data connection, transfer | start, stop, poll | network, files |
| Clock (`ntp.c`) | deadline, pauses, last mode | poll | network, options |
| Sound (`cmd_play.c`, `cmd_juke.c`) | mixer, player and its owner | play, mix, stop | consoles |
| Graphics (`gfx*.c`, `cmd_sprite.c`, `tui.c`, `sixel.c`) | pages, mode, `background` | drawing | consoles |
| Variables (`vars.c`, `cmd_lang.c`) | table of slots, LOCALs of each call; indexes and free slots, static | assign, DIM, LOCAL, return, CLEAR, RUN | frames, trace cache, consoles |
| Trace cache (`tracecache.c`) | per statement: slot and generation | compile, validate, drop | variables |
| Expressions (`expr.c`, `tok.c`, `cmd_struct.c`) | arenas | evaluate | variables, frames |
| Decoders, settings, small commands | none that outlives a call | | |

What is hard in it, and where the hazards of `PROJECT.json` lie:

* *Unwinding.* Frames lie in two arrays (`gosub_*`, `nested_frame`), part of
  them are owned by C frames, and an error, END or RETURN in EXECUTE leaves
  several at once. A frame popped by the wrong hand gives a caller somebody
  else's block structure, many statements later.
* *Tables against text.* Jumps between lines are computed from the first words of
  lines, while blocks and loops open and close anywhere on a line.
* *Re-entrance.* A chord, a reset or the editor's poll acts while a program is on
  the C stack, on state that the program goes on to use.
* *Stale landings.* `setjmp` targets are set per line, per statement and per run,
  and are used until they are overwritten.
* *Shared singletons.* One socket, one ring, one callback table, one node table
  and one pair of bounce buffers serve everybody.
* *Names that move.* A LOCAL takes over the slot of what it hides, or gets one that
  another name had before; indexes, free list, saved bindings and compiled
  statements all point at slots.
* *Late answers.* A dial that was abandoned ends later; a DMA transfer ends while
  the next one is prepared; a data connection is reset after its last chunk.
* *Limits.* Frame arrays, rings, node tables, snapshot stacks at their capacity,
  a clock that wraps around.

What makes each component correct, in short: every caller finds its own structure
again; a program prints the same however its statements are spread over lines;
handlers can always be dispatched again;
a name denotes its innermost binding, and the outer one comes back with its value; one console is in front and one program
runs; a parked program is continued by its console; a requested switch happens;
bytes come out in order; a socket stays with the console that dialled it; a
received file is complete when it is kept; a transfer reported complete is; the
tree of files is one tree; undo and redo walk one line of pictures; the screen
comes to show what was drawn.

## 2. Modules

| Module | Models | |
|---|---|---|
| `Frames` | control frames: `core.c`, `exec_frame.c`, `mmb_error` | component |
| `Activations` | what frames promise a program: one activation runs, the others wait as they are | abstract specification |
| `FramesLifo` | the refinement mapping from `Frames` to `Activations` | composition |
| `Variables` | `vars.c`, LOCAL, and the entries of `tracecache.c` | component |
| `Scopes` | what variables promise: bindings by name, hidden and restored | abstract specification |
| `Interpreter` | `FramesLifo`, twice, and `Variables`, one at a time | root of a run |
| `FramesClaims` | what the help pages say of frames, with history variables | claims |
| `LineLoop` | `build_jumps`, `process_line_structure`, `exec_stmt_loop`, IF, SELECT, FOR | component |
| `LineLoopPrograms` | the programs it is run on, with their meaning | composition |
| `Consoles` | `session.c`, the life of a program, the editor's RUN, warm reset | component |
| `Running` | `Consoles` and `LineLoopPrograms`, one at a time | root of a run |
| `NetRxBuf` | `console/net_rxbuf.c` | component |
| `ByteQueue` | a bounded queue of bytes | abstract specification |
| `TermSessions` | users of the TCP socket, `yield.c`, the owner, the shared ring | component |
| `Zmodem` | `zmodem.c` with a sender and a line | component |
| `Terminal` | the ring, `TermSessions` and `Zmodem`, one at a time | root of a run |
| `RamDisk` | the node table of `vfs.c` | component |
| `Ftp` | `cmd_ftp.c` with a client | component |
| `PaintUndo` | `paint_undo.c` and the menu actions that end a history | component |
| `PaintHistory` | a line of pictures and a place on it | abstract specification |
| `Ntp` | `mmb_ntp_poll` | component |
| `TermPresent` | `plat_term_present_async`, its interrupt and its drain | component |
| `TcpDial` | `mmb_net_tcp_begin`, `_status`, `_close`, and the dialling task | component |
| `Services` | `RamDisk`, `Ftp`, `PaintUndo`, `Ntp`, `TermPresent` and `TcpDial`, one at a time | root of a run |
| `FramesProofs`, `ConsolesProofs` | theorems about the component of that name | proofs |
| `InterpreterProofs` | theorems about `Variables` and the callers of both machines of `Frames`, stated of `InterpreterSpec` | proofs |
| `TerminalProofs` | the ring, `TermSessions` and `Zmodem`, stated of `TerminalSpec` | proofs |
| `ServicesProofs` | `TcpDial`, `Ntp`, `RamDisk`, and the types of all the services, stated of `ServicesSpec` | proofs |
| `FtpProofs`, `PaintUndoProofs`, `TermPresentProofs` | the component of that name, stated of `ServicesSpec` | proofs |

`Interpreter`, `Running`, `Terminal` and `Services` hold parts that do not act on one another's state. A
behaviour takes one part through its own `Init` and `Next` and the others rest, so
that the state space is the sum of the parts and not their product. Where a part
does depend on another, the dependence is in the module: `TermSessions` keeps the
receive ring as a sequence, which is what the refinement of `NetRxBuf` to
`ByteQueue` permits.

The modules' names for state are the code's. Definitions marked *Bug* in a comment
are deliberate mistakes, each the small change a maintainer could make; no
specification uses them. They record what each property is able to detect.

### Frames

`ctl` is the live control state, the fields that an `mmb_exec_frame` saves: IF
depth, the one-line IF, the top and base of the SELECT stack, the loop depth.
`selstack` and `ctrlstack` are the shared stacks these index. `gosub` and `nested`
are the two arrays of saved frames. `cstack` is what the C stack knows: the
`run_gosub_loop` and `mmb_cmd_execute` activations, with the depths they keep in
local variables; `longjmp` cuts it. An action is a statement, a dispatch between
lines, or one turn of an unwinding loop, so that every state in which the code
could look at the frames is a state of the model.

`StatementError`, `EntryError`, `Break` and the limits all end in `mmb_error`,
which reaches one of three landings: the handler (`Trap`), the next statement
(`Skip`) or the prompt (`Abort`). `Trap` and `Abort` are followed by
`UnwindGosub`, `UnwindNested`, `Trapped` and `Aborted`, which are
`unwind_call_frames` and `exec_error_reset`.

Abstracted: line positions (a DO keeps its line, since `ctrl_reenter` compares
it), the contents of the IF stack, arguments and LOCALs, FOR and WHILE (saved and
cut exactly as DO is), and RESUME, which jumps without touching frames. Left out:
a RETURN whose line goes on with further statements, a FUNCTION body that runs off
the end of the program, and GOSUB after END on one line.

### LineLoop

A program is a sequence of lines, a line a sequence of tokens; the jump tables are
computed once, by the scans of `build_jumps`, and the walk is one action per
statement, with the structure at the start of a line (`Structure`) and the end of
a line as actions of their own, as in `process_line_structure` and
`exec_stmt_loop`. `LineLoopPrograms` builds every well-formed sequence of tokens
from the grammar of blocks, lays it out over lines in every way the language
allows, and computes from the blocks alone what it should print: lines play no
part in that meaning. That is the reference the walk is compared with.

The model was itself compared with the interpreter built for the desktop. Of
27,861 programs, all of up to 6 tokens and in every layout, all but 28 give when
run the output and the error, or none, that `LineLoop` gives. The 28 differ after
the program has ended (see "Met on the way" below).

### Consoles

`where` says what the single thread executes: the host loop, a program in its poll
(`head`) or in a line, a `run_program` whose context has been wiped (`orphan`), or
something C leaves undefined (`stray`, after a jump into a dead frame). The other
variables are one field per context, as in `mmb`, and the globals of `session.c`.
`Switch` may happen in the host loop and in the input poll of a program, which
may come inside a line (PAUSE) as well as between lines.

Abstracted: screens, sound, settings, the prompt's text, the applications that a
warm reset closes. The landing of an untrapped error is always live (`#1014` saw
to it) and is not a variable. ON ERROR SKIP is left to `Frames`. Background
callbacks select another context and put it back within one poll.

### Variables

`slots` is the table of a context, `calls` what the LOCALs of each active call
saved (`gosub_local`), `cache` the entries of compiled statements; `names` gathers
what is static in `vars.c`: the index by name and type (`index`, which is
`var_tab`), that by bare name (`bare`, `unsuf_tab`), the free list, and what a
LOCAL that ended left of itself (`left`, which is `reuse_gen` and `slot_sig`). The
operations map one such memory to the next, in the order of the code: `Hidden`,
`LocalMade` and `Restored` are the three ways through `mmb_cmd_dim` and
`mmb_local_restore`. A statement either replays its entry (`Replays`, which is
`tc_entry_valid`), and then nothing changes, or is looked up, and may be compiled.

A value is represented by the storage it lies in: whoever finds the storage finds
the value. Two bindings of one slot differ in their storage, so that `Scoped` can
tell a value restored from one lost: its mapping reads the bindings of a key off
the slot and what each call saved of it, the deepest from the slot itself. Generations are numbers without an order: a
new one is any that nothing holds, which keeps the state space finite and can make
no old entry valid.

`Uses` names what programs do besides: a LOCAL with a suffix over a variable
without one (`"suffix"`), CLEAR with LOCALs active (`"clear"`), and a LOCAL whose
initial value fails under ON ERROR SKIP (`"skip"`). The run leaves them out, the
last one for its size only; `claim_clear` takes CLEAR in, and the theorems name
those they exclude. `ConsolesSpec` adds switches
between consoles.

Left out: arrays, structures, CONST, parameters (which are assigned and assigned
back), the resolve cache, whose entries are dropped and validated in the same way
as those modelled, and the entries that say that a name is unknown.

### NetRxBuf, TermSessions, TcpDial, TermPresent

Each operation of the ring is one action, with the two `memcpy` calls of a block
that wraps as one function update (`Stored`) or one sequence (`Loaded`).

In `TermSessions` a byte is represented by the console whose connection it arrived
on, so that a byte shown to somebody else can be seen. `drains` is the table of
`yield.c` with its console per entry: `mmb_yield_remove` takes a callback only, as
in the code. `uses` fixes per behaviour which commands are typed: with TERM in it,
`OwnBytes` and `ConnectDrained` are not claimed, because a demo or replay session
of TERM disturbs others (`claim_term`). So does a bookmark chosen in the menu of
such a session: one for a host hangs up before it looks for a TCP file, and is then
refused because the file is open.

`TcpDial` is the Raspberry Pi's socket. Tasks and interpreter take turns; an action
is what one of them does from one wait to the next, and a task may wait for as
long as it likes. An abandoned task is told apart by its generation only.

`TermPresent` splits `plat_term_present_async` wherever the completion interrupt
can come, into the look at `s_term_in_flight`, the merge, and the copy row by row.
Cells of the screen and of the buffers are kept as sets: those that agree with
what TERM has drawn.

### Zmodem

`Feed` takes a header or subpacket off the line through the code's dispatch on
state and type; `Tick` is the 5-second timeout, `Cancel` the user. The sender is
external and follows the protocol; it may stop at any point (`SenderStops`), by a
header that says so (ZABORT, ZFERR, ZCAN) or by five CANs in one read. What it had
sent before it stopped is read first, which loses no behaviour of the receiver: it
does not know yet that the sender has stopped, and nothing it says then is heard.
CANs that two reads split are not recognised by the code, and not modelled. The
sender sends no ZSINIT, no header that the receiver passes over (ZRINIT and
unknown types), and no subpacket that wants a ZACK within a frame (ZCRCQ): the
receiver would have more replies under way than one. The line may damage what it carries
(`MaxDamage`), lose the end of a subpacket, or stay silent for 5 seconds, and the
disk may refuse. `Troubles` says which of these may come together.

### RamDisk, Ftp, PaintUndo, Ntp

`RamDisk` keeps the node table with parent indices, and the walk of a path with
what it creates (`ram_walk`). `habits` tells apart users who name paths below files
or remove current directories.

`Ftp` is one poll after another: at most one control line, one accept and one piece
of a transfer, in the order of `mmb_ftp_poll`; a client that may or may not wait
for replies, and that may hang up, reset or stop at any point.

`PaintUndo` has every operation on the stacks, each with the allocation that may
fail; `Ntp` has the poll as one action, and the clock, the option, the network and
the server as the world around it.

## 3. Runs

All runs are exhaustive. The constants are in the `.cfg` files; they are small
enough to need no MC modules.

| Run | Bounds | Shows | States |
|---|---|---|---|
| `interpreter` | calls: 2 gosub frames, 2 nested, no block IF, 2 SELECTs, no loop; FUNCTIONs, handlers and EXECUTE; every fault; errors abort. Traps: 1 gosub, 1 nested, 1 IF, 2 SELECTs, 1 loop on 2 lines; FUNCTIONs and handlers; every fault; ON ERROR GOTO. Variables: names x and y, x with a suffix too, 2 types, a table of 1 that grows to 2, 2 calls | frames: `TypeOK`, `NestedMatchesC`, `TickBusyLive`, `OpenSelectsHold`, `NoResurrection`, `CallersKept`; variables: `SlotsSound`, `IndexAuthoritative`, `ReplaysItsOwn`, `Scoped` | 418,983, up to the names of lines |
| `running` | 3 consoles, an editor on one; every program of up to 6 tokens, 2 FORs deep, in every layout outside the named `Shapes` | consoles: `Foreground`, `OneProgram`, `ParkedContinues`, `SwitchHappens`; lines: `PrintsWhatItSays`, `GoesOn` | 383,629 |
| `terminal` | ring: capacity 4, requests up to 5; 2 consoles, 1 byte in the socket; ZMODEM: 2 files of 2 blocks, 8 repeats, 1 damage, 1 silence, 1 disk fault; of the troubles, damage on the line, alone, with the loss of a subpacket's end, or with the disk; either side stops | ring: `CursorsAgree`, `InOrder`; socket: `SocketOwned`, `OwnBytes`, `ConnectDrained`; ZMODEM: `KeptWhole`, `AllArrive`; `Typed` | 445,073 |
| `services` | dial: 2 hosts, 3 dials; disk: 2 names, 4 slots; FTP: 2 chunks, window 2, 2 consoles; PAINT: 2 pictures, depth 3, 1 failed allocation; clock: modulo 14, 6 s; screen: 2 × 2 cells, 4 rectangles, by their edges, 1 failed allocation | `SocketAsked`, `ToldForGood`, `DialEnds`; `NamesUnique`, `TreeSound`, `CwdLeadsBack`; `HandlesHeld`, `CompleteMeansWhole`, `Answered`; `OneLine`, `DiscardsAsked`; `WindowBounded`, `LinkUsed`; `ScreenCurrent`, `DrainEnds`; `Typed` | 383,764 |

Why the bounds are enough.

* *Frames* interact pairwise: two gosub and two nested frames hold a call in a
  handler or an EXECUTE in a FUNCTION, with each limit reached. Both arrays are
  entered and left at the top, so a deeper stack repeats the same pairs, and the
  theorems hold for every depth. The two machines of frames divide the structure
  because their product is too large: calls with SELECT in one, unwinding with IF,
  SELECT and loops in the other. With two lines a DO can find itself or its caller's.
* *Lines.* Six tokens are a block IF with an arm around a FOR with a body, or a
  SELECT around a one-line IF; the tables pair two blocks at a time. `Shapes` names
  the layouts that the line loop gets wrong; `running` leaves
  them out, and `claim_loops` takes one of them in.
* *Consoles.* Three are one more than a switch involves, so that a third can change
  the request in between; the editor is opened on one only (`Editors`), because its
  state is not shared.
* *Variables.* Two calls hide a variable twice; two names compete for a slot, one
  name is used with two types; the table fills, grows and moves. Two slots are
  fewer than the keys, so that every slot comes to hold each of them.
* *Ring.* Four bytes let a block start at any cursor and wrap, and a request of
  five is longer than any room.
* *Socket.* One console holds it, the other disturbs; the bytes of one differ from
  those of the other, so that a single byte shows a mistake.
* *ZMODEM.* Two files let the end of one be confused with the start of the next;
  two blocks let a position be repeated or passed over.
* *Dial.* Three dials are a task that is abandoned, one that waits for it, and one
  that comes after both.
* *RAM disk.* Three slots besides the root are a directory, something in it, and a
  target to move it to. A directory 9 deep is out of reach; the proofs cover it.
* *FTP.* Two chunks and a window of two: a transfer may be cut before, between and
  after them, and a whole file may be on its way when its connection is reset.
* *PAINT.* A depth of 3 is filled, trimmed, undone in part and recorded on.
* *Clock.* Modulo 14, from every start: a window and a pause lie across the wrap in
  every position, and every difference compared stays below half the modulus.
* *Screen.* With two rows and columns a rectangle may be within, across or outside
  another, contiguous or not, and the interrupt comes between two rows.

Deadlock checking is on in `interpreter`, where a program that ended can be run
again, and in `running`, where only a program that has ended and a jump into a dead
frame may stop (`MayStop`). It is off in `terminal` and `services`, when a session
is over or the bounded clock, dials or bytes are used up, and in most claims.

### Refinements

`CallersKept` says that `FramesLifo` implements `Activations`: whatever the
running body does, its callers' IF depth, one-line IF and SELECTs with their
values are as they left them. `Activations` has the structure of the running body
and the set of its callers, each with its depth; a step of the program leaves the
callers alone, a call adds one outside of which all others lie, a return gives back
the structure of one caller and keeps exactly those outside it, and an EXECUTE
string that ends under what it has called leaves its caller in its place. The depth
of a caller is a pair, since the frames lie in two arrays: the gosub frames below
it, then the nested ones. Loops are not part of it: a callee may close its
caller's loop, which `NoResurrection` is about, and EXECUTE may do worse (see
below). The one-line IF is compared only without EXECUTE, whose GOSUB abandons the
rest of the caller's line. A trapped error or an abort ends every activation, so
that what a handler finds is *not* covered by it but by `TrapLands`.

`Scoped` says that `Variables` implements `Scopes`: the storage found for a name
and type is the deepest binding made under it, a LOCAL goes with its call and
uncovers the one outside, and no two live bindings share storage. It says how long
a binding lasts, not which statement makes it. It speaks of names looked up; what a compiled statement finds is `ReplaysItsOwn`, and what it should find,
`ReplaysTheInnermost`, is refuted (`claim_cache`).

`InOrder` says that `NetRxBuf` implements `ByteQueue`, with the unread bytes in
their order as the queue. `OneLine` says that `PaintUndo` implements
`PaintHistory`: the two stacks and the canvas between them are a line of pictures
and a place on it; undo and redo move the place, an edit cuts the line behind it,
a full line loses its oldest picture. `PrintsWhatItSays` compares `LineLoop` with
the meaning of a program, `DiscardsAsked` relates what is shown to the user with
what would be lost.

### Fairness

* `Consoles`: `SF(ConsolePoll)`: both host loops call `mmb_console_poll` in every
  turn, so the loop cannot be reached for ever without that call, although a chord
  handled earlier in the same turn may disable or change it now and then, which is
  why weak fairness is not enough. `WF(BeginLine \/ Park)`: a program that has
  polled goes on. Nothing makes a *line* end: a FUNCTION that loops for ever keeps
  the program inside one line, where the switch is not looked for, and
  `SwitchHappens` says so in its premise.
* Nothing is assumed of frames, lines and variables, which have no liveness
  property. That every program ends is stated of its steps instead: by `GoesOn`
  the walk goes back in the text only by a NEXT that counts a pass, of which there
  are finitely many, and by the deadlock check it stops nowhere else.
* `TermSessions`: `WF(ServeTerm(c))`, `WF(ServeConnect(c))`: the host loop calls
  `mmb_poll` in every turn, which polls the console shown and runs the callbacks
  of the others.
* `Zmodem`: TERM polls the receiver and its clock runs; the sender, external, goes
  on with the protocol. Nothing is assumed of the line but the bounds on damage.
* `Ftp`: `WF(Poll)` as above, and a client that reads. A client that hangs is one
  whose connection goes away in the end. Nothing makes a client *send*.
* `Ntp`: `WF(Poll)`.
* `TcpDial`: `WF(Status)`, because TERM polls while it is connecting
  (`cmd_term.c` 8487), and `WF(TaskStep)`, because every wait of a task has a limit
  of its own. Which task goes on is not said.
* `TermPresent`: TERM goes on with a present or drain it has begun, and DMA
  transfers and interrupts. Nothing makes TERM draw.

`Running`, `Terminal` and `Services` state the fairness of each part under the condition
that it is the part taken.

### Claims that the code does not keep

These runs check one sentence of a document or comment each, and TLC finds it
violated. All were reproduced with the code built for the desktop, with BASIC
programs or small host programs, except `claim_term`, which takes a network peer
and was read off the code.

| Run | Claim | What happens |
|---|---|---|
| `claim_trap` | `docs/help/on.txt`: "the handler sees the enclosing scope" | SUB, then FUNCTION, then error: the handler inherits the SUB's IF and SELECT depths; 32 such errors exhaust SELECT |
| `claim_editor` | `editor.c` 4703: "finish the run ... once it really ends" | a resumed program that PAUSEs is finished while it runs |
| `claim_landing` | `docs/help/on.txt`: "jumps to the handler when a runtime error occurs during RUN" | the landing is set at the start of a line only: an error before that jumps into a dead or unset frame |
| `claim_term` | `cmd_files.c` 742: without ownership "a second console would reset the connection out from under the first" | leaving a demo or replay session of TERM closes the connection of another console |
| `claim_loops` | `core.c` 4231: "a line body jumps past the matching NEXT line" | an empty FOR goes on behind the NEXT line of an inner FOR that stands after a colon: ?NEXT WITHOUT FOR |
| `claim_context` | `session.h` 2: "Each console owns a complete interpreter context" | the index of names is shared: after X=5 on one console, PRINT X on a new one reads a table that is not there |
| `claim_clear` | `vars.c` 118: "Slots released by a returning LOCAL frame are kept on a LIFO list; alloc_high bounds the never-yet-handed-out prefix" | CLEAR in a SUB with LOCALs: their return frees slots that belong to others by then |
| `claim_cache` | `vars.c` 876: "A frame's LOCALs shadow everything outside it" | a statement compiled for a float X goes on with it where a LOCAL INTEGER X hides it |

### Met on the way

These are in the modules or came up while they were written, and have no run of
their own, either because no document promises otherwise or because the property
that would show them is listed above under a narrower condition.

* `NestedMatchesC` holds in the modes "abort" and "goto" (for every bound by proof)
  and is refuted with `OnError = "skip"`: ON ERROR SKIP leaves the nested frame of
  a FUNCTION that failed, and its caller runs on with the callee's structure.
  `docs/help/on.txt` says of it that "the call stack is not unwound".
* A string given to EXECUTE that closes its caller's loop and opens one of its own
  leaves its own in the caller's slot; `docs/help/execute.txt` says that "the
  caller's IF, SELECT and loop state is unchanged".
* LOCAL X% over a DIM INTEGER X takes the slot's entry out of the index of bare
  names, and the return does not put it back (`mmb_local_restore` calls no
  `hash_rebuild`): a bare X is then a new float variable, against `vars.c` 1020.
  `Uses = {"suffix"}` refutes `IndexAuthoritative`; so does the native build.
* A LOCAL whose initial value fails under ON ERROR SKIP leaves `dim_local` set: the
  next DIM is local to the SUB, in the native build too. `Uses = {"skip"}` has it;
  no property is about it, since `Scoped` allows any binding to be a local one.
* A CONST defined after a statement was compiled is passed over by that statement:
  `mmb_const_define` empties the resolve cache only.
* A file may get a directory below it, and can then be renamed into that: its slots
  are lost until a reset. `vfs.c` 1289 refuses that for directories only.
  `TreeSound` leaves such users (`"under"`) out.
* A warm reset seen by a running program's poll wipes the context under it
  (`Orphan`); `session.c` 224 says it "always lands at a ready prompt".
* What follows an ENDIF on its line is not run when the walk hops over the arm
  before it (`if_skip_pc`), against `tests/test_if_skip.py` 366. `LineLoop` does
  the same; `Shapes = {"endif"}` shows it.
* RUN does not put `G.p` back. When the last line a program runs is one it skips,
  the prompt goes on with what is left of the line before: `10 IF 1 THEN`,
  `20 GOTO 30 : PRINT "left over"`, `30 ELSE`, `40 ENDIF` prints after its end.
  The 28 programs above end in ?NEXT WITHOUT FOR in this way.
* Where both the line is bad and the disk refuses, a sender that hears two ZSKIPs,
  the one for its file and the repeated one, skips two files and ends, and its ZFIN
  keeps what was written of the second (`zmodem.c` 160, 314), against
  `mmb_zmodem.h` 31. `KeptWhole` leaves out behaviours with both troubles.
* A directory more than 8 deep: `ram_path_from_node` (`vfs.c` 166) drops the names
  above, so that CWD$ names another directory, and a relative name is created
  there. In the native build nine MKDIR/CHDIR from `D1` to `D9` end with CWD$
  `A:/D2/D3/.../D9`; OPEN "X" FOR OUTPUT then makes a second tree, and CHDIR
  "A:/D2", which was never made, succeeds. `TreeSound` and `CwdLeadsBack` speak of
  paths that reach the root (`Shallow`).
* A trapped error leaves some restored SELECT depths below those of the caller:
  the unwinding frees slots below `sel_base` that no open SELECT reads. What may
  not be freed is what an *open* SELECT reads, and that is what `OpenSelectsHold`
  says.
* `ntp.c` 275 compares times of 32 bits: a deadline that is looked at for the first
  time 24.8 days late would seem to lie ahead. The polls are not that far apart;
  `ClockAssumption` says so.
* TERM resets the shared receive ring before it asks who owns the socket, and its
  end removes the drain callbacks of every console.
* While a rectangle is pending, the interrupt may start DMA from the standby buffer
  that `plat_term_present_async` is just filling. `docs/graphics-acceleration.md`
  69 says "double bounce buffers so CPU copies never touch memory the in-flight DMA
  reads". The picture is wrong until the next transfer, which follows by itself:
  `ScreenCurrent` holds, and its proof needs the case.
* `term_bounce_ensure` (`platform.cpp` 1060) frees both buffers while DMA may read
  one of them; the junk stays until the cells are presented again. `ScreenCurrent`
  leaves out the behaviours in which that happened (`freed`), and those in which
  memory ran out (`lost`).
* `mmb_net_tcp_status` still answers 1 after a connection that was made is closed.
  When TERM on one console has closed the socket of another, EOF(#n) there stays 0.

## 4. Proofs

TLAPS checks, for every value of the constants allowed by the modules'
assumptions and those named here:

| Theorem | Statement |
|---|---|
| `Typing`, `SnapshotsMatch`, `HandlersReleased` | `OnError # "skip"` implies `Spec => []TypeOK`, `[]NestedMatchesC`, `[]TickBusyLive` of `Frames` |
| `OpenSelectsKept` | the same for `OpenSelectsHold` |
| `LoopsStayClosed` | `NoResurrection`, if moreover no program uses EXECUTE (`"execute" \notin Kinds`) |
| `CallersStay` | `OnError # "skip"` implies `Spec => CallersKept` of `FramesLifo`: `Frames` implements `Activations` |
| `CallersTheorem` | `CallersKept` of `Interpreter`, for its two machines of frames |
| `SlotsTheorem`, `ReplaysTheorem` | `SlotsSound` and `ReplaysItsOwn` of `Variables`, unless CLEAR is reached in a call with LOCALs (`"clear" \notin Uses`) |
| `ScopesTheorem` | `Scoped`, on the same condition: `Variables` implements `Scopes` |
| `IndexTheorem` | `IndexAuthoritative`, unless moreover a LOCAL has a suffix (`"suffix" \notin Uses`) |
| `ConsoleTyping`, `OneForeground`, `ProgramsAlternate`, `ParkedTheorem` | `TypeOK`, `Foreground`, `OneProgram` and `ParkedContinues` of `Consoles` |
| `RingTyping`, `RingCursors` | `TypeOK` and `CursorsAgree` of the ring |
| `RingInOrder` | the ring implements `ByteQueue` |
| `OwnerTheorem`, `OwnBytesTheorem` | `SocketOwned` and `OwnBytes` of `TermSessions` |
| `KeptTheorem` | `KeptWhole` of `Zmodem` |
| `TerminalTyped` | `Typed` of `Terminal`, the type invariants of its three parts |
| `SocketTheorem`, `ToldTheorem` | `SocketAsked` and `ToldForGood` of `TcpDial` |
| `WindowTheorem` | `WindowBounded` of `Ntp` |
| `NamesTheorem`, `TreeTheorem`, `CwdTheorem` | `NamesUnique`, `TreeSound` and `CwdLeadsBack` of `RamDisk` |
| `ScreenTheorem` | `ScreenCurrent` of `TermPresent` |
| `HandlesTheorem`, `CompleteTheorem` | `HandlesHeld` and `CompleteMeansWhole` of `Ftp` |
| `DiscardsTheorem` | `DiscardsAsked` of `PaintUndo` |
| `LineTheorem` | `PaintUndo` implements `PaintHistory` |
| `ServicesTyped` | `Typed` of `Services`, the type invariants of its six parts |

The exclusions in the premises (`"skip"`, `"execute"`, `"clear"`, `"suffix"`) are
programs for which the statement is false; "Met on the way" and the claims show each
of them. The assumptions on constants are named, in the module that declares them,
and TLC evaluates them in the runs: `VariablesAssumption` (a table of at least one
slot, no larger than it may grow), `NobodyAssumption` (no console is called nobody),
`HistoryAssumption` (PAINT keeps at least one picture, and allocations that fail are
counted), `TransferAssumption` (there is room for the file of FTP), `PageAssumption`
(the screen has cells, and what is presented lies within it), `SessionsAssumption`
(the first console is one, and what arrives is counted), `FilesAssumption` (the
sender has a file to send, a file has a block, and repeats are counted),
`ClockAssumption` (two times that are compared are less than half the modulus apart,
and the pauses have a longest), `DiskAssumption` (the table has a root).

A theorem about a part of `Terminal`, `Services` or `Interpreter` is one about the
specification that the run checks. A lemma for each part (`ServicesDisk` and so
on) says that a behaviour of the whole is one of the part: the root's `Init`
contains the part's, and each step of the root is a step of the part or leaves
all its variables alone.

*Frames.* `NestedMatchesC` alone is not inductive. A line loop ends when the frame
on top of `gosub` is marked "nested", and nothing in that guard says that this is
the frame of the innermost loop. `CallsInv` says it: the gosub frames owned by C
frames lie in the order of the C stack, each is marked, and no other frame is.
Then a return that ends a loop pops exactly that loop's frame, and everything
above `Owned` of the C frame below it is gone. `DepthInv` ties `nested` to the C
stack frame by frame, which the RETURN out of several EXECUTE strings needs: it
drops as many snapshots as it leaves islands. `BusyInv` adds that handlers do not
nest, so that the end of one may clear `tick_busy`. The type invariant is proved
together with them, because a pop is well typed only if the frame is there. The
proof goes action by action, after a case split of `Next` into the groups of
`StepCases` and with one lemma (`RaisedStep`) for everything that raises an error.

*SELECTs.* A return truncates the SELECT stack to a depth it had saved, and what it
frees must not be open for anybody who is left. `RunSel` orders the saved frames of
*both* arrays by the time they were saved, although each array alone is in order
for reasons of its own: a frame saved later lies wholly above one saved earlier
(`Under`), and the values between base and top of each are held (`Kept`). The
place of a nested frame among the gosub frames is found through the C frame that
owns it. After a trapped error this order is gone for a while, because the unwinding
restores one array and then the other. `TrapSel` keeps what the trap needs: each
array alone is in order, and the values of the outermost snapshot are held; that
is where the unwinding ends.

*Callers.* `CallersStay` shows that each step of `Frames` is one of `Activations` or
leaves the callers and the running structure alone. The mapping is written as
operators on the variables (`Seen`, `Saved`), so that a step which cuts the arrays
or adds to them is an equation between sets of callers. Three facts go into a
return: the frames that stay are those outside the caller that is landed on
(`LandsOnGosub`, `LandsOnNested`), their slots of the SELECT stack were not freed
(`RunSel` again), and the caller's structure is what its frame had saved. The
invariant `IslandInv` is needed for EXECUTE: what a string calls finds the depth of
gosub frames that the string found (`Rows`), a string whose C frame is on top has at
most one gosub frame above that depth (`OneLeft`), and a SUB called in a string has
begun. So a RETURN out of several strings lands on a caller, and the end of a string
that has called something leaves one activation to its caller: the step `HandOver`.
`CallersTheorem` instantiates `FramesProofs` for each of the two machines of
`Interpreter`, and shows that a behaviour of its part is one of that machine.

*Loops.* `NoResurrection` is an action property. Without EXECUTE no C frame is one
of a string (`NoStrings`), so that a return restores no loop depth from a C frame,
and in every other step the depth falls, is kept, or grows by the one loop opened.

*Variables.* Four parts hold together. `SlotsPart`: a slot below `high` is used or
on the free list, and on it once, also while one slot is between the two during a
restore. `IndexPart`: the entries of both indexes are those of the used slots,
bare names included where no suffix hides one. `CachePart`: an entry of the cache
whose generation agrees with its slot's describes the variable in it. `PendingPart`
is about what is still to come: each saved binding of each active call, in the order
in which it will be restored, has a slot that is used and the generation it will
be given back, and of two saves of one slot the later restored is the earlier
made. A return restores the LOCALs of a call from the last to the first, so the
invariant holds for the part of a call that is left, and `ReturnedSound` goes down
that list. The recursive function in `Returned` is followed by induction over the
numbers in a set, from the library's well-foundedness of `<`, as the theorems that
take an operator cannot be used.

`ScopesTheorem` needs `OwnPart` besides: two used slots differ in their key, what a
slot or a save holds lies at a place of that slot, and a call saves a slot once.
Storage of one key can then never be that of another, and a slot's bindings are
those of the calls that saved it, with one outside of all calls if the first of them
found it. Each operation changes the bindings of one slot (`OneSlotMore`), of the
slots that the call returned from had saved (`BackTo`), or of all.

*Consoles.* `TypeOK /\ Foreground /\ OneProgram` is inductive. The lemma
`SwitchKeepsInv` holds the reason: both callers of `console_do_switch` make sure
that no program runs, so that the parked one it continues is the only one.
`ParkedContinues` needs `Working` besides: a line loop on the stack runs the program
of the console shown, so that what ends, fails or parks is no parked program.

*Ring.* The invariant is the typing of the ring with `CursorsAgree`; the lemmas
`StoredBytes` and `LoadedQueue` say what the two-piece copies do to the unread
bytes, with arithmetic on `Wrapped` in place of a modulus, and `RingStep` maps each
operation to the operation of the queue with the same name.

*TermSessions.* `SocketOwned` is inductive with the typing: every way to the
socket goes through a dial, which takes the ownership, or a hang-up, which gives it
up. `OwnBytes` needs `Apart`: without TERM, who has a session open is the owner, no
console has two, and what has arrived came in on the owner's connection, so that
no session outlives its connection into the next one.

*ZMODEM.* `KeptWhole` has two reasons, and each needs an invariant of its own.
`FaultlessInv` is for a line that may damage, cut and delay anything, and a disk that
takes everything. Both parties then repeat themselves, and frames and replies of the
past are under way in both directions. `Conversation` says where the sender can be
for what the receiver has open and has kept: at the file it offers, which is open or
not, or at the one it sends, which is open or kept. `Replies` and `Requests` say what
may be under way in each of these cases and, more than that, in which order: replies
that belong to an open file come all before, or all after, those that do not,
and pieces of a file lie before the offers of the next or behind those of their own.
So a ZRPOS that is heard late cannot make the sender go on with a file that the
receiver has closed. `Stream` says that the sender's frames fit each other without a
gap, and `Reads` where the receiver is in them; with both, a block that is written is
the next one, and a ZEOF that is accepted comes behind the last. `NoDamageInv` is
for a disk that refuses and a line that does neither damage nor delay: then the two
take turns (`InStep`), there is at most one reply under way, and a ZSKIP passes over
exactly one file, so that the files kept increase, but are no longer the first ones.
Neither invariant holds when both troubles come, and nor does the property (see
"Met on the way"). What is left then is that no more files are kept than the sender
has, which `TerminalTyped` needs. `CountInv` shows it with an order on the line alone:
the offers that are under way are of files above those that were kept (`Above`), and
none above the sender's (`UpTo`); later ones are of later files, and a file is larger
than those that were passed before it (`Later`, `Climbs`, `Passed`). So every file
that is kept uses up one of the sender's.

*TcpDial.* A task knows only its generation. `GenKnown` and `OneEach` say that no
two tasks have the same and none has one to come; `CurrentWanted` says that the
task of the current generation works on the host now wanted, and that nothing was
reached or said of it yet. Then a task whose generation is current may set the
socket, and what an older one has reached is dropped.
`DoneWanted` and `ToldOutcome` carry this to what the poll reports.

*Clock.* `DeadlineTrue` relates the deadline, a time on a clock that wraps, to the
true age: their difference is that of the ages, or one turn more or less. With
`ClockAssumption` the comparison in the code is then the true one.

*RAM disk.* `NamesUnique` is inductive with the typing, since a node is made or moved
only where the walk found no other of its name; the work is in `Made`, which makes
several nodes while it walks. `TreeSound` needs to know that the walk along a path
meets directories only. It does in the table as it was, where no path goes on below
a file (`MadeHeld`); behind the first node that is made every node is new, and
nothing can be below it, because a slot that is free is nobody's parent (`Making`).
`Grounded` excludes cycles as a statement about sets: no nodes have their parents
among themselves. A renamed directory could close a cycle only below itself, and
the directories on the way to its new place are looked at one by one
(`RenamedHeld`). That a path made from the parents leads back (`PathBack`) goes up
the tree one name at a time, each time with the way back from there.

*TermPresent.* `ScreenCurrent` speaks of rest only; `Covered` says why nothing is
lost on the way there. A cell that does not show the page is about to be copied by
the CPU, in the standby buffer of the pending rectangle, or ahead of the DMA
transfer; and one that is ahead of DMA but not readable where DMA reads it will be
brought by one of the other two. `Buffers` says which buffer is whose, with the
exception that an interrupt may have started the one being filled, in which case
the rectangle being copied contains that in flight.

*Ftp.* What a client is told arrives after the state that it is about has changed,
so the invariant relates the replies under way to the transfer. `Counted`: no
command is answered twice. `Moving`: how many chunks the two ends of a data
connection have of the file, in each state of it. `Told`: when the last reply
under way reads "stored" or "fetched" and nothing else was asked, the file is whole
and the data connection gone.

*PaintUndo.* `Depths` says that unless memory ran out the depths shown are those
of the stacks, and with both empty the canvas is the stored picture: then the
question whether to discard is asked whenever it should be. The refinement lays
the two stacks and the canvas out as one line, element by element, and shows each
operation as the step of `PaintHistory` on it.

*Types of the services.* Beside what the invariants above say, `Limits` of FTP needs
`Moving`: an upload is no larger than what was sent, so a file has no more chunks than
the largest one, and `Reached`: a download ends where the file does. The depths that
PAINT shows are those of some earlier stacks (`Shown`), where memory ran out in
between. A rectangle of TERM needs no larger buffer than the page (`NeedFits`), also a
merged one. The type invariants of the dial, the disk and the clock are the least
parts of the invariants that their theorems rest on.

Only model-checked: all of `LineLoop` (its programs and their meaning are recursive),
and so `PrintsWhatItSays` and `GoesOn` of `Running`; and liveness under fairness, which
is out of the prover's reach: `SwitchHappens`, `ConnectDrained`, `AllArrive`, `Answered`, `LinkUsed`,
`DrainEnds`, `DialEnds`.

## 5. Not modelled

* Decoders (images, fonts, archives), drawing, expressions, the tokenizer, the
  mixer and the file formats are sequential functions on data; `tests/` covers them
  with examples, and their size is most of the source. A model of them would be a
  transliteration.
* The user interfaces of the editor, TERM, PAINT, FILES, WORDPAD, help and the
  settings: large dispatches of keys to drawing. What of them shares state with
  others (runs, the socket, the history, the server, the screen) is modelled.
* Arrays, structures and strings: their storage is allocated and freed with the
  slot they lie in, which `Variables` has; what lies in it is data.
* Volumes, hotplug, packages and the network drive: adapters over a device or a
  vendored library. The RAM disk is the one file system that is written here.
* The jukebox and sound owner: their callbacks are in `yield.c`, whose table is
  modelled with the users that have a console.
* Devices (USB, WLAN, SD card) are seen only where they call into the interpreter.
  `third_party` is vendored.

`PROJECT.json` lists every part with its reason, and every hazard with the property
that covers it or the reason why none does.

## 6. What is left

1. DO, WHILE, GOTO and named NEXTs in `LineLoop`, whose tables are built like those
   of FOR; and the typed batch, which needs `LineLoop` and `Consoles` in one state
   space.
2. CONST, parameters and the resolve cache in `Variables`.
3. The owner of the player across consoles; the volumes of `vfs.c` with open files.

## 7. Running

```
tlc -config Interpreter.cfg Interpreter
tlc -config Running.cfg Running
tlc -config Terminal.cfg Terminal
tlc -config Services.cfg Services
tlc -config ClaimContext.cfg Variables
tlc -config ClaimTerm.cfg TermSessions
tlapm FramesProofs.tla
tlapm InterpreterProofs.tla
```

The passing runs take one to three minutes each, `InterpreterProofs` and
`TerminalProofs` about eleven, `FramesProofs` eight, `ServicesProofs` three, everything
else less. To see one part alone, run its own module: `Variables` with `Spec`,
`Consoles` with `Spec`, and so on.
