# A verification project for wayvnc

TLA+ models of [wayvnc](../src), the TLC runs that check them on small
instances, and TLAPS proofs of what holds on every instance. wayvnc is a VNC
server for wlroots-based Wayland compositors. It is a single-threaded program
around an event loop (aml): a Wayland client on one side, a VNC server (neatvnc)
on the other, and a JSON control socket for `wayvncctl`. Everything that goes
wrong in it goes wrong between callbacks, so each model has one action per
callback and lets the environment (compositor, neatvnc, clock, VNC and control
clients) call them in any order.

## The system and its parts

| part | source | module |
| --- | --- | --- |
| capture of an image source with ext-image-copy-capture | `ext-image-copy-capture.c` | `ImageCopyCapture` |
| buffers, their pool, damage per buffer | `buffer.c` | `ImageCopyCapture` |
| frames on their way to neatvnc, rate limiter, clients and power of one output | `main.c`, `output.c` | `FramePipeline` |
| a connection to the control socket, as its client may rely on it | | `CtlChannel` |
| control socket server | `ctl-server.c` | `CtlServer` |
| command line and control client (`wayvncctl`) | `option-parser.c`, `wayvncctl.c`, `ctl-client.c` | `OptionParser`, `CtlClient` |
| life cycle: attach, detach, outputs, image source, clients, shutdown | `main.c`, `wayland.c`, `desktop.c`, `output.c` | `Server` |
| seats and who gets which | `seat.c`, `main.c` | `Seats`, used by `Server` |
| heads, configurations, resizing by clients | `output-management.c`, `main.c` | `OutputManagement`, used by `Server` |
| capture of an output with wlr-screencopy, with its retries and rate limit | `screencopy.c`, `main.c` | `WlrScreencopy` |
| clipboard | `data-control.c` | `Clipboard` |
| keyboard and pointer of a VNC client | `keyboard.c`, `pointer.c`, `transform-util.c`, `main.c` | `Keyboard`, `Pointer`, composed in `Input` |
| configuration, tables, PAM, format look-ups | | not modelled |

How they interact: `main.c` selects an *image source* (an output, the desktop
of all outputs, or a toplevel) and creates a *screencopy* object for it. The
first VNC client acquires power for the outputs and starts the capture. Each
completed frame goes to a *display*, waits there for the rate limiter, is fed to
neatvnc, and starts the next capture. Outputs come and go and can be switched by
command; the server may be attached to and detached from compositors while VNC
clients stay connected. Commands and events pass through the control socket.
Each VNC client has a virtual keyboard, a virtual pointer and a data control
device, which carry its input and its clipboard to the compositor; they belong
to the seat it was given. A client may also ask for another size or layout, which
becomes a configuration of the compositor's heads.

A module `X` with proofs has them in `XProofs`; `ServerFunctions` holds the
lemmas of `ServerProofs` about the functions that the callbacks call. `MCX` and
its configurations instantiate `X` for TLC. Definitions whose comment begins with
"Mutant of" are the faulty variants that show that a property can fail; nothing
else uses them.

## Modules

### ImageCopyCapture and FramePipeline

`ImageCopyCapture` has the state of `struct ext_image_copy_capture` (session,
constraints, frame, buffer, timer, `should_start`, `frame_count`) and of its
`wv_buffer_pool`. Its operators are the listener functions and the
start/stop/schedule functions. `FramePipeline` extends it with
`display->next_frame`, the rate limiter, the number of clients and the output's
power, and assembles the actions.

The picture is abstracted to *cells* (`Cells`) of the screen. `stale[b]` is the
set of cells in which buffer `b` differs from the screen, `view` the set in which
the clients' picture does, `pending` what has changed since the compositor last
reported damage, and `report` the damage of a completed frame still to be
delivered. These four are bookkeeping of the model; the code's own regions are
`frame_damage` and `buffer_damage`. The compositor copies at least what changed
and what the client declared as buffer damage (`CompositorCopy`). neatvnc holds
a frame for any time after it was fed (`NeatvncUnref`). `frame_count` wraps at
`FrameCountMod`, which stands for 2^32.

The asserts of the code are active, as in debug builds: a failed assert sets
`aborted`, and nothing happens afterwards.

### CtlChannel, CtlServer and CtlClient

`CtlChannel` is the abstract specification of one connection: what is asked, the
messages promised to the client (`stream`) and how much of it has been
delivered (`flow`). Requests are answered in their order, events come only after
a registration, messages arrive whole, and the server hangs up only after an
internal error, after the client did, or when it exits.

`CtlServer` implements it. Each control client is a record with the fields of
`struct ctl_client`: the bytes read but not parsed, the queue, the message being
written and how much of it is left, `drop_after_next_send` and `accept_events`.
Messages are records and have a length in units (`ReqUnits`, `MsgUnits`); a read
takes any number of units up to the free space (`ReadCap`) and a write any part
of what is left, so every split of the stream happens. `wire` is what the client
has received. Requests are the kinds that differ in control: commands,
`event_receive`, rejected, malformed and oversized input, and `wayvnc_exit`. The
refinement (`Channel(c)`, `ImplementsChannel`) maps what was sent and not yet
handled to `asked`, and what has been written, is being written and is queued to
`stream`.

`CtlClient` is `wayvncctl` on the other side of the same abstract channel. It is
one thread of blocking calls, and `pc` names the next one. The server may exit,
crash and start again between any two of them, replies may come after the
time-out, reads end anywhere, and a signal may arrive anywhere. The socket's path
is absent, stale (a file that nobody listens on), bound or listening. `out` is the
kind of what was printed last with the number of events since the last
wayvnc-startup. `OptionParser` is the parser of the command line as operators on
a record; an argument is a record of its option names and attached values rather
than a string. Its `Meaning` is the reference it is compared with: what a line means,
without a parser's state.

### Server

The state is one record, `server`, with the fields of `struct wayvnc` and what
main.c uses of `struct wayland`. The callbacks of main.c call each other (a
lost output leads to a switch, which makes new pointers, which recreates the
cursor capture), so every function is an operator from record to record, and an
action applies the composition. `aborted` names the assertion or NULL
dereference that ended the process. `Dangling` is a pointer to an output that
has been freed; a new output may or may not get the same memory (`Announced`).

How the server was started, and on what kind of compositor, is a record too
(`server.setup`, one of the constant `Setups`), so that one specification, one
run and one proof are about all of them.

`Seats` gives each client a seat: any, the one named with `--seat`, or a transient
one. A seating has the list of seats, the code's `occupancy` of each, and the seat
of each client; `Server` applies its operators in the functions that create,
destroy and detach clients. `nvnc_client_close()` is taken to run
`client_destroy()` within the call.

`OutputManagement` has what `output-management.c` knows of the compositor's heads
(none, announced but not described, disabled, enabled), whether its serial is the
latest, and the heads that there really are; events about them arrive one by
one, and the `wl_output`s of the same heads come and go in their own time.
`OnClientResize` makes a configuration of it, and `layout_by` and `layout_fits`
record who did so last and whether all of them were as they should be: no head
enabled that is gone, exactly the disabled ones disabled and, while the server's
outputs are those of the enabled heads (`InStep`), none named twice and, for a
desktop, none omitted.

Simplifications: a capture is merely started or not (`FramePipeline` has the
rest); events that a nested `wl_display_roundtrip()` would dispatch inside a
callback come after it; sizes, positions and modes, values of serials, the
capabilities of seats, `--disable-input`, the answers to a configuration and
allocation failures are left out.

### WlrScreencopy

The older capture protocol: `status`, the timer, the frame object with its
events and the buffer at `front`, beside what main.c adds (retry timer, rate
limiter, `next_frame`, clients, power). Pixels are abstracted as in
`FramePipeline`: `stale`, `pending`, `fed` (what the last frame handed to
neatvnc misses) and `view`. After an immediate copy the compositor may
go on counting damage from that copy or from the last copy with damage; the
protocol leaves it open, and the model allows both.

`powered` is whether the output is on, which wayvnc knows (`power`) only while it
has a `zwlr_output_power_v1`. The first event of such an object tells the present
mode and changes nothing; only an output that is turned on is redrawn as a whole.
`OutputTurned` turns it on or off while wayvnc is not told. `restarted` records
that a capture which had been stopped or had failed was resumed by a copy that
waits for damage.

### Clipboard

A data control device per client, on one connection. Requests take effect at
once; events wait in the order of the connection, so that wayvnc may act on a
selection that has been replaced. Texts are written into and read from pipes of
`PipeCap` units, in pieces. `sources` and `live` record which data sources were
made and which still exist on wayvnc's side. `aborted` is the use of freed
memory: an event for a client that is gone, or a receive context after a failed
`read()`. The functions for the two protocols and for
the two selections are alike, and one definition stands for each pair.

### Keyboard, Pointer and Input

`Keyboard` has `struct keyboard` with its `xkb_state`, and the compositor's view
of the virtual keyboard (`vk`). `LookupTable` is the sorted table that
`keyboard_init()` builds from `Keymap`. A key event sends several requests in one
callback; `SendMods`, `SendKey` and `SendKeyWithLevel` say what each makes of the
virtual keyboard, and `Feed` and `FeedCode` are `keyboard_feed()` and
`keyboard_feed_code()`. `vk.typed` records which symbol the client asked
for and which one the compositor sees. libxkbcommon is modelled as far as the
code uses it: Shift, Caps Lock, group switching and alphabetic keys of two levels.
`Pointer` has `struct pointer` and the virtual pointer; coordinates are
fractions of `Unit`, and storing them in integers truncates them as in C.
`Input` makes, destroys and re-makes both when the server attaches, detaches and
switches. `keyboard_init()` may fail at any of its steps, and the keyboard is then
left as `client_init_keyboard()` leaves it ("failed"): there is a virtual keyboard,
but no keymap, and the next key event ends the process ("crashed").

## Runs

| run | question | result |
| --- | --- | --- |
| `pipeline` | two cells, all failures, stops, power changes: are buffers, damage and order right, and does the capture never go to sleep? | holds |
| `pipeline_live` | with dmabuf formats and no usable render node: do buffers know what they miss, and does the clients' picture become the screen's once that rests? | holds |
| `pipeline_frame_assert` | `assert(!self->frame)` | violated |
| `ctl_order` | two clients, pipelined requests, events at each other: does the server implement `CtlChannel` for each of them? | holds |
| `ctl_errors` | errors and hangups mixed with partial writes: still `CtlChannel`, whole messages, what is answered, what ends a connection | holds |
| `ctl_client` | over nine hundred command lines, and a server that exits, crashes and restarts: are options read right, events neither lost nor invented, is success real, does a command end, does `--reconnect` register again? | holds |
| `server` | nine ways to start the server, with attach, detach, switches and lost outputs; wlr-screencopy with its retry timer; seats of all three modes that come and go; clients that resize while heads come and go: do references, captures, input devices, power, seats and the layout follow? | holds |
| `server_switch_display` | `assert(display)` | violated |
| `server_exit_crash` | does main() run to its end? | violated |
| `wlr_screencopy` | failures, stops, ignored starts, retries: buffers, progress, damage, and the picture in the end | holds |
| `clipboard` | one busy client, or two that read each other: no echo, whole texts, no source destroyed twice, copies arrive | holds |
| `input` | does the compositor see the symbols, keys, modifiers, buttons and positions that a client sends? | holds |

The violated ones are disagreements between the code and its own assertions or
documentation; `PROJECT.json` quotes both sides under `findings`.

### What the properties except

Some properties name an exception, because the code does not promise more.
Each exception is reachable: without it the run fails.

- `SymbolArrives`: `last_sent_group` is not reset when a client gets a new
  virtual keyboard, so after a re-attach the first symbol may be taken from the
  wrong group.
- `KeysReleased`: a key may stay down if the group or the modifiers change while
  it is pressed and its symbol is on another key as well. The release is looked up
  by symbol, and `match_level()` then finds the other key: with a symbol on level 1
  of one key and level 0 of another, pressing Shift and the symbol and releasing
  Shift first leaves a key down.
- `ButtonsFollow`: the buttons of the last event that a virtual pointer got stay in
  `current_mask` when the pointer is made anew, and events are dropped while there
  is none. A button held all the time is not pressed on the new pointer; one that
  was released in between is not pressed either if the first event on the new
  pointer has it again: that press is lost (`pointer.c:101`, `main.c:637`).
- `PointerFollows`: `current_x` and `current_y` are integers, and a move into a
  corner may look like none.
- `NoLostDamage` and `EventuallyCurrent` of `WlrScreencopy`: a copy that is
  discarded after the compositor completed it can take along damage that is not
  reported again, so the capture that follows has to be an immediate one. It is
  not if a frame waits for the rate limiter meanwhile: its sending restarts the
  capture (`wayvnc_start_capture()`, `main.c:1458`), and `wlr_screencopy_start()`
  then ignores the immediate copy that the next client or the retry timer asks for
  (`screencopy.c:298`). That client keeps an old picture until its part of the
  screen changes. `restarted` marks these behaviours.
- `DetachedIsClean`: the transient seat of a client outlives the connection (see
  below).
- `LayoutFits`: the configuration of a single output omits the other enabled heads,
  although "It is a protocol error to omit a head in a configuration"
  (`wlr-output-management-unstable-v1.xml:416`), and a head that has just been
  disabled while its `wl_output` is still listed is both enabled and disabled in
  one configuration. So that none is named twice is claimed while the outputs are
  those of the enabled heads, and that none is omitted for desktops only.
- `PowerOnlyWhileWatched`: with wlr-screencopy a retry timer that is pending when
  the last client leaves acquires the power again for nobody.
- `Reregisters`: half a message of a lost connection stays in the read buffer and
  spoils what the next one sends, so the client may never register again, although
  `wayvncctl.scd` says that it reconnects.
- `CaptureDriven` is about outputs and toplevels: an output that joins a
  desktop without outputs is not captured until the clients reconnect.
- `Answered` leaves out what is pending when `wayvnc-exit` ends the loop, and
  responses behind an internal error: the code answers neither, although
  `wayvnc.scd` says that every request gets a response.

`ReadyIsFresh` and `NextFrameIsNewest` are not invariants of a run of their own;
they are parts of the inductive invariant that is proved below. The same is true
of the type invariants, which document the state.

### What no property excludes

The models have these behaviours of the code as well, and no property is about
them:

- After a failed attach, `on_attach()` goes on to set up clients without a
  connection (`null_wayland` in `Server`); a deferred detach may end a
  connection made after it was scheduled.
- Without `--output`, `--desktop` or `--toplevel` the source is the first output.
  When the last output of a server started with `--detached` goes away and another
  comes before the loop is idle, `on_output_added()` cancels the deferred detach
  but does not select the output (`main.c:239`); the server stays attached without
  a source, and the next command or client that needs one dereferences NULL
  (`null_source`). The setup `Unspecified` has this behaviour; `AttachedHasSource`
  is about the other kinds of source only.
- If the seat named with `--seat` is removed, the next client fails an assertion
  (`no_seat`); a client ends the server as well where there is no seat at all, or
  where the compositor denies a transient one.
- `client_detach_wayland()` keeps the client's transient seat object, which is
  destroyed after its connection when the client leaves (`stale_seat`,
  `main.c:1708`).
- A configured keymap that does not compile, or any other failure of
  `keyboard_init()`, is only logged (`main.c:1930`): the next key event uses a
  keymap that is not there or has been freed, and a detach frees it once more.
- When `read()` on a selection fails, `on_receive()` destroys its context and goes
  on using it (`data-control.c:81`).
- Without an output manager, a layout request for a desktop goes on with a NULL
  configuration (`null_config`).
- `handle_client_resize_output()` makes a client the master before it knows
  whether its request can be met, and `wlr_output_manager_resize_output()` leaves
  the configuration of one that cannot be met behind.
- `--toplevel` stores its identifier as that of an output (`main.c:2664`).
- Of two selections that are read at once the older may be finished last, so that
  VNC clients keep the older text.
- `wayvncctl --wait` fails on a stale socket, and while it waits for a socket it
  notices a signal only if that interrupts a sleep.

### Bounds

- Pipeline: two cells are enough to tell "the damaged part" from "the rest";
  two or three buffers give one in flight, one waiting for the rate limiter and
  one held by neatvnc; one or two clients give first, last and other clients;
  `FrameCountMod` is small so that the wrap-around happens.
- Control socket: two clients with two requests each, messages of two units, so
  that a message can be half written when another is queued; the read buffer
  holds little more than one request, so that it fills up.
- Server: two outputs are needed to switch and to fall back, and losing both
  reaches the last one; two clients distinguish the cursor master from others
  and the last client from others. The state is finite without further bounds.
  Clients are symmetric. The setups with seats have three of them, of which up to
  two are there at first, so that one can be free, shared or new; they have one
  output. The setups with resizing have two heads, so that one can be gone, new or
  disabled while the other is displayed.
- Control client: lines of up to three arguments with every kind of option,
  cluster, value and subcommand (three only behind those that change how the rest
  is read); messages of two units and a buffer of three, so that a second message
  is cut; up to three messages on a connection, two starts of a server (the second
  after a crash or an exit), one time-out and one signal. A message fits into the
  read buffer, which the code needs as well.
- wlr-screencopy: two cells, two buffers and two clients, as for the pipeline.
- Clipboard: `Loads` bounds how many clients there are and what they do. One
  client that cuts twice has replaced sources with pending events; two clients
  have wayvnc at both ends of a pipe. A pipe of one unit splits every text.
- Input: two groups that exchange two symbols and have one each to themselves, one
  symbol that is on two keys of a group at different levels, at most two keys held,
  two attaches. A behaviour uses the keyboard or the
  pointer (`Uses`), since they share no state. `Unit` is 2, so that there is a
  point between the edges.

### Fairness

`FairSpec` of `FramePipeline` is weakly fair to the timers and to events that
have arrived, because the event loop dispatches every ready handler, and to the
compositor announcing constraints of a session. It is strongly fair to the
compositor completing a capture after a change, because the compositor may
reject buffers in between but not forever. Screen changes, clients, power and
failures have no fairness. `WlrScreencopy` is treated likewise, with strong
fairness also for the compositor announcing a frame's buffer, since stops may
intervene. `Clipboard` is weakly fair to dispatching events, to reads and writes
of pipes that are ready, and to programs that write a selection they offer;
programs need not read. `CtlServer` is weakly fair to reads and writes of
connected clients, for the same reason; peers need not send or hang up.
`CtlClient` is weakly fair to the client's own steps, since it is one thread whose
calls return when they can, and to the time-out of a single command, which
`poll()` guarantees. That is all that `SingleEnds` needs: the server may hang.
`Reregisters` has as its premise `ServerFairness`, a server that handles requests,
writes, and finishes starting and stopping. Restarts, crashes, late answers, events
and signals have no fairness.

## Proofs

The assumptions of all proofs are the named `ASSUME`s on constants, which TLC
evaluates on every run; they leave the sets of clients, outputs, buffers and cells
open. Each inductive invariant was model-checked first.

**The capture pipeline.** `FramePipelineProofs` proves, for every set of cells,
buffers, formats and clients and with or without a power manager:

- `TypeCorrect`, `BufferAgeHolds`, `NoLostDamageHolds`, `ExclusiveBuffersHolds`:
  the safety invariants of the pipeline;
- `NoStallHolds`: while clients watch a powered output, something will start
  the next capture.

The damage properties need each other. That the clients' picture misses nothing
(`NoLostDamage`) rests on the frame being complete when it is delivered
(`ReadyIsFresh`) and on a waiting frame being the newest (`NextFrameIsNewest`);
completeness rests on every buffer knowing what it misses (`BufferAge`); and all
rest on buffers not being shared (`ExclusiveBuffers`). The inductive invariant
`Inv` is their conjunction with `TypeOK`, proved in `InvHolds` with one lemma per
action and conjunct. `NoStall` has its own strengthening, `ProgressInv`: a
waiting frame has an armed rate limiter, a session outlives its frames and
timers, and power is known only while it is managed.

**wlr-screencopy.** `WlrScreencopyProofs` proves `ExclusiveBuffers`, `NoStall` and
`NoLostDamage`, with and without a power manager. Damage is not kept per buffer here,
and that of failed frames is thrown away, so the invariant (`DamageInv`) is about a
chain: what the clients' picture, the last frame sent and a waiting frame lack is
still to be reported by the compositor, or in the completed frame, or in the waiting
one. It holds while a capture of an output that is on goes on from the last completed
frame (`Continued`); an immediate copy starts the chain anew.

**The server.** `ServerProofs` proves `DetachedIsClean`, `SourceObserved`,
`CaptureMatchesSource`, `LayoutFits` and the action property `LayoutOwned` for
every set of setups. The invariant (`Inv` in `Server`, `IInv` in the proof) has
five parts. `SourceInv`: the source, its observers, the screen and the cursor
capture agree, an output that is the source is in the list, and a cursor capture
has a connected master (a capture without one would outlive the source that it is
of). `DetachedInv`: what a detached server does not have, which includes the list
of outputs and the power that callbacks would follow. `LayoutInv`: while the serial
is the latest, the known heads are the real ones; no output is listed twice, and the
displays are of listed outputs. `DesktopInv`: a desktop has a display for each
output, so that its configuration omits none. `MasterInv`: who changed the layout is the master, who is connected.
Between the parts of a callback some of this does not hold: an output that is being
removed is still observed. So `ServerFunctions` has one lemma per function about
what it changes and which part it keeps or restores (`Base`, `Leaving`, `Sound`), and
`ServerProofs` has one per callback.

**The control client.** `CtlClientProofs` proves `SuccessIsReal` and the action
property `Brackets` for every command line and every behaviour of the server that
`CtlChannel` allows, with crashes. `SessionInv` says what has been printed given the
call that the client is in and what it reads an answer for. A bit of `out` changes
with every print, so that printing the same thing twice is a step that `Brackets`
sees.

**Input.** `InputProofs` proves `KeyboardAgrees` for every keymap, and `ButtonsFollow`
and `PointerFollows` for every resolution, set of points and set of transforms. The
keyboard's invariant is `KeyboardAgrees` itself; the pointer's (`PointerInv`) adds that
`current_mask` is the mask of the last event that reached a virtual pointer, and that
the buttons the compositor has are those of `current_mask` but for those carried over
from an earlier virtual pointer.

**Only model-checked** are

- liveness: `EventuallyCurrent`, `Answered`, `ErrorDisconnects`, `CopyArrives`,
  `SingleEnds`, `Reregisters`, which the proof system does not reach;
- what rests on folds, sums or flattened sequences, where a proof would need an
  induction over data: `ImplementsChannel` and `Framing` (the stream as a
  concatenation of messages), `OptionsParsed` and `EventsFaithful`, `SeatsCounted`
  and `SharedWhenFull` with `ClientsHaveObjects` (seats are dealt out client by
  client), `NoEcho`, `OneText` and `SourcesAlive`, `SymbolArrives` and `KeysReleased`
  (the sorted look-up table);
- `PowerOnlyWhileWatched`, `CaptureDriven` and `AttachedHasSource` of `Server`.

## Not modelled

Parsing of the configuration, tables on the terminal, PAM, pixel format tables
and shared-memory helpers are sequential code whose results no interleaving can
change. Nested event dispatch is a hazard that the models leave out: a handler
that waits in `wl_display_roundtrip()` runs to its end first. Left out as well are
allocation failures and what follows them (such as the growth of an `intset`), and
any recovery from a fatal capture or power failure, which the code does not
attempt. Cursor sessions of ext-image-copy-capture differ from screen sessions in
what they report only. The frames of several outputs of a desktop share the rate
limiter and the display list; `Server` has their captures started and stopped, and
`FramePipeline` the path of the frames of one.
