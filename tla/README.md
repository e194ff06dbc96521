# OpenVBus: a verification project

TLA+ models of OpenVBus, TLC configurations that check them on small instances, and
theorems about them checked by TLAPS. OpenVBus is a daemon (`vbusd`) that keeps virtual
Ethernet and CAN buses in memory, delivers frames on them after a simulated serialisation
delay, captures real UDP/TCP traffic onto them, records them to files, replays the files,
and streams frames to a GUI over a named pipe. All source lines are under `src/`.

## 1. Inventory

| Component | State | Operations | Talks to |
|---|---|---|---|
| Scheduler, clock (`vbus/src/core`) | heap of (due time, callback), mutex | `post`, `run_until`, `run` | posted to by every sender; drained by the daemon's main loop |
| Eth/CAN bus (`vbus/src/bus`) | endpoint list, record/subscribe/forward callbacks, counters | `Send`, `Connect`, `Disconnect`, `Set*Cb` | scheduler, callbacks |
| Recorder, replayer (`vbus/src/taps`) | an output or input stream | `Open`, `Write`, `Close`; `Open`, `Next` | called from deliveries; from replay threads |
| UDP capture (`vbus/src/net/udp_endpoint`) | socket, running flag, thread | `start`, `stop`, receive loop | `Send` on its bus |
| UDP sink (`vbus/src/net/udp_sink`) | socket, active flag | `start`, `stop`, `forward` | called from inside `Send` |
| TCP proxy (`vbus/src/net/tcp_proxy`) | listener, running flag, accept thread, one connection | `start`, `stop`, accept loop, two relays | `Send` on its bus |
| Daemon (`vbus/src/daemon/vbusd.cpp`) | `g_buses` under `g_mtx`, `g_sched`, `g_shutdown`, one thread per connection, detached replay threads, one `SubInfo` per bus | the commands of `handle_cmd`, the main loop, exit | everything above |
| GUI (`vbus-gui/src`) | its own list of buses, subscriptions, frame queue, project file | `Model`, `DaemonClient`, `ProjectIO` | the daemon's pipe |
| vbusctl, vbus_bench, C client | a connection; counters; nothing | one command; load generation; stubs | the pipe; sockets |

**How a frame travels.** `Send` stamps it, copies the callbacks under the bus's mutex, calls
the forward callback at once on the caller's thread, and posts a lambda that owns copies of
the record and subscribe callbacks. The main thread later drains the scheduler and runs the
lambda: the recorder writes to its file, the subscriber's callback writes to a pipe.

**What is hard.** Five kinds of threads touch the same bus: connection threads (nearly always
under `g_mtx`), capture threads and replay threads (never under it), the main thread (under
it only at exit) and the thread that returns from `main` and destroys the statics. Stopping a capture
means joining a thread while `g_mtx` is held. Deliveries outlive the `record off`, `delete`
or `quit` that follows the `Send`. A pipe handle changes owner in the middle of a command.
Two relay threads share two sockets. Two sources of time (the clock read before the drain,
the due time computed before the post) race.

**What makes each component correct.**

- Scheduler: a job is run once, not early, in the end, and overtaken only by what was there first.
- Bus and recorder: a frame reaches exactly the recorder it was sent under; an open file is
  never written after its close.
- Captures: no thread sends on a bus that is gone; one capture per bus; `stop` returns.
- TCP proxy: both streams are relayed in order without loss or repetition, the capture holds
  the same stream, nothing stays open.
- Daemon: every command is answered, `delete` leaves nothing behind, handles are closed once,
  `quit` ends the process.
- GUI: what a row shows is what the daemon does for it, a removed row leaves nothing in the
  daemon, packets are shown in order and only those the filters select, a project comes back as it
  was written.
- vbus_bench: the rate is kept, in every window and in the long run, and the end ends it.

The hazards behind these, each at its line, are in `PROJECT.json`.

## 2. Modules

| Module | Models | Role |
|---|---|---|
| `DelayQueue` | what a bus needs from the scheduler | abstract specification |
| `Scheduler` | `scheduler.{h,cpp}`, the clock, the senders and the driver | implements `DelayQueue` |
| `Scheduler_proofs` | | theorems about `Scheduler` |
| `Daemon` | `vbusd.cpp` with the bus, recorder, UDP capture and UDP sink | the composition |
| `Daemon_proofs` | | theorems about `Daemon` |
| `TcpProxy` | `tcp_proxy.{h,cpp}` | the relay, which `Daemon` sees as one capture thread |
| `TcpProxy_proofs` | | theorems about `TcpProxy` |
| `Replay` | recording order, `replay`, `replay-udp`, `replay-sync` and their timing | the time `Daemon` leaves out |
| `Replay_proofs` | | theorems about `Replay` |
| `Gui` | `vbus-gui/src`: the model behind the window, project files, start and exit, buttons | the daemon as the window sees it |
| `Gui_proofs` | | theorems about `Gui` |
| `Glob` | `glob_match`, the filters | algorithm, used by `Gui` |
| `Glob_proofs` | | theorems about `Glob`, and the lemmas on loops that `Gui_proofs` and `VbusCap_proofs` use too |
| `Bench` | `vbus_bench.cpp`: the paced sender and the sink | two processes |
| `Bench_proofs` | | theorems about `Bench` |
| `VbusCap` | the VBUSCAP file: layout, writer, reader | algorithm, used by `Gui` and `MCReplay` |
| `VbusCap_proofs` | | theorem about `VbusCap` |
| `Frames` | payload parsing, delays, protocol and tag of a frame | algorithms |
| `Commands` | the way of a command line: `vbusctl`, `openPipe`, `split`, `replay-sync`; the arguments of `vbus_bench` | algorithms |
| `RingBuffer` | `util/ringbuffer.h` | algorithm |
| `GlLoader` | `glad.c` and the start of `main.cpp`: the functions the window may call | algorithms |
| `MCScheduler`, `MCDaemon`, `MCTcpProxy`, `MCReplay`, `MCGui`, `MCBench` | | instances for TLC, with the checks of the algorithms |

### Scheduler

A job is one callback. `Stamp` is the part of `Send` that reads the clock and adds the
delay; `Post` is `post()`. `CallRunUntil` is the main loop reading the clock (`tmax`), `Pop`
one turn of the drain loop under the mutex, `EndDrain` its end, `RunItem` one call of
`item.fn()`, `Return` the end of `run_until`. `run()` is the same without the comparison.
The `ready` vector is the part of `popped` beyond `nrun`. `Children` are the jobs a callback
posts (an endpoint's `On_rx` that sends). `gone` is a history variable: what had been popped
when a job was posted.

The refinement maps a posted job to *held* until its callback is entered, and hides when the
sender stamped it and how the driver batches. `run()` maps to `Expedite`.

### Daemon

State: `reg` is `g_buses`; `bus[b]` is the `BusWrap` and the three callbacks of its bus;
`cap`, `sinkSt`, `recSt` are the captures, sinks and recorders by identity; `rp` the replay
threads with their raw bus pointer; `conn` the connection threads; `pipe` is `SubInfo::pipe`;
`out` the messages in each pipe towards its client; `send[t]` the call of `Send` thread `t`
is in; `pend` and `ready` the scheduler's heap and the batch being run; `main` the main thread.
Objects have identities that are never reused, so a dangling pointer is recognisable.
A recorder is held by `shared_ptr`: its entry's, and the copies in the bus's callback, in a `Send` under way, in a
delivery that waits and in one of the batch (`held`, until `run_until` returns). Whatever drops a reference closes the
file if it was the last (`CloseUnheld`). `owed[n]` is a history variable: the recorder whose callback frame `n` captured.

A handler is one action when it runs under `g_mtx` and neither waits nor meets a thread that is
not under it; otherwise it is split where another thread can see the difference: before a join, before and after
`SubInfo::mtx`, between clearing a callback and installing the next. `Send` is three steps:
the snapshot, the forward callback, the post.

| Code | Actions |
|---|---|
| `Send` | `EnterSend` (in the caller's action), `SendSnap`, `SendFwd`, `SendPost`, `SendPostLate` |
| `UdpEndpoint::recvLoop`, `TcpProxy` as a capture | `CapCheck` ... `CapSent` |
| replay thread | `ReplayFrame`, `ReplayEnd` |
| `list`, `stats` | `Look`, which waits for `g_mtx` as the others do |
| `create`, `record`, `stoprec`, `send-*`, `replay` | `Create`, `RecordOff`, `RecordOnDetach/Open`, `SendCmd(Return)`, `ReplayLookup/Start` |
| `capture-*`, `stop-capture`, `forward-udp`, `stop-forward` | `CaptureStop`, `CaptureStopped`, `CaptureStart`, `ForwardReset/Start`, `StopForward` |
| `subscribe`, `delete`, `quit` | `Subscribe(Attach, SetCb)`, `Delete(Unsub, Unrecord, Erase)`, `Quit` |
| connection thread | `Request`, `WriteReply`, `ConnEnd` |
| main loop and delivery | `MainCheck`, `MainDrain`, `MainNext`, `MainRecord`, `MainSub`, `MainWrite` |
| end of `main`, static destruction | `MainClose`, `MainDestroySched/Sink/Bus`, `MainExit` |

`SendPostLate` is a `post` to the scheduler that `main` has already destroyed: undefined behaviour, whose two outcomes
are a frame that nobody runs and the crash of the process.

Abstractions: due times (the scheduler's own module has them) - a drain takes any set of
pending deliveries and runs it in any order; EthHub and CanBus differ only in their delay and
are one kind of bus; a failed `Open`, `start` or connect is
a choice. Endpoints do not occur because the daemon never calls `Connect`.

### TcpProxy

`half[e]` is the relay that reads from peer `e`: the client's half runs on the accept thread,
the server's on a helper. `inflow`, `got` and `recorded` are the chunks on their way to the proxy,
delivered to the other peer, and injected into the bus. A send towards a peer that has
closed may succeed and lose the data, or fail; a chunk is sent whole, because the sockets
block, and a relay is held up in `send` while the peer has `unread` as much as its socket takes (`PeerRoom`) and does not
read (`PeerRead`); closing a connection may discard what is still on its way. `stop()` is `Stop` (the
running flag), `StopClose` (the listener) and `StopJoined`.

### Replay

`Stamp`, `Schedule` and `Post` are `Send` as far as times go: the stamp, the second reading
of the clock with the delay added, the post. `Write` is a delivery, earliest due first, with
`Recorder::Write`. Then one command is given. `ReplayCmd` stands for `replay` and
`replay-udp`, which time their frames alike (where `replay` sends to is `Daemon`'s
subject); `ReplaySyncCmd` reads the first record of every file and fixes origin and start.
A thread's `Begin`, `ReadRecord`, `Fire` and `EndOfFile` are its loop. The arithmetic is the
code's: a difference modulo `2^W`, rounded as a double near the top of the range, scaled by a
fraction, and converted back, where a product outside the range may become anything (the
conversion is undefined). `W = 5` and `Ulp = 2` stand for 64 and 2048.

### Gui

`s` is `AppState` and `Model` of the running window, `d[n]` what the daemon has under name `n`, `disk`
and `recent` the project files and `last_project.txt`, `queue` the frames the reader threads have
queued for the window. One action is one handler of the window's thread, except that a save and a load write two files
and the process may end in between: the first half sets `job`, `Finish` is the second, with the sync of a load that only
follows it, and `Killed` may come first. `User` is the dock space, `Inspector`, `BusList` and `Project` the panels and the
menu, with the conditions under which a button is there. `TickOnly` and `TickPing` are `Model::tick` between two pings and with
one: the ping with its sync (`Ping`), the queue (`Drain`, `Push`), synthetic traffic (`Mock`). `Launch`, `Exit` and
`Killed` are the process; `DaemonStops` and `DaemonStarts` the daemon's. Operations that call others (`DeleteBus`,
`LoadProject`, `SyncBusesToDaemon`) are functions of the world `[s, d]`; a loop over rows or over the queue is `Loop`, a
function of the turns done.

A command is `<<row, word>>`, and each handler chooses which of its commands are `lost`: `sendCmd` returns false although the
daemon lives, its pipe being busy for all five attempts or its listener gone, and a ping may fail for the same reasons. A command
that is lost, that finds no daemon, or that names a bus the daemon does not have, changes nothing there, and the window draws its own conclusions,
which differ from button to button: a start looks for `OK`, an attachment only for `ERR`, a stop or a delete at nothing (`Looked`).

`d[n].users` is a history variable: the rows whose commands have named the bus, and 0 for a row that
has been renamed, whose window has ended, or which has let go of something here without the daemon hearing of it
(`Forgotten`). `ShownIsTrue` and `NothingLeftBehind` speak of buses that one living row alone has used and of which no stop,
capture or delete was lost. In those cases, with duplicate names and after a rename, the row and the bus do disagree, and nothing
promises otherwise; what the properties exclude is that they disagree for any other reason, such as a refusal, a lost start or another row's commands. That no
subscriber outlives its row holds whatever is lost. `Carry` takes the
daemon's header (32 bytes with padding, `Cap!HeaderSize(TRUE)`) and the reader's (24): the length that is read is
the upper half of the time stamp, and a message shorter than that is dropped.

Abstractions: the daemon neither ends nor starts within a handler; no other client uses its buses;
of a row, its name, recording path, interface, flags, filters and packets are kept; a synthetic packet is
drawn one way; the pipe between daemon and reader is part of `Carry`; a file is as the
program wrote it, or cut short. A window whose `stop-capture` hangs (run `stop_tcp`) hangs with it, which is not modelled here.

### Bench

`Fill` is a pass of the loop down to the send or the sleep, `SendUdp`/`SendTcp` the send with
its payment, `Wake` the end of the sleep, `Leave` and `SenderJoin` the end. The refill is
the exact quotient rounded down, where the code computes it in doubles. The sink's threads, the reporters and Ctrl-C
follow; what they count and print, and the fate of datagrams, are left out.

### Algorithms, checked by evaluation

These are pure functions; each has an `ASSUME` in an MC module that TLC evaluates over all small inputs:

| Assumption (module) | Says |
|---|---|
| `GlobAgrees` (`MCGui`) | `GlobMatch`, with its backing up to the last `*`, decides `Matches`, what the pattern means; proved for all by `GlobCorrect` |
| `RingReadsInside` (`MCGui`) | going through a `RingBuffer` is right exactly until a push follows the one that filled it |
| `LoadedIsCallable` (`MCGui`) | the loader calls only pointers it has set, and what it says yes to can be drawn with, if it could read the version; `find_coreGL` reads two integers nobody has assigned where the text holds fewer numbers |
| `WindowStarts` (`MCGui`) | with exit code 2 the window does not start on a driver that reports no extension |
| `ExtensionsFound` (`MCGui`) | `has_ext` finds every name of the list, and wrongly only one whose double ends another name |
| `HexAgrees` (`MCDaemon`) | a payload is the number its digits stand for; an odd number of digits gives no bytes |
| `DelayIsExact`, `TagsAreDistinct`, `CarriedOnceIsCarried` (`MCDaemon`) | a delay is the time of the bits rounded down and grows with the frame; a tag tells senders apart; what a bus makes of a protocol it leaves alone the next time |
| `ArgumentsArrive` (`MCDaemon`) | arguments reach the handler as they were given exactly when none is empty or has a blank: a path with a blank does not |
| `EveryStreamRead`, `OpenPipeEnds` (`MCDaemon`) | `replay-sync` reads each word into one stream; `openPipe` waits 1250 ms at most |
| `CutFileReplaysWhole`, `PackedLengthIsInTime` (`MCReplay`) | a recording cut anywhere replays the whole records before the cut, proved for all by the theorem of that name; a packed reader finds the length within the time stamp |
| `TimesFit` (`MCReplay`) | the instances satisfy `NoOverflow`, which two theorems about `Replay` suppose |
| `PacketsManageable` (`MCBench`) | up to 10 Gbit/s the sender needs at most 40,000 packets a second |
| `StartedAsAsked` (`MCBench`) | a rate is the same with every suffix; a sender starts once it has a rate, without a duration for good |

### Faulty variants

Definitions with a trailing remark such as `PopKeepsItem(j) == \* top() without pop()` stand before the
definition they vary and are used by no specification. Each is one plausible slip;
substituted for the definition it precedes it makes the property named in `PROJECT.json` fail,
which shows that the property depends on the code being as it is.

## 3. Runs

| Run | Checks | States |
|---|---|---|
| `scheduler` | `TypeOK`, `PriorityOrder`, `ExactlyOnce`, `NeverEarly`, `EveryDueJobRuns`, `ImplementsFairDelayQueue` | 48,651 |
| `daemon_objects` | `TypeOK` and eight ownership invariants | about 1,103,000 |
| `daemon_waits` | `Answered`, `QuitTerminates`, `RecordedEventually`, `DetachedFileClosesEventually` | 125,672 |
| `tcp_proxy` | `TypeOK`, `RelayedInOrder`, `RecordedAsRelayed`, `NothingLeftOpen`, `ClientCloseReachesServer`, `StopReturns` | 86,233 |
| `replay` | `TypeOK`, `NeverBeforeOffset`, `SharedTimebase`, `AllSent` | 669,721 |
| `gui` | `TypeOK`, `ShownIsTrue`, `NothingLeftBehind`, `RingOrdered`, `OnlySelectedShown`, `RestoredOnLaunch`, `SyncedOnConnect` | 403,659 |
| `bench` | `TypeOK`, `WindowBound`, `Accounted`, `StopEnds` | 275,048 |
| `replay_delete`, `stop_tcp`, `record_off`, `subscribe_ack`, `replay_scale` | one documented statement each, violated | |

**Bounds.** `scheduler`: a job with delay 2, one with 0 and a child with 1 fall due in every
order and together, also after the clock has passed them; four ticks let a batch be drained
late. `daemon_objects`: four commands over one name are enough to create a bus, attach
something, and race two more commands with its use; two buses let the name be
reused while threads still hold the first one. One frame passes all its stages against them; properties that
relate two frames are not claimed. Clients are interchangeable there (both may hang up), so
the run uses their symmetry; it checks no liveness. `daemon_waits`: any four of the commands that wait for something or
give others something to wait for, from two connections, and one frame, no symmetry. Four let a subscriber's pipe fill
up before a `quit` or a `delete` (`create`, `subscribe`, `capture-udp`, then either), and a `record off`, a `delete`, a second `record on` or a `quit`
race a frame that is owed to a recorder (`create`, `record on`, `capture-udp`, then any); two buses let a name be taken again. The
commands that neither wait nor are waited for (`list`, `stats`, `send`, `replay`, forwarding) are in `daemon_objects`.
`tcp_proxy`: two chunks per direction show loss, repetition and reordering, and the second finds no room where a peer takes one
unread (`PeerRoom`); two connections show leftovers of the first. `replay`: three frames let one file be out of order beside a second
file; stamps that differ by one and delays that differ by two already give records older than the
origin, so differences that wrap and products out of range both occur. `gui`: two rows and two names
give duplicates, renames onto another row and names taken again; four user operations, frames and launches, with any number of ticks, pings, ends of the daemon and ends of
the window between them, reach every pair of operations around a restart; of the commands of one handler none, any one, or all are
lost; a ring of two overflows. `bench`: three bits in two
ticks leave a fraction at each refill; a packet of two bits is sent whole or in parts; five ticks
let the bucket fill and spill, and outlast the duration. Every bound is a constant (`MaxTime`, `MaxCmds`, `MaxFrames`,
`PipeCap`, `MaxChunks`, `MaxConns`, `PeerRoom`, `LastSend`, `LastStart`, `MaxRecords`, `MaxBuses`,
`MaxEvents`, `RingCap`, `Losses`, `Buffers`) and appears in a guard.

**Deadlock** is checked except in `tcp_proxy`, where the peers may stop sending for good, in
`replay`, which ends with the last frame, in `gui`, whose events are bounded, and in `bench`, which
ends with its processes; in `Daemon` the
only stuttering state is the one after the process has ended.

**Fairness.** `scheduler`: the clock advances, the driver keeps looping, callbacks proceed;
`Post` is strongly fair because the main loop sleeps 1 ms per turn with the mutex
free (`vbusd.cpp:599`), so a blocked sender gets in. `daemon_waits`: the threads of the process run (weakly fair:
a thread gets a mutex once it stays free), a pending frame is
in the end due, and clients read what they are sent. The last is an assumption about
clients that the daemon needs: a subscriber that stops reading stops the main thread in
`WriteFile`. Nothing is assumed of datagrams, of TCP peers or of commands. `tcp_proxy`: the threads
run, the *client* of a connection closes in the end, and the *server* reads what it is sent until it closes. Both are assumptions about the
peers that the code needs: without the first, `stop` does not return, and without the second neither does a relay that blocks
in `send`, which then does not see the client's close either.
`replay`: time passes and the replay threads run. `gui`: the window's thread goes on with a save or load it has begun (`Finish`), its loop runs and its clock passes
2 s again and again, and while a list waits for its sync a daemon that stays answers one of these pings in the end
(`TickPing(TRUE)`); nothing is assumed of the user, the frames or the daemon, nor of any other command. `bench`: each
thread that can go on does, and time passes; when the clock has reached its bound, who sleeps may wake.

**Violations**, each a statement of the documents or of a client that the code does not keep:

- `replay_delete`: `protocol.md:118` promises all frames on the named bus; the replay thread
  uses the pointer it read before `delete` destroyed the bus (`vbusd.cpp:287,312`).
- `stop_tcp`: `protocol.md:142`; `stop-capture` joins, with `g_mtx` held, a thread that sits
  in `recv` without a timeout for as long as the peers stay connected.
- `record_off`: `protocol.md:71` says the file is closed; deliveries in flight keep it open
  and write to it after the answer.
- `subscribe_ack`: `daemon_client.cpp:78` reads the acknowledgement first; the daemon installs
  the subscriber before it writes the acknowledgement, so a frame can precede it.
- `replay_scale`: `protocol.md:182` multiplies the gaps; a record older than the first one of
  its file (two senders, or delays that differ) wraps, and at `scale:0.5` the replay waits for
  2^63 ns. `AllSent` therefore speaks of files without such a record. The same cause hides in
  `protocol.md:164`, "the minimum `Ts_ns` found across all capture files": only the first record
  of each file is looked at (`vbusd.cpp:474`).

## 4. Theorems

`Scheduler_proofs` proves, from `SchedulerAssumption` alone (delays are naturals, children are
jobs), for every set of jobs and every delay:

| Theorem | States |
|---|---|
| `TypeCorrect` | `Spec => []TypeOK` |
| `PriorityOrderHolds` | `Spec => []PriorityOrder` |
| `ExactlyOnceHolds` | `Spec => []ExactlyOnce` |
| `NeverEarlyHolds` | `Spec => NeverEarly` |
| `Refinement` | `Spec => ImplementsDelayQueue` |

`PriorityOrder` is not inductive: it says nothing of what is still in the heap. `NoSkip` adds
that an item still queued and due before something popped was posted after that pop; a pop
takes a minimum, so it turns the one into the other. `Placement` (what is popped has left the
heap) gives `ExactlyOnce`. `Timely` (the items not yet run were due at `tmax`, and `tmax` is
not ahead of the clock) gives `NeverEarly` and the `HandOver` step of the refinement. The proof has a lemma per kind of
step (`PopPreserves`, `SendPreserves`, `QuietStep`), and the theorems combine
them with `PTL`.

`Bench_proofs` proves, from `BenchAssumption` (packets, the unit and the rate are naturals, the first
two positive), for every packet size, rate, duration and bound:

| Theorem | States |
|---|---|
| `TypeCorrect` | `Spec => []TypeOK` |
| `Paced` | `Spec => []WindowBound` |
| `PaidIsAccounted` | `Spec => []Accounted` |

`hist.excess` is a leaky bucket that watches the sender: it rises by what is sent, times `Unit`, and falls by
`Rate` in each tick, never below zero, so it is the most by which a window that ends now exceeds the rate.
`WindowBound` is not inductive. `Window` adds that excess and bucket together (`Unspent`) stay within
five packets, and still do with what the next refill will add (`Pending`), unless the bucket
was left alone so long that the excess has drained, but for the one packet sent since. A send moves bits from
the bucket to the excess; a refill turns `Pending` into tokens, up to the cap; a tick moves excess
to `Pending`. Five packets and not the
four of the cap: a sender held up between refill and send sends its packet and
finds a full bucket after it. `Accounted` needs only that a refill rounds away less than one bit
(`Rounded`, `RefillRounds`). Its proof splits by the kind of step as `Scheduler_proofs` does.

`Daemon_proofs` proves, from `DaemonAssumption` (the bounds are naturals, `None` is no object, a thread is a
connection, a capture or a replay), for any number of connections, names, objects, commands and frames:

| Theorem | States |
|---|---|
| `TypeCorrect` | `Spec => []TypeOK` |
| `HandleOwned` | `Spec => []HandleOwnership` |
| `RecorderOpen` | `Spec => []RecorderOpenAtDelivery` |
| `NoFrameLost` | `Spec => []RecordedOrInFlight` |
| `OwnersOnLiveBus`, `OneCapture`, `CallbacksMatch`, `DeleteComplete`, `CommandsForward` | `Spec => [](~TearingDown => P)` for `P` each of `OwnersSendOnLiveBus`, `OneCapturePerBus`, `CallbacksMatchOwners`, `DeleteLeavesNothing`, `CommandsForwardToLiveSink` |
| `SafeUntilQuit` | `Spec => []P` for these five, if `"quit"` is not among the commands |

`RecorderOpen` is about a file that closes with the last of its references, wherever that is dropped: an entry, a callback, a
call of `Send`, a delivery or the end of a batch. `DeleteComplete` says of a deleted bus that its capture thread has ended, its subscriber's pipe is closed, no command is
inside its `Send`, and no sink lives without a bus that owns it. Replay threads are not in it: a bus does not own them, and
they do go on (run `replay_delete`).

The five about objects end where `main` returns: the destructors of its statics take no `g_mtx`, so a handler at
work loses the bus it holds, which is a behaviour of the code and not of the model. The run
`daemon_objects` gives no `quit`; `SafeUntilQuit` is what it checks.

None of the invariants is inductive. `IInv` has two layers. `Mutex` (`g_mtx` belongs to the handler between two
of its steps), `Refers` (whoever is at work has a bus, a frame, a recorder), `Batch` and `Handles` hold to
the end; `Steady` holds until the statics go. Its parts depend on one another. `Registry` says that a
handler's bus is the one its name leads to, and live; it needs `Mutex`, because only a handler changes
the names. `Captures` says that a capture thread is at work only as the capture its live bus owns; with
`Registry` it shows that `delete` and a second capture, which join before they erase or start, leave no thread behind.
`Sends` and `Entries` do the same for the calls of commands, for sinks, recorders and subscribers:
a callback is what the entry owns, but for the subscriber's between the two halves of `subscribe` and of
`delete`. `Recorders` says that no recorder is closed while a bus, a call of `Send`, a pending delivery or the
main thread refers to it: the shared pointer, whose last release closes the file. `Frames` ties each
delivery to the recorder its frame is owed to, and keeps the number of a frame that has not yet read the callbacks
to itself, without which `NoFrameLost` could not tell two frames apart. `Handles` adds to `HandleOwnership` which positions of a
connection thread have given the handle away. Connection threads move in five ways
(`Moves`); most parts are proved once per way and not once per command.

`TcpProxy_proofs` proves, from `TcpProxyAssumption` (the bounds are naturals):

| Theorem | States |
|---|---|
| `TypeCorrect` | `Spec => []TypeOK` |
| `OneConnection` | `Spec => []NothingLeftOpen` |
| `InOrder` | `Spec => []RelayedInOrder` |
| `Recorded` | `Spec => []RecordedAsRelayed` |

`Phases` says which halves and sockets the position of the accept thread allows, and gives `OneConnection`. A
prefix of what is sent is not inductive: `Stream` adds that recorded, in hand and still to be received make up
what was sent, each counting on from the other, as long as a relay reads; `Delivery` that what
was delivered is what is recorded or about to be, until the other peer closes. `CountingPrefix`
(of two sequences that count from the same number, one is a prefix of the other) turns lengths into prefixes.

`Replay_proofs` proves, from `ReplayAssumption`, for any streams, senders, records, delays, scales and
width of a time:

| Theorem | States |
|---|---|
| `TypeCorrect` | `Spec => []TypeOK` |
| `NeverEarly` | if `NoOverflow`: `Spec => []NeverBeforeOffset` |
| `OneTimebase` | if `NoOverflow`: `Spec => []SharedTimebase` |

`ReplayAssumption` says that times are numbers from the boot on, bounds in their order, well below the sign bit of a
time, and that scales are positive fractions; it also states that `2^W` is twice `2^(W-1)` and a
natural number, which the provers do not know. `NoOverflow` says that a whole capture, scaled, still fits into a time. It is needed: a scale of
2^40 makes the product of a day leave 64 bits, and then `fireAt` lies in the past. The run `replay`
satisfies it (`TimesFit`).
`Punctual` says of the waiting thread what `NeverBeforeOffset` says of what was sent: it waits for its start and
the scaled distance of its next record. `Threads` says how far in its file a thread can be, `Quiet` that no file
changes once a command is given, `InCommon` that the threads of `replay-sync` count from one origin and one start.
`OffsetIsTime` is the arithmetic: for a record that is in time, neither the subtraction nor the rounding nor the conversion
changes the value.
The minimum of the pending times exists by `Least`, which comes from the library's theorem on
well-founded relations, and the greatest delay by `Greatest`; both are stated for a set, so that no operator is a parameter.

`Glob_proofs` proves, for every pattern, every text without a star of its own, every list of rules and every packet:

| Theorem | States |
|---|---|
| `GlobCorrect` | `GlobMatch(pattern, text) <=> Matches(pattern, text)` |
| `FiltersSelect` | `PassesFilters(rules, p) <=> Selects(rules, p)` |

`GlobMatch` scans with two positions and remembers one star, the last; `Matches` says for each end of the pattern where in
the text it fits. That one star is enough is the point (`Decides`): the scan answers for what is left of the pattern behind
that star, from some later place of the text on, and for nothing else. A star passed over may give up its earlier ones, because what stands between two
stars has a definite length, and if it fits at all it may fit at the first place where it does (`Segment`, `LaterShare`). The
scan is a function that calls itself, of which first is shown that it exists (`HandingOn`, `ScanIs`); then the least
place where it were wrong, by the star, the end of its share and the position in the text, hands on to
a lesser one (`ScanDecides`). What a number looks like in the text matters only in so far as it has no star (`DecimalIs`).

`VbusCap_proofs` proves, for every sequence of frames and every payload:

| Theorem | States |
|---|---|
| `CutFileReplaysWhole` | `CutReplaysWhole(frames)`: a recording cut at any byte replays the frames whose records are whole in it |

A recorder that dies leaves such a file, and one still open is one as well. `Layout` works out where the compiler
puts the fields of `VCapRec`, `RecordHolds` that `Record` puts the numbers and the payload where `Next`
looks for them, and `RecordedIs` where in the file each record begins. `Replayed` counts the calls of `Next` rather than the
bytes that are left, so its positions can be given outright (`Steps`): the beginnings of the
records up to the last that ends by the cut, then failure. `ReplayedIs` shows by induction that a reader can have no
others. What stands in a file after a cut is never looked at, so nothing is assumed of the bytes of a payload; that a payload is
shorter than 2^32 bytes, the most `Len` can count, is assumed in the model.

`Gui_proofs` proves, from `GuiAssumption` (bounds are naturals, there is a name and a place in the ring, `NoPath`
is no file, a filter includes or excludes by a text), for any number of rows, names, files, frames and
operations, any size of the ring, any filters, and whichever commands are lost:

| Theorem | States |
|---|---|
| `TypeCorrect` | `Spec => []TypeOK` |
| `RowsShowWhatRuns` | `Spec => []ShownIsTrue` |
| `DeletedIsGone` | `Spec => []NothingLeftBehind` |
| `RingsInOrder` | `Spec => []RingOrdered` |
| `RowsComeBack` | `Spec => RestoredOnLaunch` |
| `FilteredIn` | `Spec => OnlySelectedShown` |

`IInv` is `TypeOK` with six parts. `Sound` is about rows and daemon, and `Agrees` its heart: what the daemon has under a name against
the rows of the window. Of a bus whose users are all rows of this window, each user is a row that still has that
name; so a deletion that arrives cannot miss one, and one that does not arrive leaves its mark among the users. Its sole
user shows what it does (`Shows`), its subscriber is a row that knows of its subscription. `ShownIsTrue` alone is not
inductive: `DeleteBus` of one of two rows with a name destroys the bus, and the next `Create` starts it anew
for whoever asks. `Waiting` says that a list which still waits for the daemon shows nothing itself
(`Untouched`), which is what the sync on connection needs, and that the window does not believe it connected unless it has just
loaded. `RowOk` adds to `RingOrdered` that the frames still queued for a row
are newer than those in its ring (`ComingOk`) and that only a subscribed row gets any, since a synthetic
packet goes to the others. `Queued` keeps the queue in order, `Closed` says that nothing is left of a window that has ended,
`OnFile` that what the next launch would show is among what it may, and `JobOk` that a file which is written but whose name is still to be
remembered holds the rows as they are, or is cut short. The last two are the moment between the two writes.

An operation of the model is a function of the world, and operations call one another; so their lemmas go from
a good world to a good world (`TellKeeps`, `SubscribeKeeps`, `DeleteKeeps`, `SyncKeeps`, `LoadRowsKeeps`, ...), and the
actions follow from them (`Becoming`). `RowChange` is what they have in common: one row and the bus of its name change
together. The loops are functions of the turns done, so that they exist (`Turns`) and keep what each turn keeps
(`Stays`, `Looping`) can be proved with a least counterexample (`Induct`), which needs no operator as a parameter.

`OnlySelectedShown` is about a step. `Grows` says of a row in a world on the way that what its ring has
more than at the beginning of the step is selected by the filters of then; a good world has only such rows. Every operation but the tick
leaves the rings as they are or makes rows with empty ones. The tick pushes, but first leaves the filters as
they are (`Tuned`), and what it pushes has passed them (`Filtered`), which by `FiltersSelect` means that they select it.

**Only model-checked.**

- Liveness, which the prover cannot handle: `EveryDueJobRuns` and the fairness part of the
  refinement, `Answered`, `QuitTerminates`, `RecordedEventually`, `DetachedFileClosesEventually`, `ClientCloseReachesServer`, `StopReturns`, `AllSent`,
  `SyncedOnConnect`, `StopEnds`.
- The other algorithms, by evaluation over small inputs.
- The violations: a counterexample on a small instance is all they need.

## 5. Plan

What the runs ask covers every component that keeps state, and every safety invariant of theirs is proved. What is left is
outside the prover's reach, as listed above.

## 6. Not modelled

`vbus-gui/glad` is the OpenGL loader a tool has generated: 5,838 of the 9,931 lines of code in the
repository, most of them declarations and tables of functions. `GlLoader` has what the start of the window
depends on; the headers (`glad.h`, `khrplatform.h`) have nothing that could go wrong in a run. They are why
the share of lines modelled is a little under a third of the whole, while it is about three fifths of
the program's own lines. The rest of those are includes, class declarations, comments, drawing and
printing.

Also left out: the stub C client, the bus counters (`Drops` is never incremented; `Rx_frames` only by
endpoints, which the daemon never connects), `Connect` and `Disconnect` (the same), the exceptions of
`std::stoul` on malformed numbers, which end the process, and log output. What a thread does after its
objects have been destroyed is undefined and not followed further: properties are about the step
that touches the object. Handle numbers reused by the rest of the process are named as hazards
only.

**Disagreements with the documents that no run shows**, being statements about data or wording:

- `protocol.md:130,136` call captured frames `Proto::UDP` and `Proto::TCP`, and `:148` and `:166` have
  replays skip others; `EthHub::Send` makes every frame `ETH2` (`Carried` in `Frames`), and the
  replays send every frame.
- `architecture.md:146` gives the delay without the 18 bytes of framing that `eth_bus.cpp:25` adds.
- `vbus_bench.cpp:9` says "Duration default: 10 seconds"; without a duration the sender runs until
  Ctrl-C (`:469`, `StartedAsAsked`).
- `record <name> on` without a file is taken for `off` (`vbusd.cpp:190`).
- `protocol.md:195` says of `quit` "Shuts down the daemon cleanly." and `architecture.md:88` "clean shutdown on `quit` command";
  a capture thread may post to the scheduler after `main` has destroyed it (`vbusd.cpp:47`, statics going in reverse order), which is undefined and may
  crash. `QuitTerminates` says that the process ends, and counts a crash as an end.
- `model.cpp:425-426` says that `needs_daemon_sync` "stays true and tick() will fire syncBusesToDaemon() on next connect"; a
  project loaded while the connection flag is stale, or of which a `create` is lost, is synced once, in vain, and the flag is cleared.
  `SyncedOnConnect` names this outcome (`s.missed`) and excludes any other.
- `panel_filters.cpp:18` gives "Token examples: vlan:100  size:1400", and its button adds Exclude `size:*`; a pattern has to fit the whole of
  `vlan:N size:M` (`glob_match`), so neither token and no such rule ever matches a packet. `OnlySelectedShown` takes a pattern for what
  `glob_match` makes of it.
- `protocol.md:234`, the comment at `vbusd.cpp:76` and `daemon_client.h:51-61` have a record header of 24 bytes; the daemon and
  the recorder write the 32 of the padded struct (`recorder.h:17-24`), so the GUI's reader finds its length within the time stamp
  (`PackedLengthIsInTime`) and shows what follows at the wrong place (`Carry`).
