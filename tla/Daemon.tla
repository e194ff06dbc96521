------------------------------ MODULE Daemon --------------------------------
(***************************************************************************)
(* The daemon's threads and the objects they share                          *)
(* (vbus/src/daemon/vbusd.cpp with the bus, recorder, UDP capture and UDP   *)
(* sink it drives).                                                         *)
(*                                                                          *)
(*   connection threads   read a command from a pipe, run its handler,      *)
(*                        nearly always under g_mtx, and write the reply;   *)
(*   capture threads      receive from a socket and Send on their bus;      *)
(*   replay threads       Send on a bus through a raw IBus pointer;         *)
(*   the main thread      drains the scheduler and runs the callbacks that  *)
(*                        Send captured: the recorder's, the subscriber's.  *)
(*                                                                          *)
(* Objects are taken from finite sets of identities and never reused, so    *)
(* that a dangling pointer is recognisable.  Scheduler.tla is about times;  *)
(* here a drain may take any set of pending deliveries, and run them in any *)
(* order.  The daemon never calls IBus::Connect, so a delivery has no       *)
(* endpoint targets.  A command that is refused for its arguments and the    *)
(* replays that touch no bus (replay-udp, replay-sync) are left out.        *)
(***************************************************************************)
EXTENDS Naturals, Sequences, FiniteSets, FiniteSetsExt

CONSTANTS
    Names,          \* bus names the clients use
    Clients,        \* pipe connections; each has one thread in the daemon
    BusIds, RecIds, SinkIds, CapIds, Replays,   \* identities of objects/threads
    None,           \* null: no object, no thread
    Commands,       \* the commands the clients issue
    Quitters,       \* the clients that may close their end of the pipe
    MaxCmds,        \* bound: commands issued in all
    MaxFrames,      \* bound: calls of Send in all
    PipeCap         \* messages a pipe holds before a write to it blocks

ASSUME DaemonAssumption ==
    /\ MaxCmds \in Nat /\ MaxFrames \in Nat /\ PipeCap \in Nat \ {0}
    /\ Quitters \subseteq Clients
    \* Null is no object, and each thread is of one kind only.
    /\ None \notin BusIds \union RecIds \union SinkIds \union CapIds \union Clients
    /\ Clients \intersect CapIds = {}
    /\ Replays \intersect (Clients \union CapIds) = {}

Senders == Clients \union CapIds \union Replays

VARIABLES
    gmtx,       \* who holds g_mtx: a client's thread or None
    reg,        \* g_buses: reg[name] is the bus of that name or None
    bus,        \* BusWrap and the callbacks of its bus
    recSt,      \* Recorder::m_Out: "none" (not created), "open", "closed"
    wrote,      \* wrote[r]: frames recorder r has written to its file
    sinkSt,     \* "none", "live", "freed"
    cap,        \* captures and their threads
    rp,         \* rp[r]: the bus a replay thread sends on, or None
    conn,       \* connection threads
    pipe,       \* SubInfo::pipe of each bus: a client's handle or None
    out,        \* out[c]: messages in the pipe towards client c
    closes,     \* closes[c]: how often CloseHandle was called on c's handle
    client,     \* client[c]: "up", "acked" (has read its OK stream), "closed"
    send,       \* send[t]: the call of Send that thread t is in
    pend,       \* deliveries in the scheduler's heap
    ready,      \* deliveries of the batch being run
    held,       \* recorders that the batch's lambdas own, run or not
    main,       \* the main thread
    shutdown,   \* g_shutdown
    owed,       \* history: owed[n] is the recorder frame n was captured for
    ncmds       \* history: commands issued so far

objVars  == <<reg, bus, recSt, sinkSt>>
pipeVars == <<pipe, out, closes, client>>
runVars  == <<pend, ready, held, main, shutdown>>
vars == <<gmtx, objVars, wrote, cap, rp, conn, pipeVars, send, runVars, owed, ncmds>>

NoBus  == [life |-> "none", rec |-> None, cap |-> None, sink |-> None,
           recCb |-> None, subCb |-> FALSE, fwdCb |-> None]
NewBus == [NoBus EXCEPT !.life = "live"]
Freed  == [NoBus EXCEPT !.life = "freed"]
NoSend == [at |-> "out", bus |-> None, n |-> 0, rec |-> None, sub |-> FALSE, fwd |-> None]
NoCap  == [kind |-> None, bus |-> None, running |-> FALSE, at |-> "none"]
NoLam  == [n |-> 0, bus |-> None, rec |-> None, sub |-> FALSE]
NotYet == [at |-> "read", cmd |-> None, name |-> None, bus |-> None, resp |-> None, stay |-> FALSE]

Init ==
    /\ gmtx = None
    /\ reg = [x \in Names |-> None]
    /\ bus = [b \in BusIds |-> NoBus]
    /\ recSt = [r \in RecIds |-> "none"]
    /\ wrote = [r \in RecIds |-> {}]
    /\ sinkSt = [s \in SinkIds |-> "none"]
    /\ cap = [k \in CapIds |-> NoCap]
    /\ rp = [r \in Replays |-> None]
    /\ conn = [c \in Clients |-> NotYet]
    /\ pipe = [b \in BusIds |-> None]
    /\ out = [c \in Clients |-> <<>>]
    /\ closes = [c \in Clients |-> 0]
    /\ client = [c \in Clients |-> "up"]
    /\ send = [t \in Senders |-> NoSend]
    /\ pend = {}
    /\ ready = {}
    /\ held = {}
    /\ main = [at |-> "check", lam |-> NoLam]
    /\ shutdown = FALSE
    /\ owed = <<>>
    /\ ncmds = 0

nframes == Len(owed)

\* Faulty variants, here and below, differ from the definition they precede by one
\* plausible slip; each violates the property named with it in PROJECT.json.
HeldByEntries ==            \* callbacks and lambdas have the raw pointer
    {bus[b].rec : b \in BusIds}

\* The recorders a shared_ptr refers to: an entry's, and the copies in the bus's
\* callback, in a call of Send, in a lambda that waits and in one of the batch.
HeldRecs ==
    {bus[b].rec : b \in BusIds} \union {bus[b].recCb : b \in BusIds}
        \union {send[t].rec : t \in Senders} \union {l.rec : l \in pend} \union held

\* The last reference is gone: ~Recorder closes the file.
CloseUnheld ==
    recSt' = [r \in RecIds |-> IF recSt[r] = "open" /\ r \notin HeldRecs' THEN "closed"
                                                                        ELSE recSt[r]]

-----------------------------------------------------------------------------
(* EthHub::Send / CanBus::Send, in the thread t that calls it.              *)

\* Entry: Proto, timestamp, deliverAt, Tx_frames; the bus has not been locked.
EnterSend(t, b) ==
    /\ nframes < MaxFrames
    /\ owed' = Append(owed, None)
    /\ send' = [send EXCEPT ![t] = [NoSend EXCEPT !.at = "snap", !.bus = b, !.n = nframes + 1]]

InSend(t) == send[t].at # "out"

\* Under m_Mtx: copy the callbacks.
SendSnap(t) ==
    /\ send[t].at = "snap"
    /\ LET w == bus[send[t].bus] IN
       /\ send' = [send EXCEPT ![t].at = IF w.fwdCb = None THEN "post" ELSE "fwd",
                               ![t].rec = w.recCb, ![t].sub = w.subCb, ![t].fwd = w.fwdCb]
       /\ owed' = [owed EXCEPT ![send[t].n] = w.recCb]
    /\ UNCHANGED <<gmtx, objVars, wrote, cap, rp, conn, pipeVars, runVars, ncmds>>

\* fwd_cb(frame): UdpSink::forward through a raw pointer, no lock held.
SendFwd(t) ==
    /\ send[t].at = "fwd"
    /\ send' = [send EXCEPT ![t].at = "post"]
    /\ UNCHANGED <<gmtx, objVars, wrote, cap, rp, conn, pipeVars, runVars, owed, ncmds>>

\* g_sched is destroyed when main returns, whoever still sends.
SchedGone == main.at \in {"teardown", "join"}

SendPostMoved(t) ==         \* the recorder's callback is moved from, not copied
    /\ send[t].at = "post" /\ ~SchedGone
    /\ pend' = pend \union {[n |-> send[t].n, bus |-> send[t].bus,
                             rec |-> None, sub |-> send[t].sub]}
    /\ send' = [send EXCEPT ![t] = NoSend]
    /\ UNCHANGED <<gmtx, objVars, wrote, cap, rp, conn, pipeVars, ready, held, main, shutdown,
                   owed, ncmds>>

\* m_Scheduler.post(deliverAt, lambda); the lambda owns copies of the callbacks.
SendPost(t) ==
    /\ send[t].at = "post" /\ ~SchedGone
    /\ pend' = pend \union {[n |-> send[t].n, bus |-> send[t].bus,
                             rec |-> send[t].rec, sub |-> send[t].sub]}
    /\ send' = [send EXCEPT ![t] = NoSend]
    /\ UNCHANGED <<gmtx, objVars, wrote, cap, rp, conn, pipeVars, ready, held, main, shutdown,
                   owed, ncmds>>

\* post() on the destroyed scheduler: undefined, where the queue it pushes to may be
\* empty memory, from which nothing is ever run, or a dangling array.
SendPostLate(t) ==
    /\ send[t].at = "post" /\ SchedGone
    /\ UNCHANGED <<gmtx, reg, bus, sinkSt, wrote, cap, rp, conn, pipeVars, pend, ready, held,
                   shutdown, owed, ncmds>>
    /\ \/ /\ send' = [send EXCEPT ![t] = NoSend]
          /\ main' = main
          /\ CloseUnheld
       \/ /\ main' = [at |-> "crashed", lam |-> NoLam]
          /\ UNCHANGED <<send, recSt>>

Sending(t) == SendSnap(t) \/ SendFwd(t) \/ SendPost(t)

-----------------------------------------------------------------------------
(* Capture threads.  A UDP capture receives with a 500 ms timeout; a TCP    *)
(* proxy accepts one connection at a time and relays it with no timeout     *)
(* (TcpProxy.tla has the relay itself).                                     *)

CapGoto(k, s) ==
    /\ cap' = [cap EXCEPT ![k].at = s]
    /\ UNCHANGED <<gmtx, objVars, wrote, rp, conn, pipeVars, runVars, ncmds>>

\* while (m_Running)
CapCheck(k) ==
    /\ cap[k].at = "check"
    /\ CapGoto(k, IF cap[k].running THEN "recv" ELSE "done")
    /\ UNCHANGED <<send, owed>>

\* recvfrom comes back with nothing: the timeout, or stop() closed the socket.
CapTimeout(k) ==
    /\ cap[k].at = "recv" /\ cap[k].kind = "udp"
    /\ CapGoto(k, "check")
    /\ UNCHANGED <<send, owed>>

\* accept fails because stop() closed the listener: leave the loop.
CapRefused(k) ==
    /\ cap[k].at = "recv" /\ cap[k].kind = "tcp" /\ ~cap[k].running
    /\ CapGoto(k, "done")
    /\ UNCHANGED <<send, owed>>

\* A datagram arrives, perhaps just before stop() closes the socket.
CapDatagram(k) ==
    /\ cap[k].at = "recv" /\ cap[k].kind = "udp"
    /\ CapGoto(k, "sending")
    /\ EnterSend(k, cap[k].bus)

\* accept() returns a connection and connectTo() reaches the target (when it
\* does not, the loop goes round without having changed anything).
CapAccept(k) ==
    /\ cap[k].at = "recv" /\ cap[k].kind = "tcp"
    /\ CapGoto(k, "relay")
    /\ UNCHANGED <<send, owed>>

\* A chunk is relayed and recorded.
CapChunk(k) ==
    /\ cap[k].at = "relay"
    /\ CapGoto(k, "sending")
    /\ EnterSend(k, cap[k].bus)

\* The peers close the relayed connection.
CapHangup(k) ==
    /\ cap[k].at = "relay"
    /\ CapGoto(k, "check")
    /\ UNCHANGED <<send, owed>>

\* m_Bus.Send has returned.  A relay half that finds m_Running false ends, but
\* only the client's half ends the connection (TcpProxy.tla).
CapSent(k) ==
    /\ cap[k].at = "sending" /\ ~InSend(k)
    /\ \/ cap[k].kind = "tcp" /\ CapGoto(k, "relay")
       \/ (cap[k].kind = "udp" \/ ~cap[k].running) /\ CapGoto(k, "check")
    /\ UNCHANGED <<send, owed>>

\* What the thread does of itself, whatever arrives.
CapStep(k) == CapCheck(k) \/ CapTimeout(k) \/ CapRefused(k) \/ CapSent(k)

CapThread(k) ==
    \/ CapStep(k)
    \/ CapDatagram(k) \/ CapAccept(k) \/ CapChunk(k) \/ CapHangup(k)

-----------------------------------------------------------------------------
(* Replay threads: busPtr->Send(nullptr, f) for each frame of the file.     *)

ReplayFrame(r) ==
    /\ rp[r] # None /\ ~InSend(r)
    /\ EnterSend(r, rp[r])
    /\ UNCHANGED <<gmtx, objVars, wrote, cap, rp, conn, pipeVars, runVars, ncmds>>

ReplayEnd(r) ==
    /\ rp[r] # None /\ ~InSend(r)
    /\ rp' = [rp EXCEPT ![r] = None]
    /\ UNCHANGED <<gmtx, objVars, wrote, cap, conn, pipeVars, send, runVars, owed, ncmds>>

-----------------------------------------------------------------------------
(* Connection threads: the handlers of handle_cmd.                          *)

\* Identities no object has had yet.
UnusedBus  == {b \in BusIds : bus[b].life = "none"}
UnusedRec  == {r \in RecIds : recSt[r] = "none"}
UnusedSink == {s \in SinkIds : sinkSt[s] = "none"}
UnusedCap  == {k \in CapIds : cap[k].at = "none"}
Pick(S) == CHOOSE x \in S : TRUE

\* The client, having read what it was sent, writes a request; the thread's ReadFile
\* returns it.
Request(c) ==
    /\ conn[c].at = "read" /\ client[c] # "closed"
    /\ out[c] = <<>>
    /\ ncmds < MaxCmds
    /\ \E cmd \in Commands, x \in Names :
         conn' = [conn EXCEPT ![c] = [NotYet EXCEPT !.at = "lock", !.cmd = cmd, !.name = x]]
    /\ ncmds' = ncmds + 1
    /\ UNCHANGED <<gmtx, objVars, wrote, cap, rp, pipeVars, send, runVars, owed>>

\* The handler's std::scoped_lock lk(g_mtx), for command cmd on an existing bus.
Locks(c, cmd) ==
    /\ conn[c].at = "lock" /\ conn[c].cmd = cmd
    /\ gmtx = None
    /\ reg[conn[c].name] # None

Goto(c, s) ==
    /\ gmtx' = c
    /\ conn' = [conn EXCEPT ![c].at = s, ![c].bus = reg[conn[c].name]]

At(c, cmds, s) == conn[c].at = s /\ conn[c].cmd \in cmds

\* The handler returns, releasing g_mtx, and the reply is ready to be written.
Reply(c, r) ==
    /\ gmtx' = None
    /\ conn' = [conn EXCEPT ![c] = [@ EXCEPT !.at = "reply", !.resp = r, !.bus = None]]

NoSuchBusKeepsLock(c) ==    \* a manual lock(), not released on the early return
    /\ conn[c].at = "lock" /\ conn[c].cmd \notin {"create", "list", "quit"}
    /\ gmtx = None
    /\ reg[conn[c].name] = None
    /\ gmtx' = c
    /\ conn' = [conn EXCEPT ![c].at = "reply", ![c].resp = "ERR"]
    /\ UNCHANGED <<objVars, wrote, cap, rp, pipeVars, send, runVars, owed, ncmds>>

\* "ERR no bus".
NoSuchBus(c) ==
    /\ conn[c].at = "lock" /\ conn[c].cmd \notin {"create", "list", "quit"}
    /\ gmtx = None
    /\ reg[conn[c].name] = None
    /\ Reply(c, "ERR")
    /\ UNCHANGED <<objVars, wrote, cap, rp, pipeVars, send, runVars, owed, ncmds>>

\* list and stats only read, but they wait for g_mtx as the others do.
Look(c) ==
    /\ gmtx = None
    /\ At(c, {"list"}, "lock") \/ Locks(c, "stats")
    /\ Reply(c, "OK")
    /\ UNCHANGED <<objVars, wrote, cap, rp, pipeVars, send, runVars, owed, ncmds>>

Create(c) ==
    /\ At(c, {"create"}, "lock") /\ gmtx = None
    /\ IF reg[conn[c].name] # None
       THEN Reply(c, "ERR") /\ UNCHANGED <<reg, bus>>
       ELSE /\ UnusedBus # {}
            /\ reg' = [reg EXCEPT ![conn[c].name] = Pick(UnusedBus)]
            /\ bus' = [bus EXCEPT ![Pick(UnusedBus)] = NewBus]
            /\ Reply(c, "OK")
    /\ UNCHANGED <<recSt, sinkSt, wrote, cap, rp, pipeVars, send, runVars, owed, ncmds>>

NoRecorderKeepsCb(b) == [bus[b] EXCEPT !.rec = None]    \* without SetRecordCb(nullptr)

\* detachRecorder: SetRecordCb(nullptr), then drop our reference.  Deliveries
\* that captured the recorder keep it alive, and open.
NoRecorder(b) == [bus[b] EXCEPT !.recCb = None, !.rec = None]

RecordOff(c) ==
    /\ Locks(c, "record off")
    /\ LET b == reg[conn[c].name] IN bus' = [bus EXCEPT ![b] = NoRecorder(b)]
    /\ Reply(c, "OK")
    /\ UNCHANGED <<reg, sinkSt, wrote, cap, rp, pipeVars, send, runVars, owed, ncmds>>
    /\ CloseUnheld

\* attachRecorder, first half: detach whatever is attached.
RecordOnDetach(c) ==
    /\ Locks(c, "record on")
    /\ LET b == reg[conn[c].name] IN bus' = [bus EXCEPT ![b] = NoRecorder(b)]
    /\ Goto(c, "open")
    /\ UNCHANGED <<reg, sinkSt, wrote, cap, rp, pipeVars, send, runVars, owed, ncmds>>
    /\ CloseUnheld

\* Second half: open the file and install the callback, or fail.
RecordOnOpen(c) ==
    /\ At(c, {"record on"}, "open")
    /\ \/ /\ UnusedRec # {}
          /\ LET r == Pick(UnusedRec) IN
             /\ recSt' = [recSt EXCEPT ![r] = "open"]
             /\ bus' = [bus EXCEPT ![conn[c].bus].rec = r, ![conn[c].bus].recCb = r]
          /\ Reply(c, "OK")
       \/ Reply(c, "ERR") /\ UNCHANGED <<recSt, bus>>
    /\ UNCHANGED <<reg, sinkSt, wrote, cap, rp, pipeVars, send, runVars, owed, ncmds>>

SendCmdUnlocked(c) ==       \* g_mtx is released once the bus has been found
    /\ Locks(c, "send")
    /\ EnterSend(c, reg[conn[c].name])
    /\ conn' = [conn EXCEPT ![c].at = "sending", ![c].bus = reg[conn[c].name]]
    /\ UNCHANGED <<gmtx, objVars, wrote, cap, rp, pipeVars, runVars, ncmds>>

\* send-eth/send-can/send-canfd: the whole Send runs under g_mtx.
SendCmd(c) ==
    /\ Locks(c, "send")
    /\ EnterSend(c, reg[conn[c].name])
    /\ Goto(c, "sending")
    /\ UNCHANGED <<objVars, wrote, cap, rp, pipeVars, runVars, ncmds>>

SendCmdReturn(c) ==
    /\ At(c, {"send"}, "sending") /\ ~InSend(c)
    /\ Reply(c, "OK")
    /\ UNCHANGED <<objVars, wrote, cap, rp, pipeVars, send, runVars, owed, ncmds>>

\* replay: busPtr is read under g_mtx, which is released before the probe.
ReplayLookup(c) ==
    /\ Locks(c, "replay")
    /\ conn' = [conn EXCEPT ![c].at = "probe", ![c].bus = reg[conn[c].name]]
    /\ UNCHANGED <<gmtx, objVars, wrote, cap, rp, pipeVars, send, runVars, owed, ncmds>>

\* The file cannot be opened, or a detached thread starts with the raw pointer.
ReplayStart(c) ==
    /\ At(c, {"replay"}, "probe")
    /\ \/ /\ rp' = rp
          /\ conn' = [conn EXCEPT ![c].at = "reply", ![c].resp = "ERR"]
       \/ /\ \E r \in Replays : rp[r] = None /\ rp' = [rp EXCEPT ![r] = conn[c].bus]
          /\ conn' = [conn EXCEPT ![c].at = "reply", ![c].resp = "OK"]
    /\ UNCHANGED <<gmtx, objVars, wrote, cap, pipeVars, send, runVars, owed, ncmds>>

Capturing == {"capture-udp", "capture-tcp"}

\* cap->stop(), up to the join: m_Running.exchange(false), close the socket.
StopFlag(k) == cap' = IF k = None THEN cap ELSE [cap EXCEPT ![k].running = FALSE]

NotJoined(k) == TRUE        \* the thread is detached, not joined

\* m_Thread.join().  A second stop() of the same capture finds m_Running false and
\* returns at once; by then the first one has joined, both being under g_mtx.
Joined(k) == k # None => cap[k].at = "done"

\* capture-udp/-tcp and stop-capture begin by stopping the capture there is.
CaptureStop(c) ==
    /\ \E cmd \in Capturing \union {"stop-capture"} : Locks(c, cmd)
    /\ StopFlag(bus[reg[conn[c].name]].cap)
    /\ Goto(c, "join")
    /\ UNCHANGED <<objVars, wrote, rp, pipeVars, send, runVars, owed, ncmds>>

\* stop-capture: joined, then reset.
CaptureStopped(c) ==
    /\ At(c, {"stop-capture"}, "join")
    /\ Joined(bus[conn[c].bus].cap)
    /\ bus' = [bus EXCEPT ![conn[c].bus].cap = None]
    /\ Reply(c, "OK")
    /\ UNCHANGED <<reg, recSt, sinkSt, wrote, cap, rp, pipeVars, send, runVars, owed, ncmds>>

\* start() of a new capture binds its port and launches its thread.
LaunchCapture(k, cmd, b) ==
    /\ cap' = [cap EXCEPT ![k] =
          [kind |-> IF cmd = "capture-tcp" THEN "tcp" ELSE "udp", bus |-> b,
           running |-> TRUE, at |-> "check"]]
    /\ bus' = [bus EXCEPT ![b].cap = k]

\* capture-*: the new capture replaces the old one, or its start() fails and the
\* stopped old one stays in place.
CaptureStart(c) ==
    /\ At(c, Capturing, "join")
    /\ Joined(bus[conn[c].bus].cap)
    /\ \/ /\ UnusedCap # {}
          /\ LaunchCapture(Pick(UnusedCap), conn[c].cmd, conn[c].bus)
          /\ Reply(c, "OK")
       \/ Reply(c, "ERR") /\ UNCHANGED <<cap, bus>>
    /\ UNCHANGED <<reg, recSt, sinkSt, wrote, rp, pipeVars, send, runVars, owed, ncmds>>

NoSinkKeepsCb(b) == [bus[b] EXCEPT !.sink = None]    \* ~UdpSink only closes the socket

\* sink.reset(): ~UdpSink clears the forward callback and closes the socket.
NoSink(b) == [bus[b] EXCEPT !.fwdCb = None, !.sink = None]
FreeSink(s) == sinkSt' = IF s = None THEN sinkSt ELSE [sinkSt EXCEPT ![s] = "freed"]

ForwardReset(c) ==
    /\ Locks(c, "forward-udp")
    /\ LET b == reg[conn[c].name] IN
       FreeSink(bus[b].sink) /\ bus' = [bus EXCEPT ![b] = NoSink(b)]
    /\ Goto(c, "start")
    /\ UNCHANGED <<reg, recSt, wrote, cap, rp, pipeVars, send, runVars, owed, ncmds>>

ForwardStart(c) ==
    /\ At(c, {"forward-udp"}, "start")
    /\ \/ /\ UnusedSink # {}
          /\ LET s == Pick(UnusedSink) IN
             /\ sinkSt' = [sinkSt EXCEPT ![s] = "live"]
             /\ bus' = [bus EXCEPT ![conn[c].bus].sink = s, ![conn[c].bus].fwdCb = s]
          /\ Reply(c, "OK")
       \/ Reply(c, "ERR") /\ UNCHANGED <<sinkSt, bus>>
    /\ UNCHANGED <<reg, recSt, wrote, cap, rp, pipeVars, send, runVars, owed, ncmds>>

StopForward(c) ==
    /\ Locks(c, "stop-forward")
    /\ LET b == reg[conn[c].name] IN
       FreeSink(bus[b].sink) /\ bus' = [bus EXCEPT ![b] = NoSink(b)]
    /\ Reply(c, "OK")
    /\ UNCHANGED <<reg, recSt, wrote, cap, rp, pipeVars, send, runVars, owed, ncmds>>

-----------------------------------------------------------------------------
(* Subscription and deletion.  SubInfo::mtx is held by the main thread for  *)
(* the whole of a WriteFile, and by a handler for an instant.               *)

SubMutexFree(b) == ~(main.at = "write" /\ main.lam.bus = b)

CloseHandleOf(c) == closes' = IF c = None THEN closes ELSE [closes EXCEPT ![c] = @ + 1]

Subscribe(c) ==
    /\ Locks(c, "subscribe")
    /\ Goto(c, "attach")
    /\ UNCHANGED <<objVars, wrote, cap, rp, pipeVars, send, runVars, owed, ncmds>>

\* attachSub, under si->mtx: close the previous subscriber's pipe, install ours.
SubscribeAttach(c) ==
    /\ At(c, {"subscribe"}, "attach")
    /\ SubMutexFree(conn[c].bus)
    /\ CloseHandleOf(pipe[conn[c].bus])
    /\ pipe' = [pipe EXCEPT ![conn[c].bus] = c]
    /\ conn' = [conn EXCEPT ![c].at = "setcb"]
    /\ UNCHANGED <<gmtx, objVars, wrote, cap, rp, out, client, send, runVars, owed, ncmds>>

\* SetSubCb(cb); "OK stream" is only written once the handler has returned.
SubscribeSetCb(c) ==
    /\ At(c, {"subscribe"}, "setcb")
    /\ bus' = [bus EXCEPT ![conn[c].bus].subCb = TRUE]
    /\ gmtx' = None
    /\ conn' = [conn EXCEPT ![c].at = "reply", ![c].resp = "OK", ![c].stay = TRUE]
    /\ UNCHANGED <<reg, recSt, sinkSt, wrote, cap, rp, pipeVars, send, runVars, owed, ncmds>>

\* delete: detachSub clears the callback ...
Delete(c) ==
    /\ Locks(c, "delete")
    /\ bus' = [bus EXCEPT ![reg[conn[c].name]].subCb = FALSE]
    /\ Goto(c, "unsub")
    /\ UNCHANGED <<reg, recSt, sinkSt, wrote, cap, rp, pipeVars, send, runVars, owed, ncmds>>

DeleteUnsubKeepsPipe(c) ==  \* detachSub only clears the callback
    /\ At(c, {"delete"}, "unsub")
    /\ conn' = [conn EXCEPT ![c].at = "unrec"]
    /\ UNCHANGED <<gmtx, objVars, wrote, cap, rp, pipeVars, send, runVars, owed, ncmds>>

\* ... and closes the subscriber's pipe under si->mtx;
DeleteUnsub(c) ==
    /\ At(c, {"delete"}, "unsub")
    /\ SubMutexFree(conn[c].bus)
    /\ CloseHandleOf(pipe[conn[c].bus])
    /\ pipe' = [pipe EXCEPT ![conn[c].bus] = None]
    /\ conn' = [conn EXCEPT ![c].at = "unrec"]
    /\ UNCHANGED <<gmtx, objVars, wrote, cap, rp, out, client, send, runVars, owed, ncmds>>

\* then the recorder is detached and the capture told to stop;
DeleteUnrecord(c) ==
    /\ At(c, {"delete"}, "unrec")
    /\ bus' = [bus EXCEPT ![conn[c].bus] = NoRecorder(conn[c].bus)]
    /\ StopFlag(bus[conn[c].bus].cap)
    /\ conn' = [conn EXCEPT ![c].at = "join"]
    /\ UNCHANGED <<gmtx, reg, sinkSt, wrote, rp, pipeVars, send, runVars, owed, ncmds>>
    /\ CloseUnheld

DeleteEraseUnjoined(c) ==   \* erases while the capture thread may be in Send
    /\ At(c, {"delete"}, "join")
    /\ FreeSink(bus[conn[c].bus].sink)
    /\ bus' = [bus EXCEPT ![conn[c].bus] = Freed]
    /\ reg' = [reg EXCEPT ![conn[c].name] = None]
    /\ Reply(c, "OK")
    /\ UNCHANGED <<recSt, wrote, cap, rp, pipeVars, send, runVars, owed, ncmds>>

\* once its thread is joined, the capture, the sink and the bus are destroyed.
DeleteErase(c) ==
    /\ At(c, {"delete"}, "join")
    /\ Joined(bus[conn[c].bus].cap)
    /\ FreeSink(bus[conn[c].bus].sink)
    /\ bus' = [bus EXCEPT ![conn[c].bus] = Freed]
    /\ reg' = [reg EXCEPT ![conn[c].name] = None]
    /\ Reply(c, "OK")
    /\ UNCHANGED <<recSt, wrote, cap, rp, pipeVars, send, runVars, owed, ncmds>>

\* quit takes no lock.
Quit(c) ==
    /\ At(c, {"quit"}, "lock")
    /\ shutdown' = TRUE
    /\ conn' = [conn EXCEPT ![c].at = "reply", ![c].resp = "OK"]
    /\ UNCHANGED <<gmtx, objVars, wrote, cap, rp, pipeVars, send, pend, ready, held, main, owed, ncmds>>

-----------------------------------------------------------------------------
(* The pipe: a connection thread's write and exit, and the client's end.    *)

HasRoomForOneMore(c) == Len(out[c]) <= PipeCap

\* A write fails when the handle or the other end is closed, and otherwise
\* waits for room.
Broken(c) == closes[c] > 0 \/ client[c] = "closed"
HasRoom(c) == Len(out[c]) < PipeCap

WriteReply(c) ==
    /\ conn[c].at = "reply"
    /\ \/ Broken(c) /\ out' = out
       \/ ~Broken(c) /\ HasRoom(c) /\ out' = [out EXCEPT ![c] = Append(@, "reply")]
    /\ conn' = [conn EXCEPT ![c] = IF @.stay THEN [@ EXCEPT !.at = "handed"] ELSE NotYet]
    /\ UNCHANGED <<gmtx, objVars, wrote, cap, rp, pipe, closes, client, send, runVars,
                   owed, ncmds>>

\* ReadFile fails: flush, disconnect, close the handle, end the thread.
ConnEnd(c) ==
    /\ conn[c].at = "read" /\ client[c] = "closed"
    /\ CloseHandleOf(c)
    /\ conn' = [conn EXCEPT ![c].at = "ended"]
    /\ UNCHANGED <<gmtx, objVars, wrote, cap, rp, pipe, out, client, send, runVars, owed, ncmds>>

ClientRead(c) ==
    /\ client[c] # "closed" /\ out[c] # <<>>
    /\ out' = [out EXCEPT ![c] = Tail(@)]
    /\ client' = [client EXCEPT ![c] = IF conn[c].at = "handed" /\ Head(out[c]) = "reply"
                                       THEN "acked" ELSE @]
    /\ UNCHANGED <<gmtx, objVars, wrote, cap, rp, conn, pipe, closes, send, runVars, owed, ncmds>>

ClientClose(c) ==
    /\ c \in Quitters /\ client[c] # "closed"
    /\ client' = [client EXCEPT ![c] = "closed"]
    /\ out' = [out EXCEPT ![c] = <<>>]
    /\ UNCHANGED <<gmtx, objVars, wrote, cap, rp, conn, pipe, closes, send, runVars, owed, ncmds>>

-----------------------------------------------------------------------------
(* The main thread: while (!g_shutdown) { wait 1 ms; run_until(Now()); }    *)

MainGoto(s, l) == main' = [at |-> s, lam |-> l]

MainCheck ==
    /\ main.at = "check"
    /\ MainGoto(IF shutdown THEN "closing" ELSE "drain", NoLam)
    /\ UNCHANGED <<gmtx, objVars, wrote, cap, rp, conn, pipeVars, send, pend, ready, held, shutdown,
                   owed, ncmds>>

\* The next thing to do of delivery l: `if (rec_cb)`, `if (sub_cb)`; the batch left
\* is R, and after it main is back at its loop condition.
NextItem(R) == MainGoto(IF R = {} THEN "check" ELSE "next", NoLam)
DeliverSubOnly(l, R) ==     \* else-if: a subscriber takes the frame from the recorder
    IF l.sub THEN MainGoto("sub", l)
    ELSE IF l.rec # None THEN MainGoto("rec", l) ELSE NextItem(R)

Deliver(l, R) ==
    IF l.rec # None THEN MainGoto("rec", l)
    ELSE IF l.sub THEN MainGoto("sub", l) ELSE NextItem(R)

\* run_until's vector of lambdas goes when it returns, and with it their references.
BatchEnds ==
    /\ held' = IF main'.at = "check" THEN {} ELSE held
    /\ CloseUnheld

\* run_until pops whatever is due, which may be any of what is pending.
MainDrain(D) ==
    /\ main.at = "drain"
    /\ pend' = pend \ D
    /\ ready' = D
    /\ held' = {l.rec : l \in D} \ {None}
    /\ NextItem(D)
    /\ UNCHANGED <<gmtx, objVars, wrote, cap, rp, conn, pipeVars, send, shutdown, owed, ncmds>>

MainNext(l) ==
    /\ main.at = "next"
    /\ ready' = ready \ {l}
    /\ Deliver(l, ready')
    /\ UNCHANGED <<gmtx, reg, bus, sinkSt, wrote, cap, rp, conn, pipeVars, send, pend, shutdown, owed, ncmds>>
    /\ BatchEnds

\* rec_cb(frame): Recorder::Write.
MainRecord ==
    /\ main.at = "rec"
    /\ wrote' = IF recSt[main.lam.rec] = "open"
                THEN [wrote EXCEPT ![main.lam.rec] = @ \union {main.lam.n}] ELSE wrote
    /\ Deliver([main.lam EXCEPT !.rec = None], ready)
    /\ UNCHANGED <<gmtx, reg, bus, sinkSt, cap, rp, conn, pipeVars, send, pend, ready, shutdown,
                   owed, ncmds>>
    /\ BatchEnds

\* sub_cb(frame): lock si->mtx; nothing to do when there is no pipe.
MainSub ==
    /\ main.at = "sub"
    /\ IF pipe[main.lam.bus] # None THEN MainGoto("write", main.lam) ELSE NextItem(ready)
    /\ UNCHANGED <<gmtx, reg, bus, sinkSt, wrote, cap, rp, conn, pipeVars, send, pend, ready, shutdown,
                   owed, ncmds>>
    /\ BatchEnds

MainWriteKeepsHandle ==     \* closes the handle and does not forget it
    /\ main.at = "write"
    /\ LET c == pipe[main.lam.bus] IN
       \/ Broken(c) /\ CloseHandleOf(c) /\ out' = out
       \/ ~Broken(c) /\ HasRoom(c) /\ out' = [out EXCEPT ![c] = Append(@, "frame")]
                     /\ closes' = closes
    /\ NextItem(ready)
    /\ UNCHANGED <<gmtx, reg, bus, sinkSt, wrote, cap, rp, conn, pipe, client, send, pend, ready,
                   shutdown, owed, ncmds>>
    /\ BatchEnds

\* WriteFile with si->mtx held; on failure close the handle and forget it.
MainWrite ==
    /\ main.at = "write"
    /\ LET c == pipe[main.lam.bus] IN
       \/ /\ Broken(c)
          /\ CloseHandleOf(c)
          /\ pipe' = [pipe EXCEPT ![main.lam.bus] = None]
          /\ out' = out
       \/ /\ ~Broken(c) /\ HasRoom(c)
          /\ out' = [out EXCEPT ![c] = Append(@, "frame")]
          /\ UNCHANGED <<closes, pipe>>
    /\ NextItem(ready)
    /\ UNCHANGED <<gmtx, reg, bus, sinkSt, wrote, cap, rp, conn, client, send, pend, ready, shutdown,
                   owed, ncmds>>
    /\ BatchEnds

\* "Flush all open recorders before exit", under g_mtx.
MainClose ==
    /\ main.at = "closing" /\ gmtx = None
    /\ recSt' = [r \in RecIds |->
                    IF \E x \in Names : reg[x] # None /\ bus[reg[x]].rec = r
                    THEN "closed" ELSE recSt[r]]
    /\ MainGoto("exit", NoLam)
    /\ UNCHANGED <<gmtx, reg, bus, sinkSt, wrote, cap, rp, conn, pipeVars, send, pend, ready,
                   held, shutdown, owed, ncmds>>

\* main returns and statics go in reverse order: g_sched with all it holds,
MainDestroySched ==
    /\ main.at = "exit"
    /\ pend' = {}
    /\ MainGoto("teardown", NoLam)
    /\ UNCHANGED <<gmtx, reg, bus, sinkSt, wrote, cap, rp, conn, pipeVars, send, ready, held, shutdown, owed, ncmds>>
    /\ CloseUnheld

MainDestroySinkOnly(b) ==   \* the capture's destructor joins without stopping it
    /\ main.at = "teardown" /\ bus[b].life = "live"
    /\ FreeSink(bus[b].sink)
    /\ bus' = [bus EXCEPT ![b] = NoSink(b)]
    /\ MainGoto("join", [NoLam EXCEPT !.bus = b])
    /\ UNCHANGED <<gmtx, reg, recSt, wrote, cap, rp, conn, pipeVars, send, pend, ready,
                   held, shutdown, owed, ncmds>>

\* then g_buses: of each BusWrap the sink, the capture (stopped and joined),
MainDestroySink(b) ==
    /\ main.at = "teardown" /\ bus[b].life = "live"
    /\ FreeSink(bus[b].sink)
    /\ bus' = [bus EXCEPT ![b] = NoSink(b)]
    /\ StopFlag(bus[b].cap)
    /\ MainGoto("join", [NoLam EXCEPT !.bus = b])
    /\ UNCHANGED <<gmtx, reg, recSt, wrote, rp, conn, pipeVars, send, pend, ready, held, shutdown,
                   owed, ncmds>>

\* and last the recorder and the bus.
MainDestroyBus ==
    /\ main.at = "join"
    /\ Joined(bus[main.lam.bus].cap)
    /\ bus' = [bus EXCEPT ![main.lam.bus] = Freed]
    /\ reg' = [x \in Names |-> IF reg[x] = main.lam.bus THEN None ELSE reg[x]]
    /\ MainGoto("teardown", NoLam)
    /\ UNCHANGED <<gmtx, sinkSt, wrote, cap, rp, conn, pipeVars, send, pend, ready,
                   held, shutdown, owed, ncmds>>
    /\ CloseUnheld

MainExit ==
    /\ main.at = "teardown" /\ \A b \in BusIds : bus[b].life # "live"
    /\ MainGoto("exited", NoLam)
    /\ UNCHANGED <<gmtx, objVars, wrote, cap, rp, conn, pipeVars, send, pend, ready, held, shutdown,
                   owed, ncmds>>

Main ==
    \/ MainCheck \/ (\E D \in SUBSET pend : MainDrain(D))
    \/ (\E l \in ready : MainNext(l))
    \/ MainRecord \/ MainSub \/ MainWrite
    \/ MainClose \/ MainDestroySched \/ (\E b \in BusIds : MainDestroySink(b))
    \/ MainDestroyBus \/ MainExit

\* Everything c's thread does once it has a request.
Handler(c) ==
    \/ NoSuchBus(c) \/ Look(c) \/ Create(c)
    \/ RecordOff(c) \/ RecordOnDetach(c) \/ RecordOnOpen(c)
    \/ SendCmd(c) \/ SendCmdReturn(c)
    \/ ReplayLookup(c) \/ ReplayStart(c)
    \/ CaptureStop(c) \/ CaptureStopped(c) \/ CaptureStart(c)
    \/ ForwardReset(c) \/ ForwardStart(c) \/ StopForward(c)
    \/ Subscribe(c) \/ SubscribeAttach(c) \/ SubscribeSetCb(c)
    \/ Delete(c) \/ DeleteUnsub(c) \/ DeleteUnrecord(c) \/ DeleteErase(c)
    \/ Quit(c)
    \/ WriteReply(c) \/ ConnEnd(c)

\* The process is gone once main and the destructors are through, or it crashes.
Up == main.at \notin {"exited", "crashed"}
Halted == ~Up /\ UNCHANGED vars

Next ==
    \/ Up /\ Main
    \/ \E c \in Clients : Up /\ (Request(c) \/ Handler(c) \/ ClientRead(c) \/ ClientClose(c))
    \/ \E t \in Senders : Up /\ (Sending(t) \/ SendPostLate(t))
    \/ \E k \in CapIds : Up /\ CapThread(k)
    \/ \E r \in Replays : Up /\ (ReplayFrame(r) \/ ReplayEnd(r))
    \/ Halted

\* The daemon's threads run, a thread that waits for a mutex gets it once it stays
\* free, and a frame whose delay is over is drained.  Nothing is
\* assumed of datagrams, of the peers of a relayed TCP connection, or of clients
\* issuing commands.
ServerFairness ==
    /\ WF_vars(Up /\ Main)
    /\ \A n \in 1..MaxFrames :
          SF_vars(Up /\ \E D \in SUBSET pend : (\E l \in D : l.n = n) /\ MainDrain(D))
    /\ \A c \in Clients : WF_vars(Up /\ Handler(c))
    /\ \A t \in Senders : WF_vars(Up /\ (Sending(t) \/ SendPostLate(t)))
    /\ \A k \in CapIds : WF_vars(Up /\ CapStep(k))

\* Clients keep reading what they are sent.
ReaderFairness == \A c \in Clients : WF_vars(Up /\ ClientRead(c))

Spec == Init /\ [][Next]_vars
FairSpec == Spec /\ ServerFairness /\ ReaderFairness

-----------------------------------------------------------------------------
\* The states of a bus, a capture, a connection, a call of Send and a delivery.
BusStates ==
    [life : {"none", "live", "freed"}, rec : RecIds \union {None}, recCb : RecIds \union {None},
     cap : CapIds \union {None}, subCb : BOOLEAN,
     sink : SinkIds \union {None}, fwdCb : SinkIds \union {None}]
CapStates ==
    [kind : {"udp", "tcp", None}, bus : BusIds \union {None}, running : BOOLEAN,
     at : {"none", "check", "recv", "relay", "sending", "done"}]
Holding == {"open", "sending", "join", "start", "attach", "setcb", "unsub", "unrec"}
ConnStates ==
    [at : Holding \union {"read", "lock", "probe", "reply", "handed", "ended"},
     cmd : Commands \union {None}, name : Names \union {None}, bus : BusIds \union {None},
     resp : {"OK", "ERR", None}, stay : BOOLEAN]
CallStates ==
    [at : {"out", "snap", "fwd", "post"}, bus : BusIds \union {None}, n : Nat,
     rec : RecIds \union {None}, sub : BOOLEAN, fwd : SinkIds \union {None}]
Lambdas == [n : Nat, bus : BusIds \union {None}, rec : RecIds \union {None}, sub : BOOLEAN]

TypeOK ==
    /\ gmtx \in Clients \union {None}
    /\ reg \in [Names -> BusIds \union {None}]
    /\ bus \in [BusIds -> BusStates]
    /\ recSt \in [RecIds -> {"none", "open", "closed"}]
    /\ wrote \in [RecIds -> SUBSET (1..MaxFrames)]
    /\ sinkSt \in [SinkIds -> {"none", "live", "freed"}]
    /\ cap \in [CapIds -> CapStates]
    /\ rp \in [Replays -> BusIds \union {None}]
    /\ conn \in [Clients -> ConnStates]
    /\ pipe \in [BusIds -> Clients \union {None}]
    /\ out \in [Clients -> Seq({"reply", "frame"})]
    /\ \A c \in Clients : Len(out[c]) <= PipeCap
    /\ closes \in [Clients -> Nat]
    /\ client \in [Clients -> {"up", "acked", "closed"}]
    /\ send \in [Senders -> CallStates]
    /\ pend \in SUBSET Lambdas /\ ready \in SUBSET Lambdas /\ held \in SUBSET RecIds
    /\ main \in [at : {"check", "drain", "next", "rec", "sub", "write", "closing", "exit",
                       "teardown", "join", "exited", "crashed"}, lam : Lambdas]
    /\ shutdown \in BOOLEAN
    /\ owed \in Seq(RecIds \union {None}) /\ Len(owed) <= MaxFrames
    /\ ncmds \in 0..MaxCmds

SendsOnLiveBus(T) == \A t \in T : InSend(t) => bus[send[t].bus].life = "live"
ForwardsToLiveSink(T) == \A t \in T : send[t].at = "fwd" => sinkSt[send[t].fwd] = "live"
TearingDown == main.at \in {"teardown", "join", "exited", "crashed"}

\* No capture thread and no command is ever inside Send on a bus that has been
\* destroyed: delete stops and joins the capture before it erases the entry
\* (vbusd.cpp:171-173), and a command sends under g_mtx.
OwnersSendOnLiveBus == SendsOnLiveBus(CapIds \union Clients)

\* A bus never has two capture threads at work: a capture that is replaced has
\* been joined before its successor starts (vbusd.cpp:325-330, 341-347).
OneCapturePerBus ==
    \A k, l \in CapIds :
        /\ k # l /\ cap[k].bus = cap[l].bus
        /\ cap[k].at \notin {"none", "done"}
        => cap[l].at \in {"none", "done"}

\* What a bus calls is what its entry owns, whenever no handler is at work: a
\* callback whose recorder or sink is gone, or an attached recorder or sink that
\* is never called, would show here (vbusd.cpp:54-63, 108-122, 366-376).
CallbacksMatchOwners ==
    gmtx = None =>
        \A b \in BusIds :
            /\ bus[b].recCb = bus[b].rec
            /\ bus[b].fwdCb = bus[b].sink
            /\ pipe[b] # None /\ bus[b].life = "live" => bus[b].subCb

\* delete leaves nothing at work that the bus owned: its capture thread has ended, its
\* subscriber's pipe is closed, its sink is freed, and no command is inside its Send
\* (vbusd.cpp:164-176).  The bus owns no replay thread, and delete knows of none:
\* ReplaySendsOnLiveBus.
DeleteLeavesNothing ==
    /\ \A b \in BusIds : bus[b].life = "freed" =>
        /\ \A k \in CapIds : cap[k].bus = b => cap[k].at = "done"
        /\ pipe[b] = None \/ TearingDown
        /\ \A t \in CapIds \union Clients : send[t].bus # b
    /\ \A s \in SinkIds : sinkSt[s] = "live" =>
        \E b \in BusIds : bus[b].life = "live" /\ bus[b].sink = s

\* A frame sent from a command meets a sink that exists: the sink is replaced
\* under the g_mtx that the command holds (vbusd.cpp:233-240, 367-374).
CommandsForwardToLiveSink == ForwardsToLiveSink(Clients)

\* A delivery never finds its recorder closed, whatever record on/off and delete
\* did since the frame was sent: the file closes with the last reference, and the
\* delivery owns one (vbusd.cpp:55-62, 115-116).
RecorderOpenAtDelivery ==
    main.at = "rec" => recSt[main.lam.rec] = "open"

InFlight(n) ==
    \/ \E t \in Senders : send[t].n = n
    \/ \E l \in pend \union ready : l.n = n
    \/ main.at = "rec" /\ main.lam.n = n

\* Until shutdown a frame that met a recorder is in flight or in that recorder's
\* file, and in no other (eth_bus.cpp:36-61 with vbusd.cpp:108-122).
RecordedOrInFlight ==
    ~shutdown =>
        \A n \in 1..nframes : \A r \in RecIds :
            /\ owed[n] = r /\ ~InFlight(n) => n \in wrote[r]
            /\ n \in wrote[r] => owed[n] = r

\* The frames in the file of a recorder that is still attached are never lost
\* sight of: a frame that met a recorder is in the end written, unless the daemon
\* is told to quit.
RecordedEventually ==
    \A n \in 1..MaxFrames : \A r \in RecIds :
        (n <= nframes /\ owed[n] = r) ~> (n \in wrote[r] \/ shutdown)

\* A recorder that no entry holds any more is closed in the end, once what was sent
\* under it is through: no callback or lambda keeps a reference for good
\* (vbusd.cpp:54-63, scheduler.cpp:12-23).
DetachedFileClosesEventually ==
    \A r \in RecIds :
        (recSt[r] = "open" /\ \A b \in BusIds : bus[b].rec # r) ~> (recSt[r] = "closed" \/ shutdown)

\* Every pipe handle has one owner: it is closed at most once, a subscriber's
\* slot never holds a closed handle, no two slots share one, and a handle handed
\* over by its thread is in a slot or closed (vbusd.cpp:67-106, 578-582).
HandleOwnership ==
    /\ \A c \in Clients :
         /\ closes[c] <= 1
         /\ conn[c].at = "handed" /\ closes[c] = 0 => \E b \in BusIds : pipe[b] = c
    /\ \A b \in BusIds : pipe[b] # None => closes[pipe[b]] = 0
    /\ \A a, b \in BusIds : pipe[a] = pipe[b] /\ pipe[a] # None => a = b

\* A command that has been read is answered, unless the process ends first.
Answered == \A c \in Clients : (conn[c].at = "lock") ~> (conn[c].at = "reply" \/ ~Up)

\* quit ends the process: main leaves its loop, and no capture keeps the destructors
\* waiting.  It does not say how: a thread that posts to the destroyed scheduler
\* may bring the process down (SendPostLate).  Left out is a handler caught using
\* g_buses while main is destroying it, of which no outcome is modelled.
HandlerAtWork(c) == conn[c].at \notin {"read", "reply", "handed", "ended"}
QuitTerminates ==
    (<>shutdown) => <>(~Up \/ (TearingDown /\ \E c \in Clients : HandlerAtWork(c)))

-----------------------------------------------------------------------------
(* What the documents say and the code does not do.                         *)

\* protocol.md:118: a replay "injects all recorded frames into the named bus".
ReplaySendsOnLiveBus == SendsOnLiveBus(Replays)

\* protocol.md:71: record off "closes the file": once no entry holds a recorder,
\* its file stays as it is.
DetachedFileIsClosed ==
    [][\A r \in RecIds :
          recSt[r] = "open" /\ (\A b \in BusIds : bus[b].rec # r) => wrote'[r] = wrote[r]]_vars

\* protocol.md:142: stop-capture "Stops any active UDP/TCP capture endpoint".
StopCaptureAnswered ==
    \A c \in Clients :
        (conn[c].at = "lock" /\ conn[c].cmd = "stop-capture") ~> (conn[c].at = "reply" \/ ~Up)

\* daemon_client.cpp:78: "Read the acknowledgement ("OK stream\n")": the first
\* message on a subscriber's pipe is the reply.
AckFirst ==
    \A c \in Clients :
        conn[c].cmd = "subscribe" /\ client[c] = "up" /\ out[c] # <<>> => Head(out[c]) = "reply"

=============================================================================
