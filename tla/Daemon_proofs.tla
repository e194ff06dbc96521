---------------------------- MODULE Daemon_proofs ----------------------------
(***************************************************************************)
(* Theorems about Daemon for any number of connections, names, objects,      *)
(* threads, commands and frames.                                             *)
(***************************************************************************)
EXTENDS Daemon, SequenceTheorems, TLAPS

\* A handler holds g_mtx at these positions and at no other.
Mutex == \A c \in Clients : gmtx = c <=> conn[c].at \in Holding

\* What a thread refers to while it is at work: a bus, a frame that has been counted, a
\* recorder, a subscriber.
ThreadRefers ==
    \A c \in Clients :
        /\ conn[c].at \in Holding \union {"lock"} => conn[c].name \in Names
        /\ conn[c].at \in Holding \union {"probe"} => conn[c].bus \in BusIds
FrameRefers ==
    /\ \A k \in CapIds : cap[k].at # "none" => cap[k].bus \in BusIds
    /\ \A t \in Senders : IF InSend(t) THEN send[t].bus \in BusIds /\ send[t].n \in 1..nframes
                                       ELSE send[t] = NoSend
    /\ \A l \in pend \union ready : l.bus \in BusIds /\ l.n \in 1..nframes
    /\ main.at \in {"rec", "sub", "write"} => main.lam.bus \in BusIds /\ main.lam.n \in 1..nframes
    /\ main.at = "join" => main.lam.bus \in BusIds
    /\ main.at = "rec" => main.lam.rec \in RecIds
    /\ main.at = "write" => pipe[main.lam.bus] # None
Refers == ThreadRefers /\ FrameRefers

\* Where main is in its loop says what is left of the batch, and that quit was given.
Batch ==
    /\ main.at \notin {"next", "rec", "sub", "write"} => ready = {}
    /\ main.at \in {"closing", "exit"} \/ TearingDown => shutdown

\* A pipe handle is its own thread's, handed over to a slot, or closed.
HandedOver(c) ==
    conn[c].at \in {"setcb", "handed"} \/ (conn[c].at = "reply" /\ conn[c].stay)
Handles ==
    /\ \A c \in Clients :
         /\ conn[c].stay => conn[c].at \in {"reply", "handed"}
         /\ closes[c] <= 1
         /\ HandedOver(c) => (closes[c] = 0 <=> \E b \in BusIds : pipe[b] = c)
         /\ ~HandedOver(c) => \A b \in BusIds : pipe[b] # c
         /\ ~HandedOver(c) /\ conn[c].at # "ended" => closes[c] = 0
    /\ \A a, b \in BusIds : pipe[a] = pipe[b] /\ pipe[a] # None => a = b

\* Names lead to live buses, and a handler's bus stays the one its name led to.
Registry ==
    /\ \A x \in Names : reg[x] # None => bus[reg[x]].life = "live"
    /\ \A x, y \in Names : reg[x] = reg[y] /\ reg[x] # None => x = y
    /\ \A c \in Clients : conn[c].at \in Holding => reg[conn[c].name] = conn[c].bus

\* A capture thread at work is the one its live bus owns.
Working(k) == cap[k].at \notin {"none", "done"}
Captures ==
    \A k \in CapIds :
        /\ cap[k].at = "none" => cap[k].bus = None
        /\ Working(k) => bus[cap[k].bus].life = "live" /\ bus[cap[k].bus].cap = k
        /\ InSend(k) => cap[k].at = "sending" /\ send[k].bus = cap[k].bus

\* A command sends on its handler's bus, through the sink it found there.
Sends ==
    \A c \in Clients :
        /\ InSend(c) => conn[c].at = "sending" /\ send[c].bus = conn[c].bus
        /\ send[c].at = "fwd" => send[c].fwd # None /\ send[c].fwd = bus[send[c].bus].fwdCb

\* What a bus calls is what its entry owns, but for the subscriber's callback while a
\* subscribe or a delete is between its two steps.
Entries ==
    \A b \in BusIds :
        /\ bus[b].recCb = bus[b].rec /\ bus[b].fwdCb = bus[b].sink
        /\ bus[b].life # "live" => bus[b].sink = None /\ bus[b].rec = None
        /\ bus[b].sink # None => sinkSt[bus[b].sink] = "live"
        /\ \A a \in BusIds : bus[a].sink = bus[b].sink /\ bus[a].sink # None => a = b
        /\ bus[b].life # "live" => pipe[b] = None
        /\ pipe[b] # None /\ bus[b].life = "live" /\ ~bus[b].subCb =>
             \E c \in Clients : conn[c].at \in {"setcb", "unsub"} /\ conn[c].bus = b
Deletes ==
    \A c \in Clients :
        conn[c].at = "unrec" \/ (conn[c].at = "join" /\ conn[c].cmd = "delete") =>
            pipe[conn[c].bus] = None

\* No recorder is closed while anything still refers to it; what is left of the batch has
\* its recorders kept by the batch.
RecOpen(r) == r # None => recSt[r] = "open"
Recorders ==
    main.at # "exit" =>
        /\ \A b \in BusIds : RecOpen(bus[b].recCb)
        /\ \A t \in Senders : RecOpen(send[t].rec)
        /\ \A l \in pend \union ready : RecOpen(l.rec)
        /\ main.at = "rec" => RecOpen(main.lam.rec)
        /\ \A r \in held : RecOpen(r)
        /\ \A l \in ready : l.rec \in held \union {None}
        /\ main.at = "rec" => main.lam.rec \in held

\* A live sink is a live bus's, and a forward-udp has dropped the old one before it
\* starts the new.
Sinks ==
    /\ \A s \in SinkIds : sinkSt[s] = "live" =>
         \E b \in BusIds : bus[b].life = "live" /\ bus[b].sink = s
    /\ \A c \in Clients : conn[c].at = "start" => bus[conn[c].bus].sink = None

\* A frame in flight carries the recorder it is owed to, and until its bus is locked
\* nothing else knows its number.
Frames ==
    /\ \A t \in Senders : send[t].at \in {"fwd", "post"} => send[t].rec = owed[send[t].n]
    /\ \A l \in pend \union ready : l.rec = owed[l.n]
    /\ main.at = "rec" => main.lam.rec = owed[main.lam.n]
    /\ \A t \in Senders : send[t].at = "snap" =>
         /\ owed[send[t].n] = None
         /\ \A u \in Senders : InSend(u) /\ u # t => send[u].n # send[t].n
         /\ \A l \in pend \union ready : l.n # send[t].n
         /\ main.at = "rec" => main.lam.n # send[t].n
         /\ \A r \in RecIds : send[t].n \notin wrote[r]
    /\ \A r \in RecIds : wrote[r] \subseteq 1..nframes

Steady == ~TearingDown =>
    Registry /\ Captures /\ Sends /\ Entries /\ Deletes /\ Recorders /\ Sinks
IInv == TypeOK /\ Mutex /\ Refers /\ Batch /\ Handles /\ Steady /\ Frames /\ RecordedOrInFlight

-----------------------------------------------------------------------------
(* How a connection thread moves.                                           *)

Others(c) == \A d \in Clients \ {c} : conn'[d] = conn[d]
Keeps(c) ==
    conn'[c].cmd = conn[c].cmd /\ conn'[c].name = conn[c].name /\ conn'[c].stay = conn[c].stay

\* It takes g_mtx and stays in its handler, goes on in it, or answers and releases it;
Enters(c) ==
    /\ conn[c].at = "lock" /\ gmtx = None /\ gmtx' = c
    /\ conn'[c].at \in Holding \ {"setcb"}
    /\ conn'[c].bus = reg[conn[c].name] /\ conn'[c].bus # None
    /\ Keeps(c)
Advances(c) ==
    /\ conn[c].at \in Holding \ {"setcb"} /\ gmtx' = gmtx
    /\ conn'[c].at \in Holding /\ conn'[c].bus = conn[c].bus
    /\ Keeps(c)
Answers(c) ==
    /\ (conn[c].at = "lock" /\ gmtx = None) \/ conn[c].at \in Holding \ {"setcb"}
    /\ gmtx' = None /\ conn'[c].at = "reply"
    /\ Keeps(c)
\* or it moves without g_mtx.
Aside(c) ==
    /\ conn[c].at \notin Holding /\ conn'[c].at \notin Holding
    /\ gmtx' = gmtx
    /\ conn'[c].at = "lock" => conn'[c].name \in Names
    /\ conn'[c].at = "probe" => conn'[c].bus \in BusIds

Moves(c) ==
    /\ conn' \in [Clients -> ConnStates]
    /\ Others(c)
    /\ Enters(c) \/ Advances(c) \/ Answers(c) \/ Aside(c) \/ SubscribeSetCb(c)

LEMMA ReplyMoves ==
  ASSUME TypeOK, NEW c \in Clients, NEW r \in {"OK", "ERR"}, Reply(c, r)
  PROVE  /\ conn' \in [Clients -> ConnStates] /\ Others(c) /\ Keeps(c)
         /\ conn'[c].at = "reply" /\ conn'[c].bus = None /\ gmtx' = None
<1> DEFINE v == [conn[c] EXCEPT !.at = "reply", !.resp = r, !.bus = None]
<1>1. conn[c] \in ConnStates /\ conn \in [Clients -> ConnStates]
  BY DEF TypeOK
<1>2. /\ v \in ConnStates /\ v.at = "reply" /\ v.bus = None
      /\ v.cmd = conn[c].cmd /\ v.name = conn[c].name /\ v.stay = conn[c].stay
  BY <1>1 DEF ConnStates
<1>3. conn' = [conn EXCEPT ![c] = v] /\ gmtx' = None
  BY DEF Reply
<1> HIDE DEF v
<1> QED
  BY <1>1, <1>2, <1>3 DEF Others, Keeps

LEMMA GotoMoves ==
  ASSUME TypeOK, NEW c \in Clients, NEW s \in Holding, Goto(c, s),
         NEW cmd, Locks(c, cmd), conn[c].name \in Names
  PROVE  /\ conn' \in [Clients -> ConnStates] /\ Others(c) /\ Keeps(c)
         /\ conn'[c].at = s /\ conn'[c].bus = reg[conn[c].name] /\ conn'[c].bus \in BusIds
         /\ gmtx' = c /\ gmtx = None /\ conn[c].at = "lock"
<1> DEFINE b == reg[conn[c].name]
           v == [[conn[c] EXCEPT !.at = s] EXCEPT !.bus = b]
<1>1. conn[c] \in ConnStates /\ conn \in [Clients -> ConnStates] /\ b \in BusIds
  BY DEF TypeOK, Locks
<1> HIDE DEF b
<1>2. /\ v \in ConnStates /\ v.at = s /\ v.bus = b
      /\ v.cmd = conn[c].cmd /\ v.name = conn[c].name /\ v.stay = conn[c].stay
  BY <1>1 DEF ConnStates
<1>3. conn' = [conn EXCEPT ![c] = v] /\ gmtx' = c /\ gmtx = None /\ conn[c].at = "lock"
  BY DEF Goto, Locks, b
<1> HIDE DEF v
<1> QED
  BY <1>1, <1>2, <1>3, DaemonAssumption DEF Others, Keeps, b

LEMMA StepMoves ==
  ASSUME TypeOK, NEW c \in Clients,
         NEW s \in Holding \union {"reply", "handed", "ended"},
         conn' = [conn EXCEPT ![c].at = s]
  PROVE  /\ conn' \in [Clients -> ConnStates] /\ Others(c) /\ Keeps(c)
         /\ conn'[c].at = s /\ conn'[c].bus = conn[c].bus
<1> DEFINE v == [conn[c] EXCEPT !.at = s]
<1>1. conn[c] \in ConnStates /\ conn \in [Clients -> ConnStates]
  BY DEF TypeOK
<1>2. /\ v \in ConnStates /\ v.at = s /\ v.bus = conn[c].bus
      /\ v.cmd = conn[c].cmd /\ v.name = conn[c].name /\ v.stay = conn[c].stay
  BY <1>1 DEF ConnStates
<1>3. conn' = [conn EXCEPT ![c] = v]
  OBVIOUS
<1> HIDE DEF v
<1> QED
  BY <1>1, <1>2, <1>3 DEF Others, Keeps

\* Every step of a connection thread is of one of these kinds.
LEMMA HandlerMoves ==
  ASSUME TypeOK, Refers, NEW c \in Clients, Request(c) \/ Handler(c)
  PROVE  Moves(c)
<1>1. conn[c] \in ConnStates /\ conn \in [Clients -> ConnStates]
  BY DEF TypeOK
<1>2. /\ conn[c].at = "lock" => conn[c].name \in Names
      /\ conn[c].at \in Holding \union {"probe"} => conn[c].bus \in BusIds
  BY DEF Refers, ThreadRefers
<1>3. ASSUME NEW r \in {"OK", "ERR"}, Reply(c, r),
             (conn[c].at = "lock" /\ gmtx = None) \/ conn[c].at \in Holding \ {"setcb"}
      PROVE  Moves(c)
  BY <1>3, ReplyMoves DEF Moves, Answers
<1>4. ASSUME NEW s \in Holding \ {"setcb"}, NEW cmd, Locks(c, cmd), Goto(c, s)
      PROVE  Moves(c)
  <2>1. conn[c].name \in Names
    BY <1>2, <1>4 DEF Locks
  <2> QED
    BY <1>4, <2>1, GotoMoves, DaemonAssumption DEF Moves, Enters
<1>5. ASSUME NEW s \in Holding, conn' = [conn EXCEPT ![c].at = s],
             conn[c].at \in Holding \ {"setcb"}, gmtx' = gmtx
      PROVE  Moves(c)
  BY <1>5, StepMoves DEF Moves, Advances
<1>6. ASSUME NEW v \in ConnStates, conn' = [conn EXCEPT ![c] = v],
             conn[c].at \notin Holding, v.at \notin Holding, gmtx' = gmtx,
             v.at = "lock" => v.name \in Names, v.at = "probe" => v.bus \in BusIds
      PROVE  Moves(c)
  <2>1. conn' \in [Clients -> ConnStates] /\ Others(c) /\ conn'[c] = v
    BY <1>1, <1>6 DEF Others
  <2> QED
    BY <1>6, <2>1 DEF Moves, Aside
<1>7. CASE Request(c)
  <2>1. PICK cmd \in Commands, x \in Names :
           conn' = [conn EXCEPT ![c] = [NotYet EXCEPT !.at = "lock", !.cmd = cmd, !.name = x]]
    BY <1>7 DEF Request
  <2> DEFINE v == [NotYet EXCEPT !.at = "lock", !.cmd = cmd, !.name = x]
  <2>2. v \in ConnStates /\ v.at = "lock" /\ v.name \in Names
    BY DEF NotYet, ConnStates
  <2>3. conn[c].at \notin Holding /\ gmtx' = gmtx
    BY <1>7 DEF Request, Holding
  <2>4. conn' = [conn EXCEPT ![c] = v]
    BY <2>1
  <2> HIDE DEF v
  <2> QED
    BY <1>6, <2>2, <2>3, <2>4 DEF Holding
<1>8. CASE NoSuchBus(c) \/ Look(c) \/ Create(c) \/ RecordOff(c) \/ StopForward(c)
  <2>1. PICK r \in {"OK", "ERR"} : Reply(c, r)
    BY <1>8 DEF NoSuchBus, Look, Create, RecordOff, StopForward
  <2>2. conn[c].at = "lock" /\ gmtx = None
    BY <1>8 DEF NoSuchBus, Look, Create, RecordOff, StopForward, At, Locks
  <2> QED
    BY <1>3, <2>1, <2>2
<1>9. CASE RecordOnOpen(c) \/ SendCmdReturn(c) \/ CaptureStopped(c) \/ CaptureStart(c)
           \/ ForwardStart(c) \/ DeleteErase(c)
  <2>1. PICK r \in {"OK", "ERR"} : Reply(c, r)
    BY <1>9 DEF RecordOnOpen, SendCmdReturn, CaptureStopped, CaptureStart, ForwardStart, DeleteErase
  <2>2. conn[c].at \in Holding \ {"setcb"}
    BY <1>9 DEF RecordOnOpen, SendCmdReturn, CaptureStopped, CaptureStart, ForwardStart,
                DeleteErase, At, Holding
  <2> QED
    BY <1>3, <2>1, <2>2
<1>10. CASE RecordOnDetach(c) \/ SendCmd(c) \/ CaptureStop(c) \/ ForwardReset(c) \/ Subscribe(c)
            \/ Delete(c)
  <2>1. PICK s \in Holding \ {"setcb"} : Goto(c, s)
    BY <1>10 DEF RecordOnDetach, SendCmd, CaptureStop, ForwardReset, Subscribe, Delete, Holding
  <2>2. \E cmd : Locks(c, cmd)
    BY <1>10 DEF RecordOnDetach, SendCmd, CaptureStop, ForwardReset, Subscribe, Delete
  <2> QED
    BY <1>4, <2>1, <2>2
<1>11. CASE SubscribeAttach(c) \/ DeleteUnsub(c) \/ DeleteUnrecord(c)
  <2>1. PICK s \in Holding : conn' = [conn EXCEPT ![c].at = s]
    BY <1>11 DEF SubscribeAttach, DeleteUnsub, DeleteUnrecord, Holding
  <2>2. conn[c].at \in Holding \ {"setcb"} /\ gmtx' = gmtx
    BY <1>11 DEF SubscribeAttach, DeleteUnsub, DeleteUnrecord, At, Holding
  <2> QED
    BY <1>5, <2>1, <2>2
<1>12. CASE SubscribeSetCb(c)
  <2> DEFINE v == [[[conn[c] EXCEPT !.at = "reply"] EXCEPT !.resp = "OK"] EXCEPT !.stay = TRUE]
  <2>1. v \in ConnStates
    BY <1>1 DEF ConnStates
  <2>2. conn' = [conn EXCEPT ![c] = v]
    BY <1>12 DEF SubscribeSetCb
  <2> HIDE DEF v
  <2> QED
    BY <1>1, <1>12, <2>1, <2>2 DEF Moves, Others
<1>13. CASE ReplayLookup(c)
  <2> DEFINE v == [[conn[c] EXCEPT !.at = "probe"] EXCEPT !.bus = reg[conn[c].name]]
  <2>1. reg[conn[c].name] \in BusIds /\ conn[c].at = "lock" /\ gmtx' = gmtx
    BY <1>2, <1>13 DEF ReplayLookup, Locks, TypeOK
  <2>2. v \in ConnStates /\ v.at = "probe" /\ v.bus \in BusIds
    BY <1>1, <2>1 DEF ConnStates
  <2>3. conn' = [conn EXCEPT ![c] = v]
    BY <1>13 DEF ReplayLookup
  <2> HIDE DEF v
  <2> QED
    BY <1>6, <2>1, <2>2, <2>3 DEF Holding
<1>14. CASE ReplayStart(c) \/ Quit(c)
  <2>1. PICK r \in {"OK", "ERR"} :
           conn' = [conn EXCEPT ![c].at = "reply", ![c].resp = r]
    BY <1>14 DEF ReplayStart, Quit
  <2> DEFINE v == [[conn[c] EXCEPT !.at = "reply"] EXCEPT !.resp = r]
  <2>2. v \in ConnStates /\ v.at = "reply"
    BY <1>1 DEF ConnStates
  <2>3. conn' = [conn EXCEPT ![c] = v]
    BY <2>1
  <2>4. conn[c].at \notin Holding /\ gmtx' = gmtx
    BY <1>14 DEF ReplayStart, Quit, At, Holding
  <2> HIDE DEF v
  <2> QED
    BY <1>6, <2>2, <2>3, <2>4 DEF Holding
<1>15. CASE WriteReply(c)
  <2> DEFINE v == IF conn[c].stay THEN [conn[c] EXCEPT !.at = "handed"] ELSE NotYet
  <2>1. v \in ConnStates /\ v.at \in {"handed", "read"}
    BY <1>1 DEF ConnStates, NotYet
  <2>2. conn' = [conn EXCEPT ![c] = v] /\ conn[c].at \notin Holding /\ gmtx' = gmtx
    BY <1>15 DEF WriteReply, Holding
  <2> HIDE DEF v
  <2> QED
    BY <1>6, <2>1, <2>2 DEF Holding
<1>16. CASE ConnEnd(c)
  <2> DEFINE v == [conn[c] EXCEPT !.at = "ended"]
  <2>1. v \in ConnStates /\ v.at = "ended"
    BY <1>1 DEF ConnStates
  <2>2. conn' = [conn EXCEPT ![c] = v] /\ conn[c].at \notin Holding /\ gmtx' = gmtx
    BY <1>16 DEF ConnEnd, Holding
  <2> HIDE DEF v
  <2> QED
    BY <1>6, <2>1, <2>2 DEF Holding
<1> QED
  BY <1>7, <1>8, <1>9, <1>10, <1>11, <1>12, <1>13, <1>14, <1>15, <1>16 DEF Handler

\* g_mtx has one holder, whichever way a thread moves.
LEMMA MovesKeepMutex ==
  ASSUME TypeOK, Mutex, NEW c \in Clients, Moves(c)
  PROVE  Mutex' /\ gmtx' \in Clients \union {None}
<1> USE DaemonAssumption DEF Others, Holding
<1>1. conn \in [Clients -> ConnStates] /\ gmtx \in Clients \union {None} /\ Others(c)
  BY DEF TypeOK, Moves
<1>2. CASE Enters(c)
  BY <1>1, <1>2 DEF Enters, Mutex
<1>3. CASE Advances(c)
  BY <1>1, <1>3 DEF Advances, Mutex
<1>4. CASE Answers(c)
  BY <1>1, <1>4 DEF Answers, Mutex
<1>5. CASE Aside(c)
  BY <1>1, <1>5 DEF Aside, Mutex
<1>6. CASE SubscribeSetCb(c)
  <2>1. conn'[c].at = "reply" /\ gmtx' = None /\ conn[c].at = "setcb"
    BY <1>1, <1>6 DEF SubscribeSetCb, At, ConnStates
  <2> QED
    BY <1>1, <2>1 DEF Mutex
<1> QED
  BY <1>2, <1>3, <1>4, <1>5, <1>6 DEF Moves

LEMMA MovesKeepThreads ==
  ASSUME TypeOK, ThreadRefers, NEW c \in Clients, Moves(c)
  PROVE  ThreadRefers'
<1> USE DEF Others, Holding, Keeps
<1>1. conn \in [Clients -> ConnStates] /\ conn' \in [Clients -> ConnStates] /\ Others(c)
  BY DEF TypeOK, Moves
<1>2. CASE Enters(c)
  <2>1. conn[c].name \in Names /\ conn'[c].bus \in BusIds
    BY <1>1, <1>2 DEF Enters, ThreadRefers, TypeOK
  <2> QED
    BY <1>1, <1>2, <2>1 DEF Enters, ThreadRefers
<1>3. CASE Advances(c)
  BY <1>1, <1>3 DEF Advances, ThreadRefers
<1>4. CASE Answers(c)
  BY <1>1, <1>4 DEF Answers, ThreadRefers
<1>5. CASE Aside(c)
  BY <1>1, <1>5 DEF Aside, ThreadRefers
<1>6. CASE SubscribeSetCb(c)
  <2>1. conn'[c].at = "reply"
    BY <1>1, <1>6 DEF SubscribeSetCb, At, ConnStates
  <2> QED
    BY <1>1, <2>1 DEF ThreadRefers
<1> QED
  BY <1>2, <1>3, <1>4, <1>5, <1>6 DEF Moves

-----------------------------------------------------------------------------
(* How a bus and its callbacks change.                                      *)

Buses(b) == bus' \in [BusIds -> BusStates] /\ \A a \in BusIds \ {b} : bus'[a] = bus[a]

RecorderSet(b, r) ==
    /\ Buses(b)
    /\ bus'[b].rec = r /\ bus'[b].recCb = r
    /\ bus'[b].life = bus[b].life /\ bus'[b].cap = bus[b].cap /\ bus'[b].subCb = bus[b].subCb
    /\ bus'[b].sink = bus[b].sink /\ bus'[b].fwdCb = bus[b].fwdCb
SinkSet(b, s) ==
    /\ Buses(b)
    /\ bus'[b].sink = s /\ bus'[b].fwdCb = s
    /\ bus'[b].life = bus[b].life /\ bus'[b].cap = bus[b].cap /\ bus'[b].subCb = bus[b].subCb
    /\ bus'[b].rec = bus[b].rec /\ bus'[b].recCb = bus[b].recCb
CaptureSet(b, k) ==
    /\ Buses(b)
    /\ bus'[b].cap = k
    /\ bus'[b].life = bus[b].life /\ bus'[b].subCb = bus[b].subCb
    /\ bus'[b].rec = bus[b].rec /\ bus'[b].recCb = bus[b].recCb
    /\ bus'[b].sink = bus[b].sink /\ bus'[b].fwdCb = bus[b].fwdCb
SubscriberSet(b, x) ==
    /\ Buses(b)
    /\ bus'[b].subCb = x
    /\ bus'[b].life = bus[b].life /\ bus'[b].cap = bus[b].cap
    /\ bus'[b].rec = bus[b].rec /\ bus'[b].recCb = bus[b].recCb
    /\ bus'[b].sink = bus[b].sink /\ bus'[b].fwdCb = bus[b].fwdCb
\* A bus made or destroyed owns nothing and calls nothing.
LifeSet(b, x) ==
    /\ Buses(b)
    /\ bus'[b] = [life |-> x, rec |-> None, cap |-> None, sink |-> None,
                  recCb |-> None, subCb |-> FALSE, fwdCb |-> None]

LEMMA BusChange ==
  ASSUME TypeOK, NEW b \in BusIds
  PROVE  /\ \A r \in RecIds :
              bus' = [bus EXCEPT ![b].rec = r, ![b].recCb = r] => RecorderSet(b, r)
         /\ bus' = [bus EXCEPT ![b] = NoRecorder(b)] => RecorderSet(b, None)
         /\ \A s \in SinkIds :
              bus' = [bus EXCEPT ![b].sink = s, ![b].fwdCb = s] => SinkSet(b, s)
         /\ bus' = [bus EXCEPT ![b] = NoSink(b)] => SinkSet(b, None)
         /\ \A k \in CapIds \union {None} :
              bus' = [bus EXCEPT ![b].cap = k] => CaptureSet(b, k)
         /\ \A x \in BOOLEAN : bus' = [bus EXCEPT ![b].subCb = x] => SubscriberSet(b, x)
         /\ bus' = [bus EXCEPT ![b] = NewBus] => LifeSet(b, "live")
         /\ bus' = [bus EXCEPT ![b] = Freed] => LifeSet(b, "freed")
<1> USE DEF Buses
<1>1. bus \in [BusIds -> BusStates] /\ bus[b] \in BusStates
  BY DEF TypeOK
<1>2. ASSUME NEW v \in BusStates, bus' = [bus EXCEPT ![b] = v]
      PROVE  Buses(b) /\ bus'[b] = v
  BY <1>1, <1>2
<1>3. ASSUME NEW r \in RecIds \union {None},
             bus' = [bus EXCEPT ![b] = [[bus[b] EXCEPT !.rec = r] EXCEPT !.recCb = r]]
      PROVE  RecorderSet(b, r)
  <2> DEFINE v == [[bus[b] EXCEPT !.rec = r] EXCEPT !.recCb = r]
  <2>1. v \in BusStates
    BY <1>1 DEF BusStates
  <2>2. Buses(b) /\ bus'[b] = v
    BY <1>2, <1>3, <2>1
  <2> QED
    BY <1>1, <2>2 DEF RecorderSet, BusStates
<1>4. ASSUME NEW s \in SinkIds \union {None},
             bus' = [bus EXCEPT ![b] = [[bus[b] EXCEPT !.sink = s] EXCEPT !.fwdCb = s]]
      PROVE  SinkSet(b, s)
  <2> DEFINE v == [[bus[b] EXCEPT !.sink = s] EXCEPT !.fwdCb = s]
  <2>1. v \in BusStates
    BY <1>1 DEF BusStates
  <2>2. Buses(b) /\ bus'[b] = v
    BY <1>2, <1>4, <2>1
  <2> QED
    BY <1>1, <2>2 DEF SinkSet, BusStates
<1>5. bus' = [bus EXCEPT ![b] = NoRecorder(b)] => RecorderSet(b, None)
  <2>1. NoRecorder(b) = [[bus[b] EXCEPT !.rec = None] EXCEPT !.recCb = None]
    BY <1>1 DEF NoRecorder, BusStates
  <2> QED
    BY <1>3, <2>1
<1>6. bus' = [bus EXCEPT ![b] = NoSink(b)] => SinkSet(b, None)
  <2>1. NoSink(b) = [[bus[b] EXCEPT !.sink = None] EXCEPT !.fwdCb = None]
    BY <1>1 DEF NoSink, BusStates
  <2> QED
    BY <1>4, <2>1
<1>7. ASSUME NEW k \in CapIds \union {None}, bus' = [bus EXCEPT ![b].cap = k]
      PROVE  CaptureSet(b, k)
  <2> DEFINE v == [bus[b] EXCEPT !.cap = k]
  <2>1. v \in BusStates /\ bus' = [bus EXCEPT ![b] = v]
    BY <1>1, <1>7 DEF BusStates
  <2>2. Buses(b) /\ bus'[b] = v
    BY <1>2, <2>1
  <2> QED
    BY <1>1, <2>2 DEF CaptureSet, BusStates
<1>8. ASSUME NEW x \in BOOLEAN, bus' = [bus EXCEPT ![b].subCb = x]
      PROVE  SubscriberSet(b, x)
  <2> DEFINE v == [bus[b] EXCEPT !.subCb = x]
  <2>1. v \in BusStates /\ bus' = [bus EXCEPT ![b] = v]
    BY <1>1, <1>8 DEF BusStates
  <2>2. Buses(b) /\ bus'[b] = v
    BY <1>2, <2>1
  <2> QED
    BY <1>1, <2>2 DEF SubscriberSet, BusStates
<1>9. NewBus = [NoBus EXCEPT !.life = "live"] /\ NewBus \in BusStates /\ Freed \in BusStates
  BY DEF NewBus, NoBus, Freed, BusStates
<1>10. bus' = [bus EXCEPT ![b] = NewBus] => LifeSet(b, "live")
  BY <1>2, <1>9 DEF LifeSet, NewBus, NoBus
<1>11. bus' = [bus EXCEPT ![b] = Freed] => LifeSet(b, "freed")
  BY <1>2, <1>9 DEF LifeSet, Freed, NoBus
<1>12. ASSUME NEW r \in RecIds, bus' = [bus EXCEPT ![b].rec = r, ![b].recCb = r]
       PROVE  RecorderSet(b, r)
  BY <1>3, <1>12
<1>13. ASSUME NEW s \in SinkIds, bus' = [bus EXCEPT ![b].sink = s, ![b].fwdCb = s]
       PROVE  SinkSet(b, s)
  BY <1>4, <1>13
<1> QED
  BY <1>5, <1>6, <1>7, <1>8, <1>10, <1>11, <1>12, <1>13

-----------------------------------------------------------------------------
(* How captures, sinks and calls of Send change.                            *)

Untouched(k) == cap'[k].at = cap[k].at /\ cap'[k].bus = cap[k].bus
LEMMA CaptureChange ==
  ASSUME TypeOK
  PROVE  /\ \A k \in CapIds \union {None} : StopFlag(k) =>
              cap' \in [CapIds -> CapStates] /\ \A j \in CapIds : Untouched(j)
         /\ \A k \in CapIds, s \in {"check", "recv", "relay", "sending", "done"} :
              cap' = [cap EXCEPT ![k].at = s] =>
                /\ cap' \in [CapIds -> CapStates]
                /\ cap'[k].at = s /\ cap'[k].bus = cap[k].bus
                /\ \A j \in CapIds \ {k} : cap'[j] = cap[j]
         /\ \A k \in CapIds, cmd \in Capturing, b \in BusIds : LaunchCapture(k, cmd, b) =>
              /\ cap' \in [CapIds -> CapStates]
              /\ cap'[k].at = "check" /\ cap'[k].bus = b
              /\ \A j \in CapIds \ {k} : cap'[j] = cap[j]
              /\ CaptureSet(b, k)
<1>1. cap \in [CapIds -> CapStates]
  BY DEF TypeOK
<1>2. ASSUME NEW k \in CapIds, NEW v \in CapStates, cap' = [cap EXCEPT ![k] = v]
      PROVE  /\ cap' \in [CapIds -> CapStates] /\ cap'[k] = v
             /\ \A j \in CapIds \ {k} : cap'[j] = cap[j]
  BY <1>1, <1>2
<1>3. ASSUME NEW k \in CapIds \union {None}, StopFlag(k)
      PROVE  cap' \in [CapIds -> CapStates] /\ \A j \in CapIds : Untouched(j)
  <2>1. CASE k = None
    BY <1>1, <1>3, <2>1 DEF StopFlag, Untouched
  <2>2. CASE k # None
    <3> DEFINE v == [cap[k] EXCEPT !.running = FALSE]
    <3>1. /\ v \in CapStates /\ v.at = cap[k].at /\ v.bus = cap[k].bus
          /\ cap' = [cap EXCEPT ![k] = v] /\ k \in CapIds
      BY <1>1, <1>3, <2>2 DEF StopFlag, CapStates
    <3> HIDE DEF v
    <3> QED
      BY <1>1, <1>2, <3>1 DEF Untouched
  <2> QED
    BY <2>1, <2>2
<1>4. ASSUME NEW k \in CapIds, NEW s \in {"check", "recv", "relay", "sending", "done"},
             cap' = [cap EXCEPT ![k].at = s]
      PROVE  /\ cap' \in [CapIds -> CapStates]
             /\ cap'[k].at = s /\ cap'[k].bus = cap[k].bus
             /\ \A j \in CapIds \ {k} : cap'[j] = cap[j]
  <2> DEFINE v == [cap[k] EXCEPT !.at = s]
  <2>1. /\ v \in CapStates /\ v.at = s /\ v.bus = cap[k].bus
        /\ cap' = [cap EXCEPT ![k] = v]
    BY <1>1, <1>4 DEF CapStates
  <2> HIDE DEF v
  <2> QED
    BY <1>2, <2>1
<1>5. ASSUME NEW k \in CapIds, NEW cmd \in Capturing, NEW b \in BusIds, LaunchCapture(k, cmd, b)
      PROVE  /\ cap' \in [CapIds -> CapStates]
             /\ cap'[k].at = "check" /\ cap'[k].bus = b
             /\ \A j \in CapIds \ {k} : cap'[j] = cap[j]
             /\ CaptureSet(b, k)
  <2> DEFINE v == [kind |-> IF cmd = "capture-tcp" THEN "tcp" ELSE "udp", bus |-> b,
                   running |-> TRUE, at |-> "check"]
  <2>1. v \in CapStates /\ v.at = "check" /\ v.bus = b
    BY DEF CapStates
  <2>2. cap' = [cap EXCEPT ![k] = v] /\ bus' = [bus EXCEPT ![b].cap = k]
    BY <1>5 DEF LaunchCapture
  <2> HIDE DEF v
  <2> QED
    BY <1>2, <2>1, <2>2, BusChange
<1> QED
  BY <1>3, <1>4, <1>5

LEMMA SinkFreed ==
  ASSUME TypeOK, NEW s \in SinkIds \union {None}, FreeSink(s)
  PROVE  /\ sinkSt' \in [SinkIds -> {"none", "live", "freed"}]
         /\ \A r \in SinkIds \ {s} : sinkSt'[r] = sinkSt[r]
  BY DEF FreeSink, TypeOK

\* Recorders close when nothing refers to them any more, and only then.
LEMMA Closing ==
  ASSUME TypeOK, CloseUnheld
  PROVE  /\ recSt' \in [RecIds -> {"none", "open", "closed"}]
         /\ \A r \in RecIds : recSt[r] = "open" /\ r \in HeldRecs' => recSt'[r] = "open"
<1>1. recSt \in [RecIds -> {"none", "open", "closed"}]
  BY DEF TypeOK
<1> DEFINE H == HeldRecs'
<1>2. recSt' = [r \in RecIds |-> IF recSt[r] = "open" /\ r \notin H THEN "closed" ELSE recSt[r]]
  BY DEF CloseUnheld
<1> HIDE DEF H
<1>3. /\ recSt' \in [RecIds -> {"none", "open", "closed"}]
      /\ \A r \in RecIds : recSt[r] = "open" /\ r \in H => recSt'[r] = "open"
  BY <1>1, <1>2
<1> QED
  BY <1>3 DEF H

LEMMA HandleClosed ==
  ASSUME TypeOK, NEW c \in Clients \union {None}, CloseHandleOf(c)
  PROVE  /\ closes' \in [Clients -> Nat]
         /\ \A d \in Clients : closes'[d] = IF d = c THEN closes[d] + 1 ELSE closes[d]
  BY DaemonAssumption DEF CloseHandleOf, TypeOK

LEMMA SendEntered ==
  ASSUME TypeOK, NEW t \in Senders, NEW b \in BusIds, EnterSend(t, b)
  PROVE  /\ send' \in [Senders -> CallStates]
         /\ send'[t].at = "snap" /\ send'[t].bus = b /\ send'[t].n = nframes + 1
         /\ send'[t].rec = None
         /\ \A a \in Senders \ {t} : send'[a] = send[a]
         /\ owed' \in Seq(RecIds \union {None}) /\ Len(owed') <= MaxFrames
         /\ nframes \in Nat /\ nframes' = nframes + 1
         /\ owed'[nframes + 1] = None /\ \A i \in 1..nframes : owed'[i] = owed[i]
<1>1. /\ send \in [Senders -> CallStates] /\ owed \in Seq(RecIds \union {None})
      /\ nframes \in Nat /\ MaxFrames \in Nat
  BY DaemonAssumption DEF TypeOK, nframes
<1> DEFINE u == [[NoSend EXCEPT !.at = "snap"] EXCEPT !.bus = b]
           v == [u EXCEPT !.n = nframes + 1]
<1>2. NoSend \in CallStates /\ NoSend.rec = None
  BY DEF NoSend, CallStates
<1>3. u \in CallStates /\ u.at = "snap" /\ u.bus = b /\ u.rec = None
  BY <1>2 DEF CallStates
<1>4. send' = [send EXCEPT ![t] = v] /\ owed' = Append(owed, None) /\ nframes < MaxFrames
  BY DEF EnterSend
<1> HIDE DEF u
<1>5. nframes + 1 \in Nat
  BY <1>1
<1>6. /\ v \in CallStates /\ v.at = "snap" /\ v.bus = b /\ v.n = nframes + 1
      /\ v.rec = None
  BY <1>3, <1>5 DEF CallStates
<1>7. /\ Append(owed, None) \in Seq(RecIds \union {None})
      /\ Len(Append(owed, None)) = Len(owed) + 1
      /\ \A i \in 1..Len(owed) : Append(owed, None)[i] = owed[i]
      /\ Append(owed, None)[Len(owed) + 1] = None
  BY <1>1, AppendProperties
<1>8. /\ owed' \in Seq(RecIds \union {None}) /\ Len(owed') <= MaxFrames
      /\ nframes' = nframes + 1
      /\ owed'[nframes + 1] = None /\ \A i \in 1..nframes : owed'[i] = owed[i]
  BY <1>1, <1>4, <1>7 DEF nframes
<1> HIDE DEF v
<1>9. send' \in [Senders -> CallStates] /\ send'[t] = v
      /\ \A a \in Senders \ {t} : send'[a] = send[a]
  BY <1>1, <1>6, <1>4
<1> QED
  BY <1>1, <1>6, <1>8, <1>9

\* What a thread in Send does next: it copies the callbacks of its bus, goes past the
\* sink, or posts the delivery and leaves.
Snaps(t) ==
    /\ send[t].at = "snap" /\ send'[t].at \in {"fwd", "post"}
    /\ send'[t].bus = send[t].bus /\ send'[t].n = send[t].n
    /\ send'[t].rec = bus[send[t].bus].recCb
    /\ send'[t].fwd = bus[send[t].bus].fwdCb
    /\ send'[t].at = "fwd" => send'[t].fwd # None
    /\ owed'[send[t].n] = send'[t].rec
    /\ \A n \in (1..nframes) \ {send[t].n} : owed'[n] = owed[n]
    /\ pend' = pend
Forwards(t) ==
    /\ send[t].at = "fwd" /\ send'[t].at = "post"
    /\ send'[t].bus = send[t].bus /\ send'[t].n = send[t].n /\ send'[t].rec = send[t].rec
    /\ owed' = owed /\ pend' = pend
Posts(t) ==
    /\ send[t].at = "post" /\ send'[t] = NoSend
    /\ owed' = owed
    /\ pend' = pend \union {[n |-> send[t].n, bus |-> send[t].bus,
                             rec |-> send[t].rec, sub |-> send[t].sub]}

LEMMA SendingSteps ==
  ASSUME TypeOK, FrameRefers, NEW t \in Senders, Sending(t)
  PROVE  /\ send' \in [Senders -> CallStates]
         /\ \A u \in Senders \ {t} : send'[u] = send[u]
         /\ owed' \in Seq(RecIds \union {None}) /\ nframes' = nframes
         /\ pend' \in SUBSET Lambdas
         /\ InSend(t)
         /\ Snaps(t) \/ Forwards(t) \/ Posts(t)
<1>1. /\ send \in [Senders -> CallStates] /\ send[t] \in CallStates
      /\ owed \in Seq(RecIds \union {None}) /\ bus \in [BusIds -> BusStates]
      /\ pend \in SUBSET Lambdas
  BY DEF TypeOK
<1>2. InSend(t) => send[t].bus \in BusIds /\ send[t].n \in 1..nframes
  BY DEF FrameRefers
<1>3. ASSUME NEW v \in CallStates, send' = [send EXCEPT ![t] = v]
      PROVE  /\ send' \in [Senders -> CallStates] /\ send'[t] = v
             /\ \A u \in Senders \ {t} : send'[u] = send[u]
  BY <1>1, <1>3
<1>4. CASE SendSnap(t)
  <2> DEFINE w == bus[send[t].bus]
             s == IF w.fwdCb = None THEN "post" ELSE "fwd"
             v == [[[[send[t] EXCEPT !.at = s] EXCEPT !.rec = w.recCb]
                      EXCEPT !.sub = w.subCb] EXCEPT !.fwd = w.fwdCb]
  <2>1. send[t].at = "snap" /\ InSend(t)
    BY <1>4 DEF SendSnap, InSend
  <2>2. w \in BusStates /\ s \in {"post", "fwd"} /\ (s = "fwd" => w.fwdCb # None)
    BY <1>1, <1>2, <2>1
  <2>3. /\ w.recCb \in RecIds \union {None} /\ w.subCb \in BOOLEAN
        /\ w.fwdCb \in SinkIds \union {None}
    BY <2>2 DEF BusStates
  <2>4. send' = [send EXCEPT ![t] = v]
    BY <1>4 DEF SendSnap
  <2>5. owed' = [owed EXCEPT ![send[t].n] = w.recCb] /\ pend' = pend
    BY <1>4 DEF SendSnap, runVars
  <2> HIDE DEF w, s
  <2>6. /\ v \in CallStates /\ v.at = s /\ v.bus = send[t].bus /\ v.n = send[t].n
        /\ v.rec = w.recCb /\ v.fwd = w.fwdCb
    BY <1>1, <2>2, <2>3 DEF CallStates
  <2> HIDE DEF v
  <2>7. /\ send' \in [Senders -> CallStates] /\ send'[t] = v
        /\ \A u \in Senders \ {t} : send'[u] = send[u]
    BY <1>3, <2>4, <2>6
  <2>8. /\ owed' \in Seq(RecIds \union {None}) /\ Len(owed') = Len(owed)
        /\ \A j \in 1..Len(owed) : owed'[j] = IF j = send[t].n THEN w.recCb ELSE owed[j]
    BY <1>1, <1>2, <2>1, <2>3, <2>5, ExceptSeq DEF nframes
  <2>9. nframes' = nframes /\ owed'[send[t].n] = w.recCb
        /\ \A n \in (1..nframes) \ {send[t].n} : owed'[n] = owed[n]
    BY <1>2, <2>1, <2>8 DEF nframes
  <2>10. Snaps(t)
    BY <2>1, <2>2, <2>5, <2>6, <2>7, <2>9 DEF Snaps, w
  <2> QED
    BY <1>1, <2>1, <2>5, <2>7, <2>8, <2>9, <2>10
<1>5. CASE SendFwd(t)
  <2> DEFINE v == [send[t] EXCEPT !.at = "post"]
  <2>1. /\ v \in CallStates /\ v.at = "post" /\ v.bus = send[t].bus /\ v.n = send[t].n
        /\ v.rec = send[t].rec
    BY <1>1 DEF CallStates
  <2>2. send[t].at = "fwd" /\ send' = [send EXCEPT ![t] = v] /\ owed' = owed /\ pend' = pend
    BY <1>5 DEF SendFwd, runVars
  <2> HIDE DEF v
  <2>3. Forwards(t) /\ send' \in [Senders -> CallStates]
        /\ \A u \in Senders \ {t} : send'[u] = send[u]
    BY <1>3, <2>1, <2>2 DEF Forwards
  <2> QED
    BY <1>1, <2>2, <2>3 DEF InSend, nframes
<1>6. CASE SendPost(t)
  <2>1. NoSend \in CallStates
    BY DEF NoSend, CallStates
  <2>2. /\ send[t].at = "post" /\ send' = [send EXCEPT ![t] = NoSend] /\ owed' = owed
        /\ pend' = pend \union {[n |-> send[t].n, bus |-> send[t].bus,
                                 rec |-> send[t].rec, sub |-> send[t].sub]}
    BY <1>6 DEF SendPost
  <2>3. [n |-> send[t].n, bus |-> send[t].bus, rec |-> send[t].rec, sub |-> send[t].sub] \in Lambdas
    BY <1>1 DEF CallStates, Lambdas
  <2>4. Posts(t) /\ send' \in [Senders -> CallStates]
        /\ \A u \in Senders \ {t} : send'[u] = send[u]
    BY <1>3, <2>1, <2>2 DEF Posts
  <2> QED
    BY <1>1, <2>2, <2>3, <2>4 DEF InSend, nframes
<1> QED
  BY <1>4, <1>5, <1>6 DEF Sending

-----------------------------------------------------------------------------
(* Types.                                                                   *)

LEMMA Picked == ASSUME NEW S, S # {} PROVE Pick(S) \in S
  BY DEF Pick

\* What the handlers and the capture threads leave alone, and when they enter Send.
LEMMA HandlerLeaves ==
  ASSUME TypeOK, ThreadRefers, NEW c \in Clients, Request(c) \/ Handler(c)
  PROVE  /\ pend' = pend /\ ready' = ready /\ held' = held /\ main' = main /\ wrote' = wrote
         /\ \/ send' = send /\ owed' = owed
            \/ /\ SendCmd(c)
               /\ reg[conn[c].name] \in BusIds /\ EnterSend(c, reg[conn[c].name])
<1> USE DEF runVars
<1>1. CASE Request(c) \/ NoSuchBus(c) \/ Look(c) \/ Create(c) \/ RecordOff(c) \/ RecordOnDetach(c)
           \/ RecordOnOpen(c)
  BY <1>1 DEF Request, NoSuchBus, Look, Create, RecordOff, RecordOnDetach, RecordOnOpen
<1>2. CASE SendCmdReturn(c) \/ ReplayLookup(c) \/ ReplayStart(c) \/ CaptureStop(c)
           \/ CaptureStopped(c) \/ CaptureStart(c) \/ ForwardReset(c) \/ ForwardStart(c)
  BY <1>2 DEF SendCmdReturn, ReplayLookup, ReplayStart, CaptureStop, CaptureStopped, CaptureStart,
              ForwardReset, ForwardStart
<1>3. CASE StopForward(c) \/ Subscribe(c) \/ SubscribeAttach(c) \/ SubscribeSetCb(c) \/ Delete(c)
           \/ DeleteUnsub(c) \/ DeleteUnrecord(c) \/ DeleteErase(c)
  BY <1>3 DEF StopForward, Subscribe, SubscribeAttach, SubscribeSetCb, Delete, DeleteUnsub,
              DeleteUnrecord, DeleteErase
<1>4. CASE Quit(c) \/ WriteReply(c) \/ ConnEnd(c)
  BY <1>4 DEF Quit, WriteReply, ConnEnd
<1>5. CASE SendCmd(c)
  <2>1. conn[c].at = "lock" /\ reg[conn[c].name] # None
    BY <1>5 DEF SendCmd, Locks
  <2>2. reg[conn[c].name] \in BusIds
    BY <2>1 DEF ThreadRefers, TypeOK
  <2> QED
    BY <1>5, <2>2 DEF SendCmd
<1> QED
  BY <1>1, <1>2, <1>3, <1>4, <1>5 DEF Handler

LEMMA HandlerTypes ==
  ASSUME TypeOK, Mutex, Refers, NEW c \in Clients, Request(c) \/ Handler(c)
  PROVE  TypeOK'
<1>1. Moves(c) /\ conn' \in [Clients -> ConnStates] /\ gmtx' \in Clients \union {None}
  BY HandlerMoves, MovesKeepMutex DEF Moves
<1>2. /\ conn[c].at \in Holding \union {"probe"} => conn[c].bus \in BusIds
      /\ conn[c].at \in Holding \union {"lock"} => conn[c].name \in Names
  BY DEF Refers, ThreadRefers
<1>3. ASSUME NEW cmd, Locks(c, cmd)
      PROVE  conn[c].name \in Names /\ reg[conn[c].name] \in BusIds
  BY <1>2, <1>3 DEF Locks, TypeOK
<1> USE DEF objVars, pipeVars, runVars
<1>4. CASE Request(c)
  <2>1. ncmds \in 0..MaxCmds /\ MaxCmds \in Nat /\ ncmds < MaxCmds /\ ncmds' = ncmds + 1
    BY <1>4, DaemonAssumption DEF Request, TypeOK
  <2>2. ncmds' \in 0..MaxCmds
    BY <2>1
  <2> QED
    BY <1>1, <1>4, <2>2 DEF Request, TypeOK
<1>5. CASE NoSuchBus(c) \/ Look(c) \/ SendCmdReturn(c) \/ ReplayLookup(c) \/ Subscribe(c) \/ Quit(c)
  BY <1>1, <1>5 DEF NoSuchBus, Look, SendCmdReturn, ReplayLookup, Subscribe, Quit, TypeOK
<1>6. CASE Create(c)
  <2>1. conn[c].name \in Names
    BY <1>2, <1>6 DEF Create, At
  <2>2. /\ reg' \in [Names -> BusIds \union {None}]
        /\ bus' \in [BusIds -> BusStates]
    <3>1. CASE reg[conn[c].name] # None
      BY <1>6, <3>1 DEF Create, TypeOK
    <3>2. CASE reg[conn[c].name] = None
      <4>1. /\ Pick(UnusedBus) \in BusIds
            /\ reg' = [reg EXCEPT ![conn[c].name] = Pick(UnusedBus)]
            /\ bus' = [bus EXCEPT ![Pick(UnusedBus)] = NewBus]
        BY <1>6, <3>2, Picked DEF Create, UnusedBus
      <4>2. bus' \in [BusIds -> BusStates]
        BY <4>1, BusChange DEF LifeSet, Buses
      <4>3. reg' \in [Names -> BusIds \union {None}]
        BY <4>1 DEF TypeOK
      <4> QED
        BY <4>2, <4>3
    <3> QED
      BY <3>1, <3>2
  <2> QED
    BY <1>1, <1>6, <2>2 DEF Create, TypeOK
<1>7. CASE RecordOff(c) \/ RecordOnDetach(c)
  <2>1. conn[c].name \in Names /\ reg[conn[c].name] \in BusIds
    BY <1>3, <1>7 DEF RecordOff, RecordOnDetach
  <2>2. bus' \in [BusIds -> BusStates]
    BY <1>7, <2>1, BusChange DEF RecordOff, RecordOnDetach, RecorderSet, Buses
  <2>3. recSt' \in [RecIds -> {"none", "open", "closed"}]
    BY <1>7, Closing DEF RecordOff, RecordOnDetach
  <2> QED
    BY <1>1, <1>7, <2>2, <2>3 DEF RecordOff, RecordOnDetach, TypeOK
<1>8. CASE RecordOnOpen(c)
  <2>1. bus' \in [BusIds -> BusStates] /\ recSt' \in [RecIds -> {"none", "open", "closed"}]
    <3>1. CASE UNCHANGED <<recSt, bus>>
      BY <3>1 DEF TypeOK
    <3>2. CASE ~UNCHANGED <<recSt, bus>>
      <4> DEFINE r == Pick(UnusedRec)
      <4>1. r \in RecIds
        BY <1>8, <3>2, Picked DEF RecordOnOpen, UnusedRec
      <4>2. recSt' = [recSt EXCEPT ![r] = "open"]
            /\ bus' = [bus EXCEPT ![conn[c].bus].rec = r, ![conn[c].bus].recCb = r]
        BY <1>8, <3>2 DEF RecordOnOpen
      <4>3. conn[c].bus \in BusIds
        BY <1>2, <1>8 DEF RecordOnOpen, At, Holding
      <4> HIDE DEF r
      <4> QED
        BY <4>1, <4>2, <4>3, BusChange DEF TypeOK, RecorderSet, Buses
    <3> QED
      BY <3>1, <3>2
  <2> QED
    BY <1>1, <1>8, <2>1 DEF RecordOnOpen, TypeOK
<1>9. CASE SendCmd(c)
  <2>1. reg[conn[c].name] \in BusIds /\ EnterSend(c, reg[conn[c].name])
    BY <1>3, <1>9 DEF SendCmd
  <2>2. /\ send' \in [Senders -> CallStates]
        /\ owed' \in Seq(RecIds \union {None}) /\ Len(owed') <= MaxFrames
    BY <2>1, SendEntered DEF Senders
  <2> QED
    BY <1>1, <1>9, <2>2 DEF SendCmd, TypeOK
<1>10. CASE ReplayStart(c)
  <2>1. rp' \in [Replays -> BusIds \union {None}]
    BY <1>2, <1>10 DEF ReplayStart, At, TypeOK
  <2> QED
    BY <1>1, <1>10, <2>1 DEF ReplayStart, TypeOK
<1>11. CASE CaptureStop(c)
  <2>1. conn[c].name \in Names /\ reg[conn[c].name] \in BusIds
    BY <1>3, <1>11 DEF CaptureStop
  <2>2. bus[reg[conn[c].name]].cap \in CapIds \union {None}
    BY <2>1 DEF TypeOK, BusStates
  <2>3. cap' \in [CapIds -> CapStates]
    BY <1>11, <2>2, CaptureChange DEF CaptureStop
  <2> QED
    BY <1>1, <1>11, <2>3 DEF CaptureStop, TypeOK
<1>12. CASE CaptureStopped(c)
  <2>1. bus' \in [BusIds -> BusStates]
    BY <1>2, <1>12, BusChange DEF CaptureStopped, At, Holding, CaptureSet, Buses
  <2> QED
    BY <1>1, <1>12, <2>1 DEF CaptureStopped, TypeOK
<1>13. CASE CaptureStart(c)
  <2>1. conn[c].bus \in BusIds /\ conn[c].cmd \in Capturing
    BY <1>2, <1>13 DEF CaptureStart, At, Holding
  <2>2. cap' \in [CapIds -> CapStates] /\ bus' \in [BusIds -> BusStates]
    <3>1. CASE UNCHANGED <<cap, bus>>
      BY <3>1 DEF TypeOK
    <3>2. CASE ~UNCHANGED <<cap, bus>>
      <4>1. Pick(UnusedCap) \in CapIds
            /\ LaunchCapture(Pick(UnusedCap), conn[c].cmd, conn[c].bus)
        BY <1>13, <3>2, Picked DEF CaptureStart, UnusedCap
      <4> QED
        BY <2>1, <4>1, CaptureChange DEF CaptureSet, Buses
    <3> QED
      BY <3>1, <3>2
  <2> QED
    BY <1>1, <1>13, <2>2 DEF CaptureStart, TypeOK
<1>14. CASE ForwardReset(c) \/ StopForward(c)
  <2>1. conn[c].name \in Names /\ reg[conn[c].name] \in BusIds
    BY <1>3, <1>14 DEF ForwardReset, StopForward
  <2>2. bus[reg[conn[c].name]].sink \in SinkIds \union {None}
    BY <2>1 DEF TypeOK, BusStates
  <2>3. bus' \in [BusIds -> BusStates] /\ sinkSt' \in [SinkIds -> {"none", "live", "freed"}]
    BY <1>14, <2>1, <2>2, BusChange, SinkFreed DEF ForwardReset, StopForward, SinkSet, Buses
  <2> QED
    BY <1>1, <1>14, <2>3 DEF ForwardReset, StopForward, TypeOK
<1>15. CASE ForwardStart(c)
  <2>1. bus' \in [BusIds -> BusStates] /\ sinkSt' \in [SinkIds -> {"none", "live", "freed"}]
    <3>1. CASE UNCHANGED <<sinkSt, bus>>
      BY <3>1 DEF TypeOK
    <3>2. CASE ~UNCHANGED <<sinkSt, bus>>
      <4> DEFINE s == Pick(UnusedSink)
      <4>1. s \in SinkIds
        BY <1>15, <3>2, Picked DEF ForwardStart, UnusedSink
      <4>2. sinkSt' = [sinkSt EXCEPT ![s] = "live"]
            /\ bus' = [bus EXCEPT ![conn[c].bus].sink = s, ![conn[c].bus].fwdCb = s]
        BY <1>15, <3>2 DEF ForwardStart
      <4>3. conn[c].bus \in BusIds
        BY <1>2, <1>15 DEF ForwardStart, At, Holding
      <4> HIDE DEF s
      <4> QED
        BY <4>1, <4>2, <4>3, BusChange DEF TypeOK, SinkSet, Buses
    <3> QED
      BY <3>1, <3>2
  <2> QED
    BY <1>1, <1>15, <2>1 DEF ForwardStart, TypeOK
<1>16. CASE SubscribeAttach(c) \/ DeleteUnsub(c)
  <2>1. conn[c].bus \in BusIds
    BY <1>2, <1>16 DEF SubscribeAttach, DeleteUnsub, At, Holding
  <2>2. pipe[conn[c].bus] \in Clients \union {None}
    BY <2>1 DEF TypeOK
  <2>3. closes' \in [Clients -> Nat]
    BY <1>16, <2>2, HandleClosed DEF SubscribeAttach, DeleteUnsub
  <2>4. pipe' \in [BusIds -> Clients \union {None}]
    BY <1>16 DEF SubscribeAttach, DeleteUnsub, TypeOK
  <2> QED
    BY <1>1, <1>16, <2>3, <2>4 DEF SubscribeAttach, DeleteUnsub, TypeOK
<1>17. CASE SubscribeSetCb(c)
  <2>1. bus' \in [BusIds -> BusStates]
    BY <1>2, <1>17, BusChange DEF SubscribeSetCb, At, Holding, SubscriberSet, Buses
  <2> QED
    BY <1>1, <1>17, <2>1 DEF SubscribeSetCb, TypeOK
<1>18. CASE Delete(c)
  <2>1. reg[conn[c].name] \in BusIds
    BY <1>3, <1>18 DEF Delete
  <2>2. bus' \in [BusIds -> BusStates]
    BY <1>18, <2>1, BusChange DEF Delete, SubscriberSet, Buses
  <2> QED
    BY <1>1, <1>18, <2>2 DEF Delete, TypeOK
<1>19. CASE DeleteUnrecord(c)
  <2>1. conn[c].bus \in BusIds
    BY <1>2, <1>19 DEF DeleteUnrecord, At, Holding
  <2>2. bus[conn[c].bus].cap \in CapIds \union {None}
    BY <2>1 DEF TypeOK, BusStates
  <2>3. bus' \in [BusIds -> BusStates] /\ cap' \in [CapIds -> CapStates]
    BY <1>19, <2>1, <2>2, BusChange, CaptureChange DEF DeleteUnrecord, RecorderSet, Buses
  <2>4. recSt' \in [RecIds -> {"none", "open", "closed"}]
    BY <1>19, Closing DEF DeleteUnrecord
  <2> QED
    BY <1>1, <1>19, <2>3, <2>4 DEF DeleteUnrecord, TypeOK
<1>20. CASE DeleteErase(c)
  <2>1. conn[c].bus \in BusIds
    BY <1>2, <1>20 DEF DeleteErase, At, Holding
  <2>2. bus[conn[c].bus].sink \in SinkIds \union {None}
    BY <2>1 DEF TypeOK, BusStates
  <2>3. bus' \in [BusIds -> BusStates] /\ sinkSt' \in [SinkIds -> {"none", "live", "freed"}]
    BY <1>20, <2>1, <2>2, BusChange, SinkFreed DEF DeleteErase, LifeSet, Buses
  <2>4. reg' \in [Names -> BusIds \union {None}]
    BY <1>20 DEF DeleteErase, TypeOK
  <2> QED
    BY <1>1, <1>20, <2>3, <2>4 DEF DeleteErase, TypeOK
<1>21. CASE WriteReply(c)
  <2>1. out' \in [Clients -> Seq({"reply", "frame"})] /\ \A d \in Clients : Len(out'[d]) <= PipeCap
    <3>1. CASE out' = out
      BY <3>1 DEF TypeOK
    <3>2. CASE out' # out
      <4>1. /\ out' = [out EXCEPT ![c] = Append(out[c], "reply")] /\ Len(out[c]) < PipeCap
        BY <1>21, <3>2 DEF WriteReply, HasRoom
      <4>2. out[c] \in Seq({"reply", "frame"}) /\ Len(out[c]) \in Nat /\ PipeCap \in Nat
        BY DaemonAssumption DEF TypeOK
      <4>3. /\ Append(out[c], "reply") \in Seq({"reply", "frame"})
            /\ Len(Append(out[c], "reply")) = Len(out[c]) + 1
        BY <4>2, AppendProperties
      <4>4. Len(Append(out[c], "reply")) <= PipeCap
        BY <4>1, <4>2, <4>3
      <4> QED
        BY <4>1, <4>3, <4>4 DEF TypeOK
    <3> QED
      BY <3>1, <3>2
  <2> QED
    BY <1>1, <1>21, <2>1 DEF WriteReply, TypeOK
<1>22. CASE ConnEnd(c)
  <2>1. closes' \in [Clients -> Nat]
    BY <1>22, HandleClosed DEF ConnEnd
  <2> QED
    BY <1>1, <1>22, <2>1 DEF ConnEnd, TypeOK
<1> QED
  BY <1>4, <1>5, <1>6, <1>7, <1>8, <1>9, <1>10, <1>11, <1>12, <1>13, <1>14, <1>15, <1>16, <1>17,
     <1>18, <1>19, <1>20, <1>21, <1>22 DEF Handler

LEMMA CaptureLeaves ==
  ASSUME TypeOK, FrameRefers, NEW k \in CapIds, CapThread(k)
  PROVE  /\ UNCHANGED <<gmtx, reg, bus, recSt, sinkSt, wrote, rp, conn, pipe, out, closes, client,
                        pend, ready, held, main, shutdown, ncmds>>
         /\ cap' \in [CapIds -> CapStates]
         /\ cap[k].at \notin {"none", "done"} /\ cap[k].bus \in BusIds
         /\ cap'[k].at # "none" /\ cap'[k].bus = cap[k].bus
         /\ \A j \in CapIds \ {k} : cap'[j] = cap[j]
         /\ \/ send' = send /\ owed' = owed /\ (InSend(k) => cap[k].at # "sending")
            \/ cap'[k].at = "sending" /\ EnterSend(k, cap[k].bus)
<1> DEFINE Places == {"check", "recv", "relay", "sending", "done"}
           Here(s) == /\ cap' \in [CapIds -> CapStates]
                      /\ cap'[k].at = s /\ cap'[k].bus = cap[k].bus
                      /\ \A j \in CapIds \ {k} : cap'[j] = cap[j]
                      /\ UNCHANGED <<gmtx, reg, bus, recSt, sinkSt, wrote, rp, conn, pipe, out,
                                     closes, client, pend, ready, held, main, shutdown,
                                     ncmds>>
<1>1. ASSUME NEW s \in Places, CapGoto(k, s)
      PROVE  Here(s)
  BY <1>1, CaptureChange DEF CapGoto, objVars, pipeVars, runVars
<1>2. cap[k].at # "none" => cap[k].bus \in BusIds
  BY DEF FrameRefers
<1> HIDE DEF Here
<1>3. CASE CapCheck(k) \/ CapTimeout(k) \/ CapRefused(k) \/ CapAccept(k) \/ CapHangup(k) \/ CapSent(k)
  <2>1. /\ send' = send /\ owed' = owed
        /\ InSend(k) => cap[k].at # "sending"
        /\ cap[k].at \notin {"none", "done"}
    BY <1>3 DEF CapCheck, CapTimeout, CapRefused, CapAccept, CapHangup, CapSent
  <2>2. PICK s \in Places : CapGoto(k, s)
    BY <1>3 DEF CapCheck, CapTimeout, CapRefused, CapAccept, CapHangup, CapSent
  <2> QED
    BY <1>1, <1>2, <2>1, <2>2 DEF Here
<1>4. CASE CapDatagram(k) \/ CapChunk(k)
  <2>1. /\ EnterSend(k, cap[k].bus) /\ CapGoto(k, "sending")
        /\ cap[k].at \notin {"none", "done"}
    BY <1>4 DEF CapDatagram, CapChunk
  <2> QED
    BY <1>1, <1>2, <2>1 DEF Here
<1> QED
  BY <1>3, <1>4 DEF CapThread, CapStep

LEMMA SenderTypes ==
  ASSUME TypeOK, FrameRefers,
         \/ \E t \in Senders : Sending(t)
         \/ \E k \in CapIds : CapThread(k)
         \/ \E r \in Replays : ReplayFrame(r) \/ ReplayEnd(r)
  PROVE  TypeOK'
<1> USE DEF objVars, pipeVars, runVars
<1>1. ASSUME NEW t \in Senders, Sending(t)
      PROVE  TypeOK'
  <2>1. /\ send' \in [Senders -> CallStates] /\ nframes' = nframes
        /\ owed' \in Seq(RecIds \union {None}) /\ pend' \in SUBSET Lambdas
    BY <1>1, SendingSteps
  <2>2. UNCHANGED <<gmtx, objVars, wrote, cap, rp, conn, pipeVars, ready, held, main, shutdown,
                    ncmds>>
    BY <1>1 DEF Sending, SendSnap, SendFwd, SendPost
  <2> QED
    BY <2>1, <2>2 DEF TypeOK, nframes
<1>2. ASSUME NEW k \in CapIds, CapThread(k)
      PROVE  TypeOK'
  <2>1. /\ send' \in [Senders -> CallStates]
        /\ owed' \in Seq(RecIds \union {None}) /\ Len(owed') <= MaxFrames
    <3>1. CASE send' = send /\ owed' = owed
      BY <3>1 DEF TypeOK
    <3>2. CASE ~(send' = send /\ owed' = owed)
      <4>1. cap[k].bus \in BusIds /\ EnterSend(k, cap[k].bus)
        BY <1>2, <3>2, CaptureLeaves
      <4> QED
        BY <4>1, SendEntered DEF Senders
    <3> QED
      BY <3>1, <3>2
  <2> QED
    BY <1>2, <2>1, CaptureLeaves DEF TypeOK
<1>3. ASSUME NEW r \in Replays, ReplayFrame(r) \/ ReplayEnd(r)
      PROVE  TypeOK'
  <2>1. CASE ReplayFrame(r)
    <3>1. rp[r] \in BusIds /\ EnterSend(r, rp[r])
      BY <2>1 DEF ReplayFrame, TypeOK
    <3>2. /\ send' \in [Senders -> CallStates]
          /\ owed' \in Seq(RecIds \union {None}) /\ Len(owed') <= MaxFrames
      BY <3>1, SendEntered DEF Senders
    <3> QED
      BY <2>1, <3>2 DEF ReplayFrame, TypeOK
  <2>2. CASE ReplayEnd(r)
    BY <2>2 DEF ReplayEnd, TypeOK
  <2> QED
    BY <1>3, <2>1, <2>2
<1> QED
  BY <1>1, <1>2, <1>3

LEMMA ClientTypes ==
  ASSUME TypeOK, NEW c \in Clients, ClientRead(c) \/ ClientClose(c)
  PROVE  TypeOK'
<1> USE DEF objVars, pipeVars, runVars
<1>1. out[c] \in Seq({"reply", "frame"}) /\ Len(out[c]) \in Nat /\ PipeCap \in Nat
      /\ Len(out[c]) <= PipeCap
  BY DaemonAssumption DEF TypeOK
<1>2. ASSUME NEW q \in Seq({"reply", "frame"}), Len(q) <= PipeCap, out' = [out EXCEPT ![c] = q]
      PROVE  /\ out' \in [Clients -> Seq({"reply", "frame"})]
             /\ \A d \in Clients : Len(out'[d]) <= PipeCap
  BY <1>2 DEF TypeOK
<1>3. CASE ClientRead(c)
  <2>1. /\ Tail(out[c]) \in Seq({"reply", "frame"}) /\ Len(Tail(out[c])) <= PipeCap
        /\ out' = [out EXCEPT ![c] = Tail(out[c])]
    BY <1>1, <1>3 DEF ClientRead
  <2>2. client' \in [Clients -> {"up", "acked", "closed"}]
    BY <1>3 DEF ClientRead, TypeOK
  <2> QED
    BY <1>2, <1>3, <2>1, <2>2 DEF ClientRead, TypeOK
<1>4. CASE ClientClose(c)
  <2>1. <<>> \in Seq({"reply", "frame"}) /\ Len(<<>>) <= PipeCap
    BY <1>1
  <2>2. out' = [out EXCEPT ![c] = <<>>] /\ client' \in [Clients -> {"up", "acked", "closed"}]
    BY <1>4 DEF ClientClose, TypeOK
  <2> QED
    BY <1>2, <1>4, <2>1, <2>2 DEF ClientClose, TypeOK
<1> QED
  BY <1>3, <1>4

MainStates ==
    [at : {"check", "drain", "next", "rec", "sub", "write", "closing", "exit",
           "teardown", "join", "exited", "crashed"}, lam : Lambdas]

LEMMA MainAt ==
  ASSUME NEW l \in Lambdas, NEW s, MainGoto(s, l),
         s \in {"check", "drain", "next", "rec", "sub", "write", "closing", "exit",
                "teardown", "join", "exited", "crashed"}
  PROVE  main' \in MainStates /\ main'.at = s /\ main'.lam = l
  BY DEF MainGoto, MainStates

\* After main has turned to delivery l, with R left of the batch.
LEMMA Delivered ==
  ASSUME NEW l \in Lambdas, NEW R, Deliver(l, R)
  PROVE  /\ main' \in MainStates
         /\ main'.at \in {"rec", "sub", "check", "next"}
         /\ main'.at \in {"rec", "sub"} => main'.lam = l
         /\ main'.at = "rec" <=> l.rec # None
         /\ main'.at = "check" => R = {}
<1>1. NoLam \in Lambdas
  BY DEF NoLam, Lambdas
<1>2. CASE l.rec # None
  BY <1>2, MainAt DEF Deliver
<1>3. CASE l.rec = None /\ l.sub
  BY <1>3, MainAt DEF Deliver
<1>4. CASE l.rec = None /\ ~l.sub /\ R = {}
  BY <1>1, <1>4, MainAt DEF Deliver, NextItem
<1>5. CASE l.rec = None /\ ~l.sub /\ R # {}
  BY <1>1, <1>5, MainAt DEF Deliver, NextItem
<1> QED
  BY <1>2, <1>3, <1>4, <1>5

LEMMA NextItems ==
  ASSUME NEW R, NextItem(R)
  PROVE  /\ main' \in MainStates
         /\ main'.at \in {"check", "next"} /\ (main'.at = "check" => R = {})
<1>1. NoLam \in Lambdas
  BY DEF NoLam, Lambdas
<1>2. CASE R = {}
  BY <1>1, <1>2, MainAt DEF NextItem
<1>3. CASE R # {}
  BY <1>1, <1>3, MainAt DEF NextItem
<1> QED
  BY <1>2, <1>3

LEMMA MainTypes ==
  ASSUME TypeOK, FrameRefers, Main
  PROVE  TypeOK'
<1> USE DEF objVars, pipeVars, runVars
<1>1. main \in MainStates /\ main.lam \in Lambdas /\ NoLam \in Lambdas
  BY DEF TypeOK, MainStates, NoLam, Lambdas
\* A batch that ends lets go of recorders, which are closed if nothing else refers to them.
<1>11. ASSUME BatchEnds
       PROVE  /\ recSt' \in [RecIds -> {"none", "open", "closed"}]
              /\ held' \in SUBSET RecIds
  <2>1. held' \in SUBSET RecIds
    BY <1>11 DEF BatchEnds, TypeOK
  <2> QED
    BY <1>11, <2>1, Closing DEF BatchEnds
<1>2. CASE MainCheck \/ MainDestroySched \/ MainExit
  <2>1. main' \in MainStates
    <3>1. PICK s \in {"closing", "drain", "teardown", "exited"} : MainGoto(s, NoLam)
      BY <1>2 DEF MainCheck, MainDestroySched, MainExit
    <3> QED
      BY <1>1, <3>1, MainAt
  <2>2. pend' \in SUBSET Lambdas
    BY <1>2 DEF MainCheck, MainDestroySched, MainExit, TypeOK
  <2>3. recSt' \in [RecIds -> {"none", "open", "closed"}]
    BY <1>2, Closing DEF MainCheck, MainDestroySched, MainExit, TypeOK
  <2> QED
    BY <1>2, <2>1, <2>2, <2>3 DEF MainCheck, MainDestroySched, MainExit, TypeOK, MainStates
<1>3. ASSUME NEW D \in SUBSET pend, MainDrain(D)
      PROVE  TypeOK'
  <2>1. main' \in MainStates
    BY <1>3, NextItems DEF MainDrain
  <2>2. pend' \in SUBSET Lambdas /\ ready' \in SUBSET Lambdas
    BY <1>3 DEF MainDrain, TypeOK
  <2>3. held' \in SUBSET RecIds
    <3>1. \A l \in D : l.rec \in RecIds \union {None}
      BY DEF TypeOK, Lambdas
    <3> QED
      BY <1>3, <3>1 DEF MainDrain
  <2> QED
    BY <1>3, <2>1, <2>2, <2>3 DEF MainDrain, TypeOK, MainStates
<1>4. ASSUME NEW l \in ready, MainNext(l)
      PROVE  TypeOK'
  <2>1. l \in Lambdas
    BY DEF TypeOK
  <2>2. main' \in MainStates
    BY <1>4, <2>1, Delivered DEF MainNext
  <2>3. ready' \in SUBSET Lambdas
    BY <1>4 DEF MainNext, TypeOK
  <2> QED
    BY <1>4, <1>11, <2>2, <2>3 DEF MainNext, TypeOK, MainStates
<1>5. CASE MainRecord
  <2> DEFINE l == [main.lam EXCEPT !.rec = None]
  <2>1. l \in Lambdas
    BY <1>1 DEF Lambdas
  <2>2. main' \in MainStates
    BY <1>5, <2>1, Delivered DEF MainRecord
  <2>3. main.lam.n \in 1..MaxFrames
    BY <1>5, DaemonAssumption DEF MainRecord, FrameRefers, TypeOK, nframes
  <2>4. wrote' \in [RecIds -> SUBSET (1..MaxFrames)]
    BY <1>5, <2>3 DEF MainRecord, TypeOK
  <2> QED
    BY <1>5, <1>11, <2>2, <2>4 DEF MainRecord, TypeOK, MainStates
<1>6. CASE MainSub
  <2>1. main' \in MainStates
    <3>1. CASE pipe[main.lam.bus] # None
      BY <1>1, <1>6, <3>1, MainAt DEF MainSub
    <3>2. CASE pipe[main.lam.bus] = None
      BY <1>6, <3>2, NextItems DEF MainSub
    <3> QED
      BY <3>1, <3>2
  <2> QED
    BY <1>6, <1>11, <2>1 DEF MainSub, TypeOK, MainStates
<1>7. CASE MainWrite
  <2>1. main' \in MainStates
    BY <1>7, NextItems DEF MainWrite
  <2> DEFINE c == pipe[main.lam.bus]
  <2>2. c \in Clients
    BY <1>7 DEF MainWrite, FrameRefers, TypeOK
  <2>3. CASE Broken(c) /\ CloseHandleOf(c) /\ out' = out
             /\ pipe' = [pipe EXCEPT ![main.lam.bus] = None]
    <3>1. closes' \in [Clients -> Nat] /\ pipe' \in [BusIds -> Clients \union {None}]
      BY <2>2, <2>3, HandleClosed DEF TypeOK
    <3> QED
      BY <1>7, <1>11, <2>1, <2>3, <3>1 DEF MainWrite, TypeOK, MainStates
  <2>4. CASE HasRoom(c) /\ out' = [out EXCEPT ![c] = Append(@, "frame")]
             /\ UNCHANGED <<closes, pipe>>
    <3>1. out[c] \in Seq({"reply", "frame"}) /\ Len(out[c]) \in Nat /\ PipeCap \in Nat
          /\ Len(out[c]) < PipeCap
      BY <2>2, <2>4, DaemonAssumption DEF TypeOK, HasRoom
    <3>2. /\ Append(out[c], "frame") \in Seq({"reply", "frame"})
          /\ Len(Append(out[c], "frame")) = Len(out[c]) + 1
      BY <3>1, AppendProperties
    <3>3. /\ out' \in [Clients -> Seq({"reply", "frame"})]
          /\ \A d \in Clients : Len(out'[d]) <= PipeCap
      BY <2>2, <2>4, <3>1, <3>2 DEF TypeOK
    <3> QED
      BY <1>7, <1>11, <2>1, <2>4, <3>3 DEF MainWrite, TypeOK, MainStates
  <2> QED
    BY <1>7, <2>3, <2>4 DEF MainWrite
<1>8. CASE MainClose
  <2>1. main' \in MainStates
    BY <1>1, <1>8, MainAt DEF MainClose
  <2>2. recSt' \in [RecIds -> {"none", "open", "closed"}]
    BY <1>8 DEF MainClose, TypeOK
  <2> QED
    BY <1>8, <2>1, <2>2 DEF MainClose, TypeOK, MainStates
<1>9. ASSUME NEW b \in BusIds, MainDestroySink(b)
      PROVE  TypeOK'
  <2>1. [NoLam EXCEPT !.bus = b] \in Lambdas
    BY <1>1 DEF Lambdas
  <2>2. main' \in MainStates
    BY <1>9, <2>1, MainAt DEF MainDestroySink
  <2>3. bus[b].sink \in SinkIds \union {None} /\ bus[b].cap \in CapIds \union {None}
    BY DEF TypeOK, BusStates
  <2>4. sinkSt' \in [SinkIds -> {"none", "live", "freed"}]
    BY <1>9, <2>3, SinkFreed DEF MainDestroySink
  <2>5. cap' \in [CapIds -> CapStates]
    BY <1>9, <2>3, CaptureChange DEF MainDestroySink
  <2>6. bus' \in [BusIds -> BusStates]
    BY <1>9, BusChange DEF MainDestroySink, SinkSet, Buses
  <2> QED
    BY <1>9, <2>2, <2>4, <2>5, <2>6 DEF MainDestroySink, TypeOK, MainStates
<1>10. CASE MainDestroyBus
  <2>1. main' \in MainStates
    BY <1>1, <1>10, MainAt DEF MainDestroyBus
  <2>2. bus' \in [BusIds -> BusStates] /\ reg' \in [Names -> BusIds \union {None}]
    <3>1. main.lam.bus \in BusIds
      BY <1>10 DEF MainDestroyBus, FrameRefers
    <3> QED
      BY <1>10, <3>1, BusChange DEF MainDestroyBus, LifeSet, Buses, TypeOK
  <2>3. recSt' \in [RecIds -> {"none", "open", "closed"}]
    BY <1>10, Closing DEF MainDestroyBus
  <2> QED
    BY <1>10, <2>1, <2>2, <2>3 DEF MainDestroyBus, TypeOK, MainStates
<1> QED
  BY <1>2, <1>3, <1>4, <1>5, <1>6, <1>7, <1>8, <1>9, <1>10 DEF Main

-----------------------------------------------------------------------------
(* What threads refer to.                                                   *)

CapRefers == \A k \in CapIds : cap[k].at # "none" => cap[k].bus \in BusIds

\* The handlers that touch captures, handles or the shutdown flag.
LEMMA HandlerCaptures ==
  ASSUME TypeOK, FrameRefers, ThreadRefers, NEW c \in Clients, Request(c) \/ Handler(c)
  PROVE  /\ CapRefers'
         /\ \/ \A k \in CapIds : Untouched(k)
            \/ /\ CaptureStart(c) /\ UnusedCap # {}
               /\ LaunchCapture(Pick(UnusedCap), conn[c].cmd, conn[c].bus)
<1> USE DEF objVars, pipeVars, runVars
<1>1. conn[c].at \in Holding => conn[c].bus \in BusIds
  BY DEF ThreadRefers
<1>2. CapRefers
  BY DEF FrameRefers, CapRefers
<1>3. CASE cap' = cap
  BY <1>2, <1>3 DEF Untouched, CapRefers
<1>4. CASE CaptureStop(c) \/ DeleteUnrecord(c)
  <2>1. PICK b \in BusIds : StopFlag(bus[b].cap)
    BY <1>1, <1>4 DEF CaptureStop, DeleteUnrecord, Locks, At, Holding, TypeOK, ThreadRefers
  <2>2. bus[b].cap \in CapIds \union {None}
    BY DEF TypeOK, BusStates
  <2>3. \A k \in CapIds : Untouched(k)
    BY <2>1, <2>2, CaptureChange
  <2> QED
    BY <1>2, <2>3 DEF Untouched, CapRefers
<1>5. CASE CaptureStart(c) /\ cap' # cap
  <2> DEFINE k == Pick(UnusedCap)
  <2>1. /\ UnusedCap # {} /\ k \in CapIds
        /\ LaunchCapture(k, conn[c].cmd, conn[c].bus)
    BY <1>5, Picked DEF CaptureStart, UnusedCap
  <2>2. conn[c].bus \in BusIds /\ conn[c].cmd \in Capturing
    BY <1>1, <1>5 DEF CaptureStart, At, Holding
  <2> HIDE DEF k
  <2>3. cap'[k].bus = conn[c].bus /\ \A j \in CapIds \ {k} : cap'[j] = cap[j]
    BY <2>1, <2>2, CaptureChange
  <2> QED
    BY <1>2, <1>5, <2>1, <2>2, <2>3 DEF CapRefers, k
<1>6. CASE Request(c) \/ NoSuchBus(c) \/ Look(c) \/ Create(c) \/ RecordOff(c) \/ RecordOnDetach(c)
           \/ RecordOnOpen(c) \/ SendCmd(c) \/ SendCmdReturn(c) \/ ReplayLookup(c)
           \/ ReplayStart(c) \/ CaptureStopped(c)
  <2>1. cap' = cap
    BY <1>6 DEF Request, NoSuchBus, Look, Create, RecordOff, RecordOnDetach, RecordOnOpen,
                SendCmd, SendCmdReturn, ReplayLookup, ReplayStart, CaptureStopped
  <2> QED
    BY <1>3, <2>1
<1>7. CASE ForwardReset(c) \/ ForwardStart(c) \/ StopForward(c) \/ Subscribe(c)
           \/ SubscribeAttach(c) \/ SubscribeSetCb(c) \/ Delete(c) \/ DeleteUnsub(c)
           \/ DeleteErase(c) \/ Quit(c) \/ WriteReply(c) \/ ConnEnd(c)
  <2>1. cap' = cap
    BY <1>7 DEF ForwardReset, ForwardStart, StopForward, Subscribe, SubscribeAttach,
                SubscribeSetCb, Delete, DeleteUnsub, DeleteErase, Quit, WriteReply, ConnEnd
  <2> QED
    BY <1>3, <2>1
<1> QED
  BY <1>3, <1>4, <1>5, <1>6, <1>7 DEF Handler

LEMMA HandlerPipes ==
  ASSUME NEW c \in Clients, Request(c) \/ Handler(c)
  PROVE  \/ pipe' = pipe /\ closes' = closes
         \/ SubscribeAttach(c) \/ DeleteUnsub(c)
         \/ ConnEnd(c) /\ pipe' = pipe
<1> USE DEF objVars, pipeVars, runVars
<1>1. CASE Request(c) \/ NoSuchBus(c) \/ Look(c) \/ Create(c) \/ RecordOff(c) \/ RecordOnDetach(c)
           \/ RecordOnOpen(c) \/ SendCmd(c) \/ SendCmdReturn(c) \/ ReplayLookup(c)
           \/ ReplayStart(c) \/ CaptureStop(c) \/ CaptureStopped(c) \/ CaptureStart(c)
  BY <1>1 DEF Request, NoSuchBus, Look, Create, RecordOff, RecordOnDetach, RecordOnOpen,
              SendCmd, SendCmdReturn, ReplayLookup, ReplayStart, CaptureStop, CaptureStopped,
              CaptureStart
<1>2. CASE ForwardReset(c) \/ ForwardStart(c) \/ StopForward(c) \/ Subscribe(c)
           \/ SubscribeSetCb(c) \/ Delete(c) \/ DeleteUnrecord(c)
           \/ DeleteErase(c) \/ Quit(c) \/ WriteReply(c) \/ ConnEnd(c)
  BY <1>2 DEF ForwardReset, ForwardStart, StopForward, Subscribe, SubscribeSetCb, Delete,
              DeleteUnrecord, DeleteErase, Quit, WriteReply, ConnEnd
<1> QED
  BY <1>1, <1>2 DEF Handler

\* A new call of Send, or none, disturbs no reference as long as main's pipe stays.
LEMMA IdleKeepsRefers ==
  ASSUME FrameRefers, CapRefers', UNCHANGED <<send, owed, pend, ready, main>>,
         main.at = "write" => pipe'[main.lam.bus] # None
  PROVE  FrameRefers'
  BY DEF FrameRefers, CapRefers, InSend, nframes

LEMMA EnterKeepsRefers ==
  ASSUME TypeOK, FrameRefers, CapRefers', NEW t \in Senders, NEW b \in BusIds, EnterSend(t, b),
         UNCHANGED <<pend, ready, main, pipe>>
  PROVE  FrameRefers'
<1>1. /\ send'[t].at = "snap" /\ send'[t].bus = b /\ send'[t].n = nframes + 1
      /\ \A a \in Senders \ {t} : send'[a] = send[a]
      /\ nframes \in Nat /\ nframes' = nframes + 1
  BY SendEntered
<1>2. nframes' \in Nat /\ \A i : i \in 1..nframes => i \in 1..nframes'
  BY <1>1
<1>3. (\A a \in Senders : IF InSend(a) THEN send[a].bus \in BusIds /\ send[a].n \in 1..nframes
                                      ELSE send[a] = NoSend)'
  <2> SUFFICES ASSUME NEW a \in Senders
               PROVE  IF send'[a].at # "out" THEN send'[a].bus \in BusIds /\ send'[a].n \in 1..nframes'
                                             ELSE send'[a] = NoSend
    BY DEF InSend
  <2>1. CASE a = t
    BY <1>1, <2>1
  <2>2. CASE a # t
    BY <1>1, <1>2, <2>2 DEF FrameRefers, InSend
  <2> QED
    BY <2>1, <2>2
<1>4. (\A l \in pend \union ready : l.bus \in BusIds /\ l.n \in 1..nframes)'
  BY <1>2 DEF FrameRefers
<1>5. main.at \in {"rec", "sub", "write"} => main.lam.bus \in BusIds /\ main.lam.n \in 1..nframes'
  BY <1>2 DEF FrameRefers
<1> QED
  BY <1>3, <1>4, <1>5 DEF FrameRefers, CapRefers

LEMMA HandlerRefers ==
  ASSUME TypeOK, Refers, NEW c \in Clients, Request(c) \/ Handler(c)
  PROVE  Refers'
<1> USE DEF Refers
<1>1. ThreadRefers'
  BY HandlerMoves, MovesKeepThreads
<1>2. CapRefers'
  BY HandlerCaptures
<1>3. CASE send' = send /\ owed' = owed
  <2>1. main.at = "write" => pipe'[main.lam.bus] # None
    <3>1. main.at = "write" => pipe[main.lam.bus] # None /\ main.lam.bus \in BusIds
      BY DEF FrameRefers
    <3>2. CASE pipe' = pipe
      BY <3>1, <3>2
    <3>3. CASE SubscribeAttach(c) \/ DeleteUnsub(c)
      <4>1. conn[c].bus \in BusIds
        BY <3>3 DEF ThreadRefers, SubscribeAttach, DeleteUnsub, At, Holding
      <4>2. ~(main.at = "write" /\ main.lam.bus = conn[c].bus)
        BY <3>3 DEF SubscribeAttach, DeleteUnsub, SubMutexFree
      <4>3. \A b \in BusIds \ {conn[c].bus} : pipe'[b] = pipe[b]
        BY <3>3, <4>1 DEF SubscribeAttach, DeleteUnsub, TypeOK
      <4> QED
        BY <3>1, <4>2, <4>3
    <3> QED
      BY <3>2, <3>3, HandlerPipes
  <2> QED
    BY <1>1, <1>2, <1>3, <2>1, HandlerLeaves, IdleKeepsRefers
<1>4. CASE ~(send' = send /\ owed' = owed)
  <2>1. /\ SendCmd(c) /\ reg[conn[c].name] \in BusIds /\ EnterSend(c, reg[conn[c].name])
        /\ pend' = pend /\ ready' = ready /\ main' = main
    BY <1>4, HandlerLeaves
  <2>2. pipe' = pipe
    BY <2>1 DEF SendCmd, pipeVars
  <2> QED
    BY <1>1, <1>2, <2>1, <2>2, EnterKeepsRefers DEF Senders
<1> QED
  BY <1>3, <1>4

LEMMA SenderRefers ==
  ASSUME TypeOK, Refers,
         \/ \E t \in Senders : Sending(t)
         \/ \E k \in CapIds : CapThread(k)
         \/ \E r \in Replays : ReplayFrame(r) \/ ReplayEnd(r)
  PROVE  Refers'
<1> USE DEF objVars, pipeVars, runVars
<1>1. CapRefers /\ FrameRefers /\ ThreadRefers
  BY DEF Refers, FrameRefers, CapRefers
<1>2. ASSUME NEW t \in Senders, Sending(t)
      PROVE  Refers'
  <2>1. UNCHANGED <<conn, cap, pipe, ready, main>>
    BY <1>2 DEF Sending, SendSnap, SendFwd, SendPost
  <2>2. /\ \A u \in Senders \ {t} : send'[u] = send[u]
        /\ nframes' = nframes /\ InSend(t) /\ (Snaps(t) \/ Forwards(t) \/ Posts(t))
    BY <1>1, <1>2, SendingSteps
  <2>3. send[t].bus \in BusIds /\ send[t].n \in 1..nframes
    BY <1>1, <2>2 DEF FrameRefers
  <2>4. (\A a \in Senders : IF InSend(a) THEN send[a].bus \in BusIds /\ send[a].n \in 1..nframes
                                        ELSE send[a] = NoSend)'
    <3> SUFFICES ASSUME NEW a \in Senders
                 PROVE  IF send'[a].at # "out"
                        THEN send'[a].bus \in BusIds /\ send'[a].n \in 1..nframes
                        ELSE send'[a] = NoSend
      BY <2>2 DEF InSend
    <3>1. CASE a = t
      BY <2>2, <2>3, <3>1 DEF Snaps, Forwards, Posts, NoSend
    <3>2. CASE a # t
      BY <1>1, <2>2, <3>2 DEF FrameRefers, InSend
    <3> QED
      BY <3>1, <3>2
  <2>5. \A l \in pend' : l.bus \in BusIds /\ l.n \in 1..nframes
    BY <1>1, <2>2, <2>3 DEF FrameRefers, Snaps, Forwards, Posts
  <2>6. FrameRefers'
    BY <1>1, <2>1, <2>2, <2>4, <2>5 DEF FrameRefers
  <2> QED
    BY <1>1, <2>1, <2>6 DEF Refers, ThreadRefers
<1>3. ASSUME NEW k \in CapIds, CapThread(k)
      PROVE  Refers'
  <2>1. CapRefers' /\ UNCHANGED <<conn, pipe, pend, ready, main>>
    BY <1>1, <1>3, CaptureLeaves DEF CapRefers
  <2>2. ThreadRefers'
    BY <1>1, <2>1 DEF ThreadRefers
  <2>3. CASE send' = send /\ owed' = owed
    BY <1>1, <2>1, <2>2, <2>3, IdleKeepsRefers DEF Refers, FrameRefers
  <2>4. CASE ~(send' = send /\ owed' = owed)
    <3>1. cap[k].bus \in BusIds /\ EnterSend(k, cap[k].bus)
      BY <1>1, <1>3, <2>4, CaptureLeaves
    <3> QED
      BY <1>1, <2>1, <2>2, <3>1, EnterKeepsRefers DEF Refers, Senders
  <2> QED
    BY <2>3, <2>4
<1>4. ASSUME NEW r \in Replays, ReplayFrame(r) \/ ReplayEnd(r)
      PROVE  Refers'
  <2>1. CapRefers' /\ UNCHANGED <<conn, pipe, pend, ready, main>>
    BY <1>1, <1>4 DEF CapRefers, ReplayFrame, ReplayEnd
  <2>2. ThreadRefers'
    BY <1>1, <2>1 DEF ThreadRefers
  <2>3. CASE ReplayEnd(r)
    BY <1>1, <2>1, <2>2, <2>3, IdleKeepsRefers DEF Refers, FrameRefers, ReplayEnd
  <2>4. CASE ReplayFrame(r)
    <3>1. rp[r] \in BusIds /\ EnterSend(r, rp[r])
      BY <2>4 DEF ReplayFrame, TypeOK
    <3> QED
      BY <1>1, <2>1, <2>2, <3>1, EnterKeepsRefers DEF Refers, Senders
  <2> QED
    BY <1>4, <2>3, <2>4
<1> QED
  BY <1>2, <1>3, <1>4

LEMMA MainRefers ==
  ASSUME TypeOK, Refers, Main
  PROVE  Refers' /\ CapRefers'
<1> USE DEF objVars, pipeVars, runVars
<1>1. CapRefers /\ FrameRefers /\ ThreadRefers
  BY DEF Refers, FrameRefers, CapRefers
<1>2. main.lam \in Lambdas /\ NoLam \in Lambdas
  BY DEF TypeOK, NoLam, Lambdas
<1>3. conn' = conn /\ send' = send /\ owed' = owed
  BY DEF Main, MainCheck, MainDrain, MainNext, MainRecord, MainSub, MainWrite, MainClose,
         MainDestroySched, MainDestroySink, MainDestroyBus, MainExit
<1>4. ThreadRefers'
  BY <1>1, <1>3 DEF ThreadRefers
<1>5. CapRefers'
  <2>1. CASE cap' = cap
    BY <1>1, <2>1 DEF CapRefers
  <2>2. ASSUME NEW b \in BusIds, MainDestroySink(b)
        PROVE  CapRefers'
    <3>1. bus[b].cap \in CapIds \union {None} /\ StopFlag(bus[b].cap)
      BY <2>2 DEF MainDestroySink, TypeOK, BusStates
    <3>2. \A k \in CapIds : Untouched(k)
      BY <3>1, CaptureChange
    <3> QED
      BY <1>1, <3>2 DEF CapRefers, Untouched
  <2> QED
    BY <2>1, <2>2 DEF Main, MainCheck, MainDrain, MainNext, MainRecord, MainSub, MainWrite,
       MainClose, MainDestroySched, MainDestroyBus, MainExit
<1> DEFINE Met(l) == l.bus \in BusIds /\ l.n \in 1..nframes
           MainRefs(m) == /\ m.at \in {"rec", "sub", "write"} => Met(m.lam)
                          /\ m.at = "join" => m.lam.bus \in BusIds
                          /\ m.at = "rec" => m.lam.rec \in RecIds
                          /\ m.at = "write" => pipe'[m.lam.bus] # None
<1>6. \A l \in pend \union ready : Met(l)
  BY <1>1 DEF FrameRefers
<1>7. main.at \in {"rec", "sub", "write"} => Met(main.lam)
  BY <1>1 DEF FrameRefers
<1>8. ASSUME \A l \in pend' \union ready' : Met(l), MainRefs(main')
      PROVE  FrameRefers'
  <2>1. nframes' = nframes
    BY <1>3 DEF nframes
  <2>2. (\A t \in Senders : IF InSend(t) THEN send[t].bus \in BusIds /\ send[t].n \in 1..nframes
                                        ELSE send[t] = NoSend)'
    BY <1>1, <1>3, <2>1 DEF FrameRefers, InSend
  <2> QED
    BY <1>5, <1>8, <2>1, <2>2 DEF FrameRefers, CapRefers
<1> HIDE DEF Met, MainRefs
<1>9. CASE MainCheck \/ MainClose \/ MainDestroySched \/ MainExit \/ MainDestroyBus
  <2>1. PICK s \in {"closing", "drain", "exit", "teardown", "exited"} : MainGoto(s, NoLam)
    BY <1>9 DEF MainCheck, MainClose, MainDestroySched, MainExit, MainDestroyBus
  <2>2. main'.at = s
    BY <1>2, <2>1, MainAt
  <2>3. MainRefs(main')
    BY <2>2 DEF MainRefs
  <2>4. \A l \in pend' \union ready' : Met(l)
    BY <1>6, <1>9 DEF MainCheck, MainClose, MainDestroySched, MainExit, MainDestroyBus
  <2> QED
    BY <1>4, <1>5, <1>8, <2>3, <2>4 DEF Refers
<1>10. ASSUME NEW D \in SUBSET pend, MainDrain(D)
       PROVE  FrameRefers'
  <2>1. MainRefs(main')
    BY <1>10, NextItems DEF MainDrain, MainRefs
  <2>2. \A l \in pend' \union ready' : Met(l)
    BY <1>6, <1>10 DEF MainDrain
  <2> QED
    BY <1>8, <2>1, <2>2
<1>11. ASSUME NEW l \in ready, MainNext(l)
       PROVE  FrameRefers'
  <2>1. l \in Lambdas /\ Met(l)
    BY <1>6 DEF TypeOK
  <2>2. l.rec \in RecIds \union {None}
    BY <2>1 DEF Lambdas
  <2>3. MainRefs(main')
    BY <1>11, <2>1, <2>2, Delivered DEF MainNext, MainRefs
  <2>4. \A m \in pend' \union ready' : Met(m)
    BY <1>6, <1>11 DEF MainNext
  <2> QED
    BY <1>8, <2>3, <2>4
<1>12. CASE MainRecord
  <2> DEFINE l == [main.lam EXCEPT !.rec = None]
  <2>1. l \in Lambdas /\ Met(l) /\ l.rec = None
    BY <1>2, <1>7, <1>12 DEF Lambdas, MainRecord, Met
  <2>2. Deliver(l, ready)
    BY <1>12 DEF MainRecord
  <2> HIDE DEF l
  <2>3. MainRefs(main')
    BY <2>1, <2>2, Delivered DEF MainRefs
  <2>4. \A m \in pend' \union ready' : Met(m)
    BY <1>6, <1>12 DEF MainRecord
  <2> QED
    BY <1>4, <1>5, <1>8, <2>3, <2>4 DEF Refers
<1>13. CASE MainSub
  <2>1. MainRefs(main')
    <3>1. CASE pipe[main.lam.bus] # None
      <4>1. main'.at = "write" /\ main'.lam = main.lam /\ main.at = "sub" /\ pipe' = pipe
        BY <1>2, <1>13, <3>1, MainAt DEF MainSub
      <4> QED
        BY <1>7, <3>1, <4>1 DEF MainRefs
    <3>2. CASE pipe[main.lam.bus] = None
      BY <1>13, <3>2, NextItems DEF MainSub, MainRefs
    <3> QED
      BY <3>1, <3>2
  <2>2. \A m \in pend' \union ready' : Met(m)
    BY <1>6, <1>13 DEF MainSub
  <2> QED
    BY <1>4, <1>5, <1>8, <2>1, <2>2 DEF Refers
<1>14. CASE MainWrite
  <2>1. MainRefs(main')
    BY <1>14, NextItems DEF MainWrite, MainRefs
  <2>2. \A m \in pend' \union ready' : Met(m)
    BY <1>6, <1>14 DEF MainWrite
  <2> QED
    BY <1>4, <1>5, <1>8, <2>1, <2>2 DEF Refers
<1>15. ASSUME NEW b \in BusIds, MainDestroySink(b)
       PROVE  FrameRefers'
  <2>1. [NoLam EXCEPT !.bus = b] \in Lambdas /\ [NoLam EXCEPT !.bus = b].bus = b
    BY <1>2 DEF Lambdas
  <2>2. main'.at = "join" /\ main'.lam.bus = b
    BY <1>15, <2>1, MainAt DEF MainDestroySink
  <2>3. MainRefs(main')
    BY <2>2 DEF MainRefs
  <2>4. \A m \in pend' \union ready' : Met(m)
    BY <1>6, <1>15 DEF MainDestroySink
  <2> QED
    BY <1>8, <2>3, <2>4
<1> QED
  BY <1>4, <1>5, <1>9, <1>10, <1>11, <1>12, <1>13, <1>14, <1>15 DEF Main, Refers

-----------------------------------------------------------------------------
(* Handles.                                                                 *)

\* A thread's move that closes no handle and fills no slot leaves the handles in order,
\* unless it ends a handler that has handed its own over.
LEMMA MovesKeepHandles ==
  ASSUME TypeOK, Handles, NEW c \in Clients, UNCHANGED <<pipe, closes>>, Others(c),
         conn'[c].stay => conn'[c].at \in {"reply", "handed"},
         HandedOver(c)' <=> HandedOver(c),
         ~HandedOver(c) => conn[c].at # "ended"
  PROVE  Handles'
  BY DEF Handles, HandedOver, Others

\* A slot is cleared and its handle closed: by delete, or by a write that failed.
LEMMA SlotCleared ==
  ASSUME TypeOK, Handles, NEW b \in BusIds,
         CloseHandleOf(pipe[b]), pipe' = [pipe EXCEPT ![b] = None],
         \A d \in Clients : /\ HandedOver(d)' <=> HandedOver(d)
                            /\ conn'[d].stay => conn'[d].at \in {"reply", "handed"}
                            /\ conn'[d].at = "ended" <=> conn[d].at = "ended"
  PROVE  Handles'
<1>1. pipe[b] \in Clients \union {None} /\ pipe \in [BusIds -> Clients \union {None}]
  BY DEF TypeOK
<1>2. \A d \in Clients : closes'[d] = IF d = pipe[b] THEN closes[d] + 1 ELSE closes[d]
  BY <1>1, HandleClosed
<1>3. pipe'[b] = None /\ \A a \in BusIds \ {b} : pipe'[a] = pipe[a]
  BY <1>1
<1>4. pipe[b] # None => HandedOver(pipe[b]) /\ closes[pipe[b]] = 0
  BY <1>1 DEF Handles
<1>5. ASSUME NEW d \in Clients
      PROVE  /\ closes'[d] <= 1
             /\ HandedOver(d)' => (closes'[d] = 0 <=> \E a \in BusIds : pipe'[a] = d)
             /\ ~HandedOver(d)' => \A a \in BusIds : pipe'[a] # d
             /\ ~HandedOver(d)' /\ conn'[d].at # "ended" => closes'[d] = 0
  <2>1. HandedOver(d)' <=> HandedOver(d)
    OBVIOUS
  <2>2. CASE d = pipe[b]
    <3>1. HandedOver(d) /\ closes'[d] = 1
      BY <1>1, <1>2, <1>4, <2>2, DaemonAssumption
    <3>2. \A a \in BusIds : pipe'[a] # d
      BY <1>1, <1>3, <2>2, DaemonAssumption DEF Handles
    <3> QED
      BY <2>1, <3>1, <3>2 DEF Handles
  <2>3. CASE d # pipe[b]
    <3>1. closes'[d] = closes[d]
      BY <1>2, <2>3
    <3>2. \A a \in BusIds : pipe'[a] = d <=> pipe[a] = d
      BY <1>3, <2>3, DaemonAssumption
    <3> QED
      BY <2>1, <3>1, <3>2 DEF Handles
  <2> QED
    BY <2>2, <2>3
<1>6. \A a, e \in BusIds : pipe'[a] = pipe'[e] /\ pipe'[a] # None => a = e
  BY <1>3 DEF Handles
<1> QED
  BY <1>5, <1>6 DEF Handles

LEMMA HandlerHandles ==
  ASSUME TypeOK, Mutex, Refers, Handles, NEW c \in Clients, Request(c) \/ Handler(c)
  PROVE  Handles'
<1> USE DEF objVars, pipeVars, runVars
<1>1. Moves(c) /\ Others(c)
  BY HandlerMoves DEF Moves
<1>2. conn[c] \in ConnStates /\ conn \in [Clients -> ConnStates]
  BY DEF TypeOK
<1>3. conn[c].stay => conn[c].at \in {"reply", "handed"}
  BY DEF Handles
<1>4. ASSUME pipe' = pipe, closes' = closes, conn'[c].stay = conn[c].stay,
             conn[c].at \in (Holding \union {"lock", "probe"}) \ {"setcb"},
             conn'[c].at \in (Holding \union {"probe", "reply"}) \ {"setcb"}
      PROVE  Handles'
  <2>1. ~conn[c].stay /\ ~HandedOver(c) /\ ~HandedOver(c)' /\ conn[c].at # "ended"
    BY <1>3, <1>4 DEF HandedOver, Holding
  <2> QED
    BY <1>1, <1>4, <2>1, MovesKeepHandles
<1>5. CASE SubscribeSetCb(c)
  <2>1. conn[c].at = "setcb" /\ conn'[c].at = "reply" /\ conn'[c].stay
        /\ pipe' = pipe /\ closes' = closes
    BY <1>2, <1>5 DEF SubscribeSetCb, At, ConnStates
  <2> QED
    BY <1>1, <2>1, MovesKeepHandles DEF HandedOver
<1>6. CASE SubscribeAttach(c)
  <2> DEFINE b == conn[c].bus
  <2>1. b \in BusIds /\ conn[c].at = "attach"
    BY <1>6 DEF SubscribeAttach, At, Refers, ThreadRefers, Holding
  <2>2. pipe[b] \in Clients \union {None} /\ pipe \in [BusIds -> Clients \union {None}]
    BY <2>1 DEF TypeOK
  <2>3. /\ closes' \in [Clients -> Nat]
        /\ \A d \in Clients : closes'[d] = IF d = pipe[b] THEN closes[d] + 1 ELSE closes[d]
    BY <1>6, <2>2, HandleClosed DEF SubscribeAttach
  <2>4. pipe'[b] = c /\ \A a \in BusIds \ {b} : pipe'[a] = pipe[a]
    BY <1>6, <2>1, <2>2 DEF SubscribeAttach
  <2>5. conn' = [conn EXCEPT ![c].at = "setcb"]
    BY <1>6 DEF SubscribeAttach
  <2>6. conn'[c].at = "setcb" /\ conn'[c].stay = conn[c].stay
    BY <2>5, StepMoves DEF Keeps, Holding
  <2>7. ~conn[c].stay /\ ~HandedOver(c) /\ \A a \in BusIds : pipe[a] # c
    BY <1>3, <2>1 DEF HandedOver, Handles
  <2>8. closes[c] = 0
    BY <2>1, <2>7 DEF Handles
  <2>9. pipe[b] # None => HandedOver(pipe[b]) /\ closes[pipe[b]] = 0
    BY <2>1, <2>2 DEF Handles
  <2> HIDE DEF b
  <2>10. ASSUME NEW d \in Clients
         PROVE  /\ conn'[d].stay => conn'[d].at \in {"reply", "handed"}
                /\ closes'[d] <= 1
                /\ HandedOver(d)' => (closes'[d] = 0 <=> \E a \in BusIds : pipe'[a] = d)
                /\ ~HandedOver(d)' => \A a \in BusIds : pipe'[a] # d
                /\ ~HandedOver(d)' /\ conn'[d].at # "ended" => closes'[d] = 0
    <3>1. CASE d = c
      <4>1. closes'[c] = 0
        BY <2>2, <2>3, <2>7, <2>8, <2>1
      <4> QED
        BY <2>1, <2>4, <2>6, <2>7, <3>1, <4>1 DEF HandedOver
    <3>2. CASE d # c
      <4>1. conn'[d] = conn[d]
        BY <1>1, <3>2 DEF Others
      <4>2. HandedOver(d)' <=> HandedOver(d)
        BY <4>1 DEF HandedOver
      <4>3. CASE d = pipe[b]
        <5>1. HandedOver(d) /\ closes'[d] = 1
          BY <2>2, <2>3, <2>9, <4>3, DaemonAssumption
        <5>2. \A a \in BusIds : pipe'[a] # d
          BY <2>1, <2>2, <2>4, <3>2, <4>3, DaemonAssumption DEF Handles
        <5> QED
          BY <4>1, <4>2, <5>1, <5>2 DEF Handles
      <4>4. CASE d # pipe[b]
        <5>1. closes'[d] = closes[d]
          BY <2>3, <4>4
        <5>2. \A a \in BusIds : pipe'[a] = d <=> pipe[a] = d
          BY <2>4, <3>2, <4>4
        <5> QED
          BY <4>1, <4>2, <5>1, <5>2 DEF Handles
      <4> QED
        BY <4>3, <4>4
    <3> QED
      BY <3>1, <3>2
  <2>11. \A a, e \in BusIds : pipe'[a] = pipe'[e] /\ pipe'[a] # None => a = e
    BY <2>4, <2>7 DEF Handles
  <2> QED
    BY <2>10, <2>11 DEF Handles
<1>7. CASE DeleteUnsub(c)
  <2>1. conn[c].bus \in BusIds /\ conn[c].at = "unsub"
    BY <1>7 DEF DeleteUnsub, At, Refers, ThreadRefers, Holding
  <2>2. conn' = [conn EXCEPT ![c].at = "unrec"]
    BY <1>7 DEF DeleteUnsub
  <2>3. conn'[c].at = "unrec" /\ conn'[c].stay = conn[c].stay
    BY <2>2, StepMoves DEF Keeps, Holding
  <2>4. ~conn[c].stay /\ ~HandedOver(c)
    BY <1>3, <2>1 DEF HandedOver, Handles
  <2>5. ASSUME NEW d \in Clients
        PROVE  /\ HandedOver(d)' <=> HandedOver(d)
               /\ conn'[d].stay => conn'[d].at \in {"reply", "handed"}
               /\ conn'[d].at = "ended" <=> conn[d].at = "ended"
    BY <1>1, <2>1, <2>3, <2>4 DEF HandedOver, Others, Handles
  <2> QED
    BY <1>7, <2>1, <2>5, SlotCleared DEF DeleteUnsub
<1>8. CASE ConnEnd(c)
  <2>1. /\ conn[c].at = "read" /\ pipe' = pipe /\ conn' = [conn EXCEPT ![c].at = "ended"]
        /\ \A d \in Clients : closes'[d] = IF d = c THEN closes[d] + 1 ELSE closes[d]
    BY <1>8, HandleClosed DEF ConnEnd
  <2>2. conn'[c].at = "ended" /\ conn'[c].stay = conn[c].stay
    BY <2>1, StepMoves DEF Keeps
  <2>3. ~conn[c].stay /\ ~HandedOver(c) /\ ~HandedOver(c)'
    BY <1>3, <2>1, <2>2 DEF HandedOver
  <2>4. closes[c] = 0 /\ \A b \in BusIds : pipe[b] # c
    BY <2>1, <2>3 DEF Handles
  <2>5. closes'[c] = 1
    BY <2>1, <2>4
  <2> QED
    BY <1>1, <2>1, <2>2, <2>3, <2>4, <2>5 DEF Handles, Others, HandedOver
<1>9. CASE NoSuchBus(c) \/ Look(c) \/ Create(c) \/ RecordOff(c) \/ StopForward(c)
           \/ RecordOnOpen(c) \/ SendCmdReturn(c) \/ CaptureStopped(c) \/ CaptureStart(c)
           \/ ForwardStart(c) \/ DeleteErase(c)
  <2>1. PICK r \in {"OK", "ERR"} : Reply(c, r)
    BY <1>9 DEF NoSuchBus, Look, Create, RecordOff, StopForward, RecordOnOpen, SendCmdReturn,
                CaptureStopped, CaptureStart, ForwardStart, DeleteErase
  <2>2. conn[c].at \in (Holding \union {"lock"}) \ {"setcb"}
    BY <1>9 DEF NoSuchBus, Look, Create, RecordOff, StopForward, RecordOnOpen, SendCmdReturn,
                CaptureStopped, CaptureStart, ForwardStart, DeleteErase, At, Locks, Holding
  <2>3. pipe' = pipe /\ closes' = closes
    BY <1>9 DEF NoSuchBus, Look, Create, RecordOff, StopForward, RecordOnOpen, SendCmdReturn,
                CaptureStopped, CaptureStart, ForwardStart, DeleteErase
  <2> QED
    BY <1>4, <2>1, <2>2, <2>3, ReplyMoves DEF Keeps, Holding
<1>10. CASE RecordOnDetach(c) \/ SendCmd(c) \/ CaptureStop(c) \/ ForwardReset(c) \/ Subscribe(c)
            \/ Delete(c)
  <2>1. PICK s \in Holding \ {"setcb"} : Goto(c, s)
    BY <1>10 DEF RecordOnDetach, SendCmd, CaptureStop, ForwardReset, Subscribe, Delete, Holding
  <2>2. PICK cmd : Locks(c, cmd)
    BY <1>10 DEF RecordOnDetach, SendCmd, CaptureStop, ForwardReset, Subscribe, Delete
  <2>3. pipe' = pipe /\ closes' = closes
    BY <1>10 DEF RecordOnDetach, SendCmd, CaptureStop, ForwardReset, Subscribe, Delete
  <2>4. conn[c].name \in Names
    BY <2>2 DEF Locks, Refers, ThreadRefers
  <2> QED
    BY <1>4, <2>1, <2>2, <2>3, <2>4, GotoMoves DEF Keeps, Holding
<1>11. CASE DeleteUnrecord(c)
  <2>1. conn[c].at = "unrec" /\ conn' = [conn EXCEPT ![c].at = "join"]
        /\ pipe' = pipe /\ closes' = closes
    BY <1>11 DEF DeleteUnrecord, At
  <2> QED
    BY <1>4, <2>1, StepMoves DEF Keeps, Holding
<1>12. CASE Quit(c) \/ ReplayStart(c)
  <2>1. PICK r \in {"OK", "ERR"} : conn' = [conn EXCEPT ![c].at = "reply", ![c].resp = r]
    BY <1>12 DEF Quit, ReplayStart
  <2>2. conn[c].at \in {"lock", "probe"} /\ conn'[c].at = "reply" /\ conn'[c].stay = conn[c].stay
    BY <1>2, <1>12, <2>1 DEF Quit, ReplayStart, At, ConnStates
  <2> QED
    BY <1>4, <1>12, <2>2 DEF Quit, ReplayStart, Holding
<1>13. CASE ReplayLookup(c)
  <2>1. conn[c].at = "lock" /\ conn'[c].at = "probe" /\ conn'[c].stay = conn[c].stay
    BY <1>2, <1>13 DEF ReplayLookup, Locks, ConnStates
  <2> QED
    BY <1>4, <1>13, <2>1 DEF ReplayLookup, Holding
<1>14. CASE Request(c)
  <2>1. PICK cmd \in Commands, x \in Names :
           conn' = [conn EXCEPT ![c] = [NotYet EXCEPT !.at = "lock", !.cmd = cmd, !.name = x]]
    BY <1>14 DEF Request
  <2>2. conn[c].at = "read" /\ conn'[c].at = "lock" /\ ~conn'[c].stay
    BY <1>2, <1>14, <2>1 DEF NotYet, Request
  <2>3. HandedOver(c)' <=> HandedOver(c)
    BY <1>3, <2>2 DEF HandedOver
  <2> QED
    BY <1>1, <1>14, <2>2, <2>3, MovesKeepHandles DEF Request
<1>15. CASE WriteReply(c)
  <2>1. /\ conn[c].at = "reply"
        /\ conn' = [conn EXCEPT ![c] = IF conn[c].stay THEN [conn[c] EXCEPT !.at = "handed"]
                                       ELSE NotYet]
        /\ pipe' = pipe /\ closes' = closes
    BY <1>15 DEF WriteReply
  <2>2. CASE conn[c].stay
    <3>1. conn'[c].at = "handed" /\ conn'[c].stay
      BY <1>2, <2>1, <2>2 DEF ConnStates
    <3> QED
      BY <1>1, <2>1, <2>2, <3>1, MovesKeepHandles DEF HandedOver
  <2>3. CASE ~conn[c].stay
    <3>1. conn'[c].at = "read" /\ ~conn'[c].stay
      BY <1>2, <2>1, <2>3 DEF NotYet
    <3> QED
      BY <1>1, <2>1, <2>3, <3>1, MovesKeepHandles DEF HandedOver
  <2> QED
    BY <2>2, <2>3
<1> QED
  BY <1>5, <1>6, <1>7, <1>8, <1>9, <1>10, <1>11, <1>12, <1>13, <1>14, <1>15 DEF Handler

\* Nothing else moves a handle, but a failed write of main's.
LEMMA OtherHandles ==
  ASSUME TypeOK, Refers, Handles,
         \/ Main
         \/ \E c \in Clients : ClientRead(c) \/ ClientClose(c)
         \/ \E t \in Senders : Sending(t)
         \/ \E k \in CapIds : CapThread(k)
         \/ \E r \in Replays : ReplayFrame(r) \/ ReplayEnd(r)
  PROVE  Handles' /\ conn' = conn /\ gmtx' = gmtx
<1> USE DEF objVars, pipeVars, runVars
<1>1. ASSUME UNCHANGED <<gmtx, conn, pipe, closes>>
      PROVE  Handles' /\ conn' = conn /\ gmtx' = gmtx
  BY <1>1 DEF Handles, HandedOver
<1>2. CASE \/ \E c \in Clients : ClientRead(c) \/ ClientClose(c)
           \/ \E t \in Senders : Sending(t)
           \/ \E r \in Replays : ReplayFrame(r) \/ ReplayEnd(r)
  BY <1>1, <1>2 DEF ClientRead, ClientClose, Sending, SendSnap, SendFwd, SendPost, ReplayFrame,
                    ReplayEnd
<1>3. CASE \E k \in CapIds : CapThread(k)
  BY <1>1, <1>3, CaptureLeaves DEF Refers
<1>4. CASE MainWrite
  <2>1. gmtx' = gmtx /\ conn' = conn /\ main.lam.bus \in BusIds
    BY <1>4 DEF MainWrite, Refers, FrameRefers
  <2>2. CASE UNCHANGED <<closes, pipe>>
    BY <1>1, <2>1, <2>2
  <2>3. CASE CloseHandleOf(pipe[main.lam.bus]) /\ pipe' = [pipe EXCEPT ![main.lam.bus] = None]
    <3>1. \A d \in Clients : /\ HandedOver(d)' <=> HandedOver(d)
                             /\ conn'[d].stay => conn'[d].at \in {"reply", "handed"}
                             /\ conn'[d].at = "ended" <=> conn[d].at = "ended"
      BY <2>1 DEF HandedOver, Handles
    <3> QED
      BY <2>1, <2>3, <3>1, SlotCleared
  <2> QED
    BY <1>4, <2>2, <2>3 DEF MainWrite
<1>5. CASE Main /\ ~MainWrite
  BY <1>1, <1>5 DEF Main, MainCheck, MainDrain, MainNext, MainRecord, MainSub, MainClose,
                    MainDestroySched, MainDestroySink, MainDestroyBus, MainExit
<1> QED
  BY <1>2, <1>3, <1>4, <1>5

\* Main's place in its loop.
LEMMA MainBatch ==
  ASSUME TypeOK, Refers, Batch, Main
  PROVE  Batch' /\ shutdown' = shutdown
<1> USE DEF Batch, TearingDown, objVars, pipeVars, runVars
<1>1. main.lam \in Lambdas /\ NoLam \in Lambdas /\ shutdown \in BOOLEAN
  BY DEF TypeOK, NoLam, Lambdas
<1>2. shutdown' = shutdown
  BY DEF Main, MainCheck, MainDrain, MainNext, MainRecord, MainSub, MainWrite, MainClose,
         MainDestroySched, MainDestroySink, MainDestroyBus, MainExit
<1>3. CASE MainCheck
  <2>1. CASE shutdown
    <3>1. main'.at = "closing"
      BY <1>1, <1>3, <2>1, MainAt DEF MainCheck
    <3> QED
      BY <1>2, <1>3, <2>1, <3>1 DEF MainCheck
  <2>2. CASE ~shutdown
    <3>1. main'.at = "drain"
      BY <1>1, <1>3, <2>2, MainAt DEF MainCheck
    <3> QED
      BY <1>2, <1>3, <2>2, <3>1 DEF MainCheck
  <2> QED
    BY <2>1, <2>2
<1>4. ASSUME NEW D \in SUBSET pend, MainDrain(D)
      PROVE  Batch'
  BY <1>2, <1>4, NextItems DEF MainDrain
<1>5. ASSUME NEW l \in ready, MainNext(l)
      PROVE  Batch'
  <2>1. l \in Lambdas /\ Deliver(l, ready')
    BY <1>5 DEF MainNext, TypeOK
  <2>2. main'.at \in {"rec", "sub", "check", "next"} /\ (main'.at = "check" => ready' = {})
    BY <2>1, Delivered
  <2> QED
    BY <1>2, <2>2
<1>6. CASE MainRecord
  <2>1. [main.lam EXCEPT !.rec = None] \in Lambdas
    BY <1>1 DEF Lambdas
  <2>2. main'.at \in {"rec", "sub", "check", "next"} /\ (main'.at = "check" => ready = {})
    BY <1>6, <2>1, Delivered DEF MainRecord
  <2> QED
    BY <1>2, <1>6, <2>2 DEF MainRecord
<1>7. CASE MainSub
  <2>1. CASE pipe[main.lam.bus] # None
    BY <1>1, <1>2, <1>7, <2>1, MainAt DEF MainSub
  <2>2. CASE pipe[main.lam.bus] = None
    BY <1>2, <1>7, <2>2, NextItems DEF MainSub
  <2> QED
    BY <2>1, <2>2
<1>8. CASE MainWrite
  BY <1>2, <1>8, NextItems DEF MainWrite
<1>9. CASE MainClose \/ MainDestroySched \/ MainDestroyBus \/ MainExit
  <2>1. PICK s \in {"exit", "teardown", "exited"} : MainGoto(s, NoLam)
    BY <1>9 DEF MainClose, MainDestroySched, MainDestroyBus, MainExit
  <2>2. main'.at = s
    BY <1>1, <2>1, MainAt
  <2>3. shutdown /\ ready = {} /\ ready' = ready
    BY <1>9 DEF MainClose, MainDestroySched, MainDestroyBus, MainExit
  <2> QED
    BY <1>2, <2>2, <2>3
<1>10. ASSUME NEW b \in BusIds, MainDestroySink(b)
       PROVE  Batch'
  <2>1. [NoLam EXCEPT !.bus = b] \in Lambdas
    BY <1>1 DEF Lambdas
  <2>2. main'.at = "join"
    BY <1>10, <2>1, MainAt DEF MainDestroySink
  <2> QED
    BY <1>2, <1>10, <2>2 DEF MainDestroySink
<1> QED
  BY <1>2, <1>3, <1>4, <1>5, <1>6, <1>7, <1>8, <1>9, <1>10 DEF Main

LEMMA OtherBatch ==
  ASSUME TypeOK, Refers, Batch,
         \/ \E c \in Clients : Request(c) \/ Handler(c) \/ ClientRead(c) \/ ClientClose(c)
         \/ \E t \in Senders : Sending(t)
         \/ \E k \in CapIds : CapThread(k)
         \/ \E r \in Replays : ReplayFrame(r) \/ ReplayEnd(r)
  PROVE  Batch' /\ main' = main /\ (shutdown => shutdown')
<1> USE DEF Batch, TearingDown, objVars, pipeVars, runVars
<1>1. ASSUME UNCHANGED <<main, ready>>, shutdown => shutdown'
      PROVE  Batch' /\ main' = main /\ (shutdown => shutdown')
  BY <1>1
<1>2. CASE \/ \E c \in Clients : ClientRead(c) \/ ClientClose(c)
           \/ \E t \in Senders : Sending(t)
           \/ \E r \in Replays : ReplayFrame(r) \/ ReplayEnd(r)
  BY <1>1, <1>2 DEF ClientRead, ClientClose, Sending, SendSnap, SendFwd, SendPost, ReplayFrame,
                    ReplayEnd
<1>3. CASE \E k \in CapIds : CapThread(k)
  BY <1>1, <1>3, CaptureLeaves DEF Refers
<1>4. ASSUME NEW c \in Clients, Request(c) \/ Handler(c)
      PROVE  Batch' /\ main' = main /\ (shutdown => shutdown')
  <2>1. main' = main /\ ready' = ready
    BY <1>4, HandlerLeaves DEF Refers
  <2>2. shutdown => shutdown'
    BY <1>4 DEF Handler, Request, NoSuchBus, Look, Create, RecordOff, RecordOnDetach,
       RecordOnOpen, SendCmd, SendCmdReturn, ReplayLookup, ReplayStart, CaptureStop,
       CaptureStopped, CaptureStart, ForwardReset, ForwardStart, StopForward, Subscribe,
       SubscribeAttach, SubscribeSetCb, Delete, DeleteUnsub, DeleteUnrecord, DeleteErase, Quit,
       WriteReply, ConnEnd
  <2> QED
    BY <1>1, <2>1, <2>2
<1> QED
  BY <1>2, <1>3, <1>4

-----------------------------------------------------------------------------
(* What a handler does to the objects of its bus.                           *)

HandlersBus(c) == IF conn[c].at = "lock" THEN reg[conn[c].name] ELSE conn[c].bus

DropsRecorder(b) == RecorderSet(b, None) /\ CloseUnheld /\ UNCHANGED <<reg, sinkSt>>
TakesRecorder(b) ==
    \E r \in RecIds : /\ recSt[r] = "none" /\ recSt' = [recSt EXCEPT ![r] = "open"]
                      /\ RecorderSet(b, r) /\ UNCHANGED <<reg, sinkSt>>
DropsSink(b) == SinkSet(b, None) /\ FreeSink(bus[b].sink) /\ UNCHANGED <<reg, recSt>>
TakesSink(c, b) ==
    /\ ForwardStart(c)
    /\ \E s \in SinkIds : /\ sinkSt[s] = "none" /\ sinkSt' = [sinkSt EXCEPT ![s] = "live"]
                          /\ SinkSet(b, s)
    /\ UNCHANGED <<reg, recSt>>
SetsCapture(c, b) ==
    /\ CaptureStopped(c) \/ CaptureStart(c)
    /\ \E k \in CapIds \union {None} : CaptureSet(b, k)
    /\ UNCHANGED <<reg, recSt, sinkSt>>
SetsSubscriber(c, b) ==
    /\ \/ SubscribeSetCb(c) /\ SubscriberSet(b, TRUE)
       \/ Delete(c) /\ SubscriberSet(b, FALSE)
    /\ UNCHANGED <<reg, recSt, sinkSt>>
Erases(c, b) ==
    /\ DeleteErase(c) /\ LifeSet(b, "freed") /\ FreeSink(bus[b].sink)
    /\ reg' = [reg EXCEPT ![conn[c].name] = None] /\ recSt' = recSt
Makes(c) ==
    /\ conn[c].at = "lock" /\ conn[c].name \in Names /\ reg[conn[c].name] = None
    /\ conn'[c].at = "reply"
    /\ \E b \in BusIds : /\ bus[b].life = "none" /\ LifeSet(b, "live")
                         /\ reg' = [reg EXCEPT ![conn[c].name] = b]
    /\ UNCHANGED <<recSt, sinkSt>>

ChangesBus(c, b) ==
    /\ b \in BusIds
    /\ conn[c].at # "lock" => conn[c].at \in Holding
    /\ conn[c].at = "lock" => conn[c].name \in Names
    /\ \/ DropsRecorder(b) \/ TakesRecorder(b) \/ DropsSink(b) \/ TakesSink(c, b)
       \/ SetsCapture(c, b) \/ SetsSubscriber(c, b) \/ Erases(c, b)

\* Objects change only at the hands of the thread that holds g_mtx or takes it now.
LEMMA HandlerObjects ==
  ASSUME TypeOK, Mutex, Refers, NEW c \in Clients, Request(c) \/ Handler(c)
  PROVE  \/ UNCHANGED <<reg, bus, recSt, sinkSt>>
         \/ gmtx \in {None, c} /\ (Makes(c) \/ ChangesBus(c, HandlersBus(c)))
<1> USE DEF objVars
<1> DEFINE b == HandlersBus(c)
<1>1. /\ conn[c].at \in Holding => conn[c].bus \in BusIds /\ gmtx = c
      /\ conn[c].at \in Holding \union {"lock"} => conn[c].name \in Names
  BY DEF Refers, ThreadRefers, Mutex
<1>2. ASSUME NEW cmd, Locks(c, cmd)
      PROVE  /\ gmtx = None /\ conn[c].at = "lock" /\ conn[c].name \in Names
             /\ b = reg[conn[c].name] /\ b \in BusIds
  BY <1>1, <1>2 DEF Locks, TypeOK, HandlersBus
<1>3. ASSUME conn[c].at \in Holding
      PROVE  gmtx = c /\ b = conn[c].bus /\ b \in BusIds
  BY <1>1, <1>3 DEF HandlersBus, Holding
<1> HIDE DEF b
<1>4. CASE Request(c) \/ NoSuchBus(c) \/ Look(c) \/ SendCmd(c) \/ SendCmdReturn(c)
           \/ ReplayLookup(c) \/ ReplayStart(c) \/ CaptureStop(c) \/ Subscribe(c)
           \/ SubscribeAttach(c) \/ DeleteUnsub(c) \/ Quit(c) \/ WriteReply(c) \/ ConnEnd(c)
  BY <1>4 DEF Request, NoSuchBus, Look, SendCmd, SendCmdReturn, ReplayLookup, ReplayStart,
              CaptureStop, Subscribe, SubscribeAttach, DeleteUnsub, Quit, WriteReply, ConnEnd
<1>5. CASE Create(c)
  <2>1. gmtx = None /\ conn[c].at = "lock" /\ conn[c].name \in Names /\ conn'[c].at = "reply"
        /\ recSt' = recSt /\ sinkSt' = sinkSt
    BY <1>1, <1>5, ReplyMoves DEF Create, At
  <2>2. CASE reg[conn[c].name] # None
    BY <1>5, <2>2 DEF Create
  <2>3. CASE reg[conn[c].name] = None
    <3> DEFINE n == Pick(UnusedBus)
    <3>1. /\ n \in BusIds /\ bus[n].life = "none"
          /\ reg' = [reg EXCEPT ![conn[c].name] = n] /\ bus' = [bus EXCEPT ![n] = NewBus]
      BY <1>5, <2>3, Picked DEF Create, UnusedBus
    <3> HIDE DEF n
    <3>2. LifeSet(n, "live")
      BY <3>1, BusChange
    <3> QED
      BY <2>1, <2>3, <3>1, <3>2 DEF Makes
  <2> QED
    BY <2>2, <2>3
<1>6. CASE RecordOff(c) \/ RecordOnDetach(c)
  <2>1. PICK cmd : Locks(c, cmd)
    BY <1>6 DEF RecordOff, RecordOnDetach
  <2>2. bus' = [bus EXCEPT ![b] = NoRecorder(b)] /\ CloseUnheld /\ UNCHANGED <<reg, sinkSt>>
    BY <1>2, <1>6, <2>1 DEF RecordOff, RecordOnDetach
  <2>3. DropsRecorder(b)
    BY <1>2, <2>1, <2>2, BusChange DEF DropsRecorder
  <2> QED
    BY <1>2, <2>1, <2>3 DEF ChangesBus, b
<1>7. CASE RecordOnOpen(c)
  <2>1. conn[c].at \in Holding /\ conn[c].at # "lock"
    BY <1>7 DEF RecordOnOpen, At, Holding
  <2>2. CASE UNCHANGED <<recSt, bus>>
    BY <1>7, <2>2 DEF RecordOnOpen
  <2>3. CASE ~UNCHANGED <<recSt, bus>>
    <3> DEFINE r == Pick(UnusedRec)
    <3>1. r \in RecIds /\ recSt[r] = "none"
      BY <1>7, <2>3, Picked DEF RecordOnOpen, UnusedRec
    <3>2. recSt' = [recSt EXCEPT ![r] = "open"]
          /\ bus' = [bus EXCEPT ![b].rec = r, ![b].recCb = r] /\ UNCHANGED <<reg, sinkSt>>
      BY <1>3, <1>7, <2>1, <2>3 DEF RecordOnOpen
    <3> HIDE DEF r
    <3>3. RecorderSet(b, r)
      BY <1>3, <2>1, <3>1, <3>2, BusChange
    <3>4. TakesRecorder(b)
      BY <3>1, <3>2, <3>3 DEF TakesRecorder
    <3> QED
      BY <1>3, <2>1, <3>4 DEF ChangesBus, b
  <2> QED
    BY <2>2, <2>3
<1>8. CASE CaptureStopped(c)
  <2>1. conn[c].at \in Holding /\ conn[c].at # "lock"
    BY <1>8 DEF CaptureStopped, At, Holding
  <2>2. bus' = [bus EXCEPT ![b].cap = None] /\ UNCHANGED <<reg, recSt, sinkSt>>
    BY <1>3, <1>8, <2>1 DEF CaptureStopped
  <2>3. SetsCapture(c, b)
    BY <1>3, <1>8, <2>1, <2>2, BusChange DEF SetsCapture
  <2> QED
    BY <1>3, <2>1, <2>3 DEF ChangesBus, b
<1>9. CASE CaptureStart(c)
  <2>1. conn[c].at \in Holding /\ conn[c].at # "lock" /\ conn[c].cmd \in Capturing
        /\ UNCHANGED <<reg, recSt, sinkSt>>
    BY <1>9 DEF CaptureStart, At, Holding
  <2>2. CASE UNCHANGED <<cap, bus>>
    BY <2>1, <2>2
  <2>3. CASE ~UNCHANGED <<cap, bus>>
    <3>1. Pick(UnusedCap) \in CapIds /\ LaunchCapture(Pick(UnusedCap), conn[c].cmd, b)
      BY <1>3, <1>9, <2>1, <2>3, Picked DEF CaptureStart, UnusedCap
    <3>2. SetsCapture(c, b)
      BY <1>3, <1>9, <2>1, <3>1, CaptureChange DEF SetsCapture
    <3> QED
      BY <1>3, <2>1, <3>2 DEF ChangesBus, b
  <2> QED
    BY <2>2, <2>3
<1>10. CASE ForwardReset(c) \/ StopForward(c)
  <2>1. PICK cmd : Locks(c, cmd)
    BY <1>10 DEF ForwardReset, StopForward
  <2>2. /\ bus' = [bus EXCEPT ![b] = NoSink(b)] /\ FreeSink(bus[b].sink)
        /\ UNCHANGED <<reg, recSt>>
    BY <1>2, <1>10, <2>1 DEF ForwardReset, StopForward
  <2>3. DropsSink(b)
    BY <1>2, <2>1, <2>2, BusChange DEF DropsSink
  <2> QED
    BY <1>2, <2>1, <2>3 DEF ChangesBus, b
<1>11. CASE ForwardStart(c)
  <2>1. conn[c].at \in Holding /\ conn[c].at # "lock"
    BY <1>11 DEF ForwardStart, At, Holding
  <2>2. CASE UNCHANGED <<sinkSt, bus>>
    BY <1>11, <2>2 DEF ForwardStart
  <2>3. CASE ~UNCHANGED <<sinkSt, bus>>
    <3> DEFINE s == Pick(UnusedSink)
    <3>1. s \in SinkIds /\ sinkSt[s] = "none"
      BY <1>11, <2>3, Picked DEF ForwardStart, UnusedSink
    <3>2. sinkSt' = [sinkSt EXCEPT ![s] = "live"]
          /\ bus' = [bus EXCEPT ![b].sink = s, ![b].fwdCb = s] /\ UNCHANGED <<reg, recSt>>
      BY <1>3, <1>11, <2>1, <2>3 DEF ForwardStart
    <3> HIDE DEF s
    <3>3. SinkSet(b, s)
      BY <1>3, <2>1, <3>1, <3>2, BusChange
    <3>4. TakesSink(c, b)
      BY <1>11, <3>1, <3>2, <3>3 DEF TakesSink
    <3> QED
      BY <1>3, <2>1, <3>4 DEF ChangesBus, b
  <2> QED
    BY <2>2, <2>3
<1>12. CASE SubscribeSetCb(c)
  <2>1. conn[c].at \in Holding /\ conn[c].at # "lock"
    BY <1>12 DEF SubscribeSetCb, At, Holding
  <2>2. bus' = [bus EXCEPT ![b].subCb = TRUE] /\ UNCHANGED <<reg, recSt, sinkSt>>
    BY <1>3, <1>12, <2>1 DEF SubscribeSetCb
  <2>3. SetsSubscriber(c, b)
    BY <1>3, <1>12, <2>1, <2>2, BusChange DEF SetsSubscriber
  <2> QED
    BY <1>3, <2>1, <2>3 DEF ChangesBus, b
<1>13. CASE Delete(c)
  <2>1. Locks(c, "delete")
    BY <1>13 DEF Delete
  <2>2. bus' = [bus EXCEPT ![b].subCb = FALSE] /\ UNCHANGED <<reg, recSt, sinkSt>>
    BY <1>2, <1>13, <2>1 DEF Delete
  <2>3. SetsSubscriber(c, b)
    BY <1>2, <1>13, <2>1, <2>2, BusChange DEF SetsSubscriber
  <2> QED
    BY <1>2, <2>1, <2>3 DEF ChangesBus, b
<1>14. CASE DeleteUnrecord(c)
  <2>1. conn[c].at \in Holding /\ conn[c].at # "lock"
    BY <1>14 DEF DeleteUnrecord, At, Holding
  <2>2. bus' = [bus EXCEPT ![b] = NoRecorder(b)] /\ CloseUnheld /\ UNCHANGED <<reg, sinkSt>>
    BY <1>3, <1>14, <2>1 DEF DeleteUnrecord
  <2>3. DropsRecorder(b)
    BY <1>3, <2>1, <2>2, BusChange DEF DropsRecorder
  <2> QED
    BY <1>3, <2>1, <2>3 DEF ChangesBus, b
<1>15. CASE DeleteErase(c)
  <2>1. conn[c].at \in Holding /\ conn[c].at # "lock"
    BY <1>15 DEF DeleteErase, At, Holding
  <2>2. /\ bus' = [bus EXCEPT ![b] = Freed] /\ FreeSink(bus[b].sink)
        /\ reg' = [reg EXCEPT ![conn[c].name] = None] /\ recSt' = recSt
    BY <1>3, <1>15, <2>1 DEF DeleteErase
  <2>3. Erases(c, b)
    BY <1>3, <1>15, <2>1, <2>2, BusChange DEF Erases
  <2> QED
    BY <1>3, <2>1, <2>3 DEF ChangesBus, b
<1> QED
  BY <1>4, <1>5, <1>6, <1>7, <1>8, <1>9, <1>10, <1>11, <1>12, <1>13, <1>14, <1>15 DEF Handler

-----------------------------------------------------------------------------
(* Names, captures and sends, while the daemon is not being torn down.      *)

SameLives == \A b \in BusIds : bus'[b].life = bus[b].life

LEMMA RegistryKept ==
  ASSUME TypeOK, ThreadRefers, Registry, NEW c \in Clients, Moves(c), reg' = reg, SameLives
  PROVE  Registry'
<1> USE DEF Registry, SameLives
<1>1. (\A x \in Names : reg[x] # None => bus[reg[x]].life = "live")'
  BY DEF TypeOK
<1>2. \A d \in Clients \ {c} : conn'[d] = conn[d]
  BY DEF Moves, Others
<1>3. conn'[c].at \in Holding => reg[conn'[c].name] = conn'[c].bus
  <2>1. CASE SubscribeSetCb(c)
    BY <2>1 DEF SubscribeSetCb, At, Holding, TypeOK, ConnStates
  <2>2. CASE ~SubscribeSetCb(c)
    BY <2>2 DEF Moves, Enters, Advances, Answers, Aside, Keeps, Holding
  <2> QED
    BY <2>1, <2>2
<1> QED
  BY <1>1, <1>2, <1>3

LEMMA HandlerRegistry ==
  ASSUME TypeOK, Mutex, Refers, Registry, NEW c \in Clients, Request(c) \/ Handler(c)
  PROVE  Registry'
<1>1. Moves(c) /\ ThreadRefers
  BY HandlerMoves DEF Refers
<1>2. CASE reg' = reg /\ SameLives
  BY <1>1, <1>2, RegistryKept
<1>3. CASE UNCHANGED <<reg, bus, recSt, sinkSt>>
  BY <1>2, <1>3 DEF SameLives
<1>4. CASE gmtx \in {None, c} /\ Makes(c)
  <2>1. PICK b \in BusIds : /\ bus[b].life = "none" /\ LifeSet(b, "live")
                            /\ reg' = [reg EXCEPT ![conn[c].name] = b]
    BY <1>4 DEF Makes
  <2>2. /\ \A x \in Names : reg'[x] = IF x = conn[c].name THEN b ELSE reg[x]
        /\ bus'[b].life = "live" /\ \A a \in BusIds \ {b} : bus'[a] = bus[a]
    BY <2>1 DEF LifeSet, Buses, TypeOK
  <2>3. \A x \in Names : reg[x] # b /\ reg[x] \in BusIds \union {None}
    BY <2>1, DaemonAssumption DEF Registry, TypeOK
  <2>4. \A d \in Clients : conn'[d].at \notin Holding
    BY <1>1, <1>4, DaemonAssumption DEF Makes, Mutex, Moves, Others, Holding
  <2> QED
    BY <2>2, <2>3, <2>4, DaemonAssumption DEF Registry
<1>5. CASE gmtx \in {None, c} /\ ChangesBus(c, HandlersBus(c)) /\ ~Erases(c, HandlersBus(c))
  <2> DEFINE b == HandlersBus(c)
  <2>1. b \in BusIds /\ reg' = reg
    BY <1>5 DEF ChangesBus, DropsRecorder, TakesRecorder, DropsSink, TakesSink, SetsCapture,
                SetsSubscriber
  <2> HIDE DEF b
  <2>2. bus'[b].life = bus[b].life /\ \A a \in BusIds \ {b} : bus'[a] = bus[a]
    BY <1>5 DEF b, ChangesBus, DropsRecorder, TakesRecorder, DropsSink, TakesSink, SetsCapture,
                SetsSubscriber, RecorderSet, SinkSet, CaptureSet, SubscriberSet, Buses
  <2> QED
    BY <1>2, <2>1, <2>2 DEF SameLives
<1>6. CASE gmtx \in {None, c} /\ Erases(c, HandlersBus(c))
  <2> DEFINE b == conn[c].bus
  <2>1. conn[c].at = "join" /\ HandlersBus(c) = b /\ b \in BusIds /\ conn[c].name \in Names
        /\ gmtx = c
    BY <1>1, <1>6 DEF Erases, DeleteErase, At, HandlersBus, Holding, Mutex, ThreadRefers
  <2>2. /\ \A x \in Names : reg'[x] = IF x = conn[c].name THEN None ELSE reg[x]
        /\ \A a \in BusIds \ {b} : bus'[a] = bus[a]
    BY <1>6, <2>1 DEF Erases, LifeSet, Buses, TypeOK
  <2>3. reg[conn[c].name] = b
    BY <2>1 DEF Registry, Holding
  <2>4. \A x \in Names : x # conn[c].name => reg[x] # b /\ reg[x] \in BusIds \union {None}
    BY <2>1, <2>3, DaemonAssumption DEF Registry, TypeOK
  <2>5. conn'[c].at = "reply"
    BY <1>6, ReplyMoves DEF Erases, DeleteErase
  <2>6. \A d \in Clients : conn'[d].at \notin Holding
    BY <1>1, <2>1, <2>5, DaemonAssumption DEF Mutex, Moves, Others, Holding
  <2> HIDE DEF b
  <2> QED
    BY <2>2, <2>4, <2>6, DaemonAssumption DEF Registry
<1> QED
  BY <1>3, <1>4, <1>5, <1>6, HandlerObjects

LEMMA CapturesKept ==
  ASSUME TypeOK, FrameRefers, Captures,
         \A k \in CapIds : Untouched(k) /\ send'[k] = send[k],
         \A b \in BusIds : bus[b].life = "live" => bus'[b].life = "live" /\ bus'[b].cap = bus[b].cap
  PROVE  Captures'
  BY DEF Captures, FrameRefers, Untouched, Working, InSend

LEMMA HandlerCapturesKept ==
  ASSUME TypeOK, Mutex, Refers, Registry, Captures, NEW c \in Clients,
         Request(c) \/ Handler(c)
  PROVE  Captures'
<1>1. FrameRefers /\ ThreadRefers
  BY DEF Refers
<1>2. \A k \in CapIds : send'[k] = send[k] /\ k # None
  <2>1. CASE send' = send
    BY <2>1, DaemonAssumption
  <2>2. CASE send' # send
    <3>1. reg[conn[c].name] \in BusIds /\ EnterSend(c, reg[conn[c].name])
      BY <1>1, <2>2, HandlerLeaves
    <3> QED
      BY <3>1, SendEntered, DaemonAssumption DEF Senders
  <2> QED
    BY <2>1, <2>2
<1>3. \/ \A k \in CapIds : Untouched(k)
      \/ /\ CaptureStart(c) /\ UnusedCap # {}
         /\ LaunchCapture(Pick(UnusedCap), conn[c].cmd, conn[c].bus)
  BY <1>1, HandlerCaptures
<1>4. \A k \in CapIds : cap[k].at # "none" => cap[k].bus \in BusIds
  BY <1>1 DEF FrameRefers
\* The capture of a handler's bus has been joined.
<1>5. ASSUME conn[c].at \in Holding, Joined(bus[conn[c].bus].cap), conn[c].at # "lock"
      PROVE  /\ conn[c].bus \in BusIds
             /\ \A k \in CapIds : Working(k) => cap[k].bus # conn[c].bus /\ cap[k].bus \in BusIds
  <2>1. conn[c].bus \in BusIds
    BY <1>1, <1>5 DEF ThreadRefers
  <2>2. ASSUME NEW k \in CapIds, Working(k)
        PROVE  cap[k].bus # conn[c].bus /\ cap[k].bus \in BusIds
    BY <1>2, <1>4, <1>5, <2>2 DEF Captures, Working, Joined
  <2> QED
    BY <2>1, <2>2
<1>6. CASE CaptureStart(c) /\ ~UNCHANGED <<cap, bus>>
  <2> DEFINE k == Pick(UnusedCap)
             b == conn[c].bus
  <2>1. /\ k \in CapIds /\ cap[k].at = "none" /\ LaunchCapture(k, conn[c].cmd, b)
        /\ conn[c].at \in Holding /\ conn[c].at # "lock" /\ conn[c].cmd \in Capturing
        /\ Joined(bus[b].cap)
    BY <1>6, Picked DEF CaptureStart, UnusedCap, At, Holding
  <2> HIDE DEF k
  <2>2. /\ b \in BusIds
        /\ \A j \in CapIds : Working(j) => cap[j].bus # b /\ cap[j].bus \in BusIds
    BY <1>5, <2>1
  <2>3. /\ cap'[k].at = "check" /\ cap'[k].bus = b
        /\ \A j \in CapIds \ {k} : cap'[j] = cap[j]
        /\ bus'[b].cap = k /\ bus'[b].life = bus[b].life
        /\ \A a \in BusIds \ {b} : bus'[a] = bus[a]
    BY <2>1, <2>2, CaptureChange DEF CaptureSet, Buses
  <2>4. ~InSend(k)
    BY <2>1 DEF Captures
  <2>5. bus[b].life = "live"
    BY <1>1, <2>1, <2>2, DaemonAssumption DEF Registry, ThreadRefers
  <2> QED
    BY <1>2, <2>2, <2>3, <2>4, <2>5 DEF Captures, Working, InSend
<1>7. CASE CaptureStopped(c)
  <2>1. /\ conn[c].at \in Holding /\ conn[c].at # "lock" /\ Joined(bus[conn[c].bus].cap)
        /\ bus' = [bus EXCEPT ![conn[c].bus].cap = None] /\ cap' = cap
    BY <1>7 DEF CaptureStopped, At, Holding
  <2>2. /\ conn[c].bus \in BusIds
        /\ \A k \in CapIds : Working(k) => cap[k].bus # conn[c].bus /\ cap[k].bus \in BusIds
    BY <1>5, <2>1
  <2>3. \A a \in BusIds \ {conn[c].bus} : bus'[a] = bus[a]
    BY <2>1, <2>2 DEF TypeOK
  <2> QED
    BY <1>2, <2>1, <2>2, <2>3 DEF Captures, Working, InSend
<1>8. CASE DeleteErase(c)
  <2>1. /\ conn[c].at \in Holding /\ conn[c].at # "lock" /\ Joined(bus[conn[c].bus].cap)
        /\ bus' = [bus EXCEPT ![conn[c].bus] = Freed] /\ cap' = cap
    BY <1>8 DEF DeleteErase, At, Holding
  <2>2. /\ conn[c].bus \in BusIds
        /\ \A k \in CapIds : Working(k) => cap[k].bus # conn[c].bus /\ cap[k].bus \in BusIds
    BY <1>5, <2>1
  <2>3. \A a \in BusIds \ {conn[c].bus} : bus'[a] = bus[a]
    BY <2>1, <2>2 DEF TypeOK
  <2> QED
    BY <1>2, <2>1, <2>2, <2>3 DEF Captures, Working, InSend
<1>9. CASE ~CaptureStopped(c) /\ ~DeleteErase(c) /\ ~(CaptureStart(c) /\ ~UNCHANGED <<cap, bus>>)
  <2>1. \A k \in CapIds : Untouched(k)
    BY <1>3, <1>9 DEF CaptureStart, Untouched
  <2>2. ASSUME NEW b \in BusIds, bus[b].life = "live"
        PROVE  bus'[b].life = "live" /\ bus'[b].cap = bus[b].cap
    <3>1. CASE bus' = bus
      BY <2>2, <3>1
    <3>2. CASE Makes(c)
      BY <2>2, <3>2 DEF Makes, LifeSet, Buses
    <3>3. CASE bus' # bus /\ ChangesBus(c, HandlersBus(c))
      <4>1. ~SetsCapture(c, HandlersBus(c)) /\ ~Erases(c, HandlersBus(c))
        BY <1>9, <3>3 DEF SetsCapture, Erases
      <4>2. CASE b = HandlersBus(c)
        BY <2>2, <3>3, <4>1, <4>2 DEF ChangesBus, DropsRecorder, TakesRecorder, DropsSink,
           TakesSink, SetsSubscriber, RecorderSet, SinkSet, SubscriberSet
      <4>3. CASE b # HandlersBus(c)
        BY <2>2, <3>3, <4>1, <4>3 DEF ChangesBus, DropsRecorder, TakesRecorder, DropsSink,
           TakesSink, SetsSubscriber, RecorderSet, SinkSet, SubscriberSet, Buses
      <4> QED
        BY <4>2, <4>3
    <3> QED
      BY <3>1, <3>2, <3>3, HandlerObjects
  <2> QED
    BY <1>1, <1>2, <2>1, <2>2, CapturesKept
<1> QED
  BY <1>6, <1>7, <1>8, <1>9

\* Until main begins to tear the daemon down it leaves these alone.
LEMMA MainLeaves ==
  ASSUME TypeOK, Main, Up, ~TearingDown'
  PROVE  /\ ~TearingDown
         /\ UNCHANGED <<gmtx, reg, bus, sinkSt, cap, rp, conn, send, owed>>
         /\ ~MainDestroySched
<1> USE DEF objVars, pipeVars, runVars
<1>1. NoLam \in Lambdas
  BY DEF NoLam, Lambdas
<1>2. CASE MainDestroySched \/ MainDestroyBus \/ MainExit
  <2>1. main'.at \in {"teardown", "exited"}
    BY <1>1, <1>2, MainAt DEF MainDestroySched, MainDestroyBus, MainExit
  <2> QED
    BY <2>1 DEF TearingDown
<1>3. ASSUME NEW b \in BusIds, MainDestroySink(b)
      PROVE  FALSE
  <2>1. main'.at = "join"
    BY <1>3 DEF MainDestroySink, MainGoto
  <2> QED
    BY <2>1 DEF TearingDown
<1>4. CASE MainClose
  <2>1. main'.at = "exit"
    BY <1>1, <1>4, MainAt DEF MainClose
  <2> QED
    BY <1>4, <2>1 DEF MainClose, MainDestroySched, TearingDown
<1>5. CASE \/ MainCheck \/ (\E D \in SUBSET pend : MainDrain(D)) \/ (\E l \in ready : MainNext(l))
           \/ MainRecord \/ MainSub \/ MainWrite
  BY <1>5 DEF MainCheck, MainDrain, MainNext, MainRecord, MainSub, MainWrite, MainDestroySched,
              TearingDown
<1> QED
  BY <1>2, <1>3, <1>4, <1>5 DEF Main

\* Steps of any other thread leave the objects and the handlers alone.
OtherStep ==
    \/ Up /\ Main
    \/ \E c \in Clients : ClientRead(c) \/ ClientClose(c)
    \/ \E t \in Senders : Sending(t)
    \/ \E k \in CapIds : CapThread(k)
    \/ \E r \in Replays : ReplayFrame(r) \/ ReplayEnd(r)

LEMMA OthersLeave ==
  ASSUME TypeOK, Refers, OtherStep, ~TearingDown'
  PROVE  /\ UNCHANGED <<gmtx, reg, bus, sinkSt, conn>>
         /\ recSt' = recSt \/ (Up /\ Main)
         /\ ~TearingDown
<1> USE DEF objVars, pipeVars, runVars
<1>1. CASE Up /\ Main
  BY <1>1, MainLeaves
<1>2. CASE \/ \E c \in Clients : ClientRead(c) \/ ClientClose(c)
           \/ \E t \in Senders : Sending(t)
           \/ \E r \in Replays : ReplayFrame(r) \/ ReplayEnd(r)
  BY <1>2 DEF ClientRead, ClientClose, Sending, SendSnap, SendFwd, SendPost, ReplayFrame,
              ReplayEnd, TearingDown
<1>3. CASE \E k \in CapIds : CapThread(k)
  BY <1>3, CaptureLeaves DEF Refers, TearingDown
<1> QED
  BY <1>1, <1>2, <1>3 DEF OtherStep

LEMMA OtherRegistry ==
  ASSUME TypeOK, Refers, Registry, OtherStep, ~TearingDown'
  PROVE  Registry'
  BY OthersLeave DEF Registry

LEMMA OtherCaptures ==
  ASSUME TypeOK, Refers, Captures, OtherStep, ~TearingDown'
  PROVE  Captures'
<1> USE DEF objVars, pipeVars, runVars
<1>1. bus' = bus /\ FrameRefers
  BY OthersLeave DEF Refers
<1>2. ASSUME UNCHANGED <<cap, send>>
      PROVE  Captures'
  BY <1>1, <1>2, CapturesKept DEF Untouched
<1>3. CASE Up /\ Main
  BY <1>2, <1>3, MainLeaves
<1>4. CASE \/ \E c \in Clients : ClientRead(c) \/ ClientClose(c)
           \/ \E r \in Replays : ReplayEnd(r)
  BY <1>2, <1>4 DEF ClientRead, ClientClose, ReplayEnd
<1>5. ASSUME NEW r \in Replays, ReplayFrame(r)
      PROVE  Captures'
  <2>1. rp[r] \in BusIds /\ EnterSend(r, rp[r]) /\ cap' = cap
    BY <1>5 DEF ReplayFrame, TypeOK
  <2>2. \A k \in CapIds : send'[k] = send[k]
    BY <2>1, SendEntered, DaemonAssumption DEF Senders
  <2> QED
    BY <1>1, <2>1, <2>2, CapturesKept DEF Untouched
<1>6. ASSUME NEW t \in Senders, Sending(t)
      PROVE  Captures'
  <2>1. cap' = cap
    BY <1>6 DEF Sending, SendSnap, SendFwd, SendPost
  <2>2. /\ \A u \in Senders \ {t} : send'[u] = send[u]
        /\ InSend(t) /\ (send'[t].at # "out" => send'[t].bus = send[t].bus)
    BY <1>1, <1>6, SendingSteps DEF Snaps, Forwards, Posts, NoSend
  <2>3. \A k \in CapIds : InSend(k)' => InSend(k) /\ send'[k].bus = send[k].bus
    BY <2>2 DEF InSend, Senders
  <2> QED
    BY <1>1, <2>1, <2>3 DEF Captures, Working
<1>7. ASSUME NEW k \in CapIds, CapThread(k)
      PROVE  Captures'
  <2>1. /\ Working(k) /\ cap'[k].at # "none" /\ cap'[k].bus = cap[k].bus
        /\ \A j \in CapIds \ {k} : cap'[j] = cap[j]
    BY <1>1, <1>7, CaptureLeaves DEF Working
  <2>2. CASE send' = send /\ (InSend(k) => cap[k].at # "sending")
    BY <1>1, <2>1, <2>2 DEF Captures, Working, InSend
  <2>3. CASE cap'[k].at = "sending" /\ EnterSend(k, cap[k].bus)
    <3>1. cap[k].bus \in BusIds
      BY <1>1, <1>7, CaptureLeaves
    <3>2. send'[k].bus = cap[k].bus /\ \A u \in CapIds \ {k} : send'[u] = send[u]
      BY <2>3, <3>1, SendEntered DEF Senders
    <3> QED
      BY <1>1, <2>1, <2>3, <3>2 DEF Captures, Working, InSend
  <2> QED
    BY <1>1, <1>7, <2>2, <2>3, CaptureLeaves
<1> QED
  BY <1>3, <1>4, <1>5, <1>6, <1>7 DEF OtherStep

LEMMA HandlerSends ==
  ASSUME TypeOK, Mutex, Refers, Sends, NEW c \in Clients, Request(c) \/ Handler(c)
  PROVE  Sends'
<1>1. Moves(c) /\ ThreadRefers /\ \A d \in Clients \ {c} : conn'[d] = conn[d]
  BY HandlerMoves DEF Moves, Others, Refers
<1>2. CASE send' = send
  <2>1. ~InSend(c)
    <3>1. SUFFICES ASSUME InSend(c) PROVE FALSE
      OBVIOUS
    <3>2. conn[c].at = "sending"
      BY <3>1 DEF Sends
    <3>3. CASE Request(c) \/ NoSuchBus(c) \/ Look(c) \/ Create(c) \/ RecordOff(c) \/ RecordOnDetach(c)
           \/ RecordOnOpen(c) \/ SendCmd(c) \/ SendCmdReturn(c) \/ ReplayLookup(c)
           \/ ReplayStart(c) \/ CaptureStop(c) \/ CaptureStopped(c) \/ CaptureStart(c)
      BY <3>1, <3>2, <3>3 DEF Request, NoSuchBus, Look, Create, RecordOff, RecordOnDetach,
         RecordOnOpen, SendCmd, SendCmdReturn, ReplayLookup, ReplayStart, CaptureStop,
         CaptureStopped, CaptureStart, At, Locks
    <3>4. CASE ForwardReset(c) \/ ForwardStart(c) \/ StopForward(c) \/ Subscribe(c)
           \/ SubscribeAttach(c) \/ SubscribeSetCb(c) \/ Delete(c) \/ DeleteUnsub(c)
           \/ DeleteUnrecord(c) \/ DeleteErase(c) \/ Quit(c) \/ WriteReply(c) \/ ConnEnd(c)
      BY <3>2, <3>4 DEF ForwardReset, ForwardStart, StopForward, Subscribe, SubscribeAttach,
         SubscribeSetCb, Delete, DeleteUnsub, DeleteUnrecord, DeleteErase, Quit, WriteReply,
         ConnEnd, At, Locks
    <3> QED
      BY <3>3, <3>4 DEF Handler
  <2>2. ASSUME NEW d \in Clients, InSend(d)
        PROVE  d # c /\ conn'[d] = conn[d] /\ bus' = bus
    <3>1. d # c
      BY <2>1, <2>2
    <3>2. gmtx = d
      BY <2>2 DEF Sends, Mutex, Holding
    <3>3. bus' = bus
      BY <3>1, <3>2, HandlerObjects, DaemonAssumption
    <3> QED
      BY <1>1, <3>1, <3>3
  <2>3. \A d \in Clients : send[d].at = "fwd" => InSend(d)
    BY DEF InSend
  <2> QED
    BY <1>2, <2>2, <2>3 DEF Sends, InSend
<1>3. CASE send' # send
  <2> DEFINE b == reg[conn[c].name]
  <2>1. SendCmd(c) /\ b \in BusIds /\ EnterSend(c, b)
    BY <1>1, <1>3, HandlerLeaves
  <2>2. /\ send'[c].at = "snap" /\ send'[c].bus = b
        /\ \A u \in Clients \ {c} : send'[u] = send[u]
    BY <2>1, SendEntered DEF Senders
  <2>3. Locks(c, "send") /\ Goto(c, "sending") /\ bus' = bus
    BY <2>1 DEF SendCmd, objVars
  <2>4. conn'[c].at = "sending" /\ conn'[c].bus = b
    BY <1>1, <2>3, GotoMoves DEF Locks, Holding, ThreadRefers
  <2> HIDE DEF b
  <2> QED
    BY <1>1, <2>2, <2>3, <2>4 DEF Sends, InSend
<1> QED
  BY <1>2, <1>3

LEMMA OtherSends ==
  ASSUME TypeOK, Refers, Sends, OtherStep, ~TearingDown'
  PROVE  Sends'
<1> USE DEF objVars, pipeVars, runVars
<1>1. bus' = bus /\ conn' = conn /\ FrameRefers
  BY OthersLeave DEF Refers
<1>2. ASSUME \A c \in Clients : send'[c] = send[c]
      PROVE  Sends'
  BY <1>1, <1>2 DEF Sends, InSend
<1>3. CASE Up /\ Main
  BY <1>2, <1>3, MainLeaves
<1>4. CASE \/ \E c \in Clients : ClientRead(c) \/ ClientClose(c)
           \/ \E r \in Replays : ReplayEnd(r)
  BY <1>2, <1>4 DEF ClientRead, ClientClose, ReplayEnd
<1>5. ASSUME NEW r \in Replays, ReplayFrame(r)
      PROVE  Sends'
  <2>1. rp[r] \in BusIds /\ EnterSend(r, rp[r])
    BY <1>5 DEF ReplayFrame, TypeOK
  <2> QED
    BY <1>2, <2>1, SendEntered, DaemonAssumption DEF Senders
<1>6. ASSUME NEW k \in CapIds, CapThread(k)
      PROVE  Sends'
  <2>1. CASE send' = send
    BY <1>2, <2>1
  <2>2. CASE send' # send
    <3>1. cap[k].bus \in BusIds /\ EnterSend(k, cap[k].bus)
      BY <1>1, <1>6, <2>2, CaptureLeaves
    <3> QED
      BY <1>2, <3>1, SendEntered, DaemonAssumption DEF Senders
  <2> QED
    BY <2>1, <2>2
<1>7. ASSUME NEW t \in Senders, Sending(t)
      PROVE  Sends'
  <2>1. /\ \A u \in Senders \ {t} : send'[u] = send[u]
        /\ InSend(t) /\ (send'[t].at # "out" => send'[t].bus = send[t].bus)
        /\ send'[t].at = "fwd" => send'[t].fwd # None /\ send'[t].fwd = bus[send[t].bus].fwdCb
    BY <1>1, <1>7, SendingSteps DEF Snaps, Forwards, Posts, NoSend
  <2>2. ASSUME NEW c \in Clients
        PROVE  /\ InSend(c)' => InSend(c) /\ send'[c].bus = send[c].bus
               /\ send'[c].at = "fwd" => /\ send'[c].fwd # None
                                         /\ send'[c].fwd = bus[send'[c].bus].fwdCb
    <3>1. CASE c = t
      BY <2>1, <3>1 DEF InSend
    <3>2. CASE c # t
      BY <2>1, <3>2 DEF InSend, Senders, Sends
    <3> QED
      BY <3>1, <3>2
  <2> QED
    BY <1>1, <2>2 DEF Sends
<1> QED
  BY <1>3, <1>4, <1>5, <1>6, <1>7 DEF OtherStep

-----------------------------------------------------------------------------
(* Callbacks, sinks and subscribers.                                        *)

Owners(b) ==
    /\ bus[b].recCb = bus[b].rec /\ bus[b].fwdCb = bus[b].sink
    /\ bus[b].life # "live" => bus[b].sink = None /\ bus[b].rec = None
SinkOf(b) ==
    /\ bus[b].sink # None => sinkSt[bus[b].sink] = "live"
    /\ \A a \in BusIds : bus[a].sink = bus[b].sink /\ bus[a].sink # None => a = b
SubscriberOf(b) ==
    /\ bus[b].life # "live" => pipe[b] = None
    /\ pipe[b] # None /\ bus[b].life = "live" /\ ~bus[b].subCb =>
         \E c \in Clients : conn[c].at \in {"setcb", "unsub"} /\ conn[c].bus = b

LEMMA EntriesParts == Entries <=> \A b \in BusIds : Owners(b) /\ SinkOf(b) /\ SubscriberOf(b)
  BY DEF Entries, Owners, SinkOf, SubscriberOf

LEMMA LiveBus ==
  ASSUME TypeOK, Refers, Registry, NEW c \in Clients, ChangesBus(c, HandlersBus(c))
  PROVE  bus[HandlersBus(c)].life = "live" /\ HandlersBus(c) \in BusIds
<1>1. conn[c].at \in Holding \union {"lock"} /\ conn[c].name \in Names
  BY DEF ChangesBus, Refers, ThreadRefers
<1>2. HandlersBus(c) \in BusIds /\ HandlersBus(c) = reg[conn[c].name]
  BY <1>1 DEF ChangesBus, HandlersBus, Registry
<1> QED
  BY <1>1, <1>2, DaemonAssumption DEF Registry

LEMMA HandlerOwners ==
  ASSUME TypeOK, Mutex, Refers, Registry, NEW c \in Clients, Request(c) \/ Handler(c),
         NEW b \in BusIds, Owners(b)
  PROVE  Owners(b)'
<1>1. CASE bus' = bus
  BY <1>1 DEF Owners
<1>2. CASE Makes(c)
  BY <1>2 DEF Makes, LifeSet, Buses, Owners
<1>3. CASE ChangesBus(c, HandlersBus(c))
  <2> DEFINE h == HandlersBus(c)
  <2>1. h \in BusIds /\ bus[h].life = "live"
    BY <1>3, LiveBus
  <2>2. \/ DropsRecorder(h) \/ TakesRecorder(h) \/ DropsSink(h) \/ TakesSink(c, h)
        \/ SetsCapture(c, h) \/ SetsSubscriber(c, h) \/ Erases(c, h)
    BY <1>3 DEF ChangesBus
  <2> HIDE DEF h
  <2>3. CASE b # h
    <3>1. bus'[b] = bus[b]
      BY <2>1, <2>2, <2>3 DEF DropsRecorder, TakesRecorder, DropsSink, TakesSink, SetsCapture,
         SetsSubscriber, Erases, RecorderSet, SinkSet, CaptureSet, SubscriberSet, LifeSet, Buses
    <3> QED
      BY <3>1 DEF Owners
  <2>4. CASE b = h
    <3>1. CASE DropsRecorder(h) \/ TakesRecorder(h)
      BY <2>1, <2>4, <3>1 DEF DropsRecorder, TakesRecorder, RecorderSet, Owners
    <3>2. CASE DropsSink(h) \/ TakesSink(c, h)
      BY <2>1, <2>4, <3>2 DEF DropsSink, TakesSink, SinkSet, Owners
    <3>3. CASE SetsCapture(c, h) \/ SetsSubscriber(c, h)
      BY <2>1, <2>4, <3>3 DEF SetsCapture, SetsSubscriber, CaptureSet, SubscriberSet, Owners
    <3>4. CASE Erases(c, h)
      BY <2>1, <2>4, <3>4 DEF Erases, LifeSet, Owners
    <3> QED
      BY <2>2, <3>1, <3>2, <3>3, <3>4
  <2> QED
    BY <2>3, <2>4
<1> QED
  BY <1>1, <1>2, <1>3, HandlerObjects

LEMMA HandlerSinks ==
  ASSUME TypeOK, Mutex, Refers, NEW c \in Clients, Request(c) \/ Handler(c),
         \A b \in BusIds : SinkOf(b)
  PROVE  \A b \in BusIds : SinkOf(b)'
\* A bus keeps its sink and the sink its state, or the sink is dropped or new.
<1>1. ASSUME sinkSt' = sinkSt, \A b \in BusIds : bus'[b].sink = bus[b].sink \/ bus'[b].sink = None
      PROVE  \A b \in BusIds : SinkOf(b)'
  BY <1>1 DEF SinkOf
<1>2. CASE UNCHANGED <<reg, bus, recSt, sinkSt>>
  BY <1>1, <1>2
<1>3. CASE Makes(c)
  <2>1. sinkSt' = sinkSt /\ \A b \in BusIds : bus'[b].sink = bus[b].sink \/ bus'[b].sink = None
    BY <1>3 DEF Makes, LifeSet, Buses
  <2> QED
    BY <1>1, <2>1
<1>4. CASE ChangesBus(c, HandlersBus(c))
  <2> DEFINE h == HandlersBus(c)
  <2>1. /\ h \in BusIds
        /\ \/ DropsRecorder(h) \/ TakesRecorder(h) \/ DropsSink(h) \/ TakesSink(c, h)
           \/ SetsCapture(c, h) \/ SetsSubscriber(c, h) \/ Erases(c, h)
    BY <1>4 DEF ChangesBus
  <2>2. bus[h].sink \in SinkIds \union {None} /\ \A b \in BusIds : bus[b].sink \in SinkIds \union {None}
    BY <2>1 DEF TypeOK, BusStates
  <2> HIDE DEF h
  <2>3. CASE DropsRecorder(h) \/ TakesRecorder(h) \/ SetsCapture(c, h) \/ SetsSubscriber(c, h)
    <3>1. sinkSt' = sinkSt
      BY <2>3 DEF DropsRecorder, TakesRecorder, SetsCapture, SetsSubscriber
    <3>2. bus'[h].sink = bus[h].sink /\ \A b \in BusIds \ {h} : bus'[b] = bus[b]
      BY <2>3 DEF DropsRecorder, TakesRecorder, SetsCapture, SetsSubscriber, RecorderSet,
         CaptureSet, SubscriberSet, Buses
    <3> QED
      BY <1>1, <3>1, <3>2
  <2>4. CASE DropsSink(h) \/ Erases(c, h)
    <3>1. bus'[h].sink = None /\ \A b \in BusIds \ {h} : bus'[b] = bus[b]
      BY <2>4 DEF DropsSink, Erases, SinkSet, LifeSet, Buses
    <3>2. \A s \in SinkIds \ {bus[h].sink} : sinkSt'[s] = sinkSt[s]
      BY <2>2, <2>4, SinkFreed DEF DropsSink, Erases
    <3>3. \A b \in BusIds \ {h} : bus[b].sink # None => bus[b].sink # bus[h].sink
      BY <2>1 DEF SinkOf
    <3> QED
      BY <2>1, <2>2, <3>1, <3>2, <3>3 DEF SinkOf
  <2>5. CASE TakesSink(c, h)
    <3>1. PICK s \in SinkIds : /\ sinkSt[s] = "none" /\ sinkSt' = [sinkSt EXCEPT ![s] = "live"]
                               /\ SinkSet(h, s)
      BY <2>5 DEF TakesSink
    <3>2. bus'[h].sink = s /\ \A b \in BusIds \ {h} : bus'[b] = bus[b]
      BY <3>1 DEF SinkSet, Buses
    <3>3. \A b \in BusIds : bus[b].sink # s
      BY <3>1, DaemonAssumption DEF SinkOf
    <3>4. sinkSt'[s] = "live" /\ \A r \in SinkIds \ {s} : sinkSt'[r] = sinkSt[r]
      BY <3>1 DEF TypeOK
    <3> QED
      BY <2>1, <2>2, <3>2, <3>3, <3>4 DEF SinkOf
  <2> QED
    BY <2>1, <2>3, <2>4, <2>5
<1> QED
  BY <1>2, <1>3, <1>4, HandlerObjects

LEMMA HandlerDeletes ==
  ASSUME TypeOK, Mutex, Refers, Deletes, NEW c \in Clients, Request(c) \/ Handler(c)
  PROVE  Deletes'
<1> USE DEF objVars, pipeVars, runVars
<1> DEFINE Past(d) == conn[d].at = "unrec" \/ (conn[d].at = "join" /\ conn[d].cmd = "delete")
<1>1. Moves(c) /\ ThreadRefers /\ \A d \in Clients \ {c} : conn'[d] = conn[d]
  BY HandlerMoves DEF Moves, Others, Refers
<1>2. \A d \in Clients : Past(d) => gmtx = d /\ conn[d].bus \in BusIds
  BY <1>1 DEF Mutex, Holding, ThreadRefers
<1>3. CASE DeleteUnsub(c)
  <2>1. /\ gmtx = c /\ conn[c].bus \in BusIds /\ conn[c].at = "unsub"
        /\ pipe' = [pipe EXCEPT ![conn[c].bus] = None] /\ conn' = [conn EXCEPT ![c].at = "unrec"]
    BY <1>1, <1>3 DEF DeleteUnsub, At, Mutex, Holding, ThreadRefers
  <2>2. conn'[c].bus = conn[c].bus
    BY <2>1, StepMoves DEF Holding
  <2>3. pipe'[conn[c].bus] = None
    BY <2>1 DEF TypeOK
  <2>4. \A d \in Clients \ {c} : ~Past(d)'
    BY <1>1, <1>2, <2>1
  <2> QED
    BY <2>2, <2>3, <2>4 DEF Deletes
<1>4. CASE SubscribeAttach(c)
  <2>1. gmtx = c /\ conn' = [conn EXCEPT ![c].at = "setcb"]
    BY <1>4 DEF SubscribeAttach, At, Mutex, Holding
  <2>2. conn'[c].at = "setcb"
    BY <2>1, StepMoves DEF Holding
  <2>3. \A d \in Clients \ {c} : ~Past(d)'
    BY <1>1, <1>2, <2>1
  <2> QED
    BY <2>2, <2>3 DEF Deletes
<1>5. CASE pipe' = pipe /\ ~SubscribeAttach(c) /\ ~DeleteUnsub(c)
  <2>1. Past(c)' => Past(c) /\ conn'[c].bus = conn[c].bus
    <3>1. CASE DeleteUnrecord(c)
      <4>1. conn[c].at = "unrec" /\ conn' = [conn EXCEPT ![c].at = "join"]
        BY <3>1 DEF DeleteUnrecord, At
      <4> QED
        BY <4>1, StepMoves DEF Holding
    <3>2. CASE CaptureStop(c)
      <4>1. PICK cmd \in Capturing \union {"stop-capture"} : Locks(c, cmd)
        BY <3>2 DEF CaptureStop
      <4>2. Goto(c, "join") /\ conn[c].cmd # "delete" /\ conn[c].name \in Names
        BY <1>1, <3>2, <4>1 DEF CaptureStop, Locks, Capturing, ThreadRefers
      <4>3. conn'[c].at = "join" /\ conn'[c].cmd = conn[c].cmd
        BY <4>1, <4>2, GotoMoves DEF Holding, Keeps
      <4> QED
        BY <4>2, <4>3
    <3>3. CASE RecordOnDetach(c) \/ SendCmd(c) \/ ForwardReset(c) \/ Subscribe(c) \/ Delete(c)
      <4>1. PICK s \in Holding \ {"unrec", "join"} : Goto(c, s)
        BY <3>3 DEF RecordOnDetach, SendCmd, ForwardReset, Subscribe, Delete, Holding
      <4>2. PICK cmd : Locks(c, cmd)
        BY <3>3 DEF RecordOnDetach, SendCmd, ForwardReset, Subscribe, Delete
      <4>3. conn[c].name \in Names
        BY <1>1, <4>2 DEF Locks, ThreadRefers
      <4>4. conn'[c].at = s
        BY <4>1, <4>2, <4>3, GotoMoves
      <4> QED
        BY <4>1, <4>4
    <3>4. CASE Answers(c) \/ Aside(c) \/ SubscribeSetCb(c)
      BY <3>4 DEF Answers, Aside, SubscribeSetCb, Holding, TypeOK, ConnStates
    <3>5. CASE Enters(c) \/ Advances(c)
      <4>1. conn'[c].at \in Holding
        BY <3>5 DEF Enters, Advances
      <4>2. ASSUME NEW r, Reply(c, r), r \in {"OK", "ERR"} PROVE FALSE
        BY <4>1, <4>2, ReplyMoves DEF Holding
      <4>3. CASE NoSuchBus(c) \/ Look(c) \/ Create(c) \/ RecordOff(c) \/ StopForward(c)
             \/ RecordOnOpen(c) \/ SendCmdReturn(c) \/ CaptureStopped(c) \/ CaptureStart(c)
             \/ ForwardStart(c) \/ DeleteErase(c)
        BY <4>2, <4>3 DEF NoSuchBus, Look, Create, RecordOff, StopForward, RecordOnOpen,
           SendCmdReturn, CaptureStopped, CaptureStart, ForwardStart, DeleteErase
      <4>4. CASE Request(c) \/ Quit(c) \/ ReplayStart(c) \/ ReplayLookup(c) \/ WriteReply(c)
                 \/ ConnEnd(c)
        <5>1. gmtx' = gmtx /\ conn[c].at \notin Holding
          BY <4>4 DEF Request, Quit, ReplayStart, ReplayLookup, WriteReply, ConnEnd, At, Locks,
             Holding
        <5>2. Mutex'
          BY <1>1, MovesKeepMutex
        <5> QED
          BY <4>1, <5>1, <5>2 DEF Mutex
      <4> QED
        BY <1>5, <3>1, <3>2, <3>3, <3>4, <4>3, <4>4 DEF Handler
    <3> QED
      BY <1>1, <3>4, <3>5 DEF Moves
  <2> QED
    BY <1>1, <1>5, <2>1 DEF Deletes
<1> QED
  BY <1>3, <1>4, <1>5, HandlerPipes

LEMMA HandlerSubscribers ==
  ASSUME TypeOK, Mutex, Refers, Registry, Deletes, NEW c \in Clients, Request(c) \/ Handler(c),
         \A b \in BusIds : SubscriberOf(b)
  PROVE  \A b \in BusIds : SubscriberOf(b)'
<1> USE DEF objVars, pipeVars, runVars
<1>1. /\ Moves(c) /\ ThreadRefers /\ \A d \in Clients \ {c} : conn'[d] = conn[d]
      /\ conn \in [Clients -> ConnStates] /\ pipe \in [BusIds -> Clients \union {None}]
  BY HandlerMoves DEF Moves, Others, Refers, TypeOK
<1>2. \A d \in Clients : conn[d].at \in Holding => gmtx = d
  BY DEF Mutex
<1>3. CASE SubscribeAttach(c) \/ DeleteUnsub(c)
  <2> PICK b \in BusIds : b = conn[c].bus
    BY <1>1, <1>3 DEF SubscribeAttach, DeleteUnsub, At, Holding, ThreadRefers
  <2>1. conn[c].at \in {"attach", "unsub"} /\ gmtx = c /\ bus' = bus /\ conn[c].name \in Names
    BY <1>1, <1>2, <1>3 DEF SubscribeAttach, DeleteUnsub, At, Holding, ThreadRefers
  <2>2. bus[b].life = "live"
    BY <2>1, DaemonAssumption DEF Registry, Holding
  <2>3. ASSUME NEW a \in BusIds, a # b
        PROVE  SubscriberOf(a)'
    <3>1. pipe'[a] = pipe[a]
      BY <1>1, <1>3, <2>3 DEF SubscribeAttach, DeleteUnsub
    <3>2. \A d \in Clients : conn[d].at \in {"setcb", "unsub"} => conn[d].bus # a
      BY <1>2, <2>1, <2>3 DEF Holding
    <3> QED
      BY <2>1, <3>1, <3>2 DEF SubscriberOf
  <2>4. SubscriberOf(b)'
    <3>1. CASE SubscribeAttach(c)
      <4>1. conn' = [conn EXCEPT ![c].at = "setcb"]
        BY <3>1 DEF SubscribeAttach
      <4>2. conn'[c].at = "setcb" /\ conn'[c].bus = conn[c].bus
        BY <4>1, StepMoves DEF Holding
      <4> QED
        BY <2>1, <2>2, <4>2 DEF SubscriberOf
    <3>2. CASE DeleteUnsub(c)
      <4>1. pipe'[b] = None
        BY <1>1, <2>1, <3>2 DEF DeleteUnsub
      <4> QED
        BY <4>1 DEF SubscriberOf
    <3> QED
      BY <1>3, <3>1, <3>2
  <2> QED
    BY <2>3, <2>4
<1>4. CASE pipe' = pipe /\ ~SubscribeAttach(c) /\ ~DeleteUnsub(c)
  \* Away from the handler's own bus nothing changes.
  <2>1. ASSUME NEW a \in BusIds, bus'[a].life = bus[a].life, bus'[a].subCb = bus[a].subCb,
               SubscribeSetCb(c) => conn[c].bus # a
        PROVE  SubscriberOf(a)'
    <3>1. ASSUME NEW d \in Clients, conn[d].at \in {"setcb", "unsub"}, conn[d].bus = a
          PROVE  conn'[d] = conn[d]
      <4>1. CASE d # c
        BY <1>1, <4>1
      <4>2. CASE d = c
        <5>1. CASE Request(c) \/ NoSuchBus(c) \/ Look(c) \/ Create(c) \/ RecordOff(c)
                   \/ RecordOnDetach(c) \/ RecordOnOpen(c) \/ SendCmd(c) \/ SendCmdReturn(c)
                   \/ ReplayLookup(c) \/ ReplayStart(c) \/ CaptureStop(c) \/ CaptureStopped(c)
                   \/ CaptureStart(c)
          BY <3>1, <4>2, <5>1 DEF Request, NoSuchBus, Look, Create, RecordOff, RecordOnDetach,
             RecordOnOpen, SendCmd, SendCmdReturn, ReplayLookup, ReplayStart, CaptureStop,
             CaptureStopped, CaptureStart, At, Locks
        <5>2. CASE ForwardReset(c) \/ ForwardStart(c) \/ StopForward(c) \/ Subscribe(c)
                   \/ SubscribeSetCb(c) \/ Delete(c)
                   \/ DeleteUnrecord(c) \/ DeleteErase(c) \/ Quit(c) \/ WriteReply(c) \/ ConnEnd(c)
          BY <2>1, <3>1, <4>2, <5>2 DEF ForwardReset, ForwardStart, StopForward, Subscribe,
             Delete, DeleteUnrecord, DeleteErase, Quit, WriteReply, ConnEnd, At, Locks
        <5> QED
          BY <1>4, <5>1, <5>2 DEF Handler
      <4> QED
        BY <4>1, <4>2
    <3> QED
      BY <1>4, <2>1, <3>1 DEF SubscriberOf
  <2>2. CASE bus' = bus
    <3>1. ~SubscribeSetCb(c) \/ bus' = bus
      BY <2>2
    <3>2. ASSUME NEW a \in BusIds
          PROVE  SubscriberOf(a)'
      <4>1. CASE SubscribeSetCb(c) /\ conn[c].bus = a
        <5>1. bus'[a].subCb = TRUE
          BY <4>1 DEF SubscribeSetCb, TypeOK, BusStates
        <5> QED
          BY <1>4, <2>2, <5>1 DEF SubscriberOf
      <4>2. CASE ~(SubscribeSetCb(c) /\ conn[c].bus = a)
        BY <2>1, <2>2, <4>2
      <4> QED
        BY <4>1, <4>2
    <3> QED
      BY <3>2
  <2>3. CASE Makes(c)
    <3>1. PICK n \in BusIds : bus[n].life = "none" /\ LifeSet(n, "live")
      BY <2>3 DEF Makes
    <3>2. bus'[n].life = "live" /\ pipe[n] = None /\ \A a \in BusIds \ {n} : bus'[a] = bus[a]
      BY <3>1 DEF LifeSet, Buses, SubscriberOf
    <3>3. SubscriberOf(n)'
      BY <1>4, <3>2 DEF SubscriberOf
    <3>4. ~SubscribeSetCb(c)
      BY <2>3 DEF Makes, SubscribeSetCb, At
    <3> QED
      BY <2>1, <3>2, <3>3, <3>4
  <2>4. CASE ChangesBus(c, HandlersBus(c)) /\ bus' # bus
    <3> PICK h \in BusIds : h = HandlersBus(c)
      BY <2>4 DEF ChangesBus
    <3>1. /\ bus[h].life = "live"
          /\ \/ DropsRecorder(h) \/ TakesRecorder(h) \/ DropsSink(h) \/ TakesSink(c, h)
             \/ SetsCapture(c, h) \/ SetsSubscriber(c, h) \/ Erases(c, h)
      BY <2>4, LiveBus DEF ChangesBus
    <3>2. conn[c].at # "lock" => h = conn[c].bus
      BY DEF HandlersBus
    <3>3. SubscribeSetCb(c) => conn[c].bus = h
      BY <3>2 DEF SubscribeSetCb, At
    <3>4. Erases(c, h) => pipe[h] = None
      BY <3>2 DEF Erases, DeleteErase, At, Deletes
    <3>5. Delete(c) => gmtx = None /\ conn'[c].at = "unsub" /\ conn'[c].bus = h
      <4>1. Delete(c) => Locks(c, "delete") /\ Goto(c, "unsub")
        BY DEF Delete
      <4>2. Locks(c, "delete") => conn[c].name \in Names /\ conn[c].at = "lock" /\ gmtx = None
        BY <1>1 DEF Locks, ThreadRefers
      <4> QED
        BY <4>1, <4>2, GotoMoves DEF Holding, HandlersBus
    <3>6. \A a \in BusIds \ {h} : bus'[a] = bus[a]
      BY <3>1 DEF DropsRecorder, TakesRecorder, DropsSink, TakesSink, SetsCapture,
         SetsSubscriber, Erases, RecorderSet, SinkSet, CaptureSet, SubscriberSet, LifeSet, Buses
    <3>7. \A a \in BusIds \ {h} : SubscriberOf(a)'
      BY <2>1, <3>3, <3>6
    <3>8. SubscriberOf(h)'
      <4>1. CASE DropsRecorder(h) \/ TakesRecorder(h) \/ DropsSink(h) \/ TakesSink(c, h)
                 \/ SetsCapture(c, h)
        <5>1. bus'[h].life = bus[h].life /\ bus'[h].subCb = bus[h].subCb
          BY <4>1 DEF DropsRecorder, TakesRecorder, DropsSink, TakesSink, SetsCapture, RecorderSet,
             SinkSet, CaptureSet
        <5>2. CASE SubscribeSetCb(c)
          <6>1. bus'[h].subCb = TRUE
            BY <1>1, <3>1, <3>3, <5>2 DEF SubscribeSetCb, TypeOK, BusStates
          <6> QED
            BY <1>4, <3>1, <5>1, <6>1 DEF SubscriberOf
        <5>3. CASE ~SubscribeSetCb(c)
          BY <2>1, <3>1, <5>1, <5>3
        <5> QED
          BY <5>2, <5>3
      <4>2. CASE SetsSubscriber(c, h) /\ SubscriberSet(h, TRUE)
        BY <1>4, <3>1, <4>2 DEF SubscriberSet, SubscriberOf
      <4>3. CASE SetsSubscriber(c, h) /\ Delete(c) /\ SubscriberSet(h, FALSE)
        BY <1>4, <3>1, <3>5, <4>3 DEF SubscriberSet, SubscriberOf
      <4>4. CASE Erases(c, h)
        BY <1>4, <3>4, <4>4 DEF Erases, LifeSet, SubscriberOf
      <4> QED
        BY <3>1, <4>1, <4>2, <4>3, <4>4 DEF SetsSubscriber
    <3> QED
      BY <3>7, <3>8
  <2> QED
    BY <2>2, <2>3, <2>4, HandlerObjects
<1> QED
  BY <1>3, <1>4, HandlerPipes

LEMMA HandlerEntries ==
  ASSUME TypeOK, Mutex, Refers, Registry, Deletes, Entries, NEW c \in Clients,
         Request(c) \/ Handler(c)
  PROVE  Entries'
<1>1. \A b \in BusIds : Owners(b) /\ SinkOf(b) /\ SubscriberOf(b)
  BY EntriesParts
<1>2. \A b \in BusIds : Owners(b)'
  BY <1>1, HandlerOwners
<1>3. \A b \in BusIds : SinkOf(b)'
  BY <1>1, HandlerSinks
<1>4. \A b \in BusIds : SubscriberOf(b)'
  BY <1>1, HandlerSubscribers
<1> QED
  BY <1>2, <1>3, <1>4 DEF Entries, Owners, SinkOf, SubscriberOf

\* Only a forward-udp that has dropped its bus's sink waits to start a new one.
LEMMA OnlyForwardStarts ==
  ASSUME TypeOK, Mutex, Refers, NEW c \in Clients, Request(c) \/ Handler(c),
         conn'[c].at = "start"
  PROVE  ForwardReset(c)
<1>1. Moves(c) /\ ThreadRefers /\ Mutex'
  BY HandlerMoves, MovesKeepMutex DEF Refers
<1>2. ASSUME NEW r \in {"OK", "ERR"}, Reply(c, r) PROVE FALSE
  BY <1>2, ReplyMoves
<1>3. CASE NoSuchBus(c) \/ Look(c) \/ Create(c) \/ RecordOff(c) \/ StopForward(c)
           \/ RecordOnOpen(c) \/ SendCmdReturn(c) \/ CaptureStopped(c) \/ CaptureStart(c)
           \/ ForwardStart(c) \/ DeleteErase(c)
  BY <1>2, <1>3 DEF NoSuchBus, Look, Create, RecordOff, StopForward, RecordOnOpen,
     SendCmdReturn, CaptureStopped, CaptureStart, ForwardStart, DeleteErase
<1>4. CASE RecordOnDetach(c) \/ SendCmd(c) \/ CaptureStop(c) \/ Subscribe(c) \/ Delete(c)
  <2>1. PICK s \in Holding \ {"start"} : Goto(c, s)
    BY <1>4 DEF RecordOnDetach, SendCmd, CaptureStop, Subscribe, Delete, Holding
  <2>2. PICK cmd : Locks(c, cmd)
    BY <1>4 DEF RecordOnDetach, SendCmd, CaptureStop, Subscribe, Delete
  <2>3. conn[c].name \in Names
    BY <1>1, <2>2 DEF Locks, ThreadRefers
  <2> QED
    BY <2>1, <2>2, <2>3, GotoMoves
<1>5. CASE SubscribeAttach(c) \/ DeleteUnsub(c) \/ DeleteUnrecord(c)
  <2>1. PICK s \in Holding \ {"start"} : conn' = [conn EXCEPT ![c].at = s]
    BY <1>5 DEF SubscribeAttach, DeleteUnsub, DeleteUnrecord, Holding
  <2> QED
    BY <2>1, StepMoves
<1>6. CASE SubscribeSetCb(c)
  BY <1>6 DEF SubscribeSetCb, TypeOK, ConnStates
<1>7. CASE Request(c) \/ Quit(c) \/ ReplayStart(c) \/ ReplayLookup(c) \/ WriteReply(c)
           \/ ConnEnd(c)
  <2>1. gmtx' = gmtx /\ conn[c].at \notin Holding
    BY <1>7 DEF Request, Quit, ReplayStart, ReplayLookup, WriteReply, ConnEnd, At, Locks, Holding
  <2> QED
    BY <1>1, <2>1 DEF Mutex, Holding
<1> QED
  BY <1>3, <1>4, <1>5, <1>6, <1>7 DEF Handler

LEMMA HandlerKeepsSinks ==
  ASSUME TypeOK, Mutex, Refers, Registry, Entries, Sinks, NEW c \in Clients,
         Request(c) \/ Handler(c)
  PROVE  Sinks'
<1>1. /\ ThreadRefers /\ \A d \in Clients \ {c} : conn'[d] = conn[d]
      /\ \A d \in Clients : conn[d].at = "start" => gmtx = d /\ conn[d].bus \in BusIds
  BY HandlerMoves DEF Moves, Others, Refers, Mutex, ThreadRefers, Holding
\* A live sink keeps its bus.
<1>2. ASSUME NEW s \in SinkIds, sinkSt[s] = "live"
      PROVE  \E a \in BusIds : bus[a].life = "live" /\ bus[a].sink = s
  BY <1>2 DEF Sinks
<1>3. ASSUME NEW s \in SinkIds, sinkSt'[s] = "live"
      PROVE  \E b \in BusIds : bus'[b].life = "live" /\ bus'[b].sink = s
  <2>1. CASE UNCHANGED <<reg, bus, recSt, sinkSt>>
    BY <1>2, <1>3, <2>1
  <2>2. CASE Makes(c)
    <3>1. PICK n \in BusIds : bus[n].life = "none" /\ LifeSet(n, "live")
      BY <2>2 DEF Makes
    <3>2. sinkSt' = sinkSt /\ \A a \in BusIds \ {n} : bus'[a] = bus[a]
      BY <2>2, <3>1 DEF Makes, LifeSet, Buses
    <3>3. PICK a \in BusIds : bus[a].life = "live" /\ bus[a].sink = s
      BY <1>2, <1>3, <3>2
    <3> QED
      BY <3>1, <3>2, <3>3
  <2>3. CASE ChangesBus(c, HandlersBus(c))
    <3> PICK h \in BusIds : h = HandlersBus(c)
      BY <2>3 DEF ChangesBus
    <3>1. /\ bus[h].life = "live"
          /\ \/ DropsRecorder(h) \/ TakesRecorder(h) \/ DropsSink(h) \/ TakesSink(c, h)
             \/ SetsCapture(c, h) \/ SetsSubscriber(c, h) \/ Erases(c, h)
      BY <2>3, LiveBus DEF ChangesBus
    <3>2. CASE DropsRecorder(h) \/ TakesRecorder(h) \/ SetsCapture(c, h) \/ SetsSubscriber(c, h)
      <4>1. sinkSt' = sinkSt
        BY <3>2 DEF DropsRecorder, TakesRecorder, SetsCapture, SetsSubscriber
      <4>2. /\ bus'[h].sink = bus[h].sink /\ bus'[h].life = bus[h].life
            /\ \A b \in BusIds \ {h} : bus'[b] = bus[b]
        BY <3>2 DEF DropsRecorder, TakesRecorder, SetsCapture, SetsSubscriber, RecorderSet,
           CaptureSet, SubscriberSet, Buses
      <4>3. PICK a \in BusIds : bus[a].life = "live" /\ bus[a].sink = s
        BY <1>2, <1>3, <4>1
      <4> QED
        BY <4>2, <4>3
    <3>3. CASE DropsSink(h) \/ Erases(c, h)
      <4>1. \A b \in BusIds \ {h} : bus'[b] = bus[b]
        BY <3>3 DEF DropsSink, Erases, SinkSet, LifeSet, Buses
      <4>2. bus[h].sink \in SinkIds \union {None} /\ FreeSink(bus[h].sink) /\ s # None
        BY <3>3, DaemonAssumption DEF DropsSink, Erases, TypeOK, BusStates
      <4>3. s # bus[h].sink
        BY <1>3, <4>2 DEF FreeSink, TypeOK
      <4>4. sinkSt[s] = "live"
        BY <1>3, <4>2, <4>3, SinkFreed
      <4>5. PICK a \in BusIds : bus[a].life = "live" /\ bus[a].sink = s
        BY <1>2, <4>4
      <4> QED
        BY <4>1, <4>3, <4>5
    <3>4. CASE TakesSink(c, h)
      <4>1. PICK n \in SinkIds : sinkSt' = [sinkSt EXCEPT ![n] = "live"] /\ SinkSet(h, n)
        BY <3>4 DEF TakesSink
      <4>2. conn[c].at = "start" /\ h = conn[c].bus
        BY <3>4 DEF TakesSink, ForwardStart, At, HandlersBus
      <4>3. bus[h].sink = None
        BY <4>2 DEF Sinks
      <4>4. /\ bus'[h].sink = n /\ bus'[h].life = "live"
            /\ \A b \in BusIds \ {h} : bus'[b] = bus[b]
        BY <3>1, <4>1 DEF SinkSet, Buses
      <4>5. CASE s = n
        BY <4>4, <4>5
      <4>6. CASE s # n
        <5>1. sinkSt[s] = "live" /\ s # None
          BY <1>3, <4>1, <4>6, DaemonAssumption DEF TypeOK
        <5>2. PICK a \in BusIds : bus[a].life = "live" /\ bus[a].sink = s
          BY <1>2, <5>1
        <5> QED
          BY <4>3, <4>4, <5>1, <5>2
      <4> QED
        BY <4>5, <4>6
    <3> QED
      BY <3>1, <3>2, <3>3, <3>4
  <2> QED
    BY <2>1, <2>2, <2>3, HandlerObjects
<1>4. ASSUME NEW d \in Clients, conn'[d].at = "start"
      PROVE  bus'[conn'[d].bus].sink = None
  <2>1. CASE d = c
    <3>1. ForwardReset(c) /\ Locks(c, "forward-udp") /\ Goto(c, "start")
      BY <1>4, <2>1, OnlyForwardStarts DEF ForwardReset
    <3>2. conn[c].name \in Names
      BY <1>1, <3>1 DEF Locks, ThreadRefers
    <3> PICK b \in BusIds : b = reg[conn[c].name]
      BY <3>1, <3>2 DEF Locks, TypeOK
    <3>3. conn'[c].bus = b
      BY <3>1, <3>2, GotoMoves DEF Holding
    <3>4. bus' = [bus EXCEPT ![b] = NoSink(b)]
      BY <3>1 DEF ForwardReset
    <3>5. bus'[b].sink = None
      BY <3>4, BusChange DEF SinkSet
    <3> QED
      BY <2>1, <3>3, <3>5
  <2>2. CASE d # c
    <3>1. conn'[d] = conn[d] /\ gmtx = d
      BY <1>1, <1>4, <2>2
    <3>2. bus' = bus
      BY <2>2, <3>1, HandlerObjects, DaemonAssumption
    <3> QED
      BY <1>4, <3>1, <3>2 DEF Sinks
  <2> QED
    BY <2>1, <2>2
<1> QED
  BY <1>3, <1>4 DEF Sinks

LEMMA OtherKeepsSinks ==
  ASSUME TypeOK, Refers, Sinks, OtherStep, ~TearingDown'
  PROVE  Sinks'
<1>1. UNCHANGED <<bus, sinkSt, conn>>
  BY OthersLeave
<1> QED
  BY <1>1 DEF Sinks

\* Elsewhere a slot can only be cleared.
LEMMA OtherPipes ==
  ASSUME TypeOK, Refers, OtherStep
  PROVE  \A b \in BusIds : pipe'[b] = pipe[b] \/ pipe'[b] = None
<1> USE DEF objVars, pipeVars, runVars
<1>1. CASE MainWrite
  BY <1>1 DEF MainWrite, TypeOK
<1>2. CASE Main /\ ~MainWrite
  BY <1>2 DEF Main, MainCheck, MainDrain, MainNext, MainRecord, MainSub, MainClose,
              MainDestroySched, MainDestroySink, MainDestroyBus, MainExit
<1>3. CASE \/ \E c \in Clients : ClientRead(c) \/ ClientClose(c)
           \/ \E t \in Senders : Sending(t)
           \/ \E r \in Replays : ReplayFrame(r) \/ ReplayEnd(r)
  BY <1>3 DEF ClientRead, ClientClose, Sending, SendSnap, SendFwd, SendPost, ReplayFrame,
              ReplayEnd
<1>4. CASE \E k \in CapIds : CapThread(k)
  BY <1>4, CaptureLeaves DEF Refers
<1> QED
  BY <1>1, <1>2, <1>3, <1>4 DEF OtherStep

LEMMA OtherEntries ==
  ASSUME TypeOK, Refers, Entries, Deletes, OtherStep, ~TearingDown'
  PROVE  Entries' /\ Deletes'
<1>1. UNCHANGED <<bus, sinkSt, conn>>
  BY OthersLeave
<1>2. \A b \in BusIds : pipe'[b] = pipe[b] \/ pipe'[b] = None
  BY OtherPipes
<1>3. Deletes'
  <2>1. \A c \in Clients : conn[c].at \in {"unrec", "join"} => conn[c].bus \in BusIds
    BY DEF Refers, ThreadRefers, Holding
  <2> QED
    BY <1>1, <1>2, <2>1 DEF Deletes
<1> QED
  BY <1>1, <1>2, <1>3 DEF Entries

-----------------------------------------------------------------------------
(* Frames and recorders.                                                    *)

\* Main takes deliveries out of the heap and the batch, one at a time to a recorder, and
\* drops none that a recorder waits for unless quit was given;
Turns ==
    /\ wrote' = wrote /\ main.at # "rec"
    /\ pend' \union ready' \subseteq pend \union ready
    /\ main'.at = "rec" => main'.lam \in ready
    /\ ~shutdown => \A l \in pend \union ready :
                       \/ l.rec = None \/ l \in pend' \union ready'
                       \/ main'.at = "rec" /\ main'.lam = l
\* or it has the recorder write.
Records ==
    /\ main.at = "rec" /\ main'.at # "rec"
    /\ pend' = pend /\ ready' = ready
    /\ wrote' = IF recSt[main.lam.rec] = "open"
                THEN [wrote EXCEPT ![main.lam.rec] = @ \union {main.lam.n}] ELSE wrote

LEMMA MainTurns ==
  ASSUME TypeOK, Batch, Main
  PROVE  /\ UNCHANGED <<send, owed, shutdown>> /\ (Turns \/ Records)
         /\ main.at = "exit" => MainDestroySched
<1> USE DEF objVars, pipeVars, runVars
<1>1. main.lam \in Lambdas /\ NoLam \in Lambdas
  BY DEF TypeOK, NoLam, Lambdas
<1>2. UNCHANGED <<send, owed, shutdown>>
  BY DEF Main, MainCheck, MainDrain, MainNext, MainRecord, MainSub, MainWrite, MainClose,
         MainDestroySched, MainDestroySink, MainDestroyBus, MainExit
<1>3. main.at = "exit" => MainDestroySched
  BY DEF Main, MainCheck, MainDrain, MainNext, MainRecord, MainSub, MainWrite, MainClose,
         MainDestroySink, MainDestroyBus, MainExit
<1>4. CASE MainCheck \/ MainClose \/ MainDestroySched \/ MainDestroyBus \/ MainExit
  <2>1. PICK s \in {"closing", "drain", "exit", "teardown", "exited"} : MainGoto(s, NoLam)
    BY <1>4 DEF MainCheck, MainClose, MainDestroySched, MainDestroyBus, MainExit
  <2>2. main'.at # "rec"
    BY <1>1, <2>1, MainAt
  <2>3. /\ wrote' = wrote /\ main.at # "rec" /\ ready' = ready
        /\ pend' = pend \/ (pend' = {} /\ shutdown)
    BY <1>4 DEF MainCheck, MainClose, MainDestroySched, MainDestroyBus, MainExit, Batch
  <2> QED
    BY <1>2, <1>3, <2>2, <2>3 DEF Turns
<1>5. ASSUME NEW D \in SUBSET pend, MainDrain(D)
      PROVE  Turns
  <2>1. main'.at # "rec"
    BY <1>5, NextItems DEF MainDrain
  <2>2. ready = {} /\ wrote' = wrote /\ main.at # "rec" /\ pend' = pend \ D /\ ready' = D
    BY <1>5 DEF MainDrain, Batch
  <2> QED
    BY <2>1, <2>2 DEF Turns
<1>6. ASSUME NEW l \in ready, MainNext(l)
      PROVE  Turns
  <2>1. /\ l \in Lambdas /\ Deliver(l, ready') /\ wrote' = wrote /\ main.at # "rec"
        /\ pend' = pend /\ ready' = ready \ {l}
    BY <1>6 DEF MainNext, TypeOK
  <2>2. main'.at = "rec" <=> l.rec # None
    BY <2>1, Delivered
  <2>3. main'.at = "rec" => main'.lam = l
    BY <2>1, Delivered
  <2> QED
    BY <2>1, <2>2, <2>3 DEF Turns
<1>7. CASE MainRecord
  <2> DEFINE l == [main.lam EXCEPT !.rec = None]
  <2>1. l \in Lambdas /\ l.rec = None
    BY <1>1 DEF Lambdas
  <2>2. Deliver(l, ready)
    BY <1>7 DEF MainRecord
  <2> HIDE DEF l
  <2>3. main'.at # "rec"
    BY <2>1, <2>2, Delivered
  <2>4. Records
    BY <1>7, <2>3 DEF MainRecord, Records
  <2> QED
    BY <1>2, <1>3, <2>4
<1>8. CASE MainSub \/ MainWrite
  <2>1. main'.at # "rec"
    <3>1. CASE NextItem(ready)
      BY <3>1, NextItems
    <3>2. CASE MainGoto("write", main.lam)
      BY <1>1, <3>2, MainAt
    <3> QED
      BY <1>8, <3>1, <3>2 DEF MainSub, MainWrite
  <2>2. wrote' = wrote /\ main.at # "rec" /\ pend' = pend /\ ready' = ready
    BY <1>8 DEF MainSub, MainWrite
  <2> QED
    BY <1>2, <1>3, <2>1, <2>2 DEF Turns
<1>9. ASSUME NEW b \in BusIds, MainDestroySink(b)
      PROVE  Turns
  <2>1. main'.at # "rec"
    BY <1>9 DEF MainDestroySink, MainGoto
  <2>2. wrote' = wrote /\ main.at # "rec" /\ pend' = pend /\ ready' = ready
    BY <1>9 DEF MainDestroySink
  <2> QED
    BY <2>1, <2>2 DEF Turns
<1> QED
  BY <1>2, <1>3, <1>4, <1>5, <1>6, <1>7, <1>8, <1>9 DEF Main

\* What any other thread does to the frames: nothing, a new one, or a step of Send.
Still == UNCHANGED <<send, owed, pend, ready, held, main, wrote>>
NewFrame(t) ==
    /\ \E b \in BusIds : EnterSend(t, b)
    /\ ~TearingDown => ~InSend(t)
    /\ UNCHANGED <<pend, ready, held, main, wrote>>
GoesOn(t) == Sending(t) /\ UNCHANGED <<ready, held, main, wrote>>

LEMMA FrameSteps ==
  ASSUME TypeOK, Refers, Steady,
         \/ \E c \in Clients : Request(c) \/ Handler(c) \/ ClientRead(c) \/ ClientClose(c)
         \/ \E t \in Senders : Sending(t)
         \/ \E k \in CapIds : CapThread(k)
         \/ \E r \in Replays : ReplayFrame(r) \/ ReplayEnd(r)
  PROVE  /\ main' = main
         /\ Still \/ \E t \in Senders : NewFrame(t) \/ GoesOn(t)
<1> USE DEF objVars, pipeVars, runVars
<1>1. FrameRefers /\ ThreadRefers
  BY DEF Refers
<1>2. ASSUME NEW c \in Clients, Request(c) \/ Handler(c)
      PROVE  main' = main /\ (Still \/ NewFrame(c))
  <2>1. /\ UNCHANGED <<pend, ready, held, main, wrote>>
        /\ \/ send' = send /\ owed' = owed
           \/ /\ SendCmd(c)
              /\ reg[conn[c].name] \in BusIds /\ EnterSend(c, reg[conn[c].name])
    BY <1>1, <1>2, HandlerLeaves
  <2>2. SendCmd(c) => conn[c].at = "lock"
    BY DEF SendCmd, Locks
  <2>3. ~TearingDown => (InSend(c) => conn[c].at = "sending")
    BY DEF Steady, Sends
  <2> QED
    BY <2>1, <2>2, <2>3 DEF Still, NewFrame
<1>3. ASSUME NEW k \in CapIds, CapThread(k)
      PROVE  main' = main /\ (Still \/ NewFrame(k))
  <2>1. /\ UNCHANGED <<pend, ready, held, main, wrote>> /\ cap[k].bus \in BusIds
    BY <1>1, <1>3, CaptureLeaves
  <2>2. CASE send' = send /\ owed' = owed
    BY <2>1, <2>2 DEF Still
  <2>3. CASE ~(send' = send /\ owed' = owed)
    <3>1. EnterSend(k, cap[k].bus)
      BY <1>1, <1>3, <2>3, CaptureLeaves
    <3>2. cap[k].at # "sending"
      BY <1>3, <2>3 DEF CapThread, CapStep, CapCheck, CapTimeout, CapRefused, CapDatagram,
         CapAccept, CapChunk, CapHangup, CapSent
    <3>3. ~TearingDown => (InSend(k) => cap[k].at = "sending")
      BY DEF Steady, Captures
    <3> QED
      BY <2>1, <3>1, <3>2, <3>3 DEF NewFrame
  <2> QED
    BY <2>2, <2>3
<1>4. ASSUME NEW r \in Replays, ReplayFrame(r)
      PROVE  main' = main /\ NewFrame(r)
  BY <1>4 DEF ReplayFrame, NewFrame, TypeOK
<1>5. ASSUME NEW t \in Senders, Sending(t)
      PROVE  main' = main /\ GoesOn(t)
  BY <1>5 DEF Sending, SendSnap, SendFwd, SendPost, GoesOn
<1>6. CASE \/ \E c \in Clients : ClientRead(c) \/ ClientClose(c)
           \/ \E r \in Replays : ReplayEnd(r)
  BY <1>6 DEF ClientRead, ClientClose, ReplayEnd, Still
<1> QED
  BY <1>2, <1>3, <1>4, <1>5, <1>6 DEF Senders

LEMMA FramesKept ==
  ASSUME TypeOK, Refers, Frames, NEW t \in Senders, NewFrame(t) \/ GoesOn(t)
  PROVE  Frames'
<1>1. FrameRefers /\ nframes \in Nat
  BY DEF Refers, TypeOK, nframes
<1>2. /\ \A u \in Senders : InSend(u) => send[u].n \in 1..nframes
      /\ \A l \in pend \union ready : l.n \in 1..nframes
      /\ main.at = "rec" => main.lam.n \in 1..nframes
  BY <1>1 DEF FrameRefers
<1>3. \A u \in Senders : send[u].at \in {"snap", "fwd", "post"} => InSend(u)
  BY DEF InSend
<1>4. CASE NewFrame(t)
  <2>1. PICK b \in BusIds : EnterSend(t, b)
    BY <1>4 DEF NewFrame
  <2>2. /\ send'[t].at = "snap" /\ send'[t].n = nframes + 1
        /\ \A u \in Senders \ {t} : send'[u] = send[u]
        /\ nframes' = nframes + 1
        /\ owed'[nframes + 1] = None /\ \A i \in 1..nframes : owed'[i] = owed[i]
    BY <2>1, SendEntered
  <2>3. pend' = pend /\ ready' = ready /\ main' = main /\ wrote' = wrote
    BY <1>4 DEF NewFrame
  <2>4. (\A u \in Senders : send[u].at \in {"fwd", "post"} => send[u].rec = owed[send[u].n])'
    BY <1>2, <1>3, <2>2 DEF Frames
  <2>5. (\A l \in pend \union ready : l.rec = owed[l.n])'
    BY <1>2, <2>2, <2>3 DEF Frames
  <2>6. (main.at = "rec" => main.lam.rec = owed[main.lam.n])'
    BY <1>2, <2>2, <2>3 DEF Frames
  <2>7. \A i \in 1..nframes : i # nframes + 1
    BY <1>1
  <2>8. \A r \in RecIds : wrote[r] \subseteq 1..nframes
    BY DEF Frames
  <2>9. ASSUME NEW u \in Senders, send'[u].at = "snap"
        PROVE  /\ owed'[send'[u].n] = None
               /\ \A v \in Senders : InSend(v)' /\ v # u => send'[v].n # send'[u].n
               /\ \A l \in pend \union ready : l.n # send'[u].n
               /\ main.at = "rec" => main.lam.n # send'[u].n
               /\ \A r \in RecIds : send'[u].n \notin wrote[r]
    <3>1. CASE u = t
      <4>1. \A v \in Senders : InSend(v)' /\ v # u => send'[v].n \in 1..nframes
        BY <1>2, <2>2, <3>1 DEF InSend
      <4> QED
        BY <1>2, <2>2, <2>7, <2>8, <3>1, <4>1
    <3>2. CASE u # t
      <4>1. send'[u] = send[u] /\ send[u].n \in 1..nframes
        BY <1>2, <1>3, <2>2, <2>9, <3>2
      <4>2. owed'[send'[u].n] = None
        BY <2>2, <2>9, <4>1 DEF Frames
      <4>3. \A v \in Senders : InSend(v)' /\ v # u => send'[v].n # send'[u].n
        BY <2>2, <2>7, <2>9, <4>1 DEF Frames, InSend
      <4> QED
        BY <2>9, <4>1, <4>2, <4>3 DEF Frames
    <3> QED
      BY <3>1, <3>2
  <2>10. \A r \in RecIds : wrote[r] \subseteq 1..nframes'
    BY <1>1, <2>2, <2>8
  <2> QED
    BY <2>3, <2>4, <2>5, <2>6, <2>9, <2>10 DEF Frames
<1>5. CASE GoesOn(t)
  <2>1. /\ \A u \in Senders \ {t} : send'[u] = send[u]
        /\ nframes' = nframes /\ InSend(t) /\ (Snaps(t) \/ Forwards(t) \/ Posts(t))
    BY <1>1, <1>5, SendingSteps DEF GoesOn
  <2>2. ready' = ready /\ main' = main /\ wrote' = wrote
    BY <1>5 DEF GoesOn
  <2>3. send'[t].at # "snap" /\ (send'[t].at # "out" => send'[t].n = send[t].n)
    BY <2>1 DEF Snaps, Forwards, Posts, NoSend
  \* Nobody else's frame has its recorder changed.
  <2>4. \A i \in 1..nframes : owed'[i] = owed[i] \/ (i = send[t].n /\ send[t].at = "snap")
    BY <2>1 DEF Snaps, Forwards, Posts
  <2>5. \A l \in pend' \union ready' :
           \/ l \in pend \union ready
           \/ l.n = send[t].n /\ l.rec = send[t].rec /\ send[t].at = "post"
    BY <2>1, <2>2 DEF Snaps, Forwards, Posts
  <2>6. ASSUME NEW u \in Senders, send'[u].at \in {"fwd", "post"}
        PROVE  send'[u].rec = owed'[send'[u].n]
    <3>1. CASE u = t
      <4>1. CASE Snaps(t)
        BY <3>1, <4>1 DEF Snaps
      <4>2. CASE Forwards(t)
        BY <3>1, <4>2 DEF Forwards, Frames
      <4>3. CASE Posts(t)
        BY <2>6, <3>1, <4>3 DEF Posts, NoSend
      <4> QED
        BY <2>1, <4>1, <4>2, <4>3
    <3>2. CASE u # t
      <4>1. send'[u] = send[u] /\ InSend(u) /\ send[u].rec = owed[send[u].n]
        BY <1>3, <2>1, <2>6, <3>2 DEF Frames
      <4>2. send[u].n # send[t].n \/ send[t].at # "snap"
        BY <3>2, <4>1 DEF Frames
      <4> QED
        BY <1>2, <2>4, <4>1, <4>2
    <3> QED
      BY <3>1, <3>2
  <2>7. ASSUME NEW l \in pend' \union ready'
        PROVE  l.rec = owed'[l.n]
    <3>1. CASE l \in pend \union ready
      <4>1. send[t].at = "snap" => l.n # send[t].n
        BY <3>1 DEF Frames
      <4> QED
        BY <1>2, <2>4, <3>1, <4>1 DEF Frames
    <3>2. CASE l.n = send[t].n /\ l.rec = send[t].rec /\ send[t].at = "post"
      <4>1. send[t].rec = owed[send[t].n]
        BY <3>2 DEF Frames
      <4> QED
        BY <1>2, <2>1, <2>4, <3>2, <4>1
    <3> QED
      BY <2>5, <3>1, <3>2
  <2>8. main.at = "rec" => main.lam.rec = owed'[main.lam.n]
    BY <1>2, <2>4 DEF Frames
  <2>9. ASSUME NEW u \in Senders, send'[u].at = "snap"
        PROVE  /\ owed'[send'[u].n] = None
               /\ \A v \in Senders : InSend(v)' /\ v # u => send'[v].n # send'[u].n
               /\ \A l \in pend' \union ready' : l.n # send'[u].n
               /\ main.at = "rec" => main.lam.n # send'[u].n
               /\ \A r \in RecIds : send'[u].n \notin wrote[r]
    <3>1. u # t /\ send'[u] = send[u] /\ InSend(u)
      BY <1>3, <2>1, <2>3, <2>9
    <3>2. send[t].n # send[u].n
      BY <2>1, <2>9, <3>1 DEF Frames
    <3>3. owed'[send'[u].n] = None
      BY <1>2, <2>4, <2>9, <3>1, <3>2 DEF Frames
    <3>4. \A v \in Senders : InSend(v)' /\ v # u => send'[v].n # send'[u].n
      BY <2>1, <2>3, <2>9, <3>1, <3>2 DEF Frames, InSend
    <3>5. \A l \in pend' \union ready' : l.n # send'[u].n
      BY <2>5, <2>9, <3>1, <3>2 DEF Frames
    <3> QED
      BY <2>9, <3>1, <3>3, <3>4, <3>5 DEF Frames
  <2> QED
    BY <2>1, <2>2, <2>6, <2>7, <2>8, <2>9 DEF Frames
<1> QED
  BY <1>4, <1>5

LEMMA MainFrames ==
  ASSUME TypeOK, Refers, Batch, Frames, Main
  PROVE  Frames'
<1>1. UNCHANGED <<send, owed>> /\ (Turns \/ Records)
  BY MainTurns
<1>2. nframes' = nframes /\ nframes \in Nat
  BY <1>1 DEF nframes, TypeOK
<1>3. CASE Turns
  <2>1. /\ wrote' = wrote /\ pend' \union ready' \subseteq pend \union ready
        /\ main'.at = "rec" => main'.lam \in pend \union ready
    BY <1>3 DEF Turns
  <2> QED
    BY <1>1, <1>2, <2>1 DEF Frames, InSend
<1>4. CASE Records
  <2>1. main.lam.n \in 1..nframes /\ main.lam.rec \in RecIds
    BY <1>4 DEF Records, Refers, FrameRefers
  <2>2. /\ main.at = "rec" /\ main'.at # "rec" /\ pend' = pend /\ ready' = ready
        /\ \A r \in RecIds : wrote'[r] \subseteq wrote[r] \union {main.lam.n}
    BY <1>4, <2>1 DEF Records, TypeOK
  <2>3. \A t \in Senders : send[t].at = "snap" =>
           \A r \in RecIds : send[t].n \notin wrote'[r]
    BY <2>2 DEF Frames
  <2>4. \A r \in RecIds : wrote'[r] \subseteq 1..nframes
    BY <2>1, <2>2 DEF Frames
  <2> QED
    BY <1>1, <1>2, <2>2, <2>3, <2>4 DEF Frames, InSend
<1> QED
  BY <1>1, <1>3, <1>4

LEMMA RecordedKept ==
  ASSUME TypeOK, Refers, Steady, Frames, Batch, RecordedOrInFlight, ~shutdown,
         NEW t \in Senders, NewFrame(t) \/ GoesOn(t)
  PROVE  RecordedOrInFlight'
<1>1. FrameRefers /\ nframes \in Nat /\ ~TearingDown
  BY DEF Refers, TypeOK, nframes, Batch
<1>2. \A n \in 1..nframes : \A r \in RecIds :
         /\ owed[n] = r /\ ~InFlight(n) => n \in wrote[r]
         /\ n \in wrote[r] => owed[n] = r
  BY DEF RecordedOrInFlight
<1>3. CASE NewFrame(t)
  <2>1. PICK b \in BusIds : EnterSend(t, b)
    BY <1>3 DEF NewFrame
  <2>2. /\ send'[t].n = nframes + 1
        /\ \A u \in Senders \ {t} : send'[u] = send[u]
        /\ nframes' = nframes + 1
        /\ owed'[nframes + 1] = None /\ \A i \in 1..nframes : owed'[i] = owed[i]
    BY <2>1, SendEntered
  <2>3. pend' = pend /\ ready' = ready /\ main' = main /\ wrote' = wrote /\ ~InSend(t)
    BY <1>1, <1>3 DEF NewFrame
  <2>4. send[t].n = 0
    BY <1>1, <2>3 DEF FrameRefers, NoSend
  <2>5. \A n \in 1..nframes : InFlight(n) => InFlight(n)'
    BY <1>1, <2>2, <2>3, <2>4 DEF InFlight
  <2>6. ASSUME NEW n \in 1..nframes', NEW r \in RecIds
        PROVE  /\ owed'[n] = r /\ ~InFlight(n)' => n \in wrote'[r]
               /\ n \in wrote'[r] => owed'[n] = r
    <3>1. CASE n \in 1..nframes
      BY <1>2, <2>2, <2>3, <2>5, <3>1
    <3>2. CASE n = nframes + 1
      <4>1. n \notin wrote'[r]
        BY <1>1, <2>3, <3>2 DEF Frames
      <4> QED
        BY <2>2, <3>2, <4>1, DaemonAssumption
    <3> QED
      BY <1>1, <2>2, <3>1, <3>2
  <2> QED
    BY <2>6 DEF RecordedOrInFlight
<1>4. CASE GoesOn(t)
  <2>1. /\ \A u \in Senders \ {t} : send'[u] = send[u]
        /\ nframes' = nframes /\ InSend(t) /\ (Snaps(t) \/ Forwards(t) \/ Posts(t))
    BY <1>1, <1>4, SendingSteps DEF GoesOn
  <2>2. ready' = ready /\ main' = main /\ wrote' = wrote
    BY <1>4 DEF GoesOn
  <2> PICK m \in Nat : m = send[t].n
    BY DEF TypeOK, CallStates
  <2>3. InFlight(m)' /\ pend \subseteq pend'
    <3>1. CASE Snaps(t) \/ Forwards(t)
      BY <2>1, <3>1 DEF Snaps, Forwards, InFlight
    <3>2. CASE Posts(t)
      <4> DEFINE l == [n |-> send[t].n, bus |-> send[t].bus, rec |-> send[t].rec, sub |-> send[t].sub]
      <4>1. l \in pend' /\ pend \subseteq pend' /\ l.n = m
        BY <3>2 DEF Posts
      <4> HIDE DEF l
      <4> QED
        BY <4>1 DEF InFlight
    <3> QED
      BY <2>1, <3>1, <3>2
  <2>4. ASSUME NEW n \in 1..nframes, InFlight(n)
        PROVE  InFlight(n)'
    <3>1. CASE n = m
      BY <2>3, <3>1
    <3>2. CASE n # m
      BY <2>1, <2>2, <2>3, <2>4, <3>2 DEF InFlight
    <3> QED
      BY <3>1, <3>2
  <2>5. ASSUME NEW n \in 1..nframes, NEW r \in RecIds
        PROVE  /\ owed'[n] = r /\ ~InFlight(n)' => n \in wrote[r]
               /\ n \in wrote[r] => owed'[n] = r
    <3>1. CASE owed'[n] = owed[n]
      BY <1>2, <2>4, <3>1
    <3>2. CASE owed'[n] # owed[n]
      <4>1. n = m /\ send[t].at = "snap"
        BY <2>1, <3>2 DEF Snaps, Forwards, Posts
      <4>2. n \notin wrote[r]
        BY <4>1 DEF Frames
      <4> QED
        BY <2>3, <4>1, <4>2
    <3> QED
      BY <3>1, <3>2
  <2> QED
    BY <2>1, <2>2, <2>5 DEF RecordedOrInFlight
<1> QED
  BY <1>3, <1>4

LEMMA MainRecorded ==
  ASSUME TypeOK, Refers, Steady, Frames, Batch, RecordedOrInFlight, ~shutdown, Main
  PROVE  RecordedOrInFlight'
<1>1. FrameRefers /\ nframes \in Nat /\ ~TearingDown /\ main.at # "exit"
  BY DEF Refers, TypeOK, nframes, Batch
<1>2. \A n \in 1..nframes : \A r \in RecIds :
         /\ owed[n] = r /\ ~InFlight(n) => n \in wrote[r]
         /\ n \in wrote[r] => owed[n] = r
  BY DEF RecordedOrInFlight
<1>3. UNCHANGED <<send, owed>> /\ (Turns \/ Records) /\ nframes' = nframes
  BY MainTurns DEF nframes
<1>4. CASE Turns
  <2>1. ASSUME NEW n \in 1..nframes, NEW r \in RecIds, owed[n] = r, InFlight(n)
        PROVE  InFlight(n)'
    <3>1. CASE \E t \in Senders : send[t].n = n
      BY <1>3, <3>1 DEF InFlight
    <3>2. CASE \E l \in pend \union ready : l.n = n
      <4>1. PICK l \in pend \union ready : l.n = n
        BY <3>2
      <4>2. l.rec # None
        BY <2>1, <4>1, DaemonAssumption DEF Frames
      <4>3. l \in pend' \union ready' \/ (main'.at = "rec" /\ main'.lam = l)
        BY <1>4, <4>2 DEF Turns
      <4> QED
        BY <4>1, <4>3 DEF InFlight
    <3> QED
      BY <1>4, <2>1, <3>1, <3>2 DEF InFlight, Turns
  <2> QED
    BY <1>2, <1>3, <1>4, <2>1 DEF RecordedOrInFlight, Turns
<1>5. CASE Records
  <2> PICK q \in RecIds, m \in 1..nframes : q = main.lam.rec /\ m = main.lam.n
    BY <1>1, <1>5 DEF FrameRefers, Records
  <2>1. main.at = "rec"
    BY <1>5 DEF Records
  <2>2. recSt[q] = "open"
    BY <1>1, <2>1, DaemonAssumption DEF Steady, Recorders, RecOpen
  <2>3. owed[m] = q
    BY <2>1 DEF Frames
  <2>4. \A r \in RecIds : wrote'[r] = IF r = q THEN wrote[r] \union {m} ELSE wrote[r]
    BY <1>5, <2>1, <2>2 DEF Records, TypeOK
  <2>5. \A n \in 1..nframes : n # m /\ InFlight(n) => InFlight(n)'
    BY <1>3, <1>5, <2>1 DEF InFlight, Records
  <2>6. ASSUME NEW n \in 1..nframes, NEW r \in RecIds
        PROVE  /\ owed[n] = r /\ ~InFlight(n)' => n \in wrote'[r]
               /\ n \in wrote'[r] => owed[n] = r
    <3>1. CASE n = m
      BY <1>2, <2>3, <2>4, <3>1
    <3>2. CASE n # m
      <4>1. n \in wrote'[r] <=> n \in wrote[r]
        BY <2>4, <3>2
      <4> QED
        BY <1>2, <2>5, <3>2, <4>1
    <3> QED
      BY <3>1, <3>2
  <2> QED
    BY <1>3, <2>6 DEF RecordedOrInFlight
<1> QED
  BY <1>3, <1>4, <1>5

LEMMA HandlerRecorders ==
  ASSUME TypeOK, Mutex, Refers, Recorders, NEW c \in Clients, Request(c) \/ Handler(c)
  PROVE  Recorders'
<1>1. /\ UNCHANGED <<pend, ready, held, main, wrote>>
      /\ \/ send' = send /\ owed' = owed
         \/ /\ SendCmd(c)
            /\ reg[conn[c].name] \in BusIds /\ EnterSend(c, reg[conn[c].name])
  BY HandlerLeaves DEF Refers
<1>2. CASE main.at = "exit"
  BY <1>1, <1>2 DEF Recorders
<1>3. CASE main.at # "exit"
  <2>1. /\ \A b \in BusIds : RecOpen(bus[b].recCb)
        /\ \A t \in Senders : RecOpen(send[t].rec)
        /\ \A l \in pend \union ready : RecOpen(l.rec)
        /\ main.at = "rec" => main.lam.rec \in held
        /\ \A r \in held : RecOpen(r)
        /\ \A l \in ready : l.rec \in held \union {None}
    BY <1>3 DEF Recorders
  <2>2. \A t \in Senders : send'[t].rec \in {send[t].rec, None}
    <3>1. CASE send' = send
      BY <3>1
    <3>2. CASE send' # send
      BY <1>1, <3>2, SendEntered DEF Senders
    <3> QED
      BY <3>1, <3>2
  \* No recorder that is still referred to is closed, and a bus may only get one that has
  \* just been opened.
  <2>3. \A r \in RecIds : recSt[r] = "open" /\ r \in HeldRecs' => recSt'[r] = "open"
    <3>1. CASE TakesRecorder(HandlersBus(c))
      BY <3>1 DEF TakesRecorder, TypeOK
    <3>2. CASE recSt' = recSt
      BY <3>2
    <3>3. CASE CloseUnheld
      BY <3>3, Closing
    <3> QED
      BY <3>1, <3>2, <3>3, HandlerObjects DEF Makes, ChangesBus, DropsRecorder, DropsSink,
         TakesSink, SetsCapture, SetsSubscriber, Erases
  <2>4. ASSUME NEW b \in BusIds
        PROVE  \/ bus'[b].recCb \in {bus[b].recCb, None}
               \/ bus'[b].recCb \in RecIds /\ recSt'[bus'[b].recCb] = "open"
    <3>1. CASE bus' = bus
      BY <3>1
    <3>2. CASE Makes(c)
      BY <3>2 DEF Makes, LifeSet, Buses
    <3>3. CASE ChangesBus(c, HandlersBus(c)) /\ b # HandlersBus(c)
      BY <3>3 DEF ChangesBus, DropsRecorder, TakesRecorder, DropsSink, TakesSink, SetsCapture,
         SetsSubscriber, Erases, RecorderSet, SinkSet, CaptureSet, SubscriberSet, LifeSet, Buses
    <3>4. CASE ChangesBus(c, b) /\ b = HandlersBus(c)
      <4>1. CASE TakesRecorder(b)
        BY <4>1 DEF TakesRecorder, RecorderSet, TypeOK
      <4>2. CASE ~TakesRecorder(b)
        BY <3>4, <4>2 DEF ChangesBus, DropsRecorder, DropsSink, TakesSink, SetsCapture,
           SetsSubscriber, Erases, RecorderSet, SinkSet, CaptureSet, SubscriberSet, LifeSet
      <4> QED
        BY <4>1, <4>2
    <3> QED
      BY <3>1, <3>2, <3>3, <3>4, HandlerObjects
  <2>5. /\ \A b \in BusIds : bus[b].recCb \in RecIds \union {None}
        /\ \A t \in Senders : send[t].rec \in RecIds \union {None}
        /\ \A l \in pend \union ready : l.rec \in RecIds \union {None}
        /\ held \in SUBSET RecIds
    BY DEF TypeOK, BusStates, CallStates, Lambdas
  <2>6. /\ \A b \in BusIds : bus'[b].recCb \in HeldRecs'
        /\ \A t \in Senders : send'[t].rec \in HeldRecs'
        /\ \A l \in pend' : l.rec \in HeldRecs'
        /\ held' \subseteq HeldRecs'
    BY DEF HeldRecs
  <2>7. ASSUME NEW r \in RecIds \union {None}, r \in HeldRecs', RecOpen(r)
        PROVE  r # None => recSt'[r] = "open"
    BY <2>3, <2>7 DEF RecOpen
  <2>8. \A b \in BusIds : RecOpen(bus[b].recCb)'
    BY <2>1, <2>4, <2>5, <2>6, <2>7 DEF RecOpen
  <2>9. \A t \in Senders : RecOpen(send[t].rec)'
    BY <2>1, <2>2, <2>5, <2>6, <2>7 DEF RecOpen
  <2>10. \A r \in held : RecOpen(r)'
    BY <1>1, <2>1, <2>5, <2>6, <2>7 DEF RecOpen
  <2>11. \A l \in pend : RecOpen(l.rec)'
    BY <1>1, <2>1, <2>5, <2>6, <2>7 DEF RecOpen
  <2>12. \A l \in ready : RecOpen(l.rec)'
    BY <2>1, <2>10 DEF RecOpen
  <2> QED
    BY <1>1, <2>1, <2>8, <2>9, <2>10, <2>11, <2>12 DEF Recorders
<1> QED
  BY <1>2, <1>3

\* What main does to the recorders of a batch: it starts one, goes on in it, or ends it.
LEMMA MainHolds ==
  ASSUME TypeOK, Batch, Main, Up, ~TearingDown', main'.at # "exit"
  PROVE  /\ recSt' = recSt \/ CloseUnheld
         /\ \/ held' = held /\ ready' \subseteq ready
            \/ held' = {} /\ ready' = {} /\ main'.at # "rec"
            \/ /\ held' = {l.rec : l \in ready'} \ {None}
               /\ ready' \subseteq pend /\ main'.at # "rec"
<1> USE DEF objVars, pipeVars, runVars
<1>1. main.lam \in Lambdas /\ NoLam \in Lambdas /\ ~MainDestroySched
  BY MainLeaves DEF TypeOK, NoLam, Lambdas
<1>2. CASE MainCheck
  BY <1>2 DEF MainCheck
<1>3. ASSUME NEW D \in SUBSET pend, MainDrain(D)
      PROVE  /\ recSt' = recSt /\ held' = {l.rec : l \in ready'} \ {None}
             /\ ready' \subseteq pend /\ main'.at # "rec"
  BY <1>3, NextItems DEF MainDrain
<1>4. ASSUME BatchEnds, ready' \subseteq ready,
             main'.at = "check" => ready' = {}
      PROVE  /\ CloseUnheld
             /\ \/ held' = held /\ ready' \subseteq ready
                \/ held' = {} /\ ready' = {} /\ main'.at # "rec"
  BY <1>4 DEF BatchEnds
<1>5. ASSUME NEW l \in ready, MainNext(l)
      PROVE  BatchEnds /\ ready' \subseteq ready /\ (main'.at = "check" => ready' = {})
  <2>1. l \in Lambdas /\ Deliver(l, ready')
    BY <1>5 DEF MainNext, TypeOK
  <2> QED
    BY <1>5, <2>1, Delivered DEF MainNext
<1>6. CASE MainRecord
  <2>1. [main.lam EXCEPT !.rec = None] \in Lambdas
    BY <1>1 DEF Lambdas
  <2>2. main'.at = "check" => ready = {}
    BY <1>6, <2>1, Delivered DEF MainRecord
  <2> QED
    BY <1>4, <1>6, <2>2 DEF MainRecord
<1>7. CASE MainSub
  <2>1. main'.at = "check" => ready = {}
    <3>1. CASE pipe[main.lam.bus] # None
      BY <1>1, <1>7, <3>1, MainAt DEF MainSub
    <3>2. CASE pipe[main.lam.bus] = None
      BY <1>7, <3>2, NextItems DEF MainSub
    <3> QED
      BY <3>1, <3>2
  <2> QED
    BY <1>4, <1>7, <2>1 DEF MainSub
<1>8. CASE MainWrite
  <2>1. main'.at = "check" => ready = {}
    BY <1>8, NextItems DEF MainWrite
  <2> QED
    BY <1>4, <1>8, <2>1 DEF MainWrite
<1>9. CASE MainClose \/ MainDestroyBus \/ MainExit
  <2>1. PICK s \in {"exit", "teardown", "exited"} : MainGoto(s, NoLam)
    BY <1>9 DEF MainClose, MainDestroyBus, MainExit
  <2>2. main'.at = s
    BY <1>1, <2>1, MainAt
  <2> QED
    BY <2>2 DEF TearingDown
<1>10. ASSUME NEW b \in BusIds, MainDestroySink(b)
       PROVE  FALSE
  <2>1. main'.at = "join"
    BY <1>10 DEF MainDestroySink, MainGoto
  <2> QED
    BY <2>1 DEF TearingDown
<1> QED
  BY <1>1, <1>2, <1>3, <1>4, <1>5, <1>6, <1>7, <1>8, <1>9, <1>10 DEF Main

LEMMA OtherRecorders ==
  ASSUME TypeOK, Refers, Batch, Steady, Recorders, OtherStep, ~TearingDown'
  PROVE  Recorders'
<1>1. bus' = bus /\ (recSt' = recSt \/ (Up /\ Main)) /\ FrameRefers
  BY OthersLeave DEF Refers
<1>2. CASE main'.at = "exit"
  BY <1>2 DEF Recorders
<1>3. CASE main'.at # "exit" /\ Up /\ Main
  <2>1. /\ send' = send /\ main.at # "exit" /\ (Turns \/ Records)
    BY <1>3, MainLeaves, MainTurns
  <2>2. /\ \A b \in BusIds : RecOpen(bus[b].recCb)
        /\ \A t \in Senders : RecOpen(send[t].rec)
        /\ \A l \in pend \union ready : RecOpen(l.rec)
        /\ \A r \in held : RecOpen(r)
        /\ \A l \in ready : l.rec \in held \union {None}
    BY <2>1 DEF Recorders
  <2>3. /\ pend' \union ready' \subseteq pend \union ready
        /\ main'.at = "rec" => main'.lam \in ready
    BY <2>1 DEF Turns, Records
  <2>4. \A r \in RecIds : recSt[r] = "open" /\ r \in HeldRecs' => recSt'[r] = "open"
    BY <1>3, Closing, MainHolds
  <2>5. /\ \A b \in BusIds : bus[b].recCb \in HeldRecs' /\ bus[b].recCb \in RecIds \union {None}
        /\ \A t \in Senders : send[t].rec \in HeldRecs' /\ send[t].rec \in RecIds \union {None}
        /\ \A l \in pend' : l.rec \in HeldRecs'
        /\ \A l \in pend \union ready : l.rec \in RecIds \union {None}
        /\ held' \subseteq HeldRecs'
        /\ \A r \in held : r \in RecIds
    BY <1>1, <2>1 DEF HeldRecs, TypeOK, BusStates, CallStates, Lambdas
  <2>6. \/ held' = held /\ ready' \subseteq ready
        \/ held' = {} /\ ready' = {} /\ main'.at # "rec"
        \/ /\ held' = {l.rec : l \in ready'} \ {None}
           /\ ready' \subseteq pend /\ main'.at # "rec"
    BY <1>3, MainHolds
  <2>7. ASSUME NEW r \in RecIds \union {None}, r \in HeldRecs', RecOpen(r)
        PROVE  r # None => recSt'[r] = "open"
    BY <2>4, <2>7 DEF RecOpen
  <2>8. /\ \A b \in BusIds : RecOpen(bus[b].recCb)'
        /\ \A t \in Senders : RecOpen(send[t].rec)'
    BY <1>1, <2>1, <2>2, <2>5, <2>7 DEF RecOpen
  <2>9. \A l \in pend' : RecOpen(l.rec)'
    BY <2>2, <2>3, <2>5, <2>7 DEF RecOpen
  <2>10. \A r \in held' : r \in RecIds /\ RecOpen(r)
    BY <2>2, <2>5, <2>6
  <2>11. \A r \in held' : RecOpen(r)'
    BY <2>5, <2>7, <2>10 DEF RecOpen
  <2>12. \A l \in ready' : l.rec \in held' \union {None}
    BY <2>2, <2>6
  <2>13. main'.at = "rec" => main'.lam.rec \in held'
    <3>1. main'.at = "rec" => main'.lam.rec \in RecIds
      BY <1>3, MainRefers DEF Refers, FrameRefers
    <3> QED
      BY <2>2, <2>3, <2>6, <3>1, DaemonAssumption
  <2>14. \A l \in ready' : RecOpen(l.rec)'
    BY <2>11, <2>12 DEF RecOpen
  <2> QED
    BY <2>8, <2>9, <2>11, <2>12, <2>13, <2>14 DEF Recorders
<1>4. CASE /\ main'.at # "exit" /\ ~(Up /\ Main)
           /\ \/ \E c \in Clients : ClientRead(c) \/ ClientClose(c)
              \/ \E t \in Senders : Sending(t)
              \/ \E k \in CapIds : CapThread(k)
              \/ \E r \in Replays : ReplayFrame(r) \/ ReplayEnd(r)
  <2>1. main' = main /\ (Still \/ \E t \in Senders : NewFrame(t) \/ GoesOn(t))
    BY <1>4, FrameSteps
  <2>2. /\ \A b \in BusIds : RecOpen(bus[b].recCb)
        /\ \A t \in Senders : RecOpen(send[t].rec)
        /\ \A l \in pend \union ready : RecOpen(l.rec)
        /\ main.at = "rec" => RecOpen(main.lam.rec) /\ main.lam.rec \in held
        /\ \A r \in held : RecOpen(r)
        /\ \A l \in ready : l.rec \in held \union {None}
        /\ recSt' = recSt
    BY <1>1, <1>4, <2>1 DEF Recorders
  <2>3. CASE Still
    BY <1>1, <2>2, <2>3 DEF Still, Recorders, RecOpen
  <2>4. ASSUME NEW t \in Senders, NewFrame(t)
        PROVE  Recorders'
    <3>1. \A u \in Senders : send'[u].rec \in {send[u].rec, None}
      BY <2>4, SendEntered DEF NewFrame
    <3> QED
      BY <1>1, <2>2, <2>4, <3>1 DEF NewFrame, Recorders, RecOpen
  <2>5. ASSUME NEW t \in Senders, GoesOn(t)
        PROVE  Recorders'
    <3>1. /\ \A u \in Senders \ {t} : send'[u] = send[u]
          /\ InSend(t) /\ (Snaps(t) \/ Forwards(t) \/ Posts(t)) /\ ready' = ready
          /\ held' = held
      BY <1>1, <2>5, SendingSteps DEF GoesOn
    <3>2. send[t].bus \in BusIds
      BY <1>1, <3>1 DEF FrameRefers
    <3>3. RecOpen(send'[t].rec)
      BY <2>2, <3>1, <3>2 DEF Snaps, Forwards, Posts, NoSend, RecOpen
    <3>4. \A l \in pend' \union ready' : RecOpen(l.rec)
      BY <2>2, <3>1 DEF Snaps, Forwards, Posts
    <3> QED
      BY <1>1, <2>1, <2>2, <3>1, <3>3, <3>4 DEF Recorders, RecOpen
  <2> QED
    BY <2>1, <2>3, <2>4, <2>5
<1> QED
  BY <1>2, <1>3, <1>4 DEF OtherStep

-----------------------------------------------------------------------------
(* The inductive invariant.                                                 *)

LEMMA ClientRefers ==
  ASSUME TypeOK, Refers, NEW c \in Clients, ClientRead(c) \/ ClientClose(c)
  PROVE  Refers'
<1>1. UNCHANGED <<conn, cap, send, owed, pend, ready, main, pipe>>
  BY DEF ClientRead, ClientClose, runVars
<1> QED
  BY <1>1 DEF Refers, ThreadRefers, FrameRefers, InSend, nframes

LEMMA StillKeepsFrames ==
  ASSUME Frames, RecordedOrInFlight, Still, shutdown => shutdown'
  PROVE  Frames' /\ RecordedOrInFlight'
<1>1. UNCHANGED <<send, owed, pend, ready, main, wrote>>
  BY DEF Still
<1>2. Frames'
  BY <1>1 DEF Frames, InSend, nframes
<1>3. \A n : InFlight(n) => InFlight(n)'
  BY <1>1 DEF InFlight
<1> QED
  BY <1>1, <1>2, <1>3 DEF RecordedOrInFlight, nframes

\* A step of a connection thread with a request.
LEMMA HandlerKeeps ==
  ASSUME IInv, NEW c \in Clients, Request(c) \/ Handler(c)
  PROVE  TypeOK' /\ Mutex' /\ Refers' /\ Batch' /\ Handles' /\ Steady'
<1>1. TypeOK /\ Mutex /\ Refers /\ Batch /\ Handles /\ Steady
  BY DEF IInv
<1>2. Moves(c)
  BY <1>1, HandlerMoves
<1>3. Batch' /\ main' = main
  BY <1>1, OtherBatch
<1>4. Steady'
  <2> SUFFICES ASSUME ~TearingDown'
               PROVE  (Registry /\ Captures /\ Sends /\ Entries /\ Deletes /\ Recorders /\ Sinks)'
    BY DEF Steady
  <2>1. Registry /\ Captures /\ Sends /\ Entries /\ Deletes /\ Recorders /\ Sinks
    BY <1>1, <1>3 DEF Steady, TearingDown
  <2> QED
    BY <1>1, <2>1, HandlerRegistry, HandlerCapturesKept, HandlerSends, HandlerEntries,
       HandlerDeletes, HandlerRecorders, HandlerKeepsSinks
<1> QED
  BY <1>1, <1>2, <1>3, <1>4, HandlerTypes, MovesKeepMutex, HandlerRefers, HandlerHandles

\* A step of any other thread.
LEMMA OtherKeeps ==
  ASSUME IInv, OtherStep
  PROVE  TypeOK' /\ Mutex' /\ Refers' /\ Batch' /\ Handles' /\ Steady'
<1>1. TypeOK /\ Mutex /\ Refers /\ FrameRefers /\ Batch /\ Handles /\ Steady
  BY DEF IInv, Refers
<1>2. Handles' /\ conn' = conn /\ gmtx' = gmtx
  BY <1>1, OtherHandles DEF OtherStep
<1>3. TypeOK'
  BY <1>1, MainTypes, ClientTypes, SenderTypes DEF OtherStep
<1>4. Refers'
  BY <1>1, MainRefers, ClientRefers, SenderRefers DEF OtherStep
<1>5. Batch'
  BY <1>1, MainBatch, OtherBatch DEF OtherStep
<1>6. Steady'
  <2> SUFFICES ASSUME ~TearingDown'
               PROVE  (Registry /\ Captures /\ Sends /\ Entries /\ Deletes /\ Recorders /\ Sinks)'
    BY DEF Steady
  <2>1. Registry /\ Captures /\ Sends /\ Entries /\ Deletes /\ Recorders /\ Sinks
    BY <1>1, OthersLeave DEF Steady
  <2> QED
    BY <1>1, <2>1, OtherRegistry, OtherCaptures, OtherSends, OtherEntries, OtherRecorders,
       OtherKeepsSinks
<1> QED
  BY <1>1, <1>2, <1>3, <1>4, <1>5, <1>6 DEF Mutex

\* A thread that posts once main is destroying things: it leaves Send, or the process ends.
LEMMA LateKeeps ==
  ASSUME IInv, NEW t \in Senders, SendPostLate(t)
  PROVE  IInv' /\ shutdown' = shutdown
<1>1. TypeOK /\ Mutex /\ Refers /\ Batch /\ Handles /\ Frames
  BY DEF IInv
<1>2. /\ UNCHANGED <<gmtx, reg, bus, sinkSt, wrote, cap, rp, conn, pend, ready, held, shutdown,
                     owed, ncmds>>
      /\ UNCHANGED <<pipe, out, closes, client>>
      /\ main.at \in {"teardown", "join"}
  BY DEF SendPostLate, SchedGone, pipeVars
<1>3. send' \in {send, [send EXCEPT ![t] = NoSend]}
  BY DEF SendPostLate
<1>4. recSt' \in [RecIds -> {"none", "open", "closed"}]
  BY <1>1, Closing DEF SendPostLate, TypeOK
<1>5. main' = main \/ main' = [at |-> "crashed", lam |-> NoLam]
  BY DEF SendPostLate
<1>6. NoSend \in CallStates /\ NoLam \in Lambdas /\ NoSend.at = "out"
  BY DEF NoSend, NoLam, CallStates, Lambdas
<1>7. /\ send' \in [Senders -> CallStates]
      /\ \A u \in Senders : send'[u] = send[u] \/ send'[u] = NoSend
  BY <1>1, <1>3, <1>6 DEF TypeOK
<1>8. main' \in MainStates /\ main'.at \in {"teardown", "join", "crashed"}
      /\ (main'.at = "join" => main' = main)
  BY <1>1, <1>2, <1>5, <1>6 DEF TypeOK, MainStates
<1>9. nframes' = nframes
  BY <1>2 DEF nframes
<1>10. TypeOK'
  BY <1>1, <1>2, <1>4, <1>7, <1>8 DEF TypeOK, MainStates
<1>11. Mutex' /\ Handles'
  BY <1>1, <1>2 DEF Mutex, Handles, HandedOver
<1>12. Refers'
  <2>1. ThreadRefers' /\ FrameRefers
    BY <1>1, <1>2 DEF Refers, ThreadRefers
  <2>2. (\A u \in Senders : IF InSend(u) THEN send[u].bus \in BusIds /\ send[u].n \in 1..nframes
                                        ELSE send[u] = NoSend)'
    BY <1>6, <1>7, <1>9, <2>1 DEF FrameRefers, InSend
  <2>3. FrameRefers'
    BY <1>2, <1>8, <1>9, <2>1, <2>2 DEF FrameRefers
  <2> QED
    BY <2>1, <2>3 DEF Refers
<1>13. Batch' /\ shutdown /\ shutdown'
  BY <1>1, <1>2, <1>8 DEF Batch, TearingDown
<1>14. Steady'
  BY <1>8 DEF Steady, TearingDown
<1>15. Frames'
  BY <1>1, <1>2, <1>6, <1>7, <1>8, <1>9 DEF Frames, InSend
<1>16. RecordedOrInFlight'
  BY <1>13 DEF RecordedOrInFlight
<1> QED
  BY <1>2, <1>10, <1>11, <1>12, <1>13, <1>14, <1>15, <1>16 DEF IInv

\* What becomes of the frames, whoever takes the step.
LEMMA StepKeepsFrames ==
  ASSUME IInv,
         \/ OtherStep
         \/ \E c \in Clients : Request(c) \/ Handler(c)
  PROVE  Frames' /\ RecordedOrInFlight'
<1>1. TypeOK /\ Refers /\ Batch /\ Steady /\ Frames /\ RecordedOrInFlight
  BY DEF IInv
<1>2. CASE Main
  <2>1. shutdown' = shutdown
    BY <1>1, <1>2, MainBatch
  <2> QED
    BY <1>1, <1>2, <2>1, MainFrames, MainRecorded DEF RecordedOrInFlight
<1>3. CASE ~Main
  <2>1. \/ \E c \in Clients : Request(c) \/ Handler(c) \/ ClientRead(c) \/ ClientClose(c)
        \/ \E t \in Senders : Sending(t)
        \/ \E k \in CapIds : CapThread(k)
        \/ \E r \in Replays : ReplayFrame(r) \/ ReplayEnd(r)
    BY <1>3 DEF OtherStep
  <2>2. shutdown => shutdown'
    BY <1>1, <2>1, OtherBatch
  <2>3. Still \/ \E t \in Senders : NewFrame(t) \/ GoesOn(t)
    BY <1>1, <2>1, FrameSteps
  <2>4. CASE Still
    BY <1>1, <2>2, <2>4, StillKeepsFrames
  <2>5. ASSUME NEW t \in Senders, NewFrame(t) \/ GoesOn(t)
        PROVE  Frames' /\ RecordedOrInFlight'
    <3>1. Frames'
      BY <1>1, <2>5, FramesKept
    <3>2. ~shutdown => RecordedOrInFlight'
      BY <1>1, <2>5, RecordedKept
    <3>3. shutdown => RecordedOrInFlight'
      BY <2>2 DEF RecordedOrInFlight
    <3> QED
      BY <3>1, <3>2, <3>3
  <2> QED
    BY <2>3, <2>4, <2>5
<1> QED
  BY <1>2, <1>3

LEMMA IInvInit == Init => IInv
<1> SUFFICES ASSUME Init
             PROVE  IInv
  OBVIOUS
<1> USE DaemonAssumption DEF Init
<1>1. /\ NoBus \in BusStates /\ NoCap \in CapStates /\ NotYet \in ConnStates
      /\ NoSend \in CallStates /\ NoLam \in Lambdas
  BY DEF NoBus, NoCap, NotYet, NoSend, NoLam, BusStates, CapStates, ConnStates, CallStates, Lambdas
<1>2. TypeOK
  <2>1. /\ bus \in [BusIds -> BusStates] /\ cap \in [CapIds -> CapStates]
        /\ conn \in [Clients -> ConnStates] /\ send \in [Senders -> CallStates]
    BY <1>1
  <2>2. /\ main.lam = NoLam /\ main.at = "check"
        /\ main \in [at : {"check", "drain", "next", "rec", "sub", "write", "closing", "exit",
                          "teardown", "join", "exited", "crashed"}, lam : Lambdas]
    BY <1>1
  <2>3. /\ out \in [Clients -> Seq({"reply", "frame"})]
        /\ \A c \in Clients : Len(out[c]) <= PipeCap
        /\ owed \in Seq(RecIds \union {None}) /\ Len(owed) <= MaxFrames
    OBVIOUS
  <2>4. /\ wrote \in [RecIds -> SUBSET (1..MaxFrames)] /\ closes \in [Clients -> Nat]
        /\ ncmds \in 0..MaxCmds
    OBVIOUS
  <2> QED
    BY <2>1, <2>2, <2>3, <2>4 DEF TypeOK
<1>3. NotYet.at = "read" /\ ~NotYet.stay /\ NoSend.at = "out" /\ NoCap.at = "none" /\ NoCap.bus = None
  BY DEF NotYet, NoSend, NoCap
<1>4. nframes = 0 /\ 1..nframes = {}
  BY DEF nframes
<1>5. Mutex /\ Batch
  BY <1>3 DEF Mutex, Batch, Holding, TearingDown
<1>6. Refers
  BY <1>3 DEF Refers, ThreadRefers, FrameRefers, Holding, InSend
<1>7. Handles
  BY <1>3 DEF Handles, HandedOver
<1>8. Registry /\ Captures /\ Sends /\ Deletes
  BY <1>3 DEF Registry, Captures, Sends, Deletes, Working, InSend, Holding, Senders
<1>9. Entries
  BY DEF Entries, NoBus
<1>10. Recorders /\ Sinks
  BY <1>3 DEF Recorders, RecOpen, NoBus, NoSend, Sinks
<1>11. Frames /\ RecordedOrInFlight
  BY <1>3, <1>4 DEF Frames, RecordedOrInFlight, InSend
<1> QED
  BY <1>2, <1>5, <1>6, <1>7, <1>8, <1>9, <1>10, <1>11 DEF IInv, Steady

LEMMA IInvInductive == IInv /\ [Next]_vars => IInv'
<1> SUFFICES ASSUME IInv, [Next]_vars
             PROVE  IInv'
  OBVIOUS
<1>1. ASSUME NEW c \in Clients, Request(c) \/ Handler(c)
      PROVE  IInv'
  BY <1>1, HandlerKeeps, StepKeepsFrames DEF IInv
<1>2. CASE OtherStep
  BY <1>2, OtherKeeps, StepKeepsFrames DEF IInv
<1>4. ASSUME NEW t \in Senders, SendPostLate(t)
      PROVE  IInv'
  BY <1>4, LateKeeps
<1>3. CASE UNCHANGED vars
  <2>1. /\ UNCHANGED <<gmtx, reg, bus, recSt, sinkSt, wrote, cap, rp, conn>>
        /\ UNCHANGED <<pipe, out, closes, client, send, pend, ready, held, main, shutdown, owed,
                    ncmds>>
    BY <1>3 DEF vars, objVars, pipeVars, runVars
  <2>2. TypeOK' /\ Mutex' /\ Refers' /\ Batch' /\ Handles'
    BY <2>1 DEF IInv, TypeOK, Mutex, Refers, ThreadRefers, FrameRefers, Batch, Handles, HandedOver,
       TearingDown, InSend, nframes
  <2>3. Steady'
    BY <2>1 DEF IInv, Steady, Registry, Captures, Sends, Entries, Deletes, Recorders, RecOpen,
       Sinks, Working, InSend, TearingDown
  <2>4. Frames' /\ RecordedOrInFlight'
    BY <2>1, StillKeepsFrames DEF IInv, Still
  <2> QED
    BY <2>2, <2>3, <2>4 DEF IInv
<1> QED
  BY <1>1, <1>2, <1>3, <1>4 DEF Next, Halted, OtherStep

LEMMA Invariant == Spec => []IInv
  BY IInvInit, IInvInductive, PTL DEF Spec

-----------------------------------------------------------------------------
(* What follows from it.                                                    *)

\* Every variable keeps its type; in particular no pipe ever holds more messages than it
\* has room for (vbusd.cpp:556-561, 577).
THEOREM TypeCorrect == Spec => []TypeOK
<1>1. IInv => TypeOK
  BY DEF IInv
<1> QED
  BY <1>1, Invariant, PTL

\* Every pipe handle has one owner and is closed at most once, by its own thread, by the
\* subscription that replaces it, by delete or by a write that fails, however these
\* interleave, shutdown included (vbusd.cpp:67-106, 578-582).
THEOREM HandleOwned == Spec => []HandleOwnership
<1>1. ASSUME IInv
      PROVE  HandleOwnership
  <2>1. Handles /\ pipe \in [BusIds -> Clients \union {None}]
    BY <1>1 DEF IInv, TypeOK
  <2>2. \A c \in Clients :
          /\ closes[c] <= 1
          /\ conn[c].at = "handed" /\ closes[c] = 0 => \E b \in BusIds : pipe[b] = c
    BY <2>1 DEF Handles, HandedOver
  <2>3. ASSUME NEW b \in BusIds, pipe[b] # None
        PROVE  closes[pipe[b]] = 0
    BY <2>1, <2>3 DEF Handles
  <2> QED
    BY <2>1, <2>2, <2>3 DEF Handles, HandleOwnership
<1> QED
  BY <1>1, Invariant, PTL

\* The recorder a delivery calls has its file open: a file closes when nothing refers to
\* its recorder any more, and a reference goes with each frame from the bus's callback
\* through the call of Send and the heap into the batch, which keeps it until run_until
\* returns; main closes the files once it no longer delivers (vbusd.cpp:55-62, 115-116,
\* 604-608, scheduler.cpp:12-23).
THEOREM RecorderOpen == Spec => []RecorderOpenAtDelivery
<1>1. ASSUME IInv
      PROVE  RecorderOpenAtDelivery
  <2> SUFFICES ASSUME main.at = "rec"
               PROVE  recSt[main.lam.rec] = "open"
    BY DEF RecorderOpenAtDelivery
  <2>1. ~TearingDown /\ main.lam.rec \in RecIds
    BY <1>1 DEF IInv, TearingDown, Refers, FrameRefers
  <2> QED
    BY <1>1, <2>1, DaemonAssumption DEF IInv, Steady, Recorders, RecOpen
<1> QED
  BY <1>1, Invariant, PTL

\* Until quit, a frame that met a recorder is in flight or in that recorder's file, and in
\* no other recorder's (eth_bus.cpp:36-61 with vbusd.cpp:108-122).
THEOREM NoFrameLost == Spec => []RecordedOrInFlight
<1>1. IInv => RecordedOrInFlight
  BY DEF IInv
<1> QED
  BY <1>1, Invariant, PTL

\* What the objects promise one another, until main's destructors run: they take no
\* g_mtx, so from then on a handler that is still at work finds buses disappear.
ObjectsSafe ==
    /\ OwnersSendOnLiveBus /\ OneCapturePerBus /\ CallbacksMatchOwners
    /\ DeleteLeavesNothing /\ CommandsForwardToLiveSink

LEMMA InvariantObjects == IInv /\ ~TearingDown => ObjectsSafe
<1> SUFFICES ASSUME IInv, ~TearingDown
             PROVE  ObjectsSafe
  OBVIOUS
<1>1. TypeOK /\ Mutex /\ FrameRefers /\ Registry /\ Captures /\ Sends /\ Entries /\ Sinks
  BY DEF IInv, Refers, Steady
<1>2. ASSUME NEW t \in CapIds \union Clients, InSend(t)
      PROVE  send[t].bus \in BusIds /\ bus[send[t].bus].life = "live"
  <2>1. send[t].bus \in BusIds
    BY <1>1, <1>2 DEF FrameRefers, Senders
  <2>2. CASE t \in CapIds
    <3>1. cap[t].at = "sending" /\ send[t].bus = cap[t].bus
      BY <1>1, <1>2, <2>2 DEF Captures
    <3>2. Working(t)
      BY <3>1 DEF Working
    <3> QED
      BY <1>1, <2>1, <2>2, <3>1, <3>2 DEF Captures
  <2>3. CASE t \in Clients
    <3>1. conn[t].at \in Holding /\ conn[t].bus = send[t].bus
      BY <1>1, <1>2, <2>3 DEF Sends, Holding
    <3>2. reg[conn[t].name] = send[t].bus /\ conn[t].name \in Names
      BY <1>1, <2>3, <3>1 DEF IInv, Registry, Refers, ThreadRefers
    <3> QED
      BY <1>1, <2>1, <3>2, DaemonAssumption DEF Registry
  <2> QED
    BY <2>1, <2>2, <2>3
<1>3. OwnersSendOnLiveBus
  BY <1>2 DEF OwnersSendOnLiveBus, SendsOnLiveBus
<1>4. OneCapturePerBus
  BY <1>1 DEF OneCapturePerBus, Captures, Working
<1>5. CallbacksMatchOwners
  <2> SUFFICES ASSUME gmtx = None
               PROVE  CallbacksMatchOwners
    BY DEF CallbacksMatchOwners
  <2>1. \A c \in Clients : conn[c].at \notin Holding
    BY <1>1, DaemonAssumption DEF Mutex
  <2> QED
    BY <1>1, <2>1 DEF Entries, CallbacksMatchOwners, Holding, TypeOK, BusStates
<1>6. DeleteLeavesNothing
  <2> SUFFICES ASSUME NEW b \in BusIds, bus[b].life = "freed"
               PROVE  /\ \A k \in CapIds : cap[k].bus = b => cap[k].at = "done"
                      /\ pipe[b] = None
                      /\ \A t \in CapIds \union Clients : send[t].bus # b
    BY <1>1 DEF DeleteLeavesNothing, Sinks
  <2>1. \A k \in CapIds : cap[k].bus = b => cap[k].at = "done"
    BY <1>1, DaemonAssumption DEF Captures, Working
  <2>2. pipe[b] = None
    BY <1>1 DEF Entries
  <2>3. \A t \in CapIds \union Clients : send[t].bus # b
    BY <1>1, <1>2, DaemonAssumption DEF FrameRefers, Senders, NoSend
  <2> QED
    BY <2>1, <2>2, <2>3
<1>7. CommandsForwardToLiveSink
  <2> SUFFICES ASSUME NEW c \in Clients, send[c].at = "fwd"
               PROVE  sinkSt[send[c].fwd] = "live"
    BY DEF CommandsForwardToLiveSink, ForwardsToLiveSink
  <2>1. send[c].bus \in BusIds
    BY <1>2 DEF InSend
  <2> QED
    BY <1>1, <2>1 DEF Sends, Entries
<1> QED
  BY <1>3, <1>4, <1>5, <1>6, <1>7 DEF ObjectsSafe

\* No capture thread and no command is inside Send on a bus that delete has destroyed
\* (vbusd.cpp:171-173, 233-240).
THEOREM OwnersOnLiveBus == Spec => [](~TearingDown => OwnersSendOnLiveBus)
<1>1. IInv => (~TearingDown => OwnersSendOnLiveBus)
  BY InvariantObjects DEF ObjectsSafe
<1> QED
  BY <1>1, Invariant, PTL

\* A capture is replaced only once its thread has been joined (vbusd.cpp:325-330, 341-347).
THEOREM OneCapture == Spec => [](~TearingDown => OneCapturePerBus)
<1>1. IInv => (~TearingDown => OneCapturePerBus)
  BY InvariantObjects DEF ObjectsSafe
<1> QED
  BY <1>1, Invariant, PTL

\* Between handlers a bus calls exactly what its entry owns (vbusd.cpp:54-63, 108-122,
\* 366-376).
THEOREM CallbacksMatch == Spec => [](~TearingDown => CallbacksMatchOwners)
<1>1. IInv => (~TearingDown => CallbacksMatchOwners)
  BY InvariantObjects DEF ObjectsSafe
<1> QED
  BY <1>1, Invariant, PTL

\* delete leaves nothing at work that the bus it has destroyed owned: no capture thread, no
\* pipe, no command's call of Send on it, and no live sink that is not a live bus's
\* (vbusd.cpp:165-178).  Of replay threads, which no bus owns, it says nothing.
THEOREM DeleteComplete == Spec => [](~TearingDown => DeleteLeavesNothing)
<1>1. IInv => (~TearingDown => DeleteLeavesNothing)
  BY InvariantObjects DEF ObjectsSafe
<1> QED
  BY <1>1, Invariant, PTL

\* A command's frame is forwarded through a sink that exists (vbusd.cpp:233-240, 367-374).
THEOREM CommandsForward == Spec => [](~TearingDown => CommandsForwardToLiveSink)
<1>1. IInv => (~TearingDown => CommandsForwardToLiveSink)
  BY InvariantObjects DEF ObjectsSafe
<1> QED
  BY <1>1, Invariant, PTL

\* Only quit raises g_shutdown (vbusd.cpp:538-544), and main leaves its loop only then, so
\* in a daemon that is not told to quit all five hold without a condition.
THEOREM SafeUntilQuit ==
  ASSUME "quit" \notin Commands \union {None}
  PROVE  Spec => []ObjectsSafe
<1>1. Init => ~shutdown
  BY DEF Init
<1>2. ASSUME IInv, ~shutdown, [Next]_vars
      PROVE  ~shutdown'
  <2> USE DEF runVars
  <2>1. TypeOK /\ Refers /\ Batch
    BY <1>2 DEF IInv
  <2>2. ASSUME NEW c \in Clients, Request(c) \/ Handler(c)
        PROVE  shutdown' = shutdown
    <3>1. ~Quit(c)
      BY <2>1 DEF Quit, At, TypeOK, ConnStates
    <3> QED
      BY <2>2, <3>1 DEF Request, Handler, NoSuchBus, Look, Create, RecordOff, RecordOnDetach,
         RecordOnOpen, SendCmd, SendCmdReturn, ReplayLookup, ReplayStart, CaptureStop,
         CaptureStopped, CaptureStart, ForwardReset, ForwardStart, StopForward, Subscribe,
         SubscribeAttach, SubscribeSetCb, Delete, DeleteUnsub, DeleteUnrecord, DeleteErase,
         WriteReply, ConnEnd
  <2>3. CASE Main
    BY <1>2, <2>1, <2>3, MainBatch
  <2>4. ASSUME NEW t \in Senders, Sending(t)
        PROVE  shutdown' = shutdown
    BY <2>4 DEF Sending, SendSnap, SendFwd, SendPost
  <2>5. ASSUME NEW k \in CapIds, CapThread(k)
        PROVE  shutdown' = shutdown
    BY <2>1, <2>5, CaptureLeaves DEF Refers
  <2>6. CASE \/ \E r \in Replays : ReplayFrame(r) \/ ReplayEnd(r)
             \/ \E c \in Clients : ClientRead(c) \/ ClientClose(c)
             \/ UNCHANGED vars
    BY <1>2, <2>6 DEF ReplayFrame, ReplayEnd, ClientRead, ClientClose, vars
  <2>7. ASSUME NEW t \in Senders, SendPostLate(t)
        PROVE  shutdown' = shutdown
    BY <1>2, <2>7, LateKeeps
  <2> QED
    BY <1>2, <2>2, <2>3, <2>4, <2>5, <2>6, <2>7 DEF Next, Halted
<1>3. IInv /\ ~shutdown => ObjectsSafe
  BY InvariantObjects DEF IInv, Batch
<1> QED
  BY <1>1, <1>2, <1>3, Invariant, PTL DEF Spec
=============================================================================
