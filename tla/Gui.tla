-------------------------------- MODULE Gui ---------------------------------
(***************************************************************************)
(* vbus-gui (vbus-gui/src): the model behind the window (model.cpp), the     *)
(* daemon client and its reader threads (daemon_client.cpp), the project     *)
(* files (project.cpp), start and exit (main.cpp), and the panels' buttons.  *)
(*                                                                           *)
(* The window keeps a copy of what it asked the daemon to do.  What the copy *)
(* is worth is the subject here: the daemon dies and comes back, the flag    *)
(* that says it is there is up to 2 s old, names are not keys, and commands   *)
(* that fail answer nothing.                                                 *)
(*                                                                           *)
(* One action is one handler of the window's thread, within which the daemon *)
(* neither ends nor starts; but a project is saved, and loaded, in the two    *)
(* files it takes, one step each.  Reader threads run between the actions.    *)
(* Any command may be lost on a daemon that runs: its pipe stays busy for all *)
(* five attempts, or its listener has ended.                                  *)
(***************************************************************************)
EXTENDS Integers, Sequences, SequencesExt, Glob

CONSTANTS
    MaxBuses,     \* bound: rows in the list
    MaxEvents,    \* bound: user operations, frames and launches, together
    RingCap,      \* 4096
    Paths,        \* project files
    Lens,         \* payload lengths of the frames carried
    TsHi,         \* the high 32 bits of the capture clock, in ns
    FilterLists,  \* lists of display filters the user may have in place
    Losses(_)     \* bound: which sets of a handler's commands may be lost

NoPath == "none"

ASSUME GuiAssumption ==
    /\ MaxBuses \in Nat \ {0} /\ MaxEvents \in Nat /\ RingCap \in Nat \ {0}
    /\ NoPath \notin Paths
    /\ Lens \subseteq Nat /\ TsHi \in Nat
    /\ FilterLists \subseteq Seq([type : {"Include", "Exclude"}, expr : Seq(STRING)])

VARIABLES
    up,         \* vbusd runs
    d,          \* d[n]: the daemon's bus n
    disk,       \* disk[p]: the project file at p
    recent,     \* last_project.txt (NoPath: none)
    running,    \* the window is open
    s,          \* AppState and Model of the running window
    queue,      \* m_frame_queue
    job,        \* saveProject or loadProject between its two files
    saved,      \* history: the lists the next launch may show ({}: any)
    frames,     \* history: frames carried to a subscriber, which numbers them
    events      \* counted against MaxEvents

vars == <<up, d, disk, recent, running, s, queue, job, saved, frames, events>>

\* "Bus" + n stands for its number.
BusNames == 1..MaxBuses
\* The list of a first run.
FirstRun == <<[name |-> 1, file |-> FALSE]>>

\* The file last written, or read, whose name last_project.txt is to have next.
NoJob == [kind |-> "none", path |-> NoPath]

\* One bus of the daemon; users (history) is whose commands have named it: row ids, and
\* 0 for a row that has since been renamed, whose window has ended, or which has let go
\* of something here that the daemon was not told of.
NoBus == [live |-> FALSE, rec |-> FALSE, cap |-> FALSE, fwd |-> FALSE, sub |-> 0, users |-> {}]

\* One row.  sub: m_subs has its entry; file: record_path is set.  History: born, the
\* frames carried before the row was made.
NewRow(i, n, file) ==
    [id |-> i, name |-> n, iface |-> "none", rec |-> FALSE, fwd |-> FALSE,
     file |-> file, enabled |-> TRUE, filters |-> <<>>, ring |-> <<>>,
     sub |-> FALSE, born |-> frames]

NoState == [buses |-> <<>>, nextId |-> 1, connected |-> FALSE, needsSync |-> FALSE,
            selected |-> 0, globalRec |-> FALSE, path |-> NoPath,
            missed |-> FALSE]   \* history: of the project's buses, the sync lost one

Init ==
    /\ up \in BOOLEAN
    /\ d = [n \in BusNames |-> NoBus]
    /\ disk = [p \in Paths |-> [kind |-> "absent", rows |-> <<>>]]
    /\ recent = NoPath
    /\ running = FALSE
    /\ s = NoState
    /\ queue = <<>>
    /\ job = NoJob /\ saved = {FirstRun}
    /\ frames = 0 /\ events = 0

Event == events < MaxEvents /\ events' = events + 1

-----------------------------------------------------------------------------
(* Commands: what the daemon does with them (vbusd.cpp), a command being <<i,  *)
(* word>>, what row i sends.  One that is lost, that a daemon which is gone    *)
(* does not get, or that names a bus it does not have, changes nothing there.   *)

Heard(lost, i, word) == up /\ <<i, word>> \notin lost

Create(db, n, i, lost) ==
    IF ~Heard(lost, i, "create") THEN db
    ELSE IF db[n].live THEN [db EXCEPT ![n].users = @ \cup {i}]
    ELSE [db EXCEPT ![n] = [NoBus EXCEPT !.live = TRUE, !.users = {i}]]

\* Row b lets go of what it had on its bus, and the daemon goes on with it.
Forgotten(db, b) ==
    IF b.id \in db[b.name].users THEN [db EXCEPT ![b.name].users = @ \cup {0}] ELSE db

\* What follows a command that is lost: the answer to a start is looked at, so the row
\* shows that nothing runs; that to a stop is not, and no answer to a capture passes for
\* one that is not ERR.
Looked(b, word) ==
    word \in {"record", "forward-udp", "replay", "subscribe"} /\ (word = "record" => ~b.rec)

Told(bus, i, part, value) == [bus EXCEPT ![part] = value, !.users = @ \cup {i}]
Command(db, b, word, part, value, lost) ==
    IF ~db[b.name].live THEN db
    ELSE IF Heard(lost, b.id, word) THEN [db EXCEPT ![b.name] = Told(db[b.name], b.id, part, value)]
    ELSE IF Looked(b, word) THEN db
    ELSE Forgotten(db, b)

-----------------------------------------------------------------------------
(* Model's operations, as functions of the world w = [s, d] they change and of *)
(* which of their commands are lost.  Some call others, so they are operators  *)
(* and the handlers below are the actions.                                     *)

World == [s |-> s, d |-> d]
Rows(st) == {st.buses[k] : k \in DOMAIN st.buses}
RowOf(st, i) == CHOOSE b \in Rows(st) : b.id = i
SetRow(w, row) ==
    [w EXCEPT !.s.buses = [k \in DOMAIN @ |-> IF @[k].id = row.id THEN row ELSE @[k]]]
First(st) == IF st.buses = <<>> THEN 0 ELSE Head(st.buses).id
Erase(st, i) ==
    RemoveAt(st.buses, CHOOSE k \in DOMAIN st.buses : st.buses[k].id = i)

\* A loop of n turns, and a loop over the rows, which keeps their number.  (The world a
\* turn starts from is one value; bound like this, TLC evaluates it once.)
Loop(turn(_, _), w, n) ==
    LET after[k \in 0..n] ==
            IF k = 0 THEN w ELSE CHOOSE v \in {turn(a, k) : a \in {after[k - 1]}} : TRUE
    IN  after[n]
ForEachRow(turn(_, _), w) ==
    Loop(LAMBDA a, k : turn(a, a.s.buses[k]), w, Len(w.s.buses))

\* subscribeFrames: the daemon closes an earlier subscriber's pipe and keeps this one;
\* ack is FALSE when the first message read is a frame and not the acknowledgement.
SubscribeFrames(w, i, ack, lost) ==
    LET b == RowOf(w.s, i)
        kept == IF ack THEN i ELSE 0
    IN  IF ~w.d[b.name].live \/ ~Heard(lost, i, "subscribe") THEN w
        ELSE SetRow([w EXCEPT !.d = Command(@, b, "subscribe", "sub", kept, lost)],
                    [b EXCEPT !.sub = ack])

UnsubscribeFrames(w, i) ==
    SetRow([w EXCEPT !.d = [n \in BusNames |-> IF @[n].sub = i THEN [@[n] EXCEPT !.sub = 0]
                                                               ELSE @[n]]],
           [RowOf(w.s, i) EXCEPT !.sub = FALSE])

AppendRow(w, n, file) ==
    [w EXCEPT !.s.buses = Append(@, NewRow(w.s.nextId, n, file)), !.s.nextId = @ + 1,
              !.s.selected = w.s.nextId]

NewBus(w, n, ack, lost) ==
    LET new == AppendRow(w, n, FALSE)
        i == w.s.nextId
    IN  IF w.s.connected THEN SubscribeFrames([new EXCEPT !.d = Create(@, n, i, lost)], i, ack, lost)
        ELSE new

\* The daemon is told only if the window believes it is there.
DetachIface(w, i, lost) ==
    LET b == RowOf(w.s, i) IN
    SetRow([w EXCEPT !.d = IF b.iface # "net" THEN @
                           ELSE IF w.s.connected
                           THEN Command(@, b, "stop-capture", "cap", FALSE, lost)
                           ELSE Forgotten(@, b)],
           [b EXCEPT !.iface = "none"])

StopRecord(w, i, lost) ==
    LET b == RowOf(w.s, i) IN
    IF ~w.s.connected THEN w
    ELSE SetRow([w EXCEPT !.d = Command(@, b, "stoprec", "rec", FALSE, lost)], [b EXCEPT !.rec = FALSE])

DeleteBusLocally(w, i, lost) ==     \* faulty: the daemon is not told
    LET away == UnsubscribeFrames(w, i)
        left == Erase(away.s, i)
    IN  [away EXCEPT !.s.buses = left,
                     !.s.selected = IF left = <<>> THEN 0 ELSE Head(left).id]

DeleteKeepsSelection(w, i, lost) == \* faulty: selected_bus is left as it was
    LET b == RowOf(w.s, i)
        quiet == IF b.rec THEN StopRecord(w, i, lost) ELSE w
        away == DetachIface(UnsubscribeFrames(quiet, i), i, lost)
    IN  [s |-> [away.s EXCEPT !.buses = Erase(away.s, i)],
         d |-> IF w.s.connected /\ Heard(lost, i, "delete") THEN [away.d EXCEPT ![b.name] = NoBus]
               ELSE Forgotten(away.d, b)]

DeleteBus(w, i, lost) ==
    LET b == RowOf(w.s, i)
        quiet == IF b.rec THEN StopRecord(w, i, lost) ELSE w
        away == DetachIface(UnsubscribeFrames(quiet, i), i, lost)
        left == Erase(away.s, i)
    IN  [s |-> [away.s EXCEPT !.buses = left,
                              !.selected = IF left = <<>> THEN 0 ELSE Head(left).id],
         d |-> IF w.s.connected /\ Heard(lost, i, "delete") THEN [away.d EXCEPT ![b.name] = NoBus]
               ELSE Forgotten(away.d, b)]

\* The first row is deleted as long as there is one.
DeleteAll(w, lost) == Loop(LAMBDA a, k : DeleteBus(a, First(a.s), lost), w, Len(w.s.buses))

SyncFirstBus(w, ack, lost) ==   \* faulty: only the first row is brought back
    IF ~w.s.connected \/ w.s.buses = <<>> THEN w
    ELSE [w EXCEPT !.s.needsSync = FALSE,
                   !.d = Create(@, Head(w.s.buses).name, Head(w.s.buses).id, lost)]

\* syncBusesToDaemon: every row is created and, if it never was, subscribed.
SyncBusesToDaemon(w, ack, lost) ==
    LET one(a, b) ==
            LET made == [a EXCEPT !.d = Create(@, b.name, b.id, lost)]
            IN  IF b.sub THEN made ELSE SubscribeFrames(made, b.id, ack, lost)
    IN  IF ~w.s.connected THEN w
        ELSE [ForEachRow(one, w) EXCEPT
                !.s.needsSync = FALSE,
                !.s.missed = \E b \in Rows(w.s) : ~Heard(lost, b.id, "create")]

StartForward(w, i, ok, lost) ==
    LET b == RowOf(w.s, i)
        done == ok /\ w.d[b.name].live /\ Heard(lost, i, "forward-udp")
    IN  IF ~w.s.connected THEN w
        ELSE SetRow([w EXCEPT !.d = Command(@, b, "forward-udp", "fwd", ok, lost)],
                    [b EXCEPT !.fwd = done])

-----------------------------------------------------------------------------
(* Project files (project.cpp).  What is kept of a row is its name and whether *)
(* it has a recording path.  A file is as the program wrote it, or cut short.  *)

Kept(st) == [k \in DOMAIN st.buses |-> [name |-> st.buses[k].name, file |-> st.buses[k].file]]

Readable(p) == p \in Paths /\ disk[p].kind = "good"

\* ProjectIO::load of a file that can be read: fresh rows, needs_daemon_sync.
LoadRows(w, p) ==
    LET rows == disk[p].rows
        all == Loop(LAMBDA a, k : AppendRow(a, rows[k].name, rows[k].file), w, Len(rows))
    IN  [all EXCEPT !.s.selected = First(all.s), !.s.needsSync = TRUE, !.s.missed = FALSE]

\* Model::loadProject until writeRecent: the rows are deleted first, whether or not the
\* file loads.
LoadProject(w, p, lost) ==
    LET empty == [DeleteAll(w, lost) EXCEPT !.s.globalRec = FALSE]
    IN  IF Readable(p) THEN [LoadRows(empty, p) EXCEPT !.s.path = p] ELSE empty

\* Until last_project.txt is written the next launch may also show the list before.
Pending(kind, p, rows) ==
    /\ job' = [kind |-> kind, path |-> p]
    /\ saved' = IF saved = {} THEN {} ELSE saved \cup {rows}

Writes == {"refused", "written", "cut"}

\* ProjectIO::save: the file does not open, or is written, or is cut short by an
\* error of the stream, which nobody asks for, or by the end of the process.
SaveFile(kind, p, how) ==
    CASE how = "refused" -> UNCHANGED <<disk, job, saved>>
      [] how = "written" -> /\ disk' = [disk EXCEPT ![p] = [kind |-> "good", rows |-> Kept(s)]]
                            /\ Pending(kind, p, Kept(s))
      [] how = "cut" -> /\ disk' = [disk EXCEPT ![p] = [kind |-> "bad", rows |-> <<>>]]
                        /\ job' = [kind |-> kind, path |-> p] /\ saved' = {}

\* What the next launch may show once last_project.txt is, or is not, written.
Remembered(how) ==
    CASE how = "written" /\ Readable(job.path) -> {Kept(s)}
      [] how = "cut" -> {}
      [] OTHER -> saved

RecentNotWritten(how) ==    \* faulty: writeRecent is not called
    /\ job' = NoJob /\ UNCHANGED recent
    /\ saved' = Remembered(how)

\* ProjectIO::writeRecent: nobody asks whether the file opened.  Cut short it names no file.
WriteRecent(how) ==
    /\ job' = NoJob
    /\ recent' = CASE how = "refused" -> recent [] how = "written" -> job.path [] how = "cut" -> NoPath
    /\ saved' = Remembered(how)

-----------------------------------------------------------------------------
(* main: start and exit.                                                      *)

\* Which of these commands of a handler are lost; without a daemon, all are.
LossesOf(commands) == Losses(IF up THEN commands ELSE {})
NewCommands(ids) == ids \X {"create", "subscribe"}
SyncCommands == NewCommands({b.id : b \in Rows(s)})
DeleteCommands(rows) ==
    {<<b.id, "delete">> : b \in rows} \cup {<<b.id, "stoprec">> : b \in {c \in rows : c.rec}}
        \cup {<<b.id, "stop-capture">> : b \in {c \in rows : c.iface = "net"}}
EveryRow(word) == {<<b.id, word>> : b \in Rows(s)}

\* The window's state as Model's constructor leaves it.
Fresh(answered) == [NoState EXCEPT !.connected = up /\ answered]

Launch ==
    /\ ~running /\ Event
    /\ running' = TRUE
    /\ \E answered \in BOOLEAN, ack \in BOOLEAN, lost \in LossesOf(NewCommands({1})) :
        LET empty == [s |-> Fresh(answered), d |-> d]
            w == IF Readable(recent) THEN LoadProject(empty, recent, lost)
                                     ELSE NewBus(empty, 1, ack, lost)
        IN  s' = w.s /\ d' = w.d
    /\ IF Readable(recent) THEN Pending("load", recent, disk[recent].rows)
                           ELSE UNCHANGED <<job, saved>>
    /\ UNCHANGED <<up, disk, recent, queue, frames>>

\* The window has ended: its pipes are closed, the daemon's buses stay.
Gone ==
    /\ running' = FALSE
    /\ s' = NoState /\ queue' = <<>>
    /\ d' = [n \in BusNames |-> IF d[n].live THEN [d[n] EXCEPT !.sub = 0, !.users = {0}]
                                             ELSE d[n]]

\* After its loop, main saves the project if it has a path.
Exit(how) ==
    /\ running /\ job = NoJob
    /\ IF s.path = NoPath THEN Gone /\ UNCHANGED <<disk, job, saved>>
       ELSE /\ SaveFile("exit", s.path, how)
            /\ IF how = "refused" THEN Gone ELSE UNCHANGED <<d, running, s, queue>>
    /\ UNCHANGED <<up, recent, frames, events>>

\* The second half of saveProject and loadProject, whoever called it.
Finish(how) ==
    /\ running /\ job # NoJob
    /\ WriteRecent(how)
    /\ \/ job.kind = "save" /\ UNCHANGED <<d, running, s, queue>>
       \/ job.kind = "exit" /\ Gone
       \/ /\ job.kind = "load"
          /\ \E ack \in BOOLEAN, lost \in LossesOf(SyncCommands) :
                LET w == SyncBusesToDaemon(World, ack, lost) IN s' = w.s /\ d' = w.d
          /\ UNCHANGED <<running, queue>>
    /\ UNCHANGED <<up, disk, frames, events>>

\* The process is killed, maybe while it writes last_project.txt.
Killed ==
    /\ running /\ Gone
    /\ IF job = NoJob THEN UNCHANGED <<recent, job, saved>>
       ELSE \E how \in {"refused", "cut"} : WriteRecent(how)
    /\ UNCHANGED <<up, disk, frames, events>>

-----------------------------------------------------------------------------
(* What the user does.  Inspector and Filters act on the row b selected.       *)

Operation ==
    /\ running /\ job = NoJob /\ Event
    /\ UNCHANGED <<up, recent, running, queue, frames>>
Becomes(w) == s' = w.s /\ d' = w.d /\ UNCHANGED <<disk, job, saved>>

\* Any row b can be selected; the choice itself is no operation.
Selecting(b, w) == [w EXCEPT !.s.selected = b.id]
RowBecomes(b) == Becomes(Selecting(b, SetRow(World, b)))

\* The daemon's bus keeps its name.
Rename(b, n) ==
    /\ Operation /\ n # b.name
    /\ Becomes(Selecting(b, SetRow([World EXCEPT !.d = Forgotten(@, b)], [b EXCEPT !.name = n])))

ToggleEnabled(b) == Operation /\ RowBecomes([b EXCEPT !.enabled = ~@])

EditFilters(b, l) == Operation /\ l # b.filters /\ RowBecomes([b EXCEPT !.filters = l])

TypeRecordPath(b) == Operation /\ ~b.file /\ RowBecomes([b EXCEPT !.file = TRUE])

AttachMock(b) == Operation /\ b.iface = "none" /\ RowBecomes([b EXCEPT !.iface = "mock"])

Tell(b, word, part, value, row, lost) ==
    Becomes(Selecting(b, SetRow([World EXCEPT !.d = Command(@, b, word, part, value, lost)], row)))

AttachUnchecked(b, ok, lost) ==     \* faulty: an ERR answer leaves the interface shown
    /\ Operation /\ b.iface = "none" /\ s.connected
    /\ Tell(b, "capture", "cap", ok, [b EXCEPT !.iface = "net"], lost)

\* attachIface, udp and tcp: only an answer that begins with ERR takes it back.
AttachNet(b, ok, lost) ==
    LET refused == Heard(lost, b.id, "capture") /\ ~(ok /\ d[b.name].live) IN
    /\ Operation /\ b.iface = "none" /\ s.connected
    /\ Tell(b, "capture", "cap", ok, [b EXCEPT !.iface = IF refused THEN "none" ELSE "net"], lost)

Detach(b, lost) ==
    Operation /\ b.iface # "none" /\ Becomes(Selecting(b, DetachIface(World, b.id, lost)))

\* record on: fails when the file does not open.  The window looks for OK.
Recording(b, ok, lost) == ok /\ d[b.name].live /\ Heard(lost, b.id, "record")

StartRecord(b, ok, lost) ==
    /\ Operation /\ ~b.rec /\ s.connected /\ b.file
    /\ Tell(b, "record", "rec", ok, [b EXCEPT !.rec = Recording(b, ok, lost)], lost)

StopRecordButton(b, lost) ==
    Operation /\ b.rec /\ s.connected /\ Becomes(Selecting(b, StopRecord(World, b.id, lost)))

StartForwardButton(b, ok, lost) ==
    /\ Operation /\ ~b.fwd /\ s.connected
    /\ Becomes(Selecting(b, StartForward(World, b.id, ok, lost)))

StopForward(b, lost) ==
    /\ Operation /\ b.fwd /\ s.connected
    /\ Tell(b, "stop-forward", "fwd", FALSE, [b EXCEPT !.fwd = FALSE], lost)

\* global_recording as the bus list redraws it.
AnyRecording(st) == st.globalRec /\ \E b \in Rows(st) : b.rec

StartRecordAll(ok, lost) ==
    LET one(a, b) ==
            SetRow([a EXCEPT !.d = Command(@, b, "record", "rec", ok, lost)],
                   [b EXCEPT !.file = TRUE, !.rec = Recording(b, ok, lost)])
        all == ForEachRow(one, World)
    IN  /\ Operation /\ s.buses # <<>> /\ s.connected /\ ~AnyRecording(s)
        /\ Becomes([all EXCEPT !.s.globalRec = \E b \in Rows(all.s) : b.rec])

StopRecordAll(lost) ==
    LET one(a, b) == IF ~b.rec THEN a
                     ELSE SetRow([a EXCEPT !.d = Command(@, b, "stoprec", "rec", FALSE, lost)],
                                 [b EXCEPT !.rec = FALSE])
    IN  /\ Operation /\ AnyRecording(s)
        /\ Becomes([ForEachRow(one, World) EXCEPT !.s.globalRec = FALSE])

\* The rows the bus list counts as ready for a common replay: those with a file (the
\* destination has a default).
ReadyRows(st) == {b \in Rows(st) : b.file}

\* Forwarding is started where it is off; the replays run in the daemon.
StartReplayAll(ok, lost) ==
    LET one(a, b) == IF ~b.file \/ b.fwd THEN a ELSE StartForward(a, b.id, ok, lost)
    IN  /\ Operation /\ s.connected /\ ReadyRows(s) # {}
        /\ Becomes(ForEachRow(one, World))

\* replayFile, of a file the user names: the row stays as it is, and so does the bus,
\* but for the frames it will carry.
ReplayFile(b, lost) == Operation /\ s.connected /\ Tell(b, "replay", "live", TRUE, b, lost)

\* "+ New Bus" names the row by the length of the list, whatever is in it.
NewBusButton(ack, lost) ==
    /\ Operation /\ Len(s.buses) < MaxBuses
    /\ Becomes(NewBus(World, Len(s.buses) + 1, ack, lost))

DeleteButton(i, lost) == Operation /\ Becomes(DeleteBus(World, i, lost))

NewProject(ack, lost) ==
    /\ Operation
    /\ Becomes(NewBus([DeleteAll(World, lost) EXCEPT !.s.path = NoPath, !.s.globalRec = FALSE,
                                                     !.s.needsSync = FALSE], 1, ack, lost))

OpenProject(p, lost) ==
    /\ Operation
    /\ LET w == LoadProject(World, p, lost) IN s' = w.s /\ d' = w.d
    /\ IF Readable(p) THEN Pending("load", p, disk[p].rows) ELSE UNCHANGED <<job, saved>>
    /\ UNCHANGED disk

SaveProject(p, how) ==
    /\ Operation
    /\ SaveFile("save", p, how)
    /\ s' = IF how = "refused" THEN s ELSE [s EXCEPT !.path = p]
    /\ UNCHANGED d

Inspector(b) ==
    LET losses(word) == LossesOf({<<b.id, word>>}) IN
    \/ \E n \in BusNames : Rename(b, n)
    \/ ToggleEnabled(b)
    \/ \E l \in FilterLists : EditFilters(b, l)
    \/ TypeRecordPath(b)
    \/ AttachMock(b)
    \/ \E lost \in losses("stop-capture") : Detach(b, lost)
    \/ \E lost \in losses("stoprec") : StopRecordButton(b, lost)
    \/ \E lost \in losses("stop-forward") : StopForward(b, lost)
    \/ \E lost \in losses("replay") : ReplayFile(b, lost)
    \/ \E ok \in BOOLEAN, lost \in losses("capture") : AttachNet(b, ok, lost)
    \/ \E ok \in BOOLEAN, lost \in losses("record") : StartRecord(b, ok, lost)
    \/ \E ok \in BOOLEAN, lost \in losses("forward-udp") : StartForwardButton(b, ok, lost)

BusList ==
    \/ \E b \in Rows(s) : \E lost \in LossesOf(DeleteCommands({b})) : DeleteButton(b.id, lost)
    \/ \E lost \in LossesOf(EveryRow("stoprec")) : StopRecordAll(lost)
    \/ \E ok \in BOOLEAN, lost \in LossesOf(EveryRow("record")) : StartRecordAll(ok, lost)
    \/ \E ok \in BOOLEAN, lost \in LossesOf(EveryRow("forward-udp")) : StartReplayAll(ok, lost)
    \/ \E ack \in BOOLEAN, lost \in LossesOf(NewCommands({s.nextId})) : NewBusButton(ack, lost)

Project ==
    \/ \E ack \in BOOLEAN, lost \in LossesOf(DeleteCommands(Rows(s)) \cup NewCommands({s.nextId})) :
            NewProject(ack, lost)
    \/ \E p \in Paths, lost \in LossesOf(DeleteCommands(Rows(s))) : OpenProject(p, lost)
    \/ \E p \in Paths, how \in Writes : SaveProject(p, how)

User == Project \/ BusList \/ \E b \in Rows(s) : Inspector(b)

-----------------------------------------------------------------------------
(* Frames: the daemon's write, the reader thread, and the window's tick.       *)

Cap == INSTANCE VbusCap
HeaderSent == Cap!HeaderSize(TRUE)      \* VCapRec as it lies in memory
HeaderRead == Cap!HeaderSize(FALSE)     \* WireHdr

\* A frame is delivered on bus n and written to its subscriber, whose reader thread
\* puts it in the queue.  The reader's header is packed, so the length it finds at
\* offset 20 is the upper half of the time stamp; a message shorter than that is
\* dropped.  (The pipe between the two is left out: a message still in it when its
\* row is removed is lost, as it is from the queue.)
Carry(n, len) ==
    LET f == [seq |-> frames + 1, vlan |-> 0, size |-> TsHi % 65536] IN
    /\ Event
    /\ d[n].sub # 0
    /\ frames' = frames + 1
    /\ queue' = IF HeaderSent + len < HeaderRead + TsHi THEN queue
                ELSE Append(queue, <<d[n].sub, f>>)
    /\ UNCHANGED <<up, d, disk, recent, running, s, job, saved>>

MockPacket == [seq |-> 0, vlan |-> 100, size |-> 64]

PushAtBack(row, p) ==       \* faulty: push_back
    IF ~row.enabled \/ ~PassesFilters(row.filters, p) THEN row
    ELSE [row EXCEPT !.ring = IF Len(@) < RingCap THEN Append(@, p) ELSE @]

\* A packet enters a row's ring, newest first, unless the row is off or filters it.
Push(row, p) ==
    IF ~row.enabled \/ ~PassesFilters(row.filters, p) THEN row
    ELSE [row EXCEPT !.ring = <<p>> \o SubSeq(@, 1, IF Len(@) < RingCap THEN Len(@)
                                                                     ELSE RingCap - 1)]

\* The ping of every 2 s, which a daemon that is there may miss; on a rising edge a loaded
\* project is synced.
Ping(w, answered, ack, lost) ==
    LET seen == [w EXCEPT !.s.connected = up /\ answered]
    IN  IF seen.s.connected /\ ~w.s.connected /\ w.s.needsSync
        THEN SyncBusesToDaemon(seen, ack, lost) ELSE seen

Drain(st) ==
    [st EXCEPT !.buses = [k \in DOMAIN @ |->
        Loop(LAMBDA row, j : IF queue[j][1] = row.id THEN Push(row, queue[j][2]) ELSE row,
             @[k], Len(queue))]]

Mock(st) ==
    IF st.connected THEN st
    ELSE [st EXCEPT !.buses = [k \in DOMAIN @ |-> IF @[k].sub THEN @[k]
                                                   ELSE Push(@[k], MockPacket)]]

\* Model::tick, and the bus list's look at global_recording in the same frame.  (w and
\* st are each one value; bound like this, TLC evaluates them once per step.)
Tick(w0) ==
    /\ running /\ job = NoJob
    /\ queue' = <<>>
    /\ UNCHANGED <<up, disk, recent, running, job, saved, frames, events>>
    /\ \E w \in {w0} : \E st \in {Mock(Drain(w.s))} :
        /\ s' = [st EXCEPT !.globalRec = AnyRecording(st)]
        /\ d' = w.d

\* Between two pings, and with one.
TickOnly == Tick(World)
TickPing(answered) ==
    \E ack \in BOOLEAN, lost \in IF s.needsSync THEN LossesOf(SyncCommands) ELSE {{}} :
        Tick(Ping(World, answered, ack, lost))

-----------------------------------------------------------------------------
(* The daemon's process.                                                       *)

DaemonStops ==
    /\ up /\ up' = FALSE
    /\ d' = [n \in BusNames |-> NoBus]
    /\ UNCHANGED <<disk, recent, running, s, queue, job, saved, frames, events>>

DaemonStarts ==
    /\ ~up /\ up' = TRUE
    /\ UNCHANGED <<d, disk, recent, running, s, queue, job, saved, frames, events>>

Next ==
    \/ Launch
    \/ \E how \in Writes : Exit(how) \/ Finish(how)
    \/ Killed
    \/ User
    \/ \E n \in BusNames, len \in Lens : Carry(n, len)
    \/ TickOnly
    \/ \E answered \in BOOLEAN : TickPing(answered)
    \/ DaemonStops
    \/ DaemonStarts

Spec == Init /\ [][Next]_vars

\* The window's thread goes on with what it has begun; its loop runs, its clock passes
\* 2 s again and again, and while buses wait for their sync a daemon that stays does not
\* miss every ping.
FairSpec ==
    /\ Spec
    /\ WF_vars(\E how \in Writes : Finish(how))
    /\ WF_vars(s.needsSync /\ TickPing(TRUE))

-----------------------------------------------------------------------------
\* Packets, rows, the window's state and the daemon's buses.
Packets == [seq : Nat, vlan : Nat, size : Nat]
RowSet == [id : Nat \ {0}, name : BusNames, iface : {"none", "mock", "net"},
           rec : BOOLEAN, fwd : BOOLEAN, file : BOOLEAN, enabled : BOOLEAN,
           filters : FilterLists \cup {<<>>}, ring : Seq(Packets), sub : BOOLEAN, born : Nat]
StateSet == [buses : Seq(RowSet), nextId : Nat \ {0}, connected : BOOLEAN, needsSync : BOOLEAN,
             selected : Nat, globalRec : BOOLEAN, path : Paths \cup {NoPath}, missed : BOOLEAN]
BusSet == [live : BOOLEAN, rec : BOOLEAN, cap : BOOLEAN, fwd : BOOLEAN, sub : Nat,
           users : SUBSET Nat]
KeptRows == [name : BusNames, file : BOOLEAN]
JobSet == {NoJob} \cup [kind : {"save", "load", "exit"}, path : Paths]

\* The shape of the state; the selection is a row of the list, or none, and rows are
\* told apart by their ids.
TypeOK ==
    /\ up \in BOOLEAN /\ running \in BOOLEAN /\ frames \in Nat /\ events \in Nat
    /\ d \in [BusNames -> BusSet]
    /\ \A n \in BusNames : ~d[n].live => d[n] = NoBus
    /\ disk \in [Paths -> [kind : {"absent", "good", "bad"}, rows : Seq(KeptRows)]]
    /\ recent \in Paths \cup {NoPath} /\ job \in JobSet /\ saved \in SUBSET Seq(KeptRows)
    /\ s \in StateSet
    /\ s.selected \in {b.id : b \in Rows(s)} \cup {0}
    /\ \A j, k \in DOMAIN s.buses : j # k => s.buses[j].id # s.buses[k].id
    /\ queue \in Seq((Nat \ {0}) \X Packets)

\* What a row shows is what the daemon does, neither more nor less, for a bus that only
\* this row has had commands about and that no stop or capture of it failed to reach:
\* recording, capture and forwarding, whichever other commands were refused or lost.
ShownIsTrue ==
    \A b \in Rows(s) :
        LET bus == d[b.name] IN
        bus.live /\ bus.users = {b.id} =>
            b.rec = bus.rec /\ b.fwd = bus.fwd /\ (b.iface = "net") = bus.cap

\* A bus is in the daemon without the row it was made for only if that row was renamed,
\* or its window ended, or a command that would have ended it did not reach the daemon;
\* and no subscriber is there without its row, whatever was lost.
NothingLeftBehind ==
    \A n \in BusNames :
        /\ d[n].users \cap (1..s.nextId) # {} /\ 0 \notin d[n].users =>
                \E b \in Rows(s) : b.id \in d[n].users
        /\ d[n].sub # 0 => \E b \in Rows(s) : b.id = d[n].sub

\* A row's packets lie newest first, are at most RingCap, are none of an earlier
\* row's, and once real frames have come no synthetic one covers them.
RingOrdered ==
    \A b \in Rows(s) :
        /\ Len(b.ring) <= RingCap
        /\ \A j, k \in DOMAIN b.ring :
            j < k => b.ring[j].seq > b.ring[k].seq \/ b.ring[j].seq + b.ring[k].seq = 0
        /\ \A k \in DOMAIN b.ring : b.ring[k].seq = 0 \/ b.ring[k].seq > b.born

\* Every packet added to a row is one the row's filters select: an Include whose pattern,
\* taken for the whole of 'vlan:N size:M', fits, an Exclude whose does not.  (So the panel's
\* hint, tokens such as vlan:100, and its ready-made Exclude size:* never fit.)
OnlySelectedShown ==
    [][\A b \in Rows(s), c \in Rows(s') :
        running /\ b.id = c.id =>
            \A p \in ToSet(c.ring) \ ToSet(b.ring) : Selects(b.filters, p)]_vars

\* The window comes back with the rows it last wrote or read, whether it was closed or
\* killed; killed within a save or a load, or refused the second file, with those of that
\* project or of the one before; and if a write was cut short, with whatever is there.
RestoredOnLaunch ==
    [][~running /\ running' /\ saved # {} => Kept(s') \in saved]_vars

\* A project that is loaded, whether the daemon runs or not and whatever the window
\* believes, has all its buses there once the daemon stays, unless the window ends, the
\* user starts a new project, or the sync was sent and one of its creates was lost: to a
\* busy pipe, or to a daemon that had ended since the last ping.
SyncedOnConnect ==
    (running /\ (job.kind = "load" \/ (s.needsSync /\ up)))
        ~> (~running \/ s.path = NoPath \/ s.missed \/ (s.needsSync /\ ~up)
                \/ \A b \in Rows(s) : d[b.name].live)
=============================================================================
