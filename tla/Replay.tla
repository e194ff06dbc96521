------------------------------- MODULE Replay -------------------------------
(***************************************************************************)
(* What lies between a capture and its replay: the time stamps a recording  *)
(* ends up with, and the times at which a replay thread sends the frames    *)
(* again (Recorder and Replayer, vbus/src/taps; the commands replay,        *)
(* replay-udp and replay-sync, vbus/src/daemon/vbusd.cpp).                  *)
(*                                                                          *)
(* A record carries the time of Send, but records are written in the order  *)
(* of delivery, so a stamp may be older than the one before it.  A replay   *)
(* subtracts an origin from each stamp in unsigned arithmetic, multiplies   *)
(* by the scale in floating point and converts back.  Times are numbers of  *)
(* W bits, W being 64 in the code.  The commands are given once everything  *)
(* sent is on file, and what replay sends is not recorded again.            *)
(***************************************************************************)
EXTENDS Naturals, Sequences, FiniteSets, Bags, FiniteSetsExt

CONSTANTS
    Streams,    \* the buses that are recorded, one file each
    Senders,    \* the threads that send on them
    Delays,     \* serialisation delays of the frames
    Scales,     \* the factors K of exact (1) and scale:K, as pairs <<num, den>>
    Slack,      \* the 50 ms a synchronised replay leaves before it starts
    W,          \* width of a time
    Ulp,        \* distance of the doubles next below 2^W, 2048 in the code
    Boot,       \* the clock when the first frame is sent
    LastSend,   \* bound: no frame is stamped later
    LastStart,  \* bound: the clock waits here until a replay has started
    MaxTime,    \* bound: the clock stops here
    MaxRecords  \* bound: frames recorded in all

ASSUME ReplayAssumption ==
    /\ Delays \subseteq Nat /\ Delays # {} /\ IsFiniteSet(Delays)
    /\ Scales \subseteq (Nat \ {0}) \X (Nat \ {0})
    /\ Boot \in Nat \ {0} /\ Slack \in Nat
    /\ LastSend \in Nat /\ LastStart \in Nat /\ MaxTime \in Nat
    /\ Boot <= LastSend /\ LastSend <= LastStart /\ LastStart <= MaxTime
    /\ W \in Nat \ {0} /\ MaxTime < 2 ^ (W - 1)
    /\ Ulp \in Nat \ {0} /\ Ulp % 2 = 0
    \* Arithmetic, written out for the provers, which know nothing of powers.
    /\ 2 ^ (W - 1) \in Nat /\ 2 ^ W = 2 * 2 ^ (W - 1)

VARIABLES
    now,        \* the clock
    snd,        \* snd[k]: where sender k is in Send, and its frame
    pend,       \* frames in the scheduler
    file,       \* file[s]: the records in the capture file of s
    cmd,        \* the replay command that was given
    th,         \* th[s]: the thread that replays file[s]
    sentAt      \* history: when each record of file[s] was sent

recording == <<snd, pend, file>>
vars == <<now, recording, cmd, th, sentAt>>

Idle == [pc |-> "idle"]
NoCmd  == [kind |-> "none", timing |-> FALSE, scale |-> <<1, 1>>]
NoThread == [pc |-> "off", start |-> 0, first |-> 0, fireAt |-> 0]

Init ==
    /\ now = Boot
    /\ snd = [k \in Senders |-> Idle]
    /\ pend = EmptyBag
    /\ file = [s \in Streams |-> <<>>]
    /\ cmd = NoCmd
    /\ th = [s \in Streams |-> NoThread]
    /\ sentAt = [s \in Streams |-> <<>>]

Sending == {k \in Senders : snd[k] # Idle}
Records ==
    MapThenSumSet(LAMBDA s : Len(file[s]), Streams)
        + BagCardinality(pend) + Cardinality(Sending)
Started == cmd.kind = "sync" \/ \E s \in Streams : th[s].pc \notin {"off", "new"}

Tick ==
    /\ now < IF Started THEN MaxTime ELSE LastStart
    /\ now' = now + 1
    /\ UNCHANGED <<recording, cmd, th, sentAt>>

-----------------------------------------------------------------------------
(* The recording: EthHub::Send stamps, reads the clock again for the time   *)
(* of delivery and posts; the scheduler delivers and the recorder writes.   *)

Stamp(k, s) ==
    /\ cmd = NoCmd /\ now <= LastSend /\ snd[k] = Idle
    /\ Records < MaxRecords
    /\ snd' = [snd EXCEPT ![k] = [pc |-> "stamped", bus |-> s, ts |-> now]]
    /\ UNCHANGED <<now, pend, file, cmd, th, sentAt>>

\* deliverAt = m_Clock.Now() + delay
Schedule(k, d) ==
    /\ snd[k].pc = "stamped"
    /\ snd' = [snd EXCEPT ![k] = [pc |-> "post", bus |-> @.bus, ts |-> @.ts, due |-> now + d]]
    /\ UNCHANGED <<now, pend, file, cmd, th, sentAt>>

\* m_Scheduler.post: the scheduler keeps the order of equal due times open.
Post(k) ==
    /\ snd[k].pc = "post"
    /\ pend' = pend (+) SetToBag({[bus |-> snd[k].bus, ts |-> snd[k].ts, due |-> snd[k].due]})
    /\ snd' = [snd EXCEPT ![k] = Idle]
    /\ UNCHANGED <<now, file, cmd, th, sentAt>>

\* run_until takes the earliest due first; the callback is Recorder::Write, which
\* writes frame.Ts_ns.
Write(f) ==
    /\ f.due <= now
    /\ \A g \in BagToSet(pend) : f.due <= g.due
    /\ pend' = pend (-) SetToBag({f})
    /\ file' = [file EXCEPT ![f.bus] = Append(@, f.ts)]
    /\ UNCHANGED <<now, snd, cmd, th, sentAt>>

-----------------------------------------------------------------------------
(* The commands.  The mode is burst (no timing) or a scale.                 *)

Recorded == cmd = NoCmd /\ pend = EmptyBag /\ Sending = {}

Command(k) ==
    cmd' \in {[kind |-> k, timing |-> FALSE, scale |-> <<1, 1>>]} \union
            {[kind |-> k, timing |-> TRUE, scale |-> x] : x \in Scales}

\* replay and replay-udp: one file, one thread, which finds out its own origin.
ReplayCmd(s) ==
    /\ Recorded
    /\ Command("replay")
    /\ th' = [th EXCEPT ![s].pc = "new"]
    /\ UNCHANGED <<now, recording, sentAt>>

FirstStamps == {file[s][1] : s \in {u \in Streams : file[u] # <<>>}} \ {0}
GlobalFirst == IF FirstStamps = {} THEN 0 ELSE Min(FirstStamps)

\* Faulty variants, here and below, differ from the definition they precede by one
\* plausible slip; each violates the property named with it in PROJECT.json.
ReplaySyncEachOwn ==        \* each stream counts from its own first record
    /\ Recorded
    /\ Command("sync")
    /\ th' = [s \in Streams |->
                [NoThread EXCEPT !.pc = "new", !.start = now + Slack,
                                 !.first = IF file[s] = <<>> THEN 0 ELSE file[s][1]]]
    /\ UNCHANGED <<now, recording, sentAt>>

\* replay-sync: the earliest of the files' first stamps and a start in common.
ReplaySyncCmd ==
    /\ Recorded
    /\ Command("sync")
    /\ th' = [s \in Streams |->
                [NoThread EXCEPT !.pc = "new", !.start = now + Slack, !.first = GlobalFirst]]
    /\ UNCHANGED <<now, recording, sentAt>>

-----------------------------------------------------------------------------
(* The replay threads.                                                      *)

\* A replay's start is when its thread gets to run; a synchronised one waits.
Begin(s) ==
    /\ th[s].pc = "new"
    /\ IF cmd.kind = "sync"
       THEN now >= th[s].start /\ th' = [th EXCEPT ![s].pc = "next"]
       ELSE th' = [th EXCEPT ![s].pc = "next", ![s].start = now]
    /\ UNCHANGED <<now, recording, cmd, sentAt>>

\* The file cannot be opened any more, or there is no socket: the thread returns.
BeginFails(s) ==
    /\ th[s].pc = "new"
    /\ th' = [th EXCEPT ![s].pc = "done"]
    /\ UNCHANGED <<now, recording, cmd, sentAt>>

Scaled(x) == (x * cmd.scale[1]) \div cmd.scale[2]

\* The conversion to double keeps 53 bits: exact for small numbers, and near the top
\* of the range the nearest multiple of Ulp, which may be 2^W.
Double(d) == IF d < 2 ^ (W - 1) THEN d ELSE ((d + Ulp \div 2) \div Ulp) * Ulp

\* static_cast<uint64_t>((f.Ts_ns - first) * scale): a difference below 0 wraps to the
\* top of the range, and a product outside it converts to anything.
Offsets(ts, first) ==
    LET p == Scaled(Double((ts + 2 ^ W - first) % 2 ^ W))
    IN  IF p < 2 ^ W THEN {p} ELSE 0..(2 ^ W - 1)

\* The synchronised replay has its origin already; the others take the first stamp
\* that is not 0.
OriginFor(s, ts) ==
    IF cmd.kind = "sync" \/ th[s].first # 0 THEN th[s].first ELSE ts

Sent(s) == Len(sentAt[s])

ReadRecordNoWrap(s) ==      \* the sum does not wrap
    /\ th[s].pc = "next" /\ Sent(s) < Len(file[s])
    /\ LET ts == file[s][Sent(s) + 1]
           first == OriginFor(s, ts)
       IN IF cmd.timing
          THEN \E o \in Offsets(ts, first) :
                 th' = [th EXCEPT ![s].pc = "wait", ![s].first = first,
                                  ![s].fireAt = th[s].start + o]
          ELSE th' = [th EXCEPT ![s].pc = "send"]
    /\ UNCHANGED <<now, recording, cmd, sentAt>>

\* rep.Next(f), and the computation of fire_at unless the mode is burst.
ReadRecord(s) ==
    /\ th[s].pc = "next" /\ Sent(s) < Len(file[s])
    /\ LET ts == file[s][Sent(s) + 1]
           first == OriginFor(s, ts)
       IN IF cmd.timing
          THEN \E o \in Offsets(ts, first) :
                 th' = [th EXCEPT ![s].pc = "wait", ![s].first = first,
                                  ![s].fireAt = (th[s].start + o) % 2 ^ W]
          ELSE th' = [th EXCEPT ![s].pc = "send"]
    /\ UNCHANGED <<now, recording, cmd, sentAt>>

EndOfFileEarly(s) ==        \* the end is reported together with the last record
    /\ th[s].pc = "next" /\ Sent(s) + 1 >= Len(file[s])
    /\ th' = [th EXCEPT ![s].pc = "done"]
    /\ UNCHANGED <<now, recording, cmd, sentAt>>

EndOfFile(s) ==
    /\ th[s].pc = "next" /\ Sent(s) = Len(file[s])
    /\ th' = [th EXCEPT ![s].pc = "done"]
    /\ UNCHANGED <<now, recording, cmd, sentAt>>

FireBeforeDue(s) ==         \* while (Now() + 1 < fire_at)
    /\ th[s].pc = "send" \/ (th[s].pc = "wait" /\ now + 1 >= th[s].fireAt)
    /\ sentAt' = [sentAt EXCEPT ![s] = Append(@, now)]
    /\ th' = [th EXCEPT ![s].pc = "next"]
    /\ UNCHANGED <<now, recording, cmd>>

\* The wait for fire_at is over; busPtr->Send or sendto.
Fire(s) ==
    /\ th[s].pc = "send" \/ (th[s].pc = "wait" /\ now >= th[s].fireAt)
    /\ sentAt' = [sentAt EXCEPT ![s] = Append(@, now)]
    /\ th' = [th EXCEPT ![s].pc = "next"]
    /\ UNCHANGED <<now, recording, cmd>>

Thread(s) == Begin(s) \/ BeginFails(s) \/ ReadRecord(s) \/ EndOfFile(s) \/ Fire(s)

Next ==
    \/ Tick
    \/ \E k \in Senders, s \in Streams : Stamp(k, s)
    \/ \E k \in Senders, d \in Delays : Schedule(k, d)
    \/ \E k \in Senders : Post(k)
    \/ \E f \in BagToSet(pend) : Write(f)
    \/ (\E s \in Streams : ReplayCmd(s)) \/ ReplaySyncCmd
    \/ \E s \in Streams : Thread(s)

\* Time passes and the replay threads run.
Fairness == WF_vars(Tick) /\ \A s \in Streams : WF_vars(Thread(s))

Spec == Init /\ [][Next]_vars
FairSpec == Spec /\ Fairness

-----------------------------------------------------------------------------
DueTimes == Boot..(LastStart + Max(Delays))
TypeOK ==
    /\ now \in Boot..MaxTime
    /\ snd \in [Senders -> {Idle}
                \union [pc : {"stamped"}, bus : Streams, ts : Boot..LastSend]
                \union [pc : {"post"}, bus : Streams, ts : Boot..LastSend, due : DueTimes]]
    /\ IsABag(pend)
    /\ BagToSet(pend) \subseteq [bus : Streams, ts : Boot..LastSend, due : DueTimes]
    /\ file \in [Streams -> Seq(Boot..LastSend)]
    /\ cmd \in [kind : {"none", "replay", "sync"}, timing : BOOLEAN,
                scale : Scales \union {<<1, 1>>}]
    /\ th \in [Streams -> [pc : {"off", "new", "next", "wait", "send", "done"},
                           start : 0..(MaxTime + Slack), first : 0..LastSend,
                           fireAt : 0..(2 ^ W - 1)]]
    /\ sentAt \in [Streams -> Seq(Boot..MaxTime)]

\* Whatever a capture may hold, its length scaled is added to the start of a replay
\* without leaving the range of a time.
NoOverflow ==
    \A x \in Scales \union {<<1, 1>>} : \A d \in 0..LastSend :
        MaxTime + Slack + (d * x[1]) \div x[2] < 2 ^ W

\* Record i of s is not older than the origin thread s counts from.
InTime(s, i) == file[s][i] >= th[s].first

\* No such record is replayed earlier, counted from the start, than its scaled distance
\* from the origin (vbusd.cpp:305-311, 419-425, 507-513).
NeverBeforeOffset ==
    cmd.timing =>
        \A s \in Streams : \A i \in 1..Sent(s) :
            InTime(s, i) =>
                sentAt[s][i] >= th[s].start + Scaled(file[s][i] - th[s].first)

Due(s) == file[s][Sent(s) + 1]
Waits(s) == th[s].pc = "wait" /\ InTime(s, Sent(s) + 1)

\* The streams of a synchronised replay keep the distances they had in the capture:
\* the times two of them wait for differ by what the stamps differ, scaled
\* (vbusd.cpp:436-441).
SharedTimebase ==
    cmd.kind = "sync" /\ cmd.scale[2] = 1 =>
        \A s, t \in Streams :
            Waits(s) /\ Waits(t) =>
                th[s].fireAt + Scaled(Due(t)) = th[t].fireAt + Scaled(Due(s))

\* The origin a thread has or will take.
Origin(s) == IF th[s].first # 0 THEN th[s].first ELSE file[s][1]

\* A replay of a file with no record older than the origin sends every record of it,
\* in every mode (vbusd.cpp:304-313).
AllSent ==
    \A s \in Streams :
        (/\ th[s].pc = "next"
         /\ \A i \in 1..Len(file[s]) : file[s][i] >= Origin(s))
        ~> (th[s].pc = "done" /\ Sent(s) = Len(file[s]))

\* protocol.md:182: scale:K "Multiplies all inter-frame gaps by K (K < 1 = faster,
\* K > 1 = slower)".  No record is then kept waiting for longer, counted from the
\* start, than the whole recording lasted, scaled (vbusd.cpp:307-308).
GapsMultiplied ==
    LET stamps == UNION {{file[s][i] : i \in 1..Len(file[s])} : s \in Streams}
    IN  \A s \in Streams :
            th[s].pc = "wait" =>
                th[s].fireAt <= th[s].start + Scaled(Max(stamps) - Min(stamps))
=============================================================================
