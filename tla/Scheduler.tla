----------------------------- MODULE Scheduler ------------------------------
(***************************************************************************)
(* vbus::Scheduler (vbus/src/core/scheduler.{h,cpp}) with its callers.      *)
(*                                                                          *)
(* A job is one callback.  The thread that sends a frame reads the clock,   *)
(* adds the serialisation delay (Stamp) and only later gets to post() the   *)
(* job under the scheduler's mutex (Post).  One driver thread, the daemon's *)
(* main loop, repeatedly calls run_until(Now()): the clock is read first,   *)
(* then every item due by that reading is popped from the heap while the    *)
(* mutex is held, then the mutex is dropped and the popped items are run in *)
(* order.  A callback may itself send (an endpoint's On_rx may call Send):  *)
(* Children[j] are the jobs that job j's callback posts.                    *)
(*                                                                          *)
(* The heap breaks ties between equal due times arbitrarily, because        *)
(* std::priority_queue is not stable.                                       *)
(***************************************************************************)
EXTENDS Naturals, Sequences

CONSTANTS
    Jobs,           \* the callbacks, each posted at most once
    Delay,          \* Delay[j]: serialisation delay of the frame behind j
    Children,       \* Children[j]: the jobs sent from within j's callback
    MaxTime,        \* bound of the model: the clock stops here
    HostCallsRun    \* TRUE when the host also calls run(), not only run_until

ASSUME SchedulerAssumption ==
    /\ Delay \in [Jobs -> Nat]
    /\ Children \in [Jobs -> SUBSET Jobs]
    /\ MaxTime \in Nat
    /\ HostCallsRun \in BOOLEAN

VARIABLES
    now,        \* the steady clock, in ticks
    stage,      \* stage[j]: where job j is between Send and the heap's pop
    due,        \* due[j]: deliverAt, computed by the sender
    pc,         \* the driver: "idle", "draining" (mutex held), "running"
    mode,       \* which call the driver is in: "run_until" or "run"
    tmax,       \* argument of the run_until call in progress
    popped,     \* every job popped so far, in the order of the pops
    nrun,       \* how many of them have been run; the others are `ready`
    gone        \* history: gone[j] is what had been popped when j was posted

vars == <<now, stage, due, pc, mode, tmax, popped, nrun, gone>>

Stages == {"new", "stamped", "queued", "popped"}

TypeOK ==
    /\ now \in Nat
    /\ stage \in [Jobs -> Stages]
    /\ due \in [Jobs -> Nat]
    /\ pc \in {"idle", "draining", "running"}
    /\ mode \in {"run_until", "run"}
    /\ tmax \in Nat
    /\ popped \in Seq(Jobs)
    /\ nrun \in 0..Len(popped)
    /\ gone \in [Jobs -> SUBSET Jobs]

-----------------------------------------------------------------------------
Popped == {popped[i] : i \in 1..Len(popped)}
Queue == {j \in Jobs : stage[j] = "queued"}
HasRun(j) == \E i \in 1..nrun : popped[i] = j

\* The job whose callback has been entered last, if it may still be executing.
InCallback(j) == pc = "running" /\ nrun > 0 /\ popped[nrun] = j

IsChild(j) == \E p \in Jobs : j \in Children[p]

\* The callback entered last has made every call it makes.
CallbackDone ==
    nrun > 0 => \A c \in Children[popped[nrun]] : stage[c] \in {"queued", "popped"}

\* m_mtx is free: run_until and run hold it for the whole of the drain.
MutexFree == pc # "draining"

Init ==
    /\ now = 0
    /\ stage = [j \in Jobs |-> "new"]
    /\ due = [j \in Jobs |-> 0]
    /\ pc = "idle"
    /\ mode = "run_until"
    /\ tmax = 0
    /\ popped = <<>>
    /\ nrun = 0
    /\ gone = [j \in Jobs |-> {}]

Tick ==
    /\ now < MaxTime
    /\ now' = now + 1
    /\ UNCHANGED <<stage, due, pc, mode, tmax, popped, nrun, gone>>

\* Send computes deliverAt = Now() + delay; the post comes later.
Stamp(j) ==
    /\ stage[j] = "new"
    /\ IsChild(j) => \E p \in Jobs : j \in Children[p] /\ InCallback(p)
    /\ stage' = [stage EXCEPT ![j] = "stamped"]
    /\ due' = [due EXCEPT ![j] = now + Delay[j]]
    /\ UNCHANGED <<now, pc, mode, tmax, popped, nrun, gone>>

\* post(): push under the mutex.
Post(j) ==
    /\ stage[j] = "stamped"
    /\ MutexFree
    /\ stage' = [stage EXCEPT ![j] = "queued"]
    /\ gone' = [gone EXCEPT ![j] = Popped]
    /\ UNCHANGED <<now, due, pc, mode, tmax, popped, nrun>>

\* The main loop evaluates g_clk.Now() before run_until takes the mutex.
CallRunUntil ==
    /\ pc = "idle"
    /\ pc' = "draining"
    /\ mode' = "run_until"
    /\ tmax' = now
    /\ UNCHANGED <<now, stage, due, popped, nrun, gone>>

CallRun ==
    /\ HostCallsRun
    /\ pc = "idle"
    /\ pc' = "draining"
    /\ mode' = "run"
    /\ UNCHANGED <<now, stage, due, tmax, popped, nrun, gone>>

\* Faulty variants, here and below, differ from the definition they precede by one
\* plausible slip; each violates the property named with it in PROJECT.json.
DrainableEarly(j) ==        \* rounds the due time down by a tick
    /\ stage[j] = "queued"
    /\ mode = "run_until" => due[j] <= tmax + 1

DrainableStrict(j) ==       \* < where the code has <=
    /\ stage[j] = "queued"
    /\ mode = "run_until" => due[j] < tmax

\* !q.empty() && q.top().t <= tmax; run() has no second conjunct.
Drainable(j) ==
    /\ stage[j] = "queued"
    /\ mode = "run_until" => due[j] <= tmax

IsTopOfMaxHeap(j) == \A k \in Queue : due[j] >= due[k]     \* std::less, not greater
IsTop(j) == \A k \in Queue : due[j] <= due[k]

PopKeepsItem(j) ==          \* top() without pop()
    /\ pc = "draining"
    /\ Drainable(j)
    /\ IsTop(j)
    /\ popped' = Append(popped, j)
    /\ UNCHANGED <<now, stage, due, pc, mode, tmax, nrun, gone>>

\* One turn of the drain loop: move the top of the heap to `ready`.
Pop(j) ==
    /\ pc = "draining"
    /\ Drainable(j)
    /\ IsTop(j)
    /\ stage' = [stage EXCEPT ![j] = "popped"]
    /\ popped' = Append(popped, j)
    /\ UNCHANGED <<now, due, pc, mode, tmax, nrun, gone>>

\* The loop ends and the mutex is released.
EndDrain ==
    /\ pc = "draining"
    /\ \A j \in Jobs : ~Drainable(j)
    /\ pc' = "running"
    /\ UNCHANGED <<now, stage, due, mode, tmax, popped, nrun, gone>>

RunItemPastEnd ==           \* i <= ready.size()
    /\ pc = "running"
    /\ nrun <= Len(popped)
    /\ CallbackDone
    /\ nrun' = nrun + 1
    /\ UNCHANGED <<now, stage, due, pc, mode, tmax, popped, gone>>

RunLastItemOnly ==          \* the loop's index is not the one it calls
    /\ pc = "running"
    /\ nrun < Len(popped)
    /\ CallbackDone
    /\ nrun' = Len(popped)
    /\ UNCHANGED <<now, stage, due, pc, mode, tmax, popped, gone>>

\* item.fn() of the next ready item, once the previous callback has returned.
RunItem ==
    /\ pc = "running"
    /\ nrun < Len(popped)
    /\ CallbackDone
    /\ nrun' = nrun + 1
    /\ UNCHANGED <<now, stage, due, pc, mode, tmax, popped, gone>>

Return ==
    /\ pc = "running"
    /\ nrun = Len(popped)
    /\ CallbackDone
    /\ pc' = "idle"
    /\ UNCHANGED <<now, stage, due, mode, tmax, popped, nrun, gone>>

Driver ==
    \/ CallRunUntil
    \/ CallRun
    \/ \E j \in Jobs : Pop(j)
    \/ EndDrain
    \/ RunItem
    \/ Return

Next ==
    \/ Tick
    \/ \E j \in Jobs : Stamp(j) \/ Post(j)
    \/ Driver

\* The clock advances, the main loop keeps looping, and a thread inside Send
\* or inside a callback keeps executing.  Post needs strong fairness because the
\* driver takes the mutex over and over; it is justified by the main loop, which
\* sleeps up to 1 ms with the mutex free in every turn (vbusd.cpp:599), so a
\* thread blocked on it gets in.  Nobody is obliged to start a Send.
Fairness ==
    /\ WF_vars(Tick)
    /\ WF_vars(Driver)
    /\ \A j \in Jobs : SF_vars(Post(j)) /\ WF_vars(IsChild(j) /\ Stamp(j))

Spec == Init /\ [][Next]_vars
FairSpec == Spec /\ Fairness

-----------------------------------------------------------------------------
\* A pop overtakes only what was posted too late: if a was popped before b
\* although b is due earlier, then b was posted after a had been popped.
\* (The heap of run_until, scheduler.cpp:16-19, across all batches.)
PriorityOrder ==
    \A a, b \in 1..Len(popped) :
        a < b /\ due[popped[a]] > due[popped[b]] => popped[a] \in gone[popped[b]]

\* No job is handed to its callback twice: what has been popped is out of the
\* heap for good and occurs once (the move and pop at scheduler.cpp:17-18).
ExactlyOnce ==
    \A a, b \in 1..Len(popped) : popped[a] = popped[b] => a = b

\* Within run_until no callback starts before its due time, however the clock
\* reading and the drain interleave with senders (scheduler.cpp:11-23).
NeverEarly ==
    [][nrun' > nrun /\ mode = "run_until" => due[popped[nrun']] <= now]_vars

\* A frame whose delivery time the clock reaches is delivered, even when the
\* sender is descheduled between computing the time and posting.
EveryDueJobRuns ==
    \A j \in Jobs : (stage[j] = "stamped" /\ due[j] <= MaxTime) ~> HasRun(j)

\* The scheduler seen as a delay line: a job is held from its post to the start
\* of its callback, and its due time counts from the post.
Held(j) == stage[j] \in {"queued", "popped"}
LineState ==
    [j \in Jobs |-> IF HasRun(j) THEN "done" ELSE IF Held(j) THEN "held" ELSE "new"]
LineDue == [j \in Jobs |-> IF Held(j) THEN due[j] ELSE 0]

DQ == INSTANCE DelayQueue WITH
        Expedite <- HostCallsRun, state <- LineState, due <- LineDue

\* post/run_until/run implement the delay line: every step hands in one job, hands
\* over one job whose time has come, lets time pass, or is invisible.
ImplementsDelayQueue == DQ!Spec

\* And under the fairness above the line never keeps a due job for ever.
ImplementsFairDelayQueue == DQ!FairSpec
=============================================================================
