------------------------- MODULE Scheduler_proofs ---------------------------
(***************************************************************************)
(* Theorems about Scheduler for every set of jobs, every delay and every    *)
(* horizon: type correctness, the order of the pops, no job popped twice,   *)
(* no callback before its time, and the refinement of DelayQueue.           *)
(***************************************************************************)
EXTENDS Scheduler, TLAPS

\* What is in `popped` has left the heap, and the rest has not.
Placement == \A i \in 1..Len(popped) : stage[popped[i]] = "popped"

\* What PriorityOrder needs to be inductive: an item still in the heap that is
\* due before something already popped was posted after that pop.
NoSkip ==
    \A i \in 1..Len(popped), j \in Jobs :
        stage[j] = "queued" /\ due[j] < due[popped[i]] => popped[i] \in gone[j]

\* What NeverEarly needs: the ready items were due at the reading tmax, which
\* is not ahead of the clock.
Timely ==
    /\ pc = "idle" => nrun = Len(popped)
    /\ mode = "run" => HostCallsRun
    /\ pc # "idle" /\ mode = "run_until" =>
          /\ tmax <= now
          /\ \A i \in 1..Len(popped) : nrun < i => due[popped[i]] <= tmax

IInv ==
    /\ TypeOK
    /\ Placement
    /\ ExactlyOnce
    /\ NoSkip
    /\ PriorityOrder
    /\ Timely

-----------------------------------------------------------------------------
\* Every variable keeps its type: the scheduler's state is well formed in
\* every interleaving of senders, clock and driver.
LEMMA TypeInductive == TypeOK /\ [Next]_vars => TypeOK'
<1> SUFFICES ASSUME TypeOK, [Next]_vars PROVE TypeOK'
  OBVIOUS
<1> USE SchedulerAssumption DEF TypeOK, Stages
<1>1. CASE Tick
  BY <1>1 DEF Tick
<1>2. ASSUME NEW j \in Jobs, Stamp(j) PROVE TypeOK'
  <2>1. now + Delay[j] \in Nat
    OBVIOUS
  <2> QED
    BY <1>2, <2>1 DEF Stamp
<1>3. ASSUME NEW j \in Jobs, Post(j) PROVE TypeOK'
  <2>1. Popped \in SUBSET Jobs
    BY DEF Popped
  <2> QED
    BY <1>3, <2>1 DEF Post
<1>4. CASE CallRunUntil
  BY <1>4 DEF CallRunUntil
<1>5. CASE CallRun
  BY <1>5 DEF CallRun
<1>6. ASSUME NEW j \in Jobs, Pop(j) PROVE TypeOK'
  <2>1. popped' \in Seq(Jobs) /\ Len(popped') = Len(popped) + 1
    BY <1>6 DEF Pop
  <2> QED
    BY <1>6, <2>1 DEF Pop
<1>7. CASE EndDrain
  BY <1>7 DEF EndDrain
<1>8. CASE RunItem
  BY <1>8 DEF RunItem
<1>9. CASE Return
  BY <1>9 DEF Return
<1>10. CASE UNCHANGED vars
  BY <1>10 DEF vars
<1> QED
  BY <1>1, <1>2, <1>3, <1>4, <1>5, <1>6, <1>7, <1>8, <1>9, <1>10 DEF Next, Driver

\* What a pop does to the sequence of popped jobs.
LEMMA PopAppends ==
  ASSUME TypeOK, NEW j \in Jobs, Pop(j)
  PROVE  /\ Len(popped') = Len(popped) + 1
         /\ popped'[Len(popped) + 1] = j
         /\ \A i \in 1..Len(popped) : popped'[i] = popped[i]
  BY DEF Pop, TypeOK

\* A pop preserves the invariant: the top of a min-heap is taken.
LEMMA PopPreserves ==
  ASSUME IInv, NEW j \in Jobs, Pop(j), TypeOK'
  PROVE  IInv'
<1> USE DEF TypeOK
<1>1. /\ Len(popped') = Len(popped) + 1
      /\ popped'[Len(popped) + 1] = j
      /\ \A i \in 1..Len(popped) : popped'[i] = popped[i]
  BY PopAppends DEF IInv
<1>2. /\ stage[j] = "queued"
      /\ \A k \in Jobs : stage[k] = "queued" => due[j] <= due[k]
      /\ mode = "run_until" => due[j] <= tmax
  BY DEF Pop, Drainable, IsTop, Queue
<1>3. /\ stage' = [stage EXCEPT ![j] = "popped"]
      /\ UNCHANGED <<now, due, pc, mode, tmax, nrun, gone>>
  BY DEF Pop
<1>4. \A i \in 1..Len(popped) : popped[i] \in Jobs /\ popped[i] # j
  BY <1>2 DEF IInv, Placement
<1>a. /\ stage \in [Jobs -> Stages] /\ nrun \in Nat /\ nrun <= Len(popped)
      /\ \A i \in 1..Len(popped') : i \in 1..Len(popped) \/ i = Len(popped) + 1
  <2>1. /\ stage \in [Jobs -> Stages] /\ Len(popped) \in Nat
        /\ nrun \in Nat /\ nrun <= Len(popped)
    BY DEF IInv
  <2>2. \A n \in Nat : \A i \in 1..(n + 1) : i \in 1..n \/ i = n + 1
    OBVIOUS
  <2> QED
    BY <1>1, <2>1, <2>2
<1>5. Placement'
  <2> SUFFICES ASSUME NEW i \in 1..Len(popped') PROVE stage'[popped'[i]] = "popped"
    BY DEF Placement
  <2>1. CASE i \in 1..Len(popped)
    BY <1>1, <1>3, <1>4, <1>a, <2>1 DEF IInv, Placement
  <2>2. CASE i = Len(popped) + 1
    BY <1>1, <1>3, <1>a, <2>2
  <2> QED
    BY <1>a, <2>1, <2>2
<1>6. ExactlyOnce'
  <2> SUFFICES ASSUME NEW a \in 1..Len(popped'), NEW b \in 1..Len(popped'),
                      popped'[a] = popped'[b]
               PROVE  a = b
    BY DEF ExactlyOnce
  <2>1. CASE a \in 1..Len(popped) /\ b \in 1..Len(popped)
    BY <1>1, <2>1 DEF IInv, ExactlyOnce
  <2>2. CASE a = Len(popped) + 1 \/ b = Len(popped) + 1
    BY <1>1, <1>4, <1>a, <2>2
  <2> QED
    BY <1>a, <2>1, <2>2
<1>7. NoSkip'
  <2> SUFFICES ASSUME NEW i \in 1..Len(popped'), NEW k \in Jobs,
                      stage'[k] = "queued", due'[k] < due'[popped'[i]]
               PROVE  popped'[i] \in gone'[k]
    BY DEF NoSkip
  <2>1. k # j /\ stage[k] = "queued"
    BY <1>3 DEF IInv
  <2>2. CASE i \in 1..Len(popped)
    BY <1>1, <1>3, <2>1, <2>2 DEF IInv, NoSkip
  <2>3. CASE i = Len(popped) + 1
    BY <1>1, <1>2, <1>3, <2>1, <2>3 DEF IInv
  <2> QED
    BY <1>1, <2>2, <2>3 DEF IInv
<1>8. PriorityOrder'
  <2> SUFFICES ASSUME NEW a \in 1..Len(popped'), NEW b \in 1..Len(popped'),
                      a < b, due'[popped'[a]] > due'[popped'[b]]
               PROVE  popped'[a] \in gone'[popped'[b]]
    BY DEF PriorityOrder
  <2>1. a \in 1..Len(popped)
    BY <1>1 DEF IInv
  <2>2. CASE b \in 1..Len(popped)
    BY <1>1, <1>3, <2>1, <2>2 DEF IInv, PriorityOrder
  <2>3. CASE b = Len(popped) + 1
    <3>1. due[j] < due[popped[a]]
      BY <1>1, <1>3, <1>4, <2>1, <2>3 DEF IInv
    <3>2. popped[a] \in gone[j]
      BY <1>2, <2>1, <3>1 DEF IInv, NoSkip
    <3> QED
      BY <1>1, <1>3, <2>1, <2>3, <3>2
  <2> QED
    BY <1>1, <2>2, <2>3 DEF IInv
<1>9. Timely'
  <2>1. pc = "draining" /\ pc' = pc
    BY <1>3 DEF Pop
  <2>2. mode' = "run" => HostCallsRun
    BY <1>3 DEF IInv, Timely
  <2>3. ASSUME mode' = "run_until"
        PROVE  /\ tmax' <= now'
               /\ \A i \in 1..Len(popped') : nrun' < i => due'[popped'[i]] <= tmax'
    <3>1. /\ tmax <= now /\ due[j] <= tmax
          /\ \A i \in 1..Len(popped) : nrun < i => due[popped[i]] <= tmax
      BY <1>2, <1>3, <2>1, <2>3 DEF IInv, Timely
    <3> QED
      BY <1>1, <1>3, <1>a, <3>1
  <2> QED
    BY <2>1, <2>2, <2>3 DEF Timely
<1> QED
  BY <1>5, <1>6, <1>7, <1>8, <1>9 DEF IInv

\* Sending and posting preserve the invariant: a job posted now finds every
\* job popped so far in its `gone`.
LEMMA SendPreserves ==
  ASSUME IInv, NEW j \in Jobs, Stamp(j) \/ Post(j), TypeOK'
  PROVE  IInv'
<1> USE DEF TypeOK
<1>1. /\ UNCHANGED <<now, pc, mode, tmax, popped, nrun>>
      /\ stage[j] \in {"new", "stamped"}
  BY DEF Stamp, Post
<1>2. \A i \in 1..Len(popped) : popped[i] \in Jobs /\ popped[i] # j
  BY <1>1 DEF IInv, Placement
<1>3. /\ \A k \in Jobs : k # j => stage'[k] = stage[k] /\ due'[k] = due[k] /\ gone'[k] = gone[k]
      /\ stage'[j] \in {"stamped", "queued"}
  BY DEF Stamp, Post, IInv
<1>4. Placement'
  BY <1>1, <1>2, <1>3 DEF IInv, Placement
<1>5. ExactlyOnce'
  BY <1>1 DEF IInv, ExactlyOnce
<1>6. NoSkip'
  <2> SUFFICES ASSUME NEW i \in 1..Len(popped), NEW k \in Jobs,
                      stage'[k] = "queued", due'[k] < due'[popped[i]]
               PROVE  popped[i] \in gone'[k]
    BY <1>1 DEF NoSkip
  <2>1. CASE k # j
    BY <1>2, <1>3, <2>1 DEF IInv, NoSkip
  <2>2. CASE k = j
    <3>1. Post(j)
      BY <2>2 DEF Stamp, IInv
    <3>2. gone'[j] = Popped
      BY <3>1 DEF Post, IInv
    <3> QED
      BY <2>2, <3>2 DEF Popped
  <2> QED
    BY <2>1, <2>2
<1>7. PriorityOrder'
  BY <1>1, <1>2, <1>3 DEF IInv, PriorityOrder
<1>8. Timely'
  BY <1>1, <1>2, <1>3 DEF IInv, Timely
<1> QED
  BY <1>4, <1>5, <1>6, <1>7, <1>8 DEF IInv

\* The strengthened invariant is preserved by every step.
LEMMA Inductive == IInv /\ [Next]_vars => IInv'
<1> SUFFICES ASSUME IInv, [Next]_vars PROVE IInv'
  OBVIOUS
<1>1. TypeOK'
  BY TypeInductive DEF IInv
<1>2. ASSUME NEW j \in Jobs, Stamp(j) \/ Post(j) PROVE IInv'
  BY <1>1, <1>2, SendPreserves
<1>3. ASSUME NEW j \in Jobs, Pop(j) PROVE IInv'
  BY <1>1, <1>3, PopPreserves
<1> USE DEF IInv, Placement, ExactlyOnce, NoSkip, PriorityOrder, Timely, TypeOK
<1>4. CASE Tick
  BY <1>1, <1>4 DEF Tick
<1>5. CASE CallRunUntil
  BY <1>1, <1>5 DEF CallRunUntil
<1>6. CASE CallRun
  BY <1>1, <1>6 DEF CallRun
<1>7. CASE EndDrain
  BY <1>1, <1>7 DEF EndDrain
<1>8. CASE RunItem
  BY <1>1, <1>8 DEF RunItem
<1>9. CASE Return
  BY <1>1, <1>9 DEF Return
<1>10. CASE UNCHANGED vars
  BY <1>1, <1>10 DEF vars
<1> QED
  BY <1>2, <1>3, <1>4, <1>5, <1>6, <1>7, <1>8, <1>9, <1>10 DEF Next, Driver

\* The strengthened invariant holds at the start.
LEMMA Initially == Init => IInv
  BY SchedulerAssumption DEF Init, IInv, TypeOK, Stages, Placement, ExactlyOnce,
     NoSkip, PriorityOrder, Timely

\* The strengthened invariant holds in every reachable state.
THEOREM Invariance == Spec => []IInv
  BY Initially, Inductive, PTL DEF Spec

\* The scheduler's state is well formed at every moment.
THEOREM TypeCorrect == Spec => []TypeOK
<1>1. IInv => TypeOK
  BY DEF IInv
<1> QED
  BY <1>1, Invariance, PTL

\* Across every batch, an item popped ahead of one due earlier was popped
\* before that one was posted (scheduler.cpp:16-19).
THEOREM PriorityOrderHolds == Spec => []PriorityOrder
<1>1. IInv => PriorityOrder
  BY DEF IInv
<1> QED
  BY <1>1, Invariance, PTL

\* No job is popped, hence run, twice.
THEOREM ExactlyOnceHolds == Spec => []ExactlyOnce
<1>1. IInv => ExactlyOnce
  BY DEF IInv
<1> QED
  BY <1>1, Invariance, PTL

\* run_until never starts a callback before its due time.
THEOREM NeverEarlyHolds == Spec => NeverEarly
<1>1. IInv /\ [Next]_vars =>
        [nrun' > nrun /\ mode = "run_until" => due[popped[nrun']] <= now]_vars
  <2> SUFFICES ASSUME IInv, Next, nrun' > nrun, mode = "run_until"
               PROVE  due[popped[nrun']] <= now
    BY DEF vars
  <2>1. RunItem
    BY DEF Next, Driver, Tick, Stamp, Post, CallRunUntil, CallRun, Pop, EndDrain,
           Return, IInv, TypeOK
  <2>2. nrun' = nrun + 1 /\ nrun' \in 1..Len(popped) /\ pc # "idle" /\ popped[nrun'] \in Jobs
    BY <2>1 DEF RunItem, IInv, TypeOK
  <2>3. tmax <= now /\ due[popped[nrun']] <= tmax
    BY <2>2 DEF IInv, Timely, TypeOK
  <2> QED
    BY <2>2, <2>3 DEF IInv, TypeOK
<1> QED
  BY <1>1, Invariance, PTL DEF Spec, NeverEarly

-----------------------------------------------------------------------------
\* A step that neither posts nor runs a job is invisible to the delay line.
LEMMA QuietStep ==
  ASSUME UNCHANGED <<popped, nrun>> \/ (\E k \in Jobs : Pop(k)),
         IInv, nrun' = nrun,
         \A k \in Jobs : Held(k)' <=> Held(k),
         \A k \in Jobs : Held(k) => due'[k] = due[k]
  PROVE  LineState' = LineState /\ LineDue' = LineDue
<1>1. \A i \in 1..nrun : popped'[i] = popped[i]
  <2>1. CASE UNCHANGED <<popped, nrun>>
    BY <2>1
  <2>2. ASSUME NEW k \in Jobs, Pop(k) PROVE \A i \in 1..nrun : popped'[i] = popped[i]
    <3>1. \A i \in 1..Len(popped) : popped'[i] = popped[i]
      BY <2>2, PopAppends DEF IInv
    <3> QED
      BY <3>1 DEF IInv, TypeOK
  <2> QED
    BY <2>1, <2>2
<1>2. \A k \in Jobs : HasRun(k)' <=> HasRun(k)
  BY <1>1 DEF HasRun
<1>3. LineState' = LineState
  BY <1>2 DEF LineState
<1>4. LineDue' = LineDue
  BY DEF LineDue
<1> QED
  BY <1>3, <1>4

\* Every step of the scheduler is a step of the delay line or invisible to it.
LEMMA StepSimulation == IInv /\ [Next]_vars => [DQ!Next]_(DQ!vars)
<1> SUFFICES ASSUME IInv, [Next]_vars PROVE [DQ!Next]_(DQ!vars)
  OBVIOUS
<1> USE DEF IInv, TypeOK
<1>1. CASE Tick
  <2>1. LineState' = LineState /\ LineDue' = LineDue
    BY <1>1, QuietStep DEF Tick, Held
  <2> QED
    BY <1>1, <2>1 DEF Tick, DQ!Next, DQ!Tick
<1>2. ASSUME NEW j \in Jobs, Stamp(j) PROVE UNCHANGED DQ!vars
  <2>1. \A k \in Jobs : Held(k)' <=> Held(k)
    BY <1>2 DEF Stamp, Held
  <2>2. \A k \in Jobs : Held(k) => due'[k] = due[k]
    BY <1>2 DEF Stamp, Held
  <2> QED
    BY <1>2, <2>1, <2>2, QuietStep DEF Stamp, DQ!vars
<1>3. ASSUME NEW j \in Jobs, Post(j) PROVE DQ!Accept(j)
  <2>0. \A i \in 1..Len(popped) : popped[i] \in Jobs /\ popped[i] # j
    BY <1>3 DEF Post, Placement
  <2>1. \A i \in 1..nrun : popped[i] \in Jobs /\ popped[i] # j
    BY <2>0
  <2>2. ~HasRun(j) /\ ~Held(j) /\ Held(j)' /\ \A k \in Jobs : HasRun(k)' <=> HasRun(k)
    BY <1>3, <2>1 DEF Post, HasRun, Held
  <2>3. \A k \in Jobs : k # j => (Held(k)' <=> Held(k))
    BY <1>3 DEF Post, Held
  <2>4. LineState[j] = "new" /\ LineState' = [LineState EXCEPT ![j] = "held"]
    BY <2>2, <2>3 DEF LineState
  <2>5. LineDue'[j] \in Nat /\ LineDue' = [LineDue EXCEPT ![j] = LineDue'[j]]
    BY <1>3, <2>2, <2>3 DEF LineDue, Post
  <2> QED
    BY <1>3, <2>4, <2>5 DEF DQ!Accept, Post
<1>4. ASSUME CallRunUntil \/ CallRun \/ EndDrain \/ Return PROVE UNCHANGED DQ!vars
  <2>1. UNCHANGED <<now, stage, due, popped, nrun>>
    BY <1>4 DEF CallRunUntil, CallRun, EndDrain, Return
  <2> QED
    BY <2>1, QuietStep DEF DQ!vars, Held
<1>5. ASSUME NEW j \in Jobs, Pop(j) PROVE UNCHANGED DQ!vars
  <2>1. \A k \in Jobs : Held(k)' <=> Held(k)
    BY <1>5 DEF Pop, Drainable, Held
  <2> QED
    BY <1>5, <2>1, QuietStep DEF Pop, DQ!vars
<1>6. CASE RunItem
  <2>0. PICK j \in Jobs : j = popped[nrun + 1]
    BY <1>6 DEF RunItem
  <2>1. /\ nrun' = nrun + 1 /\ nrun + 1 \in 1..Len(popped) /\ j = popped[nrun + 1]
        /\ UNCHANGED <<now, stage, due, popped>>
        /\ pc = "running"
    BY <1>6, <2>0 DEF RunItem
  <2>a. \A i \in 1..nrun : i \in 1..Len(popped) /\ i # nrun + 1
    OBVIOUS
  <2>b. ~HasRun(j)
    BY <2>1, <2>a DEF ExactlyOnce, HasRun
  <2>c. HasRun(j)'
    BY <2>1 DEF HasRun
  <2>d. stage[j] = "popped"
    BY <2>1 DEF Placement
  <2>2. stage[j] = "popped" /\ ~HasRun(j) /\ HasRun(j)'
    BY <2>b, <2>c, <2>d
  <2>3. \A k \in Jobs : k # j => (HasRun(k)' <=> HasRun(k))
    BY <2>1 DEF HasRun
  <2>4. \A k \in Jobs : Held(k)' <=> Held(k)
    BY <2>1 DEF Held
  <2>e. LineState[j] = "held"
    BY <2>1, <2>2 DEF LineState, Held
  <2>f. LineState' = [LineState EXCEPT ![j] = "done"]
    BY <2>2, <2>3, <2>4 DEF LineState
  <2>5. LineState[j] = "held" /\ LineState' = [LineState EXCEPT ![j] = "done"]
    BY <2>e, <2>f
  <2>6. LineDue' = LineDue /\ LineDue[j] = due[j]
    BY <2>1, <2>2, <2>4 DEF LineDue, Held
  <2>7. HostCallsRun \/ due[j] <= now
    BY <2>1 DEF Timely
  <2>8. DQ!HandOver(j)
    BY <2>1, <2>5, <2>6, <2>7 DEF DQ!HandOver
  <2> QED
    BY <2>1, <2>8 DEF DQ!Next
<1>7. CASE UNCHANGED vars
  BY <1>7, QuietStep DEF vars, DQ!vars, Held
<1> QED
  BY <1>1, <1>2, <1>3, <1>4, <1>5, <1>6, <1>7 DEF Next, Driver, DQ!Next

\* The scheduler implements the delay line, for every set of jobs and delays.
THEOREM Refinement == Spec => ImplementsDelayQueue
<1>1. Init => DQ!Init
  BY DEF Init, DQ!Init, LineState, LineDue, Held, HasRun
<1> QED
  BY <1>1, Invariance, StepSimulation, PTL DEF Spec, ImplementsDelayQueue, DQ!Spec
=============================================================================
