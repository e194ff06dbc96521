----------------------------- MODULE DelayQueue -----------------------------
(***************************************************************************)
(* What a bus needs from vbus::Scheduler, without saying how it is done: a  *)
(* delay line.  A job is handed in once with the time it is due, is handed  *)
(* over exactly once, and never before that time unless the host asks for   *)
(* everything at once (Expedite).  Scheduler.tla implements it.             *)
(***************************************************************************)
EXTENDS Naturals

CONSTANTS
    Jobs,       \* the callbacks handed to post()
    MaxTime,    \* bound of the model: the clock stops here
    Expedite    \* TRUE when the host also flushes the line without waiting

VARIABLES
    now,        \* the clock
    state,      \* state[j]: "new", then "held", then "done"
    due         \* due[j]: when a held job falls due (0 while it is new)

vars == <<now, state, due>>

Init ==
    /\ now = 0
    /\ state = [j \in Jobs |-> "new"]
    /\ due = [j \in Jobs |-> 0]

Tick ==
    /\ now < MaxTime
    /\ now' = now + 1
    /\ UNCHANGED <<state, due>>

\* The due time is the caller's to choose, and may already have passed.
Accept(j) ==
    /\ state[j] = "new"
    /\ state' = [state EXCEPT ![j] = "held"]
    /\ due'[j] \in Nat
    /\ due' = [due EXCEPT ![j] = due'[j]]
    /\ UNCHANGED now

HandOver(j) ==
    /\ state[j] = "held"
    /\ Expedite \/ due[j] <= now
    /\ state' = [state EXCEPT ![j] = "done"]
    /\ UNCHANGED <<now, due>>

Next ==
    \/ Tick
    \/ \E j \in Jobs : Accept(j) \/ HandOver(j)

\* Time passes, and a job that is due is not kept for ever.
Fairness == WF_vars(Tick) /\ \A j \in Jobs : WF_vars(due[j] <= now /\ HandOver(j))

Spec == Init /\ [][Next]_vars
FairSpec == Spec /\ Fairness
=============================================================================
