---------------------------- MODULE MCScheduler -----------------------------
(* A small instance of Scheduler for TLC: a slow job and a quick one, which *)
(* fall due in either order or together, and a child that the slow job's    *)
(* callback posts.                                                          *)
EXTENDS Scheduler

CONSTANTS slow, quick, child

MCJobs == {slow, quick, child}
MCDelay == [j \in MCJobs |-> CASE j = slow -> 2 [] j = child -> 1 [] j = quick -> 0]
MCChildren == [j \in MCJobs |-> IF j = slow THEN {child} ELSE {}]
=============================================================================
