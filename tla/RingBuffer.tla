----------------------------- MODULE RingBuffer -----------------------------
(***************************************************************************)
(* The class RingBuffer (vbus-gui/src/util/ringbuffer.h), by the places it    *)
(* writes and reads in its array, 0..cap-1.  The window keeps its packets in  *)
(* a deque instead (Push in Gui).                                             *)
(***************************************************************************)
EXTENDS Naturals, Sequences

Empty(cap) == [data |-> [k \in 0..(cap - 1) |-> 0], head |-> 0, full |-> FALSE]

Pushed(r, cap, v) ==
    LET next == (r.head + 1) % cap
    IN  [data |-> [r.data EXCEPT ![r.head] = v], head |-> next, full |-> r.full \/ next = 0]

\* for_each: the places it visits, in order.  % binds before +.
Visited(r, cap) ==
    [k \in 1..(IF r.full THEN cap ELSE r.head) |->
        (IF r.full THEN r.head ELSE 0) + ((k - 1) % cap)]
=============================================================================
