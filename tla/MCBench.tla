------------------------------ MODULE MCBench -------------------------------
(* A small instance of Bench for TLC; the bounds are in the .cfg file.       *)
EXTENDS Bench, Sequences

\* At every rate up to 10 Gbit/s the sender needs no more than 40,000 packets a second,
\* and a packet fits into a datagram.  Rates are in kbit/s.
ASSUME PacketsManageable ==
    \A r \in {1, 49999, 50000, 499999, 500000, 4999999, 5000000, 10000000} :
        r <= 40 * 8 * PayloadFor(r) /\ PayloadFor(r) <= 65507

\* A rate is the same whichever suffix it is written with, and a sender starts as soon
\* as it has a rate: without a duration it runs until Ctrl-C.
C == INSTANCE Commands
ASSUME StartedAsAsked ==
    LET asked == <<"udp", "localhost", 9000, [number |-> 1500, suffix |-> "g"], 30>>
        started(n) == C!StartBench(SubSeq(asked, 1, n))
    IN  /\ \A t \in {500, 1000, 2000} :
              /\ C!ParseRate(t, "g") = C!ParseRate(1000 * t, "m")
              /\ C!ParseRate(t, "m") = C!ParseRate(1000 * t, "k")
              /\ C!ParseRate(t, "k") = C!ParseRate(1000 * t, "b")
        /\ \A n \in 0..5 : started(n).role = IF n < 4 THEN "usage" ELSE "udp"
        /\ started(4).seconds = 0 /\ started(5).seconds = 30 /\ started(5).rate = 1500000000
=============================================================================
