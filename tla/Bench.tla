------------------------------- MODULE Bench --------------------------------
(***************************************************************************)
(* vbus_bench (vbus/src/cli/vbus_bench.cpp): the paced sender, run_udp_send  *)
(* or run_tcp_send, and the passive sink, run_recv, as two processes, each    *)
(* with its reporter thread and its g_stop, which Ctrl-C sets.                *)
(*                                                                           *)
(* The sender is a token bucket: a refill pays for Rate bits per Unit of time *)
(* passed, rounded down, and each packet costs Pkt bits.  Time is counted in  *)
(* ticks of an arbitrary length.                                              *)
(***************************************************************************)
EXTENDS Integers

CONSTANTS
    Pkt,        \* pkt_bits
    Rate, Unit, \* rate_bps: Rate bits in Unit ticks
    Duration,   \* duration_ns in ticks (0: none)
    Nap,        \* waits longer than this are slept, shorter ones spun
    Early,      \* how much earlier the sleep ends
    Buffers,    \* bound: bits the sockets hold between the two
    MaxTime     \* bound: ticks; then the clock stands, and who sleeps may wake

ASSUME BenchAssumption ==
    /\ Pkt \in Nat \ {0} /\ Rate \in Nat /\ Unit \in Nat \ {0} /\ Duration \in Nat
    /\ Nap \in Nat /\ Early \in Nat /\ Early <= Nap
    /\ Buffers \in Nat /\ MaxTime \in Nat /\ Duration <= MaxTime

Procs == {"sender", "sink"}

VARIABLES
    mode,       \* what the sender was started as
    now,        \* the clock, from t_start
    spc,        \* the sender's main thread
    wake,       \* until when it sleeps
    tokens, lastFill,
    sent,       \* its Stats::bytes, in bits
    stop,       \* stop[p]: g_stop
    rep,        \* rep[p]: the reporter thread
    udp, tcp,   \* the sink's two threads
    conn,       \* the TCP connection
    net,        \* bits in the connection, sent and not yet received
    hist        \* history: refills made, bits spilled over the cap, and the excess
                \* over the rate, in bits times Unit, as explained at WindowBound

sender == <<spc, wake, tokens, lastFill, sent>>
sink == <<udp, tcp>>
vars == <<mode, now, sender, stop, rep, sink, conn, net, hist>>

Init ==
    /\ mode \in {"udp", "tcp"}
    /\ now = 0
    /\ spc = "start" /\ wake = 0 /\ tokens = Pkt /\ lastFill = 0 /\ sent = 0
    /\ stop = [p \in Procs |-> FALSE]
    /\ rep = [p \in Procs |-> "off"]
    /\ udp = "off" /\ tcp = "off"
    /\ conn = "none" /\ net = 0
    /\ hist = [refills |-> 0, spilled |-> 0, excess |-> 0]

-----------------------------------------------------------------------------
(* The sender.                                                                *)

\* The host does not resolve, or nothing listens there.
StartFails ==
    /\ spc = "start"
    /\ spc' = "done"
    /\ UNCHANGED <<mode, now, wake, tokens, lastFill, sent, stop, rep, sink, conn,
                   net, hist>>

Start ==
    /\ spc = "start"
    /\ mode = "tcp" => tcp \in {"accept", "recv", "done"}
    /\ conn' = IF mode = "tcp" THEN "pending" ELSE conn
    /\ spc' = "loop"
    /\ rep' = [rep EXCEPT !["sender"] = "on"]
    /\ UNCHANGED <<mode, now, wake, tokens, lastFill, sent, stop, sink, net, hist>>

\* The bytes of a packet, by the rate in kbit/s; Pkt is eight times that.
PayloadFor(kbps) ==
    CASE kbps >= 5000000 -> 65000
      [] kbps >= 500000 /\ kbps < 5000000 -> 16384
      [] kbps >= 50000 /\ kbps < 500000 -> 4096
      [] kbps < 50000 -> 1400

Cap == 4 * Pkt
Refill == (Rate * (now - lastFill)) \div Unit

\* The wait for what is missing: slept, but for its last part, or spun (as is the 1 ms
\* taken when there is no rate).
WaitFor(missing) == IF Rate > 0 THEN (missing * Unit) \div Rate ELSE 0

RefilledUncapped == tokens + Refill     \* faulty: bursts are not limited

Refilled == IF tokens + Refill > Cap THEN Cap ELSE tokens + Refill

\* History: a refill that some time has passed for, and what went over the cap.
Filled == [hist EXCEPT !.refills = IF now > lastFill THEN @ + 1 ELSE @,
                       !.spilled = @ + (tokens + Refill - tokens')]

\* One pass of the loop, down to the send or the sleep.
Fill ==
    /\ spc = "loop" /\ ~stop["sender"]
    /\ lastFill' = now
    /\ tokens' = Refilled
    /\ LET wait == WaitFor(Pkt - tokens') IN
        \/ Duration > 0 /\ now >= Duration /\ spc' = "stop" /\ UNCHANGED wake
        \/ /\ Duration = 0 \/ now < Duration
           /\ \/ tokens' >= Pkt /\ spc' = "send" /\ UNCHANGED wake
              \/ tokens' < Pkt /\ wait > Nap /\ spc' = "sleep" /\ wake' = now + wait - Early
              \/ tokens' < Pkt /\ wait <= Nap /\ spc' = "loop" /\ UNCHANGED wake
    /\ hist' = Filled
    /\ UNCHANGED <<mode, now, sent, stop, rep, sink, conn, net>>

Wake ==
    /\ spc = "sleep" /\ (now >= wake \/ now = MaxTime)
    /\ spc' = "loop" /\ wake' = 0
    /\ UNCHANGED <<mode, now, tokens, lastFill, sent, stop, rep, sink, conn, net, hist>>

SendsPayingBytes(n) ==      \* faulty: what is paid is counted in bytes
    /\ sent' = sent + n
    /\ tokens' = tokens - n \div 8
    /\ hist' = [hist EXCEPT !.excess = @ + Unit * n]

SendsShortUnpaid(n) ==      \* faulty: a short send costs nothing
    /\ sent' = sent + n
    /\ tokens' = IF n = Pkt THEN tokens - n ELSE tokens
    /\ hist' = [hist EXCEPT !.excess = @ + Unit * n]

\* n bits are taken by the socket and paid for.
Sends(n) ==
    /\ sent' = sent + n
    /\ tokens' = tokens - n
    /\ hist' = [hist EXCEPT !.excess = @ + Unit * n]

\* sendto takes the whole packet, or fails, which costs nothing and is tried again.
SendUdp ==
    /\ spc = "send" /\ mode = "udp"
    /\ spc' = "loop"
    /\ Sends(Pkt) \/ UNCHANGED <<sent, tokens, hist>>
    /\ UNCHANGED <<mode, now, wake, lastFill, stop, rep, sink, conn, net>>

\* send waits for room and takes part of the buffer, and what it took is paid; an error,
\* which comes some time after the sink has dropped the connection, ends the loop.
SendTcp ==
    /\ spc = "send" /\ mode = "tcp"
    /\ \/ /\ conn \in {"pending", "open"}
          /\ \E n \in 1..Pkt : net + n <= Buffers /\ Sends(n) /\ net' = net + n
          /\ spc' = "loop"
       \/ /\ conn = "dropped"
          /\ \/ (\E n \in 1..Pkt : Sends(n)) /\ spc' = "loop"
             \/ UNCHANGED <<sent, tokens, hist>> /\ spc' = "stop"
          /\ UNCHANGED net
    /\ UNCHANGED <<mode, now, wake, lastFill, stop, rep, sink, conn>>

LeaveRunning ==     \* faulty: g_stop is not set when the duration is over
    /\ spc = "stop" \/ (spc = "loop" /\ stop["sender"])
    /\ spc' = "join"
    /\ UNCHANGED <<mode, now, wake, tokens, lastFill, sent, stop, rep, sink, conn,
                   net, hist>>

\* The loop is left: g_stop is set for the reporter's sake.
Leave ==
    /\ spc = "stop" \/ (spc = "loop" /\ stop["sender"])
    /\ stop' = [stop EXCEPT !["sender"] = TRUE]
    /\ spc' = "join"
    /\ UNCHANGED <<mode, now, wake, tokens, lastFill, sent, rep, sink, conn, net, hist>>

SenderJoin ==
    /\ spc = "join" /\ rep["sender"] = "done"
    /\ spc' = "done"
    /\ conn' = IF conn \in {"pending", "open"} THEN "closed" ELSE conn
    /\ UNCHANGED <<mode, now, wake, tokens, lastFill, sent, stop, rep, sink, net, hist>>

-----------------------------------------------------------------------------
(* The sink.  Its receives end by a timeout when nothing comes.               *)

\* Both ports are bound, or the UDP one only; if the UDP one is taken, nothing runs.
SinkStart ==
    /\ udp = "off"
    /\ \/ udp' = "recv" /\ tcp' \in {"accept", "disabled"}
          /\ rep' = [rep EXCEPT !["sink"] = "on"]
       \/ udp' = "closed" /\ tcp' = "closed" /\ UNCHANGED rep
    /\ UNCHANGED <<mode, now, sender, stop, conn, net, hist>>

\* What the threads count is left out.
SinkUdp ==
    /\ udp = "recv" /\ stop["sink"]
    /\ udp' = "done"
    /\ UNCHANGED <<mode, now, sender, stop, rep, tcp, conn, net, hist>>

SinkAccept ==
    /\ tcp = "accept"
    /\ \/ stop["sink"] /\ tcp' = "done" /\ UNCHANGED conn
       \/ ~stop["sink"] /\ conn = "pending" /\ tcp' = "recv" /\ conn' = "open"
       \/ ~stop["sink"] /\ conn = "closed" /\ net > 0 /\ tcp' = "recv" /\ UNCHANGED conn
    /\ UNCHANGED <<mode, now, sender, stop, rep, udp, net, hist>>

\* recv gives some of what has come; 500 ms in which nothing does are taken for the end,
\* as is the sender's close.
SinkRecv ==
    /\ tcp = "recv"
    /\ \/ /\ \E n \in 1..net : net' = net - n
          /\ UNCHANGED <<tcp, conn>>
       \/ /\ stop["sink"] \/ net = 0
          /\ tcp' = "accept"
          /\ conn' = IF conn = "open" THEN "dropped" ELSE conn
          /\ net' = 0
    /\ UNCHANGED <<mode, now, sender, stop, rep, udp, hist>>

\* The threads are joined and the sockets closed: a client not yet accepted is reset.
SinkClose ==
    /\ udp = "done" /\ tcp \in {"done", "disabled"} /\ rep["sink"] = "done"
    /\ udp' = "closed" /\ tcp' = "closed"
    /\ conn' = IF conn = "pending" THEN "dropped" ELSE conn
    /\ UNCHANGED <<mode, now, sender, stop, rep, net, hist>>

-----------------------------------------------------------------------------
(* What both have: the reporter and the console handler; and the clock.       *)

\* The reporter looks at g_stop between two sleeps, of a second each.
Report(p) ==
    /\ rep[p] = "on" /\ stop[p]
    /\ rep' = [rep EXCEPT ![p] = "done"]
    /\ UNCHANGED <<mode, now, sender, stop, sink, conn, net, hist>>

CtrlC(p) ==
    /\ ~stop[p]
    /\ stop' = [stop EXCEPT ![p] = TRUE]
    /\ UNCHANGED <<mode, now, sender, rep, sink, conn, net, hist>>

\* The clock, which starts with the sender.
Advance ==
    /\ spc # "start" /\ now < MaxTime
    /\ now' = now + 1
    /\ hist' = [hist EXCEPT !.excess = IF @ > Rate THEN @ - Rate ELSE 0]
    /\ UNCHANGED <<mode, sender, stop, rep, sink, conn, net>>

Next ==
    \/ StartFails \/ Start \/ Fill \/ Wake \/ SendUdp \/ SendTcp \/ Leave \/ SenderJoin
    \/ SinkStart \/ SinkUdp \/ SinkAccept \/ SinkRecv \/ SinkClose
    \/ \E p \in Procs : Report(p) \/ CtrlC(p)
    \/ Advance

Spec == Init /\ [][Next]_vars

\* Every thread that can go on does, and time passes.
FairSpec ==
    /\ Spec
    /\ WF_vars(Fill) /\ WF_vars(Wake) /\ WF_vars(SendUdp) /\ WF_vars(SendTcp)
    /\ WF_vars(Leave) /\ WF_vars(SenderJoin)
    /\ WF_vars(SinkUdp) /\ WF_vars(SinkAccept) /\ WF_vars(SinkRecv) /\ WF_vars(SinkClose)
    /\ \A p \in Procs : WF_vars(Report(p))
    /\ WF_vars(Advance)

-----------------------------------------------------------------------------
\* The types; tokens, an unsigned count, never goes below zero nor over the cap.
TypeOK ==
    /\ mode \in {"udp", "tcp"}
    /\ now \in Nat /\ wake \in Nat /\ lastFill \in Nat
    /\ spc \in {"start", "loop", "send", "sleep", "stop", "join", "done"}
    /\ tokens \in 0..Cap /\ sent \in Nat /\ net \in Nat
    /\ stop \in [Procs -> BOOLEAN]
    /\ rep \in [Procs -> {"off", "on", "done"}]
    /\ udp \in {"off", "recv", "done", "closed"}
    /\ tcp \in {"off", "accept", "recv", "disabled", "done", "closed"}
    /\ conn \in {"none", "pending", "open", "dropped", "closed"}
    /\ hist \in [refills : Nat, spilled : Nat, excess : Nat]

\* Pacing: in no window of time, wherever it starts, are more bits sent than the rate
\* gives for its length and five packets more; excess, which grows by what is sent and
\* drains at the rate, is the most any window that ends now is over the rate.  (Not
\* four, the cap of the bucket: a sender held up between its refill and its send finds
\* a full bucket again after it.)
WindowBound == hist.excess <= Unit * 5 * Pkt

\* Every bit that time has paid for is sent, is in the bucket, went over its cap, or is
\* the fraction, under one bit, that a refill rounds away.
Kept == Unit * (sent + tokens + hist.spilled)
Paid == Unit * Pkt + Rate * lastFill
Accounted == Kept <= Paid /\ Paid <= Kept + (Unit - 1) * hist.refills

\* Ctrl-C, or the duration, ends every thread of a process, whatever it waits for.
StopEnds ==
    /\ (spc # "start" /\ stop["sender"]) ~> spc = "done"
    /\ (spc # "start" /\ Duration > 0) ~> spc = "done"
    /\ (udp # "off" /\ stop["sink"]) ~> udp = "closed"
=============================================================================
