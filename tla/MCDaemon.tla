------------------------------ MODULE MCDaemon ------------------------------
(* Small instances of Daemon for TLC: each run gives the clients the        *)
(* commands of one part of the protocol, so that two connections, one or    *)
(* two names and two or three frames are enough for every interleaving the  *)
(* part has.                                                                *)
EXTENDS Daemon, TLC, SequencesExt

\* Every command but quit.
ObjectCmds == {"create", "delete", "list", "stats", "record on", "record off", "send", "replay",
               "capture-udp", "capture-tcp", "stop-capture", "forward-udp", "stop-forward",
               "subscribe"}

\* The commands that wait for a thread or a pipe, quit, and what gives them something to
\* wait for.
WaitingCmds == {"create", "delete", "record on", "record off", "capture-udp", "stop-capture",
                "subscribe", "quit"}

\* What it takes to meet each disagreement with the documents.
ReplayDeleteCmds   == {"create", "replay", "delete"}
RecordOffCmds      == {"create", "record on", "record off", "send"}
SubscribeSendCmds  == {"create", "subscribe", "send"}
StopTcpCmds        == {"create", "capture-tcp", "stop-capture"}

\* Connections are interchangeable where all of them behave alike.
ClientSymmetry == Permutations(Clients)

\* The bytes of a payload are its digits' number, for every text of at most four
\* characters, except that an odd digit out drops them all.
F == INSTANCE Frames
Value == ("0" :> 0) @@ ("9" :> 9) @@ ("a" :> 10) @@ ("F" :> 15) @@ ("g" :> 0)
Number(s, base) == FoldLeft(LAMBDA n, x : n * base + x, 0, s)
ASSUME HexAgrees ==
    \A hex \in UNION {[1..k -> DOMAIN Value] : k \in 0..4} :
        LET digits == [k \in DOMAIN hex |-> Value[hex[k]]]
            bytes == F!HexToBytes(hex)
        IN  IF Len(hex) % 2 = 1 THEN bytes = <<>>
            ELSE 2 * Len(bytes) = Len(hex) /\ Number(bytes, 256) = Number(digits, 16)

\* A delay is the time the bits take, rounded down, until the product leaves its width;
\* so a longer frame never arrives before a shorter one sent with it.
ASSUME DelayIsExact ==
    \A kind \in {"eth", "can", "canfd"}, size \in 0..20, rate \in {1, 3, 8, 500} :
        LET bits == F!FrameBits(kind, size)
            delay == F!Delay(kind, size, rate, 100, 16)
        IN  /\ delay * rate <= bits * 100 /\ bits * 100 < (delay + 1) * rate
            /\ size > 0 => F!Delay(kind, size - 1, rate, 100, 16) <= delay

\* A capture's tag says who sent the datagram: no two senders share one.
ASSUME TagsAreDistinct ==
    LET Flows == (0..7) \X (0..3) \X (0..3)
        tag(f) == F!UdpTag(f[1], f[2], f[3], 2)
    IN  \A f, g \in Flows : tag(f) = tag(g) => f = g

\* A recording keeps of a frame's protocol only which kind of bus carried it, and on a
\* CAN bus whether it was CAN FD: sent again on the same kind of bus it is the same.
ASSUME CarriedOnceIsCarried ==
    \A kind \in {"eth", "can"}, proto \in {"ETH2", "CAN20", "CANFD", "UDP", "TCP"} :
        F!Carried(kind, F!Carried(kind, proto)) = F!Carried(kind, proto)

\* What a client passes as arguments is what a handler finds, exactly when no argument
\* is empty or has a blank in it: paths with blanks fall apart.
C == INSTANCE Commands
Texts(chars, longest) == UNION {[1..k -> chars] : k \in 0..longest}
ASSUME ArgumentsArrive ==
    \A args \in Texts(Texts({"a", "b", " "}, 2), 3) :
        C!Words(C!CommandLine(args)) = args
            <=> \A k \in DOMAIN args : args[k] # <<>> /\ ToSet(args[k]) \cap C!Blanks = {}

\* Every word behind the mode of a replay-sync belongs to exactly one stream.
ASSUME EveryStreamRead ==
    \A n \in 0..14 :
        LET words == [k \in 1..n |-> k]
            streams == C!Streams(words)
        IN  C!TakesStreams(words) =>
                FlattenSeq([k \in DOMAIN streams |->
                    <<streams[k].file, streams[k].host, streams[k].port>>]) = SubSeq(words, 3, n)

\* A window whose daemon is missing or busy waits 1250 ms at most for each command, and
\* one whose pipe comes free within the five attempts gets it.
ASSUME OpenPipeEnds ==
    \A answers \in [1..C!Attempts -> {"pipe", "busy", "missing", "denied"}] :
        LET r == C!OpenPipe(answers) IN
        /\ r.waited <= 1250
        /\ r.opened <=> \E k \in DOMAIN answers :
               answers[k] = "pipe" /\ \A j \in 1..(k - 1) : answers[j] \in {"busy", "missing"}
=============================================================================
