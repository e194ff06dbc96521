------------------------------ MODULE Commands ------------------------------
(***************************************************************************)
(* A command on its way: the client's arguments put together to a line       *)
(* (vbusctl.cpp), the pipe opened (daemon_client.cpp), the line taken apart  *)
(* again and the streams of a replay-sync read from it (vbusd.cpp).  Also     *)
(* the arguments of vbus_bench (vbus_bench.cpp).                             *)
(* A text is a sequence of one-character strings.                            *)
(***************************************************************************)
EXTENDS Naturals, Sequences, SequencesExt

Blanks == {" ", "\t", "\r", "\n"}

\* vbusctl: the arguments with a blank between them, and the end of the line.
CommandLine(args) ==
    FlattenSeq([k \in DOMAIN args |-> IF k = 1 THEN args[1] ELSE <<" ">> \o args[k]])
    \o <<"\n">>

\* split: the runs of characters between blanks.
Words(line) ==
    LET Add(acc, c) == IF c \notin Blanks THEN [acc EXCEPT !.word = Append(@, c)]
                       ELSE [all |-> IF acc.word = <<>> THEN acc.all ELSE Append(acc.all, acc.word),
                             word |-> <<>>]
    IN  FoldLeft(Add, [all |-> <<>>, word |-> <<>>], Append(line, " ")).all

\* replay-sync: three words for each stream, behind the command and the mode; any
\* other number of words is no replay-sync.
TakesStreams(words) == Len(words) >= 5 /\ (Len(words) - 2) % 3 = 0
Streams(words) ==
    [k \in 1..((Len(words) - 2) \div 3) |->
        [file |-> words[3 * k], host |-> words[3 * k + 1], port |-> words[3 * k + 2]]]

\* openPipe, where answers[k] is what the k-th CreateFile returns: five attempts, a
\* pause of 250 ms at most after "busy" and of 50 ms after "missing", none after any
\* other error, which ends it.
Attempts == 5
Pause(answer) == CASE answer = "busy" -> 250 [] answer = "missing" -> 50 [] OTHER -> 0
OpenPipe(answers) ==
    LET ends == {k \in 1..Attempts : answers[k] \notin {"busy", "missing"}}
        last == IF ends = {} THEN Attempts ELSE CHOOSE k \in ends : \A j \in ends : k <= j
    IN  [opened |-> answers[last] = "pipe",
         waited |-> FoldLeft(LAMBDA ms, a : ms + Pause(a), 0, SubSeq(answers, 1, last))]

\* vbus_bench: a rate in bits a second from the number before the suffix, here in
\* thousandths; every other suffix is ignored.
ParseRate(thousandths, suffix) ==
    CASE suffix = "g" -> thousandths * 1000000
      [] suffix = "m" -> thousandths * 1000
      [] suffix = "k" -> thousandths
      [] OTHER -> thousandths \div 1000

\* vbus_bench: what the program becomes with these arguments; no duration is none.
Usage == [role |-> "usage"]
StartBench(args) ==
    CASE Len(args) >= 2 /\ args[1] = "recv" -> [role |-> "sink", port |-> args[2]]
      [] Len(args) >= 4 /\ args[1] \in {"udp", "tcp"} ->
            [role |-> args[1], host |-> args[2], port |-> args[3],
             rate |-> ParseRate(args[4].number, args[4].suffix),
             seconds |-> IF Len(args) >= 5 THEN args[5] ELSE 0]
      [] OTHER -> Usage
=============================================================================
