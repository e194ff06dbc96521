---------------------------- MODULE Bench_proofs ----------------------------
(***************************************************************************)
(* Theorems about Bench for every packet size, rate, duration and pause:     *)
(* type correctness (the unsigned token count never wraps), the pacing of    *)
(* every window, and the account of the bits that time pays for.             *)
(***************************************************************************)
EXTENDS Bench, TLAPS

\* A packet is sent only when the bucket holds one, and no refill is ahead of the clock.
Ready ==
    /\ lastFill <= now
    /\ spc = "send" => tokens >= Pkt

\* What WindowBound needs.  Excess and bucket together stay within five packets.  With
\* what the next refill adds they still do, unless the bucket was left alone so long
\* that the excess has drained, but for the one packet sent since.
Unspent == hist.excess + Unit * tokens
Pending == Rate * (now - lastFill)
FivePackets == Unit * 5 * Pkt
Window ==
    /\ Unspent <= FivePackets
    /\ \/ Unspent + Pending <= FivePackets
       \/ hist.excess <= IF spc = "send" THEN 0 ELSE Unit * Pkt

PaceInv == TypeOK /\ Ready /\ Window
AccountInv == TypeOK /\ Ready /\ Accounted

-----------------------------------------------------------------------------
\* What rounding a quotient down does.
LEMMA Rounded ==
  ASSUME NEW a \in Nat, NEW b \in Nat \ {0}
  PROVE  /\ a \div b \in Nat
         /\ b * (a \div b) <= a
         /\ a <= b * (a \div b) + (b - 1)
  OBVIOUS

LEMMA Distributes ==
  ASSUME NEW a \in Int, NEW b \in Int, NEW c \in Int
  PROVE  /\ a * (b + c) = a * b + a * c
         /\ a * (b - c) = a * b - a * c
  OBVIOUS

LEMMA ProductNat ==
  ASSUME NEW a \in Nat, NEW b \in Nat
  PROVE  a * b \in Nat
  OBVIOUS

\* A refill gives what the time since the last one is worth, rounded down.
LEMMA RefillRounds ==
  ASSUME TypeOK, Ready
  PROVE  /\ Refill \in Nat
         /\ Pending \in Nat
         /\ Unit * Refill <= Pending
         /\ Pending <= Unit * Refill + (Unit - 1)
         /\ now = lastFill => Refill = 0
<1>1. now - lastFill \in Nat
  BY DEF TypeOK, Ready
<1>2. Rate * (now - lastFill) \in Nat
  BY <1>1, ProductNat, BenchAssumption
<1>3. Unit \in Nat \ {0}
  BY BenchAssumption
<1>4. now = lastFill => Rate * (now - lastFill) = 0
  BY BenchAssumption DEF TypeOK
<1>5. 0 \div Unit = 0
  BY <1>3
<1> QED
  BY <1>2, <1>3, <1>4, <1>5, Rounded DEF Refill, Pending

\* What it leaves in the bucket, and what goes over the cap.
LEMMA RefillKeepsCap ==
  ASSUME TypeOK, Ready
  PROVE  /\ Refilled \in 0..Cap
         /\ Refilled <= tokens + Refill
         /\ Refilled >= tokens
<1>1. Refill \in Nat
  BY RefillRounds
<1>2. Cap \in Nat /\ tokens \in 0..Cap
  BY BenchAssumption DEF TypeOK, Cap
<1> QED
  BY <1>1, <1>2 DEF Refilled

\* A step of the sender's send: nothing, or at most a packet's bits, sent and paid for.
SendStep ==
    /\ spc = "send" /\ spc' \in {"loop", "stop"}
    /\ \/ UNCHANGED <<sent, tokens, hist>>
       \/ \E n \in 1..Pkt : Sends(n)
    /\ UNCHANGED <<now, lastFill>>

LEMMA SendIsStep ==
  ASSUME SendUdp \/ SendTcp
  PROVE  SendStep
<1>1. CASE SendUdp
  <2>1. Pkt \in 1..Pkt
    BY BenchAssumption
  <2> QED
    BY <1>1, <2>1 DEF SendUdp, SendStep
<1>2. CASE SendTcp
  BY <1>2 DEF SendTcp, SendStep
<1> QED
  BY <1>1, <1>2

\* The steps that touch neither the bucket, the clock nor the history, and do not begin
\* a send.
OtherStep ==
    /\ UNCHANGED <<now, tokens, lastFill, sent, hist>>
    /\ spc' = "send" => spc = "send"
    /\ spc = "send" => spc' = "send"

LEMMA StepKinds ==
  ASSUME [Next]_vars
  PROVE  Fill \/ SendStep \/ Advance \/ OtherStep
<1> USE DEF OtherStep, sender, sink
<1>1. CASE StartFails \/ Start \/ Wake \/ Leave \/ SenderJoin
  BY <1>1 DEF StartFails, Start, Wake, Leave, SenderJoin
<1>2. CASE SinkStart \/ SinkUdp \/ SinkAccept \/ SinkRecv \/ SinkClose
  BY <1>2 DEF SinkStart, SinkUdp, SinkAccept, SinkRecv, SinkClose
<1>3. ASSUME NEW p \in Procs, Report(p) \/ CtrlC(p) PROVE OtherStep
  BY <1>3 DEF Report, CtrlC
<1>4. CASE UNCHANGED vars
  BY <1>4 DEF vars
<1>5. CASE SendUdp \/ SendTcp
  BY <1>5, SendIsStep
<1> QED
  BY <1>1, <1>2, <1>3, <1>4, <1>5 DEF Next

-----------------------------------------------------------------------------
LEMMA InitInv == Init => PaceInv /\ AccountInv
<1> SUFFICES ASSUME Init PROVE PaceInv /\ AccountInv
  OBVIOUS
<1> USE BenchAssumption DEF Init
<1>1. TypeOK
  BY DEF TypeOK, Cap, Procs
<1>2. Ready
  BY DEF Ready
<1>3. Unit * Pkt \in Nat /\ FivePackets = 5 * (Unit * Pkt) /\ Pending = 0
  BY DEF FivePackets, Pending
<1>4. Window
  BY <1>3 DEF Window, Unspent
<1>5. Accounted
  BY <1>3 DEF Accounted, Kept, Paid
<1> QED
  BY <1>1, <1>2, <1>4, <1>5 DEF PaceInv, AccountInv

\* The sender's part of the next lemma.
LEMMA SenderTypes ==
  ASSUME TypeOK, Ready, Fill \/ SendUdp \/ SendTcp \/ Wake
  PROVE  TypeOK' /\ Ready'
<1> USE BenchAssumption DEF TypeOK, Ready, sink
<1>1. CASE Fill
  <2>1. tokens' = Refilled /\ Refilled \in 0..Cap /\ Refill \in Nat
        /\ tokens + Refill - Refilled \in Nat
    BY <1>1, RefillRounds, RefillKeepsCap DEF Fill, Cap
  <2>2. wake' \in Nat
    <3>1. ASSUME NEW w \in Nat, w > Nap PROVE now + w - Early \in Nat
      BY <3>1
    <3>2. ASSUME NEW k \in Nat PROVE WaitFor(k) \in Nat
      <4>1. k * Unit \in Nat
        BY ProductNat
      <4>2. CASE Rate > 0
        <5>1. Rate \in Nat \ {0}
          BY <4>2
        <5>2. (k * Unit) \div Rate \in Nat
          BY <4>1, <5>1, Rounded
        <5> QED
          BY <4>2, <5>2 DEF WaitFor
      <4>3. CASE ~(Rate > 0)
        BY <4>3 DEF WaitFor
      <4> QED
        BY <4>2, <4>3
    <3>3. tokens' < Pkt => Pkt - tokens' \in Nat
      BY <2>1
    <3> QED
      BY <1>1, <3>1, <3>2, <3>3 DEF Fill
  <2>3. hist' \in [refills : Nat, spilled : Nat, excess : Nat]
    <3>1. tokens + Refill - tokens' \in Nat
      BY <2>1
    <3>2. hist' = [hist EXCEPT !.refills = IF now > lastFill THEN @ + 1 ELSE @,
                               !.spilled = @ + (tokens + Refill - tokens')]
      BY <1>1 DEF Fill, Filled
    <3>3. hist.spilled + (tokens + Refill - tokens') \in Nat
          /\ (IF now > lastFill THEN hist.refills + 1 ELSE hist.refills) \in Nat
      BY <3>1
    <3> QED
      BY <3>2, <3>3
  <2>4. spc' \in {"loop", "send", "sleep", "stop"} /\ (spc' = "send" => tokens' >= Pkt)
    BY <1>1 DEF Fill
  <2> QED
    BY <1>1, <2>1, <2>2, <2>3, <2>4 DEF Fill, Cap
<1>2. ASSUME NEW n \in 1..Pkt, Sends(n), spc = "send"
      PROVE  /\ tokens' \in 0..Cap /\ sent' \in Nat
             /\ hist' \in [refills : Nat, spilled : Nat, excess : Nat]
  <2>1. Unit * n \in Nat
    BY <1>2, ProductNat
  <2> QED
    BY <1>2, <2>1 DEF Sends, Cap
<1>3. CASE SendUdp
  <2>1. tokens' \in 0..Cap /\ sent' \in Nat
        /\ hist' \in [refills : Nat, spilled : Nat, excess : Nat]
    BY <1>2, <1>3 DEF SendUdp
  <2> QED
    BY <1>3, <2>1 DEF SendUdp
<1>4. CASE SendTcp
  <2>1. tokens' \in 0..Cap /\ sent' \in Nat
        /\ hist' \in [refills : Nat, spilled : Nat, excess : Nat]
    BY <1>2, <1>4 DEF SendTcp
  <2>2. net' \in Nat /\ spc' \in {"loop", "stop"}
    BY <1>4 DEF SendTcp
  <2> QED
    BY <1>4, <2>1, <2>2 DEF SendTcp
<1>5. CASE Wake
  BY <1>5 DEF Wake
<1> QED
  BY <1>1, <1>3, <1>4, <1>5

\* Every variable keeps its type; of the token count that needs that a packet is sent
\* only when it is paid.
LEMMA TypeInductive ==
  ASSUME TypeOK, Ready, [Next]_vars
  PROVE  TypeOK' /\ Ready'
<1> USE BenchAssumption DEF TypeOK, Ready, sender, sink, Procs
<1>1. CASE Fill \/ SendUdp \/ SendTcp \/ Wake
  BY <1>1, SenderTypes
<1>2. CASE StartFails \/ Start \/ Leave \/ SenderJoin
  BY <1>2 DEF StartFails, Start, Leave, SenderJoin
<1>3. CASE SinkStart \/ SinkUdp \/ SinkAccept \/ SinkClose
  BY <1>3 DEF SinkStart, SinkUdp, SinkAccept, SinkClose
<1>4. CASE SinkRecv
  <2>1. net' \in Nat /\ tcp' \in {"recv", "accept"}
        /\ conn' \in {"none", "pending", "open", "dropped", "closed"}
    BY <1>4 DEF SinkRecv
  <2> QED
    BY <1>4, <2>1 DEF SinkRecv
<1>5. ASSUME NEW p \in Procs, Report(p) PROVE TypeOK' /\ Ready'
  BY <1>5 DEF Report
<1>6. ASSUME NEW p \in Procs, CtrlC(p) PROVE TypeOK' /\ Ready'
  BY <1>6 DEF CtrlC
<1>7. CASE Advance
  <2>1. hist' \in [refills : Nat, spilled : Nat, excess : Nat]
    BY <1>7 DEF Advance
  <2> QED
    BY <1>7, <2>1 DEF Advance
<1>8. CASE UNCHANGED vars
  BY <1>8 DEF vars
<1> QED
  BY <1>1, <1>2, <1>3, <1>4, <1>5, <1>6, <1>7, <1>8 DEF Next

-----------------------------------------------------------------------------
\* The quantities are numbers, and a window of five packets is one of a packet and a
\* full bucket.
LEMMA Quantities ==
  ASSUME TypeOK, Ready
  PROVE  /\ hist.excess \in Nat /\ Unit * tokens \in Nat /\ Pending \in Nat
         /\ Unit * Pkt \in Nat
         /\ FivePackets = 5 * (Unit * Pkt)
         /\ Unit * Cap = 4 * (Unit * Pkt)
<1>1. hist.excess \in Nat /\ tokens \in Nat /\ Pkt \in Nat /\ Unit \in Nat
  BY BenchAssumption DEF TypeOK, Cap
<1>2. Pending \in Nat
  BY RefillRounds
<1>3. Unit * tokens \in Nat /\ Unit * Pkt \in Nat
  BY <1>1, ProductNat
<1> QED
  BY <1>1, <1>2, <1>3 DEF FivePackets, Cap

\* A refill makes what was pending part of the bucket, and no more than a full bucket.
LEMMA FillKeepsWindow ==
  ASSUME PaceInv, Fill
  PROVE  Window'
<1>1. TypeOK /\ Ready /\ Window
  BY DEF PaceInv
<1>2. /\ tokens' = Refilled /\ lastFill' = now /\ now' = now
      /\ hist'.excess = hist.excess
  BY <1>1 DEF Fill, Filled, TypeOK
<1>3. Pending' = 0
  BY <1>1, <1>2, BenchAssumption DEF Pending, TypeOK
<1>4. Unspent' = hist.excess + Unit * Refilled
  BY <1>2 DEF Unspent
<1>5. /\ Refilled \in Nat /\ Refill \in Nat /\ tokens \in Nat /\ Cap \in Nat
      /\ Refilled <= tokens + Refill /\ Refilled <= Cap /\ Unit \in Nat
  BY <1>1, RefillKeepsCap, RefillRounds, BenchAssumption DEF TypeOK, Cap
<1>6. /\ Unit * Refilled \in Nat
      /\ Unit * Refilled <= Unit * tokens + Unit * Refill
      /\ Unit * Refilled <= Unit * Cap
  <2>1. ASSUME NEW a \in Nat, NEW b \in Nat, a <= b PROVE Unit * a <= Unit * b
    <3>1. Unit * (b - a) \in Nat
      BY <1>5, <2>1, ProductNat
    <3> QED
      BY <1>5, <3>1, Distributes
  <2>2. Unit * (tokens + Refill) = Unit * tokens + Unit * Refill
    BY <1>5, Distributes
  <2> QED
    BY <1>5, <2>1, <2>2, ProductNat
<1>7. Unit * Refill <= Pending /\ Unit * Refill \in Nat
  BY <1>1, <1>5, RefillRounds, ProductNat
<1>8. hist.excess + Unit * Refilled <= FivePackets
  <2>1. CASE Unspent + Pending <= FivePackets
    BY <1>1, <1>5, <1>6, <1>7, <2>1, Quantities DEF Unspent
  <2>2. CASE hist.excess <= Unit * Pkt
    BY <1>1, <1>6, <2>2, Quantities
  <2>3. spc = "loop"
    BY DEF Fill
  <2> QED
    BY <1>1, <2>1, <2>2, <2>3 DEF Window
<1>9. FivePackets' = FivePackets
  BY DEF FivePackets
<1>10. Unspent' <= FivePackets' /\ Unspent' + Pending' <= FivePackets'
  BY <1>1, <1>3, <1>4, <1>6, <1>8, <1>9, Quantities
<1> QED
  BY <1>10 DEF Window

\* What is sent moves from the bucket to the excess.
LEMMA SendKeepsWindow ==
  ASSUME PaceInv, SendStep
  PROVE  Window'
<1>1. TypeOK /\ Ready /\ Window
  BY DEF PaceInv
<1>2. FivePackets' = FivePackets /\ Pending' = Pending
  BY DEF SendStep, FivePackets, Pending
<1>3. spc' # "send" /\ spc = "send"
  BY DEF SendStep
<1>4. CASE UNCHANGED <<sent, tokens, hist>>
  BY <1>1, <1>2, <1>3, <1>4, Quantities DEF Window, Unspent
<1>5. ASSUME NEW n \in 1..Pkt, Sends(n) PROVE Window'
  <2>1. Unit \in Nat /\ n \in Nat /\ tokens \in Nat /\ Pkt \in Nat /\ n <= Pkt
    BY <1>1, BenchAssumption DEF TypeOK, Cap
  <2>2. hist'.excess = hist.excess + Unit * n /\ tokens' = tokens - n
    BY <1>1, <1>5 DEF Sends, TypeOK
  <2>3. Unit * tokens' = Unit * tokens - Unit * n
    BY <2>1, <2>2, Distributes
  <2>4. Unit * n \in Nat /\ Unit * n <= Unit * Pkt
    <3>1. Unit * (Pkt - n) \in Nat
      BY <2>1, ProductNat
    <3> QED
      BY <2>1, <3>1, Distributes, ProductNat
  <2>5. Unspent' = Unspent
    BY <1>1, <2>2, <2>3, <2>4, Quantities DEF Unspent
  <2>6. Unspent \in Nat /\ Pending \in Nat
    BY <1>1, Quantities DEF Unspent
  <2>7. hist.excess <= 0 => hist'.excess <= Unit * Pkt
    BY <1>1, <2>2, <2>4, Quantities
  <2> QED
    BY <1>1, <1>2, <1>3, <2>5, <2>7 DEF Window
<1> QED
  BY <1>4, <1>5 DEF SendStep

\* As time passes the excess drains into what is pending, until there is none.
LEMMA AdvanceKeepsWindow ==
  ASSUME PaceInv, Advance
  PROVE  Window'
<1>1. TypeOK /\ Ready /\ Window
  BY DEF PaceInv
<1>2. /\ FivePackets' = FivePackets /\ spc' = spc
      /\ tokens' = tokens /\ now' = now + 1 /\ lastFill' = lastFill
      /\ hist'.excess = IF hist.excess > Rate THEN hist.excess - Rate ELSE 0
  BY <1>1 DEF Advance, FivePackets, TypeOK, sender
<1>3. Rate \in Nat /\ now \in Nat /\ lastFill \in Nat
  BY <1>1, BenchAssumption DEF TypeOK
<1>4. Pending' = Pending + Rate
  <2>1. (now + 1) - lastFill = (now - lastFill) + 1
    BY <1>3
  <2>2. Rate * ((now - lastFill) + 1) = Rate * (now - lastFill) + Rate
    BY <1>3, Distributes
  <2> QED
    BY <1>2, <2>1, <2>2 DEF Pending
<1>5. hist'.excess \in Nat /\ hist'.excess <= hist.excess
  BY <1>1, <1>2, <1>3, Quantities
<1>6. Unspent' = hist'.excess + Unit * tokens
  BY <1>2 DEF Unspent
<1>7. Unspent' <= FivePackets'
  BY <1>1, <1>2, <1>5, <1>6, Quantities DEF Window, Unspent
<1>8. CASE hist.excess > Rate
  BY <1>1, <1>2, <1>3, <1>4, <1>5, <1>6, <1>7, <1>8, Quantities DEF Window, Unspent
<1>9. CASE ~(hist.excess > Rate)
  BY <1>1, <1>2, <1>3, <1>7, <1>9, Quantities DEF Window
<1> QED
  BY <1>8, <1>9

LEMMA PaceInductive == PaceInv /\ [Next]_vars => PaceInv'
<1> SUFFICES ASSUME PaceInv, [Next]_vars PROVE PaceInv'
  OBVIOUS
<1>1. TypeOK' /\ Ready'
  BY TypeInductive DEF PaceInv
<1>2. ASSUME OtherStep PROVE Window'
  <2>1. Unspent' = Unspent /\ Pending' = Pending /\ FivePackets' = FivePackets
    BY <1>2 DEF OtherStep, Unspent, Pending, FivePackets
  <2> QED
    BY <1>2, <2>1 DEF OtherStep, PaceInv, Window
<1>3. Window'
  BY <1>2, StepKinds, FillKeepsWindow, SendKeepsWindow, AdvanceKeepsWindow DEF PaceInv
<1> QED
  BY <1>1, <1>3 DEF PaceInv

\* A refill accounts for the time since the last one, but for a part of a bit.
LEMMA FillKeepsAccount ==
  ASSUME AccountInv, Fill
  PROVE  Accounted'
<1>1. TypeOK /\ Ready /\ Accounted
  BY DEF AccountInv
<1>2. /\ tokens' = Refilled /\ lastFill' = now /\ sent' = sent
      /\ hist'.spilled = hist.spilled + (tokens + Refill - Refilled)
      /\ hist'.refills = IF now > lastFill THEN hist.refills + 1 ELSE hist.refills
  BY <1>1 DEF Fill, Filled, TypeOK
<1>3. /\ Unit \in Nat \ {0} /\ Rate \in Nat /\ now \in Nat /\ lastFill \in Nat
      /\ lastFill <= now
      /\ sent \in Nat /\ tokens \in Nat /\ Refill \in Nat /\ Refilled \in Nat
      /\ hist.spilled \in Nat /\ hist.refills \in Nat
  BY <1>1, BenchAssumption, RefillRounds, RefillKeepsCap DEF TypeOK, Ready, Cap
<1>4. Kept' = Kept + Unit * Refill
  <2>1. sent' + tokens' + hist'.spilled = (sent + tokens + hist.spilled) + Refill
    BY <1>2, <1>3
  <2>2. Unit * ((sent + tokens + hist.spilled) + Refill)
           = Unit * (sent + tokens + hist.spilled) + Unit * Refill
    BY <1>3, Distributes
  <2> QED
    BY <2>1, <2>2 DEF Kept
<1>5. Paid' = Paid + Pending
  <2>1. Rate * (now - lastFill) = Rate * now - Rate * lastFill
    BY <1>3, Distributes
  <2>2. Unit * Pkt \in Nat /\ Rate * now \in Nat /\ Rate * lastFill \in Nat
    BY <1>3, ProductNat, BenchAssumption
  <2> QED
    BY <1>2, <2>1, <2>2 DEF Paid, Pending
<1>6. Kept \in Nat /\ Paid \in Nat
  <2>1. Unit * (sent + tokens + hist.spilled) \in Nat
    BY <1>3, ProductNat
  <2>2. Unit * Pkt \in Nat /\ Rate * lastFill \in Nat
    BY <1>3, ProductNat, BenchAssumption
  <2> QED
    BY <2>1, <2>2 DEF Kept, Paid
<1>7. /\ Unit * Refill \in Nat /\ Pending \in Nat /\ Unit * Refill <= Pending
      /\ Pending <= Unit * Refill + (Unit - 1)
  BY <1>1, <1>3, RefillRounds, ProductNat
<1>8. (Unit - 1) * hist.refills \in Nat
      /\ (Unit - 1) * (hist.refills + 1) = (Unit - 1) * hist.refills + (Unit - 1)
  <2>1. Unit - 1 \in Nat
    BY <1>3
  <2> QED
    BY <1>3, <2>1, ProductNat, Distributes
<1>9. CASE now > lastFill
  BY <1>1, <1>2, <1>3, <1>4, <1>5, <1>6, <1>7, <1>8, <1>9 DEF Accounted
<1>10. CASE ~(now > lastFill)
  <2>1. now = lastFill
    BY <1>3, <1>10
  <2>2. Refill = 0 /\ Pending = 0
    BY <1>1, <1>3, <2>1, RefillRounds, BenchAssumption DEF Pending
  <2>3. Kept' = Kept /\ Paid' = Paid
    BY <1>3, <1>4, <1>5, <1>6, <2>2
  <2> QED
    BY <1>1, <1>2, <1>10, <2>3 DEF Accounted
<1> QED
  BY <1>9, <1>10

LEMMA AccountInductive == AccountInv /\ [Next]_vars => AccountInv'
<1> SUFFICES ASSUME AccountInv, [Next]_vars PROVE AccountInv'
  OBVIOUS
<1>1. TypeOK' /\ Ready'
  BY TypeInductive DEF AccountInv
<1>2. ASSUME NEW n \in 1..Pkt, Sends(n), lastFill' = lastFill PROVE Accounted'
  <2>1. sent \in Nat /\ tokens \in Nat /\ hist.spilled \in Nat /\ n \in Nat
    BY <1>2, BenchAssumption DEF AccountInv, TypeOK, Cap
  <2>2. /\ sent' = sent + n /\ tokens' = tokens - n
        /\ hist'.spilled = hist.spilled /\ hist'.refills = hist.refills
    BY <1>2 DEF Sends, AccountInv, TypeOK
  <2>3. sent' + tokens' + hist'.spilled = sent + tokens + hist.spilled
    BY <2>1, <2>2
  <2>4. Kept' = Kept /\ Paid' = Paid
    BY <1>2, <2>3 DEF Kept, Paid
  <2> QED
    BY <2>2, <2>4 DEF AccountInv, Accounted
<1>3. ASSUME UNCHANGED <<sent, tokens, lastFill>>,
             hist'.spilled = hist.spilled, hist'.refills = hist.refills
      PROVE  Accounted'
  <2>1. Kept' = Kept /\ Paid' = Paid
    BY <1>3 DEF Kept, Paid
  <2> QED
    BY <1>3, <2>1 DEF AccountInv, Accounted
<1>4. CASE SendStep
  <2>1. Accounted'
    BY <1>2, <1>3, <1>4 DEF SendStep
  <2> QED
    BY <1>1, <2>1 DEF AccountInv
<1>5. CASE Advance
  <2>1. hist'.spilled = hist.spilled /\ hist'.refills = hist.refills
    BY <1>5 DEF Advance, AccountInv, TypeOK
  <2>2. Accounted'
    BY <1>3, <1>5, <2>1 DEF Advance, sender
  <2> QED
    BY <1>1, <2>2 DEF AccountInv
<1>6. CASE OtherStep
  <2>1. Accounted'
    BY <1>3, <1>6 DEF OtherStep
  <2> QED
    BY <1>1, <2>1 DEF AccountInv
<1>7. CASE Fill
  BY <1>1, <1>7, FillKeepsAccount DEF AccountInv
<1> QED
  BY <1>4, <1>5, <1>6, <1>7, StepKinds

-----------------------------------------------------------------------------
\* The bucket's unsigned count never wraps below zero and never goes over its cap, and
\* every other variable keeps its type, in every run of the two processes.
THEOREM TypeCorrect == Spec => []TypeOK
<1>1. PaceInv => TypeOK
  BY DEF PaceInv
<1> QED
  BY <1>1, InitInv, PaceInductive, PTL DEF Spec

\* No window of time sees more than the rate's worth and five packets, whatever the
\* sender's main loop is held up by.
THEOREM Paced == Spec => []WindowBound
<1>1. PaceInv => WindowBound
  <2> SUFFICES ASSUME PaceInv PROVE WindowBound
    OBVIOUS
  <2>1. TypeOK /\ Ready /\ Unspent <= FivePackets
    BY DEF PaceInv, Window
  <2>2. hist.excess <= FivePackets /\ FivePackets = Unit * 5 * Pkt
    BY <2>1, Quantities DEF Unspent, FivePackets
  <2> QED
    BY <2>2 DEF WindowBound
<1> QED
  BY <1>1, InitInv, PaceInductive, PTL DEF Spec

\* What time pays for is sent, kept, spilled over the cap or, less than a bit at each
\* refill, rounded away: the sender is never ahead of its rate, and behind it only by
\* what it spilled and by its roundings.
THEOREM PaidIsAccounted == Spec => []Accounted
<1>1. AccountInv => Accounted
  BY DEF AccountInv
<1> QED
  BY <1>1, InitInv, AccountInductive, PTL DEF Spec
=============================================================================
