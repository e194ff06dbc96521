--------------------------- MODULE TcpProxy_proofs ---------------------------
(***************************************************************************)
(* Theorems about TcpProxy for any number of chunks and of connections: type *)
(* correctness, the order and completeness of what is relayed, the fidelity  *)
(* of what is recorded, and what is left open between two connections.       *)
(***************************************************************************)
EXTENDS TcpProxy, SequenceTheorems, TLAPS

Idle == {"check", "accept", "done"}     \* the accept thread has no connection

\* Where the halves and the sockets stand, by the accept thread's position.
Phases ==
    /\ acc \in Idle \union {"connect"} => half["client"] = "off" /\ half["server"] = "off"
    /\ acc = "join" => half["client"] = "off"
    /\ acc \in Idle \union {"join"} => sock["client"] # "open"
    /\ acc \in Idle \union {"join", "connect"} => sock["server"] # "open"

\* A sequence that counts up from base.
CountsFrom(base, s) == \A i \in 1..Len(s) : s[i] = base + i

\* The stream from one end: what was recorded, what the relay holds and what is still
\* to be received make up, in this order, what the peer has sent, for as long as the
\* relay reads.
Taken(e) ==
    IF half[e] \in {"send", "record"} THEN Len(recorded[e]) + 1 ELSE Len(recorded[e])
Reading(e) == half[e] # "off" \/ acc = "connect"

Stream(e) ==
    /\ CountsFrom(0, recorded[e])
    /\ CountsFrom(0, got[Other(e)])
    /\ CountsFrom(sent[e] - Len(inflow[e]), inflow[e])
    /\ chunk[e] = IF half[e] \in {"send", "record"} THEN Taken(e) ELSE 0
    /\ Len(recorded[e]) <= sent[e]
    /\ Reading(e) => Taken(e) + Len(inflow[e]) = sent[e]

\* What is delivered is what is recorded or about to be, up to the other peer's close.
Passed(e) == IF half[e] = "record" THEN Len(recorded[e]) + 1 ELSE Len(recorded[e])
Delivery(e) ==
    /\ Len(got[Other(e)]) <= Passed(e)
    /\ Reading(e) /\ peer[Other(e)] = "open" => Len(got[Other(e)]) = Passed(e)
    /\ acc = "connect" => recorded[e] = <<>> /\ got[Other(e)] = <<>>

Streams == \A e \in Ends : Stream(e) /\ Delivery(e)
IInv == TypeOK /\ Phases /\ Streams

-----------------------------------------------------------------------------
\* Two sequences that count from the same base differ in length only.
LEMMA CountingPrefix ==
  ASSUME NEW s \in Seq(Nat), NEW t \in Seq(Nat),
         CountsFrom(0, s), CountsFrom(0, t), Len(s) <= Len(t)
  PROVE  IsPrefix(s, t)
<1>1. /\ SubSeq(s, 1, Len(s)) \in Seq(Nat) /\ SubSeq(t, 1, Len(s)) \in Seq(Nat)
      /\ Len(SubSeq(s, 1, Len(s))) = Len(s) /\ Len(SubSeq(t, 1, Len(s))) = Len(s)
  OBVIOUS
<1>2. ASSUME NEW i \in 1..Len(s)
      PROVE  SubSeq(s, 1, Len(s))[i] = SubSeq(t, 1, Len(s))[i]
  BY DEF CountsFrom
<1>3. SubSeq(s, 1, Len(s)) = SubSeq(t, 1, Len(s))
  BY <1>1, <1>2, SeqEqual
<1> QED
  BY <1>3 DEF IsPrefix

\* The two directions do not meet: a step that leaves one alone keeps what is said of it.
Untouched(e) ==
    /\ recorded'[e] = recorded[e] /\ half'[e] = half[e] /\ chunk'[e] = chunk[e]
    /\ inflow'[e] = inflow[e] /\ sent'[e] = sent[e]
    /\ got'[Other(e)] = got[Other(e)]

LEMMA UntouchedKept ==
  ASSUME NEW e \in Ends, Stream(e), Delivery(e), Untouched(e),
         acc' = "connect" => acc = "connect",
         peer'[Other(e)] = "open" => peer[Other(e)] = "open"
  PROVE  Stream(e)' /\ Delivery(e)'
  BY DEF Untouched, Stream, Delivery, Taken, Passed, Reading, CountsFrom

\* One more chunk, and the right one.
LEMMA CountsOn ==
  ASSUME NEW s \in Seq(Chunks), NEW c \in Chunks, CountsFrom(0, s), c = Len(s) + 1
  PROVE  /\ Append(s, c) \in Seq(Chunks)
         /\ Len(Append(s, c)) = Len(s) + 1
         /\ CountsFrom(0, Append(s, c))
<1>1. /\ Append(s, c) \in Seq(Chunks)
      /\ Len(Append(s, c)) = Len(s) + 1
      /\ \A i \in 1..Len(s) : Append(s, c)[i] = s[i]
      /\ Append(s, c)[Len(s) + 1] = c
  BY AppendProperties
<1>2. Len(s) \in Nat /\ c \in Nat
  BY TcpProxyAssumption DEF Chunks
<1>3. ASSUME NEW i \in 1..(Len(s) + 1) PROVE Append(s, c)[i] = i
  BY <1>1, <1>2, <1>3 DEF CountsFrom
<1> QED
  BY <1>1, <1>2, <1>3 DEF CountsFrom

LEMMA HalfKeepsStream ==
  ASSUME NEW e \in Ends, IInv, Relay(e)
  PROVE  TypeOK' /\ Stream(e)' /\ Delivery(e)'
<1> USE DEF Stream, Delivery, Taken, Passed, Reading
<1>1. /\ TypeOK /\ Stream(e) /\ Delivery(e) /\ Other(e) \in Ends
      /\ half[e] # "off" => acc # "connect"
  BY DEF IInv, Streams, Phases, Other, Ends
<1>2. CASE HalfCheck(e)
  BY <1>1, <1>2 DEF HalfCheck, TypeOK, CountsFrom
<1>3. CASE HalfEof(e)
  BY <1>1, <1>3 DEF HalfEof, TypeOK, CountsFrom
<1>4. CASE HalfSendFails(e)
  BY <1>1, <1>4 DEF HalfSendFails, TypeOK, CountsFrom
<1>5. CASE HalfRecv(e)
  <2>1. inflow[e] \in Seq(Chunks) /\ inflow[e] # <<>>
    BY <1>1, <1>5 DEF HalfRecv, TypeOK
  <2>2. /\ Head(inflow[e]) \in Chunks /\ Tail(inflow[e]) \in Seq(Chunks)
        /\ Head(inflow[e]) = inflow[e][1]
        /\ Len(inflow[e]) \in Nat \ {0}
        /\ Len(Tail(inflow[e])) = Len(inflow[e]) - 1
        /\ \A i \in 1..Len(Tail(inflow[e])) : Tail(inflow[e])[i] = inflow[e][i + 1]
    BY <2>1, HeadTailProperties
  <2>3. TypeOK'
    BY <1>1, <1>5, <2>2 DEF HalfRecv, TypeOK
  <2>4. CountsFrom(sent'[e] - Len(inflow'[e]), inflow'[e])
    BY <1>1, <1>5, <2>2 DEF HalfRecv, TypeOK, CountsFrom
  <2>5. chunk'[e] = Len(recorded[e]) + 1
    BY <1>1, <1>5, <2>2 DEF HalfRecv, TypeOK, CountsFrom
  <2>6. Stream(e)'
    BY <1>1, <1>5, <2>2, <2>4, <2>5 DEF HalfRecv, TypeOK, CountsFrom
  <2>7. Delivery(e)'
    BY <1>1, <1>5 DEF HalfRecv, TypeOK
  <2> QED
    BY <2>3, <2>6, <2>7
<1>6. CASE HalfSend(e)
  <2>1. /\ chunk[e] \in Chunks /\ chunk[e] = Len(recorded[e]) + 1
        /\ Len(got[Other(e)]) = Len(recorded[e]) \/ peer[Other(e)] # "open"
    BY <1>1, <1>6 DEF HalfSend, SendTo, TypeOK, Chunks
  <2>2. CASE peer[Other(e)] = "open"
    <3> DEFINE g == Append(got[Other(e)], chunk[e])
    <3>1. got[Other(e)] \in Seq(Chunks)
      BY <1>1 DEF TypeOK
    <3>2. /\ g \in Seq(Chunks) /\ Len(g) = Len(got[Other(e)]) + 1
          /\ CountsFrom(0, g)
      BY <1>1, <1>6, <2>1, <2>2, <3>1, CountsOn DEF HalfSend, SendTo
    <3>3. /\ got' = [got EXCEPT ![Other(e)] = g]
          /\ unread[Other(e)] < PeerRoom
          /\ unread' = [unread EXCEPT ![Other(e)] = @ + 1]
      BY <1>6, <2>2 DEF HalfSend, SendTo
    <3> HIDE DEF g
    <3>4. TypeOK'
      <4>1. unread' \in [Ends -> 0..PeerRoom]
        <5>1. unread \in [Ends -> 0..PeerRoom] /\ PeerRoom \in Nat
          BY <1>1, TcpProxyAssumption DEF TypeOK
        <5>2. unread[Other(e)] + 1 \in 0..PeerRoom
          BY <3>3, <5>1 DEF Ends, Other
        <5> QED
          BY <3>3, <5>1, <5>2
      <4>2. got' \in [Ends -> Seq(Chunks)] /\ half' \in [Ends -> {"off", "check", "recv", "send", "record"}]
        BY <1>1, <1>6, <3>2, <3>3 DEF HalfSend, TypeOK
      <4>3. UNCHANGED <<running, stopper, acc, chunk, sock, peer, inflow, sent, recorded, conns>>
        BY <1>6 DEF HalfSend
      <4> QED
        BY <1>1, <4>1, <4>2, <4>3 DEF TypeOK
    <3>5. got'[Other(e)] = g
      BY <1>1, <3>3 DEF TypeOK
    <3>6. Stream(e)'
      BY <1>1, <1>6, <3>2, <3>5 DEF HalfSend, SendTo, TypeOK, CountsFrom
    <3>7. Delivery(e)'
      BY <1>1, <1>6, <2>1, <2>2, <3>2, <3>5 DEF HalfSend, SendTo, TypeOK
    <3> QED
      BY <3>4, <3>6, <3>7
  <2>3. CASE peer[Other(e)] # "open"
    BY <1>1, <1>6, <2>3 DEF HalfSend, SendTo, TypeOK, CountsFrom
  <2> QED
    BY <2>2, <2>3
<1>7. CASE HalfRecord(e)
  <2> DEFINE r == Append(recorded[e], chunk[e])
  <2>1. /\ chunk[e] \in Chunks /\ chunk[e] = Len(recorded[e]) + 1
        /\ recorded[e] \in Seq(Chunks)
    BY <1>1, <1>7 DEF HalfRecord, TypeOK, Chunks
  <2>2. /\ r \in Seq(Chunks) /\ Len(r) = Len(recorded[e]) + 1
        /\ CountsFrom(0, r)
    BY <1>1, <2>1, CountsOn
  <2>3. recorded' = [recorded EXCEPT ![e] = r]
    BY <1>7 DEF HalfRecord
  <2> HIDE DEF r
  <2>4. TypeOK'
    BY <1>1, <1>7, <2>2, <2>3 DEF HalfRecord, TypeOK
  <2>5. recorded'[e] = r
    BY <1>1, <2>3 DEF TypeOK
  <2>6. Stream(e)'
    BY <1>1, <1>7, <2>2, <2>5 DEF HalfRecord, TypeOK, CountsFrom
  <2>7. Delivery(e)'
    BY <1>1, <1>7, <2>2, <2>5 DEF HalfRecord, TypeOK
  <2> QED
    BY <2>4, <2>6, <2>7
<1> QED
  BY <1>2, <1>3, <1>4, <1>5, <1>6, <1>7 DEF Relay

\* A half leaves the other direction and the accept thread's phase alone.
LEMMA HalfKeepsRest ==
  ASSUME NEW e \in Ends, IInv, Relay(e)
  PROVE  Phases' /\ Stream(Other(e))' /\ Delivery(Other(e))'
<1>1. /\ TypeOK /\ Phases /\ Stream(Other(e)) /\ Delivery(Other(e))
      /\ Other(e) \in Ends /\ Other(e) # e /\ Other(Other(e)) = e
  BY DEF IInv, Streams, Other, Ends
<1>2. /\ UNCHANGED <<acc, sock, peer, sent>>
      /\ half[e] # "off" /\ half'[Other(e)] = half[Other(e)]
  BY <1>1 DEF Relay, HalfCheck, HalfEof, HalfSendFails, HalfRecv, HalfSend, SendTo, HalfRecord,
                 TypeOK
<1>3. Phases'
  BY <1>1, <1>2 DEF Phases, Idle, Ends, Other
<1>4. Untouched(Other(e))
  BY <1>1, <1>2 DEF Relay, HalfCheck, HalfEof, HalfSendFails, HalfRecv, HalfSend, SendTo,
                    HalfRecord, TypeOK, Untouched
<1> QED
  BY <1>1, <1>2, <1>3, <1>4, UntouchedKept

\* The accept thread takes a client with nothing left of an earlier one, and starts
\* both halves on it.
LEMMA AcceptKeeps ==
  ASSUME IInv, AcceptThread \/ AccAccept
  PROVE  IInv'
<1>1. TypeOK /\ Phases /\ (\A e \in Ends : Stream(e) /\ Delivery(e) /\ Other(e) \in Ends)
  BY DEF IInv, Streams, Other, Ends
<1>2. CASE AccCheck \/ AccRefused \/ AccJoin
  <2>1. UNCHANGED connVars /\ acc' # "connect"
    BY <1>2 DEF AccCheck, AccRefused, AccJoin
  <2>2. TypeOK'
    BY <1>1, <1>2, <2>1 DEF AccCheck, AccRefused, AccJoin, TypeOK, connVars
  <2>3. Phases'
    BY <1>1, <1>2, <2>1 DEF AccCheck, AccRefused, AccJoin, Phases, Idle, connVars
  <2>4. ASSUME NEW e \in Ends PROVE Stream(e)' /\ Delivery(e)'
    BY <1>1, <2>1, <2>4, UntouchedKept DEF connVars, Untouched
  <2> QED
    BY <2>2, <2>3, <2>4 DEF IInv, Streams
<1>3. CASE AccCloseBoth
  <2>1. TypeOK'
    BY <1>1, <1>3 DEF AccCloseBoth, TypeOK, Both
  <2>2. Phases'
    BY <1>1, <1>3 DEF AccCloseBoth, Phases, Idle, Both, Ends
  <2>3. ASSUME NEW e \in Ends PROVE Stream(e)' /\ Delivery(e)'
    BY <1>1, <1>3, <2>3, UntouchedKept DEF AccCloseBoth, Untouched
  <2> QED
    BY <2>1, <2>2, <2>3 DEF IInv, Streams
<1>4. CASE AccConnect
  <2>1. TypeOK'
    BY <1>1, <1>4 DEF AccConnect, ConnectTo, TypeOK, Both, Ends
  <2>2. Phases'
    BY <1>1, <1>4 DEF AccConnect, ConnectTo, Phases, Idle, TypeOK, Both, Ends
  <2>3. ASSUME NEW e \in Ends PROVE Stream(e)' /\ Delivery(e)'
    <3>1. CASE acc' = "relay"
      <4>1. /\ half[e] = "off" /\ half'[e] = "check" /\ acc = "connect"
            /\ UNCHANGED <<chunk, inflow, sent, got, recorded>>
        BY <1>1, <1>4, <3>1 DEF AccConnect, Phases, Both, Ends
      <4>2. Taken(e)' = Taken(e) /\ Passed(e)' = Passed(e) /\ Reading(e)
        BY <4>1 DEF Taken, Passed, Reading
      <4>3. Stream(e)'
        BY <1>1, <4>1, <4>2 DEF Stream, CountsFrom
      <4>4. recorded[e] = <<>> /\ got[Other(e)] = <<>> /\ Passed(e) = 0
        BY <1>1, <4>1, EmptySeq DEF Delivery, Passed
      <4> QED
        BY <3>1, <4>1, <4>2, <4>3, <4>4 DEF Delivery
    <3>2. CASE acc' # "relay"
      BY <1>1, <1>4, <3>2, UntouchedKept DEF AccConnect, Untouched
    <3> QED
      BY <3>1, <3>2
  <2> QED
    BY <2>1, <2>2, <2>3 DEF IInv, Streams
<1>5. CASE AccAccept
  <2>1. <<>> \in Seq(Chunks) /\ 0 \in 0..MaxChunks /\ 0 \in 0..PeerRoom /\ conns' \in 0..MaxConns
    BY <1>1, <1>5, TcpProxyAssumption, EmptySeq DEF AccAccept, TypeOK
  <2>2. TypeOK'
    BY <1>1, <1>5, <2>1 DEF AccAccept, TypeOK, Both, Ends
  <2>3. Phases'
    BY <1>1, <1>5 DEF AccAccept, Phases, Idle, TypeOK, Ends
  <2>4. ASSUME NEW e \in Ends PROVE Stream(e)' /\ Delivery(e)'
    <3>1. half'[e] = "off"
      BY <1>1, <1>5 DEF AccAccept, Phases, Idle, Ends
    <3>2. /\ chunk'[e] = 0 /\ sent'[e] = 0
          /\ inflow'[e] = <<>> /\ recorded'[e] = <<>> /\ got'[Other(e)] = <<>>
      BY <1>1, <1>5 DEF AccAccept, Both
    <3> QED
      BY <3>1, <3>2 DEF Stream, Delivery, Taken, Passed, Reading, CountsFrom
  <2> QED
    BY <2>2, <2>3, <2>4 DEF IInv, Streams
<1> QED
  BY <1>2, <1>3, <1>4, <1>5 DEF AcceptThread

\* The peers and the caller of stop().
LEMMA OthersKeep ==
  ASSUME IInv,
         \/ Stop \/ StopClose \/ StopJoined \/ UNCHANGED vars
         \/ \E e \in Ends : PeerSend(e) \/ PeerRead(e) \/ PeerClose(e)
  PROVE  IInv'
<1>1. TypeOK /\ Phases /\ (\A e \in Ends : Stream(e) /\ Delivery(e) /\ Other(e) \in Ends)
  BY DEF IInv, Streams, Other, Ends
<1>2. CASE Stop \/ StopClose \/ StopJoined \/ UNCHANGED vars
  <2>1. UNCHANGED <<acc, connVars, conns>>
    BY <1>2 DEF Stop, StopClose, StopJoined, vars
  <2>2. TypeOK'
    BY <1>1, <1>2, <2>1 DEF Stop, StopClose, StopJoined, vars, TypeOK, connVars
  <2>3. Phases'
    BY <1>1, <2>1 DEF Phases, connVars
  <2>4. ASSUME NEW e \in Ends PROVE Stream(e)' /\ Delivery(e)'
    BY <1>1, <2>1, <2>4, UntouchedKept DEF connVars, Untouched
  <2> QED
    BY <2>2, <2>3, <2>4 DEF IInv, Streams
<1>3. ASSUME NEW e \in Ends, PeerClose(e) PROVE IInv'
  <2>1. TypeOK'
    BY <1>1, <1>3 DEF PeerClose, TypeOK
  <2>2. Phases'
    BY <1>1, <1>3 DEF PeerClose, Phases
  <2>3. ASSUME NEW d \in Ends PROVE Stream(d)' /\ Delivery(d)'
    <3>1. peer'[Other(d)] = "open" => peer[Other(d)] = "open"
      BY <1>1, <1>3 DEF PeerClose, TypeOK
    <3> QED
      BY <1>1, <1>3, <3>1, UntouchedKept DEF PeerClose, Untouched
  <2> QED
    BY <2>1, <2>2, <2>3 DEF IInv, Streams
<1>5. ASSUME NEW e \in Ends, PeerRead(e) PROVE IInv'
  <2>1. TypeOK'
    BY <1>1, <1>5, TcpProxyAssumption DEF PeerRead, TypeOK
  <2>2. Phases'
    BY <1>1, <1>5 DEF PeerRead, Phases
  <2>3. ASSUME NEW d \in Ends PROVE Stream(d)' /\ Delivery(d)'
    BY <1>1, <1>5, UntouchedKept DEF PeerRead, Untouched
  <2> QED
    BY <2>1, <2>2, <2>3 DEF IInv, Streams
<1>4. ASSUME NEW e \in Ends, PeerSend(e) PROVE IInv'
  <2>1. /\ sent[e] \in Nat /\ sent[e] + 1 \in Chunks /\ inflow[e] \in Seq(Chunks)
        /\ sent' = [sent EXCEPT ![e] = @ + 1]
        /\ inflow' = [inflow EXCEPT ![e] = Append(@, sent[e] + 1)]
        /\ UNCHANGED <<running, stopper, acc, half, chunk, sock, peer, got, unread, recorded, conns>>
    BY <1>1, <1>4, TcpProxyAssumption DEF PeerSend, TypeOK, Chunks
  <2> DEFINE q == Append(inflow[e], sent[e] + 1)
  <2>2. /\ q \in Seq(Chunks) /\ Len(q) = Len(inflow[e]) + 1
        /\ \A i \in 1..Len(inflow[e]) : q[i] = inflow[e][i]
        /\ q[Len(inflow[e]) + 1] = sent[e] + 1
    BY <2>1, AppendProperties
  <2>3. /\ sent'[e] = sent[e] + 1 /\ inflow' = [inflow EXCEPT ![e] = q] /\ inflow'[e] = q
    BY <1>1, <2>1 DEF TypeOK
  <2> HIDE DEF q
  <2>4. TypeOK'
    BY <1>1, <1>4, <2>1, <2>2, <2>3 DEF TypeOK, Chunks
  <2>5. Phases'
    BY <1>1, <2>1 DEF Phases
  <2>6. CountsFrom(sent'[e] - Len(q), q)
    <3>1. Len(inflow[e]) \in Nat /\ CountsFrom(sent[e] - Len(inflow[e]), inflow[e])
      BY <1>1, <2>1 DEF Stream
    <3>2. sent'[e] - Len(q) = sent[e] - Len(inflow[e])
      BY <2>1, <2>2, <2>3, <3>1
    <3>3. ASSUME NEW i \in 1..Len(q) PROVE q[i] = (sent[e] - Len(inflow[e])) + i
      <4>1. i \in 1..Len(inflow[e]) \/ i = Len(inflow[e]) + 1
        BY <2>2, <3>1, <3>3
      <4>2. CASE i \in 1..Len(inflow[e])
        BY <2>2, <3>1, <4>2 DEF CountsFrom
      <4>3. CASE i = Len(inflow[e]) + 1
        BY <2>1, <2>2, <3>1, <4>3
      <4> QED
        BY <4>1, <4>2, <4>3
    <3> QED
      BY <3>2, <3>3 DEF CountsFrom
  <2>7. Stream(e)' /\ Delivery(e)'
    <3>1. recorded[e] \in Seq(Chunks) /\ Len(q) \in Nat /\ Len(inflow[e]) \in Nat
      BY <1>1, <2>1, <2>2, LenProperties DEF TypeOK
    <3>2. CountsFrom(sent'[e] - Len(inflow'[e]), inflow'[e])
      BY <2>3, <2>6
    <3>3. /\ Taken(e)' = Taken(e) /\ Passed(e)' = Passed(e) /\ Reading(e)' = Reading(e)
      BY <2>1 DEF Taken, Passed, Reading
    <3>4. Taken(e) \in Nat
      BY <3>1 DEF Taken
    <3>5. Stream(e)'
      <4>1. /\ CountsFrom(0, recorded'[e]) /\ CountsFrom(0, got'[Other(e)])
            /\ chunk'[e] = IF half'[e] \in {"send", "record"} THEN Taken(e)' ELSE 0
        BY <1>1, <2>1, <3>3 DEF Stream
      <4>2. Len(recorded'[e]) <= sent'[e]
        BY <1>1, <2>1, <2>3, <3>1 DEF Stream
      <4>3. Reading(e)' => Taken(e)' + Len(inflow'[e]) = sent'[e]
        <5>1. Reading(e) => Taken(e) + Len(inflow[e]) = sent[e]
          BY <1>1 DEF Stream
        <5> QED
          BY <2>1, <2>2, <2>3, <3>1, <3>3, <3>4, <5>1
      <4> QED
        BY <3>2, <4>1, <4>2, <4>3 DEF Stream
    <3> QED
      BY <1>1, <2>1, <3>3, <3>5 DEF Delivery
  <2>8. ASSUME NEW d \in Ends, d # e PROVE Stream(d)' /\ Delivery(d)'
    BY <1>1, <2>1, <2>8, UntouchedKept DEF TypeOK, Untouched
  <2> QED
    BY <2>4, <2>5, <2>7, <2>8 DEF IInv, Streams
<1> QED
  BY <1>2, <1>3, <1>4, <1>5

LEMMA InitInv == Init => IInv
<1> SUFFICES ASSUME Init PROVE IInv
  OBVIOUS
<1>1. <<>> \in Seq(Chunks)
  BY EmptySeq
<1>2. TypeOK
  BY <1>1, TcpProxyAssumption DEF Init, TypeOK, Both, Ends
<1>3. Phases
  BY DEF Init, Phases, Idle, Both, Ends
<1>4. ASSUME NEW e \in Ends PROVE Stream(e) /\ Delivery(e)
  BY DEF Init, Stream, Delivery, Taken, Passed, Reading, CountsFrom, Both, Ends, Other
<1> QED
  BY <1>2, <1>3, <1>4 DEF IInv, Streams

LEMMA StepKeeps == IInv /\ [Next]_vars => IInv'
<1> SUFFICES ASSUME IInv, [Next]_vars PROVE IInv'
  OBVIOUS
<1>1. ASSUME NEW e \in Ends, Relay(e) PROVE IInv'
  <2>1. \A d \in Ends : d = e \/ d = Other(e)
    BY DEF Ends, Other
  <2> QED
    BY <1>1, <2>1, HalfKeepsStream, HalfKeepsRest DEF IInv, Streams
<1> QED
  BY <1>1, AcceptKeeps, OthersKeep DEF Next

-----------------------------------------------------------------------------
\* In every run of the proxy each variable keeps its type: what is delivered and
\* recorded are chunks, never what a half's cleared buffer holds.
THEOREM TypeCorrect == Spec => []TypeOK
<1>1. IInv => TypeOK
  BY DEF IInv
<1> QED
  BY <1>1, InitInv, StepKeeps, PTL DEF Spec

\* When the accept thread has no connection in hand, no socket of an earlier one is
\* open and neither half of it is running.
THEOREM OneConnection == Spec => []NothingLeftOpen
<1>1. IInv => NothingLeftOpen
  BY DEF IInv, Phases, NothingLeftOpen, Idle, Ends
<1> QED
  BY <1>1, InitInv, StepKeeps, PTL DEF Spec

\* However the two halves, the two peers and stop() interleave, a peer receives a
\* prefix of what the other one sent.
THEOREM InOrder == Spec => []RelayedInOrder
<1>1. IInv => RelayedInOrder
  <2> SUFFICES ASSUME IInv, NEW e \in Ends PROVE IsPrefix(got[Other(e)], Sent(e))
    BY DEF RelayedInOrder
  <2>1. TypeOK /\ Stream(e) /\ Delivery(e) /\ Other(e) \in Ends
    BY DEF IInv, Streams, Other, Ends
  <2>2. sent[e] \in Nat /\ got[Other(e)] \in Seq(Nat)
    BY <2>1, TcpProxyAssumption DEF TypeOK, Chunks
  <2>3. Sent(e) \in Seq(Nat) /\ Len(Sent(e)) = sent[e] /\ CountsFrom(0, Sent(e))
    BY <2>2 DEF Sent, CountsFrom
  <2>4. Len(got[Other(e)]) <= sent[e]
    <3>1. /\ Len(got[Other(e)]) \in Nat /\ Len(recorded[e]) \in Nat
          /\ Len(inflow[e]) \in Nat
      BY <2>1 DEF TypeOK
    <3>2. CASE half[e] = "record"
      <4>1. Taken(e) = Len(recorded[e]) + 1 /\ Passed(e) = Len(recorded[e]) + 1 /\ Reading(e)
        BY <3>2 DEF Passed, Taken, Reading
      <4>2. (Len(recorded[e]) + 1) + Len(inflow[e]) = sent[e]
        BY <2>1, <4>1 DEF Stream
      <4>3. Len(got[Other(e)]) <= Len(recorded[e]) + 1
        BY <2>1, <4>1 DEF Delivery
      <4> QED
        BY <2>1, <4>2, <4>3, TcpProxyAssumption DEF TypeOK, Chunks
    <3>3. CASE half[e] # "record"
      BY <2>1, <2>2, <3>1, <3>3 DEF Stream, Delivery, Passed
    <3> QED
      BY <3>2, <3>3
  <2> QED
    BY <2>1, <2>2, <2>3, <2>4, CountingPrefix DEF Stream
<1> QED
  BY <1>1, InitInv, StepKeeps, PTL DEF Spec

\* The capture holds what the peer sent in its order, and of what has been delivered
\* it lacks at most the chunk in the relay's hand.
THEOREM Recorded == Spec => []RecordedAsRelayed
<1>1. IInv => RecordedAsRelayed
  <2> SUFFICES ASSUME IInv, NEW e \in Ends
               PROVE  /\ IsPrefix(recorded[e], Sent(e))
                      /\ IsPrefix(got[Other(e)], recorded[e] \o InHand(e))
    BY DEF RecordedAsRelayed
  <2> DEFINE r == recorded[e]
             g == got[Other(e)]
  <2>1. TypeOK /\ Stream(e) /\ Delivery(e) /\ Other(e) \in Ends
    BY DEF IInv, Streams, Other, Ends
  <2>2. sent[e] \in Nat /\ g \in Seq(Nat) /\ r \in Seq(Nat) /\ chunk[e] \in Nat
    BY <2>1, TcpProxyAssumption DEF TypeOK, Chunks
  <2>3. /\ CountsFrom(0, r) /\ CountsFrom(0, g) /\ Len(r) <= sent[e]
        /\ chunk[e] = IF half[e] \in {"send", "record"} THEN Taken(e) ELSE 0
        /\ Len(g) <= Passed(e)
    BY <2>1 DEF Stream, Delivery
  <2>4. Sent(e) \in Seq(Nat) /\ Len(Sent(e)) = sent[e] /\ CountsFrom(0, Sent(e))
    BY <2>2 DEF Sent, CountsFrom
  <2> HIDE DEF r, g
  <2>5. IsPrefix(r, Sent(e))
    BY <2>2, <2>3, <2>4, CountingPrefix
  <2>6. CASE half[e] \in {"send", "record"}
    <3>1. /\ Len(r) \in Nat /\ chunk[e] = Len(r) + 1 /\ InHand(e) = <<chunk[e]>>
          /\ Len(g) \in Nat /\ Len(g) <= Len(r) + 1
      BY <2>2, <2>3, <2>6 DEF Taken, Passed, InHand, r
    <3>2. /\ r \o InHand(e) \in Seq(Nat) /\ Len(r \o InHand(e)) = Len(r) + 1
          /\ CountsFrom(0, r \o InHand(e))
      BY <2>2, <2>3, <3>1 DEF CountsFrom
    <3> QED
      BY <2>2, <2>3, <2>5, <3>1, <3>2, CountingPrefix DEF r, g
  <2>7. CASE half[e] \notin {"send", "record"}
    <3>1. r \o InHand(e) = r /\ Len(g) <= Len(r)
      BY <2>2, <2>3, <2>7, ConcatEmptySeq DEF Passed, InHand, r
    <3> QED
      BY <2>2, <2>3, <2>5, <3>1, CountingPrefix DEF r, g
  <2> QED
    BY <2>6, <2>7
<1> QED
  BY <1>1, InitInv, StepKeeps, PTL DEF Spec
=============================================================================
