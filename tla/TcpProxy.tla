------------------------------ MODULE TcpProxy ------------------------------
(***************************************************************************)
(* vbus::TcpProxy (vbus/src/net/tcp_proxy.{h,cpp}): the accept thread, the  *)
(* two relay halves of the one connection it handles at a time, and stop(). *)
(*                                                                          *)
(* The accept thread itself relays client->server; a helper thread relays   *)
(* server->client.  A half blocks in recv, which has no timeout; when the   *)
(* client's half ends, both sockets are closed, which is what unblocks the  *)
(* helper.  It blocks in send as well, while the peer has no room for more.    *)
(* The peers are the environment: they send chunks, read and close.         *)
(***************************************************************************)
EXTENDS Naturals, Sequences, SequencesExt

CONSTANTS
    MaxChunks,  \* bound: chunks a peer sends on one connection
    MaxConns,   \* bound: connections accepted
    PeerRoom    \* bound: chunks a peer's socket takes before the peer reads

ASSUME TcpProxyAssumption == MaxChunks \in Nat /\ MaxConns \in Nat /\ PeerRoom \in Nat \ {0}

Ends == {"client", "server"}
Other(e) == IF e = "client" THEN "server" ELSE "client"

VARIABLES
    running,    \* m_Running
    stopper,    \* the caller of stop(): "out", "closing", "joining", "returned"
    acc,        \* the accept thread
    half,       \* half[e]: the relay reading from peer e
    chunk,      \* chunk[e]: what that relay has in its buffer (0: nothing)
    sock,       \* the proxy's socket towards each peer
    peer,       \* what each peer has done with its own end
    inflow,     \* chunks sent by the peer and not yet received
    sent,       \* how many chunks the peer has sent on this connection
    got,        \* what has been delivered to the peer's socket
    unread,     \* how much of it the peer has not read
    recorded,   \* what has been injected into the bus, by origin
    conns       \* history: connections accepted

connVars == <<half, chunk, sock, peer, inflow, sent, got, unread, recorded>>
vars == <<running, stopper, acc, connVars, conns>>

Both(x) == [e \in Ends |-> x]

Init ==
    /\ running = TRUE
    /\ stopper = "out"
    /\ acc = "check"
    /\ half = Both("off")
    /\ chunk = Both(0)
    /\ sock = Both("none")
    /\ peer = Both("none")
    /\ inflow = Both(<<>>)
    /\ sent = Both(0)
    /\ got = Both(<<>>)
    /\ unread = Both(0)
    /\ recorded = Both(<<>>)
    /\ conns = 0

-----------------------------------------------------------------------------
(* acceptLoop and proxyConnection.                                          *)

\* Faulty variants, here and below, differ from the definition they precede by one
\* plausible slip; each violates the property named with it in PROJECT.json.
ListeningForEver == TRUE    \* stop() does not close m_Listener

\* m_Listener is open: stop() clears m_Running first and closes it second.
Listening == stopper \in {"out", "closing"}

AccCheck ==
    /\ acc = "check"
    /\ acc' = IF running THEN "accept" ELSE "done"
    /\ UNCHANGED <<running, stopper, connVars, conns>>

\* accept() returns a client's connection; nothing is left of an earlier one.
AccAccept ==
    /\ acc = "accept" /\ Listening
    /\ conns < MaxConns
    /\ conns' = conns + 1
    /\ acc' = "connect"
    /\ sock' = [sock EXCEPT !["client"] = "open", !["server"] = "none"]
    /\ peer' = [peer EXCEPT !["client"] = "open", !["server"] = "none"]
    /\ inflow' = Both(<<>>) /\ sent' = Both(0) /\ got' = Both(<<>>)
    /\ unread' = Both(0) /\ recorded' = Both(<<>>) /\ chunk' = Both(0)
    /\ UNCHANGED <<running, stopper, half>>

\* accept() fails: stop() has closed the listener.
AccRefused ==
    /\ acc = "accept" /\ ~Listening
    /\ acc' = "done"
    /\ UNCHANGED <<running, stopper, connVars, conns>>

\* connectTo: the target is resolved and takes the connection.
ConnectTo ==
    /\ sock' = [sock EXCEPT !["server"] = "open"]
    /\ peer' = [peer EXCEPT !["server"] = "open"]

AccConnectLeaks ==          \* continue without closesocket(clientSock)
    /\ acc = "connect"
    /\ \/ /\ acc' = "relay"
          /\ ConnectTo
          /\ half' = Both("check")
       \/ acc' = "check" /\ UNCHANGED <<sock, peer, half>>
    /\ UNCHANGED <<running, stopper, chunk, inflow, sent, got, unread, recorded, conns>>

\* Both halves start, or the client is dropped.
AccConnect ==
    /\ acc = "connect"
    /\ \/ /\ acc' = "relay"
          /\ ConnectTo
          /\ half' = Both("check")
       \/ /\ acc' = "check"
          /\ sock' = [sock EXCEPT !["client"] = "closed"]
          /\ UNCHANGED <<peer, half>>
    /\ UNCHANGED <<running, stopper, chunk, inflow, sent, got, unread, recorded, conns>>

AccCloseClient ==           \* closes only the socket whose relay has ended
    /\ acc = "relay" /\ half["client"] = "off"
    /\ sock' = [sock EXCEPT !["client"] = "closed"]
    /\ acc' = "join"
    /\ UNCHANGED <<running, stopper, half, chunk, peer, inflow, sent, got, unread, recorded, conns>>

\* relayHalf(client, server, 0) has returned on this thread: close both sockets.
AccCloseBoth ==
    /\ acc = "relay" /\ half["client"] = "off"
    /\ sock' = Both("closed")
    /\ acc' = "join"
    /\ UNCHANGED <<running, stopper, half, chunk, peer, inflow, sent, got, unread, recorded, conns>>

\* t.join(); the sockets are then closed a second time, which finds them closed.
AccJoin ==
    /\ acc = "join" /\ half["server"] = "off"
    /\ acc' = "check"
    /\ UNCHANGED <<running, stopper, connVars, conns>>

-----------------------------------------------------------------------------
(* relayHalf(src, dst, direction), reading from e and writing to Other(e).  *)

HalfCheck(e) ==
    /\ half[e] = "check"
    /\ half' = [half EXCEPT ![e] = IF running THEN "recv" ELSE "off"]
    /\ UNCHANGED <<running, stopper, acc, chunk, sock, peer, inflow, sent, got, unread, recorded, conns>>

HalfPeek(e) ==              \* MSG_PEEK: the data stays in the socket
    /\ half[e] = "recv" /\ sock[e] = "open" /\ inflow[e] # <<>>
    /\ chunk' = [chunk EXCEPT ![e] = Head(inflow[e])]
    /\ half' = [half EXCEPT ![e] = "send"]
    /\ UNCHANGED <<running, stopper, acc, sock, peer, inflow, sent, got, unread, recorded, conns>>

\* recv returns data.
HalfRecv(e) ==
    /\ half[e] = "recv" /\ sock[e] = "open" /\ inflow[e] # <<>>
    /\ chunk' = [chunk EXCEPT ![e] = Head(inflow[e])]
    /\ inflow' = [inflow EXCEPT ![e] = Tail(@)]
    /\ half' = [half EXCEPT ![e] = "send"]
    /\ UNCHANGED <<running, stopper, acc, sock, peer, sent, got, unread, recorded, conns>>

\* recv fails on a socket we closed, returns 0 after the peer's close, or fails
\* after its reset, which discards what was on the way.
HalfEof(e) ==
    /\ half[e] = "recv"
    /\ sock[e] = "closed" \/ peer[e] = "closed"
    /\ half' = [half EXCEPT ![e] = "off"]
    /\ UNCHANGED <<running, stopper, acc, chunk, sock, peer, inflow, sent, got, unread, recorded, conns>>

\* send: the data reaches a peer that is there, once its socket has room for it;
\* towards one that has closed, it may be accepted and lost.
SendTo(d, c) ==
    \/ /\ peer[d] = "open" /\ unread[d] < PeerRoom
       /\ got' = [got EXCEPT ![d] = Append(@, c)]
       /\ unread' = [unread EXCEPT ![d] = @ + 1]
    \/ /\ peer[d] # "open"
       /\ UNCHANGED <<got, unread>>

HalfSendUnrecorded(e) ==    \* goes round the loop without m_Bus.Send
    /\ half[e] = "send" /\ sock[Other(e)] = "open"
    /\ SendTo(Other(e), chunk[e])
    /\ chunk' = [chunk EXCEPT ![e] = 0]
    /\ half' = [half EXCEPT ![e] = "check"]
    /\ UNCHANGED <<running, stopper, acc, sock, peer, inflow, sent, recorded, conns>>

\* The sockets are blocking: the half is held up in send while the peer does not read.
HalfSend(e) ==
    /\ half[e] = "send" /\ sock[Other(e)] = "open"
    /\ SendTo(Other(e), chunk[e])
    /\ half' = [half EXCEPT ![e] = "record"]
    /\ UNCHANGED <<running, stopper, acc, chunk, sock, peer, inflow, sent, recorded, conns>>

\* send fails: the half ends without recording the chunk.
HalfSendFails(e) ==
    /\ half[e] = "send"
    /\ sock[Other(e)] = "closed" \/ peer[Other(e)] = "closed"
    /\ half' = [half EXCEPT ![e] = "off"]
    /\ chunk' = [chunk EXCEPT ![e] = 0]
    /\ UNCHANGED <<running, stopper, acc, sock, peer, inflow, sent, got, unread, recorded, conns>>

HalfRecordCleared(e) ==     \* the buffer is reset before it is recorded
    /\ half[e] = "record"
    /\ recorded' = [recorded EXCEPT ![e] = Append(@, 0)]
    /\ chunk' = [chunk EXCEPT ![e] = 0]
    /\ half' = [half EXCEPT ![e] = "check"]
    /\ UNCHANGED <<running, stopper, acc, sock, peer, inflow, sent, got, unread, conns>>

\* m_Bus.Send of the chunk, tagged with its direction.
HalfRecord(e) ==
    /\ half[e] = "record"
    /\ recorded' = [recorded EXCEPT ![e] = Append(@, chunk[e])]
    /\ chunk' = [chunk EXCEPT ![e] = 0]
    /\ half' = [half EXCEPT ![e] = "check"]
    /\ UNCHANGED <<running, stopper, acc, sock, peer, inflow, sent, got, unread, conns>>

-----------------------------------------------------------------------------
(* stop(), called by a handler that holds g_mtx, or by the destructor.      *)

Stop ==
    /\ stopper = "out"
    /\ running' = FALSE
    /\ stopper' = "closing"
    /\ UNCHANGED <<acc, connVars, conns>>

StopClose ==
    /\ stopper = "closing"
    /\ stopper' = "joining"
    /\ UNCHANGED <<running, acc, connVars, conns>>

StopJoined ==
    /\ stopper = "joining" /\ acc = "done"
    /\ stopper' = "returned"
    /\ UNCHANGED <<running, acc, connVars, conns>>

(* The peers.                                                               *)

PeerSend(e) ==
    /\ peer[e] = "open" /\ sock[e] = "open"
    /\ sent[e] < MaxChunks
    /\ sent' = [sent EXCEPT ![e] = @ + 1]
    /\ inflow' = [inflow EXCEPT ![e] = Append(@, sent[e] + 1)]
    /\ UNCHANGED <<running, stopper, acc, half, chunk, sock, peer, got, unread, recorded, conns>>

PeerRead(e) ==
    /\ peer[e] = "open" /\ unread[e] > 0
    /\ unread' = [unread EXCEPT ![e] = @ - 1]
    /\ UNCHANGED <<running, stopper, acc, half, chunk, sock, peer, inflow, sent, got,
                   recorded, conns>>

PeerClose(e) ==
    /\ peer[e] = "open"
    /\ peer' = [peer EXCEPT ![e] = "closed"]
    /\ UNCHANGED <<running, stopper, acc, half, chunk, sock, inflow, sent, got, unread, recorded, conns>>

AcceptThread == AccCheck \/ AccRefused \/ AccConnect \/ AccCloseBoth \/ AccJoin
Relay(e) ==
    HalfCheck(e) \/ HalfRecv(e) \/ HalfEof(e) \/ HalfSend(e) \/ HalfSendFails(e) \/ HalfRecord(e)

Next ==
    \/ AcceptThread \/ AccAccept
    \/ \E e \in Ends : Relay(e)
    \/ Stop \/ StopClose \/ StopJoined
    \/ \E e \in Ends : PeerSend(e) \/ PeerRead(e) \/ PeerClose(e)

\* The proxy's threads run.  Of the peers two things are assumed, and the liveness
\* below holds under no less: the client closes in the end, which is all that ends a
\* connection here, and the server goes on reading until it closes, or the half that
\* would see the client's close stays in send.  The client need not read: a half held
\* up towards it is freed when both sockets are closed.
ThreadFairness ==
    /\ WF_vars(AcceptThread)
    /\ WF_vars(StopClose) /\ WF_vars(StopJoined)
    /\ \A e \in Ends : WF_vars(Relay(e))

Spec == Init /\ [][Next]_vars
FairSpec ==
    Spec /\ ThreadFairness /\ WF_vars(PeerClose("client")) /\ WF_vars(PeerRead("server"))

-----------------------------------------------------------------------------
Chunks == 1..MaxChunks

TypeOK ==
    /\ running \in BOOLEAN
    /\ stopper \in {"out", "closing", "joining", "returned"}
    /\ acc \in {"check", "accept", "connect", "relay", "join", "done"}
    /\ half \in [Ends -> {"off", "check", "recv", "send", "record"}]
    /\ chunk \in [Ends -> Chunks \union {0}]
    /\ sock \in [Ends -> {"none", "open", "closed"}]
    /\ peer \in [Ends -> {"none", "open", "closed"}]
    /\ inflow \in [Ends -> Seq(Chunks)]
    /\ got \in [Ends -> Seq(Chunks)]
    /\ unread \in [Ends -> 0..PeerRoom]
    /\ recorded \in [Ends -> Seq(Chunks)]
    /\ sent \in [Ends -> 0..MaxChunks]
    /\ conns \in 0..MaxConns

Sent(e) == [i \in 1..sent[e] |-> i]
InHand(e) == IF chunk[e] = 0 THEN <<>> ELSE <<chunk[e]>>

\* What a peer receives is what the other one sent, in order, with no gap and no
\* repetition, whichever way the connection ends (tcp_proxy.cpp:124-148).
RelayedInOrder == \A e \in Ends : IsPrefix(got[Other(e)], Sent(e))

\* The capture is faithful to the relayed stream: it holds what was passed on in
\* that order, it never runs ahead of the stream, and it lacks at most the chunk
\* whose relay is between send and Send (tcp_proxy.cpp:133-146).
RecordedAsRelayed ==
    \A e \in Ends :
        /\ IsPrefix(recorded[e], Sent(e))
        /\ IsPrefix(got[Other(e)], recorded[e] \o InHand(e))

\* No socket and no helper thread survives its connection: one connection at a
\* time (tcp_proxy.h:33-35, tcp_proxy.cpp:105-107).
NothingLeftOpen ==
    acc \in {"check", "accept", "done"} =>
        \A e \in Ends : sock[e] # "open" /\ half[e] = "off"

\* When the client hangs up, the target's connection is closed too, although the
\* relay that has to notice may be in send: given a server that reads (FairSpec).
ClientCloseReachesServer ==
    (peer["client"] = "closed" /\ sock["server"] = "open") ~> (sock["server"] # "open")

\* stop() returns, as long as the client of the connection being relayed closes in
\* the end and the server reads (FairSpec); one that does neither keeps the caller.
StopReturns == (stopper = "closing") ~> (stopper = "returned")

=============================================================================
