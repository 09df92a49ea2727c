-------------------------- MODULE DatagramTransport --------------------------
(***************************************************************************)
(* carrier.asyncio.dgram.base.DgramAsyncioProtocol on its event loop, and  *)
(* how the dispatcher hands on what it receives.  The state is             *)
(*   [endpoint : how far asyncio is with the socket,                       *)
(*    watched : whether _lport holds the task that opens it,               *)
(*    queue, options : _writeQ and _pendingSocketOptions,                  *)
(*    sent, dropped : the datagrams sent, and those a flush failed on,     *)
(*    broken : whether a connection_made has failed, out of order since,   *)
(*    cb, known : the callback is set; the dispatcher knows the transport, *)
(*    arrived, delivered : the datagrams in call_soon, and in receivers,   *)
(*    receivers, routed : recvIds registered; is a routing function set,   *)
(*    closed : the last of the calls that open and close it closed it,     *)
(*    frozen : what was delivered when the dispatcher let go of it].       *)
(* endpoint is "none", "task" (create_datagram_endpoint waits), "created"  *)
(* (connection_made is scheduled), "open", "abandoned" (created, but the   *)
(* task cancelled) or "closing" (connection_lost is scheduled).  A         *)
(* datagram to send is [id, ok], ok if its address is one of the           *)
(* transport; an option is whether setsockopt takes it.                    *)
(***************************************************************************)
EXTENDS Integers, Sequences, FiniteSets, SequencesExt, Functions

Default == "default"    \* recvId None

NewTransport ==
    [endpoint |-> "none", watched |-> FALSE, queue |-> <<>>, options |-> <<>>, sent |-> <<>>, dropped |-> {},
     broken |-> FALSE, cb |-> FALSE, known |-> FALSE, arrived |-> <<>>, delivered |-> <<>>,
     receivers |-> {Default}, routed |-> FALSE, closed |-> FALSE, frozen |-> <<>>]

\* self.transport is not None
Connected(s) == s.endpoint \in {"open", "closing"}

----------------------------------------------------------------------------
\* The protocol.

Ids(q) == [i \in DOMAIN q |-> q[i].id]

\* MUTANT of Flushed: the newest first.
FlushedNewestFirst(s) == [s EXCEPT !.sent = @ \o Ids(Reverse(s.queue)), !.queue = <<>>]

\* The queue is sent from its head.  A datagram that cannot be is lost with the
\* exception, and what is behind it stays where it is.
Flushed(s) ==
    LET bad == SelectInSeq(s.queue, LAMBDA m : ~m.ok)
    IN IF bad = 0 THEN [s EXCEPT !.sent = @ \o Ids(s.queue), !.queue = <<>>]
       ELSE [s EXCEPT !.sent = @ \o Ids(SubSeq(s.queue, 1, bad - 1)), !.dropped = @ \cup {s.queue[bad].id},
                      !.queue = SubSeq(@, bad + 1, Len(@)), !.broken = TRUE]

\* An option that fails leaves all of them, and the queue, for the next connection.
connection_made(s) ==
    LET up == [s EXCEPT !.endpoint = IF @ = "abandoned" THEN "closing" ELSE "open"]
    IN IF \E i \in DOMAIN s.options : ~s.options[i] THEN [up EXCEPT !.broken = TRUE]
       ELSE Flushed([up EXCEPT !.options = <<>>])

connection_lost(s) == [s EXCEPT !.endpoint = "none"]

\* openClientMode, openServerMode: in a running loop a task that may fail unheard,
\* otherwise the loop runs until the endpoint is there.
openMode(s, running) ==
    LET opened == [s EXCEPT !.closed = FALSE]
    IN IF running THEN [opened EXCEPT !.endpoint = "task", !.watched = TRUE] ELSE connection_made(opened)

\* MUTANT of closeTransport: the task that opens the endpoint is forgotten.
CloseTransportForgets(s) ==
    [s EXCEPT !.endpoint = IF @ = "open" THEN "closing" ELSE @, !.watched = FALSE, !.cb = FALSE, !.closed = TRUE]

\* Cancelling comes too late for a created endpoint, which asyncio then closes itself.
closeTransport(s) ==
    [s EXCEPT !.endpoint = IF s.watched /\ @ = "task" THEN "none"
                           ELSE IF s.watched /\ @ = "created" THEN "abandoned"
                           ELSE IF @ = "open" THEN "closing" ELSE @,
              !.watched = FALSE, !.cb = FALSE, !.closed = TRUE]

\* A datagram that cannot be sent raises in the caller.
sendMessage(s, m) ==
    IF ~Connected(s) THEN [s EXCEPT !.queue = Append(@, m)]
    ELSE IF m.ok THEN [s EXCEPT !.sent = Append(@, m.id)] ELSE s

\* enableBroadcast; one that fails on an open socket raises in the caller.
configureSocket(s, ok) == IF Connected(s) THEN s ELSE [s EXCEPT !.options = Append(@, ok)]

\* Without a callback it raises, and the datagram is lost.
datagram_received(s, m) == IF s.cb THEN [s EXCEPT !.arrived = Append(@, m)] ELSE s

----------------------------------------------------------------------------
\* The event loop of asyncio.
EndpointCreated(s) == [s EXCEPT !.endpoint = "created"]
EndpointFails(s) == [s EXCEPT !.endpoint = "none"]

----------------------------------------------------------------------------
\* The dispatcher.

registerTransport(s) == [s EXCEPT !.cb = TRUE, !.known = TRUE]
unregisterTransport(s) == [s EXCEPT !.cb = FALSE, !.known = FALSE, !.frozen = s.delivered]
closeDispatcher(s) ==
    [unregisterTransport(closeTransport(s)) EXCEPT !.receivers = @ \ {Default}]

registerRecvCbFun(s, id) == [s EXCEPT !.receivers = @ \cup {id}]
unregisterRecvCbFun(s, id) == [s EXCEPT !.receivers = @ \ {id}]
registerRoutingCbFun(s) == [s EXCEPT !.routed = TRUE]
unregisterRoutingCbFun(s) == [s EXCEPT !.routed = FALSE]

\* _cbFun: a datagram of a transport that was unregistered meanwhile, or for a receiver
\* that is not there, raises in the loop.
cbFun(s, route) ==
    LET to == IF s.routed THEN route[Head(s.arrived)] ELSE Default
    IN [s EXCEPT !.arrived = Tail(@),
                 !.delivered = IF s.known /\ to \in s.receivers
                               THEN Append(@, Head(s.arrived)) ELSE @]

transportsAreWorking(s) == s.known /\ s.queue # <<>>

----------------------------------------------------------------------------
\* "Send a datagram, queueing it if the loop has not connected the socket yet": of the
\* datagrams accepted none is lost but one whose address turns out wrong when the queue
\* is sent; they leave once and in order, and none waits behind an open socket.  Once
\* a flush has failed the rest of the queue does wait, overtaken by what is sent later,
\* and the dispatcher takes the transport for a working one until it is opened again.
SendsInOrder(s, accepted) ==
    /\ Range(s.sent) \cup Range(Ids(s.queue)) \cup s.dropped = accepted
    /\ Len(s.sent) + Len(s.queue) + Cardinality(s.dropped) = Cardinality(accepted)
    /\ s.dropped # {} => s.broken
    /\ ~s.broken => /\ \A i, j \in DOMAIN s.sent : i < j => s.sent[i] < s.sent[j]
                    /\ transportsAreWorking(s) => ~Connected(s)
                    /\ Connected(s) => s.options = <<>>

\* "Cancel the pending endpoint, close the socket, and drop the callback": whenever it
\* is closed, no socket stays open or comes to be; and what was received is handed on
\* in order, nothing of it once the dispatcher has let go of the transport.
ClosedForGood(s) ==
    /\ s.closed => s.endpoint \in {"none", "abandoned", "closing"}
    /\ ~s.known => s.delivered = s.frozen
    /\ \A i, j \in DOMAIN s.delivered : i < j => s.delivered[i] < s.delivered[j]
=============================================================================
