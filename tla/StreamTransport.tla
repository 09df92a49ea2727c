-------------------------- MODULE StreamTransport --------------------------
(***************************************************************************)
(* The TCP carrier, carrier.asyncio.stream.base.StreamAsyncioTransport:    *)
(* one transport that serves every peer of its domain over connections it  *)
(* opens when a message needs one, or that peers opened to it.             *)
(*                                                                         *)
(* Every action is one callback of the event loop.  The loop runs them in  *)
(* the order they were scheduled, which leaves these freedoms: a closing   *)
(* connection is lost only when its unsent octets are gone, a connect task *)
(* resumes some iterations after connection_made, a failure is reported    *)
(* (call_soon) after whatever was already scheduled.                       *)
(***************************************************************************)
EXTENDS Integers, Sequences, PythonData

CONSTANTS
    Peers,         \* peer addresses
    Listeners,     \* the peers that accept connections
    Callers,       \* the peers that open connections to this transport
    ClientMode,    \* openClientMode was called
    NestedConnect, \* asyncio.wait_for runs the connect in a task of its own
                   \* (Python before 3.12): other callbacks run between a
                   \* connection and the end of the task that made it
    MaxMessages,   \* BOUND: messages the dispatcher sends
    MaxConns       \* BOUND: connections made in all

ASSUME StreamAssumption ==
    /\ Listeners \subseteq Peers /\ Callers \subseteq Peers
    /\ ClientMode \in BOOLEAN /\ NestedConnect \in BOOLEAN
    /\ MaxMessages \in Nat /\ MaxConns \in Nat

VARIABLES
    dest,         \* dest[m]: the peer the m-th message is for
    carrier,      \* carrier[m]: the connection it was written to, 0 for none
    sent,         \* sent[m]: the messages written before m was
    writeQ,       \* self._writeQ, in the order the messages were sent
    conns,        \* the connections made: their peer and state
    connections,  \* self._connections
    connectTasks, \* self._connectTasks: 0 while dialling, then the connection
    cancelled,    \* the peers whose connect task closeTransport cancelled
    reports,      \* the calls of _errorCbFun that are scheduled
    told,         \* the messages whose peer was reported after they were sent
    closed,       \* closeTransport was called
    accepted,     \* the peers whose accepted connection's connection_made is scheduled
    overtaken     \* history: those of them closeTransport overtook

msgVars == <<dest, carrier, sent, writeQ>>
connVars == <<conns, connections, connectTasks, cancelled>>
acceptVars == <<accepted, overtaken>>
vars == <<msgVars, connVars, reports, told, closed, acceptVars>>

Init ==
    /\ dest = << >> /\ carrier = << >> /\ sent = EmptyMap /\ writeQ = {}
    /\ conns = << >> /\ connections = EmptyMap
    /\ connectTasks = EmptyMap /\ cancelled = {}
    /\ reports = << >> /\ told = {} /\ closed = FALSE
    /\ accepted = {} /\ overtaken = {}

-----------------------------------------------------------------------------
IsOpen(c) == conns[c].state = "open"

\* c was lost before the task that made it resumed.
LostBeforeDone == \E p \in DOMAIN connectTasks :
                     connectTasks[p] # 0 /\ conns[connectTasks[p]].state = "lost"

\* Where the connect is not nested, the task resumes right after such a loss.
Undisturbed == NestedConnect \/ ~LostBeforeDone

\* The task that made c has not resumed yet.
Unfinished(c) == c \in {connectTasks[p] : p \in DOMAIN connectTasks}

Queued(p) == {m \in writeQ : dest[m] = p}
NotQueued(p) == {m \in writeQ : dest[m] # p}

\* MUTANT of SendMessage: a message is queued without its address.
SendMessageUnaddressed(p) ==
    /\ ~closed /\ Len(dest) < MaxMessages /\ ClientMode
    /\ writeQ' = writeQ \cup {Len(dest) + 1}
    /\ connectTasks' = Put(connectTasks, p, 0)
    /\ UNCHANGED <<dest, carrier, sent, conns, connections, cancelled, reports, told, closed, acceptVars>>

\* sendMessage: write, or queue and connect.  A transport not in client mode
\* raises CarrierError instead, which changes nothing here.
SendMessage(p) ==
    /\ Undisturbed /\ ~closed /\ Len(dest) < MaxMessages
    /\ dest' = Append(dest, p)
    /\ \/ /\ p \in DOMAIN connections /\ IsOpen(connections[p])
          /\ carrier' = Append(carrier, connections[p])
          /\ sent' = Put(sent, Len(dest'), DOMAIN sent)
          /\ UNCHANGED <<writeQ, connectTasks>>
       \/ /\ ~(p \in DOMAIN connections /\ IsOpen(connections[p]))
          /\ ClientMode
          /\ carrier' = Append(carrier, 0)
          /\ writeQ' = writeQ \cup {Len(dest')}
          /\ connectTasks' = IF p \in DOMAIN connectTasks THEN connectTasks
                                                          ELSE Put(connectTasks, p, 0)
          /\ UNCHANGED sent
    /\ UNCHANGED <<conns, connections, cancelled, reports, told, closed, acceptVars>>

\* MUTANT of WrittenBefore: the queue is written last message first.
WrittenBeforeReversed(k, m) == k > m

\* Of two messages in the queue, the one put there first is written first.
WrittenBefore(k, m) == k < m

\* _connectionMade for the next connection, which turns out to be in state s:
\* adopt it and write what waits for its peer.
Adopt(p, s) ==
    LET c == Len(conns) + 1
    IN  /\ c <= MaxConns
        /\ conns' = Append(conns, [peer |-> p, state |-> s])
        /\ connections' = Put(connections, p, c)
        /\ writeQ' = NotQueued(p)
        /\ sent' = [m \in DOMAIN sent \cup Queued(p) |->
                      IF m \in Queued(p)
                      THEN DOMAIN sent \cup {k \in Queued(p) : WrittenBefore(k, m)}
                      ELSE sent[m]]
        /\ carrier' = [m \in DOMAIN carrier |-> IF m \in Queued(p) THEN c ELSE carrier[m]]
        /\ UNCHANGED dest

\* A dialled connection is made.  Writing the queue to it may break it, and
\* one whose task was cancelled meanwhile is closed by create_connection.
ConnectionMade(p) ==
    /\ Undisturbed /\ p \in Listeners
    /\ \/ /\ p \in DOMAIN connectTasks /\ connectTasks[p] = 0
          /\ \E s \in {"open"} \cup (IF Queued(p) # {} THEN {"broken"} ELSE {}) : Adopt(p, s)
          /\ connectTasks' = Put(connectTasks, p, Len(conns) + 1)
          /\ UNCHANGED cancelled
       \/ /\ p \in cancelled
          /\ Adopt(p, "closing")
          /\ cancelled' = cancelled \ {p}
          /\ UNCHANGED connectTasks
    /\ UNCHANGED <<reports, told, closed, acceptVars>>

\* A peer connected to this transport, from an address no other connection has.  Its
\* connection_made is scheduled, whatever comes before it.
Accept(p) ==
    /\ Undisturbed /\ ~closed /\ p \in Callers \ accepted /\ Len(conns) < MaxConns
    /\ \A c \in DOMAIN conns : conns[c].peer = p => ~IsOpen(c)
    /\ accepted' = accepted \cup {p}
    /\ UNCHANGED <<msgVars, connVars, reports, told, closed, overtaken>>

\* It is adopted, by a transport that was closed meanwhile too.
AcceptedMade(p) ==
    /\ Undisturbed /\ p \in accepted
    /\ Adopt(p, "open")
    /\ accepted' = accepted \ {p}
    /\ UNCHANGED <<connectTasks, cancelled, reports, told, closed, overtaken>>

\* _connectAndFlush resumes after its connection was made.  A connection that
\* broke while the queue was written is lost before that.
ConnectDone(p) ==
    /\ p \in DOMAIN connectTasks /\ connectTasks[p] # 0
    /\ conns[connectTasks[p]].state # "broken"
    /\ connectTasks' = Without(connectTasks, {p})
    /\ UNCHANGED <<msgVars, conns, connections, cancelled, reports, told, closed, acceptVars>>

\* MUTANT of ConnectFails: what was queued is dropped and nobody is told.
ConnectFailsUnreported(p) ==
    /\ Undisturbed
    /\ p \in DOMAIN connectTasks /\ connectTasks[p] = 0
    /\ writeQ' = NotQueued(p)
    /\ connectTasks' = Without(connectTasks, {p})
    /\ UNCHANGED <<dest, carrier, sent, conns, connections, cancelled, reports, told, closed, acceptVars>>

\* MUTANT of ConnectFails: the queue is kept for the next connection.
ConnectFailsKeepsQueue(p) ==
    /\ Undisturbed
    /\ p \in DOMAIN connectTasks /\ connectTasks[p] = 0
    /\ reports' = Append(reports, p)
    /\ connectTasks' = Without(connectTasks, {p})
    /\ UNCHANGED <<msgVars, conns, connections, cancelled, told, closed, acceptVars>>

\* The connection is refused, or is not made within connectTimeout.
ConnectFails(p) ==
    /\ Undisturbed
    /\ p \in DOMAIN connectTasks /\ connectTasks[p] = 0
    /\ writeQ' = NotQueued(p)
    /\ reports' = IF Queued(p) # {} THEN Append(reports, p) ELSE reports
    /\ connectTasks' = Without(connectTasks, {p})
    /\ UNCHANGED <<dest, carrier, sent, conns, connections, cancelled, told, closed, acceptVars>>

\* A cancelled connect task ends without a connection.
CancelDone(p) ==
    /\ p \in cancelled
    /\ cancelled' = cancelled \ {p}
    /\ UNCHANGED <<msgVars, conns, connections, connectTasks, reports, told, closed, acceptVars>>

-----------------------------------------------------------------------------
\* The peer closes the connection, or it breaks.
PeerCloses(c) ==
    /\ Undisturbed /\ IsOpen(c) /\ (NestedConnect \/ ~Unfinished(c))
    /\ conns' = [conns EXCEPT ![c].state = "closing"]
    /\ UNCHANGED <<msgVars, connections, connectTasks, cancelled, reports, told, closed, acceptVars>>

\* data_received cannot frame what came: _connectionFailed closes and reports.
FramingFails(c) ==
    /\ Undisturbed /\ IsOpen(c) /\ (NestedConnect \/ ~Unfinished(c))
    /\ conns' = [conns EXCEPT ![c].state = "closing"]
    /\ reports' = IF closed THEN reports ELSE Append(reports, conns[c].peer)
    /\ UNCHANGED <<msgVars, connections, connectTasks, cancelled, told, closed, acceptVars>>

\* MUTANT of ConnectionLost: whatever connection the peer has is forgotten.
ConnectionLostForgetsOther(c) ==
    /\ Undisturbed /\ (conns[c].state = "broken" \/ (conns[c].state = "closing" /\ ~Unfinished(c)))
    /\ conns' = [conns EXCEPT ![c].state = "lost"]
    /\ connections' = Without(connections, {conns[c].peer})
    /\ writeQ' = NotQueued(conns[c].peer)
    /\ reports' = IF closed THEN reports ELSE Append(reports, conns[c].peer)
    /\ UNCHANGED <<dest, carrier, sent, connectTasks, cancelled, told, closed, acceptVars>>

\* MUTANT of ConnectionLost: the connection is not forgotten.
ConnectionLostKeeps(c) ==
    /\ Undisturbed /\ (conns[c].state = "broken" \/ (conns[c].state = "closing" /\ ~Unfinished(c)))
    /\ conns' = [conns EXCEPT ![c].state = "lost"]
    /\ writeQ' = NotQueued(conns[c].peer)
    /\ reports' = IF closed THEN reports ELSE Append(reports, conns[c].peer)
    /\ UNCHANGED <<dest, carrier, sent, connections, connectTasks, cancelled, told, closed, acceptVars>>

\* _connectionLost: forget the connection if it is still the peer's, drop what
\* waits for the peer, and report.
ConnectionLost(c) ==
    /\ Undisturbed /\ (conns[c].state = "broken" \/ (conns[c].state = "closing" /\ ~Unfinished(c)))
    /\ conns' = [conns EXCEPT ![c].state = "lost"]
    /\ connections' = Without(connections, {p \in DOMAIN connections : connections[p] = c})
    /\ writeQ' = NotQueued(conns[c].peer)
    /\ reports' = IF closed THEN reports ELSE Append(reports, conns[c].peer)
    /\ UNCHANGED <<dest, carrier, sent, connectTasks, cancelled, told, closed, acceptVars>>

\* The scheduled _errorCbFun runs: the dispatcher fails what waits for the peer,
\* unless the transport was unregistered meanwhile.
DeliverReport ==
    /\ Undisturbed /\ reports # << >>
    /\ reports' = Tail(reports)
    /\ told' = IF closed THEN told ELSE told \cup {m \in DOMAIN dest : dest[m] = Head(reports)}
    /\ UNCHANGED <<msgVars, connVars, closed, acceptVars>>

\* closeTransport, after the dispatcher unregistered the transport.
CloseTransport ==
    /\ Undisturbed /\ ~closed
    /\ closed' = TRUE
    /\ cancelled' = {p \in DOMAIN connectTasks : connectTasks[p] = 0}
    /\ connectTasks' = EmptyMap
    /\ conns' = [c \in DOMAIN conns |->
                   IF c \in {connections[p] : p \in DOMAIN connections} /\ IsOpen(c)
                   THEN [conns[c] EXCEPT !.state = "closing"] ELSE conns[c]]
    /\ connections' = EmptyMap
    /\ writeQ' = {}
    /\ overtaken' = accepted
    /\ UNCHANGED <<dest, carrier, sent, reports, told, accepted>>

Connecting(p) == ConnectionMade(p) \/ ConnectFails(p) \/ CancelDone(p)

Next ==
    \/ \E p \in Peers : SendMessage(p) \/ Connecting(p) \/ ConnectDone(p)
    \/ \E p \in Peers : Accept(p) \/ AcceptedMade(p)
    \/ \E c \in DOMAIN conns : PeerCloses(c) \/ FramingFails(c) \/ ConnectionLost(c)
    \/ DeliverReport \/ CloseTransport

SafeSpec == Init /\ [][Next]_vars

\* The loop runs what is scheduled; a connect ends within connectTimeout; a
\* closing connection is lost once its octets are gone.
Spec ==
    /\ SafeSpec
    /\ \A p \in Peers : WF_vars(Connecting(p)) /\ WF_vars(ConnectDone(p)) /\ WF_vars(AcceptedMade(p))
    /\ \A c \in 1 .. MaxConns : WF_vars(c \in DOMAIN conns /\ ConnectionLost(c))
    /\ WF_vars(DeliverReport)

-----------------------------------------------------------------------------
\* Types of the transport's state.
TypeOK ==
    /\ dest \in Seq(Peers) /\ carrier \in [DOMAIN dest -> 0 .. MaxConns]
    /\ IsMap(sent, DOMAIN dest, SUBSET DOMAIN dest) /\ writeQ \subseteq DOMAIN dest
    /\ conns \in Seq([peer : Peers, state : {"open", "broken", "closing", "lost"}])
    /\ Len(conns) <= MaxConns
    /\ IsMap(connections, Peers, DOMAIN conns)
    /\ IsMap(connectTasks, Peers, {0} \cup DOMAIN conns)
    /\ cancelled \subseteq Peers /\ reports \in Seq(Peers)
    /\ told \subseteq DOMAIN dest /\ closed \in BOOLEAN
    /\ accepted \subseteq Callers /\ overtaken \subseteq Callers

\* A connection that can carry messages is the one its peer's messages go to:
\* the late loss of an older connection does not hide it (the identity test in
\* _connectionLost), and no second one is dialled beside it (_connect).
OpenIsKnown ==
    \A c \in DOMAIN conns :
        IsOpen(c) => conns[c].peer \in DOMAIN connections /\ connections[conns[c].peer] = c

\* No message is lost in silence: one dropped from the queue, or written to a
\* connection now lost, was followed by a report of its peer or one is scheduled
\* (_connectionLost, _failQueuedMessages).
NoSilentLoss ==
    \A m \in DOMAIN dest :
        \/ closed
        \/ m \in writeQ
        \/ carrier[m] # 0 /\ conns[carrier[m]].state # "lost"
        \/ m \in told
        \/ \E i \in DOMAIN reports : reports[i] = dest[m]

\* Messages to one peer are written in the order they were sent, over however
\* many connections (the queue against the direct write of sendMessage).
InOrder ==
    \A m \in DOMAIN sent : \A k \in sent[m] : dest[k] = dest[m] => k < m

\* What the comment on _writeQ says of it, "Messages waiting on a connection
\* that is still being made".
QueuedIsUnderWay == \A m \in writeQ : dest[m] \in DOMAIN connectTasks

\* The queue does not hold a message for ever, so runDispatcher, which waits for
\* it (transportsAreWorking), can return.
QueueDrains == \A m \in 1 .. MaxMessages : m \in writeQ ~> m \notin writeQ

\* A closed transport ends up without connections, a dialled one that was made while
\* it was closing included (closeTransport against _connectionMade).  What closeTransport
\* does not reach are the connections accepted by then whose connection_made came
\* after it: nobody closes them but their peers.
ClosedHoldsNothing ==
    closed ~> /\ DOMAIN connections \subseteq overtaken
              /\ \A c \in DOMAIN conns : IsOpen(c) => conns[c].peer \in overtaken

\* Whatever connects and is lost in whatever order, a queued message has a connect
\* under way and an open connection is the one its peer's messages go to
\* (sendMessage, _connect, _connectionLost).
QueueIsServed == TypeOK /\ OpenIsKnown /\ QueuedIsUnderWay

\* Whatever the peers do, the queue drains and a closed transport lets go of every
\* connection it knew of or was making (transportsAreWorking, closeTransport).
ComesToRest == QueueDrains /\ ClosedHoldsNothing
=============================================================================
