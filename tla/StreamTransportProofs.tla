----------------------- MODULE StreamTransportProofs -----------------------
(***************************************************************************)
(* What StreamTransport promises of the messages given to it, for any      *)
(* number of peers, messages and connections.                              *)
(*                                                                         *)
(* Two inductive invariants: MInv says what becomes of the messages,       *)
(* whoever connects to whom and however connects are scheduled; SInv says  *)
(* that the queue is served, which needs a connect that is not nested in   *)
(* a task of its own and no peer that calls from where it listens.         *)
(***************************************************************************)
EXTENDS StreamTransport, SequenceTheorems, TLAPS

States == {"open", "broken", "closing", "lost"}
Connection == [peer : Peers, state : States]

\* An open connection leaves nothing in the queue for its peer.
OpenTakesAll ==
    \A m \in writeQ : dest[m] \in DOMAIN connections => ~IsOpen(connections[dest[m]])

\* Connections are kept under their peer, and carry what is for it.
ConnectionsFit == \A p \in DOMAIN connections : conns[connections[p]].peer = p
CarriersFit ==
    \A m \in DOMAIN dest :
        carrier[m] # 0 => carrier[m] \in DOMAIN conns /\ conns[carrier[m]].peer = dest[m]

\* What waits for a peer was sent after whatever was written to it.
QueuedLast == \A m \in writeQ : \A k \in DOMAIN sent : dest[k] = dest[m] => k < m

MInv ==
    /\ TypeOK /\ OpenTakesAll /\ ConnectionsFit /\ CarriersFit
    /\ QueuedLast /\ InOrder /\ NoSilentLoss

\* No peer calls from the address it listens at, and connects are not nested.
Separate == NestedConnect = FALSE /\ Listeners \cap Callers = {}

\* A closed transport dials nobody, and its open connections were overtaken.
ClosedIsQuiet ==
    /\ closed => /\ DOMAIN connectTasks = {} /\ accepted \subseteq overtaken
                 /\ \A c \in DOMAIN conns : IsOpen(c) => conns[c].peer \in overtaken
    /\ ~closed => cancelled = {}

\* A peer whose connection is about to be made has no other open.
AcceptedIsNotOpen ==
    \A p \in accepted : \A c \in DOMAIN conns : conns[c].peer = p => ~IsOpen(c)

\* A peer being dialled has no open connection yet, unless it called.
DialledIsNotOpen ==
    \A p \in DOMAIN connectTasks :
        connectTasks[p] = 0 /\ p \in Listeners =>
            \A c \in DOMAIN conns : conns[c].peer = p => ~IsOpen(c)

\* A connection whose task has not resumed is its peer's, and nothing waits for
\* the peer unless the connection broke and is about to be lost.
MadeIsServed ==
    \A p \in DOMAIN connectTasks :
        connectTasks[p] # 0 =>
            /\ p \in Listeners /\ conns[connectTasks[p]].peer = p
            /\ conns[connectTasks[p]].state # "closing"
            /\ conns[connectTasks[p]].state # "broken" => \A m \in writeQ : dest[m] # p

SInv ==
    /\ OpenIsKnown /\ QueuedIsUnderWay /\ ClosedIsQuiet
    /\ AcceptedIsNotOpen /\ DialledIsNotOpen /\ MadeIsServed

-----------------------------------------------------------------------------
\* What the types say of the sequences.
LEMMA TypeFacts ==
    ASSUME TypeOK
    PROVE  /\ Len(dest) \in Nat /\ DOMAIN dest = 1 .. Len(dest)
           /\ Len(conns) \in Nat /\ DOMAIN conns = 1 .. Len(conns)
           /\ \A c \in DOMAIN conns : conns[c] \in Connection
           /\ \A m \in DOMAIN dest : dest[m] \in Peers
           /\ carrier \in Seq(0 .. MaxConns) /\ Len(carrier) = Len(dest)
           /\ DOMAIN carrier = DOMAIN dest
           /\ MaxConns \in Nat
  <1>1. dest \in Seq(Peers) /\ conns \in Seq(Connection) /\ MaxConns \in Nat
    BY StreamAssumption DEF TypeOK, Connection, States
  <1>2. /\ Len(dest) \in Nat /\ DOMAIN dest = 1 .. Len(dest)
        /\ Len(conns) \in Nat /\ DOMAIN conns = 1 .. Len(conns)
        /\ \A c \in DOMAIN conns : conns[c] \in Connection
        /\ \A m \in DOMAIN dest : dest[m] \in Peers
    BY <1>1
  <1>3. carrier \in [1 .. Len(dest) -> 0 .. MaxConns]
    BY <1>2 DEF TypeOK
  <1>4. carrier \in Seq(0 .. MaxConns) /\ Len(carrier) = Len(dest) /\ DOMAIN carrier = DOMAIN dest
    <2>1. carrier \in Seq(0 .. MaxConns)
      BY <1>2, <1>3, SeqDef
    <2>2. Len(carrier) \in Nat /\ DOMAIN carrier = 1 .. Len(carrier)
      BY <2>1
    <2> QED BY <1>2, <1>3, <2>1, <2>2
  <1> QED BY <1>1, <1>2, <1>4

\* A connection is made: the others are as they were, its peer's queue is empty
\* and what was in it is written, in order and after all else.
LEMMA AdoptFacts ==
    ASSUME TypeOK, NEW p \in Peers, NEW s \in States, Adopt(p, s)
    PROVE  LET c == Len(conns) + 1
           IN  /\ conns' \in Seq(Connection) /\ Len(conns') = c /\ c <= MaxConns
               /\ c \in 1 .. MaxConns /\ c \notin DOMAIN conns /\ c # 0
               /\ DOMAIN conns' = DOMAIN conns \cup {c}
               /\ conns'[c].peer = p /\ conns'[c].state = s
               /\ \A d \in DOMAIN conns : conns'[d] = conns[d]
               /\ DOMAIN connections' = DOMAIN connections \cup {p}
               /\ connections'[p] = c
               /\ \A q \in DOMAIN connections : q # p => connections'[q] = connections[q]
               /\ writeQ' = {m \in writeQ : dest[m] # p}
               /\ DOMAIN sent' = DOMAIN sent \cup Queued(p)
               /\ \A m \in DOMAIN sent' :
                    sent'[m] = IF m \in Queued(p)
                               THEN DOMAIN sent \cup {k \in Queued(p) : k < m}
                               ELSE sent[m]
               /\ carrier' = [m \in DOMAIN dest |-> IF m \in Queued(p) THEN c ELSE carrier[m]]
               /\ dest' = dest
  <1> DEFINE c == Len(conns) + 1
             new == [peer |-> p, state |-> s]
  <1>1. conns \in Seq(Connection) /\ DOMAIN conns = 1 .. Len(conns) /\ Len(conns) \in Nat
        /\ MaxConns \in Nat /\ DOMAIN carrier = DOMAIN dest
    BY TypeFacts DEF TypeOK, Connection, States
  <1>2. new \in Connection /\ new.peer = p /\ new.state = s
    BY DEF Connection
  <1>3. conns' = Append(conns, new) /\ c <= MaxConns
    BY DEF Adopt
  <1> HIDE DEF new
  <1>4. /\ conns' \in Seq(Connection) /\ Len(conns') = c
        /\ DOMAIN conns' = 1 .. c /\ conns'[c] = new
        /\ \A d \in DOMAIN conns : conns'[d] = conns[d]
    BY <1>1, <1>2, <1>3
  <1>5. /\ c \in 1 .. MaxConns /\ c \notin DOMAIN conns /\ c # 0
        /\ DOMAIN conns' = DOMAIN conns \cup {c}
    BY <1>1, <1>3, <1>4
  <1>6. /\ DOMAIN connections' = DOMAIN connections \cup {p}
        /\ connections'[p] = c
        /\ \A q \in DOMAIN connections : q # p => connections'[q] = connections[q]
    BY DEF Adopt, Put
  <1>7. /\ writeQ' = {m \in writeQ : dest[m] # p}
        /\ DOMAIN sent' = DOMAIN sent \cup Queued(p)
        /\ \A m \in DOMAIN sent' :
             sent'[m] = IF m \in Queued(p) THEN DOMAIN sent \cup {k \in Queued(p) : k < m}
                                           ELSE sent[m]
        /\ dest' = dest
    BY DEF Adopt, NotQueued, WrittenBefore
  <1>8. carrier' = [m \in DOMAIN dest |-> IF m \in Queued(p) THEN c ELSE carrier[m]]
    BY <1>1 DEF Adopt
  <1> QED BY <1>2, <1>3, <1>4, <1>5, <1>6, <1>7, <1>8

\* Adopting a connection keeps the books of messages.
LEMMA AdoptMessages ==
    ASSUME MInv, NEW p \in Peers, NEW s \in States, s # "lost", Adopt(p, s),
           IsMap(connectTasks', Peers, {0} \cup DOMAIN conns'), cancelled' \subseteq Peers,
           accepted' \subseteq Callers, UNCHANGED <<reports, told, closed, overtaken>>
    PROVE  MInv'
  <1> DEFINE c == Len(conns) + 1
  <1>1. /\ conns' \in Seq(Connection) /\ Len(conns') = c /\ c <= MaxConns
        /\ c \in 1 .. MaxConns /\ c \notin DOMAIN conns /\ c # 0
        /\ DOMAIN conns' = DOMAIN conns \cup {c}
        /\ conns'[c].peer = p /\ conns'[c].state = s
        /\ \A d \in DOMAIN conns : conns'[d] = conns[d]
        /\ DOMAIN connections' = DOMAIN connections \cup {p}
        /\ connections'[p] = c
        /\ \A q \in DOMAIN connections : q # p => connections'[q] = connections[q]
    BY AdoptFacts DEF MInv
  <1>2. /\ writeQ' = {m \in writeQ : dest[m] # p}
        /\ DOMAIN sent' = DOMAIN sent \cup Queued(p)
        /\ \A m \in DOMAIN sent' :
             sent'[m] = IF m \in Queued(p) THEN DOMAIN sent \cup {k \in Queued(p) : k < m}
                                           ELSE sent[m]
        /\ dest' = dest
    BY AdoptFacts DEF MInv
  <1>3. carrier' = [m \in DOMAIN dest |-> IF m \in Queued(p) THEN c ELSE carrier[m]]
    BY AdoptFacts DEF MInv
  <1>4. TypeOK
    BY DEF MInv
  <1>5. connections \in [DOMAIN connections -> DOMAIN conns] /\ DOMAIN connections \subseteq Peers
    BY <1>4 DEF TypeOK, IsMap
  <1>6. writeQ \subseteq DOMAIN dest /\ DOMAIN sent \subseteq DOMAIN dest
        /\ \A m \in DOMAIN sent : sent[m] \subseteq DOMAIN dest
    BY <1>4 DEF TypeOK, IsMap
  <1>7. Queued(p) \subseteq writeQ /\ \A m \in Queued(p) : dest[m] = p
    BY DEF Queued
  <1>8. \A m \in writeQ : dest[m] = p => m \in Queued(p)
    BY DEF Queued
  <1> HIDE DEF c
  <1>9. TypeOK'
    <2>1. IsMap(connections', Peers, DOMAIN conns')
      <3>1. \A q \in DOMAIN connections' : connections'[q] \in DOMAIN conns' /\ q \in Peers
        BY <1>1, <1>5
      <3>2. connections' = [q \in DOMAIN connections' |-> connections'[q]]
        BY DEF Adopt, Put
      <3> QED BY <3>1, <3>2 DEF IsMap
    <2>2. IsMap(sent', DOMAIN dest, SUBSET DOMAIN dest)
      <3>1. \A m \in DOMAIN sent' : m \in DOMAIN dest /\ sent'[m] \subseteq DOMAIN dest
        BY <1>2, <1>6, <1>7
      <3>2. sent' = [m \in DOMAIN sent' |-> sent'[m]]
        BY DEF Adopt
      <3> QED BY <3>1, <3>2 DEF IsMap
    <2>3. carrier' \in [DOMAIN dest -> 0 .. MaxConns]
      <3>1. carrier \in [DOMAIN dest -> 0 .. MaxConns] /\ c \in 0 .. MaxConns
        BY <1>1, <1>4 DEF TypeOK
      <3> QED BY <1>3, <3>1
    <2>4. writeQ' \subseteq DOMAIN dest
      BY <1>2, <1>6
    <2>5. conns' \in Seq([peer : Peers, state : {"open", "broken", "closing", "lost"}])
          /\ Len(conns') <= MaxConns
      BY <1>1 DEF Connection, States
    <2> QED BY <1>2, <1>4, <2>1, <2>2, <2>3, <2>4, <2>5 DEF TypeOK
  <1>10. OpenTakesAll'
    BY <1>1, <1>2, <1>5 DEF MInv, OpenTakesAll, IsOpen
  <1>11. ConnectionsFit'
    BY <1>1, <1>5 DEF MInv, ConnectionsFit
  <1>12. CarriersFit'
    BY <1>1, <1>2, <1>3, <1>7 DEF MInv, CarriersFit
  <1>13. QueuedLast'
    BY <1>2, <1>7 DEF MInv, QueuedLast
  <1>14. InOrder'
    BY <1>2, <1>7 DEF MInv, QueuedLast, InOrder
  <1>15. NoSilentLoss'
    <2> SUFFICES ASSUME NEW m \in DOMAIN dest
                 PROVE  \/ closed
                        \/ m \in writeQ'
                        \/ carrier'[m] # 0 /\ conns'[carrier'[m]].state # "lost"
                        \/ m \in told
                        \/ \E i \in DOMAIN reports : reports[i] = dest[m]
      BY <1>2 DEF NoSilentLoss
    <2>1. CASE m \in Queued(p)
      BY <1>1, <1>3, <2>1
    <2>2. CASE m \notin Queued(p)
      <3>1. carrier'[m] = carrier[m] /\ (m \in writeQ => m \in writeQ')
        BY <1>2, <1>3, <1>8, <2>2
      <3>2. carrier[m] # 0 => carrier[m] \in DOMAIN conns
        BY DEF MInv, CarriersFit
      <3> QED BY <1>1, <3>1, <3>2 DEF MInv, NoSilentLoss
    <2> QED BY <2>1, <2>2
  <1> QED BY <1>9, <1>10, <1>11, <1>12, <1>13, <1>14, <1>15 DEF MInv

\* One more message is known, and nothing of the others changes.
LEMMA SendFacts ==
    ASSUME TypeOK, NEW p \in Peers, NEW x \in 0 .. MaxConns,
           dest' = Append(dest, p), carrier' = Append(carrier, x)
    PROVE  LET n == Len(dest) + 1
           IN  /\ dest' \in Seq(Peers) /\ Len(dest') = n
               /\ DOMAIN dest' = DOMAIN dest \cup {n}
               /\ dest'[n] = p /\ n \notin DOMAIN dest
               /\ \A m \in DOMAIN dest : dest'[m] = dest[m] /\ m < n
               /\ carrier' \in [DOMAIN dest' -> 0 .. MaxConns] /\ carrier'[n] = x
               /\ \A m \in DOMAIN dest : carrier'[m] = carrier[m]
  <1> DEFINE n == Len(dest) + 1
  <1>1. /\ dest \in Seq(Peers) /\ Len(dest) \in Nat /\ DOMAIN dest = 1 .. Len(dest)
        /\ carrier \in Seq(0 .. MaxConns) /\ Len(carrier) = Len(dest)
        /\ DOMAIN carrier = DOMAIN dest
    BY TypeFacts DEF TypeOK
  <1>2. /\ dest' \in Seq(Peers) /\ Len(dest') = n /\ DOMAIN dest' = 1 .. n
        /\ dest'[n] = p /\ \A m \in 1 .. Len(dest) : dest'[m] = dest[m]
    BY <1>1
  <1>3. /\ carrier' \in Seq(0 .. MaxConns) /\ Len(carrier') = n
        /\ carrier'[n] = x /\ \A m \in 1 .. Len(dest) : carrier'[m] = carrier[m]
    BY <1>1
  <1>4. carrier' \in [1 .. n -> 0 .. MaxConns]
    BY <1>3, LenProperties
  <1>5. /\ 1 .. n = 1 .. Len(dest) \cup {n} /\ n \notin 1 .. Len(dest)
        /\ \A m \in 1 .. Len(dest) : m < n
    BY <1>1
  <1> QED BY <1>1, <1>2, <1>3, <1>4, <1>5

\* sendMessage: a message written directly finds nothing of its peer's queued,
\* one that is queued comes after all that was written.
LEMMA SendStep ==
    ASSUME MInv, NEW p \in Peers, SendMessage(p)
    PROVE  MInv'
  <1> DEFINE n == Len(dest) + 1
  <1>1. TypeOK /\ dest' = Append(dest, p)
        /\ UNCHANGED <<conns, connections, cancelled, reports, told, closed, accepted, overtaken>>
    BY DEF MInv, SendMessage, acceptVars
  <1>2. /\ writeQ \subseteq DOMAIN dest /\ DOMAIN sent \subseteq DOMAIN dest
        /\ sent \in [DOMAIN sent -> SUBSET DOMAIN dest] /\ told \subseteq DOMAIN dest
        /\ carrier \in [DOMAIN dest -> 0 .. MaxConns]
        /\ connections \in [DOMAIN connections -> DOMAIN conns]
        /\ connectTasks \in [DOMAIN connectTasks -> {0} \cup DOMAIN conns]
        /\ DOMAIN connectTasks \subseteq Peers
        /\ DOMAIN conns \subseteq 1 .. MaxConns
    BY <1>1, TypeFacts DEF TypeOK, IsMap
  <1>3. CASE /\ p \in DOMAIN connections /\ IsOpen(connections[p])
             /\ carrier' = Append(carrier, connections[p])
             /\ sent' = Put(sent, Len(dest'), DOMAIN sent)
             /\ UNCHANGED <<writeQ, connectTasks>>
    <2> DEFINE x == connections[p]
    <2>1. x \in 0 .. MaxConns /\ x \in DOMAIN conns /\ x # 0
      BY <1>2, <1>3
    <2>2. /\ dest' \in Seq(Peers) /\ Len(dest') = n
          /\ DOMAIN dest' = DOMAIN dest \cup {n}
          /\ dest'[n] = p /\ n \notin DOMAIN dest
          /\ \A m \in DOMAIN dest : dest'[m] = dest[m] /\ m < n
          /\ carrier' \in [DOMAIN dest' -> 0 .. MaxConns] /\ carrier'[n] = x
          /\ \A m \in DOMAIN dest : carrier'[m] = carrier[m]
      BY <1>1, <1>3, <2>1, SendFacts
    <2>3. /\ sent' = Put(sent, n, DOMAIN sent)
          /\ DOMAIN sent' = DOMAIN sent \cup {n} /\ sent'[n] = DOMAIN sent
          /\ \A m \in DOMAIN sent : m # n => sent'[m] = sent[m]
      BY <1>3, <2>2 DEF Put
    <2> HIDE DEF n, x
    <2>4. \A m \in writeQ : dest[m] # p
      BY <1>3 DEF MInv, OpenTakesAll
    <2>5. TypeOK'
      <3>1. IsMap(sent', DOMAIN dest', SUBSET DOMAIN dest')
        <4>1. \A m \in DOMAIN sent' : m \in DOMAIN dest' /\ sent'[m] \subseteq DOMAIN dest'
          BY <1>2, <2>2, <2>3
        <4>2. sent' = [m \in DOMAIN sent' |-> sent'[m]]
          BY <2>3 DEF Put
        <4> QED BY <4>1, <4>2 DEF IsMap
      <3>2. writeQ' \subseteq DOMAIN dest' /\ told' \subseteq DOMAIN dest'
        BY <1>1, <1>2, <1>3, <2>2
      <3> QED BY <1>1, <1>3, <2>2, <3>1, <3>2 DEF TypeOK
    <2>6. OpenTakesAll' /\ ConnectionsFit'
      BY <1>1, <1>2, <1>3, <2>2 DEF MInv, OpenTakesAll, ConnectionsFit, IsOpen
    <2>7. CarriersFit'
      <3>1. conns[x].peer = p
        BY <1>3 DEF MInv, ConnectionsFit, x
      <3> QED BY <1>1, <2>1, <2>2, <3>1 DEF MInv, CarriersFit
    <2>8. QueuedLast'
      BY <1>2, <1>3, <2>2, <2>3, <2>4 DEF MInv, QueuedLast
    <2>9. InOrder'
      BY <1>2, <2>2, <2>3 DEF MInv, InOrder
    <2>10. NoSilentLoss'
      BY <1>1, <1>3, <2>1, <2>2 DEF MInv, NoSilentLoss, IsOpen, x
    <2> QED BY <2>5, <2>6, <2>7, <2>8, <2>9, <2>10 DEF MInv
  <1>4. CASE /\ ~(p \in DOMAIN connections /\ IsOpen(connections[p]))
             /\ carrier' = Append(carrier, 0)
             /\ writeQ' = writeQ \cup {Len(dest')}
             /\ connectTasks' = IF p \in DOMAIN connectTasks THEN connectTasks
                                                             ELSE Put(connectTasks, p, 0)
             /\ UNCHANGED sent
    <2>1. 0 \in 0 .. MaxConns
      BY StreamAssumption
    <2>2. /\ dest' \in Seq(Peers) /\ Len(dest') = n
          /\ DOMAIN dest' = DOMAIN dest \cup {n}
          /\ dest'[n] = p /\ n \notin DOMAIN dest
          /\ \A m \in DOMAIN dest : dest'[m] = dest[m] /\ m < n
          /\ carrier' \in [DOMAIN dest' -> 0 .. MaxConns] /\ carrier'[n] = 0
          /\ \A m \in DOMAIN dest : carrier'[m] = carrier[m]
      BY <1>1, <1>4, <2>1, SendFacts
    <2>3. writeQ' = writeQ \cup {n}
      BY <1>4, <2>2
    <2> HIDE DEF n
    <2>4. TypeOK'
      <3>1. IsMap(connectTasks', Peers, {0} \cup DOMAIN conns)
        <4>1. CASE p \in DOMAIN connectTasks
          BY <1>2, <1>4, <4>1 DEF IsMap
        <4>2. CASE p \notin DOMAIN connectTasks
          BY <1>2, <1>4, <4>2 DEF IsMap, Put
        <4> QED BY <4>1, <4>2
      <3>2. writeQ' \subseteq DOMAIN dest' /\ told' \subseteq DOMAIN dest'
            /\ IsMap(sent', DOMAIN dest', SUBSET DOMAIN dest')
        BY <1>1, <1>2, <1>4, <2>2, <2>3 DEF IsMap
      <3> QED BY <1>1, <2>2, <3>1, <3>2 DEF TypeOK
    <2>5. OpenTakesAll' /\ ConnectionsFit'
      BY <1>1, <1>2, <1>4, <2>2, <2>3 DEF MInv, OpenTakesAll, ConnectionsFit, IsOpen
    <2>6. CarriersFit'
      BY <1>1, <2>2 DEF MInv, CarriersFit
    <2>7. QueuedLast'
      BY <1>2, <1>4, <2>2, <2>3 DEF MInv, QueuedLast
    <2>8. InOrder'
      BY <1>2, <1>4, <2>2 DEF MInv, InOrder
    <2>9. NoSilentLoss'
      BY <1>1, <2>2, <2>3 DEF MInv, NoSilentLoss
    <2> QED BY <2>4, <2>5, <2>6, <2>7, <2>8, <2>9 DEF MInv
  <1> QED BY <1>3, <1>4 DEF SendMessage

\* A connect task ends, or a connection is accepted, without touching messages or
\* connections.
LEMMA TaskStep ==
    ASSUME MInv, NEW p \in Peers, ConnectDone(p) \/ CancelDone(p) \/ Accept(p)
    PROVE  MInv'
  <1>1. UNCHANGED <<dest, carrier, sent, writeQ, conns, connections, reports, told, closed, overtaken>>
    BY DEF ConnectDone, CancelDone, Accept, msgVars, connVars, acceptVars
  <1>2. /\ IsMap(connectTasks', Peers, {0} \cup DOMAIN conns) /\ cancelled' \subseteq Peers
        /\ accepted' \subseteq Callers
    <2>1. CASE ConnectDone(p) \/ CancelDone(p)
      BY <2>1 DEF MInv, TypeOK, IsMap, ConnectDone, CancelDone, Without, acceptVars
    <2>2. CASE Accept(p)
      BY <2>2 DEF MInv, TypeOK, IsMap, Accept, connVars
    <2> QED BY <2>1, <2>2
  <1>3. TypeOK'
    BY <1>1, <1>2 DEF MInv, TypeOK
  <1> QED BY <1>1, <1>3 DEF MInv, OpenTakesAll, ConnectionsFit, CarriersFit, QueuedLast,
                            InOrder, NoSilentLoss, IsOpen

\* A dialled connection is made, or an accepted one.
LEMMA MadeStep ==
    ASSUME MInv, NEW p \in Peers, ConnectionMade(p) \/ AcceptedMade(p)
    PROVE  MInv'
  <1>1. IsMap(connectTasks, Peers, {0} \cup DOMAIN conns) /\ cancelled \subseteq Peers /\ TypeOK
    BY DEF MInv, TypeOK
  <1>2. PICK s \in States : s # "lost" /\ Adopt(p, s)
    BY DEF ConnectionMade, AcceptedMade, States
  <1>3. DOMAIN conns' = DOMAIN conns \cup {Len(conns) + 1}
    BY <1>1, <1>2, AdoptFacts
  <1>4. connectTasks' = connectTasks \/ connectTasks' = Put(connectTasks, p, Len(conns) + 1)
    BY DEF ConnectionMade, AcceptedMade
  <1>5. IsMap(connectTasks', Peers, {0} \cup DOMAIN conns')
    BY <1>1, <1>3, <1>4 DEF IsMap, Put
  <1>6. /\ cancelled' \subseteq Peers /\ accepted' \subseteq Callers
        /\ UNCHANGED <<reports, told, closed, overtaken>>
    BY <1>1 DEF ConnectionMade, AcceptedMade, MInv, TypeOK, acceptVars
  <1> QED BY <1>2, <1>5, <1>6, AdoptMessages

\* A failed connect reports whatever it drops.
LEMMA FailStep ==
    ASSUME MInv, NEW p \in Peers, ConnectFails(p)
    PROVE  MInv'
  <1>1. /\ UNCHANGED <<dest, carrier, sent, conns, connections, cancelled, told, closed, accepted, overtaken>>
        /\ writeQ' = {m \in writeQ : dest[m] # p}
        /\ reports' = IF Queued(p) # {} THEN Append(reports, p) ELSE reports
        /\ connectTasks' = Without(connectTasks, {p})
    BY DEF ConnectFails, NotQueued, acceptVars
  <1>2. reports \in Seq(Peers) /\ TypeOK
    BY DEF MInv, TypeOK
  <1>3. /\ reports' \in Seq(Peers)
        /\ \A i \in DOMAIN reports : i \in DOMAIN reports' /\ reports'[i] = reports[i]
        /\ Queued(p) # {} => \E i \in DOMAIN reports' : reports'[i] = p
    <2>1. CASE Queued(p) # {}
      <3>1. reports' = Append(reports, p)
        BY <1>1, <2>1
      <3>2. /\ reports' \in Seq(Peers) /\ DOMAIN reports' = 1 .. Len(reports) + 1
            /\ reports'[Len(reports) + 1] = p
            /\ DOMAIN reports = 1 .. Len(reports) /\ Len(reports) \in Nat
            /\ \A i \in 1 .. Len(reports) : reports'[i] = reports[i]
        BY <1>2, <3>1
      <3> QED BY <3>2
    <2>2. CASE Queued(p) = {}
      BY <1>1, <1>2, <2>2
    <2> QED BY <2>1, <2>2
  <1>4. TypeOK'
    <2>1. IsMap(connectTasks', Peers, {0} \cup DOMAIN conns) /\ writeQ' \subseteq DOMAIN dest
      BY <1>1, <1>2 DEF TypeOK, IsMap, Without
    <2> QED BY <1>1, <1>2, <1>3, <2>1 DEF TypeOK
  <1>5. NoSilentLoss'
    <2> SUFFICES ASSUME NEW m \in DOMAIN dest
                 PROVE  \/ closed
                        \/ m \in writeQ'
                        \/ carrier[m] # 0 /\ conns[carrier[m]].state # "lost"
                        \/ m \in told
                        \/ \E i \in DOMAIN reports' : reports'[i] = dest[m]
      BY <1>1 DEF NoSilentLoss
    <2>1. m \in writeQ => m \in writeQ' \/ (m \in Queued(p) /\ dest[m] = p)
      BY <1>1 DEF Queued
    <2> QED BY <1>3, <2>1 DEF MInv, NoSilentLoss
  <1>6. OpenTakesAll' /\ ConnectionsFit' /\ CarriersFit' /\ QueuedLast' /\ InOrder'
    BY <1>1 DEF MInv, OpenTakesAll, ConnectionsFit, CarriersFit, QueuedLast, InOrder, IsOpen
  <1> QED BY <1>4, <1>5, <1>6 DEF MInv

-----------------------------------------------------------------------------
\* The state of one connection changes.
LEMMA StateFacts ==
    ASSUME TypeOK, NEW c \in DOMAIN conns, NEW s \in States,
           conns' = [conns EXCEPT ![c].state = s]
    PROVE  /\ conns' \in Seq(Connection) /\ Len(conns') = Len(conns)
           /\ DOMAIN conns' = DOMAIN conns
           /\ conns'[c].peer = conns[c].peer /\ conns'[c].state = s
           /\ \A d \in DOMAIN conns : d # c => conns'[d] = conns[d]
           /\ \A d \in DOMAIN conns : conns'[d].peer = conns[d].peer
  <1>1. conns \in Seq(Connection) /\ conns[c] \in Connection
    BY TypeFacts DEF TypeOK, Connection, States
  <1> DEFINE new == [conns[c] EXCEPT !.state = s]
  <1>2. new \in Connection /\ new.peer = conns[c].peer /\ new.state = s
    BY <1>1 DEF Connection
  <1>3. conns' = [conns EXCEPT ![c] = new]
    OBVIOUS
  <1> HIDE DEF new
  <1>4. conns' \in Seq(Connection) /\ Len(conns') = Len(conns) /\ DOMAIN conns' = DOMAIN conns
    BY <1>1, <1>2, <1>3, ExceptSeq
  <1>5. conns'[c] = new /\ \A d \in DOMAIN conns : d # c => conns'[d] = conns[d]
    BY <1>3
  <1> QED BY <1>2, <1>4, <1>5

\* A report is scheduled, or none.
LEMMA ReportFacts ==
    ASSUME reports \in Seq(Peers), NEW p \in Peers,
           reports' = IF closed THEN reports ELSE Append(reports, p)
    PROVE  /\ reports' \in Seq(Peers)
           /\ \A i \in DOMAIN reports : i \in DOMAIN reports' /\ reports'[i] = reports[i]
           /\ closed \/ \E i \in DOMAIN reports' : reports'[i] = p
  <1>1. CASE closed
    BY <1>1
  <1>2. CASE ~closed
    <2>1. reports' = Append(reports, p)
      BY <1>2
    <2>2. /\ reports' \in Seq(Peers) /\ DOMAIN reports' = 1 .. Len(reports) + 1
          /\ reports'[Len(reports) + 1] = p
          /\ DOMAIN reports = 1 .. Len(reports) /\ Len(reports) \in Nat
          /\ \A i \in 1 .. Len(reports) : reports'[i] = reports[i]
      BY <2>1
    <2> QED BY <2>2
  <1> QED BY <1>1, <1>2

\* A connection starts to close: what it carries is not lost yet.
LEMMA ClosingStep ==
    ASSUME MInv, NEW c \in DOMAIN conns, PeerCloses(c) \/ FramingFails(c)
    PROVE  MInv'
  <1>1. /\ UNCHANGED <<dest, carrier, sent, writeQ, connections, connectTasks, cancelled, told, closed,
                      accepted, overtaken>>
        /\ conns' = [conns EXCEPT ![c].state = "closing"]
    BY DEF PeerCloses, FramingFails, msgVars, acceptVars
  <1>2. TypeOK /\ reports \in Seq(Peers)
    BY DEF MInv, TypeOK
  <1>3. conns[c].peer \in Peers
    BY <1>2, TypeFacts DEF Connection
  <1>4. /\ conns' \in Seq(Connection) /\ Len(conns') = Len(conns)
        /\ DOMAIN conns' = DOMAIN conns
        /\ conns'[c].state = "closing"
        /\ \A d \in DOMAIN conns : d # c => conns'[d] = conns[d]
        /\ \A d \in DOMAIN conns : conns'[d].peer = conns[d].peer
    BY <1>1, <1>2, StateFacts DEF States
  <1>5. /\ reports' \in Seq(Peers)
        /\ \A i \in DOMAIN reports : i \in DOMAIN reports' /\ reports'[i] = reports[i]
    <2>1. CASE reports' = reports
      BY <1>2, <2>1
    <2>2. CASE reports' = IF closed THEN reports ELSE Append(reports, conns[c].peer)
      BY <1>2, <1>3, <2>2, ReportFacts
    <2> QED BY <2>1, <2>2 DEF PeerCloses, FramingFails
  <1>6. TypeOK'
    <2>1. conns' \in Seq([peer : Peers, state : {"open", "broken", "closing", "lost"}])
      BY <1>4 DEF Connection, States
    <2> QED BY <1>1, <1>2, <1>4, <1>5, <2>1 DEF TypeOK
  <1>7. OpenTakesAll'
    BY <1>1, <1>2, <1>4 DEF MInv, OpenTakesAll, IsOpen, TypeOK, IsMap
  <1>8. ConnectionsFit' /\ CarriersFit'
    BY <1>1, <1>2, <1>4 DEF MInv, ConnectionsFit, CarriersFit, TypeOK, IsMap
  <1>9. QueuedLast' /\ InOrder'
    BY <1>1 DEF MInv, QueuedLast, InOrder
  <1>10. NoSilentLoss'
    BY <1>1, <1>4, <1>5 DEF MInv, NoSilentLoss, CarriersFit
  <1> QED BY <1>6, <1>7, <1>8, <1>9, <1>10 DEF MInv

\* A connection is lost: its peer is reported, and everything it carried and
\* everything dropped from the queue was for that peer.
LEMMA LostStep ==
    ASSUME MInv, NEW c \in DOMAIN conns, ConnectionLost(c)
    PROVE  MInv'
  <1> DEFINE p == conns[c].peer
  <1>1. /\ UNCHANGED <<dest, carrier, sent, connectTasks, cancelled, told, closed, accepted, overtaken>>
        /\ conns' = [conns EXCEPT ![c].state = "lost"]
        /\ connections' = Without(connections, {q \in DOMAIN connections : connections[q] = c})
        /\ writeQ' = {m \in writeQ : dest[m] # p}
        /\ reports' = IF closed THEN reports ELSE Append(reports, p)
    BY DEF ConnectionLost, NotQueued, acceptVars
  <1>2. TypeOK /\ reports \in Seq(Peers)
    BY DEF MInv, TypeOK
  <1>3. p \in Peers
    BY <1>2, TypeFacts DEF Connection
  <1>4. /\ conns' \in Seq(Connection) /\ Len(conns') = Len(conns)
        /\ DOMAIN conns' = DOMAIN conns
        /\ conns'[c].state = "lost"
        /\ \A d \in DOMAIN conns : d # c => conns'[d] = conns[d]
        /\ \A d \in DOMAIN conns : conns'[d].peer = conns[d].peer
    BY <1>1, <1>2, StateFacts DEF States
  <1> HIDE DEF p
  <1>5. /\ reports' \in Seq(Peers)
        /\ \A i \in DOMAIN reports : i \in DOMAIN reports' /\ reports'[i] = reports[i]
        /\ closed \/ \E i \in DOMAIN reports' : reports'[i] = p
    BY <1>1, <1>2, <1>3, ReportFacts
  <1>6. /\ DOMAIN connections' = {q \in DOMAIN connections : connections[q] # c}
        /\ \A q \in DOMAIN connections' : connections'[q] = connections[q]
        /\ connections' = [q \in DOMAIN connections' |-> connections'[q]]
    BY <1>1 DEF Without
  <1>7. \A q \in DOMAIN connections : connections[q] \in DOMAIN conns /\ q \in Peers
    BY <1>2 DEF TypeOK, IsMap
  <1>8. TypeOK'
    <2>1. conns' \in Seq([peer : Peers, state : {"open", "broken", "closing", "lost"}])
      BY <1>4 DEF Connection, States
    <2>2. IsMap(connections', Peers, DOMAIN conns) /\ writeQ' \subseteq DOMAIN dest
      BY <1>1, <1>2, <1>6, <1>7 DEF TypeOK, IsMap
    <2> QED BY <1>1, <1>2, <1>4, <1>5, <2>1, <2>2 DEF TypeOK
  <1>9. OpenTakesAll'
    BY <1>1, <1>4, <1>6, <1>7 DEF MInv, OpenTakesAll, IsOpen
  <1>10. ConnectionsFit' /\ CarriersFit'
    <2>1. ConnectionsFit'
      BY <1>4, <1>6, <1>7 DEF MInv, ConnectionsFit
    <2>2. CarriersFit'
      BY <1>1, <1>4 DEF MInv, CarriersFit
    <2> QED BY <2>1, <2>2
  <1>11. QueuedLast' /\ InOrder'
    BY <1>1 DEF MInv, QueuedLast, InOrder
  <1>12. NoSilentLoss'
    <2> SUFFICES ASSUME NEW m \in DOMAIN dest
                 PROVE  \/ closed
                        \/ m \in writeQ'
                        \/ carrier[m] # 0 /\ conns'[carrier[m]].state # "lost"
                        \/ m \in told
                        \/ \E i \in DOMAIN reports' : reports'[i] = dest[m]
      BY <1>1 DEF NoSilentLoss
    <2>1. carrier[m] # 0 => carrier[m] \in DOMAIN conns /\ conns[carrier[m]].peer = dest[m]
      BY DEF MInv, CarriersFit
    <2>2. carrier[m] = c => dest[m] = p \/ carrier[m] = 0
      BY <2>1 DEF p
    <2> QED BY <1>1, <1>4, <1>5, <2>1, <2>2 DEF MInv, NoSilentLoss
  <1> QED BY <1>8, <1>9, <1>10, <1>11, <1>12 DEF MInv

\* A report reaches the dispatcher, which fails all that was sent to the peer.
LEMMA ReportStep ==
    ASSUME MInv, DeliverReport
    PROVE  MInv'
  <1>1. /\ UNCHANGED <<dest, carrier, sent, writeQ, conns, connections, connectTasks, cancelled, closed,
                      accepted, overtaken>>
        /\ reports # << >> /\ reports' = Tail(reports)
        /\ told' = IF closed THEN told ELSE told \cup {m \in DOMAIN dest : dest[m] = Head(reports)}
    BY DEF DeliverReport, msgVars, connVars, acceptVars
  <1>2. TypeOK /\ reports \in Seq(Peers)
    BY DEF MInv, TypeOK
  <1>3. /\ reports' \in Seq(Peers) /\ Head(reports) = reports[1]
        /\ \A i \in DOMAIN reports : i = 1 \/ (i - 1 \in DOMAIN reports' /\ reports'[i - 1] = reports[i])
    BY <1>1, <1>2
  <1>4. TypeOK'
    BY <1>1, <1>2, <1>3 DEF TypeOK
  <1>5. NoSilentLoss'
    <2> SUFFICES ASSUME NEW m \in DOMAIN dest
                 PROVE  \/ closed
                        \/ m \in writeQ
                        \/ carrier[m] # 0 /\ conns[carrier[m]].state # "lost"
                        \/ m \in told'
                        \/ \E i \in DOMAIN reports' : reports'[i] = dest[m]
      BY <1>1 DEF NoSilentLoss
    <2>1. m \in told => m \in told'
      BY <1>1
    <2>2. ASSUME NEW i \in DOMAIN reports, reports[i] = dest[m], ~closed
          PROVE  m \in told' \/ \E j \in DOMAIN reports' : reports'[j] = dest[m]
      <3>1. CASE i = 1
        BY <1>1, <1>3, <2>2, <3>1
      <3>2. CASE i # 1
        BY <1>3, <2>2, <3>2
      <3> QED BY <3>1, <3>2
    <2> QED BY <2>1, <2>2 DEF MInv, NoSilentLoss
  <1> QED BY <1>1, <1>4, <1>5 DEF MInv, OpenTakesAll, ConnectionsFit, CarriersFit, QueuedLast,
                                  InOrder, IsOpen

\* closeTransport drops everything.
LEMMA CloseStep ==
    ASSUME MInv, CloseTransport
    PROVE  /\ MInv'
           /\ DOMAIN conns' = DOMAIN conns
           /\ \A c \in DOMAIN conns :
                IF (\E p \in DOMAIN connections : connections[p] = c) /\ IsOpen(c)
                THEN conns'[c].state = "closing" ELSE conns'[c] = conns[c]
  <1> DEFINE K == {connections[p] : p \in DOMAIN connections}
  <1>1. /\ closed' = TRUE /\ writeQ' = {} /\ connections' = EmptyMap /\ connectTasks' = EmptyMap
        /\ cancelled' = {p \in DOMAIN connectTasks : connectTasks[p] = 0}
        /\ conns' = [c \in DOMAIN conns |-> IF c \in K /\ IsOpen(c)
                                            THEN [conns[c] EXCEPT !.state = "closing"] ELSE conns[c]]
        /\ overtaken' = accepted /\ UNCHANGED <<dest, carrier, sent, reports, told, accepted>>
    BY DEF CloseTransport
  <1>2. TypeOK /\ DOMAIN connectTasks \subseteq Peers
    BY DEF MInv, TypeOK, IsMap
  <1>3. /\ Len(conns) \in Nat /\ DOMAIN conns = 1 .. Len(conns)
        /\ \A c \in DOMAIN conns : conns[c] \in Connection
    BY <1>2, TypeFacts
  <1>4. \A c \in K : \E p \in DOMAIN connections : connections[p] = c
    OBVIOUS
  <1>5. \A p \in DOMAIN connections : connections[p] \in K
    OBVIOUS
  <1> HIDE DEF K
  <1>6. \A c \in DOMAIN conns :
          /\ conns'[c] \in Connection /\ conns'[c].peer = conns[c].peer
          /\ IF c \in K /\ IsOpen(c) THEN conns'[c].state = "closing" ELSE conns'[c] = conns[c]
    BY <1>1, <1>3 DEF Connection, States
  <1>7. DOMAIN conns' = DOMAIN conns /\ conns' \in [1 .. Len(conns) -> Connection]
    BY <1>1, <1>3, <1>6
  <1>8. conns' \in Seq(Connection) /\ Len(conns') = Len(conns)
    <2>1. conns' \in Seq(Connection)
      BY <1>3, <1>7, SeqDef
    <2>2. Len(conns') \in Nat /\ DOMAIN conns' = 1 .. Len(conns')
      BY <2>1
    <2> QED BY <1>3, <1>7, <2>1, <2>2
  <1>9. TypeOK'
    <2>1. IsMap(EmptyMap, Peers, DOMAIN conns) /\ IsMap(EmptyMap, Peers, {0} \cup DOMAIN conns)
      BY DEF IsMap, EmptyMap
    <2>2. conns' \in Seq([peer : Peers, state : {"open", "broken", "closing", "lost"}])
      BY <1>8 DEF Connection, States
    <2>3. cancelled' \subseteq Peers
      BY <1>1, <1>2
    <2> QED BY <1>1, <1>2, <1>7, <1>8, <2>1, <2>2, <2>3 DEF TypeOK
  <1>10. OpenTakesAll' /\ ConnectionsFit' /\ QueuedLast' /\ InOrder' /\ NoSilentLoss'
    BY <1>1 DEF MInv, OpenTakesAll, ConnectionsFit, QueuedLast, InOrder, NoSilentLoss, EmptyMap
  <1>11. CarriersFit'
    BY <1>1, <1>6, <1>7 DEF MInv, CarriersFit
  <1> QED BY <1>4, <1>5, <1>6, <1>7, <1>9, <1>10, <1>11 DEF MInv

LEMMA MessagesStep ==
    ASSUME MInv, [Next]_vars
    PROVE  MInv'
  <1>1. ASSUME NEW p \in Peers, SendMessage(p) \/ Connecting(p) \/ ConnectDone(p)
                             \/ Accept(p) \/ AcceptedMade(p)
        PROVE  MInv'
    BY <1>1, SendStep, MadeStep, FailStep, TaskStep DEF Connecting
  <1>2. ASSUME NEW c \in DOMAIN conns, PeerCloses(c) \/ FramingFails(c) \/ ConnectionLost(c)
        PROVE  MInv'
    BY <1>2, ClosingStep, LostStep
  <1>3. CASE DeliverReport \/ CloseTransport
    BY <1>3, ReportStep, CloseStep
  <1>4. CASE UNCHANGED vars
    <2>1. UNCHANGED <<dest, carrier, sent, writeQ, conns, connections, connectTasks, cancelled,
                      reports, told, closed, accepted, overtaken>>
      BY <1>4 DEF vars, msgVars, connVars, acceptVars
    <2> QED BY <2>1 DEF MInv, TypeOK, OpenTakesAll, ConnectionsFit, CarriersFit, QueuedLast,
                        InOrder, NoSilentLoss, IsOpen
  <1> QED BY <1>1, <1>2, <1>3, <1>4 DEF Next

LEMMA MInvInvariant == Spec => []MInv
  <1>1. Init => MInv
    <2> SUFFICES ASSUME Init PROVE MInv
      OBVIOUS
    <2>1. /\ DOMAIN dest = {} /\ dest \in Seq(Peers) /\ carrier \in [DOMAIN dest -> 0 .. MaxConns]
          /\ conns \in Seq([peer : Peers, state : {"open", "broken", "closing", "lost"}])
          /\ Len(conns) <= MaxConns /\ reports \in Seq(Peers)
      BY StreamAssumption DEF Init
    <2>2. \A K, V : IsMap(EmptyMap, K, V)
      BY DEF IsMap, EmptyMap
    <2>3. TypeOK
      BY <2>1, <2>2 DEF Init, TypeOK
    <2>4. DOMAIN EmptyMap = {}
      BY DEF EmptyMap
    <2> QED BY <2>1, <2>3, <2>4 DEF Init, MInv, OpenTakesAll, ConnectionsFit, CarriersFit,
                                    QueuedLast, InOrder, NoSilentLoss
  <1>2. MInv /\ [Next]_vars => MInv'
    BY MessagesStep
  <1> QED BY <1>1, <1>2, PTL DEF Spec, SafeSpec

\* No message is lost in silence (_connectionLost, _failQueuedMessages).
THEOREM LossIsReported == Spec => []NoSilentLoss
  <1>1. MInv => NoSilentLoss
    BY DEF MInv
  <1> QED BY <1>1, MInvInvariant, PTL

\* Messages to a peer are written in the order they were sent (_connectionMade,
\* sendMessage).
THEOREM WrittenInOrder == Spec => []InOrder
  <1>1. MInv => InOrder
    BY DEF MInv
  <1> QED BY <1>1, MInvInvariant, PTL

-----------------------------------------------------------------------------
(* The queue is served.                                                    *)

\* Types a step of SInv needs.
LEMMA ServedTypes ==
    ASSUME MInv
    PROVE  /\ 0 \notin DOMAIN conns
           /\ \A q \in DOMAIN connections : connections[q] \in DOMAIN conns
           /\ \A q \in DOMAIN connectTasks :
                q \in Peers /\ connectTasks[q] \in {0} \cup DOMAIN conns
           /\ \A c \in DOMAIN conns : conns[c].peer \in Peers
           /\ writeQ \subseteq DOMAIN dest
           /\ accepted \subseteq Callers /\ overtaken \subseteq Callers
  BY TypeFacts DEF MInv, TypeOK, IsMap, Connection

\* sendMessage dials where it queues.
LEMMA ServedSend ==
    ASSUME Separate, MInv, SInv, NEW p \in Peers, SendMessage(p)
    PROVE  SInv'
  <1> DEFINE n == Len(dest) + 1
  <1>1. /\ dest' = Append(dest, p) /\ ~LostBeforeDone /\ ~closed
        /\ UNCHANGED <<conns, connections, cancelled, closed, accepted, overtaken>>
    BY DEF SendMessage, Undisturbed, Separate, acceptVars
  <1>2. /\ dest \in Seq(Peers) /\ Len(dest) \in Nat /\ DOMAIN dest = 1 .. Len(dest)
    BY TypeFacts DEF MInv, TypeOK
  <1>3. Len(dest') = n /\ dest'[n] = p /\ \A m \in DOMAIN dest : dest'[m] = dest[m]
    BY <1>1, <1>2
  <1>4. writeQ \subseteq DOMAIN dest
    BY ServedTypes
  <1> HIDE DEF n
  <1>5. CASE UNCHANGED <<writeQ, connectTasks>>
    BY <1>1, <1>3, <1>4, <1>5 DEF SInv, OpenIsKnown, QueuedIsUnderWay, ClosedIsQuiet,
                                  AcceptedIsNotOpen, DialledIsNotOpen, MadeIsServed, IsOpen
  <1>6. CASE /\ ~(p \in DOMAIN connections /\ IsOpen(connections[p]))
             /\ writeQ' = writeQ \cup {Len(dest')}
             /\ connectTasks' = IF p \in DOMAIN connectTasks THEN connectTasks
                                                             ELSE Put(connectTasks, p, 0)
    <2>1. \A c \in DOMAIN conns : conns[c].peer = p => ~IsOpen(c)
      BY <1>6 DEF SInv, OpenIsKnown
    <2>2. /\ DOMAIN connectTasks' = DOMAIN connectTasks \cup {p}
          /\ \A q \in DOMAIN connectTasks : connectTasks'[q] = connectTasks[q]
          /\ p \notin DOMAIN connectTasks => connectTasks'[p] = 0
      BY <1>6 DEF Put
    <2>3. writeQ' = writeQ \cup {n}
      BY <1>3, <1>6
    <2>4. OpenIsKnown' /\ ClosedIsQuiet' /\ AcceptedIsNotOpen'
      BY <1>1 DEF SInv, OpenIsKnown, ClosedIsQuiet, AcceptedIsNotOpen, IsOpen
    <2>5. QueuedIsUnderWay'
      BY <1>3, <1>4, <2>2, <2>3 DEF SInv, QueuedIsUnderWay
    <2>6. DialledIsNotOpen'
      BY <1>1, <2>1, <2>2 DEF SInv, DialledIsNotOpen, IsOpen
    <2>7. MadeIsServed'
      <3> SUFFICES ASSUME NEW q \in DOMAIN connectTasks, connectTasks[q] # 0
                   PROVE  /\ q \in Listeners /\ conns[connectTasks[q]].peer = q
                          /\ conns[connectTasks[q]].state # "closing"
                          /\ conns[connectTasks[q]].state # "broken" =>
                               \A m \in writeQ' : dest'[m] # q
        BY <1>1, <2>2 DEF MadeIsServed
      <3>1. /\ q \in Listeners /\ conns[connectTasks[q]].peer = q
            /\ conns[connectTasks[q]].state # "closing"
            /\ conns[connectTasks[q]].state # "broken" => \A m \in writeQ : dest[m] # q
        BY DEF SInv, MadeIsServed
      <3>2. conns[connectTasks[q]].state # "lost" /\ connectTasks[q] \in DOMAIN conns
        BY <1>1, ServedTypes DEF LostBeforeDone
      <3>3. conns[connectTasks[q]].state \in States
        BY <3>2, TypeFacts DEF MInv, Connection
      <3>4. q = p => conns[connectTasks[q]].state = "broken"
        BY <2>1, <3>1, <3>2, <3>3 DEF States, IsOpen
      <3> QED BY <1>3, <1>4, <2>3, <3>1, <3>4
    <2> QED BY <2>4, <2>5, <2>6, <2>7 DEF SInv
  <1> QED BY <1>5, <1>6 DEF SendMessage

\* A connection for a peer that has no other open.
LEMMA ServedAdopt ==
    ASSUME MInv, SInv, NEW p \in Peers, NEW s \in States, Adopt(p, s),
           \A c \in DOMAIN conns : conns[c].peer = p => ~IsOpen(c)
    PROVE  LET c == Len(conns) + 1
           IN  /\ OpenIsKnown'
               /\ c # 0 /\ c \notin DOMAIN conns /\ DOMAIN conns' = DOMAIN conns \cup {c}
               /\ conns'[c].peer = p /\ conns'[c].state = s
               /\ \A d \in DOMAIN conns : conns'[d] = conns[d]
               /\ writeQ' = {m \in writeQ : dest[m] # p} /\ dest' = dest
  <1> DEFINE c == Len(conns) + 1
  <1>1. /\ c # 0 /\ c \notin DOMAIN conns /\ DOMAIN conns' = DOMAIN conns \cup {c}
        /\ conns'[c].peer = p /\ conns'[c].state = s
        /\ \A d \in DOMAIN conns : conns'[d] = conns[d]
        /\ DOMAIN connections' = DOMAIN connections \cup {p}
        /\ connections'[p] = c
        /\ \A q \in DOMAIN connections : q # p => connections'[q] = connections[q]
        /\ writeQ' = {m \in writeQ : dest[m] # p} /\ dest' = dest
    BY AdoptFacts DEF MInv
  <1> HIDE DEF c
  <1>2. OpenIsKnown'
    BY <1>1 DEF SInv, OpenIsKnown, IsOpen
  <1> QED BY <1>1, <1>2 DEF c

\* A dialled connection takes what waits, and its task is about to resume; one
\* that was cancelled is closed at once.
LEMMA ServedMade ==
    ASSUME Separate, MInv, SInv, NEW p \in Peers, ConnectionMade(p)
    PROVE  SInv'
  <1> DEFINE c == Len(conns) + 1
  <1>1. p \in Listeners /\ UNCHANGED <<closed, accepted, overtaken>> /\ p \notin accepted /\ p \notin overtaken
    BY ServedTypes DEF ConnectionMade, acceptVars, Separate
  <1>2. CASE /\ p \in DOMAIN connectTasks /\ connectTasks[p] = 0
             /\ \E s \in {"open"} \cup (IF Queued(p) # {} THEN {"broken"} ELSE {}) : Adopt(p, s)
             /\ connectTasks' = Put(connectTasks, p, c)
             /\ UNCHANGED cancelled
    <2>1. PICK s \in States : s \in {"open", "broken"} /\ Adopt(p, s)
      BY <1>2 DEF States
    <2>2. \A d \in DOMAIN conns : conns[d].peer = p => ~IsOpen(d)
      BY <1>1, <1>2 DEF SInv, DialledIsNotOpen
    <2>3. /\ OpenIsKnown'
          /\ c # 0 /\ c \notin DOMAIN conns /\ DOMAIN conns' = DOMAIN conns \cup {c}
          /\ conns'[c].peer = p /\ conns'[c].state = s
          /\ \A d \in DOMAIN conns : conns'[d] = conns[d]
          /\ writeQ' = {m \in writeQ : dest[m] # p} /\ dest' = dest
      BY <2>1, <2>2, ServedAdopt
    <2>4. /\ DOMAIN connectTasks' = DOMAIN connectTasks /\ connectTasks'[p] = c
          /\ \A q \in DOMAIN connectTasks : q # p => connectTasks'[q] = connectTasks[q]
      BY <1>2 DEF Put
    <2>5. ~closed
      BY <1>2 DEF SInv, ClosedIsQuiet
    <2>6. \A q \in DOMAIN connectTasks : connectTasks[q] # 0 => connectTasks[q] \in DOMAIN conns
      BY ServedTypes
    <2> HIDE DEF c
    <2>7. ClosedIsQuiet' /\ QueuedIsUnderWay' /\ AcceptedIsNotOpen'
      BY <1>1, <1>2, <2>3, <2>4, <2>5 DEF SInv, ClosedIsQuiet, QueuedIsUnderWay, AcceptedIsNotOpen, IsOpen
    <2>8. DialledIsNotOpen'
      BY <2>3, <2>4 DEF SInv, DialledIsNotOpen, IsOpen
    <2>9. MadeIsServed'
      BY <1>1, <2>1, <2>3, <2>4, <2>6 DEF SInv, MadeIsServed
    <2> QED BY <2>3, <2>7, <2>8, <2>9 DEF SInv
  <1>3. CASE p \in cancelled /\ Adopt(p, "closing") /\ UNCHANGED connectTasks
    <2>1. closed /\ DOMAIN connectTasks = {} /\ \A d \in DOMAIN conns : conns[d].peer = p => ~IsOpen(d)
      BY <1>1, <1>3 DEF SInv, ClosedIsQuiet
    <2>2. /\ OpenIsKnown'
          /\ DOMAIN conns' = DOMAIN conns \cup {c} /\ conns'[c].state = "closing"
          /\ \A d \in DOMAIN conns : conns'[d] = conns[d]
          /\ writeQ' = {m \in writeQ : dest[m] # p} /\ dest' = dest
      BY <1>3, <2>1, ServedAdopt DEF States
    <2> HIDE DEF c
    <2>3. ClosedIsQuiet' /\ QueuedIsUnderWay' /\ AcceptedIsNotOpen'
      BY <1>1, <1>3, <2>1, <2>2 DEF SInv, ClosedIsQuiet, QueuedIsUnderWay, AcceptedIsNotOpen, IsOpen
    <2> QED BY <1>3, <2>1, <2>2, <2>3 DEF SInv, DialledIsNotOpen, MadeIsServed
  <1> QED BY <1>2, <1>3 DEF ConnectionMade

\* A connection is accepted for a peer that has no other open.
LEMMA ServedAccept ==
    ASSUME MInv, SInv, NEW p \in Peers, Accept(p)
    PROVE  SInv'
  <1>1. /\ ~closed /\ accepted' = accepted \cup {p}
        /\ \A c \in DOMAIN conns : conns[c].peer = p => ~IsOpen(c)
        /\ UNCHANGED <<dest, writeQ, conns, connections, connectTasks, cancelled, closed>>
    BY DEF Accept, msgVars, connVars
  <1> QED BY <1>1 DEF SInv, OpenIsKnown, QueuedIsUnderWay, ClosedIsQuiet, AcceptedIsNotOpen,
                      DialledIsNotOpen, MadeIsServed, IsOpen

\* An accepted connection is no dialled one.
LEMMA ServedAccepted ==
    ASSUME Separate, MInv, SInv, NEW p \in Peers, AcceptedMade(p)
    PROVE  SInv'
  <1> DEFINE c == Len(conns) + 1
  <1>1. /\ p \in accepted /\ p \notin Listeners /\ Adopt(p, "open")
        /\ accepted' = accepted \ {p}
        /\ \A d \in DOMAIN conns : conns[d].peer = p => ~IsOpen(d)
        /\ UNCHANGED <<connectTasks, cancelled, closed, overtaken>>
    BY ServedTypes DEF AcceptedMade, Separate, SInv, AcceptedIsNotOpen
  <1>2. /\ OpenIsKnown'
        /\ c \notin DOMAIN conns /\ DOMAIN conns' = DOMAIN conns \cup {c}
        /\ conns'[c].peer = p /\ conns'[c].state = "open"
        /\ \A d \in DOMAIN conns : conns'[d] = conns[d]
        /\ writeQ' = {m \in writeQ : dest[m] # p} /\ dest' = dest
    BY <1>1, ServedAdopt DEF States
  <1>3. \A q \in DOMAIN connectTasks : connectTasks[q] # 0 => connectTasks[q] \in DOMAIN conns
    BY ServedTypes
  <1> HIDE DEF c
  <1>4. ClosedIsQuiet' /\ QueuedIsUnderWay' /\ AcceptedIsNotOpen'
    BY <1>1, <1>2 DEF SInv, ClosedIsQuiet, QueuedIsUnderWay, AcceptedIsNotOpen, IsOpen
  <1>5. DialledIsNotOpen'
    BY <1>1, <1>2 DEF SInv, DialledIsNotOpen, IsOpen
  <1>6. MadeIsServed'
    BY <1>1, <1>2, <1>3 DEF SInv, MadeIsServed
  <1> QED BY <1>2, <1>4, <1>5, <1>6 DEF SInv

\* The task that ends had nothing left to write, or drops it.
LEMMA ServedTaskEnds ==
    ASSUME MInv, SInv, NEW p \in Peers, ConnectDone(p) \/ ConnectFails(p) \/ CancelDone(p)
    PROVE  SInv'
  <1>1. UNCHANGED <<dest, conns, connections, closed, accepted, overtaken>>
    BY DEF ConnectDone, ConnectFails, CancelDone, msgVars, acceptVars
  <1>2. OpenIsKnown'
    BY <1>1 DEF SInv, OpenIsKnown, IsOpen
  <1>3. CASE CancelDone(p)
    BY <1>1, <1>2, <1>3 DEF CancelDone, msgVars, SInv, QueuedIsUnderWay, ClosedIsQuiet,
                            AcceptedIsNotOpen, DialledIsNotOpen, MadeIsServed, IsOpen
  <1>4. CASE ConnectDone(p) \/ ConnectFails(p)
    <2>1. /\ DOMAIN connectTasks' = DOMAIN connectTasks \ {p} /\ cancelled' = cancelled
          /\ \A q \in DOMAIN connectTasks' : connectTasks'[q] = connectTasks[q]
      BY <1>4 DEF ConnectDone, ConnectFails, Without
    <2>2. writeQ' \subseteq writeQ /\ \A m \in writeQ' : dest[m] # p
      <3>1. CASE ConnectFails(p)
        BY <3>1 DEF ConnectFails, NotQueued
      <3>2. CASE ConnectDone(p)
        BY <3>2 DEF ConnectDone, msgVars, SInv, MadeIsServed
      <3> QED BY <1>4, <3>1, <3>2
    <2> QED BY <1>1, <1>2, <2>1, <2>2 DEF SInv, QueuedIsUnderWay, ClosedIsQuiet,
                                          AcceptedIsNotOpen, DialledIsNotOpen, MadeIsServed, IsOpen
  <1> QED BY <1>3, <1>4 DEF ConnectDone

\* A connection that closes or is lost is not one that is still being made, or
\* takes the queue of its peer with it.
LEMMA ServedCloses ==
    ASSUME Separate, MInv, SInv, NEW c \in DOMAIN conns,
           PeerCloses(c) \/ FramingFails(c) \/ ConnectionLost(c)
    PROVE  SInv'
  <1>1. TypeOK
    BY DEF MInv
  <1>2. PICK s \in {"closing", "lost"} : conns' = [conns EXCEPT ![c].state = s]
    BY DEF PeerCloses, FramingFails, ConnectionLost
  <1>3. /\ DOMAIN conns' = DOMAIN conns /\ conns'[c].state = s
        /\ \A d \in DOMAIN conns : d # c => conns'[d] = conns[d]
        /\ \A d \in DOMAIN conns : conns'[d].peer = conns[d].peer
    BY <1>1, <1>2, StateFacts DEF States
  <1>4. UNCHANGED <<dest, connectTasks, cancelled, closed, accepted, overtaken>>
    BY DEF PeerCloses, FramingFails, ConnectionLost, msgVars, acceptVars
  <1>5. \A q \in DOMAIN connectTasks : connectTasks[q] # 0 => connectTasks[q] \in DOMAIN conns
    BY ServedTypes
  <1>6. \A d \in DOMAIN conns : conns'[d].state = "open" => d # c /\ conns[d].state = "open"
    BY <1>2, <1>3
  <1>7. ClosedIsQuiet' /\ AcceptedIsNotOpen' /\ DialledIsNotOpen'
    BY <1>3, <1>4, <1>6 DEF SInv, ClosedIsQuiet, AcceptedIsNotOpen, DialledIsNotOpen, IsOpen
  <1>8. CASE PeerCloses(c) \/ FramingFails(c)
    <2>1. /\ conns' = [conns EXCEPT ![c].state = "closing"]
          /\ UNCHANGED <<writeQ, connections>>
          /\ \A q \in DOMAIN connectTasks : connectTasks[q] # c
      BY <1>8 DEF PeerCloses, FramingFails, msgVars, Unfinished, Separate
    <2>2. OpenIsKnown' /\ QueuedIsUnderWay'
      BY <1>3, <1>4, <1>6, <2>1 DEF SInv, OpenIsKnown, QueuedIsUnderWay, IsOpen
    <2>3. MadeIsServed'
      BY <1>3, <1>4, <1>5, <2>1 DEF SInv, MadeIsServed
    <2> QED BY <1>7, <2>2, <2>3 DEF SInv
  <1>9. CASE ConnectionLost(c)
    <2>1. /\ connections' = Without(connections, {q \in DOMAIN connections : connections[q] = c})
          /\ writeQ' = {m \in writeQ : dest[m] # conns[c].peer}
          /\ conns' = [conns EXCEPT ![c].state = "lost"]
      BY <1>9 DEF ConnectionLost, NotQueued
    <2>2. conns'[c].state = "lost"
      BY <1>1, <2>1, StateFacts DEF States
    <2>3. OpenIsKnown'
      BY <1>3, <1>6, <2>1 DEF SInv, OpenIsKnown, IsOpen, Without
    <2>4. QueuedIsUnderWay'
      BY <1>4, <2>1 DEF SInv, QueuedIsUnderWay
    <2>5. MadeIsServed'
      BY <1>3, <1>4, <1>5, <2>1, <2>2 DEF SInv, MadeIsServed
    <2> QED BY <1>7, <2>3, <2>4, <2>5 DEF SInv
  <1> QED BY <1>8, <1>9

\* closeTransport closes every open connection: each is known.
LEMMA ServedClose ==
    ASSUME MInv, SInv, CloseTransport
    PROVE  SInv'
  <1>1. /\ closed' = TRUE /\ writeQ' = {} /\ DOMAIN connectTasks' = {}
        /\ overtaken' = accepted /\ accepted' = accepted
    BY DEF CloseTransport, EmptyMap
  <1>2. /\ DOMAIN conns' = DOMAIN conns
        /\ \A c \in DOMAIN conns :
             IF (\E p \in DOMAIN connections : connections[p] = c) /\ IsOpen(c)
             THEN conns'[c].state = "closing" ELSE conns'[c] = conns[c]
    BY CloseStep
  <1>3. \A c \in DOMAIN conns : conns'[c].state # "open"
    BY <1>2 DEF SInv, OpenIsKnown, IsOpen
  <1> QED BY <1>1, <1>2, <1>3 DEF SInv, OpenIsKnown, QueuedIsUnderWay, ClosedIsQuiet,
                                  AcceptedIsNotOpen, DialledIsNotOpen, MadeIsServed, IsOpen

LEMMA ServedStep ==
    ASSUME Separate, MInv, SInv, [Next]_vars
    PROVE  SInv'
  <1>1. ASSUME NEW p \in Peers, SendMessage(p) \/ Connecting(p) \/ ConnectDone(p)
                             \/ Accept(p) \/ AcceptedMade(p)
        PROVE  SInv'
    BY <1>1, ServedSend, ServedMade, ServedTaskEnds, ServedAccept, ServedAccepted DEF Connecting
  <1>2. ASSUME NEW c \in DOMAIN conns, PeerCloses(c) \/ FramingFails(c) \/ ConnectionLost(c)
        PROVE  SInv'
    BY <1>2, ServedCloses
  <1>3. CASE CloseTransport
    BY <1>3, ServedClose
  <1>4. CASE DeliverReport \/ UNCHANGED vars
    <2>1. UNCHANGED <<dest, writeQ, conns, connections, connectTasks, cancelled, closed,
                      accepted, overtaken>>
      BY <1>4 DEF DeliverReport, vars, msgVars, connVars, acceptVars
    <2> QED BY <2>1 DEF SInv, OpenIsKnown, QueuedIsUnderWay, ClosedIsQuiet, AcceptedIsNotOpen,
                        DialledIsNotOpen, MadeIsServed, IsOpen
  <1> QED BY <1>1, <1>2, <1>3, <1>4 DEF Next

\* Where connects are not nested and no peer calls from where it listens, a queued
\* message has a connect under way, and an open connection is the one its peer's
\* messages go to (sendMessage, _connect, _connectionLost).
THEOREM QueueAlwaysServed ==
    ASSUME Separate
    PROVE  Spec => []QueueIsServed
  <1>1. Init => SInv
    BY DEF Init, EmptyMap, SInv, OpenIsKnown, QueuedIsUnderWay, ClosedIsQuiet, AcceptedIsNotOpen,
           DialledIsNotOpen, MadeIsServed
  <1>2. MInv /\ SInv /\ [Next]_vars => SInv'
    BY ServedStep
  <1>3. MInv /\ SInv => QueueIsServed
    BY DEF MInv, SInv, QueueIsServed
  <1> QED BY MInvInvariant, <1>1, <1>2, <1>3, PTL DEF Spec, SafeSpec
=============================================================================
