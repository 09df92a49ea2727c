--------------------------- MODULE UsmSyncProofs ---------------------------
(***************************************************************************)
(* The manager keeps track of every engine it learns of, whatever the      *)
(* network does and however often agents restart; and an agent that keeps  *)
(* its boots serves no request from before it last started, as long as it  *)
(* starts fewer times than there are boots.                                *)
(*                                                                         *)
(* The first needs that whoever has a request of the manager's under way   *)
(* is an engine its user was cloned for (HasUser).  The second needs where *)
(* the boots in messages and timeline come from: they are those of the     *)
(* agent's present or of one of its earlier starts (Past), counted back    *)
(* from the present ones, over the last ones there are (Earlier).          *)
(***************************************************************************)
EXTENDS UsmSync, TLAPS

MessageType(r) ==
    [kind : Kinds, engine : EngineIds \cup {None}, boots : 0..BootsMax,
     time : 0..MaxNow, current : BOOLEAN, restart : 0..r]

\* Authenticated replies, and requests that are no probes.
HasUser(m, U) ==
    m.kind \in {"notInTimeWindow", "response"} \/ (m.kind = "request" /\ m.engine # None)
        => m.engine \in U

TInv == TypeOK /\ TimelineIsQueued /\ \A m \in net : HasUser(m, users)

\* The boots of j starts ago.
Earlier(b, j) == IF b > j THEN b - j ELSE b - j + BootsMax

\* b was, at least n starts ago, the boots of an agent that has started r times
\* again and has boots c.
Past(b, n, c, r) == \E j \in n .. r : b = Earlier(c, j)

\* A message or an entry of the timeline: it is of this agent or an earlier one,
\* and bears boots of at least n starts ago, or none.
Bears(engine, b, n) ==
    /\ engine <= engineId
    /\ engine = engineId /\ b # 0 => Past(b, n, boots, restarts)

BInv ==
    /\ ~servedAgain
    /\ stored = boots \/ (stored = 0 /\ boots = 2)
    /\ engineIdCache <= engineId
    /\ \A e \in DOMAIN timeline : Bears(e, timeline[e].boots, 0)
    /\ \A m \in net : Bears(m.engine, m.boots, restarts - m.restart)

-----------------------------------------------------------------------------
(* What the actions do to the network.                                     *)

\* n is a message of S, if for whether it answers what the manager waits for.
Like(n, S) ==
    \E m \in S : /\ n.kind = m.kind /\ n.engine = m.engine /\ n.boots = m.boots
                 /\ n.time = m.time /\ n.restart = m.restart

\* The messages under way are some that were under way before, and those of N.
NetFrom(N) ==
    /\ net' \subseteq MessageType(restarts) /\ copies' \in 0..MaxCopies
    /\ \A n \in net' : Like(n, net) \/ n \in N

LEMMA OutdatedLike ==
    ASSUME NEW r, NEW S \in SUBSET MessageType(r)
    PROVE  Outdated(S) \subseteq MessageType(r) /\ \A n \in Outdated(S) : Like(n, S)
  <1> SUFFICES ASSUME NEW n \in Outdated(S) PROVE n \in MessageType(r) /\ Like(n, S)
    OBVIOUS
  <1>1. PICK m \in S : n = [m EXCEPT !.current = FALSE]
    BY DEF Outdated
  <1>2. m \in MessageType(r)
    OBVIOUS
  <1>3. /\ n \in MessageType(r)
        /\ n.kind = m.kind /\ n.engine = m.engine /\ n.boots = m.boots
        /\ n.time = m.time /\ n.restart = m.restart
    BY <1>1, <1>2 DEF MessageType
  <1> QED BY <1>3 DEF Like

LEMMA TakeNet ==
    ASSUME TypeOK, NEW m \in net, Take(m) \/ Taken(m) PROVE NetFrom({})
  <1>1. net \subseteq MessageType(restarts) /\ copies \in 0..MaxCopies
    BY DEF TypeOK, MessageType
  <1>2. \A n \in net : Like(n, net)
    BY DEF Like
  <1>3. CASE Take(m)
    <2>1. net' \subseteq net
      BY <1>3 DEF Take
    <2>2. copies' \in 0..MaxCopies
      BY <1>1, <1>3, UsmSyncAssumption DEF Take
    <2> QED BY <1>1, <1>2, <2>1, <2>2 DEF NetFrom
  <1>4. CASE Taken(m)
    <2>1. net' = Outdated(net \ {m}) \/ net' = Outdated(net)
      BY <1>4 DEF Taken
    <2>2. net' \subseteq MessageType(restarts) /\ \A n \in net' : Like(n, net)
      BY <1>1, <2>1, OutdatedLike DEF Like
    <2>3. copies' \in 0..MaxCopies
      BY <1>1, <1>4, UsmSyncAssumption DEF Taken
    <2> QED BY <2>2, <2>3 DEF NetFrom
  <1> QED BY <1>3, <1>4

LEMMA ReplyNet ==
    ASSUME TypeOK, NEW m \in net, NEW kind \in Kinds, NEW b \in 0..BootsMax, NEW t \in 0..MaxNow,
           Reply(m, kind, b, t)
    PROVE  NetFrom({Message(kind, engineId, b, t, m.current)})
  <1> DEFINE new == Message(kind, engineId, b, t, m.current)
  <1>1. net \subseteq MessageType(restarts) /\ copies \in 0..MaxCopies
    BY DEF TypeOK, MessageType
  <1>2. new \in MessageType(restarts)
    <2>1. /\ engineId \in EngineIds \cup {None} /\ m.current \in BOOLEAN
          /\ restarts \in 0..restarts
      BY DEF TypeOK
    <2> QED BY <2>1 DEF Message, MessageType
  <1>3. \A n \in net : Like(n, net)
    BY DEF Like
  <1>4. net' \subseteq net \cup {new}
    BY DEF Reply
  <1>5. copies' \in 0..MaxCopies
    BY <1>1, UsmSyncAssumption DEF Reply
  <1> QED BY <1>1, <1>2, <1>3, <1>4, <1>5 DEF NetFrom

LEMMA SendNet ==
    ASSUME TypeOK, Send
    PROVE  LET s == Stamp(engineIdCache)
           IN  /\ s \in Stamps
               /\ NetFrom({Message("request", engineIdCache, s.boots, s.time, TRUE)})
  <1> DEFINE s == Stamp(engineIdCache)
             new == Message("request", engineIdCache, s.boots, s.time, TRUE)
  <1>1. s \in Stamps
    BY UsmSyncAssumption DEF TypeOK, Stamp, Stamps, IsMap
  <1>2. net \subseteq MessageType(restarts)
    BY DEF TypeOK, MessageType
  <1>3. Outdated(net) \subseteq MessageType(restarts) /\ \A n \in Outdated(net) : Like(n, net)
    BY <1>2, OutdatedLike
  <1>4. net' = Outdated(net) \cup {new} /\ UNCHANGED copies
    BY DEF Send
  <1>5. new \in MessageType(restarts)
    <2>1. /\ engineIdCache \in EngineIds \cup {None} /\ restarts \in 0..restarts
          /\ s.boots \in 0..BootsMax /\ s.time \in 0..MaxNow
      BY <1>1 DEF TypeOK, Stamps
    <2> HIDE DEF s
    <2> QED BY <2>1 DEF Message, MessageType, Kinds
  <1>6. NetFrom({new})
    BY <1>3, <1>4, <1>5 DEF NetFrom, TypeOK
  <1> QED BY <1>1, <1>6

\* What is heard of the agent's time is a time of day there has been.
LEMMA EngineTimeType == TypeOK => EngineTime \in 0..MaxNow
  BY UsmSyncAssumption DEF TypeOK, EngineTime

-----------------------------------------------------------------------------
(* Types, users and queue: one lemma per action.                           *)

\* A step that leaves what was learnt alone, but for more users.
LEMMA NetKeepsUsers ==
    ASSUME NEW N, NetFrom(N), \A m \in net : HasUser(m, users), \A m \in N : HasUser(m, users'), users \subseteq users'
    PROVE  \A m \in net' : HasUser(m, users')
  <1> SUFFICES ASSUME NEW n \in net' PROVE HasUser(n, users')
    OBVIOUS
  <1>1. CASE Like(n, net)
    BY <1>1 DEF Like, HasUser
  <1> QED BY <1>1 DEF NetFrom

LEMMA InitTInv == Init => TInv
  <1> SUFFICES ASSUME Init PROVE TInv
    OBVIOUS
  <1>1. /\ clockRuns \in BOOLEAN /\ prompt \in BOOLEAN
        /\ waiting \in BOOLEAN /\ answered \in BOOLEAN /\ servedAgain \in BOOLEAN
    BY DEF Init
  <1>2. /\ engineId \in EngineIds /\ boots \in 1..BootsMax /\ stored \in 0..BootsMax
        /\ now \in 0..MaxNow /\ bootedAt \in 0..now /\ restarts \in 0..MaxRestarts
        /\ copies \in 0..MaxCopies /\ cacheAge \in 0..(Lifetime - 1)
    BY UsmSyncAssumption DEF Init, EngineIds
  <1>3. /\ net = {} /\ users = {} /\ engineIdCache = None
        /\ IsMap(timeline, EngineIds, Stamps) /\ DOMAIN timeline = {}
        /\ IsMap(timelineExpQueue, EngineIds, SUBSET (0..(Lifetime - 1)))
    BY DEF Init, IsMap, EmptyMap
  <1> QED BY <1>1, <1>2, <1>3 DEF TInv, TypeOK, TimelineIsQueued

LEMMA SendKeeps == ASSUME TInv, Send PROVE TInv'
  <1> DEFINE s == Stamp(engineIdCache)
             new == Message("request", engineIdCache, s.boots, s.time, TRUE)
  <1>1. NetFrom({new})
    BY SendNet DEF TInv
  <1>2. HasUser(new, users')
    BY DEF Send, HasUser, Message
  <1>3. users' \subseteq EngineIds /\ users \subseteq users'
    BY DEF Send, TInv, TypeOK
  <1>4. \A m \in net' : HasUser(m, users')
    BY <1>1, <1>2, <1>3, NetKeepsUsers DEF TInv
  <1>5. TypeOK' /\ TimelineIsQueued'
    BY <1>1, <1>3 DEF Send, TInv, TypeOK, NetFrom, MessageType, TimelineIsQueued, agent, world
  <1> QED BY <1>4, <1>5 DEF TInv

LEMMA GiveUpKeeps == ASSUME TInv, GiveUp PROVE TInv'
  <1>1. NetFrom({})
    <2>1. net \subseteq MessageType(restarts)
      BY DEF TInv, TypeOK, MessageType
    <2>2. Outdated(net) \subseteq MessageType(restarts) /\ \A n \in Outdated(net) : Like(n, net)
      BY <2>1, OutdatedLike
    <2> QED BY <2>2 DEF GiveUp, NetFrom, TInv, TypeOK
  <1>2. \A m \in net' : HasUser(m, users')
    BY <1>1, NetKeepsUsers DEF GiveUp, TInv, learnt
  <1>3. TypeOK' /\ TimelineIsQueued'
    BY <1>1 DEF GiveUp, TInv, TypeOK, NetFrom, MessageType, TimelineIsQueued, agent, world, learnt
  <1> QED BY <1>2, <1>3 DEF TInv

LEMMA AgentKeeps == ASSUME TInv, NEW m \in net, Agent(m) PROVE TInv'
  <1>1. /\ HasUser(m, users) /\ EngineTime \in 0..MaxNow /\ boots \in 0..BootsMax /\ engineId # None
        /\ 0 \in 0..BootsMax /\ 0 \in 0..MaxNow
    BY EngineTimeType, UsmSyncAssumption DEF TInv, TypeOK, EngineIds, None
  <1>2. /\ UNCHANGED <<agent, now, learnt, waiting, answered>>
        /\ servedAgain' \in BOOLEAN
    BY DEF Agent, AnswerProbe, RefuseUser, RefuseTime, Serve, TInv, TypeOK
  <1>3. \E N : NetFrom(N) /\ \A n \in N : HasUser(n, users')
    <2>1. CASE AnswerProbe(m)
      <3> DEFINE new == Message("unknownEngineID", engineId, 0, 0, m.current)
      <3>1. NetFrom({new})
        BY <1>1, <2>1, ReplyNet DEF AnswerProbe, TInv, Kinds
      <3>2. HasUser(new, users')
        BY DEF HasUser, Message
      <3> QED BY <3>1, <3>2
    <2>2. CASE RefuseUser(m)
      <3>1. NetFrom({})
        BY <2>2, TakeNet DEF RefuseUser, TInv
      <3> QED BY <3>1
    <2>3. ASSUME NEW kind \in {"notInTimeWindow", "response"},
                 m.kind = "request", m.engine = engineId, Reply(m, kind, boots, EngineTime)
          PROVE  \E N : NetFrom(N) /\ \A n \in N : HasUser(n, users')
      <3> DEFINE new == Message(kind, engineId, boots, EngineTime, m.current)
      <3>1. NetFrom({new})
        BY <1>1, <2>3, ReplyNet DEF TInv, Kinds
      <3>2. engineId \in users
        BY <1>1, <2>3 DEF HasUser
      <3>3. HasUser(new, users')
        BY <1>2, <3>2 DEF HasUser, Message, learnt
      <3> QED BY <3>1, <3>3
    <2> QED BY <2>1, <2>2, <2>3 DEF Agent, RefuseTime, Serve
  <1>4. PICK N : NetFrom(N) /\ \A n \in N : HasUser(n, users')
    BY <1>3
  <1>5. \A n \in net' : HasUser(n, users')
    BY <1>2, <1>4, NetKeepsUsers DEF TInv, learnt
  <1>6. TypeOK' /\ TimelineIsQueued'
    BY <1>2, <1>4 DEF TInv, TypeOK, NetFrom, MessageType, TimelineIsQueued, agent, world, learnt
  <1> QED BY <1>5, <1>6 DEF TInv

\* What the manager learns is of a message's engine, and well typed.
LEMMA SniffType ==
    ASSUME TypeOK, NEW m \in net, Sniff(m)
    PROVE  /\ engineIdCache' \in {engineIdCache, m.engine}
           /\ engineIdCache' \in EngineIds \cup {None} /\ cacheAge' \in 0..(Lifetime - 1)
  <1>1. m.engine \in EngineIds \cup {None} /\ 0 \in 0..(Lifetime - 1)
    BY UsmSyncAssumption DEF TypeOK
  <1> QED BY <1>1 DEF Sniff, TypeOK

LEMMA MatchType ==
    ASSUME TypeOK, NEW m \in net, Match(m) PROVE waiting' \in BOOLEAN /\ answered' \in BOOLEAN
  BY DEF Match, TypeOK

\* Every entry of the timeline gets one in the queue.
LEMMA SynchronizeQueued ==
    ASSUME TypeOK, TimelineIsQueued, NEW m \in net, m.engine \in EngineIds, Synchronize(m)
    PROVE  /\ IsMap(timeline', EngineIds, Stamps)
           /\ IsMap(timelineExpQueue', EngineIds, SUBSET (0..(Lifetime - 1)))
           /\ TimelineIsQueued'
  <1> DEFINE e == m.engine
             old == IF e \in DOMAIN timelineExpQueue THEN timelineExpQueue[e] ELSE {}
             v == {0} \cup old
  <1>1. m.boots \in 0..BootsMax /\ m.time \in 0..MaxNow
    BY DEF TypeOK
  <1>2. [boots |-> m.boots, time |-> m.time] \in Stamps
    BY <1>1 DEF Stamps
  <1>3. v \in SUBSET (0..(Lifetime - 1)) /\ v # {}
    BY UsmSyncAssumption DEF TypeOK, IsMap
  <1>4. /\ timeline' = Put(timeline, e, [boots |-> m.boots, time |-> m.time])
        /\ timelineExpQueue' = Put(timelineExpQueue, e, v)
    BY DEF Synchronize
  <1> HIDE DEF v
  <1>5. IsMap(timeline', EngineIds, Stamps)
    BY <1>2, <1>4 DEF TypeOK, IsMap, Put
  <1>6. IsMap(timelineExpQueue', EngineIds, SUBSET (0..(Lifetime - 1)))
    BY <1>3, <1>4 DEF TypeOK, IsMap, Put
  <1>7. TimelineIsQueued'
    BY <1>3, <1>4 DEF TimelineIsQueued, Put
  <1> QED BY <1>5, <1>6, <1>7

LEMMA ManagerKeeps == ASSUME TInv, NEW m \in net, Manager(m) PROVE TInv'
  <1>1. CASE ReceiveEngineId(m)
    <2>1. NetFrom({})
      BY <1>1, TakeNet DEF ReceiveEngineId, TakenFrom, TInv
    <2>2. /\ engineIdCache' \in EngineIds \cup {None} /\ cacheAge' \in 0..(Lifetime - 1)
          /\ waiting' \in BOOLEAN /\ answered' \in BOOLEAN
      BY <1>1, SniffType, MatchType DEF ReceiveEngineId, TInv
    <2>3. UNCHANGED <<agent, now, timeline, timelineExpQueue, users, servedAgain>>
      BY <1>1 DEF ReceiveEngineId
    <2>4. \A n \in net' : HasUser(n, users')
      BY <2>1, <2>3, NetKeepsUsers DEF TInv
    <2>5. TypeOK' /\ TimelineIsQueued'
      BY <2>1, <2>2, <2>3 DEF TInv, TypeOK, NetFrom, MessageType, TimelineIsQueued, agent, world
    <2> QED BY <2>4, <2>5 DEF TInv
  <1>2. CASE ReceiveLatched(m) \/ ReceiveAuthentic(m)
    <2>1. m.engine \in users /\ users \subseteq EngineIds
      BY <1>2 DEF ReceiveLatched, ReceiveAuthentic, TInv, TypeOK
    <2>2. NetFrom({})
      BY <1>2, TakeNet DEF ReceiveLatched, ReceiveAuthentic, TakenFrom, TInv
    <2>3. /\ engineIdCache' \in EngineIds \cup {None} /\ cacheAge' \in 0..(Lifetime - 1)
          /\ waiting' \in BOOLEAN /\ answered' \in BOOLEAN
      <3>1. CASE ReceiveLatched(m)
        BY <3>1 DEF ReceiveLatched, TInv, TypeOK
      <3>2. CASE ReceiveAuthentic(m)
        BY <3>2, SniffType, MatchType DEF ReceiveAuthentic, TInv
      <3> QED BY <1>2, <3>1, <3>2
    <2>4. UNCHANGED <<agent, now, users, servedAgain>>
      BY <1>2 DEF ReceiveLatched, ReceiveAuthentic
    <2>5. Synchronize(m)
      BY <1>2 DEF ReceiveLatched, ReceiveAuthentic
    <2>6. /\ IsMap(timeline', EngineIds, Stamps)
          /\ IsMap(timelineExpQueue', EngineIds, SUBSET (0..(Lifetime - 1)))
          /\ TimelineIsQueued'
      BY <2>1, <2>5, SynchronizeQueued DEF TInv
    <2>7. \A n \in net' : HasUser(n, users')
      BY <2>2, <2>4, NetKeepsUsers DEF TInv
    <2>8. TypeOK'
      BY <2>2, <2>3, <2>4, <2>6 DEF TInv, TypeOK, NetFrom, MessageType, agent, world
    <2> QED BY <2>6, <2>7, <2>8 DEF TInv
  <1> QED BY <1>1, <1>2 DEF Manager

LEMMA RestartKeeps == ASSUME TInv, RestartSame \/ RestartNew PROVE TInv'
  <1>1. /\ boots' \in 1..BootsMax /\ stored' \in 0..BootsMax /\ engineId' \in EngineIds
        /\ restarts' = restarts + 1 /\ restarts' \in 0..MaxRestarts
        /\ bootedAt' = now
    <2>1. CASE RestartSame
      <3>1. PICK readable \in {TRUE, Durable}, writable \in {TRUE, Durable} :
              /\ boots' = IF stored = 0 \/ ~readable THEN 3
                          ELSE IF stored = BootsMax THEN 1 ELSE stored + 1
              /\ stored' = IF writable THEN boots' ELSE stored
        BY <2>1 DEF RestartSame
      <3>2. boots' \in 1..BootsMax
        BY <3>1, UsmSyncAssumption DEF TInv, TypeOK
      <3>3. stored' \in 0..BootsMax
        BY <3>1, <3>2, UsmSyncAssumption DEF TInv, TypeOK
      <3> QED BY <2>1, <3>2, <3>3, UsmSyncAssumption DEF RestartSame, TInv, TypeOK
    <2>2. CASE RestartNew
      BY <2>2, UsmSyncAssumption DEF RestartNew, TInv, TypeOK, EngineIds
    <2> QED BY <2>1, <2>2
  <1>2. UNCHANGED <<world, now, net, copies, learnt, waiting, answered, servedAgain>>
    BY DEF RestartSame, RestartNew
  <1>3. net' \subseteq MessageType(restarts')
    <2>1. net \subseteq MessageType(restarts)
      BY DEF TInv, TypeOK, MessageType
    <2>2. 0..restarts \subseteq 0..restarts'
      BY <1>1, UsmSyncAssumption DEF TInv, TypeOK
    <2> QED BY <1>2, <2>1, <2>2 DEF MessageType
  <1>4. TypeOK'
    BY <1>1, <1>2, <1>3, UsmSyncAssumption DEF TInv, TypeOK, MessageType, world, learnt
  <1>5. TimelineIsQueued' /\ \A m \in net' : HasUser(m, users')
    BY <1>2 DEF TInv, TimelineIsQueued, HasUser, learnt
  <1> QED BY <1>4, <1>5 DEF TInv

LEMMA TimerTickKeeps == ASSUME TInv, TimerTick PROVE TInv'
  <1> DEFINE Ages == 0..(Lifetime - 1)
             q == timelineExpQueue
             due == {e \in DOMAIN q : Lifetime - 1 \in q[e]}
  <1>1. /\ timeline' = Without(timeline, due)
        /\ timelineExpQueue' = [e \in DOMAIN q |-> {a + 1 : a \in q[e] \ {Lifetime - 1}}]
    BY DEF TimerTick, ExpireTimeline
  <1>2. engineIdCache' \in EngineIds \cup {None} /\ cacheAge' \in Ages
    BY UsmSyncAssumption DEF TimerTick, ExpireEngines, TInv, TypeOK
  <1>3. IsMap(q, EngineIds, SUBSET Ages)
    BY DEF TInv, TypeOK
  <1>4. \A e \in DOMAIN q :
          /\ timelineExpQueue'[e] = {a + 1 : a \in q[e] \ {Lifetime - 1}}
          /\ timelineExpQueue'[e] \in SUBSET Ages
    <2> TAKE e \in DOMAIN q
    <2>1. timelineExpQueue'[e] = {a + 1 : a \in q[e] \ {Lifetime - 1}}
      BY <1>1
    <2>2. q[e] \in SUBSET Ages
      BY <1>3 DEF IsMap
    <2>3. \A a \in q[e] \ {Lifetime - 1} : a + 1 \in Ages
      BY <2>2, UsmSyncAssumption
    <2> QED BY <2>1, <2>3
  <1>5. IsMap(timelineExpQueue', EngineIds, SUBSET Ages) /\ DOMAIN timelineExpQueue' = DOMAIN q
    <2>1. DOMAIN timelineExpQueue' = DOMAIN q
      BY <1>1
    <2>2. timelineExpQueue' = [e \in DOMAIN q |-> timelineExpQueue'[e]]
      BY <1>1
    <2> QED BY <1>3, <1>4, <2>1, <2>2 DEF IsMap
  <1>6. IsMap(timeline', EngineIds, Stamps)
    BY <1>1 DEF TInv, TypeOK, IsMap, Without
  <1>7. TimelineIsQueued'
    <2> SUFFICES ASSUME NEW e \in DOMAIN timeline'
                 PROVE  e \in DOMAIN timelineExpQueue' /\ timelineExpQueue'[e] # {}
      BY DEF TimelineIsQueued
    <2>1. e \in DOMAIN timeline /\ e \notin due
      BY <1>1 DEF Without
    <2>2. e \in DOMAIN q /\ q[e] # {} /\ Lifetime - 1 \notin q[e]
      BY <2>1 DEF TInv, TimelineIsQueued
    <2>3. PICK a \in q[e] : a # Lifetime - 1
      BY <2>2
    <2>4. a + 1 \in timelineExpQueue'[e]
      BY <1>4, <2>2, <2>3
    <2> QED BY <1>5, <2>2, <2>4
  <1>8. UNCHANGED <<agent, now, net, copies, users, waiting, answered, servedAgain>>
    BY DEF TimerTick
  <1>9. TypeOK'
    BY <1>2, <1>5, <1>6, <1>8 DEF TInv, TypeOK, agent, world
  <1>10. \A m \in net' : HasUser(m, users')
    BY <1>8 DEF TInv
  <1> QED BY <1>7, <1>9, <1>10 DEF TInv

LEMMA ClockKeeps == ASSUME TInv, Clock PROVE TInv'
  <1>1. now' \in 0..MaxNow /\ 0..now \subseteq 0..now'
    BY UsmSyncAssumption DEF Clock, TInv, TypeOK
  <1>2. UNCHANGED <<agent, net, copies, learnt, waiting, answered, servedAgain>>
    BY DEF Clock
  <1> QED BY <1>1, <1>2 DEF TInv, TypeOK, TimelineIsQueued, agent, world, learnt

LEMMA LoseKeeps == ASSUME TInv, NEW m \in net, Lose(m) PROVE TInv'
  BY DEF Lose, TInv, TypeOK, TimelineIsQueued, agent, world, learnt

\* Types, users and queue are inductive.
THEOREM TracksAreInductive == Spec => []TInv
  <1>1. TInv /\ [Next]_vars => TInv'
    <2> SUFFICES ASSUME TInv, [Next]_vars PROVE TInv'
      OBVIOUS
    <2>1. CASE UNCHANGED vars
      BY <2>1 DEF TInv, TypeOK, TimelineIsQueued, vars, agent, world, learnt
    <2> QED BY <2>1, SendKeeps, GiveUpKeeps, AgentKeeps, ManagerKeeps, RestartKeeps, TimerTickKeeps, ClockKeeps,
               LoseKeeps DEF Next
  <1> QED BY <1>1, InitTInv, PTL DEF Spec

\* However late the replies, however often the agent restarts or is replaced, with
\* boots that are kept or not: the manager has keys for whoever can answer it, and
\* every entry of its timeline will expire (processIncomingMsg, receiveTimerTick).
THEOREM ManagerAlwaysKeepsTrack == Spec => []ManagerKeepsTrack
  <1>1. TInv => ManagerKeepsTrack
    BY DEF TInv, ManagerKeepsTrack, ReplyHasUser, HasUser
  <1> QED BY <1>1, TracksAreInductive, PTL

-----------------------------------------------------------------------------
(* Boots.  An agent that keeps them has those of so many starts ago again  *)
(* only after as many starts as there are boots.                           *)

LEMMA EarlierIsOther ==
    ASSUME NEW b \in 1..BootsMax, NEW j \in Nat, j < BootsMax, Earlier(b, j) = b PROVE j = 0
  BY UsmSyncAssumption DEF Earlier

LEMMA EarlierNow == ASSUME NEW b \in 1..BootsMax PROVE Earlier(b, 0) = b
  BY UsmSyncAssumption DEF Earlier

\* The boots after a restart (latched ones start over).
After(b) == IF b = BootsMax THEN 1 ELSE b + 1

LEMMA EarlierAfter ==
    ASSUME NEW b \in 1..BootsMax, NEW j \in Nat, j < BootsMax
    PROVE  Earlier(After(b), j + 1) = Earlier(b, j)
  BY UsmSyncAssumption DEF Earlier, After

LEMMA PastAfter ==
    ASSUME MaxRestarts < BootsMax, NEW c \in 1..BootsMax, NEW r \in 0..MaxRestarts,
           NEW n \in Nat, NEW b, Past(b, n, c, r)
    PROVE  Past(b, n + 1, After(c), r + 1)
  <1>1. PICK j \in n .. r : b = Earlier(c, j)
    BY DEF Past
  <1>2. j \in Nat /\ j < BootsMax /\ j + 1 \in n + 1 .. r + 1
    BY <1>1, UsmSyncAssumption
  <1>3. b = Earlier(After(c), j + 1)
    BY <1>1, <1>2, EarlierAfter
  <1> QED BY <1>2, <1>3 DEF Past

\* What has been at least n starts ago has been at least fewer starts ago.
LEMMA PastWeaker ==
    ASSUME NEW b, NEW c, NEW r, NEW n \in Nat, NEW k \in 0..n, r \in Nat, Past(b, n, c, r)
    PROVE  Past(b, k, c, r)
  BY DEF Past

LEMMA PastNow ==
    ASSUME NEW c \in 1..BootsMax, NEW r \in Nat PROVE Past(c, 0, c, r)
  <1>1. c = Earlier(c, 0) /\ 0 \in 0 .. r
    BY EarlierNow
  <1> QED BY <1>1 DEF Past

\* A step of the same agent: messages of before stay what they are.
LEMMA NetKeepsBoots ==
    ASSUME NEW N, NetFrom(N), \A m \in net : Bears(m.engine, m.boots, restarts - m.restart),
           \A m \in N : Bears(m.engine, m.boots, restarts - m.restart),
           UNCHANGED <<engineId, boots, restarts>>
    PROVE  (\A m \in net : Bears(m.engine, m.boots, restarts - m.restart))'
  <1> SUFFICES ASSUME NEW n \in net' PROVE Bears(n.engine, n.boots, restarts - n.restart)
    BY DEF Bears
  <1>1. CASE Like(n, net)
    BY <1>1 DEF Like
  <1> QED BY <1>1 DEF NetFrom

LEMMA InitBInv == ASSUME Init PROVE BInv
  BY DEF Init, BInv, EmptyMap, None

LEMMA SendBoots == ASSUME TInv, BInv, Send PROVE BInv'
  <1> DEFINE s == Stamp(engineIdCache)
             new == Message("request", engineIdCache, s.boots, s.time, TRUE)
  <1>1. NetFrom({new})
    BY SendNet DEF TInv
  <1>2. UNCHANGED <<engineId, boots, restarts, stored, timeline, engineIdCache, servedAgain>>
    BY DEF Send, agent
  <1>3. new.engine = engineIdCache /\ new.boots = s.boots /\ restarts - new.restart = 0
    BY DEF Message, TInv, TypeOK
  <1>4. Bears(engineIdCache, s.boots, 0)
    BY DEF Stamp, BInv, Bears
  <1>5. Bears(new.engine, new.boots, restarts - new.restart)
    BY <1>3, <1>4 DEF Bears
  <1> HIDE DEF new
  <1>6. (\A m \in net : Bears(m.engine, m.boots, restarts - m.restart))'
    BY <1>1, <1>2, <1>5, NetKeepsBoots DEF BInv
  <1> QED BY <1>2, <1>6 DEF BInv, Bears

LEMMA GiveUpBoots == ASSUME TInv, BInv, GiveUp PROVE BInv'
  <1>1. NetFrom({})
    <2>1. net \subseteq MessageType(restarts)
      BY DEF TInv, TypeOK, MessageType
    <2>2. Outdated(net) \subseteq MessageType(restarts) /\ \A n \in Outdated(net) : Like(n, net)
      BY <2>1, OutdatedLike
    <2> QED BY <2>2 DEF GiveUp, NetFrom, TInv, TypeOK
  <1>2. UNCHANGED <<engineId, boots, restarts, stored, timeline, engineIdCache, servedAgain>>
    BY DEF GiveUp, agent, learnt
  <1>3. (\A m \in net : Bears(m.engine, m.boots, restarts - m.restart))'
    BY <1>1, <1>2, NetKeepsBoots DEF BInv
  <1> QED BY <1>2, <1>3 DEF BInv, Bears

LEMMA AgentBoots ==
    ASSUME MaxRestarts < BootsMax, TInv, BInv, NEW m \in net, Agent(m) PROVE BInv'
  <1>1. /\ UNCHANGED <<engineId, boots, restarts, stored, timeline, engineIdCache>>
        /\ boots \in 1..BootsMax /\ boots \in 0..BootsMax /\ restarts \in 0..MaxRestarts
        /\ restarts \in Nat /\ engineId \in Nat /\ EngineTime \in 0..MaxNow
        /\ 0 \in 0..BootsMax /\ 0 \in 0..MaxNow
    BY EngineTimeType, UsmSyncAssumption
       DEF Agent, AnswerProbe, RefuseUser, RefuseTime, Serve, agent, learnt, TInv, TypeOK, EngineIds
  <1>2. ASSUME NEW kind \in Kinds, NEW b \in {0, boots}, NEW t \in 0..MaxNow, Reply(m, kind, b, t)
        PROVE  (\A n \in net : Bears(n.engine, n.boots, restarts - n.restart))'
    <2> DEFINE new == Message(kind, engineId, b, t, m.current)
    <2>1. NetFrom({new})
      BY <1>1, <1>2, ReplyNet DEF TInv
    <2>2. new.engine = engineId /\ new.boots = b /\ restarts - new.restart = 0
      BY <1>1 DEF Message
    <2>3. Past(boots, 0, boots, restarts)
      BY <1>1, PastNow
    <2>4. Bears(new.engine, new.boots, restarts - new.restart)
      BY <1>1, <2>2, <2>3 DEF Bears
    <2> HIDE DEF new
    <2> QED BY <1>1, <2>1, <2>4, NetKeepsBoots DEF BInv
  <1>3. (\A n \in net : Bears(n.engine, n.boots, restarts - n.restart))'
    <2>1. CASE RefuseUser(m)
      BY <1>1, <2>1, TakeNet, NetKeepsBoots DEF RefuseUser, TInv, BInv
    <2> QED BY <1>1, <1>2, <2>1 DEF Agent, AnswerProbe, RefuseTime, Serve, Kinds
  <1>4. ~servedAgain'
    <2>1. CASE Serve(m)
      <3>1. m.engine = engineId /\ m.boots = boots /\ m.restart \in 0..restarts
        BY <2>1 DEF Serve, InWindow, TInv, TypeOK
      <3>2. Past(boots, restarts - m.restart, boots, restarts)
        BY <1>1, <3>1 DEF BInv, Bears
      <3>3. PICK j \in restarts - m.restart .. restarts : boots = Earlier(boots, j)
        BY <3>2 DEF Past
      <3>4. j \in Nat /\ j < BootsMax
        BY <1>1, <3>1, <3>3, UsmSyncAssumption
      <3>5. j = 0
        BY <1>1, <3>3, <3>4, EarlierIsOther
      <3>6. m.restart = restarts
        BY <1>1, <3>1, <3>3, <3>5
      <3> QED BY <2>1, <3>6 DEF Serve, BInv
    <2> QED BY <2>1 DEF Agent, AnswerProbe, RefuseUser, RefuseTime, BInv
  <1> QED BY <1>1, <1>3, <1>4 DEF BInv, Bears

LEMMA ManagerBoots ==
    ASSUME TInv, BInv, NEW m \in net, Manager(m) PROVE BInv'
  <1>1. /\ UNCHANGED <<engineId, boots, restarts, stored, servedAgain>>
        /\ m.restart \in 0..restarts /\ restarts \in Nat
    BY UsmSyncAssumption
       DEF Manager, ReceiveEngineId, ReceiveLatched, ReceiveAuthentic, agent, TInv, TypeOK
  <1>2. NetFrom({})
    BY TakeNet DEF Manager, ReceiveEngineId, ReceiveLatched, ReceiveAuthentic, TakenFrom, TInv
  <1>3. (\A n \in net : Bears(n.engine, n.boots, restarts - n.restart))'
    BY <1>1, <1>2, NetKeepsBoots DEF BInv
  <1>4. Bears(m.engine, m.boots, 0)
    <2>1. Bears(m.engine, m.boots, restarts - m.restart)
      BY DEF BInv
    <2>2. restarts - m.restart \in Nat
      BY <1>1
    <2> QED BY <1>1, <2>1, <2>2, PastWeaker DEF Bears
  <1>5. engineIdCache' <= engineId
    <2>1. engineIdCache' \in {engineIdCache, m.engine}
      BY SniffType DEF Manager, ReceiveEngineId, ReceiveLatched, ReceiveAuthentic, TInv
    <2> QED BY <1>4, <2>1 DEF BInv, Bears
  <1>6. \A e \in DOMAIN timeline' : Bears(e, timeline'[e].boots, 0)
    <2>1. \/ timeline' = timeline
          \/ timeline' = Put(timeline, m.engine, [boots |-> m.boots, time |-> m.time])
      BY DEF Manager, ReceiveEngineId, ReceiveLatched, ReceiveAuthentic, Synchronize
    <2> QED BY <1>4, <2>1 DEF BInv, Put
  <1> QED BY <1>1, <1>3, <1>5, <1>6 DEF BInv, Bears

LEMMA RestartSameBoots ==
    ASSUME Durable, MaxRestarts < BootsMax, TInv, BInv, RestartSame PROVE BInv'
  <1>1. /\ boots \in 1..BootsMax /\ stored \in 0..BootsMax
        /\ restarts \in 0..MaxRestarts /\ restarts \in Nat /\ engineId \in Nat
    BY UsmSyncAssumption DEF TInv, TypeOK, EngineIds
  <1>2. /\ restarts' = restarts + 1
        /\ UNCHANGED <<engineId, net, timeline, engineIdCache, servedAgain>>
    BY DEF RestartSame, learnt
  <1>3. boots' = After(boots) /\ stored' = boots'
    <2>1. /\ boots' = IF stored = 0 THEN 3 ELSE IF stored = BootsMax THEN 1 ELSE stored + 1
          /\ stored' = boots'
      <3>1. Durable = TRUE
        BY UsmSyncAssumption
      <3> QED BY <3>1 DEF RestartSame
    <2> QED BY <1>1, <2>1, UsmSyncAssumption DEF BInv, After
  <1>4. ASSUME NEW e, NEW b, NEW n \in Nat, Bears(e, b, n)
        PROVE  e <= engineId' /\ (e = engineId' /\ b # 0 => Past(b, n + 1, boots', restarts'))
    BY <1>1, <1>2, <1>3, <1>4, PastAfter DEF Bears
  <1>5. ASSUME NEW e \in DOMAIN timeline' PROVE Bears(e, timeline[e].boots, 0)'
    <2>1. Bears(e, timeline[e].boots, 0)
      BY <1>2, <1>5 DEF BInv
    <2>2. /\ e <= engineId'
          /\ e = engineId' /\ timeline[e].boots # 0 => Past(timeline[e].boots, 0 + 1, boots', restarts')
      BY <1>4, <2>1
    <2>3. Past(timeline[e].boots, 1, boots', restarts') => Past(timeline[e].boots, 0, boots', restarts')
      BY <1>1, <1>2, PastWeaker
    <2> QED BY <1>2, <2>2, <2>3 DEF Bears
  <1>6. ASSUME NEW m \in net' PROVE Bears(m.engine, m.boots, restarts - m.restart)'
    <2>1. /\ Bears(m.engine, m.boots, restarts - m.restart)
          /\ m.restart \in 0..restarts /\ restarts - m.restart \in Nat
      BY <1>1, <1>2, <1>6 DEF BInv, TInv, TypeOK
    <2>2. (restarts - m.restart) + 1 = restarts' - m.restart
      BY <1>1, <1>2, <2>1
    <2>3. /\ m.engine <= engineId'
          /\ m.engine = engineId' /\ m.boots # 0 =>
               Past(m.boots, (restarts - m.restart) + 1, boots', restarts')
      BY <1>4, <2>1
    <2> QED BY <2>2, <2>3 DEF Bears
  <1> QED BY <1>2, <1>3, <1>5, <1>6 DEF BInv

LEMMA RestartNewBoots == ASSUME TInv, BInv, RestartNew PROVE BInv'
  <1>1. /\ engineId' = engineId + 1 /\ engineId \in Nat /\ boots' = 2 /\ stored' = 0
        /\ UNCHANGED <<net, timeline, engineIdCache, servedAgain>>
    BY UsmSyncAssumption DEF RestartNew, learnt, TInv, TypeOK, EngineIds
  <1>2. /\ engineIdCache \in Nat /\ DOMAIN timeline \subseteq Nat
        /\ \A m \in net : m.engine \in Nat
    BY DEF TInv, TypeOK, IsMap, EngineIds, None
  <1>3. \A e \in Nat : e <= engineId => e <= engineId' /\ e # engineId'
    BY <1>1
  <1> QED BY <1>1, <1>2, <1>3 DEF BInv, Bears

LEMMA OtherBoots ==
    ASSUME TInv, BInv, TimerTick \/ Clock \/ (\E m \in net : Lose(m)) \/ UNCHANGED vars PROVE BInv'
  <1>1. /\ UNCHANGED <<engineId, boots, restarts, stored, servedAgain>> /\ net' \subseteq net
        /\ engineId \in Nat
    BY DEF TimerTick, Clock, Lose, vars, agent, TInv, TypeOK, EngineIds
  <1>2. engineIdCache' \in {engineIdCache, None}
    BY DEF TimerTick, ExpireEngines, Clock, Lose, vars, learnt
  <1>3. timeline' = timeline \/ \E K : timeline' = Without(timeline, K)
    BY DEF TimerTick, ExpireTimeline, Clock, Lose, vars, learnt
  <1>4. \A e \in DOMAIN timeline' : e \in DOMAIN timeline /\ timeline'[e] = timeline[e]
    BY <1>3 DEF Without
  <1>5. engineIdCache' <= engineId'
    BY <1>1, <1>2 DEF BInv, None
  <1> QED BY <1>1, <1>4, <1>5 DEF BInv, Bears

\* An agent that can read and write its boots file, and that starts fewer times than
\* there are boots, serves no request that was sent before it last started, whatever
\* the network kept back or repeated (3.2.7a of processIncomingMsg, SnmpEngine.__init__).
THEOREM DurableServesInThisBoot ==
    ASSUME Durable, MaxRestarts < BootsMax PROVE Spec => []ServedInThisBoot
  <1>1. TInv /\ BInv /\ [Next]_vars => BInv'
    <2> SUFFICES ASSUME TInv, BInv, [Next]_vars PROVE BInv'
      OBVIOUS
    <2> QED BY SendBoots, GiveUpBoots, AgentBoots, ManagerBoots, RestartSameBoots, RestartNewBoots, OtherBoots DEF Next
  <1>2. BInv => ServedInThisBoot
    BY DEF BInv, ServedInThisBoot
  <1> QED BY <1>1, <1>2, InitBInv, TracksAreInductive, PTL DEF Spec
=============================================================================
