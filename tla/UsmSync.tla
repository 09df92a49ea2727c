------------------------------ MODULE UsmSync ------------------------------
(***************************************************************************)
(* An SNMPv3 manager getting in step with an agent: discovery of the       *)
(* agent's engine (proto.mpmod.rfc3412) and of its boots and time          *)
(* (proto.secmod.rfc3414.service), over a network that delays, repeats,    *)
(* reorders and loses messages, while the agent restarts                   *)
(* (entity.engine) or is replaced by another at the same address.          *)
(*                                                                         *)
(* Messages are authenticated and both sides have the right keys.  A       *)
(* message's msgID is abstracted to whether it is the one the manager      *)
(* waits for: "current".                                                   *)
(***************************************************************************)
EXTENDS Integers, FiniteSets, PythonData

CONSTANTS
    Window,       \* seconds a message may be off: 150
    BootsMax,     \* 2147483647
    Lifetime,     \* timer ticks what was learnt is kept: 300 seconds of them
    Durable,      \* the agent can read and write its boots file
    FirstBoots,   \* what its boots may be at first
    MaxEngines, MaxRestarts, MaxNow, MaxCopies, MaxInFlight  \* BOUNDS

ASSUME UsmSyncAssumption ==
    /\ Window \in Nat /\ BootsMax \in Nat \ 0..2 /\ Lifetime \in Nat \ {0}
    /\ Durable \in BOOLEAN /\ FirstBoots \subseteq 1 .. BootsMax
    /\ MaxEngines \in Nat \ {0} /\ MaxRestarts \in Nat /\ MaxNow \in Nat
    /\ MaxCopies \in Nat /\ MaxInFlight \in Nat \ {0}

None == 0                    \* no engine ID
EngineIds == 1..MaxEngines

VARIABLES
    clockRuns,                  \* the agent's engine time advances (not pysnmp's: see EngineTime)
    prompt,                     \* nothing is lost or repeated, and an answer that comes, comes
                                \* before the timeout and the next tick
    engineId, boots, bootedAt,  \* the agent: who it is, its boots, when it started
    stored,                     \* its boots file; 0: there is none
    restarts,                   \* how often it started again
    now,                        \* the time of day
    net, copies,                \* messages under way; how many were repeated
    engineIdCache,              \* the manager's: the engine at the agent's address
    cacheAge,                   \* ... and for how long
    timeline,                   \* the manager's: boots and time by engine
    timelineExpQueue,           \* ... and the ages of the engine's entries in the queue
    users,                      \* the engines its user has been cloned for
    waiting,                    \* a request is outstanding
    answered,                   \* the last request was
    servedAgain                 \* the agent served a request from before it started

world == <<clockRuns, prompt>>
agent == <<world, engineId, boots, bootedAt, stored, restarts>>
learnt == <<engineIdCache, cacheAge, timeline, timelineExpQueue, users>>
vars == <<agent, now, net, copies, learnt, waiting, answered, servedAgain>>

Init ==
    /\ prompt \in BOOLEAN /\ clockRuns \in {FALSE, prompt}
    /\ engineId = 1 /\ boots \in FirstBoots /\ stored = boots /\ bootedAt = 0 /\ restarts = 0
    /\ now = 0 /\ net = {} /\ copies = 0
    /\ engineIdCache = None /\ cacheAge = 0
    /\ timeline = EmptyMap /\ timelineExpQueue = EmptyMap /\ users = {}
    /\ waiting = FALSE /\ answered = FALSE
    /\ servedAgain = FALSE

\* snmpEngineTime.  The object holds the time of day at which the engine
\* started, and cloning it does not subtract that from the time of day: it stays
\* what it is.  An agent of another make counts the seconds since it started.
EngineTime == IF clockRuns THEN now - bootedAt ELSE bootedAt

-----------------------------------------------------------------------------
Message(kind, engine, b, t, current) ==
    [kind |-> kind, engine |-> engine, boots |-> b, time |-> t, current |-> current,
     restart |-> restarts]

\* No message under way answers what the manager waits for any more.
Outdated(messages) == {[m EXCEPT !.current = FALSE] : m \in messages}

\* A message is taken from the network, which may keep a copy.
Take(m) ==
    \/ net' = net \ {m} /\ UNCHANGED copies
    \/ ~prompt /\ copies < MaxCopies /\ copies' = copies + 1 /\ UNCHANGED net

\* 3.1.6: the boots and time to put in a request to this engine, as they were
\* when last heard of.
Stamp(e) == IF e \in DOMAIN timeline THEN timeline[e] ELSE [boots |-> 0, time |-> 0]

\* MUTANT of Send: the user is not cloned for the engine.
SendUncloned ==
    /\ ~waiting /\ waiting' = TRUE /\ answered' = FALSE
    /\ Cardinality(net) < MaxInFlight
    /\ LET s == Stamp(engineIdCache)
       IN  net' = Outdated(net) \cup {Message("request", engineIdCache, s.boots, s.time, TRUE)}
    /\ UNCHANGED <<agent, now, copies, learnt, servedAgain>>

\* prepareOutgoingMessage with generateRequestMsg: an empty probe while the
\* engine is not known; then the request, for a user with keys for that engine.
Send ==
    /\ ~waiting /\ waiting' = TRUE /\ answered' = FALSE
    /\ Cardinality(net) < MaxInFlight
    /\ LET s == Stamp(engineIdCache)
       IN  net' = Outdated(net) \cup {Message("request", engineIdCache, s.boots, s.time, TRUE)}
    /\ users' = users \cup ({engineIdCache} \ {None})
    /\ UNCHANGED <<agent, now, copies, engineIdCache, cacheAge, timeline, timelineExpQueue, servedAgain>>

\* The request times out: see RequestCycle.
GiveUp ==
    /\ waiting /\ (prompt => \A m \in net : ~m.current)
    /\ waiting' = FALSE /\ net' = Outdated(net)
    /\ UNCHANGED <<agent, now, copies, learnt, answered, servedAgain>>

-----------------------------------------------------------------------------
(* The agent.                                                              *)

Reply(m, kind, b, t) ==
    /\ \/ /\ net' = (net \ {m}) \cup {Message(kind, engineId, b, t, m.current)}
          /\ UNCHANGED copies
       \/ /\ ~prompt /\ copies < MaxCopies /\ copies' = copies + 1
          /\ net' = net \cup {Message(kind, engineId, b, t, m.current)}

\* 3.2.3b: "peer requested snmpEngineID discovery".  The report is not
\* authenticated, so it bears no boots and time.
AnswerProbe(m) ==
    /\ m \in net /\ m.kind = "request" /\ m.engine = None
    /\ Reply(m, "unknownEngineID", 0, 0)
    /\ UNCHANGED <<agent, now, learnt, waiting, answered, servedAgain>>

\* 3.2.4: there is no such user for another engine's ID.  The report asks for
\* the request's security level, for which the entry in the security model's
\* cache has no keys: it is not sent.
RefuseUser(m) ==
    /\ m \in net /\ m.kind = "request" /\ m.engine \notin {None, engineId}
    /\ Take(m)
    /\ UNCHANGED <<agent, now, learnt, waiting, answered, servedAgain>>

\* MUTANT of InWindow: the boots do not matter.
InWindowAnyBoots(m) == boots # BootsMax /\ EngineTime - m.time \in -Window..Window

\* 3.2.7a
InWindow(m) ==
    boots # BootsMax /\ boots = m.boots /\ EngineTime - m.time \in -Window..Window

\* The report is authenticated, and says how far along the agent is.
RefuseTime(m) ==
    /\ m \in net /\ m.kind = "request" /\ m.engine = engineId /\ ~InWindow(m)
    /\ Reply(m, "notInTimeWindow", boots, EngineTime)
    /\ UNCHANGED <<agent, now, learnt, waiting, answered, servedAgain>>

Serve(m) ==
    /\ m \in net /\ m.kind = "request" /\ m.engine = engineId /\ InWindow(m)
    /\ Reply(m, "response", boots, EngineTime)
    /\ servedAgain' = (servedAgain \/ m.restart # restarts)
    /\ UNCHANGED <<agent, now, learnt, waiting, answered>>

\* MUTANT of RestartSame: the last boots are stepped like any other.
RestartSameUnlatched ==
    /\ restarts < MaxRestarts /\ restarts' = restarts + 1
    /\ boots' = stored + 1 /\ stored' = boots' /\ bootedAt' = now
    /\ UNCHANGED <<world, engineId, now, net, copies, learnt, waiting, answered, servedAgain>>

\* SnmpEngine.__init__ with the agent's own engine ID: the boots are read, if
\* they can be, stepped, and written, if they can be.
RestartSame ==
    /\ restarts < MaxRestarts /\ restarts' = restarts + 1
    /\ \E readable, writable \in {TRUE, Durable} :
         /\ boots' = IF stored = 0 \/ ~readable THEN 3 ELSE IF stored = BootsMax THEN 1 ELSE stored + 1
         /\ stored' = IF writable THEN boots' ELSE stored
    /\ bootedAt' = now
    /\ UNCHANGED <<world, engineId, now, net, copies, learnt, waiting, answered, servedAgain>>

\* ... and with the default engine ID, which is another for each process.
RestartNew ==
    /\ restarts < MaxRestarts /\ restarts' = restarts + 1
    /\ engineId < MaxEngines /\ engineId' = engineId + 1
    /\ boots' = 2 /\ stored' = 0 /\ bootedAt' = now
    /\ UNCHANGED <<world, now, net, copies, learnt, waiting, answered, servedAgain>>

-----------------------------------------------------------------------------
(* The manager receives a reply.                                           *)

\* "Sniff for engineIdCache": only a report says whose address this is.
Sniff(m) ==
    IF engineIdCache = None /\ m.kind # "response"
    THEN engineIdCache' = m.engine /\ cacheAge' = 0
    ELSE UNCHANGED <<engineIdCache, cacheAge>>

\* 7.2.10-12: what answers nothing is dropped; a report is retried (by another
\* Send), a response is the answer.
Match(m) ==
    IF m.current
    THEN waiting' = FALSE /\ answered' = (m.kind = "response")
    ELSE UNCHANGED <<waiting, answered>>

Taken(m) ==
    \/ net' = Outdated(net \ {m}) /\ UNCHANGED copies
    \/ ~prompt /\ copies < MaxCopies /\ copies' = copies + 1 /\ net' = Outdated(net)

TakenFrom(m) == IF m.current THEN Taken(m) ELSE Take(m)

\* MUTANT of Synchronize: an entry that is refreshed is not queued again.
SynchronizeUnqueued(m) ==
    /\ timeline' = Put(timeline, m.engine, [boots |-> m.boots, time |-> m.time])
    /\ timelineExpQueue' =
         IF m.engine \in DOMAIN timelineExpQueue THEN timelineExpQueue
         ELSE Put(timelineExpQueue, m.engine, {0})

\* "synchronize time with authed peer", before the time is checked; one more
\* entry in the queue.
Synchronize(m) ==
    /\ timeline' = Put(timeline, m.engine, [boots |-> m.boots, time |-> m.time])
    /\ timelineExpQueue' =
         Put(timelineExpQueue, m.engine,
             {0} \cup IF m.engine \in DOMAIN timelineExpQueue THEN timelineExpQueue[m.engine] ELSE {})

\* A report that is not authenticated needs no user and no time.
ReceiveEngineId(m) ==
    /\ m \in net /\ m.kind = "unknownEngineID"
    /\ Sniff(m) /\ Match(m) /\ TakenFrom(m)
    /\ UNCHANGED <<agent, now, timeline, timelineExpQueue, users, servedAgain>>

\* The others need a user with keys for the engine, which there always is
\* (ReplyHasUser).
\*
\* 3.2.7b.2, with the entry just made: all that can be wrong is that the boots
\* are the last there are.
ReceiveLatched(m) ==
    /\ m \in net /\ m.kind \in {"notInTimeWindow", "response"} /\ m.engine \in users
    /\ m.boots = BootsMax
    /\ Synchronize(m) /\ Take(m)
    /\ UNCHANGED <<agent, now, engineIdCache, cacheAge, users, waiting, answered, servedAgain>>

ReceiveAuthentic(m) ==
    /\ m \in net /\ m.kind \in {"notInTimeWindow", "response"} /\ m.engine \in users
    /\ m.boots # BootsMax
    /\ Synchronize(m) /\ Sniff(m) /\ Match(m) /\ TakenFrom(m)
    /\ UNCHANGED <<agent, now, users, servedAgain>>

-----------------------------------------------------------------------------
\* MUTANT of ExpireEngines: what discovery learnt is kept.
ExpireEnginesNever == UNCHANGED <<engineIdCache, cacheAge>>

\* __expireEnginesInfo
ExpireEngines ==
    IF engineIdCache = None THEN UNCHANGED <<engineIdCache, cacheAge>>
    ELSE IF cacheAge + 1 < Lifetime THEN cacheAge' = cacheAge + 1 /\ UNCHANGED engineIdCache
    ELSE engineIdCache' = None /\ cacheAge' = 0

\* __expireTimelineInfo: the oldest entry of the queue takes the engine's
\* timeline with it, however recent that is.
ExpireTimeline ==
    LET Due(e) == Lifetime - 1 \in timelineExpQueue[e]
        Rest(e) == {a + 1 : a \in timelineExpQueue[e] \ {Lifetime - 1}}
    IN  /\ timeline' = Without(timeline, {e \in DOMAIN timelineExpQueue : Due(e)})
        /\ timelineExpQueue' = [e \in DOMAIN timelineExpQueue |-> Rest(e)]

TimerTick ==
    /\ prompt => waiting /\ \A m \in net : ~m.current
    /\ ExpireEngines /\ ExpireTimeline
    /\ UNCHANGED <<agent, now, net, copies, users, waiting, answered, servedAgain>>

\* BOUND: on the network that is not prompt, no time passes.
Clock ==
    /\ prompt /\ now < MaxNow /\ now' = now + 1
    /\ UNCHANGED <<agent, net, copies, learnt, waiting, answered, servedAgain>>

Lose(m) ==
    /\ ~prompt /\ m \in net /\ net' = net \ {m}
    /\ UNCHANGED <<agent, now, copies, learnt, waiting, answered, servedAgain>>

Agent(m) == AnswerProbe(m) \/ RefuseUser(m) \/ RefuseTime(m) \/ Serve(m)
Manager(m) == ReceiveEngineId(m) \/ ReceiveLatched(m) \/ ReceiveAuthentic(m)

Deliver == \E m \in net : Agent(m) \/ Manager(m)

Next ==
    \/ Send \/ GiveUp \/ RestartSame \/ RestartNew \/ TimerTick \/ Clock
    \/ \E m \in net : Agent(m) \/ Manager(m) \/ Lose(m)

\* Messages arrive, the application asks again, timeouts end, and time (which
\* timeouts are made of) passes.
Fairness == WF_vars(Send) /\ WF_vars(GiveUp) /\ WF_vars(Deliver) /\ SF_vars(TimerTick)

Spec == Init /\ [][Next]_vars /\ Fairness

-----------------------------------------------------------------------------
Stamps == [boots : 0..BootsMax, time : 0..MaxNow]
Kinds == {"request", "unknownEngineID", "notInTimeWindow", "response"}

\* Types of the state of both sides.
TypeOK ==
    /\ clockRuns \in BOOLEAN /\ prompt \in BOOLEAN
    /\ engineId \in EngineIds /\ boots \in 1..BootsMax /\ stored \in 0..BootsMax
    /\ now \in 0..MaxNow /\ bootedAt \in 0..now /\ restarts \in 0..MaxRestarts
    /\ net \subseteq [kind : Kinds, engine : EngineIds \cup {None}, boots : 0..BootsMax,
                      time : 0..MaxNow, current : BOOLEAN, restart : 0..restarts]
    /\ copies \in 0..MaxCopies
    /\ engineIdCache \in EngineIds \cup {None} /\ cacheAge \in 0..(Lifetime - 1)
    /\ IsMap(timeline, EngineIds, Stamps)
    /\ IsMap(timelineExpQueue, EngineIds, SUBSET (0..(Lifetime - 1)))
    /\ users \subseteq EngineIds /\ waiting \in BOOLEAN /\ answered \in BOOLEAN
    /\ servedAgain \in BOOLEAN

\* The agent serves no request that was sent before it last started: with its
\* boots kept in a file, none of the earlier ones' messages is in its window.
ServedInThisBoot == ~servedAgain

\* "cloned user when request was sent" (processIncomingMsg): an authenticated
\* reply, however late, is from an engine the user has keys for.
ReplyHasUser ==
    \A m \in net : m.kind \in {"notInTimeWindow", "response"} => m.engine \in users

\* Every timeline entry is expired in the end: the queue names its engine
\* (__timelineExpQueue).
TimelineIsQueued ==
    \A e \in DOMAIN timeline : e \in DOMAIN timelineExpQueue /\ timelineExpQueue[e] # {}

\* On a prompt network the manager gets its answers again and again, however often the
\* agent starts again or is replaced: what it learnt of an agent that is gone "is not
\* remembered forever" (receiveTimerTick).  Only an agent that stays at the last boots
\* there are answers no more.
Recovers == prompt => []<>answered \/ <>[](boots = BootsMax)

\* However late the replies and however often the agent was replaced, what the
\* manager remembers of engines will expire, and it has keys for whoever can answer
\* it (processIncomingMsg, receiveTimerTick).
ManagerKeepsTrack == TypeOK /\ ReplyHasUser /\ TimelineIsQueued
=============================================================================
