-------------------------- MODULE ResponderProofs --------------------------
(***************************************************************************)
(* The books of the agent's layers agree, and access control decides with  *)
(* the requester's own identity, for any requests, outcomes, lifetime and  *)
(* number of closes.                                                       *)
(*                                                                         *)
(* The inductive invariant adds to what the run checks: that the message   *)
(* processing cache is consistent (CacheOK), what is not known yet of a    *)
(* request that has not arrived (Fresh), that a task is cancelled only     *)
(* after a close (CancelledByClose), and that the execution point of a     *)
(* waiting task names its requester (PointIsOwn).                          *)
(***************************************************************************)
EXTENDS Responder, FiniteSetTheorems, TLAPS

-----------------------------------------------------------------------------
(* The operations of the message cache on requests being served.           *)

LEMMA AgedState ==
    ASSUME NEW Infos, NEW r \in [info : Infos, expireAt : 0 .. Lifetime], r.expireAt # 0
    PROVE  LET e == [r EXCEPT !.expireAt = @ - 1]
           IN  /\ e \in [info : Infos, expireAt : 0 .. Lifetime]
               /\ e.expireAt = r.expireAt - 1 /\ e.expireAt # Lifetime
  BY LifetimeAssumption

\* A new cache is consistent.
LEMMA EmptyCacheOK ==
    ASSUME NEW Ids, NEW Hs, NEW Infos
    PROVE  CacheOK(EmptyCache, Ids, Hs, Infos)
  BY LifetimeAssumption
     DEF CacheOK, CacheType, QueueMatchesIndices, HandleFindsMessage, EmptyCache, EmptyMap,
         NothingDue, IsMap

\* One field of one slot of the expiration queue is changed: what the queue is.
LEMMA QueueUpdate ==
    ASSUME NEW Ids, NEW q \in [0 .. Lifetime -> [stateReference : SUBSET Ids, msgId : SUBSET Ids]],
           NEW x \in 0 .. Lifetime, NEW S \in SUBSET Ids
    PROVE  LET f == [q EXCEPT ![x].stateReference = S]
           IN  /\ f \in [0 .. Lifetime -> [stateReference : SUBSET Ids, msgId : SUBSET Ids]]
               /\ \A t \in 0 .. Lifetime :
                    /\ f[t].stateReference = IF t = x THEN S ELSE q[t].stateReference
                    /\ f[t].msgId = q[t].msgId
  <1> DEFINE f == [q EXCEPT ![x].stateReference = S]
  <1>1. \A t \in 0 .. Lifetime : f[t] = IF t = x THEN [q[t] EXCEPT !.stateReference = S] ELSE q[t]
    OBVIOUS
  <1>2. \A t \in 0 .. Lifetime :
          /\ f[t] \in [stateReference : SUBSET Ids, msgId : SUBSET Ids]
          /\ f[t].stateReference = IF t = x THEN S ELSE q[t].stateReference
          /\ f[t].msgId = q[t].msgId
    BY <1>1
  <1>3. f \in [0 .. Lifetime -> [stateReference : SUBSET Ids, msgId : SUBSET Ids]]
    BY <1>2
  <1> QED BY <1>2, <1>3

\* pushByStateRef of a fresh state reference.
LEMMA PushByStateRefOK ==
    ASSUME NEW Ids, NEW Hs, NEW Infos, NEW c, CacheOK(c, Ids, Hs, Infos),
           NEW s \in Ids, NEW info \in Infos, ~HasStateRef(c, s)
    PROVE  /\ CacheOK(PushByStateRef(c, s, info), Ids, Hs, Infos)
           /\ DOMAIN PushByStateRef(c, s, info).stateReferenceIndex =
                DOMAIN c.stateReferenceIndex \cup {s}
  <1> DEFINE e == PushByStateRef(c, s, info)
             entry == [info |-> info, expireAt |-> Lifetime]
             S == c.queue[Lifetime].stateReference \cup {s}
  <1>0. /\ c.queue \in [0 .. Lifetime -> [stateReference : SUBSET Ids, msgId : SUBSET Ids]]
        /\ Lifetime \in 0 .. Lifetime
    BY LifetimeAssumption DEF CacheOK, CacheType
  <1>1. /\ DOMAIN e = DOMAIN c
        /\ e.msgIdIndex = c.msgIdIndex
        /\ e.sendPduHandleIdx = c.sendPduHandleIdx
        /\ e.stateReferenceIndex = Put(c.stateReferenceIndex, s, entry)
        /\ e.queue = [c.queue EXCEPT ![Lifetime].stateReference = S]
    BY <1>0 DEF PushByStateRef, CacheOK, CacheType
  <1> HIDE DEF e
  <1>2. S \in SUBSET Ids
    BY <1>0
  <1> HIDE DEF S
  <1>3. /\ e.queue \in [0 .. Lifetime -> [stateReference : SUBSET Ids, msgId : SUBSET Ids]]
        /\ \A t \in 0 .. Lifetime :
             /\ e.queue[t].stateReference = IF t = Lifetime THEN S ELSE c.queue[t].stateReference
             /\ e.queue[t].msgId = c.queue[t].msgId
    BY <1>0, <1>1, <1>2, QueueUpdate
  <1>4. IsMap(e.stateReferenceIndex, Ids, [info : Infos, expireAt : 0 .. Lifetime])
    BY <1>0, <1>1 DEF CacheOK, CacheType, IsMap, Put
  <1>5. CacheType(e, Ids, Hs, Infos)
    BY <1>1, <1>3, <1>4 DEF CacheOK, CacheType
  <1>6. /\ DOMAIN e.stateReferenceIndex = DOMAIN c.stateReferenceIndex \cup {s}
        /\ e.stateReferenceIndex[s].expireAt = Lifetime
        /\ \A x \in DOMAIN c.stateReferenceIndex :
             e.stateReferenceIndex[x] = c.stateReferenceIndex[x]
    BY <1>1 DEF Put, HasStateRef
  <1>7. QueueMatchesIndices(e)
    <2> SUFFICES ASSUME NEW t \in 0 .. Lifetime
                 PROVE  /\ e.queue[t].msgId =
                             {k \in DOMAIN e.msgIdIndex : e.msgIdIndex[k].expireAt = t}
                        /\ e.queue[t].stateReference =
                             {x \in DOMAIN e.stateReferenceIndex :
                                e.stateReferenceIndex[x].expireAt = t}
      BY DEF QueueMatchesIndices
    <2>1. \A u \in 0 .. Lifetime :
            /\ c.queue[u].msgId = {k \in DOMAIN c.msgIdIndex : c.msgIdIndex[k].expireAt = u}
            /\ c.queue[u].stateReference =
                 {x \in DOMAIN c.stateReferenceIndex : c.stateReferenceIndex[x].expireAt = u}
      BY DEF CacheOK, QueueMatchesIndices
    <2>2. e.queue[t].msgId = {k \in DOMAIN e.msgIdIndex : e.msgIdIndex[k].expireAt = t}
      BY <1>1, <1>3, <2>1
    <2>3. CASE t = Lifetime
      <3>1. e.queue[t].stateReference =
              {x \in DOMAIN c.stateReferenceIndex : c.stateReferenceIndex[x].expireAt = t} \cup {s}
        BY <1>0, <1>3, <2>1, <2>3 DEF S
      <3> QED BY <1>6, <2>2, <2>3, <3>1
    <2>4. CASE t # Lifetime
      <3>1. e.queue[t].stateReference =
              {x \in DOMAIN c.stateReferenceIndex : c.stateReferenceIndex[x].expireAt = t}
        BY <1>3, <2>1, <2>4
      <3>2. ~HasStateRef(c, s)
        OBVIOUS
      <3> QED BY <1>6, <2>2, <2>4, <3>1, <3>2 DEF HasStateRef
    <2> QED BY <2>3, <2>4
  <1>8. HandleFindsMessage(e)
    BY <1>1 DEF CacheOK, HandleFindsMessage
  <1> QED BY <1>5, <1>6, <1>7, <1>8 DEF CacheOK, e

\* popByStateRef of a known state reference.
LEMMA PopByStateRefOK ==
    ASSUME NEW Ids, NEW Hs, NEW Infos, NEW c, CacheOK(c, Ids, Hs, Infos),
           NEW s, HasStateRef(c, s)
    PROVE  /\ CacheOK(PopByStateRef(c, s), Ids, Hs, Infos)
           /\ DOMAIN PopByStateRef(c, s).stateReferenceIndex = DOMAIN c.stateReferenceIndex \ {s}
  <1> DEFINE e == PopByStateRef(c, s)
             x == c.stateReferenceIndex[s].expireAt
             S == c.queue[x].stateReference \ {s}
  <1>0. /\ c.queue \in [0 .. Lifetime -> [stateReference : SUBSET Ids, msgId : SUBSET Ids]]
        /\ x \in 0 .. Lifetime
    BY DEF CacheOK, CacheType, IsMap, HasStateRef
  <1>1. /\ DOMAIN e = DOMAIN c
        /\ e.msgIdIndex = c.msgIdIndex
        /\ e.sendPduHandleIdx = c.sendPduHandleIdx
        /\ e.stateReferenceIndex = Without(c.stateReferenceIndex, {s})
        /\ e.queue = [c.queue EXCEPT ![x].stateReference = S]
    BY <1>0 DEF PopByStateRef, CacheOK, CacheType
  <1>2. S \in SUBSET Ids
    BY <1>0
  <1>3. /\ S = {k \in DOMAIN c.stateReferenceIndex \ {s} : c.stateReferenceIndex[k].expireAt = x}
        /\ HasStateRef(c, s)
    BY <1>0 DEF CacheOK, QueueMatchesIndices
  <1>4. x = c.stateReferenceIndex[s].expireAt
    OBVIOUS
  <1> HIDE DEF e, S, x
  <1>5. /\ e.queue \in [0 .. Lifetime -> [stateReference : SUBSET Ids, msgId : SUBSET Ids]]
        /\ \A t \in 0 .. Lifetime :
             /\ e.queue[t].stateReference = IF t = x THEN S ELSE c.queue[t].stateReference
             /\ e.queue[t].msgId = c.queue[t].msgId
    <2>1. e.queue = [c.queue EXCEPT ![x].stateReference = S]
      BY <1>1
    <2> DEFINE q == c.queue
               f == [q EXCEPT ![x].stateReference = S]
    <2>2. q \in [0 .. Lifetime -> [stateReference : SUBSET Ids, msgId : SUBSET Ids]]
      BY <1>0
    <2> HIDE DEF q
    <2>3. /\ f \in [0 .. Lifetime -> [stateReference : SUBSET Ids, msgId : SUBSET Ids]]
          /\ \A t \in 0 .. Lifetime :
               /\ f[t].stateReference = IF t = x THEN S ELSE q[t].stateReference
               /\ f[t].msgId = q[t].msgId
      BY <1>0, <1>2, <2>2, QueueUpdate
    <2> QED BY <2>1, <2>3 DEF q
  <1>6. IsMap(e.stateReferenceIndex, Ids, [info : Infos, expireAt : 0 .. Lifetime])
    BY <1>1 DEF CacheOK, CacheType, IsMap, Without
  <1>7. CacheType(e, Ids, Hs, Infos)
    BY <1>1, <1>5, <1>6 DEF CacheOK, CacheType
  <1>8. /\ DOMAIN e.stateReferenceIndex = DOMAIN c.stateReferenceIndex \ {s}
        /\ \A k \in DOMAIN e.stateReferenceIndex :
             e.stateReferenceIndex[k] = c.stateReferenceIndex[k]
    BY <1>1 DEF Without
  <1>9. QueueMatchesIndices(e)
    <2> SUFFICES ASSUME NEW t \in 0 .. Lifetime
                 PROVE  /\ e.queue[t].msgId =
                             {k \in DOMAIN e.msgIdIndex : e.msgIdIndex[k].expireAt = t}
                        /\ e.queue[t].stateReference =
                             {k \in DOMAIN e.stateReferenceIndex :
                                e.stateReferenceIndex[k].expireAt = t}
      BY DEF QueueMatchesIndices
    <2>1. /\ c.queue[t].msgId = {k \in DOMAIN c.msgIdIndex : c.msgIdIndex[k].expireAt = t}
          /\ c.queue[t].stateReference =
               {k \in DOMAIN c.stateReferenceIndex : c.stateReferenceIndex[k].expireAt = t}
      BY DEF CacheOK, QueueMatchesIndices
    <2>2. e.queue[t].msgId = {k \in DOMAIN e.msgIdIndex : e.msgIdIndex[k].expireAt = t}
      BY <1>1, <1>5, <2>1
    <2>3. CASE t = x
      BY <1>3, <1>5, <1>8, <2>2, <2>3
    <2>4. CASE t # x
      BY <1>4, <1>5, <1>8, <2>1, <2>2, <2>4
    <2> QED BY <2>3, <2>4
  <1>10. HandleFindsMessage(e)
    BY <1>1 DEF CacheOK, HandleFindsMessage
  <1> QED BY <1>7, <1>8, <1>9, <1>10 DEF CacheOK, e

\* expireCaches drops the states that are due and keeps the others; no request was sent.
LEMMA ExpireCachesOK ==
    ASSUME NEW Ids, NEW Infos, NEW c, CacheOK(c, Ids, {}, Infos)
    PROVE  LET e == ExpireCaches(c)
           IN  /\ CacheOK(e, Ids, {}, Infos)
               /\ DOMAIN e.stateReferenceIndex \subseteq DOMAIN c.stateReferenceIndex
  <1> DEFINE e == ExpireCaches(c)
             shifted == [t \in 0 .. Lifetime |->
                           IF t < Lifetime THEN c.queue[t + 1] ELSE NothingDue]
             State == [info : Infos, expireAt : 0 .. Lifetime]
  <1>1. /\ DOMAIN e = DOMAIN c
        /\ e.msgIdIndex = Aged(c.msgIdIndex, c.queue[0].msgId)
        /\ e.stateReferenceIndex = Aged(c.stateReferenceIndex, c.queue[0].stateReference)
        /\ e.sendPduHandleIdx = c.sendPduHandleIdx
        /\ e.queue = shifted
    BY DEF ExpireCaches, CacheOK, CacheType
  <1> HIDE DEF e
  <1>2. c.queue[0].stateReference = {s \in DOMAIN c.stateReferenceIndex : c.stateReferenceIndex[s].expireAt = 0}
    BY LifetimeAssumption DEF CacheOK, QueueMatchesIndices
  <1>3. DOMAIN c.msgIdIndex = {} /\ DOMAIN e.msgIdIndex = {}
    BY <1>1 DEF Aged, CacheOK, CacheType, IsMap
  <1>4. /\ DOMAIN e.stateReferenceIndex =
             {s \in DOMAIN c.stateReferenceIndex : c.stateReferenceIndex[s].expireAt # 0}
        /\ \A s \in DOMAIN e.stateReferenceIndex :
             e.stateReferenceIndex[s] = [c.stateReferenceIndex[s] EXCEPT !.expireAt = @ - 1]
        /\ e.stateReferenceIndex = [s \in DOMAIN e.stateReferenceIndex |-> e.stateReferenceIndex[s]]
    BY <1>1, <1>2 DEF Aged
  <1>5. \A s \in DOMAIN e.stateReferenceIndex :
          /\ e.stateReferenceIndex[s] \in State
          /\ e.stateReferenceIndex[s].expireAt = c.stateReferenceIndex[s].expireAt - 1
          /\ e.stateReferenceIndex[s].expireAt # Lifetime
    <2> TAKE s \in DOMAIN e.stateReferenceIndex
    <2>1. c.stateReferenceIndex[s] \in State /\ c.stateReferenceIndex[s].expireAt # 0
      BY <1>4 DEF CacheOK, CacheType, IsMap
    <2>2. e.stateReferenceIndex[s] = [c.stateReferenceIndex[s] EXCEPT !.expireAt = @ - 1]
      BY <1>4
    <2> QED BY <2>1, <2>2, AgedState
  <1>6. CacheType(e, Ids, {}, Infos)
    <2>1. IsMap(e.msgIdIndex, Ids, [sendPduHandle : {}, info : Infos, expireAt : 0 .. Lifetime])
      BY <1>1, <1>3 DEF Aged, IsMap
    <2>2. IsMap(e.stateReferenceIndex, Ids, State)
      <3>1. DOMAIN e.stateReferenceIndex \subseteq Ids
        BY <1>4 DEF CacheOK, CacheType, IsMap
      <3> HIDE DEF State
      <3> QED BY <1>4, <1>5, <3>1 DEF IsMap
    <2>3. e.queue \in [0 .. Lifetime -> [stateReference : SUBSET Ids, msgId : SUBSET Ids]]
      BY <1>1, LifetimeAssumption DEF CacheOK, CacheType, NothingDue
    <2> QED BY <1>1, <2>1, <2>2, <2>3 DEF CacheOK, CacheType
  <1>7. QueueMatchesIndices(e)
    <2> SUFFICES ASSUME NEW t \in 0 .. Lifetime
                 PROVE  /\ e.queue[t].msgId = {}
                        /\ e.queue[t].stateReference =
                             {s \in DOMAIN e.stateReferenceIndex :
                                e.stateReferenceIndex[s].expireAt = t}
      BY <1>3 DEF QueueMatchesIndices
    <2>1. \A s \in DOMAIN c.stateReferenceIndex : c.stateReferenceIndex[s].expireAt \in 0 .. Lifetime
      BY DEF CacheOK, CacheType, IsMap
    <2>2. CASE t < Lifetime
      <3>1. t + 1 \in 0 .. Lifetime /\ e.queue[t] = c.queue[t + 1]
        BY <1>1, <2>2, LifetimeAssumption
      <3>2. /\ c.queue[t + 1].msgId = {}
            /\ c.queue[t + 1].stateReference =
                 {s \in DOMAIN c.stateReferenceIndex : c.stateReferenceIndex[s].expireAt = t + 1}
        BY <1>3, <3>1 DEF CacheOK, QueueMatchesIndices
      <3>3. {s \in DOMAIN c.stateReferenceIndex : c.stateReferenceIndex[s].expireAt = t + 1} =
              {s \in DOMAIN e.stateReferenceIndex : e.stateReferenceIndex[s].expireAt = t}
        BY <1>4, <1>5, <2>1
      <3> QED BY <3>1, <3>2, <3>3
    <2>3. CASE t = Lifetime
      <3>1. e.queue[t] = NothingDue
        BY <1>1, <2>3, LifetimeAssumption
      <3> QED BY <1>5, <2>3, <3>1 DEF NothingDue
    <2> QED BY <2>2, <2>3, LifetimeAssumption
  <1>8. HandleFindsMessage(e)
    BY <1>3 DEF HandleFindsMessage
  <1>9. DOMAIN e.stateReferenceIndex \subseteq DOMAIN c.stateReferenceIndex
    BY <1>4
  <1> QED BY <1>6, <1>7, <1>8, <1>9 DEF CacheOK, e

-----------------------------------------------------------------------------
(* The invariant.                                                          *)

\* Nothing is remembered of a request that has not arrived: pushByStateRef
\* meets no duplicate.
Fresh ==
    \A r \in Requests : stage[r] = "new" =>
        r \notin DOMAIN mp.stateReferenceIndex \cup pendingReqs \cup DOMAIN transportInfo

\* Only closeDispatcher cancels tasks.
CancelledByClose == \A r \in Requests : stage[r] \in {"cancelled", "stillborn"} => closes > 0

\* A task that waits has its own requester in its own context.
PointIsOwn == \A r \in Requests : stage[r] = "waiting" => execpoint[r] = From[r]

IInv ==
    /\ TypeOK /\ CacheOK(mp, Requests, {}, Requesters)
    /\ AnswerableHasSecurity /\ IsFiniteSet(Live) /\ JobsCountTasks
    /\ PendingIsServed /\ TransportInfoIsLive
    /\ Fresh /\ CancelledByClose /\ PointIsOwn /\ OwnIdentity

-----------------------------------------------------------------------------
(* What the operations shared by the actions do.                           *)

LEMMA InitIInv == Init => IInv
  <1> SUFFICES ASSUME Init PROVE IInv
    OBVIOUS
  <1>1. CacheOK(mp, Requests, {}, Requesters)
    BY EmptyCacheOK DEF Init
  <1>2. DOMAIN mp.stateReferenceIndex = {}
    BY DEF Init, EmptyCache, EmptyMap
  <1>3. Live = {}
    BY DEF Init, Live
  <1>4. IsFiniteSet(Live) /\ jobs = Cardinality(Live)
    BY <1>3, FS_EmptySet DEF Init
  <1>5. TypeOK
    BY <1>1, ResponderAssumption DEF Init, TypeOK, CacheOK, IsMap, EmptyMap
  <1> QED
    BY <1>1, <1>2, <1>4, <1>5
       DEF Init, IInv, AnswerableHasSecurity, JobsCountTasks, PendingIsServed, TransportInfoIsLive,
           Fresh, CancelledByClose, PointIsOwn, OwnIdentity, EmptyMap

\* A task more, and one less.
LEMMA LiveEnters ==
    ASSUME TypeOK, IsFiniteSet(Live), JobsCountTasks, NEW r \in Requests, stage[r] = "new",
           stage' = [stage EXCEPT ![r] = "deferred"], jobs' = jobs + 1
    PROVE  Live' = Live \cup {r} /\ IsFiniteSet(Live') /\ JobsCountTasks'
  <1>1. Live' = Live \cup {r} /\ r \notin Live
    BY DEF Live, TypeOK
  <1>2. IsFiniteSet(Live') /\ Cardinality(Live') = Cardinality(Live) + 1
    BY <1>1, FS_AddElement
  <1> QED BY <1>1, <1>2 DEF JobsCountTasks

LEMMA LiveLeaves ==
    ASSUME TypeOK, IsFiniteSet(Live), JobsCountTasks, NEW r \in Live,
           stage' = [stage EXCEPT ![r] = "over"], jobs' = jobs - 1
    PROVE  Live' = Live \ {r} /\ IsFiniteSet(Live') /\ JobsCountTasks'
  <1>1. Live' = Live \ {r}
    BY DEF Live, TypeOK
  <1>2. IsFiniteSet(Live') /\ Cardinality(Live') = Cardinality(Live) - 1
    BY <1>1, FS_RemoveElement
  <1> QED BY <1>1, <1>2 DEF JobsCountTasks

\* A request that is over at once was never a task's.
LEMMA LiveStays ==
    ASSUME TypeOK, IsFiniteSet(Live), JobsCountTasks, NEW r \in Requests, stage[r] = "new",
           stage' = [stage EXCEPT ![r] = "over"], jobs' = jobs
    PROVE  Live' = Live /\ IsFiniteSet(Live') /\ JobsCountTasks'
  <1>1. Live' = Live
    BY DEF Live, TypeOK
  <1> QED BY <1>1 DEF JobsCountTasks

\* The caches after prepareDataElements of a request that has just come.
LEMMA RememberedOK ==
    ASSUME IInv, NEW r \in Requests, stage[r] = "new"
    PROVE  LET m == Remembered(r).mp
               s == Remembered(r).security
           IN  /\ CacheOK(m, Requests, {}, Requesters)
               /\ DOMAIN m.stateReferenceIndex = DOMAIN mp.stateReferenceIndex \cup {r}
               /\ s = security \cup {r} /\ s \subseteq Requests
  <1>1. ~HasStateRef(mp, r)
    BY DEF IInv, Fresh, HasStateRef
  <1>2. From[r] \in Requesters
    BY ResponderAssumption
  <1>3. /\ Remembered(r).mp = PushByStateRef(mp, r, From[r])
        /\ Remembered(r).security = security \cup {r}
    BY DEF Remembered
  <1>4. /\ CacheOK(PushByStateRef(mp, r, From[r]), Requests, {}, Requesters)
        /\ DOMAIN PushByStateRef(mp, r, From[r]).stateReferenceIndex =
             DOMAIN mp.stateReferenceIndex \cup {r}
    BY <1>1, <1>2, PushByStateRefOK DEF IInv
  <1> QED BY <1>3, <1>4 DEF IInv, TypeOK

\* returnResponsePdu takes nothing but what is remembered of r, and leaves its
\* community where its state reference is left.
LEMMA ReturnEffect ==
    ASSUME NEW r, NEW report, NEW m, NEW s, NEW verdict,
           CacheOK(m, Requests, {}, Requesters),
           DOMAIN m.stateReferenceIndex \subseteq s, s \subseteq Requests,
           ReturnResponsePdu(r, report, m, s, verdict)
    PROVE  /\ CacheOK(mp', Requests, {}, Requesters)
           /\ DOMAIN mp'.stateReferenceIndex \subseteq DOMAIN m.stateReferenceIndex
           /\ DOMAIN mp'.stateReferenceIndex \subseteq security' /\ security' \subseteq Requests
  <1>1. CASE mp' = m /\ security' = s
    BY <1>1
  <1>2. CASE /\ HasStateRef(m, r) /\ mp' = PopByStateRef(m, r)
             /\ security' = s \/ security' = s \ {r}
    BY <1>2, PopByStateRefOK
  <1> QED BY <1>1, <1>2 DEF ReturnResponsePdu

\* r's operation has ended: nothing is remembered that m and p did not hold, what
\* can be answered has its community, and r is pending only after an exception.
EndOf(r, m, p) ==
    /\ CacheOK(mp', Requests, {}, Requesters)
    /\ DOMAIN mp'.stateReferenceIndex \subseteq DOMAIN m.stateReferenceIndex
    /\ DOMAIN mp'.stateReferenceIndex \subseteq security' /\ security' \subseteq Requests
    /\ pendingReqs' \subseteq p
    /\ \E x \in {"answered", "errorStatus", "dropped", "raised"} :
         /\ result' = [result EXCEPT ![r] = x]
         /\ r \in pendingReqs' => x = "raised"

\* ... and so does the end of an operation, which also forgets that it is pending
\* unless an exception goes out.
LEMMA EndEffect ==
    ASSUME NEW r \in Requests, NEW how, NEW m, NEW s, NEW p,
           CacheOK(m, Requests, {}, Requesters),
           DOMAIN m.stateReferenceIndex \subseteq s, s \subseteq Requests,
           EndOperation(r, how, m, s, p)
    PROVE  EndOf(r, m, p)
  <1>1. CASE /\ mp' = m /\ security' = s
             /\ \/ pendingReqs' = p /\ result' = [result EXCEPT ![r] = "raised"]
                \/ pendingReqs' = p \ {r} /\ result' = [result EXCEPT ![r] = "dropped"]
    BY <1>1 DEF EndOf
  <1>2. ASSUME NEW verdict \in {"sent", "swallowed", "raised"},
               ReturnResponsePdu(r, FALSE, m, s, verdict),
               pendingReqs' = p \ {r},
               result' = [result EXCEPT ![r] = IF verdict = "sent" THEN "answered" ELSE "dropped"]
        PROVE  EndOf(r, m, p)
    <2> DEFINE x == IF verdict = "sent" THEN "answered" ELSE "dropped"
    <2>1. x \in {"answered", "errorStatus", "dropped", "raised"}
      OBVIOUS
    <2> QED BY <1>2, <2>1, ReturnEffect DEF EndOf
  <1>3. ASSUME NEW verdict \in {"sent", "swallowed", "raised"},
               ReturnResponsePdu(r, how = "report", m, s, verdict),
               pendingReqs' = IF verdict = "raised" THEN p ELSE p \ {r},
               result' = [result EXCEPT ![r] = CASE verdict = "sent" -> "errorStatus"
                                                 [] verdict = "raised" -> "raised"
                                                 [] OTHER -> "dropped"]
        PROVE  EndOf(r, m, p)
    <2> DEFINE x == CASE verdict = "sent" -> "errorStatus"
                      [] verdict = "raised" -> "raised"
                      [] OTHER -> "dropped"
    <2>1. /\ x \in {"answered", "errorStatus", "dropped", "raised"}
          /\ verdict = "raised" => x = "raised"
      OBVIOUS
    <2>2. result' = [result EXCEPT ![r] = x] /\ (r \in pendingReqs' => x = "raised")
      BY <1>3, <2>1
    <2> QED BY <1>3, <2>1, <2>2, ReturnEffect DEF EndOf
  <1> QED BY <1>1, <1>2, <1>3 DEF EndOperation

-----------------------------------------------------------------------------
(* One lemma per action: it keeps the invariant.                           *)

LEMMA ReceiveUnhandledKeeps ==
    ASSUME IInv, NEW r \in Requests, ReceiveUnhandled(r) PROVE IInv'
  <1> USE DEF ReceiveUnhandled, points, engine
  <1>1. /\ CacheOK(Remembered(r).mp, Requests, {}, Requesters)
        /\ DOMAIN Remembered(r).mp.stateReferenceIndex = DOMAIN mp.stateReferenceIndex \cup {r}
        /\ Remembered(r).security = security \cup {r} /\ Remembered(r).security \subseteq Requests
    BY RememberedOK
  <1>2. DOMAIN Remembered(r).mp.stateReferenceIndex \subseteq Remembered(r).security
    BY <1>1 DEF IInv, AnswerableHasSecurity
  <1>3. /\ CacheOK(mp', Requests, {}, Requesters)
        /\ DOMAIN mp'.stateReferenceIndex \subseteq DOMAIN mp.stateReferenceIndex \cup {r}
        /\ DOMAIN mp'.stateReferenceIndex \subseteq security' /\ security' \subseteq Requests
    BY <1>1, <1>2, ReturnEffect
  <1>4. Live' = Live /\ IsFiniteSet(Live') /\ JobsCountTasks'
    BY LiveStays DEF IInv
  <1>5. TypeOK'
    BY <1>3 DEF IInv, TypeOK, CacheOK
  <1>6. r \notin pendingReqs /\ r \notin DOMAIN transportInfo
    BY DEF IInv, Fresh
  <1>7. PendingIsServed' /\ TransportInfoIsLive'
    BY <1>4, <1>6 DEF IInv, TypeOK, PendingIsServed, TransportInfoIsLive, IsMap
  <1>8. Fresh' /\ CancelledByClose' /\ PointIsOwn' /\ OwnIdentity'
    BY <1>3 DEF IInv, TypeOK, Fresh, CancelledByClose, PointIsOwn, OwnIdentity
  <1> QED BY <1>3, <1>4, <1>5, <1>7, <1>8 DEF IInv, AnswerableHasSecurity

LEMMA ReceiveServedKeeps ==
    ASSUME IInv, NEW r \in Requests, ReceiveServed(r) PROVE IInv'
  <1> USE DEF ReceiveServed, engine
  <1> DEFINE m == Remembered(r).mp
             s == Remembered(r).security
  <1>1. /\ CacheOK(m, Requests, {}, Requesters)
        /\ DOMAIN m.stateReferenceIndex = DOMAIN mp.stateReferenceIndex \cup {r}
        /\ s = security \cup {r} /\ s \subseteq Requests
    BY RememberedOK
  <1>2. DOMAIN m.stateReferenceIndex \subseteq s
    BY <1>1 DEF IInv, AnswerableHasSecurity
  <1>3. PICK how \in Outcomes : EndOperation(r, how, m, s, pendingReqs \cup {r})
    OBVIOUS
  <1>4. EndOf(r, m, pendingReqs \cup {r})
    BY <1>1, <1>2, <1>3, EndEffect
  <1>5. PICK x \in {"answered", "errorStatus", "dropped", "raised"} :
          result' = [result EXCEPT ![r] = x] /\ (r \in pendingReqs' => x = "raised")
    BY <1>4 DEF EndOf
  <1>6. Live' = Live /\ IsFiniteSet(Live') /\ JobsCountTasks'
    BY LiveStays DEF IInv
  <1>7. TypeOK'
    <2>1. result' \in [Requests -> {"none", "answered", "errorStatus", "dropped", "raised"}]
      BY <1>5 DEF IInv, TypeOK
    <2>2. From[r] \in Requesters
      BY ResponderAssumption
    <2>3. consulted' \in [Requests -> SUBSET (Requesters \cup {Nobody})]
      BY <2>2 DEF IInv, TypeOK
    <2>4. pendingReqs' \subseteq Requests /\ security' \subseteq Requests
      BY <1>4 DEF IInv, TypeOK, EndOf
    <2>5. CacheType(mp', Requests, {}, Requesters)
      BY <1>4 DEF EndOf, CacheOK
    <2>6. stage' \in [Requests -> {"new", "deferred", "waiting", "cancelled", "stillborn", "over"}]
      BY DEF IInv, TypeOK
    <2> QED BY <2>1, <2>3, <2>4, <2>5, <2>6 DEF IInv, TypeOK
  <1>8. r \notin DOMAIN transportInfo
    BY DEF IInv, Fresh
  <1>9. PendingIsServed' /\ TransportInfoIsLive'
    BY <1>4, <1>5, <1>6, <1>8 DEF IInv, TypeOK, PendingIsServed, TransportInfoIsLive, IsMap, EndOf
  <1>10. Fresh' /\ CancelledByClose' /\ PointIsOwn' /\ OwnIdentity'
    BY <1>1, <1>4 DEF IInv, TypeOK, Fresh, CancelledByClose, PointIsOwn, OwnIdentity, EndOf
  <1> QED BY <1>4, <1>6, <1>7, <1>9, <1>10 DEF IInv, AnswerableHasSecurity, EndOf

LEMMA ReceiveDeferredKeeps ==
    ASSUME IInv, NEW r \in Requests, ReceiveDeferred(r) PROVE IInv'
  <1> USE DEF ReceiveDeferred, points, engine
  <1>1. /\ CacheOK(mp', Requests, {}, Requesters)
        /\ DOMAIN mp'.stateReferenceIndex = DOMAIN mp.stateReferenceIndex \cup {r}
        /\ security' = security \cup {r} /\ security' \subseteq Requests
    BY RememberedOK
  <1>2. Live' = Live \cup {r} /\ IsFiniteSet(Live') /\ JobsCountTasks'
    BY LiveEnters DEF IInv
  <1>3. /\ DOMAIN transportInfo' = DOMAIN transportInfo \cup {r}
        /\ IsMap(transportInfo', Requests, Requesters)
    BY ResponderAssumption DEF IInv, TypeOK, Put, IsMap
  <1>4. TypeOK'
    BY <1>1, <1>3 DEF IInv, TypeOK, CacheOK
  <1>5. PendingIsServed' /\ TransportInfoIsLive'
    BY <1>2, <1>3 DEF IInv, TypeOK, PendingIsServed, TransportInfoIsLive
  <1>6. Fresh' /\ CancelledByClose' /\ PointIsOwn' /\ OwnIdentity'
    BY <1>1, <1>3 DEF IInv, TypeOK, Fresh, CancelledByClose, PointIsOwn, OwnIdentity
  <1> QED BY <1>1, <1>2, <1>4, <1>5, <1>6 DEF IInv, AnswerableHasSecurity

LEMMA ReceiveAbandonedKeeps ==
    ASSUME IInv, NEW r \in Requests, ReceiveAbandoned(r) PROVE IInv'
  <1> USE DEF ReceiveAbandoned, points, engine
  <1>1. /\ CacheOK(mp', Requests, {}, Requesters)
        /\ DOMAIN mp'.stateReferenceIndex = DOMAIN mp.stateReferenceIndex \cup {r}
        /\ security' = security \cup {r} /\ security' \subseteq Requests
    BY RememberedOK
  <1>2. Live' = Live /\ IsFiniteSet(Live') /\ JobsCountTasks'
    BY LiveStays DEF IInv
  <1>3. TypeOK'
    BY <1>1 DEF IInv, TypeOK, CacheOK
  <1>4. r \notin DOMAIN transportInfo
    BY DEF IInv, Fresh
  <1>5. PendingIsServed' /\ TransportInfoIsLive'
    BY <1>2, <1>4 DEF IInv, TypeOK, PendingIsServed, TransportInfoIsLive, IsMap
  <1>6. Fresh' /\ CancelledByClose' /\ PointIsOwn' /\ OwnIdentity'
    BY <1>1 DEF IInv, TypeOK, Fresh, CancelledByClose, PointIsOwn, OwnIdentity
  <1> QED BY <1>1, <1>2, <1>3, <1>5, <1>6 DEF IInv, AnswerableHasSecurity

LEMMA StartTaskKeeps ==
    ASSUME IInv, NEW r \in Requests, StartTask(r) PROVE IInv'
  <1> USE DEF StartTask, ContextOf, caches, engine
  <1>1. Live' = Live
    BY DEF Live, IInv, TypeOK
  <1>2. IsFiniteSet(Live') /\ JobsCountTasks'
    BY <1>1 DEF IInv, JobsCountTasks
  <1>3. r \in Live
    BY DEF Live
  <1>4. /\ DOMAIN transportInfo' = DOMAIN transportInfo \cup {r}
        /\ IsMap(transportInfo', Requests, Requesters)
    BY ResponderAssumption DEF IInv, TypeOK, Put, IsMap
  <1>5. TypeOK'
    BY <1>4, ResponderAssumption DEF IInv, TypeOK
  <1>6. PendingIsServed' /\ TransportInfoIsLive'
    BY <1>1, <1>3, <1>4 DEF IInv, PendingIsServed, TransportInfoIsLive
  <1>7. Fresh' /\ CancelledByClose' /\ PointIsOwn' /\ OwnIdentity'
    BY <1>4 DEF IInv, TypeOK, Fresh, CancelledByClose, PointIsOwn, OwnIdentity
  <1> QED BY <1>2, <1>5, <1>6, <1>7 DEF IInv, AnswerableHasSecurity

LEMMA ResumeTaskKeeps ==
    ASSUME IInv, NEW r \in Requests, ResumeTask(r) PROVE IInv'
  <1> USE DEF ResumeTask, ContextOf, served, caches, engine
  <1>1. Live' = Live
    BY DEF Live
  <1>2. execpoint[r] = From[r] /\ From[r] \in Requesters
    BY ResponderAssumption DEF IInv, PointIsOwn
  <1>3. TypeOK' /\ OwnIdentity'
    BY <1>2 DEF IInv, TypeOK, OwnIdentity
  <1>4. /\ CacheOK(mp, Requests, {}, Requesters)' /\ AnswerableHasSecurity' /\ IsFiniteSet(Live')
        /\ JobsCountTasks' /\ PendingIsServed' /\ TransportInfoIsLive'
    BY <1>1 DEF IInv, AnswerableHasSecurity, JobsCountTasks, PendingIsServed, TransportInfoIsLive
  <1>5. Fresh' /\ CancelledByClose' /\ PointIsOwn'
    BY DEF IInv, Fresh, CancelledByClose, PointIsOwn
  <1> QED BY <1>3, <1>4, <1>5 DEF IInv

\* The end of a task, however it ends.
LEMMA UnwindKeeps ==
    ASSUME IInv, NEW r \in Live, Unwind(r), EndOf(r, mp, pendingReqs) PROVE IInv'
  <1> USE DEF Unwind, ContextOf, engine
  <1>1. r \in Requests
    BY DEF Live
  <1>2. PICK x \in {"answered", "errorStatus", "dropped", "raised"} :
          result' = [result EXCEPT ![r] = x] /\ (r \in pendingReqs' => x = "raised")
    BY DEF EndOf
  <1>3. Live' = Live \ {r} /\ IsFiniteSet(Live') /\ JobsCountTasks'
    BY LiveLeaves DEF IInv
  <1>4. /\ DOMAIN transportInfo' = DOMAIN transportInfo \ {r}
        /\ IsMap(transportInfo', Requests, Requesters)
    BY DEF IInv, TypeOK, Without, IsMap
  <1>5. TypeOK'
    <2>1. result' \in [Requests -> {"none", "answered", "errorStatus", "dropped", "raised"}]
      BY <1>1, <1>2 DEF IInv, TypeOK
    <2>2. CacheType(mp', Requests, {}, Requesters)
      BY DEF EndOf, CacheOK
    <2>3. pendingReqs' \subseteq Requests /\ security' \subseteq Requests
      BY DEF IInv, TypeOK, EndOf
    <2>4. execpoint' \in [Requests \cup {Loop} -> Requesters \cup {Nobody}]
      BY <1>1 DEF IInv, TypeOK
    <2>5. /\ stage' \in [Requests -> {"new", "deferred", "waiting", "cancelled", "stillborn", "over"}]
          /\ jobs' \in Int
      BY <1>1 DEF IInv, TypeOK
    <2> QED BY <1>4, <2>1, <2>2, <2>3, <2>4, <2>5 DEF IInv, TypeOK
  <1>6. PendingIsServed' /\ TransportInfoIsLive'
    BY <1>1, <1>2, <1>3, <1>4 DEF IInv, TypeOK, PendingIsServed, TransportInfoIsLive, IsMap, EndOf
  <1>7. Fresh' /\ CancelledByClose' /\ PointIsOwn' /\ OwnIdentity'
    BY <1>1, <1>4 DEF IInv, TypeOK, Fresh, CancelledByClose, PointIsOwn, OwnIdentity, EndOf
  <1> QED BY <1>3, <1>5, <1>6, <1>7 DEF IInv, AnswerableHasSecurity, EndOf

LEMMA EndTaskKeeps ==
    ASSUME IInv, NEW r \in Requests, EndTask(r) PROVE IInv'
  <1>1. PICK how \in Outcomes : EndOperation(r, how, mp, security, pendingReqs)
    BY DEF EndTask
  <1>2. EndOf(r, mp, pendingReqs)
    BY <1>1, EndEffect DEF IInv, TypeOK, AnswerableHasSecurity
  <1>3. r \in Live /\ Unwind(r)
    BY DEF EndTask, Live
  <1> QED BY <1>2, <1>3, UnwindKeeps

LEMMA CancelWaitingKeeps ==
    ASSUME IInv, NEW r \in Requests, CancelWaiting(r) PROVE IInv'
  <1>1. EndOf(r, mp, pendingReqs)
    BY DEF CancelWaiting, caches, EndOf, IInv, TypeOK, AnswerableHasSecurity
  <1>2. r \in Live /\ Unwind(r)
    BY DEF CancelWaiting, Live
  <1> QED BY <1>1, <1>2, UnwindKeeps

LEMMA CancelUnstartedKeeps ==
    ASSUME IInv, NEW r \in Requests, CancelUnstarted(r) PROVE IInv'
  <1> USE DEF CancelUnstarted, caches, points, engine
  <1>1. r \in Live /\ closes > 0
    BY DEF Live, IInv, CancelledByClose
  <1>2. Live' = Live \ {r} /\ IsFiniteSet(Live') /\ JobsCountTasks'
    BY <1>1, LiveLeaves DEF IInv
  <1>3. TypeOK'
    BY DEF IInv, TypeOK
  <1>4. PendingIsServed' /\ TransportInfoIsLive'
    BY <1>1, <1>2 DEF IInv, TypeOK, PendingIsServed, TransportInfoIsLive, IsMap
  <1>5. Fresh' /\ CancelledByClose' /\ PointIsOwn' /\ OwnIdentity'
    BY DEF IInv, TypeOK, Fresh, CancelledByClose, PointIsOwn, OwnIdentity
  <1> QED BY <1>2, <1>3, <1>4, <1>5 DEF IInv, AnswerableHasSecurity

LEMMA TickKeeps == ASSUME IInv, Tick PROVE IInv'
  <1> USE DEF Tick, served, points, engine
  <1>1. /\ CacheOK(mp', Requests, {}, Requesters)
        /\ DOMAIN mp'.stateReferenceIndex \subseteq DOMAIN mp.stateReferenceIndex
    BY ExpireCachesOK DEF IInv
  <1>2. Live' = Live
    BY DEF Live
  <1>3. TypeOK'
    BY <1>1 DEF IInv, TypeOK, CacheOK
  <1>4. Fresh' /\ CancelledByClose' /\ PointIsOwn' /\ OwnIdentity'
    BY <1>1 DEF IInv, Fresh, CancelledByClose, PointIsOwn, OwnIdentity
  <1>5. PendingIsServed' /\ TransportInfoIsLive' /\ JobsCountTasks'
    BY <1>2 DEF IInv, PendingIsServed, TransportInfoIsLive, JobsCountTasks
  <1> QED BY <1>1, <1>2, <1>3, <1>4, <1>5 DEF IInv, AnswerableHasSecurity

LEMMA CloseResponderKeeps == ASSUME IInv, CloseResponder PROVE IInv'
  <1> USE DEF CloseResponder, served, points
  <1>1. Live' = Live
    BY DEF Live
  <1>2. TypeOK'
    BY DEF IInv, TypeOK
  <1>3. Fresh' /\ CancelledByClose' /\ PointIsOwn' /\ OwnIdentity'
    BY DEF IInv, Fresh, CancelledByClose, PointIsOwn, OwnIdentity
  <1>4. PendingIsServed' /\ TransportInfoIsLive' /\ JobsCountTasks'
    BY <1>1 DEF IInv, PendingIsServed, TransportInfoIsLive, JobsCountTasks
  <1> QED BY <1>1, <1>2, <1>3, <1>4 DEF IInv, AnswerableHasSecurity

LEMMA CloseDispatcherKeeps == ASSUME IInv, CloseDispatcher PROVE IInv'
  <1> USE DEF CloseDispatcher, caches, points
  <1>1. /\ stage' \in [Requests -> {"new", "deferred", "waiting", "cancelled", "stillborn", "over"}]
        /\ \A r \in Requests :
             /\ stage'[r] = "new" => stage[r] = "new"
             /\ stage'[r] # "waiting"
    BY DEF IInv, TypeOK
  <1>2. Live' = Live
    <2>1. \A r \in Requests :
            stage'[r] \in {"deferred", "waiting", "cancelled", "stillborn"} <=>
            stage[r] \in {"deferred", "waiting", "cancelled", "stillborn"}
      BY DEF IInv, TypeOK
    <2> QED BY <2>1 DEF Live
  <1>3. closes' \in Nat /\ closes' > 0
    BY DEF IInv, TypeOK
  <1>4. TypeOK'
    BY <1>1, <1>3 DEF IInv, TypeOK
  <1>5. Fresh' /\ CancelledByClose' /\ PointIsOwn' /\ OwnIdentity'
    BY <1>1, <1>3 DEF IInv, Fresh, CancelledByClose, PointIsOwn, OwnIdentity
  <1>6. PendingIsServed' /\ TransportInfoIsLive' /\ JobsCountTasks'
    BY <1>2, <1>3 DEF IInv, PendingIsServed, TransportInfoIsLive, JobsCountTasks
  <1> QED BY <1>2, <1>4, <1>5, <1>6 DEF IInv, AnswerableHasSecurity

LEMMA OpenDispatcherKeeps == ASSUME IInv, OpenDispatcher PROVE IInv'
  <1> USE DEF OpenDispatcher, served, caches, points
  <1>1. Live' = Live
    BY DEF Live
  <1>2. TypeOK'
    BY DEF IInv, TypeOK
  <1> QED BY <1>1, <1>2 DEF IInv, AnswerableHasSecurity, JobsCountTasks, PendingIsServed, TransportInfoIsLive,
                            Fresh, CancelledByClose, PointIsOwn, OwnIdentity

LEMMA StutterKeeps == ASSUME IInv, UNCHANGED vars PROVE IInv'
  <1> USE DEF vars, served, caches, points, engine
  <1>1. Live' = Live
    BY DEF Live
  <1>2. TypeOK'
    BY DEF IInv, TypeOK
  <1> QED BY <1>1, <1>2 DEF IInv, AnswerableHasSecurity, JobsCountTasks, PendingIsServed, TransportInfoIsLive,
                            Fresh, CancelledByClose, PointIsOwn, OwnIdentity

-----------------------------------------------------------------------------
\* The invariant is inductive: every step of the engine keeps it.
THEOREM InductiveInvariant == Spec => []IInv
  <1>1. Init => IInv
    BY InitIInv
  <1>2. IInv /\ [Next]_vars => IInv'
    <2> SUFFICES ASSUME IInv, [Next]_vars PROVE IInv'
      OBVIOUS
    <2>1. ASSUME NEW r \in Requests, Receive(r) PROVE IInv'
      BY <2>1, ReceiveUnhandledKeeps, ReceiveServedKeeps, ReceiveDeferredKeeps, ReceiveAbandonedKeeps
         DEF Receive
    <2>2. ASSUME NEW r \in Requests, RunTask(r) PROVE IInv'
      BY <2>2, StartTaskKeeps, EndTaskKeeps, CancelWaitingKeeps, CancelUnstartedKeeps DEF RunTask
    <2>3. ASSUME NEW r \in Requests, ResumeTask(r) PROVE IInv'
      BY <2>3, ResumeTaskKeeps
    <2> QED BY <2>1, <2>2, <2>3, TickKeeps, CloseResponderKeeps, CloseDispatcherKeeps, OpenDispatcherKeeps,
               StutterKeeps DEF Next
  <1> QED BY <1>1, <1>2, PTL DEF Spec

\* The caches of message processing, security and responder, the transport
\* information and the count of jobs agree about every request, in every state of
\* any agent (prepareDataElements, returnResponsePdu, __completeRequest).
THEOREM CachesAlwaysAgree == Spec => []CachesAgree
  <1>1. IInv => CachesAgree
    BY DEF IInv, CachesAgree
  <1> QED BY <1>1, InductiveInvariant, PTL

\* However many requests are served at once, access control takes each to be from
\* the requester that sent it (__verifyAccess).
THEOREM IdentitiesDoNotMix == Spec => []OwnIdentity
  <1>1. IInv => OwnIdentity
    BY DEF IInv
  <1> QED BY <1>1, InductiveInvariant, PTL
=============================================================================
