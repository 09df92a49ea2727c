------------------------- MODULE RequestCycleProofs -------------------------
(***************************************************************************)
(* RequestCycle keeps its books straight, and is a RequestService, for any *)
(* number of requests, peers, retries and ticks.                           *)
(*                                                                         *)
(* The inductive invariant is Books, a predicate on the values of the      *)
(* caches rather than on the variables: an action is a composition of      *)
(* dropping a request, drawing identifiers and adding a request, and each  *)
(* of these has a lemma that it keeps Books.                               *)
(***************************************************************************)
EXTENDS RequestCycle, FiniteSetTheorems, TLAPS

-----------------------------------------------------------------------------
(* The operations of the message cache on requests sent.                   *)

\* An entry one tick later.
LEMMA AgedEntry ==
    ASSUME NEW Hs, NEW Infos,
           NEW r \in [sendPduHandle : Hs, info : Infos, expireAt : 0 .. Lifetime],
           r.expireAt # 0
    PROVE  LET e == [r EXCEPT !.expireAt = @ - 1]
           IN  /\ e \in [sendPduHandle : Hs, info : Infos, expireAt : 0 .. Lifetime]
               /\ e.expireAt = r.expireAt - 1 /\ e.expireAt # Lifetime
               /\ e.sendPduHandle = r.sendPduHandle
  BY LifetimeAssumption

LEMMA AgedState ==
    ASSUME NEW Infos, NEW r \in [info : Infos, expireAt : 0 .. Lifetime], r.expireAt # 0
    PROVE  LET e == [r EXCEPT !.expireAt = @ - 1]
           IN  /\ e \in [info : Infos, expireAt : 0 .. Lifetime]
               /\ e.expireAt = r.expireAt - 1 /\ e.expireAt # Lifetime
  BY LifetimeAssumption

\* A new cache is consistent.
LEMMA EmptyCacheOK ==
    ASSUME NEW Ids, NEW Hs, NEW Infos
    PROVE  CacheOK(EmptyCache, Ids, Hs, Infos)
  BY LifetimeAssumption
     DEF CacheOK, CacheType, QueueMatchesIndices, HandleFindsMessage, EmptyCache, EmptyMap,
         NothingDue, IsMap

\* pushByMsgId of a fresh message ID under a handle no known message has.
LEMMA PushByMsgIdOK ==
    ASSUME NEW Ids, NEW Hs, NEW Infos, NEW c, CacheOK(c, Ids, Hs, Infos),
           NEW m \in Ids, NEW hd \in Hs, NEW info \in Infos,
           ~HasMsgId(c, m),
           \A k \in DOMAIN c.msgIdIndex : c.msgIdIndex[k].sendPduHandle # hd
    PROVE  CacheOK(PushByMsgId(c, m, hd, info), Ids, Hs, Infos)
  <1> DEFINE e == PushByMsgId(c, m, hd, info)
             entry == [sendPduHandle |-> hd, info |-> info, expireAt |-> Lifetime]
  <1>1. /\ DOMAIN e = DOMAIN c
        /\ e.msgIdIndex = Put(c.msgIdIndex, m, entry)
        /\ e.sendPduHandleIdx = Put(c.sendPduHandleIdx, hd, m)
        /\ e.stateReferenceIndex = c.stateReferenceIndex
        /\ e.queue = [c.queue EXCEPT ![Lifetime].msgId = @ \cup {m}]
    BY DEF PushByMsgId, CacheOK, CacheType
  <1>2. CacheType(e, Ids, Hs, Infos)
    <2>1. IsMap(e.msgIdIndex, Ids, [sendPduHandle : Hs, info : Infos, expireAt : 0 .. Lifetime])
      BY <1>1, LifetimeAssumption DEF CacheOK, CacheType, IsMap, Put
    <2>2. IsMap(e.sendPduHandleIdx, Hs, Ids)
      BY <1>1 DEF CacheOK, CacheType, IsMap, Put
    <2>3. e.queue \in [0 .. Lifetime -> [stateReference : SUBSET Ids, msgId : SUBSET Ids]]
      <3> DEFINE q == c.queue
      <3>1. /\ q \in [0 .. Lifetime -> [stateReference : SUBSET Ids, msgId : SUBSET Ids]]
            /\ e.queue = [q EXCEPT ![Lifetime].msgId = @ \cup {m}]
        BY <1>1 DEF CacheOK, CacheType
      <3>2. Lifetime \in 0 .. Lifetime
        BY LifetimeAssumption
      <3> HIDE DEF q, e
      <3> QED BY <3>1, <3>2
    <2> QED BY <1>1, <2>1, <2>2, <2>3 DEF CacheOK, CacheType
  <1>3. QueueMatchesIndices(e)
    BY <1>1, LifetimeAssumption
       DEF CacheOK, CacheType, QueueMatchesIndices, Put, HasMsgId, IsMap
  <1>4. HandleFindsMessage(e)
    BY <1>1 DEF CacheOK, CacheType, HandleFindsMessage, Put, IsMap
  <1> QED BY <1>2, <1>3, <1>4 DEF CacheOK

\* popByMsgId of a known message.
LEMMA PopByMsgIdOK ==
    ASSUME NEW Ids, NEW Hs, NEW Infos, NEW c, CacheOK(c, Ids, Hs, Infos),
           NEW m, HasMsgId(c, m)
    PROVE  /\ CacheOK(PopByMsgId(c, m), Ids, Hs, Infos)
           /\ PopByMsgId(c, m).msgIdIndex = Without(c.msgIdIndex, {m})
           /\ PopByMsgId(c, m).sendPduHandleIdx =
                Without(c.sendPduHandleIdx, {c.msgIdIndex[m].sendPduHandle})
  <1> DEFINE e == PopByMsgId(c, m)
             entry == c.msgIdIndex[m]
  <1>1. /\ DOMAIN e = DOMAIN c
        /\ e.msgIdIndex = Without(c.msgIdIndex, {m})
        /\ e.sendPduHandleIdx = Without(c.sendPduHandleIdx, {entry.sendPduHandle})
        /\ e.stateReferenceIndex = c.stateReferenceIndex
        /\ e.queue = [c.queue EXCEPT ![entry.expireAt].msgId = @ \ {m}]
    BY DEF PopByMsgId, CacheOK, CacheType
  <1> HIDE DEF e
  <1>2. entry \in [sendPduHandle : Hs, info : Infos, expireAt : 0 .. Lifetime]
    BY DEF CacheOK, CacheType, IsMap, HasMsgId
  <1>q. /\ e.queue \in [0 .. Lifetime -> [stateReference : SUBSET Ids, msgId : SUBSET Ids]]
        /\ \A t \in 0 .. Lifetime :
             /\ e.queue[t].msgId = IF t = entry.expireAt THEN c.queue[t].msgId \ {m}
                                                        ELSE c.queue[t].msgId
             /\ e.queue[t].stateReference = c.queue[t].stateReference
    <2>1. c.queue \in [0 .. Lifetime -> [stateReference : SUBSET Ids, msgId : SUBSET Ids]]
      BY DEF CacheOK, CacheType
    <2>2. entry.expireAt \in 0 .. Lifetime
      BY <1>2
    <2>3. e.queue = [c.queue EXCEPT ![entry.expireAt].msgId = @ \ {m}]
      BY <1>1
    <2> DEFINE q == c.queue
               x == entry.expireAt
    <2>4. q \in [0 .. Lifetime -> [stateReference : SUBSET Ids, msgId : SUBSET Ids]]
      BY <2>1
    <2>5. x \in 0 .. Lifetime
      BY <2>2
    <2> HIDE DEF q, x
    <2> DEFINE f == [q EXCEPT ![x].msgId = @ \ {m}]
    <2>6. \A t \in 0 .. Lifetime :
            f[t] = IF t = x THEN [q[t] EXCEPT !.msgId = @ \ {m}] ELSE q[t]
      BY <2>4, <2>5
    <2>7. \A t \in 0 .. Lifetime :
            /\ f[t] \in [stateReference : SUBSET Ids, msgId : SUBSET Ids]
            /\ f[t].msgId = IF t = x THEN q[t].msgId \ {m} ELSE q[t].msgId
            /\ f[t].stateReference = q[t].stateReference
      BY <2>4, <2>6
    <2>8. f \in [0 .. Lifetime -> [stateReference : SUBSET Ids, msgId : SUBSET Ids]]
      BY <2>4, <2>7
    <2>9. e.queue = f
      BY <2>3 DEF q, x
    <2> HIDE DEF f
    <2> QED BY <2>7, <2>8, <2>9 DEF q, x
  <1>3. CacheType(e, Ids, Hs, Infos)
    <2>1. IsMap(e.msgIdIndex, Ids, [sendPduHandle : Hs, info : Infos, expireAt : 0 .. Lifetime])
      BY <1>1 DEF CacheOK, CacheType, IsMap, Without
    <2>2. IsMap(e.sendPduHandleIdx, Hs, Ids)
      BY <1>1 DEF CacheOK, CacheType, IsMap, Without
    <2> QED BY <1>1, <1>q, <2>1, <2>2 DEF CacheOK, CacheType
  <1>4. QueueMatchesIndices(e)
    <2> SUFFICES ASSUME NEW t \in 0 .. Lifetime
                 PROVE  /\ e.queue[t].msgId =
                             {k \in DOMAIN e.msgIdIndex : e.msgIdIndex[k].expireAt = t}
                        /\ e.queue[t].stateReference =
                             {s \in DOMAIN e.stateReferenceIndex :
                                e.stateReferenceIndex[s].expireAt = t}
      BY DEF QueueMatchesIndices
    <2>1. /\ c.queue[t].msgId = {k \in DOMAIN c.msgIdIndex : c.msgIdIndex[k].expireAt = t}
          /\ c.queue[t].stateReference =
               {s \in DOMAIN c.stateReferenceIndex : c.stateReferenceIndex[s].expireAt = t}
      BY DEF CacheOK, QueueMatchesIndices
    <2>2. /\ DOMAIN e.msgIdIndex = DOMAIN c.msgIdIndex \ {m}
          /\ \A k \in DOMAIN c.msgIdIndex \ {m} : e.msgIdIndex[k] = c.msgIdIndex[k]
      BY <1>1 DEF Without
    <2>3. e.queue[t].msgId = {k \in DOMAIN e.msgIdIndex : e.msgIdIndex[k].expireAt = t}
      <3>1. e.queue[t].msgId = IF t = entry.expireAt THEN c.queue[t].msgId \ {m}
                                                     ELSE c.queue[t].msgId
        BY <1>q
      <3>2. m \in DOMAIN c.msgIdIndex
        BY DEF HasMsgId
      <3>3. CASE t = entry.expireAt
        BY <2>1, <2>2, <3>1, <3>3
      <3>4. CASE t # entry.expireAt
        BY <2>1, <2>2, <3>1, <3>2, <3>4
      <3> QED BY <3>3, <3>4
    <2>4. e.queue[t].stateReference = c.queue[t].stateReference
      BY <1>q
    <2>5. e.stateReferenceIndex = c.stateReferenceIndex
      BY <1>1
    <2> QED BY <2>1, <2>3, <2>4, <2>5
  <1>5. HandleFindsMessage(e)
    BY <1>1 DEF CacheOK, CacheType, HandleFindsMessage, Without, HasMsgId, IsMap
  <1> QED BY <1>1, <1>3, <1>4, <1>5 DEF CacheOK, e

\* popBySendPduHandle, whatever the handle: afterwards no known message has it,
\* and nothing but messages of that handle was dropped.
LEMMA PopBySendPduHandleOK ==
    ASSUME NEW Ids, NEW Hs, NEW Infos, NEW c, CacheOK(c, Ids, Hs, Infos), NEW hd
    PROVE  LET e == PopBySendPduHandle(c, hd)
           IN  /\ CacheOK(e, Ids, Hs, Infos)
               /\ DOMAIN e.msgIdIndex \subseteq DOMAIN c.msgIdIndex
               /\ DOMAIN e.sendPduHandleIdx \subseteq DOMAIN c.sendPduHandleIdx
               /\ \A k \in DOMAIN e.msgIdIndex :
                    /\ e.msgIdIndex[k] = c.msgIdIndex[k]
                    /\ e.msgIdIndex[k].sendPduHandle # hd
  <1> DEFINE m == c.sendPduHandleIdx[hd]
  <1>1. CASE hd \in DOMAIN c.sendPduHandleIdx /\ HasMsgId(c, m)
    <2>1. PopBySendPduHandle(c, hd) = PopByMsgId(c, m)
      BY <1>1 DEF PopBySendPduHandle
    <2>2. /\ CacheOK(PopByMsgId(c, m), Ids, Hs, Infos)
          /\ PopByMsgId(c, m).msgIdIndex = Without(c.msgIdIndex, {m})
          /\ PopByMsgId(c, m).sendPduHandleIdx =
               Without(c.sendPduHandleIdx, {c.msgIdIndex[m].sendPduHandle})
      <3>1. CacheOK(PopByMsgId(c, m), Ids, Hs, Infos)
        BY <1>1, PopByMsgIdOK
      <3> QED BY <3>1 DEF PopByMsgId, CacheOK, CacheType
    <2>3. \A k \in DOMAIN c.msgIdIndex \ {m} : c.msgIdIndex[k].sendPduHandle # hd
      BY DEF CacheOK, HandleFindsMessage
    <2>4. /\ DOMAIN Without(c.msgIdIndex, {m}) = DOMAIN c.msgIdIndex \ {m}
          /\ \A k \in DOMAIN c.msgIdIndex \ {m} : Without(c.msgIdIndex, {m})[k] = c.msgIdIndex[k]
          /\ DOMAIN PopByMsgId(c, m).sendPduHandleIdx \subseteq DOMAIN c.sendPduHandleIdx
      BY <2>2 DEF Without
    <2> QED BY <2>1, <2>2, <2>3, <2>4
  <1>2. CASE ~(hd \in DOMAIN c.sendPduHandleIdx /\ HasMsgId(c, m))
    <2>1. PopBySendPduHandle(c, hd) = c
      BY <1>2 DEF PopBySendPduHandle
    <2>2. \A k \in DOMAIN c.msgIdIndex : c.msgIdIndex[k].sendPduHandle # hd
      BY <1>2 DEF CacheOK, HandleFindsMessage, HasMsgId
    <2> QED BY <2>1, <2>2
  <1> QED BY <1>1, <1>2

\* expireCaches drops what is due and keeps everything else under its handle.
LEMMA ExpireCachesOK ==
    ASSUME NEW Ids, NEW Hs, NEW Infos, NEW c, CacheOK(c, Ids, Hs, Infos)
    PROVE  LET e == ExpireCaches(c)
           IN  /\ CacheOK(e, Ids, Hs, Infos)
               /\ DOMAIN e.msgIdIndex \subseteq DOMAIN c.msgIdIndex
               /\ e.sendPduHandleIdx = c.sendPduHandleIdx
               /\ DOMAIN e.stateReferenceIndex \subseteq DOMAIN c.stateReferenceIndex
               /\ \A k \in DOMAIN e.msgIdIndex :
                    e.msgIdIndex[k].sendPduHandle = c.msgIdIndex[k].sendPduHandle
  <1> DEFINE e == ExpireCaches(c)
             shifted == [t \in 0 .. Lifetime |->
                           IF t < Lifetime THEN c.queue[t + 1] ELSE NothingDue]
  <1>1. /\ DOMAIN e = DOMAIN c
        /\ e.msgIdIndex = Aged(c.msgIdIndex, c.queue[0].msgId)
        /\ e.stateReferenceIndex = Aged(c.stateReferenceIndex, c.queue[0].stateReference)
        /\ e.sendPduHandleIdx = c.sendPduHandleIdx
        /\ e.queue = shifted
    BY DEF ExpireCaches, CacheOK, CacheType
  <1> HIDE DEF e
  <1>2. /\ c.queue[0].msgId = {k \in DOMAIN c.msgIdIndex : c.msgIdIndex[k].expireAt = 0}
        /\ c.queue[0].stateReference =
             {s \in DOMAIN c.stateReferenceIndex : c.stateReferenceIndex[s].expireAt = 0}
    BY LifetimeAssumption DEF CacheOK, QueueMatchesIndices
  <1> DEFINE Msg == [sendPduHandle : Hs, info : Infos, expireAt : 0 .. Lifetime]
             State == [info : Infos, expireAt : 0 .. Lifetime]
  <1>3. /\ DOMAIN e.msgIdIndex = {k \in DOMAIN c.msgIdIndex : c.msgIdIndex[k].expireAt # 0}
        /\ \A k \in DOMAIN e.msgIdIndex :
             e.msgIdIndex[k] = [c.msgIdIndex[k] EXCEPT !.expireAt = @ - 1]
        /\ e.msgIdIndex = [k \in DOMAIN e.msgIdIndex |-> e.msgIdIndex[k]]
    BY <1>1, <1>2 DEF Aged
  <1>4. /\ DOMAIN e.stateReferenceIndex =
             {s \in DOMAIN c.stateReferenceIndex : c.stateReferenceIndex[s].expireAt # 0}
        /\ \A s \in DOMAIN e.stateReferenceIndex :
             e.stateReferenceIndex[s] = [c.stateReferenceIndex[s] EXCEPT !.expireAt = @ - 1]
        /\ e.stateReferenceIndex = [s \in DOMAIN e.stateReferenceIndex |-> e.stateReferenceIndex[s]]
    BY <1>1, <1>2 DEF Aged
  <1>5. \A k \in DOMAIN e.msgIdIndex :
          /\ e.msgIdIndex[k] \in Msg
          /\ e.msgIdIndex[k].expireAt = c.msgIdIndex[k].expireAt - 1
          /\ e.msgIdIndex[k].expireAt # Lifetime
          /\ e.msgIdIndex[k].sendPduHandle = c.msgIdIndex[k].sendPduHandle
    <2> TAKE k \in DOMAIN e.msgIdIndex
    <2>1. c.msgIdIndex[k] \in Msg /\ c.msgIdIndex[k].expireAt # 0
      BY <1>3 DEF CacheOK, CacheType, IsMap
    <2>2. e.msgIdIndex[k] = [c.msgIdIndex[k] EXCEPT !.expireAt = @ - 1]
      BY <1>3
    <2> QED BY <2>1, <2>2, AgedEntry
  <1>6. \A s \in DOMAIN e.stateReferenceIndex :
          /\ e.stateReferenceIndex[s] \in State
          /\ e.stateReferenceIndex[s].expireAt = c.stateReferenceIndex[s].expireAt - 1
          /\ e.stateReferenceIndex[s].expireAt # Lifetime
    <2> TAKE s \in DOMAIN e.stateReferenceIndex
    <2>1. c.stateReferenceIndex[s] \in State /\ c.stateReferenceIndex[s].expireAt # 0
      BY <1>4 DEF CacheOK, CacheType, IsMap
    <2>2. e.stateReferenceIndex[s] = [c.stateReferenceIndex[s] EXCEPT !.expireAt = @ - 1]
      BY <1>4
    <2> QED BY <2>1, <2>2, AgedState
  <1>7. CacheType(e, Ids, Hs, Infos)
    <2>1. IsMap(e.msgIdIndex, Ids, Msg)
      <3>1. DOMAIN e.msgIdIndex \subseteq Ids
        BY <1>3 DEF CacheOK, CacheType, IsMap
      <3> HIDE DEF Msg
      <3> QED BY <1>3, <1>5, <3>1 DEF IsMap
    <2>2. IsMap(e.stateReferenceIndex, Ids, State)
      <3>1. DOMAIN e.stateReferenceIndex \subseteq Ids
        BY <1>4 DEF CacheOK, CacheType, IsMap
      <3> HIDE DEF State
      <3> QED BY <1>4, <1>6, <3>1 DEF IsMap
    <2>3. e.queue \in [0 .. Lifetime -> [stateReference : SUBSET Ids, msgId : SUBSET Ids]]
      BY <1>1, LifetimeAssumption DEF CacheOK, CacheType, NothingDue
    <2> QED BY <1>1, <2>1, <2>2, <2>3 DEF CacheOK, CacheType
  <1>8. QueueMatchesIndices(e)
    <2> SUFFICES ASSUME NEW t \in 0 .. Lifetime
                 PROVE  /\ e.queue[t].msgId =
                             {k \in DOMAIN e.msgIdIndex : e.msgIdIndex[k].expireAt = t}
                        /\ e.queue[t].stateReference =
                             {s \in DOMAIN e.stateReferenceIndex :
                                e.stateReferenceIndex[s].expireAt = t}
      BY DEF QueueMatchesIndices
    <2>1. /\ \A k \in DOMAIN c.msgIdIndex : c.msgIdIndex[k].expireAt \in 0 .. Lifetime
          /\ \A s \in DOMAIN c.stateReferenceIndex :
               c.stateReferenceIndex[s].expireAt \in 0 .. Lifetime
      BY DEF CacheOK, CacheType, IsMap
    <2>2. CASE t < Lifetime
      <3>1. t + 1 \in 0 .. Lifetime /\ e.queue[t] = c.queue[t + 1]
        BY <1>1, <2>2, LifetimeAssumption
      <3>2. /\ c.queue[t + 1].msgId =
                 {k \in DOMAIN c.msgIdIndex : c.msgIdIndex[k].expireAt = t + 1}
            /\ c.queue[t + 1].stateReference =
                 {s \in DOMAIN c.stateReferenceIndex : c.stateReferenceIndex[s].expireAt = t + 1}
        BY <3>1 DEF CacheOK, QueueMatchesIndices
      <3>3. {k \in DOMAIN c.msgIdIndex : c.msgIdIndex[k].expireAt = t + 1} =
              {k \in DOMAIN e.msgIdIndex : e.msgIdIndex[k].expireAt = t}
        BY <1>3, <1>5, <2>1
      <3>4. {s \in DOMAIN c.stateReferenceIndex : c.stateReferenceIndex[s].expireAt = t + 1} =
              {s \in DOMAIN e.stateReferenceIndex : e.stateReferenceIndex[s].expireAt = t}
        BY <1>4, <1>6, <2>1
      <3> QED BY <3>1, <3>2, <3>3, <3>4
    <2>3. CASE t = Lifetime
      <3>1. e.queue[t] = NothingDue
        BY <1>1, <2>3, LifetimeAssumption
      <3> QED BY <1>5, <1>6, <2>3, <3>1 DEF NothingDue
    <2> QED BY <2>2, <2>3, LifetimeAssumption
  <1>9. HandleFindsMessage(e)
    BY <1>1, <1>3, <1>5 DEF CacheOK, HandleFindsMessage
  <1>10. /\ CacheOK(e, Ids, Hs, Infos)
         /\ DOMAIN e.msgIdIndex \subseteq DOMAIN c.msgIdIndex
         /\ e.sendPduHandleIdx = c.sendPduHandleIdx
         /\ DOMAIN e.stateReferenceIndex \subseteq DOMAIN c.stateReferenceIndex
    BY <1>1, <1>3, <1>4, <1>7, <1>8, <1>9 DEF CacheOK
  <1> QED BY <1>5, <1>10 DEF e

-----------------------------------------------------------------------------
(* The invariant.                                                          *)

\* The dispatcher's cache c, the message processing cache m, the generator's
\* pending requests p and jobs j, after n draws, with messages w on the wire.
Books(c, m, p, j, n, w) ==
    /\ IsMap(c, Nat, CachedRequest) /\ IsMap(p, Nat, PendingRequest)
    /\ CacheOK(m, Nat, Nat, Requests)
    /\ n \in Nat /\ w \subseteq SentMessage
    /\ DOMAIN p = DOMAIN c
    /\ \A h \in DOMAIN c : c[h].req = p[h].req
    /\ \A g, h \in DOMAIN c : c[g].req = c[h].req => g = h
    /\ IsFiniteSet(DOMAIN c) /\ j = Cardinality(DOMAIN c)
    /\ \A h \in DOMAIN c : h < FirstHandle + n
    /\ \A h \in DOMAIN m.sendPduHandleIdx : h < FirstHandle + n
    /\ \A k \in DOMAIN m.msgIdIndex : k < FirstMsgId + n
    /\ \A msg \in w : msg.msgID < FirstMsgId + n
    /\ \A msg \in w :
         msg.msgID \in DOMAIN m.msgIdIndex =>
             /\ m.msgIdIndex[msg.msgID].sendPduHandle \in DOMAIN c
             /\ c[m.msgIdIndex[msg.msgID].sendPduHandle].req = msg.req

\* e holds no message that m does not, and holds them under the same handles.
SubCache(e, m) ==
    /\ CacheOK(e, Nat, Nat, Requests)
    /\ DOMAIN e.msgIdIndex \subseteq DOMAIN m.msgIdIndex
    /\ DOMAIN e.sendPduHandleIdx \subseteq DOMAIN m.sendPduHandleIdx
    /\ \A k \in DOMAIN e.msgIdIndex :
         e.msgIdIndex[k].sendPduHandle = m.msgIdIndex[k].sendPduHandle

\* Forgetting messages keeps the books.
LEMMA DropMessages ==
    ASSUME NEW c, NEW m, NEW p, NEW j, NEW n, NEW w, Books(c, m, p, j, n, w),
           NEW e, SubCache(e, m)
    PROVE  Books(c, e, p, j, n, w)
  BY DEF Books, SubCache

\* Forgetting a request, and every message under its handle, keeps the books.
LEMMA DropRequest ==
    ASSUME NEW c, NEW m, NEW p, NEW j, NEW n, NEW w, Books(c, m, p, j, n, w),
           NEW h \in DOMAIN c, NEW e, SubCache(e, m),
           \A k \in DOMAIN e.msgIdIndex : e.msgIdIndex[k].sendPduHandle # h
    PROVE  Books(Without(c, {h}), e, Without(p, {h}), j - 1, n, w)
  <1> DEFINE d == Without(c, {h})
             q == Without(p, {h})
  <1>1. /\ DOMAIN d = DOMAIN c \ {h} /\ DOMAIN q = DOMAIN p \ {h}
        /\ \A g \in DOMAIN d : d[g] = c[g]
        /\ \A g \in DOMAIN q : q[g] = p[g]
    BY DEF Without
  <1>2. IsMap(d, Nat, CachedRequest) /\ IsMap(q, Nat, PendingRequest)
    BY DEF Books, IsMap, Without
  <1>3. IsFiniteSet(DOMAIN d) /\ Cardinality(DOMAIN d) = j - 1
    BY <1>1, FS_RemoveElement DEF Books
  <1> HIDE DEF d, q
  <1>4. Books(d, e, q, j - 1, n, w)
    BY <1>1, <1>2, <1>3 DEF Books, SubCache
  <1> QED BY <1>4 DEF d, q

\* Drawing identifiers that are not used keeps the books.
LEMMA DrawOnly ==
    ASSUME NEW c, NEW m, NEW p, NEW j, NEW n, NEW w, Books(c, m, p, j, n, w)
    PROVE  Books(c, m, p, j, n + 1, w)
  <1>1. n \in Nat /\ FirstHandle \in Nat /\ FirstMsgId \in Nat
    BY RequestCycleAssumption DEF Books
  <1>2. \A h \in Nat : h < FirstHandle + n => h < FirstHandle + (n + 1)
    BY <1>1
  <1>3. \A k \in Nat : k < FirstMsgId + n => k < FirstMsgId + (n + 1)
    BY <1>1
  <1>4. /\ \A h \in DOMAIN c : h < FirstHandle + (n + 1)
        /\ \A h \in DOMAIN m.sendPduHandleIdx : h < FirstHandle + (n + 1)
        /\ \A k \in DOMAIN m.msgIdIndex : k < FirstMsgId + (n + 1)
        /\ \A msg \in w : msg.msgID < FirstMsgId + (n + 1)
    BY <1>2, <1>3 DEF Books, IsMap, CacheOK, CacheType, SentMessage
  <1> QED BY <1>1, <1>4 DEF Books

\* What pushByMsgId of the next identifiers leaves.
LEMMA PushNext ==
    ASSUME NEW c, NEW m, NEW p, NEW j, NEW n, NEW w, Books(c, m, p, j, n, w),
           NEW r \in Requests
    PROVE  LET e == PushByMsgId(m, FirstMsgId + n, FirstHandle + n, r)
           IN  /\ CacheOK(e, Nat, Nat, Requests)
               /\ DOMAIN e.msgIdIndex = DOMAIN m.msgIdIndex \cup {FirstMsgId + n}
               /\ DOMAIN e.sendPduHandleIdx = DOMAIN m.sendPduHandleIdx \cup {FirstHandle + n}
               /\ e.msgIdIndex[FirstMsgId + n].sendPduHandle = FirstHandle + n
               /\ \A k \in DOMAIN m.msgIdIndex : e.msgIdIndex[k] = m.msgIdIndex[k]
  <1> DEFINE id == FirstMsgId + n
             hd == FirstHandle + n
             e == PushByMsgId(m, id, hd, r)
  <1>1. id \in Nat /\ hd \in Nat
    BY RequestCycleAssumption DEF Books
  <1>2. id \notin DOMAIN m.msgIdIndex
    <2>1. \A k \in DOMAIN m.msgIdIndex : k \in Nat /\ k < id
      BY DEF Books, CacheOK, CacheType, IsMap
    <2> QED BY <1>1, <2>1
  <1>3. \A k \in DOMAIN m.msgIdIndex : m.msgIdIndex[k].sendPduHandle # hd
    <2>1. \A k \in DOMAIN m.msgIdIndex :
            m.msgIdIndex[k].sendPduHandle \in Nat /\ m.msgIdIndex[k].sendPduHandle < hd
      BY DEF Books, CacheOK, CacheType, IsMap, HandleFindsMessage
    <2> QED BY <1>1, <2>1
  <1> HIDE DEF id, hd
  <1>4. CacheOK(m, Nat, Nat, Requests) /\ ~HasMsgId(m, id)
    BY <1>2 DEF Books, HasMsgId
  <1>5. CacheOK(e, Nat, Nat, Requests)
    BY <1>1, <1>3, <1>4, PushByMsgIdOK
  <1>6. /\ e.msgIdIndex = Put(m.msgIdIndex, id, [sendPduHandle |-> hd, info |-> r,
                                                 expireAt |-> Lifetime])
        /\ e.sendPduHandleIdx = Put(m.sendPduHandleIdx, hd, id)
    BY <1>4 DEF PushByMsgId, CacheOK, CacheType
  <1>7. /\ DOMAIN e.msgIdIndex = DOMAIN m.msgIdIndex \cup {id}
        /\ DOMAIN e.sendPduHandleIdx = DOMAIN m.sendPduHandleIdx \cup {hd}
        /\ e.msgIdIndex[id].sendPduHandle = hd
        /\ \A k \in DOMAIN m.msgIdIndex : e.msgIdIndex[k] = m.msgIdIndex[k]
    BY <1>2, <1>6 DEF Put
  <1> QED BY <1>5, <1>7 DEF id, hd

\* A message prepared and not sent: the books bear it.
LEMMA AddMessage ==
    ASSUME NEW c, NEW m, NEW p, NEW j, NEW n, NEW w, Books(c, m, p, j, n, w),
           NEW r \in Requests
    PROVE  Books(c, PushByMsgId(m, FirstMsgId + n, FirstHandle + n, r), p, j, n + 1, w)
  <1> DEFINE e == PushByMsgId(m, FirstMsgId + n, FirstHandle + n, r)
  <1>1. /\ CacheOK(e, Nat, Nat, Requests)
        /\ DOMAIN e.msgIdIndex = DOMAIN m.msgIdIndex \cup {FirstMsgId + n}
        /\ DOMAIN e.sendPduHandleIdx = DOMAIN m.sendPduHandleIdx \cup {FirstHandle + n}
        /\ \A k \in DOMAIN m.msgIdIndex : e.msgIdIndex[k] = m.msgIdIndex[k]
    BY PushNext
  <1> HIDE DEF e
  <1>2. Books(c, m, p, j, n + 1, w)
    BY DrawOnly
  <1>3. FirstMsgId \in Nat /\ FirstHandle \in Nat /\ n \in Nat
    BY RequestCycleAssumption DEF Books
  <1>4. \A msg \in w : msg.msgID # FirstMsgId + n
    <2>1. \A msg \in w : msg.msgID \in Nat /\ msg.msgID < FirstMsgId + n
      BY DEF Books, SentMessage
    <2> QED BY <1>3, <2>1
  <1>5. /\ \A h \in DOMAIN e.sendPduHandleIdx : h < FirstHandle + (n + 1)
        /\ \A k \in DOMAIN e.msgIdIndex : k < FirstMsgId + (n + 1)
    BY <1>1, <1>2, <1>3 DEF Books
  <1>6. \A msg \in w :
         msg.msgID \in DOMAIN e.msgIdIndex =>
             /\ e.msgIdIndex[msg.msgID].sendPduHandle \in DOMAIN c
             /\ c[e.msgIdIndex[msg.msgID].sendPduHandle].req = msg.req
    BY <1>1, <1>4 DEF Books
  <1>7. Books(c, e, p, j, n + 1, w)
    BY <1>1, <1>2, <1>5, <1>6 DEF Books
  <1> QED BY <1>7 DEF e

\* A request sent: it is in every book, under the identifiers just drawn.
LEMMA AddRequest ==
    ASSUME NEW c, NEW m, NEW p, NEW j, NEW n, NEW w, Books(c, m, p, j, n, w),
           NEW r \in Requests, \A h \in DOMAIN c : c[h].req # r,
           NEW a \in Nat, NEW b \in Nat
    PROVE  Books(Put(c, FirstHandle + n, [req |-> r, timeout |-> Timeout]),
                 PushByMsgId(m, FirstMsgId + n, FirstHandle + n, r),
                 Put(p, FirstHandle + n, [req |-> r, retries |-> a, discoveryRetries |-> b]),
                 j + 1, n + 1, w \cup {[msgID |-> FirstMsgId + n, req |-> r]})
  <1> DEFINE hd == FirstHandle + n
             id == FirstMsgId + n
             e == PushByMsgId(m, id, hd, r)
             d == Put(c, hd, [req |-> r, timeout |-> Timeout])
             q == Put(p, hd, [req |-> r, retries |-> a, discoveryRetries |-> b])
             new == [msgID |-> id, req |-> r]
             v == w \cup {new}
  <1>1. /\ CacheOK(e, Nat, Nat, Requests)
        /\ DOMAIN e.msgIdIndex = DOMAIN m.msgIdIndex \cup {id}
        /\ DOMAIN e.sendPduHandleIdx = DOMAIN m.sendPduHandleIdx \cup {hd}
        /\ e.msgIdIndex[id].sendPduHandle = hd
        /\ \A k \in DOMAIN m.msgIdIndex : e.msgIdIndex[k] = m.msgIdIndex[k]
    BY PushNext
  <1>2. id \in Nat /\ hd \in Nat /\ n \in Nat /\ n + 1 \in Nat
        /\ FirstHandle + (n + 1) = hd + 1 /\ FirstMsgId + (n + 1) = id + 1
    BY RequestCycleAssumption DEF Books
  <1>3. hd \notin DOMAIN c /\ \A msg \in w : msg.msgID # id
    <2>1. /\ \A h \in DOMAIN c : h \in Nat /\ h < hd
          /\ \A msg \in w : msg.msgID \in Nat /\ msg.msgID < id
      BY DEF Books, SentMessage, IsMap
    <2> QED BY <1>2, <2>1
  <1>4. Books(c, m, p, j, n + 1, w)
    BY DrawOnly
  <1>5. /\ DOMAIN d = DOMAIN c \cup {hd} /\ DOMAIN q = DOMAIN c \cup {hd}
        /\ d[hd].req = r /\ q[hd].req = r
        /\ \A h \in DOMAIN c : d[h] = c[h] /\ q[h] = p[h]
    BY <1>3 DEF Put, Books
  <1>6. IsMap(d, Nat, CachedRequest)
    <2>1. [req |-> r, timeout |-> Timeout] \in CachedRequest
      BY RequestCycleAssumption DEF CachedRequest
    <2> QED BY <1>2, <2>1 DEF Books, IsMap, Put
  <1>7. IsMap(q, Nat, PendingRequest)
    <2>1. [req |-> r, retries |-> a, discoveryRetries |-> b] \in PendingRequest
      BY DEF PendingRequest
    <2> QED BY <1>2, <2>1 DEF Books, IsMap, Put
  <1>8. IsFiniteSet(DOMAIN d) /\ j + 1 = Cardinality(DOMAIN d)
    BY <1>3, <1>5, FS_AddElement DEF Books
  <1>9. v \subseteq SentMessage
    BY <1>2 DEF Books, SentMessage
  <1>10. new.msgID = id /\ new.req = r
    OBVIOUS
  <1> HIDE DEF hd, id, e, d, q, new
  <1>11. /\ \A h \in DOMAIN d : h < hd + 1
         /\ \A h \in DOMAIN e.sendPduHandleIdx : h < hd + 1
         /\ \A k \in DOMAIN e.msgIdIndex : k < id + 1
         /\ \A msg \in v : msg.msgID < id + 1
    BY <1>1, <1>2, <1>4, <1>5, <1>10 DEF Books
  <1>12. /\ \A h \in DOMAIN d : d[h].req = q[h].req
         /\ \A g, h \in DOMAIN d : d[g].req = d[h].req => g = h
    BY <1>5 DEF Books
  <1>13. \A msg \in v :
         msg.msgID \in DOMAIN e.msgIdIndex =>
             /\ e.msgIdIndex[msg.msgID].sendPduHandle \in DOMAIN d
             /\ d[e.msgIdIndex[msg.msgID].sendPduHandle].req = msg.req
    <2>1. ASSUME NEW msg \in w, msg.msgID \in DOMAIN e.msgIdIndex
          PROVE  /\ e.msgIdIndex[msg.msgID].sendPduHandle \in DOMAIN d
                 /\ d[e.msgIdIndex[msg.msgID].sendPduHandle].req = msg.req
      BY <1>1, <1>3, <1>5, <2>1 DEF Books
    <2> QED BY <1>1, <1>5, <1>10, <2>1
  <1>14. Books(d, e, q, j + 1, n + 1, v)
    BY <1>1, <1>2, <1>5, <1>6, <1>7, <1>8, <1>9, <1>11, <1>12, <1>13 DEF Books
  <1> QED BY <1>14 DEF hd, id, e, d, q, new
-----------------------------------------------------------------------------
\* What applications were told.
Told ==
    /\ phase \in [Requests -> {"idle", "pending", "refused", "done"}]
    /\ result \in [Requests -> {Service!Nothing, Service!Failure}
                               \cup {Service!AnswerTo(r) : r \in Requests}]

\* A request in the books is one its application waits for.
Waiting == \A h \in DOMAIN cache : phase[cache[h].req] = "pending"

\* A sweep has entries of the cache before it.
Sweeping ==
    /\ sweep \in Sweeps
    /\ sweep.todo \subseteq DOMAIN cache
    /\ sweep.cause = "none" => sweep.todo = {}

Surroundings ==
    /\ timerAlive \in BOOLEAN /\ transports \subseteq Peers
    /\ failures \in Nat /\ outages \in Nat

\* The inductive invariant.
IInv ==
    /\ Books(cache, mp, pendingReqs, jobs, drawn, wire)
    /\ Told /\ Waiting /\ Sweeping /\ Surroundings

\* The books start empty.
LEMMA InitIInv == Init => IInv
  <1> SUFFICES ASSUME Init PROVE IInv
    OBVIOUS
  <1>1. CacheOK(EmptyCache, Nat, Nat, Requests)
    BY EmptyCacheOK
  <1>2. /\ DOMAIN EmptyCache.msgIdIndex = {} /\ DOMAIN EmptyCache.sendPduHandleIdx = {}
    BY DEF EmptyCache, EmptyMap
  <1>3. DOMAIN EmptyMap = {} /\ EmptyMap \in [{} -> CachedRequest]
        /\ EmptyMap \in [{} -> PendingRequest]
    BY DEF EmptyMap
  <1>4. Books(cache, mp, pendingReqs, jobs, drawn, wire)
    BY <1>1, <1>2, <1>3, FS_EmptySet DEF Init, Books, IsMap
  <1>5. Told /\ Waiting /\ Surroundings
    BY <1>3 DEF Init, Told, Waiting, Surroundings
  <1>6. Sweeping
    BY DEF Init, Sweeping, Sweeps, NoSweep
  <1> QED BY <1>4, <1>5, <1>6 DEF IInv

\* A callback completes the request in the service's eyes.
LEMMA CallBackCompletes ==
    ASSUME Told, NEW r \in Requests, phase[r] = "pending",
           NEW res \in {Service!Failure, Service!AnswerTo(r)}, CallBack(r, res)
    PROVE  Told' /\ Service!Next
  <1>1. Told'
    BY DEF Told, CallBack
  <1>2. Service!Complete(r)
    BY DEF Service!Complete, CallBack
  <1> QED BY <1>1, <1>2 DEF Service!Next

\* processResponsePdu with an error, whoever calls it: h and the messages of
\* handle h are gone from the caches c and e it is given.
LEMMA ProcessStatusStep ==
    ASSUME IInv, NEW h \in DOMAIN cache, NEW discovery \in BOOLEAN,
           NEW e, SubCache(e, mp),
           \A k \in DOMAIN e.msgIdIndex : e.msgIdIndex[k].sendPduHandle # h,
           sweep.cause = "none" \/ h \in sweep.todo,
           ProcessStatus(h, discovery, Without(cache, {h}), e), UNCHANGED envVars
    PROVE  IInv' /\ [Service!Next]_(Service!vars)
  <1> DEFINE entry == pendingReqs[h]
             c == Without(cache, {h})
             p == Without(pendingReqs, {h})
             j == jobs - 1
             d == IF discovery THEN entry.discoveryRetries + 1 ELSE 0
             n == IF discovery THEN 0 ELSE entry.retries + 1
             next == [sweep EXCEPT !.todo = @ \ {h}, !.reenter = FALSE]
             stay == [next EXCEPT !.reenter = sweep.cause # "none"]
  <1>1. Books(c, e, p, j, drawn, wire)
    BY DropRequest DEF IInv
  <1>2. entry \in PendingRequest /\ entry.req \in Requests /\ entry.req = cache[h].req
    BY DEF IInv, Books, IsMap, PendingRequest
  <1>3. d \in Nat /\ n \in Nat
    BY <1>2 DEF PendingRequest
  <1>4. phase[entry.req] = "pending"
    BY <1>2 DEF IInv, Waiting
  <1>5. /\ DOMAIN c = DOMAIN cache \ {h} /\ \A g \in DOMAIN c : c[g] = cache[g]
        /\ \A g \in DOMAIN c : c[g].req # entry.req
        /\ \A g \in DOMAIN c : c[g].req \in Requests
    <2>1. DOMAIN c = DOMAIN cache \ {h} /\ \A g \in DOMAIN c : c[g] = cache[g]
      BY DEF Without
    <2>2. \A g \in DOMAIN cache : cache[g].req \in Requests
      BY DEF IInv, Books, IsMap, CachedRequest
    <2> QED BY <1>2, <2>1, <2>2 DEF IInv, Books
  <1>6. /\ next \in Sweeps /\ next.todo = sweep.todo \ {h} /\ next.cause = sweep.cause
        /\ stay \in Sweeps /\ stay.todo = sweep.todo \ {h} /\ stay.cause = sweep.cause
    BY DEF IInv, Sweeping, Sweeps
  <1>7. sweep.todo \subseteq DOMAIN cache /\ (sweep.cause = "none" => sweep.todo = {})
    BY DEF IInv, Sweeping
  <1>8. Service!Failure \in {Service!Failure, Service!AnswerTo(entry.req)}
    OBVIOUS
  <1>9. Surroundings /\ Told
    BY DEF IInv
  <1> HIDE DEF entry, c, p, j, d, n, next, stay
  <1>10. CASE /\ CallBack(entry.req, Service!Failure)
              /\ cache' = c /\ mp' = e /\ pendingReqs' = p /\ jobs' = j
              /\ sweep' = stay
              /\ UNCHANGED <<wire, timerAlive>>
              /\ drawn' \in {drawn, drawn + 1}
    <2>1. Books(c, e, p, j, drawn', wire)
      BY <1>1, <1>10, DrawOnly
    <2>2. Told' /\ Service!Next
      BY <1>2, <1>4, <1>8, <1>9, <1>10, CallBackCompletes
    <2>3. Waiting'
      BY <1>5, <1>9, <1>10 DEF IInv, Waiting, CallBack, Told
    <2>4. Sweeping'
      BY <1>5, <1>6, <1>7, <1>10 DEF Sweeping
    <2>5. Surroundings'
      BY <1>9, <1>10 DEF Surroundings, envVars
    <2> QED BY <1>10, <2>1, <2>2, <2>3, <2>4, <2>5 DEF IInv
  <1>11. CASE /\ SendPdu(entry.req, c, e, p, j, n, d)
              /\ sweep' = next
              /\ UNCHANGED <<appVars, timerAlive>>
    <2>1. Books(cache, mp, pendingReqs, jobs, drawn, wire)'
      BY <1>1, <1>2, <1>3, <1>5, <1>11, AddRequest DEF SendPdu, DrawIds, handle, msgID
    <2>2. /\ cache' = Put(c, handle, [req |-> entry.req, timeout |-> Timeout])
          /\ DOMAIN cache' = DOMAIN c \cup {handle}
          /\ \A g \in DOMAIN cache' : 
               \/ cache'[g].req = entry.req
               \/ g \in DOMAIN c /\ cache'[g] = c[g]
      BY <1>11 DEF SendPdu, Put
    <2>3. Waiting'
      BY <1>4, <1>5, <1>11, <2>2 DEF IInv, Waiting, appVars
    <2>4. Sweeping'
      BY <1>5, <1>6, <1>7, <1>11, <2>2 DEF Sweeping
    <2>5. Surroundings' /\ Told' /\ UNCHANGED Service!vars
      BY <1>9, <1>11 DEF Surroundings, Told, envVars, appVars, Service!vars
    <2> QED BY <2>1, <2>3, <2>4, <2>5 DEF IInv
  <1>12. CASE /\ SendPduUnsent(entry.req, c, e, p, j)
              /\ sweep' = NoSweep
              /\ timerAlive' = (timerAlive /\ sweep.cause # "tick")
              /\ UNCHANGED appVars
    <2>1. Books(cache, mp, pendingReqs, jobs, drawn, wire)'
      BY <1>1, <1>2, <1>12, AddMessage DEF SendPduUnsent, DrawIds, handle, msgID
    <2>2. Waiting'
      BY <1>5, <1>12 DEF IInv, Waiting, appVars, SendPduUnsent
    <2>3. Sweeping'
      BY <1>12 DEF Sweeping, Sweeps, NoSweep
    <2>4. Surroundings' /\ Told' /\ UNCHANGED Service!vars
      BY <1>9, <1>12 DEF Surroundings, Told, envVars, appVars, Service!vars
    <2> QED BY <2>1, <2>2, <2>3, <2>4 DEF IInv
  <1>13. \/ /\ CallBack(entry.req, Service!Failure)
            /\ cache' = c /\ mp' = e /\ pendingReqs' = p /\ jobs' = j
            /\ sweep' = stay
            /\ UNCHANGED <<wire, timerAlive>>
            /\ drawn' \in {drawn, drawn + 1}
         \/ /\ SendPdu(entry.req, c, e, p, j, n, d)
            /\ sweep' = next
            /\ UNCHANGED <<appVars, timerAlive>>
         \/ /\ SendPduUnsent(entry.req, c, e, p, j)
            /\ sweep' = NoSweep
            /\ timerAlive' = (timerAlive /\ sweep.cause # "tick")
            /\ UNCHANGED appVars
    BY DEF ProcessStatus, SendPduRefused, DrawIds, entry, c, p, j, d, n, next, stay
  <1> QED BY <1>10, <1>11, <1>12, <1>13

\* processResponsePdu with a response: res is an error or the answer to the
\* request awaited under h.
LEMMA ProcessAnswerStep ==
    ASSUME IInv, NEW h \in DOMAIN cache, NEW e, SubCache(e, mp),
           \A k \in DOMAIN e.msgIdIndex : e.msgIdIndex[k].sendPduHandle # h,
           sweep.cause = "none",
           NEW res \in {Service!Failure, Service!AnswerTo(cache[h].req)},
           ProcessAnswer(h, Without(cache, {h}), e, res), UNCHANGED envVars
    PROVE  IInv' /\ [Service!Next]_(Service!vars)
  <1> DEFINE r == pendingReqs[h].req
             c == Without(cache, {h})
  <1>1. Books(c, e, Without(pendingReqs, {h}), jobs - 1, drawn, wire)
    BY DropRequest DEF IInv
  <1>2. r \in Requests /\ r = cache[h].req /\ phase[r] = "pending"
    <2>1. pendingReqs[h] \in PendingRequest /\ pendingReqs[h].req = cache[h].req
      BY DEF IInv, Books, IsMap
    <2> QED BY <2>1 DEF PendingRequest, IInv, Waiting
  <1>3. /\ DOMAIN c = DOMAIN cache \ {h} /\ \A g \in DOMAIN c : c[g] = cache[g]
        /\ \A g \in DOMAIN c : c[g].req # r
    <2>1. DOMAIN c = DOMAIN cache \ {h} /\ \A g \in DOMAIN c : c[g] = cache[g]
      BY DEF Without
    <2> QED BY <1>2, <2>1 DEF IInv, Books
  <1>4. \A g \in DOMAIN cache : cache[g].req \in Requests
    BY DEF IInv, Books, IsMap, CachedRequest
  <1> HIDE DEF r, c
  <1>5. /\ CallBack(r, res) /\ cache' = c /\ mp' = e
        /\ pendingReqs' = Without(pendingReqs, {h}) /\ jobs' = jobs - 1
        /\ UNCHANGED <<drawn, wire, sweep, timerAlive>>
    BY DEF ProcessAnswer, r, c
  <1>6. Told' /\ Service!Next
    BY <1>2, <1>5, CallBackCompletes DEF IInv
  <1>7. Waiting'
    BY <1>3, <1>4, <1>5 DEF IInv, Waiting, CallBack, Told
  <1>8. Sweeping' /\ Surroundings'
    BY <1>3, <1>5 DEF IInv, Sweeping, Surroundings, envVars
  <1> QED BY <1>1, <1>5, <1>6, <1>7, <1>8 DEF IInv

-----------------------------------------------------------------------------
\* Messages dropped by their handle.
LEMMA PopHandleSubCache ==
    ASSUME NEW m, CacheOK(m, Nat, Nat, Requests), NEW h
    PROVE  LET e == PopBySendPduHandle(m, h)
           IN  /\ SubCache(e, m)
               /\ \A k \in DOMAIN e.msgIdIndex : e.msgIdIndex[k].sendPduHandle # h
  <1> DEFINE e == PopBySendPduHandle(m, h)
  <1>1. /\ CacheOK(e, Nat, Nat, Requests)
        /\ DOMAIN e.msgIdIndex \subseteq DOMAIN m.msgIdIndex
        /\ DOMAIN e.sendPduHandleIdx \subseteq DOMAIN m.sendPduHandleIdx
        /\ \A k \in DOMAIN e.msgIdIndex :
             /\ e.msgIdIndex[k] = m.msgIdIndex[k]
             /\ e.msgIdIndex[k].sendPduHandle # h
    BY PopBySendPduHandleOK
  <1> HIDE DEF e
  <1>2. SubCache(e, m) /\ \A k \in DOMAIN e.msgIdIndex : e.msgIdIndex[k].sendPduHandle # h
    BY <1>1 DEF SubCache
  <1> QED BY <1>2 DEF e

\* A message dropped by its identifier: no other had its handle.
LEMMA PopMessageSubCache ==
    ASSUME NEW m, CacheOK(m, Nat, Nat, Requests), NEW k, HasMsgId(m, k)
    PROVE  LET e == PopByMsgId(m, k)
           IN  /\ SubCache(e, m)
               /\ \A i \in DOMAIN e.msgIdIndex :
                    e.msgIdIndex[i].sendPduHandle # m.msgIdIndex[k].sendPduHandle
  <1> DEFINE e == PopByMsgId(m, k)
             h == m.msgIdIndex[k].sendPduHandle
  <1>1. CacheOK(e, Nat, Nat, Requests)
    BY PopByMsgIdOK
  <1>2. /\ e.msgIdIndex = Without(m.msgIdIndex, {k})
        /\ e.sendPduHandleIdx = Without(m.sendPduHandleIdx, {h})
    BY DEF PopByMsgId, CacheOK, CacheType
  <1>3. \A i \in DOMAIN m.msgIdIndex \ {k} : m.msgIdIndex[i].sendPduHandle # h
    BY DEF CacheOK, HandleFindsMessage, HasMsgId
  <1> HIDE DEF e, h
  <1>4. SubCache(e, m) /\ \A i \in DOMAIN e.msgIdIndex : e.msgIdIndex[i].sendPduHandle # h
    BY <1>1, <1>2, <1>3 DEF SubCache, Without
  <1> QED BY <1>4 DEF e, h

\* Messages dropped because they are due.
LEMMA ExpireSubCache ==
    ASSUME NEW m, CacheOK(m, Nat, Nat, Requests)
    PROVE  SubCache(ExpireCaches(m), m)
  <1> DEFINE e == ExpireCaches(m)
  <1>1. CacheOK(e, Nat, Nat, Requests) /\ DOMAIN e.msgIdIndex \subseteq DOMAIN m.msgIdIndex
    BY ExpireCachesOK
  <1>2. /\ e.sendPduHandleIdx = m.sendPduHandleIdx
        /\ e.msgIdIndex = Aged(m.msgIdIndex, m.queue[0].msgId)
    BY DEF ExpireCaches, CacheOK, CacheType
  <1> HIDE DEF e
  <1>3. \A k \in DOMAIN e.msgIdIndex :
          e.msgIdIndex[k].sendPduHandle = m.msgIdIndex[k].sendPduHandle
    <2> TAKE k \in DOMAIN e.msgIdIndex
    <2> DEFINE entry == m.msgIdIndex[k]
    <2>1. e.msgIdIndex[k] = [entry EXCEPT !.expireAt = @ - 1]
      BY <1>2 DEF Aged
    <2>2. entry \in [sendPduHandle : Nat, info : Requests, expireAt : 0 .. Lifetime]
      BY <1>1 DEF CacheOK, CacheType, IsMap
    <2> HIDE DEF entry
    <2>3. e.msgIdIndex[k].sendPduHandle = entry.sendPduHandle
      BY <2>1, <2>2
    <2> QED BY <2>3 DEF entry
  <1>4. SubCache(e, m)
    BY <1>1, <1>2, <1>3 DEF SubCache
  <1> QED BY <1>4 DEF e

\* Dropping messages twice is dropping messages.
LEMMA SubCacheTransitive ==
    ASSUME NEW m, NEW e, NEW f, SubCache(e, m), SubCache(f, e)
    PROVE  SubCache(f, m)
  BY DEF SubCache

\* What a step needs that touches neither applications nor requests.
LEMMA QuietStep ==
    ASSUME IInv, UNCHANGED <<appVars, cache>>,
           Books(cache, mp, pendingReqs, jobs, drawn, wire)', Sweeping', Surroundings'
    PROVE  IInv' /\ [Service!Next]_(Service!vars)
  BY DEF IInv, appVars, Told, Waiting, Service!vars

-----------------------------------------------------------------------------
\* CommandGenerator.sendPdu: no book holds a request not made before.
LEMMA StartRequestStep ==
    ASSUME IInv, NEW r \in Requests, StartRequest(r)
    PROVE  IInv' /\ [Service!Next]_(Service!vars)
  <1>1. \A h \in DOMAIN cache : cache[h].req # r
    BY DEF IInv, Waiting, StartRequest
  <1>2. \A h \in DOMAIN cache : cache[h].req \in Requests
    BY DEF IInv, Books, IsMap, CachedRequest
  <1>3. Surroundings' /\ Sweeping /\ sweep' = sweep
    BY DEF IInv, StartRequest, Surroundings, envVars
  <1>4. CASE /\ SendPdu(r, cache, mp, pendingReqs, jobs, 0, 0)
             /\ phase' = [phase EXCEPT ![r] = "pending"]
    <2>1. Books(cache, mp, pendingReqs, jobs, drawn, wire)'
      BY <1>1, <1>4, AddRequest DEF IInv, SendPdu, DrawIds, handle, msgID
    <2>2. /\ DOMAIN cache' = DOMAIN cache \cup {handle}
          /\ \A g \in DOMAIN cache' :
               \/ cache'[g].req = r
               \/ g \in DOMAIN cache /\ cache'[g] = cache[g]
      BY <1>4 DEF SendPdu, Put
    <2>3. Told' /\ Service!Submit(r)
      BY <1>4 DEF IInv, Told, StartRequest, Service!Submit
    <2>4. Waiting'
      BY <1>2, <1>4, <2>2 DEF IInv, Waiting, Told
    <2>5. Sweeping'
      BY <1>3, <2>2 DEF Sweeping
    <2> QED BY <1>3, <2>1, <2>3, <2>4, <2>5 DEF IInv, Service!Next
  <1>5. CASE /\ \/ SendPduRefused(cache, mp, pendingReqs, jobs)
                \/ SendPduUnsent(r, cache, mp, pendingReqs, jobs)
             /\ phase' = [phase EXCEPT ![r] = "refused"]
    <2>1. Books(cache, mp, pendingReqs, jobs, drawn, wire)'
      <3>1. CASE SendPduRefused(cache, mp, pendingReqs, jobs)
        BY <3>1, DrawOnly DEF IInv, SendPduRefused, DrawIds
      <3>2. CASE SendPduUnsent(r, cache, mp, pendingReqs, jobs)
        BY <3>2, AddMessage DEF IInv, SendPduUnsent, DrawIds, handle, msgID
      <3> QED BY <1>5, <3>1, <3>2
    <2>2. cache' = cache
      BY <1>5 DEF SendPduRefused, SendPduUnsent
    <2>3. Told' /\ Service!Submit(r)
      BY <1>5 DEF IInv, Told, StartRequest, Service!Submit
    <2>4. Waiting'
      BY <1>1, <1>2, <1>5, <2>2 DEF IInv, Waiting, Told
    <2>5. Sweeping'
      BY <1>3, <2>2 DEF Sweeping
    <2> QED BY <1>3, <2>1, <2>3, <2>4, <2>5 DEF IInv, Service!Next
  <1> QED BY <1>4, <1>5 DEF StartRequest

\* What is known of a reply the message processing model recognises.
LEMMA RepliedFacts ==
    ASSUME IInv, NEW msg \in wire, NEW kind, Replied(msg, kind)
    PROVE  LET h == HandleOf(msg)
               m == PopByMsgId(mp, msg.msgID)
               e == PopBySendPduHandle(m, h)
           IN  /\ h \in DOMAIN cache /\ cache[h].req = msg.req
               /\ sweep.cause = "none"
               /\ SubCache(m, mp) /\ SubCache(e, mp)
               /\ \A k \in DOMAIN m.msgIdIndex : m.msgIdIndex[k].sendPduHandle # h
               /\ \A k \in DOMAIN e.msgIdIndex : e.msgIdIndex[k].sendPduHandle # h
  <1> DEFINE h == HandleOf(msg)
             m == PopByMsgId(mp, msg.msgID)
             e == PopBySendPduHandle(m, h)
  <1>1. h \in DOMAIN cache /\ cache[h].req = msg.req
    BY DEF IInv, Books, Replied, HasMsgId, HandleOf
  <1>2. CacheOK(mp, Nat, Nat, Requests) /\ HasMsgId(mp, msg.msgID) /\ sweep.cause = "none"
    BY DEF IInv, Books, Replied
  <1>3. SubCache(m, mp) /\ \A k \in DOMAIN m.msgIdIndex : m.msgIdIndex[k].sendPduHandle # h
    BY <1>2, PopMessageSubCache DEF HandleOf
  <1>4. CacheOK(m, Nat, Nat, Requests)
    BY <1>3 DEF SubCache
  <1> HIDE DEF m
  <1>5. SubCache(e, m) /\ \A k \in DOMAIN e.msgIdIndex : e.msgIdIndex[k].sendPduHandle # h
    BY <1>4, PopHandleSubCache
  <1>6. SubCache(e, mp)
    BY <1>3, <1>5, SubCacheTransitive
  <1> QED BY <1>1, <1>2, <1>3, <1>5, <1>6 DEF m

\* receiveMessage, whatever the reply.
LEMMA ReceiveStep ==
    ASSUME IInv, NEW msg \in wire, Receive(msg)
    PROVE  IInv' /\ [Service!Next]_(Service!vars)
  <1> DEFINE h == HandleOf(msg)
             m == PopByMsgId(mp, msg.msgID)
             e == PopBySendPduHandle(m, h)
  <1>1. ASSUME NEW kind, Replied(msg, kind)
        PROVE  /\ h \in DOMAIN cache /\ cache[h].req = msg.req
               /\ sweep.cause = "none"
               /\ SubCache(m, mp) /\ SubCache(e, mp)
               /\ \A k \in DOMAIN m.msgIdIndex : m.msgIdIndex[k].sendPduHandle # h
               /\ \A k \in DOMAIN e.msgIdIndex : e.msgIdIndex[k].sendPduHandle # h
    BY <1>1, RepliedFacts
  <1>2. CASE ReceiveMismatch(msg)
    <2>1. Replied(msg, "mismatch") /\ mp' = m
          /\ UNCHANGED <<appVars, pendingReqs, jobs, cache, drawn, wire, sweep, timerAlive, envVars>>
      BY <1>2 DEF ReceiveMismatch
    <2> HIDE DEF m, e, h
    <2>2. SubCache(m, mp)
      BY <1>1, <2>1
    <2>3. Books(cache, mp, pendingReqs, jobs, drawn, wire)'
      BY <2>1, <2>2, DropMessages DEF IInv
    <2>4. Sweeping' /\ Surroundings'
      BY <2>1 DEF IInv, Sweeping, Surroundings, envVars
    <2> QED BY <2>1, <2>3, <2>4, QuietStep
  <1>3. CASE ReceiveResponse(msg)
    <2>1. PICK kind \in {"response", "badResponse"} :
            /\ Replied(msg, kind)
            /\ h \in DOMAIN cache =>
                 ProcessAnswer(h, Without(cache, {h}), m,
                               IF kind = "response" THEN Service!AnswerTo(msg.req)
                                                    ELSE Service!Failure)
            /\ UNCHANGED envVars
      BY <1>3 DEF ReceiveResponse
    <2> DEFINE res == IF kind = "response" THEN Service!AnswerTo(msg.req) ELSE Service!Failure
    <2>2. /\ h \in DOMAIN cache /\ cache[h].req = msg.req /\ sweep.cause = "none"
          /\ SubCache(m, mp)
          /\ \A k \in DOMAIN m.msgIdIndex : m.msgIdIndex[k].sendPduHandle # h
      BY <1>1, <2>1
    <2>3. res \in {Service!Failure, Service!AnswerTo(cache[h].req)}
      BY <2>2
    <2>4. ProcessAnswer(h, Without(cache, {h}), m, res)
      BY <2>1, <2>2
    <2> HIDE DEF h, m, e, res
    <2> QED BY <2>1, <2>2, <2>3, <2>4, ProcessAnswerStep
  <1>4. CASE ReceiveReport(msg)
    <2>1. PICK kind \in {"discovery", "report"} :
            /\ Replied(msg, kind)
            /\ ProcessStatus(h, kind = "discovery", Without(cache, {h}), e)
            /\ UNCHANGED envVars
      BY <1>4 DEF ReceiveReport
    <2>2. /\ h \in DOMAIN cache /\ sweep.cause = "none" /\ SubCache(e, mp)
          /\ \A k \in DOMAIN e.msgIdIndex : e.msgIdIndex[k].sendPduHandle # h
      BY <1>1, <2>1
    <2> HIDE DEF h, m, e
    <2> DEFINE discovery == kind = "discovery"
    <2>3. discovery \in BOOLEAN /\ ProcessStatus(h, discovery, Without(cache, {h}), e)
      BY <2>1
    <2> HIDE DEF discovery
    <2> QED BY <2>1, <2>2, <2>3, ProcessStatusStep
  <1>5. CASE ReceiveEmptyReport(msg)
    <2>1. /\ Replied(msg, "emptyReport")
          /\ cache' = Without(cache, {h}) /\ mp' = e
          /\ pendingReqs' = Without(pendingReqs, {h}) /\ jobs' = jobs - 1
          /\ UNCHANGED <<appVars, drawn, wire, sweep, timerAlive, envVars>>
      BY <1>5 DEF ReceiveEmptyReport
    <2>2. /\ h \in DOMAIN cache /\ sweep.cause = "none" /\ SubCache(e, mp)
          /\ \A k \in DOMAIN e.msgIdIndex : e.msgIdIndex[k].sendPduHandle # h
      BY <1>1, <2>1
    <2> HIDE DEF h, m, e
    <2>3. Books(Without(cache, {h}), e, Without(pendingReqs, {h}), jobs - 1, drawn, wire)
      BY <2>2, DropRequest DEF IInv
    <2>4. Books(cache, mp, pendingReqs, jobs, drawn, wire)'
      BY <2>1, <2>3
    <2>5. Told' /\ Surroundings' /\ UNCHANGED Service!vars
      BY <2>1 DEF IInv, Told, Surroundings, envVars, appVars, Service!vars
    <2>6. Waiting' /\ Sweeping'
      BY <2>1, <2>2 DEF IInv, Waiting, Sweeping, Without, appVars
    <2> QED BY <2>4, <2>5, <2>6 DEF IInv
  <1> QED BY <1>2, <1>3, <1>4, <1>5 DEF Receive

-----------------------------------------------------------------------------
\* handleTimerTick shortens the time left and nothing else.
LEMMA TickStep ==
    ASSUME IInv, Tick
    PROVE  IInv' /\ [Service!Next]_(Service!vars)
  <1>1. /\ DOMAIN cache' = DOMAIN cache
        /\ \A h \in DOMAIN cache : cache'[h] = [cache[h] EXCEPT !.timeout = IF @ > 0 THEN @ - 1 ELSE 0]
        /\ cache' = [h \in DOMAIN cache |-> cache'[h]]
    BY DEF Tick
  <1>2. \A h \in DOMAIN cache : cache[h] \in CachedRequest
    BY DEF IInv, Books, IsMap
  <1>3. \A h \in DOMAIN cache : cache'[h] \in CachedRequest /\ cache'[h].req = cache[h].req
    BY <1>1, <1>2 DEF CachedRequest
  <1>4. IsMap(cache', Nat, CachedRequest)
    BY <1>1, <1>3 DEF IInv, Books, IsMap
  <1>5. UNCHANGED <<appVars, pendingReqs, jobs, mp, drawn, wire, timerAlive, envVars>>
    BY DEF Tick
  <1>6. Books(cache, mp, pendingReqs, jobs, drawn, wire)'
    BY <1>1, <1>3, <1>4, <1>5 DEF IInv, Books
  <1>7. Told' /\ Surroundings' /\ UNCHANGED Service!vars
    BY <1>5 DEF IInv, Told, Surroundings, appVars, envVars, Service!vars
  <1>8. Waiting'
    BY <1>1, <1>3, <1>5 DEF IInv, Waiting, appVars
  <1>9. Sweeping'
    <2> DEFINE due == {h \in DOMAIN cache : cache[h].timeout <= 1}
    <2>1. due \subseteq Nat /\ due \subseteq DOMAIN cache
      BY DEF IInv, Books, IsMap
    <2>2. sweep' = [cause |-> "tick", todo |-> due, reenter |-> FALSE]
      BY DEF Tick, StartSweep
    <2> HIDE DEF due
    <2> QED BY <1>1, <2>1, <2>2 DEF Sweeping, Sweeps
  <1> QED BY <1>6, <1>7, <1>8, <1>9 DEF IInv

\* receiveTransportError only decides whom to sweep.
LEMMA TransportErrorStep ==
    ASSUME IInv, NEW p \in Peers, TransportError(p)
    PROVE  IInv' /\ [Service!Next]_(Service!vars)
  <1>1. UNCHANGED <<appVars, cache, mp, pendingReqs, jobs, drawn, wire>>
    BY DEF TransportError, dspVars
  <1>2. Books(cache, mp, pendingReqs, jobs, drawn, wire)'
    BY <1>1 DEF IInv
  <1>3. Surroundings'
    BY DEF IInv, Surroundings, TransportError
  <1>4. Sweeping'
    <2> DEFINE due == {h \in DOMAIN cache : PeerOf[cache[h].req] = p}
    <2>1. due \subseteq Nat /\ due \subseteq DOMAIN cache
      BY DEF IInv, Books, IsMap
    <2>2. sweep' = [cause |-> "error", todo |-> due, reenter |-> FALSE]
      BY DEF TransportError, StartSweep
    <2> HIDE DEF due
    <2> QED BY <1>1, <2>1, <2>2 DEF Sweeping, Sweeps
  <1> QED BY <1>1, <1>2, <1>3, <1>4, QuietStep

\* __expireRequest: an entry of the sweep is still in the cache.
LEMMA ExpireRequestStep ==
    ASSUME IInv, NEW h, ExpireRequest(h)
    PROVE  IInv' /\ [Service!Next]_(Service!vars)
  <1> DEFINE e == PopBySendPduHandle(mp, h)
  <1>1. h \in DOMAIN cache /\ h \in sweep.todo /\ CacheOK(mp, Nat, Nat, Requests)
    BY DEF IInv, Sweeping, ExpireRequest, Books
  <1>2. SubCache(e, mp) /\ \A k \in DOMAIN e.msgIdIndex : e.msgIdIndex[k].sendPduHandle # h
    BY <1>1, PopHandleSubCache
  <1>3. ProcessStatus(h, FALSE, Without(cache, {h}), e) /\ UNCHANGED envVars
    BY DEF ExpireRequest
  <1> HIDE DEF e
  <1> QED BY <1>1, <1>2, <1>3, ProcessStatusStep

\* The end of a sweep, with the expiry of the message processing model.
LEMMA FinishSweepStep ==
    ASSUME IInv, FinishSweep
    PROVE  IInv' /\ [Service!Next]_(Service!vars)
  <1> DEFINE e == ExpireCaches(mp)
  <1>1. CacheOK(mp, Nat, Nat, Requests)
    BY DEF IInv, Books
  <1>2. SubCache(e, mp)
    BY <1>1, ExpireSubCache
  <1>3. /\ mp' \in {e, mp} /\ sweep' = NoSweep
        /\ UNCHANGED <<appVars, cache, pendingReqs, jobs, drawn, wire, timerAlive, envVars>>
    BY DEF FinishSweep
  <1> HIDE DEF e
  <1>4. Books(cache, mp, pendingReqs, jobs, drawn, wire)'
    BY <1>2, <1>3, DropMessages DEF IInv
  <1>5. Sweeping' /\ Surroundings'
    BY <1>3 DEF IInv, Sweeping, Sweeps, NoSweep, Surroundings, envVars
  <1> QED BY <1>3, <1>4, <1>5, QuietStep

\* Transports come and go without a request being touched.
LEMMA TransportsStep ==
    ASSUME IInv, NEW p \in Peers, UnregisterTransport(p) \/ RegisterTransport(p)
    PROVE  IInv' /\ [Service!Next]_(Service!vars)
  <1>1. UNCHANGED <<appVars, cache, mp, pendingReqs, jobs, drawn, wire, sweep>>
    BY DEF UnregisterTransport, RegisterTransport, dspVars
  <1>2. Surroundings'
    <2>1. timerAlive' \in BOOLEAN
      BY Zenon DEF UnregisterTransport, RegisterTransport
    <2>2. transports' \subseteq Peers /\ failures' \in Nat /\ outages' \in Nat
      BY SMT DEF IInv, Surroundings, UnregisterTransport, RegisterTransport
    <2> QED BY <2>1, <2>2 DEF Surroundings
  <1>3. Books(cache, mp, pendingReqs, jobs, drawn, wire)' /\ Sweeping'
    BY <1>1 DEF IInv, Sweeping
  <1> QED BY <1>1, <1>2, <1>3, QuietStep

\* Every step keeps the invariant, and is a step of the service or none.
LEMMA NextStep ==
    ASSUME IInv, [Next]_vars
    PROVE  IInv' /\ [Service!Next]_(Service!vars)
  <1>1. CASE \E r \in Requests : StartRequest(r)
    BY <1>1, StartRequestStep
  <1>2. CASE \E msg \in wire : Receive(msg)
    BY <1>2, ReceiveStep
  <1>3. CASE \E p \in Peers : TransportError(p)
    BY <1>3, TransportErrorStep
  <1>4. CASE Tick
    BY <1>4, TickStep
  <1>5. CASE Sweep
    BY <1>5, FinishSweepStep, ExpireRequestStep DEF Sweep
  <1>6. CASE \E p \in Peers : UnregisterTransport(p) \/ RegisterTransport(p)
    BY <1>6, TransportsStep
  <1>7. CASE UNCHANGED vars
    <2>1. UNCHANGED <<appVars, cache, mp, pendingReqs, jobs, drawn, wire, sweep, timerAlive, envVars>>
      BY <1>7 DEF vars, dspVars
    <2>2. Books(cache, mp, pendingReqs, jobs, drawn, wire)' /\ Sweeping' /\ Surroundings'
      BY <2>1 DEF IInv, Sweeping, Surroundings, envVars
    <2> QED BY <2>1, <2>2, QuietStep
  <1> QED BY <1>1, <1>2, <1>3, <1>4, <1>5, <1>6, <1>7 DEF Next

\* The invariant holds throughout.
LEMMA IInvInvariant == SafeSpec => []IInv
  <1>1. IInv /\ [Next]_vars => IInv'
    BY NextStep
  <1> QED BY InitIInv, <1>1, PTL DEF SafeSpec

-----------------------------------------------------------------------------
\* The engine's state keeps its types, whatever the network, the transports and
\* the applications do.
THEOREM TypesHold == SafeSpec => []TypeOK
  <1>1. IInv => TypeOK
    <2> SUFFICES ASSUME IInv PROVE TypeOK
      OBVIOUS
    <2>1. jobs \in Int /\ drawn \in Nat
      BY FS_CardinalityType DEF IInv, Books
    <2> QED BY <2>1 DEF IInv, TypeOK, Books, CacheOK, Told, Sweeping, Surroundings
  <1> QED BY <1>1, IInvInvariant, PTL

\* The generator awaits exactly the requests the dispatcher will time out, with
\* a job for each (processResponsePdu, __pendingReqs against __cache).
THEOREM BooksAgree == SafeSpec => []GeneratorAndDispatcherAgree
  <1>1. IInv => GeneratorAndDispatcherAgree
    BY DEF IInv, Books, Waiting, GeneratorAndDispatcherAgree
  <1> QED BY <1>1, IInvInvariant, PTL

\* A reply the message processing model recognises is for a request that the
\* dispatcher holds (receiveMessage).
THEOREM RepliesFindRequests == SafeSpec => []KnownReplyHasRequest
  <1>1. IInv => KnownReplyHasRequest
    BY DEF IInv, Books, KnownReplyHasRequest, HasMsgId, HandleOf
  <1> QED BY <1>1, IInvInvariant, PTL

\* Whatever the message processing model remembers is scheduled to expire and can
\* be released by its handle (mpmod.cache.Cache).
THEOREM ExpiryStaysScheduled == SafeSpec => []ExpiryIsScheduled
  <1>1. IInv => ExpiryIsScheduled
    BY DEF IInv, Books, CacheOK, ExpiryIsScheduled
  <1> QED BY <1>1, IInvInvariant, PTL

\* An application sees a request service: no request is completed twice, nor
\* with another request's answer (callbacks of processResponsePdu).
THEOREM SafelyImplementsService == SafeSpec => ImplementsServiceSafely
  <1>1. Init => Service!Init
    BY DEF Init, Service!Init
  <1>2. IInv /\ [Next]_vars => [Service!Next]_(Service!vars)
    BY NextStep
  <1> QED BY <1>1, <1>2, IInvInvariant, PTL DEF SafeSpec, ImplementsServiceSafely, Service!SafeSpec

-----------------------------------------------------------------------------
(* Expiry in the message processing model against the request's own        *)
(* timeout.  A request may be sent in the middle of a tick, by an          *)
(* application called back in the sweep or as a retry, and its message     *)
(* ages at the end of that tick while the request does not: between ticks  *)
(* a request may outlive its message by one tick, and no more.             *)

\* Every request in c that m has a handle for has its message in m, and the
\* message stays long enough; cause and todo are those of the sweep.
Kept(c, m, cause, todo) ==
    \A h \in DOMAIN c :
        h \in DOMAIN m.sendPduHandleIdx =>
            /\ m.sendPduHandleIdx[h] \in DOMAIN m.msgIdIndex
            /\ m.msgIdIndex[m.sendPduHandleIdx[h]].sendPduHandle = h
            /\ c[h].timeout <= m.msgIdIndex[m.sendPduHandleIdx[h]].expireAt + 1
            /\ cause = "tick" /\ h \notin todo =>
                 /\ 1 <= c[h].timeout
                 /\ c[h].timeout <= m.msgIdIndex[m.sendPduHandleIdx[h]].expireAt

KeptNow == Kept(cache, mp, sweep.cause, sweep.todo)

\* e is m without some messages, and without their handles.
Fewer(e, m) ==
    \A h \in DOMAIN e.sendPduHandleIdx :
        /\ h \in DOMAIN m.sendPduHandleIdx
        /\ e.sendPduHandleIdx[h] = m.sendPduHandleIdx[h]
        /\ /\ m.sendPduHandleIdx[h] \in DOMAIN m.msgIdIndex
           /\ m.msgIdIndex[m.sendPduHandleIdx[h]].sendPduHandle = h
           => /\ m.sendPduHandleIdx[h] \in DOMAIN e.msgIdIndex
              /\ e.msgIdIndex[m.sendPduHandleIdx[h]] = m.msgIdIndex[m.sendPduHandleIdx[h]]

\* popByMsgId takes the handle of its message away with it.
LEMMA PopMessageFewer ==
    ASSUME NEW m, CacheOK(m, Nat, Nat, Requests), NEW k, HasMsgId(m, k)
    PROVE  Fewer(PopByMsgId(m, k), m)
  <1> DEFINE e == PopByMsgId(m, k)
             g == m.msgIdIndex[k].sendPduHandle
  <1>1. /\ e.msgIdIndex = Without(m.msgIdIndex, {k})
        /\ e.sendPduHandleIdx = Without(m.sendPduHandleIdx, {g})
    BY DEF PopByMsgId, CacheOK, CacheType
  <1> HIDE DEF e
  <1>2. /\ DOMAIN e.sendPduHandleIdx = DOMAIN m.sendPduHandleIdx \ {g}
        /\ \A h \in DOMAIN e.sendPduHandleIdx : e.sendPduHandleIdx[h] = m.sendPduHandleIdx[h]
        /\ DOMAIN e.msgIdIndex = DOMAIN m.msgIdIndex \ {k}
        /\ \A i \in DOMAIN e.msgIdIndex : e.msgIdIndex[i] = m.msgIdIndex[i]
    BY <1>1 DEF Without
  <1>3. Fewer(e, m)
    BY <1>2 DEF Fewer
  <1> QED BY <1>3 DEF e

LEMMA PopHandleFewer ==
    ASSUME NEW m, CacheOK(m, Nat, Nat, Requests), NEW h
    PROVE  Fewer(PopBySendPduHandle(m, h), m)
  <1>1. CASE h \in DOMAIN m.sendPduHandleIdx /\ HasMsgId(m, m.sendPduHandleIdx[h])
    BY <1>1, PopMessageFewer DEF PopBySendPduHandle
  <1>2. CASE ~(h \in DOMAIN m.sendPduHandleIdx /\ HasMsgId(m, m.sendPduHandleIdx[h]))
    BY <1>2 DEF PopBySendPduHandle, Fewer
  <1> QED BY <1>1, <1>2

\* Forgetting messages.
LEMMA KeptFewer ==
    ASSUME NEW c, NEW m, NEW cause, NEW todo, Kept(c, m, cause, todo),
           NEW e, Fewer(e, m)
    PROVE  Kept(c, e, cause, todo)
  BY DEF Fewer, Kept

\* Forgetting a request and its place in the sweep.
LEMMA KeptDrop ==
    ASSUME NEW c, NEW m, NEW cause, NEW todo, Kept(c, m, cause, todo), NEW H
    PROVE  Kept(Without(c, H), m, cause, todo \ H)
  BY DEF Kept, Without

\* A sweep that is cut short.
LEMMA KeptStop ==
    ASSUME NEW c, NEW m, NEW cause, NEW todo, Kept(c, m, cause, todo)
    PROVE  Kept(c, m, "none", {})
  BY DEF Kept

\* A message under the next identifiers, for no request of c.
LEMMA KeptPush ==
    ASSUME NEW c, NEW m, NEW p, NEW j, NEW n, NEW w, Books(c, m, p, j, n, w),
           NEW cause, NEW todo, Kept(c, m, cause, todo), NEW r \in Requests
    PROVE  Kept(c, PushByMsgId(m, FirstMsgId + n, FirstHandle + n, r), cause, todo)
  <1> DEFINE id == FirstMsgId + n
             hd == FirstHandle + n
             e == PushByMsgId(m, id, hd, r)
  <1>1. /\ e.msgIdIndex = Put(m.msgIdIndex, id, [sendPduHandle |-> hd, info |-> r,
                                                 expireAt |-> Lifetime])
        /\ e.sendPduHandleIdx = Put(m.sendPduHandleIdx, hd, id)
    BY DEF PushByMsgId, Books, CacheOK, CacheType
  <1>2. hd \notin DOMAIN c /\ id \notin DOMAIN m.msgIdIndex
    <2>1. /\ \A h \in DOMAIN c : h \in Nat /\ h < hd
          /\ \A k \in DOMAIN m.msgIdIndex : k \in Nat /\ k < id
          /\ hd \in Nat /\ id \in Nat
      BY RequestCycleAssumption DEF Books, IsMap, CacheOK, CacheType
    <2> QED BY <2>1
  <1> HIDE DEF e, id, hd
  <1>3. Kept(c, e, cause, todo)
    BY <1>1, <1>2 DEF Kept, Put
  <1> QED BY <1>3 DEF e, id, hd

\* A request sent: its message is kept for longer than it is awaited.
LEMMA KeptSend ==
    ASSUME Timeout <= Lifetime,
           NEW c, NEW m, NEW p, NEW j, NEW n, NEW w, Books(c, m, p, j, n, w),
           NEW cause, NEW todo, Kept(c, m, cause, todo), NEW r \in Requests
    PROVE  Kept(Put(c, FirstHandle + n, [req |-> r, timeout |-> Timeout]),
                PushByMsgId(m, FirstMsgId + n, FirstHandle + n, r), cause, todo)
  <1> DEFINE id == FirstMsgId + n
             hd == FirstHandle + n
             e == PushByMsgId(m, id, hd, r)
             new == [sendPduHandle |-> hd, info |-> r, expireAt |-> Lifetime]
             d == Put(c, hd, [req |-> r, timeout |-> Timeout])
  <1>1. Kept(c, e, cause, todo)
    BY KeptPush
  <1>2. /\ e.msgIdIndex = Put(m.msgIdIndex, id, new)
        /\ e.sendPduHandleIdx = Put(m.sendPduHandleIdx, hd, id)
    BY DEF PushByMsgId, Books, CacheOK, CacheType
  <1>3. new.sendPduHandle = hd /\ new.expireAt = Lifetime
    OBVIOUS
  <1> HIDE DEF e, id, hd, new
  <1>4. /\ e.sendPduHandleIdx[hd] = id /\ id \in DOMAIN e.msgIdIndex
        /\ e.msgIdIndex[id] = new
    BY <1>2 DEF Put
  <1>5. /\ DOMAIN d = DOMAIN c \cup {hd} /\ d[hd].timeout = Timeout
        /\ \A h \in DOMAIN c : h # hd => d[h] = c[h]
    BY DEF Put
  <1>6. Timeout \in Nat /\ Lifetime \in Nat /\ 1 <= Timeout /\ Timeout <= Lifetime + 1
    BY RequestCycleAssumption, LifetimeAssumption
  <1> HIDE DEF d
  <1>7. Kept(d, e, cause, todo)
    BY <1>1, <1>3, <1>4, <1>5, <1>6 DEF Kept
  <1> QED BY <1>7 DEF e, id, hd, d

\* processResponsePdu with an error: as ProcessStatusStep.
LEMMA KeptStatusStep ==
    ASSUME Timeout <= Lifetime, IInv,
           NEW h \in DOMAIN cache, NEW discovery \in BOOLEAN,
           NEW e, SubCache(e, mp), Kept(cache, e, sweep.cause, sweep.todo),
           \A k \in DOMAIN e.msgIdIndex : e.msgIdIndex[k].sendPduHandle # h,
           ProcessStatus(h, discovery, Without(cache, {h}), e)
    PROVE  KeptNow'
  <1> DEFINE r == pendingReqs[h].req
             c == Without(cache, {h})
             p == Without(pendingReqs, {h})
             j == jobs - 1
             todo == sweep.todo \ {h}
  <1>1. Books(c, e, p, j, drawn, wire)
    BY DropRequest DEF IInv
  <1>2. r \in Requests
    BY DEF IInv, Books, IsMap, PendingRequest
  <1>3. Kept(c, e, sweep.cause, todo)
    BY KeptDrop
  <1>4. sweep \in Sweeps
    BY DEF IInv, Sweeping
  <1>5. \/ /\ cache' = c /\ mp' = e
           /\ sweep' = [[sweep EXCEPT !.todo = @ \ {h}, !.reenter = FALSE]
                          EXCEPT !.reenter = sweep.cause # "none"]
        \/ \E n, d : /\ SendPdu(r, c, e, p, j, n, d)
                     /\ sweep' = [sweep EXCEPT !.todo = @ \ {h}, !.reenter = FALSE]
        \/ SendPduUnsent(r, c, e, p, j) /\ sweep' = NoSweep
    BY DEF ProcessStatus, SendPduRefused
  <1> HIDE DEF r, c, p, j
  <1>6. CASE /\ cache' = c /\ mp' = e
             /\ sweep' = [[sweep EXCEPT !.todo = @ \ {h}, !.reenter = FALSE]
                            EXCEPT !.reenter = sweep.cause # "none"]
    <2>1. sweep'.cause = sweep.cause /\ sweep'.todo = todo
      BY <1>4, <1>6 DEF Sweeps
    <2> QED BY <1>3, <1>6, <2>1 DEF KeptNow
  <1>7. ASSUME NEW n, NEW d, SendPdu(r, c, e, p, j, n, d),
               sweep' = [sweep EXCEPT !.todo = @ \ {h}, !.reenter = FALSE]
        PROVE  KeptNow'
    <2>1. sweep'.cause = sweep.cause /\ sweep'.todo = todo
      BY <1>4, <1>7 DEF Sweeps
    <2>2. /\ cache' = Put(c, FirstHandle + drawn, [req |-> r, timeout |-> Timeout])
          /\ mp' = PushByMsgId(e, FirstMsgId + drawn, FirstHandle + drawn, r)
      BY <1>7 DEF SendPdu, handle, msgID
    <2>3. Kept(cache', mp', sweep.cause, todo)
      BY <1>1, <1>2, <1>3, <2>2, KeptSend
    <2> QED BY <2>1, <2>3 DEF KeptNow
  <1>8. CASE SendPduUnsent(r, c, e, p, j) /\ sweep' = NoSweep
    <2>1. /\ cache' = c
          /\ mp' = PushByMsgId(e, FirstMsgId + drawn, FirstHandle + drawn, r)
      BY <1>8 DEF SendPduUnsent, handle, msgID
    <2>2. Kept(cache', mp', sweep.cause, todo)
      BY <1>1, <1>2, <1>3, <2>1, KeptPush
    <2>3. Kept(cache', mp', "none", {})
      BY <2>2, KeptStop
    <2> QED BY <1>8, <2>3 DEF KeptNow, NoSweep
  <1> QED BY <1>5, <1>6, <1>7, <1>8

\* receiveMessage takes the message's handle away with the message.
LEMMA KeptReceiveStep ==
    ASSUME Timeout <= Lifetime, IInv, KeptNow, NEW msg \in wire, Receive(msg)
    PROVE  KeptNow'
  <1> DEFINE h == HandleOf(msg)
             m == PopByMsgId(mp, msg.msgID)
             e == PopBySendPduHandle(m, h)
  <1>1. ASSUME NEW kind, Replied(msg, kind)
        PROVE  /\ h \in DOMAIN cache /\ sweep.cause = "none" /\ SubCache(e, mp)
               /\ Kept(cache, m, sweep.cause, sweep.todo)
               /\ Kept(cache, e, sweep.cause, sweep.todo)
               /\ \A k \in DOMAIN e.msgIdIndex : e.msgIdIndex[k].sendPduHandle # h
    <2>1. /\ h \in DOMAIN cache /\ sweep.cause = "none" /\ SubCache(m, mp) /\ SubCache(e, mp)
          /\ \A k \in DOMAIN e.msgIdIndex : e.msgIdIndex[k].sendPduHandle # h
      BY <1>1, RepliedFacts
    <2>2. CacheOK(mp, Nat, Nat, Requests) /\ HasMsgId(mp, msg.msgID)
      BY <1>1 DEF IInv, Books, Replied
    <2>3. Fewer(m, mp)
      BY <2>2, PopMessageFewer
    <2>4. CacheOK(m, Nat, Nat, Requests)
      BY <2>1 DEF SubCache
    <2> HIDE DEF m, h
    <2>5. Fewer(e, m)
      BY <2>4, PopHandleFewer
    <2> HIDE DEF e
    <2>6. Kept(cache, m, sweep.cause, sweep.todo)
      BY <2>3, KeptFewer DEF KeptNow
    <2>7. Kept(cache, e, sweep.cause, sweep.todo)
      BY <2>5, <2>6, KeptFewer
    <2> QED BY <2>1, <2>6, <2>7
  <1>2. sweep.cause = "none" => sweep.todo \ {h} = sweep.todo
    BY DEF IInv, Sweeping
  <1>3. CASE ReceiveMismatch(msg)
    <2>1. Replied(msg, "mismatch") /\ mp' = m /\ UNCHANGED <<cache, sweep>>
      BY <1>3 DEF ReceiveMismatch
    <2> HIDE DEF m
    <2> QED BY <1>1, <2>1 DEF KeptNow
  <1>4. CASE ReceiveResponse(msg)
    <2>1. PICK kind \in {"response", "badResponse"} :
            /\ Replied(msg, kind)
            /\ h \in DOMAIN cache =>
                 cache' = Without(cache, {h}) /\ mp' = m /\ UNCHANGED sweep
      BY <1>4 DEF ReceiveResponse, ProcessAnswer
    <2> HIDE DEF m, h, e
    <2>2. h \in DOMAIN cache /\ Kept(cache, m, sweep.cause, sweep.todo) /\ sweep.cause = "none"
      BY <1>1, <2>1
    <2> QED BY <1>2, <2>1, <2>2, KeptDrop DEF KeptNow
  <1>5. CASE ReceiveReport(msg)
    <2>1. PICK kind \in {"discovery", "report"} :
            Replied(msg, kind) /\ ProcessStatus(h, kind = "discovery", Without(cache, {h}), e)
      BY <1>5 DEF ReceiveReport
    <2> HIDE DEF m, h, e
    <2> DEFINE discovery == kind = "discovery"
    <2>2. discovery \in BOOLEAN /\ ProcessStatus(h, discovery, Without(cache, {h}), e)
      BY <2>1
    <2> HIDE DEF discovery
    <2> QED BY <1>1, <2>1, <2>2, KeptStatusStep
  <1>6. CASE ReceiveEmptyReport(msg)
    <2>1. /\ Replied(msg, "emptyReport")
          /\ cache' = Without(cache, {h}) /\ mp' = e /\ UNCHANGED sweep
      BY <1>6 DEF ReceiveEmptyReport
    <2> HIDE DEF m, h, e
    <2> QED BY <1>1, <1>2, <2>1, KeptDrop DEF KeptNow
  <1> QED BY <1>3, <1>4, <1>5, <1>6 DEF Receive

\* A tick is one tick less for the request; those it leaves none are swept.
LEMMA KeptTickStep ==
    ASSUME IInv, KeptNow, Tick
    PROVE  KeptNow'
  <1>1. /\ DOMAIN cache' = DOMAIN cache
        /\ \A h \in DOMAIN cache :
             cache'[h] = [cache[h] EXCEPT !.timeout = IF @ > 0 THEN @ - 1 ELSE 0]
        /\ sweep'.cause = "tick" /\ mp' = mp
        /\ \A h \in DOMAIN cache : h \notin sweep'.todo => ~(cache[h].timeout <= 1)
    BY DEF Tick, StartSweep
  <1>2. ASSUME NEW h \in DOMAIN cache
        PROVE  /\ cache[h].timeout \in Nat
               /\ cache'[h].timeout = IF cache[h].timeout > 0 THEN cache[h].timeout - 1 ELSE 0
    BY <1>1 DEF IInv, Books, IsMap, CachedRequest
  <1>3. \A k \in DOMAIN mp.msgIdIndex : mp.msgIdIndex[k].expireAt \in Nat
    BY LifetimeAssumption DEF IInv, Books, CacheOK, CacheType, IsMap
  <1>4. ASSUME NEW h \in DOMAIN cache', h \in DOMAIN mp'.sendPduHandleIdx
        PROVE  LET k == mp'.sendPduHandleIdx[h]
               IN  /\ k \in DOMAIN mp'.msgIdIndex
                   /\ mp'.msgIdIndex[k].sendPduHandle = h
                   /\ cache'[h].timeout <= mp'.msgIdIndex[k].expireAt + 1
                   /\ h \notin sweep'.todo =>
                        1 <= cache'[h].timeout /\ cache'[h].timeout <= mp'.msgIdIndex[k].expireAt
    <2> DEFINE k == mp.sendPduHandleIdx[h]
               t == cache[h].timeout
               x == mp.msgIdIndex[k].expireAt
    <2>1. k \in DOMAIN mp.msgIdIndex /\ mp.msgIdIndex[k].sendPduHandle = h /\ t <= x + 1
      BY <1>1, <1>4 DEF KeptNow, Kept
    <2>2. t \in Nat /\ x \in Nat /\ cache'[h].timeout = IF t > 0 THEN t - 1 ELSE 0
      BY <1>1, <1>2, <1>3, <2>1
    <2>3. h \notin sweep'.todo => ~(t <= 1)
      BY <1>1
    <2> HIDE DEF k, t, x
    <2>4. /\ cache'[h].timeout <= x + 1
          /\ h \notin sweep'.todo => 1 <= cache'[h].timeout /\ cache'[h].timeout <= x
      BY <2>1, <2>2, <2>3
    <2> QED BY <1>1, <2>1, <2>4 DEF k, x
  <1> QED BY <1>1, <1>4 DEF KeptNow, Kept

\* After a tick what is due expires: no request that stayed is among it.
LEMMA KeptFinishStep ==
    ASSUME IInv, KeptNow, FinishSweep
    PROVE  KeptNow'
  <1>1. cache' = cache /\ sweep' = NoSweep /\ sweep.todo = {}
        /\ mp' = IF sweep.cause = "tick" THEN ExpireCaches(mp) ELSE mp
    BY DEF FinishSweep
  <1>2. CASE sweep.cause # "tick"
    BY <1>1, <1>2, KeptStop DEF KeptNow, NoSweep
  <1>3. CASE sweep.cause = "tick"
    <2>1. CacheOK(mp, Nat, Nat, Requests)
      BY DEF IInv, Books
    <2>2. /\ mp'.sendPduHandleIdx = mp.sendPduHandleIdx
          /\ mp'.msgIdIndex = Aged(mp.msgIdIndex, mp.queue[0].msgId)
      BY <1>1, <1>3, <2>1 DEF ExpireCaches, CacheOK, CacheType
    <2>3. mp.queue[0].msgId = {k \in DOMAIN mp.msgIdIndex : mp.msgIdIndex[k].expireAt = 0}
      BY <2>1, LifetimeAssumption DEF CacheOK, QueueMatchesIndices
    <2>4. ASSUME NEW k \in DOMAIN mp.msgIdIndex, mp.msgIdIndex[k].expireAt # 0
          PROVE  /\ k \in DOMAIN mp'.msgIdIndex
                 /\ mp'.msgIdIndex[k].sendPduHandle = mp.msgIdIndex[k].sendPduHandle
                 /\ mp'.msgIdIndex[k].expireAt = mp.msgIdIndex[k].expireAt - 1
                 /\ mp.msgIdIndex[k].expireAt \in Nat
      <3> DEFINE entry == mp.msgIdIndex[k]
      <3>1. k \in DOMAIN mp'.msgIdIndex /\ mp'.msgIdIndex[k] = [entry EXCEPT !.expireAt = @ - 1]
        BY <2>2, <2>3, <2>4 DEF Aged
      <3>2. entry \in [sendPduHandle : Nat, info : Requests, expireAt : 0 .. Lifetime]
        BY <2>1 DEF CacheOK, CacheType, IsMap
      <3>3. entry.expireAt # 0
        BY <2>4
      <3> HIDE DEF entry
      <3>4. /\ mp'.msgIdIndex[k].sendPduHandle = entry.sendPduHandle
            /\ mp'.msgIdIndex[k].expireAt = entry.expireAt - 1
        BY <3>1, <3>2, <3>3, AgedEntry
      <3>5. entry.expireAt \in Nat
        BY <3>2, LifetimeAssumption
      <3> QED BY <3>1, <3>4, <3>5 DEF entry
    <2>5. ASSUME NEW h \in DOMAIN cache, h \in DOMAIN mp.sendPduHandleIdx
          PROVE  LET k == mp.sendPduHandleIdx[h]
                 IN  /\ k \in DOMAIN mp'.msgIdIndex
                     /\ mp'.msgIdIndex[k].sendPduHandle = h
                     /\ cache[h].timeout <= mp'.msgIdIndex[k].expireAt + 1
      <3> DEFINE k == mp.sendPduHandleIdx[h]
                 t == cache[h].timeout
                 x == mp.msgIdIndex[k].expireAt
      <3>1. k \in DOMAIN mp.msgIdIndex /\ mp.msgIdIndex[k].sendPduHandle = h
            /\ 1 <= t /\ t <= x
        BY <1>1, <1>3, <2>5 DEF KeptNow, Kept
      <3>2. t \in Nat /\ x \in Int
        BY <2>1, <3>1 DEF IInv, Books, IsMap, CachedRequest, CacheOK, CacheType
      <3>3. x # 0
        BY <3>1, <3>2
      <3>4. /\ k \in DOMAIN mp'.msgIdIndex /\ mp'.msgIdIndex[k].sendPduHandle = h
            /\ mp'.msgIdIndex[k].expireAt = x - 1
        BY <2>4, <3>1, <3>3
      <3> HIDE DEF k, t, x
      <3>5. t <= mp'.msgIdIndex[k].expireAt + 1
        BY <3>1, <3>2, <3>4
      <3> QED BY <3>4, <3>5 DEF k, t
    <2> QED BY <1>1, <2>2, <2>5 DEF KeptNow, Kept, NoSweep
  <1> QED BY <1>2, <1>3

\* CommandGenerator.sendPdu, also when called back in the middle of a sweep.
LEMMA KeptStartStep ==
    ASSUME Timeout <= Lifetime, IInv, KeptNow, NEW r \in Requests, StartRequest(r)
    PROVE  KeptNow'
  <1>1. Books(cache, mp, pendingReqs, jobs, drawn, wire)
        /\ Kept(cache, mp, sweep.cause, sweep.todo) /\ sweep' = sweep
    BY DEF IInv, KeptNow, StartRequest
  <1>2. CASE SendPdu(r, cache, mp, pendingReqs, jobs, 0, 0)
    BY <1>1, <1>2, KeptSend DEF KeptNow, SendPdu, handle, msgID
  <1>3. CASE SendPduRefused(cache, mp, pendingReqs, jobs)
    BY <1>1, <1>3 DEF KeptNow, SendPduRefused
  <1>4. CASE SendPduUnsent(r, cache, mp, pendingReqs, jobs)
    BY <1>1, <1>4, KeptPush DEF KeptNow, SendPduUnsent, handle, msgID
  <1> QED BY <1>2, <1>3, <1>4 DEF StartRequest

LEMMA KeptNextStep ==
    ASSUME Timeout <= Lifetime, IInv, KeptNow, [Next]_vars
    PROVE  KeptNow'
  <1>1. CASE \E r \in Requests : StartRequest(r)
    BY <1>1, KeptStartStep
  <1>2. CASE \E msg \in wire : Receive(msg)
    BY <1>2, KeptReceiveStep
  <1>3. CASE \E p \in Peers : TransportError(p)
    BY <1>3 DEF TransportError, StartSweep, dspVars, IInv, Sweeping, KeptNow, Kept
  <1>4. CASE Tick
    BY <1>4, KeptTickStep
  <1>5. CASE FinishSweep
    BY <1>5, KeptFinishStep
  <1>6. ASSUME NEW h \in sweep.todo, ExpireRequest(h)
        PROVE  KeptNow'
    <2> DEFINE e == PopBySendPduHandle(mp, h)
    <2>1. h \in DOMAIN cache /\ CacheOK(mp, Nat, Nat, Requests)
      BY DEF IInv, Sweeping, Books
    <2>2. /\ SubCache(e, mp) /\ Fewer(e, mp)
          /\ \A k \in DOMAIN e.msgIdIndex : e.msgIdIndex[k].sendPduHandle # h
      BY <2>1, PopHandleSubCache, PopHandleFewer
    <2>3. ProcessStatus(h, FALSE, Without(cache, {h}), e)
      BY <1>6 DEF ExpireRequest
    <2> HIDE DEF e
    <2>4. Kept(cache, e, sweep.cause, sweep.todo)
      BY <2>2, KeptFewer DEF KeptNow
    <2> QED BY <2>1, <2>2, <2>3, <2>4, KeptStatusStep
  <1>7. CASE \E p \in Peers : UnregisterTransport(p) \/ RegisterTransport(p)
    BY <1>7 DEF UnregisterTransport, RegisterTransport, dspVars, KeptNow
  <1>8. CASE UNCHANGED vars
    BY <1>8 DEF vars, dspVars, KeptNow
  <1> QED BY <1>1, <1>2, <1>3, <1>4, <1>5, <1>6, <1>7, <1>8 DEF Next, Sweep

\* Where requests time out no later than messages expire, a response in time is
\* always matched (expireCaches against the request's own timeout).
THEOREM AwaitedMessagesAreKept ==
    ASSUME Timeout <= Lifetime
    PROVE  SafeSpec => []KeptWhileAwaited
  <1>1. Init => KeptNow
    BY DEF Init, KeptNow, Kept, EmptyMap
  <1>2. IInv /\ KeptNow /\ [Next]_vars => KeptNow'
    BY KeptNextStep
  <1>3. KeptNow => KeptWhileAwaited
    BY DEF KeptNow, Kept, KeptWhileAwaited, HasMsgId
  <1> QED BY IInvInvariant, <1>1, <1>2, <1>3, PTL DEF SafeSpec

-----------------------------------------------------------------------------
(* A request is awaited until it is reported, and is sent as often as it   *)
(* may be, where nothing cuts its pursuit short: transports stay, no       *)
(* report is without an error, and no discovery starts the retries over.   *)

Sent(w, r) == {msg \in w : msg.req = r}

\* The messages w sent for the pending requests p, against the retries counted.
Attempts(p, w) ==
    /\ \A r \in Requests : IsFiniteSet(Sent(w, r)) /\ Cardinality(Sent(w, r)) <= RetryCount + 1
    /\ \A h \in DOMAIN p : Cardinality(Sent(w, p[h].req)) <= p[h].retries + 1

Undisturbed ==
    /\ MaxOutages = 0
    /\ "emptyReport" \notin ReplyKinds
    /\ DiscoveryRetries = 0 \/ "discovery" \notin ReplyKinds

PInv ==
    /\ transports = Peers
    /\ PendingIsAwaited
    /\ Attempts(pendingReqs, wire)
    /\ \A r \in Requests : phase[r] = "idle" => Sent(wire, r) = {}

\* Giving a request up: no message is sent.
LEMMA AttemptsDrop ==
    ASSUME NEW p, NEW w, Attempts(p, w), NEW H
    PROVE  Attempts(Without(p, H), w)
  BY DEF Attempts, Without

\* Sending it once more, the n-th retry after at most n messages.
LEMMA AttemptsSend ==
    ASSUME NEW p, NEW w, IsMap(p, Nat, PendingRequest), Attempts(p, w),
           NEW r \in Requests, \A h \in DOMAIN p : p[h].req # r,
           NEW n \in Nat, n <= RetryCount, Cardinality(Sent(w, r)) <= n,
           NEW k, NEW id, NEW d
    PROVE  Attempts(Put(p, k, [req |-> r, retries |-> n, discoveryRetries |-> d]),
                    w \cup {[msgID |-> id, req |-> r]})
  <1> DEFINE new == [msgID |-> id, req |-> r]
             v == w \cup {new}
             entry == [req |-> r, retries |-> n, discoveryRetries |-> d]
             q == Put(p, k, entry)
  <1>1. \A i \in Requests : i # r => Sent(v, i) = Sent(w, i)
    BY DEF Sent
  <1>2. Sent(v, r) = Sent(w, r) \cup {new}
    BY DEF Sent
  <1>3. IsFiniteSet(Sent(w, r)) /\ RetryCount \in Nat
    BY RequestCycleAssumption DEF Attempts
  <1>4. IsFiniteSet(Sent(v, r)) /\ Cardinality(Sent(v, r)) <= n + 1
    <2>1. /\ IsFiniteSet(Sent(w, r) \cup {new})
          /\ \/ Cardinality(Sent(w, r) \cup {new}) = Cardinality(Sent(w, r))
             \/ Cardinality(Sent(w, r) \cup {new}) = Cardinality(Sent(w, r)) + 1
      BY <1>3, FS_AddElement
    <2>2. Cardinality(Sent(w, r)) \in Nat
      BY <1>3, FS_CardinalityType
    <2> HIDE DEF new, v
    <2>3. Cardinality(Sent(w, r) \cup {new}) <= n + 1
      BY <2>1, <2>2
    <2> QED BY <1>2, <2>1, <2>3
  <1>5. Cardinality(Sent(v, r)) <= RetryCount + 1
    BY <1>3, <1>4, FS_CardinalityType
  <1>6. /\ DOMAIN q = DOMAIN p \cup {k} /\ q[k] = entry
        /\ \A h \in DOMAIN p : h # k => q[h] = p[h]
        /\ entry.req = r /\ entry.retries = n
    BY DEF Put
  <1>7. \A h \in DOMAIN p : p[h].req \in Requests
    BY DEF IsMap, PendingRequest
  <1> HIDE DEF v, q, entry, new
  <1>8. \A i \in Requests : IsFiniteSet(Sent(v, i)) /\ Cardinality(Sent(v, i)) <= RetryCount + 1
    BY <1>1, <1>4, <1>5 DEF Attempts
  <1>9. \A h \in DOMAIN q : Cardinality(Sent(v, q[h].req)) <= q[h].retries + 1
    BY <1>1, <1>4, <1>6, <1>7 DEF Attempts
  <1>10. Attempts(q, v)
    BY <1>8, <1>9 DEF Attempts
  <1> QED BY <1>10 DEF v, q, entry, new

\* A request that leaves the pending ones is reported or sent again.
LEMMA PursuedStatusStep ==
    ASSUME IInv, PInv, NEW h \in DOMAIN cache, NEW discovery \in BOOLEAN, NEW e,
           discovery => DiscoveryRetries = 0,
           ProcessStatus(h, discovery, Without(cache, {h}), e), UNCHANGED envVars
    PROVE  PInv'
  <1> DEFINE entry == pendingReqs[h]
             r == entry.req
             c == Without(cache, {h})
             p == Without(pendingReqs, {h})
             j == jobs - 1
             d == IF discovery THEN entry.discoveryRetries + 1 ELSE 0
             n == IF discovery THEN 0 ELSE entry.retries + 1
  <1>1. /\ h \in DOMAIN pendingReqs /\ entry \in PendingRequest /\ r \in Requests
        /\ IsMap(pendingReqs, Nat, PendingRequest)
        /\ phase[r] = "pending" /\ transports = Peers /\ transports' = Peers
        /\ PeerOf[r] \in Peers
        /\ phase \in [Requests -> {"idle", "pending", "refused", "done"}]
    BY RequestCycleAssumption
       DEF IInv, Books, IsMap, PendingRequest, Waiting, Told, PInv, envVars
  <1>2. /\ DOMAIN p = DOMAIN pendingReqs \ {h} /\ \A g \in DOMAIN p : p[g] = pendingReqs[g]
        /\ IsMap(p, Nat, PendingRequest)
    BY <1>1 DEF Without, IsMap
  <1>3. \A g \in DOMAIN p : p[g].req # r
    <2>1. \A f, g \in DOMAIN pendingReqs : pendingReqs[f].req = pendingReqs[g].req => f = g
      BY DEF IInv, Books
    <2> QED BY <1>1, <1>2, <2>1
  <1>4. Attempts(p, wire) /\ Cardinality(Sent(wire, r)) <= entry.retries + 1
    BY <1>1, AttemptsDrop DEF PInv, Attempts
  <1>5. \A i \in Requests : phase[i] = "pending" /\ i # r => \E g \in DOMAIN p : p[g].req = i
    BY <1>2 DEF PInv, PendingIsAwaited
  <1>6. \/ /\ CallBack(r, Service!Failure) /\ pendingReqs' = p /\ wire' = wire
        \/ /\ SendPdu(r, c, e, p, j, n, d) /\ UNCHANGED appVars
           /\ ~(n > RetryCount \/ d > DiscoveryRetries)
        \/ PeerOf[r] \notin transports
    BY DEF ProcessStatus, SendPduRefused, SendPduUnsent
  <1>7. CASE CallBack(r, Service!Failure) /\ pendingReqs' = p /\ wire' = wire
    <2> HIDE DEF p, r
    <2>1. /\ phase'[r] = "done"
          /\ \A i \in Requests : i # r => phase'[i] = phase[i]
      BY <1>1, <1>7 DEF CallBack
    <2>2. PendingIsAwaited'
      BY <1>5, <1>7, <2>1 DEF PendingIsAwaited
    <2>3. \A i \in Requests : phase'[i] = "idle" => Sent(wire, i) = {}
      BY <2>1 DEF PInv
    <2> QED BY <1>1, <1>4, <1>7, <2>2, <2>3 DEF PInv
  <1>8. CASE /\ SendPdu(r, c, e, p, j, n, d) /\ UNCHANGED appVars
             /\ ~(n > RetryCount \/ d > DiscoveryRetries)
    <2>1. ~discovery
      <3>1. CASE discovery
        <4>1. entry.discoveryRetries \in Nat /\ d = entry.discoveryRetries + 1
              /\ DiscoveryRetries = 0
          BY <1>1, <3>1 DEF PendingRequest
        <4> QED BY <1>8, <4>1
      <3> QED BY <3>1
    <2>2. n \in Nat /\ n <= RetryCount /\ Cardinality(Sent(wire, r)) <= n
      BY <1>1, <1>4, <1>8, <2>1, RequestCycleAssumption DEF PendingRequest
    <2>3. /\ pendingReqs' = Put(p, handle, [req |-> r, retries |-> n, discoveryRetries |-> d])
          /\ wire' = wire \cup {[msgID |-> msgID, req |-> r]} /\ phase' = phase
      BY <1>8 DEF SendPdu, appVars
    <2>4. handle \notin DOMAIN p
      <3>1. /\ \A g \in DOMAIN p : g \in Nat /\ g < handle
            /\ handle \in Nat
        BY <1>2, RequestCycleAssumption DEF IInv, Books, IsMap, handle
      <3> QED BY <3>1
    <2> HIDE DEF p, n, d, r, c
    <2>5. Attempts(pendingReqs, wire)'
      BY <1>1, <1>2, <1>3, <1>4, <2>2, <2>3, AttemptsSend
    <2>6. /\ DOMAIN pendingReqs' = DOMAIN p \cup {handle} /\ pendingReqs'[handle].req = r
          /\ \A g \in DOMAIN p : pendingReqs'[g] = p[g]
      BY <2>3, <2>4 DEF Put
    <2>7. PendingIsAwaited'
      BY <1>5, <2>3, <2>6 DEF PendingIsAwaited
    <2>8. \A i \in Requests : i # r => Sent(wire', i) = Sent(wire, i)
      BY <2>3 DEF Sent
    <2>9. \A i \in Requests : phase'[i] = "idle" => Sent(wire', i) = {}
      BY <1>1, <2>3, <2>8 DEF PInv
    <2> QED BY <1>1, <2>5, <2>7, <2>9 DEF PInv
  <1> QED BY <1>1, <1>6, <1>7, <1>8

\* A request answered is reported.
LEMMA PursuedAnswerStep ==
    ASSUME IInv, PInv, NEW h \in DOMAIN cache, NEW res, NEW c, NEW e,
           ProcessAnswer(h, c, e, res), UNCHANGED envVars
    PROVE  PInv'
  <1> DEFINE r == pendingReqs[h].req
             p == Without(pendingReqs, {h})
  <1>1. /\ DOMAIN p = DOMAIN pendingReqs \ {h} /\ \A g \in DOMAIN p : p[g] = pendingReqs[g]
    BY DEF Without
  <1>2. pendingReqs' = p /\ wire' = wire /\ transports' = transports /\ CallBack(r, res)
    BY DEF ProcessAnswer, envVars
  <1>3. Attempts(p, wire)
    BY AttemptsDrop DEF PInv
  <1>4. /\ r \in Requests /\ phase'[r] = "done"
        /\ \A i \in Requests : i # r => phase'[i] = phase[i]
    BY <1>2 DEF IInv, Books, IsMap, PendingRequest, Told, CallBack
  <1> HIDE DEF p
  <1>5. PendingIsAwaited'
    BY <1>1, <1>2, <1>4 DEF PInv, PendingIsAwaited
  <1>6. \A i \in Requests : phase'[i] = "idle" => Sent(wire, i) = {}
    BY <1>4 DEF PInv
  <1> QED BY <1>2, <1>3, <1>5, <1>6 DEF PInv

LEMMA PursuedReceiveStep ==
    ASSUME Undisturbed, IInv, PInv, NEW msg \in wire, Receive(msg)
    PROVE  PInv'
  <1> DEFINE h == HandleOf(msg)
             e == PopBySendPduHandle(PopByMsgId(mp, msg.msgID), h)
  <1>1. ASSUME NEW kind, Replied(msg, kind)
        PROVE  h \in DOMAIN cache /\ kind \in ReplyKinds
    BY <1>1, RepliedFacts DEF Replied
  <1>2. CASE ReceiveMismatch(msg)
    BY <1>2 DEF ReceiveMismatch, appVars, envVars, PInv, PendingIsAwaited
  <1>3. CASE ReceiveResponse(msg)
    <2>1. PICK kind \in {"response", "badResponse"} :
            /\ Replied(msg, kind)
            /\ h \in DOMAIN cache =>
                 \E c, m, res : ProcessAnswer(h, c, m, res)
            /\ UNCHANGED envVars
      BY <1>3 DEF ReceiveResponse
    <2> HIDE DEF h
    <2>2. h \in DOMAIN cache
      BY <1>1, <2>1
    <2> QED BY <2>1, <2>2, PursuedAnswerStep
  <1>4. CASE ReceiveReport(msg)
    <2>1. PICK kind \in {"discovery", "report"} :
            /\ Replied(msg, kind)
            /\ ProcessStatus(h, kind = "discovery", Without(cache, {h}), e)
            /\ UNCHANGED envVars
      BY <1>4 DEF ReceiveReport
    <2> HIDE DEF h, e
    <2> DEFINE discovery == kind = "discovery"
    <2>2. /\ discovery \in BOOLEAN /\ ProcessStatus(h, discovery, Without(cache, {h}), e)
          /\ discovery => DiscoveryRetries = 0
      BY <1>1, <2>1 DEF Undisturbed
    <2> HIDE DEF discovery
    <2> QED BY <1>1, <2>1, <2>2, PursuedStatusStep
  <1>5. CASE ReceiveEmptyReport(msg)
    BY <1>1, <1>5 DEF ReceiveEmptyReport, Undisturbed
  <1> QED BY <1>2, <1>3, <1>4, <1>5 DEF Receive

LEMMA PursuedStartStep ==
    ASSUME IInv, PInv, NEW r \in Requests, StartRequest(r)
    PROVE  PInv'
  <1>1. /\ phase[r] = "idle" /\ transports' = transports
        /\ phase \in [Requests -> {"idle", "pending", "refused", "done"}]
        /\ Sent(wire, r) = {} /\ PeerOf[r] \in transports
    BY RequestCycleAssumption DEF StartRequest, IInv, Told, PInv, envVars
  <1>2. CASE /\ SendPdu(r, cache, mp, pendingReqs, jobs, 0, 0)
             /\ phase' = [phase EXCEPT ![r] = "pending"]
    <2>1. /\ pendingReqs' = Put(pendingReqs, handle,
                                [req |-> r, retries |-> 0, discoveryRetries |-> 0])
          /\ wire' = wire \cup {[msgID |-> msgID, req |-> r]}
      BY <1>2 DEF SendPdu
    <2>2. IsMap(pendingReqs, Nat, PendingRequest) /\ \A h \in DOMAIN pendingReqs : pendingReqs[h].req # r
      BY <1>1 DEF IInv, Books, Waiting
    <2>3. 0 \in Nat /\ 0 <= RetryCount /\ Cardinality(Sent(wire, r)) <= 0
      BY <1>1, FS_EmptySet, RequestCycleAssumption
    <2>4. Attempts(pendingReqs, wire)'
      BY <2>1, <2>2, <2>3, AttemptsSend DEF PInv
    <2>5. handle \notin DOMAIN pendingReqs
      <3>1. /\ \A g \in DOMAIN pendingReqs : g \in Nat /\ g < handle
            /\ handle \in Nat
        BY RequestCycleAssumption DEF IInv, Books, IsMap, handle
      <3> QED BY <3>1
    <2>6. /\ DOMAIN pendingReqs' = DOMAIN pendingReqs \cup {handle} /\ pendingReqs'[handle].req = r
          /\ \A g \in DOMAIN pendingReqs : pendingReqs'[g] = pendingReqs[g]
      BY <2>1, <2>5 DEF Put
    <2>7. phase'[r] = "pending" /\ \A i \in Requests : i # r => phase'[i] = phase[i]
      BY <1>1, <1>2
    <2>8. PendingIsAwaited'
      BY <2>6, <2>7 DEF PInv, PendingIsAwaited
    <2>9. \A i \in Requests : i # r => Sent(wire', i) = Sent(wire, i)
      BY <2>1 DEF Sent
    <2>10. \A i \in Requests : phase'[i] = "idle" => Sent(wire', i) = {}
      BY <2>7, <2>9 DEF PInv
    <2> QED BY <1>1, <2>4, <2>8, <2>10 DEF PInv
  <1>3. CASE /\ SendPduRefused(cache, mp, pendingReqs, jobs)
             /\ phase' = [phase EXCEPT ![r] = "refused"]
    <2>1. pendingReqs' = pendingReqs /\ wire' = wire
      BY <1>3 DEF SendPduRefused
    <2>2. phase'[r] = "refused" /\ \A i \in Requests : i # r => phase'[i] = phase[i]
      BY <1>1, <1>3
    <2> QED BY <1>1, <2>1, <2>2 DEF PInv, PendingIsAwaited
  <1> QED BY <1>1, <1>2, <1>3 DEF StartRequest, SendPduUnsent

LEMMA PursuedNextStep ==
    ASSUME Undisturbed, IInv, PInv, [Next]_vars
    PROVE  PInv'
  <1>1. CASE \E r \in Requests : StartRequest(r)
    BY <1>1, PursuedStartStep
  <1>2. CASE \E msg \in wire : Receive(msg)
    BY <1>2, PursuedReceiveStep
  <1>3. CASE \/ \E p \in Peers : TransportError(p)
             \/ Tick \/ FinishSweep
    BY <1>3 DEF TransportError, Tick, FinishSweep, appVars, dspVars, envVars, PInv, PendingIsAwaited
  <1>4. ASSUME NEW h \in sweep.todo, ExpireRequest(h)
        PROVE  PInv'
    <2>1. h \in DOMAIN cache /\ ProcessStatus(h, FALSE, Without(cache, {h}), PopBySendPduHandle(mp, h))
          /\ UNCHANGED envVars
      BY <1>4 DEF IInv, Sweeping, ExpireRequest
    <2> QED BY <2>1, PursuedStatusStep
  <1>5. CASE \E p \in Peers : UnregisterTransport(p) \/ RegisterTransport(p)
    BY <1>5 DEF UnregisterTransport, RegisterTransport, PInv, Undisturbed, IInv, Surroundings
  <1>6. CASE UNCHANGED vars
    BY <1>6 DEF vars, appVars, dspVars, envVars, PInv, PendingIsAwaited
  <1> QED BY <1>1, <1>2, <1>3, <1>4, <1>5, <1>6 DEF Next, Sweep

\* An undisturbed request is awaited until it is reported, and sent no more often
\* than its retries allow (processResponsePdu).
THEOREM RequestsArePursued ==
    ASSUME Undisturbed
    PROVE  SafeSpec => []AcceptedIsPursued
  <1>1. Init => PInv
    <2> SUFFICES ASSUME Init PROVE PInv
      OBVIOUS
    <2>1. \A r \in Requests : Sent(wire, r) = {}
      BY DEF Init, Sent
    <2>2. Attempts(pendingReqs, wire)
      <3>1. DOMAIN pendingReqs = {}
        BY DEF Init, EmptyMap
      <3>2. IsFiniteSet({}) /\ Cardinality({}) = 0
        BY FS_EmptySet
      <3>3. 0 <= RetryCount + 1
        BY RequestCycleAssumption
      <3>4. \A r \in Requests : IsFiniteSet(Sent(wire, r)) /\ Cardinality(Sent(wire, r)) = 0
        BY <2>1, <3>2
      <3> QED BY <3>1, <3>3, <3>4 DEF Attempts
    <2> QED BY <2>1, <2>2 DEF Init, PInv, PendingIsAwaited
  <1>2. IInv /\ PInv /\ [Next]_vars => PInv'
    BY PursuedNextStep
  <1>3. PInv => AcceptedIsPursued
    BY DEF PInv, Attempts, Sent, AcceptedIsPursued, AttemptsBounded
  <1> QED BY IInvInvariant, <1>1, <1>2, <1>3, PTL DEF SafeSpec
=============================================================================
