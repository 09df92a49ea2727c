------------------------------- MODULE MpCache -------------------------------
(***************************************************************************)
(* The operations of pysnmp.proto.mpmod.cache.Cache, which a message       *)
(* processing model keeps between a request and its response, on a record  *)
(*                                                                         *)
(*   msgIdIndex           the requests sent, by message ID                 *)
(*   sendPduHandleIdx     message ID of a sent request, by PDU handle      *)
(*   stateReferenceIndex  the requests being served, by state reference    *)
(*   queue                expirationQueue: what each coming tick expires   *)
(*                                                                         *)
(* The code keys the queue, and stamps entries, with expirationTimer +     *)
(* 600.  Here both are kept relative to the timer (expireAt - timer), so   *)
(* advancing the timer shifts them down by one and no counter grows.       *)
(***************************************************************************)
EXTENDS Integers, PythonData

CONSTANT Lifetime   \* ticks an entry is kept: 600 in the code

ASSUME LifetimeAssumption == Lifetime \in Nat \ {0}

NothingDue == [stateReference |-> {}, msgId |-> {}]

EmptyCache ==
    [msgIdIndex |-> EmptyMap, sendPduHandleIdx |-> EmptyMap,
     stateReferenceIndex |-> EmptyMap, queue |-> [t \in 0 .. Lifetime |-> NothingDue]]

HasMsgId(c, m) == m \in DOMAIN c.msgIdIndex
HasStateRef(c, s) == s \in DOMAIN c.stateReferenceIndex

\* Caller's guard: ~HasMsgId(c, m), the duplicate raises.
PushByMsgId(c, m, handle, info) ==
    [c EXCEPT !.msgIdIndex = Put(@, m, [sendPduHandle |-> handle, info |-> info,
                                        expireAt |-> Lifetime]),
              !.sendPduHandleIdx = Put(@, handle, m),
              !.queue[Lifetime].msgId = @ \cup {m}]

\* MUTANT of PopByMsgId: the scheduled expiry is forgotten.
PopByMsgIdKeepsQueue(c, m) ==
    LET entry == c.msgIdIndex[m]
    IN  [c EXCEPT !.sendPduHandleIdx = Without(@, {entry.sendPduHandle}),
                  !.msgIdIndex = Without(@, {m})]

\* Caller's guard: HasMsgId(c, m), the miss raises.
PopByMsgId(c, m) ==
    LET entry == c.msgIdIndex[m]
    IN  [c EXCEPT !.sendPduHandleIdx = Without(@, {entry.sendPduHandle}),
                  !.msgIdIndex = Without(@, {m}),
                  !.queue[entry.expireAt].msgId = @ \ {m}]

\* Silent on an unknown handle; a handle whose message already expired makes
\* popByMsgId raise, which releaseStateInformation swallows.
PopBySendPduHandle(c, handle) ==
    IF handle \in DOMAIN c.sendPduHandleIdx /\ HasMsgId(c, c.sendPduHandleIdx[handle])
    THEN PopByMsgId(c, c.sendPduHandleIdx[handle])
    ELSE c

\* Caller's guard: ~HasStateRef(c, s).
PushByStateRef(c, s, info) ==
    [c EXCEPT !.stateReferenceIndex = Put(@, s, [info |-> info, expireAt |-> Lifetime]),
              !.queue[Lifetime].stateReference = @ \cup {s}]

\* Caller's guard: HasStateRef(c, s).
PopByStateRef(c, s) ==
    [c EXCEPT !.stateReferenceIndex = Without(@, {s}),
              !.queue[c.stateReferenceIndex[s].expireAt].stateReference = @ \ {s}]

\* An index after one tick: what is due goes, the rest comes one tick closer.
Aged(index, due) ==
    [x \in DOMAIN index \ due |-> [index[x] EXCEPT !.expireAt = @ - 1]]

\* MUTANT of ExpireCaches: what is due is aged like the rest, not dropped.
ExpireCachesKeepsDue(c) ==
    [c EXCEPT !.msgIdIndex = Aged(@, {}),
              !.stateReferenceIndex = Aged(@, {}),
              !.queue = [t \in 0 .. Lifetime |->
                           IF t < Lifetime THEN @[t + 1] ELSE NothingDue]]

\* sendPduHandleIdx is left as it is, here as in the code.
ExpireCaches(c) ==
    [c EXCEPT !.msgIdIndex = Aged(@, c.queue[0].msgId),
              !.stateReferenceIndex = Aged(@, c.queue[0].stateReference),
              !.queue = [t \in 0 .. Lifetime |->
                           IF t < Lifetime THEN @[t + 1] ELSE NothingDue]]

-----------------------------------------------------------------------------
\* Types: identifiers in Ids, handles in Hs, what is remembered in Infos.
CacheType(c, Ids, Hs, Infos) ==
    /\ DOMAIN c = {"msgIdIndex", "sendPduHandleIdx", "stateReferenceIndex", "queue"}
    /\ IsMap(c.msgIdIndex, Ids, [sendPduHandle : Hs, info : Infos, expireAt : 0 .. Lifetime])
    /\ IsMap(c.sendPduHandleIdx, Hs, Ids)
    /\ IsMap(c.stateReferenceIndex, Ids, [info : Infos, expireAt : 0 .. Lifetime])
    /\ c.queue \in [0 .. Lifetime -> [stateReference : SUBSET Ids, msgId : SUBSET Ids]]

\* Nothing is scheduled without an entry, nor an entry kept unscheduled: the
\* deletions of popBy* and expireCaches never meet a missing key, and no entry
\* stays for ever.
QueueMatchesIndices(c) ==
    \A t \in 0 .. Lifetime :
        /\ c.queue[t].msgId =
             {m \in DOMAIN c.msgIdIndex : c.msgIdIndex[m].expireAt = t}
        /\ c.queue[t].stateReference =
             {s \in DOMAIN c.stateReferenceIndex : c.stateReferenceIndex[s].expireAt = t}

\* Every request that can be found by message ID can be found by its handle.
HandleFindsMessage(c) ==
    \A m \in DOMAIN c.msgIdIndex :
        /\ c.msgIdIndex[m].sendPduHandle \in DOMAIN c.sendPduHandleIdx
        /\ c.sendPduHandleIdx[c.msgIdIndex[m].sendPduHandle] = m

\* What the operations keep: types, queue and handle index in step.
CacheOK(c, Ids, Hs, Infos) ==
    /\ CacheType(c, Ids, Hs, Infos)
    /\ QueueMatchesIndices(c)
    /\ HandleFindsMessage(c)
=============================================================================
