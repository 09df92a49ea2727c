---------------------------- MODULE RequestCycle ----------------------------
(***************************************************************************)
(* The life of a request on the manager side of an engine: the command     *)
(* generator that retries it (entity.rfc3413.cmdgen), the dispatcher that  *)
(* times it out (proto.rfc3412 with proto.cache), the message processing   *)
(* model that matches the reply to it (proto.mpmod with its Cache), the    *)
(* dispatcher's timer and jobs (carrier), and a network that loses,        *)
(* delays, reorders and repeats what it carries.                           *)
(*                                                                         *)
(* Everything runs on one event loop, so a call runs to its end unless it  *)
(* is the sweep of Cache.expire, which calls the application back between  *)
(* two entries: each entry of a sweep is a step here, and only the         *)
(* application that was just called back may act between two of them.      *)
(* Timeouts are kept as the number of ticks left.                          *)
(***************************************************************************)
EXTENDS Integers, FiniteSets, MpCache

CONSTANTS
    Requests,         \* the requests applications make
    Peers, PeerOf,    \* PeerOf[r]: the transport domain and address r is for
    RetryCount,       \* retries configured for the targets
    DiscoveryRetries, \* the generator's discoveryRetries option
    Timeout,          \* request timeout, in ticks
    FirstHandle, FirstMsgId,  \* where the identifier generators start
    ReplyKinds,       \* what peers may reply with
    MaxSends,         \* BOUND: handles drawn in all
    MaxFailures,      \* BOUND: connection failures the transport reports
    MaxOutages        \* BOUND: times the transport is unregistered

AllReplyKinds ==
    {"response",      \* the response, as asked
     "badResponse",   \* a response CommandGenerator finds not to match
     "mismatch",      \* a response the message processing model finds not to match
     "discovery",     \* a report: unknownEngineID or notInTimeWindow
     "report",        \* a report naming another error
     "emptyReport"}   \* a report without variable bindings

ASSUME RequestCycleAssumption ==
    /\ PeerOf \in [Requests -> Peers]
    /\ RetryCount \in Nat /\ DiscoveryRetries \in Nat
    /\ Timeout \in Nat \ {0}
    /\ FirstHandle \in Nat /\ FirstMsgId \in Nat
    /\ ReplyKinds \subseteq AllReplyKinds
    /\ MaxSends \in Nat /\ MaxFailures \in Nat /\ MaxOutages \in Nat

VARIABLES
    phase,        \* phase[r]: what the application knows of its request
    result,       \* result[r]: what its callback was called with
    pendingReqs,  \* CommandGenerator.__pendingReqs
    jobs,         \* the dispatcher's count of the generator's jobs
    cache,        \* MsgAndPduDispatcher.__cache
    mp,           \* the message processing model's Cache
    drawn,        \* how many handles and message IDs were drawn
    wire,         \* the messages the network carries: it may repeat any
    sweep,        \* the sweep of Cache.expire in progress
    timerAlive,   \* the handle_timeout task is running
    transports,   \* the peers whose transport domain has a transport registered
    failures, outages  \* how often either happened

appVars == <<phase, result>>
dspVars == <<pendingReqs, jobs, cache, mp, drawn, wire>>
envVars == <<transports, failures, outages>>
vars == <<appVars, dspVars, sweep, timerAlive, envVars>>

Service == INSTANCE RequestService WITH Requests <- Requests, phase <- phase, result <- result

NoSweep == [cause |-> "none", todo |-> {}, reenter |-> FALSE]

Init ==
    /\ phase = [r \in Requests |-> "idle"]
    /\ result = [r \in Requests |-> Service!Nothing]
    /\ pendingReqs = EmptyMap /\ jobs = 0
    /\ cache = EmptyMap /\ mp = EmptyCache
    /\ drawn = 0 /\ wire = {}
    /\ sweep = NoSweep /\ timerAlive = TRUE
    /\ transports = Peers /\ failures = 0 /\ outages = 0

-----------------------------------------------------------------------------
(* MsgAndPduDispatcher.sendPdu and the bookkeeping its caller, the command *)
(* generator, does when it returns.  The arguments c, m, p, j are the      *)
(* caches, the pending requests and the jobs as the caller leaves them, n  *)
(* and d the retries and discovery retries already spent.                  *)

handle == FirstHandle + drawn
msgID == FirstMsgId + drawn

DrawIds == drawn < MaxSends /\ drawn' = drawn + 1

\* The message goes out.
SendPdu(r, c, m, p, j, n, d) ==
    /\ PeerOf[r] \in transports
    /\ DrawIds
    /\ cache' = Put(c, handle, [req |-> r, timeout |-> Timeout])
    /\ mp' = PushByMsgId(m, msgID, handle, r)
    /\ wire' = wire \cup {[msgID |-> msgID, req |-> r]}
    /\ jobs' = j + 1
    /\ pendingReqs' = Put(p, handle, [req |-> r, retries |-> n, discoveryRetries |-> d])

\* Preparing the message raises StatusInformation: the user or the model is
\* gone, or the message is too big.
SendPduRefused(c, m, p, j) ==
    /\ DrawIds
    /\ cache' = c /\ mp' = m /\ pendingReqs' = p /\ jobs' = j
    /\ UNCHANGED wire

\* The transport raises CarrierError.  The dispatcher forgets the request, the
\* message processing model does not.
SendPduUnsent(r, c, m, p, j) ==
    /\ PeerOf[r] \notin transports
    /\ DrawIds
    /\ mp' = PushByMsgId(m, msgID, handle, r)
    /\ cache' = c /\ pendingReqs' = p /\ jobs' = j
    /\ UNCHANGED wire

-----------------------------------------------------------------------------
(* CommandGenerator.processResponsePdu for handle h, with the dispatcher   *)
(* and message processing caches c and m as its caller leaves them.        *)

\* MUTANT of CallBack: the application is not called.
CallBackDropped(r, res) == UNCHANGED appVars

\* cbFun is called with res.
CallBack(r, res) ==
    /\ phase' = [phase EXCEPT ![r] = "done"]
    /\ result' = [result EXCEPT ![r] = res]

\* MUTANT of ProcessStatus: the retry is not counted.
ProcessStatusUncounted(h, discovery, c, m) ==
    LET entry == pendingReqs[h]
    IN  /\ SendPdu(entry.req, c, m, Without(pendingReqs, {h}), jobs - 1, entry.retries, 0)
        /\ sweep' = [sweep EXCEPT !.todo = @ \ {h}]
        /\ UNCHANGED <<appVars, timerAlive>>

\* With statusInformation: spend a retry and send again, or report the error.
\* An exception that is not StatusInformation leaves through whoever called: it
\* ends the sweep, and in a timer tick it ends the handle_timeout task too.
ProcessStatus(h, discovery, c, m) ==
    LET entry == pendingReqs[h]
        p == Without(pendingReqs, {h})
        j == jobs - 1
        d == IF discovery THEN entry.discoveryRetries + 1 ELSE 0
        n == IF discovery THEN 0 ELSE entry.retries + 1
        giveUp == n > RetryCount \/ d > DiscoveryRetries
        next == [sweep EXCEPT !.todo = @ \ {h}, !.reenter = FALSE]
    IN  \/ /\ giveUp
           /\ CallBack(entry.req, Service!Failure)
           /\ cache' = c /\ mp' = m /\ pendingReqs' = p /\ jobs' = j
           /\ sweep' = [next EXCEPT !.reenter = sweep.cause # "none"]
           /\ UNCHANGED <<drawn, wire, timerAlive>>
        \/ /\ ~giveUp
           /\ SendPdu(entry.req, c, m, p, j, n, d)
           /\ sweep' = next
           /\ UNCHANGED <<appVars, timerAlive>>
        \/ /\ ~giveUp
           /\ SendPduRefused(c, m, p, j)
           /\ CallBack(entry.req, Service!Failure)
           /\ sweep' = [next EXCEPT !.reenter = sweep.cause # "none"]
           /\ UNCHANGED timerAlive
        \/ /\ ~giveUp
           /\ SendPduUnsent(entry.req, c, m, p, j)
           /\ sweep' = NoSweep
           /\ timerAlive' = (timerAlive /\ sweep.cause # "tick")
           /\ UNCHANGED appVars

\* Without statusInformation: hand over the answer, or call it a bad response.
ProcessAnswer(h, c, m, res) ==
    /\ CallBack(pendingReqs[h].req, res)
    /\ pendingReqs' = Without(pendingReqs, {h}) /\ jobs' = jobs - 1
    /\ cache' = c /\ mp' = m
    /\ UNCHANGED <<drawn, wire, sweep, timerAlive>>

-----------------------------------------------------------------------------
\* The application's code runs: no call of the engine's is in progress, or one
\* has just called it back.
AppRuns == sweep.cause = "none" \/ sweep.reenter

\* MUTANT of StartRequest: what is raised is also handed to the callback.
StartRequestCallsBack(r) ==
    /\ AppRuns
    /\ phase[r] = "idle"
    /\ \/ /\ SendPdu(r, cache, mp, pendingReqs, jobs, 0, 0)
          /\ phase' = [phase EXCEPT ![r] = "pending"]
          /\ UNCHANGED result
       \/ /\ SendPduRefused(cache, mp, pendingReqs, jobs)
          /\ CallBack(r, Service!Failure)
    /\ UNCHANGED <<sweep, timerAlive, envVars>>

\* CommandGenerator.sendPdu.  Whatever the dispatcher raises is raised here.
StartRequest(r) ==
    /\ AppRuns
    /\ phase[r] = "idle"
    /\ \/ /\ SendPdu(r, cache, mp, pendingReqs, jobs, 0, 0)
          /\ phase' = [phase EXCEPT ![r] = "pending"]
       \/ /\ \/ SendPduRefused(cache, mp, pendingReqs, jobs)
             \/ SendPduUnsent(r, cache, mp, pendingReqs, jobs)
          /\ phase' = [phase EXCEPT ![r] = "refused"]
    /\ UNCHANGED <<result, sweep, timerAlive, envVars>>

(* MsgAndPduDispatcher.receiveMessage, for a reply to msg.  A reply whose  *)
(* message ID is not known is dropped (dataMismatch) and changes nothing;  *)
(* so is one from a transport that is no longer registered.                *)

Replied(msg, kind) ==
    /\ sweep.cause = "none" /\ PeerOf[msg.req] \in transports
    /\ kind \in ReplyKinds
    /\ HasMsgId(mp, msg.msgID)

\* The dispatcher's handle for a message the message processing model knows.
HandleOf(msg) == mp.msgIdIndex[msg.msgID].sendPduHandle

\* MUTANT of ReceiveMismatch: the dispatcher's entry is released with it.
ReceiveMismatchReleases(msg) ==
    /\ Replied(msg, "mismatch")
    /\ mp' = PopByMsgId(mp, msg.msgID)
    /\ cache' = Without(cache, {HandleOf(msg)})
    /\ UNCHANGED <<appVars, pendingReqs, jobs, drawn, wire, sweep, timerAlive, envVars>>

\* prepareDataElements pops the message ID, then finds the response to differ
\* from the request in security or context: the response is dropped.
ReceiveMismatch(msg) ==
    /\ Replied(msg, "mismatch")
    /\ mp' = PopByMsgId(mp, msg.msgID)
    /\ UNCHANGED <<appVars, pendingReqs, jobs, cache, drawn, wire, sweep, timerAlive, envVars>>

\* MUTANT of ReceiveResponse: the dispatcher's own entry is left to time out.
ReceiveResponseKeepsCache(msg) ==
    /\ Replied(msg, "response")
    /\ ProcessAnswer(HandleOf(msg), cache, PopByMsgId(mp, msg.msgID), Service!AnswerTo(msg.req))
    /\ UNCHANGED envVars

\* A response; one the dispatcher has no entry for is only counted.
ReceiveResponse(msg) ==
    LET h == HandleOf(msg)
        m == PopByMsgId(mp, msg.msgID)
    IN  \E kind \in {"response", "badResponse"} :
          /\ Replied(msg, kind)
          /\ IF h \in DOMAIN cache
             THEN ProcessAnswer(h, Without(cache, {h}), m,
                                IF kind = "response" THEN Service!AnswerTo(msg.req)
                                                     ELSE Service!Failure)
             ELSE /\ mp' = m
                  /\ UNCHANGED <<appVars, pendingReqs, jobs, cache, drawn, wire,
                                 sweep, timerAlive>>
          /\ UNCHANGED envVars

\* A report is the outcome of the request it answers, as a timeout would be.
ReceiveReport(msg) ==
    LET h == HandleOf(msg)
    IN  \E kind \in {"discovery", "report"} :
          /\ Replied(msg, kind)
          /\ ProcessStatus(h, kind = "discovery", Without(cache, {h}),
                           PopBySendPduHandle(PopByMsgId(mp, msg.msgID), h))
          /\ UNCHANGED envVars

\* A report without bindings names no error: processResponsePdu forgets the
\* request and then fails to find the errorIndication it wants.
ReceiveEmptyReport(msg) ==
    LET h == HandleOf(msg)
    IN  /\ Replied(msg, "emptyReport")
        /\ cache' = Without(cache, {h})
        /\ mp' = PopBySendPduHandle(PopByMsgId(mp, msg.msgID), h)
        /\ pendingReqs' = Without(pendingReqs, {h}) /\ jobs' = jobs - 1
        /\ UNCHANGED <<appVars, drawn, wire, sweep, timerAlive, envVars>>

-----------------------------------------------------------------------------
(* The sweeps: Cache.expire over the requests that are due.                *)

StartSweep(cause, due) ==
    sweep' = [cause |-> cause, todo |-> due, reenter |-> FALSE]

\* handleTimerTick: one tick less for everyone, then the engine's callback,
\* which sweeps the requests past their time.
Tick ==
    /\ timerAlive /\ sweep.cause = "none"
    /\ cache' = [h \in DOMAIN cache |->
                   [cache[h] EXCEPT !.timeout = IF @ > 0 THEN @ - 1 ELSE 0]]
    /\ StartSweep("tick", {h \in DOMAIN cache : cache[h].timeout <= 1})
    /\ UNCHANGED <<appVars, pendingReqs, jobs, mp, drawn, wire, timerAlive, envVars>>

\* receiveTransportError: the connection to peer p failed.
TransportError(p) ==
    /\ sweep.cause = "none" /\ p \in transports /\ failures < MaxFailures
    /\ failures' = failures + 1
    /\ StartSweep("error", {h \in DOMAIN cache : PeerOf[cache[h].req] = p})
    /\ UNCHANGED <<appVars, dspVars, timerAlive, transports, outages>>

\* MUTANT of ExpireRequest: releaseStateInformation is not called.
ExpireRequestUnreleased(h) ==
    /\ h \in sweep.todo
    /\ ProcessStatus(h, FALSE, Without(cache, {h}), mp)
    /\ UNCHANGED envVars

\* __expireRequest for one entry of the sweep.
ExpireRequest(h) ==
    /\ h \in sweep.todo
    /\ ProcessStatus(h, FALSE, Without(cache, {h}), PopBySendPduHandle(mp, h))
    /\ UNCHANGED envVars

\* MUTANT of FinishSweep: a transport failure expires messages as a tick does.
FinishSweepAlwaysExpires ==
    /\ sweep.cause # "none" /\ sweep.todo = {}
    /\ sweep' = NoSweep
    /\ mp' = ExpireCaches(mp)
    /\ UNCHANGED <<appVars, pendingReqs, jobs, cache, drawn, wire, timerAlive, envVars>>

\* The sweep is over; after a tick the message processing model expires too.
FinishSweep ==
    /\ sweep.cause # "none" /\ sweep.todo = {}
    /\ sweep' = NoSweep
    /\ mp' = IF sweep.cause = "tick" THEN ExpireCaches(mp) ELSE mp
    /\ UNCHANGED <<appVars, pendingReqs, jobs, cache, drawn, wire, timerAlive, envVars>>

-----------------------------------------------------------------------------
\* The application unregisters the transport of one domain, and registers it
\* again.  The dispatcher stops its timer with the last transport and starts a
\* new one with the first.
UnregisterTransport(p) ==
    /\ AppRuns /\ p \in transports /\ outages < MaxOutages
    /\ transports' = transports \ {p}
    /\ outages' = outages + 1
    /\ timerAlive' = (timerAlive /\ transports' # {})
    /\ UNCHANGED <<appVars, dspVars, sweep, failures>>

RegisterTransport(p) ==
    /\ AppRuns /\ p \notin transports
    /\ transports' = transports \cup {p}
    /\ timerAlive' = (timerAlive \/ transports = {})
    /\ UNCHANGED <<appVars, dspVars, sweep, failures, outages>>

Receive(msg) ==
    \/ ReceiveMismatch(msg) \/ ReceiveResponse(msg)
    \/ ReceiveReport(msg) \/ ReceiveEmptyReport(msg)

Sweep == FinishSweep \/ \E h \in sweep.todo : ExpireRequest(h)

Next ==
    \/ \E r \in Requests : StartRequest(r)
    \/ \E msg \in wire : Receive(msg)
    \/ \E p \in Peers : TransportError(p)
    \/ Tick \/ Sweep
    \/ \E p \in Peers : UnregisterTransport(p) \/ RegisterTransport(p)

SafeSpec == Init /\ [][Next]_vars

\* The event loop goes on: the timer task ticks, a sweep in progress ends.
Spec == SafeSpec /\ WF_vars(Tick) /\ WF_vars(Sweep)

-----------------------------------------------------------------------------
\* The records of a request.
CachedRequest == [req : Requests, timeout : Nat]
PendingRequest == [req : Requests, retries : Nat, discoveryRetries : Nat]
SentMessage == [msgID : Nat, req : Requests]
Sweeps == [cause : {"none", "tick", "error"}, todo : SUBSET Nat, reenter : BOOLEAN]

\* Types of the engine's state.
TypeOK ==
    /\ phase \in [Requests -> {"idle", "pending", "refused", "done"}]
    /\ result \in [Requests -> {Service!Nothing, Service!Failure}
                               \cup {Service!AnswerTo(r) : r \in Requests}]
    /\ IsMap(pendingReqs, Nat, PendingRequest)
    /\ IsMap(cache, Nat, CachedRequest)
    /\ CacheType(mp, Nat, Nat, Requests)
    /\ jobs \in Int /\ drawn \in Nat
    /\ wire \subseteq SentMessage /\ sweep \in Sweeps
    /\ timerAlive \in BOOLEAN /\ transports \subseteq Peers
    /\ failures \in Nat /\ outages \in Nat

\* The generator awaits exactly the requests the dispatcher will time out, each
\* for the same application request, with a job for each, and no application
\* request twice: processResponsePdu never misses its handle, and
\* runDispatcher neither returns early nor waits for nothing.
GeneratorAndDispatcherAgree ==
    /\ DOMAIN pendingReqs = DOMAIN cache
    /\ \A h \in DOMAIN cache :
         /\ cache[h].req = pendingReqs[h].req
         /\ phase[cache[h].req] = "pending"
    /\ \A g, h \in DOMAIN cache : cache[g].req = cache[h].req => g = h
    /\ jobs = Cardinality(DOMAIN cache)

\* A message on the wire that the message processing model still knows belongs
\* to a request the dispatcher holds, and is of that request: a reply, however
\* late or often it comes, reaches the request it is for or nobody
\* (receiveMessage takes cached parameters without looking whether they exist).
KnownReplyHasRequest ==
    \A msg \in wire :
        HasMsgId(mp, msg.msgID) =>
            /\ HandleOf(msg) \in DOMAIN cache
            /\ cache[HandleOf(msg)].req = msg.req

\* While the dispatcher waits for a request, its message does not expire from
\* the message processing model: a response in time is still matched
\* (expireCaches against the request's own timeout).
KeptWhileAwaited ==
    \A h \in DOMAIN cache :
        h \in DOMAIN mp.sendPduHandleIdx => HasMsgId(mp, mp.sendPduHandleIdx[h])

\* Every message the message processing model remembers is due to expire at the
\* tick its entry says, nothing else is due, and the dispatcher can release it
\* by its handle: however replies, releases and sweeps take turns, popByMsgId
\* and expireCaches never delete a key that is not there, and no message of a
\* request that is over stays for ever (mpmod.cache.Cache).
ExpiryIsScheduled == QueueMatchesIndices(mp) /\ HandleFindsMessage(mp)

\* Every request accepted and not yet reported is being waited for: whatever
\* happens to it, processResponsePdu retries it or reports it.
PendingIsAwaited ==
    \A r \in Requests : phase[r] = "pending" => \E h \in DOMAIN pendingReqs : pendingReqs[h].req = r

\* A request is sent no more often than its retries allow.  (Without discovery:
\* a discovery starts the retries over, and a retry the discoveries.)
AttemptsBounded ==
    \A r \in Requests : Cardinality({msg \in wire : msg.req = r}) <= RetryCount + 1

\* An application sees a request service: each request refused or completed
\* once, by its own answer or an error (callbacks of processResponsePdu).
ImplementsServiceSafely == Service!SafeSpec

\* ... and every accepted request is completed.
ImplementsService == Service!Spec


\* An accepted request is neither given up in silence nor sent without end: it is
\* awaited until it is reported, and sent as often as it may be (processResponsePdu).
AcceptedIsPursued == PendingIsAwaited /\ AttemptsBounded
=============================================================================
