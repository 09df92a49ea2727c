----------------------------- MODULE Responder -----------------------------
(***************************************************************************)
(* The agent side of an engine serving community requests: the message     *)
(* processing model that remembers how to answer (proto.mpmod.rfc2576), the *)
(* community security model that remembers with which community            *)
(* (proto.secmod), the dispatcher that hands the request to its            *)
(* application and finishes it in a task when the instrumentation suspends *)
(* (proto.rfc3412, carrier.asyncio.dispatch), the command responder        *)
(* (entity.rfc3413.cmdrsp) and the execution points access control reads   *)
(* the requester from (entity.observer).                                   *)
(*                                                                         *)
(* Code between two awaits runs in one step.  A request is also its own    *)
(* state reference and security state reference: each is drawn once.       *)
(***************************************************************************)
EXTENDS FiniteSets, MpCache

CONSTANTS
    Requests,          \* the requests that arrive
    Requesters, From,  \* From[r]: who sent r, and from where
    Loop, Nobody,      \* the context of code outside the tasks; no requester
    Outcomes,          \* how the instrumentation may end
    MaxCloses          \* BOUND: times the dispatcher is closed

AllOutcomes ==
    {"value",     \* it returns bindings
     "smiError",  \* it raises an SmiError
     "report",    \* access control wants a report: no such context
     "refused",   \* it raises another PySnmpError
     "crash"}     \* it raises something else

ASSUME ResponderAssumption ==
    /\ From \in [Requests -> Requesters]
    /\ Loop \notin Requests /\ Nobody \notin Requesters
    /\ Outcomes \subseteq AllOutcomes /\ MaxCloses \in Nat

VARIABLES
    stage,          \* stage[r]: where the serving of r is
    result,         \* result[r]: what became of it
    mp,             \* the message processing model's Cache
    security,       \* the requests in the security model's Cache
    pendingReqs,    \* CommandResponderBase.__pendingReqs
    transportInfo,  \* MsgAndPduDispatcher.__transportInfo
    execpoint,      \* execpoint[t]: the requester recorded in context t
    previous,       \* previous[r]: what r's task has to restore
    consulted,      \* consulted[r]: the requesters access control took r to be from
    jobs,           \* deferred work the dispatcher counts
    registered,     \* the responder is registered with the dispatcher
    open, closes    \* the transport dispatcher is there; how often it was closed

served == <<stage, result>>
caches == <<mp, security, pendingReqs>>
points == <<execpoint, previous, consulted>>
engine == <<registered, open, closes>>
vars == <<served, caches, transportInfo, points, jobs, engine>>

Init ==
    /\ stage = [r \in Requests |-> "new"]
    /\ result = [r \in Requests |-> "none"]
    /\ mp = EmptyCache /\ security = {} /\ pendingReqs = {}
    /\ transportInfo = EmptyMap
    /\ execpoint = [t \in Requests \cup {Loop} |-> Nobody]
    /\ previous = [r \in Requests |-> Nobody]
    /\ consulted = [r \in Requests |-> {}]
    /\ jobs = 0 /\ registered = TRUE /\ open = TRUE /\ closes = 0

\* MUTANT of ContextOf: the execution points are the engine's, not the task's.
ContextShared(r) == Loop

\* The context r's task runs in: create_task gives each its own.
ContextOf(r) == r

-----------------------------------------------------------------------------
(* Answering.  The arguments m and s are the two caches as the caller has  *)
(* them.                                                                   *)

\* returnResponsePdu with prepareResponseMessage.  Without the state reference
\* it raises; told to report, it gives up the state reference and says
\* nonReportable; otherwise it may still find the message too big, or the
\* transport gone.
ReturnResponsePdu(r, report, m, s, verdict) ==
    \/ /\ ~HasStateRef(m, r) /\ verdict = "raised"
       /\ mp' = m /\ security' = s
    \/ /\ HasStateRef(m, r) /\ report /\ verdict = "swallowed"
       /\ mp' = PopByStateRef(m, r) /\ security' = s
    \/ /\ HasStateRef(m, r) /\ ~report /\ verdict \in {"sent", "swallowed", "raised"}
       /\ mp' = PopByStateRef(m, r) /\ security' = s \ {r}

\* MUTANT of EndOperation: an answer that cannot be sent is let out.
EndOperationLetsOut(r, how, m, s, p) ==
    /\ \/ /\ ~registered \/ how = "crash"
          /\ mp' = m /\ security' = s /\ pendingReqs' = p
          /\ result' = [result EXCEPT ![r] = "raised"]
       \/ \E verdict \in {"sent", "swallowed", "raised"} :
            /\ registered /\ how # "crash"
            /\ ReturnResponsePdu(r, FALSE, m, s, verdict)
            /\ pendingReqs' = IF verdict = "raised" THEN p ELSE p \ {r}
            /\ result' = [result EXCEPT ![r] = IF verdict = "sent" THEN "answered" ELSE "dropped"]

\* processPdu (or _completeMgmtOperation) once the instrumentation has ended,
\* _failedMgmtOperation included; p is pendingReqs.  A failure to answer counts
\* as a failure of the operation, but not a failure to answer with an error: it
\* goes out, as anything does that is not a PySnmpError, and as everything does
\* when the responder was closed and has no __pendingReqs.
EndOperation(r, how, m, s, p) ==
    /\ \/ /\ ~registered \/ how = "crash"
          /\ mp' = m /\ security' = s /\ pendingReqs' = p
          /\ result' = [result EXCEPT ![r] = "raised"]
       \/ /\ registered /\ how = "refused"
          /\ mp' = m /\ security' = s /\ pendingReqs' = p \ {r}
          /\ result' = [result EXCEPT ![r] = "dropped"]
       \/ \E verdict \in {"sent", "swallowed", "raised"} :
            /\ registered /\ how = "value"
            /\ ReturnResponsePdu(r, FALSE, m, s, verdict)
            /\ pendingReqs' = p \ {r}
            /\ result' = [result EXCEPT ![r] = IF verdict = "sent" THEN "answered" ELSE "dropped"]
       \/ \E verdict \in {"sent", "swallowed", "raised"} :
            /\ registered /\ how \in {"smiError", "report"}
            /\ ReturnResponsePdu(r, how = "report", m, s, verdict)
            /\ pendingReqs' = IF verdict = "raised" THEN p ELSE p \ {r}
            /\ result' = [result EXCEPT ![r] = CASE verdict = "sent" -> "errorStatus"
                                                 [] verdict = "raised" -> "raised"
                                                 [] OTHER -> "dropped"]

-----------------------------------------------------------------------------
(* receiveMessage for a request, prepareDataElements included.             *)

\* MUTANT of Remembered: the security state is released here, as it is for a
\* notification.
RememberedReleased(r) == [mp |-> PushByStateRef(mp, r, From[r]), security |-> security]

\* The caches after prepareDataElements.
Remembered(r) == [mp |-> PushByStateRef(mp, r, From[r]), security |-> security \cup {r}]

\* No application is registered: the report cannot be made, and is not sent.
ReceiveUnhandled(r) ==
    /\ open /\ stage[r] = "new" /\ ~registered
    /\ ReturnResponsePdu(r, TRUE, Remembered(r).mp, Remembered(r).security, "swallowed")
    /\ stage' = [stage EXCEPT ![r] = "over"]
    /\ result' = [result EXCEPT ![r] = "dropped"]
    /\ UNCHANGED <<pendingReqs, transportInfo, points, jobs, engine>>

\* The instrumentation ends at once, having asked access control as it liked.
ReceiveServed(r) ==
    /\ open /\ stage[r] = "new" /\ registered
    /\ \E how \in Outcomes :
         EndOperation(r, how, Remembered(r).mp, Remembered(r).security, pendingReqs \cup {r})
    /\ stage' = [stage EXCEPT ![r] = "over"]
    /\ consulted' = [consulted EXCEPT ![r] = {From[r]}]
    /\ UNCHANGED <<transportInfo, execpoint, previous, jobs, engine>>

\* The instrumentation is a coroutine: the rest is left to a task, which holds
\* the transport information.
ReceiveDeferred(r) ==
    /\ open /\ stage[r] = "new" /\ registered
    /\ mp' = Remembered(r).mp /\ security' = Remembered(r).security
    /\ pendingReqs' = pendingReqs \cup {r}
    /\ transportInfo' = Put(transportInfo, r, From[r])
    /\ jobs' = jobs + 1
    /\ stage' = [stage EXCEPT ![r] = "deferred"]
    /\ UNCHANGED <<result, points, engine>>

\* ... or abandoned, if the dispatcher cannot run it.
ReceiveAbandoned(r) ==
    /\ open /\ stage[r] = "new" /\ registered
    /\ mp' = Remembered(r).mp /\ security' = Remembered(r).security
    /\ pendingReqs' = pendingReqs \cup {r}
    /\ stage' = [stage EXCEPT ![r] = "over"]
    /\ result' = [result EXCEPT ![r] = "raised"]
    /\ UNCHANGED <<transportInfo, points, jobs, engine>>

-----------------------------------------------------------------------------
(* __completeRequest, the task of a suspended request.                     *)

\* It starts: the execution point and the transport information are put back,
\* and the instrumentation runs until it waits.
StartTask(r) ==
    LET t == ContextOf(r)
    IN  /\ stage[r] = "deferred"
        /\ previous' = [previous EXCEPT ![r] = execpoint[t]]
        /\ execpoint' = [execpoint EXCEPT ![t] = From[r]]
        /\ transportInfo' = Put(transportInfo, r, From[r])
        /\ stage' = [stage EXCEPT ![r] = "waiting"]
        /\ UNCHANGED <<result, caches, consulted, jobs, engine>>

\* It goes on, asks access control about an object and waits again.
ResumeTask(r) ==
    /\ stage[r] = "waiting"
    /\ consulted' = [consulted EXCEPT ![r] = @ \cup {execpoint[ContextOf(r)]}]
    /\ UNCHANGED <<served, caches, transportInfo, execpoint, previous, jobs, engine>>

\* MUTANT of Unwind: the transport information is left behind.
UnwindKeepsInfo(r) ==
    /\ execpoint' = [execpoint EXCEPT ![ContextOf(r)] = previous[r]]
    /\ jobs' = jobs - 1
    /\ stage' = [stage EXCEPT ![r] = "over"]
    /\ UNCHANGED <<transportInfo, previous, consulted, engine>>

\* The task is over, one way or the other.
Unwind(r) ==
    /\ execpoint' = [execpoint EXCEPT ![ContextOf(r)] = previous[r]]
    /\ transportInfo' = Without(transportInfo, {r})
    /\ jobs' = jobs - 1
    /\ stage' = [stage EXCEPT ![r] = "over"]
    /\ UNCHANGED <<previous, consulted, engine>>

\* MUTANT of EndTask: a failing task's job is not finished.
EndTaskKeepsJob(r) ==
    /\ stage[r] = "waiting"
    /\ \E how \in Outcomes : EndOperation(r, how, mp, security, pendingReqs)
    /\ stage' = [stage EXCEPT ![r] = "over"]
    /\ transportInfo' = Without(transportInfo, {r})
    /\ jobs' = IF result'[r] = "raised" THEN jobs ELSE jobs - 1
    /\ UNCHANGED <<points, engine>>

\* MUTANT of EndTask: a task ends with its answer or not at all.
EndTaskAnswers(r) ==
    /\ stage[r] = "waiting"
    /\ HasStateRef(mp, r)
    /\ \E how \in Outcomes : EndOperation(r, how, mp, security, pendingReqs)
    /\ Unwind(r)

\* The instrumentation ends.  (The job is finished by the task's done callback,
\* which the loop runs right after it.)
EndTask(r) ==
    /\ stage[r] = "waiting"
    /\ \E how \in Outcomes : EndOperation(r, how, mp, security, pendingReqs)
    /\ Unwind(r)

\* A task that was cancelled where it waited unwinds ...
CancelWaiting(r) ==
    /\ stage[r] = "cancelled"
    /\ Unwind(r)
    /\ result' = [result EXCEPT ![r] = "raised"]
    /\ UNCHANGED <<caches>>

\* ... and one cancelled before it started never runs, not even to clean up.
CancelUnstarted(r) ==
    /\ stage[r] = "stillborn"
    /\ stage' = [stage EXCEPT ![r] = "over"]
    /\ result' = [result EXCEPT ![r] = "raised"]
    /\ jobs' = jobs - 1
    /\ UNCHANGED <<caches, transportInfo, points, engine>>

-----------------------------------------------------------------------------
\* The timer: message processing forgets what was not answered in time.
Tick ==
    /\ open
    /\ mp' = ExpireCaches(mp)
    /\ UNCHANGED <<served, security, pendingReqs, transportInfo, points, jobs, engine>>

\* CommandResponderBase.close.
CloseResponder ==
    /\ registered
    /\ registered' = FALSE /\ pendingReqs' = {}
    /\ UNCHANGED <<served, mp, security, transportInfo, points, jobs, open, closes>>

\* SnmpEngine.closeDispatcher: the tasks are cancelled.
CloseDispatcher ==
    /\ open /\ closes < MaxCloses
    /\ open' = FALSE /\ closes' = closes + 1
    /\ stage' = [r \in Requests |-> CASE stage[r] = "deferred" -> "stillborn"
                                      [] stage[r] = "waiting" -> "cancelled"
                                      [] OTHER -> stage[r]]
    /\ UNCHANGED <<result, caches, transportInfo, points, jobs, registered>>

\* The application registers a new dispatcher with the engine.
OpenDispatcher ==
    /\ ~open /\ open' = TRUE
    /\ UNCHANGED <<served, caches, transportInfo, points, jobs, registered, closes>>

Receive(r) ==
    ReceiveUnhandled(r) \/ ReceiveServed(r) \/ ReceiveDeferred(r) \/ ReceiveAbandoned(r)

RunTask(r) == StartTask(r) \/ EndTask(r) \/ CancelWaiting(r) \/ CancelUnstarted(r)

Next ==
    \/ \E r \in Requests : Receive(r) \/ RunTask(r) \/ ResumeTask(r)
    \/ Tick \/ CloseResponder \/ CloseDispatcher \/ OpenDispatcher

\* The loop runs its timer and its tasks, and what instrumentation waits for
\* comes.
Spec == Init /\ [][Next]_vars /\ WF_vars(Tick) /\ \A r \in Requests : WF_vars(RunTask(r))

-----------------------------------------------------------------------------
\* The requests a task is, or was, to finish.
Live == {r \in Requests : stage[r] \in {"deferred", "waiting", "cancelled", "stillborn"}}

\* Types of the agent's state.
TypeOK ==
    /\ stage \in [Requests -> {"new", "deferred", "waiting", "cancelled", "stillborn", "over"}]
    /\ result \in [Requests -> {"none", "answered", "errorStatus", "dropped", "raised"}]
    /\ CacheType(mp, Requests, {}, Requesters)
    /\ security \subseteq Requests /\ pendingReqs \subseteq Requests
    /\ IsMap(transportInfo, Requests, Requesters)
    /\ execpoint \in [Requests \cup {Loop} -> Requesters \cup {Nobody}]
    /\ previous \in [Requests -> Requesters \cup {Nobody}]
    /\ consulted \in [Requests -> SUBSET (Requesters \cup {Nobody})]
    /\ jobs \in Int /\ registered \in BOOLEAN /\ open \in BOOLEAN /\ closes \in Nat

\* Access control decides about a request with its own requester's identity,
\* however many others were served while it waited (__verifyAccess reads
\* the execution point rfc3412.receiveMessage:request).
OwnIdentity == \A r \in Requests : consulted[r] \subseteq {From[r]}

\* A request that message processing can still answer has its community in the
\* security model's cache: generateResponseMsg does not miss.
AnswerableHasSecurity == DOMAIN mp.stateReferenceIndex \subseteq security

\* The dispatcher counts one job for every request a task is to finish, so that
\* runDispatcher neither returns under it nor waits for nothing, even after
\* failures and cancellations.
JobsCountTasks == jobs = Cardinality(Live)

\* The responder forgets a request when it is over, unless an exception left it
\* or the task was cancelled.
PendingIsServed == \A r \in pendingReqs : r \in Live \/ result[r] = "raised"

\* Where a request came from is known only while it is being served, "restored
\* for as long as this request is running and dropped again when it is done"
\* (__completeRequest), unless its task was cancelled: one cancelled before its
\* first step never reaches its finally clause.
TransportInfoIsLive ==
    \A r \in DOMAIN transportInfo : r \in Live \/ (closes > 0 /\ result[r] = "raised")

\* A request handed to a task is over in the end.
DeferredEnds == \A r \in Requests : stage[r] = "deferred" ~> stage[r] = "over"

\* The books of the layers agree about each request, while it waits, when it fails,
\* is cancelled or expires: message processing, security, the responder, the
\* execution points and the jobs of the dispatcher.
CachesAgree == TypeOK /\ AnswerableHasSecurity /\ JobsCountTasks /\ PendingIsServed /\ TransportInfoIsLive
=============================================================================
