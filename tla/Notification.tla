---------------------------- MODULE Notification ----------------------------
(***************************************************************************)
(* Sending notifications: hlapi.asyncio.ntforg.send_notification, which    *)
(* configures the engine (Lcd), makes a notification originator            *)
(* (entity.rfc3413.ntforg) for the one call and awaits a future.  An       *)
(* inform goes to every target of its tag and is reported once.            *)
(*                                                                         *)
(* The dispatcher below (RequestCycle) completes each request it accepted  *)
(* by an answer, a report or a timeout.  A request is known here by its    *)
(* notification and the address it went to: a retry replaces it.           *)
(***************************************************************************)
EXTENDS Lcd

CONSTANTS
    Notifications,
    VarBinds,          \* what they carry
    RetryCount, DiscoveryRetries,
    FailingSends,      \* the message may also fail to be sent
    MaxReports         \* BOUND on the reports of the peers: a peer whose reports and
                       \* timeouts alternate is tried for ever

VARIABLES
    phase,    \* phase[n] of the call: idle, refused (it raised), pending, done
    result,   \* result[n]: what the call returned
    future,   \* future[n]: what the callback was called with
    trap,     \* the notifications whose call_soon is to come
    reqs,     \* reqs[n]: the originator's pendingReqs, address -> request
    awaited,  \* awaited[n]: its pendingNotifications
    jobs,     \* jobs[n]: what it counts on the engine's dispatcher
    ticking,  \* the dispatcher's timer task is alive
    reports,  \* how many reports the peers sent
    orphaned  \* notifications that were outstanding when the last transport went, or
              \* that a retry found without a transport

ntfVars == <<phase, result, future, trap, reqs, awaited, jobs, ticking, reports, orphaned>>
vars == <<lcdVars, ntfVars>>

Unset == "unset"
NoAnswer == "noAnswer"    \* an error, or success without a peer: a trap, a local no-op
Answer == "answer"        \* the last target's acknowledgement
Cancelled == "cancelled"

Init ==
    /\ LcdInit
    /\ phase = [n \in Notifications |-> "idle"]
    /\ result = [n \in Notifications |-> Unset]
    /\ future = [n \in Notifications |-> Unset]
    /\ trap = {} /\ orphaned = {}
    /\ reqs = [n \in Notifications |-> EmptyMap]
    /\ awaited = [n \in Notifications |-> {}]
    /\ jobs = [n \in Notifications |-> 0]
    /\ ticking = TRUE /\ reports = 0

----------------------------------------------------------------------------
\* sendVarBinds

Bindings == OrderNotificationVarBinds(VarBinds)

\* The security model finds the sender's credentials (the request is encoded).
Encodes(tables, p) ==
    IF p.model = 3 THEN LET row == <<LocalEngine, p.securityName>> IN
                        /\ row \in DOMAIN tables.user
                        /\ p.level = 1 \/ tables.user[row].key # NoKeys
    ELSE \E c \in DOMAIN tables.community : tables.community[c].securityName = p.securityName

\* Filtering and access control for one target.
Permitted(tables, paramsName, ctx) ==
    LET p == tables.params[paramsName] IN
    /\ PassesFilter(FilterOf(tables, paramsName), Bindings)
    /\ \A name \in ObjectNames(Bindings) \cup {Bindings[2].value} :
          IsAccessAllowed(tables, p.model, p.securityName, p.level, "notify", ctx, name) = "allowed"

\* What the loop does with one target: "raise" leaves the call by an exception
\* (no parameters, or an inform for a v1 peer, which cannot be translated).
Fate(tables, x, type, ctx) ==
    LET paramsName == tables.addr[x].params IN
    IF paramsName \notin DOMAIN tables.params THEN "raise"
    ELSE IF ~Permitted(tables, paramsName, ctx) THEN "skip"
    ELSE IF type = "inform" /\ tables.params[paramsName].mp = 0 THEN "raise"
    ELSE IF Encodes(tables, tables.params[paramsName]) THEN "send" ELSE "fail"

\* A request, "open" while the transport it was sent over is there.
Fresh(p, domain) == [model |-> p.model, securityName |-> p.securityName, level |-> p.level,
                     domain |-> domain, open |-> TRUE, retries |-> 0, discoveries |-> 0]

\* The loop over the targets of the tag, in the table's order, which is by name
\* and so any: it sends to some and ends, or stops at the first that raises or fails.
\* "outcome" is what it leaves: [sent, stop] with stop in {"none", "fail", "raise"}.
LoopOutcomes(tables, names, type, ctx) ==
    LET F(x) == Fate(tables, x, type, ctx)
        sendable == {x \in names : F(x) = "send"}
        failing == {x \in names : F(x) = "fail"} \cup (IF FailingSends THEN sendable ELSE {})
        raising == {x \in names : F(x) = "raise"}
        stopped(X, how) == {[sent |-> S, stop |-> how] :
                              S \in UNION {SUBSET (sendable \ {x}) : x \in X}}
    IN stopped(failing, "fail") \cup stopped(raising, "raise")
       \cup (IF {x \in names : F(x) \in {"fail", "raise"}} = {}
             THEN {[sent |-> sendable, stop |-> "none"]} ELSE {})

\* sendVarBinds as a whole, once the tables are in place.
SendVarBinds(n, tables, notifyName, ctx) ==
    LET info == tables.notify[notifyName]
        inform == info.type = "inform"
    IN \E o \in LoopOutcomes(tables, TargetNames(tables, info.tag), info.type, ctx) :
       /\ reqs' = [reqs EXCEPT ![n] =
            IF inform
            THEN [x \in o.sent |-> Fresh(tables.params[tables.addr[x].params], tables.addr[x].domain)]
            ELSE EmptyMap]
       /\ awaited' = [awaited EXCEPT ![n] = IF inform THEN o.sent ELSE {}]
       /\ jobs' = [jobs EXCEPT ![n] = IF inform THEN Cardinality(o.sent) ELSE 0]
       /\ phase' = [phase EXCEPT ![n] = IF o.stop = "raise" THEN "refused" ELSE "pending"]
       /\ future' = [future EXCEPT ![n] =
            IF \/ o.stop = "fail" /\ (~inform \/ o.sent = {})
               \/ o.stop = "none" /\ inform /\ o.sent = {}
            THEN NoAnswer ELSE @]
       /\ trap' = IF inform \/ o.stop = "raise" THEN trap ELSE trap \cup {n}

\* send_notification
SendNotification(n, a, given, type, ctx) ==
    LET target == Tagged(a, given)
        auth == ConfigureAuth(a)
        refused == /\ phase' = [phase EXCEPT ![n] = "refused"]
                   /\ UNCHANGED <<future, trap, reqs, awaited, jobs>>
    IN /\ phase[n] = "idle"
       /\ named + 2 + Len(target.tags) <= MaxNames /\ Unspent(target.domain)
       /\ UNCHANGED <<result, ticking, reports, orphaned>>
       /\ \/ ~auth.ok /\ RefusedCredentials(a, auth) /\ refused
          \/ /\ auth.ok
             /\ spoiled' = Mended(a, auth)
             /\ \/ /\ FailingTransports /\ target.domain \notin DOMAIN cg.tran
                   /\ TransportRefused(auth, a) /\ refused
                \/ LET c == ConfigureNotify(ConfigureRows(auth.t, auth.auth, a, target), a, target, type, ctx)
                   IN /\ t' = c.t /\ cg' = c.cg /\ no' = c.no /\ named' = c.named
                      /\ SendVarBinds(n, c.t, c.name, ctx)

\* MUTANT of TrapFun: the caller is not told.
TrapFunSilent(n) ==
    /\ n \in trap
    /\ trap' = trap \ {n}
    /\ UNCHANGED <<lcdVars, phase, result, future, reqs, awaited, jobs, ticking, reports, orphaned>>

\* The call_soon of a trap; a future the callback set already stays as it is.
TrapFun(n) ==
    /\ n \in trap
    /\ trap' = trap \ {n}
    /\ future' = [future EXCEPT ![n] = IF @ = Unset THEN NoAnswer ELSE @]
    /\ UNCHANGED <<lcdVars, phase, result, reqs, awaited, jobs, ticking, reports, orphaned>>

\* The caller resumes with the future's result, or gives up waiting.
Resume(n) ==
    /\ phase[n] = "pending" /\ future[n] \in {NoAnswer, Answer}
    /\ phase' = [phase EXCEPT ![n] = "done"]
    /\ result' = [result EXCEPT ![n] = future[n]]
    /\ UNCHANGED <<lcdVars, future, trap, reqs, awaited, jobs, ticking, reports, orphaned>>

\* MUTANT of Cancel: a call that is over may be given up too.
CancelLate(n) ==
    /\ phase[n] \in {"pending", "done"} /\ future[n] # Cancelled
    /\ phase' = [phase EXCEPT ![n] = "done"]
    /\ result' = [result EXCEPT ![n] = NoAnswer]
    /\ future' = [future EXCEPT ![n] = Cancelled]
    /\ UNCHANGED <<lcdVars, trap, reqs, awaited, jobs, ticking, reports, orphaned>>

Cancel(n) ==
    /\ phase[n] = "pending" /\ future[n] = Unset
    /\ phase' = [phase EXCEPT ![n] = "done"]
    /\ result' = [result EXCEPT ![n] = NoAnswer]
    /\ future' = [future EXCEPT ![n] = Cancelled]
    /\ UNCHANGED <<lcdVars, trap, reqs, awaited, jobs, ticking, reports, orphaned>>

----------------------------------------------------------------------------
\* MUTANT of ProcessResponseVarBinds: the first target is reported.
ProcessResponseVarBindsEach(n, x, outcome) ==
    /\ awaited' = [awaited EXCEPT ![n] = @ \ {x}]
    /\ future' = [future EXCEPT ![n] = IF @ = Unset THEN outcome ELSE @]

\* processResponseVarBinds, and the callback when no target is left.
ProcessResponseVarBinds(n, x, outcome) ==
    /\ awaited' = [awaited EXCEPT ![n] = @ \ {x}]
    /\ future' = [future EXCEPT ![n] = IF awaited[n] = {x} /\ @ = Unset THEN outcome ELSE @]

\* MUTANT of Finished: the dispatcher goes on counting the job.
FinishedKeepsJob(n, x, outcome) ==
    /\ reqs' = [reqs EXCEPT ![n] = Without(@, {x})]
    /\ ProcessResponseVarBinds(n, x, outcome)
    /\ UNCHANGED <<lcdVars, phase, result, trap, jobs, ticking, orphaned>>

\* processResponsePdu: the request is over.
Finished(n, x, outcome) ==
    /\ reqs' = [reqs EXCEPT ![n] = Without(@, {x})]
    /\ jobs' = [jobs EXCEPT ![n] = @ - 1]
    /\ ProcessResponseVarBinds(n, x, outcome)
    /\ UNCHANGED <<lcdVars, phase, result, trap, ticking, orphaned>>

\* There is no transport to send it again over: the request is gone by then, but the
\* target stays awaited, and the exception ends the timer it came from.
NoTransport(n, x) ==
    /\ reqs' = [reqs EXCEPT ![n] = Without(@, {x})]
    /\ jobs' = [jobs EXCEPT ![n] = @ - 1]
    /\ orphaned' = orphaned \cup {n}
    /\ ticking' = FALSE
    /\ UNCHANGED <<lcdVars, phase, result, future, trap, awaited>>

\* ... or failed with "discovery" or another error, and is tried again.
Failed(n, x, discovery) ==
    LET r == reqs[n][x]
        again == [r EXCEPT !.retries = IF discovery THEN 0 ELSE @ + 1,
                           !.discoveries = IF discovery THEN @ + 1 ELSE 0,
                           !.open = TRUE]
        spent == again.retries > RetryCount \/ again.discoveries > DiscoveryRetries
    IN \/ /\ spent \/ FailingSends \/ ~Encodes(t, r)
          /\ Finished(n, x, NoAnswer)
       \/ /\ ~spent /\ Encodes(t, r)
          /\ r.domain \in t.transport
          /\ reqs' = [reqs EXCEPT ![n][x] = again]
          /\ UNCHANGED <<lcdVars, phase, result, future, trap, awaited, jobs, ticking, orphaned>>
       \/ /\ ~spent /\ Encodes(t, r)
          /\ r.domain \notin t.transport
          /\ NoTransport(n, x)

\* An answer or a report comes back over the transport the request went by.
Acknowledge(n, x) ==
    /\ x \in DOMAIN reqs[n] /\ reqs[n][x].open
    /\ Finished(n, x, Answer) /\ UNCHANGED reports

Report(n, x) ==
    /\ x \in DOMAIN reqs[n] /\ reqs[n][x].open
    /\ reqs[n][x].model = 3
    /\ reports < MaxReports /\ reports' = reports + 1
    /\ Failed(n, x, TRUE)

\* MUTANT of TimeOut: what the dispatcher did not count is taken off it.
TimeOutUncounted(n, x) ==
    /\ x \in DOMAIN reqs[n]
    /\ ticking /\ t.transport # {}
    /\ UNCHANGED reports
    /\ Failed(n, x, FALSE)

\* The dispatcher's timer expires the request.  A dispatcher made after the
\* request was sent does not count its job: the exception ends the timer.
TimeOut(n, x) ==
    /\ x \in DOMAIN reqs[n]
    /\ ticking /\ t.transport # {}
    /\ UNCHANGED reports
    /\ \/ jobs[n] > 0 /\ Failed(n, x, FALSE)
       \/ /\ jobs[n] = 0
          /\ reqs' = [reqs EXCEPT ![n] = Without(@, {x})]
          /\ ticking' = FALSE
          /\ UNCHANGED <<lcdVars, phase, result, future, trap, awaited, jobs, orphaned>>

----------------------------------------------------------------------------
\* The application's other calls.  A transport takes the answers to come over it along;
\* with the last one goes a dispatcher that was made for it, and what it counted.
Configuration ==
    /\ LcdNext
    /\ orphaned' = IF t'.transport # {} THEN orphaned
                   ELSE orphaned \cup {n \in Notifications : reqs[n] # EmptyMap}
    /\ jobs' = IF t.auto # NotAutomatic /\ t'.auto = NotAutomatic
               THEN [n \in Notifications |-> 0] ELSE jobs
    /\ ticking' = (ticking \/ t'.transport = {})
    /\ reqs' = [n \in Notifications |-> [x \in DOMAIN reqs[n] |->
                 [reqs[n][x] EXCEPT !.open = @ /\ reqs[n][x].domain \in t'.transport]]]
    /\ UNCHANGED <<phase, result, future, trap, awaited, reports>>

Next ==
    \/ \E n \in Notifications, a \in Credentials, target \in Targets, type \in {"trap", "inform"},
          ctx \in Contexts : SendNotification(n, a, target, type, ctx)
    \/ \E n \in Notifications : TrapFun(n) \/ Resume(n) \/ Cancel(n)
    \/ \E n \in Notifications : \E x \in DOMAIN reqs[n] :
          Acknowledge(n, x) \/ Report(n, x) \/ TimeOut(n, x)
    \/ Configuration

SafeSpec == Init /\ [][Next]_vars

\* The event loop runs: callbacks are called, the timer ticks while it is alive.
Spec ==
    /\ SafeSpec
    /\ \A n \in Notifications :
          /\ WF_vars(TrapFun(n)) /\ WF_vars(Resume(n))
          /\ \A x \in 1..MaxNames : WF_vars(TimeOut(n, x))

----------------------------------------------------------------------------
TypeOK ==
    /\ phase \in [Notifications -> {"idle", "refused", "pending", "done"}]
    /\ future \in [Notifications -> {Unset, NoAnswer, Answer, Cancelled}]
    /\ result \in [Notifications -> {Unset, NoAnswer, Answer}]
    /\ trap \subseteq Notifications /\ orphaned \subseteq Notifications
    /\ \A n \in Notifications : DOMAIN reqs[n] \subseteq 1..MaxNames
    /\ jobs \in [Notifications -> 0..MaxNames]

\* The originator's two books and the dispatcher's count of its jobs agree,
\* whatever its targets answered and in whatever order, unless the last transport was
\* closed under it or a retry found its target's gone: then targets stay awaited, but
\* never the other way round (ntforg.py, processResponsePdu and processResponseVarBinds).
BooksAgree ==
    \A n \in Notifications :
        /\ DOMAIN reqs[n] \subseteq awaited[n]
        /\ n \notin orphaned => /\ DOMAIN reqs[n] = awaited[n]
                               /\ jobs[n] = Cardinality(awaited[n])

\* An inform is reported when none of its targets is outstanding any more, also when
\* the loop over them was cut short by one that failed.
ReportedWhenOver ==
    \A n \in Notifications : future[n] \in {NoAnswer, Answer} => awaited[n] = {}

\* Each call is refused or completed once: what it is told stays.
Service == INSTANCE RequestService WITH
    Requests <- Notifications,
    phase <- phase,
    result <- [n \in Notifications |->
                 CASE result[n] = Unset -> [kind |-> "nothing"]
                   [] result[n] = NoAnswer -> [kind |-> "error"]
                   [] OTHER -> [kind |-> "answer", to |-> n]]
ImplementsService == Service!SafeSpec

\* A notification completes, unless its transports, or those of an earlier one, were
\* taken away while it was outstanding: that may have ended the timer.
Completes ==
    \A n \in Notifications : phase[n] = "pending" ~> (phase[n] = "done" \/ orphaned # {})

\* A notification's outstanding targets, requests and jobs agree, and it is reported
\* when they are none (sendVarBinds, processResponsePdu, processResponseVarBinds).
BooksCloseTogether == TypeOK /\ BooksAgree /\ ReportedWhenOver

\* To its caller a notification is a request like any other: it completes, once, with
\* one outcome (sendNotification).
ReportedOnce == Completes /\ ImplementsService
=============================================================================
