-------------------------- MODULE MessageProcessing --------------------------
(***************************************************************************)
(* proto.mpmod.rfc2576 and rfc3412: what a message processing model keeps  *)
(* between a message and its answer, in both directions.                   *)
(*                                                                         *)
(* An engine is [byMsgId, byRef, drawn, held, secs]: the requests it sent, *)
(* those it received, how many identifiers were drawn, the security states *)
(* that are not released, and how many there were.  A PDU is               *)
(* [class, reqID]; a message [class, id, reqID, who].  The community       *)
(* models have no message ID and put theirs in place of the request-id.    *)
(* "who" stands for all that identifies the sender: security model, name   *)
(* and level, context engine and name.                                     *)
(***************************************************************************)
EXTENDS Integers, Sequences, FiniteSets, TLC, PythonData

MpIdle == [byMsgId |-> EmptyMap, byRef |-> EmptyMap, drawn |-> 0, held |-> {}, secs |-> 0]

Outcome(e, error, more) == more @@ [e |-> e, error |-> error]
MpError(e, error) == Outcome(e, error, [sent |-> {}, up |-> {}])

----------------------------------------------------------------------------
\* A request or a notification of an application goes out; secured: the security model
\* made a message of it.  When it did not, a community PDU keeps the unique identifier.
prepareOutgoingMessage(v3, e, pdu, who, handle, secured) ==
    LET confirmed == pdu.class = "confirmed"
        id == e.drawn + 1
        drew == IF v3 \/ confirmed THEN [e EXCEPT !.drawn = id] ELSE e
        wireID == IF v3 \/ ~confirmed THEN pdu.reqID ELSE id
        kept == [handle |-> handle, reqID |-> pdu.reqID, who |-> who]
    IN IF ~secured THEN MpError(drew, "not secured")
       ELSE Outcome([drew EXCEPT !.byMsgId = IF confirmed THEN Put(@, id, kept) ELSE @], "",
                    [sent |-> {[class |-> pdu.class, id |-> id, reqID |-> wireID, who |-> who]}, up |-> {}])

----------------------------------------------------------------------------
\* MUTANT of AnswerId: the identifier the application saw.
AnswerIdSeen(kept) == kept.msgID

\* A response has its request's own request-id again.
AnswerId(kept) == kept.reqID

PopByRef(e, ref) == [e EXCEPT !.byRef = Without(@, {ref})]

\* An application answers, or something went wrong that is to be reported (status); of
\* a request that could not even be read the class is "none".
prepareResponseMessage(v3, e, ref, class, status, secured) ==
    LET kept == e.byRef[ref]
        popped == PopByRef(e, ref)
        signed == [popped EXCEPT !.held = @ \ {kept.sec}]
        answer == [class |-> IF status THEN "report" ELSE "response",
                   id |-> IF v3 THEN kept.msgID ELSE AnswerId(kept), reqID |-> AnswerId(kept), who |-> kept.who]
    IN CASE ref \notin DOMAIN e.byRef -> MpError(e, "no such state")
         [] ref \in DOMAIN e.byRef /\ status /\ ~v3 -> MpError(popped, "nonReportable")
         [] ref \in DOMAIN e.byRef /\ status /\ v3
              /\ (IF class = "none" THEN ~kept.reportable ELSE class # "confirmed") -> MpError(popped, "loopTerminated")
         [] OTHER -> IF secured THEN Outcome(signed, "", [sent |-> {answer}, up |-> {}])
                     ELSE MpError(signed, "not secured")

----------------------------------------------------------------------------
\* What the application is handed: which request is answered, or how to answer.
Up(class, reqID, who, handle, ref) == {[class |-> class, reqID |-> reqID, who |-> who, handle |-> handle, ref |-> ref]}
Released(e, sec) == [e EXCEPT !.held = @ \ {sec}]

\* MUTANT of Matches: by the identifier alone.
MatchesAnyone(kept, m) == TRUE

Matches(kept, m) == kept.who = m.who

\* A response, or for v3 a report, by the identifier it came with.  The request is
\* forgotten in either case.
TakeResponse(v3, e, m, sec) ==
    LET key == IF v3 THEN m.id ELSE m.reqID
        kept == e.byMsgId[key]
        popped == Released([e EXCEPT !.byMsgId = Without(@, {key})], sec)
        back == IF v3 THEN m.reqID ELSE kept.reqID
    IN IF key \notin DOMAIN e.byMsgId THEN MpError(Released(e, sec), "dataMismatch")
       ELSE IF m.class = "report"
       THEN Outcome(popped, "report", [sent |-> {}, up |-> Up("report", back, m.who, kept.handle, 0)])
       ELSE IF ~Matches(kept, m) THEN MpError(popped, "dataMismatch")
       ELSE Outcome(popped, "", [sent |-> {}, up |-> Up("response", back, m.who, kept.handle, 0)])

\* A request: the application sees the unique identifier in place of a v1 request-id.
TakeRequest(v3, e, m, sec) ==
    LET msgID == IF v3 THEN m.id ELSE e.drawn + 1
        ref == IF v3 THEN e.drawn + 1 ELSE e.drawn + 2
        kept == [msgID |-> msgID, reqID |-> m.reqID, who |-> m.who, sec |-> sec, reportable |-> m.reportable]
        state == [e EXCEPT !.drawn = ref, !.byRef = Put(@, ref, kept)]
    IN IF ~m.forUs THEN MpError(Released([e EXCEPT !.drawn = IF v3 THEN @ ELSE msgID], sec), "engineIDMismatch")
       ELSE Outcome(state, "", [sent |-> {}, up |-> Up("confirmed", IF v3 THEN m.reqID ELSE msgID, m.who, 0, ref)])

\* MUTANT of TakeNotification: its security state is left.
TakeNotificationHolds(e, m, sec) ==
    Outcome([e EXCEPT !.drawn = @ + 1], "", [sent |-> {}, up |-> Up("unconfirmed", m.reqID, m.who, 0, e.drawn + 1)])

\* A notification leaves no state; its reference is only a name for it.
TakeNotification(e, m, sec) ==
    Outcome(Released([e EXCEPT !.drawn = @ + 1], sec), "",
            [sent |-> {}, up |-> Up("unconfirmed", m.reqID, m.who, 0, e.drawn + 1)])

\* The security model refused.  USM has made a state by then, which is kept for a report
\* and otherwise stays; the message is dropped after the report.
SmFailure(v3, e, m, sec, secured) ==
    LET ref == e.drawn + 1
        kept == [msgID |-> m.id, reqID |-> m.reqID, who |-> m.who, sec |-> sec, reportable |-> m.reportable]
        state == [e EXCEPT !.drawn = ref, !.byRef = Put(@, ref, kept)]
        r == prepareResponseMessage(v3, state, ref, m.seen, TRUE, secured)
    IN IF v3 /\ m.sm = "reported" THEN [r EXCEPT !.error = "security"]
       ELSE MpError(e, "security")

\* A message comes in: m has besides its parts header ("ok", or what is wrong with it),
\* sm (what the security model says), forUs, reportable, and seen, the class of what a
\* refused message shows of its PDU.
prepareDataElements(v3, e, m, secured) ==
    LET sec == e.secs + 1
        checked == IF v3 \/ m.sm = "ok" THEN [e EXCEPT !.secs = sec, !.held = @ \cup {sec}] ELSE e
    IN IF v3 /\ m.header # "ok" THEN MpError(e, m.header)
       ELSE IF m.sm # "ok" THEN SmFailure(v3, checked, m, sec, secured)
       ELSE IF m.class = "response" \/ (v3 /\ m.class = "report") THEN TakeResponse(v3, checked, m, sec)
       ELSE IF m.class = "confirmed" THEN TakeRequest(v3, checked, m, sec)
       ELSE IF m.class = "unconfirmed" THEN TakeNotification(checked, m, sec)
       ELSE MpError(Released(checked, sec), "unsupportedPDUtype")

----------------------------------------------------------------------------
(* A conversation is [v3, e, asked, log]: asked the requests the           *)
(* application made, by handle, and log what happened, in order.           *)
Conversation(v3) == [v3 |-> v3, e |-> MpIdle, asked |-> EmptyMap, log |-> <<>>]
Logged(c, op, about, r) ==
    [c EXCEPT !.e = r.e, !.log = Append(@, [op |-> op, about |-> about, error |-> r.error, sent |-> r.sent, up |-> r.up])]

Send(c, class, reqID, who, secured) ==
    LET handle == Len(c.log) + 1
        r == prepareOutgoingMessage(c.v3, c.e, [class |-> class, reqID |-> reqID], who, handle, secured)
    IN Logged([c EXCEPT !.asked = Put(@, handle, [reqID |-> reqID, who |-> who])], "send", handle, r)
Receive(c, m, secured) == Logged(c, "receive", m, prepareDataElements(c.v3, c.e, m, secured))
Respond(c, ref, status, secured) ==
    Logged(c, "respond", ref, prepareResponseMessage(c.v3, c.e, ref, "confirmed", status, secured))

\* What the applications were handed, and what was put on the wire.
Handed(c) == UNION {{[at |-> i, up |-> u] : u \in c.log[i].up} : i \in DOMAIN c.log}
Wire(c) == UNION {{[at |-> i, msg |-> s] : s \in c.log[i].sent} : i \in DOMAIN c.log}

\* A response is handed to one request, once, and only if it comes from whom that was
\* sent to; requests whose applications chose the same request-id are told apart, and
\* each sees its own request-id again.
AnswersTheRequest(c) ==
    /\ \A h \in {x \in Handed(c) : x.up.handle # 0} :
          LET asked == c.asked[h.up.handle] IN
          /\ h.up.class = "response" => asked.who = h.up.who /\ asked.reqID = h.up.reqID
          /\ h.up.handle < h.at
          /\ \A g \in Handed(c) : g.up.handle = h.up.handle => g = h
    /\ \A v, w \in {x \in Wire(c) : c.log[x.at].op = "send" /\ x.msg.class = "confirmed"} : v # w => v.msg.id # w.msg.id

\* An answer goes out under the identifiers and to the sender of the request it is the
\* answer to, and a request is answered at most once.
AnsweredAsAsked(c) ==
    LET answers == {x \in Wire(c) : c.log[x.at].op = "respond"}
        request(x) == CHOOSE i \in DOMAIN c.log :
                          \E u \in c.log[i].up : u.class = "confirmed" /\ u.ref = c.log[x.at].about
    IN \A x \in answers :
          LET m == c.log[request(x)].about IN
          /\ x.msg.reqID = m.reqID /\ x.msg.who = m.who /\ (c.v3 => x.msg.id = m.id)
          /\ \A y \in answers : request(x) = request(y) => x = y

\* Every security state is released with the message it is of: what is held belongs to a
\* request that may yet be answered, or to a message that was refused or an answer that
\* was not made into a report.
SecurityReleased(c) ==
    LET refused == {i \in DOMAIN c.log : c.log[i].error \in {"security", "nonReportable", "loopTerminated"}}
    IN /\ {c.e.byRef[r].sec : r \in DOMAIN c.e.byRef} \subseteq c.e.held
       /\ Cardinality(c.e.held) <= Cardinality(DOMAIN c.e.byRef) + Cardinality(refused)
=============================================================================
