--------------------------- MODULE RequestService ---------------------------
(***************************************************************************)
(* What the manager side of an SNMP engine promises an application: a      *)
(* request is refused when it is submitted, or accepted and later          *)
(* completed, once, by the peer's answer to this very request or by an     *)
(* error.                                                                  *)
(***************************************************************************)
CONSTANT Requests

VARIABLES phase,  \* phase[r] of the request
          result  \* result[r]: what its callback was called with

vars == <<phase, result>>

Nothing == [kind |-> "nothing"]
Failure == [kind |-> "error"]
AnswerTo(r) == [kind |-> "answer", to |-> r]

Init ==
    /\ phase = [r \in Requests |-> "idle"]
    /\ result = [r \in Requests |-> Nothing]

Submit(r) ==
    /\ phase[r] = "idle"
    /\ \E p \in {"pending", "refused"} : phase' = [phase EXCEPT ![r] = p]
    /\ UNCHANGED result

Complete(r) ==
    /\ phase[r] = "pending"
    /\ phase' = [phase EXCEPT ![r] = "done"]
    /\ \E res \in {Failure, AnswerTo(r)} : result' = [result EXCEPT ![r] = res]

Next == \E r \in Requests : Submit(r) \/ Complete(r)

SafeSpec == Init /\ [][Next]_vars

\* Accepted requests complete.
Spec == SafeSpec /\ \A r \in Requests : WF_vars(Complete(r))
=============================================================================
