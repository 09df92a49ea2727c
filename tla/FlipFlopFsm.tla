---------------------------- MODULE FlipFlopFsm ----------------------------
(***************************************************************************)
(* The state machine of MibInstrumController.flipFlopFsm                   *)
(* (pysnmp.smi.instrum): each phase runs over all the bindings before the  *)
(* next begins.  What a phase does to a binding is left to the modules     *)
(* that extend this one.                                                   *)
(***************************************************************************)
EXTENDS Integers, Sequences

CONSTANTS
    BadValue,   \* a value no object's syntax takes
    None        \* Python's None

VARIABLES
    op,                  \* the operation: "read" or "write"
    bindings,            \* inputVarBinds
    state, status, idx,  \* phase, how it goes, binding it is at
    failed,              \* origExc is set
    outcome              \* how the operation ended for its caller

fsmVars == <<op, bindings, state, status, idx, failed, outcome>>

fsmReadVar ==
    [k \in {<<"start", "ok">>, <<"readTest", "ok">>, <<"readGet", "ok">>, <<"*", "err">>} |->
       CASE k[1] = "start" -> "readTest"
         [] k[1] = "readTest" -> "readGet"
         [] OTHER -> "stop"]

WriteTransitions ==
    {<<"start", "ok", "writeTest">>, <<"writeTest", "ok", "writeCommit">>,
     <<"writeCommit", "ok", "writeCleanup">>, <<"writeCleanup", "ok", "readTest">>,
     <<"readTest", "ok", "readGet">>, <<"readGet", "ok", "stop">>,
     <<"writeTest", "err", "writeCleanup">>, <<"writeCommit", "err", "writeUndo">>,
     <<"writeUndo", "ok", "readTest">>,
     <<"readTest", "err", "stop">>, <<"readGet", "err", "stop">>, <<"*", "err", "stop">>}

TableOf(transitions) ==
    [k \in {<<t[1], t[2]>> : t \in transitions} |->
       (CHOOSE t \in transitions : t[1] = k[1] /\ t[2] = k[2])[3]]

\* MUTANT of fsmWriteVar: a commit that fails is cleaned up after, not undone.
fsmWriteVarNoUndo ==
    TableOf((WriteTransitions \ {<<"writeCommit", "err", "writeUndo">>})
            \cup {<<"writeCommit", "err", "writeCleanup">>})

\* MUTANT of fsmWriteVar: the write is tried again once it is undone.
fsmWriteVarRetries ==
    TableOf((WriteTransitions \ {<<"writeUndo", "ok", "readTest">>})
            \cup {<<"writeUndo", "ok", "writeCommit">>})

fsmWriteVar == TableOf(WriteTransitions)

\* The phase after this one; "*" stands for any that has no entry of its own.
NextPhase(table) ==
    IF <<state, status>> \in DOMAIN table THEN table[<<state, status>>]
                                          ELSE table[<<"*", status>>]

Idle ==
    /\ op = "read" /\ bindings = <<>>
    /\ state = "idle" /\ status = "ok" /\ idx = 1
    /\ failed = FALSE /\ outcome = "ok"

\* readVars or writeVars is called.
Enter(kind, request) ==
    /\ state = "idle"
    /\ op' = kind /\ bindings' = request
    /\ state' = "start" /\ idx' = Len(request) + 1
    /\ UNCHANGED <<status, failed, outcome>>

\* The caller has what it asked for: the machine's variables were local.
Leave ==
    /\ state = "stop"
    /\ op' = "read" /\ bindings' = <<>>
    /\ state' = "idle" /\ status' = "ok" /\ idx' = 1
    /\ failed' = FALSE /\ outcome' = "ok"

\* Every binding was seen, or one failed: on to the next phase.  The first
\* exception is raised in the end.
Proceed ==
    LET phase == NextPhase(IF op = "read" THEN fsmReadVar ELSE fsmWriteVar)
    IN  /\ state \notin {"idle", "stop"} /\ (idx > Len(bindings) \/ status = "err")
        /\ state' = phase /\ status' = "ok" /\ idx' = 1
        /\ outcome' = IF phase = "stop" /\ failed THEN "error" ELSE outcome
        /\ UNCHANGED <<op, bindings, failed>>

\* The binding the phase is at.
At(phase) == state = phase /\ status = "ok" /\ idx <= Len(bindings)
name == bindings[idx].name
val == bindings[idx].val

\* How a handler ends: it returns, it raises an SmiError, or it raises what
\* the machine does not catch.
Returns == idx' = idx + 1 /\ UNCHANGED <<op, bindings, state, status, failed, outcome>>
Raises ==
    /\ status' = "err" /\ failed' = TRUE
    /\ UNCHANGED <<op, bindings, state, idx, outcome>>
Escapes ==
    /\ state' = "stop" /\ outcome' = "raised"
    /\ UNCHANGED <<op, bindings, status, idx, failed>>

\* Types of the machine, for requests out of Requests.
FsmType(Requests) ==
    /\ op \in {"read", "write"} /\ bindings \in Requests \cup {<<>>}
    /\ state \in {"idle", "start", "stop", "writeTest", "writeCommit", "writeCleanup",
                  "writeUndo", "readTest", "readGet"}
    /\ status \in {"ok", "err"} /\ idx \in 1 .. Len(bindings) + 1
    /\ failed \in BOOLEAN /\ outcome \in {"ok", "error", "raised"}
=============================================================================
