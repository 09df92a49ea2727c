----------------------------- MODULE MibInstrum -----------------------------
(***************************************************************************)
(* MibInstrumController.flipFlopFsm (pysnmp.smi.instrum) serving GET and   *)
(* SET over scalar instances (MibScalar and MibScalarInstance of           *)
(* SNMPv2-SMI): one state machine runs each phase over all the bindings    *)
(* before the next phase begins.  An action is one phase applied to one    *)
(* binding, or the change of phase.                                        *)
(***************************************************************************)
EXTENDS FlipFlopFsm

CONSTANTS
    Objects,      \* the instances in the tree
    Missing,      \* a name nothing is registered under
    Values,       \* what an object's syntax can hold
    Unset,        \* the syntax of an instance not populated yet
    ReadView, WriteView,  \* what access control lets the requester see and change
    FailsAfter,   \* instances whose own writeCommit may raise an SmiError, once
    FailsBefore,  \*   the old value is put aside, or before that
    MaxBindings   \* BOUND: bindings in one request

Names == Objects \cup {Missing}

\* The bindings of the requests made.
SetRequests == UNION {[1 .. n -> [name : Names, val : Values \cup {BadValue}]] : n \in 0 .. MaxBindings}

ASSUME MibInstrumAssumption ==
    /\ Missing \notin Objects /\ BadValue \notin Values
    /\ Unset \notin Values /\ None \notin Values \cup {Unset}
    /\ ReadView \subseteq Objects /\ WriteView \subseteq Objects
    /\ FailsAfter \subseteq Objects /\ FailsBefore \subseteq Objects
    /\ MaxBindings \in Nat

VARIABLES
    syntax,              \* syntax[o]: the value of instance o
    newSyntax, oldSyntax,\* what o's writeTest and writeCommit put aside
    before               \* the values when the operation began (history)

objVars == <<syntax, newSyntax, oldSyntax>>
vars == <<objVars, before, fsmVars>>

Init ==
    /\ syntax \in [Objects -> Values \cup {Unset}]
    /\ newSyntax = [o \in Objects |-> None] /\ oldSyntax = newSyntax
    /\ Idle /\ before = syntax

-----------------------------------------------------------------------------
Begin(kind, request) == Enter(kind, request) /\ before' = syntax /\ UNCHANGED objVars
Finish == Leave /\ before' = syntax /\ UNCHANGED objVars
Advance == Proceed /\ UNCHANGED <<objVars, before>>

\* MUTANT of WriteTest: the value is not tried against the syntax.
WriteTestUnchecked ==
    /\ At("writeTest")
    /\ \/ name \notin WriteView /\ Raises /\ UNCHANGED newSyntax
       \/ name \in WriteView /\ Returns /\ newSyntax' = [newSyntax EXCEPT ![name] = val]
    /\ UNCHANGED <<syntax, oldSyntax, before>>

\* There is no such object, it may not be written, its value is None (which has
\* no clone), or the value does not fit; otherwise the new value is put aside.
WriteTest ==
    /\ At("writeTest")
    /\ \/ name \notin WriteView /\ Raises /\ UNCHANGED newSyntax
       \/ name \in WriteView /\ syntax[name] = None /\ Escapes /\ UNCHANGED newSyntax
       \/ /\ name \in WriteView /\ syntax[name] # None /\ val = BadValue
          /\ Raises /\ UNCHANGED newSyntax
       \/ /\ name \in WriteView /\ syntax[name] # None /\ val # BadValue
          /\ Returns /\ newSyntax' = [newSyntax EXCEPT ![name] = val]
    /\ UNCHANGED <<syntax, oldSyntax, before>>

\* The old value is put aside, the first time, and the new one takes its place.
\* An instance of the application's own may fail before or after that.
WriteCommit ==
    /\ At("writeCommit")
    /\ \/ /\ oldSyntax' = [oldSyntax EXCEPT ![name] = IF @ = None THEN syntax[name] ELSE @]
          /\ syntax' = [syntax EXCEPT ![name] = newSyntax[name]]
          /\ Returns \/ (name \in FailsAfter /\ Raises)
       \/ name \in FailsBefore /\ Raises /\ UNCHANGED <<syntax, oldSyntax>>
    /\ UNCHANGED <<newSyntax, before>>

\* MUTANT of WriteCleanup: the old value is kept.
WriteCleanupKeepsOld ==
    /\ At("writeCleanup")
    /\ \/ name = Missing /\ Raises /\ UNCHANGED newSyntax
       \/ name # Missing /\ Returns /\ newSyntax' = [newSyntax EXCEPT ![name] = None]
    /\ UNCHANGED <<syntax, oldSyntax, before>>

WriteCleanup ==
    /\ At("writeCleanup")
    /\ \/ name = Missing /\ Raises /\ UNCHANGED <<newSyntax, oldSyntax>>
       \/ /\ name # Missing /\ Returns
          /\ newSyntax' = [newSyntax EXCEPT ![name] = None]
          /\ oldSyntax' = [oldSyntax EXCEPT ![name] = None]
    /\ UNCHANGED <<syntax, before>>

\* What was put aside comes back, whether or not anything was.
WriteUndo ==
    /\ At("writeUndo")
    /\ Returns
    /\ syntax' = [syntax EXCEPT ![name] = oldSyntax[name]]
    /\ newSyntax' = [newSyntax EXCEPT ![name] = None]
    /\ oldSyntax' = [oldSyntax EXCEPT ![name] = None]
    /\ UNCHANGED before

\* An absent object is no error here; an object out of view or without a value
\* is one, and asking None for isValue raises what nobody catches.
ReadTest ==
    /\ At("readTest")
    /\ \/ name = Missing /\ Returns
       \/ name \in Objects \ ReadView /\ Raises
       \/ name \in ReadView /\ syntax[name] = Unset /\ Raises
       \/ name \in ReadView /\ syntax[name] = None /\ Escapes
       \/ name \in ReadView /\ syntax[name] \in Values /\ Returns
    /\ UNCHANGED <<objVars, before>>

\* readTest has passed for every binding, so there is a value to return.
ReadGet == At("readGet") /\ Returns /\ UNCHANGED <<objVars, before>>

Step ==
    \/ Advance \/ WriteTest \/ WriteCommit \/ WriteCleanup \/ WriteUndo
    \/ ReadTest \/ ReadGet \/ Finish

Next == Step \/ \E kind \in {"read", "write"}, request \in SetRequests : Begin(kind, request)

\* An operation is one call: once begun it runs.
Spec == Init /\ [][Next]_vars /\ WF_vars(Step)

-----------------------------------------------------------------------------
\* Types: only values that passed writeTest are ever stored.
TypeOK ==
    /\ syntax \in [Objects -> Values \cup {Unset, None}]
    /\ newSyntax \in [Objects -> Values \cup {None}]
    /\ oldSyntax \in [Objects -> Values \cup {Unset, None}]
    /\ before \in [Objects -> Values \cup {Unset, None}]
    /\ FsmType(SetRequests)

\* The value the request leaves object o with if it is carried out: a later
\* binding of the same object has the last word.
Asked(o) ==
    LET S == {i \in DOMAIN bindings : bindings[i].name = o}
    IN  IF S = {} THEN before[o] ELSE bindings[CHOOSE i \in S : \A j \in S : j <= i].val

\* The requests the undo is enough for: they name an object once, one they may
\* read, and the only commit that can fail is the last and puts aside what it
\* replaces.  In the others writeUndo restores what was never put aside, or the
\* read that follows a write fails when it is too late to undo.
Undoable ==
    \A i \in DOMAIN bindings :
        LET o == bindings[i].name
        IN  /\ o \in ReadView \cup {Missing} /\ o \notin FailsBefore
            /\ o \in FailsAfter => i = Len(bindings)
            /\ \A j \in DOMAIN bindings : bindings[j].name = o => i = j

\* "a failure anywhere rolls all of them back, so a SET either happens
\* completely or not at all": after writeVars returned every object has the
\* value asked for, after it raised every object has the value it had.
AllOrNothing ==
    state = "stop" /\ Undoable =>
        syntax = IF op = "write" /\ outcome = "ok" THEN [o \in Objects |-> Asked(o)] ELSE before

\* Between operations no instance holds on to an old value, so that no later
\* writeUndo can bring it back (writeCommit keeps the one it finds).
NothingPutAside == state = "stop" => \A o \in Objects : oldSyntax[o] = None

\* The machine stops, whatever its phases meet.
OperationEnds == state = "start" ~> state = "idle"


\* A SET is done or not done, stores only values that were tested, and leaves nothing
\* behind that a later one could restore (flipFlopFsm, writeCommit, writeUndo,
\* writeCleanup).
SetIsAtomic == TypeOK /\ NothingPutAside /\ AllOrNothing
=============================================================================
