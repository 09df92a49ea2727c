-------------------------- MODULE MibInstrumProofs --------------------------
(***************************************************************************)
(* A SET over scalar instances is done or not done, for every tree,        *)
(* request and set of instances that fail (MibInstrum).  One on the rows   *)
(* of a table that its test refuses has changed nothing (TableRow).        *)
(*                                                                         *)
(* The invariant says what the phases have left behind at each binding:    *)
(* Phases relates the phase to how it goes, Aside says which instances     *)
(* still hold an old value, and HeldValues, for the requests writeUndo is  *)
(* enough for, what each instance holds.                                   *)
(***************************************************************************)
EXTENDS MibInstrum, TableRow, SequenceTheorems, WellFoundedInduction, TLAPS

N == Len(bindings)

\* The machine: the operation is not over until "stop", only a write writes, and a
\* phase that fails is a failed operation.
Phases ==
    /\ state # "stop" => outcome = "ok"
    /\ status = "err" => failed
    /\ state \in {"idle", "start"} => status = "ok" /\ ~failed
    /\ op = "read" => state \in {"idle", "start", "readTest", "readGet", "stop"}
    /\ state = "writeUndo" => failed /\ status = "ok"
    /\ state \in {"writeTest", "writeCommit"} /\ failed => status = "err"
    /\ state = "writeTest" => \A i \in 1 .. idx - 1 : bindings[i].name \in WriteView
    /\ state \in {"writeCommit", "writeUndo"} =>
          \A i \in 1 .. N : bindings[i].name \in WriteView

\* Old values are held from the commit on, and the phase that clears them has still
\* to come to a binding of the instance.
Aside ==
    \A o \in Objects :
        oldSyntax[o] # None =>
            /\ state \in {"writeCommit", "writeUndo", "writeCleanup"}
            /\ \A i \in 1 .. N : bindings[i].name \in WriteView
            /\ state = "writeCommit" => \E i \in 1 .. N : bindings[i].name = o
            /\ state # "writeCommit" => status = "ok" /\ \E i \in idx .. N : bindings[i].name = o

\* writeTest passed binding i, and its value is still put aside.
Tested(i) ==
    /\ bindings[i].name \in WriteView /\ bindings[i].val # BadValue
    /\ before[bindings[i].name] # None
    /\ newSyntax[bindings[i].name] = bindings[i].val

\* The bindings writeCommit has been through.
Reached == 1 .. (IF status = "ok" THEN idx - 1 ELSE idx)

\* Every binding is in effect, and nothing else.
Carried ==
    /\ \A i \in 1 .. N :
          /\ bindings[i].name \in Objects /\ bindings[i].val # BadValue
          /\ syntax[bindings[i].name] = bindings[i].val
    /\ \A o \in Objects : (\A i \in 1 .. N : bindings[i].name # o) => syntax[o] = before[o]

CommitsAreOrdered ==
    /\ status = "err" => idx = N
    /\ \A i \in 1 .. N : Tested(i)
    /\ \A i \in Reached : /\ syntax[bindings[i].name] = bindings[i].val
                          /\ oldSyntax[bindings[i].name] = before[bindings[i].name]
    /\ \A o \in Objects : (\A i \in Reached : bindings[i].name # o) =>
                             syntax[o] = before[o] /\ oldSyntax[o] = None

UndoesWhatIsLeft ==
    /\ \A i \in idx .. N : oldSyntax[bindings[i].name] = before[bindings[i].name]
    /\ \A o \in Objects : syntax[o] # before[o] => \E i \in idx .. N : bindings[i].name = o

HeldValues ==
    /\ op = "read" \/ state \in {"idle", "start", "writeTest"} => syntax = before
    /\ state = "writeTest" => \A i \in 1 .. idx - 1 : Tested(i)
    /\ state = "writeCommit" => CommitsAreOrdered
    /\ state = "writeUndo" => UndoesWhatIsLeft
    /\ state \in {"writeCleanup", "readTest", "readGet"} /\ op = "write" =>
          IF failed THEN syntax = before ELSE Carried
    /\ state = "stop" => IF op = "write" /\ outcome = "ok" THEN Carried ELSE syntax = before

\* The invariant.
IInv == TypeOK /\ Phases /\ Aside /\ (Undoable => HeldValues)

-----------------------------------------------------------------------------
(* The tables of the machine.                                              *)

\* Requests are sequences of bindings (inputVarBinds).
LEMMA RequestsAreSequences ==
    ASSUME NEW r \in SetRequests \cup {<<>>}
    PROVE  /\ r \in Seq([name : Names, val : Values \cup {BadValue}])
           /\ Len(r) \in Nat /\ DOMAIN r = 1 .. Len(r)
           /\ \A i \in 1 .. Len(r) : r[i].name \in Names /\ r[i].val \in Values \cup {BadValue}
<1> DEFINE B == [name : Names, val : Values \cup {BadValue}]
<1>1. r \in Seq(B)
  <2>1. CASE r = <<>>
    BY <2>1
  <2>2. CASE r \in SetRequests
    <3>1. PICK n \in 0 .. MaxBindings : r \in [1 .. n -> B]
      BY <2>2 DEF SetRequests
    <3>2. n \in Nat
      BY <3>1, MibInstrumAssumption
    <3> HIDE DEF B
    <3> QED
      BY <3>1, <3>2, SeqDef
  <2> QED
    BY <2>1, <2>2
<1>2. Len(r) \in Nat /\ DOMAIN r = 1 .. Len(r) /\ \A i \in 1 .. Len(r) : r[i] \in B
  <2> HIDE DEF B
  <2> QED
    BY <1>1, LenProperties, ElementOfSeq
<1> QED
  BY <1>1, <1>2

\* A transition that is the only one of its phase and status is the table's.
LEMMA TableEntry ==
    ASSUME NEW T, NEW a, NEW b, NEW c, <<a, b, c>> \in T,
           \A u \in T : u[1] = a /\ u[2] = b => u[3] = c
    PROVE  <<a, b>> \in DOMAIN TableOf(T) /\ TableOf(T)[<<a, b>>] = c
<1> DEFINE t == <<a, b, c>>
           k == <<a, b>>
           x == CHOOSE u \in T : u[1] = k[1] /\ u[2] = k[2]
<1>1. k \in {<<u[1], u[2]>> : u \in T}
  <2>1. t \in T /\ k = <<t[1], t[2]>>
    OBVIOUS
  <2> QED
    BY <2>1
<1>2. x \in T /\ x[1] = k[1] /\ x[2] = k[2]
  <2>1. t \in T /\ t[1] = k[1] /\ t[2] = k[2]
    OBVIOUS
  <2> QED
    BY <2>1
<1>3. x[3] = c
  BY <1>2
<1> QED
  BY <1>1, <1>3 DEF TableOf

\* The phases of a write (fsmWriteVar).
LEMMA WriteTable ==
    /\ \A s \in {"start", "writeTest", "writeCommit", "writeCleanup", "writeUndo", "readTest", "readGet"} :
          <<s, "ok">> \in DOMAIN fsmWriteVar
    /\ fsmWriteVar[<<"start", "ok">>] = "writeTest"
    /\ fsmWriteVar[<<"writeTest", "ok">>] = "writeCommit"
    /\ fsmWriteVar[<<"writeCommit", "ok">>] = "writeCleanup"
    /\ fsmWriteVar[<<"writeCleanup", "ok">>] = "readTest"
    /\ fsmWriteVar[<<"writeUndo", "ok">>] = "readTest"
    /\ fsmWriteVar[<<"readTest", "ok">>] = "readGet"
    /\ fsmWriteVar[<<"readGet", "ok">>] = "stop"
    /\ \A s \in {"writeTest", "writeCommit", "readTest", "readGet"} : <<s, "err">> \in DOMAIN fsmWriteVar
    /\ fsmWriteVar[<<"writeTest", "err">>] = "writeCleanup"
    /\ fsmWriteVar[<<"writeCommit", "err">>] = "writeUndo"
    /\ fsmWriteVar[<<"readTest", "err">>] = "stop"
    /\ fsmWriteVar[<<"readGet", "err">>] = "stop"
    /\ <<"writeCleanup", "err">> \notin DOMAIN fsmWriteVar
    /\ fsmWriteVar[<<"*", "err">>] = "stop"
<1> DEFINE E(a, b, c) == <<a, b>> \in DOMAIN fsmWriteVar /\ fsmWriteVar[<<a, b>>] = c
           Only(a, b, c) == /\ <<a, b, c>> \in WriteTransitions
                            /\ \A u \in WriteTransitions : u[1] = a /\ u[2] = b => u[3] = c
<1>0. ASSUME NEW a, NEW b, NEW c, Only(a, b, c) PROVE E(a, b, c)
  BY <1>0, TableEntry DEF fsmWriteVar
<1> HIDE DEF E
<1>1. E("start", "ok", "writeTest") /\ E("writeTest", "ok", "writeCommit")
  <2>1. Only("start", "ok", "writeTest")
    BY DEF WriteTransitions
  <2>2. Only("writeTest", "ok", "writeCommit")
    BY DEF WriteTransitions
  <2> HIDE DEF Only
  <2> QED
    BY <2>1, <2>2, <1>0
<1>2. E("writeCommit", "ok", "writeCleanup") /\ E("writeCleanup", "ok", "readTest")
  <2>1. Only("writeCommit", "ok", "writeCleanup")
    BY DEF WriteTransitions
  <2>2. Only("writeCleanup", "ok", "readTest")
    BY DEF WriteTransitions
  <2> HIDE DEF Only
  <2> QED
    BY <2>1, <2>2, <1>0
<1>3. E("writeUndo", "ok", "readTest") /\ E("readTest", "ok", "readGet")
  <2>1. Only("writeUndo", "ok", "readTest")
    BY DEF WriteTransitions
  <2>2. Only("readTest", "ok", "readGet")
    BY DEF WriteTransitions
  <2> HIDE DEF Only
  <2> QED
    BY <2>1, <2>2, <1>0
<1>4. E("readGet", "ok", "stop") /\ E("writeTest", "err", "writeCleanup")
  <2>1. Only("readGet", "ok", "stop")
    BY DEF WriteTransitions
  <2>2. Only("writeTest", "err", "writeCleanup")
    BY DEF WriteTransitions
  <2> HIDE DEF Only
  <2> QED
    BY <2>1, <2>2, <1>0
<1>5. E("writeCommit", "err", "writeUndo") /\ E("readTest", "err", "stop")
  <2>1. Only("writeCommit", "err", "writeUndo")
    BY DEF WriteTransitions
  <2>2. Only("readTest", "err", "stop")
    BY DEF WriteTransitions
  <2> HIDE DEF Only
  <2> QED
    BY <2>1, <2>2, <1>0
<1>6. E("readGet", "err", "stop") /\ E("*", "err", "stop")
  <2>1. Only("readGet", "err", "stop")
    BY DEF WriteTransitions
  <2>2. Only("*", "err", "stop")
    BY DEF WriteTransitions
  <2> HIDE DEF Only
  <2> QED
    BY <2>1, <2>2, <1>0
<1>7. <<"writeCleanup", "err">> \notin DOMAIN fsmWriteVar
  BY DEF fsmWriteVar, TableOf, WriteTransitions
<1> QED
  BY <1>1, <1>2, <1>3, <1>4, <1>5, <1>6, <1>7 DEF E

\* The next phase, in every phase the machine can be in.
LEMMA NextPhases ==
    ASSUME TypeOK, Phases, state \notin {"idle", "stop"},
           NEW p, p = NextPhase(IF op = "read" THEN fsmReadVar ELSE fsmWriteVar)
    PROVE  /\ op = "read" => /\ state = "start" => p = "readTest"
                             /\ state = "readTest" => p = IF status = "ok" THEN "readGet" ELSE "stop"
                             /\ state = "readGet" => p = "stop"
           /\ op = "write" => /\ state = "start" => p = "writeTest"
                              /\ state = "writeTest" => p = IF status = "ok" THEN "writeCommit" ELSE "writeCleanup"
                              /\ state = "writeCommit" => p = IF status = "ok" THEN "writeCleanup" ELSE "writeUndo"
                              /\ state = "writeCleanup" => p = IF status = "ok" THEN "readTest" ELSE "stop"
                              /\ state = "writeUndo" => p = "readTest"
                              /\ state = "readTest" => p = IF status = "ok" THEN "readGet" ELSE "stop"
                              /\ state = "readGet" => p = "stop"
<1>1. CASE op = "read"
  BY <1>1 DEF TypeOK, FsmType, Phases, NextPhase, fsmReadVar
<1>2. CASE op = "write"
  BY <1>2, WriteTable DEF TypeOK, FsmType, Phases, NextPhase
<1> QED
  BY <1>1, <1>2

-----------------------------------------------------------------------------
(* The phases at one binding.                                              *)

\* The binding a phase is at.
LEMMA AtBinding ==
    ASSUME IInv
    PROVE  /\ N \in Nat /\ idx \in 1 .. N + 1
           /\ DOMAIN bindings = 1 .. N
           /\ \A i \in 1 .. N : bindings[i].name \in Names /\ bindings[i].val \in Values \cup {BadValue}
           /\ idx <= N => idx \in 1 .. N /\ name \in Names /\ val \in Values \cup {BadValue}
BY RequestsAreSequences DEF IInv, TypeOK, FsmType, N, name, val

\* A handler that returns or raises changes the machine's type no further.
LEMMA HandlerType ==
    ASSUME IInv, idx <= N, Returns \/ Raises \/ Escapes
    PROVE  FsmType(SetRequests)'
<1>1. Len(bindings) \in Nat /\ idx \in 1 .. Len(bindings)
  BY AtBinding DEF N
<1>2. FsmType(SetRequests)
  BY DEF IInv, TypeOK
<1>3. CASE Returns
  BY <1>1, <1>2, <1>3 DEF FsmType, Returns
<1>4. CASE Raises
  BY <1>1, <1>2, <1>4 DEF FsmType, Raises
<1>5. CASE Escapes
  BY <1>1, <1>2, <1>5 DEF FsmType, Escapes
<1> QED
  BY <1>3, <1>4, <1>5

\* What the undo is enough for depends on the request alone.
LEMMA UndoableStays ==
    ASSUME UNCHANGED bindings
    PROVE  Undoable' <=> Undoable
BY DEF Undoable

LEMMA WriteTestKeeps ==
    ASSUME IInv, WriteTest
    PROVE  IInv'
<1>1. /\ state = "writeTest" /\ status = "ok" /\ idx \in 1 .. N /\ ~failed
      /\ op = "write" /\ outcome = "ok"
      /\ name = bindings[idx].name /\ val = bindings[idx].val
  BY AtBinding DEF WriteTest, At, IInv, Phases, TypeOK, FsmType, name, val, N
<1>2. UNCHANGED <<syntax, oldSyntax, before, op, bindings>> /\ N' = N
  BY DEF WriteTest, Returns, Raises, Escapes, N
<1>3. /\ ReadView \subseteq Objects /\ WriteView \subseteq Objects
      /\ None \notin Values /\ BadValue \notin Values
  BY MibInstrumAssumption
<1>4. val \in Values \cup {BadValue} /\ N \in Nat
  BY <1>1, AtBinding
<1>5. Returns \/ Raises \/ Escapes
  BY DEF WriteTest
<1>6. TypeOK'
  <2>1. newSyntax' \in [Objects -> Values \cup {None}]
    BY <1>3, <1>4 DEF IInv, TypeOK, WriteTest
  <2> QED
    BY <2>1, <1>1, <1>2, <1>5, HandlerType DEF IInv, TypeOK
<1>7. Phases'
  BY <1>1, <1>2, <1>4 DEF IInv, Phases, WriteTest, Returns, Raises, Escapes
<1>8. Aside'
  <2>1. \A o \in Objects : oldSyntax[o] = None
    BY <1>1 DEF IInv, Aside
  <2> QED
    BY <2>1, <1>2 DEF Aside
<1>9. ASSUME Undoable PROVE HeldValues'
  <2>1. syntax = before /\ \A i \in 1 .. idx - 1 : Tested(i)
    BY <1>1, <1>9 DEF IInv, HeldValues
  <2>2. CASE Returns
    <3>1. name \in WriteView /\ val # BadValue /\ syntax[name] # None
      BY <1>1, <2>2 DEF WriteTest, Returns, Raises, Escapes
    <3>2. newSyntax' = [newSyntax EXCEPT ![name] = val]
      BY <1>1, <2>2 DEF WriteTest, Returns, Raises, Escapes
    <3>3. \A i \in 1 .. idx - 1 : bindings[i].name # name
      BY <1>1, <1>4, <1>9, AtBinding DEF Undoable, N
    <3>4. \A i \in 1 .. idx - 1 : Tested(i)'
      BY <1>2, <2>1, <3>2, <3>3 DEF Tested, IInv, TypeOK
    <3>5. \A i \in 1 .. idx' - 1 : Tested(i)'
      <4>1. bindings' = bindings /\ before' = before /\ idx' = idx + 1
        BY <1>2, <2>2 DEF Returns
      <4>2. ASSUME NEW i \in 1 .. idx' - 1 PROVE Tested(i)'
        <5>1. CASE i = idx
          BY <5>1, <4>1, <1>1, <1>3, <2>1, <3>1, <3>2 DEF Tested, IInv, TypeOK
        <5>2. CASE i # idx
          BY <5>2, <4>1, <1>1, <3>4
        <5> QED
          BY <5>1, <5>2
      <4> QED
        BY <4>2
    <3> QED
      BY <1>1, <1>2, <2>1, <2>2, <3>5 DEF HeldValues, Returns
  <2>3. CASE Raises
    <3>1. UNCHANGED newSyntax
      BY <1>1, <2>3 DEF WriteTest, Returns, Raises, Escapes
    <3> QED
      BY <1>1, <1>2, <2>1, <2>3, <3>1 DEF HeldValues, Raises, Tested
  <2>4. CASE Escapes
    BY <1>1, <1>2, <2>1, <2>4 DEF HeldValues, Escapes
  <2> QED
    BY <1>5, <2>2, <2>3, <2>4
<1> QED
  BY <1>2, <1>6, <1>7, <1>8, <1>9, UndoableStays DEF IInv

LEMMA WriteCommitKeeps ==
    ASSUME IInv, WriteCommit
    PROVE  IInv'
<1>1. /\ state = "writeCommit" /\ status = "ok" /\ idx \in 1 .. N /\ ~failed
      /\ op = "write" /\ outcome = "ok"
      /\ name = bindings[idx].name
      /\ name \in WriteView
  BY AtBinding DEF WriteCommit, At, IInv, Phases, TypeOK, FsmType, name, N
<1>2. UNCHANGED <<newSyntax, before, op, bindings, state>> /\ N' = N
  BY DEF WriteCommit, Returns, Raises, N
<1>3. WriteView \subseteq Objects /\ None \notin Values
  BY MibInstrumAssumption
<1>4. N \in Nat /\ name \in Objects
  BY <1>1, <1>3, AtBinding
<1>5. Returns \/ Raises
  BY DEF WriteCommit
<1> DEFINE Commits ==
           /\ oldSyntax' = [oldSyntax EXCEPT ![name] = IF oldSyntax[name] = None THEN syntax[name] ELSE @]
           /\ syntax' = [syntax EXCEPT ![name] = newSyntax[name]]
           Stays == name \in FailsBefore /\ Raises /\ UNCHANGED <<syntax, oldSyntax>>
<1>6. Commits \/ Stays
  BY DEF WriteCommit
<1>7. TypeOK'
  <2>1. /\ syntax' \in [Objects -> Values \cup {Unset, None}]
        /\ oldSyntax' \in [Objects -> Values \cup {Unset, None}]
    BY <1>4, <1>6 DEF IInv, TypeOK
  <2> QED
    BY <2>1, <1>1, <1>2, <1>5, HandlerType DEF IInv, TypeOK
<1>8. Phases'
  BY <1>1, <1>2, <1>5 DEF IInv, Phases, Returns, Raises
<1>9. Aside'
  <2>1. \A i \in 1 .. N : bindings[i].name \in WriteView
    BY <1>1 DEF IInv, Phases
  <2>2. ASSUME NEW o \in Objects, oldSyntax'[o] # None
        PROVE  \E i \in 1 .. N : bindings[i].name = o
    <3>1. CASE o = name
      BY <3>1, <1>1
    <3>2. CASE o # name
      <4>1. oldSyntax'[o] = oldSyntax[o]
        BY <3>2, <1>4, <1>6 DEF IInv, TypeOK
      <4> QED
        BY <4>1, <2>2, <1>1 DEF IInv, Aside
    <3> QED
      BY <3>1, <3>2
  <2> HIDE DEF Commits, Stays
  <2> QED
    BY <2>1, <2>2, <1>1, <1>2 DEF Aside
<1>10. ASSUME Undoable PROVE CommitsAreOrdered'
  <2>1. CommitsAreOrdered /\ Reached = 1 .. idx - 1
    BY <1>1, <1>10 DEF IInv, HeldValues, Reached
  <2>2. /\ \A i \in 1 .. N : i # idx => bindings[i].name # name
        /\ name \notin FailsBefore /\ (name \in FailsAfter => idx = N)
    BY <1>1, <1>10, AtBinding DEF Undoable, N
  <2>3. Commits /\ (Returns \/ (idx = N /\ Raises))
    BY <2>2, <1>6 DEF WriteCommit
  <2>4. syntax[name] = before[name] /\ oldSyntax[name] = None
    <3>1. \A i \in Reached : bindings[i].name # name
      BY <2>1, <2>2, <1>1, <1>4
    <3> QED
      BY <3>1, <2>1, <1>4 DEF CommitsAreOrdered
  <2>5. newSyntax[name] = bindings[idx].val
    BY <2>1, <1>1 DEF CommitsAreOrdered, Tested
  <2>6. /\ syntax' = [syntax EXCEPT ![name] = bindings[idx].val]
        /\ oldSyntax' = [oldSyntax EXCEPT ![name] = before[name]]
    BY <2>3, <2>4, <2>5, <1>4
  <2>7. Reached' = 1 .. idx
    BY <2>3, <1>1, <1>4 DEF Reached, Returns, Raises
  <2>8. status' = "err" => idx' = N
    BY <2>3, <1>1 DEF Returns, Raises
  <2>9. \A i \in 1 .. N : Tested(i)'
    BY <2>1, <1>2 DEF CommitsAreOrdered, Tested
  <2> HIDE DEF Commits, Stays
  <2>10. ASSUME NEW i \in 1 .. idx
         PROVE  /\ syntax'[bindings[i].name] = bindings[i].val
                /\ oldSyntax'[bindings[i].name] = before[bindings[i].name]
    <3>1. CASE i = idx
      BY <3>1, <2>6, <1>1, <1>4 DEF IInv, TypeOK
    <3>2. CASE i # idx
      <4>1. i \in 1 .. N /\ i \in Reached
        BY <3>2, <2>1, <1>1, <1>4
      <4>2. bindings[i].name \in Objects /\ bindings[i].name # name
        BY <4>1, <3>2, <2>1, <2>2, <1>3 DEF CommitsAreOrdered, Tested
      <4>3. /\ syntax[bindings[i].name] = bindings[i].val
            /\ oldSyntax[bindings[i].name] = before[bindings[i].name]
        BY <4>1, <2>1 DEF CommitsAreOrdered
      <4> QED
        BY <4>2, <4>3, <2>6 DEF IInv, TypeOK
    <3> QED
      BY <3>1, <3>2
  <2>11. ASSUME NEW o \in Objects, \A i \in 1 .. idx : bindings[i].name # o
         PROVE  syntax'[o] = before[o] /\ oldSyntax'[o] = None
    <3>1. o # name /\ \A i \in Reached : bindings[i].name # o
      BY <2>11, <2>1, <1>1, <1>4
    <3>2. syntax[o] = before[o] /\ oldSyntax[o] = None
      BY <3>1, <2>1 DEF CommitsAreOrdered
    <3> QED
      BY <3>1, <3>2, <2>6 DEF IInv, TypeOK
  <2> QED
    BY <2>7, <2>8, <2>9, <2>10, <2>11, <1>2 DEF CommitsAreOrdered
<1>11. Undoable => HeldValues'
  BY <1>1, <1>2, <1>10 DEF HeldValues
<1> QED
  BY <1>2, <1>7, <1>8, <1>9, <1>11, UndoableStays DEF IInv

LEMMA WriteCleanupKeeps ==
    ASSUME IInv, WriteCleanup
    PROVE  IInv'
<1>1. /\ state = "writeCleanup" /\ status = "ok" /\ idx \in 1 .. N
      /\ op = "write" /\ outcome = "ok"
      /\ name = bindings[idx].name /\ name \in Names
  BY AtBinding DEF WriteCleanup, At, IInv, Phases, TypeOK, FsmType, name, N
<1>2. UNCHANGED <<syntax, before, op, bindings, state, outcome>> /\ N' = N
  BY DEF WriteCleanup, Returns, Raises, N
<1>3. WriteView \subseteq Objects /\ Missing \notin Objects
  BY MibInstrumAssumption
<1>4. N \in Nat
  BY AtBinding
<1>5. Returns \/ Raises
  BY DEF WriteCleanup
<1>6. TypeOK'
  <2>1. /\ newSyntax' \in [Objects -> Values \cup {None}]
        /\ oldSyntax' \in [Objects -> Values \cup {Unset, None}]
    BY DEF IInv, TypeOK, WriteCleanup
  <2> QED
    BY <2>1, <1>1, <1>2, <1>5, HandlerType DEF IInv, TypeOK
<1>7. Phases'
  BY <1>1, <1>2, <1>5 DEF IInv, Phases, Returns, Raises
<1>8. Aside'
  <2>1. SUFFICES ASSUME NEW o \in Objects, oldSyntax'[o] # None
                 PROVE  /\ \A i \in 1 .. N : bindings[i].name \in WriteView
                        /\ status' = "ok" /\ \E i \in idx' .. N : bindings[i].name = o
    BY <1>1, <1>2 DEF Aside
  <2>2. oldSyntax[o] # None
    BY <2>1 DEF IInv, TypeOK, WriteCleanup
  <2>3. /\ \A i \in 1 .. N : bindings[i].name \in WriteView
        /\ \E i \in idx .. N : bindings[i].name = o
    BY <2>2, <1>1 DEF IInv, Aside
  <2>4. name # Missing /\ Returns
    BY <2>3, <1>1, <1>3 DEF WriteCleanup
  <2>5. o # name
    BY <2>1, <2>4 DEF IInv, TypeOK, WriteCleanup
  <2>6. \E i \in idx + 1 .. N : bindings[i].name = o
    BY <2>3, <2>5, <1>1, <1>4
  <2> QED
    BY <2>3, <2>4, <2>6, <1>1 DEF Returns
<1>9. ASSUME Undoable PROVE HeldValues'
  <2>1. IF failed THEN syntax = before ELSE Carried
    BY <1>1, <1>9 DEF IInv, HeldValues
  <2>2. ~failed => name # Missing
    BY <2>1, <1>1, <1>3 DEF Carried
  <2>3. IF failed' THEN syntax' = before' ELSE Carried'
    BY <2>1, <2>2, <1>2 DEF WriteCleanup, Returns, Raises, Carried
  <2> QED
    BY <2>3, <1>1, <1>2 DEF HeldValues
<1> QED
  BY <1>2, <1>6, <1>7, <1>8, <1>9, UndoableStays DEF IInv

LEMMA WriteUndoKeeps ==
    ASSUME IInv, WriteUndo
    PROVE  IInv'
<1>1. /\ state = "writeUndo" /\ status = "ok" /\ idx \in 1 .. N
      /\ op = "write" /\ outcome = "ok"
      /\ name = bindings[idx].name /\ name \in WriteView
  BY AtBinding DEF WriteUndo, At, IInv, Phases, TypeOK, FsmType, name, N
<1>2. UNCHANGED <<before, op, bindings, state, outcome, status, failed>> /\ N' = N /\ idx' = idx + 1
  BY DEF WriteUndo, Returns, N
<1>3. name \in Objects /\ N \in Nat
  BY <1>1, MibInstrumAssumption, AtBinding
<1>4. /\ syntax' = [syntax EXCEPT ![name] = oldSyntax[name]]
      /\ newSyntax' = [newSyntax EXCEPT ![name] = None]
      /\ oldSyntax' = [oldSyntax EXCEPT ![name] = None]
  BY DEF WriteUndo
<1>5. TypeOK'
  <2>1. /\ syntax' \in [Objects -> Values \cup {Unset, None}]
        /\ newSyntax' \in [Objects -> Values \cup {None}]
        /\ oldSyntax' \in [Objects -> Values \cup {Unset, None}]
    BY <1>3, <1>4 DEF IInv, TypeOK
  <2> QED
    BY <2>1, <1>1, <1>2, HandlerType DEF IInv, TypeOK, WriteUndo
<1>6. Phases'
  BY <1>1, <1>2 DEF IInv, Phases
<1>7. Aside'
  <2>1. SUFFICES ASSUME NEW o \in Objects, oldSyntax'[o] # None
                 PROVE  /\ \A i \in 1 .. N : bindings[i].name \in WriteView
                        /\ \E i \in idx + 1 .. N : bindings[i].name = o
    BY <1>1, <1>2 DEF Aside
  <2>2. oldSyntax[o] # None /\ o # name
    BY <2>1, <1>3, <1>4 DEF IInv, TypeOK
  <2>3. /\ \A i \in 1 .. N : bindings[i].name \in WriteView
        /\ \E i \in idx .. N : bindings[i].name = o
    BY <2>2, <1>1 DEF IInv, Aside
  <2> QED
    BY <2>2, <2>3, <1>1, <1>3
<1>8. ASSUME Undoable PROVE HeldValues'
  <2>1. UndoesWhatIsLeft
    BY <1>1, <1>8 DEF IInv, HeldValues
  <2>2. \A i \in 1 .. N : i # idx => bindings[i].name # name
    BY <1>1, <1>8, AtBinding DEF Undoable, N
  <2>3. \A i \in idx + 1 .. N : oldSyntax'[bindings[i].name] = before[bindings[i].name]
    <3>1. SUFFICES ASSUME NEW i \in idx + 1 .. N
                   PROVE  oldSyntax'[bindings[i].name] = before[bindings[i].name]
      OBVIOUS
    <3>2. i \in idx .. N /\ i \in 1 .. N /\ i # idx
      BY <1>1, <1>3
    <3>3. bindings[i].name \in Objects /\ bindings[i].name # name
      BY <3>2, <2>2, <1>1, MibInstrumAssumption DEF IInv, Phases
    <3> QED
      BY <3>2, <3>3, <2>1, <1>4 DEF UndoesWhatIsLeft, IInv, TypeOK
  <2>4. ASSUME NEW o \in Objects, syntax'[o] # before[o]
        PROVE  \E i \in idx + 1 .. N : bindings[i].name = o
    <3>1. oldSyntax[name] = before[name]
      BY <2>1, <1>1, <1>3 DEF UndoesWhatIsLeft
    <3>2. o # name
      BY <2>4, <3>1, <1>3, <1>4 DEF IInv, TypeOK
    <3>3. syntax[o] # before[o]
      BY <2>4, <3>2, <1>4 DEF IInv, TypeOK
    <3> QED
      BY <3>2, <3>3, <2>1, <1>1, <1>3 DEF UndoesWhatIsLeft
  <2> QED
    BY <2>3, <2>4, <1>1, <1>2 DEF HeldValues, UndoesWhatIsLeft
<1> QED
  BY <1>2, <1>5, <1>6, <1>7, <1>8, UndoableStays DEF IInv

LEMMA ReadTestKeeps ==
    ASSUME IInv, ReadTest
    PROVE  IInv'
<1>1. /\ state = "readTest" /\ status = "ok" /\ idx \in 1 .. N /\ outcome = "ok"
      /\ name = bindings[idx].name /\ val = bindings[idx].val
      /\ val \in Values \cup {BadValue}
  BY AtBinding DEF ReadTest, At, IInv, Phases, name, val, N
<1>2. UNCHANGED <<objVars, before, op, bindings>> /\ N' = N
  BY DEF ReadTest, Returns, Raises, Escapes, N
<1>3. Returns \/ Raises \/ Escapes
  BY DEF ReadTest
<1>4. TypeOK'
  BY <1>1, <1>2, <1>3, HandlerType DEF IInv, TypeOK, objVars
<1>5. Phases'
  BY <1>1, <1>2, <1>3 DEF IInv, Phases, Returns, Raises, Escapes
<1>6. Aside'
  <2>1. \A o \in Objects : oldSyntax[o] = None
    BY <1>1 DEF IInv, Aside
  <2> QED
    BY <2>1, <1>2 DEF Aside, objVars
<1>7. ASSUME Undoable PROVE HeldValues'
  <2>1. CASE op = "write" /\ ~failed
    <3>1. Carried
      BY <2>1, <1>1, <1>7 DEF IInv, HeldValues
    <3>2. syntax[name] \in Values /\ name # Missing /\ name \in ReadView \cup {Missing}
      BY <3>1, <1>1, <1>7, AtBinding, MibInstrumAssumption DEF Carried, Undoable, N
    <3>3. Returns
      BY <3>2, MibInstrumAssumption DEF ReadTest
    <3> QED
      BY <3>1, <3>3, <2>1, <1>1, <1>2 DEF HeldValues, Carried, Returns, objVars
  <2>2. CASE ~(op = "write" /\ ~failed)
    <3>1. syntax = before
      BY <2>2, <1>1, <1>7 DEF IInv, HeldValues, TypeOK, FsmType
    <3> QED
      BY <3>1, <2>2, <1>1, <1>2, <1>3 DEF HeldValues, Returns, Raises, Escapes, objVars
  <2> QED
    BY <2>1, <2>2
<1> QED
  BY <1>2, <1>4, <1>5, <1>6, <1>7, UndoableStays DEF IInv

LEMMA ReadGetKeeps ==
    ASSUME IInv, ReadGet
    PROVE  IInv'
<1>1. /\ state = "readGet" /\ status = "ok" /\ idx \in 1 .. N /\ outcome = "ok"
  BY AtBinding DEF ReadGet, At, IInv, Phases, N
<1>2. UNCHANGED <<objVars, before, op, bindings, state, status, failed, outcome>> /\ N' = N
  BY DEF ReadGet, Returns, N
<1>3. TypeOK'
  BY <1>1, <1>2, HandlerType DEF IInv, TypeOK, objVars, ReadGet
<1>4. Phases'
  BY <1>1, <1>2 DEF IInv, Phases
<1>5. Aside'
  <2>1. \A o \in Objects : oldSyntax[o] = None
    BY <1>1 DEF IInv, Aside
  <2> QED
    BY <2>1, <1>2 DEF Aside, objVars
<1>6. Undoable => HeldValues'
  BY <1>1, <1>2 DEF IInv, HeldValues, Carried, objVars
<1> QED
  BY <1>2, <1>3, <1>4, <1>5, <1>6, UndoableStays DEF IInv

-----------------------------------------------------------------------------
(* The change of phase, and the operation's begin and end.                 *)

LEMMA BeginKeeps ==
    ASSUME IInv, NEW kind \in {"read", "write"}, NEW request \in SetRequests, Begin(kind, request)
    PROVE  IInv'
<1>1. /\ state = "idle" /\ op' = kind /\ bindings' = request
      /\ state' = "start" /\ idx' = Len(request) + 1 /\ before' = syntax
      /\ UNCHANGED <<status, failed, outcome, syntax, newSyntax, oldSyntax>>
  BY DEF Begin, Enter, objVars
<1>2. Len(request) \in Nat
  BY RequestsAreSequences
<1>3. TypeOK'
  BY <1>1, <1>2 DEF IInv, TypeOK, FsmType
<1>4. Phases'
  BY <1>1 DEF IInv, Phases
<1>5. Aside'
  <2>1. \A o \in Objects : oldSyntax[o] = None
    BY <1>1 DEF IInv, Aside
  <2> QED
    BY <2>1, <1>1 DEF Aside
<1>6. HeldValues'
  BY <1>1 DEF HeldValues
<1> QED
  BY <1>3, <1>4, <1>5, <1>6 DEF IInv

LEMMA FinishKeeps ==
    ASSUME IInv, Finish
    PROVE  IInv'
<1>1. /\ state = "stop" /\ op' = "read" /\ bindings' = <<>>
      /\ state' = "idle" /\ status' = "ok" /\ idx' = 1
      /\ failed' = FALSE /\ outcome' = "ok" /\ before' = syntax
      /\ UNCHANGED <<syntax, newSyntax, oldSyntax>>
  BY DEF Finish, Leave, objVars
<1>2. TypeOK'
  <2>1. 1 \in 1 .. Len(<<>>) + 1
    OBVIOUS
  <2> QED
    BY <2>1, <1>1 DEF IInv, TypeOK, FsmType
<1>3. Phases'
  BY <1>1 DEF Phases
<1>4. Aside'
  <2>1. \A o \in Objects : oldSyntax[o] = None
    BY <1>1 DEF IInv, Aside
  <2> QED
    BY <2>1, <1>1 DEF Aside
<1>5. HeldValues'
  BY <1>1 DEF HeldValues
<1> QED
  BY <1>2, <1>3, <1>4, <1>5 DEF IInv

LEMMA AdvanceKeeps ==
    ASSUME IInv, Advance
    PROVE  IInv'
<1> DEFINE p == NextPhase(IF op = "read" THEN fsmReadVar ELSE fsmWriteVar)
<1>1. /\ state \notin {"idle", "stop"} /\ (idx > N \/ status = "err")
      /\ state' = p /\ status' = "ok" /\ idx' = 1
      /\ outcome' = IF p = "stop" /\ failed THEN "error" ELSE outcome
      /\ UNCHANGED <<op, bindings, failed, syntax, newSyntax, oldSyntax, before>> /\ N' = N
  BY DEF Advance, Proceed, objVars, N
<1> HIDE DEF p
<1>2. /\ op = "read" => /\ state = "start" => p = "readTest"
                        /\ state = "readTest" => p = IF status = "ok" THEN "readGet" ELSE "stop"
                        /\ state = "readGet" => p = "stop"
      /\ op = "write" => /\ state = "start" => p = "writeTest"
                         /\ state = "writeTest" => p = IF status = "ok" THEN "writeCommit" ELSE "writeCleanup"
                         /\ state = "writeCommit" => p = IF status = "ok" THEN "writeCleanup" ELSE "writeUndo"
                         /\ state = "writeCleanup" => p = IF status = "ok" THEN "readTest" ELSE "stop"
                         /\ state = "writeUndo" => p = "readTest"
                         /\ state = "readTest" => p = IF status = "ok" THEN "readGet" ELSE "stop"
                         /\ state = "readGet" => p = "stop"
  BY <1>1, NextPhases DEF IInv, p
<1>3. N \in Nat /\ idx \in 1 .. N + 1 /\ (status = "ok" => idx = N + 1)
  BY <1>1, AtBinding
<1>4. /\ op \in {"read", "write"} /\ status \in {"ok", "err"}
      /\ state \in {"start", "writeTest", "writeCommit", "writeCleanup", "writeUndo", "readTest", "readGet"}
      /\ outcome = "ok"
      /\ op = "read" => state \in {"start", "readTest", "readGet"}
  BY <1>1 DEF IInv, TypeOK, FsmType, Phases
<1>5. TypeOK'
  <2>1. FsmType(SetRequests)'
    BY <1>1, <1>2, <1>3, <1>4 DEF IInv, TypeOK, FsmType, N
  <2> QED
    BY <2>1, <1>1 DEF IInv, TypeOK
<1>6. Phases'
  BY <1>1, <1>2, <1>3, <1>4 DEF IInv, Phases
<1>7. Aside'
  <2>1. ASSUME NEW o \in Objects, oldSyntax[o] # None
        PROVE  /\ p \in {"writeUndo", "writeCleanup"}
               /\ \A i \in 1 .. N : bindings[i].name \in WriteView
               /\ \E i \in 1 .. N : bindings[i].name = o
    <3>1. state = "writeCommit" /\ op = "write"
      BY <2>1, <1>3, <1>4 DEF IInv, Aside
    <3> QED
      BY <2>1, <3>1, <1>2, <1>4 DEF IInv, Aside
  <2> QED
    BY <2>1, <1>1 DEF Aside
<1>8. ASSUME Undoable PROVE HeldValues'
  <2> USE DEF objVars
  <2>1. HeldValues
    BY <1>8 DEF IInv
  <2>2. CASE state = "start"
    BY <2>1, <2>2, <1>1, <1>2, <1>4 DEF HeldValues, IInv, Phases
  <2>3. CASE state = "writeTest" /\ status = "ok"
    <3>1. \A i \in 1 .. N : Tested(i)'
      BY <2>1, <2>3, <1>1, <1>3 DEF HeldValues, Tested
    <3>2. Reached' = {}
      BY <1>1 DEF Reached
    <3>3. p = "writeCommit" /\ op = "write" /\ syntax = before
      BY <2>1, <2>3, <1>2, <1>4 DEF HeldValues
    <3>4. \A o \in Objects : oldSyntax[o] = None
      BY <2>3 DEF IInv, Aside
    <3>5. CommitsAreOrdered'
      BY <3>1, <3>2, <3>3, <3>4, <1>1 DEF CommitsAreOrdered
    <3> QED
      BY <3>3, <3>5, <1>1 DEF HeldValues
  <2>4. CASE state = "writeTest" /\ status = "err"
    BY <2>1, <2>4, <1>1, <1>2, <1>4 DEF HeldValues, IInv, Phases
  <2>5. CASE state = "writeCommit" /\ status = "ok"
    <3>1. p = "writeCleanup" /\ op = "write" /\ ~failed
      BY <2>5, <1>2, <1>4 DEF IInv, Phases
    <3>2. CommitsAreOrdered /\ Reached = 1 .. N
      BY <2>1, <2>5, <1>3 DEF HeldValues, Reached
    <3>3. Carried
      BY <3>2, MibInstrumAssumption DEF CommitsAreOrdered, Carried, Tested
    <3> QED
      BY <3>1, <3>3, <1>1 DEF HeldValues, Carried
  <2>6. CASE state = "writeCommit" /\ status = "err"
    <3>1. p = "writeUndo" /\ op = "write"
      BY <2>6, <1>2, <1>4
    <3>2. CommitsAreOrdered /\ Reached = 1 .. N
      BY <2>1, <2>6 DEF HeldValues, Reached, CommitsAreOrdered
    <3>3. UndoesWhatIsLeft'
      BY <3>2, <1>1 DEF CommitsAreOrdered, UndoesWhatIsLeft
    <3> QED
      BY <3>1, <3>3, <1>1 DEF HeldValues
  <2>7. CASE state = "writeUndo"
    <3>1. p = "readTest" /\ op = "write" /\ failed /\ status = "ok"
      BY <2>7, <1>2, <1>4 DEF IInv, Phases
    <3>2. \A o \in Objects : syntax[o] = before[o]
      BY <2>1, <2>7, <3>1, <1>3 DEF HeldValues, UndoesWhatIsLeft
    <3>3. syntax = before
      BY <3>2 DEF IInv, TypeOK
    <3> QED
      BY <3>1, <3>3, <1>1 DEF HeldValues
  <2>8. CASE state \in {"writeCleanup", "readTest", "readGet"}
    <3>1. p \in {"readTest", "readGet", "stop"} /\ (status = "err" => failed)
      BY <2>8, <1>2, <1>4 DEF IInv, Phases
    <3>2. CASE op = "read"
      BY <2>1, <3>1, <3>2, <1>1 DEF HeldValues
    <3>3. CASE op = "write"
      <4>1. IF failed THEN syntax = before ELSE Carried
        BY <2>1, <2>8, <3>3 DEF HeldValues
      <4>2. IF failed THEN syntax' = before' ELSE Carried'
        BY <4>1, <1>1 DEF Carried
      <4> QED
        BY <4>2, <3>1, <3>3, <1>1, <1>4 DEF HeldValues
    <3> QED
      BY <3>2, <3>3, <1>4
  <2> QED
    BY <2>2, <2>3, <2>4, <2>5, <2>6, <2>7, <2>8, <1>4
<1> QED
  BY <1>1, <1>5, <1>6, <1>7, <1>8, UndoableStays DEF IInv

-----------------------------------------------------------------------------
\* The invariant that carries the result: what each phase has left at each binding
\* (flipFlopFsm, writeTest, writeCommit, writeCleanup, writeUndo).
THEOREM PhasesAreInductive == Spec => []IInv
<1>1. Init => IInv
  <2> SUFFICES ASSUME Init PROVE IInv
    OBVIOUS
  <2>1. TypeOK
    <3>1. 1 \in 1 .. Len(<<>>) + 1
      OBVIOUS
    <3>2. FsmType(SetRequests)
      BY <3>1 DEF Init, Idle, FsmType
    <3> QED
      BY <3>2 DEF Init, TypeOK
  <2>2. Phases
    BY DEF Init, Idle, Phases
  <2>3. Aside
    BY DEF Init, Aside
  <2>4. HeldValues
    BY DEF Init, Idle, HeldValues
  <2> QED
    BY <2>1, <2>2, <2>3, <2>4 DEF IInv
<1>2. IInv /\ [Next]_vars => IInv'
  <2> SUFFICES ASSUME IInv, [Next]_vars PROVE IInv'
    OBVIOUS
  <2>1. CASE UNCHANGED vars
    BY <2>1 DEF vars, objVars, fsmVars, IInv, TypeOK, FsmType, Phases, Aside, Undoable, HeldValues,
                CommitsAreOrdered, UndoesWhatIsLeft, Carried, Tested, Reached, N
  <2>2. CASE Next
    BY <2>2, WriteTestKeeps, WriteCommitKeeps, WriteCleanupKeeps, WriteUndoKeeps, ReadTestKeeps,
       ReadGetKeeps, AdvanceKeeps, FinishKeeps, BeginKeeps DEF Next, Step
  <2> QED
    BY <2>1, <2>2
<1> QED
  BY <1>1, <1>2, PTL DEF Spec

\* Once an operation is over, its instances hold what a carried-out request asked for.
LEMMA CarriedIsAsked ==
    ASSUME IInv, Undoable, Carried
    PROVE  syntax = [o \in Objects |-> Asked(o)]
<1>1. SUFFICES ASSUME NEW o \in Objects PROVE syntax[o] = Asked(o)
  BY DEF IInv, TypeOK
<1> DEFINE S == {i \in DOMAIN bindings : bindings[i].name = o}
<1>2. DOMAIN bindings = 1 .. N
  BY AtBinding
<1>3. CASE S = {}
  BY <1>3, <1>2 DEF Asked, Carried
<1>4. CASE S # {}
  <2>1. PICK i \in S : TRUE
    BY <1>4
  <2>2. \A j \in S : j = i
    BY <2>1 DEF Undoable
  <2> DEFINE last == CHOOSE k \in S : \A j \in S : j <= k
  <2>3. i <= i /\ i \in 1 .. N
    BY <2>1, <1>2, AtBinding
  <2>4. last \in S
    <3>1. \E k \in S : \A j \in S : j <= k
      BY <2>1, <2>2, <2>3
    <3> HIDE DEF S
    <3> QED
      BY <3>1
  <2>5. last = i
    BY <2>2, <2>4
  <2>6. Asked(o) = bindings[i].val
    BY <2>5, <1>4 DEF Asked
  <2> QED
    BY <2>1, <2>3, <2>6 DEF Carried
<1> QED
  BY <1>3, <1>4

\* For any instances, values, views, failing commits and requests of any length: values
\* that were not tested are never stored, nothing is left put aside, and a SET the undo is
\* enough for happens completely or not at all (SetIsAtomic).
THEOREM SetsAreAtomic == Spec => []SetIsAtomic
<1>1. IInv => SetIsAtomic
  <2> SUFFICES ASSUME IInv PROVE SetIsAtomic
    OBVIOUS
  <2>1. NothingPutAside
    BY DEF IInv, Aside, NothingPutAside
  <2>2. AllOrNothing
    BY CarriedIsAsked DEF IInv, HeldValues, AllOrNothing
  <2> QED
    BY <2>1, <2>2 DEF IInv, SetIsAtomic
<1> QED
  BY <1>1, PhasesAreInductive, PTL

-----------------------------------------------------------------------------
(***************************************************************************)
(* SETs on the rows of a table (TableRow), under the same state machine.   *)
(* A table's handlers are proved about as operators on its dictionaries:   *)
(* each keeps what the dictionaries may hold, and those of the test and    *)
(* the cleanup change no value a manager sees.                             *)
(***************************************************************************)

Instances == [syntax : Syntaxes, newSyntax : Syntaxes, oldSyntax : Syntaxes]

\* What a column can be set to, by a request or by its row.
Settings == CellValues \cup RowStates \cup RowCommands \cup {BadValue, IndexValue, None}

\* The columns' dictionaries.
TableOK(t) ==
    /\ DOMAIN t = {"vars", "createdInstances", "destroyedInstances", "rowOpWanted", "raised"}
    /\ IsMap(t.vars, Cells, Instances)
    /\ IsMap(t.createdInstances, Cells, Instances \cup {None})
    /\ IsMap(t.destroyedInstances, Cells, Instances)
    /\ IsMap(t.rowOpWanted, Cells, RowWishes)

Seen(t) == [k \in DOMAIN t.vars |-> t.vars[k].syntax]

\* u is t but for what is put aside in its cells.
Alike(u, t) ==
    /\ DOMAIN u.vars = DOMAIN t.vars
    /\ \A k \in DOMAIN t.vars : u.vars[k].syntax = t.vars[k].syntax

\* What a manager sees of tables that are alike is the same.
LEMMA SeenAlike ==
    ASSUME NEW u, NEW t, Alike(u, t)
    PROVE  Seen(u) = Seen(t)
BY DEF Alike, Seen

LEMMA AlikeTwice ==
    ASSUME NEW u, NEW t, NEW w, Alike(u, t), Alike(w, u)
    PROVE  Alike(w, t)
BY DEF Alike

-----------------------------------------------------------------------------
\* A dictionary's types under d[k] = v and del d[k].
LEMMA MapPut ==
    ASSUME NEW d, NEW K, NEW V, IsMap(d, K, V), NEW k \in K, NEW v \in V
    PROVE  /\ IsMap(Put(d, k, v), K, V) /\ DOMAIN Put(d, k, v) = DOMAIN d \cup {k}
           /\ Put(d, k, v)[k] = v /\ \A x \in DOMAIN d : x # k => Put(d, k, v)[x] = d[x]
BY DEF IsMap, Put

LEMMA MapWithout ==
    ASSUME NEW d, NEW K, NEW V, IsMap(d, K, V), NEW S
    PROVE  IsMap(Without(d, S), K, V)
BY DEF IsMap, Without

\* One entry set or dropped, in each of the dictionaries.
LEMMA VarsSet ==
    ASSUME NEW t, TableOK(t), NEW k \in Cells, NEW i \in Instances
    PROVE  LET u == [t EXCEPT !.vars = Put(@, k, i)] IN
           /\ TableOK(u) /\ u.vars = Put(t.vars, k, i) /\ u.raised = t.raised
           /\ u.createdInstances = t.createdInstances /\ u.destroyedInstances = t.destroyedInstances
           /\ u.rowOpWanted = t.rowOpWanted
           /\ k \in DOMAIN t.vars /\ i.syntax = t.vars[k].syntax => Alike(u, t)
<1> DEFINE u == [t EXCEPT !.vars = Put(@, k, i)]
<1>1. /\ DOMAIN u = DOMAIN t /\ u.vars = Put(t.vars, k, i)
      /\ u.createdInstances = t.createdInstances /\ u.destroyedInstances = t.destroyedInstances
      /\ u.rowOpWanted = t.rowOpWanted /\ u.raised = t.raised
  BY DEF TableOK
<1> HIDE DEF u
<1>2. /\ IsMap(Put(t.vars, k, i), Cells, Instances)
      /\ DOMAIN Put(t.vars, k, i) = DOMAIN t.vars \cup {k}
      /\ Put(t.vars, k, i)[k] = i
      /\ \A x \in DOMAIN t.vars : x # k => Put(t.vars, k, i)[x] = t.vars[x]
  <2> DEFINE d == t.vars
  <2>1. IsMap(d, Cells, Instances)
    BY DEF TableOK
  <2> HIDE DEF d
  <2>2. /\ IsMap(Put(d, k, i), Cells, Instances) /\ DOMAIN Put(d, k, i) = DOMAIN d \cup {k}
        /\ Put(d, k, i)[k] = i /\ \A x \in DOMAIN d : x # k => Put(d, k, i)[x] = d[x]
    BY <2>1, MapPut
  <2> QED
    BY <2>2 DEF d
<1>3. TableOK(u)
  BY <1>1, <1>2 DEF TableOK
<1>4. k \in DOMAIN t.vars /\ i.syntax = t.vars[k].syntax => Alike(u, t)
  BY <1>1, <1>2 DEF Alike
<1> QED
  BY <1>1, <1>3, <1>4 DEF u

LEMMA CreatedSet ==
    ASSUME NEW t, TableOK(t), NEW k \in Cells, NEW i \in Instances \cup {None}
    PROVE  LET u == [t EXCEPT !.createdInstances = Put(@, k, i)] IN TableOK(u) /\ Alike(u, t)
<1> DEFINE u == [t EXCEPT !.createdInstances = Put(@, k, i)]
<1>1. /\ DOMAIN u = DOMAIN t /\ u.createdInstances = Put(t.createdInstances, k, i)
      /\ u.vars = t.vars /\ u.destroyedInstances = t.destroyedInstances /\ u.rowOpWanted = t.rowOpWanted
  BY DEF TableOK
<1> HIDE DEF u
<1>2. IsMap(Put(t.createdInstances, k, i), Cells, Instances \cup {None})
  BY MapPut DEF TableOK
<1>3. TableOK(u) /\ Alike(u, t)
  BY <1>1, <1>2 DEF TableOK, Alike
<1> QED
  BY <1>3 DEF u

LEMMA CreatedDropped ==
    ASSUME NEW t, TableOK(t), NEW S
    PROVE  LET u == [t EXCEPT !.createdInstances = Without(@, S)] IN TableOK(u) /\ Alike(u, t)
<1> DEFINE u == [t EXCEPT !.createdInstances = Without(@, S)]
<1>1. /\ DOMAIN u = DOMAIN t /\ u.createdInstances = Without(t.createdInstances, S)
      /\ u.vars = t.vars /\ u.destroyedInstances = t.destroyedInstances /\ u.rowOpWanted = t.rowOpWanted
  BY DEF TableOK
<1> HIDE DEF u
<1>2. IsMap(Without(t.createdInstances, S), Cells, Instances \cup {None})
  BY MapWithout DEF TableOK
<1>3. TableOK(u) /\ Alike(u, t)
  BY <1>1, <1>2 DEF TableOK, Alike
<1> QED
  BY <1>3 DEF u

LEMMA DestroyedDropped ==
    ASSUME NEW t, TableOK(t), NEW S
    PROVE  LET u == [t EXCEPT !.destroyedInstances = Without(@, S)] IN TableOK(u) /\ Alike(u, t)
<1> DEFINE u == [t EXCEPT !.destroyedInstances = Without(@, S)]
<1>1. /\ DOMAIN u = DOMAIN t /\ u.destroyedInstances = Without(t.destroyedInstances, S)
      /\ u.vars = t.vars /\ u.createdInstances = t.createdInstances /\ u.rowOpWanted = t.rowOpWanted
  BY DEF TableOK
<1> HIDE DEF u
<1>2. IsMap(Without(t.destroyedInstances, S), Cells, Instances)
  BY MapWithout DEF TableOK
<1>3. TableOK(u) /\ Alike(u, t)
  BY <1>1, <1>2 DEF TableOK, Alike
<1> QED
  BY <1>3 DEF u

LEMMA WishSet ==
    ASSUME NEW t, TableOK(t), NEW k \in Cells, NEW wish \in RowWishes
    PROVE  /\ TableOK(Noted(t, k, wish)) /\ Alike(Noted(t, k, wish), t)
           /\ Noted(t, k, wish).vars = t.vars
<1> DEFINE u == Noted(t, k, wish)
<1>1. /\ DOMAIN u = DOMAIN t /\ u.rowOpWanted = Put(t.rowOpWanted, k, wish)
      /\ u.vars = t.vars /\ u.createdInstances = t.createdInstances
      /\ u.destroyedInstances = t.destroyedInstances
  BY DEF TableOK, Noted
<1> HIDE DEF u
<1>2. IsMap(Put(t.rowOpWanted, k, wish), Cells, RowWishes)
  BY MapPut DEF TableOK
<1>3. TableOK(u) /\ Alike(u, t) /\ u.vars = t.vars
  BY <1>1, <1>2 DEF TableOK, Alike
<1> QED
  BY <1>3 DEF u

LEMMA WishDropped ==
    ASSUME NEW t, TableOK(t), NEW S
    PROVE  LET u == [t EXCEPT !.rowOpWanted = Without(@, S)] IN TableOK(u) /\ Alike(u, t)
<1> DEFINE u == [t EXCEPT !.rowOpWanted = Without(@, S)]
<1>1. /\ DOMAIN u = DOMAIN t /\ u.rowOpWanted = Without(t.rowOpWanted, S)
      /\ u.vars = t.vars /\ u.createdInstances = t.createdInstances
      /\ u.destroyedInstances = t.destroyedInstances
  BY DEF TableOK
<1> HIDE DEF u
<1>2. IsMap(Without(t.rowOpWanted, S), Cells, RowWishes)
  BY MapWithout DEF TableOK
<1>3. TableOK(u) /\ Alike(u, t)
  BY <1>1, <1>2 DEF TableOK, Alike
<1> QED
  BY <1>3 DEF u

\* What a handler raises is no part of the dictionaries.
LEMMA RaisedOnly ==
    ASSUME NEW t, TableOK(t), NEW e
    PROVE  TableOK(Raised(t, e)) /\ Alike(Raised(t, e), t) /\ Raised(t, e).vars = t.vars
<1> DEFINE u == Raised(t, e)
<1>1. /\ DOMAIN u = DOMAIN t /\ u.rowOpWanted = t.rowOpWanted
      /\ u.vars = t.vars /\ u.createdInstances = t.createdInstances
      /\ u.destroyedInstances = t.destroyedInstances
  BY DEF TableOK, Raised
<1> HIDE DEF u
<1>2. TableOK(u) /\ Alike(u, t) /\ u.vars = t.vars
  BY <1>1 DEF TableOK, Alike
<1> QED
  BY <1>2 DEF u

LEMMA WishRaised ==
    ASSUME NEW t, TableOK(t), NEW k
    PROVE  /\ TableOK(RaiseWish(t, k)) /\ Alike(RaiseWish(t, k), t)
           /\ TableOK(DropWish(t, k)) /\ Alike(DropWish(t, k), t)
<1> DEFINE u == RaiseWish(t, k)
<1>1. TableOK(u) /\ Alike(u, t)
  BY RaisedOnly DEF RaiseWish, Alike
<1> HIDE DEF u
<1>2. /\ TableOK([u EXCEPT !.rowOpWanted = Without(@, {k})])
      /\ Alike([u EXCEPT !.rowOpWanted = Without(@, {k})], u)
  BY <1>1, WishDropped
<1> QED
  BY <1>1, <1>2, AlikeTwice DEF u, DropWish

-----------------------------------------------------------------------------
\* A syntax that is given a value holds one of its values, RowStatus's own states included.
LEMMA ValueSet ==
    ASSUME NEW c \in ColumnNames, NEW s \in Syntaxes, NEW v \in Settings
    PROVE  setValue(c, s, v)[2] \in Syntaxes
<1>1. ASSUME s # None, v # None, c = StatusColumn, v \in RowStates \cup RowCommands
      PROVE  setValue(c, s, v)[2] \in RowStates \cup {s}
  <2> DEFINE now == IF s = NoValue THEN "notExists" ELSE s
  <2>1. setValue(c, s, v) = stateMatrix(v, now)
    BY <1>1 DEF setValue
  <2>2. stateMatrix(v, now)[2] \in RowStates \cup {now}
    BY DEF stateMatrix, RowStates
  <2>3. now \in RowStates \cup {s}
    BY DEF RowStates
  <2> QED
    BY <2>1, <2>2, <2>3
<1>2. CASE s = None
  BY <1>2 DEF setValue, Syntaxes
<1>3. CASE s # None /\ v = None
  BY <1>3 DEF setValue, Syntaxes
<1>4. CASE s # None /\ v # None /\ c = StatusColumn /\ v \in RowStates \cup RowCommands
  BY <1>4, <1>1 DEF Syntaxes
<1>5. CASE s # None /\ v # None /\ c # StatusColumn /\ v \in CellValues \cup {IndexValue}
  BY <1>5 DEF setValue, Syntaxes
<1>6. CASE ~ \/ s = None
             \/ v = None
             \/ c = StatusColumn /\ v \in RowStates \cup RowCommands
             \/ c # StatusColumn /\ v \in CellValues \cup {IndexValue}
  BY <1>6 DEF setValue
<1> QED
  BY <1>2, <1>3, <1>4, <1>5, <1>6

\* The cells of a column's dictionary.
LEMMA CellAt ==
    ASSUME NEW t, TableOK(t), NEW k \in DOMAIN t.vars
    PROVE  /\ k \in Cells /\ t.vars[k] \in Instances /\ t.vars[k].syntax \in Syntaxes
           /\ k[1] \in Rows /\ k[2] \in ColumnNames
BY DEF TableOK, IsMap, Instances, Cells

LEMMA CellParts ==
    ASSUME NEW k \in Cells
    PROVE  k[1] \in Rows /\ k[2] \in ColumnNames /\ k = <<k[1], k[2]>>
BY DEF Cells

\* A new value put aside.
LEMMA NewValue ==
    ASSUME NEW i \in Instances, NEW s \in Syntaxes
    PROVE  LET n == [i EXCEPT !.newSyntax = s] IN n \in Instances /\ n.syntax = i.syntax
BY DEF Instances

\* What writeCommit and writeCleanup make of an instance.
LEMMA CommittedType ==
    ASSUME NEW i \in Instances
    PROVE  Committed(i) \in Instances
<1> DEFINE o == IF i.oldSyntax = None THEN i.syntax ELSE i.oldSyntax
<1>1. i.newSyntax \in Syntaxes /\ o \in Syntaxes
  BY DEF Instances
<1>2. Committed(i) = [i EXCEPT !.syntax = i.newSyntax, !.oldSyntax = o]
  BY DEF Committed, Instances
<1> HIDE DEF o
<1> QED
  BY <1>1, <1>2 DEF Instances

LEMMA CleanedType ==
    ASSUME NEW i \in Instances
    PROVE  Cleaned(i) \in Instances /\ Cleaned(i).syntax = i.syntax
BY DEF Instances, Cleaned, Syntaxes

-----------------------------------------------------------------------------
\* The create* and destroy* of one cell: their tests and cleanups change no value.
LEMMA CreateTestOK ==
    ASSUME NEW t, TableOK(t), NEW k \in Cells, NEW v \in Settings
    PROVE  TableOK(createTest(t, k, v)) /\ Alike(createTest(t, k, v), t)
<1> DEFINE new == setValue(k[2], Default[k[2]], v)
           fresh == [Instance(Default[k[2]]) EXCEPT !.newSyntax = IF new[1] = "error" THEN @ ELSE new[2]]
           u == [t EXCEPT !.createdInstances = Put(@, k, fresh)]
           e == IF new[1] = "error" THEN "error" ELSE "none"
<1>1. k[2] \in ColumnNames /\ Default[k[2]] \in Syntaxes /\ None \in Syntaxes
  BY CellParts, TableRowAssumption DEF Syntaxes
<1>2. new[2] \in Syntaxes
  BY <1>1, ValueSet
<1>3. fresh \in Instances
  BY <1>1, <1>2 DEF Instance, Instances
<1> HIDE DEF fresh, new
<1>4. TableOK(u) /\ Alike(u, t)
  BY <1>3, CreatedSet
<1>5. TableOK(Raised(u, e)) /\ Alike(Raised(u, e), t)
  BY <1>4, RaisedOnly, AlikeTwice
<1>6. Alike(t, t)
  BY DEF Alike
<1> QED
  BY <1>5, <1>6 DEF createTest, fresh, new

LEMMA DestroyTestOK ==
    ASSUME NEW t, TableOK(t), NEW k \in Cells, NEW v \in Settings
    PROVE  TableOK(destroyTest(t, k, v)) /\ Alike(destroyTest(t, k, v), t)
<1> DEFINE new == setValue(k[2], t.vars[k].syntax, v)
           i == [t.vars[k] EXCEPT !.newSyntax = new[2]]
<1>0. Alike(t, t)
  BY DEF Alike
<1>1. CASE k \notin DOMAIN t.vars
  BY <1>0, <1>1 DEF destroyTest
<1>2. CASE k \in DOMAIN t.vars
  <2>1. new[2] \in Syntaxes
    BY <1>2, CellAt, CellParts, ValueSet
  <2>2. i \in Instances /\ i.syntax = t.vars[k].syntax
    BY <1>2, <2>1, CellAt, NewValue
  <2> DEFINE w == [t EXCEPT !.vars = Put(@, k, i)]
  <2>3. TableOK(w) /\ Alike(w, t)
    BY <1>2, <2>2, VarsSet
  <2>4. TableOK(Raised(t, "escaped")) /\ Alike(Raised(t, "escaped"), t)
    BY RaisedOnly
  <2>5. destroyTest(t, k, v) = IF new[1] = "escaped" THEN Raised(t, "escaped") ELSE w
    BY <1>2 DEF destroyTest, TableOK
  <2> QED
    BY <2>3, <2>4, <2>5
<1> QED
  BY <1>1, <1>2

LEMMA CreateCommitOK ==
    ASSUME NEW t, TableOK(t), NEW k \in Cells, NEW v
    PROVE  TableOK(createCommit(t, k, v))
<1> DEFINE given(i) == IF v = None THEN i ELSE Committed(i)
           created == t.createdInstances
<1>1. \A i \in Instances : given(i) \in Instances
  BY CommittedType
<1>2. \A x \in DOMAIN created : created[x] \in Instances \cup {None}
  BY DEF TableOK, IsMap
<1>3. CASE k \in DOMAIN t.vars
  <2>1. given(t.vars[k]) \in Instances
    BY <1>1, <1>3, CellAt
  <2> DEFINE w == [t EXCEPT !.vars = Put(@, k, given(t.vars[k]))]
  <2>2. TableOK(w)
    BY <2>1, VarsSet
  <2>3. createCommit(t, k, v) = IF k \in DOMAIN created THEN w ELSE t
    BY <1>3 DEF createCommit, TableOK
  <2> QED
    BY <2>2, <2>3
<1>4. CASE k \notin DOMAIN t.vars /\ (k \notin DOMAIN created \/ created[k] = None)
  BY <1>4, RaisedOnly DEF createCommit
<1>5. CASE k \notin DOMAIN t.vars /\ k \in DOMAIN created /\ created[k] # None
  <2>1. given(created[k]) \in Instances
    BY <1>1, <1>2, <1>5
  <2> DEFINE i == given(created[k])
             w == [t EXCEPT !.vars = Put(@, k, i)]
             u == [w EXCEPT !.createdInstances = Put(@, k, None)]
  <2> HIDE DEF i
  <2>2. TableOK(w)
    BY <2>1, VarsSet DEF i
  <2>3. TableOK(u)
    BY <2>2, CreatedSet
  <2>4. u = [t EXCEPT !.vars = Put(@, k, i), !.createdInstances = Put(@, k, None)]
    BY DEF TableOK
  <2>5. createCommit(t, k, v) = u
    BY <1>5, <2>4 DEF createCommit, i
  <2> QED
    BY <2>3, <2>5
<1> QED
  BY <1>3, <1>4, <1>5

LEMMA CreateCleanupOK ==
    ASSUME NEW t, TableOK(t), NEW k \in Cells, NEW v
    PROVE  TableOK(createCleanup(t, k, v)) /\ Alike(createCleanup(t, k, v), t)
<1>0. Alike(t, t)
  BY DEF Alike
<1>1. CASE k \in DOMAIN t.createdInstances
  BY <1>1, CreatedDropped DEF createCleanup
<1>2. CASE k \notin DOMAIN t.createdInstances /\ k \in DOMAIN t.vars /\ v # None
  <2>1. Cleaned(t.vars[k]) \in Instances /\ Cleaned(t.vars[k]).syntax = t.vars[k].syntax
    BY <1>2, CellAt, CleanedType
  <2> DEFINE w == [t EXCEPT !.vars = Put(@, k, Cleaned(t.vars[k]))]
  <2>2. TableOK(w) /\ Alike(w, t)
    BY <1>2, <2>1, VarsSet
  <2>3. createCleanup(t, k, v) = w
    BY <1>2 DEF createCleanup, TableOK
  <2> QED
    BY <2>2, <2>3
<1>3. CASE k \notin DOMAIN t.createdInstances /\ ~(k \in DOMAIN t.vars /\ v # None)
  BY <1>0, <1>3 DEF createCleanup
<1> QED
  BY <1>1, <1>2, <1>3

LEMMA DestroyCommitOK ==
    ASSUME NEW t, TableOK(t), NEW k \in Cells, NEW v
    PROVE  TableOK(destroyCommit(t, k, v))
<1>1. CASE k \notin DOMAIN t.vars
  BY <1>1 DEF destroyCommit
<1>2. CASE k \in DOMAIN t.vars
  <2> DEFINE d == Put(t.destroyedInstances, k, t.vars[k])
             w == [t EXCEPT !.destroyedInstances = d, !.vars = Without(@, {k})]
  <2>1. IsMap(d, Cells, Instances)
    BY <1>2, CellAt, MapPut DEF TableOK
  <2>2. IsMap(Without(t.vars, {k}), Cells, Instances)
    BY MapWithout DEF TableOK
  <2> HIDE DEF d
  <2>3. /\ DOMAIN w = DOMAIN t /\ w.vars = Without(t.vars, {k}) /\ w.destroyedInstances = d
        /\ w.createdInstances = t.createdInstances /\ w.rowOpWanted = t.rowOpWanted
    BY DEF TableOK
  <2> HIDE DEF w
  <2>4. TableOK(w)
    BY <2>1, <2>2, <2>3 DEF TableOK
  <2> QED
    BY <1>2, <2>4 DEF destroyCommit, w, d
<1> QED
  BY <1>1, <1>2

LEMMA DestroyUndoOK ==
    ASSUME NEW t, TableOK(t), NEW k \in Cells, NEW v
    PROVE  TableOK(destroyUndo(t, k, v))
<1>1. CASE k \notin DOMAIN t.destroyedInstances
  BY <1>1 DEF destroyUndo
<1>2. CASE k \in DOMAIN t.destroyedInstances
  <2>1. t.destroyedInstances[k] \in Instances
    BY <1>2 DEF TableOK, IsMap
  <2> DEFINE w == [t EXCEPT !.vars = Put(@, k, t.destroyedInstances[k])]
             u == [w EXCEPT !.destroyedInstances = Without(@, {k})]
  <2>2. TableOK(w)
    BY <2>1, VarsSet
  <2>3. TableOK(u)
    BY <2>2, DestroyedDropped
  <2>4. destroyUndo(t, k, v) = u
    BY <1>2 DEF destroyUndo, TableOK
  <2> QED
    BY <2>3, <2>4
<1> QED
  BY <1>1, <1>2

\* What a column does in a phase; before the commit and in a cleanup it changes no value.
Quiet == {"Test", "Cleanup"}

LEMMA ActionOK ==
    ASSUME NEW wish, NEW phase, NEW t, TableOK(t),
           NEW k \in Cells, NEW v \in Settings
    PROVE  /\ TableOK(ColumnAction(wish, phase, t, k, v))
           /\ phase \in Quiet => Alike(ColumnAction(wish, phase, t, k, v), t)
<1>1. TableOK(destroyCleanup(t, k, v)) /\ Alike(destroyCleanup(t, k, v), t)
  BY DestroyedDropped DEF destroyCleanup
<1>2. CASE phase = "Test"
  BY <1>2, CreateTestOK, DestroyTestOK DEF ColumnAction
<1>3. CASE phase = "Commit"
  BY <1>3, CreateCommitOK, DestroyCommitOK DEF ColumnAction, Quiet
<1>4. CASE phase = "Cleanup"
  BY <1>1, <1>4, CreateCleanupOK DEF ColumnAction
<1>5. CASE phase \notin {"Test", "Commit", "Cleanup"}
  BY <1>5, DestroyUndoOK DEF ColumnAction, Quiet
<1> QED
  BY <1>2, <1>3, <1>4, <1>5

-----------------------------------------------------------------------------
(* The row's other columns, one after the other.                           *)

\* What is done to a table keeps its types, and in a quiet phase every value.
Follows(u, t, phase) == TableOK(u) /\ (phase \in Quiet => Alike(u, t))

\* What follows what follows a table follows it.
LEMMA FollowsTwice ==
    ASSUME NEW phase, NEW t, NEW u, NEW w, Follows(u, t, phase), Follows(w, u, phase)
    PROVE  Follows(w, t, phase)
BY AlikeTwice DEF Follows

LEMMA RaisedFollows ==
    ASSUME NEW phase, NEW t, TableOK(t), NEW e
    PROVE  Follows(t, t, phase) /\ Follows(Raised(t, e), t, phase)
BY RaisedOnly DEF Follows, Alike

\* One more column does as the first did.
LEMMA AlsoDoneOK ==
    ASSUME NEW wish, NEW phase, NEW t, TableOK(t),
           NEW k \in Cells, NEW c \in ColumnNames
    PROVE  Follows(AlsoDone(wish, phase, t, k, c), t, phase)
<1> DEFINE v == IF c \in IndexColumns THEN IndexValue ELSE None
<1>1. <<k[1], c>> \in Cells /\ v \in Settings
  BY CellParts DEF Cells, Settings
<1> HIDE DEF v
<1>2. Follows(ColumnAction(wish, phase, t, <<k[1], c>>, v), t, phase)
  BY <1>1, ActionOK DEF Follows
<1> QED
  BY <1>2, RaisedFollows DEF AlsoDone, v

\* A set of numbers has a least one.
LEMMA LeastNumber ==
    ASSUME NEW B, B \subseteq Nat, B # {}
    PROVE  \E m \in B : \A i \in B : m <= i
<1>1. IsWellFoundedOn(OpToRel(<, Nat), Nat)
  BY NatLessThanWellFounded
<1>2. PICK m \in B : \A i \in B : ~ (<<i, m>> \in OpToRel(<, Nat))
  BY <1>1, WFMin
<1>3. \A i \in B : ~ (i < m)
  BY <1>2 DEF OpToRel
<1> QED
  BY <1>3

\* f is what the first 0, 1, ... columns leave of the table.
InOrder(f, wish, phase, t, k, last) ==
    f = [i \in 0 .. last |->
           IF i = 0 THEN Raised(t, "none") ELSE AlsoDone(wish, phase, f[i - 1], k, Columns[i])]

\* The columns' loop is well defined ...
LEMMA OrderExists ==
    ASSUME NEW wish, NEW phase, NEW t, NEW k, NEW last \in Nat
    PROVE  \E f : InOrder(f, wish, phase, t, k, last)
<1> DEFINE Bad == {m \in Nat : ~ \E f : InOrder(f, wish, phase, t, k, m)}
           s == Raised(t, "none")
<1> SUFFICES Bad = {}
  OBVIOUS
<1> SUFFICES ASSUME Bad # {} PROVE FALSE
  OBVIOUS
<1>1. PICK m \in Bad : \A i \in Bad : m <= i
  <2>1. Bad \subseteq Nat
    OBVIOUS
  <2> HIDE DEF Bad
  <2> QED
    BY <2>1, LeastNumber
<1>2. m \in Nat /\ ~ \E f : InOrder(f, wish, phase, t, k, m)
  BY <1>1
<1> HIDE DEF s
<1>3. CASE m = 0
  <2> DEFINE f == [i \in 0 .. 0 |-> s]
  <2>1. InOrder(f, wish, phase, t, k, 0)
    <3>1. \A i \in 0 .. 0 : i = 0
      OBVIOUS
    <3> QED
      BY <3>1 DEF InOrder, s
  <2> QED
    BY <1>2, <1>3, <2>1
<1>4. CASE m # 0
  <2>1. m - 1 \in Nat /\ ~(m <= m - 1)
    BY <1>2, <1>4
  <2>2. m - 1 \notin Bad
    BY <1>1, <2>1
  <2>3. PICK f : InOrder(f, wish, phase, t, k, m - 1)
    BY <2>1, <2>2
  <2> HIDE DEF Bad
  <2> DEFINE g == [i \in 0 .. m |->
                    IF i = m THEN AlsoDone(wish, phase, f[m - 1], k, Columns[m]) ELSE f[i]]
             h == [i \in 0 .. m |-> IF i = 0 THEN s ELSE AlsoDone(wish, phase, g[i - 1], k, Columns[i])]
  <2>4. \A i \in 0 .. m : i # m => g[i] = f[i]
    OBVIOUS
  <2>5. g[m] = AlsoDone(wish, phase, f[m - 1], k, Columns[m])
    BY <1>2
  <2>6. \A i \in 0 .. m - 1 : f[i] = IF i = 0 THEN s ELSE AlsoDone(wish, phase, f[i - 1], k, Columns[i])
    BY <2>3 DEF InOrder, s
  <2>7. \A i \in 0 .. m : h[i] = IF i = 0 THEN s ELSE AlsoDone(wish, phase, g[i - 1], k, Columns[i])
    BY Zenon
  <2>8. ASSUME NEW i \in 0 .. m PROVE g[i] = h[i]
    <3> HIDE DEF g, h
    <3>1. CASE i = m
      <4>1. m - 1 \in 0 .. m /\ m - 1 # m
        BY <1>2, <1>4
      <4>2. g[m - 1] = f[m - 1]
        BY <2>4, <4>1
      <4> QED
        BY <1>2, <1>4, <2>5, <2>7, <3>1, <4>2
    <3>2. CASE i # m /\ i # 0
      <4>1. i \in 0 .. m - 1 /\ i - 1 \in 0 .. m /\ i - 1 # m
        BY <1>2, <3>2
      <4>2. g[i] = f[i] /\ g[i - 1] = f[i - 1]
        BY <2>4, <3>2, <4>1
      <4> QED
        BY <2>6, <2>7, <3>2, <4>1, <4>2
    <3>3. CASE i # m /\ i = 0
      <4>1. i \in 0 .. m - 1
        BY <1>2, <3>3
      <4> QED
        BY <2>4, <2>6, <2>7, <3>3, <4>1
    <3> QED
      BY <3>1, <3>2, <3>3
  <2>9. g = [i \in 0 .. m |-> g[i]] /\ h = [i \in 0 .. m |-> h[i]]
    OBVIOUS
  <2>10. g = h
    <3> HIDE DEF g, h
    <3> QED
      BY <2>8, <2>9
  <2>11. InOrder(g, wish, phase, t, k, m)
    <3> HIDE DEF g
    <3> QED
      BY <2>10 DEF InOrder, h, s
  <2> QED
    BY <1>2, <2>11
<1> QED
  BY <1>3, <1>4

\* ... and what it leaves follows the table it began with.
LEMMA OrderFollows ==
    ASSUME NEW wish, NEW phase, NEW t, TableOK(t),
           NEW k \in Cells, NEW last \in Nat,
           \A i \in 1 .. last : Columns[i] \in ColumnNames,
           NEW f, InOrder(f, wish, phase, t, k, last)
    PROVE  Follows(f[last], t, phase)
<1> DEFINE Bad == {i \in 0 .. last : ~Follows(f[i], t, phase)}
<1> SUFFICES Bad = {}
  OBVIOUS
<1> SUFFICES ASSUME Bad # {} PROVE FALSE
  OBVIOUS
<1>1. PICK m \in Bad : \A i \in Bad : m <= i
  <2>1. Bad \subseteq Nat
    OBVIOUS
  <2> HIDE DEF Bad
  <2> QED
    BY <2>1, LeastNumber
<1>2. m \in 0 .. last /\ ~Follows(f[m], t, phase)
  BY <1>1
<1>3. \A i \in 0 .. last :
        f[i] = IF i = 0 THEN Raised(t, "none") ELSE AlsoDone(wish, phase, f[i - 1], k, Columns[i])
  BY DEF InOrder
<1>4. CASE m = 0
  <2>1. f[0] = Raised(t, "none")
    BY <1>3
  <2>2. Follows(Raised(t, "none"), t, phase)
    BY RaisedFollows, Zenon
  <2> QED
    BY <1>2, <1>4, <2>1, <2>2
<1>5. CASE m # 0
  <2>1. m - 1 \in 0 .. last /\ ~(m <= m - 1) /\ m \in 1 .. last
    BY <1>2, <1>5
  <2>2. Follows(f[m - 1], t, phase)
    BY <1>1, <2>1
  <2> HIDE DEF Bad
  <2>3. Follows(AlsoDone(wish, phase, f[m - 1], k, Columns[m]), f[m - 1], phase)
    BY <2>1, <2>2, AlsoDoneOK DEF Follows
  <2>4. f[m] = AlsoDone(wish, phase, f[m - 1], k, Columns[m])
    BY <1>2, <1>3, <1>5
  <2>5. Follows(f[m], t, phase)
    BY <2>2, <2>3, <2>4, FollowsTwice
  <2> QED
    BY <1>2, <2>5
<1> QED
  BY <1>4, <1>5

LEMMA ColumnsInOrder ==
    /\ Len(Columns) \in Nat
    /\ \A i \in 1 .. Len(Columns) : Columns[i] \in ColumnNames
<1>1. Columns \in Seq(ColumnNames)
  BY TableRowAssumption
<1> QED
  BY <1>1, LenProperties DEF ColumnNames

\* The row's other columns do as one of them did.
LEMMA ManageOK ==
    ASSUME NEW wish, NEW phase, NEW t, TableOK(t), NEW k \in Cells
    PROVE  Follows(manageColumns(wish, phase, t, k), t, phase)
<1> DEFINE after[i \in 0 .. Len(Columns)] ==
              IF i = 0 THEN Raised(t, "none") ELSE AlsoDone(wish, phase, after[i - 1], k, Columns[i])
<1>1. InOrder(after, wish, phase, t, k, Len(Columns))
  <2>1. \E f : InOrder(f, wish, phase, t, k, Len(Columns))
    BY OrderExists, ColumnsInOrder
  <2> QED
    BY <2>1, Zenon DEF InOrder
<1>2. manageColumns(wish, phase, t, k) = after[Len(Columns)]
  BY Zenon DEF manageColumns
<1> HIDE DEF after
<1> QED
  <2>1. /\ Len(Columns) \in Nat
        /\ \A i \in 1 .. Len(Columns) : Columns[i] \in ColumnNames
    BY ColumnsInOrder
  <2>2. Follows(after[Len(Columns)], t, phase)
    BY <1>1, <2>1, OrderFollows, Zenon
  <2> QED
    BY <1>2, <2>2

\* The same for whatever the column raised.
LEMMA DelegateOK ==
    ASSUME NEW phase, NEW t, TableOK(t), NEW k \in Cells
    PROVE  Follows(delegate(phase, t, k), t, phase)
BY ManageOK, RaisedFollows DEF delegate

-----------------------------------------------------------------------------
(* A phase at one binding.                                                 *)

\* What a column does of a phase, its wishes noted, raised and dropped.
LEMMA ColumnTestOK ==
    ASSUME NEW t, TableOK(t), NEW k \in Cells, NEW v \in Settings
    PROVE  Follows(ColumnTest(t, k, v), t, "Test")
<1> DEFINE new == setValue(k[2], t.vars[k].syntax, v)
           tested == [t EXCEPT !.vars = Put(@, k, [@[k] EXCEPT !.newSyntax = new[2]])]
           i == [t.vars[k] EXCEPT !.newSyntax = new[2]]
<1>1. ASSUME NEW u, Follows(u, t, "Test"), NEW wish \in RowWishes
      PROVE  /\ Follows(RaiseWish(createTest(Noted(u, k, wish), k, v), k), t, "Test")
             /\ Follows(RaiseWish(destroyTest(Noted(u, k, wish), k, v), k), t, "Test")
  <2>1. Follows(Noted(u, k, wish), u, "Test")
    BY <1>1, WishSet DEF Follows
  <2>2. TableOK(Noted(u, k, wish))
    BY <2>1 DEF Follows
  <2>3. /\ Follows(createTest(Noted(u, k, wish), k, v), Noted(u, k, wish), "Test")
        /\ Follows(destroyTest(Noted(u, k, wish), k, v), Noted(u, k, wish), "Test")
    BY <2>2, CreateTestOK, DestroyTestOK DEF Follows
  <2>4. \A w : Follows(w, Noted(u, k, wish), "Test") => Follows(RaiseWish(w, k), t, "Test")
    <3> SUFFICES ASSUME NEW w, Follows(w, Noted(u, k, wish), "Test")
                 PROVE  Follows(RaiseWish(w, k), t, "Test")
      OBVIOUS
    <3>1. Follows(RaiseWish(w, k), w, "Test")
      BY WishRaised DEF Follows
    <3> QED
      BY <3>1, <2>1, <1>1, FollowsTwice
  <2> QED
    BY <2>3, <2>4
<1>2. CASE k \notin DOMAIN t.vars
  <2>1. Follows(t, t, "Test") /\ "create" \in RowWishes
    BY RaisedFollows DEF RowWishes
  <2> QED
    BY <1>1, <1>2, <2>1 DEF ColumnTest
<1>3. CASE k \in DOMAIN t.vars
  <2>1. new[2] \in Syntaxes
    BY <1>3, CellAt, ValueSet
  <2>2. i \in Instances /\ i.syntax = t.vars[k].syntax
    BY <1>3, <2>1, CellAt, NewValue
  <2>3. Follows([t EXCEPT !.vars = Put(@, k, i)], t, "Test")
    BY <1>3, <2>2, VarsSet DEF Follows
  <2>4. tested = [t EXCEPT !.vars = Put(@, k, i)]
    BY DEF TableOK
  <2> HIDE DEF tested, new, i
  <2>5. Follows(tested, t, "Test")
    BY <2>3, <2>4
  <2>6. Follows(RaiseWish(tested, k), t, "Test")
    <3>1. Follows(RaiseWish(tested, k), tested, "Test")
      BY <2>5, WishRaised DEF Follows
    <3> QED
      BY <2>5, <3>1, FollowsTwice
  <2>7. {"createActive", "destroy"} \subseteq RowWishes
    BY DEF RowWishes
  <2>8. ColumnTest(t, k, v) =
          CASE new[1] = "create" -> RaiseWish(createTest(Noted(tested, k, "createActive"), k, v), k)
            [] new[1] = "destroy" -> RaiseWish(destroyTest(Noted(tested, k, "destroy"), k, v), k)
            [] new[1] = "none" -> RaiseWish(tested, k)
            [] OTHER -> Raised(t, new[1])
    BY <1>3 DEF ColumnTest, tested, new
  <2>9. CASE new[1] = "create"
    BY <2>8, <2>9, <2>5, <2>7, <1>1
  <2>10. CASE new[1] = "destroy"
    BY <2>8, <2>10, <2>5, <2>7, <1>1
  <2>11. CASE new[1] = "none"
    BY <2>8, <2>11, <2>6
  <2>12. CASE new[1] \notin {"create", "destroy", "none"}
    <3>1. Follows(Raised(t, new[1]), t, "Test")
      BY RaisedFollows, Zenon
    <3>2. ColumnTest(t, k, v) = Raised(t, new[1])
      BY <2>8, <2>12
    <3> QED
      BY <3>1, <3>2
  <2> QED
    BY <2>9, <2>10, <2>11, <2>12
<1> QED
  BY <1>2, <1>3

LEMMA ColumnCommitOK ==
    ASSUME NEW t, TableOK(t), NEW k \in Cells, NEW v
    PROVE  TableOK(ColumnCommit(t, k, v))
<1>1. CASE k \notin DOMAIN t.rowOpWanted /\ k \notin DOMAIN t.vars
  BY <1>1, RaisedOnly DEF ColumnCommit, ToInstance
<1>2. CASE k \notin DOMAIN t.rowOpWanted /\ k \in DOMAIN t.vars
  <2>1. Committed(t.vars[k]) \in Instances
    BY <1>2, CellAt, CommittedType
  <2>2. TableOK([t EXCEPT !.vars = Put(@, k, Committed(t.vars[k]))])
    BY <2>1, VarsSet
  <2>3. ColumnCommit(t, k, v) = [t EXCEPT !.vars = Put(@, k, Committed(t.vars[k]))]
    BY <1>2 DEF ColumnCommit, ToInstance, TableOK
  <2> QED
    BY <2>2, <2>3
<1>3. CASE k \in DOMAIN t.rowOpWanted
  BY <1>3, CreateCommitOK, DestroyCommitOK, WishRaised DEF ColumnCommit
<1> QED
  BY <1>1, <1>2, <1>3

LEMMA ColumnCleanupOK ==
    ASSUME NEW t, TableOK(t), NEW k \in Cells, NEW v
    PROVE  Follows(ColumnCleanup(t, k, v), t, "Cleanup")
<1>1. CASE k \notin DOMAIN t.rowOpWanted /\ k \notin DOMAIN t.vars
  BY <1>1, RaisedFollows DEF ColumnCleanup, ToInstance
<1>2. CASE k \notin DOMAIN t.rowOpWanted /\ k \in DOMAIN t.vars
  <2>1. Cleaned(t.vars[k]) \in Instances /\ Cleaned(t.vars[k]).syntax = t.vars[k].syntax
    BY <1>2, CellAt, CleanedType
  <2>2. Follows([t EXCEPT !.vars = Put(@, k, Cleaned(t.vars[k]))], t, "Cleanup")
    BY <1>2, <2>1, VarsSet DEF Follows
  <2>3. ColumnCleanup(t, k, v) = [t EXCEPT !.vars = Put(@, k, Cleaned(t.vars[k]))]
    BY <1>2 DEF ColumnCleanup, ToInstance, TableOK
  <2> QED
    BY <2>2, <2>3
<1>3. CASE k \in DOMAIN t.rowOpWanted
  <2> DEFINE u == IF t.rowOpWanted[k] = "destroy" THEN destroyCleanup(t, k, v)
                                                  ELSE createCleanup(t, k, v)
  <2>1. Follows(u, t, "Cleanup")
    BY CreateCleanupOK, DestroyedDropped DEF Follows, destroyCleanup
  <2>2. ColumnCleanup(t, k, v) = DropWish(u, k)
    BY <1>3 DEF ColumnCleanup
  <2> HIDE DEF u
  <2>3. Follows(DropWish(u, k), u, "Cleanup")
    BY <2>1, WishRaised DEF Follows
  <2> QED
    BY <2>1, <2>2, <2>3, FollowsTwice
<1> QED
  BY <1>1, <1>2, <1>3

LEMMA ColumnUndoOK ==
    ASSUME NEW t, TableOK(t), NEW k \in Cells, NEW v
    PROVE  TableOK(ColumnUndo(t, k, v))
<1> DEFINE Undone(i) == Cleaned([i EXCEPT !.syntax = i.oldSyntax])
<1>1. CASE k \notin DOMAIN t.rowOpWanted /\ k \notin DOMAIN t.vars
  BY <1>1, RaisedOnly DEF ColumnUndo, ToInstance
<1>2. CASE k \notin DOMAIN t.rowOpWanted /\ k \in DOMAIN t.vars
  <2>1. [t.vars[k] EXCEPT !.syntax = t.vars[k].oldSyntax] \in Instances
    BY <1>2, CellAt DEF Instances
  <2>2. Undone(t.vars[k]) \in Instances
    BY <2>1, CleanedType
  <2>3. TableOK([t EXCEPT !.vars = Put(@, k, Undone(t.vars[k]))])
    BY <2>2, VarsSet
  <2>4. ColumnUndo(t, k, v) = [t EXCEPT !.vars = Put(@, k, Undone(t.vars[k]))]
    BY <1>2 DEF ColumnUndo, ToInstance, TableOK
  <2> QED
    BY <2>3, <2>4
<1>3. CASE k \in DOMAIN t.rowOpWanted
  <2>1. TableOK(Noted(t, k, "destroy"))
    BY WishSet DEF RowWishes
  <2>2. TableOK(DropWish(destroyUndo(Noted(t, k, "destroy"), k, v), k))
    BY <2>1, DestroyUndoOK, WishRaised
  <2> QED
    BY <1>3, <2>2 DEF ColumnUndo
<1> QED
  BY <1>1, <1>2, <1>3

\* A phase keeps the dictionaries' types; the test and the cleanup change no value.
LEMMA RowOK ==
    ASSUME TableOK(table), NEW k \in Cells, NEW v \in Settings
    PROVE  /\ Follows(RowTest(k, v), table, "Test") /\ Follows(RowCleanup(k, v), table, "Cleanup")
           /\ TableOK(RowCommit(k, v)) /\ TableOK(RowUndo(k, v))
<1>1. Follows(RowTest(k, v), table, "Test")
  <2>1. Follows(ColumnTest(table, k, v), table, "Test")
    BY ColumnTestOK
  <2>2. Follows(delegate("Test", ColumnTest(table, k, v), k), ColumnTest(table, k, v), "Test")
    BY <2>1, DelegateOK DEF Follows
  <2> QED
    BY <2>1, <2>2, FollowsTwice DEF RowTest
<1>2. Follows(RowCleanup(k, v), table, "Cleanup")
  <2>1. Follows(ColumnCleanup(table, k, v), table, "Cleanup")
    BY ColumnCleanupOK
  <2>2. Follows(delegate("Cleanup", ColumnCleanup(table, k, v), k),
              ColumnCleanup(table, k, v), "Cleanup")
    BY <2>1, DelegateOK DEF Follows
  <2> QED
    BY <2>1, <2>2, FollowsTwice DEF RowCleanup
<1>3. TableOK(RowCommit(k, v))
  <2> DEFINE t == ColumnCommit(table, k, v)
             u == delegate("Commit", t, k)
  <2>1. TableOK(t)
    BY ColumnCommitOK
  <2> HIDE DEF t
  <2>2. TableOK(u)
    BY <2>1, DelegateOK DEF Follows
  <2> HIDE DEF u
  <2>3. TableOK(consistencyCheck(u, k[1]))
    BY <2>2, RaisedOnly DEF consistencyCheck
  <2> QED
    BY <2>2, <2>3 DEF RowCommit, t, u
<1>4. TableOK(RowUndo(k, v))
  BY ColumnUndoOK, DelegateOK DEF RowUndo, Follows
<1> QED
  BY <1>1, <1>2, <1>3, <1>4

-----------------------------------------------------------------------------
(* The phases of a SET on rows.                                            *)

\* The machine is only ever used to write, a SET has changed nothing until its first
\* commit, and one that its test refused never comes to one.
RowPhases ==
    /\ state # "stop" => outcome = "ok"
    /\ state # "idle" => op = "write"
    /\ state \in {"idle", "start"} => ~refused /\ status = "ok"
    /\ state \in {"start", "writeTest"} => Seen(table) = tableBefore
    /\ refused => /\ Seen(table) = tableBefore
                  /\ state \in {"writeTest", "writeCleanup", "readTest", "readGet", "stop"}
                  /\ state = "writeTest" => status = "err"

RowInv ==
    /\ TableOK(table) /\ table.raised = "none"
    /\ IsMap(tableBefore, Cells, Syntaxes) /\ refused \in BOOLEAN
    /\ FsmType(RowRequests)
    /\ RowPhases

\* The values seen are values the columns may hold.
LEMMA SeenIsVisible ==
    ASSUME TableOK(table)
    PROVE  Visible = Seen(table) /\ IsMap(Seen(table), Cells, Syntaxes)
<1>1. Visible = Seen(table)
  BY DEF Visible, Seen
<1>2. \A k \in DOMAIN table.vars : k \in Cells /\ table.vars[k].syntax \in Syntaxes
  BY CellAt
<1>3. IsMap(Seen(table), Cells, Syntaxes)
  BY <1>2 DEF Seen, IsMap
<1> QED
  BY <1>1, <1>3

\* The phase after this one.
LEMMA NextRowPhase ==
    ASSUME state \in {"start", "writeTest", "writeCommit", "writeCleanup", "writeUndo", "readTest", "readGet"},
           status \in {"ok", "err"}, state = "start" => status = "ok",
           NEW p, p = NextPhase(fsmWriteVar)
    PROVE  /\ p \in {"writeTest", "writeCommit", "writeCleanup", "writeUndo", "readTest", "readGet", "stop"}
           /\ p = "writeTest" => state = "start"
           /\ state = "writeTest" /\ status = "err" => p = "writeCleanup"
           /\ state \in {"writeCleanup", "readTest", "readGet"} => p \in {"readTest", "readGet", "stop"}
<1>1. p = NextPhase(fsmWriteVar)
  BY DEF NextPhase, fsmWriteVar, TableOf, WriteTransitions,
         NextPhase, fsmWriteVar, TableOf, WriteTransitions
<1>2. <<"writeUndo", "err">> \notin DOMAIN fsmWriteVar
  BY DEF fsmWriteVar, TableOf, WriteTransitions
<1> QED
  BY <1>1, <1>2, WriteTable DEF NextPhase

\* The binding a phase is at.
LEMMA AtRowBinding ==
    ASSUME FsmType(RowRequests)
    PROVE  /\ Len(bindings) \in Nat /\ idx \in 1 .. Len(bindings) + 1
           /\ idx <= Len(bindings) => name \in Cells /\ val \in Settings
<1> DEFINE B == [name : Rows \X (ColumnNames \ IndexColumns),
                 val : CellValues \cup RowStates \cup RowCommands \cup {BadValue}]
<1>1. bindings \in Seq(B)
  <2>1. bindings \in RowRequests \cup {<<>>}
    BY DEF FsmType
  <2>2. RowRequests \subseteq Seq(B)
    BY TableRowAssumption
  <2>3. <<>> \in Seq(B)
    <3> HIDE DEF B
    <3> QED
      BY EmptySeq
  <2> QED
    BY <2>1, <2>2, <2>3
<1>2. Len(bindings) \in Nat /\ \A i \in 1 .. Len(bindings) : bindings[i] \in B
  <2> HIDE DEF B
  <2> QED
    BY <1>1, LenProperties, ElementOfSeq
<1>3. idx \in 1 .. Len(bindings) + 1
  BY DEF FsmType
<1>4. ASSUME idx <= Len(bindings) PROVE bindings[idx] \in B
  BY <1>2, <1>3, <1>4
<1> QED
  BY <1>2, <1>3, <1>4 DEF name, val, Cells, Settings

\* A handler's end: the table as the handler left it, and the machine where it was.
LEMMA HandlerEnds ==
    ASSUME RowInv, idx <= Len(bindings), state \notin {"idle", "stop"},
           NEW t, TableOK(t), Ends(t)
    PROVE  /\ TableOK(table)' /\ table'.raised = "none" /\ Seen(table)' = Seen(t)
           /\ FsmType(RowRequests)' /\ op' = op
           /\ \/ state' = state /\ status' = status /\ outcome' = outcome
              \/ state' = state /\ status' = "err" /\ outcome' = outcome
              \/ state' = "stop" /\ status' = status /\ outcome' = "raised"
<1>1. table' = Raised(t, "none")
  BY DEF Ends
<1>2. TableOK(Raised(t, "none")) /\ Alike(Raised(t, "none"), t)
  BY RaisedOnly
<1>3. Raised(t, "none").raised = "none"
  BY DEF Raised, TableOK
<1>4. Seen(Raised(t, "none")) = Seen(t)
  BY <1>2, SeenAlike
<1>5. TableOK(table)' /\ table'.raised = "none" /\ Seen(table)' = Seen(t)
  BY <1>1, <1>2, <1>3, <1>4 DEF TableOK, Seen
<1>6. Returns \/ Raises \/ Escapes
  BY DEF Ends
<1>7. Len(bindings) \in Nat /\ idx \in 1 .. Len(bindings) /\ FsmType(RowRequests)
  <2>1. FsmType(RowRequests)
    BY DEF RowInv
  <2>2. Len(bindings) \in Nat /\ idx \in 1 .. Len(bindings) + 1
    BY <2>1, AtRowBinding
  <2> QED
    BY <2>1, <2>2
<1>8. FsmType(RowRequests)'
  <2>1. CASE Returns
    BY <1>7, <2>1 DEF FsmType, Returns
  <2>2. CASE Raises
    BY <1>7, <2>2 DEF FsmType, Raises
  <2>3. CASE Escapes
    BY <1>7, <2>3 DEF FsmType, Escapes
  <2> QED
    BY <1>6, <2>1, <2>2, <2>3
<1> QED
  BY <1>5, <1>6, <1>8 DEF Returns, Raises, Escapes

-----------------------------------------------------------------------------
(* The steps of a SET.                                                     *)

\* The phases at one binding keep the invariant.
LEMMA RowTestKeeps ==
    ASSUME RowInv, RowWriteTest
    PROVE  RowInv'
<1>1. /\ state = "writeTest" /\ status = "ok" /\ idx <= Len(bindings) /\ op = "write" /\ outcome = "ok"
      /\ ~refused /\ Seen(table) = tableBefore /\ TableOK(table)
  BY DEF RowWriteTest, At, RowInv, RowPhases
<1>2. /\ Ends(RowTest(name, val)) /\ UNCHANGED tableBefore
      /\ refused' = (status' = "err" \/ outcome' = "raised")
  BY DEF RowWriteTest
<1>3. name \in Cells /\ val \in Settings
  BY <1>1, AtRowBinding DEF RowInv
<1> DEFINE t == RowTest(name, val)
<1>4. Follows(t, table, "Test")
  BY <1>1, <1>3, RowOK
<1>5. TableOK(t) /\ Seen(t) = Seen(table)
  <2>1. "Test" \in Quiet
    BY DEF Quiet
  <2> HIDE DEF t
  <2> QED
    BY <1>4, <2>1, SeenAlike DEF Follows
<1> HIDE DEF t
<1>6. /\ TableOK(table)' /\ table'.raised = "none" /\ Seen(table)' = Seen(t)
      /\ FsmType(RowRequests)' /\ op' = op
      /\ \/ state' = state /\ status' = status /\ outcome' = outcome
         \/ state' = state /\ status' = "err" /\ outcome' = outcome
         \/ state' = "stop" /\ status' = status /\ outcome' = "raised"
  BY <1>1, <1>2, <1>5, HandlerEnds DEF t
<1>7. RowPhases'
  BY <1>1, <1>2, <1>5, <1>6 DEF RowPhases
<1> QED
  BY <1>2, <1>6, <1>7 DEF RowInv

LEMMA RowCommitKeeps ==
    ASSUME RowInv, RowWriteCommit \/ RowWriteUndo
    PROVE  RowInv'
<1>1. /\ state \in {"writeCommit", "writeUndo"} /\ idx <= Len(bindings) /\ op = "write" /\ outcome = "ok"
      /\ ~refused /\ TableOK(table)
  BY DEF RowWriteCommit, RowWriteUndo, At, RowInv, RowPhases
<1>2. name \in Cells /\ val \in Settings
  BY <1>1, AtRowBinding DEF RowInv
<1>3. TableOK(RowCommit(name, val)) /\ TableOK(RowUndo(name, val))
  BY <1>1, <1>2, RowOK
<1>4. PICK t : TableOK(t) /\ Ends(t)
  BY <1>3 DEF RowWriteCommit, RowWriteUndo
<1>5. UNCHANGED <<tableBefore, refused>>
  BY DEF RowWriteCommit, RowWriteUndo
<1>6. /\ TableOK(table)' /\ table'.raised = "none"
      /\ FsmType(RowRequests)' /\ op' = op
      /\ \/ state' = state /\ status' = status /\ outcome' = outcome
         \/ state' = state /\ status' = "err" /\ outcome' = outcome
         \/ state' = "stop" /\ status' = status /\ outcome' = "raised"
  BY <1>1, <1>4, HandlerEnds
<1>7. RowPhases'
  BY <1>1, <1>5, <1>6 DEF RowPhases
<1> QED
  BY <1>5, <1>6, <1>7 DEF RowInv

LEMMA RowCleanupKeeps ==
    ASSUME RowInv, RowWriteCleanup
    PROVE  RowInv'
<1>1. /\ state = "writeCleanup" /\ idx <= Len(bindings) /\ op = "write" /\ outcome = "ok"
      /\ TableOK(table) /\ (refused => Seen(table) = tableBefore)
  BY DEF RowWriteCleanup, At, RowInv, RowPhases
<1>2. Ends(RowCleanup(name, val)) /\ UNCHANGED <<tableBefore, refused>>
  BY DEF RowWriteCleanup
<1>3. name \in Cells /\ val \in Settings
  BY <1>1, AtRowBinding DEF RowInv
<1> DEFINE t == RowCleanup(name, val)
<1>4. Follows(t, table, "Cleanup")
  BY <1>1, <1>3, RowOK
<1>5. TableOK(t) /\ Seen(t) = Seen(table)
  <2>1. "Cleanup" \in Quiet
    BY DEF Quiet
  <2> HIDE DEF t
  <2> QED
    BY <1>4, <2>1, SeenAlike DEF Follows
<1> HIDE DEF t
<1>6. /\ TableOK(table)' /\ table'.raised = "none" /\ Seen(table)' = Seen(t)
      /\ FsmType(RowRequests)' /\ op' = op
      /\ \/ state' = state /\ status' = status /\ outcome' = outcome
         \/ state' = state /\ status' = "err" /\ outcome' = outcome
         \/ state' = "stop" /\ status' = status /\ outcome' = "raised"
  BY <1>1, <1>2, <1>5, HandlerEnds DEF t
<1>7. RowPhases'
  BY <1>1, <1>2, <1>5, <1>6 DEF RowPhases
<1> QED
  BY <1>2, <1>6, <1>7 DEF RowInv

LEMMA RowReadKeeps ==
    ASSUME RowInv, RowReadTest \/ RowReadGet
    PROVE  RowInv'
<1>1. /\ state \in {"readTest", "readGet"} /\ idx <= Len(bindings) /\ op = "write" /\ outcome = "ok"
      /\ TableOK(table) /\ (refused => Seen(table) = tableBefore)
  BY DEF RowReadTest, RowReadGet, At, RowInv, RowPhases
<1>2. UNCHANGED <<tableBefore, refused>>
  BY DEF RowReadTest, RowReadGet, tableVars
<1>3. /\ TableOK(table)' /\ table'.raised = "none" /\ Seen(table)' = Seen(table)
      /\ FsmType(RowRequests)' /\ op' = op
      /\ \/ state' = state /\ status' = status /\ outcome' = outcome
         \/ state' = state /\ status' = "err" /\ outcome' = outcome
         \/ state' = "stop" /\ status' = status /\ outcome' = "raised"
  <2>1. CASE RowReadTest
    <3>1. PICK e : Ends(Raised(table, e))
      BY <2>1 DEF RowReadTest
    <3>2. TableOK(Raised(table, e)) /\ Seen(Raised(table, e)) = Seen(table)
      BY <1>1, RaisedOnly, SeenAlike
    <3> QED
      BY <1>1, <3>1, <3>2, HandlerEnds
  <2>2. CASE RowReadGet
    <3>1. table' = table /\ Returns
      BY <2>2 DEF RowReadGet, tableVars
    <3>2. FsmType(RowRequests) /\ table.raised = "none"
      BY DEF RowInv
    <3>3. Len(bindings) \in Nat /\ idx \in 1 .. Len(bindings) + 1
      BY <3>2, AtRowBinding
    <3>4. FsmType(RowRequests)'
      BY <1>1, <3>1, <3>2, <3>3 DEF FsmType, Returns
    <3> QED
      BY <1>1, <3>1, <3>2, <3>4 DEF Returns, TableOK, Seen
  <2> QED
    BY <2>1, <2>2
<1>4. RowPhases'
  BY <1>1, <1>2, <1>3 DEF RowPhases
<1> QED
  BY <1>2, <1>3, <1>4 DEF RowInv

\* The change of phase, and the operation's begin and end.
LEMMA RowAdvanceKeeps ==
    ASSUME RowInv, RowAdvance
    PROVE  RowInv'
<1> DEFINE p == NextPhase(fsmWriteVar)
<1>1. /\ state \notin {"idle", "stop"} /\ TableOK(table) /\ FsmType(RowRequests) /\ RowPhases
      /\ op = "write" /\ outcome = "ok"
  BY DEF RowAdvance, Proceed, RowInv, RowPhases
<1>2. /\ state' = p /\ status' = "ok" /\ idx' = 1
      /\ outcome' = IF p = "stop" /\ failed THEN "error" ELSE outcome
      /\ UNCHANGED <<op, bindings, failed, table, tableBefore, refused>>
  BY <1>1 DEF RowAdvance, Proceed, tableVars
<1>3. /\ state \in {"start", "writeTest", "writeCommit", "writeCleanup", "writeUndo", "readTest", "readGet"}
      /\ status \in {"ok", "err"} /\ (state = "start" => status = "ok")
  BY <1>1 DEF FsmType, RowPhases
<1>4. /\ p \in {"writeTest", "writeCommit", "writeCleanup", "writeUndo", "readTest", "readGet", "stop"}
      /\ p = "writeTest" => state = "start"
      /\ state = "writeTest" /\ status = "err" => p = "writeCleanup"
      /\ state \in {"writeCleanup", "readTest", "readGet"} => p \in {"readTest", "readGet", "stop"}
  BY <1>3, NextRowPhase
<1> HIDE DEF p
<1>5. FsmType(RowRequests)'
  <2>1. Len(bindings) \in Nat
    BY <1>1, AtRowBinding
  <2>2. 1 \in 1 .. Len(bindings) + 1
    BY <2>1
  <2> QED
    BY <1>1, <1>2, <1>4, <2>2 DEF FsmType
<1>6. TableOK(table)' /\ Seen(table)' = Seen(table)
  BY <1>1, <1>2 DEF TableOK, Seen
<1>7. RowPhases'
  BY <1>1, <1>2, <1>3, <1>4, <1>6 DEF RowPhases
<1> QED
  BY <1>2, <1>5, <1>6, <1>7 DEF RowInv

LEMMA RowBeginKeeps ==
    ASSUME RowInv, NEW request \in RowRequests, RowBegin(request)
    PROVE  RowInv'
<1>1. /\ state = "idle" /\ op' = "write" /\ bindings' = request
      /\ state' = "start" /\ idx' = Len(request) + 1
      /\ UNCHANGED <<status, failed, outcome, table>> /\ tableBefore' = Visible /\ refused' = FALSE
  BY DEF RowBegin, Enter
<1>2. TableOK(table) /\ FsmType(RowRequests) /\ outcome = "ok" /\ status = "ok"
  BY <1>1 DEF RowInv, RowPhases
<1>3. Visible = Seen(table) /\ IsMap(Seen(table), Cells, Syntaxes)
  BY <1>2, SeenIsVisible
<1>4. Len(request) \in Nat
  <2> DEFINE B == [name : Rows \X (ColumnNames \ IndexColumns),
                   val : CellValues \cup RowStates \cup RowCommands \cup {BadValue}]
  <2>1. request \in Seq(B)
    BY TableRowAssumption
  <2> HIDE DEF B
  <2> QED
    BY <2>1, LenProperties
<1>5. FsmType(RowRequests)'
  BY <1>1, <1>2, <1>4 DEF FsmType
<1>6. TableOK(table)' /\ Seen(table)' = Seen(table)
  BY <1>1, <1>2 DEF TableOK, Seen
<1>7. RowPhases'
  BY <1>1, <1>2, <1>3, <1>6 DEF RowPhases
<1> QED
  BY <1>1, <1>3, <1>5, <1>6, <1>7 DEF RowInv

LEMMA RowFinishKeeps ==
    ASSUME RowInv, RowFinish
    PROVE  RowInv'
<1>1. /\ op' = "read" /\ bindings' = <<>> /\ state' = "idle" /\ status' = "ok" /\ idx' = 1
      /\ failed' = FALSE /\ outcome' = "ok" /\ UNCHANGED table
      /\ tableBefore' = EmptyMap /\ refused' = FALSE
  BY DEF RowFinish, Leave
<1>2. 1 \in 1 .. Len(<<>>) + 1
  OBVIOUS
<1>3. FsmType(RowRequests)'
  BY <1>1, <1>2 DEF FsmType
<1>4. IsMap(EmptyMap, Cells, Syntaxes)
  BY DEF IsMap, EmptyMap
<1>5. TableOK(table)'
  BY <1>1 DEF TableOK, RowInv
<1>6. RowPhases'
  BY <1>1 DEF RowPhases
<1> QED
  BY <1>1, <1>3, <1>4, <1>5, <1>6 DEF RowInv

\* The invariant that carries the result: the dictionaries hold tested values, and what a
\* refused SET has been through is its test and its cleanup (MibTableRow, flipFlopFsm).
THEOREM RowPhasesAreInductive == RowSpec => []RowInv
<1>1. RowInit => RowInv
  <2> SUFFICES ASSUME RowInit PROVE RowInv
    OBVIOUS
  <2>1. TableOK(table) /\ table.raised = "none"
    BY DEF RowInit, TableOK, IsMap, EmptyMap
  <2>2. IsMap(tableBefore, Cells, Syntaxes) /\ refused = FALSE
    BY DEF RowInit, IsMap, EmptyMap
  <2>3. 1 \in 1 .. Len(<<>>) + 1
    OBVIOUS
  <2>4. FsmType(RowRequests)
    BY <2>3 DEF RowInit, Idle, FsmType
  <2>5. RowPhases
    BY <2>2 DEF RowInit, Idle, RowPhases
  <2> QED
    BY <2>1, <2>2, <2>4, <2>5 DEF RowInv
<1>2. RowInv /\ [RowNext]_rowVars => RowInv'
  <2> SUFFICES ASSUME RowInv, [RowNext]_rowVars PROVE RowInv'
    OBVIOUS
  <2>1. CASE UNCHANGED rowVars
    BY <2>1 DEF rowVars, tableVars, fsmVars, RowInv, RowPhases, TableOK, Seen, FsmType
  <2>2. CASE RowNext
    BY <2>2, RowTestKeeps, RowCommitKeeps, RowCleanupKeeps, RowReadKeeps, RowAdvanceKeeps,
       RowBeginKeeps, RowFinishKeeps DEF RowNext, RowStep
  <2> QED
    BY <2>1, <2>2
<1> QED
  BY <1>1, <1>2, PTL DEF RowSpec

\* A SET refused in its test has changed nothing, in any table and whatever the requests
\* before it left behind (MibTableRow.__manageColumns, MibTableColumn.writeTest).
THEOREM RefusedSetsLeaveNoTrace == RowSpec => []RefusedLeavesNoTrace
<1>1. RowInv => RefusedLeavesNoTrace
  <2> SUFFICES ASSUME RowInv PROVE RefusedLeavesNoTrace
    OBVIOUS
  <2>1. RowTypeOK
    BY DEF RowInv, TableOK, RowTypeOK, Instances
  <2>2. RefusedChangesNothing
    BY SeenIsVisible DEF RowInv, RowPhases, RefusedChangesNothing
  <2> QED
    BY <2>1, <2>2 DEF RefusedLeavesNoTrace
<1> QED
  BY <1>1, RowPhasesAreInductive, PTL
=============================================================================
