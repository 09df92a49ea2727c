------------------------------- MODULE MibTree -------------------------------
(***************************************************************************)
(* The managed objects of mibs/SNMPv2-SMI as a tree that GET and GETNEXT   *)
(* descend, and the encoding of a row's indices in the names of its        *)
(* instances.                                                              *)
(*                                                                         *)
(* A node is [name, kind, readable, value, vars]: the kind is "tree" (the  *)
(* root, tables and rows), "scalar", "column" or "instance", readable      *)
(* tells whether maxAccess allows reads, value whether an instance is      *)
(* populated, and vars are the nodes registered below it.  view is the set *)
(* of subtrees access control lets the requester read.                     *)
(***************************************************************************)
EXTENDS PythonData, SequencesExt, FiniteSets, FiniteSetsExt

NoSuchObject == "noSuchObject"
NoSuchInstance == "noSuchInstance"
NoAccess == "noAccess"

Failed == <<>>   \* NoSuchObjectError, NoSuchInstanceError or NoAccessError

NamesIn(n) == {v.name : v \in n.vars}
Var(n, name) == CHOOSE v \in n.vars : v.name = name
InView(view, name) == \E s \in view : IsPrefix(s, name)

\* The branch where a name may reside: the longest that begins it; in a column the
\* very name.
getBranch(n, name) ==
    LET holding == {v \in n.vars : IF n.kind = "column" THEN v.name = name ELSE IsPrefix(v.name, name)}
    IN IF holding = {} THEN {} ELSE {v \in holding : \A w \in holding : Len(w.name) <= Len(v.name)}

\* MUTANT of getNextBranch: the branch after the one the name is in.
GetNextBranchSkipping(n, name) ==
    LET later == {k \in Following(NamesIn(n), name) : ~IsPrefix(name, k)}
    IN IF later = {} THEN {} ELSE {Var(n, Least(later))}

getNextBranch(n, name) ==
    LET later == Following(NamesIn(n), name) IN IF later = {} THEN {} ELSE {Var(n, Least(later))}

\* Scalars and columns ask access control, with the name the search has come to.
Refused(n, name, view) ==
    n.kind \in {"scalar", "column"} /\ (~n.readable \/ ~InView(view, name))

InstanceAnswers(n, name, start) == name = n.name /\ Precedes(start, name) /\ n.value

RECURSIVE readGetNext(_, _, _, _)
RECURSIVE SearchFrom(_, _, _, _)

\* Branch by branch, each after the one before, until one has an answer.
SearchFrom(n, name, start, view) ==
    LET next == getNextBranch(n, name)
        b == CHOOSE x \in next : TRUE
        answer == readGetNext(b, b.name, start, view)
    IN IF next = {} THEN Failed
       ELSE IF answer # Failed THEN answer
       ELSE SearchFrom(n, b.name, start, view)

\* Down the branch the name is in first, then along the branches after the name.
readGetNext(n, name, start, view) ==
    LET within == getBranch(n, name)
        b == CHOOSE x \in within : TRUE
        answer == IF within = {} THEN Failed ELSE readGetNext(b, name, start, view)
    IN IF n.kind = "instance" THEN (IF InstanceAnswers(n, name, start) THEN name ELSE Failed)
       ELSE IF Refused(n, name, view) THEN Failed
       ELSE IF answer # Failed THEN answer
       ELSE SearchFrom(n, name, start, view)

\* At the top of the MIB.
GetNext(root, name, view) == readGetNext(root, name, name, view)

RECURSIVE readTest(_, _, _)
RECURSIVE readGet(_, _)

\* Whether readTest lets the read proceed; an absent branch does.
readTest(n, name, view) ==
    LET within == getBranch(n, name) IN
    IF n.kind = "instance" THEN (IF name = n.name /\ n.value THEN "" ELSE NoSuchInstance)
    ELSE IF n.kind \in {"scalar", "column"} /\ (name = n.name \/ Refused(n, name, view)) THEN NoAccess
    ELSE IF n.kind = "tree" /\ name = n.name THEN NoAccess
    ELSE IF within = {} THEN ""
    ELSE readTest(CHOOSE b \in within : TRUE, name, view)

readGet(n, name) ==
    LET within == getBranch(n, name) IN
    IF n.kind = "instance" THEN (IF name = n.name /\ n.value THEN "value" ELSE NoSuchInstance)
    ELSE IF within = {} THEN (IF n.kind = "tree" THEN NoSuchObject ELSE NoSuchInstance)
    ELSE readGet(CHOOSE b \in within : TRUE, name)

\* MUTANT of Get: the read is not tested first.
GetUntested(root, name, view) == readGet(root, name)

Get(root, name, view) ==
    LET test == readTest(root, name, view) IN IF test # "" THEN test ELSE readGet(root, name)

RECURSIVE ObjectsOf(_)
ObjectsOf(n) == (IF n.kind \in {"scalar", "column"} THEN {n} ELSE {}) \cup UNION {ObjectsOf(v) : v \in n.vars}

----------------------------------------------------------------------------
\* The view does not cut an object in two: access control is asked about the object
\* or the name the search began at, never about the instance that answers.
WholeObjects(root, view) == \A o \in ObjectsOf(root), s \in view : IsPrefix(o.name, s) => s = o.name

Instances(root, view) ==
    UNION {{v.name : v \in {w \in o.vars : w.value}} :
              o \in {x \in ObjectsOf(root) : x.readable /\ InView(view, x.name)}}

\* GETNEXT answers with the least populated and readable instance after the name, or
\* the end: objects without instances, unpopulated and unreadable ones, and names
\* between, before and after all objects are passed over and nothing else is.
NextIsLeast(root, view, name) ==
    WholeObjects(root, view) =>
        GetNext(root, name, view) =
            LET later == Following(Instances(root, view), name) IN IF later = {} THEN Failed ELSE Least(later)

\* What GETNEXT shows GET reads, and nothing else has a value.
GetAgreesWithNext(root, view, name) ==
    WholeObjects(root, view) =>
        ((Get(root, name, view) = "value") <=> (name \in Instances(root, view)))

----------------------------------------------------------------------------
\* The instance identifier of a row.  An index is described by [kind, fixed, implied]:
\* the kind is "int", "ip", "str", "oid" or "bits", fixed the length of a string that
\* has only one (or 0).  Values are numbers or sequences of them.

IpLength == 4
Upper(s, n) == SubSeq(s, 1, IF n < Len(s) THEN n ELSE Len(s))
Beyond(s, n) == SubSeq(s, n + 1, Len(s))

\* MUTANT of getAsName: strings without a length.
GetAsNameBare(type, value) ==
    IF type.kind = "int" THEN <<value>>
    ELSE IF type.kind \in {"ip", "str"} THEN value
    ELSE <<Len(value)>> \o value

getAsName(type, value) ==
    CASE type.kind = "int" -> <<value>>
      [] type.kind = "ip" -> value
      [] type.kind = "str" -> IF type.implied \/ type.fixed # 0 THEN value ELSE <<Len(value)>> \o value
      [] type.kind = "oid" -> IF type.implied THEN value ELSE <<Len(value)>> \o value
      [] type.kind = "bits" -> <<Len(value)>> \o value

\* The value at the front of the name and the rest of it.
setFromName(type, name) ==
    LET counted == <<Upper(Tail(name), name[1]), Beyond(name, name[1] + 1)>> IN
    CASE type.kind = "int" -> <<name[1], Tail(name)>>
      [] type.kind = "ip" -> <<Upper(name, IpLength), Beyond(name, IpLength)>>
      [] type.kind \in {"str", "oid"} /\ type.implied -> <<name, <<>>>>
      [] type.kind = "str" /\ ~type.implied /\ type.fixed # 0 -> <<Upper(name, type.fixed), Beyond(name, type.fixed)>>
      [] OTHER -> counted

getInstIdFromIndices(types, indices) ==
    FlattenSeq([i \in DOMAIN indices |-> getAsName(types[i], indices[i])])

\* [ok, indices]: not ok where the name is too short or too long.
Decoded(ok, indices) == [ok |-> ok, indices |-> indices]
DecodedWhole(all) == Decoded(all.ok /\ all.rest = <<>>, all.indices)
DecodedFurther(acc, r) == [ok |-> TRUE, indices |-> Append(acc.indices, r[1]), rest |-> r[2]]
getIndicesFromInstId(types, instId) ==
    LET step(acc, type) ==
            IF ~acc.ok \/ acc.rest = <<>> THEN [acc EXCEPT !.ok = FALSE]
            ELSE DecodedFurther(acc, setFromName(type, acc.rest))
    IN DecodedWhole(FoldLeft(step, [ok |-> TRUE, indices |-> <<>>, rest |-> instId], types))

\* MUTANT of AugmentingSuffix: of the indices the last one.
AugmentingSuffixLast(types, own, instId) ==
    LET r == getIndicesFromInstId(types, instId) IN getAsName(types[Max(own)], r.indices[Max(own)])

\* announceManagementEvent and receiveManagementEvent: the suffix under which the rows
\* that augment a row are created with it, from those of its indices that are its own.
SuffixOf(types, own, indices) ==
    LET given == SelectSeq([i \in DOMAIN types |-> i], LAMBDA i : i \in own)
    IN FlattenSeq([k \in DOMAIN given |-> getAsName(types[given[k]], indices[given[k]])])
AugmentingSuffix(types, own, instId) == SuffixOf(types, own, getIndicesFromInstId(types, instId).indices)

\* Rows with different indices have different names, and the name gives the indices
\* back: the manager's rows are the agent's rows.
IndicesComeBack(types, a, b) ==
    LET name == getInstIdFromIndices(types, a) IN
    /\ getIndicesFromInstId(types, name) = [ok |-> TRUE, indices |-> a]
    /\ name = getInstIdFromIndices(types, b) => a = b

\* A row that augments another is created under the other's indices, as long as all
\* of these are columns of the augmented row.
AugmentsOneToOne(types, a) ==
    LET name == getInstIdFromIndices(types, a)
    IN AugmentingSuffix(types, DOMAIN types, name) = name
=============================================================================
