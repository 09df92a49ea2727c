------------------------------ MODULE TableRow ------------------------------
(***************************************************************************)
(* SETs on the rows of a table (MibTableRow, MibTableColumn and            *)
(* MibScalarInstance of SNMPv2-SMI, RowStatus of SNMPv2-TC) under the      *)
(* state machine of pysnmp.smi.instrum.  A column asks for its row to be   *)
(* created or destroyed by raising RowCreationWanted or                    *)
(* RowDestructionWanted; the row then does the same to its other columns.  *)
(* The columns are in the requester's view; no row augments the table.     *)
(***************************************************************************)
EXTENDS FlipFlopFsm, PythonData

CONSTANTS
    Rows,          \* instance identifiers
    Columns,       \* the columns in the order of their OIDs
    StatusColumn,  \* the one whose syntax is RowStatus
    IndexColumns,  \* those the row fills in out of the instance identifier
    OptionalColumns, \* those marked with setOptional
    Default,       \* Default[c]: the value in column c's syntax, or NoValue
    CellValues,    \* what the other columns can hold
    IndexValue,    \* what an instance identifier says of an index column
    NoValue,       \* a syntax without value
    RowRequests    \* the bindings of the requests made

ColumnNames == {Columns[i] : i \in 1 .. Len(Columns)}
Cells == Rows \X ColumnNames
RowStates == {"notExists", "active", "notInService", "notReady"}
RowCommands == {"createAndGo", "createAndWait", "destroy"}
Syntaxes == CellValues \cup RowStates \cup {IndexValue, NoValue, None}
RowWishes == {"create", "createActive", "destroy"}  \* Row*Wanted; with syntax = active

ASSUME TableRowAssumption ==
    /\ Columns \in Seq(ColumnNames)
    /\ StatusColumn \in ColumnNames \ (IndexColumns \cup OptionalColumns)
    /\ IndexColumns \subseteq ColumnNames /\ OptionalColumns \subseteq ColumnNames
    /\ Default \in [ColumnNames -> CellValues \cup {NoValue}] /\ Default[StatusColumn] = NoValue
    /\ BadValue \notin CellValues \cup RowStates \cup RowCommands
    /\ None \notin CellValues \cup RowStates \cup RowCommands \cup {BadValue, NoValue, IndexValue}
    /\ NoValue \notin CellValues \cup RowStates
    /\ RowRequests \subseteq Seq([name : Rows \X (ColumnNames \ IndexColumns),
                                  val : CellValues \cup RowStates \cup RowCommands \cup {BadValue}])

VARIABLES
    table,        \* the columns' dictionaries, and what the handler has raised
    tableBefore,  \* the values seen when the operation began (history)
    refused       \* the operation failed in writeTest (history)

tableVars == <<table, tableBefore, refused>>
rowVars == <<tableVars, fsmVars>>

Instance(s) == [syntax |-> s, newSyntax |-> None, oldSyntax |-> None]

\* The values a manager can see.
Visible == [k \in DOMAIN table.vars |-> table.vars[k].syntax]

RowInit ==
    /\ table = [vars |-> EmptyMap, createdInstances |-> EmptyMap,
                destroyedInstances |-> EmptyMap, rowOpWanted |-> EmptyMap, raised |-> "none"]
    /\ tableBefore = EmptyMap /\ refused = FALSE /\ Idle

-----------------------------------------------------------------------------
\* What RowStatus makes of a value, by the state the row is in: what is raised
\* and the new state.
stateMatrix(new, current) ==
    CASE new \in {"createAndGo", "createAndWait"} ->
           IF current = "notExists" THEN <<"create", "active">> ELSE <<"error", current>>
      [] new = "destroy" -> <<"destroy", "notExists">>
      [] new \in {"active", "notInService"} ->
           IF current \in {"notExists", "notReady"} THEN <<"error", current>>
           ELSE IF current = "active" THEN <<"none", "active">> ELSE <<"none", new>>
      [] OTHER -> IF new = "notExists" /\ current = "notExists"
                  THEN <<"none", "notExists">> ELSE <<"error", current>>

\* MUTANT of setValue: a row's status is whatever it is set to.
setValueUnchecked(c, s, v) == <<"none", IF v = None THEN s ELSE v>>

\* The syntax of column c, now s, is given v: what is raised and the new value.
\* No value leaves it as it is, nothing can be asked of None.
setValue(c, s, v) ==
    CASE s = None -> <<"escaped", None>>
      [] s # None /\ v = None -> <<"none", s>>
      [] s # None /\ v # None /\ c = StatusColumn /\ v \in RowStates \cup RowCommands ->
           stateMatrix(v, IF s = NoValue THEN "notExists" ELSE s)
      [] s # None /\ v # None /\ c # StatusColumn /\ v \in CellValues \cup {IndexValue} -> <<"none", v>>
      [] OTHER -> <<"error", s>>

\* MibScalarInstance.writeCommit and writeCleanup.
Committed(i) ==
    [i EXCEPT !.syntax = i.newSyntax, !.oldSyntax = IF @ = None THEN i.syntax ELSE @]
Cleaned(i) == [i EXCEPT !.newSyntax = None, !.oldSyntax = None]

Raised(t, e) == [t EXCEPT !.raised = e]

-----------------------------------------------------------------------------
\* MibTableColumn's create* and destroy* on cell k, over the table t.

\* MUTANT of createTest: an instance is made once, for whichever binding is first.
createTestOnce(t, k, v) ==
    IF k \in DOMAIN t.createdInstances THEN t
    ELSE [t EXCEPT !.createdInstances =
                       Put(@, k, [Instance(Default[k[2]]) EXCEPT
                                    !.newSyntax = setValue(k[2], Default[k[2]], v)[2]])]

createTest(t, k, v) ==
    LET new == setValue(k[2], Default[k[2]], v)
        fresh == [Instance(Default[k[2]]) EXCEPT !.newSyntax = IF new[1] = "error" THEN @ ELSE new[2]]
    IN  IF v = None /\ k \in DOMAIN t.createdInstances THEN t
        ELSE Raised([t EXCEPT !.createdInstances = Put(@, k, fresh)],
                    IF new[1] = "error" THEN "error" ELSE "none")

\* MUTANT of createCommit: a column that no binding names is not created.
createCommitNamed(t, k, v) ==
    IF v = None \/ k \notin DOMAIN t.createdInstances THEN t
    ELSE [t EXCEPT !.vars = Put(@, k, Committed(t.createdInstances[k])),
                   !.createdInstances = Without(@, {k})]

\* A cell that is there is given its new value, another is put in its place.
createCommit(t, k, v) ==
    LET given(i) == IF v = None THEN i ELSE Committed(i)
        created == t.createdInstances
    IN  IF k \in DOMAIN t.vars
        THEN IF k \in DOMAIN created THEN [t EXCEPT !.vars = Put(@, k, given(@[k]))] ELSE t
        ELSE IF k \notin DOMAIN created \/ created[k] = None THEN Raised(t, "escaped")
        ELSE [t EXCEPT !.vars = Put(@, k, given(created[k])),
                       !.createdInstances = Put(@, k, None)]

createCleanup(t, k, v) ==
    IF k \in DOMAIN t.createdInstances
    THEN [t EXCEPT !.createdInstances = Without(@, {k})]
    ELSE IF k \in DOMAIN t.vars /\ v # None
    THEN [t EXCEPT !.vars = Put(@, k, Cleaned(@[k]))] ELSE t

\* MUTANT of destroyTest: the cell is taken off the tree already.
destroyTestEarly(t, k, v) == [t EXCEPT !.vars = Without(@, {k})]

destroyTest(t, k, v) ==
    IF k \notin DOMAIN t.vars THEN t
    ELSE LET new == setValue(k[2], t.vars[k].syntax, v)
         IN  IF new[1] = "escaped" THEN Raised(t, "escaped")
             ELSE [t EXCEPT !.vars = Put(@, k, [@[k] EXCEPT !.newSyntax = new[2]])]

destroyCommit(t, k, v) ==
    IF k \notin DOMAIN t.vars THEN t
    ELSE [t EXCEPT !.destroyedInstances = Put(@, k, t.vars[k]), !.vars = Without(@, {k})]

destroyCleanup(t, k, v) == [t EXCEPT !.destroyedInstances = Without(@, {k})]

destroyUndo(t, k, v) ==
    IF k \notin DOMAIN t.destroyedInstances THEN t
    ELSE [t EXCEPT !.vars = Put(@, k, t.destroyedInstances[k]),
                   !.destroyedInstances = Without(@, {k})]

-----------------------------------------------------------------------------
\* MibTableColumn's write*.  A wish once noted is raised whenever the cell is
\* come to, until writeCleanup or writeUndo drops it.

Noted(t, k, wish) == [t EXCEPT !.rowOpWanted = Put(@, k, wish)]
RaiseWish(t, k) ==
    IF t.raised = "none" /\ k \in DOMAIN t.rowOpWanted THEN Raised(t, t.rowOpWanted[k]) ELSE t
DropWish(t, k) == [RaiseWish(t, k) EXCEPT !.rowOpWanted = Without(@, {k})]

ColumnTest(t, k, v) ==
    LET new == setValue(k[2], t.vars[k].syntax, v)
        tested == [t EXCEPT !.vars = Put(@, k, [@[k] EXCEPT !.newSyntax = new[2]])]
    IN  IF k \notin DOMAIN t.vars
        THEN RaiseWish(createTest(Noted(t, k, "create"), k, v), k)
        ELSE CASE new[1] = "create" ->
                    RaiseWish(createTest(Noted(tested, k, "createActive"), k, v), k)
               [] new[1] = "destroy" ->
                    RaiseWish(destroyTest(Noted(tested, k, "destroy"), k, v), k)
               [] new[1] = "none" -> RaiseWish(tested, k)
               [] OTHER -> Raised(t, new[1])

\* What is done to the instance when the row is not meant to change.
ToInstance(t, k, F(_)) ==
    IF k \notin DOMAIN t.vars THEN Raised(t, "error")
    ELSE [t EXCEPT !.vars = Put(@, k, F(@[k]))]

ColumnCommit(t, k, v) ==
    IF k \notin DOMAIN t.rowOpWanted THEN ToInstance(t, k, Committed)
    ELSE RaiseWish(IF t.rowOpWanted[k] = "destroy" THEN destroyCommit(t, k, v)
                                                   ELSE createCommit(t, k, v), k)

ColumnCleanup(t, k, v) ==
    IF k \notin DOMAIN t.rowOpWanted THEN ToInstance(t, k, Cleaned)
    ELSE DropWish(IF t.rowOpWanted[k] = "destroy" THEN destroyCleanup(t, k, v)
                                                  ELSE createCleanup(t, k, v), k)

\* Every wish becomes one of destruction: what was created stays.
ColumnUndo(t, k, v) ==
    LET Undone(i) == Cleaned([i EXCEPT !.syntax = i.oldSyntax])
    IN  IF k \notin DOMAIN t.rowOpWanted THEN ToInstance(t, k, Undone)
        ELSE DropWish(destroyUndo(Noted(t, k, "destroy"), k, v), k)

-----------------------------------------------------------------------------
\* getattr(column, wish + phase): what a column does of its row's creation or
\* destruction in a phase.  An undo finds nothing to undo of a creation: it has
\* become a destruction.
ColumnAction(wish, phase, t, k, v) ==
    CASE phase = "Test" -> IF wish = "create" THEN createTest(t, k, v) ELSE destroyTest(t, k, v)
      [] phase = "Commit" -> IF wish = "create" THEN createCommit(t, k, v) ELSE destroyCommit(t, k, v)
      [] phase = "Cleanup" -> IF wish = "create" THEN createCleanup(t, k, v) ELSE destroyCleanup(t, k, v)
      [] OTHER -> destroyUndo(t, k, v)

\* Column c does it too, unless the request named it or one before it raised.
AlsoDone(wish, phase, t, k, c) ==
    IF t.raised # "none" \/ c = k[2] THEN t
    ELSE ColumnAction(wish, phase, t, <<k[1], c>>, IF c \in IndexColumns THEN IndexValue ELSE None)

\* The row's other columns do as column k did, in order.
manageColumns(wish, phase, t, k) ==
    LET after[i \in 0 .. Len(Columns)] ==
            IF i = 0 THEN Raised(t, "none") ELSE AlsoDone(wish, phase, after[i - 1], k, Columns[i])
    IN after[Len(Columns)]

\* MibTableRow.__delegate, once its column has returned or raised.
delegate(phase, t, k) ==
    CASE t.raised \in {"create", "createActive"} -> manageColumns("create", phase, t, k)
      [] t.raised = "destroy" -> manageColumns("destroy", phase, t, k)
      [] OTHER -> t

\* What keeps column c of row r from being in an active row.
Objection(t, r, c) ==
    IF c \in OptionalColumns THEN "none"
    ELSE IF <<r, c>> \notin DOMAIN t.vars THEN "error"
    ELSE CASE t.vars[<<r, c>>].syntax = None -> "escaped"
           [] t.vars[<<r, c>>].syntax = NoValue -> "error"
           [] OTHER -> "none"

\* The first column that keeps row r from being active decides what is raised.
consistencyCheck(t, r) ==
    LET objecting == {i \in 1 .. Len(Columns) : Objection(t, r, Columns[i]) # "none"}
        first == CHOOSE i \in objecting : \A j \in objecting : i <= j
    IN IF t.raised # "none" \/ objecting = {} THEN t ELSE Raised(t, Objection(t, r, Columns[first]))

RowTest(k, v) == delegate("Test", ColumnTest(table, k, v), k)
RowCleanup(k, v) == delegate("Cleanup", ColumnCleanup(table, k, v), k)
RowUndo(k, v) == delegate("Undo", ColumnUndo(table, k, v), k)

RowCommit(k, v) ==
    LET t == ColumnCommit(table, k, v)
        u == delegate("Commit", t, k)
    IN  IF t.raised = "createActive" THEN consistencyCheck(u, k[1]) ELSE u

-----------------------------------------------------------------------------
\* A phase's handler leaves the table as t and ends the way t says.
Ends(t) ==
    /\ table' = Raised(t, "none")
    /\ \/ t.raised = "none" /\ Returns
       \/ t.raised = "error" /\ Raises
       \/ t.raised = "escaped" /\ Escapes

RowBegin(request) ==
    Enter("write", request) /\ tableBefore' = Visible /\ refused' = FALSE /\ UNCHANGED table
RowFinish == Leave /\ tableBefore' = EmptyMap /\ refused' = FALSE /\ UNCHANGED table
RowAdvance == Proceed /\ UNCHANGED tableVars

RowWriteTest ==
    /\ At("writeTest") /\ Ends(RowTest(name, val))
    /\ refused' = (status' = "err" \/ outcome' = "raised") /\ UNCHANGED tableBefore
RowWriteCommit ==
    At("writeCommit") /\ Ends(RowCommit(name, val)) /\ UNCHANGED <<tableBefore, refused>>
RowWriteCleanup ==
    At("writeCleanup") /\ Ends(RowCleanup(name, val)) /\ UNCHANGED <<tableBefore, refused>>
RowWriteUndo ==
    At("writeUndo") /\ Ends(RowUndo(name, val)) /\ UNCHANGED <<tableBefore, refused>>

\* An absent cell is no error; one without a value is.
RowReadTest ==
    /\ At("readTest") /\ UNCHANGED <<tableBefore, refused>>
    /\ Ends(Raised(table, IF name \notin DOMAIN table.vars THEN "none"
                          ELSE CASE table.vars[name].syntax = None -> "escaped"
                                 [] table.vars[name].syntax = NoValue -> "error"
                                 [] OTHER -> "none"))

RowReadGet == At("readGet") /\ Returns /\ UNCHANGED tableVars

RowStep ==
    \/ RowAdvance \/ RowWriteTest \/ RowWriteCommit \/ RowWriteCleanup \/ RowWriteUndo
    \/ RowReadTest \/ RowReadGet \/ RowFinish

RowNext == RowStep \/ \E request \in RowRequests : RowBegin(request)

RowSpec == RowInit /\ [][RowNext]_rowVars

-----------------------------------------------------------------------------
\* Types: values that passed writeTest are all that is ever in a cell.
RowTypeOK ==
    LET Instances == [syntax : Syntaxes, newSyntax : Syntaxes, oldSyntax : Syntaxes]
    IN  /\ IsMap(table.vars, Cells, Instances)
        /\ IsMap(table.createdInstances, Cells, Instances \cup {None})
        /\ IsMap(table.destroyedInstances, Cells, Instances)
        /\ IsMap(table.rowOpWanted, Cells, RowWishes)
        /\ table.raised = "none"
        /\ IsMap(tableBefore, Cells, Syntaxes) /\ refused \in BOOLEAN
        /\ FsmType(RowRequests)

\* "Fate sharing mechanics": between operations a row has all of its columns
\* or none of them.
RowWhole ==
    state = "idle" =>
        \A r \in Rows : \/ {r} \X ColumnNames \subseteq DOMAIN table.vars
                        \/ {r} \X ColumnNames \cap DOMAIN table.vars = {}

\* "every binding in the request is tested before any is committed, so that a
\* failure anywhere leaves nothing written": a SET that fails in its test phase
\* leaves every cell as it was, and no cell more or less.
RefusedChangesNothing == state = "stop" /\ refused => Visible = tableBefore

LastOf(k) ==
    LET S == {i \in DOMAIN bindings : bindings[i].name = k} IN CHOOSE i \in S : \A j \in S : j <= i
Bound == {bindings[i].name : i \in DOMAIN bindings}

\* A SET that is answered with no error has done what its bindings ask: unless
\* the row was to be destroyed, the last value for a cell is the one it has, and
\* a row that was to be created is active.
DoneAsAsked ==
    state = "stop" /\ outcome = "ok" =>
        \A k \in Bound :
            LET asked == bindings[LastOf(k)].val
                s == <<k[1], StatusColumn>>
                destroyed == s \in Bound /\ bindings[LastOf(s)].val = "destroy"
            IN  destroyed \/ /\ k \in DOMAIN table.vars
                             /\ Visible[k] = IF asked \in {"createAndGo", "createAndWait", "notInService"}
                                             THEN "active" ELSE asked

\* However rows are created, destroyed and written, one after another and twice in
\* one request, a row is whole or absent, and a SET answered with no error has done all it
\* was asked (MibTableColumn, MibTableRow, RowStatus).
RowIsWhole == RowWhole /\ DoneAsAsked

\* A SET refused in its test has changed nothing, whatever other rows it was about and
\* whatever earlier ones left behind: the cells hold tested values throughout
\* (MibTableRow.__manageColumns, MibTableColumn).
RefusedLeavesNoTrace == RowTypeOK /\ RefusedChangesNothing
=============================================================================
