-------------------------------- MODULE Walk --------------------------------
(***************************************************************************)
(* Walking a MIB: hlapi.asyncio's walk_cmd and bulk_walk_cmd, the command  *)
(* generators beneath (entity.rfc3413.cmdgen) that do, or repeat, one      *)
(* request, and the responders (cmdrsp) that answer GETNEXT and GETBULK.   *)
(*                                                                         *)
(* An agent is a function of names: what it answers each with, a name or   *)
(* NothingAfter.  A binding is [name, end]: the end is an exception value. *)
(***************************************************************************)
EXTENDS Rfc2576

CONSTANT MaxVarBinds   \* BulkCommandResponder.maxVarBinds

NothingAfter == <<>>
WalkBind(name, end) == [name |-> name, end |-> end]
Asked(names) == [i \in DOMAIN names |-> WalkBind(names[i], FALSE)]
NamesOf(binds) == [i \in DOMAIN binds |-> binds[i].name]

\* The agent whose instances are db.
Honest(db, names) ==
    [n \in names |-> LET later == Following(db, n) IN IF later = {} THEN NothingAfter ELSE Least(later)]

\* readNextVars, one name at a time.  The end has the name that was asked for.
ReadNextVars(agent, names) ==
    [i \in DOMAIN names |->
        IF agent[names[i]] = NothingAfter THEN WalkBind(names[i], TRUE) ELSE WalkBind(agent[names[i]], FALSE)]

----------------------------------------------------------------------------
\* BulkCommandResponder.handleMgmtOperation, __answerOnceBulkRead: the bindings, or
\* <<>> for a genErr.
BulkResponse(agent, N, maxRepetitions, names) ==
    LET n == Min({N, Len(names)})
        r == Len(names) - n
        m == IF r = 0 THEN 0 ELSE Min({maxRepetitions, MaxVarBinds \div r})
        repetition[k \in 0 .. m] ==
            IF k = 0 THEN Asked(SubSeq(names, n + 1, Len(names)))
            ELSE ReadNextVars(agent, NamesOf(repetition[k - 1]))
    IN ReadNextVars(agent, SubSeq(names, 1, n)) \o FlattenSeq([k \in 1 .. m |-> repetition[k]])

\* apiBulkPDU.getVarBindTable: a row short of a column is dropped.
BulkTable(N, asked, binds) ==
    LET n == Min({N, asked})
        r == asked - n
        rows == IF r = 0 THEN 0 ELSE (Len(binds) - n) \div r
    IN IF r # 0 THEN [k \in 1 .. rows |-> SubSeq(binds, 1, n) \o SubSeq(binds, n + (k - 1) * r + 1, n + k * r)]
       ELSE IF n # 0 THEN <<SubSeq(binds, 1, n)>> ELSE <<>>

RECURSIVE NextResponseV1(_, _, _, _)

\* MUTANT of NextResponseV1: past every object of the answer.
NextResponseV1All(agent, types, names, orig) ==
    LET read == ReadNextVars(agent, names)
        wide == {i \in DOMAIN read : ~read[i].end /\ types[read[i].name] = "Counter64"}
    IN IF wide # {} THEN NextResponseV1(agent, types, NamesOf(read), orig)
       ELSE IF \E i \in DOMAIN read : read[i].end
       THEN [error |-> 2, index |-> Min({i \in DOMAIN read : read[i].end}), binds |-> orig]
       ELSE [error |-> 0, index |-> 0, binds |-> [i \in DOMAIN read |-> Bind(read[i].name, "Integer32", 0)]]

\* NextCommandResponder.handleMgmtOperation, __answerOnceWalked, for a v1 manager: an
\* object v1 cannot carry (types[name] = "Counter64") makes the proxy ask again past it.
\* (Instrumentation that asks the access control passes over it itself.)
NextResponseV1(agent, types, names, orig) ==
    LET read == ReadNextVars(agent, names)
        binds == [i \in DOMAIN read |->
                     Bind(read[i].name, IF read[i].end THEN "endOfMibView" ELSE types[read[i].name], 0)]
        sent == v2ToV1([type |-> "response", error |-> 0, index |-> 0, binds |-> binds],
                       [type |-> "next", error |-> 0, index |-> 0, binds |-> orig])
    IN IF sent.type = "StatusInformation"
       THEN NextResponseV1(agent, types, [names EXCEPT ![sent.index] = read[sent.index].name], orig)
       ELSE sent

----------------------------------------------------------------------------
\* MUTANT of GetNextVarBinds: a name may come again.
GetNextVarBindsSame(row, asked) ==
    [binds |-> IF \A i \in DOMAIN row : row[i].end THEN <<>> ELSE Asked(NamesOf(row)),
     error |-> IF \E i \in DOMAIN row : ~row[i].end /\ Precedes(row[i].name, asked[i])
               THEN "oidNotIncreasing" ELSE ""]

\* MUTANT of GetNextVarBinds: on until no column has an end.
GetNextVarBindsOn(row, asked) ==
    [binds |-> Asked(NamesOf(row)),
     error |-> IF \E i \in DOMAIN row : ~row[i].end /\ ~Precedes(asked[i], row[i].name)
               THEN "oidNotIncreasing" ELSE ""]

\* getNextVarBinds: the names to ask for next, none when every column has ended, and
\* whether a name did not increase.
GetNextVarBinds(row, asked) ==
    [binds |-> IF \A i \in DOMAIN row : row[i].end THEN <<>> ELSE Asked(NamesOf(row)),
     error |-> IF \E i \in DOMAIN row : ~row[i].end /\ ~Precedes(asked[i], row[i].name)
               THEN "oidNotIncreasing" ELSE ""]

\* What follows a request, by the generator's processResponseVarBinds: the names of the
\* next one, none to stop.  NextCommandGenerator goes on from its row,
FollowingNext(agent, names) == NamesOf(GetNextVarBinds(ReadNextVars(agent, names), names).binds)

\* and BulkCommandGenerator from the last row, its non-repeaters as before.
WithNonRepeaters(N, names, following) ==
    IF N > 0 THEN SubSeq(names, 1, N) \o SubSeq(following, N + 1, Len(following)) ELSE following
FollowingRows(N, names, table) ==
    IF table = <<>> THEN <<>>
    ELSE WithNonRepeaters(N, names, NamesOf(GetNextVarBinds(table[Len(table)], names).binds))
FollowingBulk(agent, N, maxRepetitions, names) ==
    FollowingRows(N, names, BulkTable(N, Len(names), BulkResponse(agent, N, maxRepetitions, names)))

\* The requests of a generator that is asked to go on, at most fuel of them.  N = -1 is
\* GETNEXT.
RECURSIVE Generated(_, _, _, _, _)
Generated(agent, N, maxRepetitions, names, fuel) ==
    IF fuel = 0 \/ names = <<>> THEN <<>>
    ELSE <<names>> \o Generated(agent, N, maxRepetitions,
                                IF N < 0 THEN FollowingNext(agent, names)
                                ELSE FollowingBulk(agent, N, maxRepetitions, names), fuel - 1)

----------------------------------------------------------------------------
\* MUTANT of EndColumns: with one column the others end.
EndColumnsAll(row, previous, initial, ended, lexicographic) ==
    LET left == {c \in DOMAIN row : row[c].end \/ (~lexicographic /\ ~IsPrefix(initial[c], row[c].name))}
    IN [row |-> row, ended |-> IF left # {} THEN DOMAIN row ELSE {}]

\* endColumnsThatLeftTheSubtree: the row with its ended columns, and those.
EndColumns(row, previous, initial, ended, lexicographic) ==
    LET left == {c \in DOMAIN row : \/ c \in ended \/ row[c].end
                                    \/ ~lexicographic /\ ~IsPrefix(initial[c], row[c].name)}
    IN [row |-> [c \in DOMAIN row |-> IF c \in left THEN WalkBind(previous[c].name, TRUE) ELSE row[c]],
        ended |-> left]

\* A walk under way: [current, ended, rows, status]; the status of one that goes on is
\* "".
Begun(initial) == [current |-> Asked(initial), ended |-> {}, rows |-> <<>>, status |-> "", calls |-> 0]

\* The rows of one answer, in their order, up to one that is past the end altogether.
TakenRow(w, initial, e) ==
    IF w.status # "" THEN w
    ELSE IF e.ended = DOMAIN initial THEN [w EXCEPT !.ended = e.ended, !.status = "end"]
    ELSE [w EXCEPT !.current = e.row, !.ended = e.ended, !.rows = Append(@, e.row)]
Taken(walk, table, initial, lexicographic) ==
    LET take(w, row) == TakenRow(w, initial, EndColumns(row, w.current, initial, w.ended, lexicographic))
    IN FoldLeft(take, [walk EXCEPT !.rows = <<>>], table)

\* Whether a walk has shown, or asked, as much as it was to.
Enough(options, rows, calls) ==
    \/ options.maxRows # 0 /\ Len(rows) >= options.maxRows
    \/ options.maxCalls # 0 /\ calls >= options.maxCalls

\* What an answer leaves of a walk (taken: with the rows of the answer only).
Turned(options, walk, error, taken) ==
    IF error # "" /\ ~(options.ignore /\ error = "oidNotIncreasing") THEN [walk EXCEPT !.status = error]
    ELSE [taken EXCEPT !.rows = walk.rows \o @, !.calls = @ + 1,
                       !.status = IF @ # "" THEN @ ELSE IF taken.rows = <<>> THEN "end"
                                  ELSE IF Enough(options, walk.rows \o taken.rows, walk.calls + 1) THEN "enough"
                                  ELSE ""]

\* One turn of walk_cmd's loop.
WalkAnswered(initial, options, walk, row) ==
    Turned(options, walk, GetNextVarBinds(row, NamesOf(walk.current)).error,
           Taken(walk, <<row>>, initial, options.lexicographic))
WalkTurn(agent, initial, options, walk) ==
    WalkAnswered(initial, options, walk, ReadNextVars(agent, NamesOf(walk.current)))

\* MUTANT of Repetitions: as many rows as ever, however few are still wanted.
RepetitionsAll(options, walk) == options.maxRepetitions

\* The rows bulk_walk_cmd asks for in its next request.
Repetitions(options, walk) ==
    IF options.maxRows = 0 THEN options.maxRepetitions
    ELSE Min({options.maxRepetitions, options.maxRows - Len(walk.rows)})

\* One turn of bulk_walk_cmd's loop.
BulkError(binds, table, asked) ==
    IF binds = <<>> THEN "genErr"
    ELSE IF table = <<>> THEN "emptyResponse"
    ELSE GetNextVarBinds(table[Len(table)], asked).error
BulkAnswered(initial, options, walk, binds, table) ==
    Turned(options, walk, BulkError(binds, table, NamesOf(walk.current)),
           Taken(walk, table, initial, options.lexicographic))
BulkReceived(N, initial, options, walk, binds) ==
    BulkAnswered(initial, options, walk, binds, BulkTable(N, Len(walk.current), binds))
BulkWalkTurn(agent, N, initial, options, walk) ==
    BulkReceived(N, initial, options, walk,
                 BulkResponse(agent, N, Repetitions(options, walk), NamesOf(walk.current)))

RECURSIVE Walked(_, _, _, _, _)
Walked(agent, initial, options, walk, fuel) ==
    IF fuel = 0 \/ walk.status # "" THEN walk
    ELSE Walked(agent, initial, options,
                IF options.bulk THEN BulkWalkTurn(agent, 0, initial, options, walk)
                ELSE WalkTurn(agent, initial, options, walk), fuel - 1)

walk_cmd(agent, initial, options) == Walked(agent, initial, [options EXCEPT !.bulk = FALSE], Begun(initial), 12)
bulk_walk_cmd(agent, initial, options) == Walked(agent, initial, [options EXCEPT !.bulk = TRUE], Begun(initial), 12)

----------------------------------------------------------------------------
InSubtree(db, name, options) ==
    {x \in Following(db, name) : options.lexicographic \/ IsPrefix(name, x)}
Column(rows, c) == LET live == SelectSeq(rows, LAMBDA r : ~r[c].end) IN [i \in DOMAIN live |-> live[i][c].name]

\* A walk of an agent that answers as it should ends, and shows of each column what
\* there is in its subtree, in order and to the end, also when the columns end at
\* different rows; or the first rows of that, when not more were wanted.
WalkShowsSubtrees(db, names, initial, options) ==
    \A w \in {walk_cmd(Honest(db, names), initial, options)} :
    LET size(c) == Cardinality(InSubtree(db, initial[c], options))
        length == Max({size(c) : c \in DOMAIN initial})
        shown == Min({length} \cup ({options.maxRows, options.maxCalls} \ {0}))
    IN /\ w.status \in {"end", "enough"}
       /\ Len(w.rows) = shown
       /\ \A c \in DOMAIN initial :
             /\ Column(w.rows, c) = SortSeq(Column(w.rows, c), Precedes)
             /\ Len(Column(w.rows, c)) = Min({shown, size(c)})
             /\ \A x \in InSubtree(db, initial[c], options) :
                   \/ x \in ToSet(Column(w.rows, c))
                   \/ Cardinality(InSubtree(db, initial[c], options) \ Following(db, x)) > shown

\* A walk with GETBULK shows the rows that one with GETNEXT does, however many the
\* agent is asked for and puts into an answer, in no more requests.  More columns than
\* the agent's limit of bindings it cannot have at all.
BulkIsWalk(db, names, initial, options) ==
    \A w \in {walk_cmd(Honest(db, names), initial, options)},
       b \in {bulk_walk_cmd(Honest(db, names), initial, options)} :
       IF Len(initial) <= MaxVarBinds
       THEN /\ IF options.maxCalls = 0 THEN b.rows = w.rows ELSE IsPrefix(w.rows, b.rows)
            /\ b.status \in {"end", "enough"} /\ b.calls <= w.calls
       ELSE b.status = "genErr" /\ b.rows = <<>>

\* Whatever an agent answers, names that come again and again included, a walk ends;
\* it shows no name twice with GETNEXT.
WalkEnds(agent, initial, options) ==
    \A w \in {walk_cmd(agent, initial, options)} :
    /\ w.status # "" /\ bulk_walk_cmd(agent, initial, options).status # ""
    /\ \A c \in DOMAIN initial : \A i, j \in DOMAIN Column(w.rows, c) :
          i < j => Precedes(Column(w.rows, c)[i], Column(w.rows, c)[j])

\* The generator that repeats requests by itself stops when every column has ended, but
\* with non-repeaters only when the application says so: these are asked for again
\* whatever came.
GeneratorStops(db, names, N, maxRepetitions, initial) ==
    (Len(Generated(Honest(db, names), N, maxRepetitions, initial, 13)) <= 12)
        <=> (N <= 0 \/ Len(initial) - N > MaxVarBinds)

\* A v1 manager's GETNEXT passes over each object v1 cannot carry, and nothing else.
NextPassesOver(db, names, wide, initial) ==
    LET narrow(i) == Following(db \ wide, initial[i])
        orig == [i \in DOMAIN initial |-> Bind(initial[i], "Null", 0)]
        r == NextResponseV1(Honest(db, names), [x \in db |-> IF x \in wide THEN "Counter64" ELSE "Integer32"],
                            initial, orig)
    IN IF \E i \in DOMAIN initial : narrow(i) = {}
       THEN r.error = 2 /\ r.binds = orig /\ r.index = Min({i \in DOMAIN initial : narrow(i) = {}})
       ELSE r.error = 0 /\ \A i \in DOMAIN initial : r.binds[i].oid = Least(narrow(i))
=============================================================================
