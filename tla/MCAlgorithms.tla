---------------------------- MODULE MCAlgorithms ----------------------------
(***************************************************************************)
(* The algorithms and the components whose calls do not interleave, each   *)
(* over bounded inputs: the first step picks an input of one of them, and  *)
(* of those with a history more steps extend it.  A property below is the  *)
(* one of the component's module for what was picked.                      *)
(***************************************************************************)
EXTENDS NextId, MibCorpus, MibView, Rfc2576, StreamFraming, Walk, Usm

CONSTANTS MaxLag, LastValue, Octet, FittingSteps, FittingDraws, RowScanLimit

Mp == INSTANCE MessageProcessing
Dh == INSTANCE DhKeyChange
Targets == INSTANCE TargetCache
Config == INSTANCE EngineConfig
Dispatcher == INSTANCE TransportDispatcher
Dgram == INSTANCE DatagramTransport

VARIABLE input

ToPick(algorithm) == [of |-> "nothing", next |-> algorithm]
Chosen(algorithm, x) == input' = [of |-> algorithm, x |-> x]
Pick(algorithm, inputs) == input = ToPick(algorithm) /\ \E x \in inputs : Chosen(algorithm, x)

Algorithms ==
    {"ids", "keys", "path", "view", "tree", "indices", "identity", "binding", "notification", "read", "types",
     "walk", "agent", "usm", "pair", "digest", "cipher", "passphrase", "mp", "community", "response", "trap",
         "stream", "users", "targets", "lock",
     "notices", "filters", "rows", "agreement", "change", "timers", "transports", "datagrams", "asking"}
Init == input \in {ToPick(a) : a \in Algorithms}

----------------------------------------------------------------------------
\* Identifiers (NextId).

\* Identifiers are drawn by several threads; while one is in a call, others draw up to
\* MaxLag values.
PickIds == Pick("ids", {NewBank(e) : e \in 0 .. Maximum - Increment - 1})
StepIds ==
    /\ input.of = "ids" /\ ~input.x.clashed
    /\ \E t \in Threads :
          LET g == input.x IN
          \/ /\ g.step[t] = "idle" /\ \A u \in Threads : g.step[u] # "idle" => g.lag[u] < MaxLag
             /\ Chosen("ids", Pop(g, t))
          \/ g.step[t] = "read" /\ Chosen("ids", ReadLast(g, t))
          \/ g.step[t] = "extend" /\ Chosen("ids", Extend(g, t))

\* No identifier in use is issued again, unless two threads refilled at once
\* (Integer.__call__).
IdsDiffer == input.of = "ids" => NoRepeatInWindow(input.x)
\* Two threads do not refill at once where few values are drawn meanwhile
\* (Integer.__call__), but at the wrap.
IdsRefills == input.of = "ids" => RefillsApart(input.x)
\* No thread finds the bank of identifiers empty (Integer.__call__).
IdsNeverRunOut == input.of = "ids" => NeverRunsDry(input.x)

----------------------------------------------------------------------------
\* The compiled corpus (MibCorpus).

\* Arcs at the edges of one and two octets of Radix 4.
KeyOids == Upto(2, {0, 1, 3, 4, 7, 15}) \ {<<>>}
PickKeys == Pick("keys", KeyOids \X KeyOids)

\* Two modules, two nested OIDs and one apart; each corpus carries some modules at
\* some revision and has each OID, or not, for one of them.
CorpusOids == {<<1>>, <<1, 3>>, <<2>>}
CorpusOf(revision, defined, dead) ==
    [revision |-> revision, tier |-> [m \in DOMAIN revision |-> m % 2], dead |-> dead \cap DOMAIN revision,
     index |-> [o \in {p \in DOMAIN defined : Len(p) < 2 \/ defined[p] = 2} |-> defined[o]],
     nodes |-> {[module |-> defined[o], oid |-> o] : o \in DOMAIN defined}]
CorporaOf(dead) ==
    UNION {{CorpusOf(r, d, dead) : r \in [M -> {Undated, 1, 2}],
              d \in UNION {[S -> M] : S \in {{}, {<<1>>, <<2>>}, {<<1>>, <<1, 3>>}, {<<1, 3>>}}}} :
                  M \in {{1}, {1, 2}}}
PickPath == Pick("path", CorporaOf({}) \X CorporaOf({1}))

\* The keys of oid_key are ordered as the OIDs are and can be read back, and the range
\* up to subtree_bound is the subtree.
CorpusKeys == input.of = "keys" =>
    KeysKeepOrder(input.x[1], input.x[2]) /\ RangeIsSubtree(input.x[1], input.x[2])
\* A walk over several corpora by next_node misses no node and shows none of a copy
\* that is not used.
CorpusWalk == input.of = "path" => \A oid \in CorpusOids : WalkIsComplete(input.x, oid)
\* Where the copies of a module are dated, the order of the corpora does not decide
\* (best_by_revision).
CorpusOrder == input.of = "path" => \A oid \in CorpusOids : OrderDoesNotDecide(input.x, oid)
\* find_module answers with the longest prefix any corpus knows.
CorpusPrefix == input.of = "path" => \A oid \in CorpusOids : LongestPrefixWins(input.x, oid)

----------------------------------------------------------------------------
\* The view of the loaded modules (MibView).

\* Two modules of three and two symbols; names may clash, OIDs may be defined twice,
\* parents may be missing.
ViewOids == {<<1>>, <<1, 1>>, <<1, 2>>, <<2>>, <<1, 1, 4>>}
Some(N, S) == UNION {[M -> S] : M \in SUBSET N}
PickView ==
    Pick("view", {<<[revision |-> r, symbols |-> a], [revision |-> q, symbols |-> b]>> :
                     r \in {0, 1}, q \in {0, 1}, a \in Some({-1, -2, -3}, ViewOids),
                     b \in Some({-1, -4}, {<<1>>, <<1, 1>>, <<2, 3>>})})

\* A module with two names, one of an object, and two corpora with more; histories of
\* four calls.
AskingMod(id, symbols, objects) == [id |-> id, revision |-> 0, symbols |-> symbols, objects |-> objects]
AskingMods(kind) ==
    <<AskingMod(1, (-1 :> <<1>>) @@ (-2 :> <<1, 1>>), IF kind = "object" THEN {-2} ELSE {}),
      AskingMod(2, -3 :> <<1, 2>>, {-3}), AskingMod(3, (-4 :> <<1, 1, 4>>) @@ (-5 :> <<1, 2, 5>>), {-4}),
      AskingMod(4, -6 :> <<2>>, {})>>
AskingCorpora(kind) ==
    {[id |-> i, carries |-> {AskingMods(kind)[2], AskingMods(kind)[3]}, broken |-> IF i = 1 THEN {} ELSE {3}] :
        i \in {1, 3}}
        \cup {[id |-> 2, carries |-> {AskingMods(kind)[3], AskingMods(kind)[4]}, broken |-> {}]}
AskingOids == {<<1, 1, 4, 2>>, <<1, 2, 5>>, <<1, 2, 6>>, <<2, 1>>, <<1, 3>>}
PickAsking == Pick("asking",
    {[v |-> NewView(<<AskingMods(k)[1]>>), kind |-> k, calls |-> 4] : k \in {"object", "identifier"}})
StepAsking ==
    /\ input.of = "asking" /\ input.x.calls > 0
    /\ LET v == input.x.v
           to(w) == Chosen("asking", [input.x EXCEPT !.v = w, !.calls = @ - 1])
       IN \/ \E oid \in AskingOids : to(getNodeNameByOidAsking(v, oid).v)
          \/ \E c \in AskingCorpora(input.x.kind) \cup {NoCorpus} : c.id # v.corpus.id /\ to(SetMibCorpus(v, c))
          \/ \E i \in 2 .. 4 : i \notin Loaded(v) /\ to(LoadModules(v, AskingMods(input.x.kind)[i]))
          \/ \E id \in Loaded(v) \ {1} : to(UnloadModules(v, id))

\* getNodeNameByOid resolves the longest known prefix, whatever is loaded.
ViewPrefix == input.of = "view" =>
    \A oid \in {<<1, 1, 4, 2>>, <<1, 2>>, <<2, 1>>, <<3>>} : LongestKnownPrefix(input.x, oid)
\* In complete MIBs labels (indexMib) lead back to their OIDs.
ViewLabels == input.of = "view" => \A suffix \in {<<>>, <<1>>, <<4, 4>>} : LabelsLeadBack(input.x, suffix)
\* getNextNodeName visits every object once, in the order of OIDs.
ViewNext == input.of = "view" => NextVisitsAll(input.x)
\* Of two definitions the one of the more recent module is believed (indexMib).
ViewNewest == input.of = "view" => NewestDefines(input.x)
\* An OID resolves as deep as the corpus knows it, whatever was asked before, and is
\* asked for once (getNodeNameByOid).
ViewAsks == input.of = "asking" => \A oid \in AskingOids : AsksOnce(input.x.v, oid)

----------------------------------------------------------------------------
\* The tree of managed objects and the indices of rows (MibTree).

\* A scalar, a table of two columns and another scalar; instances may be missing or
\* unpopulated, objects unreadable or out of view.
Leaf(name, populated) == [name |-> name, kind |-> "instance", readable |-> TRUE, value |-> populated,
    vars |-> {}]
Object(name, kind, readable, instances) ==
    [name |-> name, kind |-> kind, readable |-> readable, value |-> FALSE,
     vars |-> {Leaf(name \o i, instances[i]) : i \in DOMAIN instances}]
Inner(name, vars) == [name |-> name, kind |-> "tree", readable |-> FALSE, value |-> FALSE, vars |-> vars]
Populations(ids) == Some(ids, BOOLEAN)
Trees ==
    {Inner(<<1>>, {Object(<<1, 1>>, "scalar", r, s),
                   Inner(<<1, 2>>, {Inner(<<1, 2, 1>>, {Object(<<1, 2, 1, 1>>, "column", TRUE, a),
                                                         Object(<<1, 2, 1, 3>>, "column", q, b)})}),
                   Object(<<1, 4>>, "scalar", TRUE, t)}) :
        r \in BOOLEAN, q \in BOOLEAN, s \in Populations({<<0>>}), t \in Populations({<<0>>}),
        a \in Populations({<<1>>, <<1, 1>>}), b \in Populations({<<2>>, <<4>>})}
TreeViews == {{<<1>>}, {<<1, 2, 1, 1>>, <<1, 4>>}}
TreeNames == {<<>>, <<1>>, <<1, 1>>, <<1, 1, 0>>, <<1, 1, 0, 0>>, <<1, 2>>, <<1, 2, 1, 1, 1>>,
    <<1, 2, 1, 1, 1, 1>>,
              <<1, 2, 1, 2>>, <<1, 2, 1, 3, 2>>, <<1, 2, 1, 3, 3>>, <<1, 2, 1, 3, 4>>, <<1, 3>>, <<1, 4, 0>>,
                  <<1, 5>>}
PickTree == Pick("tree", Trees)

\* Pairs of indices of every kind, the implied ones last.
Index(kind, fixed, implied) == [kind |-> kind, fixed |-> fixed, implied |-> implied]
Values(type) ==
    CASE type.kind = "int" -> 0 .. 2
      [] type.kind = "ip" -> {<<0, 0, 0, 1>>, <<1, 0, 0, 0>>}
      [] type.fixed # 0 -> [1 .. type.fixed -> 0 .. 2]
      [] OTHER -> Upto(2, 0 .. 2) \ (IF type.implied THEN {<<>>} ELSE {})
FirstIndices == {Index("int", 0, FALSE), Index("ip", 0, FALSE), Index("str", 0, FALSE), Index("str", 2, FALSE),
                 Index("oid", 0, FALSE), Index("bits", 0, FALSE)}
LastIndices == FirstIndices \cup {Index("str", 0, TRUE), Index("oid", 0, TRUE)}
PickIndices ==
    /\ input = ToPick("indices")
    /\ \E i \in FirstIndices, j \in LastIndices : \E x \in Values(i), y \in Values(j) :
          Chosen("indices", [types |-> <<i, j>>, a |-> <<x, y>>])

\* readGetNext answers with the least instance after the name that is there and may be
\* read.
TreeNext == input.of = "tree" => \A view \in TreeViews, name \in TreeNames : NextIsLeast(input.x, view, name)
\* readGet reads what readGetNext shows, and nothing else.
TreeGet == input.of = "tree" =>
    \A view \in TreeViews, name \in TreeNames \ {<<>>} : GetAgreesWithNext(input.x, view, name)
\* setFromName inverts getAsName, for each type of index and pairs of them.
IndexNames == input.of = "indices" =>
    \A x \in Values(input.x.types[1]), y \in Values(input.x.types[2]) :
        IndicesComeBack(input.x.types, input.x.a, <<x, y>>)
\* An augmenting row is created under the indices of the augmented one
\* (receiveManagementEvent).
IndexAugments == input.of = "indices" => AugmentsOneToOne(input.x.types, input.x.a)

----------------------------------------------------------------------------
\* Symbols, values and notifications (MibView).

\* A table of two columns, a scalar and a notification of a column and of an object of
\* another module, which may be loaded or not and may redefine the column.
WorldMod(name, revision, symbols) == [name |-> name, revision |-> revision, symbols |-> symbols]
BaseMod == WorldMod(9, 0, (-1 :> <<1>>) @@ (-2 :> TrapName))
TableMod == WorldMod(1, 1, (-3 :> <<1, 1>>) @@ (-4 :> <<1, 1, 1>>) @@ (-5 :> <<1, 1, 2>>)
    @@ (-6 :> <<1, 2>>) @@ (-7 :> <<1, 9>>))
OtherMod(revision, clash) == WorldMod(2, revision, (-8 :> (IF clash THEN <<1, 1, 2>> ELSE <<1, 3>>)))
RowTypes == {<<Index("int", 0, FALSE)>>, <<Index("str", 0, FALSE), Index("int", 0, FALSE)>>,
             <<Index("int", 0, FALSE), Index("oid", 0, TRUE)>>}
RowValues(types) ==
    IF Len(types) = 1 THEN {<<0>>, <<2>>}
    ELSE IF types[1].kind = "str" THEN {<<<<>>, 1>>, <<<<1, 2>>, 0>>} ELSE {<<1, <<2>>>>, <<0, <<0, 1>>>>}
Worlds(otherModule, clashes, rowTypes) ==
    {[mods |-> IF other = "loaded" THEN <<BaseMod, TableMod, OtherMod(revision, clash)>> ELSE <<BaseMod,
        TableMod>>,
      shelf |-> IF other = "there" THEN 2 :> OtherMod(revision, clash) ELSE [x \in {} |-> BaseMod],
      kind |-> (TrapName :> "scalar") @@ (<<1, 1>> :> "row") @@ (<<1, 1, 1>> :> "column")
          @@ (<<1, 1, 2>> :> "column")
               @@ (<<1, 2>> :> "scalar") @@ (<<1, 3>> :> "scalar") @@ (<<1, 9>> :> "notification"),
      rows |-> <<1, 1>> :> types, objects |-> <<1, 9>> :> <<<<1, -5>>, <<2, -8>>>>] :
        other \in otherModule, revision \in {0, 2}, clash \in clashes, types \in rowTypes}
Written(w) ==
    LET values == RowValues(w.rows[<<1, 1>>])
        numbers == Len(w.rows[<<1, 1>>]) = 1
    IN
    {[form |-> "symbol", module |-> m, name |-> n, indices |-> i] :
        m \in {1, 2} \cup (IF numbers THEN {AnyModule} ELSE {}),
            n \in {-4, -5} \cup (IF numbers THEN {-8} ELSE {}),
        i \in {<<>>} \cup values \cup {<<v[1]>> : v \in values}}
    \cup {[form |-> "symbol", module |-> m, name |-> -6, indices |-> i] : m \in {AnyModule, 1, 2},
        i \in {<<>>, <<0>>}}
    \cup {[form |-> "module", module |-> m, last |-> l, type |-> t] : m \in {1, 2}, l \in BOOLEAN,
        t \in {"any", "column"}}
PickIdentity ==
    /\ input = ToPick("identity")
    /\ \E w \in Worlds({"loaded", "there", "missing"}, BOOLEAN, RowTypes), loads \in {{}, {2}} :
          \E a \in Written(w) : Chosen("identity", <<w, NewIdentity(a, loads)>>)
PickBinding ==
    /\ input = ToPick("binding")
    /\ \E w \in Worlds({"loaded", "missing"}, {FALSE}, RowTypes), ignore \in BOOLEAN,
          oid \in {<<1>>, <<1, 1, 1, 2>>, <<1, 1, 2, 1, 7, 7>>, <<1, 2, 0>>, <<1, 3, 0>>, <<5, 1>>},
          value \in {"unspecified", "exception", "fits", "misfit"} :
              Chosen("binding", <<w, oid, value, ignore>>)

\* A notification and the bindings added to it.
PickNotification ==
    /\ input = ToPick("notification")
    /\ \E w \in Worlds({"loaded", "there", "missing"}, BOOLEAN, {<<Index("int", 0, FALSE)>>}),
          more \in Upto(2, {<<1, 1, 2, 0>>, <<1, 2, 0>>, <<1, 3, 0>>}), index \in {<<>>, <<0>>} :
          LET new == NewNotification(NewIdentity([form |-> "symbol", module |-> 1, name |-> -7,
              indices |-> <<>>], {}), index, <<>>)
          IN Chosen("notification",
                   [w |-> w, n |-> FoldLeft(addVarBinds, new,
                       [k \in DOMAIN more |-> BindingAt(more[k], "fits")])])

\* An object's symbol and its OID resolve to the same (ObjectIdentity.resolveWithMib).
IdentityForms == input.of = "identity" => FormsAgree(input.x[1], input.x[2])
\* A response resolves whatever its values and indices are (ObjectType.resolveWithMib),
\* but for values to be told of.
IdentityValues == input.of = "binding" => ValuesAsDeclared(input.x[1], input.x[2], input.x[3], input.x[4])
\* A notification resolves to its objects in their order, then what was added; and so
\* again after a failure, once the module is there (NotificationType.resolveWithMib).
IdentityNotification == input.of = "notification" =>
    \A r \in {resolveNotification(input.x.w, input.x.n)} :
        /\ NotificationWhole(r, input.x.n, <<>>)
        /\ NotificationWhole(resolveNotification([r.w EXCEPT !.shelf = 2 :> OtherMod(1, FALSE)], r.x), r.x,
              r.x.binds)

----------------------------------------------------------------------------
\* Sources of modules and their types (MibCorpus).

\* Up to four things that happen to a module's files, at times 0 to 3, in their order.
Happening == [op : {"write", "remove", "compile", "hash"}, at : 0 .. 3]
PickRead ==
    /\ input = ToPick("read")
    /\ \E n \in 1 .. 4 : \E h \in {x \in [1 .. n -> Happening] : \A i \in 1 .. n - 1 : x[i].at <= x[i + 1].at} :
          \E grain \in {1, 2} : Chosen("read", [history |-> h, grain |-> grain])

\* Three types of a module on each other, themselves, a base type, or one of another
\* module of the same or of another name, by their names in any order.
TypeNames == {"A", "B", "C"}
TypeExports == [other |-> {"A", "X"}] @@ (Tc :> {"B", "Y"}) @@ (Smi :> {"Counter"})
PickTypes ==
    Pick("types", {[mod |-> [base |-> b, imports |-> i], names |-> o] :
        b \in [TypeNames -> TypeNames \cup {"Counter", "X", "Y"}],
        i \in Some({"A", "X"}, {"other", "missing"}),
            o \in {<<"A", "B", "C">>, <<"C", "B", "A">>, <<"B", "A", "C">>}})

\* Bytecode older than its text never runs (__AbstractMibSource.read).
SourceReads == input.of = "read" => ReadsTheLastText(input.x.history, input.x.grain)
\* A synthesized type rests on the type its own module means (type_class), or the
\* module is refused.
SynthesisTypes == input.of = "types" =>
    TypesRestOnTheirOwn(input.x.mod, TypeExports, {"Counter"}, input.x.names)

----------------------------------------------------------------------------
\* Walks (Walk).

\* Columns in one subtree, in two, one within the other and beside all; the instances
\* are those of two subtrees and one after them.
WalkNames == {<<1>>, <<1, 1>>, <<1, 2>>, <<2>>, <<2, 1>>, <<3>>}
Starts == {<<<<1>>>>, <<<<2>>>>, <<<<1>>, <<2>>>>, <<<<2>>, <<1, 1>>>>, <<<<3>>, <<1>>>>,
    <<<<1>>, <<2>>, <<3>>>>}
WalkOptions ==
    {o \in [bulk : {FALSE}, lexicographic : BOOLEAN, ignore : {FALSE}, maxRows : 0 .. 2, maxCalls : 0 .. 1,
            maxRepetitions : 1 .. 3] : o.maxRows = 0 \/ o.maxCalls = 0}
Unlimited(options) == options.maxRows = 0 /\ options.maxCalls = 0 /\ options.lexicographic
PickWalk ==
    Pick("walk", {[db |-> d, initial |-> i, options |-> o] : d \in SUBSET (WalkNames \ {<<1>>}), i \in Starts,
        o \in WalkOptions})

\* Agents that answer with anything.
LiesAbout == {<<1>>, <<1, 1>>, <<1, 2>>, <<2>>}
PickAgent ==
    /\ input = ToPick("agent")
    /\ \E agent \in [LiesAbout -> LiesAbout \cup {NothingAfter}], initial \in {<<<<1>>>>, <<<<1>>, <<1, 1>>>>} :
          \E lexicographic \in BOOLEAN, repetitions \in 1 .. 2 :
              Chosen("agent", [agent |-> agent, initial |-> initial,
                               options |-> [bulk |-> FALSE, lexicographic |-> lexicographic, ignore |-> FALSE,
                                            maxRows |-> 0, maxCalls |-> 0, maxRepetitions |-> repetitions]])

\* walk_cmd shows what each column's subtree holds, to its end.
WalkShows == input.of = "walk" => WalkShowsSubtrees(input.x.db, WalkNames, input.x.initial, input.x.options)
\* bulk_walk_cmd shows the rows walk_cmd does.
WalkBulk == input.of = "walk" => BulkIsWalk(input.x.db, WalkNames, input.x.initial, input.x.options)
\* A walk ends whatever the agent answers (walk_cmd, bulk_walk_cmd).
WalkStops == input.of = "agent" => WalkEnds(input.x.agent, input.x.initial, input.x.options)
\* The generators stop by themselves when every column has ended (getNextVarBinds).
WalkGenerates == input.of = "walk" /\ Unlimited(input.x.options) =>
    \A N \in -1 .. Len(input.x.initial) - 1 :
        GeneratorStops(input.x.db, WalkNames, N, input.x.options.maxRepetitions, input.x.initial)
\* A v1 manager's GETNEXT passes over the objects v1 cannot carry
\* (NextCommandResponder).
WalkV1 == input.of = "walk" /\ Unlimited(input.x.options) =>
    \A wide \in SUBSET (input.x.db \cap {<<1, 1>>, <<2>>, <<3>>}) :
        NextPassesOver(input.x.db, WalkNames, wide, input.x.initial)

----------------------------------------------------------------------------
\* The user-based security model (Usm).

\* A user of this engine, of its peer or of any, with protocols there are, or not any
\* more; the engine's boots at both ends of their range.
UsmUser(engine, auth, priv, secret) ==
    [engine |-> engine, name |-> "u", auth |-> auth, priv |-> priv, secret |-> secret]
Protocols == {<<"none", "none">>, <<"known", "none">>, <<"known", "known">>, <<"gone", "none">>,
    <<"known", "gone">>}
UsersAt(engines, secrets) == {UsmUser(i, p[1], p[2], k) : i \in engines, p \in Protocols, k \in secrets}
UsmEngine(id, boots, time, users, timeline) ==
    [id |-> id, boots |-> boots, time |-> time, users |-> users, timeline |-> timeline]
UsmEngines ==
    {UsmEngine(1, boots, 2, {u}, timeline) :
        boots \in {1, 3}, u \in UsersAt({1, 2, Wildcard}, {"s"}),
            timeline \in {<<>>, 2 :> [boots |-> 1, time |-> 1]}}
UsmMessages(user, level) ==
    [engine : {NoEngine, 1, 2, 9}, boots : {0, 1, 3}, time : {0, 1, 3}, user : {user}, level : {level},
     digest : {NoKey, <<"s", 1>>, <<"s", 2>>, <<"s", Wildcard>>, <<"t", 1>>},
     data : {<<"plain", 0>>, <<"malformed", 0>>}
               \cup (IF level = 3 THEN {<<"s", 1>>, <<"s", 2>>, <<"s", Wildcard>>} ELSE {})]
PickUsm == Pick("usm", [e : UsmEngines, user : {Blank, "u", "v"}, level : 1 .. 3])
PickPair ==
    /\ input = ToPick("pair")
    /\ \E mine \in UsersAt({1, 2, Wildcard}, {"s"}), theirs \in UsersAt({2, Wildcard}, {"s", "t"}),
          time \in 0 .. 3, level \in 1 .. 3 :
          Chosen("pair", [manager |-> UsmEngine(1, 1, 0, {mine}, 2 :> [boots |-> 2, time |-> time]),
                          agent |-> UsmEngine(2, 2, 2, {theirs}, <<>>), level |-> level])

\* A user is served at its own level only (processIncomingMsg).
UsmLevels == input.of = "usm" =>
    \A m \in UsmMessages(input.x.user, input.x.level) : ServedAtUsersLevel(input.x.e, m)
\* A peer's clock is learnt from authenticated messages only (processIncomingMsg).
UsmLearns == input.of = "usm" =>
    \A m \in UsmMessages(input.x.user, input.x.level) : LearnsFromUsersOnly(input.x.e, m)
\* What one engine secures (generateRequestMsg) the other serves, if they share the
\* secret.
UsmPair == input.of = "pair" => SentIsServed(input.x.manager, input.x.agent, "u", input.x.level)

----------------------------------------------------------------------------
\* The services of the user-based security model (Usm).

\* Octets around the digest; the one ahead of it is its length.
Octets012(n) == SeqOf({<<0>>, <<1>>}, n)
PickDigest == Pick("digest", {Append(h, <<2>>) : h \in Octets012(4)} \X Octets012(3) \X {1, 2})
PickCipher == Pick("cipher",
    {"des", "aes"} \X (0 .. LocalMax) \X [1 .. LocalMax + 1 -> [boots : {1, 2}, time : {0, 1}]]
                  \X {[i \in 1 .. n |-> 1] : n \in 0 .. 2 * Block})
PickPassphrase == Pick("passphrase", 1 .. 2 * Chunk + 1)

\* The digest comes into its field and a receiver takes the message, unless something
\* ahead of it looks like the field (authenticateOutgoingMsg, authenticateIncomingMsg).
DigestPlaced == input.of = "digest" => SignedIsAccepted(input.x[1], input.x[2], input.x[3])
\* No initialization vector is used twice before the counter comes round, and what was
\* encrypted is read back (encryptData, decryptData).
CipherVectors == input.of = "cipher" => VectorsDiffer(input.x[1], input.x[2], input.x[3], input.x[4])
\* The passphrase is hashed again and again (hashPassphrase), and keys are long enough
\* for every cipher (localizeKey).
KeyMaterial == input.of = "passphrase" => PassphraseRepeats(input.x, 3 * Chunk) /\ KeysLongEnough

----------------------------------------------------------------------------
\* The message processing models (MessageProcessing).

\* Conversations of up to four steps, of both kinds.  Two requests of the same
\* request-id; responses, reports and requests of two senders; messages that are wrong
\* in some way.
MpMessage(class, id, who) ==
    [class |-> class, id |-> id, reqID |-> id, who |-> who, header |-> "ok", sm |-> "ok",
     forUs |-> TRUE, reportable |-> TRUE, seen |-> "none"]
MpReceived(v3) ==
    {[MpMessage("response", i, w) EXCEPT !.reqID = IF v3 THEN 7 ELSE i] : i \in 1 .. 2, w \in 1 .. 2}
    \cup {MpMessage("confirmed", 7, w) : w \in 1 .. 2}
    \cup {MpMessage(class, 1, 1) : class \in {"report", "unconfirmed", "other"}}
    \cup {[MpMessage("confirmed", 7, 1) EXCEPT !.header = "invalidMsg"],
        [MpMessage("confirmed", 7, 1) EXCEPT !.forUs = FALSE],
          [MpMessage("confirmed", 7, 1) EXCEPT !.sm = "refused"]}
    \cup {[MpMessage("confirmed", 7, 1) EXCEPT !.sm = "reported", !.seen = s, !.reportable = r] :
              s \in {"none", "unconfirmed"}, r \in BOOLEAN}
PickMp == Pick("mp", {Mp!Conversation(v3) : v3 \in BOOLEAN})
StepMp ==
    /\ input.of = "mp" /\ Len(input.x.log) < 4
    /\ \E secured \in BOOLEAN :
          \/ \E class \in {"confirmed", "unconfirmed"} : Chosen("mp", Mp!Send(input.x, class, 7, 1, secured))
          \/ \E m \in MpReceived(input.x.v3) :
                (secured \/ m.sm = "reported") /\ Chosen("mp", Mp!Receive(input.x, m, secured))
          \/ \E ref \in DOMAIN input.x.e.byRef, status \in BOOLEAN :
                Chosen("mp", Mp!Respond(input.x, ref, status, secured))

\* A response is taken for one request, from whom that was sent to
\* (prepareDataElements).
MpAnswers == input.of = "mp" => Mp!AnswersTheRequest(input.x)
\* A request is answered once, under its own identifiers (prepareResponseMessage).
MpAnswered == input.of = "mp" => Mp!AnsweredAsAsked(input.x)
\* Security states are released with their message (prepareDataElements,
\* prepareResponseMessage).
MpSecurity == input.of = "mp" => Mp!SecurityReleased(input.x)

----------------------------------------------------------------------------
\* The community-based security models (Rfc2576).

\* Up to two rows of a community or two, two targets and two rows of parameters.
CommunityRows == [name : {1}, securityName : 1 .. 2, context : {0}, tag : {EmptyTag, "x"}]
                 \cup [name : {2}, securityName : {1}, context : 0 .. 1, tag : {EmptyTag}]
PickCommunity ==
    Pick("community", {[community |-> c, addr |-> a, params |-> p] :
        c \in Some(1 .. 2, CommunityRows), a \in Some(1 .. 2, [address : 7 .. 8, tags : {{}, {"x"}}]),
        p \in Some(1 .. 2, [securityName : 1 .. 2, model : 1 .. 2])})

\* A community speaks for a name only where one of its rows admits the sender
\* (_com2sec).
CommunitySender == input.of = "community" =>
    \A models \in {ModelsByCom2Sec(input.x), ModelsBySec2Com(input.x)}, community \in 1 .. 2,
        address \in 7 .. 9 :
        OnlyForItsSender(input.x, models, 1, community, address)
\* Of the names of a community a target's is favoured (_com2sec).
CommunityTargets == input.of = "community" =>
    \A community \in 1 .. 2, address \in 7 .. 9 :
        FavorsTargets(input.x, ModelsByCom2Sec(input.x), 1, community, address)
\* The community sent for a name (_sec2com) is taken for that name (_com2sec).
CommunityExchange == input.of = "community" =>
    \A models \in {ModelsByCom2Sec(input.x), ModelsBySec2Com(input.x)}, name \in 1 .. 2,
        context \in 0 .. 1, address \in 7 .. 9 :
        SentAndTakenAlike(input.x, models, 1, name, context, address)

----------------------------------------------------------------------------
\* Conversion between versions (Rfc2576).

\* Responses of up to three values of the kinds that matter to them, and traps.
ProxyRequest(type, n) == [type |-> type, error |-> 0, index |-> 0,
    binds |-> [i \in 1 .. n |-> Bind(<<i>>, "Null", 0)]]
ProxyTypes == {"Integer32", "Counter64", "noSuchObject", "endOfMibView"}
PickResponse ==
    /\ input = ToPick("response")
    /\ \E n \in 0 .. 3, type \in {"get", "next", "set"} :
          \E status \in (IF n = 3 THEN {0} ELSE 0 .. 19), types \in [1 .. n -> ProxyTypes] :
              Chosen("response", [pdu |-> [type |-> "response", error |-> status, index |-> n,
                                           binds |-> [i \in 1 .. n |-> Bind(<<i>>, types[i], 0)]],
                                  orig |-> ProxyRequest(type, n)])
PickTrap ==
    /\ input = ToPick("trap")
    /\ \E enterprise \in Upto(2, {0, 9}) \ {<<>>}, generic \in 0 .. 6, specific \in {0, 1, 5},
          type \in V1Types :
          Chosen("trap", [type |-> "trap", enterprise |-> enterprise, addr |-> 7, generic |-> generic,
                          specific |-> specific, time |-> 3, binds |-> <<Bind(<<1>>, type, 0)>>])

\* v2ToV1 makes of a response one that v1 can express, of the bindings that were asked
\* for.
ProxyResponse == input.of = "response" => ResponseExpressible(input.x.pdu, input.x.orig)
\* A trap converted by v1ToV2 and back by v2ToV1 says the same.
ProxyTrap == input.of = "trap" => TrapRoundTrip(input.x, 8)

----------------------------------------------------------------------------
\* Framing of messages on a stream (StreamFraming).

\* Streams of up to five octets of 8 values, and some that begin with a long length.
PickStream == Pick("stream", Upto(5, {0, 1, 2, 5, 7}) \cup {<<1, 5, 0>> \o t : t \in Upto(4, {0, 1, 3})})

\* Where the stream is cut makes no difference (data_received).
FramingCuts == input.of = "stream" => CutsDoNotMatter(input.x)
\* The messages are the stream, and none is kept back (data_received).
FramingWhole == input.of = "stream" => NothingLostOrAdded(input.x)

----------------------------------------------------------------------------
\* Configuration and lookups in it (EngineConfig, TargetCache).

\* Up to two users configured by the shortcuts.
ConfigSubtrees == {<<1, 3, 6, 1>>, <<1, 3, 6, 1, 2, 1, 1>>, <<1, 3, 6, 1, 6, 3, 15>>}
ConfigOids == {s \o <<9>> : s \in ConfigSubtrees} \cup {<<1, 3, 6, 1, 6, 3, 15, 1, 1, 4>>,
    <<1, 3, 6, 1, 6, 3, 18, 1>>, <<1, 3, 6, 1, 4, 1>>, <<1, 3, 7>>}
WithUser(t, u) ==
    CASE u.as = "ro" -> Config!AddRoUser(t, 3, u.name, u.level, u.subtree, u.ctx)
      [] u.as = "rw" -> Config!AddRwUser(t, 3, u.name, u.level, u.subtree, u.ctx)
      [] u.as = "trap" -> Config!AddTrapUser(t, 3, u.name, u.level, u.subtree, u.ctx)
ConfigUsers == [as : {"ro", "rw", "trap"}, name : {"a", "b"}, level : {1, 3}, subtree : ConfigSubtrees, ctx :
    {<<>>, <<7>>}]
PickUsers == Pick("users", {FoldLeft(WithUser, Config!EmptyTables, us) : us \in Upto(2, ConfigUsers)})

\* Up to four writes to the configuration tables and lookups in between.
TargetRows ==
    [addr |-> {[to |-> x, source |-> 0, params |-> 1, tags |-> {x}] : x \in 1 .. 2},
        params |-> {"alice", "bob"},
     notify |-> {"t"}, profile |-> {[active |-> a, profile |-> "1"] : a \in BOOLEAN},
         filter |-> {[active |-> TRUE, type |-> 1]}]
TargetName(table, n) == IF table = "filter" THEN <<n, n>> ELSE n
PickTargets == Pick("targets", {[steps |-> 0, s |-> Targets!Unconfigured]})
StepTargets ==
    /\ input.of = "targets" /\ input.x.steps < 4
    /\ \E n \in 1 .. 2 :
          LET s == input.x.s
              to(t) == Chosen("targets", [steps |-> input.x.steps + 1, s |-> t])
          IN \/ \E table \in Targets!Tables : \E row \in TargetRows[table] :
                   to(Targets!WriteRow(s, table, TargetName(table, n), row))
             \/ \E table \in Targets!Tables :
                   TargetName(table, n) \in DOMAIN s[table] /\ to(Targets!DestroyRow(s, table,
                       TargetName(table, n)))
             \/ to(Targets!getTargetInfo(s, n).s) \/ to(Targets!getNotificationInfo(s,
                   n).s) \/ to(Targets!getTargetNames(s, n).s)
             \/ to(Targets!getNotifyFilterProfile(s, n).s) \/ to(Targets!getNotifyFilter(s, n).s)

\* Up to three SETs under an advisory lock, which may begin at any value.
PickLock == Pick("lock", {Targets!NewLock(held) : held \in 0 .. LastValue})
StepLock ==
    /\ input.of = "lock" /\ input.x.sets < LastValue
    /\ \/ Len(input.x.sent) < 3 /\ Chosen("lock", Targets!ReadAndSend(input.x))
       \/ \E i \in DOMAIN input.x.sent : Chosen("lock", Targets!DeliverSet(input.x, i))

\* The initial user reads a little and, once authenticated, more
\* (setInitialVacmParameters).
ConfigInitial == input.of = "users" => Config!InitialIsSemiSecure(input.x, {<<3, "a">>, <<3, "b">>}, ConfigOids)
\* Deleting a user undoes what adding it did (addRoUser, addRwUser, addTrapUser).
ConfigShortcuts == input.of = "users" =>
    \A name \in {"a", "b"}, ctx \in {<<>>, <<7>>}, root \in ConfigSubtrees :
        Config!ShortcutsUndone(input.x, 3, name, 1, root, ctx)
\* A lookup answers from the rows there are now (getTargetInfo and the others).
TargetLookups == input.of = "targets" => Targets!LookupsAreCurrent(input.x.s, 1 .. 2, 1 .. 2)
\* Of the managers that read the same value of a lock one succeeds
\* (TestAndIncr.setValue).
LockSets == input.of = "lock" => Targets!LockExcludes(input.x)

----------------------------------------------------------------------------
\* What a notification carries and which targets want it (Vacm).

\* Bindings in every order, repeated or missing; each is of another value.
NoticeNames == {Config!SysUpTime, Config!SnmpTrapOID, <<2, 1>>, <<2, 2>>}
PickNotices == Pick("notices",
    {[i \in DOMAIN s |-> [name |-> s[i], value |-> <<i>>]] : s \in Upto(4, NoticeNames)})

\* Entries for nested subtrees and beside one another, with wildcards.
FilterRows == Some({<<1>>, <<1, 2>>, <<3, 2>>, <<1, 3>>}, [mask : {<<>>, <<0>>, <<1, 0>>}, included : BOOLEAN])
PickFilters ==
    Pick("filters", {{[subtree |-> o, mask |-> f[o].mask, included |-> f[o].included] : o \in DOMAIN f} :
        f \in FilterRows})

\* A notification begins with its uptime and its name, and loses nothing
\* (orderNotificationVarBinds).
NotificationOrder == input.of = "notices" => Config!OrderedAsRequired(input.x)
\* The longest, then the greatest entry that covers a name decides
\* (_matchPreparedFilter).
NotificationFilter == input.of = "filters" => \A oid \in Upto(3, 1 .. 3) : Config!FilterDecides(input.x, oid)

----------------------------------------------------------------------------
\* Change of keys (DhKeyChange).

\* Users with names of up to two octets, in one engine; parameters of a prime of one and of
\* two octets; and key changes, of two calls, for the same row or for two, with what is
\* published one or two octets wide.
DhUsers == {<<1>>, <<2>>, <<1, 1>>, <<2, 1>>, <<1, 2>>, <<2, 1, 1>>}
PickRows == Pick("rows", {<<users, user>> : users \in SUBSET DhUsers, user \in DhUsers})
DhParameters == [prime : {3, 7, 11, 13}, base : 1 .. 3, length : {0, 2, 3, 4}]
PickAgreement == Pick("agreement", {<<p, x>> : p \in DhParameters, x \in 2 .. 10})
ChangeParameters == {[prime |-> 11, base |-> 2, length |-> 0], [prime |-> 11, base |-> 1, length |-> 0]}
DhRow(user) == Dh!keyChangeInstance(<<9>>, user)
PickChange ==
    /\ input = ToPick("change")
    /\ \E p \in ChangeParameters, mine \in {3, 8}, user \in {<<1>>, <<2>>, <<3>>}, named \in BOOLEAN,
          wanted \in 1 .. 3 :
          Chosen("change", [agent |-> [p |-> p,
              rows |-> [r \in {DhRow(<<1>>), DhRow(<<2>>)} |-> Dh!Pair(p, mine)],
                                        seen |-> {Dh!Pair(p, mine).public}, installed |-> <<>>],
                            calls |-> <<Dh!Idle(<<1>>, TRUE, 1, 1), Dh!Idle(user, named, wanted, 0)>>])
StepChange ==
    /\ input.of = "change"
    /\ \E c \in 1 .. 2 : \E t \in Dh!CallSteps(input.x, c, <<9>>,
          {Dh!Pair(input.x.agent.p, y) : y \in {2, 3, 8}}) : Chosen("change", t)

\* The row found is the user's own (_findRow).
DhRows == input.of = "rows" => Dh!RowOfTheUser(<<9>>, input.x[1], input.x[2])
\* A fitting pair is found and both sides come to the same secret
\* (generateKeyPairFitting).
DhPairs == input.of = "agreement" =>
    LET p == input.x[1] IN
    Dh!decodeDHParameters(p) /\ input.x[2] \in Dh!generateKeyPair(p) => \A width \in 1 .. 2 :
        Dh!PairAgrees(p, width, input.x[2])
\* A call that hands no key back has changed nothing (dh_key_change).
DhCandidates == input.of = "change" => Dh!NoCandidateNoChange(input.x)
\* A key that was installed is known to who asked for it (dh_key_change).
DhKeys == input.of = "change" => Dh!KeysAreKnown(input.x)

----------------------------------------------------------------------------
\* Timers and transports of the dispatcher (TransportDispatcher).

\* Up to three timers, of two functions, one of which may unregister the other or itself
\* when it is called, while the resolution changes and ticks come early or late.
PickTimers ==
    Pick("timers", {[steps |-> 0, drops |-> d, s |-> Dispatcher!NewDispatcher(60, 1, {}, 100)] :
                       d \in [{"f", "g"} -> {"f", "g", Dispatcher!NoTimer}]})
StepTimers ==
    /\ input.of = "timers" /\ input.x.steps < 6
    /\ LET s == input.x.s
           to(t) == Chosen("timers", [input.x EXCEPT !.steps = @ + 1, !.s = t])
       IN \/ Len(s.timers) < 3 /\ \E fn \in {"f", "g"}, interval \in {0, 60} :
                to(Dispatcher!registerTimerCbFun(s, fn, interval))
          \/ \E fn \in {s.timers[i].fn : i \in DOMAIN s.timers} : to(Dispatcher!unregisterTimerCbFun(s, fn))
          \/ \E res \in {20, 60} \ {s.res} : to(Dispatcher!setTimerResolution(s, res))
          \/ \E late \in {-1, 0, 7} : to(Dispatcher!handleTimerTick(s, s.wake + late, input.x.drops))

\* Transports of two loops, or of none, in two domains, one of them already in use
\* elsewhere, while the loops run and stop.
LoopTransports == {[id |-> 1, loop |-> 1], [id |-> 2, loop |-> 2], [id |-> 3, loop |-> Dispatcher!NoLoop],
    [id |-> 4, loop |-> 1]}
PickTransports == Pick("transports", {Dispatcher!NewDispatcher(20, loop, {4}, 100) : loop \in 1 .. 2})
StepTransports ==
    /\ input.of = "transports"
    /\ LET s == input.x
           to(t) == Chosen("transports", t)
       IN \/ \E d \in 1 .. 2, t \in LoopTransports : to(Dispatcher!registerTransport(s, d, t))
          \/ \E d \in DOMAIN s.transports : to(Dispatcher!unregisterTransport(s, d))
          \/ to(Dispatcher!closeDispatcher(s))
          \/ s.running = Dispatcher!NoLoop /\ \E loop \in 1 .. 2 : to(Dispatcher!RunLoop(s, loop))
          \/ s.running # Dispatcher!NoLoop /\ to(Dispatcher!StopLoop(s))

\* Timers keep up with the ticks (handleTimerTick, setTimerResolution).
DispatcherTimers == input.of = "timers" => Dispatcher!TimersKeepUp(input.x.s)
\* There is a ticker while there is a transport, on its loop (registerTransport,
\* unregisterTransport).
DispatcherTicker == input.of = "transports" => Dispatcher!TickerServesTransports(input.x)

----------------------------------------------------------------------------
\* The datagram transports (DatagramTransport).

\* Three datagrams are sent or two received, by a transport that is opened twice at most.
PickDatagrams ==
    Pick("datagrams", {[s |-> Dgram!NewTransport, sends |-> n, accepted |-> {}, gets |-> IF n = 0 THEN 2 ELSE 0,
                        opens |-> 2] : n \in {0, 3}})
StepDatagrams ==
    /\ input.of = "datagrams"
    /\ LET x == input.x
           s == x.s
           route == [i \in 1 .. 2 |-> IF i = 1 THEN Dgram!Default ELSE "other"]
           to(t) == Chosen("datagrams", [x EXCEPT !.s = t])
       IN \/ /\ s.endpoint = "none" /\ x.opens > 0
             /\ \E running \in BOOLEAN :
                   Chosen("datagrams", [x EXCEPT !.s = Dgram!openMode(s, running), !.opens = @ - 1])
          \/ s.endpoint = "task" /\ (to(Dgram!EndpointCreated(s)) \/ to(Dgram!EndpointFails(s)))
          \/ s.endpoint \in {"created", "abandoned"} /\ to(Dgram!connection_made(s))
          \/ s.endpoint = "closing" /\ to(Dgram!connection_lost(s))
          \/ /\ x.sends > 0
             /\ \E ok \in BOOLEAN :
                   Chosen("datagrams",
                      [x EXCEPT !.s = Dgram!sendMessage(s, [id |-> 4 - x.sends, ok |-> ok]), !.sends = @ - 1,
                                !.accepted = IF Dgram!Connected(s) /\ ~ok THEN @ ELSE @ \cup {4 - x.sends}])
          \/ x.sends > 0 /\ Len(s.options) < 1 /\ \E ok \in BOOLEAN : to(Dgram!configureSocket(s, ok))
          \/ /\ s.endpoint = "open" /\ x.gets > 0
             /\ Chosen("datagrams", [x EXCEPT !.s = Dgram!datagram_received(s, 3 - x.gets), !.gets = @ - 1])
          \/ s.arrived # <<>> /\ to(Dgram!cbFun(s, route))
          \/ ~s.known /\ ~s.cb /\ to(Dgram!registerTransport(s))
          \/ s.known /\ (to(Dgram!unregisterTransport(s)) \/ to(Dgram!closeDispatcher(s)))
          \/ to(Dgram!closeTransport(s))
          \/ x.gets > 0 /\ "other" \notin s.receivers /\ to(Dgram!registerRecvCbFun(s, "other"))
          \/ x.gets > 0 /\ \E id \in s.receivers : to(Dgram!unregisterRecvCbFun(s, id))
          \/ x.gets > 0 /\ ~s.routed /\ to(Dgram!registerRoutingCbFun(s))
          \/ s.routed /\ to(Dgram!unregisterRoutingCbFun(s))

\* Datagrams leave once and in order, and none waits behind an open socket, unless
\* connection_made failed (sendMessage, connection_made).
DatagramSends == input.of = "datagrams" => Dgram!SendsInOrder(input.x.s, input.x.accepted)
\* A transport that was closed stays so, and nothing it received is handed on
\* afterwards (closeTransport, _cbFun).
DatagramClose == input.of = "datagrams" => Dgram!ClosedForGood(input.x.s)

----------------------------------------------------------------------------
Next ==
    \/ PickIds \/ PickKeys \/ PickPath \/ PickView \/ PickAsking \/ PickTree \/ PickIndices
    \/ PickIdentity \/ PickBinding \/ PickNotification \/ PickRead \/ PickTypes \/ PickWalk
    \/ PickAgent \/ PickUsm \/ PickPair \/ PickDigest \/ PickCipher \/ PickPassphrase \/ PickMp
    \/ PickCommunity \/ PickResponse \/ PickTrap \/ PickStream \/ PickUsers \/ PickTargets
    \/ PickLock \/ PickNotices \/ PickFilters \/ PickRows \/ PickAgreement \/ PickChange
    \/ PickTimers \/ PickTransports \/ PickDatagrams \/ StepIds \/ StepAsking \/ StepMp
    \/ StepTargets \/ StepLock \/ StepChange \/ StepTimers \/ StepTransports \/ StepDatagrams

Spec == Init /\ [][Next]_input

----------------------------------------------------------------------------
\* What the run checks of each part of the system.

\* However threads take turns, an identifier still in use is not issued again but by
\* two refills at once, and no thread finds none (nextid.Integer).
IdentifiersAreUnique ==
    /\ IdsDiffer /\ IdsRefills /\ IdsNeverRunOut

\* Several corpora are searched and walked as one, whatever their order; a module read
\* beside them is that of its last text, and one made of them has the types it means
\* (smi.corpus, smi.builder, smi.synthesis).
CorporaAnswerAsOne ==
    /\ CorpusKeys /\ CorpusWalk /\ CorpusOrder /\ CorpusPrefix /\ SourceReads
    /\ SynthesisTypes

\* OIDs, labels, symbols, indices and values lead to one another and back, whatever
\* modules are loaded on the way (smi.view, smi.indices, smi.rfc1902, MibTableRow).
NamesResolve ==
    /\ ViewPrefix /\ ViewLabels /\ ViewNext /\ ViewNewest /\ ViewAsks /\ IndexNames
    /\ IndexAugments /\ IdentityForms /\ IdentityValues /\ IdentityNotification

\* What an agent answers from its tree, and what a manager makes of the answers, is
\* every instance of the subtree in order, once, and an end (SNMPv2-SMI, cmdrsp, hlapi
\* cmdgen).
WalksAreComplete ==
    /\ TreeNext /\ TreeGet /\ WalkShows /\ WalkBulk /\ WalkStops /\ WalkGenerates /\ WalkV1

\* A user is served at its own level, clocks are learnt of authenticated messages only,
\* and what one engine signs and encrypts the other can read (secmod.rfc3414.service
\* and its protocols).
UsersAreAuthenticated ==
    /\ UsmLevels /\ UsmLearns /\ UsmPair /\ DigestPlaced /\ CipherVectors /\ KeyMaterial

\* Through any order of requests, answers, repetitions and reports, a message is
\* matched to the one it answers, with the peer and the credentials of that
\* (mpmod.rfc2576, mpmod.rfc3412, secmod.rfc2576).
MessagesAreMatched ==
    /\ MpAnswers /\ MpAnswered /\ MpSecurity /\ CommunitySender /\ CommunityTargets
    /\ CommunityExchange

\* What is translated between versions says the same, or fails in a way the other
\* version knows (proxy.rfc2576).
VersionsTranslate ==
    /\ ProxyResponse /\ ProxyTrap

\* Messages leave once and in order and arrive whole however they are cut, and the
\* timers tick as long as there is a transport (carrier.base, carrier.asyncio).
TransportsDeliver ==
    /\ FramingCuts /\ FramingWhole /\ DispatcherTimers /\ DispatcherTicker /\ DatagramSends
    /\ DatagramClose

\* A change of keys is about the user's own row, both sides derive the same, and
\* wherever it breaks off, a key that was installed is among those the manager is left
\* with (hlapi.asyncio.dh, secmod.rfc2786).
KeysAreAgreed ==
    /\ DhRows /\ DhPairs /\ DhCandidates /\ DhKeys

\* A lookup answers by the tables as they are, a user deleted leaves nothing in them, a
\* lock read once lets one SET through, and notifications are ordered and filtered by
\* what is configured (entity.config, rfc3413.config, ntforg, SNMPv2-TC).
ConfigurationIsCurrent ==
    /\ ConfigInitial /\ ConfigShortcuts /\ TargetLookups /\ LockSets /\ NotificationOrder
    /\ NotificationFilter
=============================================================================
