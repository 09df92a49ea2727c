------------------------------- MODULE MibView -------------------------------
(***************************************************************************)
(* smi.view.MibViewController over smi.indices.OidOrderedDict: names and   *)
(* OIDs of the loaded modules, resolved into one another.                  *)
(*                                                                         *)
(* mods is the sequence of modules in the order they were loaded, each     *)
(* [revision, symbols], symbols a function from names to OIDs.  Labels and *)
(* OIDs may be given in each other's place, so both are sequences of       *)
(* numbers: sub-identifiers are natural numbers, names negative ones, in   *)
(* descending order of their definition, and Text(x) is the string of a    *)
(* sub-identifier, which is not the sub-identifier.                        *)
(***************************************************************************)
EXTENDS MibTree

Text(x) == 1000 + x
Undefined == <<>>

----------------------------------------------------------------------------
\* indexMib

\* MUTANT of Overrides: the modules in the order they were loaded.
OverridesByLoad(mods, a, b) == a[1] > b[1] \/ (a[1] = b[1] /\ a[2] < b[2])

\* Symbol b is indexed before symbol a, which takes its place where they clash:
\* modules go by revision, those of one revision as loaded.
Overrides(mods, a, b) ==
    \/ mods[a[1]].revision > mods[b[1]].revision
    \/ mods[a[1]].revision = mods[b[1]].revision /\ (a[1] > b[1] \/ (a[1] = b[1] /\ a[2] < b[2]))

\* A symbol is <<position of its module, name>>.
Symbols(mods) == UNION {{<<i, n>> : n \in DOMAIN mods[i].symbols} : i \in DOMAIN mods}
OidOf(mods, s) == mods[s[1]].symbols[s[2]]
Last1(mods, S) == CHOOSE a \in S : \A b \in S \ {a} : Overrides(mods, a, b)

\* The merged indices: varToNameIdx, and oidToModIdx with the name.
varToNameIdx(mods) ==
    [n \in {s[2] : s \in Symbols(mods)} |-> OidOf(mods, Last1(mods, {s \in Symbols(mods) : s[2] = n}))]
definition(mods) ==
    [o \in {OidOf(mods, s) : s \in Symbols(mods)} |-> Last1(mods, {s \in Symbols(mods) : OidOf(mods, s) = o})]

Butlast(s, n) == SubSeq(s, n, Len(s) - 1)

\* The base label of a key that is shorter than the one before: that of its longest
\* known prefix, with the sub-identifiers in between.
BaseBelow(labels, key, known) ==
    IF known = {} THEN <<>> ELSE labels[Longest(known)] \o Butlast(key, Len(Longest(known)) + 1)
BaseOfShorter(labels, key) == BaseBelow(labels, key, (Prefixes(key) \ {<<>>, key}) \cap DOMAIN labels)

\* MUTANT of BaseOf: a shorter key starts at the root.
BaseOfFlat(acc, key, diff) == IF diff > 0 /\ acc.prev # <<>> THEN acc.labels[acc.prev] ELSE <<>>

\* The base label of a key that is longer than the one before by diff.
BaseOf(acc, key, diff) ==
    IF diff > 0
    THEN IF acc.prev = <<>> THEN <<>>
         ELSE IF diff = 1 THEN acc.labels[acc.prev]
         ELSE acc.base \o Butlast(key, Len(key) - diff + 1)
    ELSE IF diff < 0 THEN BaseOfShorter(acc.labels, key)
    ELSE acc.base

\* The long labels, key by key in OID order: acc = [prev, base, labels].
LabelOn(acc, key, name, base) ==
    [prev |-> key, base |-> base, labels |-> (key :> Append(base, name)) @@ acc.labels]
LabelNext(acc, key, name) == LabelOn(acc, key, name, BaseOf(acc, key, Len(key) - Len(acc.prev)))

\* OidOrderedDict, iterated.
InOrder(S) == [i \in 1 .. Cardinality(S) |-> CHOOSE x \in S : Cardinality({y \in S : Precedes(y, x)}) = i - 1]

LabelsOf(def) ==
    LET start == [prev |-> <<>>, base |-> <<>>, labels |-> [k \in {} |-> <<>>]]
        step(acc, key) == LabelNext(acc, key, def[key][2])
    IN FoldLeft(step, start, InOrder(DOMAIN def)).labels
oidToLabelIdx(mods) == LabelsOf(definition(mods))

\* Of keys with the same label the last is kept.
labelToOidIdx(labels) ==
    [l \in {labels[k] : k \in DOMAIN labels} |-> Greatest({k \in DOMAIN labels : labels[k] = l})]

\* MUTANT of getOidLabel: a prefix is tried once.
GetOidLabelOnce(labels, name) ==
    LET p == Front(name) IN
    IF name \in DOMAIN labels THEN [oid |-> name, label |-> labels[name], suffix |-> <<>>]
    ELSE IF p \in DOMAIN labels THEN [oid |-> p, label |-> labels[p], suffix |-> <<Last(name)>>]
    ELSE [oid |-> name, label |-> name, suffix |-> <<>>]

----------------------------------------------------------------------------
\* __getOidLabel: name by name from the front, back from the recursion.
Found(oid, label, suffix) == [oid |-> oid, label |-> label, suffix |-> suffix]
LabelFurther(oids, labels, r, byLabel, suffix) ==
    IF byLabel \in DOMAIN oids THEN Found(oids[byLabel], byLabel, <<>>)
    ELSE IF r.oid \o suffix \in DOMAIN labels THEN Found(r.oid \o suffix, labels[r.oid \o suffix], <<>>)
    ELSE [r EXCEPT !.suffix = suffix]
LabelBelow(oids, labels, r, suffix) ==
    LabelFurther(oids, labels, r, r.label \o [i \in DOMAIN suffix |-> Text(suffix[i])], suffix)
LabelAmong(oids, labels, name) ==
    LET step(r, p) == IF p \in DOMAIN oids THEN Found(oids[p], p, <<>>)
                      ELSE IF p \in DOMAIN labels THEN Found(p, labels[p], <<>>)
                      ELSE IF Len(p) < 2 THEN Found(p, p, <<>>)
                      ELSE LabelBelow(oids, labels, r, Append(r.suffix, Last(p)))
    IN FoldLeft(step, Found(<<>>, <<>>, <<>>), [k \in DOMAIN name |-> SubSeq(name, 1, k)])
getOidLabel(labels, name) == LabelAmong(labelToOidIdx(labels), labels, name)

\* What cannot be resolved raises NoSuchObjectError.
Unresolved == Found(<<>>, <<>>, <<>>)
OrUnresolved(r) == IF r.oid = r.label THEN Unresolved ELSE r
getNodeNameByOid(labels, name) == OrUnresolved(getOidLabel(labels, name))

ByName(names, labels, symbol) ==
    IF symbol \in DOMAIN names THEN getNodeNameByOid(labels, names[symbol]) ELSE Unresolved
getNodeNameByDesc(mods, labels, symbol) == ByName(varToNameIdx(mods), labels, symbol)

\* As an OID or a label; failing that as a symbol and a suffix.
ByDesc(labels, symbol, rest) ==
    IF symbol = Unresolved THEN Unresolved ELSE getNodeNameByOid(labels, symbol.oid \o symbol.suffix \o rest)
OrByDesc(direct, mods, labels, name) ==
    IF direct # Unresolved THEN direct ELSE ByDesc(labels, getNodeNameByDesc(mods, labels, name[1]), Tail(name))
getNodeName(mods, labels, name) ==
    OrByDesc(getNodeNameByOid(labels, name), mods, labels, name)

\* MUTANT of nextKey: not before the key itself.
NextKeyIncluded(S, key) == LET later == Following(S, key) \cup (S \cap {key}) IN
    IF later = {} THEN Undefined ELSE Least(later)

\* OidOrderedDict.nextKey, or KeyError past the last key.
nextKey(S, key) == LET later == Following(S, key) IN IF later = {} THEN Undefined ELSE Least(later)

NameAt(mods, labels, next, suffix) ==
    IF next = Undefined THEN Unresolved ELSE getNodeName(mods, labels, next \o suffix)
NameAfter(mods, labels, r) ==
    IF r = Unresolved THEN Unresolved ELSE NameAt(mods, labels, nextKey(DOMAIN labels, r.oid), r.suffix)
getNextNodeName(mods, labels, name) == NameAfter(mods, labels, getNodeName(mods, labels, name))

\* The module and the name an OID is defined by.
LocationAt(mods, r) == <<definition(mods)[r.oid][1], Last(r.label), r.suffix>>
getNodeLocation(mods, labels, name) == LocationAt(mods, getNodeName(mods, labels, name))

----------------------------------------------------------------------------
\* Every ancestor of a registered OID is registered, as in MIBs that are complete.
Closed(mods) ==
    \A o \in DOMAIN definition(mods) : \A p \in Prefixes(o) \ {<<>>} : p \in DOMAIN definition(mods)

\* Names are unique, as those of the modules loaded together are meant to be.
UniqueNames(mods) == \A s, r \in Symbols(mods) : s[2] = r[2] => s = r

\* "The longest known prefix is what resolves, and the rest comes back as the
\* suffix", whatever is loaded and whether or not the labels make sense.
LongestKnownPrefix(mods, oid) ==
    \A labels \in {oidToLabelIdx(mods)} : \A r \in {getNodeName(mods, labels, oid)} :
       IF Prefixes(oid) \cap DOMAIN labels = {} THEN r = Unresolved
       ELSE /\ r.oid = Longest(Prefixes(oid) \cap DOMAIN labels) /\ r.oid \o r.suffix = oid
            /\ getNodeLocation(mods, labels, oid)[2] = definition(mods)[r.oid][2]

\* In complete MIBs the label of an OID is the names of its ancestors from the root,
\* and where no two names clash a label leads back to its OID and a symbol with
\* a suffix to the object below it.
LabelsLeadBack(mods, suffix) ==
    Closed(mods) =>
        \A labels \in {oidToLabelIdx(mods)}, def \in {definition(mods)} : \A o \in DOMAIN labels :
            /\ labels[o] = [i \in 1 .. Len(o) |-> def[SubSeq(o, 1, i)][2]]
            /\ UniqueNames(mods) =>
                  /\ getNodeName(mods, labels, labels[o]) = [oid |-> o, label |-> labels[o], suffix |-> <<>>]
                  /\ \A r \in {getNodeName(mods, labels, <<def[o][2]>> \o suffix)} :
                        r.oid \o r.suffix = o \o suffix /\ IsPrefix(o, r.oid)

\* "OID order is neither the order the modules were loaded in nor lexical order on
\* their names": next by next, every object is come by, once and in order.
NextVisitsAll(mods) ==
    \A labels \in {oidToLabelIdx(mods)} : \A o \in DOMAIN labels :
    \A r \in {getNextNodeName(mods, labels, o)} :
        IF Following(DOMAIN labels, o) = {} THEN r = Unresolved
        ELSE r.oid = Least(Following(DOMAIN labels, o)) /\ r.suffix = <<>>

\* "Sort modules in ascending age": where two modules define an OID or a name, the
\* more recent one is believed, in whatever order they were loaded.
NewestDefines(mods) ==
    \A s \in Symbols(mods) :
        LET o == OidOf(mods, s) IN
        /\ mods[definition(mods)[o][1]].revision >= mods[s[1]].revision
        /\ \E r \in Symbols(mods) : /\ r[2] = s[2] /\ OidOf(mods, r) = varToNameIdx(mods)[s[2]]
                                    /\ mods[r[1]].revision >= mods[s[1]].revision

----------------------------------------------------------------------------
(* A view of a builder with a corpus: an OID that is resolved in part makes *)
(* it load the module that knows more.  The state is                        *)
(* [mods, corpus, corpusSeen, misses, asked, unloaded]: the loaded modules, *)
(* each with its id and its objects too (the names of scalars, tables, rows *)
(* and columns); the corpus of the builder and the one indexMib has seen;   *)
(* __corpusMisses; the OIDs that corpus was asked for, as often; and        *)
(* whether a module was unloaded since.  A corpus is [id, carries, broken], *)
(* broken the ids of modules that do not load.                              *)

NoCorpus == [id |-> 0, carries |-> {}, broken |-> {}]

NewView(mods) ==
    [mods |-> mods, corpus |-> NoCorpus, corpusSeen |-> 0, misses |-> {}, asked |-> <<>>, unloaded |-> FALSE]

Loaded(v) == {v.mods[i].id : i \in DOMAIN v.mods}
Resolve(v, oid) == getOidLabel(oidToLabelIdx(v.mods), oid)

\* MUTANT of indexMib: what one corpus could not place is never asked again.
IndexMibKeepsMisses(v) ==
    [v EXCEPT !.corpusSeen = v.corpus.id, !.asked = IF v.corpus.id = v.corpusSeen THEN @ ELSE <<>>]

\* Another corpus may place what the last one did not.
indexMib(v) ==
    IF v.corpus.id = v.corpusSeen THEN v
    ELSE [v EXCEPT !.corpusSeen = v.corpus.id, !.misses = {}, !.asked = <<>>, !.unloaded = FALSE]

\* Below an object the rest is an instance, below an identifier it is unknown.
worthAskingCorpus(v, r) ==
    /\ r.suffix # <<>>
    /\ \/ r.oid = r.label
       \/ LET d == definition(v.mods)[r.oid] IN d[2] \notin v.mods[d[1]].objects

\* corpus.find_module: the module with the longest prefix of the OID.
FindIn(corpus, oid) ==
    LET known == UNION {{<<m, m.symbols[n]>> : n \in DOMAIN m.symbols} : m \in corpus.carries}
        prefixes == {k \in known : IsPrefix(k[2], oid)}
    IN {k[1] : k \in {k \in prefixes : \A o \in prefixes : Len(o[2]) <= Len(k[2])}}

\* _corpusModuleFor: the OID is noted before it is asked for, and asked for once.
LoadFound(v, found) ==
    LET m == CHOOSE x \in found : TRUE
    IN IF found = {} \/ m.id \in Loaded(v) \cup v.corpus.broken THEN v ELSE [v EXCEPT !.mods = Append(@, m)]
corpusModuleFor(v, oid) ==
    IF v.corpus.id = 0 \/ oid \in v.misses THEN v
    ELSE LoadFound([v EXCEPT !.misses = @ \cup {oid}, !.asked = Append(@, oid)], FindIn(v.corpus, oid))

\* getNodeNameByOid of the merged view, and the state after it.
ResolvedIn(v, oid) == [v |-> v, r |-> OrUnresolved(Resolve(v, oid))]
AskedFor(v, oid, r) == IF worthAskingCorpus(v, r) THEN corpusModuleFor(v, oid) ELSE v
ResolveAsking(v, oid) == ResolvedIn(AskedFor(v, oid, Resolve(v, oid)), oid)
getNodeNameByOidAsking(view, oid) == ResolveAsking(indexMib(view), oid)

\* The application's calls of the builder.
SetMibCorpus(v, corpus) == [v EXCEPT !.corpus = corpus]
LoadModules(v, m) == [v EXCEPT !.mods = Append(@, m)]
UnloadModules(v, id) == [v EXCEPT !.mods = SelectSeq(@, LAMBDA m : m.id # id), !.unloaded = TRUE]

----------------------------------------------------------------------------
\* "In which case that module is loaded and the lookup is tried once more": whatever
\* was resolved and loaded before, an OID resolves as deep as it would in a view that
\* has just begun, unless modules were unloaded since; and "an OID under an unloaded
\* subtree asks once" however often it comes.
AsksOnce(view, oid) ==
    LET fresh == [NewView(view.mods) EXCEPT !.corpus = view.corpus] IN
    \A mine \in {getNodeNameByOidAsking(view, oid)} :
       /\ ~indexMib(view).unloaded => mine.r = getNodeNameByOidAsking(fresh, oid).r
       /\ getNodeNameByOidAsking(mine.v, oid).r = mine.r
       /\ \A i, j \in DOMAIN mine.v.asked : mine.v.asked[i] = mine.v.asked[j] => i = j

----------------------------------------------------------------------------
(* smi.rfc1902: identities, bindings and notifications as an application    *)
(* writes them, resolved with the MIBs that are loaded; hlapi.varbinds,     *)
(* which resolves requests and responses; and the table cells of smi.view.  *)
(*                                                                          *)
(* A world is [mods, shelf, kind, rows, objects]: the loaded modules, each  *)
(* [name, revision, symbols] as above; those that can be loaded, by name;   *)
(* OID -> "node", "scalar", "column", "row" or "notification"; OID of a row *)
(* -> the types of its indices; and OID of a notification -> the symbols    *)
(* <<module, name>> of its objects.                                         *)
(*                                                                          *)
(* An identity is written as one of                                         *)
(*   [form |-> "oid", oid]                                                  *)
(*   [form |-> "symbol", module, name, indices]    (module 0: any)          *)
(*   [form |-> "module", module, last, type]       (type "any": no matter)  *)

AnyModule == 0
TrapName == <<6, 3>>

Module(w, name) == SelectInSeq(w.mods, LAMBDA m : m.name = name)
Known(w, name) == Module(w, name) # 0

\* The builder's loadModules, of modules that need no others: those already loaded stay.
WithModule(w, name) ==
    IF Known(w, name) \/ name \notin DOMAIN w.shelf THEN w ELSE [w EXCEPT !.mods = Append(@, w.shelf[name])]

KindOf(w, oid) == IF oid \in DOMAIN w.kind THEN w.kind[oid] ELSE "node"
RowOf(oid) == SubSeq(oid, 1, Len(oid) - 1)

----------------------------------------------------------------------------
\* getOrderedNodeName, the first and the last: of one module, under the labels of all;
\* with a type only those whose label is a name of the module.
OrderedNode(w, last, module, type) ==
    LET mod == w.mods[Module(w, module)]
        def == definition(w.mods)
        own == {mod.symbols[n] : n \in DOMAIN mod.symbols}
        wanted == {o \in own : type = "any" \/ (def[o][2] \in DOMAIN mod.symbols
                                                /\ KindOf(w, mod.symbols[def[o][2]]) = type)}
    IN IF wanted = {} THEN {} ELSE {IF last THEN Greatest(wanted) ELSE Least(wanted)}

----------------------------------------------------------------------------
\* An identity: [written, loads, clean, oid, node, symbol, indices].
NewIdentity(written, loads) ==
    [written |-> written, loads |-> loads, clean |-> FALSE,
     oid |-> <<>>, node |-> <<>>, symbol |-> <<0, 0>>, indices |-> <<>>]
Tried(ok, w, x) == [ok |-> ok, w |-> w, x |-> x]

\* The symbol that defines an OID.
LocationOf(w, oid) == LET s == definition(w.mods)[oid] IN <<w.mods[s[1]].name, s[2]>>

\* MUTANT of IndicesOf: the indices are decoded as those of a row with one.
IndicesOfOne(w, node, suffix) ==
    IF suffix = <<>> THEN <<>>
    ELSE IF KindOf(w, node) # "column" THEN <<suffix>>
    ELSE <<setFromName(w.rows[RowOf(node)][1], suffix)[1]>>

\* What a name's suffix says of the row: its indices; as one opaque index where they
\* cannot be decoded, or where there are none.
OrOpaque(decoded, suffix) == IF decoded.ok THEN decoded.indices ELSE <<suffix>>
IndicesOf(w, node, suffix) ==
    IF suffix = <<>> THEN <<>>
    ELSE IF KindOf(w, node) = "column" THEN OrOpaque(getIndicesFromInstId(w.rows[RowOf(node)], suffix), suffix)
    ELSE <<suffix>>

\* By OID, or by the first or the last node of a module.
ResolvedTo(w, i, oid, r) ==
    IF r = Unresolved THEN Tried(FALSE, w, i)
    ELSE Tried(TRUE, w, [i EXCEPT !.clean = TRUE, !.oid = oid, !.node = r.oid, !.symbol = LocationOf(w, r.oid),
                                  !.indices = IndicesOf(w, r.oid, r.suffix)])
OidWritten(w, a) ==
    IF a.form = "oid" THEN {a.oid}
    ELSE IF Known(w, a.module) THEN OrderedNode(w, a.last, a.module, a.type) ELSE {}
ResolveOid(w, i, oids) ==
    LET oid == CHOOSE o \in oids : TRUE
    IN IF oids = {} THEN Tried(FALSE, w, i)
       ELSE ResolvedTo(w, i, oid, getNodeNameByOid(oidToLabelIdx(w.mods), oid))

\* By the symbol of a module, or of any module, and indices; the latter are searched
\* for along with the symbol, and are numbers here.
NoSymbol == <<0, 0>>
LocatedAt(w, r) == IF r = Unresolved THEN NoSymbol ELSE LocationOf(w, r.oid)
SymbolOf(w, a) ==
    IF a.module # AnyModule THEN <<a.module, a.name>>
    ELSE LocatedAt(w, getNodeName(w.mods, oidToLabelIdx(w.mods), <<a.name>> \o a.indices))

ResolveInstance(w, i, symbol, node, instId, decoded) ==
    IF ~decoded.ok THEN Tried(FALSE, w, i)
    ELSE Tried(TRUE, w, [i EXCEPT !.clean = TRUE, !.oid = node \o instId, !.node = node, !.symbol = symbol,
                                  !.indices = decoded.indices])
ResolveCell(w, i, symbol, node, types, instId) ==
    ResolveInstance(w, i, symbol, node, instId,
                    IF i.written.indices = <<>> THEN Decoded(TRUE, <<>>) ELSE getIndicesFromInstId(types, instId))
ResolveNode(w, i, symbol, node) ==
    LET indices == i.written.indices
        types == w.rows[RowOf(node)]
    IN IF KindOf(w, node) = "column"
       THEN ResolveCell(w, i, symbol, node, types, getInstIdFromIndices(types, indices))
       ELSE ResolveInstance(w, i, symbol, node, indices, Decoded(TRUE, IF indices = <<>> THEN <<>> ELSE <<indices>>))
ResolveIn(w, i, symbol) ==
    IF ~Known(w, symbol[1]) THEN Tried(FALSE, w, i)
    ELSE IF symbol[2] \notin DOMAIN w.mods[Module(w, symbol[1])].symbols THEN Tried(FALSE, w, i)
    ELSE ResolveNode(w, i, symbol, w.mods[Module(w, symbol[1])].symbols[symbol[2]])
ResolveNamed(w, i, symbol) ==
    IF symbol = NoSymbol THEN Tried(FALSE, w, i) ELSE ResolveIn(WithModule(w, symbol[1]), i, symbol)
ResolveSymbol(w, i) == ResolveNamed(w, i, SymbolOf(w, i.written))

\* ObjectIdentity.resolveWithMib.  The modules it was told to load are loaded in any
\* case, and once.
ResolveWritten(w, i) == ResolveOid(w, i, OidWritten(w, i.written))
ResolveWith(w, i) ==
    IF ~(i.loads \subseteq {w.mods[k].name : k \in DOMAIN w.mods}) THEN Tried(FALSE, w, i)
    ELSE IF i.clean THEN Tried(TRUE, w, [i EXCEPT !.loads = {}])
    ELSE IF i.written.form = "symbol" THEN ResolveSymbol(w, [i EXCEPT !.loads = {}])
    ELSE ResolveWritten(IF i.written.form = "oid" THEN w ELSE WithModule(w, i.written.module),
                        [i EXCEPT !.loads = {}])
resolveIdentity(world, i) == ResolveWith(FoldSet(LAMBDA n, w : WithModule(w, n), world, i.loads), i)

----------------------------------------------------------------------------
\* A binding: [identity, value, clean].  A value is "unspecified", "exception" (it says
\* there is none), "fits" or "misfit" (an SNMP value the object's syntax takes, or
\* not), "rawfits" or "raw" (one of Python's), or, once resolved, "cast".
NewBinding(identity, value) == [identity |-> identity, value |-> value, clean |-> FALSE]
BindingAt(oid, value) == NewBinding(NewIdentity([form |-> "oid", oid |-> oid], {}), value)
IsSnmpValue(value) == value \notin {"rawfits", "raw"}

\* MUTANT of Tolerated: any SNMP value.
ToleratedAny(value, ignoreValueErrors) == value # "raw"

\* What the object's syntax does not take stops the binding, unless it came from the
\* peer and the application does not mind.
Tolerated(value, ignoreValueErrors) == value # "raw" /\ (value # "misfit" \/ ignoreValueErrors)

\* ObjectType.resolveWithMib, of which r is the identity's.
ResolveValue(r, b, ignoreValueErrors) ==
    LET named == [b EXCEPT !.identity = r.x]
        cast == IF b.value \in {"fits", "rawfits"} THEN "cast" ELSE b.value
    IN IF ~r.ok THEN Tried(FALSE, r.w, named)
       ELSE IF KindOf(r.w, r.x.node) \notin {"scalar", "column"}
       THEN Tried(IsSnmpValue(b.value), r.w, [named EXCEPT !.clean = IsSnmpValue(b.value)])
       ELSE IF ~Tolerated(b.value, ignoreValueErrors) THEN Tried(FALSE, r.w, named)
       ELSE Tried(TRUE, r.w, [named EXCEPT !.clean = TRUE, !.value = cast])
resolveBinding(world, b, ignoreValueErrors) ==
    IF b.clean THEN Tried(TRUE, world, b)
    ELSE ResolveValue(resolveIdentity(world, b.identity), b, ignoreValueErrors)

\* One binding after the other, up to one that cannot be resolved.
WithResolved(acc, r) == Tried(r.ok, r.w, IF r.ok THEN Append(acc.x, r.x) ELSE acc.x)
ResolveEach(world, binds, ignoreValueErrors) ==
    LET step(acc, b) == IF ~acc.ok THEN acc ELSE WithResolved(acc, resolveBinding(acc.w, b, ignoreValueErrors))
    IN FoldLeft(step, Tried(TRUE, world, <<>>), binds)

\* hlapi.varbinds: a request tolerates nothing, a response what it is told to.
makeVarBinds(world, binds) == ResolveEach(world, binds, FALSE)
unmakeVarBinds(world, binds, lookupMib, ignoreValueErrors) ==
    IF lookupMib
    THEN ResolveEach(world, [k \in DOMAIN binds |-> BindingAt(binds[k].oid, binds[k].value)], ignoreValueErrors)
    ELSE Tried(TRUE, world, binds)

----------------------------------------------------------------------------
\* A notification: [identity, index, values, more, binds, clean].
NewNotification(identity, index, values) ==
    [identity |-> identity, index |-> index, values |-> values, more |-> <<>>, binds |-> <<>>, clean |-> FALSE]
addVarBinds(n, b) == IF n.clean THEN n ELSE [n EXCEPT !.more = Append(@, b)]

\* The objects its definition names, each at the notification's index.
ObjectBindings(w, n) ==
    LET node == n.identity.node
        objects == IF KindOf(w, node) = "notification" THEN w.objects[node] ELSE <<>>
        valueOf(o) == IF o \in DOMAIN n.values THEN n.values[o] ELSE "unspecified"
    IN [k \in DOMAIN objects |->
          NewBinding(NewIdentity([form |-> "symbol", module |-> objects[k][1], name |-> objects[k][2],
                                  indices |-> n.index], {}), valueOf(objects[k]))]

\* MUTANT of PlaceMore: what was added comes after.
PlaceMoreAfter(binds, objects, b) == Append(binds, b)

\* A binding that was added takes the place of the object of the same OID, of those at
\* the positions in objects.
PlaceMore(binds, objects, b) ==
    LET same == {k \in objects : binds[k].identity.oid = b.identity.oid}
    IN IF same = {} THEN Append(binds, b) ELSE [binds EXCEPT ![Max(same)] = b]

\* NotificationType.resolveWithMib: its own name, the trap's, those of its objects and
\* what was added.  Bindings stay in its list when it fails later on.
ResolveMore(n, objects, more) ==
    LET place(binds, b) == PlaceMore(binds, objects, b)
        placed == [n EXCEPT !.binds = FoldLeft(place, @, more.x)]
    IN Tried(more.ok, more.w, IF more.ok THEN [placed EXCEPT !.more = <<>>, !.clean = TRUE] ELSE placed)
ResolveObjects(n, trap, objects) ==
    LET listed == [n EXCEPT !.binds = @ \o <<trap.x>> \o objects.x]
    IN IF ~objects.ok THEN Tried(FALSE, objects.w, listed)
       ELSE ResolveMore(listed, Len(n.binds) + 2 .. Len(listed.binds), ResolveEach(objects.w, n.more, FALSE))
ResolveTrap(n, trap) ==
    IF ~trap.ok THEN Tried(FALSE, trap.w, n)
    ELSE ResolveObjects(n, trap, ResolveEach(trap.w, ObjectBindings(trap.w, n), FALSE))
ResolveNotified(n, named) ==
    LET identified == [n EXCEPT !.identity = named.x]
    IN IF ~named.ok THEN Tried(FALSE, named.w, identified)
       ELSE ResolveTrap(identified, resolveBinding(named.w, BindingAt(TrapName, "rawfits"), FALSE))
resolveNotification(world, n) ==
    IF n.clean THEN Tried(TRUE, world, n) ELSE ResolveNotified(n, resolveIdentity(world, n.identity))

----------------------------------------------------------------------------
\* The cells of a table.
ColumnsOf(w, row) == {o \in DOMAIN w.kind : w.kind[o] = "column" /\ RowOf(o) = row}
getCellOid(w, row, column, indices) ==
    IF row \o <<column>> \notin ColumnsOf(w, row) \/ Len(indices) # Len(w.rows[row]) THEN Undefined
    ELSE row \o <<column>> \o getInstIdFromIndices(w.rows[row], indices)

\* The column and the indices of a cell, or nothing.
getTableCellInfo(w, oid) ==
    LET r == getNodeName(w.mods, oidToLabelIdx(w.mods), oid)
        indices == getIndicesFromInstId(w.rows[RowOf(r.oid)], r.suffix)
    IN IF r = Unresolved \/ KindOf(w, r.oid) # "column" THEN {}
       ELSE IF ~indices.ok THEN {} ELSE {<<r.oid, indices.indices>>}

----------------------------------------------------------------------------
\* Nothing is registered below a column.
ColumnsAreLeaves(w) ==
    \A o, p \in DOMAIN definition(w.mods) : KindOf(w, o) = "column" => ~IsStrictPrefix(o, p)

\* However an object is written, by symbol and indices or by the OID these come to, it
\* resolves to the same object and the same indices; a cell of a table has the OID its
\* column has with those indices, and is told by it.  Resolving again changes nothing.
FormsAgree(w, i) ==
    \A r \in {resolveIdentity(w, i)} :
    \A back \in {resolveIdentity(r.w, NewIdentity([form |-> "oid", oid |-> r.x.oid], {}))},
       again \in {resolveIdentity(r.w, r.x)} :
       r.ok /\ ColumnsAreLeaves(r.w) =>
          /\ again.ok /\ again.x = r.x /\ again.w = r.w
          /\ back.ok /\ back.x.oid = r.x.oid
          /\ KindOf(w, r.x.node) = "column" =>
                /\ back.x.node = r.x.node /\ back.x.indices = r.x.indices
                /\ r.x.indices # <<>> =>
                      /\ getCellOid(r.w, RowOf(r.x.node), Last(r.x.node), r.x.indices) = r.x.oid
                      /\ getTableCellInfo(r.w, r.x.oid) = {<<r.x.node, r.x.indices>>}
          /\ definition(r.w.mods)[r.x.node] = <<Module(r.w, r.x.symbol[1]), r.x.symbol[2]>> =>
                (IsPrefix(r.x.node, back.x.node) /\ (back.x.node = r.x.node => back.x.symbol = r.x.symbol))

\* What a peer answers with does not stop the response from being resolved, whatever
\* its indices are, except for a value that is not of its object's syntax when the
\* application wants to be told; then, and in a request, no such value gets through.
ValuesAsDeclared(w, oid, value, ignoreValueErrors) ==
    \A response \in {unmakeVarBinds(w, <<[oid |-> oid, value |-> value]>>, TRUE, ignoreValueErrors)},
       request \in {makeVarBinds(w, <<BindingAt(oid, value)>>)} :
    LET known == getNodeNameByOid(oidToLabelIdx(w.mods), oid)
        leaf == known # Unresolved /\ KindOf(w, known.oid) \in {"scalar", "column"}
    IN IsSnmpValue(value) =>
          /\ response.ok <=> (known # Unresolved /\ ~(leaf /\ value = "misfit" /\ ~ignoreValueErrors))
          /\ response.ok => response.x[1].identity.oid = oid
          /\ request.ok /\ leaf =>
                \A k \in DOMAIN request.x : request.x[k].value \in {"cast", "unspecified", "exception"}

\* A notification resolves to the trap's own OID, then the objects of its definition in
\* their order, with the bindings that were added in the place of those they are of,
\* then what else was added.  After attempts that failed half way this is preceded by
\* what they left.  (r: n resolved)
NotificationWhole(r, n, left) ==
    LET objects == IF KindOf(r.w, r.x.identity.node) = "notification" THEN r.w.objects[r.x.identity.node] ELSE <<>>
        whole == SubSeq(r.x.binds, Len(left) + 1, Len(r.x.binds))
        oidOf(o) == r.w.mods[Module(r.w, o[1])].symbols[o[2]]
    IN r.ok /\ ~n.clean =>
          /\ SubSeq(r.x.binds, 1, Len(left)) = left
          /\ whole[1].identity.oid = TrapName
          /\ \A k \in DOMAIN objects : IsPrefix(oidOf(objects[k]), whole[k + 1].identity.oid)
          /\ \A k \in DOMAIN n.more : \E j \in 2 .. Len(whole) :
                whole[j].identity.oid = resolveIdentity(r.w, n.more[k].identity).x.oid
          /\ \A j \in 2 .. Len(objects) + 1, k \in Len(objects) + 2 .. Len(whole) :
                whole[j].identity.oid # whole[k].identity.oid
=============================================================================
