------------------------------ MODULE MibCorpus ------------------------------
(***************************************************************************)
(* Where the contents of MIB modules come from: the corpora of smi.corpus, *)
(* the types smi.synthesis makes of them, and the files smi.builder reads. *)
(*                                                                         *)
(* smi.corpus: the databases of MIB nodes that OIDs are resolved from.     *)
(*                                                                         *)
(* A corpus here is                                                        *)
(*   [revision |-> module -> date or Undated,  tier |-> module -> tier,    *)
(*    dead     |-> the modules whose every object is obsolete,             *)
(*    index    |-> OID -> the module that registers it,                    *)
(*    nodes    |-> set of [module, oid]]                                   *)
(* and a search path a sequence of them.  Modules are numbers in the order *)
(* of their names.  Queries of the database are what its SQL says: "ORDER  *)
(* BY oid_key, module LIMIT 1" is the least.                               *)
(***************************************************************************)
EXTENDS PythonData, SequencesExt, FiniteSets, FiniteSetsExt, TLC

CONSTANTS Radix,     \* the values of an octet: 256
          MaxWidth   \* octets in the largest sub-identifier: 4

ASSUME MibCorpusAssumption == Radix \in Nat /\ MaxWidth \in Nat \ {0} /\ MaxWidth < Radix - 1

NoModule == 0
Undated == 0
Octet255 == Radix - 1

----------------------------------------------------------------------------
\* The key of an OID.

\* MUTANT of Width: the width of the arc one smaller, counted in whole octets.
WidthFloor(arc) == Min({w \in 1 .. MaxWidth : arc <= Radix ^ w})

Width(arc) == Min({w \in 1 .. MaxWidth : arc < Radix ^ w})
Digits(arc, w) == [i \in 1 .. w |-> (arc \div Radix ^ (w - i)) % Radix]
oid_key(oid) == FlattenSeq([i \in DOMAIN oid |-> <<Width(oid[i])>> \o Digits(oid[i], Width(oid[i]))])

\* From each position that starts an arc, the arcs that follow.
oid_from_key(key) ==
    LET value[at \in 1 .. Len(key), i \in 0 .. MaxWidth] ==
            IF i = 0 THEN 0 ELSE value[at, i - 1] * Radix + key[at + i]
        arcs[at \in 1 .. Len(key) + 1] ==
            IF at > Len(key) THEN <<>>
            ELSE <<value[at, key[at]]>> \o arcs[at + key[at] + 1]
    IN arcs[1]

subtree_bound(key) ==
    LET low == {i \in DOMAIN key : key[i] # Octet255}
        n == Max(low)
    IN IF low = {} THEN Append(key, Octet255)
       ELSE Append(SubSeq(key, 1, n - 1), key[n] + 1)

----------------------------------------------------------------------------
\* One corpus.
ModulesOf(c) == DOMAIN c.revision

First(nodes) == CHOOSE n \in nodes : \A o \in nodes : \/ o = n
                                                      \/ Precedes(n.oid, o.oid)
                                                      \/ n.oid = o.oid /\ n.module < o.module

AnchorIn(c, oid) == IF oid \in DOMAIN c.index THEN {c.index[oid]} ELSE {}
NodesAt(c, oid) == {n \in c.nodes : n.oid = oid}
NodesAfter(c, oid) == {n \in c.nodes : Precedes(oid_key(oid), oid_key(n.oid))}
SubtreeOf(c, oid) ==
    {n \in c.nodes : LET k == oid_key(n.oid) IN
        /\ k = oid_key(oid) \/ Precedes(oid_key(oid), k)
        /\ Precedes(k, subtree_bound(oid_key(oid)))}

----------------------------------------------------------------------------
\* Several corpora searched as one.

\* The candidate, of several copies in configured order: the newest, the first of
\* the newest, or the first when one of them is undated.
best_by_revision(candidates, revision) ==
    IF \E i \in candidates : revision[i] = Undated THEN Min(candidates)
    ELSE Min({i \in candidates : \A j \in candidates : revision[j] <= revision[i]})

Carriers(path, module) == {i \in DOMAIN path : module \in ModulesOf(path[i])}

\* The corpus that answers for a module.
owner(path, module) ==
    LET carriers == Carriers(path, module) IN
    IF carriers = {} THEN 0
    ELSE best_by_revision(carriers, [i \in carriers |-> path[i].revision[module]])

\* Obsolete, tier, revision (newest first, undated last), name: the lower the better.
\* A module no corpus carries has neither tier nor date.
rank_of(path, module) ==
    LET o == owner(path, module) IN
    IF o = 0 THEN <<0, 3, 0, module>>
    ELSE <<IF module \in path[o].dead THEN 1 ELSE 0, path[o].tier[module], -path[o].revision[module], module>>

\* MUTANT of anchor: the corpus configured first is believed.
AnchorFirst(path, oid) ==
    LET named == {i \in DOMAIN path : oid \in DOMAIN path[i].index}
    IN IF named = {} THEN NoModule ELSE path[Min(named)].index[oid]

anchor(path, oid) ==
    LET seen == UNION {AnchorIn(path[i], oid) : i \in DOMAIN path}
    IN IF seen = {} THEN NoModule
       ELSE CHOOSE m \in seen : \A o \in seen \ {m} : Precedes(rank_of(path, m), rank_of(path, o))

\* MUTANT of find_module: each corpus is searched on its own, in order.
FindModuleByCorpus(path, oid) ==
    LET found(i) == {p \in Prefixes(oid) : p \in DOMAIN path[i].index}
        answering == {i \in DOMAIN path : found(i) # {}}
    IN IF answering = {} THEN NoModule
       ELSE LET i == Min(answering) IN path[i].index[Longest(found(i))]

\* Arcs are dropped until some corpus knows the rest.
find_module(path, oid) ==
    LET known == {p \in Prefixes(oid) : anchor(path, p) # NoModule}
    IN IF known = {} THEN NoModule ELSE anchor(path, Longest(known))

Owned(path, i, n) == owner(path, n.module) = i

\* Each corpus offers its first node at the OID, if it answers for it.
node(path, oid) ==
    LET offering == {i \in DOMAIN path : NodesAt(path[i], oid) # {} /\ Owned(path, i, First(NodesAt(path[i], oid)))}
    IN IF offering = {} THEN {} ELSE {First(NodesAt(path[Min(offering)], oid))}

\* MUTANT of Successor: the first node after, whoever answers for it.
SuccessorOfAny(path, i, oid) ==
    LET later == NodesAfter(path[i], oid) IN IF later = {} THEN {} ELSE {First(later)}

\* One corpus' next node that is its own: from OID to OID, looking at the first node
\* of each, as the database gives them.
Successor(path, i, oid) ==
    LET first(p) == First(NodesAt(path[i], p))
        own == {n \in NodesAfter(path[i], oid) : n = first(n.oid) /\ Owned(path, i, n)}
    IN IF own = {} THEN {} ELSE {First(own)}

next_node(path, oid) ==
    LET found == UNION {Successor(path, i, oid) : i \in DOMAIN path}
        least == {n \in found : \A o \in found : ~Precedes(oid_key(o.oid), oid_key(n.oid))}
    IN IF found = {} THEN {} ELSE least

subtree(path, oid) ==
    UNION {{n \in SubtreeOf(path[i], oid) : Owned(path, i, n)} : i \in DOMAIN path}

----------------------------------------------------------------------------
\* Keys are ordered as OIDs are, and one is the beginning of another exactly when
\* its OID is: what makes a query by range a walk.  And they can be read back.
KeysKeepOrder(a, b) ==
    /\ Precedes(oid_key(a), oid_key(b)) <=> Precedes(a, b)
    /\ IsPrefix(oid_key(a), oid_key(b)) <=> IsPrefix(a, b)
    /\ oid_from_key(oid_key(a)) = a

\* A range of keys is a subtree.
RangeIsSubtree(a, b) ==
    ((oid_key(a) = oid_key(b) \/ Precedes(oid_key(a), oid_key(b))) /\ Precedes(oid_key(b), subtree_bound(oid_key(a))))
        <=> IsPrefix(a, b)

\* Every node some corpus answers for, once per OID: what a walk has to show.
Visible(path) == UNION {{n \in path[i].nodes : Owned(path, i, n)} : i \in DOMAIN path}

\* No corpus defines an OID twice.
OneModulePerOid(path) ==
    \A i \in DOMAIN path : \A m, n \in path[i].nodes : m.oid = n.oid => m = n

\* "A walk has to see one ordering": from any OID the next node is the least of all
\* those the corpora answer for, none left out and none of a module another corpus
\* answers for, and the walk finds what the subtree holds.
WalkIsComplete(path, oid) ==
    OneModulePerOid(path) =>
        LET later == {n.oid : n \in Visible(path)} \cap Following({n.oid : n \in Visible(path)}, oid) IN
        /\ IF later = {} THEN next_node(path, oid) = {}
           ELSE /\ next_node(path, oid) # {}
                /\ \A n \in next_node(path, oid) : n.oid = Least(later) /\ n \in Visible(path)
        /\ subtree(path, oid) = {n \in Visible(path) : IsPrefix(oid, n.oid)}

\* "Not by which corpus was configured first": where the copies of every module are
\* dated differently, the same corpora in another order resolve every OID to the
\* same module and walk the same OIDs.
OrderDoesNotDecide(path, oid) ==
    LET back == Reverse(path)
        shared == {m \in UNION {ModulesOf(path[i]) : i \in DOMAIN path} : Cardinality(Carriers(path, m)) > 1}
        told == \A m \in shared : /\ \A i \in Carriers(path, m) : path[i].revision[m] # Undated
                                  /\ \A i, j \in Carriers(path, m) :
                                        path[i].revision[m] = path[j].revision[m] => i = j
    IN told => /\ find_module(path, oid) = find_module(back, oid)
               /\ {n.oid : n \in next_node(path, oid)} = {n.oid : n \in next_node(back, oid)}

\* "By OID the longest prefix still wins first": no corpus, however late in the
\* order, knows more of the OID than the answer does.
LongestPrefixWins(path, oid) ==
    \A i \in DOMAIN path : \A p \in Prefixes(oid) \cap DOMAIN path[i].index :
        \E q \in Prefixes(oid) : /\ Len(q) >= Len(p)
                                 /\ \E j \in DOMAIN path : q \in DOMAIN path[j].index
                                                           /\ path[j].index[q] = find_module(path, oid)

----------------------------------------------------------------------------
(***************************************************************************)
(* smi.synthesis: the types of a module built out of a corpus.  They come  *)
(* by name, not in the order of their declarations, and one is defined on  *)
(* another, of this module or of one it imports from.                      *)
(*                                                                         *)
(* A module is [base, imports]: type -> the name of the type it is defined *)
(* on, and imported name -> module.  Exported is module -> what it offers. *)
(* A type that was found is <<module, name>>.                              *)
(***************************************************************************)

Smi == "SNMPv2-SMI"
Tc == "SNMPv2-TC"
Own == "own"
NoType == <<"nowhere", "nothing">>

\* type_class: the type a name stands for, given what was declared so far.
TypeClass(mod, exported, spellings, declared, name) ==
    LET offers(m) == m \in DOMAIN exported /\ name \in exported[m]
        places == (IF name \in DOMAIN mod.imports THEN <<mod.imports[name]>> ELSE <<>>) \o <<Tc, Smi>>
        first == SelectInSeq(places, offers)
    IN IF name \in declared THEN <<Own, name>>
       ELSE IF name \in spellings THEN <<Smi, name>>
       ELSE IF first # 0 THEN <<places[first], name>>
       ELSE NoType

\* MUTANT of Pending: types in the order of their names.
PendingOne(mod, declared, name) == <<name>>

\* declare: the types to build for one to be, it last, or <<>> for one that is defined
\* in terms of itself by way of another.
Pending(mod, declared, name) ==
    LET own == DOMAIN mod.base
        chain[n \in 0 .. Cardinality(own)] ==
            IF n = 0 THEN <<name>>
            ELSE LET c == chain[n - 1]
                     next == IF c = <<>> THEN name ELSE mod.base[c[1]]
                 IN IF c = <<>> \/ next = c[1] \/ next \notin own \ declared THEN c
                    ELSE IF next \in ToSet(c) THEN <<>>
                    ELSE <<next>> \o c
    IN chain[Cardinality(own)]

\* load_module's types: type -> what it is defined on; the module is refused when one
\* of them is NoType.
BuildTypes(mod, exported, spellings, names) ==
    LET build(built, name) == [t \in DOMAIN built \cup {name} |->
            IF t \in DOMAIN built THEN built[t]
            ELSE TypeClass(mod, exported, spellings, DOMAIN built, mod.base[name])]
        one(built, name) ==
            IF name \in DOMAIN built THEN built
            ELSE IF Pending(mod, DOMAIN built, name) = <<>> THEN (name :> NoType) @@ built
            ELSE FoldLeft(build, built, Pending(mod, DOMAIN built, name))
    IN FoldLeft(one, <<>>, names)

----------------------------------------------------------------------------
\* Whatever the order of the names, a type defined on one of its own module rests on
\* that one and not on a type of the same name elsewhere, another rests on what the
\* imports name if it is there, and the module is refused exactly when a type is
\* defined in terms of itself by way of others, or on nothing that is known.
TypesRestOnTheirOwn(mod, exported, spellings, names) ==
    LET own == DOMAIN mod.base
        built == BuildTypes(mod, exported, spellings, names)
        known(b) == b \in spellings \/ \E m \in {Tc, Smi} \cup {mod.imports[x] : x \in DOMAIN mod.imports \cap {b}} :
                                           m \in DOMAIN exported /\ b \in exported[m]
        circular == \E S \in SUBSET own :
                        /\ Cardinality(S) > 1 /\ {mod.base[t] : t \in S} = S
                        /\ \A t \in S : mod.base[t] # t
        undefined == \E t \in own : mod.base[t] \notin own \ {t} /\ ~known(mod.base[t])
    IN IF \E t \in DOMAIN built : built[t] = NoType THEN circular \/ undefined
       ELSE /\ ~circular /\ ~undefined
            /\ DOMAIN built = own
            /\ \A t \in own :
                  LET b == mod.base[t]
                  IN /\ (b \in own /\ b # t) <=> built[t] = <<Own, b>>
                     /\ b \notin spellings \cup (own \ {t}) /\ b \in DOMAIN mod.imports
                        /\ mod.imports[b] \in DOMAIN exported /\ b \in exported[mod.imports[b]]
                           => built[t] = <<mod.imports[b], b>>

----------------------------------------------------------------------------
(***************************************************************************)
(* smi.builder: which form of a module a source reads, the bytecode or the *)
(* text, by their times.  A module's files have a history: the text is     *)
(* written, compiled (which stamps the bytecode with the time of the text) *)
(* and compiled to bytecode with a hash in place of a time.  A source      *)
(* rounds the time of a text: a directory to seconds, an archive to two.   *)
(***************************************************************************)

None == -1

\* A file: the time it states, None without one, and the text it is made of.
File(time, text) == [time |-> time, text |-> text]
NoFile == [time |-> None, text |-> None]

\* What the files are after a history of [op, at].  (external: the file system and the
\* Python compiler)
Files(history) ==
    LET after[n \in 0 .. Len(history)] ==
            IF n = 0 THEN [py |-> NoFile, pyc |-> NoFile]
            ELSE LET was == after[n - 1]
                     step == history[n]
                 IN CASE step.op = "write" -> [was EXCEPT !.py = File(step.at, n)]
                      [] step.op = "remove" -> [was EXCEPT !.py = NoFile]
                      [] step.op = "compile" /\ was.py # NoFile -> [was EXCEPT !.pyc = was.py]
                      [] step.op = "hash" /\ was.py # NoFile -> [was EXCEPT !.pyc = File(None, was.py.text)]
                      [] OTHER -> was
    IN after[Len(history)]

\* DirMibSource._getTimestamp, ZipMibSource._getTimestamp and _parseDosTime.
getTimestamp(file, grain) == IF file = NoFile THEN None ELSE (file.time \div grain) * grain

\* MUTANT of read: any bytecode there is.
ReadAnyBytecode(files, grain) ==
    IF files.pyc.text # None THEN files.pyc.text
    ELSE IF getTimestamp(files.py, grain) # None THEN files.py.text
    ELSE None

\* The text that runs, or None where no suitable module is found.
read(files, grain) ==
    LET pycTime == files.pyc.time
        pyTime == getTimestamp(files.py, grain)
    IN IF pycTime # None /\ pycTime >= pyTime THEN files.pyc.text
       ELSE IF pyTime # None THEN files.py.text
       ELSE None

----------------------------------------------------------------------------
\* Bytecode older than the text never runs: what runs is the text as it was last
\* written, where there is one, unless it was written again within the grain of the
\* time the bytecode states; and a module that has a text, or bytecode with a time, is
\* found.
ReadsTheLastText(history, grain) ==
    LET files == Files(history)
        ran == read(files, grain)
    IN /\ files.py # NoFile =>
            \/ ran = files.py.text
            \/ /\ ran = files.pyc.text
               /\ files.py.time - files.pyc.time < grain
       /\ ran = None => files.py = NoFile /\ files.pyc.time = None
=============================================================================
