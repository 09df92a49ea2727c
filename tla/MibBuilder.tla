----------------------------- MODULE MibBuilder -----------------------------
(***************************************************************************)
(* smi.builder.MibBuilder: MIB modules loaded from sources, built from a   *)
(* corpus (smi.synthesis) or compiled on demand (smi.compiler), each with  *)
(* the modules it imports, and smi.instrum.__indexMib, which arranges what *)
(* they export into the tree that operations are served from.              *)
(*                                                                         *)
(* A module's code imports by calling the builder again; the calls that    *)
(* have not returned are a stack.  A copy of a module is <<where, module>>.*)
(* The lookups of smi.view that load a module of the corpus are calls of   *)
(* loadModules like any other.                                             *)
(***************************************************************************)
EXTENDS Integers, Sequences, FiniteSets, FiniteSetsExt, PythonData

CONSTANTS
    Modules,      \* those that may be loaded
    OwnModules,   \* those whose symbols the application exports itself
    Revision,     \* source -> module it may hold -> date of its copy, or Undated
    Worlds,       \* [imports, augments, failing, corpus, plain, compilable, texts]: who
                  \* imports whom and extends whose rows, whose code fails once its symbols
                  \* are there, what the corpus carries, and of this the copies without
                  \* imports, what can be compiled, loadTexts
    WithObjects,  \* the modules that export objects
    Parent        \* module that exports instances -> the module of their objects

Dest == "dest"       \* the compiler's directory, as a source
Sources == {"first", "second", Dest}

ASSUME MibBuilderAssumption ==
    /\ \A s \in Sources : \A m \in DOMAIN Revision[s] : Revision[s][m] \in Nat
    /\ \A w \in Worlds : /\ w.imports \in [Modules -> SUBSET Modules]
                         /\ w.augments \in [Modules -> SUBSET Modules]
                         /\ w.compilable \subseteq Modules

VARIABLES
    mib,       \* the world
    path,      \* __mibSources, in order
    compiled,  \* the modules in the compiler's directory
    compiler,  \* __mibCompiler is set
    corpus,    \* __mibCorpus is set
    symbols,   \* mibSymbols: module -> the copy that exported it
    seen,      \* __modSeen: module -> copy
    paths,     \* __modPathsSeen
    building,  \* __corpusBuilding
    stack,     \* modules under way: [copy, stage, todo]
    asked,     \* a loadModules for one module: <<module, compiled for it>>, or <<>>
    raised,    \* an exception on its way up
    queue,     \* modules the application asked for and that are to come
    moved,     \* the builder's lastBuildId is not the one indexed
    attached,  \* instances registered with the objects that are loaded now
    inTree,    \* objects registered in the tree
    last,      \* lastBuildSyms: [instances, objects]
    failed,    \* the last operation failed in __indexMib
    upset      \* history: symbols that were indexed were unloaded, or an operation came
               \* between the export of instances and that of their objects

loadVars == <<mib, path, compiled, compiler, corpus, symbols, seen, paths, building, stack, asked, raised, queue>>
indexVars == <<moved, attached, inTree, last, failed, upset>>
vars == <<loadVars, indexVars>>

Undated == 0
FromCorpus == "corpus"
Application == "application"
Nothing == ""

Idle == stack = <<>> /\ asked = <<>> /\ raised = Nothing /\ queue = {}
Proceeding == stack # <<>> /\ asked = <<>> /\ raised = Nothing
Top == stack[1]
Module(frame) == frame.copy[2]

LoadInit ==
    /\ mib \in Worlds
    /\ path = <<"first">> /\ compiled = {}
    /\ compiler = FALSE /\ corpus = FALSE
    /\ symbols = EmptyMap /\ seen = EmptyMap
    /\ paths = {} /\ building = {}
    /\ stack = <<>> /\ asked = <<>> /\ raised = Nothing /\ queue = {}

----------------------------------------------------------------------------
\* _candidates: the copies a module has, and the one that is tried.
Holds(s, m) == m \in DOMAIN Revision[s] /\ (s = Dest => m \in compiled)
Candidates(m) == {i \in DOMAIN path : Holds(path[i], m)}
Preferred(m) ==
    LET found == Candidates(m)
        date(i) == Revision[path[i]][m]
        newest == {i \in found : \A j \in found : date(j) <= date(i)}
    IN path[Min(IF \E i \in found : date(i) = Undated THEN found ELSE newest)]

\* _loadModuleFromCorpus, with _corpusMayAnswer: a corpus has no texts.
CorpusEntry(m) ==
    IF ~corpus \/ (mib.texts /\ compiler) THEN "notFound"
    ELSE IF mib.texts THEN "smiError"
    ELSE IF m \in building THEN "cycle"
    ELSE IF m \in mib.corpus THEN "build"
    ELSE "notFound"

\* loadModule up to the point where code runs.
Entry(m) ==
    IF m \in DOMAIN seen THEN "seen"
    ELSE IF Candidates(m) # {} /\ <<Preferred(m), m>> \notin paths THEN "execute"
    ELSE CorpusEntry(m)

Frame(where, m, stage) ==
    [copy |-> <<where, m>>, stage |-> stage,
     todo |-> IF where = FromCorpus /\ m \in mib.plain THEN {} ELSE mib.imports[m]]

Push(frame) == stack' = <<frame>> \o stack

\* What a compiler (external) has to render for a module: the module and those it
\* imports, in turn, that the sources do not have.
Missing(m) ==
    LET closure[n \in 0 .. Cardinality(Modules)] ==
            IF n = 0 THEN {m} ELSE closure[n - 1] \cup UNION {mib.imports[x] : x \in closure[n - 1]}
    IN {x \in closure[Cardinality(Modules)] : Candidates(x) = {}}

\* The compiler fails when one of them cannot be had.  What the sources have it may
\* render again.
Rendered(m) ==
    IF Missing(m) \subseteq mib.compilable THEN {Missing(m), Missing(m) \cup ({m} \cap mib.compilable)}
    ELSE {{}, Missing(m) \cap mib.compilable}

\* MUTANT of Compiles: as often as the module is not found.
CompilesAgain(m, again) == compiler /\ Entry(m) = "notFound"

\* The compiler is called when the module was not found, once.
Compiles(m, again) == compiler /\ ~again /\ Entry(m) = "notFound"

\* One module of loadModules.
LoadModule ==
    /\ asked # <<>>
    /\ LET m == asked[1]
           entry == Entry(m)
       IN \/ /\ entry = "seen"
             /\ asked' = <<>>
             /\ raised' = IF stack # <<>> /\ m \notin DOMAIN symbols THEN "notFound" ELSE Nothing
             /\ UNCHANGED <<compiled, paths, building, stack>>
          \/ /\ entry = "execute"
             /\ paths' = paths \cup {<<Preferred(m), m>>}
             /\ Push(Frame(Preferred(m), m, "body"))
             /\ asked' = <<>> /\ UNCHANGED <<compiled, building, raised>>
          \/ /\ entry = "build"
             /\ building' = building \cup {m}
             /\ Push(Frame(FromCorpus, m, "types"))
             /\ asked' = <<>> /\ UNCHANGED <<compiled, paths, raised>>
          \/ /\ Compiles(m, asked[2])
             /\ \E written \in Rendered(m) : compiled' = compiled \cup written
             /\ IF Missing(m) \subseteq mib.compilable THEN asked' = <<m, TRUE>> /\ UNCHANGED raised
                ELSE asked' = <<>> /\ raised' = "notFound"
             /\ UNCHANGED <<paths, building, stack>>
          \/ /\ entry \in {"notFound", "smiError", "cycle"} /\ ~Compiles(m, asked[2])
             /\ asked' = <<>> /\ raised' = entry
             /\ UNCHANGED <<compiled, paths, building, stack>>
    /\ UNCHANGED <<mib, path, compiler, corpus, symbols, seen, queue>>

----------------------------------------------------------------------------
\* The code of a module: importSymbols of what it imports, in its own order and so
\* any, and the export of its symbols.  A module without symbols here is loaded.
ImportNext ==
    /\ Proceeding /\ Top.todo # {}
    /\ \E m \in Top.todo :
          /\ stack' = [stack EXCEPT ![1].todo = @ \ {m}]
          /\ asked' = IF m \in DOMAIN symbols THEN <<>> ELSE <<m, FALSE>>
    /\ UNCHANGED <<mib, path, compiled, compiler, corpus, symbols, seen, paths, building, raised, queue>>

\* MUTANT of Abandon: the path stays among those seen.
AbandonKeepsPath(error) ==
    /\ stack' = Tail(stack)
    /\ building' = building \ {Module(Top)}
    /\ paths' = paths
    /\ raised' = IF Top.stage = "body" THEN "loadError" ELSE error

\* The module on top fails: a source's in loadModule's except clause, which makes any
\* exception a MibLoadError; a corpus' in the finally clause, which lets it pass.
Abandon(error) ==
    /\ stack' = Tail(stack)
    /\ building' = IF Top.stage = "body" THEN building ELSE building \ {Module(Top)}
    /\ paths' = IF Top.stage = "body" THEN paths \ {Top.copy} ELSE paths
    /\ raised' = IF Top.stage = "body" THEN "loadError" ELSE error

\* loadModule, and _loadModuleFromCorpus, after the code has run.
Record ==
    /\ seen' = Put(seen, Module(Top), Top.copy)
    /\ paths' = paths \cup {Top.copy}
    /\ building' = IF Top.stage = "body" THEN building ELSE building \ {Module(Top)}
    /\ stack' = Tail(stack) /\ raised' = Nothing

\* MUTANT of Exported: the symbols of another copy stay, without an error.
ExportedOnce(copy) == symbols' = IF copy[2] \in DOMAIN symbols THEN symbols ELSE Put(symbols, copy[2], copy)

\* exportSymbols raises on a symbol that is there, having added none of its own: two
\* copies of a module define the same symbols.
Exported(copy) == copy[2] \notin DOMAIN symbols /\ symbols' = Put(symbols, copy[2], copy)

\* A source's module: the export, then the behaviour fragment, which may fail.
ExecuteRest ==
    /\ Proceeding /\ Top.todo = {} /\ Top.stage = "body"
    /\ \/ /\ Exported(Top.copy)
          /\ IF Module(Top) \in mib.failing THEN Abandon("smiError") /\ UNCHANGED seen ELSE Record
       \/ /\ Module(Top) \in DOMAIN symbols
          /\ Abandon("smiError") /\ UNCHANGED <<symbols, seen>>
    /\ UNCHANGED <<mib, path, compiled, compiler, corpus, asked, queue>>

\* MUTANT of BuildRest: the fragment runs after the export.
BuildRestExportsFirst ==
    /\ Proceeding /\ Top.todo = {} /\ Top.stage = "types"
    /\ \/ /\ Module(Top) \notin mib.failing
          /\ Exported(Top.copy)
          /\ stack' = [stack EXCEPT ![1].stage = "wiring", ![1].todo = mib.augments[Module(Top)]]
          /\ UNCHANGED <<building, paths, raised>>
       \/ /\ Module(Top) \in mib.failing /\ Exported(Top.copy) /\ Abandon("smiError")
       \/ /\ Module(Top) \in DOMAIN symbols
          /\ Abandon("smiError") /\ UNCHANGED symbols
    /\ UNCHANGED <<mib, path, compiled, compiler, corpus, seen, asked, queue>>

\* synthesis.load_module: the fragment, then the export, then the rows it augments.
BuildRest ==
    /\ Proceeding /\ Top.todo = {} /\ Top.stage = "types"
    /\ \/ /\ Module(Top) \notin mib.failing
          /\ Exported(Top.copy)
          /\ stack' = [stack EXCEPT ![1].stage = "wiring", ![1].todo = mib.augments[Module(Top)]]
          /\ UNCHANGED <<building, paths, raised>>
       \/ /\ Module(Top) \in mib.failing \cup DOMAIN symbols
          /\ Abandon("smiError") /\ UNCHANGED symbols
    /\ UNCHANGED <<mib, path, compiled, compiler, corpus, seen, asked, queue>>

Wired ==
    /\ Proceeding /\ Top.todo = {} /\ Top.stage = "wiring"
    /\ Record
    /\ UNCHANGED <<mib, path, compiled, compiler, corpus, symbols, asked, queue>>

\* An exception arrives at the module on top, or at the application, whose call ends.
\* _Resolver._try lets a cycle pass only; a type that is found nowhere ends the build,
\* but it may be found elsewhere, and a row that cannot be extended is left alone.
Unwind ==
    /\ raised # Nothing
    /\ \/ /\ stack = <<>>
          /\ raised' = Nothing /\ queue' = {} /\ UNCHANGED <<stack, building, paths>>
       \/ /\ stack # <<>> /\ (Top.stage = "body" \/ raised = "cycle" \/ Top.stage = "types")
          /\ Abandon(IF raised = "cycle" THEN "cycle" ELSE "smiError") /\ UNCHANGED queue
       \/ /\ stack # <<>> /\ Top.stage \in {"types", "wiring"} /\ raised # "cycle"
          /\ raised' = Nothing /\ UNCHANGED <<stack, building, paths, queue>>
    /\ UNCHANGED <<mib, path, compiled, compiler, corpus, symbols, seen, asked>>

AskNext ==
    /\ stack = <<>> /\ asked = <<>> /\ raised = Nothing
    /\ \E m \in queue : asked' = <<m, FALSE>> /\ queue' = queue \ {m}
    /\ UNCHANGED <<mib, path, compiled, compiler, corpus, symbols, seen, paths, building, stack, raised>>

Step == LoadModule \/ ImportNext \/ ExecuteRest \/ BuildRest \/ Wired \/ Unwind \/ AskNext

----------------------------------------------------------------------------
\* The application, between its calls.

\* loadModules with names, or without: then all that the sources list.
LoadModules(names) ==
    /\ Idle /\ names # {}
    /\ queue' = names
    /\ UNCHANGED <<mib, path, compiled, compiler, corpus, symbols, seen, paths, building, stack, asked, raised>>

\* MUTANT of Listed: what is loaded.
ListedLoaded == DOMAIN symbols

Listed == {m \in Modules : Candidates(m) # {}}

\* unloadModules; a module that is not recorded as loaded loses its symbols before the
\* KeyError.
UnloadModule(m) ==
    /\ Idle /\ m \in DOMAIN symbols
    /\ symbols' = Without(symbols, {m})
    /\ paths' = IF m \in DOMAIN seen THEN paths \ {seen[m]} ELSE paths
    /\ seen' = Without(seen, {m})
    /\ UNCHANGED <<mib, path, compiled, compiler, corpus, building, stack, asked, raised, queue>>

\* exportSymbols by the application, of its own instances.
ExportOwn(m) ==
    /\ Idle /\ Exported(<<Application, m>>)
    /\ UNCHANGED <<mib, path, compiled, compiler, corpus, seen, paths, building, stack, asked, raised, queue>>

AddMibSources ==
    /\ Idle /\ "second" \notin {path[i] : i \in DOMAIN path}
    /\ path' = Append(path, "second")
    /\ UNCHANGED <<mib, compiled, compiler, corpus, symbols, seen, paths, building, stack, asked, raised, queue>>

\* addMibCompiler, with ifNotAdded.
SetMibCompiler ==
    /\ Idle /\ ~compiler
    /\ compiler' = TRUE /\ path' = Append(path, Dest)
    /\ UNCHANGED <<mib, compiled, corpus, symbols, seen, paths, building, stack, asked, raised, queue>>

SetMibCorpus ==
    /\ Idle /\ corpus' = ~corpus
    /\ UNCHANGED <<mib, path, compiled, compiler, symbols, seen, paths, building, stack, asked, raised, queue>>

----------------------------------------------------------------------------
\* __indexMib: before each operation the objects of the modules loaded are arranged into
\* a tree, unless it is that of the last time.  A module here exports objects, or instances
\* of the objects of one module, or both.

Instances == DOMAIN symbols \cap DOMAIN Parent
Objects == DOMAIN symbols \cap WithObjects

Init ==
    /\ LoadInit
    /\ moved = TRUE
    /\ attached = {} /\ inTree = {}
    /\ last = [instances |-> {}, objects |-> {}]
    /\ failed = FALSE /\ upset = FALSE

\* Items are detached from each other first.  One whose parent is not loaded any more
\* is looked for in the tree itself, and one that is not where it is looked for is an
\* error.
Detachable(i) == Parent[i] \in Objects /\ i \in attached

Stuck == {i \in last.instances : ~Detachable(i)}
Orphans == {i \in Instances : Parent[i] \notin Objects}

\* MUTANT of Remaining: nothing is detached.
RemainingAll == attached

\* What is attached once the detaching went well.
Remaining == attached \ last.instances

\* The pass over the instances ends at the first that cannot be detached, or attached:
\* those before it, in any order, were.  (Objects come
\* last, and are all attached.)
IndexFails ==
    /\ \/ /\ Stuck # {}
          /\ \E done \in SUBSET (last.instances \ Stuck) : attached' = attached \ done
          /\ UNCHANGED inTree
       \/ /\ Stuck = {} /\ last.objects \ inTree # {}
          /\ attached' = Remaining
          /\ \E done \in SUBSET (last.objects \cap inTree) : inTree' = inTree \ done
       \/ /\ Stuck = {} /\ last.objects \subseteq inTree
          /\ Orphans \cup (Instances \cap Remaining) # {}
          /\ inTree' = inTree \ last.objects
          /\ \E done \in SUBSET (Instances \ (Orphans \cup Remaining)) : attached' = Remaining \cup done
    /\ failed' = TRUE /\ upset' = (upset \/ Orphans # {})
    /\ UNCHANGED <<moved, last>>

IndexSucceeds ==
    /\ Stuck = {} /\ last.objects \subseteq inTree
    /\ Orphans \cup (Instances \cap Remaining) = {}
    /\ attached' = Remaining \cup Instances
    /\ inTree' = (inTree \ last.objects) \cup Objects
    /\ last' = [instances |-> Instances, objects |-> Objects]
    /\ moved' = FALSE /\ failed' = FALSE
    /\ UNCHANGED upset

\* An operation of the controller.
Operate ==
    /\ Idle
    /\ \/ ~moved /\ failed' = FALSE /\ UNCHANGED <<moved, attached, inTree, last, upset>>
       \/ moved /\ (IndexFails \/ IndexSucceeds)
    /\ UNCHANGED loadVars

\* Objects that are unloaded take the registrations with them.
Unload(m) ==
    /\ UnloadModule(m)
    /\ moved' = TRUE
    /\ attached' = {i \in attached : Parent[i] # m}
    /\ upset' = (upset \/ m \in last.instances \cup last.objects)
    /\ UNCHANGED <<inTree, last, failed>>

Loading ==
    /\ Step
    /\ moved' = (moved \/ symbols' # symbols)
    /\ UNCHANGED <<attached, inTree, last, failed, upset>>

Asking ==
    /\ \/ \E m \in Modules : LoadModules({m})
       \/ LoadModules(Listed)
       \/ AddMibSources \/ SetMibCompiler \/ SetMibCorpus
    /\ UNCHANGED indexVars

Exporting ==
    /\ \E m \in OwnModules : ExportOwn(m)
    /\ moved' = TRUE
    /\ UNCHANGED <<attached, inTree, last, failed, upset>>

Next ==
    \/ Loading \/ Asking \/ Exporting \/ Operate
    \/ \E m \in DOMAIN symbols : Unload(m)

\* A call of the builder runs to its end.
Spec == Init /\ [][Next]_vars /\ WF_vars(Loading)

----------------------------------------------------------------------------
TypeOK ==
    /\ DOMAIN symbols \subseteq Modules \cup OwnModules
    /\ DOMAIN seen \cup queue \subseteq Modules
    /\ compiled \subseteq Modules
    /\ raised \in {Nothing, "notFound", "loadError", "smiError", "cycle"}

\* However modules import one another, one by way of another, back to themselves, and
\* whichever of them fails: the paths seen are those of the modules loaded and under
\* way, no copy is under way twice, and the corpus is building what is on the stack.
LoadsAreTracked ==
    /\ paths = {seen[m] : m \in DOMAIN seen}
               \cup {stack[i].copy : i \in {j \in DOMAIN stack : stack[j].stage = "body"}}
    /\ building = {Module(stack[i]) : i \in {j \in DOMAIN stack : stack[j].stage # "body"}}
    /\ \A i, j \in DOMAIN stack : stack[i].copy = stack[j].copy => i = j

\* The copy a module is recorded to come from is the one whose symbols there are: also
\* when its imports lead back to it and another copy is found first.
RecordedCopyIsLoaded ==
    \A m \in DOMAIN seen : m \in DOMAIN symbols /\ symbols[m] = seen[m]

\* A call that failed leaves no module behind with symbols that is not loaded, and so
\* can neither be loaded again nor, without an error, be unloaded; but for modules of
\* sources whose own code fails after the export, and those of the corpus that extend
\* the rows of modules in a cycle.
NothingHalfLoaded ==
    Idle => \A m \in DOMAIN symbols \ (DOMAIN seen \cup OwnModules) :
        IF symbols[m][1] = FromCorpus THEN mib.augments[m] # {} ELSE m \in mib.failing

\* However modules import one another and whichever fails, each is loaded as a whole
\* from the copy it is recorded to come from, or not at all (loadModule,
\* exportSymbols, unloadModules).
LoadsAreWhole == TypeOK /\ RecordedCopyIsLoaded /\ LoadsAreTracked /\ NothingHalfLoaded

\* As long as nothing that was indexed is unloaded, and no operation meets instances
\* without their objects, the operations find the objects and the instances of exactly
\* the modules that are loaded, in whatever order and however often these came.
ServesWhatIsLoaded ==
    ~upset => /\ ~failed
              /\ ~moved => attached = Instances /\ inTree = Objects

\* Every call for modules returns: imports in a circle, modules that are not found, and
\* compilations that help nothing, included.
CallsReturn == ~Idle ~> Idle
=============================================================================
