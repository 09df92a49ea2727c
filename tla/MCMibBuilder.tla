---------------------------- MODULE MCMibBuilder ----------------------------
(* Three modules, in chains and circles, in sources, corpus and compiler.    *)
EXTENDS MibBuilder

MCModules == {"a", "b", "c"}
MCRevision == [first |-> [a |-> 1], second |-> [a |-> 2, b |-> Undated], dest |-> [a |-> 3, b |-> 1, c |-> Undated]]

Graph(a, b, c) == [a |-> a, b |-> b, c |-> c]
World(imports, augments, failing, carried, plain, compilable, texts) ==
    [imports |-> imports, augments |-> augments, failing |-> failing, corpus |-> carried, plain |-> plain,
     compilable |-> compilable, texts |-> texts]

Chain == Graph({"b"}, {"c"}, {})
Circle == Graph({"b"}, {"c"}, {"a"})
Pair == Graph({}, {"c"}, {"b"})
None == Graph({}, {}, {})

MCWorlds == {
    World(Chain, None, {"c"}, {"b", "c"}, {}, {"b"}, FALSE),
    World(Chain, None, {"b"}, {"c"}, {}, {"b", "c"}, TRUE),
    World(Circle, None, {}, MCModules, {"a"}, {"c"}, FALSE),
    World(Pair, Graph({}, {"a"}, {"b"}), {}, MCModules, {}, {}, FALSE)}

MCParent == [x \in {"b", "own"} |-> IF x = "b" THEN "b" ELSE "a"]
=============================================================================
