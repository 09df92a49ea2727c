---------------------------- MODULE TargetCache ----------------------------
(***************************************************************************)
(* entity.rfc3413.config: the rows of the target and the notification      *)
(* tables read back, each kept in a cache of the engine that is good for   *)
(* one version of its table.                                               *)
(*                                                                         *)
(* The state is [addr, params, notify, profile, filter, version, cache]:   *)
(* the tables by name (an address is [to, source, params, tags]; a filter  *)
(* row, by profile and subtree, is [active, type]), the branchVersionId of *)
(* each, which every write below the table increases, and the caches, each *)
(* [id, map].                                                              *)
(***************************************************************************)
EXTENDS Integers, Sequences, FiniteSets, PythonData

CONSTANT LastValue  \* of the spin lock: 2147483647

Unversioned == -1
NoCache == [id |-> Unversioned, map |-> EmptyMap]
Lookups == {"getTargetAddr", "getTargetParams", "getNotificationInfo", "getTargetNames",
            "getNotifyFilterProfile", "getNotifyFilter"}
Tables == {"addr", "params", "notify", "profile", "filter"}
Unconfigured ==
    [addr |-> EmptyMap, params |-> EmptyMap, notify |-> EmptyMap, profile |-> EmptyMap, filter |-> EmptyMap,
     version |-> [t \in Tables |-> 0], cache |-> [f \in Lookups |-> NoCache]]

----------------------------------------------------------------------------
\* A row is written or destroyed: MibTree.writeCleanup, unregisterSubtrees.
WriteRow(s, table, name, row) == [s EXCEPT ![table] = Put(@, name, row), !.version[table] = @ + 1]
DestroyRow(s, table, name) == [s EXCEPT ![table] = Without(@, {name}), !.version[table] = @ + 1]

----------------------------------------------------------------------------
\* MUTANT of Current: what was read stays.
CurrentAlways(cache, version) == IF cache.id = Unversioned THEN EmptyMap ELSE cache.map

\* What of a cache is good for the version.
Current(cache, version) == IF cache.id # version THEN EmptyMap ELSE cache.map

\* One row is read if it is not there, and the cache then is of this version; a row that
\* is not known raises SmiError, and leaves the cache emptied but of its old version.
\* The answers are sequences: empty, nothing is known.
Memo(s, lookup, table, name, read) ==
    LET map == Current(s.cache[lookup], s.version[table])
    IN IF name \in DOMAIN map THEN [s |-> [s EXCEPT !.cache[lookup].map = map], answer |-> map[name]]
       ELSE IF read = <<>> THEN [s |-> [s EXCEPT !.cache[lookup].map = map], answer |-> <<>>]
       ELSE [s |-> [s EXCEPT !.cache[lookup] = [id |-> s.version[table], map |-> Put(map, name, read)]], answer |-> read]

\* The whole table is read when its version is another.
MemoAll(s, lookup, table, all) ==
    IF s.cache[lookup].id = s.version[table] THEN s
    ELSE [s EXCEPT !.cache[lookup] = [id |-> s.version[table], map |-> all]]

Row(table, name) == IF name \in DOMAIN table THEN <<table[name]>> ELSE <<>>

getTargetAddr(s, name) == Memo(s, "getTargetAddr", "addr", name, Row(s.addr, name))
getTargetParams(s, name) == Memo(s, "getTargetParams", "params", name, Row(s.params, name))

\* The address and the parameters it names, or nothing.
getTargetInfo(s, name) ==
    LET a == getTargetAddr(s, name)
        p == getTargetParams(a.s, a.answer[1].params)
    IN IF a.answer = <<>> THEN a
       ELSE [s |-> p.s, answer |-> IF p.answer = <<>> THEN <<>> ELSE <<a.answer[1], p.answer[1]>>]

getNotificationInfo(s, name) == Memo(s, "getNotificationInfo", "notify", name, Row(s.notify, name))

\* The names of the addresses with a tag.
getTargetNames(s, tag) ==
    LET tags == UNION {s.addr[n].tags : n \in DOMAIN s.addr}
        t == MemoAll(s, "getTargetNames", "addr", [x \in tags |-> {n \in DOMAIN s.addr : x \in s.addr[n].tags}])
        map == t.cache["getTargetNames"].map
    IN [s |-> t, answer |-> IF tag \in DOMAIN map THEN map[tag] ELSE {}]

\* The filter profile of target parameters: that there is none is kept as well.
getNotifyFilterProfile(s, name) ==
    Memo(s, "getNotifyFilterProfile", "profile", name,
         IF name \in DOMAIN s.profile /\ s.profile[name].active THEN <<s.profile[name].profile>> ELSE <<"none">>)

\* The active filters of a profile.
getNotifyFilter(s, profile) ==
    LET active == {k \in DOMAIN s.filter : s.filter[k].active}
        t == MemoAll(s, "getNotifyFilter", "filter",
                     [q \in {k[1] : k \in active} |-> {<<k[2], s.filter[k].type>> : k \in {j \in active : j[1] = q}}])
        map == t.cache["getNotifyFilter"].map
    IN [s |-> t, answer |-> IF profile \in DOMAIN map THEN map[profile] ELSE {}]

----------------------------------------------------------------------------
\* Whatever was written, destroyed and looked up before, found or not, a lookup answers
\* from the rows there are now: a cache is never a version behind, and one that was
\* emptied for a row that is not there is not taken for a full one.
LookupsAreCurrent(s, names, tags) ==
    LET uncached == [s EXCEPT !.cache = [f \in Lookups |-> NoCache]] IN
    /\ \A n \in names :
          /\ getTargetInfo(s, n).answer = getTargetInfo(uncached, n).answer
          /\ getNotificationInfo(s, n).answer = getNotificationInfo(uncached, n).answer
          /\ getNotifyFilterProfile(s, n).answer = getNotifyFilterProfile(uncached, n).answer
          /\ getNotifyFilter(s, n).answer = getNotifyFilter(uncached, n).answer
    /\ \A t \in tags : getTargetNames(s, t).answer = getTargetNames(uncached, t).answer

----------------------------------------------------------------------------
(* The tables' spin lock: TestAndIncr of SNMPv2-TC, which is the syntax of *)
(* snmpTargetSpinLock, usmUserSpinLock, vacmViewSpinLock and the like.     *)
(* Managers read the value and send it with what they SET; the network     *)
(* repeats and delays what they send.  The state is [held, sent, sets]:    *)
(* the value, the SETs sent, each [value, at, done] with how many SETs had *)
(* succeeded when the value was read and how often this one has; and how   *)
(* many have succeeded.                                                    *)
NewLock(held) == [held |-> held, sent |-> <<>>, sets |-> 0]

Refused == -1

\* MUTANT of setValue: the value goes on without the wrap, and back where that is too much.
SetValueStays(held, value) == IF value # held THEN Refused ELSE IF value + 1 > LastValue - 1 THEN value ELSE value + 1

\* setValue: the next value, which wraps before the last one there is.
setValue(held, value) == IF value # held THEN Refused ELSE IF value + 1 > LastValue - 1 THEN 0 ELSE value + 1

\* A manager reads the value and sends a SET with it.
ReadAndSend(s) == [s EXCEPT !.sent = Append(@, [value |-> s.held, at |-> s.sets, done |-> 0])]

\* A SET, or a copy of one, arrives.
DeliverSet(s, i) ==
    LET next == setValue(s.held, s.sent[i].value) IN
    IF next = Refused THEN s ELSE [s EXCEPT !.held = next, !.sent[i].done = @ + 1, !.sets = @ + 1]

----------------------------------------------------------------------------
\* Of the managers that read the same value one succeeds, and its SET once however often it
\* arrives, as long as fewer SETs succeed than there are values.
LockExcludes(s) ==
    s.sets < LastValue =>
        \A i, j \in DOMAIN s.sent : /\ s.sent[i].done <= 1
                                    /\ i # j /\ s.sent[i].at = s.sent[j].at => s.sent[i].done + s.sent[j].done <= 1
=============================================================================
