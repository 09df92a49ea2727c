-------------------------------- MODULE Vacm --------------------------------
(***************************************************************************)
(* The view-based access control model, proto.acmod.rfc3415, as operators  *)
(* on the tables entity.config writes:                                     *)
(*   t.context   a set of context names                                    *)
(*   t.group     <<model, security name>>      -> group name               *)
(*   t.access    <<group, context, model, level>>                          *)
(*                              -> [match, read, write, notify]            *)
(*   t.view      <<view name, subtree>>        -> [mask, included]         *)
(* Context names and object identifiers are sequences of numbers, masks    *)
(* sequences of bits.  The copies of the tables the model keeps are        *)
(* rebuilt whenever a column they are watched by was written.              *)
(***************************************************************************)
EXTENDS PythonData, SequencesExt, FiniteSets, FiniteSetsExt

Exact == 1   \* vacmAccessContextMatch: the context, or any that begins with it
Prefix == 2
AnyModel == 0

Bit(p) == IF p THEN 1 ELSE 0

----------------------------------------------------------------------------
\* _getFamilyViewName

\* MUTANT of Candidates: only rows of the request's own level.
CandidatesSameLevel(t, group, ctx, model, level) ==
    {k \in DOMAIN t.access :
        /\ k[1] = group
        /\ IF t.access[k].match = Exact THEN k[2] = ctx ELSE IsPrefix(k[2], ctx)
        /\ k[3] \in {model, AnyModel}
        /\ k[4] = level}

\* The rows of the group that apply to a request.
Candidates(t, group, ctx, model, level) ==
    {k \in DOMAIN t.access :
        /\ k[1] = group
        /\ IF t.access[k].match = Exact THEN k[2] = ctx ELSE IsPrefix(k[2], ctx)
        /\ k[3] \in {model, AnyModel}
        /\ k[4] <= level}

\* MUTANT of Rank: the level before the context.
RankLevelFirst(k, ctx, model) == <<Bit(k[3] = model), k[4], Bit(k[2] = ctx), Len(k[2])>>

\* The tuple candidates are compared by.
Rank(k, ctx, model) == <<Bit(k[3] = model), Bit(k[2] = ctx), Len(k[2]), k[4]>>

BestCandidate(t, group, ctx, model, level) ==
    LET C == Candidates(t, group, ctx, model, level) IN
    CHOOSE k \in C : \A other \in C : ~Precedes(Rank(k, ctx, model), Rank(other, ctx, model))

\* Views and groups are known by tuples; this one is none but the error.
NoView(why) == <<"error", why>>

GetFamilyViewName(t, group, ctx, model, level, viewType) ==
    IF \A k \in DOMAIN t.access : k[1] # group THEN NoView("noGroupName")
    ELSE IF Candidates(t, group, ctx, model, level) = {} THEN NoView("notInView")
    ELSE t.access[BestCandidate(t, group, ctx, model, level)][viewType]

----------------------------------------------------------------------------
\* The positions a mask has the comparison ignore.
Ignored(subtree, mask) == {i \in 1..Len(mask) : i <= Len(subtree) /\ mask[i] = 0}

Blank(oid, positions) == [i \in 1..Len(oid) |-> IF i \in positions THEN 0 ELSE oid[i]]

\* The families of a view as they are kept: subtrees blanked where the mask
\* says so.  "row" is the subtree as given, by which the table is ordered.
Families(t, viewName) ==
    {[row |-> k[2],
      subtree |-> Blank(k[2], Ignored(k[2], t.view[k].mask)),
      ignored |-> Ignored(k[2], t.view[k].mask),
      included |-> t.view[k].included] : k \in {x \in DOMAIN t.view : x[1] = viewName}}

\* entries.sort(), a stable sort: shorter subtrees first, then the lesser, then
\* the table's order.
Before(f, g) ==
    \/ Len(f.subtree) < Len(g.subtree)
    \/ /\ Len(f.subtree) = Len(g.subtree)
       /\ Precedes(f.subtree \o f.row, g.subtree \o g.row)

Matches(f, oid) == IsPrefix(f.subtree, Blank(oid, f.ignored))

\* The loop leaves the mode of the last entry that matches.
InView(t, viewName, oid) ==
    LET hits == {f \in Families(t, viewName) : Matches(f, oid)} IN
    \E f \in hits : f.included /\ \A g \in hits : ~Before(f, g)

\* subOids[ignoredSubOid] = 0 for a name that has no such position.
Overruns(t, viewName, oid) ==
    \E f \in Families(t, viewName) : \E i \in f.ignored : i > Len(oid)

\* What isAccessAllowed comes to for its callers, who look at exceptions only.
\* For a view without families the code returns its error.
IsAccessAllowed(t, model, name, level, viewType, ctx, oid) ==
    IF ctx \notin t.context THEN "noSuchContext"
    ELSE IF <<model, name>> \notin DOMAIN t.group THEN "noGroupName"
    ELSE LET v == GetFamilyViewName(t, t.group[<<model, name>>], ctx, model, level, viewType) IN
         IF v \in {NoView("noGroupName"), NoView("notInView")} THEN v[2]
         ELSE IF Families(t, v) = {} THEN "allowed"
         ELSE IF Overruns(t, v, oid) THEN "indexError"
         ELSE IF InView(t, v, oid) THEN "allowed" ELSE "notInView"

----------------------------------------------------------------------------
(* What entity.rfc3413.ntforg decides about one notification, with masks    *)
(* that work as those of a view do: the order of its bindings, and whether  *)
(* a target's filter lets it through.  A binding is [name, value]; a filter *)
(* entry [subtree, mask, included] of snmpNotifyFilterTable.                *)

\* The names of the two objects every notification carries (that they differ is
\* all that matters here), and the agent's sysUpTime.
SysUpTime == <<1, 1>>
SnmpTrapOID == <<1, 4>>
UpTime == <<0>>

MissingTrapOID == <<>>   \* PySnmpError: snmpTrapOID.0 is not among the bindings

At(varBinds, name) == {i \in 1..Len(varBinds) : varBinds[i].name = name}

\* The first position after the first that has the name.
FirstAfter(varBinds, name) ==
    CHOOSE i \in At(varBinds, name) \ {1} : \A j \in At(varBinds, name) \ {1} : i <= j

\* MUTANT of WithUpTime: the caller's own stays where it was.
WithUpTimeTwice(varBinds) ==
    IF varBinds # <<>> /\ varBinds[1].name = SysUpTime THEN varBinds
    ELSE <<[name |-> SysUpTime, value |-> UpTime]>> \o varBinds

\* sysUpTime.0 first: the caller's, wherever it was, or the agent's.
WithUpTime(varBinds) ==
    LET ordered == IF varBinds # <<>> /\ varBinds[1].name = SysUpTime THEN varBinds
                   ELSE <<[name |-> SysUpTime, value |-> UpTime]>> \o varBinds
    IN IF At(ordered, SysUpTime) = {1} THEN ordered
       ELSE LET i == FirstAfter(ordered, SysUpTime) IN
            RemoveAt([ordered EXCEPT ![1] = ordered[i]], i)

\* orderNotificationVarBinds
OrderNotificationVarBinds(varBinds) ==
    LET ordered == WithUpTime(varBinds) IN
    IF At(ordered, SnmpTrapOID) \subseteq {1} THEN MissingTrapOID
    ELSE LET i == FirstAfter(ordered, SnmpTrapOID) IN
         InsertAt(RemoveAt(ordered, i), 2, ordered[i])

\* _prepareFilterEntries
PrepareFilterEntries(entries) ==
    {[row |-> e.subtree,
      subtree |-> Blank(e.subtree, Ignored(e.subtree, e.mask)),
      ignored |-> Ignored(e.subtree, e.mask),
      included |-> e.included] : e \in entries}

\* MUTANT of FilterBefore: the sort key is the subtree as it is compared.
FilterBeforeBlanked(f, g) ==
    \/ Len(f.row) < Len(g.row)
    \/ Len(f.row) = Len(g.row) /\ Precedes(f.subtree, g.subtree)

\* The sort key is the subtree as configured.
FilterBefore(f, g) ==
    \/ Len(f.row) < Len(g.row)
    \/ Len(f.row) = Len(g.row) /\ Precedes(f.row, g.row)

\* _matchPreparedFilter: "none" when nothing matches.
MatchPreparedFilter(prepared, oid) ==
    LET hits == {f \in prepared : Len(oid) >= Len(f.row) /\ Matches(f, oid)}
        last == CHOOSE f \in hits : \A g \in hits : ~FilterBefore(f, g)
    IN IF hits = {} THEN "none" ELSE IF last.included THEN "included" ELSE "excluded"

ObjectNames(varBinds) ==
    {varBinds[i].name : i \in 1..Len(varBinds)} \ {SysUpTime, SnmpTrapOID}

\* A target whose profile has no filter gets everything; otherwise the
\* notification's name must be included and no object of it excluded.
PassesFilter(entries, varBinds) ==
    LET prepared == PrepareFilterEntries(entries) IN
    \/ entries = {}
    \/ /\ MatchPreparedFilter(prepared, varBinds[2].value) = "included"
       /\ \A name \in ObjectNames(varBinds) : MatchPreparedFilter(prepared, name) # "excluded"

----------------------------------------------------------------------------
\* "sysUpTime.0 first and snmpTrapOID.0 second, whatever order the caller listed them in.
\* The rest keep the caller's order behind them" (orderNotificationVarBinds), and what the
\* caller gave once goes out once, an uptime of its own in place of the agent's.
OrderedAsRequired(varBinds) ==
    LET ordered == OrderNotificationVarBinds(varBinds)
        given(name) == {varBinds[i] : i \in At(varBinds, name)}
        IsOther(b) == b.name \notin {SysUpTime, SnmpTrapOID}
        once == Cardinality(At(varBinds, SysUpTime)) <= 1 /\ Cardinality(At(varBinds, SnmpTrapOID)) = 1
    IN IF given(SnmpTrapOID) = {} THEN ordered = MissingTrapOID
       ELSE /\ ordered[1].name = SysUpTime
            /\ ordered[1].value = UpTime <=> given(SysUpTime) = {}
            /\ ordered[2] \in given(SnmpTrapOID)
            /\ SelectSeq(ordered, IsOther) = SelectSeq(varBinds, IsOther)
            /\ once => Len(ordered) = Len(SelectSeq(varBinds, IsOther)) + 2

\* RFC 3413, section 6, as _prepareFilterEntries cites it: of the entries whose subtree a
\* name agrees with wherever the mask has no 0, the one with the longest, then the greatest
\* subtree as it was configured decides.
FilterDecides(entries, oid) ==
    LET covering == {e \in entries : /\ Len(e.subtree) <= Len(oid)
                                     /\ \A i \in DOMAIN e.subtree :
                                           (i \in DOMAIN e.mask /\ e.mask[i] = 0) \/ e.subtree[i] = oid[i]}
        longest == {e \in covering : \A o \in covering : Len(o.subtree) <= Len(e.subtree)}
        verdict == MatchPreparedFilter(PrepareFilterEntries(entries), oid)
    IN IF covering = {} THEN verdict = "none"
       ELSE \A e \in longest : e.subtree = Greatest({o.subtree : o \in longest}) =>
               verdict = IF e.included THEN "included" ELSE "excluded"
=============================================================================
