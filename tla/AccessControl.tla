---------------------------- MODULE AccessControl ----------------------------
(***************************************************************************)
(* Access control in a configured engine: entity.config writes the tables  *)
(* (EngineConfig) while proto.acmod.rfc3415 decides from copies of them    *)
(* (Vacm), each rebuilt when a decision comes to it and the version of the *)
(* column it watches has changed.  A copy of an earlier version is never   *)
(* read, so it is left out: kept[x] is NoCopy.                             *)
(*                                                                         *)
(* Every function of entity.config destroys and creates rows, which        *)
(* changes the versions of all their columns.                              *)
(***************************************************************************)
EXTENDS EngineConfig

CONSTANTS
    Users,       \* [model, name]
    Levels, ContextNames, Subtrees, Masks, Oids,
    MaxRows      \* BOUND on the rows of the access and view tables

ASSUME AccessControlAssumption ==
    /\ \A u \in Users : u = [model |-> u.model, name |-> u.name] /\ u.model \in Nat
    /\ Levels \subseteq Nat
    /\ \A oid \in ContextNames \cup Subtrees \cup Masks \cup Oids : oid \in Seq(Nat)

VARIABLES
    t,       \* the tables
    kept,    \* the model's copies
    granted, \* history: the addVacmUser calls in force, as long as they are all there is
    raw      \* history: rows were also written one by one

vars == <<t, kept, granted, raw>>

Tables == {"context", "group", "access", "view"}
NoCopy == <<>>   \* a copy is <<the table's contents>>

Init ==
    /\ t = EmptyTables
    /\ kept = [x \in Tables |-> NoCopy]
    /\ granted = {} /\ raw = FALSE

\* MUTANT of Outdated: a write does not change the versions.
OutdatedNever(written) == kept' = kept

\* The versions of the rows' columns change.
Outdated(written) == kept' = [x \in Tables |-> IF x \in written THEN NoCopy ELSE kept[x]]

----------------------------------------------------------------------------
\* isAccessAllowed, which comes to the tables one by one and may not get to all.
Copy(k, x) == IF k[x] = NoCopy THEN [k EXCEPT ![x] = <<t[x]>>] ELSE k
Contents(k) == [x \in Tables |-> IF k[x] = NoCopy THEN t[x] ELSE k[x][1]]

Decision(u, level, viewType, ctx, oid) ==
    IsAccessAllowed(Contents(kept), u.model, u.name, level, viewType, ctx, oid)

\* How far it gets does not depend on the kind of access or on the name.
CheckAccess(u, level, ctx) ==
    LET now == Contents(kept)
        first == Copy(kept, "context")
        second == Copy(first, "group")
        third == Copy(second, "access")
        view == GetFamilyViewName(now, now.group[<<u.model, u.name>>], ctx, u.model, level, "read")
    IN /\ kept' = IF ctx \notin now.context THEN first
                  ELSE IF <<u.model, u.name>> \notin DOMAIN now.group THEN second
                  ELSE IF view \in {NoView("noGroupName"), NoView("notInView")} THEN third
                  ELSE Copy(third, "view")
       /\ UNCHANGED <<t, granted, raw>>

----------------------------------------------------------------------------
\* The application's configuration calls.

Call(u, level, subtrees, ctx) == [user |-> u, level |-> level, subtrees |-> subtrees, ctx |-> ctx]

Written(subtrees) ==
    {"context", "group", "access"} \cup (IF \A x \in DOMAIN subtrees : subtrees[x] = <<>> THEN {} ELSE {"view"})

Rows(tables) == Cardinality(DOMAIN tables.access) + Cardinality(DOMAIN tables.view)

GrantUser(u, level, subtrees, ctx) ==
    /\ t' = AddVacmUser(t, u.model, u.name, level, subtrees, ctx)
    /\ granted' = IF raw THEN {} ELSE granted \cup {Call(u, level, subtrees, ctx)}
    /\ Outdated(Written(subtrees)) /\ UNCHANGED raw

\* Undoing a call takes the group, the context and the views' subtrees it shares
\* with other calls away from them too.
RevokeUser(c) ==
    /\ c \in granted
    /\ t' = DelVacmUser(t, c.user.model, c.user.name, c.level, c.subtrees, c.ctx)
    /\ granted' = {d \in granted : d.user # c.user /\ d.ctx # c.ctx}
    /\ Outdated(Written(c.subtrees)) /\ UNCHANGED raw

\* Rows written one by one.
GrantAccess(u, ctx, model, level, match, view) ==
    /\ t' = AddVacmAccess(t, GroupOf(u.model, u.name), ctx, model, level, match, view, view, view)
    /\ Outdated({"access"})
    /\ raw' = TRUE /\ granted' = {}

WriteView(view, included, subtree, mask) ==
    /\ t' = AddVacmView(t, view, included, subtree, mask)
    /\ Outdated({"view"})
    /\ raw' = TRUE /\ granted' = {}

RemoveView(k) ==
    /\ t' = DelVacmView(t, k[1], k[2])
    /\ Outdated({"view"})
    /\ raw' = TRUE /\ granted' = {}

\* Read access, or read and write, for one subtree.
Given == UNION {{Access(s, <<>>, <<>>), Access(s, s, <<>>)} : s \in Subtrees}

\* Each level has a view, as in setInitialVacmParameters.
ViewAt(u, level) == ViewOf(IF level = 1 THEN "read" ELSE "write", u.model, u.name)
Views == {ViewOf("read", u.model, u.name) : u \in Users}

Next ==
    \/ /\ \/ \E u \in Users, level \in Levels, given \in Given, ctx \in ContextNames :
                GrantUser(u, level, given, ctx)
          \/ \E u \in Users : \E ctx \in ContextNames, model \in {AnyModel, u.model}, level \in Levels,
                match \in {Exact, Prefix} : GrantAccess(u, ctx, model, level, match, ViewAt(u, level))
          \/ \E view \in Views, included \in BOOLEAN, subtree \in Subtrees, mask \in Masks :
                WriteView(view, included, subtree, mask)
       /\ Rows(t') <= MaxRows
    \/ \E c \in granted : RevokeUser(c)
    \/ \E k \in DOMAIN t.view : RemoveView(k)
    \/ \E u \in Users, level \in Levels, ctx \in ContextNames : CheckAccess(u, level, ctx)

Spec == Init /\ [][Next]_vars

----------------------------------------------------------------------------
\* What RFC 3415 asks for, as its text puts it.

\* 3.2, step 4 and the table's description: the rows that apply, narrowed in turn.
Narrow(rows, preferred) == IF rows \cap preferred = {} THEN rows ELSE rows \cap preferred

SelectedRow(group, ctx, model, level) ==
    LET all == Candidates(t, group, ctx, model, level)
        sameModel == Narrow(all, {k \in all : k[3] = model})
        sameContext == Narrow(sameModel, {k \in all : k[2] = ctx})
        longest == {k \in sameContext : \A o \in sameContext : Len(o[2]) <= Len(k[2])}
    IN {k \in longest : \A o \in longest : o[4] <= k[4]}

\* A family covers a name that agrees with its subtree wherever the mask has no 0.
Covers(k, oid) ==
    /\ Len(k[2]) <= Len(oid)
    /\ \A i \in 1..Len(k[2]) :
          (i <= Len(t.view[k].mask) /\ t.view[k].mask[i] = 0) \/ oid[i] = k[2][i]

\* The families with the most sub-identifiers decide; where several do, either answer
\* is accepted here (the code prefers the greatest subtree with its wildcards at 0).
Verdicts(view, oid) ==
    LET covering == {k \in DOMAIN t.view : k[1] = view /\ Covers(k, oid)}
        deciding == {k \in covering : \A o \in covering : Len(o[2]) <= Len(k[2])}
    IN IF deciding = {} THEN {FALSE} ELSE {t.view[k].included : k \in deciding}

Populated(view) == \E k \in DOMAIN t.view : k[1] = view

----------------------------------------------------------------------------
TypeOK ==
    /\ t.context \subseteq ContextNames
    /\ \A x \in Tables : kept[x] \in {NoCopy, <<t[x]>>}

\* Whatever was configured and decided before, and in whatever order, a request is
\* decided by the tables as they are now: by the row the successive narrowing of RFC
\* 3415 leaves, of which there is one, and by the longest family of its view that
\* covers the name.  Views without a family are the subject of NotGivenIsDenied, and
\* a name shorter than a family's wildcards is no name of an object.
DecidesByTheTables ==
    \A u \in Users, level \in Levels, viewType \in {"read", "write"}, ctx \in ContextNames, oid \in Oids :
        LET rows == SelectedRow(t.group[<<u.model, u.name>>], ctx, u.model, level)
            view == t.access[CHOOSE k \in rows : TRUE][viewType]
            known == ctx \in t.context /\ <<u.model, u.name>> \in DOMAIN t.group
            decision == Decision(u, level, viewType, ctx, oid)
        IN IF ~known \/ rows = {} THEN decision # "allowed"
           ELSE /\ Cardinality(rows) = 1
                /\ Populated(view) /\ ~Overruns(t, view, oid) =>
                      \E v \in Verdicts(view, oid) : v <=> (decision = "allowed")

\* A user has the access it was given, at the level it was given it for and above,
\* whatever calls for other users and contexts came before and after.
GivenIsAllowed ==
    ~raw => \A c \in granted, viewType \in {"read", "write"}, oid \in Oids, level \in Levels :
        /\ c.subtrees[viewType] # <<>>
        /\ IsPrefix(c.subtrees[viewType], oid)
        /\ level >= c.level
        => Decision(c.user, level, viewType, c.ctx, oid) = "allowed"

\* "A subtree left empty means no view is created, which denies that kind of access
\* rather than granting all of it" (entity/config.py, addVacmUser).
NotGivenIsDenied ==
    ~raw => \A c \in granted, viewType \in {"read", "write"}, oid \in Oids :
        (\A d \in granted : d.user = c.user => d.subtrees[viewType] = <<>>)
        => Decision(c.user, c.level, viewType, c.ctx, oid) # "allowed"

\* Whatever was configured and decided before, a decision is that of the tables as
\* they are now, and grants what a user was given (isAccessAllowed, addVacmUser).
DecidesAsConfigured == TypeOK /\ DecidesByTheTables /\ GivenIsAllowed
=============================================================================
