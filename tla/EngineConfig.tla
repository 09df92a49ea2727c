---------------------------- MODULE EngineConfig ----------------------------
(***************************************************************************)
(* The engine's configuration datastore and the functions of entity.config *)
(* that write it, as operators on a record of tables.  To the tables of    *)
(* Vacm it adds                                                            *)
(*   t.community  index                  -> [name, securityName, tag]      *)
(*   t.user       <<engine ID, security name>> -> [name, key, cloneFrom]   *)
(*   t.secret     security name          -> key                            *)
(*   t.params     name                   -> [securityName, model, level, mp] *)
(*   t.addr       name                   -> [domain, address, tags, params] *)
(*   t.notify     name                   -> [tag, type]                    *)
(*   t.profile    params name            -> profile name                   *)
(*   t.filter     <<profile, subtree>>   -> [subtree, mask, included]      *)
(*   t.transport  the domains with a transport                             *)
(*   t.auto       how many transports the dispatcher made by addTransport  *)
(*                has, or NotAutomatic                                     *)
(* A row is destroyed and created again, so that a call supersedes an      *)
(* earlier one.  A key stands for the protocols and secrets of a user:     *)
(* Unusable is one addV3User refuses.                                      *)
(***************************************************************************)
EXTENDS Vacm

LocalEngine == "local"     \* snmpEngineID
NotCloned == <<>>          \* zeroDotZero
NotAutomatic == -1         \* no user context "automaticTransportDispatcher"
NoKeys == <<>>             \* a user row whose keys were not written
Unusable == "unusable"     \* an authentication protocol that is not in authServices
NoBackend == "noBackend"   \* a privacy protocol no cipher is installed for

\* Writing a row, and destroying one, which need not be there.
SetRow(t, table, key, row) == [t EXCEPT ![table] = Put(@, key, row)]
DropRow(t, table, key) == [t EXCEPT ![table] = Without(@, {key})]
DropRows(t, table, keys) == [t EXCEPT ![table] = Without(@, keys)]

EmptyTables ==
    [context |-> {}, group |-> EmptyMap, access |-> EmptyMap, view |-> EmptyMap,
     community |-> EmptyMap, user |-> EmptyMap, secret |-> EmptyMap, params |-> EmptyMap,
     addr |-> EmptyMap, notify |-> EmptyMap, profile |-> EmptyMap, filter |-> EmptyMap,
     transport |-> {}, auto |-> NotAutomatic]

----------------------------------------------------------------------------
\* Communities and users

AddV1System(t, index, name, tag, securityName) ==
    SetRow(t, "community", index, [name |-> name, securityName |-> securityName, tag |-> tag])

DelV1System(t, index) == DropRow(t, "community", index)

\* addV3User.  The privacy protocol is checked first; the authentication
\* protocol when the row is already there.
AddV3UserRaises(key) == key \in {Unusable, NoBackend}

\* The row is indexed by the security name, and its user name is set from the index
\* again as the row is created (MibTableRow), whatever addV3User writes there.
AddV3User(t, securityName, engine, key) ==
    LET Row(keys) == [name |-> securityName, key |-> keys, cloneFrom |-> NotCloned]
        index == <<engine, securityName>>
    IN IF key = NoBackend THEN t
       ELSE IF key = Unusable THEN SetRow(t, "user", index, Row(NoKeys))
       ELSE SetRow(SetRow(t, "user", index, Row(<<key, engine>>)), "secret", securityName, key)

\* MUTANT of DelV3User: the rows cloned from it stay.
DelV3UserAlone(t, name, engine) == DropRow(DropRow(t, "user", <<engine, name>>), "secret", name)

\* delV3User for each of the user names: the row whose security name that is, and
\* with it those cloned from it for other engines.  A clone has no clones of its own.
DelV3Users(t, names, engine) ==
    LET rows == {<<engine, name>> : name \in names}
        derived == {k \in DOMAIN t.user \ rows : t.user[k].cloneFrom \in rows}
    IN [t EXCEPT !.user = Without(@, derived \cup rows),
                 !.secret = Without(@, names \cup {t.user[k].name : k \in derived})]

DelV3User(t, name, engine) == DelV3Users(t, {name}, engine)

----------------------------------------------------------------------------
\* Targets

SecurityModelOf(mp) == IF mp = 0 THEN 1 ELSE IF mp \in {1, 2} THEN 2 ELSE 3

AddTargetParams(t, name, securityName, level, mp) ==
    SetRow(t, "params", name, [securityName |-> securityName, model |-> SecurityModelOf(mp),
                               level |-> level, mp |-> mp])

DelTargetParams(t, name) == DropRow(t, "params", name)

AddTargetAddr(t, name, domain, address, params, tags) ==
    SetRow(t, "addr", name, [domain |-> domain, address |-> address, tags |-> tags, params |-> params])

DelTargetAddr(t, name) == DropRow(t, "addr", name)

\* addTransport; the dispatcher it makes where there is none is counted.
AddTransport(t, domain, hasDispatcher) ==
    LET auto == IF hasDispatcher THEN t.auto ELSE 0 IN
    [t EXCEPT !.transport = @ \cup {domain},
              !.auto = IF auto = NotAutomatic THEN @ ELSE auto + 1]

\* delTransport for each of the domains; with the last transport goes a dispatcher
\* that was made for them.
DelTransports(t, domains) ==
    LET last == t.auto # NotAutomatic /\ t.auto = Cardinality(domains)
    IN [t EXCEPT !.transport = IF last THEN {} ELSE @ \ domains,
                 !.auto = IF @ = NotAutomatic \/ last THEN NotAutomatic ELSE @ - Cardinality(domains)]

----------------------------------------------------------------------------
\* Access control

AddContext(t, ctx) == [t EXCEPT !.context = @ \cup {ctx}]
DelContext(t, ctx) == [t EXCEPT !.context = @ \ {ctx}]

AddVacmGroup(t, group, model, name) == SetRow(t, "group", <<model, name>>, group)
DelVacmGroup(t, model, name) == DropRow(t, "group", <<model, name>>)

AddVacmAccess(t, group, ctx, model, level, match, read, write, notify) ==
    SetRow(t, "access", <<group, ctx, model, level>>,
           [match |-> match, read |-> read, write |-> write, notify |-> notify])
DelVacmAccess(t, group, ctx, model, level) == DropRow(t, "access", <<group, ctx, model, level>>)

\* MUTANT of AddVacmView: an excluded family is not told apart by its subtree.
AddVacmViewNamed(t, view, included, subtree, mask) ==
    SetRow(t, "view", <<view, SubSeq(subtree, 1, 5)>>, [mask |-> mask, included |-> included])

\* A mask given as an object identifier is filled up with ones; as octets it is
\* taken as it is, and a short one leaves the rest to be compared.
AddVacmView(t, view, included, subtree, mask) ==
    SetRow(t, "view", <<view, subtree>>, [mask |-> mask, included |-> included])
DelVacmView(t, view, subtree) == DropRow(t, "view", <<view, subtree>>)

\* The group and the views of a user are named after it.
GroupOf(model, name) == <<"group", model, name>>
ViewOf(type, model, name) == <<type, model, name>>

\* addVacmUser, for one subtree per kind of access; <<>> is no subtree.
AddVacmUser(t, model, name, level, subtrees, ctx) ==
    LET group == GroupOf(model, name)
        V(type) == ViewOf(type, model, name)
        Added(u, type) == IF subtrees[type] = <<>> THEN u
                          ELSE AddVacmView(u, V(type), TRUE, subtrees[type], <<>>)
        rows == AddVacmAccess(AddVacmGroup(AddContext(t, ctx), group, model, name),
                              group, ctx, model, level, Exact, V("read"), V("write"), V("notify"))
    IN Added(Added(Added(rows, "read"), "write"), "notify")

\* MUTANT of DelVacmUser: the views stay.
DelVacmUserKeepsViews(t, model, name, level, subtrees, ctx) ==
    DelVacmAccess(DelVacmGroup(DelContext(t, ctx), model, name), GroupOf(model, name), ctx, model, level)

DelVacmUser(t, model, name, level, subtrees, ctx) ==
    LET V(type) == ViewOf(type, model, name)
        Dropped(u, type) == IF subtrees[type] = <<>> THEN u
                            ELSE DelVacmView(u, V(type), subtrees[type])
        rows == DelVacmAccess(DelVacmGroup(DelContext(t, ctx), model, name),
                              GroupOf(model, name), ctx, model, level)
    IN Dropped(Dropped(Dropped(rows, "read"), "write"), "notify")

Access(read, write, notify) == [read |-> read, write |-> write, notify |-> notify]

\* The obsolete shortcuts.
AddRoUser(t, model, name, level, subtree, ctx) ==
    AddVacmUser(t, model, name, level, Access(subtree, <<>>, <<>>), ctx)
DelRoUser(t, model, name, level, subtree, ctx) ==
    DelVacmUser(t, model, name, level, Access(subtree, <<>>, <<>>), ctx)
AddRwUser(t, model, name, level, subtree, ctx) ==
    AddVacmUser(t, model, name, level, Access(subtree, subtree, <<>>), ctx)
DelRwUser(t, model, name, level, subtree, ctx) ==
    DelVacmUser(t, model, name, level, Access(subtree, subtree, <<>>), ctx)
AddTrapUser(t, model, name, level, subtree, ctx) ==
    AddVacmUser(t, model, name, level, Access(<<>>, <<>>, subtree), ctx)
DelTrapUser(t, model, name, level, subtree, ctx) ==
    DelVacmUser(t, model, name, level, Access(<<>>, <<>>, subtree), ctx)

\* delTrapUser for each of the users <<model, name, level>>.
DelTrapUsers(t, users, subtree, ctx) ==
    [t EXCEPT !.context = IF users = {} THEN @ ELSE @ \ {ctx},
              !.group = Without(@, {<<u[1], u[2]>> : u \in users}),
              !.access = Without(@, {<<GroupOf(u[1], u[2]), ctx, u[1], u[3]>> : u \in users}),
              !.view = Without(@, {<<ViewOf("notify", u[1], u[2]), subtree>> : u \in users})]

----------------------------------------------------------------------------
\* Notifications

\* addNotificationTarget; the profile is written even when there is no filter.
NoFilter == <<>>
AddNotificationTarget(t, name, params, tag, type, filter) ==
    LET rows == SetRow(SetRow(t, "notify", name, [tag |-> tag, type |-> type]),
                       "profile", params, name)
    IN IF filter = NoFilter THEN rows
       ELSE SetRow(rows, "filter", <<name, filter.subtree>>, filter)

\* The same without a filter, for each of the targets <<name, params>>.
DelNotificationTargets(t, targets) ==
    DropRows(DropRows(t, "notify", {x[1] : x \in targets}), "profile", {x[2] : x \in targets})

DelNotificationTarget(t, name, params, filter) ==
    LET rows == DropRow(DropRow(t, "notify", name), "profile", params)
    IN IF filter = NoFilter THEN rows ELSE DropRow(rows, "filter", <<name, filter.subtree>>)

\* setInitialVacmParameters: RFC 3415's semi-secure configuration.
SetInitialVacmParameters(t) ==
    LET Internet == <<1, 3, 6, 1>>
        Snmp(s) == <<1, 3, 6, 1, 6, 3>> \o s
        Mib2(s) == <<1, 3, 6, 1, 2, 1>> \o s
        V(u, view, included, subtree) == AddVacmView(u, view, included, subtree, <<>>)
        A(u, level, view, write) ==
            AddVacmAccess(u, <<"initial">>, <<>>, 3, level, Exact, view, write, view)
        access == A(A(A(AddVacmGroup(AddContext(t, <<>>), <<"initial">>, 3, "initial"),
                        1, <<"restricted">>, <<"">>), 2, <<"internet">>, <<"internet">>), 3, <<"internet">>, <<"internet">>)
        internet == V(V(V(access, <<"internet">>, TRUE, Internet),
                        <<"internet">>, FALSE, Snmp(<<15>>)), <<"internet">>, FALSE, Snmp(<<18>>))
    IN V(V(V(V(V(internet, <<"restricted">>, TRUE, Mib2(<<1>>)), <<"restricted">>, TRUE, Mib2(<<11>>)),
           <<"restricted">>, TRUE, Snmp(<<10, 2, 1>>)), <<"restricted">>, TRUE, Snmp(<<11, 2, 1>>)),
         <<"restricted">>, TRUE, Snmp(<<15, 1, 1>>))

\* The readers of entity.rfc3413.config.
TargetNames(t, tag) == {a \in DOMAIN t.addr : Contains(t.addr[a].tags, tag)}
FilterOf(t, params) ==
    IF params \notin DOMAIN t.profile THEN {}
    ELSE {t.filter[k] : k \in {x \in DOMAIN t.filter : x[1] = t.profile[params]}}

----------------------------------------------------------------------------
\* "An initial user that can read the system group unauthenticated, and read or write more
\* of the tree once it authenticates" (setInitialVacmParameters), whatever users and views
\* there are already: but not the users' and the communities' own tables, and no other
\* user's access changes.  That it cannot write unauthenticated is NotGivenIsDenied's.
InitialIsSemiSecure(t, users, oids) ==
    LET after == SetInitialVacmParameters(t)
        may(u, level, type, oid) == IsAccessAllowed(after, u[1], u[2], level, type, <<>>, oid) = "allowed"
        initial == <<3, "initial">>
        mib2 == <<1, 3, 6, 1, 2, 1>>
        snmpModules == <<1, 3, 6, 1, 6, 3>>
        secret(oid) == IsPrefix(snmpModules \o <<15>>, oid) \/ IsPrefix(snmpModules \o <<18>>, oid)
        open(oid) == \E s \in {mib2 \o <<1>>, mib2 \o <<11>>, snmpModules \o <<10, 2, 1>>, snmpModules \o <<11, 2, 1>>,
                               snmpModules \o <<15, 1, 1>>} : IsPrefix(s, oid)
    IN \A oid \in oids :
          /\ may(initial, 1, "read", oid) <=> open(oid)
          /\ \A level \in 2 .. 3, type \in {"read", "write"} :
                may(initial, level, type, oid) <=> IsPrefix(<<1, 3, 6, 1>>, oid) /\ ~secret(oid)
          /\ \A u \in users, level \in 1 .. 3, type \in {"read", "write", "notify"} :
                <<>> \in t.context => (may(u, level, type, oid) <=> IsAccessAllowed(t, u[1], u[2], level, type, <<>>, oid) = "allowed")

\* Deleting a user of a shortcut leaves what there was before it, for a user and a context
\* that nothing else was configured for.
ShortcutsUndone(t, model, name, level, subtree, ctx) ==
    <<model, name>> \notin DOMAIN t.group /\ ctx \notin t.context =>
        /\ DelRoUser(AddRoUser(t, model, name, level, subtree, ctx), model, name, level, subtree, ctx) = t
        /\ DelRwUser(AddRwUser(t, model, name, level, subtree, ctx), model, name, level, subtree, ctx) = t
        /\ DelTrapUser(AddTrapUser(t, model, name, level, subtree, ctx), model, name, level, subtree, ctx) = t
=============================================================================
