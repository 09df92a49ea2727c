-------------------------------- MODULE Lcd --------------------------------
(***************************************************************************)
(* hlapi.lcd: the configurators that turn the credentials and the target   *)
(* of each high-level call into rows of the engine's datastore, and count  *)
(* who uses them.  The command generator's and the notification            *)
(* originator's work on the same engine, the second through the first.     *)
(*                                                                         *)
(* Credentials are [kind, key, securityName, level, mp, secret]: "key" is  *)
(* what the cache knows them by, the community index, or the user name     *)
(* (with the local engine's ID); "secret" the community, or the user's     *)
(* keys and protocols.  A user's row is written under its security name    *)
(* and deleted under its user name, which need not be the same.  A target  *)
(* is [domain, address, tags], its tags in order.                          *)
(***************************************************************************)
EXTENDS EngineConfig

CONSTANTS
    Credentials, Targets, Contexts,
    OwnDispatcher,  \* the application registered a dispatcher before the first call
    OwnTransports,  \* ... and transports for these domains
    FailingTransports,  \* opening a transport may fail
    Engines,        \* the remote engines a user may be cloned for
    MaxNames,       \* BOUND on the rows named
    MaxUses         \* BOUND on the uses of parameters in all, and of each transport

\* No community has a user's name as its index, and no user the name or the security
\* name of another as its security name, though it may have several.  There are no
\* transports without a dispatcher.
ASSUME LcdAssumption ==
    /\ Targets \subseteq [domain : STRING, address : STRING, tags : Seq(STRING)]
    /\ \A a \in Credentials : a.kind \in {"community", "user"}
    /\ \A a, b \in Credentials :
          /\ a.key = b.key => a.kind = b.kind
          /\ a.kind = "user" /\ b.kind = "user" /\ a.securityName \in {b.securityName, b.key} => a.key = b.key
    /\ OwnTransports # {} => OwnDispatcher
    /\ MaxNames \in Nat

VARIABLES
    t,       \* the tables
    cg,      \* CommandGeneratorLcdConfigurator's cache: auth, parm, tran, addr
    no,      \* NotificationOriginatorLcdConfigurator's: auth, name
    named,   \* how many names nextID gave out
    spoiled  \* history: users whose rows a refused call took the cached keys from, until
             \* they get others

lcdVars == <<t, cg, no, named, spoiled>>

Community == "community"
User == "user"

LcdInit ==
    /\ t = [EmptyTables EXCEPT !.transport = OwnTransports]
    /\ cg = [auth |-> EmptyMap, parm |-> EmptyMap, tran |-> EmptyMap, addr |-> EmptyMap]
    /\ no = [auth |-> EmptyMap, name |-> EmptyMap]
    /\ named = 0
    /\ spoiled = {}

ParamsKey(a) == <<a.securityName, a.level, a.mp>>
AddrKey(paramsName, target) == <<paramsName, target>>

HasDispatcher == OwnDispatcher \/ t.auto # NotAutomatic

\* MUTANT of Used: a further use is not counted.
UsedOnce(cache, key, name) == Put(cache, key, IF key \in DOMAIN cache THEN cache[key] ELSE <<name, 1>>)

\* One more user of an entry <<name, count>>, or its first.
Used(cache, key, name) ==
    Put(cache, key, IF key \in DOMAIN cache THEN <<cache[key][1], cache[key][2] + 1>> ELSE <<name, 1>>)

----------------------------------------------------------------------------
\* The credentials of a call: [t, auth, ok].  A user whose keys or security name
\* changed is deleted, by its user name, before the new ones are looked at.
ConfigureAuth(a) ==
    LET known == a.key \in DOMAIN cg.auth
        same == known /\ cg.auth[a.key].secret = a.secret /\ cg.auth[a.key].securityName = a.securityName
        cleared == IF known /\ a.kind = User THEN DelV3User(t, a.key, LocalEngine) ELSE t
        kept(tables) == [t |-> tables, auth |-> Put(cg.auth, a.key, a), ok |-> TRUE]
    IN IF a.kind = Community
       THEN IF known THEN [t |-> t, auth |-> cg.auth, ok |-> TRUE]
            ELSE kept(AddV1System(t, a.key, a.secret, "", a.securityName))
       ELSE IF same THEN [t |-> t, auth |-> cg.auth, ok |-> TRUE]
       ELSE IF AddV3UserRaises(a.secret)
            THEN [t |-> AddV3User(cleared, a.securityName, LocalEngine, a.secret),
                  auth |-> cg.auth, ok |-> FALSE]
       ELSE kept(AddV3User(cleared, a.securityName, LocalEngine, a.secret))

\* CommandGeneratorLcdConfigurator.configure once the credentials are there:
\* the tables and cache it leaves, and the names it returns.
ConfigureRows(tables, auth, a, target) ==
    LET pk == ParamsKey(a)
        newParams == pk \notin DOMAIN cg.parm
        paramsName == IF newParams THEN named + 1 ELSE cg.parm[pk][1]
        drawn == named + Bit(newParams)
        t1 == IF newParams THEN AddTargetParams(tables, paramsName, a.securityName, a.level, a.mp)
              ELSE tables
        counted == target.domain \in DOMAIN cg.tran
        opens == ~counted /\ target.domain \notin t1.transport
        t2 == IF opens THEN AddTransport(t1, target.domain, HasDispatcher) ELSE t1
        ak == AddrKey(paramsName, target)
        newAddr == ak \notin DOMAIN cg.addr
        addrName == IF newAddr THEN drawn + 1 ELSE cg.addr[ak][1]
        t3 == IF newAddr
              THEN AddTargetAddr(t2, addrName, target.domain, target.address, paramsName, target.tags)
              ELSE t2
    IN [t |-> t3, addrName |-> addrName, paramsName |-> paramsName,
        named |-> drawn + Bit(newAddr),
        cg |-> [auth |-> auth,
                parm |-> Used(cg.parm, pk, paramsName),
                tran |-> IF counted \/ opens THEN Used(cg.tran, target.domain, target.domain)
                         ELSE cg.tran,
                addr |-> Used(cg.addr, ak, addrName)]]

\* A call whose credentials were refused: nothing but the user's rows changed.
\* The cache may still hold what the rows no longer do; giving that again is
\* accepted and writes nothing.
RefusedCredentials(a, auth) ==
    /\ t' = auth.t
    /\ spoiled' = spoiled \cup {a.key}
    /\ UNCHANGED <<cg, no, named>>

\* Credentials that were written, to rows none of which is a clone without keys.
Mended(a, auth) ==
    IF /\ auth.auth # cg.auth
       /\ \A row \in DOMAIN auth.t.user : auth.t.user[row].cloneFrom # <<LocalEngine, a.key>>
    THEN spoiled \ {a.key} ELSE spoiled

\* MUTANT of TransportRefused: parameters are counted when the transport is there.
TransportRefusedUncounted(auth, a) ==
    LET pk == ParamsKey(a) IN
    /\ t' = IF pk \in DOMAIN cg.parm THEN auth.t
            ELSE AddTargetParams(auth.t, named + 1, a.securityName, a.level, a.mp)
    /\ cg' = [cg EXCEPT !.auth = auth.auth]
    /\ named' = named + Bit(pk \notin DOMAIN cg.parm)
    /\ UNCHANGED no

\* The transport cannot be had (another dispatcher's, a socket that does not
\* open): the parameters are written and counted by then.
TransportRefused(auth, a) ==
    LET pk == ParamsKey(a)
        name == IF pk \in DOMAIN cg.parm THEN cg.parm[pk][1] ELSE named + 1
    IN /\ t' = IF pk \in DOMAIN cg.parm THEN auth.t
               ELSE AddTargetParams(auth.t, name, a.securityName, a.level, a.mp)
       /\ cg' = [cg EXCEPT !.auth = auth.auth, !.parm = Used(@, pk, name)]
       /\ named' = named + Bit(pk \notin DOMAIN cg.parm)
       /\ UNCHANGED no

Uses(cache) == UNION {{k} \X (1..cache[k][2]) : k \in DOMAIN cache}
Unspent(domain) ==
    /\ Cardinality(Uses(cg.parm)) < MaxUses
    /\ domain \in DOMAIN cg.tran => cg.tran[domain][2] < MaxUses

\* CommandGeneratorLcdConfigurator.configure, as every request begins.
Configure(a, target) ==
    /\ named + 2 <= MaxNames /\ Unspent(target.domain)
    /\ LET auth == ConfigureAuth(a) IN
       \/ ~auth.ok /\ RefusedCredentials(a, auth)
       \/ /\ auth.ok
          /\ LET rows == ConfigureRows(auth.t, auth.auth, a, target) IN
             \/ t' = rows.t /\ cg' = rows.cg /\ named' = rows.named /\ UNCHANGED no
             \/ /\ FailingTransports
                /\ target.domain \notin DOMAIN cg.tran
                /\ TransportRefused(auth, a)
          /\ spoiled' = Mended(a, auth)

\* A user's keys are localized for an engine it speaks to for the first time
\* (proto.secmod.rfc3414.service, __cloneUserInfo).
CloneUser(securityName, engine) ==
    LET proto == <<LocalEngine, securityName>>
        row == <<engine, securityName>>
    IN /\ proto \in DOMAIN t.user /\ row \notin DOMAIN t.user
       /\ t' = SetRow(t, "user", row,
                      [name |-> t.user[proto].name, cloneFrom |-> proto,
                       key |-> IF t.user[proto].key = NoKeys THEN NoKeys
                               ELSE <<t.user[proto].key[1], engine>>])
       /\ UNCHANGED <<cg, no, named, spoiled>>

----------------------------------------------------------------------------
\* CommandGeneratorLcdConfigurator.unconfigure

\* MUTANT of Spent: an entry goes with the first use taken back.
SpentFirst(cache, less) == {k \in DOMAIN cache : less[k] > 0}

\* less[k] uses less of the entry k of a cache: those it was the last of go.
Spent(cache, less) == {k \in DOMAIN cache : cache[k][2] <= less[k]}
Released(cache, less) ==
    [k \in DOMAIN cache \ Spent(cache, less) |-> <<cache[k][1], cache[k][2] - less[k]>>]

\* What the loop over the credentials leaves, and the parameters that went.  Their
\* order is not seen: each takes back one use of its parameters and of the addresses
\* these have, and each address that goes one of its transport.
UnconfigureKeys(keys) ==
    LET uses(paramsName) == Cardinality({key \in keys : cg.parm[ParamsKey(cg.auth[key])][1] = paramsName})
        parm == [pk \in DOMAIN cg.parm |-> uses(cg.parm[pk][1])]
        addr == [k \in DOMAIN cg.addr |-> uses(k[1])]
        gone == Spent(cg.addr, addr)
        tran == [d \in DOMAIN cg.tran |-> Cardinality({k \in gone : k[2].domain = d})]
        paramsNames == {cg.parm[pk][1] : pk \in Spent(cg.parm, parm)}
        Of(kind) == {key \in keys : cg.auth[key].kind = kind}
        t1 == DropRows(t, "community", Of(Community))
        t2 == DelV3Users(t1, Of(User), LocalEngine)
        t3 == DropRows(DropRows(t2, "params", paramsNames), "addr", {cg.addr[k][1] : k \in gone})
    IN [t |-> DelTransports(t3, Spent(cg.tran, tran)),
        paramsNames |-> paramsNames,
        cg |-> [auth |-> Without(cg.auth, keys), parm |-> Released(cg.parm, parm),
                addr |-> Released(cg.addr, addr), tran |-> Released(cg.tran, tran)]]

\* With credentials or without: then all that are there.
Unconfigure(keys) ==
    /\ keys # {} /\ keys \subseteq DOMAIN cg.auth
    /\ LET s == UnconfigureKeys(keys) IN t' = s.t /\ cg' = s.cg
    /\ spoiled' = spoiled \ keys
    /\ UNCHANGED <<no, named>>

----------------------------------------------------------------------------
\* NotificationOriginatorLcdConfigurator

TrapSubtree == <<1, 3, 6>>
NotifyKey(a, ctx) == <<a.securityName, SecurityModelOf(a.mp), a.level, ctx>>

\* Without tags of its own a target gets one derived from the call.
Tagged(a, target) ==
    IF target.tags # <<>> THEN target ELSE [target EXCEPT !.tags = <<<<a.securityName, target.address>>>>]

\* The notification's row for one tag of the target; s is [t, named, names, name].
NotifyRow(s, paramsName, tag, type) ==
    LET nk == <<paramsName, tag, type>>
        fresh == nk \notin DOMAIN s.names
        name == IF fresh THEN s.named + 1 ELSE s.names[nk][1]
    IN [t |-> IF fresh THEN AddNotificationTarget(s.t, name, paramsName, tag, type, NoFilter) ELSE s.t,
        named |-> s.named + Bit(fresh), names |-> Used(s.names, nk, name), name |-> name]

\* The rows of a notification, given those of its target: [t, no, named, name],
\* where name is the one of the last tag.
ConfigureNotify(rows, a, target, type, ctx) ==
    LET after[i \in 0 .. Len(target.tags)] ==
            IF i = 0 THEN [t |-> rows.t, named |-> rows.named, names |-> no.name, name |-> 0]
            ELSE NotifyRow(after[i - 1], rows.paramsName, target.tags[i], type)
        s == after[Len(target.tags)]
        uk == NotifyKey(a, ctx)
    IN [t |-> IF uk \in DOMAIN no.auth THEN s.t
              ELSE AddTrapUser(s.t, uk[2], uk[1], uk[3], TrapSubtree, ctx),
        cg |-> rows.cg, named |-> s.named, name |-> s.name,
        no |-> [name |-> s.names, auth |-> Used(no.auth, uk, a)]]

\* unconfigure: the target's rows, the names whose parameters went with them,
\* and the user's access, which is taken back for the default context.
UnconfigureNotify(uk, keys) ==
    LET s == UnconfigureKeys(keys)
        name == [k \in DOMAIN no.name |-> Bit(k[1] \in s.paramsNames)]
        auth == [k \in DOMAIN no.auth |-> Bit(k \in uk)]
        t1 == DelNotificationTargets(s.t, {<<no.name[k][1], k[1]>> : k \in Spent(no.name, name)})
    IN /\ uk # {} /\ uk \subseteq DOMAIN no.auth
       /\ keys \subseteq DOMAIN cg.auth
       /\ t' = DelTrapUsers(t1, {<<k[2], k[1], k[3]>> : k \in Spent(no.auth, auth)}, TrapSubtree, <<>>)
       /\ cg' = s.cg
       /\ no' = [name |-> Released(no.name, name), auth |-> Released(no.auth, auth)]
       /\ spoiled' = spoiled \ keys
       /\ UNCHANGED named

\* The application's calls, but for those that send.
LcdNext ==
    \/ \E a \in Credentials, target \in Targets : Configure(a, target)
    \/ \E a \in Credentials, e \in Engines : a.kind = User /\ CloneUser(a.securityName, e)
    \/ \E keys \in {{a.key} : a \in Credentials} \cup {DOMAIN cg.auth} : Unconfigure(keys)
    \/ \E use \in {<<{NotifyKey(a, ctx)}, {a.key}>> : a \in Credentials, ctx \in Contexts}
                  \cup {<<DOMAIN no.auth, DOMAIN cg.auth>>} : UnconfigureNotify(use[1], use[2])

----------------------------------------------------------------------------
\* Every address the caches count can be used: its row is there, the parameters it
\* names are, and so is a transport for its domain.  Uses are taken back per
\* credentials, not per call, so this rests on the counts covering one another.
AddressesResolve ==
    \A k \in DOMAIN cg.addr :
        /\ cg.addr[k][1] \in DOMAIN t.addr
        /\ t.addr[cg.addr[k][1]].params \in DOMAIN t.params
        /\ t.addr[cg.addr[k][1]].domain \in t.transport

\* The tables hold the rows the caches count and no others: none is left behind by a
\* call that failed or by one that took back the last use.
RowsAreCounted ==
    /\ DOMAIN t.params = {cg.parm[k][1] : k \in DOMAIN cg.parm}
    /\ DOMAIN t.addr = {cg.addr[k][1] : k \in DOMAIN cg.addr}
    /\ DOMAIN t.notify = {no.name[k][1] : k \in DOMAIN no.name}

\* The parameters of every credentials the cache knows are counted at least once for
\* each, so that unconfigure never meets an unknown target.
ParametersCovered ==
    \A key \in DOMAIN cg.auth :
        LET pk == ParamsKey(cg.auth[key]) IN
        /\ pk \in DOMAIN cg.parm
        /\ cg.parm[pk][2] >= Cardinality({k \in DOMAIN cg.auth : ParamsKey(cg.auth[k]) = pk})

\* The rows a user's keys are in: its own, and those cloned for other engines.  Under
\* a security name that is not its user name the clones are left out: delV3User, which
\* looks for the user name, leaves them their keys when the user's change.
RowsOf(user, a) ==
    {row \in DOMAIN user : row[2] = a.securityName /\ (row[1] = LocalEngine \/ a.securityName = a.key)}

\* The rows of a user that is in use never hold keys given before the cached ones; and
\* they hold these, unless a call since was refused that had changed the user's rows by
\* then.  That goes on when the cached keys are given again, which configure takes for
\* configured, and ends when others are, or the user is taken back.
CachedInEffect ==
    \A key \in DOMAIN cg.auth :
        LET a == cg.auth[key] IN
        a.kind = User =>
            /\ \A row \in RowsOf(t.user, a) : t.user[row].key \in {<<a.secret, row[1]>>, NoKeys}
            /\ key \notin spoiled => /\ <<LocalEngine, a.securityName>> \in DOMAIN t.user
                                    /\ \A row \in RowsOf(t.user, a) : t.user[row].key # NoKeys

\* A user that was taken back, or goes by another security name by now, has no keys in
\* the rows of its user name.
NoneTakenBack ==
    \A a \in Credentials :
        /\ a.kind = User
        /\ a.key \in DOMAIN cg.auth => cg.auth[a.key].securityName # a.key
        => \A row \in DOMAIN t.user : row[2] = a.key => t.user[row].key = NoKeys

\* Keys in effect are those configured last (configure, unconfigure, addV3User, delV3User).
CredentialsInEffect == CachedInEffect /\ NoneTakenBack

\* Whatever calls came, failed or were taken back, the tables hold the rows in use and
\* no others, and a use has all the rows it needs (configure, unconfigure).
UsesAreCounted == AddressesResolve /\ RowsAreCounted /\ ParametersCovered
=============================================================================
