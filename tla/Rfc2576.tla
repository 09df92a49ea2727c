------------------------------ MODULE Rfc2576 ------------------------------
(***************************************************************************)
(* The coexistence of versions.  The community security model,             *)
(* proto.secmod.rfc2576, as functions of the tables                        *)
(*   t.community  index -> [name, securityName, context, tag]              *)
(*   t.addr       name  -> [address, tags]  (tags a set)                   *)
(*   t.params     name  -> [securityName, model]                           *)
(* "context" stands for the context engine ID and name together.  Indices  *)
(* and names are numbers, in the order the tables are walked.  The maps    *)
(* the model keeps are rebuilt when a row was created or destroyed.        *)
(*                                                                         *)
(* proto.proxy.rfc2576: SNMPv1 PDUs translated into SNMPv2c ones and back. *)
(* A PDU is [type, error, index, binds], a v1 trap [type, enterprise,      *)
(* addr, generic, specific, time, binds]; a binding is [oid, type, val].   *)
(* Request identifiers are passed on as they are and are left out.  OIDs   *)
(* are sequences of numbers.                                               *)
(***************************************************************************)
EXTENDS PythonData, SequencesExt, FiniteSets, FiniteSetsExt

EmptyTag == ""
UnknownCommunityName == -1

----------------------------------------------------------------------------
\* MUTANT of ModelsByCom2Sec: the last row of a name decides.
ModelsOfLastRow(t) ==
    [name \in {t.params[p].securityName : p \in DOMAIN t.params} |->
        {t.params[Max({q \in DOMAIN t.params : t.params[q].securityName = name})].model}]

\* The map of security names to security models, which both directions build and
\* share.  _com2sec gathers the models of a name ...
ModelsByCom2Sec(t) ==
    [name \in {t.params[p].securityName : p \in DOMAIN t.params} |->
        {t.params[p].model : p \in {q \in DOMAIN t.params : t.params[q].securityName = name}}]

\* ... and _sec2com, which looks the model up where it means the name, keeps that
\* of the last row only.
ModelsBySec2Com(t) ==
    [name \in {t.params[p].securityName : p \in DOMAIN t.params} |->
        {t.params[Max({q \in DOMAIN t.params : t.params[q].securityName = name})].model}]

\* MUTANT of Sec2Com: the context is not looked at.
Sec2ComAnyContext(t, securityName, context) ==
    LET rows == {i \in DOMAIN t.community : t.community[i].securityName = securityName}
    IN IF rows = {} THEN UnknownCommunityName ELSE t.community[Max(rows)].name

\* _sec2com: the last row for the security name and context.
Sec2Com(t, securityName, context) ==
    LET rows == {i \in DOMAIN t.community : /\ t.community[i].securityName = securityName
                                            /\ t.community[i].context = context}
    IN IF rows = {} THEN UnknownCommunityName ELSE t.community[Max(rows)].name

----------------------------------------------------------------------------
\* _com2sec

\* The tags of an address of the target table.
TransportTags(t, address) ==
    UNION {IF t.addr[a].tags = {} THEN {EmptyTag} ELSE t.addr[a].tags :
              a \in {b \in DOMAIN t.addr : t.addr[b].address = address}}

\* MUTANT of UsableTags: the empty tag is good for every address.
UsableTagsAnyone(t, community, address) ==
    {t.community[i].tag : i \in {j \in DOMAIN t.community : t.community[j].name = community}}
    \cap (TransportTags(t, address) \cup {EmptyTag})

\* Which of a community's tags count for a message from the address: all those of
\* the address when the target table has it, or the empty one.
UsableTags(t, community, address) ==
    LET tags == {t.community[i].tag : i \in {j \in DOMAIN t.community : t.community[j].name = community}}
    IN IF \E a \in DOMAIN t.addr : t.addr[a].address = address
       THEN tags \cap TransportTags(t, address)
       ELSE tags \cap {EmptyTag}

UsableRows(t, community, address) ==
    {i \in DOMAIN t.community :
        t.community[i].name = community /\ t.community[i].tag \in UsableTags(t, community, address)}

\* Names of the targets table with this security model come first, then by name;
\* the model does not tell rows of the same name apart, which differ in context.
Com2Sec(t, models, modelID, community, address) ==
    LET rows == UsableRows(t, community, address)
        targeted(i) == LET n == t.community[i].securityName IN n \in DOMAIN models /\ modelID \in models[n]
        rank(i) == <<IF targeted(i) THEN 0 ELSE 1, t.community[i].securityName>>
        precedes(i, j) == \/ rank(i)[1] < rank(j)[1]
                          \/ rank(i)[1] = rank(j)[1] /\ rank(i)[2] < rank(j)[2]
    IN {[securityName |-> t.community[i].securityName, context |-> t.community[i].context] :
          i \in {j \in rows : \A k \in rows : ~precedes(k, j)}}

\* processIncomingMsg: some candidate, or a bad community name that is counted.
ProcessIncomingMsg(t, models, modelID, community, address, bad) ==
    LET found == Com2Sec(t, models, modelID, community, address) IN
    IF found = {} THEN [error |-> UnknownCommunityName, bad |-> bad + 1, found |-> {}]
    ELSE [error |-> "none", bad |-> bad, found |-> found]

----------------------------------------------------------------------------
\* A community speaks for the address: some row of it is without a tag and the
\* address is not a target's, or has a tag of the address.
SpeaksFor(t, i, address) ==
    LET known == {a \in DOMAIN t.addr : t.addr[a].address = address} IN
    IF known = {} THEN t.community[i].tag = EmptyTag
    ELSE \E a \in known : t.community[i].tag \in t.addr[a].tags
                          \/ (t.addr[a].tags = {} /\ t.community[i].tag = EmptyTag)

\* A message is taken for a security name only on the strength of a row that speaks
\* for its sender, and is refused, and counted, only if there is none.
OnlyForItsSender(t, models, modelID, community, address) ==
    LET r == ProcessIncomingMsg(t, models, modelID, community, address, 0)
        speaking == {i \in DOMAIN t.community :
                        t.community[i].name = community /\ SpeaksFor(t, i, address)}
    IN /\ r.bad = Cardinality({x \in {1} : speaking = {}})
       /\ \A f \in r.found : \E i \in speaking : /\ t.community[i].securityName = f.securityName
                                                 /\ t.community[i].context = f.context

\* "Picks first match but favors entries already in targets table": as long as the
\* map was built by this direction, a name that is a target's under this model is
\* not passed over for one that is not.
FavorsTargets(t, models, modelID, community, address) ==
    LET target(n) == \E p \in DOMAIN t.params : t.params[p].securityName = n /\ t.params[p].model = modelID
        rows == UsableRows(t, community, address)
    IN (\E i \in rows : target(t.community[i].securityName)) =>
          \A f \in Com2Sec(t, models, modelID, community, address) : target(f.securityName)

\* What goes out for a security name and context comes in, where the tables are the same
\* and the community has no other rows, for that name and context, or is refused for its
\* tags; and every name with a row has a community to go out with.
SentAndTakenAlike(t, models, modelID, securityName, context, address) ==
    LET c == Sec2Com(t, securityName, context)
        named(i) == t.community[i].securityName = securityName /\ t.community[i].context = context
        rows == {i \in DOMAIN t.community : t.community[i].name = c}
    IN /\ c = UnknownCommunityName <=> \A i \in DOMAIN t.community : ~named(i)
       /\ rows # {} /\ (\A i \in rows : named(i)) =>
             ProcessIncomingMsg(t, models, modelID, c, address, 0).found =
                 IF \E i \in rows : SpeaksFor(t, i, address) THEN {[securityName |-> securityName, context |-> context]} ELSE {}

----------------------------------------------------------------------------
(* Conversion.                                                             *)

sysUpTime == <<-1>>
snmpTrapOID == <<-2>>
snmpTrapAddress == <<-3>>
snmpTrapCommunity == <<-4>>
snmpTrapEnterprise == <<-5>>
snmpTraps == <<-6>>
StandardTraps == {Append(snmpTraps, n) : n \in 1 .. 6}
NoAddress == 0

KeyError == [type |-> "KeyError"]
ProtocolError == [type |-> "ProtocolError"]
Reissue(i) == [type |-> "StatusInformation", index |-> i]
Raised(r) == r.type \in {"KeyError", "ProtocolError", "StatusInformation"}

V1Types == {"Integer", "OctetString", "Null", "ObjectIdentifier", "IpAddress", "Counter", "Gauge", "TimeTicks", "Opaque"}
Exceptions == {"noSuchObject", "noSuchInstance", "endOfMibView"}

v1ToV2ValueMap ==
    [t \in V1Types |-> CASE t = "Integer" -> "Integer32" [] t = "Counter" -> "Counter32"
                         [] t = "Gauge" -> "Gauge32" [] OTHER -> t]
V2Types == {v1ToV2ValueMap[t] : t \in V1Types}
v2ToV1ValueMap == [t \in V2Types |-> CHOOSE u \in V1Types : v1ToV2ValueMap[u] = t]

v2ToV1PduMap(type) ==
    CASE type \in {"get", "next", "set", "response", "trap"} -> type
      [] type = "bulk" -> "next"
      [] OTHER -> "unsupported"

v2ToV1ErrorMap(status) ==
    CASE status \in {0, 1, 5} -> status
      [] status \in {7, 8, 9, 10, 12} -> 3
      [] status \in {6, 11, 16, 17, 18} -> 2
      [] OTHER -> 5

Bind(oid, type, val) == [oid |-> oid, type |-> type, val |-> val]
BindsV1ToV2(binds) == [i \in DOMAIN binds |-> [binds[i] EXCEPT !.type = v1ToV2ValueMap[@]]]
BindsV2ToV1(binds) == [i \in DOMAIN binds |-> [binds[i] EXCEPT !.type = v2ToV1ValueMap[@]]]
Translatable(binds) == \A i \in DOMAIN binds : binds[i].type \in V2Types

----------------------------------------------------------------------------
TrapOidOf(pdu) ==
    IF pdu.generic = 6 THEN pdu.enterprise \o <<0, pdu.specific>> ELSE Append(snmpTraps, pdu.generic + 1)

v1ToV2Trap(pdu, community) ==
    [type |-> "trap", error |-> 0, index |-> 0,
     binds |-> <<Bind(sysUpTime, "TimeTicks", pdu.time), Bind(snmpTrapOID, "ObjectIdentifier", TrapOidOf(pdu)),
                 Bind(snmpTrapAddress, "IpAddress", pdu.addr), Bind(snmpTrapCommunity, "OctetString", community),
                 Bind(snmpTrapEnterprise, "ObjectIdentifier", pdu.enterprise)>> \o BindsV1ToV2(pdu.binds)]

\* orig: the type of the v2 request a response answers.
v1ToV2(pdu, orig) ==
    LET binds == BindsV1ToV2(pdu.binds)
        absent == IF orig = "next" THEN "endOfMibView" ELSE "noSuchObject"
    IN [type |-> pdu.type, error |-> pdu.error, index |-> pdu.index,
        binds |-> IF pdu.type = "response" /\ pdu.error = 2
                  THEN [i \in DOMAIN binds |-> [binds[i] EXCEPT !.type = absent]] ELSE binds]

----------------------------------------------------------------------------
FirstOf(binds, oid, default) ==
    LET at == {i \in DOMAIN binds : binds[i].oid = oid} IN IF at = {} THEN default ELSE binds[Min(at)].val

\* MUTANT of EnterpriseOf: the zero before the specific trap is kept.
EnterpriseKeepsZero(binds, trapOid) ==
    IF trapOid \in StandardTraps THEN FirstOf(binds, snmpTrapEnterprise, snmpTraps)
    ELSE SubSeq(trapOid, 1, Len(trapOid) - 1)

EnterpriseOf(binds, trapOid) ==
    IF trapOid \in StandardTraps THEN FirstOf(binds, snmpTrapEnterprise, snmpTraps)
    ELSE IF trapOid[Len(trapOid) - 1] = 0 THEN SubSeq(trapOid, 1, Len(trapOid) - 2)
    ELSE SubSeq(trapOid, 1, Len(trapOid) - 1)

v2ToV1Trap(pdu) ==
    LET trapOid == pdu.binds[2].val
        standard == trapOid \in StandardTraps
        rest == SelectSeq(SubSeq(pdu.binds, 3, Len(pdu.binds)),
                    LAMBDA b : b.oid \notin StandardTraps \cup {sysUpTime, snmpTrapAddress, snmpTrapEnterprise})
    IN IF Len(pdu.binds) < 2 THEN ProtocolError
       ELSE IF pdu.binds[2].oid # snmpTrapOID THEN ProtocolError
       ELSE IF ~Translatable(rest) THEN KeyError
       ELSE [type |-> "trap", enterprise |-> EnterpriseOf(pdu.binds, trapOid),
             addr |-> FirstOf(pdu.binds, snmpTrapAddress, NoAddress),
             generic |-> IF standard THEN Last(trapOid) - 1 ELSE 6,
             specific |-> IF standard THEN 0 ELSE Last(trapOid),
             time |-> pdu.binds[1].val, binds |-> BindsV2ToV1(rest)]

Status(error, index) == [type |-> "status", error |-> error, index |-> index]

\* Values are looked at from the last to the first; a Counter64 ends that.
\* orig: the v1 request.
ResponseStatus(binds, orig) ==
    LET wide == {i \in DOMAIN binds : binds[i].type = "Counter64"}
        absent == {i \in DOMAIN binds : binds[i].type \in Exceptions}
    IN IF wide # {}
       THEN CASE orig.type = "get" -> Status(2, Max(wide))
              [] orig.type = "next" -> Reissue(Max(wide))
              [] OTHER -> ProtocolError
       ELSE IF absent # {} THEN Status(2, Min(absent)) ELSE Status(0, 0)

\* MUTANT of v2ToV1Response: the bindings of an error are those of the answer.
v2ToV1ResponseOwn(pdu, orig) ==
    LET found == ResponseStatus(pdu.binds, orig) IN
    IF Raised(found) THEN found
    ELSE [type |-> "response", error |-> found.error, index |-> found.index, binds |-> pdu.binds]

v2ToV1Response(pdu, orig) ==
    LET found == ResponseStatus(pdu.binds, orig)
        status == IF pdu.error # 0 THEN Status(v2ToV1ErrorMap(pdu.error), pdu.index) ELSE found
    IN IF Raised(found) THEN found
       ELSE IF status.error # 0
       THEN [type |-> "response", error |-> status.error, index |-> status.index, binds |-> orig.binds]
       ELSE IF ~Translatable(pdu.binds) THEN KeyError
       ELSE [type |-> "response", error |-> 0, index |-> 0, binds |-> BindsV2ToV1(pdu.binds)]

v2ToV1(pdu, orig) ==
    CASE v2ToV1PduMap(pdu.type) = "unsupported" -> ProtocolError
      [] v2ToV1PduMap(pdu.type) = "trap" -> v2ToV1Trap(pdu)
      [] v2ToV1PduMap(pdu.type) = "response" -> v2ToV1Response(pdu, orig)
      [] OTHER -> IF ~Translatable(pdu.binds) THEN KeyError
                  ELSE [type |-> v2ToV1PduMap(pdu.type), error |-> 0, index |-> 0, binds |-> BindsV2ToV1(pdu.binds)]

----------------------------------------------------------------------------
\* "The translation is lossy in the direction v1 cannot express": a v1 manager gets
\* a status it knows; without an error one v1 value for each binding, in order; with
\* one the bindings it sent, and a position among them where a value was at fault.
\* Only a Counter64 stops the translation, and a GETNEXT then knows at which binding.
\* Translated back, an answer without an error is the one there was, and one that says
\* noSuchName has no value left that could be taken for one.
ResponseExpressible(pdu, orig) ==
    LET r == v2ToV1(pdu, orig) IN
    IF Raised(r)
    THEN \E i \in DOMAIN pdu.binds : /\ pdu.binds[i].type = "Counter64"
                                     /\ r.type = "StatusInformation" => r.index = i
    ELSE /\ r.error \in 0 .. 5
         /\ r.error = 0 => /\ pdu.error = 0 /\ Len(r.binds) = Len(pdu.binds)
                           /\ \A i \in DOMAIN r.binds : /\ r.binds[i].type \in V1Types
                                                        /\ r.binds[i].oid = pdu.binds[i].oid
         /\ r.error # 0 => r.binds = orig.binds
         /\ r.error # 0 /\ pdu.error = 0 => r.index \in DOMAIN pdu.binds
                                            /\ pdu.binds[r.index].type \in Exceptions \cup {"Counter64"}
         /\ LET back == v1ToV2(r, orig.type) IN
            /\ r.error = 0 => back.binds = pdu.binds
            /\ r.error = 2 => \A i \in DOMAIN back.binds : back.binds[i].type \in Exceptions

\* A v1 trap that is translated and translated back says the same: who, what, when
\* and about what, with the community it came with before its bindings.  (The
\* specific number of a generic trap, which means nothing, is not kept.)
TrapRoundTrip(trap, community) ==
    LET r == v2ToV1(v1ToV2Trap(trap, community), trap) IN
    r = [trap EXCEPT !.specific = IF trap.generic = 6 THEN @ ELSE 0,
                     !.binds = <<Bind(snmpTrapCommunity, "OctetString", community)>> \o @]
=============================================================================
