------------------------------ MODULE MCManager ------------------------------
(* One engine used as a manager, over two transports. *)
EXTENDS Notification

Cred(kind, key, name, level, mp, secret) ==
    [kind |-> kind, key |-> key, securityName |-> name, level |-> level, mp |-> mp, secret |-> secret]
U1(name, secret) == Cred(User, "u1", name, 3, 3, secret)

\* Two communities that share their parameters, and a user whose keys and security
\* name change.
MCCredentials == {Cred(Community, "c1", "public", 1, 0, "public"), Cred(Community, "c2", "public", 1, 0, "other"),
                  U1("u1", "k1"), U1("u1", "k2"), U1("u1", Unusable), U1("alias", "k2")}

MCTargets == {[domain |-> d, address |-> "h1", tags |-> <<"all">>] : d \in {"udp", "tcp"}}
MCContexts == {<<>>}
MCVarBinds == <<[name |-> SnmpTrapOID, value |-> <<1, 3, 6, 5>>]>>
=============================================================================
