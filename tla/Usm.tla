-------------------------------- MODULE Usm --------------------------------
(***************************************************************************)
(* proto.secmod.rfc3414.service: how a message is secured for a user, and  *)
(* the checks an incoming one goes through, in their order.                *)
(*                                                                         *)
(* An engine is [id, boots, time, users, timeline, discoverable]; a user   *)
(* is [engine, name, auth, priv, secret], with protocols "none", "known"   *)
(* or "gone" (not supported by this build).  A message is                  *)
(* [engine, boots, time, user, level, digest, data]: the digest is the key *)
(* it was made with, the data is "plain", "malformed" or the key it was    *)
(* encrypted with.  Keys are <<secret, engine>>: localized.                *)
(***************************************************************************)
EXTENDS Integers, Sequences, SequencesExt, FiniteSets, FiniteSetsExt

CONSTANTS TimeWindow, LastBoots   \* 150 and 2147483647

NoEngine == 0       \* an empty or malformed engine ID
Wildcard == -1      \* wildcardSecurityEngineId
Blank == ""         \* the user of discovery
NoKey == <<"no", 0>>
Nobody == [engine |-> NoEngine, name |-> Blank, auth |-> "none", priv |-> "none", secret |-> "no"]

\* The keys of a wildcard user are used as they are, those of others are of the engine.
KeyOf(row, engine) == <<row.secret, IF row.engine = Wildcard THEN Wildcard ELSE engine>>
Distance(a, b) == IF a < b THEN b - a ELSE a - b

\* The user of an engine, or of any engine.
getUserInfo(e, engine, name) ==
    LET of(id) == {u \in e.users : u.engine = id /\ u.name = name}
    IN IF of(engine) # {} THEN of(engine) ELSE of(Wildcard)

----------------------------------------------------------------------------
\* generateRequestMsg: a user that is not known at the peer is cloned from our own.
SendingUser(e, peer, name) ==
    LET own == {u \in e.users : u.engine = e.id /\ u.name = name}
    IN IF peer = NoEngine THEN {Nobody}
       ELSE IF getUserInfo(e, peer, name) # {} THEN getUserInfo(e, peer, name) ELSE own

\* MUTANT of StampFor: always this engine's own.
StampForOwn(e, engine, level, confirmed) ==
    IF level = 1 THEN [boots |-> 0, time |-> 0] ELSE [boots |-> e.boots, time |-> e.time]

\* The boots and time a message is stamped with.
StampFor(e, engine, level, confirmed) ==
    IF level = 1 THEN [boots |-> 0, time |-> 0]
    ELSE IF ~confirmed THEN [boots |-> e.boots, time |-> e.time]
    ELSE IF engine \in DOMAIN e.timeline THEN e.timeline[engine]
    ELSE [boots |-> 0, time |-> 0]

\* The error of a message that cannot be secured, or "".
CannotSecure(row, level) ==
    CASE level >= 2 /\ row.auth = "none" -> "unsupportedSecurityLevel"
      [] level = 3 /\ row.priv = "none" -> "unsupportedSecurityLevel"
      [] level = 3 /\ row.priv = "gone" -> "encryptionError"
      [] level >= 2 /\ row.auth = "gone" -> "authenticationFailure"
      [] OTHER -> ""

Secured(e, row, engine, level, confirmed) ==
    LET stamp == StampFor(e, engine, level, confirmed)
    IN [engine |-> engine, boots |-> stamp.boots, time |-> stamp.time, user |-> row.name, level |-> level,
        digest |-> IF level >= 2 THEN KeyOf(row, engine) ELSE NoKey,
        data |-> IF level = 3 THEN KeyOf(row, engine) ELSE <<"plain", 0>>]

\* The messages of a request, none when it cannot be made; towards an unknown engine a
\* blank one that discovers it.
generateRequestMsg(e, peer, name, level) ==
    LET asked == IF peer = NoEngine THEN 1 ELSE level
    IN {Secured(e, row, peer, asked, TRUE) : row \in {u \in SendingUser(e, peer, name) : CannotSecure(u, asked) = ""}}

\* With what was cached of the request.
generateResponseMsg(e, cached, level) ==
    IF CannotSecure(cached, level) # "" THEN {} ELSE {Secured(e, cached, e.id, level, FALSE)}

----------------------------------------------------------------------------
\* The level of a message is not the user's, on the user's own engine.  An authenticated
\* message that states no time may come from a user with privacy: it asks for the time.
WrongLevel(row, m) ==
    CASE m.level = 3 -> row.auth = "none" \/ row.priv = "none"
      [] m.level = 2 -> row.auth = "none" \/ (row.priv # "none" /\ (m.boots # 0 \/ m.time # 0))
      [] OTHER -> row.auth # "none" \/ row.priv # "none"

\* MUTANT of OutOfWindow: the time only.
OutOfWindowTime(e, m) == Distance(e.time, m.time) > TimeWindow

\* Of a message for this engine.
OutOfWindow(e, m) == e.boots = LastBoots \/ e.boots # m.boots \/ Distance(e.time, m.time) > TimeWindow

Check(fails, error, counter) == [fails |-> fails, error |-> error, counter |-> counter]

\* The engine and the user of a message are known.
IdentityChecks(e, m, known) ==
    << Check(m.engine # e.id /\ m.engine \notin DOMAIN e.timeline /\ m.engine = NoEngine,
             "unknownEngineID", "usmStatsUnknownEngineIDs"),
       Check(~known, "unknownSecurityName", "usmStatsUnknownUserNames") >>

\* Then its digest is right.
DigestChecks(m, row) ==
    << Check(m.level >= 2 /\ row.auth = "gone", "authenticationFailure", ""),
       Check(m.level >= 2 /\ (row.auth = "none" \/ m.digest # KeyOf(row, m.engine)),
             "authenticationFailure", "usmStatsWrongDigests") >>

\* Then it is timely.  The timeline of a peer is by now what its message says, so its
\* time is not off.
TimeChecks(e, m) ==
    << Check(m.level >= 2 /\ m.engine = e.id /\ OutOfWindow(e, m), "notInTimeWindow", "usmStatsNotInTimeWindows"),
       Check(m.level >= 2 /\ m.engine # e.id /\ m.boots = LastBoots, "notInTimeWindow", "") >>

\* Then it can be decrypted, and what comes out is a scoped PDU.
PrivacyChecks(m, row) ==
    << Check(m.level = 3 /\ row.priv = "gone", "decryptionError", ""),
       Check(m.level = 3 /\ m.data[1] = "plain", "decryptionError", ""),
       Check(m.level = 3 /\ (row.priv = "none" \/ m.data[1] = "malformed"),
             "decryptionError", "usmStatsDecryptionErrors"),
       Check(m.level = 3 /\ m.data # KeyOf(row, m.engine), "decryptionError", ""),
       Check(m.level < 3 /\ m.data[1] # "plain", "decryptionError", "") >>

\* All that is checked, in order.
Checks(e, m, known, row) ==
    IdentityChecks(e, m, known)
    \o << Check(m.engine = e.id /\ WrongLevel(row, m), "unsupportedSecurityLevel", "usmStatsUnsupportedSecLevels") >>
    \o DigestChecks(m, row) \o TimeChecks(e, m) \o PrivacyChecks(m, row)

DigestCheck == 5

\* MUTANT of LearnsFrom: before the digest is looked at.
LearnsFromAny(m, failed) == m.level >= 2

\* The peer's boots and time are taken over from a message whose digest was right.
LearnsFrom(m, failed) == m.level >= 2 /\ (failed = 0 \/ failed > DigestCheck)

processIncomingMsg(e, m) ==
    LET rows == IF m.user = Blank THEN {Nobody} ELSE getUserInfo(e, m.engine, m.user)
        row == IF rows = {} THEN Nobody ELSE CHOOSE u \in rows : TRUE
        checks == Checks(e, m, rows # {}, row)
        failed == SelectInSeq(checks, LAMBDA c : c.fails)
        learnt == [boots |-> m.boots, time |-> m.time]
    IN [error |-> IF failed = 0 THEN "" ELSE checks[failed].error,
        counter |-> IF failed = 0 THEN "" ELSE checks[failed].counter,
        securityName |-> row.name,
        cached |-> row,
        timeline |-> [id \in DOMAIN e.timeline \cup (IF LearnsFrom(m, failed) THEN {m.engine} ELSE {}) |->
                         IF LearnsFrom(m, failed) /\ id = m.engine THEN learnt ELSE e.timeline[id]]]

----------------------------------------------------------------------------
FullLevel(row) == IF row.auth = "none" THEN 1 ELSE IF row.priv = "none" THEN 2 ELSE 3

\* An engine serves a user of its own at the level the user was configured for and at no
\* other, authenticated and decrypted with that user's keys: the authenticated message
\* without a time that a user with privacy may send to learn it is not served either.
ServedAtUsersLevel(e, m) ==
    processIncomingMsg(e, m).error = "" /\ m.engine = e.id =>
        /\ \E row \in {Nobody} \cup e.users :
              /\ row.name = m.user /\ row.engine \in {e.id, Wildcard, NoEngine}
              /\ m.level = FullLevel(row)
              /\ m.level >= 2 => m.digest = KeyOf(row, e.id)
              /\ m.level = 3 => m.data = KeyOf(row, e.id)
        /\ m.level >= 2 => m.boots = e.boots /\ Distance(m.time, e.time) <= TimeWindow

\* Nothing is learnt of a peer's clock from a message that was not authenticated as one
\* of a user known there.
LearnsFromUsersOnly(e, m) ==
    processIncomingMsg(e, m).timeline # e.timeline =>
        /\ m.level >= 2
        /\ \E row \in getUserInfo(e, m.engine, m.user) : row.auth = "known" /\ m.digest = KeyOf(row, m.engine)

\* Sent by an engine that has the agent's clock, in a user's name both know by the same
\* secret, a request is served in that name if its level is the user's, and otherwise
\* stays unsent or is refused for its level; the answer to it is accepted in turn.
\* (Protocols that one of them does not have, aside.)
SentIsServed(manager, agent, name, level) ==
    LET atManager == SendingUser(manager, agent.id, name)
        atAgent == getUserInfo(agent, agent.id, name)
        seen(rows) == {[u EXCEPT !.engine = IF @ = Wildcard THEN @ ELSE agent.id] : u \in rows}
        same == atManager # {} /\ seen(atManager) = seen(atAgent)
        supported == \A u \in atAgent : u.auth # "gone" /\ u.priv # "gone"
    IN same /\ supported /\ agent.id \in DOMAIN manager.timeline /\ manager.timeline[agent.id].boots = agent.boots
       /\ agent.boots # LastBoots /\ Distance(manager.timeline[agent.id].time, agent.time) <= TimeWindow =>
          \A m \in generateRequestMsg(manager, agent.id, name, level) :
             LET r == processIncomingMsg(agent, m)
                 users == [manager EXCEPT !.users = @ \cup seen(atManager)]
             IN /\ (r.error = "") <=> \E u \in atAgent : FullLevel(u) = level
                /\ r.error \in {"", "unsupportedSecurityLevel"}
                /\ r.error = "" =>
                      /\ r.securityName = name
                      /\ generateResponseMsg(agent, r.cached, level) # {}
                      /\ \A reply \in generateResponseMsg(agent, r.cached, level) :
                            LET back == processIncomingMsg(users, reply)
                            IN back.error = "" /\ back.securityName = name
                               /\ level >= 2 => back.timeline[agent.id].time = agent.time

----------------------------------------------------------------------------
(* The services it uses: where the digest is put into a message and found   *)
(* again, the salts and initialization vectors of the ciphers, and the keys *)
(* made of a passphrase.  Digests and ciphers are ideal: a digest belongs   *)
(* to one message and key, and what was encrypted is read only with the     *)
(* same key and vector.  The build has the ciphers: without them every call *)
(* is refused.                                                              *)
CONSTANTS LocalMax,     \* the greatest _localInt: 2^32 - 1 for DES, 2^64 - 1 for AES
          Block,        \* octets of a block of DES: 8
          Chunk         \* octets of a passphrase hashed at a time: 64

ASSUME ServicesAssumption == LocalMax \in Nat /\ Block \in Nat \ {0} /\ Chunk \in Nat \ {0}

Refusal == [error |-> TRUE]
Passed(msg) == [error |-> FALSE, msg |-> msg]

----------------------------------------------------------------------------
\* An octet of a message is <<n>>; one of a digest is <<i, key, message>>.
Zero == <<0>>
PlaceHolder(size) == [i \in 1 .. size |-> Zero]
Mac(key, msg, size) == [i \in 1 .. size |-> <<i, key, msg>>]

Places(msg, part) == {i \in 1 .. Len(msg) - Len(part) + 1 : SubSeq(msg, i, i + Len(part) - 1) = part}

\* MUTANT of find: the last place.
FindLast(msg, part) == IF Places(msg, part) = {} THEN 0 ELSE Max(Places(msg, part))

\* wholeMsg.find: the first place where the octets are, 0 for none.
find(msg, part) == IF Places(msg, part) = {} THEN 0 ELSE Min(Places(msg, part))

Replaced(msg, at, part) == [i \in DOMAIN msg |-> IF i \in at .. at + Len(part) - 1 THEN part[i - at + 1] ELSE msg[i]]

\* HmacMd5, HmacSha, HmacSha2: the digest covers the message with zeros in its place,
\* and takes the place of the first run of as many zeros.
authenticateOutgoingMsg(key, msg, size) ==
    LET at == find(msg, PlaceHolder(size))
    IN IF at = 0 THEN Refusal ELSE Passed(Replaced(msg, at, Mac(key, msg, size)))

authenticateIncomingMsg(key, parameters, msg, size) ==
    LET at == find(msg, parameters)
        zeroed == Replaced(msg, at, PlaceHolder(size))
    IN IF Len(parameters) # size \/ at = 0 \/ Mac(key, zeroed, size) # parameters THEN Refusal
       ELSE Passed(zeroed)

----------------------------------------------------------------------------
\* Ciphers: DES and 3DES in blocks, AES as a stream.  A message is the ciphertext, the
\* salt sent with it and, for the reader of this module, its vector.

\* MUTANT of Incremented: the counter stops at its greatest value.
IncrementedTo(n) == IF n = LocalMax THEN n ELSE n + 1

Incremented(n) == IF n = LocalMax THEN 0 ELSE n + 1

\* __getEncryptionKey and __getDecryptionKey of DES: the salt is the boots and the
\* counter, the vector that and the half of the key that is the pre-IV.
SaltDes(local, boots) == <<boots, local>>
VectorDes(key, salt) == <<"xor", key, salt>>

\* Those of AES: the salt is the counter, the vector the clock of the engine and it.
SaltAes(local) == <<local>>
VectorAes(boots, time, salt) == <<boots, time, salt>>

Encrypted(key, iv, salt, plain) == [salt |-> salt, iv |-> iv, data |-> [key |-> key, iv |-> iv, plain |-> plain]]

\* A whole block is added where none would have to be.
Padding(data) == [i \in 1 .. Block - (Len(data) % Block) |-> 0]

encryptDes(local, key, clock, data) ==
    LET salt == SaltDes(local, clock.boots) IN Encrypted(key, VectorDes(key, salt), salt, data \o Padding(data))
encryptAes(local, key, clock, data) ==
    LET salt == SaltAes(local) IN Encrypted(key, VectorAes(clock.boots, clock.time, salt), salt, data)

\* Octets that were not encrypted with the key and the vector decrypt to Garbage.
Garbage == <<"garbage">>
Decrypted(key, iv, data) == IF data.key = key /\ data.iv = iv THEN data.plain ELSE Garbage

\* A salt of another length is refused (wellFormed), and a ciphertext of a broken block.
decryptDes(key, clock, salt, wellFormed, data) ==
    IF ~wellFormed \/ Len(data.plain) % Block # 0 THEN Refusal ELSE Passed(Decrypted(key, VectorDes(key, salt), data))
decryptAes(key, clock, salt, wellFormed, data) ==
    IF ~wellFormed THEN Refusal ELSE Passed(Decrypted(key, VectorAes(clock.boots, clock.time, salt), data))

----------------------------------------------------------------------------
\* Keys.  hashPassphrase feeds the hash Chunk octets at a time from a ring of whole
\* passphrases; an octet is given by its place in the passphrase.
\* MUTANT of RingLength: no passphrase more than fit into a chunk.
RingLengthShort(length) == length * (Chunk \div length)

RingLength(length) == length * (Chunk \div length + 1)

hashPassphrase(length, rounds) ==
    LET ring == RingLength(length)
        buffer == [i \in 1 .. ring |-> ((i - 1) % length) + 1]
        mark[count \in 0 .. rounds] ==
            IF count = 0 THEN 0
            ELSE LET e == mark[count - 1] + Chunk IN IF e < ring THEN e ELSE e - ring
        fed(count) == LET e == mark[count] + Chunk
                      IN IF e < ring THEN SubSeq(buffer, mark[count] + 1, e)
                         ELSE SubSeq(buffer, mark[count] + 1, ring)
                                  \o SubSeq(buffer, 1, IF e - ring < ring THEN e - ring ELSE ring)
    IN FlattenSeq([i \in 1 .. rounds |-> fed(i - 1)])

\* localizeKey of the ciphers: how many digests make up the key.  DES and AES-128 take
\* one, the ways of Reeder (also of 3DES) and of Blumenthal append to it.
PiecesReeder(digest, size) ==
    LET more[n \in 1 .. size] == IF n * digest < size THEN more[n + 1] ELSE n IN more[1]
PiecesBlumenthal(digest, size) == (size + digest - 1) \div digest
Pieces(way, digest, size) ==
    CASE way = "plain"      -> 1
      [] way = "reeder"     -> PiecesReeder(digest, size)
      [] way = "blumenthal" -> PiecesBlumenthal(digest, size)

\* keySize of each service and how it comes by its key; the octets of the cipher's key
\* in it, the rest is the pre-IV.
PrivServices ==
    {[way |-> "plain", size |-> 16, cipher |-> 8],        \* Des
     [way |-> "plain", size |-> 16, cipher |-> 16],       \* Aes
     [way |-> "reeder", size |-> 32, cipher |-> 24],      \* Des3
     [way |-> "reeder", size |-> 24, cipher |-> 24],      \* Aes192
     [way |-> "reeder", size |-> 32, cipher |-> 32],      \* Aes256
     [way |-> "blumenthal", size |-> 24, cipher |-> 24],  \* AesBlumenthal192
     [way |-> "blumenthal", size |-> 32, cipher |-> 32]}  \* AesBlumenthal256

\* The digests of the hash functions of the authentication protocols.
DigestSizes == {16, 20, 28, 32, 48, 64}

----------------------------------------------------------------------------
\* "Finding that run of zeros is how the position is recovered": exactly where nothing
\* ahead of the digest is such a run (an engine ID or a user name of zeros would be)
\* the digest comes into its own field, and then the receiver with the same key takes the message
\* and no other does, nor one with any octet changed on the way.
SignedIsAccepted(head, tail, size) ==
    LET msg == head \o PlaceHolder(size) \o tail
        signed == authenticateOutgoingMsg("key", msg, size)
        parameters(m) == SubSeq(m, Len(head) + 1, Len(head) + size)
        taken(key, m) == authenticateIncomingMsg(key, parameters(m), m, size)
        changed == {[signed.msg EXCEPT ![i] = <<n>>] : i \in DOMAIN msg, n \in 0 .. 2} \ {signed.msg}
    IN /\ ~signed.error
       /\ Places(head, PlaceHolder(size)) = {} <=> signed.msg = head \o Mac("key", msg, size) \o tail
       /\ Places(head, PlaceHolder(size)) = {} =>
              /\ taken("key", signed.msg) = Passed(msg)
              /\ taken("other", signed.msg).error
              /\ \A m \in changed : taken("key", m).error

\* "The salt is a counter, not a random value, so no two messages from this engine
\* share an initialization vector": up to as many messages as the counter has values,
\* whatever the clock of the engine they are for; and what is decrypted with the same
\* key, for AES with the same clock too, is what was encrypted, with at most a block of
\* zeros after it.
VectorsDiffer(cipher, start, clocks, data) ==
    LET local[i \in 1 .. Len(clocks)] == IF i = 1 THEN start ELSE Incremented(local[i - 1])
        sent(i) == IF cipher = "des" THEN encryptDes(local[i], "key", clocks[i], data)
                   ELSE encryptAes(local[i], "key", clocks[i], data)
        got(m, key, clock) == IF cipher = "des" THEN decryptDes(key, clock, m.salt, TRUE, m.data)
                              ELSE decryptAes(key, clock, m.salt, TRUE, m.data)
    IN \A i, j \in 1 .. Len(clocks) :
          LET m == sent(i) IN
          /\ i # j => m.iv # sent(j).iv
          /\ IF cipher = "des" \/ clocks[i] = clocks[j]
             THEN LET plain == got(m, "key", clocks[j]).msg
                  IN IsPrefix(data, plain) /\ Len(plain) - Len(data) \in IF cipher = "des" THEN 1 .. Block ELSE {0}
             ELSE got(m, "key", clocks[j]).msg = Garbage
          /\ got(m, "other", clocks[i]).msg = Garbage

\* "The passphrase is repeated into a ring buffer and exactly one megabyte of it is
\* hashed": the octets fed are the passphrase again and again, however the ring and
\* the chunks divide.
PassphraseRepeats(length, rounds) ==
    hashPassphrase(length, rounds) = [i \in 1 .. rounds * Chunk |-> ((i - 1) % length) + 1]

\* Whatever the digest of the authentication protocol, the key is as long as the
\* cipher and its pre-IV need, and no digest is appended in vain.
KeysLongEnough ==
    \A digest \in DigestSizes, s \in PrivServices :
        LET n == Pieces(s.way, digest, s.size)
        IN n * digest >= s.size /\ (n = 1 \/ (n - 1) * digest < s.size)
=============================================================================
