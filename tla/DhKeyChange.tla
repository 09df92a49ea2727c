---------------------------- MODULE DhKeyChange ----------------------------
(***************************************************************************)
(* proto.secmod.rfc2786, the arithmetic of a Diffie-Hellman key change,    *)
(* and hlapi.asyncio.dh.dh_key_change, the exchange that carries it: read  *)
(* the parameters, find the row and read its public value, draw a key      *)
(* pair, derive the key, and only then SET.                                *)
(*                                                                         *)
(* An octet has Octet values; parameters are [prime, base, length], with   *)
(* length 0 where there is none.  What raises ValueError is Refused, of a  *)
(* pair NoPair.                                                            *)
(***************************************************************************)
EXTENDS PythonData, SequencesExt, FiniteSets, FiniteSetsExt

CONSTANTS Octet,          \* the values of an octet
          FittingSteps,   \* BOUND of the search: exponents walked
          FittingDraws,   \* BOUND of the search: exponents drawn
          RowScanLimit    \* BOUND of the walk for a row

Refused == <<-1>>
NoPair == [private |-> 0, public |-> <<>>]

----------------------------------------------------------------------------
(* Arithmetic.                                                             *)
Power(p, x) == LET pow[n \in 0 .. x] == IF n = 0 THEN 1 ELSE (pow[n - 1] * p.base) % p.prime IN pow[x]
octetLength(v) == CHOOSE n \in 1 .. 8 : v < Octet ^ n /\ (n = 1 \/ v >= Octet ^ (n - 1))
toOctets(v, n) == [i \in 1 .. n |-> (v \div (Octet ^ (n - i))) % Octet]
Number(s) == FoldLeft(LAMBDA n, o : n * Octet + o, 0, s)
bitLength(v) == CHOOSE n \in 1 .. 16 : v < 2 ^ n /\ v >= 2 ^ (n - 1)

\* The parameters an agent publishes are used only if an agreement can be made with them.
decodeDHParameters(p) ==
    p.prime > 3 /\ 1 < p.base /\ p.base < p.prime /\ (p.length = 0 \/ p.length \in 2 .. bitLength(p.prime))

Upper(p) == IF p.length = 0 THEN p.prime - 2 ELSE 2 ^ p.length - 1
\* The exponents a pair may be drawn with.
generateKeyPair(p) == IF p.length = 0 THEN 2 .. p.prime - 2 ELSE 2 ^ (p.length - 1) .. Upper(p)

Pair(p, x) == [private |-> x, public |-> toOctets(Power(p, x), octetLength(Power(p, x)))]
Fits(p, x, width) == octetLength(Power(p, x)) <= width

\* MUTANT of Walked: the walk goes on past the interval.
WalkedOn(p, x, width, steps) ==
    LET fit == {y \in x .. x + steps : Fits(p, y, width)}
    IN IF fit # {} THEN [at |-> Min(fit), steps |-> 0] ELSE [at |-> -1, steps |-> 0]

\* From exponent x upward to the first whose public value fits: at 0 there is none up to
\* the end of the interval, at -1 the steps ran out before.
Walked(p, x, width, steps) ==
    LET fit == {y \in x .. Upper(p) : Fits(p, y, width)}
        y == Min(fit)
    IN IF fit # {} THEN [at |-> IF y - x <= steps THEN y ELSE -1, steps |-> steps - (y - x)]
       ELSE [at |-> IF steps > Upper(p) - x THEN 0 ELSE -1, steps |-> steps - (Upper(p) - x)]

\* generateKeyPairFitting, when these are drawn.
generateKeyPairFitting(p, width, draws) ==
    LET step(acc, x) == IF acc.at = 0 THEN Walked(p, x, width, acc.steps) ELSE acc
        end == FoldLeft(step, [at |-> 0, steps |-> FittingSteps], draws)
    IN IF width < 1 \/ end.at <= 0 THEN NoPair ELSE Pair(p, end.at)

\* What it may come to, for all it may draw; a pair or none.
PairsFitting(p, width) == {generateKeyPairFitting(p, width, d) : d \in [1 .. FittingDraws -> generateKeyPair(p)]}

computeSharedSecret(p, private, peerPublic) ==
    LET peer == Number(peerPublic)
        value == [p EXCEPT !.base = peer]
    IN IF ~(1 < peer /\ peer < p.prime - 1) THEN Refused ELSE toOctets(Power(value, private), octetLength(p.prime))

\* The right-most octets are the key.
deriveKey(secret, n) == IF n <= 0 \/ Len(secret) < n THEN Refused ELSE SubSeq(secret, Len(secret) - n + 1, Len(secret))

\* The value to SET: what was read, and as wide, what is offered.
buildKeyChangeValue(peer, own) ==
    IF peer = <<>> \/ Len(own) > Len(peer) THEN Refused
    ELSE peer \o [i \in 1 .. Len(peer) - Len(own) |-> 0] \o own
splitKeyChangeValue(value) ==
    LET half == Len(value) \div 2
    IN IF value = <<>> \/ Len(value) % 2 = 1 THEN Refused
       ELSE <<SubSeq(value, 1, half), SubSeq(value, half + 1, Len(value))>>

----------------------------------------------------------------------------
(* Rows.                                                                   *)
Counted(s) == <<Len(s)>> \o s
keyChangeInstance(engine, user) == Counted(engine) \o Counted(user)

parseKeyChangeInstance(index) ==
    LET n == index[1]
        rest == SubSeq(index, n + 2, Len(index))
    IN IF index = <<>> THEN Refused
       ELSE IF Len(index) < n + 2 THEN Refused
       ELSE IF Len(rest) # 1 + rest[1] THEN Refused
       ELSE <<SubSeq(index, 2, n + 1), SubSeq(rest, 2, Len(rest))>>

\* MUTANT of findRow: told by the name without its length.
FindRowByName(rows, user) ==
    LET found == {r \in rows : IsSuffix(user, r)} IN IF found = {} THEN Refused ELSE Least(found)

\* The first row, in the order of a walk, whose index ends in the user's name; Refused
\* if there is none among those the walk gets to.
findRow(rows, user) ==
    LET found == {r \in rows : IsSuffix(Counted(user), r) /\ Cardinality({q \in rows : Precedes(q, r)}) < RowScanLimit}
    IN IF found = {} THEN Refused ELSE Least(found)

\* Whatever users there are, the row found is the one of the user asked for, told apart
\* by the length before the name, and its index gives the engine ID back; except where
\* a name ends in another with its length before it, as octets of the name.
RowOfTheUser(engine, users, user) ==
    LET rows == {keyChangeInstance(engine, u) : u \in users}
        row == findRow(rows, user)
        clear == \A u \in users : ~IsSuffix(Counted(user), u)
    IN /\ row # Refused /\ clear => parseKeyChangeInstance(row) = <<engine, user>>
       /\ user \in users /\ Cardinality(users) <= RowScanLimit => row # Refused

\* A pair that was found is one that could have been drawn and that the agent can read
\* out of the value: split down the middle it gives both public values, and both sides
\* come to the same secret.
PairAgrees(p, width, theirs) ==
    \A pair \in PairsFitting(p, width) \ {NoPair} :
        LET agent == Pair(p, theirs)
            halves == splitKeyChangeValue(buildKeyChangeValue(agent.public, pair.public))
        IN /\ pair.private \in generateKeyPair(p)
           /\ Len(agent.public) = width =>
                 /\ halves[1] = agent.public /\ Number(halves[2]) = Number(pair.public)
                 /\ computeSharedSecret(p, pair.private, halves[1]) # Refused
                    /\ computeSharedSecret(p, theirs, halves[2]) # Refused
                    => computeSharedSecret(p, pair.private, halves[1]) = computeSharedSecret(p, theirs, halves[2])

----------------------------------------------------------------------------
(* The exchange.  The state is [agent, calls]: agent is [p, rows, seen,    *)
(* installed], rows the pair each row publishes, seen what was published,  *)
(* installed what keys were set, in order, as [call, row, key].  A call is [pc, user, named, wanted,*)
(* row, theirs, pair, key, copies, late, answers, end]: named, the      *)
(* engine ID was given; copies, how often the SET may yet be sent; late,   *)
(* the copies of it under way; answers, those to it that are.              *)
Idle(user, named, wanted, retries) ==
    [pc |-> "parameters", user |-> user, named |-> named, wanted |-> wanted, row |-> Refused,
     theirs |-> <<>>, pair |-> NoPair, key |-> <<>>, copies |-> 1 + retries, late |-> 0, answers |-> {},
     end |-> [ok |-> FALSE, key |-> <<>>]]
Failed(call) == [call EXCEPT !.pc = "ended"]
With(s, c, call) == [s EXCEPT !.calls[c] = call]

\* The agent, seen from what the library expects of it: it takes a value whose first
\* half is what it publishes, installs the key and publishes a value it has not
\* published before, of the pairs fresh; anything else is wrongValue.
AgentSets(agent, c, call, fresh) ==
    LET mine == agent.rows[call.row]
        halves == splitKeyChangeValue(buildKeyChangeValue(call.theirs, call.pair.public))
        secret == computeSharedSecret(agent.p, mine.private, halves[2])
    IN IF halves[1] # mine.public \/ secret = Refused \/ deriveKey(secret, call.wanted) = Refused
       THEN {[agent |-> agent, answer |-> "wrongValue"]}
       ELSE {[agent |-> [agent EXCEPT !.rows[call.row] = f,
                                      !.seen = @ \cup {f.public},
                                      !.installed = Append(@, [call |-> c, row |-> call.row, key |-> deriveKey(secret, call.wanted)])],
              answer |-> "noError"] : f \in {g \in fresh : g.public \notin agent.seen}}

\* _readParameters, _findRow and _readCell: each is answered or fails.
ReadParameters(s, c) ==
    {With(s, c, Failed(s.calls[c])),
     With(s, c, IF ~decodeDHParameters(s.agent.p) THEN Failed(s.calls[c]) ELSE [s.calls[c] EXCEPT !.pc = "row"])}
ReadRow(s, c, engine) ==
    LET call == s.calls[c]
        row == IF call.named THEN keyChangeInstance(engine, call.user) ELSE findRow(DOMAIN s.agent.rows, call.user)
        known == row \in DOMAIN s.agent.rows
    IN {With(s, c, Failed(call)),
        With(s, c, IF ~known THEN Failed(call)
                   ELSE [call EXCEPT !.row = row, !.theirs = s.agent.rows[row].public, !.pc = "draw"])}

\* MUTANT of Draw: the secret of the pair's own public value.
DrawOfOwn(p, call, pair) ==
    LET secret == computeSharedSecret(p, pair.private, pair.public)
        key == IF secret = Refused THEN Refused ELSE deriveKey(secret, call.wanted)
    IN IF pair = NoPair \/ key = Refused THEN Failed(call) ELSE [call EXCEPT !.pair = pair, !.key = key, !.pc = "set"]

\* The pair is drawn off the loop and everything derived, before anything is set.
Draw(p, call, pair) ==
    LET secret == computeSharedSecret(p, pair.private, call.theirs)
        key == IF secret = Refused THEN Refused ELSE deriveKey(secret, call.wanted)
    IN IF pair = NoPair \/ key = Refused \/ parseKeyChangeInstance(call.row) = Refused THEN Failed(call)
       ELSE [call EXCEPT !.pair = pair, !.key = key, !.pc = "set"]

\* MUTANT of SetFailed: a failed SET is a failure like any other.
SetFailedPlainly(call) == Failed(call)

\* The SET failed, or no answer came: the key it would have made is handed back.
SetFailed(call) == [Failed(call) EXCEPT !.end.key = call.key]
SetDone(call) == [call EXCEPT !.pc = "ended", !.end = [ok |-> TRUE, key |-> call.key]]

\* One step of a call, or of the network on its behalf: the copies of a SET that are
\* under way may arrive at any time, after the call has ended too.
SendSet(s, c) ==
    IF s.calls[c].pc = "set" /\ s.calls[c].copies > 0
    THEN {With(s, c, [s.calls[c] EXCEPT !.copies = @ - 1, !.late = @ + 1])} ELSE {}
DeliverSet(s, c, fresh) ==
    IF s.calls[c].late = 0 THEN {}
    ELSE {[With(s, c, [s.calls[c] EXCEPT !.late = @ - 1, !.answers = @ \cup {r.answer}]) EXCEPT !.agent = r.agent] :
              r \in AgentSets(s.agent, c, s.calls[c], fresh)}
SetAnswered(s, c) ==
    IF s.calls[c].pc # "set" THEN {}
    ELSE {With(s, c, IF a = "noError" THEN SetDone(s.calls[c]) ELSE SetFailed(s.calls[c])) : a \in s.calls[c].answers}
SetTimedOut(s, c) == IF s.calls[c].pc = "set" /\ s.calls[c].copies = 0 THEN {With(s, c, SetFailed(s.calls[c]))} ELSE {}

CallSteps(s, c, engine, fresh) ==
    LET call == s.calls[c] IN
    (IF call.pc = "parameters" THEN ReadParameters(s, c) ELSE {})
    \cup (IF call.pc = "row" THEN ReadRow(s, c, engine) ELSE {})
    \cup (IF call.pc = "draw"
          THEN {With(s, c, Draw(s.agent.p, call, pair)) : pair \in PairsFitting(s.agent.p, Len(call.theirs))} ELSE {})
    \cup SendSet(s, c) \cup DeliverSet(s, c, fresh) \cup SetAnswered(s, c) \cup SetTimedOut(s, c)

\* Nobody is locked out: a key the agent has installed is one that the call whose SET
\* it was returns, or hands back with its error, once it has ended; a call that returns
\* one has had it installed; and a SET is applied once however often it arrives.  Two
\* calls at once, a value that changed since it was read and lost answers included.
KeysAreKnown(s) ==
    LET by(c) == {i \in DOMAIN s.agent.installed : s.agent.installed[i].call = c} IN
    \A c \in DOMAIN s.calls :
        LET call == s.calls[c] IN
        /\ Cardinality(by(c)) <= 1
        /\ call.pc = "ended" /\ call.end.ok => by(c) # {}
        /\ call.pc = "ended" => \A i \in by(c) : s.agent.installed[i].key = call.end.key

\* A call that ends without handing a key back has changed nothing, and will not.
NoCandidateNoChange(s) ==
    \A c \in DOMAIN s.calls :
        s.calls[c].pc = "ended" /\ s.calls[c].end.key = <<>> =>
            s.calls[c].late = 0 /\ \A i \in DOMAIN s.agent.installed : s.agent.installed[i].call # c
=============================================================================
