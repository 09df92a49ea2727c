---------------------------- MODULE StreamFraming ----------------------------
(***************************************************************************)
(* carrier.asyncio.stream.base: how the octets of a connection are cut     *)
(* into messages by the length field of their BER header.  An octet has    *)
(* Octets values, of which those below Half are lengths and those above    *)
(* count the octets of a longer length.                                    *)
(***************************************************************************)
EXTENDS Integers, Sequences, SequencesExt

CONSTANTS Octets,           \* 256
          Half,             \* 128
          MaxMessageSize    \* maxMessageSize of the carrier

ASSUME FramingAssumption == Octets \in Nat /\ Half \in 1 .. Octets - 2

BER_SEQUENCE == 1   \* the identifier octet of a message
NeedMore == -1
FramingError == -2

decodeMessageLength(octets) ==
    LET count == octets[2] - Half
        total == 2 + count + FoldLeft(LAMBDA n, o : n * Octets + o, 0, SubSeq(octets, 3, 2 + count))
    IN IF Len(octets) < 2 THEN NeedMore
       ELSE IF octets[1] # BER_SEQUENCE THEN FramingError
       ELSE IF octets[2] < Half THEN 2 + octets[2]
       ELSE IF octets[2] \in {Half, Octets - 1} THEN FramingError
       ELSE IF Len(octets) < 2 + count THEN NeedMore
       ELSE IF total > MaxMessageSize THEN FramingError
       ELSE total

\* A connection that received something: [buffer, messages, failed].
Fresh == [buffer |-> <<>>, messages |-> <<>>, failed |-> FALSE]

\* MUTANT of Complete: a message waits for the octet after it.
CompleteLater(octets, length) == length # NeedMore /\ Len(octets) > length

\* Whether the message that octets begin with has arrived.
Complete(octets, length) == length # NeedMore /\ Len(octets) >= length

\* MUTANT of Extended: what waited for more is forgotten.
ExtendedAfresh(c, data) == data

\* The octets to cut: those that were left, and the new ones.
Extended(c, data) == c.buffer \o data

\* data_received, message by message until one is incomplete or cannot be framed.
\* A failed connection is closed and gets no more data.
data_received(c, data) ==
    LET all == Extended(c, data)
        step[at \in 0 .. Len(all)] ==
            LET rest == SubSeq(all, at + 1, Len(all))
                length == decodeMessageLength(rest)
            IN IF length = FramingError THEN [buffer |-> <<>>, messages |-> <<>>, failed |-> TRUE]
               ELSE IF ~Complete(rest, length)
               THEN [buffer |-> rest, messages |-> <<>>, failed |-> FALSE]
               ELSE LET later == step[at + length]
                    IN [later EXCEPT !.messages = <<SubSeq(rest, 1, length)>> \o @]
        result == step[0]
    IN IF c.failed THEN c ELSE [result EXCEPT !.messages = c.messages \o @]

----------------------------------------------------------------------------
\* "One message may take several reads, and several messages may arrive in one": the
\* messages of a connection, what is left of them, and whether it fails, do not
\* depend on where the stream is cut, in the middle of a length included.
CutsDoNotMatter(stream) ==
    \A k \in 0 .. Len(stream) :
        data_received(data_received(Fresh, SubSeq(stream, 1, k)), SubSeq(stream, k + 1, Len(stream)))
            = data_received(Fresh, stream)

\* What was taken for messages is the stream from its beginning, and a message is
\* handed over as soon as it is all there.
NothingLostOrAdded(stream) ==
    LET c == data_received(Fresh, stream) IN
    /\ ~c.failed => FlattenSeq(c.messages) \o c.buffer = stream
    /\ c.failed => IsPrefix(FlattenSeq(c.messages), stream)
    /\ \A i \in DOMAIN c.messages : decodeMessageLength(c.messages[i]) = Len(c.messages[i])
    /\ c.buffer # <<>> /\ ~c.failed => \A k \in 0 .. Len(c.buffer) :
           decodeMessageLength(SubSeq(c.buffer, 1, k)) \notin (0 .. Len(c.buffer)) \cup {FramingError}
=============================================================================
