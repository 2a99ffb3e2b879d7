------------------------------- MODULE MCWire ------------------------------
(***************************************************************************)
(* The formats of the library, checked together: `mode` chooses between    *)
(*   codec      Codec on two schemas: one with a field of every type and   *)
(*              label that protobuf-c.c handles, with gaps between its ids *)
(*              and one id that needs two bytes; and SessionStructure,     *)
(*              which nests and repeats;                                   *)
(*   messages   Messages with counters at the ends of their range, with    *)
(*              and without a one-time pre key, of both versions;          *)
(*   records    Records, and                                               *)
(*   senders    SenderRecords, with values at the ends of their range.     *)
(***************************************************************************)
EXTENDS Wire, Schemas

CONSTANTS
    Samples,                                               \* of Codec
    MacLen, SigLen, Sent, Noise,                           \* of Messages
    MaxChains, MaxKept, MaxArchived, Keys, Counters, Ids, MaxCalls,   \* of Records
    GroupSkip, GroupKeys, MaxStates, KeyIds, Iterations, MaxSteps    \* of SenderRecords

VARIABLES
    mode,
    schema, first, second, bytes, history,    \* of Codec
    sent, data, intact,                       \* of Messages
    rec, calls, order,                        \* of Records
    record, steps                             \* of SenderRecords

Word == 2 ^ WordBits

AllTypes ==
    <<Field("r", 1, "required", "uint32", <<>>), Optional("i", 2, "int32"),
      Optional("s", 3, "sint32"), Optional("u", 4, "uint64"), Optional("z", 7, "sint64"),
      Optional("f", 8, "fixed32"), Optional("g", 9, "fixed64"), Optional("b", 11, "bool"),
      Nested("n", 14, PendingPreKeySchema),
      [Field("p", 15, "repeated", "int32", <<>>) EXCEPT !.packed = TRUE],
      Field("q", 16, "repeated", "fixed32", <<>>)>>

Long == 2 ^ LongBits

PreKey(i, j) ==
    [Empty(PendingPreKeySchema) EXCEPT !.preKeyId = i, !.signedPreKeyId = j, !.baseKey = <<<<5, 7>>>>]

(* Present, but empty; and with a field that the schema does not know.     *)
NoBaseKey == [PreKey(<<3>>, <<>>) EXCEPT !.baseKey = <<<<>>>>]

Newer == [PreKey(<<3>>, <<>>) EXCEPT !.unknown = <<[id |-> 9, wire |-> 0, data |-> <<1>>]>>]

(* One message for every row: the values of one field, the others absent,  *)
(* or all present.                                                         *)
With(n, vs) == [[Empty(AllTypes) EXCEPT !.r = <<Word - 1>>] EXCEPT ![n] = vs]

Rows ==
    {With("r", <<v>>) : v \in {0, Radix - 1, Radix, Radix ^ 2 - 1, Radix ^ 2, Word - 1}}
    \cup {With(n, <<v>>) : n \in {"i", "s"}, v \in {-Word \div 2, -1, 0, 1, Word \div 2 - 1}}
    \cup {With("u", <<v>>) : v \in {Word - 1, Word, Radix ^ 3 - 1, Radix ^ 3, Radix ^ 4 - 1,
                                   Radix ^ 4, Long - 1}}
    \cup {With("z", <<v>>) : v \in {-Long \div 2, -1, 0, Long \div 2 - 1}}
    \cup {With("f", <<v>>) : v \in {0, 33, Word - 1}}
    \cup {With("g", <<v>>) : v \in {0, 33, Word, Long - 1}}
    \cup {With("b", <<v>>) : v \in {0, 1}}
    \cup {With("n", <<PreKey(i, j)>>) : i \in {<<>>, <<9>>}, j \in {<<>>, <<-1>>, <<3>>}}
    \cup {With("n", <<k>>) : k \in {NoBaseKey, Newer}}
    \cup {With("p", vs) : vs \in {<<1, 2, 3, 4>>, <<-1, 1>>, <<-1, -1, -1, -1>>,
                                  [k \in 1 .. Radix |-> 1]}}
    \cup {With("q", vs) : vs \in {<<1>>, <<0, 33, Word - 1>>}}

ChainOf(k, ms) ==
    [Empty(ChainSchema) EXCEPT
        !.senderRatchetKey = <<<<5, k>>>>,
        !.chainKey = <<[Empty(ChainKeySchema) EXCEPT !.index = <<k>>, !.key = <<<<k>>>>]>>,
        !.messageKeys = [i \in 1 .. ms |->
            [Empty(MessageKeySchema) EXCEPT !.index = <<i>>, !.cipherKey = <<<<i>>>>,
                                            !.macKey = <<<<i, i>>>>, !.iv = <<<<i>>>>]]]

Session(s, r, ms) ==
    [Empty(SessionSchema) EXCEPT
        !.sessionVersion = <<3>>, !.needsRefresh = <<0>>, !.previousCounter = <<Word - 1>>,
        !.aliceBaseKey = <<<<5, 1>>>>,
        !.senderChain = IF s THEN <<ChainOf(1, 0)>> ELSE <<>>,
        !.receiverChains = [i \in 1 .. r |-> ChainOf(i, ms)],
        !.pendingPreKey = IF ms = 1 THEN <<>> ELSE <<PreKey(<<>>, <<r - 2>>)>>]

Sessions == {Session(s, r, ms) : s \in BOOLEAN, r \in 0 .. 2, ms \in 0 .. 2}

MCSamples ==
    [schema : {AllTypes}, first : Rows,
     second : {With("i", <<5>>), With("n", <<PreKey(<<3>>, <<>>)>>), With("p", <<2, -3>>),
               With("n", <<NoBaseKey>>)}]
    \cup [schema : {SessionSchema}, first : Sessions, second : {Session(TRUE, 1, 1)}]

C == INSTANCE Codec

----------------------------------------------------------------------------
SignalPart(v, c, p) ==
    [version |-> v, sender |-> 1, receiver |-> 2, ratchetKey |-> 3, counter |-> c,
     previousCounter |-> p, ciphertext |-> <<9, 0, 30>>]

Signals ==
    {[kind |-> "signal", macKey |-> 17] @@ SignalPart(v, c, p) :
        v \in {2, 3}, c \in {0, Radix - 1, Word - 1}, p \in {0, Word - 1}}

PreKeyMessages ==
    {[kind |-> "prekey", registrationId |-> 21, preKeyId |-> i, signedPreKeyId |-> 0,
      baseKey |-> 4, macKey |-> 0] @@ SignalPart(3, c, 0) :
        i \in {<<>>, <<0>>, <<Word - 1>>}, c \in {0, Radix}}

GroupMessages ==
    {[kind |-> "senderkey", id |-> i, iteration |-> n, ciphertext |-> <<6, 16>>,
      signingKey |-> 8] : i \in {0, Word - 1}, n \in {0, Radix}}

Distributions ==
    {[kind |-> "distribution", id |-> i, iteration |-> n, chainKey |-> <<6, 16>>,
      signingKey |-> 8] : i \in {0, Word - 1}, n \in {0, Radix}}

MCSent == Signals \cup PreKeyMessages \cup GroupMessages \cup Distributions

M == INSTANCE Messages

Ends == {0, Word - 1}

R == INSTANCE Records

S == INSTANCE SenderRecords

----------------------------------------------------------------------------
codecVars   == <<schema, first, second, bytes, history>>
messageVars == <<sent, data, intact>>
recordVars  == <<rec, calls, order>>
senderVars  == <<record, steps>>

NoCodec    == schema = <<>> /\ first = 0 /\ second = 0 /\ bytes = <<>> /\ history = "packed"
NoMessages == sent = 0 /\ data = <<>> /\ intact = TRUE
NoRecords  == rec = 0 /\ calls = 0 /\ order = <<>>
NoSenders  == record = <<>> /\ steps = 0

Init ==
    \/ mode = "codec" /\ C!Init /\ NoMessages /\ NoRecords /\ NoSenders
    \/ mode = "messages" /\ M!Init /\ NoCodec /\ NoRecords /\ NoSenders
    \/ mode = "records" /\ R!Init /\ NoCodec /\ NoMessages /\ NoSenders
    \/ mode = "senders" /\ S!Init /\ NoCodec /\ NoMessages /\ NoRecords

Next ==
    /\ UNCHANGED mode
    /\ \/ mode = "codec" /\ C!Next /\ UNCHANGED <<messageVars, recordVars, senderVars>>
       \/ mode = "messages" /\ M!Next /\ UNCHANGED <<codecVars, recordVars, senderVars>>
       \/ mode = "records" /\ R!Next /\ UNCHANGED <<codecVars, messageVars, senderVars>>
       \/ mode = "senders" /\ S!Next /\ UNCHANGED <<codecVars, messageVars, recordVars>>

Spec == Init /\ [][Next]_<<mode, codecVars, messageVars, recordVars, senderVars>>

----------------------------------------------------------------------------
(* A message that was packed is unpacked to itself: all types, values at   *)
(* the ends of their ranges, absent and repeated fields.                   *)
RoundTrip == mode = "codec" => C!RoundTrip

(* The size that is asked for first, to allocate the buffer, is the number *)
(* of bytes that the packer writes, and the packer that streams into a     *)
(* buffer writes the same bytes: every serializer in the library fails     *)
(* with SG_ERR_INVALID_PROTO_BUF when it is not.                           *)
SizeExact == mode = "codec" => C!SizeExact

(* repeated_field_pack makes room for one more byte of the length prefix,  *)
(* and asserts that it needs no more than that.                            *)
PrefixGrowsByOne == mode = "codec" => C!PrefixGrowsByOne

(* Bytes that end early are refused, or they end between two fields: what  *)
(* is read then is what these bytes say, and nothing is made up.  So it is *)
(* for every length that fits in a word together with its prefix.          *)
CutIsSeen == mode = "codec" => C!CutIsSeen

(* Two encodings one after the other are read like the message in which    *)
(* the second overrides the first and repeated values follow each other;   *)
(* but an empty byte string in an embedded message overrides nothing.      *)
JoinedIsMerged == mode = "codec" => C!JoinedIsMerged

(* The fields of the schema, and no others, are found by the binary search *)
(* over the ranges of ids; a reader that does not know a field hands it on *)
(* when it packs again.                                                    *)
UnknownSurvives == mode = "codec" => C!LookupExact /\ C!UnknownSurvives

(* A message is accepted, with the fields that were sent, if it arrives as *)
(* it was sent and between the two it was sent between.  A message that    *)
(* was cut or damaged is refused: MAC and signature cover the version,     *)
(* every field and themselves.  So is one that comes back to its sender or *)
(* reaches a third party: the MAC says who sends and who receives.         *)
AcceptedExactly == mode = "messages" => M!ArrivesWhole /\ M!DamageIsSeen /\ M!BoundToPair

(* A pre key message has no MAC of its own.  If a damaged one is accepted, *)
(* the message in it and the identity are still the ones that were sent;   *)
(* and so are all keys it names, unless a session reads it that was there  *)
(* before and does not need them.                                          *)
DamagedPreKeyIsHarmless == mode = "messages" => M!DamagedPreKeyIsHarmless

(* A client that does not know the kind tries one and then the other: no   *)
(* bytes of the one parse as the other, damaged or not.                    *)
KindsAreApart == mode = "messages" => M!KindsAreApart

(* Whatever was done to a record, what is saved can be read again, and is  *)
(* the same record, with its chains, kept keys and archived states in the  *)
(* order they had; only the mark that it is fresh is gone.  So is every    *)
(* pre key, signed pre key and identity key pair, for ids and times at the *)
(* ends of their ranges, and none is taken for a kind with more fields.    *)
SavedIsLoaded == mode = "records" => R!SavedIsLoaded /\ R!KeysAreLoaded

(* The archived states are the ones that were current last: the oldest     *)
(* ones are dropped, and saving and loading does not change their order.   *)
NewestArchived == mode = "records" => R!NewestArchived

(* Whatever distribution messages and messages were worked off, what is    *)
(* stored can be read again, and is the same record: the states in their   *)
(* order (the first with an id is the one used), and the keys of each      *)
(* state in theirs (the first is the one that has to go).                  *)
SenderKeysSurvive == mode = "senders" => S!SenderKeysSurvive

=============================================================================
