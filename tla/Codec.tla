-------------------------------- MODULE Codec ------------------------------
(***************************************************************************)
(* What may happen to the encoding of a message between the one who packs  *)
(* it and the one who unpacks it: it is cut short, as by a write that did  *)
(* not finish; it is followed by a second encoding; it passes through a    *)
(* reader that knows fewer fields and packs again what it has read.        *)
(***************************************************************************)
EXTENDS Wire

CONSTANTS
    Samples    \* pairs of a schema and two messages of it

VARIABLES
    schema, first, second,    \* what was packed
    bytes,                    \* its encoding now
    history                   \* "packed", "cut", "joined" or "passed"

vars == <<schema, first, second, bytes, history>>

Init ==
    /\ \E s \in Samples : schema = s.schema /\ first = s.first /\ second = s.second
    /\ bytes = Pack(schema, first)
    /\ history = "packed"

Change(b, h) ==
    /\ history = "packed"
    /\ bytes' = b
    /\ history' = h
    /\ UNCHANGED <<schema, first, second>>

Cut == \E n \in 0 .. Len(bytes) - 1 : Change(SubSeq(bytes, 1, n), "cut")

Join == Change(bytes \o Pack(schema, second), "joined")

(* A reader that knows all fields but one.                                 *)
Pass ==
    \E i \in DOMAIN schema :
        LET HandOn(older, u) == u.ok /\ Change(PackToBuffer(older, u.msg), "passed")
        IN  HandOn(RemoveAt(schema, i), Unpack(RemoveAt(schema, i), bytes))

Next == Cut \/ Join \/ Pass

Spec == Init /\ [][Next]_vars

Read == Unpack(schema, bytes)

(* Lengths at the ends of their digits, up to the last for which length    *)
(* and prefix fit in a word.                                               *)
Lengths ==
    {n \in UNION {{2 ^ k - 1, 2 ^ k} : k \in 0 .. WordBits} \cup {2 ^ WordBits - 1 - MaxDigits(WordBits)} :
        n > 0 /\ n < 2 ^ WordBits - MaxDigits(WordBits)}

----------------------------------------------------------------------------
(* A message that was packed is unpacked to itself: all types, values at   *)
(* the ends of their ranges, absent and repeated fields.                   *)
RoundTrip == history = "packed" => Read = [ok |-> TRUE, msg |-> first]

(* The size that is asked for first, to allocate the buffer, is the number *)
(* of bytes that the packer writes, and the packer that streams into a     *)
(* buffer writes the same bytes: every serializer in the library fails     *)
(* with SG_ERR_INVALID_PROTO_BUF when it is not.                           *)
SizeExact ==
    history = "packed" =>
        PackedSize(schema, first) = Len(bytes) /\ PackToBuffer(schema, first) = bytes

(* repeated_field_pack makes room for one more byte of the length prefix,  *)
(* and asserts that it needs no more than that.                            *)
PrefixGrowsByOne ==
    \A i \in DOMAIN schema :
        LET f == schema[i]
            r == ReservedPrefix(f, first[f.name])
        IN  f.packed /\ first[f.name] # <<>> =>
                UInt32Size(Len(PackedPayload(f, first[f.name]))) \in {r, r + 1}

(* Bytes that end early are refused, or they end between two fields: what  *)
(* is read then is what these bytes say, and nothing is made up.  So it is *)
(* for every length that fits in a word together with its prefix, however  *)
(* few bytes follow; for the few above it is not, see ScanLengthPrefixed,  *)
(* but no packer writes these.                                             *)
CutIsSeen ==
    LET Same(u) == u.ok => Pack(schema, u.msg) = bytes
        Short(prefix, n) == \A k \in {0, 1, n - 1} : k < n =>
                                ScanLengthPrefixed(prefix \o [i \in 1 .. k |-> 0]) = 0
    IN  /\ history = "cut" => Same(Read)
        /\ history = "cut" /\ bytes = <<>> =>
              \A n \in Lengths : Short(UInt32Pack(n), n)

(* The values of a field as merge_messages counts them.                    *)
Given(f, embedded, vs) == IF embedded /\ f.type = "bytes" /\ vs = <<<<>>>> THEN <<>> ELSE vs

RECURSIVE Override(_, _, _, _)
Override(s, a, b, embedded) ==
    [n \in DOMAIN a |->
        LET i == SelectInSeq(s, LAMBDA f : f.name = n)
        IN  IF i = 0 THEN IF embedded THEN b[n] ELSE a[n] \o b[n]
            ELSE IF s[i].label = "repeated" THEN a[n] \o b[n]
            ELSE IF Given(s[i], embedded, a[n]) = <<>> THEN b[n]
            ELSE IF Given(s[i], embedded, b[n]) = <<>> THEN a[n]
            ELSE IF s[i].type = "message" THEN <<Override(s[i].sub, a[n][1], b[n][1], TRUE)>>
            ELSE b[n]]

(* Two encodings one after the other are read like the message in which    *)
(* the second overrides the first and repeated values follow each other.   *)
(* In a message that is embedded, and so merged by merge_messages, an      *)
(* empty byte string does not override: it counts as one that is absent,   *)
(* though the comment on merge_messages says that all singular fields      *)
(* replace the former; and unknown fields of the first are gone.           *)
JoinedIsMerged ==
    history = "joined" => Read = [ok |-> TRUE, msg |-> Override(schema, first, second, FALSE)]

(* A reader that does not know a field hands it on when it packs again.    *)
UnknownSurvives == history = "passed" => Read = [ok |-> TRUE, msg |-> first]

(* The binary search over the ranges of ids finds the fields of the        *)
(* schema, and nothing else.                                               *)
LookupExact ==
    \A id \in 0 .. 2 ^ DigitBits :
        IntRangeLookup(schema, id) = SelectInSeq(schema, LAMBDA f : f.id = id)

=============================================================================
