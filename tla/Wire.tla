-------------------------------- MODULE Wire -------------------------------
(***************************************************************************)
(* protobuf-c.c: how a message becomes bytes and bytes become a message.   *)
(*                                                                         *)
(* A schema is the sequence of fields of a descriptor, in the order of     *)
(* their ids.  A message maps the name of each field to the sequence of    *)
(* its values - empty, or one, unless the field is repeated - and          *)
(* "unknown" to the fields that the schema does not know.  Signed and      *)
(* floating point twins that are encoded alike share a type.               *)
(*                                                                         *)
(* The widths are constants, so that all lengths of a varint occur with    *)
(* small numbers: a byte has DigitBits bits of a number and one that says  *)
(* that more follow; a tag keeps three bits for the wire type.             *)
(***************************************************************************)
EXTENDS Integers, Sequences, FiniteSets, SequencesExt

CONSTANTS
    DigitBits,    \* payload of a byte of a varint   (7)
    WordBits,     \* uint32_t                        (32)
    LongBits      \* uint64_t                        (64)

ASSUME WireAssumption ==
    /\ DigitBits >= 3 /\ WordBits > DigitBits /\ LongBits > WordBits

Radix == 2 ^ DigitBits

ByteRadix == 2 * Radix

TypeBits == 3

(* The number of bytes that a varint of so many bits takes: 5 and 10.      *)
MaxDigits(bits) == (bits + DigitBits - 1) \div DigitBits

(* sizeof: 4 and 8                                                         *)
FixedLen(bits) == (bits + DigitBits) \div (DigitBits + 1)

SumOf(s) == FoldLeft(LAMBDA a, b : a + b, 0, s)

(* protobuf_c_message_init                                                 *)
Empty(schema) == [n \in {schema[i].name : i \in DOMAIN schema} \cup {"unknown"} |-> <<>>]

----------------------------------------------------------------------------
(* Sizes                                                                   *)

TagSize(id) ==
    1 + Cardinality({k \in 1 .. MaxDigits(WordBits) - 1 : id >= 2 ^ (DigitBits * k - TypeBits)})

UInt32Size(v) == 1 + Cardinality({k \in 1 .. MaxDigits(WordBits) - 1 : v >= 2 ^ (DigitBits * k)})

Int32Size(v) == IF v < 0 THEN MaxDigits(LongBits) ELSE UInt32Size(v)

(* Mutant: a number and its negative are the same.                         *)
ZigZagEven(v) == IF v < 0 THEN -2 * v ELSE 2 * v

ZigZag(v) == IF v < 0 THEN -2 * v - 1 ELSE 2 * v

(* The upper half decides once it is not zero.                             *)
UInt64Size(v) ==
    LET upper == v \div 2 ^ WordBits
    IN  IF upper = 0 THEN UInt32Size(v)
        ELSE MaxDigits(WordBits)
             + Cardinality({k \in MaxDigits(WordBits) .. MaxDigits(LongBits) - 1 :
                                upper >= 2 ^ (DigitBits * k - WordBits)})

(* A length and so many bytes.                                             *)
PrefixedSize(n) == UInt32Size(n) + n

SInt32Size(v) == UInt32Size(ZigZag(v))

SInt64Size(v) == UInt64Size(ZigZag(v))

RECURSIVE PackedSize(_, _)

(* required_field_get_packed_size, without the tag                         *)
ValueSize(f, v) ==
    CASE f.type = "uint32"  -> UInt32Size(v)
      [] f.type = "int32"   -> Int32Size(v)
      [] f.type = "sint32"  -> SInt32Size(v)
      [] f.type = "uint64"  -> UInt64Size(v)
      [] f.type = "sint64"  -> SInt64Size(v)
      [] f.type = "fixed32" -> FixedLen(WordBits)
      [] f.type = "fixed64" -> FixedLen(LongBits)
      [] f.type = "bool"    -> 1
      [] f.type = "bytes"   -> PrefixedSize(Len(v))
      [] f.type = "message" -> PrefixedSize(PackedSize(f.sub, v))

(* get_packed_payload_length                                               *)
PayloadLength(f, vs) == SumOf([i \in DOMAIN vs |-> ValueSize(f, vs[i])])

(* repeated_field_get_packed_size; the same, for at most one value, as     *)
(* what is done for required and optional fields                           *)
FieldSize(f, vs) ==
    LET Size(n) == IF f.packed THEN TagSize(f.id) + PrefixedSize(n) ELSE Len(vs) * TagSize(f.id) + n
    IN  IF vs = <<>> THEN 0 ELSE Size(PayloadLength(f, vs))

UnknownSize(u) == TagSize(u.id) + Len(u.data)

(* protobuf_c_message_get_packed_size                                      *)
PackedSize(schema, m) ==
    SumOf([i \in DOMAIN schema |-> FieldSize(schema[i], m[schema[i].name])])
    + SumOf([i \in DOMAIN m.unknown |-> UnknownSize(m.unknown[i])])

----------------------------------------------------------------------------
(* Packing                                                                 *)

RECURSIVE UInt64Pack(_)
UInt64Pack(v) ==
    IF v < Radix THEN <<v>> ELSE <<Radix + (v % Radix)>> \o UInt64Pack(v \div Radix)

UInt32Pack(v) == UInt64Pack(v)

(* Mutant: a negative number is cut to 32 bits.                            *)
Int32PackShort(v) == UInt32Pack(v % 2 ^ WordBits)

(* A negative number is extended to 64 bits.                               *)
Int32Pack(v) == UInt64Pack(v % 2 ^ LongBits)

(* fixed32_pack, fixed64_pack: little endian                               *)
FixedPack(v, bits) ==
    [i \in 1 .. FixedLen(bits) |-> (v \div ByteRadix ^ (i - 1)) % ByteRadix]

WireOf(type) ==
    CASE type \in {"uint32", "int32", "sint32", "uint64", "sint64", "bool"} -> 0
      [] type = "fixed64" -> 1
      [] type \in {"bytes", "message"} -> 2
      [] type = "fixed32" -> 5

(* tag_pack, with the wire type or-ed into the first byte                  *)
TagPack(id, wire) == [UInt64Pack(id * 2 ^ TypeBits) EXCEPT ![1] = @ + wire]

(* A length and the bytes.                                                 *)
Prefixed(b) == UInt32Pack(Len(b)) \o b

(* What every type but a message is packed to, in all four packers.        *)
ScalarPack(type, v) ==
    CASE type = "uint32"  -> UInt32Pack(v)
      [] type = "int32"   -> Int32Pack(v)
      [] type = "sint32"  -> UInt32Pack(ZigZag(v))
      [] type = "uint64"  -> UInt64Pack(v)
      [] type = "sint64"  -> UInt64Pack(ZigZag(v))
      [] type = "fixed32" -> FixedPack(v, WordBits)
      [] type = "fixed64" -> FixedPack(v, LongBits)
      [] type = "bool"    -> <<v>>
      [] type = "bytes"   -> Prefixed(v)

RECURSIVE Pack(_, _)

(* required_field_pack; prefixed_message_pack counts what it has written.  *)
ValuePack(f, v) ==
    TagPack(f.id, WireOf(f.type))
    \o IF f.type = "message" THEN Prefixed(Pack(f.sub, v))
       ELSE ScalarPack(f.type, v)

(* get_type_min_size: 4, 8, or 1 for a varint                              *)
TypeMinSize(type) ==
    IF type = "fixed32" THEN FixedLen(WordBits)
    ELSE IF type = "fixed64" THEN FixedLen(LongBits) ELSE 1

(* repeated_field_pack of a packed field reserves the length prefix for    *)
(* the shortest encoding of the values, writes them, and makes room when   *)
(* the prefix turns out longer.  It can make room for one byte only.       *)
PackedPayload(f, vs) == FlattenSeq([i \in DOMAIN vs |-> ScalarPack(f.type, vs[i])])

(* Mutant: the prefix is reserved for the longest encoding.                *)
ReservedPrefixLong(f, vs) == UInt32Size(MaxDigits(LongBits) * Len(vs))

ReservedPrefix(f, vs) == UInt32Size(TypeMinSize(f.type) * Len(vs))

FieldPack(f, vs) ==
    IF vs = <<>> THEN <<>>
    ELSE IF f.packed
    THEN TagPack(f.id, 2) \o Prefixed(PackedPayload(f, vs))
    ELSE FlattenSeq([i \in DOMAIN vs |-> ValuePack(f, vs[i])])

(* Mutant: the wire type of an unknown field is not kept.                  *)
UnknownPackVarint(u) == TagPack(u.id, 0) \o u.data

UnknownPack(u) == TagPack(u.id, u.wire) \o u.data

(* protobuf_c_message_pack                                                 *)
Pack(schema, m) ==
    FlattenSeq([i \in DOMAIN schema |-> FieldPack(schema[i], m[schema[i].name])])
    \o FlattenSeq([i \in DOMAIN m.unknown |-> UnknownPack(m.unknown[i])])

----------------------------------------------------------------------------
(* Packing into a buffer that grows: lengths come first, so they are those *)
(* that the size functions compute.                                        *)

RECURSIVE PackToBuffer(_, _)

(* required_field_pack_to_buffer                                           *)
ValuePackToBuffer(f, v) ==
    TagPack(f.id, WireOf(f.type))
    \o IF f.type = "message"
       THEN UInt32Pack(PackedSize(f.sub, v)) \o PackToBuffer(f.sub, v)
       ELSE ScalarPack(f.type, v)

(* repeated_field_pack_to_buffer                                           *)
FieldPackToBuffer(f, vs) ==
    IF vs = <<>> THEN <<>>
    ELSE IF f.packed
    THEN TagPack(f.id, 2) \o UInt32Pack(PayloadLength(f, vs)) \o PackedPayload(f, vs)
    ELSE FlattenSeq([i \in DOMAIN vs |-> ValuePackToBuffer(f, vs[i])])

(* protobuf_c_message_pack_to_buffer                                       *)
PackToBuffer(schema, m) ==
    FlattenSeq([i \in DOMAIN schema |-> FieldPackToBuffer(schema[i], m[schema[i].name])])
    \o FlattenSeq([i \in DOMAIN m.unknown |-> UnknownPack(m.unknown[i])])

----------------------------------------------------------------------------
(* Unpacking                                                               *)

(* The ranges of consecutive ids of a descriptor; the last entry only ends *)
(* the one before.  Indices count from 0, as in the tables.                *)
Ranges(schema) ==
    LET From(starts) ==
            [r \in DOMAIN starts |-> [start |-> schema[starts[r]].id, index |-> starts[r] - 1]]
    IN  From(SelectSeq([i \in DOMAIN schema |-> i],
                       LAMBDA i : i = 1 \/ schema[i].id # schema[i - 1].id + 1))
        \o <<[start |-> 0, index |-> Len(schema)]>>

(* One step of the binary search of int_range_lookup, which looks at the   *)
(* n ranges from `start` on, counted from 0.                               *)
RECURSIVE RangeSearch(_, _, _, _)
RangeSearch(ranges, start, n, value) ==
    LET At(mid, here, size) ==
            IF value < here.start
            THEN IF n > 1 THEN RangeSearch(ranges, start, mid - start, value) ELSE -1
            ELSE IF value >= here.start + size
            THEN IF n > 1 THEN RangeSearch(ranges, mid + 1, start + n - (mid + 1), value) ELSE -1
            ELSE value - here.start + here.index
        Look(mid) == At(mid, ranges[mid + 1], ranges[mid + 2].index - ranges[mid + 1].index)
    IN  IF n = 0 THEN -1 ELSE Look(IF n > 1 THEN start + n \div 2 ELSE start)

(* The position of a field in the schema, or 0.                            *)
IntRangeLookup(schema, id) ==
    LET Search(ranges) == 1 + RangeSearch(ranges, 0, Len(ranges) - 1, id)
    IN  Search(Ranges(schema))

(* The length of the varint that starts the bytes, or 0 if none ends       *)
(* within max bytes.                                                       *)
ScanVarint(b, max) ==
    LET ends == {i \in 1 .. max : i <= Len(b) /\ b[i] < Radix}
    IN  IF ends = {} THEN 0 ELSE CHOOSE i \in ends : \A j \in ends : i <= j

(* The number in the first max digits.                                     *)
Digits(b, max) ==
    SumOf([i \in 1 .. (IF Len(b) < max THEN Len(b) ELSE max) |-> (b[i] % Radix) * Radix ^ (i - 1)])

ParseUInt32(b) == Digits(b, MaxDigits(WordBits)) % 2 ^ WordBits

ParseUInt64(b) == Digits(b, MaxDigits(LongBits)) % 2 ^ LongBits

Signed(v, bits) == IF v >= 2 ^ (bits - 1) THEN v - 2 ^ bits ELSE v

UnZigZag(v) == IF v % 2 = 1 THEN -(v \div 2) - 1 ELSE v \div 2

ParseFixed(b) == SumOf([i \in DOMAIN b |-> b[i] * ByteRadix ^ (i - 1)])

ParseBoolean(b) == IF \E i \in DOMAIN b : b[i] % Radix # 0 THEN 1 ELSE 0

(* parse_tag_and_wiretype; used is 0 for a bad header                      *)
ParseTag(b) ==
    LET Tag(used) ==
            [used |-> used, wire |-> b[1] % 2 ^ TypeBits,
             id   |-> Digits(SubSeq(b, 1, used), used) \div 2 ^ TypeBits]
    IN  Tag(ScanVarint(b, MaxDigits(WordBits)))

(* Mutant: data that ends early is taken as far as it goes.                *)
ScanLengthPrefixedUnchecked(b) ==
    LET Fits(n)     == IF n > Len(b) THEN Len(b) ELSE n
        After(used) == IF used = 0 THEN 0 ELSE Fits(used + ParseUInt32(SubSeq(b, 1, used)))
    IN  After(ScanVarint(b, MaxDigits(WordBits)))

(* scan_length_prefixed_data: the length with the prefix, or 0.  The sum   *)
(* is a uint32_t: for a length that leaves no room in it for the prefix it *)
(* starts again at 0, and the check does not see that the bytes end early. *)
ScanLengthPrefixed(b) ==
    LET Fits(n)     == IF n > Len(b) THEN 0 ELSE n
        After(used) == IF used = 0 THEN 0
                       ELSE Fits((used + ParseUInt32(SubSeq(b, 1, used))) % 2 ^ WordBits)
    IN  After(ScanVarint(b, MaxDigits(WordBits)))

(* The length of a member, by its wire type, or 0 if the bytes end early.  *)
MemberLen(wire, b) ==
    LET Whole(n) == IF n <= Len(b) THEN n ELSE 0
    IN  CASE wire = 0 -> ScanVarint(b, MaxDigits(LongBits))
          [] wire = 1 -> Whole(FixedLen(LongBits))
          [] wire = 2 -> ScanLengthPrefixed(b)
          [] wire = 5 -> Whole(FixedLen(WordBits))
          [] OTHER    -> 0

NoMessage == [ok |-> FALSE]

(* What was scanned or parsed, in front of the rest - if that is fine too. *)
Before(x, more) ==
    IF more.ok THEN [ok |-> TRUE, values |-> <<x>> \o more.values] ELSE NoMessage

(* The scan of protobuf_c_message_unpack.                                  *)
RECURSIVE Scan(_)
Scan(b) ==
    LET Member(tag, rest, n) ==
            IF n = 0 THEN NoMessage
            ELSE Before([id |-> tag.id, wire |-> tag.wire, data |-> SubSeq(rest, 1, n)],
                        Scan(SubSeq(rest, n + 1, Len(rest))))
        Data(tag, rest) == Member(tag, rest, MemberLen(tag.wire, rest))
        Tagged(tag) == IF tag.used = 0 THEN NoMessage ELSE Data(tag, SubSeq(b, tag.used + 1, Len(b)))
    IN  IF b = <<>> THEN [ok |-> TRUE, values |-> <<>>] ELSE Tagged(ParseTag(b))

(* Bytes that are not of the buffer: what they are, the code cannot know.  *)
Beyond == <<ByteRadix>>

(* The bytes after the length prefix.  A member shorter than its prefix is *)
(* one whose length was not seen to be too long: len - pref_len starts     *)
(* again at the top, and what is copied are bytes behind the buffer.       *)
Body(data) ==
    LET After(used) == IF used = 0 THEN Beyond ELSE SubSeq(data, used + 1, Len(data))
    IN  After(ScanVarint(data, MaxDigits(WordBits)))

(* The value of a member of any type but message.                          *)
ScalarParse(type, data) ==
    CASE type = "uint32"  -> ParseUInt32(data)
      [] type = "int32"   -> Signed(ParseUInt32(data), WordBits)
      [] type = "sint32"  -> UnZigZag(ParseUInt32(data))
      [] type = "uint64"  -> ParseUInt64(data)
      [] type = "sint64"  -> UnZigZag(ParseUInt64(data))
      [] type \in {"fixed32", "fixed64"} -> ParseFixed(data)
      [] type = "bool"    -> ParseBoolean(data)
      [] type = "bytes"   -> Body(data)

(* merge_messages: the values of a field that occurs in two messages.  An  *)
(* empty byte string has no data and gives way to the earlier one.         *)
RECURSIVE Merge(_, _, _)
(* Mutant: the earlier value of a field wins.                              *)
MergeFieldEarlier(f, earlier, latter) ==
    IF f.label = "repeated" THEN earlier \o latter
    ELSE IF earlier = <<>> THEN latter ELSE earlier

MergeField(f, earlier, latter) ==
    CASE f.label = "repeated" -> earlier \o latter
      [] f.label = "required" -> latter
      [] f.label = "optional" /\ f.type = "message" /\ earlier # <<>> /\ latter # <<>> ->
             <<Merge(f.sub, earlier[1], latter[1])>>
      [] f.label = "optional" /\ f.type = "bytes" ->
             IF earlier \notin {<<>>, <<<<>>>>} /\ latter \in {<<>>, <<<<>>>>} THEN earlier ELSE latter
      [] OTHER -> IF latter = <<>> THEN earlier ELSE latter

Merge(schema, earlier, latter) ==
    [n \in DOMAIN latter |->
        IF n = "unknown" THEN latter.unknown
        ELSE LET f == schema[CHOOSE i \in DOMAIN schema : schema[i].name = n]
             IN  MergeField(f, earlier[n], latter[n])]

(* The elements of a packed field; count_packed_elements refuses fixed     *)
(* ones whose length does not fit, scan_varint those that do not end.      *)
RECURSIVE ParsePacked(_, _)
ParsePacked(type, b) ==
    LET Element(n) ==
            IF n = 0 \/ n > Len(b) THEN NoMessage
            ELSE IF type = "bool" /\ b[1] > 1 THEN NoMessage
            ELSE Before(ScalarParse(type, SubSeq(b, 1, n)),
                        ParsePacked(type, SubSeq(b, n + 1, Len(b))))
    IN  IF b = <<>> THEN [ok |-> TRUE, values |-> <<>>]
        ELSE Element(IF type \in {"fixed32", "fixed64", "bool"} THEN TypeMinSize(type)
                     ELSE ScanVarint(b, MaxDigits(LongBits)))

RECURSIVE Unpack(_, _)

(* parse_required_member: a single value.  A boolean may come with any     *)
(* wire type.  A message is merged with the one that came before it.       *)
ParseValue(f, mem, before) ==
    IF f.type # "bool" /\ mem.wire # WireOf(f.type) THEN NoMessage
    ELSE IF f.type # "message" THEN [ok |-> TRUE, values |-> <<ScalarParse(f.type, mem.data)>>]
    ELSE LET Merged(u) ==
                 IF ~u.ok THEN NoMessage
                 ELSE [ok |-> TRUE, values |-> <<IF before = <<>> THEN u.msg
                                                 ELSE Merge(f.sub, before[1], u.msg)>>]
         IN  Merged(Unpack(f.sub, Body(mem.data)))

IsPackable(type) == type \notin {"bytes", "message"}

(* parse_member for a field of the schema: its values after this member.   *)
ParseField(f, mem, old) ==
    LET repeated == f.label = "repeated"
        After(r) == IF r.ok /\ repeated THEN [r EXCEPT !.values = old \o @] ELSE r
    IN  After(IF repeated /\ mem.wire = 2 /\ (f.packed \/ IsPackable(f.type))
              THEN ParsePacked(f.type, Body(mem.data))
              ELSE ParseValue(f, mem, IF repeated THEN <<>> ELSE old))

(* parse_member                                                            *)
ParseMember(schema, m, mem) ==
    LET Set(name, r) == IF r.ok THEN [ok |-> TRUE, msg |-> [m EXCEPT ![name] = r.values]] ELSE NoMessage
        Known(f) == Set(f.name, ParseField(f, mem, m[f.name]))
        At(i) == IF i = 0 THEN [ok |-> TRUE, msg |-> [m EXCEPT !.unknown = Append(@, mem)]]
                 ELSE Known(schema[i])
    IN  At(IntRangeLookup(schema, mem.id))

(* protobuf_c_message_unpack                                               *)
Unpack(schema, b) ==
    LET Parse(s) ==
            IF ~s.ok THEN NoMessage
            ELSE IF \E i \in DOMAIN schema : schema[i].label = "required"
                        /\ \A k \in DOMAIN s.values : s.values[k].id # schema[i].id
            THEN NoMessage
            ELSE FoldLeft(LAMBDA acc, mem : IF acc.ok THEN ParseMember(schema, acc.msg, mem) ELSE acc,
                          [ok |-> TRUE, msg |-> Empty(schema)], s.values)
    IN  Parse(Scan(b))

=============================================================================
