----------------------------- MODULE Fingerprints --------------------------
(***************************************************************************)
(* fingerprint.c: two users compare their identity keys, by reading a text *)
(* to each other or by scanning.  A user may have several keys, one per    *)
(* device, and learns those of the other one in any order and possibly out *)
(* of date.                                                                *)
(***************************************************************************)
EXTENDS Wire, Schemas, KeyFormat

CONSTANTS
    HashLen,          \* FINGERPRINT_LENGTH and the length of a scanned one   (30, 32)
    HashIterations,   \* iterations of the generator                          (5200)
    IdentityKeys      \* identity keys there are

VARIABLES
    owns,       \* the keys of each user's devices, in the order they were added
    believes,   \* the keys that each user takes for the other one's
    version     \* the scannable version each user's generator was created with

fingerprintVars == <<owns, believes, version>>

Users == {1, 2}

Other(u) == 3 - u

StableIdentifier(u) == <<u + 10, u>>

(* SHA-512, which is not part of the repository: any function that does    *)
(* not map two of the inputs here to the same output will do.              *)
Sha512(b) ==
    LET h == FoldLeft(LAMBDA acc, x : (acc * 31 + x + 7) % 3989, Len(b), b)
    IN  [i \in 1 .. HashLen |-> (h \div (ByteRadix ^ (i - 1))) % ByteRadix]

(* ec_public_key_list_sort                                                 *)
SortKeys(keys) == SortSeq(keys, LAMBDA x, y : x < y)

(* Mutant: keys are taken in the order they have.                          *)
LogicalKeyBytesUnsorted(keys) == FlattenSeq([i \in DOMAIN keys |-> EncodePoint(keys[i])])

(* fingerprint_generator_get_logical_key_bytes                             *)
LogicalKeyBytes(keys) ==
    LET sorted == SortKeys(keys)
    IN  FlattenSeq([i \in DOMAIN sorted |-> EncodePoint(sorted[i])])

(* fingerprint_generator_get_fingerprint                                   *)
GetFingerprint(identifier, identity) ==
    LET hash[i \in 0 .. HashIterations] ==
            IF i = 0 THEN <<0, 0>> \o identity \o identifier ELSE Sha512(hash[i - 1] \o identity)
    IN  hash[HashIterations]

(* fingerprint_generator_create_display_string: digits for every chunk of  *)
(* bytes; the order of the strings is the order of the digits.             *)
DisplayString(fingerprint) ==
    FoldLeft(LAMBDA acc, x : acc * ByteRadix + x, 0, fingerprint) % 100000

(* displayable_fingerprint_create                                          *)
DisplayText(local, remote) == IF local <= remote THEN <<local, remote>> ELSE <<remote, local>>

(* scannable_fingerprint_create: there are no identifiers in version 1.    *)
ScannableCreate(v, localId, local, remoteId, remote) ==
    LET Cut(b) == IF v = 0 \/ Len(b) <= HashLen THEN b ELSE SubSeq(b, 1, HashLen)
    IN  [version |-> v, localId |-> IF v = 0 THEN localId ELSE <<>>, local |-> Cut(local),
         remoteId |-> IF v = 0 THEN remoteId ELSE <<>>, remote |-> Cut(remote)]

(* fingerprint_generator_create_for_list and _create_for_impl              *)
CreateFor(u) ==
    LET Side(id, keys) == [id |-> id, keys |-> keys, fingerprint |-> GetFingerprint(id, keys)]
        Create(local, remote) ==
            [text |-> DisplayText(DisplayString(local.fingerprint), DisplayString(remote.fingerprint)),
             scannable |-> IF version[u] = 0
                           THEN ScannableCreate(0, local.id, local.keys, remote.id, remote.keys)
                           ELSE ScannableCreate(1, <<>>, local.fingerprint, <<>>, remote.fingerprint)]
    IN  Create(Side(StableIdentifier(u), LogicalKeyBytes(owns[u])),
               Side(StableIdentifier(Other(u)), LogicalKeyBytes(believes[u])))

(* scannable_fingerprint_serialize                                         *)
ScannableSerialize(s) ==
    LET Logical(id, content) ==
            [Empty(LogicalFingerprintSchema) EXCEPT
                !.content = <<content>>, !.identifier = IF s.version = 0 THEN <<id>> ELSE <<>>]
    IN  Pack(CombinedFingerprintsSchema,
             [Empty(CombinedFingerprintsSchema) EXCEPT
                 !.version = <<s.version>>,
                 !.localFingerprint = <<Logical(s.localId, s.local)>>,
                 !.remoteFingerprint = <<Logical(s.remoteId, s.remote)>>])

(* scannable_fingerprint_deserialize: what is missing is refused by        *)
(* scannable_fingerprint_create.                                           *)
ScannableDeserialize(b) ==
    LET Id(m) == IF m.identifier = <<>> THEN <<>> ELSE m.identifier[1]
        Create(v, sides) ==
            IF Len(sides) < 2 \/ \E i \in DOMAIN sides :
                   sides[i].content = <<>> \/ (v = 0 /\ sides[i].identifier = <<>>)
            THEN NoMessage
            ELSE [ok |-> TRUE,
                  scannable |-> ScannableCreate(v, Id(sides[1]), sides[1].content[1],
                                                Id(sides[2]), sides[2].content[1])]
        Read(u) == IF ~u.ok THEN NoMessage
                   ELSE Create(IF u.msg.version = <<>> THEN 0 ELSE u.msg.version[1],
                               u.msg.localFingerprint \o u.msg.remoteFingerprint)
    IN  Read(Unpack(CombinedFingerprintsSchema, b))

(* scannable_fingerprint_compare                                           *)
ScannableCompare(s, t) ==
    IF s.version # t.version THEN "version mismatch"
    ELSE IF s.version = 0 /\ <<s.localId, s.remoteId>> # <<t.remoteId, t.localId>>
         THEN "ident mismatch"
    ELSE IF <<s.local, s.remote>> = <<t.remote, t.local>> THEN "match" ELSE "no match"

----------------------------------------------------------------------------
Init ==
    /\ owns \in [Users -> {<<k>> : k \in IdentityKeys}]
    /\ believes = [u \in Users |-> owns[Other(u)]]
    /\ version \in [Users -> {0, 1}]

(* A user adds a device, or removes one.                                   *)
ChangeDevices(u) ==
    /\ \/ \E k \in IdentityKeys \ ToSet(owns[u]) : owns' = [owns EXCEPT ![u] = Append(@, k)]
       \/ /\ Len(owns[u]) > 1
          /\ owns' = [owns EXCEPT ![u] = Tail(@)]
    /\ UNCHANGED <<believes, version>>

(* A user learns the keys of the other one, in some order.                 *)
LearnKeys(u) ==
    \E keys \in SetToSeqs(ToSet(owns[Other(u)])) :
        /\ believes' = [believes EXCEPT ![u] = keys]
        /\ UNCHANGED <<owns, version>>

Next == \E u \in Users : ChangeDevices(u) \/ LearnKeys(u)

Spec == Init /\ [][Next]_fingerprintVars

----------------------------------------------------------------------------
UpToDate == \A u \in Users : ToSet(believes[u]) = ToSet(owns[Other(u)])

(* Both users see the same text exactly when each of them knows the keys   *)
(* the other one has, in whatever order they learned them.                 *)
TextsAgree == CreateFor(1).text = CreateFor(2).text <=> UpToDate

(* Scanning says that the keys match exactly when the texts agree, unless  *)
(* the versions differ, and never that they belong to someone else; it     *)
(* does not matter who scans.                                              *)
ScansAgree ==
    LET Verdict(mine, d) == IF d.ok THEN ScannableCompare(mine, d.scannable) ELSE "unreadable"
    IN  \A u \in Users :
            Verdict(CreateFor(u).scannable,
                    ScannableDeserialize(ScannableSerialize(CreateFor(Other(u)).scannable)))
            = IF version[1] # version[2] THEN "version mismatch"
              ELSE IF UpToDate THEN "match" ELSE "no match"

=============================================================================
