------------------------------- MODULE Messages ----------------------------
(***************************************************************************)
(* protocol.c: the four kinds of messages, as bytes that come from a       *)
(* network which may cut or damage them.                                   *)
(*                                                                         *)
(* A MAC and a signature are numbers computed from what they cover, spread *)
(* over as many bytes as the instance gives them.                          *)
(***************************************************************************)
EXTENDS Wire, Schemas, KeyFormat

CONSTANTS
    MacLen,    \* SIGNAL_MESSAGE_MAC_LENGTH    (8)
    SigLen,    \* SIGNATURE_LENGTH             (64)
    Sent,      \* the messages that are sent: records with kind and fields
    Noise      \* what a byte may be changed to

UnsupportedVersion == 1
CurrentVersion == 3

(* A number that no two inputs of an instance share.                       *)
Digest(s) == FoldLeft(LAMBDA h, x : (h * 31 + x + 7) % 65521, 1, s)

Spread(n, d) == [i \in 1 .. n |-> d]

Fails(why) == [res |-> why]

(* The version in the upper half of the first byte, the newest version in  *)
(* the lower half.                                                         *)
VersionByte(version) == version * 16 + CurrentVersion

VersionOf(b) == b[1] \div 16

Chop(b, tail) == SubSeq(b, 2, Len(b) - tail)

----------------------------------------------------------------------------
(* signal_message                                                          *)

(* signal_message_get_mac                                                  *)
GetMac(version, sender, receiver, key, b) ==
    LET ids == IF version >= 3 THEN EncodePoint(sender) \o EncodePoint(receiver) ELSE <<>>
    IN  Spread(MacLen, Digest(<<key>> \o ids \o b))

SignalFields(m) ==
    [Empty(SignalMessageSchema) EXCEPT
        !.ratchetKey = <<EncodePoint(m.ratchetKey)>>, !.counter = <<m.counter>>,
        !.previousCounter = <<m.previousCounter>>, !.ciphertext = <<m.ciphertext>>]

(* signal_message_serialize, and signal_message_create, which adds the MAC *)
SignalSerialize(m) ==
    LET WithMac(b) == b \o GetMac(m.version, m.sender, m.receiver, m.macKey, b)
    IN  WithMac(<<VersionByte(m.version)>> \o Pack(SignalMessageSchema, SignalFields(m)))

(* The second half of signal_message_deserialize: the fields.              *)
SignalOf(m, b) ==
    IF <<>> \in {m.ciphertext, m.counter, m.ratchetKey} THEN Fails("message")
    ELSE IF DecodePoint(m.ratchetKey[1]) = <<>> THEN Fails("key")
    ELSE [res |-> "ok", version |-> VersionOf(b), serialized |-> b,
          ratchetKey |-> DecodePoint(m.ratchetKey[1])[1], counter |-> m.counter[1],
          previousCounter |-> IF m.previousCounter = <<>> THEN 0 ELSE m.previousCounter[1],
          ciphertext |-> m.ciphertext[1]]

(* Mutant: the failed unpacking is not reported.                           *)
SignalDeserializeUnreported(b) ==
    LET Parsed(u) ==
            IF ~u.ok
            THEN [res |-> "ok", version |-> VersionOf(b), serialized |-> b, ratchetKey |-> 0,
                  counter |-> 0, previousCounter |-> 0, ciphertext |-> <<>>]
            ELSE SignalOf(u.msg, b)
    IN  IF Len(b) <= 1 + MacLen THEN Fails("inval")
        ELSE IF VersionOf(b) <= UnsupportedVersion THEN Fails("legacy")
        ELSE IF VersionOf(b) > CurrentVersion THEN Fails("message")
        ELSE Parsed(Unpack(SignalMessageSchema, Chop(b, MacLen)))

(* signal_message_deserialize                                              *)
SignalDeserialize(b) ==
    LET Parsed(u) == IF u.ok THEN SignalOf(u.msg, b) ELSE Fails("protobuf")
    IN  IF Len(b) <= 1 + MacLen THEN Fails("inval")
        ELSE IF VersionOf(b) <= UnsupportedVersion THEN Fails("legacy")
        ELSE IF VersionOf(b) > CurrentVersion THEN Fails("message")
        ELSE Parsed(Unpack(SignalMessageSchema, Chop(b, MacLen)))

(* Mutant: the last byte of the MAC is not compared.                       *)
VerifyMacPrefix(d, sender, receiver, key) ==
    LET n == Len(d.serialized) - MacLen
    IN  SubSeq(d.serialized, n + 1, n + MacLen - 1)
        = SubSeq(GetMac(d.version, sender, receiver, key, SubSeq(d.serialized, 1, n)), 1, MacLen - 1)

(* Mutant: the result of the comparison is not used.                       *)
VerifyMacIgnored(d, sender, receiver, key) == TRUE

(* signal_message_verify_mac                                               *)
VerifyMac(d, sender, receiver, key) ==
    LET n == Len(d.serialized) - MacLen
    IN  SubSeq(d.serialized, n + 1, n + MacLen)
        = GetMac(d.version, sender, receiver, key, SubSeq(d.serialized, 1, n))

----------------------------------------------------------------------------
(* pre_key_signal_message                                                  *)

PreKeyFields(m) ==
    [Empty(PreKeySignalMessageSchema) EXCEPT
        !.registrationId = <<m.registrationId>>, !.preKeyId = m.preKeyId,
        !.signedPreKeyId = <<m.signedPreKeyId>>, !.baseKey = <<EncodePoint(m.baseKey)>>,
        !.identityKey = <<EncodePoint(m.sender)>>, !.message = <<SignalSerialize(m)>>]

(* pre_key_signal_message_serialize                                        *)
PreKeySerialize(m) ==
    <<VersionByte(m.version)>> \o Pack(PreKeySignalMessageSchema, PreKeyFields(m))

(* pre_key_signal_message_deserialize                                      *)
PreKeyDeserialize(b) ==
    LET Whole(m, inner) ==
            IF inner.res # "ok" THEN Fails(inner.res)
            ELSE IF inner.version # VersionOf(b) THEN Fails("version")
            ELSE [res |-> "ok",
                  registrationId |-> IF m.registrationId = <<>> THEN 0 ELSE m.registrationId[1],
                  preKeyId |-> m.preKeyId, signedPreKeyId |-> m.signedPreKeyId[1],
                  baseKey |-> DecodePoint(m.baseKey[1])[1],
                  identityKey |-> DecodePoint(m.identityKey[1])[1], message |-> inner]
        Fields(m) ==
            IF <<>> \in {m.signedPreKeyId, m.baseKey, m.identityKey, m.message} THEN Fails("message")
            ELSE IF <<>> \in {DecodePoint(m.baseKey[1]), DecodePoint(m.identityKey[1])}
            THEN Fails("key")
            ELSE Whole(m, SignalDeserialize(m.message[1]))
        Parsed(u) == IF u.ok THEN Fields(u.msg) ELSE Fails("protobuf")
    IN  IF Len(b) <= 1 THEN Fails("inval")
        ELSE IF VersionOf(b) < CurrentVersion THEN Fails("legacy")
        ELSE IF VersionOf(b) > CurrentVersion THEN Fails("version")
        ELSE Parsed(Unpack(PreKeySignalMessageSchema, Chop(b, 0)))

(* The key that both ends get for the MAC depends on all keys that went    *)
(* into the secret: see SessionState.                                      *)
DerivedMacKey(base, identity, preKeyId, signedPreKeyId) ==
    Digest(<<base, identity, signedPreKeyId>> \o preKeyId)

----------------------------------------------------------------------------
(* sender_key_message                                                      *)

SenderKeyFields(m) ==
    [Empty(SenderKeyMessageSchema) EXCEPT
        !.id = <<m.id>>, !.iteration = <<m.iteration>>, !.ciphertext = <<m.ciphertext>>]

(* sender_key_message_serialize: a signature over all that comes before it *)
SenderKeySerialize(m) ==
    LET Sign(b) == b \o Spread(SigLen, Digest(<<m.signingKey>> \o b))
    IN  Sign(<<VersionByte(CurrentVersion)>> \o Pack(SenderKeyMessageSchema, SenderKeyFields(m)))

(* sender_key_message_deserialize                                          *)
SenderKeyDeserialize(b) ==
    LET Fields(m) ==
            IF <<>> \in {m.id, m.iteration, m.ciphertext} THEN Fails("message")
            ELSE [res |-> "ok", serialized |-> b, id |-> m.id[1], iteration |-> m.iteration[1],
                  ciphertext |-> m.ciphertext[1]]
        Parsed(u) == IF u.ok THEN Fields(u.msg) ELSE Fails("protobuf")
    IN  IF Len(b) <= 1 + SigLen THEN Fails("inval")
        ELSE IF VersionOf(b) < CurrentVersion THEN Fails("legacy")
        ELSE IF VersionOf(b) > CurrentVersion THEN Fails("version")
        ELSE Parsed(Unpack(SenderKeyMessageSchema, Chop(b, SigLen)))

(* sender_key_message_verify_signature                                     *)
VerifySignature(d, key) ==
    LET n == Len(d.serialized) - SigLen
    IN  SubSeq(d.serialized, n + 1, n + SigLen)
        = Spread(SigLen, Digest(<<key>> \o SubSeq(d.serialized, 1, n)))

----------------------------------------------------------------------------
(* sender_key_distribution_message                                         *)

DistributionFields(m) ==
    [Empty(DistributionMessageSchema) EXCEPT
        !.id = <<m.id>>, !.iteration = <<m.iteration>>, !.chainKey = <<m.chainKey>>,
        !.signingKey = <<EncodePoint(m.signingKey)>>]

(* sender_key_distribution_message_serialize                               *)
DistributionSerialize(m) ==
    <<VersionByte(CurrentVersion)>> \o Pack(DistributionMessageSchema, DistributionFields(m))

(* sender_key_distribution_message_deserialize                             *)
DistributionDeserialize(b) ==
    LET Fields(m) ==
            IF <<>> \in {m.id, m.iteration, m.chainKey, m.signingKey} THEN Fails("message")
            ELSE IF DecodePoint(m.signingKey[1]) = <<>> THEN Fails("key")
            ELSE [res |-> "ok", id |-> m.id[1], iteration |-> m.iteration[1],
                  chainKey |-> m.chainKey[1], signingKey |-> DecodePoint(m.signingKey[1])[1]]
        Parsed(u) == IF u.ok THEN Fields(u.msg) ELSE Fails("protobuf")
    IN  IF Len(b) <= 1 THEN Fails("inval")
        ELSE IF VersionOf(b) < CurrentVersion THEN Fails("legacy")
        ELSE IF VersionOf(b) > CurrentVersion THEN Fails("version")
        ELSE Parsed(Unpack(DistributionMessageSchema, Chop(b, 0)))

----------------------------------------------------------------------------
(* A message on its way                                                    *)

VARIABLES
    sent,      \* what was sent
    data,      \* the bytes, as they are now
    intact     \* whether they are the ones that were sent

vars == <<sent, data, intact>>

Serialize(m) ==
    CASE m.kind = "signal"       -> SignalSerialize(m)
      [] m.kind = "prekey"       ->
            PreKeySerialize([m EXCEPT !.macKey =
                DerivedMacKey(m.baseKey, m.sender, m.preKeyId, m.signedPreKeyId)])
      [] m.kind = "senderkey"    -> SenderKeySerialize(m)
      [] m.kind = "distribution" -> DistributionSerialize(m)

Init ==
    /\ sent \in Sent
    /\ data = Serialize(sent)
    /\ intact = TRUE

Lost(b) ==
    /\ intact
    /\ b # data
    /\ data' = b
    /\ intact' = FALSE
    /\ UNCHANGED sent

Cut == \E n \in 0 .. Len(data) - 1 : Lost(SubSeq(data, 1, n))

Damage == \E i \in DOMAIN data, x \in Noise : Lost([data EXCEPT ![i] = (@ + x) % 65536])

Next == Cut \/ Damage

Spec == Init /\ [][Next]_vars

(* The receiver accepts: session_cipher_decrypt_from_state_and_signal_     *)
(* message, with the identities of its session; group_cipher_decrypt.      *)
AcceptsSignal(d) ==
    /\ d.res = "ok" /\ d.version = sent.version
    /\ VerifyMac(d, sent.sender, sent.receiver, sent.macKey)

(* is_trusted_identity, for a receiver that has (`known`) or has not a     *)
(* session from an earlier pre key message of the sender: whoever is first *)
(* is trusted, and saved as such before the MAC is checked.                *)
IsTrusted(d, known) == known => d.identityKey = sent.sender

(* session_record_has_session_state, for the base key                      *)
HasSessionState(d, known) == known /\ d.baseKey = sent.baseKey

(* The message is read with the keys that are named in it.                 *)
ReadByNamedKeys(d) ==
    VerifyMac(d.message, d.identityKey, sent.receiver,
              DerivedMacKey(d.baseKey, d.identityKey, d.preKeyId, d.signedPreKeyId))

(* The message is read with the session that is there.                     *)
ReadBySession(d) ==
    VerifyMac(d.message, sent.sender, sent.receiver,
              DerivedMacKey(sent.baseKey, sent.sender, sent.preKeyId, sent.signedPreKeyId))

(* session_cipher_decrypt_pre_key_signal_message: the keys named in the    *)
(* message make a session, unless there is one for its base key; a session *)
(* that is there is tried as well.  Any key that is named can be loaded.   *)
AcceptsPreKey(d, known) ==
    /\ d.res = "ok" /\ IsTrusted(d, known)
    /\ \/ ~HasSessionState(d, known) /\ ReadByNamedKeys(d)
       \/ known /\ ReadBySession(d)

AcceptsSenderKey(d) == d.res = "ok" /\ VerifySignature(d, sent.signingKey)

----------------------------------------------------------------------------
SameSignal(d) ==
    /\ d.version = sent.version /\ d.ratchetKey = sent.ratchetKey /\ d.counter = sent.counter
    /\ d.previousCounter = sent.previousCounter /\ d.ciphertext = sent.ciphertext

SamePreKey(d) ==
    /\ SameSignal(d.message)
    /\ <<d.preKeyId, d.signedPreKeyId, d.baseKey, d.identityKey>>
       = <<sent.preKeyId, sent.signedPreKeyId, sent.baseKey, sent.sender>>

(* What arrives as it was sent is accepted, with the fields that were      *)
(* sent.                                                                   *)
ArrivesWhole ==
    LET SameSenderKey(d) ==
            <<d.id, d.iteration, d.ciphertext>> = <<sent.id, sent.iteration, sent.ciphertext>>
        WholeSignal(d)    == AcceptsSignal(d) /\ SameSignal(d)
        WholePreKey(d)    == /\ \A known \in BOOLEAN : AcceptsPreKey(d, known)
                             /\ SamePreKey(d) /\ d.registrationId = sent.registrationId
        WholeSenderKey(d) == AcceptsSenderKey(d) /\ SameSenderKey(d)
    IN  intact =>
            CASE sent.kind = "signal"    -> WholeSignal(SignalDeserialize(data))
              [] sent.kind = "prekey"    -> WholePreKey(PreKeyDeserialize(data))
              [] sent.kind = "senderkey" -> WholeSenderKey(SenderKeyDeserialize(data))
              [] sent.kind = "distribution" ->
                    DistributionDeserialize(data)
                    = [res |-> "ok", id |-> sent.id, iteration |-> sent.iteration,
                       chainKey |-> sent.chainKey, signingKey |-> sent.signingKey]

(* A message that was cut or damaged is refused: the MAC and the signature *)
(* cover the version, every field and themselves.                          *)
DamageIsSeen ==
    ~intact => /\ sent.kind = "signal" => ~AcceptsSignal(SignalDeserialize(data))
               /\ sent.kind = "senderkey" => ~AcceptsSenderKey(SenderKeyDeserialize(data))

(* A pre key message has no MAC of its own.  If a damaged one is accepted, *)
(* the message in it and the identity are still the ones that were sent;   *)
(* and so are all keys it names, unless a session reads it that was there  *)
(* before and does not need them.                                          *)
DamagedPreKeyIsHarmless ==
    LET Harmless(d, known) ==
            AcceptsPreKey(d, known) =>
                /\ SameSignal(d.message) /\ d.identityKey = sent.sender
                /\ known \/ SamePreKey(d)
        ForBoth(d) == \A known \in BOOLEAN : Harmless(d, known)
    IN  sent.kind = "prekey" => ForBoth(PreKeyDeserialize(data))

(* A client that does not know the kind tries one and then the other: no   *)
(* bytes of the one parse as the other, damaged or not.                    *)
KindsAreApart ==
    /\ sent.kind = "signal" => PreKeyDeserialize(data).res # "ok"
    /\ sent.kind = "prekey" => SignalDeserialize(data).res # "ok"

(* A message that comes back to its sender, or reaches a third party, is   *)
(* not taken for one between the two: the MAC says who sends and who       *)
(* receives.                                                               *)
BoundToPair ==
    LET Bound(d) ==
            \A s, r \in {sent.sender, sent.receiver, sent.ratchetKey} :
                VerifyMac(d, s, r, sent.macKey) <=> <<s, r>> = <<sent.sender, sent.receiver>>
    IN  (sent.kind = "signal" /\ intact /\ sent.version >= 3) => Bound(SignalDeserialize(data))

=============================================================================
