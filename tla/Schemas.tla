------------------------------- MODULE Schemas -----------------------------
(***************************************************************************)
(* The descriptors that protoc-c generated: what the library keeps in a    *)
(* store (LocalStorageProtocol), sends (WhisperTextProtocol) and shows to  *)
(* be scanned (FingerprintProtocol).                                       *)
(***************************************************************************)

Field(name, id, label, type, sub) ==
    [name |-> name, id |-> id, label |-> label, type |-> type, packed |-> FALSE, sub |-> sub]

Optional(name, id, type) == Field(name, id, "optional", type, <<>>)

Nested(name, id, sub) == Field(name, id, "optional", "message", sub)

Repeated(name, id, sub) == Field(name, id, "repeated", "message", sub)

----------------------------------------------------------------------------
(* LocalStorageProtocol                                                    *)

ChainKeySchema == <<Optional("index", 1, "uint32"), Optional("key", 2, "bytes")>>

MessageKeySchema ==
    <<Optional("index", 1, "uint32"), Optional("cipherKey", 2, "bytes"),
      Optional("macKey", 3, "bytes"), Optional("iv", 4, "bytes")>>

ChainSchema ==
    <<Optional("senderRatchetKey", 1, "bytes"), Optional("senderRatchetKeyPrivate", 2, "bytes"),
      Nested("chainKey", 3, ChainKeySchema), Repeated("messageKeys", 4, MessageKeySchema)>>

PendingKeyExchangeSchema ==
    <<Optional("sequence", 1, "uint32"),
      Optional("localBaseKey", 2, "bytes"), Optional("localBaseKeyPrivate", 3, "bytes"),
      Optional("localRatchetKey", 4, "bytes"), Optional("localRatchetKeyPrivate", 5, "bytes"),
      Optional("localIdentityKey", 7, "bytes"), Optional("localIdentityKeyPrivate", 8, "bytes")>>

PendingPreKeySchema ==
    <<Optional("preKeyId", 1, "uint32"), Optional("baseKey", 2, "bytes"),
      Optional("signedPreKeyId", 3, "int32")>>

SessionSchema ==
    <<Optional("sessionVersion", 1, "uint32"), Optional("localIdentityPublic", 2, "bytes"),
      Optional("remoteIdentityPublic", 3, "bytes"), Optional("rootKey", 4, "bytes"),
      Optional("previousCounter", 5, "uint32"), Nested("senderChain", 6, ChainSchema),
      Repeated("receiverChains", 7, ChainSchema),
      Nested("pendingKeyExchange", 8, PendingKeyExchangeSchema),
      Nested("pendingPreKey", 9, PendingPreKeySchema),
      Optional("remoteRegistrationId", 10, "uint32"),
      Optional("localRegistrationId", 11, "uint32"),
      Optional("needsRefresh", 12, "bool"), Optional("aliceBaseKey", 13, "bytes")>>

RecordSchema ==
    <<Nested("currentSession", 1, SessionSchema), Repeated("previousSessions", 2, SessionSchema)>>

PreKeySchema ==
    <<Optional("id", 1, "uint32"), Optional("publicKey", 2, "bytes"),
      Optional("privateKey", 3, "bytes")>>

SignedPreKeySchema ==
    <<Optional("id", 1, "uint32"), Optional("publicKey", 2, "bytes"),
      Optional("privateKey", 3, "bytes"), Optional("signature", 4, "bytes"),
      Optional("timestamp", 5, "fixed64")>>

IdentityKeyPairSchema == <<Optional("publicKey", 1, "bytes"), Optional("privateKey", 2, "bytes")>>

SenderChainKeySchema == <<Optional("iteration", 1, "uint32"), Optional("seed", 2, "bytes")>>

SenderMessageKeySchema == <<Optional("iteration", 1, "uint32"), Optional("seed", 2, "bytes")>>

SenderSigningKeySchema == <<Optional("public", 1, "bytes"), Optional("private", 2, "bytes")>>

SenderKeyStateSchema ==
    <<Optional("senderKeyId", 1, "uint32"), Nested("senderChainKey", 2, SenderChainKeySchema),
      Nested("senderSigningKey", 3, SenderSigningKeySchema),
      Repeated("senderMessageKeys", 4, SenderMessageKeySchema)>>

SenderKeyRecordSchema == <<Repeated("senderKeyStates", 1, SenderKeyStateSchema)>>

----------------------------------------------------------------------------
(* WhisperTextProtocol                                                     *)

SignalMessageSchema ==
    <<Optional("ratchetKey", 1, "bytes"), Optional("counter", 2, "uint32"),
      Optional("previousCounter", 3, "uint32"), Optional("ciphertext", 4, "bytes")>>

PreKeySignalMessageSchema ==
    <<Optional("preKeyId", 1, "uint32"), Optional("baseKey", 2, "bytes"),
      Optional("identityKey", 3, "bytes"), Optional("message", 4, "bytes"),
      Optional("registrationId", 5, "uint32"), Optional("signedPreKeyId", 6, "uint32")>>

SenderKeyMessageSchema ==
    <<Optional("id", 1, "uint32"), Optional("iteration", 2, "uint32"),
      Optional("ciphertext", 3, "bytes")>>

DistributionMessageSchema ==
    <<Optional("id", 1, "uint32"), Optional("iteration", 2, "uint32"),
      Optional("chainKey", 3, "bytes"), Optional("signingKey", 4, "bytes")>>

DeviceConsistencySchema ==
    <<Optional("generation", 1, "uint32"), Optional("signature", 2, "bytes")>>

----------------------------------------------------------------------------
(* FingerprintProtocol                                                     *)

LogicalFingerprintSchema == <<Optional("content", 1, "bytes"), Optional("identifier", 2, "bytes")>>

CombinedFingerprintsSchema ==
    <<Optional("version", 1, "uint32"), Nested("localFingerprint", 2, LogicalFingerprintSchema),
      Nested("remoteFingerprint", 3, LogicalFingerprintSchema)>>

=============================================================================
