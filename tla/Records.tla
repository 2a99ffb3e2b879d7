------------------------------- MODULE Records -----------------------------
(***************************************************************************)
(* What is kept in a store, and how it is written and read again:          *)
(* session_record.c and session_state.c with all fields of a state, and    *)
(* the pre keys and the identity key pair.  A record is changed by the     *)
(* setters that the ratchet, the builder and the cipher call, in any       *)
(* order, and is saved and loaded in between.                              *)
(*                                                                         *)
(* A field that may be absent is a sequence of at most one value.          *)
(***************************************************************************)
EXTENDS Wire, Schemas, KeyFormat

CONSTANTS
    MaxChains,      \* receiver chains kept in a state            (5)
    MaxKept,        \* MAX_MESSAGE_KEYS, of a receiver chain      (2000)
    MaxArchived,    \* ARCHIVED_STATES_MAX_LENGTH                 (40)
    Keys,           \* numbers of keys and key pairs
    Counters,       \* chain indices and previous counters
    Ids,            \* pre key ids and registration ids
    MaxCalls        \* bound on calls

----------------------------------------------------------------------------
(* Writing                                                                 *)

Seqs(op(_), s) == [i \in DOMAIN s |-> op(s[i])]

Public(pairs) == [i \in DOMAIN pairs |-> EncodePoint(pairs[i].public)]

Private(pairs) == [i \in DOMAIN pairs |-> EncodePrivate(pairs[i].private)]

(* session_state_serialize_prepare_chain_chain_key                         *)
ChainKeyFields(c) == [Empty(ChainKeySchema) EXCEPT !.index = <<c.index>>, !.key = <<<<c.key>>>>]

(* session_state_serialize_prepare_chain_message_keys                      *)
MessageKeyFields(k) ==
    [Empty(MessageKeySchema) EXCEPT !.index = <<k.counter>>, !.cipherKey = <<k.cipher>>,
                                    !.macKey = <<k.mac>>, !.iv = <<k.iv>>]

(* session_state_serialize_prepare_sender_chain                            *)
SenderChainFields(c) ==
    [Empty(ChainSchema) EXCEPT
        !.senderRatchetKey = Public(c.ratchet), !.senderRatchetKeyPrivate = Private(c.ratchet),
        !.chainKey = Seqs(ChainKeyFields, c.chainKey)]

(* Mutant: the kept message keys are written newest first.                 *)
ReceiverChainFieldsReversed(c) ==
    [Empty(ChainSchema) EXCEPT
        !.senderRatchetKey = Seqs(EncodePoint, c.ratchet),
        !.chainKey = Seqs(ChainKeyFields, c.chainKey),
        !.messageKeys = Reverse(Seqs(MessageKeyFields, c.messageKeys))]

(* session_state_serialize_prepare_receiver_chain                          *)
ReceiverChainFields(c) ==
    [Empty(ChainSchema) EXCEPT
        !.senderRatchetKey = Seqs(EncodePoint, c.ratchet),
        !.chainKey = Seqs(ChainKeyFields, c.chainKey),
        !.messageKeys = Seqs(MessageKeyFields, c.messageKeys)]

(* session_state_serialize_prepare_pending_key_exchange                    *)
PendingKeyExchangeFields(e) ==
    [Empty(PendingKeyExchangeSchema) EXCEPT
        !.sequence = <<e.sequence>>,
        !.localBaseKey = Public(e.base), !.localBaseKeyPrivate = Private(e.base),
        !.localRatchetKey = Public(e.ratchet), !.localRatchetKeyPrivate = Private(e.ratchet),
        !.localIdentityKey = Public(e.identity), !.localIdentityKeyPrivate = Private(e.identity)]

(* session_state_serialize_prepare_pending_pre_key: the id of the signed   *)
(* pre key is cast to a signed integer.                                    *)
PendingPreKeyFields(p) ==
    [Empty(PendingPreKeySchema) EXCEPT
        !.preKeyId = p.preKeyId, !.signedPreKeyId = <<Signed(p.signedPreKeyId, WordBits)>>,
        !.baseKey = Seqs(EncodePoint, p.baseKey)]

(* session_state_serialize_prepare                                         *)
SessionFields(st) ==
    [Empty(SessionSchema) EXCEPT
        !.sessionVersion = <<st.version>>,
        !.localIdentityPublic = Seqs(EncodePoint, st.localIdentity),
        !.remoteIdentityPublic = Seqs(EncodePoint, st.remoteIdentity),
        !.rootKey = Seqs(EncodePrivate, st.rootKey),
        !.previousCounter = <<st.previousCounter>>,
        !.senderChain = Seqs(SenderChainFields, st.senderChain),
        !.receiverChains = Seqs(ReceiverChainFields, st.receiverChains),
        !.pendingKeyExchange = Seqs(PendingKeyExchangeFields, st.pendingKeyExchange),
        !.pendingPreKey = Seqs(PendingPreKeyFields, st.pendingPreKey),
        !.remoteRegistrationId = <<st.remoteRegistrationId>>,
        !.localRegistrationId = <<st.localRegistrationId>>,
        !.needsRefresh = <<st.needsRefresh>>,
        !.aliceBaseKey = Seqs(EncodePoint, st.aliceBaseKey)]

(* session_record_serialize                                                *)
RecordSerialize(rec) ==
    Pack(RecordSchema,
         [Empty(RecordSchema) EXCEPT !.currentSession = <<SessionFields(rec.state)>>,
                                     !.previousSessions = Seqs(SessionFields, rec.previous)])

----------------------------------------------------------------------------
(* Reading                                                                 *)

Points(s) == IF s = <<>> THEN <<>> ELSE DecodePoint(s[1])

Pairs(public, private) ==
    IF <<>> \in {public, private} THEN <<>> ELSE DecodePair(public[1], private[1])

Default(s, d) == IF s = <<>> THEN d ELSE s[1]

(* In both of the readers below: no chain key unless both fields are there *)
ChainKeyOf(s) ==
    IF s = <<>> \/ s[1].key = <<>> \/ s[1].index = <<>> THEN <<>>
    ELSE <<[index |-> s[1].index[1], key |-> s[1].key[1][1]]>>

(* A key of the wrong length is left at zero.                              *)
MessageKeyOf(m) ==
    LET Exactly(s, n) == IF s # <<>> /\ Len(s[1]) = n THEN s[1] ELSE [i \in 1 .. n |-> 0]
    IN  [counter |-> Default(m.index, 0), cipher |-> Exactly(m.cipherKey, 2),
         mac |-> Exactly(m.macKey, 2), iv |-> Exactly(m.iv, 1)]

(* session_state_deserialize_protobuf_sender_chain                         *)
SenderChainOf(m) ==
    [ratchet  |-> Pairs(m.senderRatchetKey, m.senderRatchetKeyPrivate),
     chainKey |-> ChainKeyOf(m.chainKey)]

(* session_state_deserialize_protobuf_receiver_chain                       *)
ReceiverChainOf(m) ==
    [ratchet |-> Points(m.senderRatchetKey), chainKey |-> ChainKeyOf(m.chainKey),
     messageKeys |-> Seqs(MessageKeyOf, m.messageKeys)]

(* session_state_deserialize_protobuf_pending_key_exchange                 *)
PendingKeyExchangeOf(m) ==
    [sequence |-> Default(m.sequence, 0),
     base     |-> Pairs(m.localBaseKey, m.localBaseKeyPrivate),
     ratchet  |-> Pairs(m.localRatchetKey, m.localRatchetKeyPrivate),
     identity |-> Pairs(m.localIdentityKey, m.localIdentityKeyPrivate)]

(* session_state_deserialize_protobuf_pending_pre_key                      *)
PendingPreKeyOf(m) ==
    [preKeyId |-> m.preKeyId, signedPreKeyId |-> Default(m.signedPreKeyId, 0) % 2 ^ WordBits,
     baseKey |-> Points(m.baseKey)]

(* session_state_deserialize_protobuf                                      *)
SessionOf(m) ==
    [version |-> Default(m.sessionVersion, 2),
     localIdentity |-> Points(m.localIdentityPublic),
     remoteIdentity |-> Points(m.remoteIdentityPublic),
     rootKey |-> IF m.rootKey = <<>> THEN <<>> ELSE DecodePrivate(m.rootKey[1]),
     previousCounter |-> Default(m.previousCounter, 0),
     senderChain |-> Seqs(SenderChainOf, m.senderChain),
     receiverChains |-> Seqs(ReceiverChainOf, m.receiverChains),
     pendingKeyExchange |-> Seqs(PendingKeyExchangeOf, m.pendingKeyExchange),
     pendingPreKey |-> Seqs(PendingPreKeyOf, m.pendingPreKey),
     remoteRegistrationId |-> Default(m.remoteRegistrationId, 0),
     localRegistrationId |-> Default(m.localRegistrationId, 0),
     needsRefresh |-> Default(m.needsRefresh, 0),
     aliceBaseKey |-> Points(m.aliceBaseKey)]

(* The error paths of the readers: a key that cannot be decoded, or a root *)
(* key or the key of a receiver chain with a version that hkdf_create does *)
(* not know.  What goes wrong with the sender chain is not noticed.        *)
Readable(m) ==
    LET PointOk(s)   == s # <<>> => DecodePoint(s[1]) # <<>>
        PairOk(p, q) == <<>> \notin {p, q} => DecodePair(p[1], q[1]) # <<>>
        chains       == m.receiverChains
    IN  /\ \A s \in {m.localIdentityPublic, m.remoteIdentityPublic, m.aliceBaseKey} : PointOk(s)
        /\ \A i \in DOMAIN chains : PointOk(chains[i].senderRatchetKey)
        /\ \A i \in DOMAIN m.pendingPreKey : PointOk(m.pendingPreKey[i].baseKey)
        /\ \A i \in DOMAIN m.pendingKeyExchange :
              LET e == m.pendingKeyExchange[i]
              IN  /\ PairOk(e.localBaseKey, e.localBaseKeyPrivate)
                  /\ PairOk(e.localRatchetKey, e.localRatchetKeyPrivate)
                  /\ PairOk(e.localIdentityKey, e.localIdentityKeyPrivate)
        /\ (m.rootKey # <<>> \/ \E i \in DOMAIN chains : chains[i].chainKey # <<>>)
              => Default(m.sessionVersion, 2) \in {2, 3}

(* session_state_create                                                    *)
NewState ==
    [version |-> 2, localIdentity |-> <<>>, remoteIdentity |-> <<>>, rootKey |-> <<>>,
     previousCounter |-> 0, senderChain |-> <<>>, receiverChains |-> <<>>,
     pendingKeyExchange |-> <<>>, pendingPreKey |-> <<>>, remoteRegistrationId |-> 0,
     localRegistrationId |-> 0, needsRefresh |-> 0, aliceBaseKey |-> <<>>]

(* session_record_deserialize                                              *)
RecordDeserialize(b) ==
    LET States(m) ==
            IF \E i \in DOMAIN m.currentSession : ~Readable(m.currentSession[i]) THEN NoMessage
            ELSE IF \E i \in DOMAIN m.previousSessions : ~Readable(m.previousSessions[i]) THEN NoMessage
            ELSE [ok |-> TRUE,
                  rec |-> [state |-> IF m.currentSession = <<>> THEN NewState
                                     ELSE SessionOf(m.currentSession[1]),
                           previous |-> Seqs(SessionOf, m.previousSessions), fresh |-> FALSE]]
        Parsed(u) == IF u.ok THEN States(u.msg) ELSE NoMessage
    IN  Parsed(Unpack(RecordSchema, b))

----------------------------------------------------------------------------
(* The setters, as changes of a state                                      *)

(* session_state_set_sender_chain                                          *)
SetSenderChain(st, k, c) ==
    [st EXCEPT !.senderChain = <<[ratchet |-> <<Pair(k)>>, chainKey |-> <<c>>]>>]

(* session_state_set_sender_chain_key                                      *)
SetSenderChainKey(st, c) ==
    IF st.senderChain = <<>> THEN st ELSE [st EXCEPT !.senderChain[1].chainKey = <<c>>]

(* session_state_add_receiver_chain                                        *)
AddReceiverChain(st, k, c) ==
    LET all == Append(st.receiverChains,
                      [ratchet |-> <<k>>, chainKey |-> <<c>>, messageKeys |-> <<>>])
    IN  [st EXCEPT !.receiverChains = IF Len(all) > MaxChains THEN Tail(all) ELSE all]

(* session_state_find_receiver_chain: the first that has the key, or 0     *)
FindReceiverChain(st, k) == SelectInSeq(st.receiverChains, LAMBDA r : r.ratchet = <<k>>)

(* session_state_set_receiver_chain_key                                    *)
SetReceiverChainKey(st, k, c) ==
    LET i == FindReceiverChain(st, k)
    IN  IF i = 0 THEN st ELSE [st EXCEPT !.receiverChains[i].chainKey = <<c>>]

(* session_state_set_message_keys: the newest is at the end, and the       *)
(* oldest are dropped when there are too many.                             *)
SetMessageKeys(st, k, mk) ==
    LET i         == FindReceiverChain(st, k)
        Newest(s) == IF Len(s) > MaxKept THEN Tail(s) ELSE s
    IN  IF i = 0 THEN st
        ELSE [st EXCEPT !.receiverChains[i].messageKeys = Newest(Append(@, mk))]

(* session_state_remove_message_keys                                       *)
RemoveMessageKeys(st, k, counter) ==
    LET i == FindReceiverChain(st, k)
        j == SelectInSeq(st.receiverChains[i].messageKeys, LAMBDA mk : mk.counter = counter)
    IN  IF i = 0 THEN st ELSE IF j = 0 THEN st
        ELSE [st EXCEPT !.receiverChains[i].messageKeys = RemoveAt(@, j)]

(* session_state_set_pending_key_exchange                                  *)
SetPendingKeyExchange(st, n, b, r, i) ==
    [st EXCEPT !.pendingKeyExchange =
        <<[sequence |-> n, base |-> <<Pair(b)>>, ratchet |-> <<Pair(r)>>, identity |-> <<Pair(i)>>]>>]

(* session_state_set_unacknowledged_pre_key_message                        *)
SetUnacknowledged(st, pre, signed, base) ==
    [st EXCEPT !.pendingPreKey =
        <<[preKeyId |-> pre, signedPreKeyId |-> signed, baseKey |-> <<base>>]>>]

(* session_state_clear_unacknowledged_pre_key_message                      *)
ClearUnacknowledged(st) == [st EXCEPT !.pendingPreKey = <<>>]

(* Mutant: the oldest archived states are kept.                            *)
PromoteStateOldest(rec, st) ==
    LET all == <<rec.state>> \o rec.previous
    IN  [rec EXCEPT !.state = st,
                    !.previous = IF Len(all) > MaxArchived THEN Tail(all) ELSE all]

(* session_record_promote_state                                            *)
PromoteState(rec, st) ==
    LET all == <<rec.state>> \o rec.previous
    IN  [rec EXCEPT !.state = st,
                    !.previous = IF Len(all) > MaxArchived THEN SubSeq(all, 1, MaxArchived) ELSE all]

----------------------------------------------------------------------------
VARIABLES
    rec,       \* the record in memory
    calls,     \* calls so far
    order      \* the states that were current, newest first: what was archived

vars == <<rec, calls, order>>

ChainKeys == [index : Counters, key : Keys]

MessageKey(c, k) == [counter |-> c, cipher |-> <<k, 1>>, mac |-> <<k, 2>>, iv |-> <<k>>]

Init ==
    /\ rec = [state |-> NewState, previous |-> <<>>, fresh |-> TRUE]
    /\ calls = 0
    /\ order = <<>>

Call == calls < MaxCalls /\ calls' = calls + 1

Set(st) == Call /\ rec' = [rec EXCEPT !.state = st] /\ UNCHANGED order

(* ratcheting_session_alice_initialize or _bob_initialize: what every      *)
(* session starts from                                                     *)
Start(me, peer, root) ==
    Set([rec.state EXCEPT !.version = 3, !.localIdentity = <<me>>, !.remoteIdentity = <<peer>>,
                          !.rootKey = <<root>>])

SetIds(remote, local, refresh) ==
    Set([rec.state EXCEPT !.remoteRegistrationId = remote, !.localRegistrationId = local,
                          !.needsRefresh = refresh])

SetBase(k, c) == Set([rec.state EXCEPT !.aliceBaseKey = <<k>>, !.previousCounter = c])

(* session_record_archive_current_state                                    *)
ArchiveCurrentState ==
    /\ Call
    /\ rec' = PromoteState(rec, NewState)
    /\ order' = <<rec.state>> \o order

(* session_record_get_previous_states_remove and _promote_state, as the    *)
(* cipher does when an archived state has read a message                   *)
PromoteArchived(i) ==
    /\ Call
    /\ rec' = PromoteState([rec EXCEPT !.previous = RemoveAt(@, i)], rec.previous[i])
    /\ order' = <<rec.state>> \o RemoveAt(order, i)

(* signal_protocol_session_store_session and _load_session                 *)
SaveAndLoad ==
    LET Load(d) == d.ok /\ rec' = d.rec
    IN  Call /\ Load(RecordDeserialize(RecordSerialize(rec))) /\ UNCHANGED order

Next ==
    \/ \E me, peer, root \in Keys : Start(me, peer, root)
    \/ \E r, l \in Ids, n \in {0, 1} : SetIds(r, l, n)
    \/ \E k \in Keys, c \in Counters : SetBase(k, c)
    \/ \E k \in Keys, c \in ChainKeys :
          \/ Set(SetSenderChain(rec.state, k, c))
          \/ Set(AddReceiverChain(rec.state, k, c))
          \/ Set(SetReceiverChainKey(rec.state, k, c))
    \/ \E c \in ChainKeys : Set(SetSenderChainKey(rec.state, c))
    \/ \E k, x \in Keys, n \in Counters :
          \/ Set(SetMessageKeys(rec.state, k, MessageKey(n, x)))
          \/ Set(RemoveMessageKeys(rec.state, k, n))
    \/ \E n \in Counters, b, r, i \in Keys : Set(SetPendingKeyExchange(rec.state, n, b, r, i))
    \/ \E pre \in {<<>>} \cup {<<i>> : i \in Ids}, s \in Ids, b \in Keys :
          Set(SetUnacknowledged(rec.state, pre, s, b))
    \/ Set(ClearUnacknowledged(rec.state))
    \/ ArchiveCurrentState
    \/ \E i \in DOMAIN rec.previous : PromoteArchived(i)
    \/ SaveAndLoad

Spec == Init /\ [][Next]_vars

----------------------------------------------------------------------------
(* The pre keys and the identity key pair                                  *)

(* What is read is complete if the pair could be decoded.                  *)
WithPair(pair, fields) ==
    IF pair = <<>> THEN NoMessage ELSE [ok |-> TRUE, pair |-> pair[1]] @@ fields

(* session_pre_key_serialize, session_pre_key_deserialize                  *)
PreKeySerialize(id, k) ==
    Pack(PreKeySchema, [Empty(PreKeySchema) EXCEPT
        !.id = <<id>>, !.publicKey = <<EncodePoint(k)>>, !.privateKey = <<EncodePrivate(k)>>])

PreKeyDeserialize(b) ==
    LET Fields(m) ==
            IF <<>> \in {m.id, m.publicKey, m.privateKey} THEN NoMessage
            ELSE WithPair(DecodePair(m.publicKey[1], m.privateKey[1]), [id |-> m.id[1]])
        Parsed(u) == IF u.ok THEN Fields(u.msg) ELSE NoMessage
    IN  Parsed(Unpack(PreKeySchema, b))

(* session_signed_pre_key_serialize                                        *)
SignedPreKeySerialize(id, k, sig, time) ==
    Pack(SignedPreKeySchema, [Empty(SignedPreKeySchema) EXCEPT
        !.id = <<id>>, !.publicKey = <<EncodePoint(k)>>, !.privateKey = <<EncodePrivate(k)>>,
        !.signature = <<sig>>, !.timestamp = <<time>>])

(* session_signed_pre_key_deserialize                                      *)
SignedPreKeyDeserialize(b) ==
    LET Fields(m) ==
            IF <<>> \in {m.id, m.publicKey, m.privateKey, m.signature, m.timestamp} THEN NoMessage
            ELSE WithPair(DecodePair(m.publicKey[1], m.privateKey[1]),
                          [id |-> m.id[1], signature |-> m.signature[1], timestamp |-> m.timestamp[1]])
        Parsed(u) == IF u.ok THEN Fields(u.msg) ELSE NoMessage
    IN  Parsed(Unpack(SignedPreKeySchema, b))

(* ratchet_identity_key_pair_serialize                                     *)
IdentitySerialize(k) ==
    Pack(IdentityKeyPairSchema, [Empty(IdentityKeyPairSchema) EXCEPT
        !.publicKey = <<EncodePoint(k)>>, !.privateKey = <<EncodePrivate(k)>>])

(* ratchet_identity_key_pair_deserialize                                   *)
IdentityDeserialize(b) ==
    LET Fields(m) ==
            IF <<>> \in {m.publicKey, m.privateKey} THEN NoMessage
            ELSE WithPair(DecodePair(m.publicKey[1], m.privateKey[1]), <<>>)
        Parsed(u) == IF u.ok THEN Fields(u.msg) ELSE NoMessage
    IN  Parsed(Unpack(IdentityKeyPairSchema, b))

----------------------------------------------------------------------------
(* Whatever was done to a record, what is saved can be read again, and is  *)
(* the same record, with its chains, kept keys and archived states in the  *)
(* order they had.  Only the mark that it is fresh is gone.                *)
SavedIsLoaded ==
    RecordDeserialize(RecordSerialize(rec)) = [ok |-> TRUE, rec |-> [rec EXCEPT !.fresh = FALSE]]

(* Every pre key, signed pre key and identity key pair is read as it was   *)
(* written, for ids and times at the ends of their ranges; a record of one *)
(* kind is not taken for one that has more fields.                         *)
KeysAreLoaded ==
    calls = 0 =>
        \A id \in Ids, k \in Keys :
            /\ PreKeyDeserialize(PreKeySerialize(id, k)) = [ok |-> TRUE, id |-> id, pair |-> Pair(k)]
            /\ \A t \in {0, 2 ^ WordBits, 2 ^ LongBits - 1} :
                  SignedPreKeyDeserialize(SignedPreKeySerialize(id, k, <<k, id % 2>>, t))
                  = [ok |-> TRUE, id |-> id, pair |-> Pair(k), signature |-> <<k, id % 2>>, timestamp |-> t]
            /\ IdentityDeserialize(IdentitySerialize(k)) = [ok |-> TRUE, pair |-> Pair(k)]
            /\ ~SignedPreKeyDeserialize(PreKeySerialize(id, k)).ok

(* The archived states are the ones that were current last: the oldest     *)
(* ones are dropped, and saving and loading does not change their order.   *)
NewestArchived ==
    rec.previous = SubSeq(order, 1, IF Len(order) < MaxArchived THEN Len(order) ELSE MaxArchived)

=============================================================================
