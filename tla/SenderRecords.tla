---------------------------- MODULE SenderRecords --------------------------
(***************************************************************************)
(* How sender_key_record.c and sender_key_state.c write and read the       *)
(* record that SenderKeys describes.  A record is changed as Group changes *)
(* it, and is saved and loaded in between.                                 *)
(***************************************************************************)
EXTENDS SenderKeys, Wire, Schemas, KeyFormat

CONSTANTS
    KeyIds,         \* sender key ids
    Iterations,     \* iterations of distribution messages
    MaxSteps        \* bound on steps

VARIABLES
    record,     \* the record in memory
    steps

senderVars == <<record, steps>>

SigningKey == 7

(* sender_key_state_serialize_prepare                                      *)
KeyStateFields(st) ==
    [Empty(SenderKeyStateSchema) EXCEPT
        !.senderKeyId = <<st.id>>,
        !.senderChainKey = <<[Empty(SenderChainKeySchema) EXCEPT
            !.iteration = <<st.iteration>>, !.seed = <<<<st.seed>>>>]>>,
        !.senderSigningKey = <<[Empty(SenderSigningKeySchema) EXCEPT
            !.public = <<EncodePoint(SigningKey)>>,
            !.private = IF st.private THEN <<EncodePrivate(SigningKey)>> ELSE <<>>]>>,
        !.senderMessageKeys = [i \in DOMAIN st.keys |->
            [Empty(SenderMessageKeySchema) EXCEPT
                !.iteration = <<st.keys[i]>>, !.seed = <<<<st.seed, 1>>>>]]]

(* sender_key_record_serialize                                             *)
SenderRecordSerialize(r) ==
    Pack(SenderKeyRecordSchema,
         [Empty(SenderKeyRecordSchema) EXCEPT !.senderKeyStates =
             [i \in DOMAIN r |-> KeyStateFields(r[i])]])

(* sender_key_state_deserialize_protobuf: id, chain key and public key     *)
(* have to be there, and message keys that are not complete are left out.  *)
KeyStateReadable(m) ==
    LET chain == m.senderChainKey
        sign  == m.senderSigningKey
    IN  /\ m.senderKeyId # <<>> /\ chain # <<>> /\ sign # <<>>
        /\ chain[1].iteration # <<>> /\ chain[1].seed # <<>>
        /\ sign[1].public # <<>> /\ DecodePoint(sign[1].public[1]) # <<>>
        /\ sign[1].private # <<>> => DecodePrivate(sign[1].private[1]) # <<>>

(* Mutant: message keys are put in front as they are read.                 *)
KeyStateOfReversed(m) ==
    LET whole == SelectSeq(m.senderMessageKeys, LAMBDA k : <<>> \notin {k.iteration, k.seed})
        st    == NewKeyState(m.senderKeyId[1], m.senderChainKey[1].seed[1][1],
                             m.senderChainKey[1].iteration[1], m.senderSigningKey[1].private # <<>>)
    IN  [st EXCEPT !.keys = FoldLeft(LAMBDA keys, k : k.iteration \o keys, <<>>, whole)]

KeyStateOf(m) ==
    LET whole == SelectSeq(m.senderMessageKeys, LAMBDA k : <<>> \notin {k.iteration, k.seed})
        st    == NewKeyState(m.senderKeyId[1], m.senderChainKey[1].seed[1][1],
                             m.senderChainKey[1].iteration[1], m.senderSigningKey[1].private # <<>>)
    IN  [st EXCEPT !.keys = FoldLeft(LAMBDA keys, k : AddMessageKey(keys, k.iteration[1]), <<>>, whole)]

(* sender_key_record_deserialize                                           *)
SenderRecordDeserialize(b) ==
    LET States(states) ==
            IF \E i \in DOMAIN states : ~KeyStateReadable(states[i]) THEN NoMessage
            ELSE [ok |-> TRUE, record |-> [i \in DOMAIN states |-> KeyStateOf(states[i])]]
        Parsed(u) == IF u.ok THEN States(u.msg.senderKeyStates) ELSE NoMessage
    IN  Parsed(Unpack(SenderKeyRecordSchema, b))

----------------------------------------------------------------------------
Init == record = <<>> /\ steps = 0

Step(r) == steps < MaxSteps /\ steps' = steps + 1 /\ record' = r

(* group_session_builder_create_session of a record that is empty          *)
Create(id) == record = <<>> /\ Step(SetKeyState(NewKeyState(id, 1, 0, TRUE)))

(* group_session_builder_process_session                                   *)
Install(id, n) == Step(AddKeyState(record, NewKeyState(id, 2, n, FALSE)))

(* group_cipher_decrypt of a message for state i                           *)
Advance(i, n) ==
    /\ SenderKeyResult(record[i], n) = "ok"
    /\ Step([record EXCEPT ![i] = SenderKeyState(@, n)])

(* signal_protocol_sender_key_store_key and _load_key                      *)
StoreAndLoad ==
    LET Load(d) == d.ok /\ Step(d.record)
    IN  Load(SenderRecordDeserialize(SenderRecordSerialize(record)))

Next ==
    \/ \E id \in KeyIds : Create(id)
    \/ \E id \in KeyIds, n \in Iterations : Install(id, n)
    \/ \E i \in DOMAIN record : \E n \in record[i].iteration - 2 .. record[i].iteration + 2 :
          n >= 0 /\ Advance(i, n)
    \/ StoreAndLoad

Spec == Init /\ [][Next]_senderVars

----------------------------------------------------------------------------
(* Whatever distribution messages and messages were worked off, what is    *)
(* stored can be read again, and is the same record: the states in their   *)
(* order (the first with an id is the one used), and the keys of each      *)
(* state in theirs (the first is the one that has to go).                  *)
SenderKeysSurvive ==
    SenderRecordDeserialize(SenderRecordSerialize(record)) = [ok |-> TRUE, record |-> record]

=============================================================================
