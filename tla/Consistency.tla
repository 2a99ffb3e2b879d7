----------------------------- MODULE Consistency ---------------------------
(***************************************************************************)
(* device_consistency.c: the devices of a user agree on the list of their  *)
(* identity keys.  Each device commits to a generation of the list, sends  *)
(* a message with a verifiable random function of the commitment, collects *)
(* the messages of the others, and shows a code.                           *)
(*                                                                         *)
(* Hashes are terms: the sequence of what went into them.                  *)
(***************************************************************************)
EXTENDS Integers, Sequences, FiniteSets, Functions, TLC

CONSTANTS
    Devices,          \* devices; the identity key of a device is its number
    Generations,      \* generations of the list
    MaxLists          \* bound on lists that the devices learn of

VARIABLES
    generation, list,     \* of each device: the list of keys, as it was learned
    sentCodes,            \* messages that were sent
    collected,            \* of each device: the signatures it has accepted, in order,
                          \*   each with the commitment it was accepted for
    lists                 \* lists so far

consistencyVars == <<generation, list, sentCodes, collected, lists>>

(* device_consistency_commitment_create                                    *)
CommitmentCreate(gen, keys) == <<"commitment", gen, SortSeq(keys, LAMBDA x, y : x < y)>>

Commitment(d) == CommitmentCreate(generation[d], list[d])

(* curve_calculate_vrf_signature: what only the owner of the key computes  *)
VrfSignature(key, commitment) == [key |-> key, of |-> commitment]

(* curve_verify_vrf_signature                                              *)
VerifyVrfSignature(key, commitment, signature) == signature = VrfSignature(key, commitment)

(* The output of the function is not the signature, but follows from the   *)
(* key and from what was signed.  Outputs are compared by their bytes; any *)
(* fixed order will do, and outputs of one commitment differ by their key. *)
VrfOutput(signature) == <<signature.key, signature.of>>

Before(x, y) == x[1] < y[1]

(* device_consistency_message_create_from_pair                             *)
MessageCreateFromPair(d) ==
    [generation |-> generation[d], signature |-> VrfSignature(d, Commitment(d))]

(* device_consistency_message_create_from_serialized, with the key that    *)
(* the caller expects it from: the generation in the message is not        *)
(* compared with the one of the commitment, but the signature is.          *)
Accepts(d, key, m) == VerifyVrfSignature(key, Commitment(d), m.signature)

(* Mutant: outputs are hashed in the order they came in.                   *)
CodeGenerateUnsorted(commitment, signatures) ==
    <<commitment, [i \in DOMAIN signatures |-> VrfOutput(signatures[i])]>>

(* device_consistency_code_generate_for                                    *)
CodeGenerate(commitment, signatures) ==
    <<commitment, SortSeq([i \in DOMAIN signatures |-> VrfOutput(signatures[i])], Before)>>

----------------------------------------------------------------------------
(* The lists of keys, in any order.                                        *)
KeyLists == UNION {Injection(1 .. n, Devices) : n \in 1 .. Cardinality(Devices)}

ConsistencyInit ==
    /\ generation = [d \in Devices |-> 0]
    /\ list = [d \in Devices |-> CHOOSE l \in KeyLists : Range(l) = Devices]
    /\ sentCodes = {}
    /\ collected = [d \in Devices |-> <<>>]
    /\ lists = 0

(* The application of a device learns of a generation of the list, with    *)
(* the keys in some order, possibly one it had before.                     *)
Learn(d) ==
    \E g \in Generations, l \in KeyLists :
        /\ lists < MaxLists /\ d \in Range(l)
        /\ lists' = lists + 1
        /\ generation' = [generation EXCEPT ![d] = g]
        /\ list' = [list EXCEPT ![d] = l]
        /\ UNCHANGED <<sentCodes, collected>>

Send(d) ==
    /\ sentCodes' = sentCodes \cup {MessageCreateFromPair(d)}
    /\ UNCHANGED <<generation, list, collected, lists>>

(* The list of signatures that the application passes with a commitment:   *)
(* the ones that were accepted for it                                      *)
Signatures(d) ==
    LET mine == SelectSeq(collected[d], LAMBDA c : c.under = Commitment(d))
    IN  [i \in DOMAIN mine |-> mine[i].signature]

(* A message comes in, its own one included, in any order and possibly     *)
(* late.  The application keeps one signature per commitment and key.      *)
Receive(d, key, m) ==
    /\ key \in Range(list[d])
    /\ \A i \in DOMAIN Signatures(d) : Signatures(d)[i].key # key
    /\ Accepts(d, key, m)
    /\ collected' = [collected EXCEPT
                        ![d] = Append(@, [under |-> Commitment(d), signature |-> m.signature])]
    /\ UNCHANGED <<generation, list, sentCodes, lists>>

ConsistencyNext ==
    \E d \in Devices :
        Learn(d) \/ Send(d) \/ \E key \in Devices, m \in sentCodes : Receive(d, key, m)

ConsistencySpec == ConsistencyInit /\ [][ConsistencyNext]_consistencyVars

----------------------------------------------------------------------------
Complete(d) == Len(Signatures(d)) = Len(list[d])

Code(d) == CodeGenerate(Commitment(d), Signatures(d))

(* Devices that have collected everything show the same code exactly when  *)
(* they have the same generation of the list, with the same keys, no       *)
(* matter in which order they learned the keys and got the messages, which *)
(* lists they had before, and what is left over from those.                *)
CodesAgree ==
    \A d, e \in Devices :
        (Complete(d) /\ Complete(e)) =>
            (Code(d) = Code(e)
             <=> generation[d] = generation[e] /\ Range(list[d]) = Range(list[e]))

=============================================================================
