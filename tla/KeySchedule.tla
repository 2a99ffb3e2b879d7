----------------------------- MODULE KeySchedule ---------------------------
(***************************************************************************)
(* hkdf.c and what ratchet.c and sender_key.c derive with it: root keys,   *)
(* chain keys, the three parts of message keys, and the same for groups.   *)
(* All lengths are in units of 16 bytes.                                   *)
(***************************************************************************)
EXTENDS Integers, Sequences, FiniteSets, SequencesExt

CONSTANTS
    Agreements,     \* values that a Diffie-Hellman agreement may have
    MaxDerived      \* bound on steps

HashSize == 2               \* HASH_OUTPUT_SIZE                 (32 bytes)
MessageSecretsLen == 5      \* DERIVED_MESSAGE_SECRETS_SIZE     (80 bytes)
RootSecretsLen == 4         \* DERIVED_ROOT_SECRETS_SIZE        (64 bytes)
GroupSecretsLen == 3        \* iv and cipher key                (48 bytes)

(* HMAC-SHA256, which is not part of the repository: any function that     *)
(* does not map two of the inputs here to the same output will do.  The    *)
(* first unit tells outputs apart, the others follow from it.              *)
Hmac(key, data) ==
    LET n == FoldLeft(LAMBDA acc, x : (acc * 29 + (x % 65521) + 11) % 67108859, 1 + Len(key), key \o data)
    IN  [i \in 1 .. HashSize |-> (n * i + i) % 67108859]

ZeroSalt == [i \in 1 .. HashSize |-> 0]

Info == [root |-> <<101>>, ratchet |-> <<102>>, message |-> <<103>>, group |-> <<104>>]

(* hkdf_create: the number of the first block, for the versions there are  *)
StartOffset(messageVersion) == IF messageVersion = 2 THEN 0 ELSE 1

(* hkdf_extract                                                            *)
Extract(salt, material) == Hmac(salt, material)

(* Mutant: rounds are rounded down.                                        *)
ExpandShort(messageVersion, prk, info, len) ==
    LET rounds == len \div HashSize
        loop[i \in 0 .. rounds] ==
            IF i = 0 THEN [step |-> <<>>, out |-> <<>>]
            ELSE LET step == Hmac(prk, loop[i - 1].step \o info \o <<StartOffset(messageVersion) + i - 1>>)
                 IN  [step |-> step, out |-> loop[i - 1].out \o step]
    IN  loop[rounds].out

(* The loop of hkdf_expand: number of rounds, rounded up, each output      *)
(* hashed into the next one, the last one cut.                             *)
Expand(messageVersion, prk, info, len) ==
    LET rounds == (len + HashSize - 1) \div HashSize
        loop[i \in 0 .. rounds] ==
            IF i = 0 THEN [step |-> <<>>, out |-> <<>>]
            ELSE LET prev == loop[i - 1]
                     step == Hmac(prk, prev.step \o info \o <<StartOffset(messageVersion) + i - 1>>)
                     size == IF len - Len(prev.out) < HashSize THEN len - Len(prev.out) ELSE HashSize
                 IN  [step |-> step, out |-> prev.out \o SubSeq(step, 1, size)]
    IN  loop[rounds].out

(* hkdf_derive_secrets                                                     *)
DeriveSecrets(messageVersion, material, salt, info, len) ==
    Expand(messageVersion, Extract(salt, material), info, len)

(* ratcheting_session_calculate_derived_keys: root key and chain key       *)
DerivedKeys(secret) ==
    LET out == DeriveSecrets(3, secret, ZeroSalt, Info.root, RootSecretsLen)
    IN  [root |-> SubSeq(out, 1, HashSize), chain |-> SubSeq(out, HashSize + 1, 2 * HashSize)]

(* ratchet_root_key_create_chain                                           *)
CreateChain(v, root, agreement) ==
    LET out == DeriveSecrets(v, <<agreement>>, root, Info.ratchet, RootSecretsLen)
    IN  [root |-> SubSeq(out, 1, HashSize), chain |-> SubSeq(out, HashSize + 1, 2 * HashSize)]

(* ratchet_chain_key_get_base_material                                     *)
BaseMaterial(chain, seed) == Hmac(chain, <<seed>>)

(* Mutant: the seed of message keys.                                       *)
CreateNextMessage(chain) == BaseMaterial(chain, 1)

(* ratchet_chain_key_create_next                                           *)
CreateNext(chain) == BaseMaterial(chain, 2)

(* ratchet_chain_key_get_message_keys                                      *)
GetMessageKeys(v, chain) ==
    LET out == DeriveSecrets(v, BaseMaterial(chain, 1), ZeroSalt, Info.message, MessageSecretsLen)
    IN  [cipher |-> SubSeq(out, 1, 2), mac |-> SubSeq(out, 3, 4), iv |-> SubSeq(out, 5, 5)]

(* sender_chain_key_get_derivative                                         *)
GetDerivative(chain, seed) == Hmac(chain, <<seed>>)

(* sender_chain_key_create_next                                            *)
SenderCreateNext(chain) == GetDerivative(chain, 2)

(* sender_chain_key_create_message_key and sender_message_key_create       *)
SenderMessageKey(chain) ==
    LET out == DeriveSecrets(3, GetDerivative(chain, 1), ZeroSalt, Info.group, GroupSecretsLen)
    IN  [iv |-> SubSeq(out, 1, 1), cipher |-> SubSeq(out, 2, 3)]

----------------------------------------------------------------------------
(* One session, its messages, and a group chain, and every key they used.  *)

VARIABLES
    hkdfVersion,        \* of the session
    rootKey, chainKey,  \* the keys now
    groupKey,
    used,               \* keys that were derived, in order
    derived             \* steps so far

scheduleVars == <<hkdfVersion, rootKey, chainKey, groupKey, used, derived>>

Init ==
    \E v \in {2, 3}, a \in Agreements, b \in Agreements :
        LET k == DerivedKeys(<<255, a, b>>)
        IN  /\ hkdfVersion = v
            /\ rootKey = k.root /\ chainKey = k.chain
            /\ groupKey = <<b, b>>
            /\ used = <<k.root, k.chain, <<b, b>>>>
            /\ derived = 0

Derive(keys) == derived < MaxDerived /\ derived' = derived + 1 /\ used' = used \o keys

RatchetStep ==
    \E a \in Agreements :
        LET k == CreateChain(hkdfVersion, rootKey, a)
        IN  /\ Derive(<<k.root, k.chain>>)
            /\ rootKey' = k.root /\ chainKey' = k.chain
            /\ UNCHANGED <<hkdfVersion, groupKey>>

(* A message is encrypted, and the chain moves on.                         *)
MessageStep ==
    LET k == GetMessageKeys(hkdfVersion, chainKey)
    IN  /\ Derive(<<BaseMaterial(chainKey, 1), k.cipher, k.mac, CreateNext(chainKey)>>)
        /\ chainKey' = CreateNext(chainKey)
        /\ UNCHANGED <<hkdfVersion, rootKey, groupKey>>

GroupStep ==
    LET k == SenderMessageKey(groupKey)
    IN  /\ Derive(<<GetDerivative(groupKey, 1), k.cipher, SenderCreateNext(groupKey)>>)
        /\ groupKey' = SenderCreateNext(groupKey)
        /\ UNCHANGED <<hkdfVersion, rootKey, chainKey>>

Next == RatchetStep \/ MessageStep \/ GroupStep

Spec == Init /\ [][Next]_scheduleVars

----------------------------------------------------------------------------
(* Every length that is asked for is what comes out, so that none of the   *)
(* parts into which it is split is short; and a longer output begins with  *)
(* a shorter one.                                                          *)
ExpandsExactly ==
    \A len \in 1 .. 2 * HashSize + 2 :
        LET out == Expand(hkdfVersion, rootKey, Info.message, len)
        IN  /\ Len(out) = len
            /\ out = SubSeq(Expand(hkdfVersion, rootKey, Info.message, len + 1), 1, len)

(* The keys that are used for something - root keys, chain keys, the       *)
(* material of message keys, cipher keys, MAC keys, of the session and of  *)
(* a group - are all different, in every order of ratchet steps and        *)
(* messages: no key of a message tells the next key of its chain.          *)
KeysAreSeparate == \A i, j \in DOMAIN used : used[i] = used[j] => i = j

=============================================================================
