---------------------------- MODULE MessageKeys ----------------------------
(***************************************************************************)
(* One receiver chain of a session: the chain key's index and the message  *)
(* keys that were derived, skipped over and kept for messages that are     *)
(* still on their way.  Crypto is abstracted away: the message key of      *)
(* counter c is c.                                                         *)
(*                                                                         *)
(* The C code keeps the skipped keys in a linked list that is appended to  *)
(* at its tail and evicted from its head.  Every key appended is larger    *)
(* than every key already in it, so the list is the increasing enumeration *)
(* of the set `skipped` used here; MessageKeyList.tla has the list and     *)
(* shows that it implements this module.                                   *)
(***************************************************************************)
EXTENDS Integers, FiniteSets

CONSTANTS
    MaxSkip,   \* how far ahead of the chain a counter may be   (2000)
    MaxKeys    \* MAX_MESSAGE_KEYS, skipped keys kept per chain  (2000)

ASSUME LimitsAssumption == MaxSkip \in Nat /\ MaxKeys \in Nat

Chain == [index : Nat, skipped : SUBSET Nat]

NewChain == [index |-> 0, skipped |-> {}]

(* Mutant: evicts the newest keys.                                         *)
KeepOldest(S) == {k \in S : Cardinality({j \in S : j <= k}) <= MaxKeys}

(* What is left of S once everything above MaxKeys was evicted, oldest     *)
(* (smallest) first.                                                       *)
KeepNewest(S) == {k \in S : Cardinality({j \in S : j >= k}) <= MaxKeys}

(* Mutant: forgets to delete the list node.                                *)
TakeSkippedAndKeep(ch, c) == ch

(* session_state_remove_message_keys                                       *)
TakeSkipped(ch, c) == [ch EXCEPT !.skipped = @ \ {c}]

(* The while loop of session_cipher_get_or_create_message_keys and the     *)
(* set_receiver_chain_key after it.                                        *)
Advance(ch, c) ==
    [index   |-> c + 1,
     skipped |-> KeepNewest(ch.skipped \cup (ch.index .. c - 1))]

(* Mutant: takes the next counter for one that was used.                   *)
KeysResultOffByOne(ch, c) ==
    IF c <= ch.index
    THEN IF c \in ch.skipped THEN "ok" ELSE "duplicate"
    ELSE IF c - ch.index > MaxSkip THEN "invalid" ELSE "ok"

(* session_cipher_get_or_create_message_keys: the outcome, and the chain   *)
(* as it is left in the (copied) session state.                            *)
KeysResult(ch, c) ==
    IF c < ch.index
    THEN IF c \in ch.skipped THEN "ok" ELSE "duplicate"
    ELSE IF c - ch.index > MaxSkip THEN "invalid" ELSE "ok"

KeysChain(ch, c) ==
    IF KeysResult(ch, c) # "ok" THEN ch
    ELSE IF c < ch.index THEN TakeSkipped(ch, c) ELSE Advance(ch, c)

(* Mutant: decrypts in place.                                              *)
AcceptAlways(ch, copy, ok) == copy

(* Decryption works on a copy of the session state; the copy becomes the   *)
(* state only if the whole message was accepted.                           *)
Accept(ch, copy, ok) == IF ok THEN copy ELSE ch

=============================================================================
