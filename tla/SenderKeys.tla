------------------------------ MODULE SenderKeys ---------------------------
(***************************************************************************)
(* sender_key_state.c, sender_key_record.c and the key lookup of           *)
(* group_cipher.c: what a member of a group keeps about a sender.          *)
(*                                                                         *)
(* A chain key is the seed it was derived from and its iteration; the      *)
(* message key of an iteration is identified by the iteration.             *)
(***************************************************************************)
EXTENDS Lists

CONSTANTS
    GroupSkip,    \* look-ahead in group_cipher_get_sender_key   (2000)
    GroupKeys,    \* MAX_MESSAGE_KEYS                            (2000)
    MaxStates     \* MAX_STATES                                  (5)

(* sender_key_state_create; `private` tells whether the signing key is     *)
(* there.                                                                  *)
NewKeyState(id, seed, iteration, private) ==
    [id |-> id, seed |-> seed, iteration |-> iteration, private |-> private, keys |-> <<>>]

(* sender_key_record_get_sender_key_state_by_id: the first from the head,  *)
(* or 0                                                                    *)
StateById(record, id) == FirstIndex({i \in 1 .. Len(record) : record[i].id = id})

(* Mutant: the newest state is evicted.                                    *)
AddKeyStateLast(record, st) ==
    LET all == Append(record, st)
    IN  IF Len(all) > MaxStates THEN SubSeq(all, 1, MaxStates) ELSE all

(* sender_key_record_add_sender_key_state                                  *)
AddKeyState(record, st) ==
    LET all == <<st>> \o record
    IN  IF Len(all) > MaxStates THEN SubSeq(all, 1, MaxStates) ELSE all

(* sender_key_record_set_sender_key_state                                  *)
SetKeyState(st) == <<st>>

(* sender_key_state_add_sender_message_key                                 *)
AddMessageKey(keys, iteration) ==
    LET all == Append(keys, iteration)
    IN  IF Len(all) > GroupKeys THEN Tail(all) ELSE all

(* Mutant: a key that was used is kept.                                    *)
RemoveMessageKeyNever(keys, iteration) == keys

(* sender_key_state_remove_sender_message_key                              *)
RemoveMessageKey(keys, iteration) ==
    LET i == FirstIndex({k \in 1 .. Len(keys) : keys[k] = iteration})
    IN  IF i = 0 THEN keys ELSE Without(keys, i)

(* sender_key_state_has_sender_message_key                                 *)
HasMessageKey(keys, iteration) == \E i \in DOMAIN keys : keys[i] = iteration

(* The loop of group_cipher_get_sender_key: the keys that are skipped.     *)
SkipKeys(st, iteration) ==
    LET skipped[i \in st.iteration .. iteration] ==
            IF i = st.iteration THEN st.keys ELSE AddMessageKey(skipped[i - 1], i - 1)
    IN  skipped[iteration]

(* group_cipher_get_sender_key: the answer, and the state after it.        *)
SenderKeyResult(st, iteration) ==
    IF st.iteration > iteration
    THEN IF HasMessageKey(st.keys, iteration) THEN "ok" ELSE "duplicate"
    ELSE IF iteration - st.iteration > GroupSkip THEN "invalid" ELSE "ok"

SenderKeyState(st, iteration) ==
    IF st.iteration > iteration
    THEN [st EXCEPT !.keys = RemoveMessageKey(@, iteration)]
    ELSE [st EXCEPT !.keys = SkipKeys(st, iteration), !.iteration = iteration + 1]

=============================================================================
