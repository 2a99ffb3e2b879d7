--------------------------- MODULE MessageKeyList --------------------------
(***************************************************************************)
(* The receiver chain of session_state.c as it is coded: a doubly linked   *)
(* list of message keys, searched from the head, appended to at the tail   *)
(* one key at a time and evicted from the head.  It implements             *)
(* ReceiverChain, whose chain has the set of the list's keys.              *)
(***************************************************************************)
EXTENDS ReceiverChain, Lists, Functions

VARIABLES
    listSent,    \* index of the sender chain
    index,       \* of the receiver chain's chain key
    nodes,       \* the counters of the message keys in the list
    listLog      \* counters whose plaintext was handed out, in order

listVars == <<listSent, index, nodes, listLog>>

ListInit ==
    /\ listSent = 0
    /\ index = 0
    /\ nodes = <<>>
    /\ listLog = <<>>

(* Mutant: deletes the tail, the key that was just appended.               *)
SetMessageKeysEvictsTail(list, c) ==
    IF Len(list) >= MaxKeys THEN list ELSE Append(list, c)

(* session_state_set_message_keys: append, then delete heads until no more *)
(* than MaxKeys are left.                                                  *)
SetMessageKeys(list, c) ==
    LET all == Append(list, c)
    IN  IF Len(all) > MaxKeys
        THEN SubSeq(all, Len(all) - MaxKeys + 1, Len(all)) ELSE all

(* session_state_remove_message_keys: the first node with the counter goes.*)
RemoveMessageKeys(list, c) ==
    Without(list, FirstIndex({i \in 1 .. Len(list) : list[i] = c}))

(* The while loop of session_cipher_get_or_create_message_keys.            *)
SkipTo(list, from, c) ==
    LET skipped[i \in from .. c] ==
            IF i = from THEN list ELSE SetMessageKeys(skipped[i - 1], i - 1)
    IN  skipped[c]

ListSend ==
    /\ listSent < MaxMessages
    /\ listSent' = listSent + 1
    /\ UNCHANGED <<index, nodes, listLog>>

(* A counter behind the chain: only a kept key can read it.                *)
DeliverOld(c) ==
    /\ c < listSent /\ c < index
    /\ IF c \in Range(nodes)
       THEN nodes' = RemoveMessageKeys(nodes, c) /\ listLog' = Append(listLog, c)
       ELSE UNCHANGED <<nodes, listLog>>
    /\ UNCHANGED <<listSent, index>>

(* A counter ahead of the chain, unless it is too far ahead.               *)
DeliverNew(c) ==
    /\ c < listSent /\ c >= index
    /\ IF c - index > MaxSkip
       THEN UNCHANGED <<index, nodes, listLog>>
       ELSE /\ nodes' = SkipTo(nodes, index, c)
            /\ index' = c + 1
            /\ listLog' = Append(listLog, c)
    /\ UNCHANGED listSent

ListNext == ListSend \/ \E c \in Counters : DeliverOld(c) \/ DeliverNew(c)

ListSpec == ListInit /\ [][ListNext]_listVars

----------------------------------------------------------------------------
Abs == INSTANCE ReceiverChain
           WITH sent <- listSent, log <- listLog, chain <- [index |-> index, skipped |-> Range(nodes)]

(* The linked list behaves as the set of skipped keys of ReceiverChain:    *)
(* every call finds, stores and evicts the same keys.                      *)
ImplementsChain == Abs!Spec

=============================================================================
