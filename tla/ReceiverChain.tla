--------------------------- MODULE ReceiverChain ---------------------------
(***************************************************************************)
(* A sender chain of one device, and the receiver chain its peer keeps for *)
(* it, over a network that loses, duplicates and reorders messages and may *)
(* damage them.  Decryption works on a copy of the session state and the   *)
(* copy replaces the state only when the message authenticates             *)
(* (session_cipher_decrypt_from_record_and_signal_message).                *)
(***************************************************************************)
EXTENDS MessageKeys, Sequences

CONSTANT MaxMessages    \* bound on the messages sent on the chain

ASSUME MessagesAssumption == MaxMessages \in Nat

VARIABLES
    sent,      \* index of the sender chain: counters 0 .. sent - 1 are in use
    chain,     \* the peer's receiver chain for it
    log        \* counters whose plaintext was handed out, in order

vars == <<sent, chain, log>>

Counters == 0 .. MaxMessages - 1

TypeOK ==
    /\ sent \in 0 .. MaxMessages
    /\ chain \in Chain
    /\ log \in Seq(Counters)

Init ==
    /\ sent = 0
    /\ chain = NewChain
    /\ log = <<>>

(* session_cipher_encrypt: the next counter of the sender chain.           *)
Send ==
    /\ sent < MaxMessages
    /\ sent' = sent + 1
    /\ UNCHANGED <<chain, log>>

(* A message that was sent arrives, for the first time or again.           *)
Deliver(c) ==
    /\ c < sent
    /\ chain' = Accept(chain, KeysChain(chain, c), KeysResult(chain, c) = "ok")
    /\ log' = IF KeysResult(chain, c) = "ok" THEN Append(log, c) ELSE log
    /\ UNCHANGED sent

(* A damaged message, with any counter, arrives: keys are derived for it,  *)
(* in the copy, but its MAC does not verify.                               *)
DeliverDamaged(c) ==
    /\ chain' = Accept(chain, KeysChain(chain, c), FALSE)
    /\ UNCHANGED <<sent, log>>

Next ==
    \/ Send
    \/ \E c \in Counters : Deliver(c) \/ DeliverDamaged(c)

Spec == Init /\ [][Next]_vars

----------------------------------------------------------------------------
(* No message is ever decrypted twice, whatever the network repeats: the   *)
(* key of a counter is consumed by session_state_remove_message_keys or by *)
(* moving the chain past it.                                               *)
AtMostOnce == \A i, j \in DOMAIN log : log[i] = log[j] => i = j

(* A message at most MaxKeys behind the head of the chain is never lost to *)
(* eviction: it was decrypted, or its key is still held and it would be.   *)
WindowKept ==
    \A c \in Counters :
        (c < chain.index /\ chain.index - c <= MaxKeys)
            => (c \in chain.skipped \/ \E i \in DOMAIN log : log[i] = c)

(* The receiver never gets ahead of the sender, so a message that has not  *)
(* been sent yet can never be refused as a duplicate, even if damaged      *)
(* messages with high counters came in before it.                          *)
NeverAhead == chain.index <= sent

=============================================================================
