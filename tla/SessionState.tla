---------------------------- MODULE SessionState ---------------------------
(***************************************************************************)
(* The data a device keeps for one peer - session_state, session_record -  *)
(* and what ratchet.c, session_builder.c and session_cipher.c compute from *)
(* it.                                                                     *)
(*                                                                         *)
(* Cryptography is symbolic.  A key pair is a number that is drawn once; a *)
(* Diffie-Hellman agreement is the set of the two keys, so both ends       *)
(* compute the same one; a root key is the sequence of agreements it was   *)
(* derived from, and so is the chain key that is derived along with it.    *)
(* A MAC verifies when the receiver arrived at the sender's chain and both *)
(* have the same two identities in mind.                                   *)
(***************************************************************************)
EXTENDS MessageKeys, Lists

CONSTANTS
    MaxChains,     \* receiver chains kept in a state            (5)
    MaxArchived    \* ARCHIVED_STATES_MAX_LENGTH                 (40)

ASSUME StatesAssumption == MaxChains \in Nat \ {0} /\ MaxArchived \in Nat

None == 0

DH(x, y) == {x, y}

(* ratchet_root_key_create_chain                                           *)
CreateChain(root, x, y) == Append(root, DH(x, y))

(* Mutant: the chain key is used again.                                    *)
CreateNextSame(index) == index

(* ratchet_chain_key_create_next: the index of the next chain key.         *)
CreateNext(index) == index + 1

(* session_state_create                                                    *)
NewState ==
    [base |-> None, root |-> <<>>, recv |-> <<>>, pending |-> None,
     sender |-> [key |-> None, chain |-> <<>>, index |-> 0],
     local |-> None, remote |-> None]

NoSession == [cur |-> NewState, prev |-> <<>>]

(* session_state_add_receiver_chain                                        *)
AddReceiverChain(recv, key, chain) ==
    LET all == Append(recv, [key |-> key, chain |-> chain, keys |-> NewChain])
    IN  IF Len(all) > MaxChains THEN Tail(all) ELSE all

----------------------------------------------------------------------------
(* Setting up a state                                                      *)

(* Extended triple Diffie-Hellman, as both sides compute it.               *)
SharedSecret(aIdentity, aBase, bIdentity, bSigned, bOneTime) ==
    <<DH(aIdentity, bSigned), DH(aBase, bIdentity), DH(aBase, bSigned), DH(aBase, bOneTime)>>

(* ratcheting_session_alice_initialize on a new state.                     *)
AliceInitialize(identity, base, ratchet, bundle) ==
    LET secret == SharedSecret(identity, base, bundle.identity, bundle.signed, bundle.oneTime)
        root   == CreateChain(secret, bundle.signed, ratchet)
    IN  [NewState EXCEPT !.root = root,
                         !.recv = AddReceiverChain(<<>>, bundle.signed, secret),
                         !.sender = [key |-> ratchet, chain |-> root, index |-> 0],
                         !.local = identity, !.remote = bundle.identity]

(* session_builder_process_pre_key_bundle.  The client has deleted the     *)
(* session before, so the record is fresh and nothing is archived.         *)
ProcessBundle(identity, base, ratchet, bundle) ==
    [cur  |-> [AliceInitialize(identity, base, ratchet, bundle) EXCEPT
                  !.pending = bundle.oneTime, !.base = base],
     prev |-> <<>>]

(* ratcheting_session_bob_initialize on a new state.                       *)
BobInitialize(identity, signed, oneTime, m) ==
    LET secret == SharedSecret(m.ids[1], m.base, identity, signed, oneTime)
    IN  [NewState EXCEPT !.base = m.base, !.root = secret,
                         !.sender = [key |-> signed, chain |-> secret, index |-> 0],
                         !.local = identity, !.remote = m.ids[1]]

(* Mutant: the state that was current is dropped.                          *)
PromoteForgets(cur, prev, state) == [cur |-> state, prev |-> prev]

(* session_record_promote_state                                            *)
Promote(cur, prev, state) ==
    LET all == <<cur>> \o prev
    IN  [cur |-> state,
         prev |-> IF Len(all) > MaxArchived THEN SubSeq(all, 1, MaxArchived) ELSE all]

(* session_record_has_session_state                                        *)
HasSessionState(rec, base) ==
    rec.cur.base = base \/ \E i \in DOMAIN rec.prev : rec.prev[i].base = base

----------------------------------------------------------------------------
(* Decryption                                                              *)

(* session_cipher_get_or_create_chain_key when the ratchet key is new: one *)
(* step of the Diffie-Hellman ratchet.                                     *)
Ratchet(st, theirs, ours) ==
    LET receiving == CreateChain(st.root, theirs, st.sender.key)
        sending   == CreateChain(receiving, theirs, ours)
    IN  [st EXCEPT !.root = sending,
                   !.recv = AddReceiverChain(@, theirs, receiving),
                   !.sender = [key |-> ours, chain |-> sending, index |-> 0]]

(* The receiver chain with the ratchet key of the message, or 0.           *)
FindChain(st, m) == FirstIndex({i \in 1 .. Len(st.recv) : st.recv[i].key = m.ratchet})

(* session_cipher_get_or_create_chain_key; `ours` is the key pair drawn if *)
(* the message brings a new ratchet key.                                   *)
WithChain(st, m, ours) == IF FindChain(st, m) # 0 THEN st ELSE Ratchet(st, m.ratchet, ours)

(* The message key, the MAC, and what the state is after both.             *)
DecryptOnChain(st, m, i) ==
    LET res == KeysResult(st.recv[i].keys, m.counter)
        mac == st.recv[i].chain = m.chain /\ <<st.remote, st.local>> = m.ids
    IN  [res   |-> IF res = "ok" /\ ~mac THEN "invalid" ELSE res,
         state |-> [st EXCEPT !.recv[i].keys = KeysChain(@, m.counter), !.pending = None]]

DecryptOnState(st, m) == DecryptOnChain(st, m, FindChain(st, m))

(* session_cipher_decrypt_from_state_and_signal_message on a copy of st,   *)
(* which the caller drops unless the result is "ok".                       *)
DecryptFromState(st, m, ours) ==
    IF st.sender.key = None THEN [res |-> "invalid", state |-> st]
    ELSE DecryptOnState(WithChain(st, m, ours), m)

(* The i-th state is the first one that does not say "invalid"; an         *)
(* archived state that reads the message is promoted.                      *)
TakeResult(rec, tried, i) ==
    IF i = 0 THEN [res |-> "invalid", rec |-> rec]
    ELSE IF tried[i].res # "ok" THEN [res |-> tried[i].res, rec |-> rec]
    ELSE [res |-> "ok",
          rec |-> IF i = 1 THEN [rec EXCEPT !.cur = tried[i].state]
                  ELSE Promote(rec.cur, Without(rec.prev, i - 1), tried[i].state)]

FirstResult(rec, tried) ==
    TakeResult(rec, tried, FirstIndex({i \in 1 .. Len(tried) : tried[i].res # "invalid"}))

(* session_cipher_decrypt_from_record_and_signal_message: the current      *)
(* state, then the archived ones, newest first.                            *)
DecryptFromRecord(rec, m, ours) ==
    LET states == <<rec.cur>> \o rec.prev
    IN  FirstResult(rec, [i \in DOMAIN states |-> DecryptFromState(states[i], m, ours)])

=============================================================================
