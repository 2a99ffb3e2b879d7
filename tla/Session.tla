------------------------------- MODULE Session -----------------------------
(***************************************************************************)
(* Two devices that add each other as contacts and exchange messages: the  *)
(* clients' requestPreKeys, prepareApiBody, parseMessages and              *)
(* decryptSignalMessage on top of SessionState, over a network and a       *)
(* server that lose, reorder and repeat messages.                          *)
(*                                                                         *)
(* A client reads messages only of a contact it has a session with, so     *)
(* each side adds the other, each starts a session of its own, and the two *)
(* sessions meet: simultaneous initiation is the normal case here.         *)
(***************************************************************************)
EXTENDS SessionState

CONSTANTS
    MaxMessages,    \* bound on messages sent
    MaxAdds,        \* bound on additions of a contact
    MaxResets,      \* bound on new registrations
    MaxCrashes,     \* bound on ends of a process in the middle of a decryption
    Deletes         \* whether contacts are deleted

ASSUME MessagesAssumption == MaxMessages \in Nat

VARIABLES
    dev,       \* what each device has stored
    asked,     \* the answer to a request for the peer's keys, on its way
    net,       \* every message that was sent
    reads,     \* how often the text of each message was handed to the app
    fresh,     \* key pairs drawn so far
    lost,      \* messages whose text was lost after the session was stored
    kept,      \* one-time keys that a crash left in the store after their use
    adds, resets, crashes

counters == <<adds, resets, crashes>>

vars == <<dev, asked, net, reads, fresh, lost, kept, counters>>

Devices == {1, 2}

Peer(d) == 3 - d

NoBundle == [identity |-> None, signed |-> None, oneTime |-> None]

(* A registration: identity key, signed pre key, no contacts.              *)
NewDevice(first) ==
    [identity |-> first, signed |-> first + 1, oneTime |-> {}, trusted |-> None,
     session |-> NoSession]

Init ==
    /\ dev = [d \in Devices |-> NewDevice(2 * d - 1)]
    /\ asked = [d \in Devices |-> NoBundle]
    /\ net = {}
    /\ reads = [n \in 1 .. MaxMessages |-> 0]
    /\ fresh = 4
    /\ adds = 0
    /\ resets = 0
    /\ lost = {} /\ kept = {} /\ crashes = 0

(* containsSession                                                         *)
ContainsSession(d) == dev[d].session # NoSession

----------------------------------------------------------------------------
(* requestPreKeys, up to the answer of the server, which hands out a       *)
(* one-time key that the peer has in store (see Registration).             *)
AddContact(d) ==
    LET e == Peer(d)
    IN  /\ adds < MaxAdds
        /\ adds' = adds + 1
        /\ fresh' = fresh + 1
        /\ asked' = [asked EXCEPT ![d] = [identity |-> dev[e].identity, signed |-> dev[e].signed,
                                         oneTime |-> fresh + 1]]
        /\ dev' = [dev EXCEPT ![e].oneTime = @ \cup {fresh + 1}]
        /\ UNCHANGED <<net, reads, lost, kept, resets, crashes>>

(* requestPreKeys, the callback: the identity and the session are deleted  *)
(* and a session is built from the bundle, which may be out of date.       *)
OnPreKeys(d) ==
    /\ asked[d] # NoBundle
    /\ asked' = [asked EXCEPT ![d] = NoBundle]
    /\ fresh' = fresh + 2
    /\ dev' = [dev EXCEPT
          ![d].trusted = asked[d].identity,
          ![d].session = ProcessBundle(dev[d].identity, fresh + 1, fresh + 2, asked[d])]
    /\ UNCHANGED <<net, reads, lost, kept, counters>>

(* deleteContact; messages that wait on the server are lost or come later. *)
DeleteContact(d) ==
    /\ Deletes /\ ContainsSession(d)
    /\ dev' = [dev EXCEPT ![d].trusted = None, ![d].session = NoSession]
    /\ UNCHANGED <<asked, net, reads, fresh, lost, kept, counters>>

(* resetAccount and a new registration.                                    *)
Reset(d) ==
    /\ resets < MaxResets
    /\ resets' = resets + 1
    /\ dev' = [dev EXCEPT ![d] = NewDevice(fresh + 1)]
    /\ fresh' = fresh + 2
    /\ UNCHANGED <<asked, net, reads, lost, kept, adds, crashes>>

(* session_cipher_encrypt, called by prepareApiBody                        *)
Encrypt(d) ==
    LET st == dev[d].session.cur
        n  == Cardinality(net) + 1
    IN  /\ n <= MaxMessages
        /\ st.sender.key # None
        /\ net' = net \cup {[n |-> n, to |-> Peer(d), pre |-> st.pending, base |-> st.base,
                             ratchet |-> st.sender.key, counter |-> st.sender.index,
                             chain |-> st.sender.chain, ids |-> <<st.local, st.remote>>]}
        /\ dev' = [dev EXCEPT ![d].session.cur.sender.index = CreateNext(@)]
        /\ UNCHANGED <<asked, reads, fresh, lost, kept, counters>>

----------------------------------------------------------------------------
(* Receiving.  An outcome has the result and the device after it.          *)

(* session_cipher_decrypt_signal_message                                   *)
SignalOutcome(D, m) ==
    LET Store(r) == [res |-> r.res, D |-> IF r.res = "ok" THEN [D EXCEPT !.session = r.rec] ELSE D]
    IN  Store(DecryptFromRecord(D.session, m, fresh + 1))

(* The record session_builder_process_pre_key_signal_message_v3 leaves.    *)
BuildSession(D, m, oneTime) ==
    IF HasSessionState(D.session, m.base) THEN D.session
    ELSE LET st == BobInitialize(D.identity, D.signed, oneTime, m)
         IN  IF D.session = NoSession THEN [cur |-> st, prev |-> <<>>]
             ELSE Promote(D.session.cur, D.session.prev, st)

(* Mutant: the one-time key stays in the store.                            *)
RemovePreKeyNever(D, m) == D

(* signal_protocol_pre_key_remove_key, for a session that was just built.  *)
RemovePreKey(D, m) ==
    IF HasSessionState(D.session, m.base) THEN D
    ELSE [D EXCEPT !.oneTime = @ \ {m.pre}]

(* session_cipher_decrypt_pre_key_signal_message for a trusted identity:   *)
(* the identity is saved before the message is decrypted, the session and  *)
(* the removal of the pre key only after.  Pre key ids start over at every *)
(* registration, so the id of a key that is gone may name another one      *)
(* (`clash`).                                                              *)
TrustedOutcome(D, m, clash) ==
    LET oneTime == IF m.pre \in D.oneTime THEN m.pre ELSE None
        saved   == [D EXCEPT !.trusted = m.ids[1]]
        Store(r) ==
            [res |-> r.res,
             D   |-> IF r.res = "ok" THEN [RemovePreKey(saved, m) EXCEPT !.session = r.rec] ELSE saved]
    IN  IF ~HasSessionState(D.session, m.base) /\ oneTime = None /\ ~clash
        THEN [res |-> "invalid", D |-> D]
        ELSE Store(DecryptFromRecord(BuildSession(D, m, oneTime), m, fresh + 1))

(* The client's ladder: a pre key message with an identity that is not the *)
(* trusted one makes it forget the trusted one and try again.              *)
PreKeyOutcome(D, m, clash) ==
    TrustedOutcome(IF D.trusted \in {None, m.ids[1]} THEN D ELSE [D EXCEPT !.trusted = None],
                   m, clash)

(* First as a signal message, then as a pre key message; bytes of the one  *)
(* do not parse as the other.                                              *)
Outcome(d, m, clash) ==
    IF m.pre = None THEN SignalOutcome(dev[d], m) ELSE PreKeyOutcome(dev[d], m, clash)

Receive(d, m, clash) ==
    /\ m.to = d
    /\ ContainsSession(d)
    /\ clash => dev[d].identity # 2 * d - 1
    /\ LET Take(o) ==
              /\ dev' = [dev EXCEPT ![d] = o.D]
              /\ reads' = IF o.res = "ok" THEN [reads EXCEPT ![m.n] = @ + 1] ELSE reads
              /\ fresh' = IF o.res = "ok" THEN fresh + 1 ELSE fresh
       IN  Take(Outcome(d, m, clash))
    /\ UNCHANGED <<asked, net, lost, kept, counters>>

(* The process ends in the middle of session_cipher_decrypt_..., and with  *)
(* it a request that is underway.  `stored`: the session was stored, but   *)
(* the one-time key is not removed yet and the text has reached nobody;    *)
(* otherwise only the identity of a pre key message was saved.             *)
CrashInReceive(d, m, stored) ==
    LET Leave(o) ==
            /\ o.res = "ok" /\ (stored \/ m.pre # None)
            /\ dev' = [dev EXCEPT ![d].trusted = o.D.trusted,
                                  ![d].session = IF stored THEN o.D.session ELSE @]
            /\ kept' = IF stored THEN kept \cup (dev[d].oneTime \ o.D.oneTime) ELSE kept
    IN  /\ crashes < MaxCrashes /\ crashes' = crashes + 1
        /\ m.to = d /\ ContainsSession(d)
        /\ Leave(Outcome(d, m, FALSE))
        /\ fresh' = fresh + 1
        /\ lost' = IF stored THEN lost \cup {m.n} ELSE lost
        /\ asked' = [asked EXCEPT ![d] = NoBundle]
        /\ UNCHANGED <<net, reads, adds, resets>>

Next ==
    \E d \in Devices :
        \/ AddContact(d) \/ OnPreKeys(d) \/ DeleteContact(d) \/ Reset(d) \/ Encrypt(d)
        \/ \E m \in net, flag \in BOOLEAN : Receive(d, m, flag) \/ CrashInReceive(d, m, flag)

Spec == Init /\ [][Next]_vars

----------------------------------------------------------------------------
(* No message is read twice, whatever is repeated: not by an archived      *)
(* state, not by a session that is built again from the same pre key       *)
(* message after the contact was deleted or added again.  The one          *)
(* exception are messages made with a one-time key that a crash left in    *)
(* the store: nothing removes that key any more.                           *)
AtMostOnce == \A m \in net : m.pre \notin kept => reads[m.n] <= 1

(* No two messages are encrypted with the same message key.                *)
KeysUsedOnce ==
    \A m1, m2 \in net : m1.chain = m2.chain /\ m1.counter = m2.counter => m1 = m2

(* Every message that has not been read yet can be read whenever it comes  *)
(* in, in any order, through crossing sessions, archiving and promotion,   *)
(* as long as nobody deletes the session or registers anew.  A crash may   *)
(* lose the message that was being decrypted, and no other one.            *)
UnreadIsReadable ==
    \A m \in net : (reads[m.n] = 0 /\ m.n \notin lost /\ ContainsSession(m.to)) =>
        Outcome(m.to, m, FALSE).res = "ok"

(* "Duplicate" is said only of a message that was received before, or was  *)
(* lost in a crash after its key was used up; or, once a message of the    *)
(* same chain is more than MaxKeys ahead of it, whose key had to go.       *)
DuplicateMeansRead ==
    \A m \in net : (ContainsSession(m.to) /\ Outcome(m.to, m, FALSE).res = "duplicate") =>
        \/ reads[m.n] > 0 \/ m.n \in lost
        \/ \E later \in net : later.ratchet = m.ratchet /\ later.counter - m.counter > MaxKeys

=============================================================================
