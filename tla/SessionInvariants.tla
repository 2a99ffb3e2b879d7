------------------------- MODULE SessionInvariants -------------------------
(***************************************************************************)
(* What the proofs about Session say of its states, its operators and its  *)
(* outcomes: the types, the conjuncts of the inductive invariant, and what *)
(* reading a message makes of a session state, of a record and of a device.*)
(***************************************************************************)
EXTENDS Session

----------------------------------------------------------------------------
(* Types                                                                   *)

(* What a root or chain key was derived from: the agreements so far, each  *)
(* of them a set of two keys.                                              *)
KeySeq == Seq(SUBSET Nat)

(* A receiver chain: the ratchet key of the other side, the chain key and  *)
(* the message keys.                                                       *)
ReceiverChain == [key : Nat, chain : KeySeq, keys : Chain]

(* A session state, and a record of one current and several archived       *)
(* states.                                                                 *)
State ==
    [base : Nat, root : KeySeq, recv : Seq(ReceiverChain), pending : Nat,
     sender : [key : Nat, chain : KeySeq, index : Nat], local : Nat, remote : Nat]

Record == [cur : State, prev : Seq(State)]

(* What a device stores, what the server answers, and a message.           *)
Device ==
    [identity : Nat, signed : Nat, oneTime : SUBSET Nat, trusted : Nat, session : Record]

Bundle == [identity : Nat, signed : Nat, oneTime : Nat]

Message ==
    [n : Nat, to : Devices, pre : Nat, base : Nat, ratchet : Nat, counter : Nat,
     chain : KeySeq, ids : Nat \X Nat]

(* The types of the variables.                                             *)
TypeOK ==
    /\ dev \in [Devices -> Device]
    /\ asked \in [Devices -> Bundle]
    /\ net \in SUBSET Message /\ IsFiniteSet(net)
    /\ reads \in [1 .. MaxMessages -> Nat]
    /\ fresh \in Nat
    /\ lost \in SUBSET Nat /\ kept \in SUBSET Nat

----------------------------------------------------------------------------
(* The states of a record: slot 0 is the current one.                      *)
Slots(rec) == 0 .. Len(rec.prev)

(* The state in a slot of a record; of the record of device d; and the     *)
(* slots of that record.                                                   *)
At(rec, i) == IF i = 0 THEN rec.cur ELSE rec.prev[i]

Held(d, i) == At(dev[d].session, i)

SlotsOf(d) == Slots(dev[d].session)

(* A derived chain ends with the agreement of an older and a newer key,    *)
(* and goes back to a secret whose last agreement is with the base key.    *)
EndsWith(chain, x, y) == Len(chain) >= 5 /\ x < y /\ chain[Len(chain)] = {x, y}

(* The fourth agreement is with the base key, which is the newer of its    *)
(* two keys.                                                               *)
BasedOn(chain, base) ==
    Len(chain) >= 4 /\ \E y \in 0 .. base - 1 : chain[4] = {base, y}

(* A receiver chain of a state whose sender key is `key`.                  *)
ReceiverOK(r, base, key) ==
    /\ BasedOn(r.chain, base)
    /\ r.keys.skipped \subseteq 0 .. r.keys.index - 1
    /\ \/ Len(r.chain) = 4
       \/ \E x \in 0 .. r.key - 1 : EndsWith(r.chain, x, r.key) /\ x < key

(* A state that can send, when `last` keys were drawn.                     *)
StateOK(st, last) ==
    /\ st.sender.key <= last /\ st.base <= last
    /\ st.root = st.sender.chain
    /\ \E x \in 0 .. st.sender.key - 1 : EndsWith(st.root, x, st.sender.key)
    /\ BasedOn(st.root, st.base)
    /\ st.recv # <<>>
    /\ \A i \in DOMAIN st.recv : ReceiverOK(st.recv[i], st.base, st.sender.key)
    /\ \A i, j \in DOMAIN st.recv : st.recv[i].key = st.recv[j].key => i = j
    /\ st.pending # None =>
          /\ st.pending < st.base /\ st.root[4] = {st.base, st.pending}
          /\ \A i \in DOMAIN st.recv : Len(st.recv[i].chain) = 4

(* A message, when `last` keys were drawn.                                 *)
MessageOK(m, last) ==
    /\ m.ratchet <= last /\ m.base <= last
    /\ \E x \in 0 .. m.ratchet - 1 : EndsWith(m.chain, x, m.ratchet)
    /\ BasedOn(m.chain, m.base)
    /\ m.pre # None => m.pre < m.base /\ m.chain[4] = {m.base, m.pre}

(* The state can send: it is not the empty one.                            *)
Live(d, i) == Held(d, i).sender.key # None

(* Numbers that were drawn; message numbers; the counters.                 *)
Drawn ==
    /\ \A d \in Devices :
          /\ dev[d].signed <= fresh /\ dev[d].oneTime \subseteq 0 .. fresh
          /\ asked[d].signed <= fresh /\ asked[d].oneTime <= fresh
    /\ 0 \notin kept

(* Messages are numbered as they are sent, and only those are counted.     *)
Numbered ==
    /\ Cardinality(net) \in Nat /\ Cardinality(net) <= MaxMessages
    /\ \A m \in net : m.n \in 1 .. Cardinality(net)
    /\ \A m1, m2 \in net : m1.n = m2.n => m1 = m2
    /\ \A n \in 1 .. MaxMessages : n > Cardinality(net) => reads[n] = 0
    /\ lost \subseteq 1 .. Cardinality(net)

(* Every state, and every message, is as above.                            *)
StatesOK == \A d \in Devices : \A i \in SlotsOf(d) : Live(d, i) => StateOK(Held(d, i), fresh)

MessagesOK == \A m \in net : MessageOK(m, fresh)

(* No two states send with the same key, and none with a signed pre key.   *)
SendersApart ==
    \A d, e \in Devices : \A i \in SlotsOf(d), j \in SlotsOf(e) :
        (Live(d, i) /\ Held(d, i).sender.key = Held(e, j).sender.key) => d = e /\ i = j

(* No state sends with the signed pre key of a device.                     *)
SignedApart ==
    \A d, e \in Devices : \A i \in SlotsOf(d) : Live(d, i) => Held(d, i).sender.key # dev[e].signed

(* The sender is past all its messages.                                    *)
SenderAhead ==
    \A d \in Devices : \A i \in SlotsOf(d) : \A m \in net :
        (Live(d, i) /\ m.ratchet = Held(d, i).sender.key)
            => /\ m.counter < Held(d, i).sender.index
               /\ m.pre = Held(d, i).pending

(* Messages of one chain have different counters, and name the same one-   *)
(* time key.                                                               *)
MessagesApart ==
    \A m1, m2 \in net : m1.ratchet = m2.ratchet =>
        m1.pre = m2.pre /\ (m1.counter = m2.counter => m1 = m2)

(* The receiver is not ahead of the messages that were sent.               *)
ReceiverBehind ==
    \A d \in Devices : \A i \in SlotsOf(d) : \A r \in DOMAIN Held(d, i).recv :
        LET rc == Held(d, i).recv[r]
        IN  (Live(d, i) /\ rc.keys.index > 0)
                => \E m \in net : m.ratchet = rc.key /\ m.counter = rc.keys.index - 1

(* The key of the message was used, with or without its text being stored. *)
Used(m) == reads[m.n] > 0 \/ m.n \in lost

(* The chain no longer has the key for the counter.                        *)
Gone(keys, c) == c < keys.index /\ c \notin keys.skipped

(* So many messages followed on the chain that the key need not be there   *)
(* any more.                                                               *)
Evicted(m) == \E later \in net : later.ratchet = m.ratchet /\ later.counter - m.counter > MaxKeys

(* A key that is gone was used, or it was one of too many.                 *)
GoneIsUsed ==
    \A d \in Devices : \A i \in SlotsOf(d) : \A r \in DOMAIN Held(d, i).recv : \A m \in net :
        (/\ Live(d, i) /\ m.to = d /\ m.ratchet = Held(d, i).recv[r].key
         /\ Gone(Held(d, i).recv[r].keys, m.counter))
            => Used(m) \/ Evicted(m)

(* None of the keys with which the receiver chains of st were agreed on,   *)
(* when `last` keys were drawn, is the key with which the other sends.     *)
Retired(st, other, last) ==
    (st.sender.key # None /\ other.sender.key # None) =>
        \A r \in DOMAIN st.recv : \A x \in 0 .. last :
            EndsWith(st.recv[r].chain, x, st.recv[r].key) => other.sender.key # x

(* The keys with which receiver chains were agreed on send no more.        *)
OwnKeysRetired ==
    \A d, e \in Devices : \A i \in SlotsOf(d), j \in SlotsOf(e) :
        Retired(Held(d, i), Held(e, j), fresh)

(* Two states have the same receiver chain, and not one with which a       *)
(* session starts.                                                         *)
SharesChain(st, other) ==
    /\ st.sender.key # None /\ other.sender.key # None
    /\ \E r \in DOMAIN st.recv, s \in DOMAIN other.recv :
          Len(st.recv[r].chain) >= 5 /\ st.recv[r].chain = other.recv[s].chain

(* No two states of a device have the same receiver chain.                 *)
ReceiversApart ==
    \A d \in Devices : \A i, j \in SlotsOf(d) : SharesChain(Held(d, i), Held(d, j)) => i = j

(* A message that was used is not read again by a state that is there.     *)
UsedIsGone ==
    \A m \in net : \A i \in SlotsOf(m.to) :
        (Used(m) /\ m.pre \notin kept /\ Live(m.to, i)) =>
            LET st == Held(m.to, i)
            IN  /\ \A r \in DOMAIN st.recv :
                      (st.recv[r].key = m.ratchet /\ st.recv[r].chain = m.chain)
                          => Gone(st.recv[r].keys, m.counter)
                /\ \A x \in 0 .. fresh : EndsWith(m.chain, x, m.ratchet) => st.sender.key # x

(* Nor by a state that is built again.                                     *)
UsedPreKeyGone ==
    \A m \in net : (Used(m) /\ m.pre # None /\ m.pre \notin kept) => m.pre \notin dev[m.to].oneTime

(* The base keys and one-time keys that pre key messages to d name.        *)
OffersTo(d) ==
    {<<m.base, m.pre>> : m \in {k \in net : k.to = d /\ k.pre # None}} \cup
    {<<Held(Peer(d), i).base, Held(Peer(d), i).pending>> :
        i \in {k \in SlotsOf(Peer(d)) : Live(Peer(d), k) /\ Held(Peer(d), k).pending # None}}

(* A base key belongs to one one-time key; and where a state with the base *)
(* key is, the one-time key is gone, unless a crash left it in the store.  *)
OffersOK ==
    \A d \in Devices :
        /\ \A o1, o2 \in OffersTo(d) : o1[1] = o2[1] => o1[2] = o2[2]
        /\ \A o \in OffersTo(d), i \in SlotsOf(d) :
              (Live(d, i) /\ Held(d, i).base = o[1]) => o[2] \notin dev[d].oneTime \/ o[2] \in kept

-----------------------------------------------------------------------------
(* What the operators of SessionState and Session return, as relations.    *)

(* The keys of a receiver chain before and after one of them was used: the *)
(* one that was used is gone, and no other unless the message is so far    *)
(* ahead that the limit on skipped keys evicts it.                         *)
KeysAfter(ch, c, new) ==
    /\ ~Gone(ch, c) /\ Gone(new, c)
    /\ new.skipped \subseteq 0 .. new.index - 1
    /\ new.index = ch.index \/ new.index = c + 1
    /\ \A k \in Nat : Gone(ch, k) => Gone(new, k)
    /\ \A k \in Nat : Gone(new, k) => Gone(ch, k) \/ k = c \/ c - k > MaxKeys

(* The same of a chain of which the skipped keys are behind the next one.  *)
KeyTaken(ch, c, new) == ch.skipped \subseteq 0 .. ch.index - 1 => KeysAfter(ch, c, new)

(* session_state_add_receiver_chain: the new chain is the last one, and    *)
(* the others are those that were there, perhaps without the first.        *)
AddedTo(recv, key, chain, new) ==
    /\ new \in Seq(ReceiverChain) /\ Len(new) >= 1
    /\ new[Len(new)] = [key |-> key, chain |-> chain, keys |-> NewChain]
    /\ \E k \in {0, 1} : \A i \in 1 .. Len(new) - 1 :
          i + k \in 1 .. Len(recv) /\ new[i] = recv[i + k]

(* Decryption with the chain f of a state: the keys of that chain change,  *)
(* and the bundle need not be sent along any more.                         *)
UsedChain(st, m, new, f) ==
    /\ f \in DOMAIN st.recv /\ Len(new.recv) = Len(st.recv)
    /\ \A i \in DOMAIN st.recv : i # f => new.recv[i] = st.recv[i]
    /\ new.recv[f].key = st.recv[f].key /\ new.recv[f].chain = st.recv[f].chain
    /\ KeyTaken(st.recv[f].keys, m.counter, new.recv[f].keys)
    /\ new.base = st.base /\ new.root = st.root /\ new.sender = st.sender /\ new.pending = None
    /\ new.local = st.local /\ new.remote = st.remote

(* A step of the Diffie-Hellman ratchet: the new receiver chain is the     *)
(* last one and belongs to the key of the message; a new key sends.        *)
Ratcheted(st, m, ours, mid) ==
    /\ \A i \in DOMAIN st.recv : st.recv[i].key # m.ratchet
    /\ mid.recv[Len(mid.recv)] = [key |-> m.ratchet,
                                  chain |-> Append(st.root, {m.ratchet, st.sender.key}),
                                  keys |-> NewChain]
    /\ Len(mid.recv) >= 1
    /\ \E k \in {0, 1} : \A i \in 1 .. Len(mid.recv) - 1 :
          i + k \in DOMAIN st.recv /\ mid.recv[i] = st.recv[i + k]
    /\ mid.root = Append(Append(st.root, {m.ratchet, st.sender.key}), {m.ratchet, ours})
    /\ mid.sender = [key |-> ours, chain |-> mid.root, index |-> 0]
    /\ mid.base = st.base /\ mid.local = st.local /\ mid.remote = st.remote

(* A state that reads a message, with a chain that it has or with a new    *)
(* one.                                                                    *)
ReadOld(st, m, new) ==
    \E f \in DOMAIN st.recv :
        /\ st.recv[f].key = m.ratchet /\ st.recv[f].chain = m.chain
        /\ UsedChain(st, m, new, f)

(* The state read m with a chain that it made for it.                      *)
ReadNew(st, m, ours, new) ==
    \E mid \in State :
        /\ Ratcheted(st, m, ours, mid)
        /\ m.chain = Append(st.root, {m.ratchet, st.sender.key})
        /\ UsedChain(mid, m, new, Len(mid.recv))

(* The state st reads m and becomes new.                                   *)
ReadFrom(st, m, ours, new) ==
    /\ st.sender.key # None /\ new \in State
    /\ ReadOld(st, m, new) \/ ReadNew(st, m, ours, new)

(* The state st has a chain for m, and the key of m is gone from it.       *)
Refuses(st, m) ==
    /\ st.sender.key # None
    /\ \E f \in DOMAIN st.recv : st.recv[f].key = m.ratchet /\ Gone(st.recv[f].keys, m.counter)

(* All states of t but the current one are states of s, each at most once, *)
(* and slot i of s is not among them.                                      *)
Derived(s, t, i) ==
    \E p \in [1 .. Len(t.prev) -> Slots(s)] :
        /\ \A j \in 1 .. Len(t.prev) : p[j] # i /\ t.prev[j] = At(s, p[j])
        /\ \A j, k \in 1 .. Len(t.prev) : p[j] = p[k] => j = k

(* ratcheting_session_bob_initialize: a state without receiver chains that *)
(* would send with the signed pre key.                                     *)
Bare(raw, D, m, one) ==
    /\ raw \in State /\ raw.recv = <<>> /\ raw.base = m.base
    /\ raw.sender.key = D.signed
    /\ Len(raw.root) = 4 /\ raw.root[4] = {m.base, one}

(* How a device takes a message: with a state that it has; with one that   *)
(* it builds; or with one that it has, although it built one.              *)
ByHeld(D, m, ours, E) ==
    /\ m.pre # None => HasSessionState(D.session, m.base)
    /\ E.oneTime = D.oneTime
    /\ \E i \in Slots(D.session) :
          ReadFrom(At(D.session, i), m, ours, E.session.cur) /\ Derived(D.session, E.session, i)

(* The message was read by a state that was built for it; or by one that   *)
(* was there although none has its base key; or one of these or the usual  *)
(* way.                                                                    *)
ByBuilt(D, m, ours, E) ==
    /\ m.pre # None /\ ~HasSessionState(D.session, m.base)
    /\ E.oneTime = D.oneTime \ {m.pre}
    /\ Derived(D.session, E.session, -1)
    /\ \E one \in (D.oneTime \cap {m.pre}) \cup {None}, raw \in State :
          Bare(raw, D, m, one) /\ ReadFrom(raw, m, ours, E.session.cur)

ByCrossed(D, m, ours) ==
    /\ m.pre # None /\ ~HasSessionState(D.session, m.base)
    /\ \E i \in Slots(D.session), new \in State : ReadFrom(At(D.session, i), m, ours, new)

Taken(D, m, ours, E) ==
    /\ E \in Device /\ E.identity = D.identity /\ E.signed = D.signed
    /\ ByHeld(D, m, ours, E) \/ ByBuilt(D, m, ours, E) \/ ByCrossed(D, m, ours)

(* What is known of the outcome of a message: it was taken in one of these *)
(* ways, or refused because its key is gone; refused, it changes only the  *)
(* identity that the device trusts.                                        *)
OutcomeKnown(d, m, clash) ==
    LET o == Outcome(d, m, clash)
    IN  /\ o.res = "ok" => Taken(dev[d], m, fresh + 1, o.D)
        /\ o.res = "duplicate" => \E i \in SlotsOf(d) : Refuses(Held(d, i), m)
        /\ o.res # "ok" => o.D \in Device /\ \E t \in Nat : o.D = [dev[d] EXCEPT !.trusted = t]

=============================================================================
