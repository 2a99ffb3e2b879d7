--------------------------- MODULE SessionProofs ---------------------------
(***************************************************************************)
(* Proofs about Session, for any number of messages, chains, archived      *)
(* states and kept keys: nothing is read twice, no key encrypts two        *)
(* messages, and what is refused as a duplicate was read, or so many       *)
(* messages followed that its key was dropped.                             *)
(*                                                                         *)
(* None of these is inductive: what a device can still read depends on the *)
(* keys in all its states.  SessionInv says how keys, states and messages  *)
(* hang together.  Every ratchet key sends in one state, which is past all *)
(* messages sent with it; every receiver chain is agreed on with a key     *)
(* that sends no more, is in one state only, and is not ahead of the       *)
(* messages; and the key of a message that was used is gone from every     *)
(* state, the one-time key with which a state for it could be built again  *)
(* included.                                                               *)
(*                                                                         *)
(* SessionStepProofs says that a step of a certain shape keeps the         *)
(* invariant, SessionActionProofs that every action is such a step, given  *)
(* what the operators return.  Here that is proved: OutcomeRead says that  *)
(* a device takes a message in one of three ways, or refuses it.           *)
(***************************************************************************)
EXTENDS SessionActionProofs, FiniteSetTheorems, SequenceTheorems, WellFoundedInduction

----------------------------------------------------------------------------
(* The operators of the model                                              *)

(* A set of numbers that is not empty has a least one.                     *)
LEMMA LeastNumber ==
    ASSUME NEW I \in SUBSET Nat, I # {}
    PROVE  Min(I) \in I /\ \A y \in I : Min(I) <= y
<1>1. IsWellFoundedOn(OpToRel(<, Nat), Nat)
  BY Zenon, NatLessThanWellFounded
<1>2. \E x \in I : \A y \in I : ~(<<y, x>> \in OpToRel(<, Nat))
  BY Zenon, <1>1, WFMin
<1>3. \E x \in I : \A y \in I : ~(y < x)
  BY Zenon, <1>2 DEF OpToRel
<1>4. \E x \in I : \A y \in I : x <= y
  BY <1>3
<1> QED
  BY Zenon, <1>4 DEF Min

(* The receiver chain that is found has the ratchet key of the message.    *)
LEMMA FoundChain ==
    ASSUME NEW st, st.recv \in Seq(ReceiverChain), NEW m
    PROVE  /\ FindChain(st, m) \in 0 .. Len(st.recv)
           /\ FindChain(st, m) # 0 => st.recv[FindChain(st, m)].key = m.ratchet
           /\ FindChain(st, m) = 0 => \A i \in DOMAIN st.recv : st.recv[i].key # m.ratchet
<1> DEFINE I == {i \in 1 .. Len(st.recv) : st.recv[i].key = m.ratchet}
<1>1. FindChain(st, m) = IF I # {} THEN Min(I) ELSE 0
  BY DEF FindChain, FirstIndex
<1>2. I \in SUBSET Nat /\ Len(st.recv) \in Nat /\ DOMAIN st.recv = 1 .. Len(st.recv)
  OBVIOUS
<1>3. I # {} => Min(I) \in I
  BY Zenon, <1>2, LeastNumber
<1> QED
  BY <1>1, <1>2, <1>3

(* session_state_add_receiver_chain keeps the newest chains.               *)
LEMMA AddedChain ==
    ASSUME NEW recv \in Seq(ReceiverChain), NEW key \in Nat, NEW chain \in KeySeq
    PROVE  AddedTo(recv, key, chain, AddReceiverChain(recv, key, chain))
<1> DEFINE last == [key |-> key, chain |-> chain, keys |-> NewChain]
           all  == Append(recv, last)
<1>1. last \in ReceiverChain
  BY Zenon DEF ReceiverChain, NewChain, Chain
<1> HIDE DEF last
<1>2. /\ all \in Seq(ReceiverChain) /\ Len(all) = Len(recv) + 1 /\ all[Len(recv) + 1] = last
      /\ \A i \in 1 .. Len(recv) : all[i] = recv[i]
  BY <1>1
<1>3. CASE Len(all) > MaxChains
  <2>1. AddReceiverChain(recv, key, chain) = Tail(all)
    BY Zenon, <1>3 DEF AddReceiverChain, last
  <2>2. Len(recv) >= 1
    BY <1>2, <1>3, StatesAssumption
  <2>3. /\ Tail(all) \in Seq(ReceiverChain) /\ Len(Tail(all)) = Len(recv)
        /\ \A i \in 1 .. Len(recv) : Tail(all)[i] = all[i + 1]
    BY <1>2, <2>2
  <2> HIDE DEF all
  <2>4. \A i \in 1 .. Len(Tail(all)) - 1 : i + 1 \in 1 .. Len(recv) /\ Tail(all)[i] = recv[i + 1]
    BY <1>2, <2>2, <2>3
  <2>5. Len(Tail(all)) >= 1 /\ Tail(all)[Len(Tail(all))] = last
    BY <1>2, <2>2, <2>3
  <2> QED
    BY Zenon, <2>1, <2>3, <2>4, <2>5 DEF last, AddedTo
<1>4. CASE ~(Len(all) > MaxChains)
  <2>1. AddReceiverChain(recv, key, chain) = all
    BY <1>4 DEF AddReceiverChain, last
  <2> HIDE DEF all
  <2>2. \A i \in 1 .. Len(all) - 1 : i + 0 \in 1 .. Len(recv) /\ all[i] = recv[i + 0]
    BY <1>2
  <2>3. Len(all) >= 1 /\ all[Len(all)] = last
    BY <1>2
  <2> QED
    BY Zenon, <1>2, <2>1, <2>2, <2>3 DEF last, AddedTo
<1> QED
  BY Zenon, <1>3, <1>4

(* What taking one key changes in a chain.                                 *)
LEMMA KeysUsed ==
    ASSUME NEW ch \in Chain, ch.skipped \subseteq 0 .. ch.index - 1, NEW c \in Nat,
           KeysResult(ch, c) = "ok"
    PROVE  KeysAfter(ch, c, KeysChain(ch, c))
<1>1. ch.index \in Nat /\ ch.skipped \in SUBSET Nat
  BY DEF Chain
<1>2. CASE c < ch.index
  <2>1. KeysChain(ch, c) = TakeSkipped(ch, c) /\ c \in ch.skipped
    BY <1>2 DEF KeysChain, KeysResult
  <2>2. TakeSkipped(ch, c).index = ch.index /\ TakeSkipped(ch, c).skipped = ch.skipped \ {c}
    BY DEF TakeSkipped, Chain
  <2> QED
    BY Zenon, <1>1, <1>2, <2>1, <2>2 DEF KeysAfter, Gone
<1>3. CASE ~(c < ch.index)
  <2> DEFINE S == ch.skipped \cup (ch.index .. c - 1)
             K == KeepNewest(S)
             new == [index |-> c + 1, skipped |-> K]
  <2>1. KeysChain(ch, c) = new
    BY Zenon, <1>3 DEF KeysChain, Advance
  <2>2. S \subseteq 0 .. c - 1 /\ K \subseteq S
    BY <1>1, <1>3 DEF KeepNewest
  <2>3. ASSUME NEW k \in S, k \notin K PROVE c - k > MaxKeys
    <3> DEFINE T == {j \in S : j >= k}
    <3>1. ~(Cardinality(T) <= MaxKeys)
      BY <2>3 DEF KeepNewest
    <3>2. T \subseteq k .. c - 1 /\ k \in Nat /\ k < c
      BY <2>2
    <3>3. IsFiniteSet(k .. c - 1) /\ Cardinality(k .. c - 1) = c - k
      <4> DEFINE b == c - 1
      <4>1. b \in Int /\ k \in Int
        BY <3>2
      <4> HIDE DEF b
      <4>2. IsFiniteSet(k .. b) /\ Cardinality(k .. b) = IF k > b THEN 0 ELSE b - k + 1
        BY Zenon, <4>1, FS_Interval
      <4> QED
        BY <3>2, <4>2 DEF b
    <3>4. Cardinality(T) <= c - k /\ IsFiniteSet(T)
      BY <3>2, <3>3, FS_Subset
    <3>5. Cardinality(T) \in Nat
      BY Zenon, <3>4, FS_CardinalityType
    <3> QED
      BY <3>1, <3>2, <3>4, <3>5, LimitsAssumption
  <2> HIDE DEF K
  <2>4. new.index = c + 1 /\ new.skipped = K
    OBVIOUS
  <2>5. ASSUME NEW k \in Nat, Gone(new, k) PROVE Gone(ch, k) \/ k = c \/ c - k > MaxKeys
    BY <1>1, <1>3, <2>2, <2>3, <2>4, <2>5 DEF Gone
  <2>6. ASSUME NEW k \in Nat, Gone(ch, k) PROVE Gone(new, k)
    BY <1>1, <1>3, <2>2, <2>4, <2>6 DEF Gone
  <2>7. Gone(new, c) /\ ~Gone(ch, c)
    BY <1>1, <1>3, <2>2, <2>4 DEF Gone
  <2>8. new.skipped \subseteq 0 .. new.index - 1
    BY <2>2, <2>4
  <2> HIDE DEF new
  <2> QED
    BY Zenon, <2>1, <2>4, <2>5, <2>6, <2>7, <2>8 DEF KeysAfter
<1> QED
  BY Zenon, <1>2, <1>3

(* What the keys of a receiver chain are after one of them was used.       *)
LEMMA KeysTyped ==
    ASSUME NEW ch \in Chain, NEW c \in Nat
    PROVE  KeysChain(ch, c) \in Chain
  BY DEF KeysChain, KeysResult, TakeSkipped, Advance, KeepNewest, Chain

(* A message that a receiver chain decrypts is of that chain, and takes    *)
(* its key.                                                                *)
LEMMA DecryptedOnChain ==
    ASSUME NEW st \in State, NEW m \in Message, NEW f \in DOMAIN st.recv,
           DecryptOnChain(st, m, f).res = "ok"
    PROVE  LET new == DecryptOnChain(st, m, f).state
           IN  /\ new \in State
               /\ st.recv[f].chain = m.chain /\ <<st.remote, st.local>> = m.ids
               /\ UsedChain(st, m, new, f)
<1> DEFINE new == DecryptOnChain(st, m, f).state
           rc  == [st.recv[f] EXCEPT !.keys = KeysChain(@, m.counter)]
           rs  == [st.recv EXCEPT ![f] = rc]
<1>1. st.recv \in Seq(ReceiverChain) /\ m.counter \in Nat
  BY Zenon DEF State, Message
<1>2. st.recv[f] \in ReceiverChain /\ f \in 1 .. Len(st.recv)
  BY <1>1
<1>3. st.recv[f].keys \in Chain /\ st.recv[f].key \in Nat /\ st.recv[f].chain \in KeySeq
  BY Zenon, <1>2 DEF ReceiverChain
<1>4. KeysChain(st.recv[f].keys, m.counter) \in Chain
  BY Zenon, <1>1, <1>3, KeysTyped
<1>5. rc = [key |-> st.recv[f].key, chain |-> st.recv[f].chain,
            keys |-> KeysChain(st.recv[f].keys, m.counter)]
  BY <1>2 DEF ReceiverChain
<1>6. rc \in ReceiverChain
  BY Zenon, <1>3, <1>4, <1>5 DEF ReceiverChain
<1> HIDE DEF rc
<1>7. /\ rs \in Seq(ReceiverChain) /\ Len(rs) = Len(st.recv)
      /\ \A i \in 1 .. Len(st.recv) : rs[i] = IF i = f THEN rc ELSE st.recv[i]
  BY <1>1, <1>2, <1>6, ExceptSeq
<1>8. new = [st EXCEPT !.recv = rs, !.pending = None]
  BY Zenon DEF DecryptOnChain, rc
<1> HIDE DEF rs, new
<1>9. /\ new.recv = rs /\ new.pending = None
      /\ new.base = st.base /\ new.root = st.root /\ new.sender = st.sender
      /\ new.local = st.local /\ new.remote = st.remote
  BY Zenon, <1>8 DEF State
<1>12. new \in State
  BY Zenon, <1>7, <1>8 DEF State, None
<1>10. /\ KeysResult(st.recv[f].keys, m.counter) = "ok"
       /\ st.recv[f].chain = m.chain /\ <<st.remote, st.local>> = m.ids
  BY Zenon DEF DecryptOnChain
<1>11. UsedChain(st, m, new, f)
  <2>1. KeyTaken(st.recv[f].keys, m.counter, KeysChain(st.recv[f].keys, m.counter))
    BY Zenon, <1>1, <1>3, <1>10, KeysUsed DEF KeyTaken
  <2>2. /\ rs[f].key = st.recv[f].key /\ rs[f].chain = st.recv[f].chain
        /\ rs[f].keys = KeysChain(st.recv[f].keys, m.counter)
    BY <1>2, <1>5, <1>7
  <2> QED
    BY <1>1, <1>2, <1>7, <1>9, <2>1, <2>2 DEF UsedChain
<1> QED
  BY Zenon, <1>10, <1>11, <1>12 DEF new

(* The step of the ratchet for a chain that is not there yet.              *)
LEMMA RatchetStep ==
    ASSUME NEW st \in State, NEW m \in Message, NEW ours \in Nat, FindChain(st, m) = 0
    PROVE  /\ WithChain(st, m, ours) \in State
           /\ Ratcheted(st, m, ours, WithChain(st, m, ours))
           /\ FindChain(WithChain(st, m, ours), m) = Len(WithChain(st, m, ours).recv)
<1> DEFINE receiving == Append(st.root, {m.ratchet, st.sender.key})
           sending   == Append(receiving, {m.ratchet, ours})
           rs        == AddReceiverChain(st.recv, m.ratchet, receiving)
           snd       == [key |-> ours, chain |-> sending, index |-> 0]
           mid       == [st EXCEPT !.root = sending, !.recv = rs, !.sender = snd]
<1>1. WithChain(st, m, ours) = mid
  BY DEF WithChain, Ratchet, CreateChain, DH
<1>2. /\ st.root \in KeySeq /\ st.recv \in Seq(ReceiverChain)
      /\ st.sender.key \in Nat /\ m.ratchet \in Nat
  BY Zenon DEF State, Message
<1>3. receiving \in KeySeq /\ sending \in KeySeq
  BY <1>2 DEF KeySeq
<1> HIDE DEF receiving, sending
<1>12. AddedTo(st.recv, m.ratchet, receiving, rs)
  BY Zenon, <1>2, <1>3, AddedChain
<1>4. /\ rs \in Seq(ReceiverChain) /\ Len(rs) >= 1
      /\ rs[Len(rs)] = [key |-> m.ratchet, chain |-> receiving, keys |-> NewChain]
      /\ \E k \in {0, 1} : \A i \in 1 .. Len(rs) - 1 :
            i + k \in 1 .. Len(st.recv) /\ rs[i] = st.recv[i + k]
  BY Zenon, <1>12 DEF AddedTo
<1>5. snd \in [key : Nat, chain : KeySeq, index : Nat]
  BY <1>3
<1> HIDE DEF rs, snd
<1>6. /\ mid.recv = rs /\ mid.root = sending /\ mid.sender = snd
      /\ mid.base = st.base /\ mid.local = st.local /\ mid.remote = st.remote
  BY Zenon DEF State
<1>7. mid \in State
  BY Zenon, <1>3, <1>4, <1>5 DEF State
<1> HIDE DEF mid
<1>8. \A i \in DOMAIN st.recv : st.recv[i].key # m.ratchet
  BY Zenon, <1>2, FoundChain
<1>9. FindChain(mid, m) = Len(mid.recv)
  <2>1. mid.recv[Len(mid.recv)].key = m.ratchet /\ Len(mid.recv) \in DOMAIN mid.recv
    BY <1>4, <1>6
  <2>2. \A i \in 1 .. Len(mid.recv) - 1 : mid.recv[i].key # m.ratchet
    BY <1>2, <1>4, <1>6, <1>8
  <2>3. /\ FindChain(mid, m) \in 0 .. Len(mid.recv)
        /\ FindChain(mid, m) # 0 => mid.recv[FindChain(mid, m)].key = m.ratchet
        /\ FindChain(mid, m) = 0 => \A i \in DOMAIN mid.recv : mid.recv[i].key # m.ratchet
    BY <1>4, <1>6, FoundChain
  <2>4. Len(mid.recv) \in Nat
    BY <1>4, <1>6
  <2> QED
    BY <2>1, <2>2, <2>3, <2>4
<1>10. DOMAIN st.recv = 1 .. Len(st.recv)
  BY <1>2
<1>11. Ratcheted(st, m, ours, mid)
  BY <1>4, <1>6, <1>8, <1>10 DEF Ratcheted, receiving, sending, snd
<1> QED
  BY Zenon, <1>1, <1>7, <1>9, <1>11

(* A state reads with a chain that it has or with a new one.               *)
LEMMA ReadState ==
    ASSUME NEW st \in State, NEW m \in Message, NEW ours \in Nat,
           DecryptFromState(st, m, ours).res = "ok"
    PROVE  ReadFrom(st, m, ours, DecryptFromState(st, m, ours).state)
<1> DEFINE new == DecryptFromState(st, m, ours).state
           mid == WithChain(st, m, ours)
           f   == FindChain(mid, m)
<1>1. /\ st.sender.key # None
      /\ DecryptFromState(st, m, ours) = DecryptOnChain(mid, m, f)
  BY Zenon DEF DecryptFromState, DecryptOnState
<1>2. st.recv \in Seq(ReceiverChain)
  BY Zenon DEF State
<1>3. CASE FindChain(st, m) # 0
  <2>1. mid = st
    BY <1>3 DEF WithChain
  <2>2. f \in DOMAIN st.recv /\ st.recv[f].key = m.ratchet
    BY <1>2, <1>3, <2>1, FoundChain
  <2> HIDE DEF mid, f
  <2>3. /\ new \in State
        /\ st.recv[f].chain = m.chain /\ UsedChain(st, m, new, f)
    BY Zenon, <1>1, <2>1, <2>2, DecryptedOnChain
  <2> QED
    BY Zenon, <1>1, <2>2, <2>3 DEF ReadOld, ReadFrom
<1>4. CASE FindChain(st, m) = 0
  <2>1. mid \in State /\ Ratcheted(st, m, ours, mid) /\ f = Len(mid.recv)
    BY Zenon, <1>4, RatchetStep
  <2> HIDE DEF mid, f
  <2>2. mid.recv \in Seq(ReceiverChain) /\ f \in DOMAIN mid.recv
    BY <2>1 DEF State, Ratcheted
  <2>3. /\ mid.recv[f].keys = NewChain
        /\ mid.recv[f].chain = Append(st.root, {m.ratchet, st.sender.key})
    BY <2>1 DEF Ratcheted
  <2>4. /\ new \in State
        /\ mid.recv[f].chain = m.chain /\ UsedChain(mid, m, new, f)
    BY Zenon, <1>1, <2>1, <2>2, DecryptedOnChain
  <2> QED
    BY Zenon, <1>1, <2>1, <2>3, <2>4 DEF ReadNew, ReadFrom
<1> QED
  BY Zenon, <1>3, <1>4

(* "Duplicate" is said because of a chain that the state has.              *)
LEMMA DuplicateState ==
    ASSUME NEW st \in State, NEW m \in Message, NEW ours \in Nat,
           DecryptFromState(st, m, ours).res = "duplicate"
    PROVE  Refuses(st, m)
<1> DEFINE mid == WithChain(st, m, ours)
           f   == FindChain(mid, m)
<1>1. /\ st.sender.key # None
      /\ DecryptFromState(st, m, ours) = DecryptOnChain(mid, m, f)
  BY Zenon DEF DecryptFromState, DecryptOnState
<1>2. KeysResult(mid.recv[f].keys, m.counter) = "duplicate"
  BY <1>1 DEF DecryptOnChain
<1>3. Gone(mid.recv[f].keys, m.counter)
  BY Zenon, <1>2 DEF KeysResult, Gone
<1>4. st.recv \in Seq(ReceiverChain) /\ m.counter \in Nat
  BY Zenon DEF State, Message
<1>5. CASE FindChain(st, m) # 0
  <2>1. mid = st
    BY <1>5 DEF WithChain
  <2>2. f \in DOMAIN st.recv /\ st.recv[f].key = m.ratchet
    BY <1>4, <1>5, <2>1, FoundChain
  <2> QED
    BY Zenon, <1>1, <1>3, <2>1, <2>2 DEF Refuses
<1>6. CASE FindChain(st, m) = 0
  <2>1. Ratcheted(st, m, ours, mid) /\ f = Len(mid.recv)
    BY Zenon, <1>6, RatchetStep
  <2>2. mid.recv[f].keys.index = 0
    BY <2>1 DEF Ratcheted, NewChain
  <2> QED
    BY <1>3, <1>4, <2>2 DEF Gone
<1> QED
  BY Zenon, <1>5, <1>6

(* What is left of a sequence of states within the limit.                  *)
LEMMA Archived ==
    ASSUME NEW all \in Seq(State)
    PROVE  LET cut == IF Len(all) > MaxArchived THEN SubSeq(all, 1, MaxArchived) ELSE all
           IN  /\ cut \in Seq(State) /\ Len(cut) \in 0 .. Len(all)
               /\ \A j \in 1 .. Len(cut) : cut[j] = all[j]
<1> DEFINE cut == SubSeq(all, 1, MaxArchived)
<1>1. CASE Len(all) > MaxArchived
  <2>1. \A i \in 1 .. MaxArchived : all[i] \in State
    BY <1>1, StatesAssumption
  <2>2. /\ cut \in Seq(State) /\ Len(cut) = IF 1 <= MaxArchived THEN MaxArchived - 1 + 1 ELSE 0
        /\ \A i \in 1 .. MaxArchived - 1 + 1 : cut[i] = all[1 + i - 1]
    BY <2>1, StatesAssumption, SubSeqProperties
  <2>3. Len(cut) = MaxArchived
    BY <2>2, StatesAssumption
  <2> HIDE DEF cut
  <2>4. \A j \in 1 .. Len(cut) : cut[j] = all[j]
    BY <2>2, <2>3, StatesAssumption
  <2> QED
    BY <1>1, <2>2, <2>3, <2>4, StatesAssumption DEF cut
<1>2. CASE ~(Len(all) > MaxArchived)
  BY <1>2
<1> QED
  BY Zenon, <1>1, <1>2

(* session_record_promote_state, for a state that was not in the record.   *)
LEMMA PromotedNew ==
    ASSUME NEW s \in Record, NEW st \in State
    PROVE  LET t == Promote(s.cur, s.prev, st)
           IN  t \in Record /\ t.cur = st /\ Derived(s, t, -1)
<1> DEFINE all == <<s.cur>> \o s.prev
           t   == Promote(s.cur, s.prev, st)
           p   == [j \in 1 .. Len(t.prev) |-> j - 1]
<1>1. s.cur \in State /\ s.prev \in Seq(State) /\ Len(s.prev) \in Nat
  BY Zenon, SlotTyped
<1>2. /\ all \in Seq(State) /\ Len(all) = Len(s.prev) + 1 /\ all[1] = s.cur
      /\ \A j \in 2 .. Len(all) : all[j] = s.prev[j - 1]
  BY <1>1
<1> HIDE DEF all
<1>3. /\ t.prev \in Seq(State) /\ Len(t.prev) \in 0 .. Len(all)
      /\ \A j \in 1 .. Len(t.prev) : t.prev[j] = all[j]
  BY Zenon, <1>2, Archived DEF Promote, all
<1>4. t \in Record /\ t.cur = st
  BY Zenon, <1>3 DEF Promote, Record
<1> HIDE DEF t
<1>5. p \in [1 .. Len(t.prev) -> Slots(s)]
  BY <1>1, <1>2, <1>3 DEF Slots
<1>6. \A j \in 1 .. Len(t.prev) : p[j] # -1 /\ t.prev[j] = At(s, p[j])
  BY <1>1, <1>2, <1>3 DEF At
<1>7. \A j, k \in 1 .. Len(t.prev) : p[j] = p[k] => j = k
  BY <1>3
<1> HIDE DEF p
<1> QED
  BY Zenon, <1>4, <1>5, <1>6, <1>7 DEF Derived, t

(* Without: the others stay in order.                                     *)
LEMMA Removed ==
    ASSUME NEW S, NEW s \in Seq(S), NEW i \in 1 .. Len(s)
    PROVE  /\ Without(s, i) \in Seq(S) /\ Len(Without(s, i)) = Len(s) - 1
           /\ \A j \in 1 .. Len(s) - 1 : Without(s, i)[j] = IF j < i THEN s[j] ELSE s[j + 1]
<1> DEFINE a == SubSeq(s, 1, i - 1)
           b == SubSeq(s, i + 1, Len(s))
<1>1. \A k \in 1 .. Len(s) : s[k] \in S
  OBVIOUS
<1>2. a \in Seq(S) /\ Len(a) = i - 1 /\ \A k \in 1 .. i - 1 : a[k] = s[k]
  BY <1>1, SubSeqProperties
<1>3. b \in Seq(S) /\ Len(b) = Len(s) - i /\ \A k \in 1 .. Len(s) - i : b[k] = s[i + k]
  BY <1>1, SubSeqProperties
<1>4. Without(s, i) = a \o b
  BY DEF Without
<1> HIDE DEF a, b
<1>5. /\ a \o b \in Seq(S) /\ Len(a \o b) = Len(a) + Len(b)
      /\ \A j \in 1 .. Len(a) + Len(b) : (a \o b)[j] = IF j <= Len(a) THEN a[j] ELSE b[j - Len(a)]
  BY Zenon, <1>2, <1>3, ConcatProperties
<1> QED
  BY <1>2, <1>3, <1>4, <1>5

(* The same for an archived state, which is taken out of the archive.      *)
LEMMA PromotedArchived ==
    ASSUME NEW s \in Record, NEW st \in State, NEW i \in 1 .. Len(s.prev)
    PROVE  LET t == Promote(s.cur, Without(s.prev, i), st)
           IN  t \in Record /\ t.cur = st /\ Derived(s, t, i)
<1> DEFINE rest == Without(s.prev, i)
           all  == <<s.cur>> \o rest
           t    == Promote(s.cur, rest, st)
           p    == [j \in 1 .. Len(t.prev) |-> IF j - 1 < i THEN j - 1 ELSE j]
<1>1. s.cur \in State /\ s.prev \in Seq(State) /\ Len(s.prev) \in Nat
  BY Zenon, SlotTyped
<1>2. /\ rest \in Seq(State) /\ Len(rest) = Len(s.prev) - 1
      /\ \A j \in 1 .. Len(rest) : rest[j] = IF j < i THEN s.prev[j] ELSE s.prev[j + 1]
  BY Zenon, <1>1, Removed
<1> HIDE DEF rest
<1>3. /\ all \in Seq(State) /\ Len(all) = Len(rest) + 1 /\ all[1] = s.cur
      /\ \A j \in 2 .. Len(all) : all[j] = rest[j - 1]
  BY <1>1, <1>2
<1> HIDE DEF all
<1>4. /\ t.prev \in Seq(State) /\ Len(t.prev) \in 0 .. Len(all)
      /\ \A j \in 1 .. Len(t.prev) : t.prev[j] = all[j]
  BY Zenon, <1>3, Archived DEF Promote, all
<1>5. t \in Record /\ t.cur = st
  BY Zenon, <1>4 DEF Promote, Record
<1> HIDE DEF t
<1>6. p \in [1 .. Len(t.prev) -> Slots(s)]
  BY <1>1, <1>2, <1>3, <1>4 DEF Slots
<1>7. \A j \in 1 .. Len(t.prev) : p[j] # i /\ t.prev[j] = At(s, p[j])
  <2> SUFFICES ASSUME NEW j \in 1 .. Len(t.prev)
               PROVE  p[j] # i /\ t.prev[j] = At(s, p[j])
    BY Zenon
  <2>1. p[j] = (IF j - 1 < i THEN j - 1 ELSE j) /\ j \in 1 .. Len(all) /\ t.prev[j] = all[j]
    BY <1>2, <1>3, <1>4
  <2>2. CASE j = 1
    BY <1>3, <2>1, <2>2 DEF At
  <2>3. CASE j # 1
    BY <1>1, <1>2, <1>3, <2>1, <2>3 DEF At
  <2> QED
    BY Zenon, <2>2, <2>3
<1>8. \A j, k \in 1 .. Len(t.prev) : p[j] = p[k] => j = k
  BY <1>4
<1> HIDE DEF p
<1> QED
  BY Zenon, <1>5, <1>6, <1>7, <1>8 DEF Derived, t, rest

(* The current state of a record is replaced.                              *)
LEMMA Replaced ==
    ASSUME NEW s \in Record, NEW st \in State
    PROVE  LET t == [s EXCEPT !.cur = st]
           IN  t \in Record /\ t.cur = st /\ Derived(s, t, 0)
<1> DEFINE t == [s EXCEPT !.cur = st]
           p == [j \in 1 .. Len(t.prev) |-> j]
<1>1. t \in Record /\ t.cur = st /\ t.prev = s.prev
  BY DEF Record
<1> HIDE DEF t
<1>2. Len(s.prev) \in Nat
  BY Zenon, SlotTyped
<1>3. p \in [1 .. Len(t.prev) -> Slots(s)]
  BY <1>1, <1>2 DEF Slots
<1>4. \A j \in 1 .. Len(t.prev) : p[j] # 0 /\ t.prev[j] = At(s, p[j])
  BY <1>1, <1>2 DEF At
<1>5. \A j, k \in 1 .. Len(t.prev) : p[j] = p[k] => j = k
  OBVIOUS
<1> HIDE DEF p
<1> QED
  BY Zenon, <1>1, <1>3, <1>4, <1>5 DEF Derived, t

(* session_cipher_decrypt_from_record_and_signal_message: one state reads  *)
(* the message and becomes the current one, or the result is that of a     *)
(* state of the record.                                                    *)
LEMMA ReadRecord ==
    ASSUME NEW rec \in Record, NEW m \in Message, NEW ours \in Nat
    PROVE  LET r == DecryptFromRecord(rec, m, ours)
           IN  /\ r.res = "duplicate" => \E i \in Slots(rec) : Refuses(At(rec, i), m)
               /\ r.res = "ok" =>
                    /\ r.rec \in Record
                    /\ \E i \in Slots(rec) :
                          ReadFrom(At(rec, i), m, ours, r.rec.cur) /\ Derived(rec, r.rec, i)
<1> DEFINE states == <<rec.cur>> \o rec.prev
           tried  == [k \in DOMAIN states |-> DecryptFromState(states[k], m, ours)]
           I      == {k \in 1 .. Len(tried) : tried[k].res # "invalid"}
           k0     == IF I # {} THEN Min(I) ELSE 0
           r      == DecryptFromRecord(rec, m, ours)
<1>1. /\ rec.cur \in State /\ rec.prev \in Seq(State) /\ Len(rec.prev) \in Nat
      /\ \A i \in Slots(rec) : At(rec, i) \in State
  BY Zenon, SlotTyped
<1>2. /\ states \in Seq(State) /\ Len(states) = Len(rec.prev) + 1 /\ states[1] = rec.cur
      /\ \A k \in 2 .. Len(states) : states[k] = rec.prev[k - 1]
  BY <1>1
<1> HIDE DEF states
<1>3. \A k \in 1 .. Len(states) : k - 1 \in Slots(rec) /\ states[k] = At(rec, k - 1)
  BY <1>1, <1>2 DEF Slots, At
<1>4. DOMAIN states = 1 .. Len(states) /\ Len(states) \in Nat
  BY <1>2
<1>5. /\ Len(tried) = Len(states)
      /\ \A k \in 1 .. Len(tried) : tried[k] = DecryptFromState(At(rec, k - 1), m, ours)
  BY <1>3, <1>4
<1>6. r = TakeResult(rec, tried, k0)
  BY DEF DecryptFromRecord, FirstResult, FirstIndex, states
<1> HIDE DEF tried
<1>7. k0 \in 0 .. Len(tried) /\ (k0 # 0 => k0 \in I)
  <2>1. I \in SUBSET Nat /\ Len(tried) \in Nat
    BY <1>4, <1>5
  <2>2. I # {} => Min(I) \in I
    BY Zenon, <2>1, LeastNumber
  <2> QED
    BY <2>1, <2>2
<1> HIDE DEF k0, r
<1> DEFINE o == DecryptFromState(At(rec, k0 - 1), m, ours)
<1>8. CASE k0 = 0
  BY <1>6, <1>8 DEF TakeResult, r
<1>9. CASE k0 # 0 /\ o.res # "ok"
  <2>1. k0 - 1 \in Slots(rec) /\ tried[k0] = o
    BY Zenon, <1>3, <1>5, <1>7, <1>9
  <2>2. r.res = o.res
    BY Zenon, <1>6, <1>9, <2>1 DEF TakeResult
  <2>3. o.res = "duplicate" => Refuses(At(rec, k0 - 1), m)
    BY Zenon, <1>1, <2>1, DuplicateState
  <2> HIDE DEF o
  <2> QED
    BY Zenon, <1>9, <2>1, <2>2, <2>3 DEF r, o
<1>10. CASE k0 # 0 /\ o.res = "ok"
  <2>1. k0 - 1 \in Slots(rec) /\ tried[k0] = o /\ k0 \in 1 .. Len(rec.prev) + 1
    BY Zenon, <1>2, <1>3, <1>5, <1>7, <1>10
  <2>2. o.state \in State /\ ReadFrom(At(rec, k0 - 1), m, ours, o.state)
    BY Zenon, <1>1, <1>10, <2>1, ReadState DEF ReadFrom
  <2>3. /\ r.res = "ok"
        /\ r.rec = IF k0 = 1 THEN [rec EXCEPT !.cur = o.state]
                   ELSE Promote(rec.cur, Without(rec.prev, k0 - 1), o.state)
    BY Zenon, <1>6, <1>10, <2>1 DEF TakeResult
  <2> HIDE DEF o
  <2>4. r.rec \in Record /\ r.rec.cur = o.state /\ Derived(rec, r.rec, k0 - 1)
    <3>1. CASE k0 = 1
      BY <2>2, <2>3, <3>1, Replaced
    <3>2. CASE k0 # 1
      <4>1. k0 - 1 \in 1 .. Len(rec.prev)
        BY <1>1, <2>1, <3>2
      <4> QED
        BY <2>2, <2>3, <3>2, <4>1, PromotedArchived
    <3> QED
      BY Zenon, <3>1, <3>2
  <2> QED
    BY Zenon, <1>10, <2>1, <2>2, <2>3, <2>4 DEF r, o
<1> QED
  BY Zenon, <1>8, <1>9, <1>10

(* A state put in front of a record, and then replaced by another.         *)
LEMMA DerivedTwice ==
    ASSUME NEW s, NEW b, NEW t, Derived(s, b, -1), Derived(b, t, 0)
    PROVE  Derived(s, t, -1)
<1>1. PICK p \in [1 .. Len(b.prev) -> Slots(s)] :
        /\ \A j \in 1 .. Len(b.prev) : p[j] # -1 /\ b.prev[j] = At(s, p[j])
        /\ \A j, k \in 1 .. Len(b.prev) : p[j] = p[k] => j = k
  BY Zenon DEF Derived
<1>2. PICK q \in [1 .. Len(t.prev) -> Slots(b)] :
        /\ \A j \in 1 .. Len(t.prev) : q[j] # 0 /\ t.prev[j] = At(b, q[j])
        /\ \A j, k \in 1 .. Len(t.prev) : q[j] = q[k] => j = k
  BY Zenon DEF Derived
<1> DEFINE r == [j \in 1 .. Len(t.prev) |-> p[q[j]]]
<1>3. \A j \in 1 .. Len(t.prev) : q[j] \in 1 .. Len(b.prev)
  BY <1>2 DEF Slots
<1>4. r \in [1 .. Len(t.prev) -> Slots(s)]
  BY Zenon, <1>1, <1>3
<1>5. \A j \in 1 .. Len(t.prev) : r[j] # -1 /\ t.prev[j] = At(s, r[j])
  <2>1. \A j \in 1 .. Len(t.prev) : At(b, q[j]) = b.prev[q[j]]
    BY Zenon, <1>2 DEF At
  <2> QED
    BY Zenon, <1>1, <1>2, <1>3, <2>1
<1>6. \A j, k \in 1 .. Len(t.prev) : r[j] = r[k] => j = k
  BY <1>1, <1>2, <1>3
<1> HIDE DEF r
<1> QED
  BY Zenon, <1>4, <1>5, <1>6 DEF Derived

(* The state that ratcheting_session_bob_initialize makes.                 *)
LEMMA BuiltState ==
    ASSUME NEW D \in Device, NEW m \in Message, NEW one \in Nat
    PROVE  Bare(BobInitialize(D.identity, D.signed, one, m), D, m, one)
<1> DEFINE raw    == BobInitialize(D.identity, D.signed, one, m)
           secret == SharedSecret(m.ids[1], m.base, D.identity, D.signed, one)
<1>1. /\ D.identity \in Nat /\ D.signed \in Nat /\ m.base \in Nat /\ m.ids[1] \in Nat
  BY Zenon DEF Device, Message
<1>2. secret \in KeySeq /\ Len(secret) = 4 /\ secret[4] = {m.base, one}
  BY <1>1 DEF SharedSecret, DH, KeySeq
<1> HIDE DEF secret
<1> DEFINE snd == [key |-> D.signed, chain |-> secret, index |-> 0]
<1>3. snd \in [key : Nat, chain : KeySeq, index : Nat] /\ snd.key = D.signed
  BY Zenon, <1>1, <1>2
<1>4. NewState \in State /\ NewState.recv = <<>>
  BY Zenon, NewStateTyped
<1>5. raw = [NewState EXCEPT !.base = m.base, !.root = secret, !.sender = snd,
                             !.local = D.identity, !.remote = m.ids[1]]
  BY Zenon DEF BobInitialize, secret
<1> HIDE DEF raw, snd
<1>6. raw \in State
  BY Zenon, <1>1, <1>2, <1>3, <1>4, <1>5 DEF State
<1>7. raw.base = m.base /\ raw.root = secret /\ raw.sender = snd /\ raw.recv = <<>>
  BY Zenon, <1>4, <1>5 DEF State
<1> QED
  BY Zenon, <1>2, <1>3, <1>6, <1>7 DEF raw, Bare

(* What comes of a pre key message from an identity that is trusted.       *)
LEMMA TrustedRead ==
    ASSUME NEW D \in Device, NEW m \in Message, NEW clash \in BOOLEAN, fresh \in Nat,
           D.session # NoSession, m.pre # None
    PROVE  LET o == TrustedOutcome(D, m, clash)
           IN  /\ o.res = "ok" => Taken(D, m, fresh + 1, o.D)
               /\ o.res = "duplicate" => \E i \in Slots(D.session) : Refuses(At(D.session, i), m)
               /\ o.res # "ok" => o.D \in Device /\ \E t \in Nat : o.D = [D EXCEPT !.trusted = t]
<1> DEFINE one   == IF m.pre \in D.oneTime THEN m.pre ELSE None
           saved == [D EXCEPT !.trusted = m.ids[1]]
           b     == BuildSession(D, m, one)
           r     == DecryptFromRecord(b, m, fresh + 1)
           o     == TrustedOutcome(D, m, clash)
           raw   == BobInitialize(D.identity, D.signed, one, m)
<1>1. /\ D.session \in Record /\ D.oneTime \in SUBSET Nat /\ D.trusted \in Nat /\ D.identity \in Nat
      /\ D.signed \in Nat /\ m.ids[1] \in Nat /\ m.pre \in Nat
  BY Zenon DEF Device, Message
<1>2. one \in Nat /\ one \in (D.oneTime \cap {m.pre}) \cup {None}
  BY Zenon, <1>1 DEF None
<1>3. saved \in Device /\ saved.session = D.session
  BY Zenon, <1>1 DEF Device
<1> HIDE DEF one
<1>4. CASE ~HasSessionState(D.session, m.base) /\ one = None /\ ~clash
  <2>1. o = [res |-> "invalid", D |-> D]
    BY <1>4 DEF TrustedOutcome, one
  <2>2. D = [D EXCEPT !.trusted = D.trusted]
    BY DEF Device
  <2> QED
    BY <1>1, <2>1, <2>2
<1>5. CASE ~(~HasSessionState(D.session, m.base) /\ one = None /\ ~clash)
  <2>1. o = [res |-> r.res,
             D   |-> IF r.res = "ok" THEN [RemovePreKey(saved, m) EXCEPT !.session = r.rec]
                     ELSE saved]
    BY Zenon, <1>5 DEF TrustedOutcome, one
  <2> HIDE DEF o, saved
  <2>2. b \in Record
    <3>1. raw \in State
      BY Zenon, <1>2, BuiltState DEF Bare
    <3> HIDE DEF raw
    <3>2. HasSessionState(D.session, m.base) => b = D.session
      BY DEF BuildSession
    <3>3. ~HasSessionState(D.session, m.base) => b = Promote(D.session.cur, D.session.prev, raw)
      BY DEF BuildSession, raw
    <3> QED
      BY Zenon, <1>1, <3>1, <3>2, <3>3, PromotedNew
  <2>3. /\ r.res = "duplicate" => \E i \in Slots(b) : Refuses(At(b, i), m)
        /\ r.res = "ok" =>
             /\ r.rec \in Record
             /\ \E i \in Slots(b) :
                   ReadFrom(At(b, i), m, fresh + 1, r.rec.cur) /\ Derived(b, r.rec, i)
    BY <2>2, ReadRecord
  <2> HIDE DEF r, b
  <2>4. r.res # "ok" => o.D = saved
    BY <2>1
  <2>5. CASE HasSessionState(D.session, m.base)
    <3>1. b = D.session
      BY Zenon, <2>5 DEF BuildSession, b
    <3>2. r.res = "ok" => o.D = [saved EXCEPT !.session = r.rec]
      BY Zenon, <1>3, <2>1, <2>5 DEF RemovePreKey
    <3>3. r.res = "ok" => /\ o.D \in Device /\ o.D.session = r.rec /\ o.D.oneTime = D.oneTime
                          /\ o.D.identity = D.identity /\ o.D.signed = D.signed
      BY Zenon, <1>3, <2>3, <3>2 DEF Device, saved
    <3>4. r.res = "ok" => ByHeld(D, m, fresh + 1, o.D)
      BY Zenon, <2>3, <2>5, <3>1, <3>3 DEF ByHeld
    <3>5. o.res = r.res
      BY <2>1
    <3> QED
      BY Zenon, <1>1, <1>3, <2>3, <2>4, <3>1, <3>3, <3>4, <3>5 DEF Taken, o, saved
  <2>6. CASE ~HasSessionState(D.session, m.base)
    <3>1. b = Promote(D.session.cur, D.session.prev, raw)
      BY Zenon, <2>6 DEF BuildSession, b
    <3>2. Bare(raw, D, m, one) /\ raw \in State /\ raw.recv = <<>>
      BY <1>2, BuiltState DEF Bare
    <3> HIDE DEF raw
    <3>3. b.cur = raw /\ Derived(D.session, b, -1)
      BY Zenon, <1>1, <3>1, <3>2, PromotedNew
    <3>4. \A i \in Slots(b) : i # 0 => \E k \in Slots(D.session) : At(b, i) = At(D.session, k)
      <4>1. PICK p \in [1 .. Len(b.prev) -> Slots(D.session)] :
               \A j \in 1 .. Len(b.prev) : b.prev[j] = At(D.session, p[j])
        BY Zenon, <3>3 DEF Derived
      <4>2. \A i \in Slots(b) : i # 0 => i \in 1 .. Len(b.prev) /\ At(b, i) = b.prev[i]
        BY <2>2, SlotTyped DEF Slots, At
      <4> QED
        BY Zenon, <4>1, <4>2
    <3>5. r.res = "ok" =>
             /\ o.D \in Device /\ o.D.session = r.rec /\ o.D.oneTime = D.oneTime \ {m.pre}
             /\ o.D.identity = D.identity /\ o.D.signed = D.signed
      <4> SUFFICES ASSUME r.res = "ok"
                   PROVE  /\ o.D \in Device /\ o.D.session = r.rec
                          /\ o.D.oneTime = D.oneTime \ {m.pre}
                          /\ o.D.identity = D.identity /\ o.D.signed = D.signed
        BY Zenon
      <4>1. o.D = [[saved EXCEPT !.oneTime = @ \ {m.pre}] EXCEPT !.session = r.rec]
        BY Zenon, <1>3, <2>1, <2>6 DEF RemovePreKey
      <4>2. r.rec \in Record
        BY Zenon, <2>3
      <4>3. saved.oneTime = D.oneTime /\ saved.identity = D.identity /\ saved.signed = D.signed
        BY DEF Device, saved
      <4>4. o.D \in Device
        BY Zenon, <1>1, <1>3, <4>1, <4>2, <4>3 DEF Device
      <4>5. o.D.session = r.rec /\ o.D.oneTime = saved.oneTime \ {m.pre}
        BY Zenon, <1>3, <4>1 DEF Device
      <4>6. o.D.identity = saved.identity /\ o.D.signed = saved.signed
        BY Zenon, <1>3, <4>1 DEF Device
      <4> QED
        BY Zenon, <4>3, <4>4, <4>5, <4>6
    <3>6. r.res = "ok" => ByBuilt(D, m, fresh + 1, o.D) \/ ByCrossed(D, m, fresh + 1)
      <4> SUFFICES ASSUME r.res = "ok"
                   PROVE  ByBuilt(D, m, fresh + 1, o.D) \/ ByCrossed(D, m, fresh + 1)
        OBVIOUS
      <4>1. PICK i \in Slots(b) :
               ReadFrom(At(b, i), m, fresh + 1, r.rec.cur) /\ Derived(b, r.rec, i)
        BY Zenon, <2>3
      <4>2. CASE i = 0
        <5>1. Derived(D.session, r.rec, -1)
          BY Zenon, <3>3, <4>1, <4>2, DerivedTwice
        <5>2. At(b, i) = raw
          BY Zenon, <3>3, <4>2 DEF At
        <5> QED
          BY Zenon, <1>2, <2>6, <3>2, <3>5, <4>1, <5>1, <5>2 DEF ByBuilt
      <4>3. CASE i # 0
        BY Zenon, <2>6, <3>4, <4>1, <4>3 DEF ByCrossed, ReadFrom
      <4> QED
        BY Zenon, <4>2, <4>3
    <3>7. r.res = "duplicate" => \E i \in Slots(D.session) : Refuses(At(D.session, i), m)
      <4> SUFFICES ASSUME r.res = "duplicate"
                   PROVE  \E i \in Slots(D.session) : Refuses(At(D.session, i), m)
        OBVIOUS
      <4>1. PICK i \in Slots(b) : Refuses(At(b, i), m)
        BY Zenon, <2>3
      <4>2. CASE i = 0
        <5>1. At(b, i) = raw
          BY Zenon, <3>3, <4>2 DEF At
        <5>2. \E f \in DOMAIN raw.recv : raw.recv[f].key = m.ratchet
          BY Zenon, <4>1, <5>1 DEF Refuses
        <5> QED
          BY <3>2, <5>2
      <4>3. CASE i # 0
        BY Zenon, <3>4, <4>1, <4>3
      <4> QED
        BY Zenon, <4>2, <4>3
    <3>8. o.res = r.res
      BY <2>1
    <3> QED
      BY Zenon, <1>1, <1>3, <2>4, <3>5, <3>6, <3>7, <3>8 DEF Taken, o, saved
  <2> QED
    BY Zenon, <2>5, <2>6
<1> QED
  BY Zenon, <1>4, <1>5

(* Receiving, by every path of the client.                                 *)
LEMMA OutcomeRead ==
    ASSUME TypeOK, NEW d \in Devices, NEW m \in net, NEW clash \in BOOLEAN, ContainsSession(d)
    PROVE  OutcomeKnown(d, m, clash)
<1> DEFINE D == dev[d]
           o == Outcome(d, m, clash)
<1>1. D \in Device /\ m \in Message /\ fresh \in Nat /\ D.session # NoSession
  BY DEF TypeOK, ContainsSession
<1>2. D.session \in Record /\ D.trusted \in Nat
  BY Zenon, <1>1 DEF Device
<1>3. SlotsOf(d) = Slots(D.session) /\ \A i : Held(d, i) = At(D.session, i)
  BY DEF SlotsOf, Held
<1>4. D = [D EXCEPT !.trusted = D.trusted]
  BY Zenon, <1>1 DEF Device
<1> HIDE DEF D
<1>5. CASE m.pre = None
  <2> DEFINE r == DecryptFromRecord(D.session, m, fresh + 1)
  <2>1. o = [res |-> r.res, D |-> IF r.res = "ok" THEN [D EXCEPT !.session = r.rec] ELSE D]
    BY <1>5 DEF Outcome, SignalOutcome, D
  <2>2. /\ r.res = "duplicate" => \E i \in Slots(D.session) : Refuses(At(D.session, i), m)
        /\ r.res = "ok" =>
             /\ r.rec \in Record
             /\ \E i \in Slots(D.session) :
                   /\ ReadFrom(At(D.session, i), m, fresh + 1, r.rec.cur)
                   /\ Derived(D.session, r.rec, i)
    BY <1>1, <1>2, ReadRecord
  <2> HIDE DEF r, o
  <2>3. r.res = "ok" => Taken(D, m, fresh + 1, o.D)
    <3> SUFFICES ASSUME r.res = "ok" PROVE Taken(D, m, fresh + 1, o.D)
      OBVIOUS
    <3>1. o.D = [D EXCEPT !.session = r.rec] /\ r.rec \in Record
      BY Zenon, <2>1, <2>2
    <3>2. /\ o.D \in Device /\ o.D.session = r.rec /\ o.D.oneTime = D.oneTime
          /\ o.D.identity = D.identity /\ o.D.signed = D.signed
      BY Zenon, <1>1, <3>1 DEF Device
    <3>3. ByHeld(D, m, fresh + 1, o.D)
      BY Zenon, <1>5, <2>2, <3>2 DEF ByHeld
    <3> QED
      BY Zenon, <3>2, <3>3 DEF Taken
  <2>4. r.res # "ok" => o.D = D
    BY <2>1
  <2>5. o.res = r.res
    BY <2>1
  <2> QED
    BY Zenon, <1>1, <1>2, <1>3, <1>4, <2>2, <2>3, <2>4, <2>5 DEF o, D, OutcomeKnown
<1>6. CASE m.pre # None
  <2> DEFINE E == IF D.trusted \in {None, m.ids[1]} THEN D ELSE [D EXCEPT !.trusted = None]
             q == TrustedOutcome(E, m, clash)
  <2>1. o = q
    BY <1>6 DEF Outcome, PreKeyOutcome, D
  <2>2. \E t \in Nat : E = [D EXCEPT !.trusted = t]
    BY Zenon, <1>2, <1>4 DEF None
  <2> HIDE DEF E
  <2>3. /\ E \in Device /\ E.session = D.session /\ E.oneTime = D.oneTime
        /\ E.identity = D.identity /\ E.signed = D.signed
        /\ \A t : [E EXCEPT !.trusted = t] = [D EXCEPT !.trusted = t]
    BY Zenon, <1>1, <2>2 DEF Device
  <2>4. /\ q.res = "ok" => Taken(E, m, fresh + 1, q.D)
        /\ q.res = "duplicate" => \E i \in Slots(E.session) : Refuses(At(E.session, i), m)
        /\ q.res # "ok" => q.D \in Device /\ \E t \in Nat : q.D = [E EXCEPT !.trusted = t]
    BY <1>1, <1>6, <2>3, TrustedRead
  <2> HIDE DEF q
  <2>5. Taken(E, m, fresh + 1, q.D) => Taken(D, m, fresh + 1, q.D)
    BY Zenon, <2>3 DEF Taken, ByHeld, ByBuilt, ByCrossed, Bare
  <2>6. q.res = "duplicate" => \E i \in SlotsOf(d) : Refuses(Held(d, i), m)
    BY <1>3, <2>3, <2>4
  <2>7. q.res # "ok" => q.D \in Device /\ \E t \in Nat : q.D = [D EXCEPT !.trusted = t]
    BY Zenon, <2>3, <2>4
  <2> HIDE DEF o
  <2>8. (q.res = "ok" => Taken(D, m, fresh + 1, q.D)) /\ o = q
    BY Zenon, <2>1, <2>4, <2>5
  <2> QED
    BY Zenon, <2>6, <2>7, <2>8 DEF o, D, OutcomeKnown
<1> QED
  BY Zenon, <1>5, <1>6

----------------------------------------------------------------------------
(* The theorems                                                            *)


(* and after every step.                                                   *)
LEMMA NextInv == SessionInv /\ [Next]_vars => SessionInv'
<1> SUFFICES ASSUME SessionInv, [Next]_vars PROVE SessionInv'
  OBVIOUS
<1>1. CASE UNCHANGED vars
  BY Zenon, <1>1, StutterInv
<1>2. CASE Next
  <2>1. PICK d \in Devices :
          \/ AddContact(d) \/ OnPreKeys(d) \/ DeleteContact(d) \/ Reset(d) \/ Encrypt(d)
          \/ \E m \in net, flag \in BOOLEAN : Receive(d, m, flag) \/ CrashInReceive(d, m, flag)
    BY Zenon, <1>2 DEF Next
  <2>2. CASE AddContact(d)
    BY Zenon, <2>2, AddContactPreserves
  <2>3. CASE OnPreKeys(d)
    BY Zenon, <2>3, OnPreKeysPreserves
  <2>4. CASE DeleteContact(d)
    BY Zenon, <2>4, DeleteContactPreserves
  <2>5. CASE Reset(d)
    BY Zenon, <2>5, ResetPreserves
  <2>6. CASE Encrypt(d)
    <3>1. NetCounts
      BY Zenon, FS_AddElement DEF NetCounts, SessionInv, TypeOK
    <3> QED
      BY Zenon, <2>6, <3>1, EncryptPreserves
  <2>7. ASSUME NEW m \in net, NEW flag \in BOOLEAN, Receive(d, m, flag) PROVE SessionInv'
    <3>1. TypeOK /\ ContainsSession(d)
      BY Zenon, <2>7 DEF SessionInv, Receive
    <3>2. OutcomeKnown(d, m, flag)
      BY Zenon, <3>1, OutcomeRead
    <3> QED
      BY Zenon, <2>7, <3>2, ReceivePreserves
  <2>8. ASSUME NEW m \in net, NEW flag \in BOOLEAN, CrashInReceive(d, m, flag) PROVE SessionInv'
    <3>1. TypeOK /\ ContainsSession(d)
      BY Zenon, <2>8 DEF SessionInv, CrashInReceive
    <3>2. OutcomeKnown(d, m, FALSE)
      BY Zenon, <3>1, OutcomeRead
    <3> QED
      BY Zenon, <2>8, <3>2, CrashInReceivePreserves
  <2> QED
    BY Zenon, <2>1, <2>2, <2>3, <2>4, <2>5, <2>6, <2>7, <2>8
<1> QED
  BY Zenon, <1>1, <1>2

(* The sessions of the two devices, their messages and their keys fit      *)
(* together in every state.                                                *)
THEOREM SessionInvariant == Spec => []SessionInv
<1>1. Init => SessionInv
  BY Zenon, InitInv, FS_EmptySet
<1>2. SessionInv /\ [Next]_vars => SessionInv'
  BY NextInv
<1> QED
  BY <1>1, <1>2, PTL DEF Spec

(* No text reaches the app twice, whatever is repeated, reordered or    *)
(* archived, but for messages to a one-time key that a crash left.         *)
THEOREM NothingReadTwice == Spec => []AtMostOnce
<1>1. SessionInv => AtMostOnce
  BY DEF SessionInv
<1> QED
  BY <1>1, SessionInvariant, PTL

(* ratchet_chain_key_create_next and the key pair of every ratchet step    *)
(* keep message keys apart: no two messages share one.                     *)
THEOREM NoKeyUsedTwice == Spec => []KeysUsedOnce
<1>1. SessionInv => KeysUsedOnce
  <2> SUFFICES ASSUME SessionInv, NEW m1 \in net, NEW m2 \in net,
                      m1.chain = m2.chain, m1.counter = m2.counter
               PROVE  m1 = m2
    BY DEF KeysUsedOnce
  <2>1. MessageOK(m1, fresh) /\ MessageOK(m2, fresh) /\ m1.ratchet \in Nat /\ m2.ratchet \in Nat
    BY MessageTyped
  <2>2. PICK x \in 0 .. m1.ratchet - 1 : EndsWith(m1.chain, x, m1.ratchet)
    BY Zenon, <2>1 DEF MessageOK
  <2>3. PICK y \in 0 .. m2.ratchet - 1 : EndsWith(m2.chain, y, m2.ratchet)
    BY Zenon, <2>1 DEF MessageOK
  <2>4. m1.ratchet = m2.ratchet
    <3>1. EndsWith(m1.chain, y, m2.ratchet) /\ x \in Nat /\ y \in Nat
      BY <2>1, <2>2, <2>3
    <3> QED
      BY Zenon, <2>1, <2>2, <3>1, LastKeys
  <2> QED
    BY Zenon, <2>4 DEF SessionInv, MessagesApart
<1> QED
  BY <1>1, SessionInvariant, PTL

(* SG_ERR_DUPLICATE_MESSAGE is said only of a message whose key was used,  *)
(* or had to go because a message of its chain is MaxKeys ahead of it.     *)
THEOREM DuplicatesWereRead == Spec => []DuplicateMeansRead
<1>1. SessionInv => DuplicateMeansRead
  <2> SUFFICES ASSUME SessionInv, NEW m \in net, ContainsSession(m.to),
                      Outcome(m.to, m, FALSE).res = "duplicate"
               PROVE  \/ reads[m.n] > 0 \/ m.n \in lost
                      \/ \E later \in net :
                            later.ratchet = m.ratchet /\ later.counter - m.counter > MaxKeys
    BY Zenon DEF DuplicateMeansRead
  <2>1. m.to \in Devices /\ m \in Message /\ TypeOK /\ GoneIsUsed /\ fresh \in Nat /\ StatesOK
    BY Zenon, MessageTyped DEF SessionInv
  <2>2. OutcomeKnown(m.to, m, FALSE)
    BY Zenon, <2>1, OutcomeRead
  <2>3. PICK i \in SlotsOf(m.to) : Refuses(Held(m.to, i), m)
    BY Zenon, <2>2 DEF OutcomeKnown
  <2>4. /\ Live(m.to, i)
        /\ \E r \in DOMAIN Held(m.to, i).recv :
              Held(m.to, i).recv[r].key = m.ratchet /\ Gone(Held(m.to, i).recv[r].keys, m.counter)
    BY Zenon, <2>3 DEF Live, Refuses
  <2> QED
    BY Zenon, <2>1, <2>4 DEF GoneIsUsed, Used, Evicted
<1> QED
  BY <1>1, SessionInvariant, PTL

=============================================================================
