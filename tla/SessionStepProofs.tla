------------------------- MODULE SessionStepProofs -------------------------
(***************************************************************************)
(* Proofs about the steps of Session.  In a Step one device gets a new     *)
(* current state, made from one of its states by reading some messages,    *)
(* and the other states stay; each conjunct of SessionInv is kept by every *)
(* Step.                                                                   *)
(***************************************************************************)
EXTENDS SessionInvariants, TLAPS

----------------------------------------------------------------------------
(* What a step does to the states of one device                            *)

(* The slots and states of a device after the step; its current state.     *)
SlotsAfter(d) == Slots(dev'[d].session)

After(d, i) == At(dev'[d].session, i)

NewCur(d) == dev'[d].session.cur

(* A state of the device that can send, from which a new one is made.      *)
Source(d, i) == i \in SlotsOf(d) /\ Live(d, i)

(* The new state `st` sends with the key of the state it is made from.     *)
SameSender(d, i, st) ==
    /\ Source(d, i)
    /\ st.sender.key = Held(d, i).sender.key /\ st.sender.index >= Held(d, i).sender.index
    /\ st.pending = Held(d, i).pending /\ st.base = Held(d, i).base

(* A receiver chain of the new state that was there before; and the one    *)
(* with which a session starts.                                            *)
KeptChain(d, i, rc) == Source(d, i) /\ \E r \in DOMAIN Held(d, i).recv : rc = Held(d, i).recv[r]

FirstChain(rc) == Len(rc.chain) = 4 /\ rc.keys = NewChain

(* A pre key message for which the device would build a state.             *)
Unbuilt(d, m) ==
    /\ m.pre # None /\ m.pre \in dev[d].oneTime
    /\ \A k \in SlotsOf(d) : Held(d, k).base # m.base

(* The receiver chain rc of the new state has just read m.                 *)
UsedOldChain(d, i, m, rc) ==
    /\ Source(d, i)
    /\ \E r \in DOMAIN Held(d, i).recv :
          /\ Held(d, i).recv[r].key = m.ratchet /\ Held(d, i).recv[r].chain = m.chain
          /\ KeysAfter(Held(d, i).recv[r].keys, m.counter, rc.keys)

(* The chain was made when m was read, from the sender key of the old      *)
(* state or from the signed pre key.                                       *)
UsedNewChain(d, i, m, rc, st) ==
    /\ st.sender.key > fresh
    /\ KeysAfter(NewChain, m.counter, rc.keys)
    /\ \/ Source(d, i) /\ EndsWith(m.chain, Held(d, i).sender.key, m.ratchet)
       \/ Unbuilt(d, m) /\ EndsWith(m.chain, dev[d].signed, m.ratchet)

UsedNow(d, i, m, rc, st) ==
    /\ rc.key = m.ratchet /\ rc.chain = m.chain
    /\ UsedOldChain(d, i, m, rc) \/ UsedNewChain(d, i, m, rc, st)

(* The new current state st, made from slot i by reading the messages M.   *)
MadeFrom(d, i, M, st, last) ==
    /\ StateOK(st, last)
    /\ SameSender(d, i, st) \/ st.sender.key > fresh
    /\ \A r \in DOMAIN st.recv :
          \/ KeptChain(d, i, st.recv[r]) \/ FirstChain(st.recv[r])
          \/ \E m \in M : UsedNow(d, i, m, st.recv[r], st)
    /\ \A m \in M : \E r \in DOMAIN st.recv : UsedNow(d, i, m, st.recv[r], st)

(* A step of the system changes the record of one device: a new current    *)
(* state, the others as they were.                                         *)
Step(d, i, M) ==
    /\ dev' \in [Devices -> Device] /\ fresh' \in Nat /\ fresh <= fresh'
    /\ \A e \in Devices : e # d => dev'[e].session = dev[e].session
    /\ Derived(dev[d].session, dev'[d].session, i)
    /\ NewCur(d).sender.key # None => MadeFrom(d, i, M, NewCur(d), fresh')
    /\ M \subseteq {m \in net : m.to = d}
    /\ M # {} => NewCur(d).sender.key # None
    /\ net \subseteq net' /\ kept \subseteq kept'
    /\ \A m \in net : (reads'[m.n] > 0 \/ m.n \in lost') <=> (Used(m) \/ m \in M)
    /\ \A m \in net' \ net : ~(reads'[m.n] > 0 \/ m.n \in lost')

(* The inductive invariant.                                                *)
SessionInv ==
    /\ TypeOK /\ Drawn /\ Numbered /\ StatesOK /\ MessagesOK
    /\ SendersApart /\ SignedApart /\ SenderAhead /\ MessagesApart
    /\ ReceiverBehind /\ GoneIsUsed /\ OwnKeysRetired /\ ReceiversApart
    /\ UsedIsGone /\ UsedPreKeyGone /\ OffersOK /\ AtMostOnce

(* The slots of a record hold states.                                      *)
LEMMA SlotTyped ==
    ASSUME NEW rec \in Record
    PROVE  /\ rec.cur \in State /\ rec.prev \in Seq(State) /\ Len(rec.prev) \in Nat
           /\ DOMAIN rec.prev = 1 .. Len(rec.prev)
           /\ 0 \in Slots(rec) /\ \A i \in Slots(rec) : At(rec, i) \in State
  BY DEF Record, Slots, At

(* The empty state.                                                        *)
LEMMA NewStateTyped ==
    /\ NewState \in State /\ NewState.recv = <<>> /\ NewState.sender.key = None
    /\ NewState.pending = None /\ NewState.base = None
<1>1. <<>> \in Seq(ReceiverChain) /\ <<>> \in KeySeq
  BY DEF KeySeq
<1> QED
  BY <1>1 DEF NewState, State, None

(* The current state is the one in slot 0.                                 *)
LEMMA AfterCurrent ==
    ASSUME NEW d
    PROVE  After(d, 0) = NewCur(d)
  BY DEF After, At, NewCur

(* A state that is not the new one was there before.                       *)
LEMMA Carried ==
    ASSUME TypeOK, NEW d \in Devices, NEW i, NEW M, Step(d, i, M),
           NEW e \in Devices, NEW j \in SlotsAfter(e), ~(e = d /\ j = 0)
    PROVE  \E k \in SlotsOf(e) : After(e, j) = Held(e, k) /\ (e = d => k # i)
<1>1. CASE e # d
  BY Zenon, <1>1 DEF Step, SlotsOf, Held, After, SlotsAfter, NewCur
<1>2. CASE e = d
  <2>1. dev'[d].session \in Record
    BY Zenon DEF Step, Device, NewCur
  <2>2. j \in 1 .. Len(dev'[d].session.prev) /\ After(d, j) = dev'[d].session.prev[j]
    BY <1>2, <2>1, SlotTyped DEF Slots, At, After, SlotsAfter, NewCur
  <2> QED
    BY Zenon, <1>2, <2>2 DEF Step, Derived, SlotsOf, Held, After, SlotsAfter, NewCur
<1> QED
  BY <1>1, <1>2

(* Two states that were in different slots before, none of them the one    *)
(* that was read with.                                                     *)
WereApart(d, i, e, s, t) ==
    \E a, b \in SlotsOf(e) :
        a # b /\ (e = d => a # i /\ b # i) /\ s = Held(e, a) /\ t = Held(e, b)

(* Two archived states were in different slots before.                     *)
LEMMA CarriedApart ==
    ASSUME TypeOK, NEW d \in Devices, NEW i, NEW M, Step(d, i, M), NEW e \in Devices,
           NEW j \in SlotsAfter(e), NEW k \in SlotsAfter(e), j # k,
           e = d => j # 0 /\ k # 0
    PROVE  WereApart(d, i, e, After(e, j), After(e, k))
<1>1. CASE e # d
  BY Zenon, <1>1 DEF Step, SlotsOf, Held, WereApart, After, SlotsAfter, NewCur
<1>2. CASE e = d
  <2>1. dev'[d].session \in Record
    BY Zenon DEF Step, Device, NewCur
  <2>2. /\ j \in 1 .. Len(dev'[d].session.prev) /\ After(d, j) = dev'[d].session.prev[j]
        /\ k \in 1 .. Len(dev'[d].session.prev) /\ After(d, k) = dev'[d].session.prev[k]
    BY <1>2, <2>1, SlotTyped DEF Slots, At, After, SlotsAfter, NewCur
  <2>3. PICK p \in [1 .. Len(dev'[d].session.prev) -> SlotsOf(d)] :
          /\ \A a \in 1 .. Len(dev'[d].session.prev) :
                p[a] # i /\ dev'[d].session.prev[a] = At(dev[d].session, p[a])
          /\ \A a, b \in 1 .. Len(dev'[d].session.prev) : p[a] = p[b] => a = b
    BY Zenon DEF Step, Derived, SlotsOf, SlotsAfter, NewCur
  <2>4. /\ p[j] \in SlotsOf(d) /\ p[k] \in SlotsOf(d) /\ p[j] # p[k] /\ p[j] # i /\ p[k] # i
        /\ After(d, j) = Held(d, p[j]) /\ After(d, k) = Held(d, p[k])
    BY Zenon, <2>2, <2>3 DEF Held, After
  <2> QED
    BY Zenon, <1>2, <2>4 DEF WereApart
<1> QED
  BY <1>1, <1>2

(* The types of what a state has.                                          *)
StateTypes(st) ==
    /\ st \in State
    /\ st.sender.key \in Nat /\ st.sender.index \in Nat /\ st.base \in Nat /\ st.pending \in Nat
    /\ st.root \in KeySeq /\ st.recv \in Seq(ReceiverChain)
    /\ \A r \in DOMAIN st.recv :
          /\ st.recv[r] \in ReceiverChain /\ st.recv[r].key \in Nat /\ st.recv[r].chain \in KeySeq
          /\ st.recv[r].keys \in Chain

(* The types of the fields of a state, as facts for the provers.           *)
LEMMA StateTyped ==
    ASSUME NEW st \in State
    PROVE  StateTypes(st)
<1>1. /\ st.sender.key \in Nat /\ st.sender.index \in Nat /\ st.base \in Nat /\ st.pending \in Nat
      /\ st.root \in KeySeq /\ st.recv \in Seq(ReceiverChain)
  BY DEF State
<1>2. \A r \in DOMAIN st.recv : st.recv[r] \in ReceiverChain
  BY <1>1
<1>3. \A rc \in ReceiverChain : rc.key \in Nat /\ rc.chain \in KeySeq /\ rc.keys \in Chain
  BY DEF ReceiverChain
<1> QED
  BY Zenon, <1>1, <1>2, <1>3 DEF StateTypes

(* The same, for a state that a device holds.                              *)
LEMMA HeldTyped ==
    ASSUME TypeOK, NEW e \in Devices, NEW k \in SlotsOf(e)
    PROVE  StateTypes(Held(e, k))
<1>1. dev[e].session \in Record
  BY DEF TypeOK, Device
<1>2. Held(e, k) \in State
  BY <1>1, SlotTyped DEF SlotsOf, Held, After, SlotsAfter
<1> QED
  BY <1>2, StateTyped

(* A state's keys were drawn.                                              *)
LEMMA StateDrawn ==
    ASSUME NEW st, NEW last \in Nat, StateTypes(st), StateOK(st, last)
    PROVE  st.sender.key \in 0 .. last /\ st.base \in 0 .. last
<1>1. st.sender.key \in Nat /\ st.base \in Nat /\ st.sender.key <= last /\ st.base <= last
  BY Zenon DEF StateTypes, StateOK
<1> QED
  BY <1>1

(* The last agreement of a chain, and its base key, are determined.        *)
LEMMA LastKeys ==
    ASSUME NEW c, NEW x \in Nat, NEW y \in Nat, NEW u \in Nat, NEW v \in Nat,
           EndsWith(c, x, y), EndsWith(c, u, v)
    PROVE  x = u /\ y = v
<1>1. {x, y} = {u, v} /\ x < y /\ u < v
  BY DEF EndsWith
<1>2. (x = u \/ x = v) /\ (u = x \/ u = y) /\ (v = x \/ v = y) /\ (y = u \/ y = v)
  BY Zenon, <1>1
<1> QED
  BY <1>1, <1>2

(* A chain goes back to one base key.                                      *)
LEMMA BaseKey ==
    ASSUME NEW c, NEW a \in Nat, NEW b \in Nat, BasedOn(c, a), BasedOn(c, b)
    PROVE  a = b
<1>1. PICK x \in 0 .. a - 1, y \in 0 .. b - 1 : {a, x} = {b, y}
  BY Zenon DEF BasedOn
<1>2. (a = b \/ a = y) /\ (b = a \/ b = x)
  BY Zenon, <1>1
<1> QED
  BY <1>1, <1>2

(* The own key of a receiver chain was drawn before the sender key.        *)
LEMMA OwnKeyOlder ==
    ASSUME NEW st, StateTypes(st), NEW last \in Nat, StateOK(st, last),
           NEW r \in DOMAIN st.recv, NEW x \in Nat, NEW y \in Nat, EndsWith(st.recv[r].chain, x, y)
    PROVE  y = st.recv[r].key /\ x < st.sender.key /\ st.sender.key <= last
<1>1. ReceiverOK(st.recv[r], st.base, st.sender.key) /\ st.sender.key <= last
  BY Zenon DEF StateOK
<1>2. st.recv[r].chain \in KeySeq /\ st.recv[r].key \in Nat /\ st.sender.key \in Nat
  BY Zenon DEF StateTypes
<1>3. Len(st.recv[r].chain) # 4
  <2>1. Len(st.recv[r].chain) >= 5
    BY Zenon DEF EndsWith
  <2>2. ~(4 >= 5)
    OBVIOUS
  <2> QED
    BY Zenon, <2>1, <2>2
<1>4. PICK u \in 0 .. st.recv[r].key - 1 :
        EndsWith(st.recv[r].chain, u, st.recv[r].key) /\ u < st.sender.key
  BY Zenon, <1>1, <1>3 DEF ReceiverOK
<1>5. x = u /\ y = st.recv[r].key
  BY <1>2, <1>4, LastKeys
<1> QED
  BY Zenon, <1>1, <1>4, <1>5

(* What holds of a state when `last` keys were drawn also holds later.     *)
LEMMA DrawnMore ==
    ASSUME NEW st, NEW last \in Nat, NEW more \in Nat, last <= more, StateTypes(st),
           StateOK(st, last)
    PROVE  StateOK(st, more)
<1>1. st.sender.key \in 0 .. last /\ st.base \in 0 .. last
  BY Zenon, StateDrawn
<1>2. st.sender.key <= more /\ st.base <= more
  BY <1>1
<1> QED
  BY Zenon, <1>2 DEF StateOK

(* The states stay as they should be.                                      *)
LEMMA StatesOKStep ==
    ASSUME SessionInv, NEW d \in Devices, NEW i, NEW M, Step(d, i, M)
    PROVE  StatesOK'
<1> SUFFICES ASSUME NEW e \in Devices, NEW j \in SlotsAfter(e),
                    After(e, j).sender.key # None
             PROVE  StateOK(After(e, j), fresh')
  BY Zenon DEF StatesOK, SlotsOf, Held, Live, After, SlotsAfter
<1>1. CASE e = d /\ j = 0
  BY Zenon, <1>1, AfterCurrent DEF Step, MadeFrom
<1>2. CASE ~(e = d /\ j = 0)
  <2>1. TypeOK /\ StatesOK /\ fresh \in Nat /\ fresh' \in Nat /\ fresh <= fresh'
    BY Zenon DEF SessionInv, TypeOK, Step
  <2>2. PICK k \in SlotsOf(e) : After(e, j) = Held(e, k)
    BY <1>2, <2>1, Carried
  <2>3. StateOK(Held(e, k), fresh) /\ StateTypes(Held(e, k))
    BY <2>1, <2>2, HeldTyped DEF StatesOK, Live
  <2> QED
    BY <2>1, <2>2, <2>3, DrawnMore
<1> QED
  BY <1>1, <1>2

(* A state st after the step sends with the key of slot k.                 *)
Sends(e, k, st) ==
    /\ Live(e, k) /\ st.sender.key = Held(e, k).sender.key
    /\ Held(e, k).sender.key \in 0 .. fresh
    /\ st.sender.index >= Held(e, k).sender.index
    /\ st.pending = Held(e, k).pending /\ st.base = Held(e, k).base

(* What is known of the sender of slot j of e after a step of d.           *)
SenderWas(d, i, e, j, st) ==
    \/ e = d /\ j = 0 /\ st.sender.key > fresh
    \/ \E k \in SlotsOf(e) : Sends(e, k, st) /\ ((e = d /\ k = i) => j = 0)

(* The types of the states after the step.                                 *)
LEMMA NewTyped ==
    ASSUME NEW d \in Devices, NEW i, NEW M, Step(d, i, M),
           NEW e \in Devices, NEW j \in SlotsAfter(e)
    PROVE  StateTypes(After(e, j))
<1>1. After(e, j) \in State
  BY Zenon, SlotTyped DEF Step, Device, SlotsAfter, After
<1> QED
  BY <1>1, StateTyped

(* The sender key of a state that is there after the step.                 *)
LEMMA SenderAfter ==
    ASSUME SessionInv, NEW d \in Devices, NEW i, NEW M, Step(d, i, M),
           NEW e \in Devices, NEW j \in SlotsAfter(e),
           After(e, j).sender.key # None
    PROVE  SenderWas(d, i, e, j, After(e, j))
<1>1. TypeOK /\ StatesOK /\ fresh \in Nat
  BY DEF SessionInv, TypeOK
<1>2. \A k \in SlotsOf(e) : Live(e, k) => Held(e, k).sender.key \in 0 .. fresh
  <2> SUFFICES ASSUME NEW k \in SlotsOf(e), Live(e, k) PROVE Held(e, k).sender.key \in 0 .. fresh
    OBVIOUS
  <2>1. StateOK(Held(e, k), fresh) /\ StateTypes(Held(e, k))
    BY <1>1, HeldTyped DEF StatesOK
  <2> QED
    BY Zenon, <1>1, <2>1, StateDrawn
<1>3. CASE e = d /\ j = 0
  <2>1. SameSender(d, i, NewCur(d)) \/ NewCur(d).sender.key > fresh
    BY Zenon, <1>3, AfterCurrent DEF Step, MadeFrom
  <2> QED
    BY Zenon, <1>2, <1>3, <2>1, AfterCurrent DEF SameSender, Source, Sends, SenderWas
<1>4. CASE ~(e = d /\ j = 0)
  <2>1. PICK k \in SlotsOf(e) : After(e, j) = Held(e, k) /\ (e = d => k # i)
    BY <1>1, <1>4, Carried
  <2>2. Live(e, k) /\ StateTypes(Held(e, k))
    BY <1>1, <2>1, HeldTyped DEF Live
  <2> QED
    BY <1>2, <2>1, <2>2 DEF StateTypes, Sends, SenderWas
<1> QED
  BY <1>3, <1>4

(* The keys that send stay apart.                                          *)
LEMMA SendersApartStep ==
    ASSUME SessionInv, NEW d \in Devices, NEW i, NEW M, Step(d, i, M)
    PROVE  SendersApart'
<1> DEFINE New(e, j) == After(e, j)
<1>1. TypeOK /\ StatesOK /\ SendersApart /\ fresh \in Nat
  BY DEF SessionInv, TypeOK
<1> SUFFICES ASSUME NEW e \in Devices, NEW f \in Devices,
                    NEW j \in SlotsAfter(e), NEW k \in SlotsAfter(f),
                    New(e, j).sender.key # None, New(e, j).sender.key = New(f, k).sender.key
             PROVE  e = f /\ j = k
  BY DEF SendersApart, SlotsOf, Held, Live, After, SlotsAfter
<1>2. \/ e = d /\ j = 0 /\ New(e, j).sender.key > fresh
      \/ \E a \in SlotsOf(e) : Live(e, a) /\ New(e, j).sender.key = Held(e, a).sender.key
                               /\ Held(e, a).sender.key \in 0 .. fresh
  BY Zenon, SenderAfter DEF Sends, SenderWas
<1>3. \/ f = d /\ k = 0 /\ New(f, k).sender.key > fresh
      \/ \E b \in SlotsOf(f) : Live(f, b) /\ New(f, k).sender.key = Held(f, b).sender.key
                               /\ Held(f, b).sender.key \in 0 .. fresh
  BY Zenon, SenderAfter DEF Sends, SenderWas
<1>4. CASE New(e, j).sender.key > fresh
  BY <1>1, <1>2, <1>3, <1>4
<1>5. CASE ~(New(e, j).sender.key > fresh)
  <2>1. PICK a \in SlotsOf(e) : Live(e, a) /\ New(e, j).sender.key = Held(e, a).sender.key
                                /\ Held(e, a).sender.key \in 0 .. fresh
    BY Zenon, <1>2, <1>5
  <2>2. PICK b \in SlotsOf(f) : Live(f, b) /\ New(f, k).sender.key = Held(f, b).sender.key
    BY Zenon, <1>3, <1>5
  <2>3. \A x \in SlotsOf(e) : Held(e, x).sender.key = Held(e, a).sender.key => x = a
    BY <1>1, <2>1 DEF SendersApart, Live
  <2>4. e = f /\ a = b
    BY Zenon, <1>1, <2>1, <2>2 DEF SendersApart
  <2>5. j # k => FALSE
    <3> SUFFICES ASSUME j # k PROVE FALSE
      OBVIOUS
    <3>1. CASE e = d /\ (j = 0 \/ k = 0)
      <4>1. SameSender(d, i, NewCur(d))
        <5>1. NewCur(d).sender.key = Held(e, a).sender.key
          BY <2>1, <2>2, <2>4, <3>1, AfterCurrent
        <5>2. NewCur(d).sender.key # None
          BY <2>1, <5>1 DEF Live
        <5> QED
          BY <1>1, <2>1, <5>1, <5>2 DEF Step, MadeFrom
      <4>2. i \in SlotsOf(d) /\ NewCur(d).sender.key = Held(d, i).sender.key
        BY <4>1 DEF SameSender, Source
      <4>3. a = i
        BY Zenon, <2>1, <2>2, <2>3, <2>4, <3>1, <4>2, AfterCurrent
      <4>4. PICK l \in {j, k} : l # 0
        BY <3>1
      <4>5. PICK c \in SlotsOf(e) : New(e, l) = Held(e, c) /\ c # i
        BY <1>1, <2>4, <3>1, <4>4, Carried
      <4> QED
        BY Zenon, <2>1, <2>2, <2>3, <2>4, <4>3, <4>4, <4>5
    <3>2. CASE ~(e = d /\ (j = 0 \/ k = 0))
      <4>1. PICK x, y \in SlotsOf(e) : x # y /\ New(e, j) = Held(e, x) /\ New(e, k) = Held(e, y)
        BY <1>1, <2>4, <3>2, CarriedApart DEF WereApart
      <4> QED
        BY Zenon, <2>1, <2>2, <2>3, <2>4, <4>1
    <3> QED
      BY <3>1, <3>2
  <2> QED
    BY <2>4, <2>5
<1> QED
  BY <1>4, <1>5

(* A signed pre key is replaced only when the device starts over.          *)
LEMMA SignedApartStep ==
    ASSUME SessionInv, NEW d \in Devices, NEW i, NEW M, Step(d, i, M),
           \A e \in Devices : \/ dev'[e].signed = dev[e].signed
                              \/ /\ NewCur(d).sender.key = None
                                 /\ dev'[e].signed > fresh
    PROVE  SignedApart'
<1>1. /\ SignedApart /\ fresh \in Nat
      /\ \A e \in Devices : dev[e].signed \in Nat /\ dev[e].signed <= fresh
  BY Zenon DEF SessionInv, TypeOK, Drawn, Device
<1> SUFFICES ASSUME NEW e \in Devices, NEW f \in Devices, NEW j \in SlotsAfter(e),
                    After(e, j).sender.key # None
             PROVE  After(e, j).sender.key # dev'[f].signed
  BY Zenon DEF SignedApart, SlotsOf, Held, Live, After, SlotsAfter
<1>2. \/ e = d /\ j = 0 /\ After(e, j).sender.key > fresh
      \/ \E a \in SlotsOf(e) :
            /\ Live(e, a) /\ After(e, j).sender.key = Held(e, a).sender.key
            /\ Held(e, a).sender.key \in 0 .. fresh
  BY Zenon, SenderAfter DEF Sends, SenderWas
<1>3. CASE e = d /\ j = 0 /\ After(e, j).sender.key > fresh
  BY <1>1, <1>3, AfterCurrent
<1>4. ASSUME NEW a \in SlotsOf(e), Live(e, a),
             After(e, j).sender.key = Held(e, a).sender.key,
             Held(e, a).sender.key \in 0 .. fresh
      PROVE  After(e, j).sender.key # dev'[f].signed
  BY <1>1, <1>4 DEF SignedApart
<1> QED
  BY Zenon, <1>2, <1>3, <1>4

(* A sender stays ahead of the messages that were sent before the step.    *)
LEMMA SenderAheadStep ==
    ASSUME SessionInv, NEW d \in Devices, NEW i, NEW M, Step(d, i, M),
           NEW e \in Devices, NEW j \in SlotsAfter(e), NEW m \in net,
           After(e, j).sender.key # None, m.ratchet = After(e, j).sender.key
    PROVE  /\ m.counter < After(e, j).sender.index
           /\ m.pre = After(e, j).pending
<1>1. /\ SenderAhead /\ fresh \in Nat /\ m.counter \in Nat /\ m.ratchet \in Nat
      /\ m.ratchet <= fresh /\ TypeOK
  BY Zenon DEF SessionInv, TypeOK, Message, MessagesOK, MessageOK
<1>2. After(e, j) \in State
  BY Zenon, SlotTyped DEF Step, Device, SlotsAfter, After
<1>3. StateTypes(After(e, j))
  BY <1>2, StateTyped
<1>4. PICK a \in SlotsOf(e) :
         /\ Live(e, a) /\ After(e, j).sender.key = Held(e, a).sender.key
         /\ After(e, j).sender.index >= Held(e, a).sender.index
         /\ After(e, j).pending = Held(e, a).pending
  <2>1. SenderWas(d, i, e, j, After(e, j))
    BY SenderAfter
  <2>2. After(e, j).sender.key \in Nat
    BY Zenon, <1>3 DEF StateTypes
  <2> QED
    BY <1>1, <2>1, <2>2 DEF Sends, SenderWas
<1>5. m.counter < Held(e, a).sender.index /\ m.pre = Held(e, a).pending
  BY Zenon, <1>1, <1>4 DEF SenderAhead
<1>6. StateTypes(Held(e, a))
  BY <1>1, HeldTyped
<1> QED
  BY <1>1, <1>3, <1>4, <1>5, <1>6 DEF StateTypes

(* A receiver chain rc of slot j after the step: where it comes from.      *)
ChainWas(d, i, M, e, j, rc, st) ==
    \/ \E k \in SlotsOf(e) :
          /\ Live(e, k) /\ (e = d /\ k = i => j = 0) /\ (e = d /\ j = 0 => k = i)
          /\ \E s \in DOMAIN Held(e, k).recv : rc = Held(e, k).recv[s]
    \/ e = d /\ j = 0 /\ FirstChain(rc)
    \/ e = d /\ j = 0 /\ \E m \in M : UsedNow(d, i, m, rc, st)

(* Where the receiver chains of the states after the step come from.       *)
LEMMA ReceiverAfter ==
    ASSUME SessionInv, NEW d \in Devices, NEW i, NEW M, Step(d, i, M),
           NEW e \in Devices, NEW j \in SlotsAfter(e),
           After(e, j).sender.key # None, NEW r \in DOMAIN After(e, j).recv
    PROVE  ChainWas(d, i, M, e, j, After(e, j).recv[r], NewCur(d))
<1>1. TypeOK
  BY DEF SessionInv
<1>2. CASE e = d /\ j = 0
  <2>1. After(e, j) = NewCur(d)
    BY <1>2, AfterCurrent
  <2> DEFINE rc == NewCur(d).recv[r]
  <2>2. KeptChain(d, i, rc) \/ FirstChain(rc)
          \/ \E m \in M : UsedNow(d, i, m, rc, NewCur(d))
    BY Zenon, <2>1 DEF Step, MadeFrom
  <2> QED
    BY <1>2, <2>1, <2>2 DEF KeptChain, Source, ChainWas
<1>3. CASE ~(e = d /\ j = 0)
  <2>1. PICK k \in SlotsOf(e) : After(e, j) = Held(e, k) /\ (e = d => k # i)
    BY <1>1, <1>3, Carried
  <2> QED
    BY <1>3, <2>1 DEF Live, ChainWas
<1> QED
  BY <1>2, <1>3

(* What a message that was read says about the key it was read with.       *)
LEMMA MessageTyped ==
    ASSUME SessionInv, NEW m \in net
    PROVE  /\ m \in Message /\ MessageOK(m, fresh) /\ fresh \in Nat
           /\ m.ratchet \in 0 .. fresh /\ m.base \in 1 .. fresh /\ m.counter \in Nat
           /\ m.pre \in Nat /\ m.to \in Devices /\ m.n \in 1 .. MaxMessages
           /\ Len(m.chain) # 4
<1>1. m \in Message /\ MessageOK(m, fresh) /\ fresh \in Nat
  BY DEF SessionInv, TypeOK, MessagesOK
<1>2. /\ m.ratchet \in Nat /\ m.base \in Nat /\ m.counter \in Nat /\ m.pre \in Nat
      /\ m.to \in Devices
  BY <1>1 DEF Message
<1>3. m.ratchet <= fresh /\ m.base <= fresh /\ m.base # 0
  BY <1>1, <1>2 DEF MessageOK, BasedOn
<1>4. Len(m.chain) >= 5 /\ ~(4 >= 5)
  BY <1>1 DEF MessageOK, EndsWith
<1>5. m.n \in 1 .. MaxMessages
  <2>1. Cardinality(net) \in Nat /\ m.n \in 1 .. Cardinality(net) /\ Cardinality(net) <= MaxMessages
    BY DEF SessionInv, Numbered
  <2> QED
    BY <2>1, MessagesAssumption
<1>6. Len(m.chain) # 4
  BY Zenon, <1>4
<1> QED
  BY <1>1, <1>2, <1>3, <1>5, <1>6

(* A key with which a receiver chain was agreed on does not send again:    *)
(* the one that sends now is newer.                                        *)
LEMMA OwnKeysRetiredStep ==
    ASSUME SessionInv, NEW d \in Devices, NEW i, NEW M, Step(d, i, M)
    PROVE  OwnKeysRetired'
<1>1. /\ TypeOK /\ StatesOK /\ SendersApart /\ SignedApart /\ OwnKeysRetired /\ fresh \in Nat
      /\ fresh' \in Nat /\ \A m \in M : m \in net
  BY Zenon DEF SessionInv, TypeOK, Step
<1> SUFFICES ASSUME NEW e \in Devices, NEW f \in Devices, NEW j \in SlotsAfter(e),
                    NEW k \in SlotsAfter(f)
             PROVE  Retired(After(e, j), After(f, k), fresh')
  BY Zenon DEF OwnKeysRetired, SlotsOf, Held, After, SlotsAfter
<1> SUFFICES ASSUME After(e, j).sender.key # None, After(f, k).sender.key # None,
                    NEW r \in DOMAIN After(e, j).recv, NEW x \in 0 .. fresh',
                    EndsWith(After(e, j).recv[r].chain, x, After(e, j).recv[r].key)
             PROVE  After(f, k).sender.key # x
  BY Zenon DEF Retired
<1> DEFINE rc == After(e, j).recv[r]
<1>2. \/ f = d /\ k = 0 /\ After(f, k).sender.key > fresh
      \/ \E b \in SlotsOf(f) :
            Sends(f, b, After(f, k)) /\ ((f = d /\ b = i) => k = 0)
  <2>1. SenderWas(d, i, f, k, After(f, k))
    BY SenderAfter
  <2> QED
    BY <2>1 DEF SenderWas
<1>6. After(f, k).sender.key \in Nat
  BY Zenon, NewTyped DEF StateTypes
<1>3. ASSUME NEW a \in SlotsOf(e), Live(e, a), NEW s \in DOMAIN Held(e, a).recv,
             rc = Held(e, a).recv[s]
      PROVE  After(f, k).sender.key # x
  <2>1. StateTypes(Held(e, a)) /\ StateOK(Held(e, a), fresh)
    BY <1>1, <1>3, HeldTyped DEF StatesOK
  <2>2. Held(e, a).recv[s].key \in Nat /\ Held(e, a).sender.key \in Nat
    BY Zenon, <2>1 DEF StateTypes
  <2>3. x \in 0 .. fresh
    BY <1>1, <1>3, <2>1, <2>2, OwnKeyOlder
  <2> QED
    BY <1>1, <1>2, <1>3, <1>6, <2>3 DEF OwnKeysRetired, Retired, Live, Sends
<1>4. ASSUME FirstChain(rc) PROVE FALSE
  <2>1. Len(rc.chain) >= 5 /\ Len(rc.chain) = 4 /\ ~(4 >= 5)
    BY <1>4 DEF FirstChain, EndsWith
  <2> QED
    BY Zenon, <2>1
<1>5. ASSUME NEW m \in M, UsedNow(d, i, m, rc, NewCur(d)), e = d, j = 0
      PROVE  After(f, k).sender.key # x
  <2>1. m \in net /\ rc.key = m.ratchet /\ rc.chain = m.chain
    BY Zenon, <1>1, <1>5 DEF UsedNow
  <2>2. m.ratchet \in 0 .. fresh
    BY Zenon, <2>1, MessageTyped
  <2>3. CASE UsedOldChain(d, i, m, rc)
    <3>1. PICK s \in DOMAIN Held(d, i).recv : 
            Held(d, i).recv[s].key = m.ratchet /\ Held(d, i).recv[s].chain = m.chain
      BY Zenon, <2>3 DEF UsedOldChain
    <3>2. i \in SlotsOf(d) /\ Live(d, i)
      BY Zenon, <2>3 DEF UsedOldChain, Source
    <3>3. x \in 0 .. fresh /\ EndsWith(Held(d, i).recv[s].chain, x, Held(d, i).recv[s].key)
      BY <1>1, <2>1, <2>2, <3>1 DEF EndsWith
    <3> QED
      BY <1>1, <1>2, <1>6, <3>1, <3>2, <3>3 DEF OwnKeysRetired, Retired, Live, Sends
  <2>4. CASE UsedNewChain(d, i, m, rc, NewCur(d))
    <3>1. NewCur(d).sender.key > fresh
      BY Zenon, <2>4 DEF UsedNewChain
    <3>2. x \in 0 .. fresh /\ EndsWith(m.chain, x, m.ratchet)
      BY <1>1, <2>1, <2>2 DEF EndsWith
    <3>3. CASE f = d /\ k = 0
      <4>1. After(f, k).sender.key > fresh
        BY <3>1, <3>3, AfterCurrent
      <4> QED
        BY <1>1, <1>6, <3>2, <4>1
    <3>4. CASE ~(f = d /\ k = 0)
      <4>1. PICK b \in SlotsOf(f) :
              /\ Live(f, b) /\ After(f, k).sender.key = Held(f, b).sender.key
              /\ ~(f = d /\ b = i)
        BY Zenon, <1>2, <3>4 DEF Sends
      <4>2. ASSUME Source(d, i), EndsWith(m.chain, Held(d, i).sender.key, m.ratchet)
            PROVE  Held(f, b).sender.key # x
        <5>1. StateTypes(Held(d, i))
          BY <1>1, <4>2, HeldTyped DEF Source
        <5>2. Held(d, i).sender.key = x
          BY <2>2, <3>2, <4>2, <5>1, LastKeys DEF StateTypes
        <5> QED
          BY Zenon, <1>1, <4>1, <4>2, <5>2 DEF SendersApart, Source
      <4>3. ASSUME EndsWith(m.chain, dev[d].signed, m.ratchet)
            PROVE  Held(f, b).sender.key # x
        <5>1. dev[d].signed \in Nat
          BY Zenon, <1>1 DEF TypeOK, Device
        <5>2. dev[d].signed = x
          BY <2>2, <3>2, <4>3, <5>1, LastKeys
        <5> QED
          BY Zenon, <1>1, <4>1, <5>2 DEF SignedApart
      <4> QED
        BY Zenon, <2>4, <4>1, <4>2, <4>3 DEF UsedNewChain
    <3> QED
      BY <3>3, <3>4
  <2> QED
    BY Zenon, <1>5, <2>3, <2>4 DEF UsedNow
<1>7. ChainWas(d, i, M, e, j, rc, NewCur(d))
  BY Zenon, ReceiverAfter
<1> HIDE DEF rc
<1> QED
  BY Zenon, <1>3, <1>4, <1>5, <1>7 DEF ChainWas

(* The keys of the chain that has just read m, and what they were before.  *)
KeysWere(d, i, m, rc, st, ch) ==
    /\ KeysAfter(ch, m.counter, rc.keys)
    /\ \/ ch = NewChain /\ UsedNewChain(d, i, m, rc, st)
       \/ /\ Source(d, i)
          /\ \E r \in DOMAIN Held(d, i).recv :
                Held(d, i).recv[r] = [key |-> m.ratchet, chain |-> m.chain, keys |-> ch]

(* The chain from which the key was taken.                                 *)
LEMMA KeysNow ==
    ASSUME SessionInv, NEW d \in Devices, NEW i, NEW m \in net, NEW rc, NEW st,
           UsedNow(d, i, m, rc, st)
    PROVE  \E ch \in Chain : KeysWere(d, i, m, rc, st, ch)
<1>1. TypeOK
  BY DEF SessionInv
<1>2. CASE UsedNewChain(d, i, m, rc, st)
  <2>1. NewChain \in Chain
    BY DEF NewChain, Chain
  <2>2. KeysAfter(NewChain, m.counter, rc.keys)
    BY <1>2 DEF UsedNewChain
  <2> QED
    BY <1>2, <2>1, <2>2 DEF KeysWere
<1>3. CASE UsedOldChain(d, i, m, rc)
  <2>1. PICK r \in DOMAIN Held(d, i).recv :
          /\ Held(d, i).recv[r].key = m.ratchet /\ Held(d, i).recv[r].chain = m.chain
          /\ KeysAfter(Held(d, i).recv[r].keys, m.counter, rc.keys)
    BY Zenon, <1>3 DEF UsedOldChain
  <2>2. Source(d, i) /\ i \in SlotsOf(d) /\ Live(d, i)
    BY <1>3 DEF UsedOldChain, Source
  <2>3. StateTypes(Held(d, i))
    BY <1>1, <2>2, HeldTyped
  <2> DEFINE ch == Held(d, i).recv[r].keys
  <2>4. ch \in Chain
    BY Zenon, <2>1, <2>3 DEF StateTypes
  <2>5. Held(d, i).recv[r] \in ReceiverChain
    BY Zenon, <2>1, <2>3 DEF StateTypes
  <2>6. Held(d, i).recv[r] = [key |-> m.ratchet, chain |-> m.chain, keys |-> ch]
    BY Zenon, <2>1, <2>5 DEF ReceiverChain
  <2>7. KeysAfter(ch, m.counter, rc.keys)
    BY <2>1
  <2> HIDE DEF ch
  <2> QED
    BY <2>1, <2>2, <2>4, <2>6, <2>7 DEF KeysWere
<1> QED
  BY <1>2, <1>3 DEF UsedNow

(* No chain gets ahead of the messages: it moves when one is read.         *)
LEMMA ReceiverBehindStep ==
    ASSUME SessionInv, NEW d \in Devices, NEW i, NEW M, Step(d, i, M)
    PROVE  ReceiverBehind'
<1> SUFFICES
      \A e \in Devices : \A j \in SlotsAfter(e) :
          \A r \in DOMAIN After(e, j).recv :
              (/\ After(e, j).sender.key # None
               /\ After(e, j).recv[r].keys.index > 0)
                  => \E m \in net' : /\ m.ratchet = After(e, j).recv[r].key
                                     /\ m.counter = After(e, j).recv[r].keys.index - 1
  BY Zenon DEF ReceiverBehind, SlotsOf, Held, Live, After, SlotsAfter
<1> TAKE e \in Devices
<1> TAKE j \in SlotsAfter(e)
<1> TAKE r \in DOMAIN After(e, j).recv
<1> HAVE /\ After(e, j).sender.key # None
         /\ After(e, j).recv[r].keys.index > 0
<1> DEFINE rc == After(e, j).recv[r]
<1>1. ReceiverBehind /\ net \subseteq net' /\ \A m \in M : m \in net
  BY Zenon DEF SessionInv, Step
<1>2. ChainWas(d, i, M, e, j, rc, NewCur(d)) /\ rc.keys.index > 0
  BY Zenon, ReceiverAfter
<1> HIDE DEF rc
<1> SUFFICES \E m \in net' : m.ratchet = rc.key /\ m.counter = rc.keys.index - 1
  BY Zenon DEF rc
<1>3. ASSUME NEW a \in SlotsOf(e), Live(e, a), NEW s \in DOMAIN Held(e, a).recv,
             rc = Held(e, a).recv[s]
      PROVE  \E m \in net' : m.ratchet = rc.key /\ m.counter = rc.keys.index - 1
  BY Zenon, <1>1, <1>2, <1>3 DEF ReceiverBehind
<1>4. ASSUME FirstChain(rc) PROVE FALSE
  BY <1>2, <1>4 DEF FirstChain, NewChain
<1>5. ASSUME NEW m \in M, UsedNow(d, i, m, rc, NewCur(d)), e = d
      PROVE  \E n \in net' : n.ratchet = rc.key /\ n.counter = rc.keys.index - 1
  <2>1. m \in net /\ m \in net' /\ m.counter \in Nat
    BY Zenon, <1>1, MessageTyped
  <2>2. PICK ch \in Chain : KeysWere(d, i, m, rc, NewCur(d), ch)
    BY Zenon, <1>5, <2>1, KeysNow
  <2>3. rc.keys.index = ch.index \/ rc.keys.index = m.counter + 1
    BY Zenon, <2>2 DEF KeysAfter, KeysWere
  <2>4. rc.key = m.ratchet
    BY <1>5 DEF UsedNow
  <2>5. CASE rc.keys.index = m.counter + 1
    BY <2>1, <2>4, <2>5
  <2>6. CASE rc.keys.index = ch.index
    <3>1. ch # NewChain
      BY <1>2, <2>6 DEF NewChain
    <3>2. PICK s \in DOMAIN Held(d, i).recv :
             Held(d, i).recv[s] = [key |-> m.ratchet, chain |-> m.chain, keys |-> ch]
      BY Zenon, <2>2, <3>1 DEF KeysWere
    <3>3. Held(d, i).recv[s].key = m.ratchet /\ Held(d, i).recv[s].keys = ch
      BY <3>2
    <3>4. i \in SlotsOf(d) /\ Live(d, i)
      BY Zenon, <2>2, <3>1 DEF KeysWere, Source
    <3> QED
      BY Zenon, <1>1, <1>2, <2>4, <2>6, <3>2, <3>3, <3>4 DEF ReceiverBehind
  <2> QED
    BY Zenon, <2>3, <2>5, <2>6
<1> QED
  BY Zenon, <1>2, <1>3, <1>4, <1>5 DEF ChainWas

(* The state that is read with is as it should be.                         *)
LEMMA SourceOK ==
    ASSUME SessionInv, NEW d \in Devices, NEW i, Source(d, i)
    PROVE  /\ StateTypes(Held(d, i)) /\ StateOK(Held(d, i), fresh) /\ fresh \in Nat
           /\ Held(d, i).sender.key \in 0 .. fresh
<1>1. TypeOK /\ StatesOK /\ fresh \in Nat /\ i \in SlotsOf(d) /\ Live(d, i)
  BY DEF SessionInv, TypeOK, Source
<1>2. StateTypes(Held(d, i)) /\ StateOK(Held(d, i), fresh)
  BY <1>1, HeldTyped DEF StatesOK
<1> QED
  BY Zenon, <1>1, <1>2, StateDrawn

(* A chain of the new state is no chain of another state of the device.    *)
LEMMA NewChainApart ==
    ASSUME SessionInv, NEW d \in Devices, NEW i, NEW M, Step(d, i, M),
           NEW k \in SlotsOf(d), k # i, SharesChain(NewCur(d), Held(d, k))
    PROVE  FALSE
<1>r. PICK r \in DOMAIN NewCur(d).recv, s \in DOMAIN Held(d, k).recv :
         Len(NewCur(d).recv[r].chain) >= 5 /\ NewCur(d).recv[r].chain = Held(d, k).recv[s].chain
  BY Zenon DEF SharesChain
<1> DEFINE rc == NewCur(d).recv[r]
<1>s. /\ NewCur(d).sender.key # None /\ Live(d, k)
      /\ Len(rc.chain) >= 5 /\ rc.chain = Held(d, k).recv[s].chain
  BY Zenon, <1>r DEF SharesChain, Live
<1>1. /\ TypeOK /\ StatesOK /\ ReceiversApart /\ OwnKeysRetired /\ fresh \in Nat
      /\ \A m \in M : m \in net
  BY Zenon DEF SessionInv, TypeOK, Step
<1>2. /\ StateTypes(Held(d, k)) /\ StateOK(Held(d, k), fresh)
      /\ Held(d, k).recv[s].key \in Nat /\ Held(d, k).base \in Nat
  BY Zenon, <1>1, <1>s, HeldTyped DEF StatesOK, StateTypes
<1>3. KeptChain(d, i, rc) \/ FirstChain(rc)
        \/ \E m \in M : UsedNow(d, i, m, rc, NewCur(d))
  BY Zenon, <1>s DEF Step, MadeFrom
<1>4. ASSUME Source(d, i), NEW q \in DOMAIN Held(d, i).recv, Held(d, i).recv[q].chain = rc.chain
      PROVE  FALSE
  <2>1. SharesChain(Held(d, i), Held(d, k))
    BY Zenon, <1>4, <1>s DEF SharesChain, Source, Live
  <2> QED
    BY <1>1, <1>4, <2>1 DEF ReceiversApart, Source
<1>5. ~FirstChain(rc)
  <2>1. ~(4 >= 5)
    OBVIOUS
  <2> QED
    BY Zenon, <1>s, <2>1 DEF FirstChain
<1>6. ASSUME NEW m \in M, UsedNow(d, i, m, rc, NewCur(d)) PROVE FALSE
  <2>1. m \in net /\ rc.chain = m.chain
    BY <1>1, <1>6 DEF UsedNow
  <2>2. MessageOK(m, fresh) /\ m.ratchet \in 0 .. fresh /\ m.base \in Nat
    BY <2>1, MessageTyped
  <2>3. CASE UsedOldChain(d, i, m, rc)
    BY Zenon, <1>4, <2>1, <2>3 DEF UsedOldChain
  <2>4. CASE Source(d, i) /\ EndsWith(m.chain, Held(d, i).sender.key, m.ratchet)
    <3>1. StateTypes(Held(d, i)) /\ StateOK(Held(d, i), fresh) /\ Held(d, i).sender.key \in 0 .. fresh
      BY <2>4, SourceOK
    <3>5. /\ EndsWith(Held(d, k).recv[s].chain, Held(d, i).sender.key, m.ratchet)
          /\ Held(d, i).sender.key \in Nat /\ m.ratchet \in Nat
      <4>1. EndsWith(Held(d, k).recv[s].chain, Held(d, i).sender.key, m.ratchet)
        BY Zenon, <1>s, <2>1, <2>4
      <4>2. \A x \in 0 .. fresh : x \in Nat
        OBVIOUS
      <4> QED
        BY Zenon, <2>2, <3>1, <4>1, <4>2
    <3>2. m.ratchet = Held(d, k).recv[s].key
      BY <1>1, <1>2, <3>5, OwnKeyOlder
    <3>3. EndsWith(Held(d, k).recv[s].chain, Held(d, i).sender.key, Held(d, k).recv[s].key)
      BY Zenon, <1>s, <2>1, <2>4, <3>2
    <3>4. i \in SlotsOf(d) /\ Live(d, i)
      BY <2>4 DEF Source
    <3> QED
      BY Zenon, <1>1, <1>s, <3>1, <3>3, <3>4 DEF OwnKeysRetired, Retired, Live
  <2>5. CASE Unbuilt(d, m)
    <3>1. BasedOn(m.chain, m.base) /\ BasedOn(m.chain, Held(d, k).base)
      BY Zenon, <1>2, <1>s, <2>1, <2>2 DEF MessageOK, StateOK, ReceiverOK
    <3> QED
      BY <1>2, <2>2, <2>5, <3>1, BaseKey DEF Unbuilt
  <2> QED
    BY Zenon, <1>6, <2>3, <2>4, <2>5 DEF UsedNow, UsedNewChain
<1> QED
  BY Zenon, <1>3, <1>4, <1>5, <1>6 DEF KeptChain

(* A new receiver chain is agreed on with a key that is in no other.       *)
LEMMA ReceiversApartStep ==
    ASSUME SessionInv, NEW d \in Devices, NEW i, NEW M, Step(d, i, M)
    PROVE  ReceiversApart'
<1>1. TypeOK /\ ReceiversApart
  BY DEF SessionInv
<1>2. ASSUME NEW l \in SlotsAfter(d), l # 0, SharesChain(NewCur(d), After(d, l))
      PROVE  FALSE
  <2>1. PICK c \in SlotsOf(d) : After(d, l) = Held(d, c) /\ c # i
    BY <1>1, <1>2, Carried
  <2> QED
    BY <1>2, <2>1, NewChainApart
<1>3. ASSUME NEW st, NEW other, SharesChain(st, other) PROVE SharesChain(other, st)
  BY Zenon, <1>3 DEF SharesChain
<1>s. SUFFICES ASSUME NEW e \in Devices, NEW j \in SlotsAfter(e), NEW k \in SlotsAfter(e),
                      SharesChain(After(e, j), After(e, k)), j # k
               PROVE  FALSE
  BY Zenon DEF ReceiversApart, SlotsOf, Held, After, SlotsAfter
<1>4. CASE e = d /\ j = 0
  BY <1>2, <1>4, <1>s, AfterCurrent
<1>5. CASE e = d /\ k = 0
  BY <1>2, <1>3, <1>5, <1>s, AfterCurrent
<1>6. CASE e = d => j # 0 /\ k # 0
  <2>1. WereApart(d, i, e, After(e, j), After(e, k))
    BY <1>1, <1>6, <1>s, CarriedApart
  <2> QED
    BY <1>1, <1>s, <2>1 DEF ReceiversApart, WereApart
<1> QED
  BY <1>4, <1>5, <1>6

(* A key that is gone was used or evicted, also after the step, for the    *)
(* messages that were sent before it.                                      *)
LEMMA GoneIsUsedStep ==
    ASSUME SessionInv, NEW d \in Devices, NEW i, NEW M, Step(d, i, M),
           NEW e \in Devices, NEW j \in SlotsAfter(e),
           NEW r \in DOMAIN After(e, j).recv, NEW m \in net,
           After(e, j).sender.key # None, m.to = e,
           m.ratchet = After(e, j).recv[r].key,
           Gone(After(e, j).recv[r].keys, m.counter)
    PROVE  \/ reads'[m.n] > 0 \/ m.n \in lost'
           \/ \E later \in net' : later.ratchet = m.ratchet /\ later.counter - m.counter > MaxKeys
<1> DEFINE rc == After(e, j).recv[r]
           OK == \/ reads'[m.n] > 0 \/ m.n \in lost'
                 \/ \E later \in net' :
                       later.ratchet = m.ratchet /\ later.counter - m.counter > MaxKeys
<1>1. /\ GoneIsUsed /\ MessagesApart /\ net \subseteq net' /\ \A n \in M : n \in net
      /\ \A n \in net : (reads'[n.n] > 0 \/ n.n \in lost') <=> (Used(n) \/ n \in M)
  BY Zenon DEF SessionInv, Step
<1>2. ChainWas(d, i, M, e, j, rc, NewCur(d)) /\ Gone(rc.keys, m.counter)
        /\ m.ratchet = rc.key
  BY Zenon, ReceiverAfter
<1>3. m.counter \in Nat
  BY Zenon, MessageTyped
<1> HIDE DEF rc
<1>4. Used(m) \/ m \in M \/ Evicted(m) => OK
  BY Zenon, <1>1 DEF Evicted
<1> SUFFICES Used(m) \/ m \in M \/ Evicted(m)
  BY Zenon, <1>4
<1> HIDE DEF OK
<1>5. ASSUME NEW a \in SlotsOf(e), Live(e, a), NEW s \in DOMAIN Held(e, a).recv,
             rc = Held(e, a).recv[s]
      PROVE  Used(m) \/ Evicted(m)
  BY Zenon, <1>1, <1>2, <1>5 DEF GoneIsUsed
<1>6. ASSUME FirstChain(rc) PROVE FALSE
  BY <1>2, <1>3, <1>6 DEF FirstChain, NewChain, Gone
<1>7. ASSUME NEW n \in M, UsedNow(d, i, n, rc, NewCur(d)), e = d
      PROVE  Used(m) \/ m \in M \/ Evicted(m)
  <2>1. n \in net /\ n.counter \in Nat /\ rc.key = n.ratchet
    BY Zenon, <1>1, <1>7, MessageTyped DEF UsedNow
  <2>2. PICK ch \in Chain : KeysWere(d, i, n, rc, NewCur(d), ch)
    BY <1>7, <2>1, KeysNow
  <2>3. Gone(ch, m.counter) \/ m.counter = n.counter \/ n.counter - m.counter > MaxKeys
    BY Zenon, <1>2, <1>3, <2>2 DEF KeysAfter, KeysWere
  <2>4. CASE m.counter = n.counter
    <3>1. m = n
      BY Zenon, <1>1, <1>2, <2>1, <2>4 DEF MessagesApart
    <3> QED
      BY <3>1
  <2>5. CASE n.counter - m.counter > MaxKeys
    BY <1>2, <2>1, <2>5 DEF Evicted
  <2>6. CASE Gone(ch, m.counter)
    <3>1. ch # NewChain
      BY <1>3, <2>6 DEF NewChain, Gone
    <3>2. PICK s \in DOMAIN Held(d, i).recv :
             Held(d, i).recv[s] = [key |-> n.ratchet, chain |-> n.chain, keys |-> ch]
      BY Zenon, <2>2, <3>1 DEF KeysWere
    <3>3. Held(d, i).recv[s].key = m.ratchet /\ Held(d, i).recv[s].keys = ch
      BY <1>2, <2>1, <3>2
    <3>4. i \in SlotsOf(d) /\ Live(d, i)
      BY Zenon, <2>2, <3>1 DEF KeysWere, Source
    <3> QED
      BY Zenon, <1>1, <1>7, <2>6, <3>2, <3>3, <3>4 DEF GoneIsUsed
  <2> QED
    BY <2>3, <2>4, <2>5, <2>6
<1> QED
  BY <1>2, <1>5, <1>6, <1>7 DEF ChainWas

(* For a message that was used before the step, in the new current state.  *)
LEMMA UsedIsGoneCurrent ==
    ASSUME SessionInv, NEW d \in Devices, NEW i, NEW M, Step(d, i, M),
           NewCur(d).sender.key # None,
           NEW m \in net, m.to = d, Used(m), m.pre \notin kept
    PROVE  /\ \A r \in DOMAIN NewCur(d).recv :
                 (/\ NewCur(d).recv[r].key = m.ratchet
                  /\ NewCur(d).recv[r].chain = m.chain)
                     => Gone(NewCur(d).recv[r].keys, m.counter)
           /\ \A x \in 0 .. fresh : EndsWith(m.chain, x, m.ratchet)
                 => NewCur(d).sender.key # x
<1> DEFINE st == NewCur(d)
<1>1. /\ UsedIsGone /\ UsedPreKeyGone /\ MessagesApart /\ \A n \in M : n \in net
      /\ MadeFrom(d, i, M, st, fresh')
  BY Zenon DEF SessionInv, Step
<1>2. m.counter \in Nat /\ m.ratchet \in 0 .. fresh /\ Len(m.chain) # 4 /\ fresh \in Nat
  BY MessageTyped
<1>3. ASSUME Source(d, i)
      PROVE  /\ \A r \in DOMAIN Held(d, i).recv :
                   (Held(d, i).recv[r].key = m.ratchet /\ Held(d, i).recv[r].chain = m.chain)
                       => Gone(Held(d, i).recv[r].keys, m.counter)
             /\ \A x \in 0 .. fresh : EndsWith(m.chain, x, m.ratchet)
                   => Held(d, i).sender.key # x
  BY Zenon, <1>1, <1>3 DEF UsedIsGone, Source
<1>4. ASSUME NEW r \in DOMAIN st.recv, st.recv[r].key = m.ratchet, st.recv[r].chain = m.chain
      PROVE  Gone(st.recv[r].keys, m.counter)
  <2> DEFINE rc == st.recv[r]
  <2>1. KeptChain(d, i, rc) \/ FirstChain(rc) \/ \E n \in M : UsedNow(d, i, n, rc, st)
    BY Zenon, <1>1, <1>4 DEF MadeFrom
  <2>2. CASE KeptChain(d, i, rc)
    BY Zenon, <1>3, <1>4, <2>2 DEF KeptChain
  <2>3. ~FirstChain(rc)
    BY Zenon, <1>2, <1>4 DEF FirstChain
  <2>4. ASSUME NEW n \in M, UsedNow(d, i, n, rc, st) PROVE Gone(rc.keys, m.counter)
    <3>1. n \in net /\ rc.key = n.ratchet /\ rc.chain = n.chain /\ n.chain = m.chain
            /\ n.ratchet = m.ratchet
      BY Zenon, <1>1, <1>4, <2>4 DEF UsedNow
    <3>2. PICK ch \in Chain : KeysWere(d, i, n, rc, st, ch)
      BY <2>4, <3>1, KeysNow
    <3>3. CASE /\ Source(d, i)
               /\ \E s \in DOMAIN Held(d, i).recv :
                     Held(d, i).recv[s] = [key |-> n.ratchet, chain |-> n.chain, keys |-> ch]
      <4>1. PICK s \in DOMAIN Held(d, i).recv :
               Held(d, i).recv[s] = [key |-> n.ratchet, chain |-> n.chain, keys |-> ch]
        BY <3>3
      <4>2. /\ Held(d, i).recv[s].key = m.ratchet /\ Held(d, i).recv[s].chain = m.chain
            /\ Held(d, i).recv[s].keys = ch
        BY <3>1, <4>1
      <4>3. Gone(ch, m.counter)
        BY Zenon, <1>3, <3>3, <4>1, <4>2
      <4> QED
        BY Zenon, <1>2, <3>2, <4>3 DEF KeysWere, KeysAfter
    <3>4. CASE UsedNewChain(d, i, n, rc, st)
      <4>1. CASE Source(d, i) /\ EndsWith(n.chain, Held(d, i).sender.key, n.ratchet)
        <5>1. Held(d, i).sender.key \in 0 .. fresh
          BY <4>1, SourceOK
        <5> QED
          BY Zenon, <1>3, <3>1, <4>1, <5>1
      <4>2. CASE Unbuilt(d, n)
        <5>1. m.pre = n.pre
          BY <1>1, <3>1 DEF MessagesApart
        <5> QED
          BY <1>1, <4>2, <5>1 DEF Unbuilt, UsedPreKeyGone
      <4> QED
        BY Zenon, <3>4, <4>1, <4>2 DEF UsedNewChain
    <3> QED
      BY Zenon, <3>2, <3>3, <3>4 DEF KeysWere
  <2> HIDE DEF rc
  <2> QED
    BY Zenon, <2>1, <2>2, <2>3, <2>4 DEF rc
<1>5. ASSUME NEW x \in 0 .. fresh, EndsWith(m.chain, x, m.ratchet)
      PROVE  st.sender.key # x
  <2>1. SameSender(d, i, st) \/ st.sender.key > fresh
    BY <1>1 DEF MadeFrom
  <2>2. CASE SameSender(d, i, st)
    BY Zenon, <1>3, <1>5, <2>2 DEF SameSender
  <2>3. CASE st.sender.key > fresh
    BY <1>2, <2>3
  <2> QED
    BY <2>1, <2>2, <2>3
<1> QED
  BY Zenon, <1>4, <1>5

(* What was used before, and what is used now, is gone from every state.   *)
LEMMA UsedIsGoneStep ==
    ASSUME SessionInv, NEW d \in Devices, NEW i, NEW M, Step(d, i, M)
    PROVE  UsedIsGone'
<1> SUFFICES
      \A m \in net' : \A j \in SlotsAfter(m.to) :
          (/\ reads'[m.n] > 0 \/ m.n \in lost'
           /\ m.pre \notin kept' /\ After(m.to, j).sender.key # None)
              => /\ \A r \in DOMAIN After(m.to, j).recv :
                       (/\ After(m.to, j).recv[r].key = m.ratchet
                        /\ After(m.to, j).recv[r].chain = m.chain)
                           => Gone(After(m.to, j).recv[r].keys, m.counter)
                 /\ \A x \in 0 .. fresh' : EndsWith(m.chain, x, m.ratchet)
                       => After(m.to, j).sender.key # x
  BY Zenon DEF UsedIsGone, Used, SlotsOf, Held, Live, After, SlotsAfter
<1> TAKE m \in net'
<1> TAKE j \in SlotsAfter(m.to)
<1> HAVE /\ reads'[m.n] > 0 \/ m.n \in lost'
         /\ m.pre \notin kept' /\ After(m.to, j).sender.key # None
<1> DEFINE st == After(m.to, j)
<1>1. /\ TypeOK /\ UsedIsGone /\ kept \subseteq kept' /\ fresh' \in Nat
      /\ M \subseteq {n \in net : n.to = d}
      /\ \A n \in net : (reads'[n.n] > 0 \/ n.n \in lost') <=> (Used(n) \/ n \in M)
      /\ \A n \in net' \ net : ~(reads'[n.n] > 0 \/ n.n \in lost')
      /\ M # {} => NewCur(d).sender.key # None
      /\ NewCur(d).sender.key # None => MadeFrom(d, i, M, NewCur(d), fresh')
  BY Zenon DEF SessionInv, Step
<1>2. m \in net /\ (Used(m) \/ m \in M) /\ m.pre \notin kept
  BY <1>1
<1>3. /\ m.counter \in Nat /\ m.ratchet \in 0 .. fresh /\ m.to \in Devices /\ fresh \in Nat
      /\ MessageOK(m, fresh) /\ Len(m.chain) # 4
  BY Zenon, <1>2, MessageTyped
<1>4. \A x \in 0 .. fresh' : EndsWith(m.chain, x, m.ratchet) => x \in 0 .. fresh
  BY <1>1, <1>3 DEF EndsWith
<1> DEFINE OK == /\ \A r \in DOMAIN st.recv : (st.recv[r].key = m.ratchet /\ st.recv[r].chain = m.chain)
                        => Gone(st.recv[r].keys, m.counter)
                 /\ \A x \in 0 .. fresh' : EndsWith(m.chain, x, m.ratchet) => st.sender.key # x
<1>5. CASE Used(m)
  <2>1. CASE m.to = d /\ j = 0
    <3>1. st = NewCur(d)
      BY <2>1, AfterCurrent
    <3>2. /\ \A r \in DOMAIN st.recv : (st.recv[r].key = m.ratchet /\ st.recv[r].chain = m.chain)
                => Gone(st.recv[r].keys, m.counter)
          /\ \A x \in 0 .. fresh : EndsWith(m.chain, x, m.ratchet) => st.sender.key # x
      BY Zenon, <1>2, <1>5, <2>1, <3>1, UsedIsGoneCurrent
    <3> QED
      BY Zenon, <1>4, <3>2
  <2>2. CASE ~(m.to = d /\ j = 0)
    <3>1. PICK k \in SlotsOf(m.to) : st = Held(m.to, k)
      BY Zenon, <1>1, <1>3, <2>2, Carried
    <3>2. Live(m.to, k)
      BY <3>1 DEF Live
    <3>3. /\ \A r \in DOMAIN st.recv : (st.recv[r].key = m.ratchet /\ st.recv[r].chain = m.chain)
                => Gone(st.recv[r].keys, m.counter)
          /\ \A x \in 0 .. fresh : EndsWith(m.chain, x, m.ratchet) => st.sender.key # x
      BY Zenon, <1>1, <1>2, <1>5, <3>1, <3>2 DEF UsedIsGone
    <3> QED
      BY Zenon, <1>4, <3>3
  <2> QED
    BY Zenon, <2>1, <2>2
<1>6. CASE m \in M
  <2> DEFINE cur == NewCur(d)
  <2>1. m.to = d /\ cur.sender.key # None /\ MadeFrom(d, i, M, cur, fresh')
    BY Zenon, <1>1, <1>6
  <2>2. PICK q \in DOMAIN cur.recv : UsedNow(d, i, m, cur.recv[q], cur)
    BY <1>6, <2>1 DEF MadeFrom
  <2>3. cur.recv[q].key = m.ratchet /\ cur.recv[q].chain = m.chain
    BY Zenon, <2>2 DEF UsedNow
  <2>4. Gone(cur.recv[q].keys, m.counter)
    BY Zenon, <1>2, <2>2, KeysNow DEF KeysWere, KeysAfter
  <2>5. \A r \in DOMAIN cur.recv : cur.recv[r].key = m.ratchet => r = q
    BY Zenon, <2>1, <2>2, <2>3 DEF MadeFrom, StateOK
  <2>6. 0 \in SlotsAfter(d) /\ After(d, 0) = cur
    <3>1. dev'[d].session \in Record
      BY Zenon DEF Step, Device, NewCur
    <3> QED
      BY Zenon, <3>1, SlotTyped, AfterCurrent DEF SlotsAfter
  <2> HIDE DEF cur
  <2>7. \A x \in 0 .. fresh' : EndsWith(m.chain, x, m.ratchet) => st.sender.key # x
    <3>1. OwnKeysRetired'
      BY OwnKeysRetiredStep
    <3>2. \A e, f \in Devices : \A a \in SlotsAfter(e), k \in SlotsAfter(f) :
             Retired(After(e, a), After(f, k), fresh')
      BY Zenon, <3>1 DEF OwnKeysRetired, SlotsOf, Held, After, SlotsAfter
    <3> QED
      BY <1>3, <2>1, <2>2, <2>3, <2>6, <3>2 DEF Retired
  <2>8. ASSUME NEW r \in DOMAIN st.recv, st.recv[r].key = m.ratchet, st.recv[r].chain = m.chain
        PROVE  Gone(st.recv[r].keys, m.counter)
    <3>1. CASE j = 0
      BY Zenon, <2>1, <2>4, <2>5, <2>6, <2>8, <3>1
    <3>2. CASE j # 0
      <4>1. PICK k \in SlotsOf(d) : st = Held(d, k) /\ k # i
        BY <1>1, <2>1, <3>2, Carried
      <4>2. Live(d, k)
        BY <4>1 DEF Live
      <4>3. Len(cur.recv[q].chain) >= 5
        BY Zenon, <1>3, <2>3 DEF MessageOK, EndsWith
      <4>4. r \in DOMAIN Held(d, k).recv /\ cur.recv[q].chain = Held(d, k).recv[r].chain
        BY Zenon, <2>3, <2>8, <4>1
      <4>5. FALSE
        BY <2>1, <2>2, <4>1, <4>2, <4>3, <4>4, NewChainApart DEF cur, SharesChain, Live
      <4> QED
        BY Zenon, <4>5
    <3> QED
      BY Zenon, <3>1, <3>2
  <2> QED
    BY Zenon, <2>7, <2>8
<1> QED
  BY Zenon, <1>2, <1>5, <1>6

(* The one-time key of a message that was used is removed, or recorded as  *)
(* one that a crash left.                                                  *)
LEMMA UsedPreKeyGoneStep ==
    ASSUME SessionInv, NEW d \in Devices, NEW i, NEW M, Step(d, i, M),
           \A m \in net : m.pre \in dev'[m.to].oneTime => m.pre \in dev[m.to].oneTime,
           \A m \in M : m.pre # None => m.pre \notin dev'[m.to].oneTime \/ m.pre \in kept'
    PROVE  UsedPreKeyGone'
<1> SUFFICES
      \A m \in net' : (/\ reads'[m.n] > 0 \/ m.n \in lost'
                       /\ m.pre # None /\ m.pre \notin kept') => m.pre \notin dev'[m.to].oneTime
  BY Zenon DEF UsedPreKeyGone, Used
<1> TAKE m \in net'
<1> HAVE (reads'[m.n] > 0 \/ m.n \in lost') /\ m.pre # None /\ m.pre \notin kept'
<1>1. /\ UsedPreKeyGone /\ kept \subseteq kept'
      /\ \A n \in net : (reads'[n.n] > 0 \/ n.n \in lost') <=> (Used(n) \/ n \in M)
      /\ \A n \in net' \ net : ~(reads'[n.n] > 0 \/ n.n \in lost')
  BY Zenon DEF SessionInv, Step
<1>2. m \in net /\ (Used(m) \/ m \in M) /\ m.pre \notin kept
  BY Zenon, <1>1
<1> QED
  BY Zenon, <1>1, <1>2 DEF UsedPreKeyGone

(* What an offer is.                                                       *)
LEMMA Offered ==
    ASSUME NEW d \in Devices, NEW o
    PROVE  o \in OffersTo(d) <=>
              \/ \E m \in net : m.to = d /\ m.pre # None /\ o = <<m.base, m.pre>>
              \/ \E i \in SlotsOf(Peer(d)) :
                    /\ Live(Peer(d), i) /\ Held(Peer(d), i).pending # None
                    /\ o = <<Held(Peer(d), i).base, Held(Peer(d), i).pending>>
  BY DEF OffersTo

(* Offers name keys that were drawn.                                       *)
LEMMA OfferDrawn ==
    ASSUME SessionInv, NEW d \in Devices, NEW o \in OffersTo(d)
    PROVE  o[1] \in 0 .. fresh /\ o[2] \in Nat /\ o[2] < o[1] /\ o[2] # None /\ fresh \in Nat
<1>1. Peer(d) \in Devices
  BY DEF Peer, Devices
<1>2. ASSUME NEW m \in net, m.pre # None, o = <<m.base, m.pre>>
      PROVE  o[1] \in 0 .. fresh /\ o[2] \in Nat /\ o[2] < o[1] /\ o[2] # None /\ fresh \in Nat
  <2>1. m.base \in 1 .. fresh /\ m.pre \in Nat /\ MessageOK(m, fresh) /\ fresh \in Nat
    BY MessageTyped
  <2>2. m.pre < m.base
    BY <1>2, <2>1 DEF MessageOK
  <2> QED
    BY <1>2, <2>1, <2>2
<1>3. ASSUME NEW i \in SlotsOf(Peer(d)), Live(Peer(d), i), Held(Peer(d), i).pending # None,
             o = <<Held(Peer(d), i).base, Held(Peer(d), i).pending>>
      PROVE  o[1] \in 0 .. fresh /\ o[2] \in Nat /\ o[2] < o[1] /\ o[2] # None /\ fresh \in Nat
  <2>1. StateTypes(Held(Peer(d), i)) /\ StateOK(Held(Peer(d), i), fresh) /\ fresh \in Nat
    BY <1>1, <1>3, SourceOK DEF Source
  <2>2. /\ Held(Peer(d), i).base \in Nat /\ Held(Peer(d), i).pending \in Nat
        /\ Held(Peer(d), i).base <= fresh /\ Held(Peer(d), i).pending < Held(Peer(d), i).base
    BY Zenon, <1>3, <2>1 DEF StateOK, StateTypes
  <2> QED
    BY <1>3, <2>1, <2>2
<1> QED
  BY <1>2, <1>3, Offered

(* Offers stay consistent when no new one is made but by the new state,    *)
(* with a fresh base key.                                                  *)
LEMMA OffersOKStep ==
    ASSUME SessionInv, NEW d \in Devices, NEW i, NEW M, Step(d, i, M),
           \A e \in Devices : dev'[e].oneTime \subseteq dev[e].oneTime \cup {fresh + 1},
           \A e \in Devices : \A o \in OffersTo(e)' :
              \/ o \in OffersTo(e)
              \/ /\ e = Peer(d) /\ NewCur(d).base > fresh
                 /\ o[1] = NewCur(d).base /\ o[2] = NewCur(d).pending,
           NewCur(d).sender.key # None =>
              \/ Source(d, i) /\ NewCur(d).base = Held(d, i).base
              \/ NewCur(d).base > fresh
              \/ \E m \in M : /\ NewCur(d).base = m.base /\ m.pre # None
                              /\ m.pre \notin dev'[d].oneTime \/ m.pre \in kept'
    PROVE  OffersOK'
<1>1. /\ OffersOK /\ TypeOK /\ kept \subseteq kept' /\ fresh \in Nat
      /\ M \subseteq {m \in net : m.to = d}
  BY Zenon DEF SessionInv, TypeOK, Step
<1>p. Peer(d) # d
  BY DEF Peer, Devices
<1> DEFINE New(e) == OffersTo(e)'
           cur == NewCur(d)
<1>2. cur.base \in Nat
  <2>1. NewCur(d) \in State
    BY Zenon, SlotTyped DEF Step, Device, NewCur
  <2> QED
    BY Zenon, <2>1, StateTyped DEF StateTypes
<1>3. \A e \in Devices : \A o \in New(e) :
         o \in OffersTo(e) \/ (e = Peer(d) /\ o[1] = cur.base /\ o[2] = cur.pending /\ cur.base > fresh)
  OBVIOUS
<1>4. ASSUME NEW e \in Devices, NEW o1 \in New(e), NEW o2 \in New(e), o1[1] = o2[1]
      PROVE  o1[2] = o2[2]
  <2>1. CASE o1 \in OffersTo(e) /\ o2 \in OffersTo(e)
    BY Zenon, <1>1, <1>4, <2>1 DEF OffersOK
  <2>2. CASE o1 \notin OffersTo(e) /\ o2 \notin OffersTo(e)
    BY <1>3, <2>2
  <2>3. CASE o1 \in OffersTo(e) /\ o2 \notin OffersTo(e)
    <3>1. o1[1] \in 0 .. fresh
      BY Zenon, <2>3, OfferDrawn
    <3> QED
      BY <1>1, <1>2, <1>3, <1>4, <2>3, <3>1
  <2>4. CASE o1 \notin OffersTo(e) /\ o2 \in OffersTo(e)
    <3>1. o2[1] \in 0 .. fresh
      BY Zenon, <2>4, OfferDrawn
    <3> QED
      BY <1>1, <1>2, <1>3, <1>4, <2>4, <3>1
  <2> QED
    BY <2>1, <2>2, <2>3, <2>4
<1>5. ASSUME NEW e \in Devices, NEW o \in New(e), NEW j \in SlotsAfter(e),
             After(e, j).sender.key # None, After(e, j).base = o[1]
      PROVE  o[2] \notin dev'[e].oneTime \/ o[2] \in kept'
  <2>1. ASSUME NEW k \in SlotsOf(e), Live(e, k), Held(e, k).base = o[1]
        PROVE  o[2] \notin dev'[e].oneTime \/ o[2] \in kept'
    <3>1. o \in OffersTo(e)
      <4>1. Held(e, k).base \in 0 .. fresh
        BY Zenon, <2>1, SourceOK, StateDrawn DEF Source
      <4> QED
        BY <1>1, <1>2, <1>3, <2>1, <4>1
    <3>2. o[2] \notin dev[e].oneTime \/ o[2] \in kept
      BY Zenon, <1>1, <2>1, <3>1 DEF OffersOK
    <3>3. o[2] # fresh + 1
      BY <3>1, OfferDrawn
    <3> QED
      BY Zenon, <1>1, <3>2, <3>3
  <2>2. CASE ~(e = d /\ j = 0)
    <3>1. PICK k \in SlotsOf(e) : After(e, j) = Held(e, k)
      BY Zenon, <1>1, <2>2, Carried
    <3> QED
      BY Zenon, <1>5, <2>1, <3>1 DEF Live
  <2>3. CASE e = d /\ j = 0
    <3>1. After(e, j) = cur
      BY <2>3, AfterCurrent
    <3>2. o \in OffersTo(d)
      BY Zenon, <1>3, <1>p, <2>3
    <3>3. o[1] \in 0 .. fresh
      BY Zenon, <3>2, OfferDrawn
    <3>4. CASE Source(d, i) /\ cur.base = Held(d, i).base
      BY Zenon, <1>5, <2>1, <2>3, <3>1, <3>4 DEF Source
    <3>5. CASE cur.base > fresh
      BY <1>1, <1>2, <1>5, <3>1, <3>3, <3>5
    <3>6. ASSUME NEW m \in M, cur.base = m.base, m.pre # None,
                 m.pre \notin dev'[d].oneTime \/ m.pre \in kept'
          PROVE  o[2] \notin dev'[e].oneTime \/ o[2] \in kept'
      <4>1. m \in net /\ m.to = d
        BY <1>1
      <4>2. <<m.base, m.pre>> \in OffersTo(d)
        BY Zenon, <3>6, <4>1, Offered
      <4>3. o[1] = <<m.base, m.pre>>[1] /\ <<m.base, m.pre>>[2] = m.pre
        BY Zenon, <1>5, <3>1, <3>6
      <4>4. o[2] = m.pre
        BY Zenon, <1>1, <3>2, <4>2, <4>3 DEF OffersOK
      <4> QED
        BY Zenon, <2>3, <3>6, <4>4
    <3>7. cur.sender.key # None
      BY Zenon, <1>5, <3>1
    <3> QED
      BY Zenon, <3>4, <3>5, <3>6, <3>7
  <2> QED
    BY Zenon, <2>2, <2>3
<1> QED
  BY Zenon, <1>4, <1>5 DEF OffersOK, SlotsOf, Held, Live, After, SlotsAfter

=============================================================================
