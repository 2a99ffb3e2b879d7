------------------------ MODULE SessionActionProofs ------------------------
(***************************************************************************)
(* Every action of Session is a Step, and adds what is particular to it.   *)
(*                                                                         *)
(* What the operators return enters as a hypothesis (OutcomeKnown, Taken,  *)
(* ReadFrom), which SessionProofs proves.                                  *)
(***************************************************************************)
EXTENDS SessionStepProofs

----------------------------------------------------------------------------
(* The state that has read a message                                       *)

(* Facts of arithmetic.                                                    *)
LEMMA NextNumber == \A n \in Nat : n + 1 \in Nat /\ n <= n + 1 /\ n + 1 >= n /\ n <= n
  OBVIOUS

LEMMA BelowPositive == \A a, b \in Nat : a < b => b > 0 /\ ~(b - 1 < a)
  OBVIOUS

(* A sender chain that is moved on.                                        *)
LEMMA SenderMoved ==
    ASSUME NEW s \in [key : Nat, chain : KeySeq, index : Nat]
    PROVE  /\ [s EXCEPT !.index = s.index + 1] \in [key : Nat, chain : KeySeq, index : Nat]
           /\ [s EXCEPT !.index = s.index + 1].index = s.index + 1
           /\ [s EXCEPT !.index = s.index + 1].key = s.key
           /\ [s EXCEPT !.index = s.index + 1].chain = s.chain
  OBVIOUS

(* What is appended leaves the rest.                                       *)
LEMMA AppendKeeps ==
    ASSUME NEW c \in KeySeq, NEW x \in SUBSET Nat, NEW k \in 1 .. Len(c)
    PROVE  Append(c, x)[k] = c[k]
  BY DEF KeySeq

(* One more agreement leaves the base key.                                 *)
LEMMA BasedOnMore ==
    ASSUME NEW c \in KeySeq, NEW x \in SUBSET Nat, NEW b, BasedOn(c, b)
    PROVE  /\ BasedOn(Append(c, x), b) /\ Append(c, x) \in KeySeq
           /\ Len(Append(c, x)) = Len(c) + 1 /\ Append(c, x)[Len(c) + 1] = x
           /\ Len(c) \in Nat /\ Len(c) >= 4
<1>1. /\ Append(c, x) \in KeySeq /\ Len(Append(c, x)) = Len(c) + 1 /\ Len(c) \in Nat
      /\ Append(c, x)[Len(c) + 1] = x /\ \A k \in 1 .. Len(c) : Append(c, x)[k] = c[k]
  BY DEF KeySeq
<1>2. Len(c) >= 4 /\ \E y \in 0 .. b - 1 : c[4] = {b, y}
  BY DEF BasedOn
<1>3. Append(c, x)[4] = c[4] /\ Len(Append(c, x)) >= 4
  BY <1>1, <1>2
<1> QED
  BY <1>1, <1>2, <1>3 DEF BasedOn

(* With a chain that it has: only the keys of that chain change.           *)
LEMMA OldStateRead ==
    ASSUME NEW st \in State, NEW new \in State, NEW m \in Message, NEW last \in Nat,
           StateOK(st, last), MessageOK(m, last), ReadOld(st, m, new)
    PROVE  /\ StateOK(new, last)
           /\ new.base = m.base /\ st.base = m.base /\ new.sender = st.sender
           /\ new.pending = None /\ st.pending = None
           /\ \E f \in DOMAIN st.recv :
                 /\ DOMAIN new.recv = DOMAIN st.recv
                 /\ \A i \in DOMAIN st.recv : i # f => new.recv[i] = st.recv[i]
                 /\ st.recv[f].key = m.ratchet /\ st.recv[f].chain = m.chain
                 /\ new.recv[f].key = m.ratchet /\ new.recv[f].chain = m.chain
                 /\ KeysAfter(st.recv[f].keys, m.counter, new.recv[f].keys)
<1>1. PICK f \in DOMAIN st.recv :
         /\ st.recv[f].key = m.ratchet /\ st.recv[f].chain = m.chain
         /\ UsedChain(st, m, new, f)
  BY DEF ReadOld
<1>2. StateTypes(st) /\ StateTypes(new) /\ m.counter \in Nat /\ m.base \in Nat
  BY StateTyped DEF Message
<1>3. DOMAIN new.recv = DOMAIN st.recv /\ new.recv # <<>>
  <2>1. /\ st.recv \in Seq(ReceiverChain) /\ new.recv \in Seq(ReceiverChain)
        /\ Len(new.recv) = Len(st.recv)
    BY Zenon, <1>1, <1>2 DEF StateTypes, UsedChain
  <2> QED
    BY <1>1, <2>1
<1>4. /\ \A i \in DOMAIN st.recv : i # f => new.recv[i] = st.recv[i]
      /\ new.recv[f].key = m.ratchet /\ new.recv[f].chain = m.chain
      /\ KeyTaken(st.recv[f].keys, m.counter, new.recv[f].keys)
      /\ new.base = st.base /\ new.root = st.root /\ new.sender = st.sender /\ new.pending = None
  BY Zenon, <1>1 DEF UsedChain
<1>5. \A i \in DOMAIN st.recv : ReceiverOK(st.recv[i], st.base, st.sender.key)
  BY Zenon DEF StateOK
<1>6. st.base = m.base
  <2>1. BasedOn(m.chain, st.base) /\ BasedOn(m.chain, m.base)
    BY Zenon, <1>1, <1>5 DEF ReceiverOK, MessageOK
  <2> QED
    BY Zenon, <1>2, <2>1, BaseKey DEF StateTypes
<1>7. st.pending = None
  <2>1. Len(m.chain) >= 5 /\ ~(4 >= 5)
    BY DEF MessageOK, EndsWith
  <2>2. Len(m.chain) # 4
    BY Zenon, <2>1
  <2> QED
    BY Zenon, <1>1, <2>2 DEF StateOK
<1>8. \A i \in DOMAIN st.recv : new.recv[i].key = st.recv[i].key /\ new.recv[i].chain = st.recv[i].chain
  BY Zenon, <1>1, <1>4
<1>12. KeysAfter(st.recv[f].keys, m.counter, new.recv[f].keys)
  <2>1. st.recv[f].keys.skipped \subseteq 0 .. st.recv[f].keys.index - 1
    BY Zenon, <1>1, <1>5 DEF ReceiverOK
  <2> QED
    BY Zenon, <1>4, <2>1 DEF KeyTaken
<1>9. \A i \in DOMAIN st.recv : new.recv[i].keys.skipped \subseteq 0 .. new.recv[i].keys.index - 1
  <2>3. new.recv[f].keys.skipped \subseteq 0 .. new.recv[f].keys.index - 1
    BY Zenon, <1>12 DEF KeysAfter
  <2> QED
    BY Zenon, <1>4, <1>5, <2>3 DEF ReceiverOK
<1>10. \A i \in DOMAIN new.recv : ReceiverOK(new.recv[i], new.base, new.sender.key)
  BY Zenon, <1>3, <1>4, <1>5, <1>8, <1>9 DEF ReceiverOK
<1>11. StateOK(new, last)
  <2>1. \A i, j \in DOMAIN new.recv : new.recv[i].key = new.recv[j].key => i = j
    BY Zenon, <1>3, <1>8 DEF StateOK
  <2> QED
    BY Zenon, <1>3, <1>4, <1>10, <2>1 DEF StateOK
<1> QED
  BY Zenon, <1>1, <1>3, <1>4, <1>6, <1>7, <1>11, <1>12

(* What a step of the ratchet needs to know of the state before it: less   *)
(* than StateOK, since a state that was just built has no receiver chain.  *)
CanRatchet(st, last) ==
    /\ st.sender.key <= last /\ st.base <= last
    /\ BasedOn(st.root, st.base)
    /\ \A i \in DOMAIN st.recv : ReceiverOK(st.recv[i], st.base, st.sender.key)
    /\ \A i, j \in DOMAIN st.recv : st.recv[i].key = st.recv[j].key => i = j

(* With a new chain, which is the last one.                                *)
LEMMA NewStateRead ==
    ASSUME NEW st \in State, NEW new \in State, NEW m \in Message, NEW last \in Nat,
           CanRatchet(st, last), MessageOK(m, last), ReadNew(st, m, last + 1, new)
    PROVE  /\ StateOK(new, last + 1)
           /\ new.base = m.base /\ st.base = m.base /\ new.sender.key = last + 1
           /\ new.sender.index = 0 /\ new.pending = None
           /\ EndsWith(m.chain, st.sender.key, m.ratchet)
           /\ Len(new.recv) \in DOMAIN new.recv
           /\ LET rc == new.recv[Len(new.recv)]
              IN  rc.key = m.ratchet /\ rc.chain = m.chain /\ KeysAfter(NewChain, m.counter, rc.keys)
           /\ \A i \in DOMAIN new.recv : i # Len(new.recv) =>
                 \E k \in DOMAIN st.recv : new.recv[i] = st.recv[k]
<1>1. PICK mid \in State :
        /\ Ratcheted(st, m, last + 1, mid)
        /\ m.chain = Append(st.root, {m.ratchet, st.sender.key})
        /\ UsedChain(mid, m, new, Len(mid.recv))
  BY DEF ReadNew
<1>2. /\ StateTypes(st) /\ StateTypes(new) /\ StateTypes(mid)
      /\ m.counter \in Nat /\ m.base \in Nat /\ m.ratchet \in Nat
  BY StateTyped DEF Message
<1>3. st.sender.key \in Nat /\ st.base \in Nat /\ st.root \in KeySeq
  BY Zenon, <1>2 DEF StateTypes
<1> DEFINE L == Len(mid.recv)
<1>4. /\ L \in Nat /\ L >= 1 /\ DOMAIN mid.recv = 1 .. L /\ DOMAIN new.recv = 1 .. L
      /\ Len(new.recv) = L
  <2>1. /\ mid.recv \in Seq(ReceiverChain) /\ new.recv \in Seq(ReceiverChain)
        /\ Len(new.recv) = Len(mid.recv) /\ L >= 1
    BY Zenon, <1>1, <1>2 DEF StateTypes, UsedChain, Ratcheted
  <2> QED
    BY <2>1
<1>5. /\ mid.recv[L] = [key |-> m.ratchet, chain |-> m.chain, keys |-> NewChain]
      /\ mid.root = Append(m.chain, {m.ratchet, last + 1})
      /\ mid.sender = [key |-> last + 1, chain |-> mid.root, index |-> 0]
      /\ mid.base = st.base
      /\ \A i \in DOMAIN st.recv : st.recv[i].key # m.ratchet
  BY Zenon, <1>1 DEF Ratcheted
<1>6. PICK k \in {0, 1} : \A i \in 1 .. L - 1 : i + k \in DOMAIN st.recv /\ mid.recv[i] = st.recv[i + k]
  BY Zenon, <1>1 DEF Ratcheted
<1>7. /\ \A i \in 1 .. L : i # L => new.recv[i] = mid.recv[i]
      /\ new.recv[L].key = mid.recv[L].key /\ new.recv[L].chain = mid.recv[L].chain
      /\ KeyTaken(mid.recv[L].keys, m.counter, new.recv[L].keys)
      /\ new.base = mid.base /\ new.root = mid.root /\ new.sender = mid.sender /\ new.pending = None
  BY Zenon, <1>1, <1>4 DEF UsedChain
<1>8. /\ new.recv[L].key = m.ratchet /\ new.recv[L].chain = m.chain
      /\ KeysAfter(NewChain, m.counter, new.recv[L].keys)
  BY <1>5, <1>7 DEF KeyTaken, NewChain
<1>9. \A i \in 1 .. L : i # L => i + k \in DOMAIN st.recv /\ new.recv[i] = st.recv[i + k]
  <2>1. \A i \in 1 .. L : i # L => i \in 1 .. L - 1
    BY <1>4
  <2> QED
    BY Zenon, <1>6, <1>7, <2>1
<1>10. BasedOn(m.chain, st.base) /\ m.chain \in KeySeq
  <2>1. {m.ratchet, st.sender.key} \in SUBSET Nat
    BY <1>2, <1>3
  <2> QED
    BY <1>1, <1>3, <2>1, BasedOnMore DEF CanRatchet
<1>11. st.base = m.base
  BY Zenon, <1>2, <1>3, <1>10, BaseKey DEF MessageOK
<1>12. EndsWith(m.chain, st.sender.key, m.ratchet)
  <2>1. PICK x \in 0 .. m.ratchet - 1 : EndsWith(m.chain, x, m.ratchet)
    BY DEF MessageOK
  <2>2. m.chain[Len(m.chain)] = {m.ratchet, st.sender.key}
    BY <1>1, <1>3 DEF KeySeq
  <2>3. {x, m.ratchet} = {m.ratchet, st.sender.key}
    BY Zenon, <2>1, <2>2 DEF EndsWith
  <2>5. x # m.ratchet
    BY <1>2, <2>1
  <2>4. x = st.sender.key
    BY Zenon, <2>3, <2>5
  <2> QED
    BY <2>1, <2>4
<1>13. /\ new.base = m.base /\ new.sender.key = last + 1 /\ new.sender.index = 0
       /\ new.sender.chain = new.root /\ new.root = Append(m.chain, {m.ratchet, last + 1})
  BY <1>5, <1>7, <1>11
<1>14. /\ BasedOn(new.root, new.base) /\ EndsWith(new.root, m.ratchet, last + 1)
       /\ m.ratchet \in 0 .. new.sender.key - 1
  <2>1. {m.ratchet, last + 1} \in SUBSET Nat
    BY <1>2
  <2>2. m.ratchet <= last
    BY DEF MessageOK
  <2>3. Len(m.chain) >= 5
    BY <1>12 DEF EndsWith
  <2>4. /\ BasedOn(new.root, st.base) /\ Len(new.root) = Len(m.chain) + 1 /\ Len(m.chain) \in Nat
        /\ new.root[Len(m.chain) + 1] = {m.ratchet, last + 1}
    BY <1>10, <1>13, <2>1, BasedOnMore
  <2>5. Len(new.root) >= 5 /\ new.root[Len(new.root)] = {m.ratchet, last + 1}
    BY <2>3, <2>4
  <2> QED
    BY <1>2, <1>11, <1>13, <2>2, <2>4, <2>5 DEF EndsWith
<1>15. ReceiverOK(new.recv[L], new.base, new.sender.key)
  <2>4. new.recv[L].keys.skipped \subseteq 0 .. new.recv[L].keys.index - 1
    BY Zenon, <1>8 DEF KeysAfter
  <2>5. st.sender.key \in 0 .. m.ratchet - 1 /\ st.sender.key < new.sender.key
    BY <1>2, <1>3, <1>12, <1>13 DEF EndsWith, CanRatchet
  <2> QED
    BY Zenon, <1>8, <1>10, <1>11, <1>12, <1>13, <2>4, <2>5 DEF ReceiverOK
<1>16. \A i \in 1 .. L : i # L => ReceiverOK(new.recv[i], new.base, new.sender.key)
  <2> SUFFICES ASSUME NEW i \in 1 .. L, i # L
               PROVE  ReceiverOK(new.recv[i], new.base, new.sender.key)
    OBVIOUS
  <2>1. /\ ReceiverOK(new.recv[i], st.base, st.sender.key) /\ new.base = st.base
        /\ st.sender.key < new.sender.key
    BY <1>3, <1>9, <1>11, <1>13 DEF CanRatchet
  <2>2. new.recv[i].key \in Nat /\ new.sender.key \in Nat
    BY Zenon, <1>2, <1>4 DEF StateTypes
  <2>3. \A x \in 0 .. new.recv[i].key - 1 : x < st.sender.key => x < new.sender.key
    BY <1>3, <2>1, <2>2
  <2> QED
    BY Zenon, <2>1, <2>3 DEF ReceiverOK
<1>17. \A i, j \in 1 .. L : new.recv[i].key = new.recv[j].key => i = j
  <2>1. \A i \in 1 .. L : i # L => new.recv[i].key # m.ratchet
    BY Zenon, <1>5, <1>9
  <2>2. new.recv[L].key = m.ratchet
    BY Zenon, <1>8
  <2>3. ASSUME NEW i \in 1 .. L, NEW j \in 1 .. L, i # L, j # L, new.recv[i].key = new.recv[j].key
        PROVE  i = j
    <3>1. i + k = j + k
      BY <1>9, <2>3 DEF CanRatchet
    <3> QED
      BY <1>4, <3>1
  <2> QED
    BY Zenon, <1>4, <2>1, <2>2, <2>3
<1>18. StateOK(new, last + 1)
  <2>1. new.recv # <<>> /\ new.sender.key <= last + 1 /\ new.base <= last + 1
    BY <1>4, <1>3, <1>11, <1>13 DEF CanRatchet
  <2>2. \A i \in DOMAIN new.recv : ReceiverOK(new.recv[i], new.base, new.sender.key)
    BY Zenon, <1>4, <1>15, <1>16
  <2>3. \E x \in 0 .. new.sender.key - 1 : EndsWith(new.root, x, new.sender.key)
    BY Zenon, <1>13, <1>14
  <2> QED
    BY Zenon, <1>4, <1>7, <1>13, <1>14, <1>17, <2>1, <2>2, <2>3 DEF StateOK
<1>19. \A i \in DOMAIN new.recv : i # Len(new.recv) =>
          \E q \in DOMAIN st.recv : new.recv[i] = st.recv[q]
  BY Zenon, <1>4, <1>9
<1>20. Len(new.recv) \in DOMAIN new.recv
  BY <1>4
<1> QED
  BY Zenon, <1>1, <1>4, <1>7, <1>8, <1>11, <1>12, <1>13, <1>18, <1>19, <1>20

(* How a device has read m: from slot i, or from a state that it built.    *)
ReadBy(d, i, m, E) ==
    /\ E \in Device /\ E.identity = dev[d].identity /\ E.signed = dev[d].signed
    /\ Derived(dev[d].session, E.session, i)
    /\ E.session.cur.sender.key # None /\ MadeFrom(d, i, {m}, E.session.cur, fresh + 1)
    /\ E.session.cur.base = m.base /\ E.session.cur.pending = None
    /\ \/ Source(d, i) /\ Held(d, i).base = m.base /\ E.oneTime = dev[d].oneTime
       \/ Unbuilt(d, m) /\ E.oneTime = dev[d].oneTime \ {m.pre}
    /\ m.pre \notin kept => ~Used(m)

(* The state new has just read m.                                          *)
ReadNow(d, i, m, new) ==
    /\ new.sender.key # None /\ MadeFrom(d, i, {m}, new, fresh + 1)
    /\ new.base = m.base /\ new.pending = None

(* A state that is held reads only messages with its base key.             *)
LEMMA HeldRead ==
    ASSUME SessionInv, NEW d \in Devices, NEW i \in SlotsOf(d), NEW m \in net, NEW new,
           ReadFrom(Held(d, i), m, fresh + 1, new)
    PROVE  Source(d, i) /\ Held(d, i).base = m.base /\ ReadNow(d, i, m, new)
<1> DEFINE st == Held(d, i)
<1>1. m \in Message /\ MessageOK(m, fresh) /\ fresh \in Nat /\ m.ratchet \in 0 .. fresh
  BY MessageTyped
<1>2. st \in State
  BY Zenon, HeldTyped DEF SessionInv, StateTypes
<1>3. /\ new \in State /\ st.sender.key # None
      /\ ReadOld(st, m, new) \/ ReadNew(st, m, fresh + 1, new)
  BY DEF ReadFrom
<1>4. Source(d, i)
  BY <1>3 DEF Source, Live
<1>5. StateTypes(st) /\ StateOK(st, fresh) /\ st.sender.key \in 0 .. fresh
  BY <1>4, SourceOK
<1>6. CASE ReadOld(st, m, new)
  <2>1. /\ StateOK(new, fresh)
        /\ new.base = m.base /\ st.base = m.base /\ new.sender = st.sender
        /\ new.pending = None /\ st.pending = None
        /\ \E f \in DOMAIN st.recv :
              /\ DOMAIN new.recv = DOMAIN st.recv
              /\ \A k \in DOMAIN st.recv : k # f => new.recv[k] = st.recv[k]
              /\ st.recv[f].key = m.ratchet /\ st.recv[f].chain = m.chain
              /\ new.recv[f].key = m.ratchet /\ new.recv[f].chain = m.chain
              /\ KeysAfter(st.recv[f].keys, m.counter, new.recv[f].keys)
    BY Zenon, <1>1, <1>2, <1>3, <1>5, <1>6, OldStateRead
  <2>2. PICK f \in DOMAIN st.recv :
           /\ DOMAIN new.recv = DOMAIN st.recv
           /\ \A k \in DOMAIN st.recv : k # f => new.recv[k] = st.recv[k]
           /\ st.recv[f].key = m.ratchet /\ st.recv[f].chain = m.chain
           /\ new.recv[f].key = m.ratchet /\ new.recv[f].chain = m.chain
           /\ KeysAfter(st.recv[f].keys, m.counter, new.recv[f].keys)
    BY Zenon, <2>1
  <2>3. UsedNow(d, i, m, new.recv[f], new)
    BY Zenon, <1>4, <2>2 DEF UsedNow, UsedOldChain
  <2>4. \A k \in DOMAIN new.recv : k # f => KeptChain(d, i, new.recv[k])
    BY Zenon, <1>4, <2>2 DEF KeptChain
  <2>5. StateOK(new, fresh + 1)
    <3>1. StateTypes(new) /\ fresh + 1 \in Nat /\ fresh <= fresh + 1
      BY <1>1, <1>3, StateTyped
    <3> QED
      BY Zenon, <1>1, <2>1, <3>1, DrawnMore
  <2>6. SameSender(d, i, new)
    BY <1>4, <1>5, <2>1 DEF SameSender, StateTypes
  <2>7. MadeFrom(d, i, {m}, new, fresh + 1)
    BY Zenon, <2>2, <2>3, <2>4, <2>5, <2>6 DEF MadeFrom
  <2> QED
    BY Zenon, <1>3, <1>4, <2>1, <2>7 DEF ReadNow
<1>7. CASE ReadNew(st, m, fresh + 1, new)
  <2>1. CanRatchet(st, fresh)
    BY Zenon, <1>5 DEF CanRatchet, StateOK
  <2>2. /\ StateOK(new, fresh + 1)
        /\ new.base = m.base /\ st.base = m.base /\ new.sender.key = fresh + 1
        /\ new.pending = None
        /\ EndsWith(m.chain, st.sender.key, m.ratchet)
        /\ Len(new.recv) \in DOMAIN new.recv
        /\ LET rc == new.recv[Len(new.recv)]
           IN  rc.key = m.ratchet /\ rc.chain = m.chain /\ KeysAfter(NewChain, m.counter, rc.keys)
        /\ \A a \in DOMAIN new.recv : a # Len(new.recv) =>
              \E k \in DOMAIN st.recv : new.recv[a] = st.recv[k]
    BY <1>1, <1>2, <1>3, <1>7, <2>1, NewStateRead
  <2> DEFINE f == Len(new.recv)
  <2>3. UsedNow(d, i, m, new.recv[f], new)
    <3>1. /\ new.recv[f].key = m.ratchet /\ new.recv[f].chain = m.chain
          /\ KeysAfter(NewChain, m.counter, new.recv[f].keys)
      BY Zenon, <2>2
    <3>2. new.sender.key > fresh
      BY <1>1, <2>2
    <3> QED
      BY Zenon, <1>4, <2>2, <3>1, <3>2 DEF UsedNow, UsedNewChain
  <2>4. \A k \in DOMAIN new.recv : k # f => KeptChain(d, i, new.recv[k])
    BY Zenon, <1>4, <2>2 DEF KeptChain
  <2>5. new.sender.key > fresh /\ new.sender.key # None
    BY <1>1, <2>2 DEF None
  <2>6. f \in DOMAIN new.recv
    BY Zenon, <2>2
  <2> HIDE DEF f
  <2>7. MadeFrom(d, i, {m}, new, fresh + 1)
    BY Zenon, <2>2, <2>3, <2>4, <2>5, <2>6 DEF MadeFrom
  <2> QED
    BY Zenon, <1>4, <2>2, <2>5, <2>7 DEF ReadNow
<1> QED
  BY Zenon, <1>3, <1>6, <1>7

(* A state that is built reads the message only with its one-time key.     *)
LEMMA BuiltRead ==
    ASSUME SessionInv, NEW d \in Devices, NEW m \in net, m.pre # None, NEW raw, NEW new,
           NEW one \in (dev[d].oneTime \cap {m.pre}) \cup {None},
           \A k \in SlotsOf(d) : Held(d, k).base # m.base,
           Bare(raw, dev[d], m, one), ReadFrom(raw, m, fresh + 1, new)
    PROVE  Unbuilt(d, m) /\ ReadNow(d, -1, m, new)
<1>1. /\ m \in Message /\ MessageOK(m, fresh) /\ fresh \in Nat /\ m.ratchet \in 0 .. fresh
      /\ m.base \in 1 .. fresh /\ m.pre \in Nat
  BY MessageTyped
<1>2. dev[d] \in Device /\ dev[d].signed \in Nat /\ dev[d].signed <= fresh /\ one \in Nat
  BY <1>1 DEF SessionInv, TypeOK, Drawn, Device, None
<1>3. /\ raw \in State /\ raw.recv = <<>> /\ raw.base = m.base /\ raw.sender.key = dev[d].signed
      /\ Len(raw.root) = 4 /\ raw.root[4] = {m.base, one}
  BY DEF Bare
<1>4. new \in State /\ (ReadOld(raw, m, new) \/ ReadNew(raw, m, fresh + 1, new))
  BY DEF ReadFrom
<1>5. ReadNew(raw, m, fresh + 1, new)
  BY <1>3, <1>4 DEF ReadOld
<1>6. one = m.pre
  <2>1. m.chain = Append(raw.root, {m.ratchet, raw.sender.key}) /\ raw.root \in KeySeq
    BY Zenon, <1>3, <1>5 DEF ReadNew, State
  <2>2. m.chain[4] = raw.root[4]
    <3>1. m.ratchet \in Nat /\ 4 \in 1 .. Len(raw.root)
      BY <1>1, <1>3
    <3>2. {m.ratchet, raw.sender.key} \in SUBSET Nat
      BY Zenon, <1>2, <1>3, <3>1
    <3> QED
      BY Zenon, <2>1, <3>1, <3>2, AppendKeeps
  <2>3. m.chain[4] = {m.base, m.pre} /\ m.pre # m.base
    BY <1>1 DEF MessageOK
  <2>4. {m.base, one} = {m.base, m.pre}
    BY Zenon, <1>3, <2>2, <2>3
  <2> QED
    BY Zenon, <2>3, <2>4
<1>7. Unbuilt(d, m)
  BY <1>6 DEF Unbuilt, None
<1>8. CanRatchet(raw, fresh)
  <2>1. BasedOn(raw.root, raw.base)
    <3>1. m.pre \in 0 .. m.base - 1
      BY <1>1 DEF MessageOK
    <3> QED
      BY <1>3, <1>6, <3>1 DEF BasedOn
  <2> QED
    BY <1>1, <1>2, <1>3, <2>1 DEF CanRatchet
<1>9. /\ StateOK(new, fresh + 1)
      /\ new.base = m.base /\ new.sender.key = fresh + 1
      /\ new.pending = None
      /\ EndsWith(m.chain, raw.sender.key, m.ratchet)
      /\ Len(new.recv) \in DOMAIN new.recv
      /\ LET rc == new.recv[Len(new.recv)]
         IN  rc.key = m.ratchet /\ rc.chain = m.chain /\ KeysAfter(NewChain, m.counter, rc.keys)
      /\ \A a \in DOMAIN new.recv : a # Len(new.recv) =>
            \E k \in DOMAIN raw.recv : new.recv[a] = raw.recv[k]
  BY <1>1, <1>3, <1>4, <1>5, <1>8, NewStateRead
<1> DEFINE f == Len(new.recv)
<1>10. UsedNow(d, -1, m, new.recv[f], new)
  <2>1. /\ new.recv[f].key = m.ratchet /\ new.recv[f].chain = m.chain
        /\ KeysAfter(NewChain, m.counter, new.recv[f].keys)
    BY Zenon, <1>9
  <2>2. new.sender.key > fresh
    BY <1>1, <1>9
  <2> QED
    BY Zenon, <1>3, <1>7, <1>9, <2>1, <2>2 DEF UsedNow, UsedNewChain
<1>11. \A a \in DOMAIN new.recv : a = f
  BY <1>3, <1>9
<1>12. new.sender.key > fresh /\ new.sender.key # None /\ f \in DOMAIN new.recv
  BY <1>1, <1>9 DEF None
<1> HIDE DEF f
<1>13. MadeFrom(d, -1, {m}, new, fresh + 1)
  BY Zenon, <1>9, <1>10, <1>11, <1>12 DEF MadeFrom
<1> QED
  BY Zenon, <1>7, <1>9, <1>12, <1>13 DEF ReadNow

(* A message that is read was not used before.                             *)
LEMMA ReadIsUnused ==
    ASSUME SessionInv, NEW d \in Devices, NEW i, NEW m \in net, m.to = d, NEW rc, NEW st,
           UsedNow(d, i, m, rc, st), m.pre \notin kept
    PROVE  ~Used(m)
<1> SUFFICES ASSUME Used(m) PROVE FALSE
  OBVIOUS
<1>1. UsedIsGone /\ UsedPreKeyGone
  BY DEF SessionInv
<1>2. PICK ch \in Chain : KeysWere(d, i, m, rc, st, ch)
  BY KeysNow
<1>3. ~Gone(ch, m.counter)
  BY Zenon, <1>2 DEF KeysWere, KeysAfter
<1>4. CASE /\ Source(d, i)
           /\ \E r \in DOMAIN Held(d, i).recv :
                 Held(d, i).recv[r] = [key |-> m.ratchet, chain |-> m.chain, keys |-> ch]
  <2>1. PICK r \in DOMAIN Held(d, i).recv :
           Held(d, i).recv[r] = [key |-> m.ratchet, chain |-> m.chain, keys |-> ch]
    BY <1>4
  <2>2. /\ Held(d, i).recv[r].key = m.ratchet /\ Held(d, i).recv[r].chain = m.chain
        /\ Held(d, i).recv[r].keys = ch
    BY <2>1
  <2> QED
    BY Zenon, <1>1, <1>3, <1>4, <2>1, <2>2 DEF UsedIsGone, Source
<1>5. CASE Source(d, i) /\ EndsWith(m.chain, Held(d, i).sender.key, m.ratchet)
  <2>1. Held(d, i).sender.key \in 0 .. fresh
    BY <1>5, SourceOK
  <2> QED
    BY Zenon, <1>1, <1>5, <2>1 DEF UsedIsGone, Source
<1>6. CASE Unbuilt(d, m)
  BY <1>1, <1>6 DEF Unbuilt, UsedPreKeyGone
<1> QED
  BY Zenon, <1>2, <1>4, <1>5, <1>6 DEF KeysWere, UsedNewChain

(* session_record_has_session_state looks at all slots.                    *)
LEMMA HasState ==
    ASSUME NEW rec \in Record, NEW base
    PROVE  HasSessionState(rec, base) <=> \E k \in Slots(rec) : At(rec, k).base = base
<1>1. Len(rec.prev) \in Nat /\ DOMAIN rec.prev = 1 .. Len(rec.prev)
  BY SlotTyped
<1>2. HasSessionState(rec, base) => \E k \in Slots(rec) : At(rec, k).base = base
  <2>1. rec.cur.base = base => 0 \in Slots(rec) /\ At(rec, 0).base = base
    BY <1>1 DEF Slots, At, After, SlotsAfter, NewCur
  <2>2. \A k \in DOMAIN rec.prev : k \in Slots(rec) /\ At(rec, k) = rec.prev[k]
    BY <1>1 DEF Slots, At, After, SlotsAfter, NewCur
  <2> QED
    BY <2>1, <2>2 DEF HasSessionState
<1>3. ASSUME NEW k \in Slots(rec), At(rec, k).base = base PROVE HasSessionState(rec, base)
  <2>1. CASE k = 0
    BY <1>3, <2>1 DEF At, HasSessionState, After, NewCur
  <2>2. CASE k # 0
    <3>1. k \in DOMAIN rec.prev /\ At(rec, k) = rec.prev[k]
      BY <1>1, <2>2 DEF Slots, At, After, SlotsAfter, NewCur
    <3> QED
      BY <1>3, <3>1 DEF HasSessionState
  <2> QED
    BY <2>1, <2>2
<1> QED
  BY <1>2, <1>3

(* Whatever way a message is read, one slot reads it.                      *)
LEMMA TakenRead ==
    ASSUME SessionInv, NEW d \in Devices, NEW m \in net, m.to = d, NEW E,
           Taken(dev[d], m, fresh + 1, E)
    PROVE  \E i : ReadBy(d, i, m, E)
<1> DEFINE D == dev[d]
<1>1. TypeOK /\ D \in Device /\ D.session \in Record
  BY DEF SessionInv, TypeOK, Device
<1>2. Taken(D, m, fresh + 1, E)
  OBVIOUS
<1>3. E \in Device /\ E.identity = D.identity /\ E.signed = D.signed
  BY <1>2 DEF Taken
<1>4. \A k \in SlotsOf(d) : At(D.session, k) = Held(d, k)
  BY DEF Held, After
<1>5. ASSUME NEW i, MadeFrom(d, i, {m}, E.session.cur, fresh + 1)
      PROVE  m.pre \notin kept => ~Used(m)
  BY Zenon, <1>5, ReadIsUnused DEF MadeFrom
<1>6. CASE ByHeld(D, m, fresh + 1, E)
  <2>1. PICK i \in SlotsOf(d) :
           ReadFrom(Held(d, i), m, fresh + 1, E.session.cur) /\ Derived(D.session, E.session, i)
    BY Zenon, <1>4, <1>6 DEF ByHeld, SlotsOf, SlotsAfter
  <2>2. /\ Source(d, i) /\ Held(d, i).base = m.base
        /\ E.session.cur.sender.key # None /\ MadeFrom(d, i, {m}, E.session.cur, fresh + 1)
        /\ E.session.cur.base = m.base /\ E.session.cur.pending = None
    <3>1. Source(d, i) /\ Held(d, i).base = m.base /\ ReadNow(d, i, m, E.session.cur)
      BY <2>1, HeldRead
    <3> QED
      BY Zenon, <3>1 DEF ReadNow
  <2>3. E.oneTime = D.oneTime
    BY <1>6 DEF ByHeld
  <2>4. m.pre \notin kept => ~Used(m)
    BY Zenon, <1>5, <2>2
  <2>5. ReadBy(d, i, m, E)
    BY Zenon, <1>3, <2>1, <2>2, <2>3, <2>4 DEF ReadBy
  <2> QED
    BY <2>5
<1>7. CASE ByBuilt(D, m, fresh + 1, E)
  <2>1. PICK one \in (D.oneTime \cap {m.pre}) \cup {None}, raw \in State :
           Bare(raw, D, m, one) /\ ReadFrom(raw, m, fresh + 1, E.session.cur)
    BY <1>7 DEF ByBuilt
  <2>2. /\ m.pre # None /\ \A k \in SlotsOf(d) : Held(d, k).base # m.base
        /\ E.oneTime = D.oneTime \ {m.pre} /\ Derived(D.session, E.session, -1)
    BY <1>1, <1>4, <1>7, HasState DEF ByBuilt, SlotsOf, SlotsAfter
  <2>3. /\ Unbuilt(d, m)
        /\ E.session.cur.sender.key # None /\ MadeFrom(d, -1, {m}, E.session.cur, fresh + 1)
        /\ E.session.cur.base = m.base /\ E.session.cur.pending = None
    <3>1. Unbuilt(d, m) /\ ReadNow(d, -1, m, E.session.cur)
      BY <2>1, <2>2, BuiltRead
    <3> QED
      BY Zenon, <3>1 DEF ReadNow
  <2>4. m.pre \notin kept => ~Used(m)
    BY Zenon, <1>5, <2>3
  <2>5. ReadBy(d, -1, m, E)
    BY Zenon, <1>3, <2>2, <2>3, <2>4 DEF ReadBy
  <2> QED
    BY <2>5
<1>8. CASE ByCrossed(D, m, fresh + 1)
  <2>1. PICK i \in SlotsOf(d), new \in State : ReadFrom(Held(d, i), m, fresh + 1, new)
    BY <1>4, <1>8 DEF ByCrossed, SlotsOf, SlotsAfter
  <2>2. Held(d, i).base = m.base
    BY <2>1, HeldRead
  <2>3. HasSessionState(D.session, m.base)
    BY Zenon, <1>1, <1>4, <2>1, <2>2, HasState DEF SlotsOf, SlotsAfter
  <2> QED
    BY <1>8, <2>3 DEF ByCrossed
<1> QED
  BY Zenon, <1>2, <1>6, <1>7, <1>8 DEF Taken

----------------------------------------------------------------------------
(* The steps                                                               *)

(* What a step that sends nothing has to show of itself.                   *)
QuietStep(d, i, M) ==
    /\ Step(d, i, M) /\ net' = net
    /\ \A e \in Devices : \/ dev'[e].signed = dev[e].signed
                          \/ NewCur(d).sender.key = None /\ dev'[e].signed > fresh
    /\ \A e \in Devices : dev'[e].oneTime \subseteq dev[e].oneTime \cup {fresh + 1}
    /\ \A m \in M : m.pre # None => m.pre \notin dev'[d].oneTime \/ m.pre \in kept'
    /\ NewCur(d).sender.key # None =>
          \/ /\ Source(d, i) /\ NewCur(d).base = Held(d, i).base
             /\ NewCur(d).pending \in {None, Held(d, i).pending}
          \/ NewCur(d).base > fresh
          \/ NewCur(d).pending = None
               /\ \E m \in M : NewCur(d).base = m.base /\ m.pre # None

(* A step that sends nothing makes no new pair of base key and one-time    *)
(* key, except where a bundle is processed.                                *)
LEMMA QuietOffers ==
    ASSUME SessionInv, NEW d \in Devices, NEW i, NEW M, QuietStep(d, i, M)
    PROVE  OffersOK'
<1> DEFINE cur == NewCur(d)
<1>1. Step(d, i, M) /\ net' = net /\ TypeOK /\ Peer(d) \in Devices
  BY DEF QuietStep, SessionInv, Peer, Devices
<1>2. ASSUME NEW e \in Devices, NEW o \in OffersTo(e)'
      PROVE  \/ o \in OffersTo(e)
             \/ e = Peer(d) /\ cur.base > fresh /\ o[1] = cur.base /\ o[2] = cur.pending
  <2>1. Peer(e) \in Devices /\ (Peer(e) = d => e = Peer(d))
    BY DEF Peer, Devices
  <2>2. \/ \E m \in net' : m.to = e /\ m.pre # None /\ o = <<m.base, m.pre>>
        \/ \E j \in SlotsAfter(Peer(e)) :
              /\ After(Peer(e), j).sender.key # None
              /\ After(Peer(e), j).pending # None
              /\ o = <<After(Peer(e), j).base, After(Peer(e), j).pending>>
    BY Zenon, <1>2 DEF OffersTo, SlotsOf, Held, Live, After, SlotsAfter
  <2>3. ASSUME NEW m \in net', m.to = e, m.pre # None, o = <<m.base, m.pre>>
        PROVE  o \in OffersTo(e)
    BY Zenon, <1>1, <2>3, Offered
  <2>4. ASSUME NEW k \in SlotsOf(Peer(e)), Live(Peer(e), k), Held(Peer(e), k).pending # None,
               o = <<Held(Peer(e), k).base, Held(Peer(e), k).pending>>
        PROVE  o \in OffersTo(e)
    BY <2>4, Offered
  <2>5. ASSUME NEW j \in SlotsAfter(Peer(e)),
               After(Peer(e), j).sender.key # None,
               After(Peer(e), j).pending # None,
               o = <<After(Peer(e), j).base, After(Peer(e), j).pending>>
        PROVE  \/ o \in OffersTo(e)
               \/ e = Peer(d) /\ cur.base > fresh /\ o[1] = cur.base /\ o[2] = cur.pending
    <3>1. CASE ~(Peer(e) = d /\ j = 0)
      <4>1. PICK k \in SlotsOf(Peer(e)) : After(Peer(e), j) = Held(Peer(e), k)
        BY <1>1, <2>1, <2>5, <3>1, Carried
      <4> QED
        BY Zenon, <2>4, <2>5, <4>1 DEF Live
    <3>2. CASE Peer(e) = d /\ j = 0
      <4>1. /\ After(Peer(e), j) = cur /\ cur.sender.key # None /\ cur.pending # None
            /\ o = <<cur.base, cur.pending>>
        BY Zenon, <2>5, <3>2 DEF At, After, NewCur
      <4>2. \/ /\ Source(d, i) /\ cur.base = Held(d, i).base
               /\ cur.pending = Held(d, i).pending
            \/ cur.base > fresh
        BY Zenon, <4>1 DEF QuietStep
      <4> QED
        BY Zenon, <2>1, <2>4, <3>2, <4>1, <4>2 DEF Source
    <3> QED
      BY <3>1, <3>2
  <2> QED
    BY Zenon, <2>2, <2>3, <2>5
<1>3. cur.sender.key # None =>
        \/ Source(d, i) /\ cur.base = Held(d, i).base
        \/ cur.base > fresh
        \/ \E m \in M : /\ cur.base = m.base /\ m.pre # None
                        /\ m.pre \notin dev'[d].oneTime \/ m.pre \in kept'
  BY Zenon DEF QuietStep
<1>4. \A e \in Devices : dev'[e].oneTime \subseteq dev[e].oneTime \cup {fresh + 1}
  BY Zenon DEF QuietStep
<1>5. \A e \in Devices : \A o \in OffersTo(e)' :
        \/ o \in OffersTo(e)
        \/ e = Peer(d) /\ cur.base > fresh /\ o[1] = cur.base /\ o[2] = cur.pending
  BY <1>2
<1> QED
  BY Zenon, <1>1, <1>3, <1>4, <1>5, OffersOKStep

(* A step that sends nothing keeps the invariant.                          *)
LEMMA QuietPreserves ==
    ASSUME SessionInv, NEW d \in Devices, NEW i, NEW M, QuietStep(d, i, M),
           TypeOK', Drawn', Numbered', AtMostOnce'
    PROVE  SessionInv'
<1>1. /\ Step(d, i, M) /\ net' = net /\ TypeOK /\ fresh \in Nat /\ fresh' \in Nat
      /\ fresh <= fresh' /\ MessagesOK /\ MessagesApart /\ M \subseteq {m \in net : m.to = d}
  BY Zenon DEF QuietStep, SessionInv, TypeOK, Step, NewCur
<1>2. StatesOK' /\ SendersApart' /\ ReceiverBehind' /\ OwnKeysRetired' /\ ReceiversApart' /\ UsedIsGone'
  BY Zenon, <1>1, StatesOKStep, SendersApartStep, ReceiverBehindStep, OwnKeysRetiredStep,
     ReceiversApartStep, UsedIsGoneStep
<1>3. SignedApart'
  <2>1. \A e \in Devices : \/ dev'[e].signed = dev[e].signed
                           \/ NewCur(d).sender.key = None /\ dev'[e].signed > fresh
    BY Zenon DEF QuietStep
  <2> QED
    BY Zenon, <1>1, <2>1, SignedApartStep
<1>4. MessagesApart'
  BY <1>1 DEF MessagesApart
<1>5. MessagesOK'
  <2>1. \A m \in net : MessageOK(m, fresh') 
    <3> SUFFICES ASSUME NEW m \in net PROVE MessageOK(m, fresh')
      OBVIOUS
    <3>1. MessageOK(m, fresh) /\ m.ratchet \in 0 .. fresh /\ m.base \in 1 .. fresh
      BY MessageTyped
    <3>2. m.ratchet <= fresh' /\ m.base <= fresh'
      BY <1>1, <3>1
    <3> QED
      BY <3>1, <3>2 DEF MessageOK
  <2> QED
    BY <1>1, <2>1 DEF MessagesOK
<1>6. SenderAhead'
  <2>1. \A e \in Devices : \A j \in SlotsAfter(e) : \A m \in net :
          (After(e, j).sender.key # None /\ m.ratchet = After(e, j).sender.key)
              => /\ m.counter < After(e, j).sender.index
                 /\ m.pre = After(e, j).pending
    BY Zenon, <1>1, SenderAheadStep
  <2> QED
    BY Zenon, <1>1, <2>1 DEF SenderAhead, SlotsOf, Held, Live, After, SlotsAfter
<1>7. GoneIsUsed'
  <2>1. \A e \in Devices : \A j \in SlotsAfter(e) :
          \A r \in DOMAIN After(e, j).recv : \A m \in net :
            (/\ After(e, j).sender.key # None /\ m.to = e
             /\ m.ratchet = After(e, j).recv[r].key
             /\ Gone(After(e, j).recv[r].keys, m.counter))
                => \/ reads'[m.n] > 0 \/ m.n \in lost'
                   \/ \E later \in net' :
                         later.ratchet = m.ratchet /\ later.counter - m.counter > MaxKeys
    BY <1>1, GoneIsUsedStep
  <2> QED
    BY ZenonT(30), <1>1, <2>1 DEF GoneIsUsed, SlotsOf, Held, Live, Used, Evicted, After, SlotsAfter
<1>8. UsedPreKeyGone'
  <2>1. ASSUME NEW m \in net, m.pre \in dev'[m.to].oneTime PROVE m.pre \in dev[m.to].oneTime
    <3>1. /\ m.to \in Devices /\ m.pre \in Nat /\ m.base \in 1 .. fresh /\ MessageOK(m, fresh)
      BY MessageTyped
    <3>2. m.pre # fresh + 1
      BY <1>1, <3>1 DEF MessageOK, None
    <3> QED
      BY Zenon, <2>1, <3>1, <3>2 DEF QuietStep
  <2>2. \A m \in M : m.pre # None => m.pre \notin dev'[m.to].oneTime \/ m.pre \in kept'
    BY Zenon, <1>1 DEF QuietStep
  <2> QED
    BY Zenon, <1>1, <2>1, <2>2, UsedPreKeyGoneStep
<1>9. OffersOK'
  BY QuietOffers
<1> QED
  BY Zenon, <1>2, <1>3, <1>4, <1>5, <1>6, <1>7, <1>8, <1>9 DEF SessionInv

(* The archived states are the same.                                       *)
LEMMA SamePrev ==
    ASSUME NEW s \in Record, NEW t, t.prev = s.prev
    PROVE  Derived(s, t, 0)
<1> DEFINE p == [j \in 1 .. Len(t.prev) |-> j]
<1>1. Len(s.prev) \in Nat
  BY SlotTyped
<1>2. p \in [1 .. Len(t.prev) -> Slots(s)]
  BY <1>1 DEF Slots, SlotsAfter
<1>3. \A j \in 1 .. Len(t.prev) : p[j] # 0 /\ t.prev[j] = At(s, p[j])
  BY <1>1 DEF At, After, NewCur
<1>4. \A j, k \in 1 .. Len(t.prev) : p[j] = p[k] => j = k
  OBVIOUS
<1> HIDE DEF p
<1> QED
  BY Zenon, <1>2, <1>3, <1>4 DEF Derived

(* There are no archived states.                                           *)
LEMMA NoPrev ==
    ASSUME NEW s, NEW t, t.prev = <<>>, NEW i
    PROVE  Derived(s, t, i)
<1> DEFINE p == [j \in 1 .. Len(t.prev) |-> 0]
<1>1. 1 .. Len(t.prev) = {}
  BY DEF Slots, SlotsAfter
<1>2. p \in [1 .. Len(t.prev) -> Slots(s)]
  BY <1>1
<1> HIDE DEF p
<1> QED
  BY Zenon, <1>1, <1>2 DEF Derived

(* A state that stays as it is.                                            *)
LEMMA SameState ==
    ASSUME SessionInv, NEW d \in Devices, NEW last \in Nat, fresh <= last,
           dev[d].session.cur.sender.key # None
    PROVE  /\ Source(d, 0) /\ Held(d, 0) = dev[d].session.cur
           /\ MadeFrom(d, 0, {}, dev[d].session.cur, last)
<1>1. TypeOK /\ StatesOK /\ fresh \in Nat /\ dev[d].session \in Record
  BY Zenon DEF SessionInv, TypeOK, Device
<1>2. 0 \in SlotsOf(d) /\ Held(d, 0) = dev[d].session.cur
  BY Zenon, <1>1, SlotTyped DEF SlotsOf, Held, Slots, At, After, SlotsAfter, NewCur
<1>3. Source(d, 0) /\ StateTypes(Held(d, 0)) /\ StateOK(Held(d, 0), fresh)
  BY Zenon, <1>1, <1>2, HeldTyped DEF Source, Live, StatesOK
<1>4. StateOK(Held(d, 0), last)
  BY Zenon, <1>1, <1>3, DrawnMore
<1>5. SameSender(d, 0, Held(d, 0))
  BY <1>3 DEF SameSender, StateTypes
<1>6. \A r \in DOMAIN Held(d, 0).recv : KeptChain(d, 0, Held(d, 0).recv[r])
  BY Zenon, <1>3 DEF KeptChain
<1> QED
  BY Zenon, <1>2, <1>3, <1>4, <1>5, <1>6 DEF MadeFrom

(* A step that leaves all sessions and messages as they are.               *)
LEMMA SameRecords ==
    ASSUME SessionInv, NEW d \in Devices, dev' \in [Devices -> Device],
           fresh' \in Nat, fresh <= fresh',
           \A e \in Devices : /\ dev'[e].session = dev[e].session /\ dev'[e].signed = dev[e].signed
                              /\ dev'[e].oneTime \subseteq dev[e].oneTime \cup {fresh + 1},
           net' = net, reads' = reads, lost' = lost, kept' = kept
    PROVE  QuietStep(d, 0, {})
<1>1. dev[d].session \in Record
  BY DEF SessionInv, TypeOK, Device
<1>2. Derived(dev[d].session, dev'[d].session, 0)
  BY <1>1, SamePrev
<1>3. NewCur(d).sender.key # None =>
        /\ MadeFrom(d, 0, {}, NewCur(d), fresh')
        /\ Source(d, 0) /\ NewCur(d) = Held(d, 0)
  BY SameState DEF NewCur
<1>4. Step(d, 0, {})
  BY Zenon, <1>2, <1>3 DEF Step, Used, NewCur
<1> QED
  BY Zenon, <1>3, <1>4 DEF QuietStep

(* addContact                                                              *)
LEMMA AddContactPreserves ==
    ASSUME SessionInv, NEW d \in Devices, AddContact(d)
    PROVE  SessionInv'
<1> DEFINE e == Peer(d)
           b == [identity |-> dev[e].identity, signed |-> dev[e].signed, oneTime |-> fresh + 1]
<1>1. /\ e \in Devices /\ TypeOK /\ Drawn /\ Numbered /\ AtMostOnce /\ fresh \in Nat
      /\ dev[e] \in Device /\ dev[e].signed <= fresh
      /\ dev[e].identity \in Nat /\ dev[e].signed \in Nat /\ dev[e].oneTime \in SUBSET Nat
  BY DEF SessionInv, TypeOK, Peer, Devices, Device, Drawn
<1>2. /\ fresh' = fresh + 1 /\ asked' = [asked EXCEPT ![d] = b]
      /\ dev' = [dev EXCEPT ![e].oneTime = @ \cup {fresh + 1}]
      /\ net' = net /\ reads' = reads /\ lost' = lost /\ kept' = kept
  BY DEF AddContact
<1>3. b \in Bundle /\ b.signed \in Nat /\ b.signed <= fresh /\ b.oneTime = fresh + 1
  BY <1>1 DEF Bundle
<1> HIDE DEF e, b
<1> DEFINE D == [dev[e] EXCEPT !.oneTime = @ \cup {fresh + 1}]
<1>4. dev' = [dev EXCEPT ![e] = D]
  BY <1>1, <1>2 DEF TypeOK
<1>5. D \in Device
  <2>1. dev[e].oneTime \cup {fresh + 1} \in SUBSET Nat
    BY <1>1
  <2> QED
    BY Zenon, <1>1, <2>1 DEF Device
<1>6. /\ D.session = dev[e].session /\ D.signed = dev[e].signed
      /\ D.oneTime = dev[e].oneTime \cup {fresh + 1}
  BY <1>1 DEF Device
<1> HIDE DEF D
<1>7. dev' \in [Devices -> Device] /\ dev'[e] = D /\ \A f \in Devices : f # e => dev'[f] = dev[f]
  BY Zenon, <1>1, <1>4, <1>5 DEF TypeOK
<1>8. TypeOK'
  BY <1>1, <1>2, <1>3, <1>7 DEF TypeOK
<1>9. Drawn'
  <2>1. \A f \in Devices : /\ asked[f].signed <= fresh /\ asked[f].oneTime <= fresh
                           /\ asked[f].signed \in Nat /\ asked[f].oneTime \in Nat
                           /\ dev[f].signed \in Nat /\ dev[f].signed <= fresh
                           /\ dev[f].oneTime \subseteq 0 .. fresh
    BY Zenon, <1>1 DEF Drawn, TypeOK, Bundle, Device
  <2>2. \A f \in Devices : asked'[f] = IF f = d THEN b ELSE asked[f]
    BY <1>1, <1>2 DEF TypeOK
  <2>3. \A f \in Devices : asked'[f].signed <= fresh' /\ asked'[f].oneTime <= fresh'
    BY <1>1, <1>2, <1>3, <2>1, <2>2
  <2>4. \A f \in Devices : dev'[f].signed <= fresh' /\ dev'[f].oneTime \subseteq 0 .. fresh'
    BY <1>1, <1>2, <1>6, <1>7, <2>1
  <2> QED
    BY Zenon, <1>1, <1>2, <2>3, <2>4 DEF Drawn
<1>10. Numbered' /\ AtMostOnce'
  BY Zenon, <1>1, <1>2 DEF Numbered, AtMostOnce
<1>11. \A f \in Devices : /\ dev'[f].session = dev[f].session /\ dev'[f].signed = dev[f].signed
                          /\ dev'[f].oneTime \subseteq dev[f].oneTime \cup {fresh + 1}
  BY <1>6, <1>7
<1>12. QuietStep(d, 0, {})
  <2>1. fresh' \in Nat /\ fresh <= fresh'
    BY <1>1, <1>2
  <2> QED
    BY Zenon, <1>2, <1>7, <1>11, <2>1, SameRecords
<1> QED
  BY Zenon, <1>8, <1>9, <1>10, <1>12, QuietPreserves

(* A device D with another identity and session of the peer in store.      *)
StoredAs(E, D, t, s) ==
    /\ E \in Device /\ E.trusted = t /\ E.session = s
    /\ E.identity = D.identity /\ E.signed = D.signed /\ E.oneTime = D.oneTime

(* The device with another trusted identity and another record.            *)
LEMMA StoredDevice ==
    ASSUME NEW D \in Device, NEW t \in Nat, NEW s \in Record
    PROVE  StoredAs([D EXCEPT !.trusted = t, !.session = s], D, t, s)
<1>1. [D EXCEPT !.trusted = t, !.session = s] \in Device
  BY Zenon DEF Device
<1> QED
  BY <1>1 DEF Device, StoredAs

(* The record of a contact without a session.                              *)
LEMMA NoSessionTyped ==
    NoSession \in Record /\ NoSession.cur = NewState /\ NoSession.prev = <<>>
<1>1. NewState \in State /\ <<>> \in Seq(State)
  BY NewStateTyped
<1> QED
  BY <1>1 DEF NoSession, Record

(* The session of d is dropped: what is left of the step.                  *)
LEMMA Dropped ==
    ASSUME SessionInv, NEW d \in Devices, dev' \in [Devices -> Device],
           fresh' \in Nat, fresh <= fresh', dev'[d].session = NoSession,
           dev'[d].oneTime \subseteq dev[d].oneTime,
           dev'[d].signed = dev[d].signed \/ dev'[d].signed > fresh,
           \A e \in Devices : e # d => dev'[e] = dev[e],
           net' = net, reads' = reads, lost' = lost, kept' = kept
    PROVE  QuietStep(d, 0, {})
<1>1. NewCur(d).sender.key = None
  BY Zenon, NoSessionTyped, NewStateTyped DEF NewCur
<1>2. Derived(dev[d].session, dev'[d].session, 0)
  BY NoSessionTyped, NoPrev
<1>3. Step(d, 0, {})
  BY Zenon, <1>1, <1>2 DEF Step, Used, NewCur
<1> QED
  BY Zenon, <1>1, <1>3 DEF QuietStep

(* deleteContact                                                           *)
LEMMA DeleteContactPreserves ==
    ASSUME SessionInv, NEW d \in Devices, DeleteContact(d)
    PROVE  SessionInv'
<1> DEFINE D == [dev[d] EXCEPT !.trusted = None, !.session = NoSession]
<1>1. /\ TypeOK /\ Drawn /\ Numbered /\ AtMostOnce /\ fresh \in Nat /\ dev[d] \in Device
      /\ None \in Nat
  BY DEF SessionInv, TypeOK, None
<1>2. /\ fresh' = fresh /\ asked' = asked /\ net' = net /\ reads' = reads /\ lost' = lost
      /\ kept' = kept
  BY DEF DeleteContact
<1>3. dev' = [dev EXCEPT ![d] = D]
  BY Zenon, <1>1 DEF DeleteContact, TypeOK
<1>4. /\ D \in Device /\ D.session = NoSession /\ D.signed = dev[d].signed
      /\ D.oneTime = dev[d].oneTime
  <2>1. StoredAs(D, dev[d], None, NoSession)
    BY Zenon, <1>1, NoSessionTyped, StoredDevice
  <2> QED
    BY <2>1 DEF StoredAs
<1> HIDE DEF D
<1>5. dev' \in [Devices -> Device] /\ dev'[d] = D /\ \A f \in Devices : f # d => dev'[f] = dev[f]
  BY Zenon, <1>1, <1>3, <1>4 DEF TypeOK
<1>6. TypeOK'
  BY Zenon, <1>1, <1>2, <1>5 DEF TypeOK
<1>7. Drawn'
  <2>1. \A f \in Devices : dev'[f].signed = dev[f].signed /\ dev'[f].oneTime = dev[f].oneTime
    BY <1>4, <1>5
  <2> QED
    BY Zenon, <1>1, <1>2, <2>1 DEF Drawn
<1>8. Numbered' /\ AtMostOnce'
  BY Zenon, <1>1, <1>2 DEF Numbered, AtMostOnce
<1>9. QuietStep(d, 0, {})
  <2>1. fresh' \in Nat /\ fresh <= fresh'
    BY <1>1, <1>2
  <2> QED
    BY Zenon, <1>2, <1>4, <1>5, <2>1, Dropped
<1> QED
  BY Zenon, <1>6, <1>7, <1>8, <1>9, QuietPreserves

(* The device starts over with new keys.                                   *)
LEMMA ResetPreserves ==
    ASSUME SessionInv, NEW d \in Devices, Reset(d)
    PROVE  SessionInv'
<1> DEFINE D == NewDevice(fresh + 1)
<1>1. /\ TypeOK /\ Drawn /\ Numbered /\ AtMostOnce /\ fresh \in Nat /\ None \in Nat
  BY DEF SessionInv, TypeOK, None
<1>2. /\ fresh' = fresh + 2 /\ asked' = asked /\ net' = net /\ reads' = reads /\ lost' = lost
      /\ kept' = kept /\ dev' = [dev EXCEPT ![d] = D]
  BY DEF Reset
<1>4. /\ D \in Device /\ D.session = NoSession /\ D.signed = fresh + 2 /\ D.oneTime = {}
  BY <1>1, NoSessionTyped DEF NewDevice, Device
<1> HIDE DEF D
<1>5. dev' \in [Devices -> Device] /\ dev'[d] = D /\ \A f \in Devices : f # d => dev'[f] = dev[f]
  BY Zenon, <1>1, <1>2, <1>4 DEF TypeOK
<1>6. TypeOK'
  BY <1>1, <1>2, <1>5 DEF TypeOK
<1>7. Drawn'
  <2>1. \A f \in Devices : /\ asked[f].signed <= fresh /\ asked[f].oneTime <= fresh
                           /\ asked[f].signed \in Nat /\ asked[f].oneTime \in Nat
                           /\ dev[f].signed \in Nat /\ dev[f].signed <= fresh
                           /\ dev[f].oneTime \subseteq 0 .. fresh
    BY Zenon, <1>1 DEF Drawn, TypeOK, Bundle, Device
  <2>2. \A f \in Devices : asked'[f].signed <= fresh' /\ asked'[f].oneTime <= fresh'
    BY <1>1, <1>2, <2>1
  <2>3. \A f \in Devices : dev'[f].signed <= fresh' /\ dev'[f].oneTime \subseteq 0 .. fresh'
    BY <1>1, <1>2, <1>4, <1>5, <2>1
  <2> QED
    BY Zenon, <1>1, <1>2, <2>2, <2>3 DEF Drawn
<1>8. Numbered' /\ AtMostOnce'
  BY Zenon, <1>1, <1>2 DEF Numbered, AtMostOnce
<1>9. QuietStep(d, 0, {})
  <2>1. fresh' \in Nat /\ fresh <= fresh' /\ dev'[d].signed > fresh
          /\ dev'[d].oneTime \subseteq dev[d].oneTime
    BY <1>1, <1>2, <1>4, <1>5
  <2> QED
    BY Zenon, <1>2, <1>4, <1>5, <2>1, Dropped
<1> QED
  BY Zenon, <1>6, <1>7, <1>8, <1>9, QuietPreserves

(* session_builder_process_pre_key_bundle: the state with which the        *)
(* initiator starts.                                                       *)
Started(rec, base, bundle) ==
    /\ rec \in Record /\ rec.prev = <<>>
    /\ rec.cur.sender.key = base + 1 /\ rec.cur.base = base /\ rec.cur.pending = bundle.oneTime
    /\ StateOK(rec.cur, base + 1)
    /\ \A r \in DOMAIN rec.cur.recv : FirstChain(rec.cur.recv[r])

(* The state that session_builder_process_pre_key_bundle makes.            *)
LEMMA BundleStarts ==
    ASSUME NEW id \in Nat, NEW base \in Nat \ {0}, NEW b \in Bundle,
           b.signed < base, b.oneTime < base
    PROVE  Started(ProcessBundle(id, base, base + 1, b), base, b)
<1> DEFINE secret == SharedSecret(id, base, b.identity, b.signed, b.oneTime)
           last   == {b.signed, base + 1}
           root   == Append(secret, last)
           rc     == [key |-> b.signed, chain |-> secret, keys |-> NewChain]
           snd    == [key |-> base + 1, chain |-> root, index |-> 0]
           alice  == AliceInitialize(id, base, base + 1, b)
           st     == [alice EXCEPT !.pending = b.oneTime, !.base = base]
<1>1. b.identity \in Nat /\ b.signed \in Nat /\ b.oneTime \in Nat
  BY DEF Bundle
<1>2. secret \in KeySeq /\ Len(secret) = 4 /\ secret[4] = {base, b.oneTime}
  BY <1>1 DEF SharedSecret, DH, KeySeq
<1>3. AddReceiverChain(<<>>, b.signed, secret) = <<rc>>
  <2>1. Append(<<>>, rc) = <<rc>> /\ Len(<<rc>>) = 1
    OBVIOUS
  <2> QED
    BY <2>1, StatesAssumption DEF AddReceiverChain
<1> HIDE DEF secret
<1>4. last \in SUBSET Nat
  BY <1>1
<1> HIDE DEF last
<1>5. root \in KeySeq /\ Len(root) = 5 /\ root[4] = {base, b.oneTime} /\ root[5] = last
  <2> DEFINE S == SUBSET Nat
  <2>1. secret \in Seq(S) /\ last \in S
    BY <1>2, <1>4 DEF KeySeq
  <2> HIDE DEF S
  <2>2. /\ root \in Seq(S) /\ Len(root) = Len(secret) + 1 /\ root[Len(secret) + 1] = last
        /\ \A i \in 1 .. Len(secret) : root[i] = secret[i]
    BY <2>1
  <2>3. root \in KeySeq
    BY <2>2 DEF KeySeq, S
  <2> HIDE DEF root
  <2> QED
    BY <1>2, <2>2, <2>3
<1>6. rc \in ReceiverChain /\ rc.keys = NewChain /\ rc.chain = secret /\ NewChain \in Chain
        /\ rc.key = b.signed
  BY <1>1, <1>2 DEF ReceiverChain, NewChain, Chain
<1>7. alice = [NewState EXCEPT !.root = root, !.recv = <<rc>>, !.sender = snd,
                               !.local = id, !.remote = b.identity]
  BY Zenon, <1>3 DEF AliceInitialize, secret, CreateChain, DH, last
<1> HIDE DEF rc, root
<1>8. <<rc>> \in Seq(ReceiverChain) /\ DOMAIN <<rc>> = {1} /\ <<rc>>[1] = rc /\ <<rc>> # <<>>
  BY <1>6
<1>9. /\ snd \in [key : Nat, chain : KeySeq, index : Nat]
      /\ snd.key = base + 1 /\ snd.chain = root
  BY <1>5
<1> HIDE DEF snd, alice
<1>10. NewState \in State
  BY NewStateTyped
<1>11. alice \in State
  BY Zenon, <1>1, <1>5, <1>7, <1>8, <1>9, <1>10 DEF State
<1>12. alice.root = root /\ alice.recv = <<rc>> /\ alice.sender = snd
  BY <1>7, <1>10 DEF State
<1>13. st \in State
  BY Zenon, <1>1, <1>11 DEF State
<1>14. /\ st.root = root /\ st.recv = <<rc>> /\ st.sender = snd /\ st.base = base
       /\ st.pending = b.oneTime
  BY <1>11, <1>12 DEF State
<1>15. ProcessBundle(id, base, base + 1, b) = [cur |-> st, prev |-> <<>>]
  BY Zenon DEF ProcessBundle, alice
<1> HIDE DEF st
<1>16. [cur |-> st, prev |-> <<>>] \in Record
  <2>1. <<>> \in Seq(State)
    OBVIOUS
  <2> QED
    BY <1>13, <2>1 DEF Record
<1>17. BasedOn(root, base) /\ BasedOn(secret, base)
  <2>1. b.oneTime \in 0 .. base - 1
    BY <1>1
  <2> QED
    BY <1>2, <1>5, <2>1 DEF BasedOn
<1>18. EndsWith(root, b.signed, base + 1) /\ b.signed \in 0 .. (base + 1) - 1
  BY <1>1, <1>5 DEF EndsWith, last
<1>19. ReceiverOK(rc, base, base + 1) /\ FirstChain(rc) /\ Len(rc.chain) = 4
  BY <1>2, <1>6, <1>17 DEF ReceiverOK, FirstChain, NewChain
<1>20. StateOK(st, base + 1)
  BY <1>1, <1>5, <1>8, <1>9, <1>14, <1>17, <1>18, <1>19 DEF StateOK
<1>21. \A r \in DOMAIN st.recv : FirstChain(st.recv[r])
  BY Zenon, <1>8, <1>14, <1>19
<1> QED
  BY <1>9, <1>14, <1>15, <1>16, <1>20, <1>21 DEF Started

(* The answer with the pre keys                                            *)
LEMMA OnPreKeysPreserves ==
    ASSUME SessionInv, NEW d \in Devices, OnPreKeys(d)
    PROVE  SessionInv'
<1> DEFINE b == asked[d]
           rec == ProcessBundle(dev[d].identity, fresh + 1, fresh + 2, b)
           D == [dev[d] EXCEPT !.trusted = b.identity, !.session = rec]
<1>1. /\ TypeOK /\ Drawn /\ Numbered /\ AtMostOnce /\ fresh \in Nat /\ dev[d] \in Device
      /\ dev[d].identity \in Nat /\ b \in Bundle /\ NoBundle \in Bundle
      /\ b.signed \in Nat /\ b.oneTime \in Nat /\ b.identity \in Nat
      /\ b.signed <= fresh /\ b.oneTime <= fresh
      /\ NoBundle.signed = 0 /\ NoBundle.oneTime = 0
  BY Zenon DEF SessionInv, TypeOK, None, Device, Bundle, NoBundle, Drawn
<1>2. /\ fresh' = fresh + 2 /\ asked' = [asked EXCEPT ![d] = NoBundle]
      /\ net' = net /\ reads' = reads /\ lost' = lost /\ kept' = kept
  BY DEF OnPreKeys
<1>3. dev' = [dev EXCEPT ![d] = D]
  BY Zenon, <1>1 DEF OnPreKeys, TypeOK
<1>4. Started(rec, fresh + 1, b)
  <2> DEFINE k == fresh + 1
  <2>1. k \in Nat \ {0} /\ b.signed < k /\ b.oneTime < k /\ k + 1 = fresh + 2
    BY <1>1
  <2>2. Started(ProcessBundle(dev[d].identity, k, k + 1, b), k, b)
    <3> HIDE DEF k, b
    <3> QED
      BY Zenon, <1>1, <2>1, BundleStarts
  <2> QED
    BY <2>1, <2>2
<1> HIDE DEF rec
<1>5. /\ D \in Device /\ D.session = rec /\ D.signed = dev[d].signed
      /\ D.oneTime = dev[d].oneTime
  <2>1. rec \in Record
    BY <1>4 DEF Started
  <2>2. StoredAs(D, dev[d], b.identity, rec)
    BY Zenon, <1>1, <2>1, StoredDevice
  <2> QED
    BY <2>2 DEF StoredAs
<1> HIDE DEF D, b
<1>6. dev' \in [Devices -> Device] /\ dev'[d] = D /\ \A f \in Devices : f # d => dev'[f] = dev[f]
  BY Zenon, <1>1, <1>3, <1>5 DEF TypeOK
<1>7. TypeOK'
  <2>1. asked' \in [Devices -> Bundle] /\ fresh' \in Nat
    BY <1>1, <1>2 DEF TypeOK
  <2> QED
    BY Zenon, <1>1, <1>2, <1>6, <2>1 DEF TypeOK
<1>8. \A f \in Devices : dev'[f].signed = dev[f].signed /\ dev'[f].oneTime = dev[f].oneTime
  BY <1>5, <1>6
<1>9. Drawn'
  <2>1. \A f \in Devices : /\ asked[f].signed <= fresh /\ asked[f].oneTime <= fresh
                           /\ asked[f].signed \in Nat /\ asked[f].oneTime \in Nat
                           /\ dev[f].signed \in Nat /\ dev[f].signed <= fresh
                           /\ dev[f].oneTime \subseteq 0 .. fresh
    BY Zenon, <1>1 DEF Drawn, TypeOK, Bundle, Device
  <2>2. \A f \in Devices : asked'[f] = IF f = d THEN NoBundle ELSE asked[f]
    BY Zenon, <1>1, <1>2 DEF TypeOK
  <2>3. \A f \in Devices : asked'[f].signed <= fresh' /\ asked'[f].oneTime <= fresh'
    BY <1>1, <1>2, <2>1, <2>2
  <2>4. \A f \in Devices : dev'[f].signed <= fresh' /\ dev'[f].oneTime \subseteq 0 .. fresh'
    BY <1>1, <1>2, <1>8, <2>1
  <2> QED
    BY Zenon, <1>1, <1>2, <2>3, <2>4 DEF Drawn
<1>10. Numbered' /\ AtMostOnce'
  BY Zenon, <1>1, <1>2 DEF Numbered, AtMostOnce
<1>11. dev'[d].session = rec
  BY <1>5, <1>6
<1>12. /\ rec.prev = <<>> /\ rec.cur.sender.key > fresh /\ rec.cur.base > fresh
       /\ StateOK(rec.cur, fresh') /\ \A r \in DOMAIN rec.cur.recv : FirstChain(rec.cur.recv[r])
  <2>1. (fresh + 1) + 1 = fresh'
    BY <1>1, <1>2
  <2>2. StateOK(rec.cur, fresh')
    BY <1>4, <2>1 DEF Started
  <2> QED
    BY <1>1, <1>4, <2>2 DEF Started
<1>13. Step(d, 0, {})
  <2>1. Derived(dev[d].session, dev'[d].session, 0)
    BY Zenon, <1>11, <1>12, NoPrev
  <2>2. MadeFrom(d, 0, {}, rec.cur, fresh')
    BY Zenon, <1>12 DEF MadeFrom
  <2>3. fresh' \in Nat /\ fresh <= fresh'
    BY <1>1, <1>2
  <2> QED
    BY Zenon, <1>2, <1>6, <1>11, <2>1, <2>2, <2>3 DEF Step, Used, NewCur
<1>14. QuietStep(d, 0, {})
  BY Zenon, <1>2, <1>8, <1>11, <1>12, <1>13 DEF QuietStep, NewCur
<1> QED
  BY Zenon, <1>7, <1>9, <1>10, <1>14, QuietPreserves

----------------------------------------------------------------------------
(* Receiving                                                               *)

(* A message that is read is counted, or lost, and no other one is.        *)
LEMMA NumbersApart ==
    ASSUME SessionInv, NEW m \in net
    PROVE  /\ m.n \in 1 .. MaxMessages /\ m.n \in 1 .. Cardinality(net)
           /\ \A k \in net : k.n = m.n => k = m
           /\ \A k \in net : reads[k.n] \in Nat /\ k.n \in 1 .. MaxMessages
<1>1. Numbered /\ TypeOK
  BY DEF SessionInv
<1>2. \A k \in net : k.n \in 1 .. MaxMessages
  BY MessageTyped
<1> QED
  BY <1>1, <1>2 DEF Numbered, TypeOK

(* The device has read m, and stores what is left.                         *)
LEMMA ReadStep ==
    ASSUME SessionInv, NEW d \in Devices, NEW m \in net, m.to = d, NEW i, NEW E, ReadBy(d, i, m, E),
           dev' \in [Devices -> Device], fresh' = fresh + 1, net' = net,
           dev'[d].session = E.session, dev'[d].signed = dev[d].signed,
           \/ dev'[d].oneTime = E.oneTime /\ kept' = kept
           \/ dev'[d].oneTime = dev[d].oneTime /\ kept' = kept \cup (dev[d].oneTime \ E.oneTime),
           \A e \in Devices : e # d => dev'[e] = dev[e],
           \A k \in net : (reads'[k.n] > 0 \/ k.n \in lost') <=> (Used(k) \/ k = m)
    PROVE  QuietStep(d, i, {m})
<1>1. /\ fresh \in Nat /\ Derived(dev[d].session, E.session, i)
      /\ E.session.cur.sender.key # None /\ MadeFrom(d, i, {m}, E.session.cur, fresh + 1)
      /\ E.session.cur.base = m.base /\ E.session.cur.pending = None
      /\ \/ Source(d, i) /\ Held(d, i).base = m.base /\ E.oneTime = dev[d].oneTime
         \/ Unbuilt(d, m) /\ E.oneTime = dev[d].oneTime \ {m.pre}
  BY Zenon DEF SessionInv, TypeOK, ReadBy
<1>2. Step(d, i, {m})
  <2>1. fresh' \in Nat /\ fresh <= fresh'
    BY Zenon, <1>1, NextNumber
  <2>2. \A k \in net : (reads'[k.n] > 0 \/ k.n \in lost') <=> (Used(k) \/ k \in {m})
    BY Zenon
  <2>3. /\ {m} \subseteq {k \in net : k.to = d} /\ net \subseteq net' /\ kept \subseteq kept'
        /\ \A k \in net' \ net : ~(reads'[k.n] > 0 \/ k.n \in lost')
    BY Zenon
  <2>4. /\ Derived(dev[d].session, dev'[d].session, i)
        /\ MadeFrom(d, i, {m}, NewCur(d), fresh') /\ NewCur(d).sender.key # None
    BY Zenon, <1>1 DEF NewCur
  <2>5. \A e \in Devices : e # d => dev'[e].session = dev[e].session
    BY Zenon
  <2> QED
    BY Zenon, <2>1, <2>2, <2>3, <2>4, <2>5 DEF Step
<1>3. dev'[d].oneTime \subseteq dev[d].oneTime
  BY Zenon, <1>1
<1>4. m.pre # None => m.pre \notin dev'[d].oneTime \/ m.pre \in kept'
  <2> SUFFICES ASSUME m.pre # None PROVE m.pre \notin dev'[d].oneTime \/ m.pre \in kept'
    OBVIOUS
  <2>1. CASE Unbuilt(d, m) /\ E.oneTime = dev[d].oneTime \ {m.pre}
    BY Zenon, <2>1 DEF Unbuilt
  <2>2. CASE Source(d, i) /\ Held(d, i).base = m.base /\ E.oneTime = dev[d].oneTime
    <3>1. <<m.base, m.pre>> \in OffersTo(d)
      BY Zenon, Offered
    <3>2. m.pre \notin dev[d].oneTime \/ m.pre \in kept
      <4>1. OffersOK
        BY DEF SessionInv
      <4>2. <<m.base, m.pre>>[2] \notin dev[d].oneTime \/ <<m.base, m.pre>>[2] \in kept
        BY Zenon, <2>2, <3>1, <4>1 DEF OffersOK, Source
      <4> QED
        BY <4>2
    <3> QED
      BY Zenon, <1>3, <3>2
  <2> QED
    BY Zenon, <1>1, <2>1, <2>2
<1>5. \/ /\ Source(d, i) /\ NewCur(d).base = Held(d, i).base
         /\ NewCur(d).pending = None
      \/ NewCur(d).pending = None /\ NewCur(d).base = m.base /\ m.pre # None
  BY Zenon, <1>1 DEF Unbuilt, NewCur
<1>6. \A e \in Devices : /\ dev'[e].signed = dev[e].signed
                         /\ dev'[e].oneTime \subseteq dev[e].oneTime \cup {fresh + 1}
  BY Zenon, <1>3
<1> QED
  BY Zenon, <1>2, <1>4, <1>5, <1>6 DEF QuietStep

(* A step in which the device only saves an identity.                      *)
LEMMA IdentitySaved ==
    ASSUME SessionInv, NEW d \in Devices, NEW D \in Device,
           D.session = dev[d].session, D.signed = dev[d].signed, D.oneTime = dev[d].oneTime,
           dev' = [dev EXCEPT ![d] = D], fresh' \in Nat, fresh <= fresh',
           asked' \in [Devices -> Bundle], \A f \in Devices : asked'[f] \in {asked[f], NoBundle},
           net' = net, reads' = reads, lost' = lost, kept' = kept
    PROVE  SessionInv'
<1>1. /\ TypeOK /\ Drawn /\ Numbered /\ AtMostOnce /\ fresh \in Nat
      /\ NoBundle.signed = 0 /\ NoBundle.oneTime = 0
  BY Zenon DEF SessionInv, TypeOK, NoBundle, None
<1>2. dev' \in [Devices -> Device] /\ dev'[d] = D /\ \A f \in Devices : f # d => dev'[f] = dev[f]
  BY <1>1 DEF TypeOK
<1>3. \A f \in Devices : /\ dev'[f].session = dev[f].session /\ dev'[f].signed = dev[f].signed
                         /\ dev'[f].oneTime = dev[f].oneTime
  BY <1>2
<1>4. TypeOK'
  BY Zenon, <1>1, <1>2 DEF TypeOK
<1>5. Drawn'
  <2>1. \A f \in Devices : /\ asked[f].signed <= fresh /\ asked[f].oneTime <= fresh
                           /\ asked[f].signed \in Nat /\ asked[f].oneTime \in Nat
                           /\ dev[f].signed \in Nat /\ dev[f].signed <= fresh
                           /\ dev[f].oneTime \subseteq 0 .. fresh
    BY Zenon, <1>1 DEF Drawn, TypeOK, Bundle, Device
  <2>2. \A f \in Devices : asked'[f].signed <= fresh' /\ asked'[f].oneTime <= fresh'
    BY <1>1, <2>1
  <2>3. \A f \in Devices : dev'[f].signed <= fresh' /\ dev'[f].oneTime \subseteq 0 .. fresh'
    BY <1>1, <1>3, <2>1
  <2> QED
    BY Zenon, <1>1, <2>2, <2>3 DEF Drawn
<1>6. Numbered' /\ AtMostOnce'
  BY Zenon, <1>1 DEF Numbered, AtMostOnce
<1>7. QuietStep(d, 0, {})
  BY Zenon, <1>2, <1>3, SameRecords
<1> QED
  BY Zenon, <1>4, <1>5, <1>6, <1>7, QuietPreserves

(* The device has read m, and stores D, with or without a crash.           *)
ReadInto(d, i, m, E, D) ==
    /\ ReadBy(d, i, m, E) /\ D \in Device
    /\ D.session = E.session /\ D.signed = dev[d].signed
    /\ \/ D.oneTime = E.oneTime /\ kept' = kept
       \/ D.oneTime = dev[d].oneTime /\ kept' = kept \cup (dev[d].oneTime \ E.oneTime)
    /\ \/ reads' = [reads EXCEPT ![m.n] = @ + 1] /\ lost' = lost
       \/ reads' = reads /\ lost' = lost \cup {m.n}

(* A message is read and its key is used, whether the text is stored or    *)
(* not.                                                                    *)
LEMMA ReadPreserves ==
    ASSUME SessionInv, NEW d \in Devices, NEW m \in net, m.to = d, NEW i, NEW E, NEW D,
           ReadInto(d, i, m, E, D), dev' = [dev EXCEPT ![d] = D], fresh' = fresh + 1, net' = net,
           asked' \in [Devices -> Bundle], \A f \in Devices : asked'[f] \in {asked[f], NoBundle}
    PROVE  SessionInv'
<1> USE DEF ReadInto
<1>1. /\ TypeOK /\ Drawn /\ Numbered /\ AtMostOnce /\ fresh \in Nat
      /\ NoBundle.signed = 0 /\ NoBundle.oneTime = 0
  BY Zenon DEF SessionInv, TypeOK, NoBundle, None
<1>2. dev' \in [Devices -> Device] /\ dev'[d] = D /\ \A f \in Devices : f # d => dev'[f] = dev[f]
  BY Zenon, <1>1 DEF TypeOK
<1>3. /\ m.n \in 1 .. MaxMessages /\ m.n \in 1 .. Cardinality(net)
      /\ \A k \in net : k.n = m.n => k = m
      /\ \A k \in net : reads[k.n] \in Nat /\ k.n \in 1 .. MaxMessages
      /\ Cardinality(net) \in Nat
  <2>1. Cardinality(net) \in Nat
    BY Zenon, <1>1 DEF Numbered
  <2> QED
    BY Zenon, <2>1, NumbersApart
<1>4. /\ E.oneTime \subseteq dev[d].oneTime /\ m.pre \notin kept => ~Used(m)
      /\ dev[d].oneTime \subseteq 0 .. fresh /\ m.pre \in Nat
      /\ \/ E.oneTime = dev[d].oneTime
         \/ E.oneTime = dev[d].oneTime \ {m.pre} /\ m.pre # None
  <2>1. m.pre \in Nat
    BY Zenon, MessageTyped
  <2> QED
    BY Zenon, <1>1, <2>1 DEF ReadBy, Unbuilt, Drawn
<1>5. kept' \in SUBSET Nat /\ 0 \notin kept' /\ kept \subseteq kept' /\ D.oneTime \subseteq dev[d].oneTime
  <2>1. 0 \notin kept /\ kept \in SUBSET Nat /\ dev[d].oneTime \ E.oneTime \subseteq {m.pre} \ {0}
    BY Zenon, <1>1, <1>4 DEF TypeOK, Drawn, None
  <2> QED
    BY Zenon, <1>4, <2>1
<1>6. reads' \in [1 .. MaxMessages -> Nat] /\ lost' \in SUBSET Nat
  <2>1. reads \in [1 .. MaxMessages -> Nat] /\ reads[m.n] + 1 \in Nat /\ lost \in SUBSET Nat
    BY <1>1, <1>3 DEF TypeOK
  <2>2. [reads EXCEPT ![m.n] = @ + 1] \in [1 .. MaxMessages -> Nat]
    BY Zenon, <2>1
  <2>3. m.n \in Nat
    BY <1>3
  <2>4. lost \cup {m.n} \in SUBSET Nat
    BY Zenon, <2>1, <2>3
  <2> QED
    BY Zenon, <2>1, <2>2, <2>4
<1>7. TypeOK'
  BY <1>1, <1>2, <1>5, <1>6 DEF TypeOK
<1>8. Drawn'
  <2>1. \A f \in Devices : /\ asked[f].signed <= fresh /\ asked[f].oneTime <= fresh
                           /\ asked[f].signed \in Nat /\ asked[f].oneTime \in Nat
                           /\ dev[f].signed \in Nat /\ dev[f].signed <= fresh
                           /\ dev[f].oneTime \subseteq 0 .. fresh
    BY Zenon, <1>1 DEF Drawn, TypeOK, Bundle, Device
  <2>2. \A f \in Devices : asked'[f].signed <= fresh' /\ asked'[f].oneTime <= fresh'
    BY <1>1, <2>1
  <2>3. \A f \in Devices : dev'[f].signed = dev[f].signed /\ dev'[f].oneTime \subseteq dev[f].oneTime
    BY Zenon, <1>2, <1>5
  <2>4. \A f \in Devices : dev'[f].signed <= fresh' /\ dev'[f].oneTime \subseteq 0 .. fresh'
    BY <1>1, <2>1, <2>3
  <2> QED
    BY Zenon, <1>5, <2>2, <2>4 DEF Drawn
<1>9. Numbered'
  <2>1. \A n \in 1 .. MaxMessages : n > Cardinality(net) => reads'[n] = 0
    <3> SUFFICES ASSUME NEW n \in 1 .. MaxMessages, n > Cardinality(net) PROVE reads'[n] = 0
      OBVIOUS
    <3>1. n # m.n
      BY <1>3
    <3>2. reads'[n] = reads[n]
      BY Zenon, <1>1, <3>1 DEF TypeOK
    <3> QED
      BY Zenon, <1>1, <3>2 DEF Numbered
  <2>2. lost' \subseteq 1 .. Cardinality(net)
    BY Zenon, <1>1, <1>3 DEF Numbered
  <2> QED
    BY Zenon, <1>1, <2>1, <2>2 DEF Numbered
<1>10. \A k \in net : (reads'[k.n] > 0 \/ k.n \in lost') <=> (Used(k) \/ k = m)
  <2>1. CASE reads' = [reads EXCEPT ![m.n] = @ + 1] /\ lost' = lost
    BY <1>1, <1>3, <2>1 DEF Used, TypeOK
  <2>2. CASE reads' = reads /\ lost' = lost \cup {m.n}
    BY Zenon, <1>1, <1>3, <2>2 DEF Used
  <2> QED
    BY Zenon, <2>1, <2>2
<1>11. AtMostOnce'
  <2> SUFFICES ASSUME NEW k \in net, k.pre \notin kept' PROVE reads'[k.n] <= 1
    BY DEF AtMostOnce
  <2>1. k.pre \notin kept /\ reads[k.n] <= 1 /\ reads[k.n] \in Nat
    BY Zenon, <1>1, <1>3, <1>5 DEF AtMostOnce
  <2>2. CASE k # m \/ reads' = reads
    BY Zenon, <1>1, <1>3, <2>1, <2>2 DEF TypeOK
  <2>3. CASE k = m /\ reads' = [reads EXCEPT ![m.n] = @ + 1]
    <3>1. reads[m.n] = 0
      BY <1>4, <2>1, <2>3 DEF Used
    <3> QED
      BY <1>1, <1>3, <2>3, <3>1 DEF TypeOK
  <2> QED
    BY Zenon, <2>2, <2>3
<1>12. QuietStep(d, i, {m})
  BY Zenon, <1>2, <1>10, ReadStep
<1> QED
  BY Zenon, <1>7, <1>8, <1>9, <1>11, <1>12, QuietPreserves

(* A message is decrypted, or refused.                                     *)
LEMMA ReceivePreserves ==
    ASSUME SessionInv, NEW d \in Devices, NEW m \in net, NEW clash \in BOOLEAN, Receive(d, m, clash),
           OutcomeKnown(d, m, clash)
    PROVE  SessionInv'
<1> DEFINE o == Outcome(d, m, clash)
<1>1. TypeOK /\ fresh \in Nat /\ m.to = d /\ ContainsSession(d) /\ asked \in [Devices -> Bundle]
  BY Zenon DEF SessionInv, TypeOK, Receive
<1>2. /\ dev' = [dev EXCEPT ![d] = o.D]
      /\ reads' = IF o.res = "ok" THEN [reads EXCEPT ![m.n] = @ + 1] ELSE reads
      /\ fresh' = IF o.res = "ok" THEN fresh + 1 ELSE fresh
      /\ asked' = asked /\ net' = net /\ lost' = lost /\ kept' = kept
  BY DEF Receive
<1>3. CASE o.res = "ok"
  <2>1. PICK i : ReadBy(d, i, m, o.D)
    BY Zenon, <1>1, <1>3, TakenRead DEF OutcomeKnown
  <2>2. o.D \in Device /\ o.D.signed = dev[d].signed
    BY Zenon, <2>1 DEF ReadBy
  <2> HIDE DEF o
  <2>3. ReadInto(d, i, m, o.D, o.D)
    BY Zenon, <1>2, <1>3, <2>1, <2>2 DEF ReadInto
  <2> QED
    BY Zenon, <1>1, <1>2, <1>3, <2>3, ReadPreserves
<1>4. CASE o.res # "ok"
  <2>1. PICK t \in Nat : o.D = [dev[d] EXCEPT !.trusted = t]
    BY <1>4 DEF OutcomeKnown
  <2>2. o.D \in Device
    BY <1>4 DEF OutcomeKnown
  <2>3. dev[d] \in Device
    BY <1>1 DEF TypeOK
  <2> HIDE DEF o
  <2>4. /\ o.D.session = dev[d].session /\ o.D.signed = dev[d].signed
        /\ o.D.oneTime = dev[d].oneTime
    BY <2>1, <2>3 DEF Device
  <2>5. fresh' \in Nat /\ fresh <= fresh' /\ reads' = reads
    BY <1>1, <1>2, <1>4
  <2> QED
    BY Zenon, <1>1, <1>2, <2>2, <2>4, <2>5, IdentitySaved
<1> QED
  BY <1>3, <1>4

(* The process ends while a message is received.                           *)
LEMMA CrashInReceivePreserves ==
    ASSUME SessionInv, NEW d \in Devices, NEW m \in net, NEW stored \in BOOLEAN,
           CrashInReceive(d, m, stored), OutcomeKnown(d, m, FALSE)
    PROVE  SessionInv'
<1> DEFINE o == Outcome(d, m, FALSE)
           rec == IF stored THEN o.D.session ELSE dev[d].session
           D == [dev[d] EXCEPT !.trusted = o.D.trusted, !.session = rec]
<1>1. /\ TypeOK /\ fresh \in Nat /\ m.to = d /\ ContainsSession(d) /\ asked \in [Devices -> Bundle]
      /\ dev \in [Devices -> Device] /\ dev[d] \in Device /\ dev[d].session \in Record
      /\ NoBundle \in Bundle
  BY Zenon DEF SessionInv, TypeOK, CrashInReceive, Device, Bundle, NoBundle, None
<1>2. /\ o.res = "ok"
      /\ dev' = [dev EXCEPT ![d].trusted = o.D.trusted,
                            ![d].session = IF stored THEN o.D.session ELSE @]
      /\ kept' = IF stored THEN kept \cup (dev[d].oneTime \ o.D.oneTime) ELSE kept
      /\ fresh' = fresh + 1 /\ lost' = IF stored THEN lost \cup {m.n} ELSE lost
      /\ asked' = [asked EXCEPT ![d] = NoBundle] /\ net' = net /\ reads' = reads
  BY Zenon DEF CrashInReceive
<1>3. PICK i : ReadBy(d, i, m, o.D)
  BY Zenon, <1>1, <1>2, TakenRead DEF OutcomeKnown
<1> HIDE DEF o
<1>4. o.D \in Device /\ o.D.trusted \in Nat /\ o.D.session \in Record
  BY Zenon, <1>3 DEF ReadBy, Device
<1>5. dev' = [dev EXCEPT ![d] = D]
  BY Zenon, <1>1, <1>2
<1>6. /\ D \in Device /\ D.session = rec /\ D.signed = dev[d].signed
      /\ D.oneTime = dev[d].oneTime
  <2>1. rec \in Record
    BY <1>1, <1>4
  <2>2. StoredAs(D, dev[d], o.D.trusted, rec)
    BY Zenon, <1>1, <1>4, <2>1, StoredDevice
  <2> QED
    BY <2>2 DEF StoredAs
<1> HIDE DEF D
<1>7. asked' \in [Devices -> Bundle] /\ \A f \in Devices : asked'[f] \in {asked[f], NoBundle}
  BY Zenon, <1>1, <1>2
<1>8. fresh' \in Nat /\ fresh <= fresh'
  BY <1>1, <1>2
<1>9. CASE stored
  <2>1. /\ lost' = lost \cup {m.n} /\ kept' = kept \cup (dev[d].oneTime \ o.D.oneTime)
        /\ D.session = o.D.session /\ fresh' = fresh + 1 /\ net' = net /\ reads' = reads
    BY Zenon, <1>2, <1>6, <1>9
  <2> HIDE DEF rec
  <2>2. ReadInto(d, i, m, o.D, D)
    BY Zenon, <1>3, <1>6, <2>1 DEF ReadInto
  <2> QED
    BY Zenon, <1>1, <1>5, <1>7, <2>1, <2>2, ReadPreserves
<1>10. CASE ~stored
  BY Zenon, <1>2, <1>5, <1>6, <1>7, <1>8, <1>10, IdentitySaved
<1> QED
  BY <1>9, <1>10

----------------------------------------------------------------------------
(* Sending                                                                 *)

(* session_cipher_encrypt: the state after it, and the message.            *)
Sent(d, nst, new) ==
    LET st == dev[d].session.cur
    IN  /\ nst \in State /\ nst.sender.key = st.sender.key /\ nst.sender.chain = st.sender.chain
        /\ nst.sender.index = st.sender.index + 1
        /\ nst.base = st.base /\ nst.pending = st.pending /\ nst.root = st.root /\ nst.recv = st.recv
        /\ new.n = Cardinality(net) + 1 /\ new.to = Peer(d) /\ new.pre = st.pending
        /\ new.base = st.base /\ new.ratchet = st.sender.key /\ new.counter = st.sender.index
        /\ new.chain = st.sender.chain /\ new \in Message

(* What an encryption does.                                                *)
SentStep(d, nst, new) ==
    /\ Sent(d, nst, new) /\ Source(d, 0) /\ Held(d, 0) = dev[d].session.cur
    /\ Cardinality(net) + 1 \in 1 .. MaxMessages
    /\ net' = net \cup {new}
    /\ dev' \in [Devices -> Device]
    /\ NewCur(d) = nst /\ dev'[d].session.prev = dev[d].session.prev
    /\ \A e \in Devices : e # d => dev'[e].session = dev[e].session
    /\ \A e \in Devices : dev'[e].signed = dev[e].signed /\ dev'[e].oneTime = dev[e].oneTime
    /\ asked' = asked /\ reads' = reads /\ fresh' = fresh /\ lost' = lost /\ kept' = kept

(* One more message is counted as one.                                     *)
NetCounts ==
    \A new : new \notin net =>
        IsFiniteSet(net \cup {new}) /\ Cardinality(net \cup {new}) = Cardinality(net) + 1

(* What session_cipher_encrypt does to the state and the messages.         *)
LEMMA EncryptSends ==
    ASSUME SessionInv, NEW d \in Devices, Encrypt(d)
    PROVE  \E nst, new : SentStep(d, nst, new)
<1> DEFINE st == dev[d].session.cur
           n == Cardinality(net) + 1
           new == [n |-> n, to |-> Peer(d), pre |-> st.pending, base |-> st.base,
                   ratchet |-> st.sender.key, counter |-> st.sender.index,
                   chain |-> st.sender.chain, ids |-> <<st.local, st.remote>>]
           snd == [st.sender EXCEPT !.index = @ + 1]
           nst == [st EXCEPT !.sender = snd]
           rec == [dev[d].session EXCEPT !.cur = nst]
           D == [dev[d] EXCEPT !.session = rec]
<1>1. /\ TypeOK /\ dev \in [Devices -> Device] /\ dev[d] \in Device /\ dev[d].session \in Record
      /\ Peer(d) \in Devices /\ fresh \in Nat /\ Cardinality(net) \in Nat
  <2>1. TypeOK
    BY DEF SessionInv
  <2>2. Cardinality(net) \in Nat
    BY DEF SessionInv, Numbered
  <2> QED
    <3>1. Peer(d) \in Devices
      BY DEF Peer, Devices
    <3> QED
      BY Zenon, <2>1, <2>2, <3>1 DEF TypeOK, Device
<1>2. /\ n <= MaxMessages /\ st.sender.key # None /\ net' = net \cup {new}
      /\ dev' = [dev EXCEPT ![d].session.cur.sender.index = CreateNext(@)]
      /\ asked' = asked /\ reads' = reads /\ fresh' = fresh /\ lost' = lost /\ kept' = kept
  BY Zenon DEF Encrypt
<1>3. st \in State
  BY <1>1, SlotTyped
<1>4. /\ st.sender \in [key : Nat, chain : KeySeq, index : Nat] /\ st.sender.index \in Nat
      /\ st.sender.chain \in KeySeq /\ st.sender.key \in Nat /\ st.base \in Nat /\ st.pending \in Nat
      /\ st.local \in Nat /\ st.remote \in Nat
  BY Zenon, <1>3 DEF State
<1>5. dev' = [dev EXCEPT ![d] = D]
  BY Zenon, <1>2 DEF CreateNext
<1>6. /\ snd \in [key : Nat, chain : KeySeq, index : Nat] /\ snd.index = st.sender.index + 1
      /\ snd.key = st.sender.key /\ snd.chain = st.sender.chain
  BY Zenon, <1>4, SenderMoved
<1>7. <<st.local, st.remote>> \in Nat \X Nat
  BY Zenon, <1>4
<1>8. Source(d, 0) /\ Held(d, 0) = dev[d].session.cur
  <2>1. fresh \in Nat /\ fresh <= fresh
    BY Zenon, <1>1, NextNumber
  <2> QED
    BY Zenon, <1>2, <2>1, SameState
<1> HIDE DEF snd, st
<1>9. nst \in State
  BY Zenon, <1>3, <1>6 DEF State
<1>10. /\ nst.sender = snd /\ nst.base = st.base /\ nst.pending = st.pending
       /\ nst.root = st.root /\ nst.recv = st.recv
  BY <1>3 DEF State
<1> HIDE DEF nst
<1>11. rec \in Record /\ rec.cur = nst /\ rec.prev = dev[d].session.prev
  BY Zenon, <1>1, <1>9 DEF Record
<1> HIDE DEF rec
<1>12. D \in Device
  BY Zenon, <1>1, <1>11 DEF Device
<1>13. D.session = rec /\ D.signed = dev[d].signed /\ D.oneTime = dev[d].oneTime
  BY <1>1 DEF Device
<1> HIDE DEF D
<1>14. dev' \in [Devices -> Device] /\ dev'[d] = D /\ \A f \in Devices : f # d => dev'[f] = dev[f]
  BY Zenon, <1>1, <1>5, <1>12
<1>15. new \in Message
  <2>1. n \in Nat
    BY <1>1
  <2> QED
    BY Zenon, <1>1, <1>4, <1>7, <2>1 DEF Message
<1>16. Cardinality(net) + 1 \in 1 .. MaxMessages
  BY <1>1, <1>2, MessagesAssumption
<1>17. Sent(d, nst, new)
  BY Zenon, <1>6, <1>9, <1>10, <1>15 DEF Sent, st
<1>18. \A e \in Devices : dev'[e].signed = dev[e].signed /\ dev'[e].oneTime = dev[e].oneTime
  BY <1>13, <1>14
<1>19. NewCur(d) = nst /\ dev'[d].session.prev = dev[d].session.prev
  BY <1>11, <1>13, <1>14 DEF NewCur
<1> HIDE DEF new
<1>20. SentStep(d, nst, new)
  BY Zenon, <1>2, <1>8, <1>14, <1>16, <1>17, <1>18, <1>19 DEF SentStep
<1> QED
  BY <1>20

(* The new message has a number of its own, and was not read.              *)
LEMMA SentUnread ==
    ASSUME SessionInv, NEW d \in Devices, NEW nst, NEW new, SentStep(d, nst, new)
    PROVE  /\ new.n = Cardinality(net) + 1 /\ Cardinality(net) \in Nat
           /\ \A m \in net : m.n \in 1 .. Cardinality(net) /\ m.n # new.n
           /\ reads[new.n] = 0 /\ new.n \notin lost /\ ~(reads'[new.n] > 0 \/ new.n \in lost')
<1> DEFINE c == Cardinality(net)
<1>1. /\ new.n = c + 1 /\ c + 1 \in 1 .. MaxMessages /\ c \in Nat /\ reads' = reads /\ lost' = lost
      /\ \A m \in net : m.n \in 1 .. c
      /\ \A n \in 1 .. MaxMessages : n > c => reads[n] = 0
      /\ lost \subseteq 1 .. c
  BY Zenon DEF SessionInv, SentStep, Sent, Numbered
<1> HIDE DEF c
<1>2. \A m \in net : m.n \in 1 .. c /\ m.n # new.n
  BY <1>1
<1>3. reads[new.n] = 0 /\ new.n \notin lost
  BY <1>1
<1> QED
  BY <1>1, <1>2, <1>3 DEF c

(* The new message has a number of its own.                                *)
LEMMA SentTyped ==
    ASSUME SessionInv, NEW d \in Devices, NEW nst, NEW new, SentStep(d, nst, new),
           NetCounts
    PROVE  /\ TypeOK' /\ Drawn' /\ Numbered' /\ AtMostOnce' /\ new \notin net
           /\ ~(reads'[new.n] > 0 \/ new.n \in lost')
<1> DEFINE c == Cardinality(net)
<1>1. /\ TypeOK /\ Drawn /\ Numbered /\ AtMostOnce
      /\ IsFiniteSet(net) /\ new.n = c + 1 /\ new \in Message /\ c + 1 \in 1 .. MaxMessages
  BY Zenon DEF SessionInv, TypeOK, SentStep, Sent
<1>2. c \in Nat
  BY Zenon, SentUnread
<1>3. \A m \in net : m.n \in 1 .. c /\ m.n # new.n
  BY Zenon, SentUnread
<1>4. new \notin net
  BY <1>3
<1>5. IsFiniteSet(net \cup {new}) /\ Cardinality(net \cup {new}) = c + 1
  BY <1>4 DEF NetCounts
<1>6. /\ net' = net \cup {new} /\ reads' = reads /\ lost' = lost /\ fresh' = fresh /\ kept' = kept
      /\ asked' = asked /\ dev' \in [Devices -> Device]
      /\ \A e \in Devices : dev'[e].signed = dev[e].signed /\ dev'[e].oneTime = dev[e].oneTime
  BY Zenon DEF SentStep
<1>7. TypeOK'
  <2>1. net' \in SUBSET Message /\ IsFiniteSet(net')
    BY Zenon, <1>1, <1>5, <1>6 DEF TypeOK
  <2> QED
    BY Zenon, <1>1, <1>6, <2>1 DEF TypeOK
<1>8. Drawn'
  BY Zenon, <1>1, <1>6 DEF Drawn
<1>9. Cardinality(net') = c + 1
  BY <1>5, <1>6
<1>10. reads[new.n] = 0 /\ new.n \notin lost /\ ~(reads'[new.n] > 0 \/ new.n \in lost')
  BY Zenon, SentUnread
<1>11. Numbered'
  <2> HIDE DEF c
  <2>1. c + 1 <= MaxMessages /\ c + 1 \in Nat
    BY <1>1, <1>2
  <2>2. \A m \in net' : m.n \in 1 .. c + 1
    BY <1>1, <1>2, <1>3, <1>6
  <2>3. \A m1, m2 \in net' : m1.n = m2.n => m1 = m2
    BY Zenon, <1>1, <1>3, <1>6 DEF Numbered
  <2>4. \A n \in 1 .. MaxMessages : n > c + 1 => reads'[n] = 0
    BY <1>1, <1>2, <1>6 DEF Numbered, c
  <2>5. lost' \subseteq 1 .. c + 1
    BY <1>1, <1>2, <1>6 DEF Numbered, c
  <2> QED
    BY Zenon, <1>9, <2>1, <2>2, <2>3, <2>4, <2>5 DEF Numbered
<1>12. AtMostOnce'
  BY <1>1, <1>6, <1>10 DEF AtMostOnce
<1> QED
  BY Zenon, <1>4, <1>7, <1>8, <1>10, <1>11, <1>12

(* The states: the sender is one message farther.                          *)
LEMMA SentIsStep ==
    ASSUME SessionInv, NEW d \in Devices, NEW nst, NEW new, SentStep(d, nst, new)
    PROVE  Step(d, 0, {})
<1> DEFINE st == dev[d].session.cur
<1>1. /\ TypeOK /\ StatesOK /\ fresh \in Nat /\ dev[d].session \in Record
      /\ Source(d, 0) /\ Held(d, 0) = st /\ NewCur(d) = nst /\ Sent(d, nst, new)
      /\ fresh' = fresh
  BY Zenon DEF SessionInv, TypeOK, Device, SentStep
<1>2. StateOK(st, fresh) /\ StateTypes(st)
  BY Zenon, <1>1, SourceOK
<1>3. /\ nst.sender.key = st.sender.key /\ nst.sender.chain = st.sender.chain
      /\ nst.sender.index = st.sender.index + 1
      /\ nst.base = st.base /\ nst.pending = st.pending /\ nst.root = st.root /\ nst.recv = st.recv
  BY Zenon, <1>1 DEF Sent
<1>4. StateOK(nst, fresh)
  BY Zenon, <1>2, <1>3 DEF StateOK
<1>5. SameSender(d, 0, nst)
  <2>1. st.sender.index \in Nat
    BY Zenon, <1>2 DEF StateTypes
  <2>2. nst.sender.index >= st.sender.index
    BY Zenon, <1>3, <2>1, NextNumber
  <2> HIDE DEF st
  <2> QED
    BY Zenon, <1>1, <1>3, <2>2 DEF SameSender
<1>6. \A r \in DOMAIN nst.recv : KeptChain(d, 0, nst.recv[r])
  BY Zenon, <1>1, <1>3 DEF KeptChain
<1>7. MadeFrom(d, 0, {}, nst, fresh')
  BY Zenon, <1>1, <1>4, <1>5, <1>6 DEF MadeFrom
<1>8. Derived(dev[d].session, dev'[d].session, 0)
  BY Zenon, <1>1, SamePrev DEF SentStep
<1>9. ~(reads'[new.n] > 0 \/ new.n \in lost')
  BY SentUnread
<1>10. \A m \in net' \ net : m = new
  BY Zenon DEF SentStep
<1>11. fresh' \in Nat /\ fresh <= fresh'
  BY <1>1
<1> QED
  BY Zenon, <1>1, <1>7, <1>8, <1>9, <1>10, <1>11 DEF Step, SentStep, Used

(* The states after the step that send with the key of d's state.          *)
LEMMA SentSlots ==
    ASSUME SessionInv, NEW d \in Devices, NEW nst, NEW new, SentStep(d, nst, new),
           NEW e \in Devices, NEW j \in SlotsAfter(e)
    PROVE  /\ (e = d /\ j = 0) => After(e, j) = nst
           /\ \E a \in SlotsOf(e) : /\ After(e, j).sender.key = Held(e, a).sender.key
                                    /\ After(e, j).recv = Held(e, a).recv
                                    /\ After(e, j).base = Held(e, a).base
                                    /\ After(e, j).pending = Held(e, a).pending
<1>1. CASE e = d /\ j = 0
  BY ZenonT(30), <1>1 DEF SentStep, Sent, At, Source, After, NewCur
<1>2. CASE ~(e = d /\ j = 0)
  <2>1. TypeOK /\ Step(d, 0, {})
    BY SentIsStep DEF SessionInv
  <2> QED
    BY Zenon, <1>2, <2>1, Carried
<1> QED
  BY Zenon, <1>1, <1>2

(* The new message is the last one of its chain.                           *)
LEMMA SentMessages ==
    ASSUME SessionInv, NEW d \in Devices, NEW nst, NEW new, SentStep(d, nst, new)
    PROVE  MessagesOK' /\ MessagesApart' /\ SenderAhead'
<1> DEFINE st == dev[d].session.cur
<1>1. /\ MessagesOK /\ MessagesApart /\ SenderAhead /\ fresh \in Nat
      /\ Source(d, 0) /\ Held(d, 0) = st /\ NewCur(d) = nst /\ Sent(d, nst, new)
      /\ fresh' = fresh /\ net' = net \cup {new} /\ dev' \in [Devices -> Device]
  BY Zenon DEF SessionInv, TypeOK, SentStep
<1>2. StateOK(st, fresh) /\ StateTypes(st)
  BY Zenon, <1>1, SourceOK
<1>3. MessageOK(new, fresh)
  <2>1. /\ new.pre = st.pending /\ new.base = st.base /\ new.ratchet = st.sender.key
        /\ new.chain = st.root
    BY Zenon, <1>1, <1>2 DEF Sent, StateOK
  <2> QED
    BY Zenon, <1>2, <2>1 DEF StateOK, MessageOK
<1>4. MessagesOK'
  BY Zenon, <1>1, <1>3 DEF MessagesOK
<1>5. \A m \in net : m.ratchet = new.ratchet => m.pre = new.pre /\ m.counter < new.counter
                                                /\ m.counter \in Nat /\ new.counter \in Nat
  <2>1. new.ratchet = st.sender.key /\ new.pre = st.pending /\ new.counter = st.sender.index
    BY Zenon, <1>1 DEF Sent
  <2>2. \A m \in net : m.counter \in Nat
    BY MessageTyped
  <2> QED
    BY Zenon, <1>1, <1>2, <2>1, <2>2 DEF SenderAhead, Source, StateTypes
<1>6. MessagesApart'
  <2> SUFFICES ASSUME NEW m1 \in net', NEW m2 \in net', m1.ratchet = m2.ratchet
               PROVE  m1.pre = m2.pre /\ (m1.counter = m2.counter => m1 = m2)
    BY DEF MessagesApart
  <2>1. CASE m1 \in net /\ m2 \in net
    BY Zenon, <1>1, <2>1 DEF MessagesApart
  <2>2. CASE m1 = new /\ m2 \in net
    BY <1>5, <2>2
  <2>3. CASE m1 \in net /\ m2 = new
    BY <1>5, <2>3
  <2> QED
    BY Zenon, <1>1, <2>1, <2>2, <2>3
<1>7. SenderAhead'
  <2> SUFFICES \A e \in Devices : \A j \in SlotsAfter(e) : \A m \in net' :
          (After(e, j).sender.key # None /\ m.ratchet = After(e, j).sender.key)
              => /\ m.counter < After(e, j).sender.index
                 /\ m.pre = After(e, j).pending
    BY Zenon DEF SenderAhead, SlotsOf, Held, Live, After, SlotsAfter
  <2> TAKE e \in Devices
  <2> TAKE j \in SlotsAfter(e)
  <2> TAKE m \in net'
  <2> HAVE After(e, j).sender.key # None /\ m.ratchet = After(e, j).sender.key
  <2>1. CASE m \in net
    BY Zenon, <2>1, SentIsStep, SenderAheadStep
  <2>2. CASE m = new
    <3>1. SendersApart'
      BY SentIsStep, SendersApartStep
    <3>2. \A a, b \in Devices : \A i \in SlotsAfter(a), k \in SlotsAfter(b) :
            (/\ After(a, i).sender.key # None
             /\ After(a, i).sender.key = After(b, k).sender.key)
                 => a = b /\ i = k
      BY Zenon, <3>1 DEF SendersApart, SlotsOf, Held, Live, After, SlotsAfter
    <3>3. 0 \in SlotsAfter(d) /\ After(d, 0) = nst
      <4>1. dev'[d].session \in Record
        BY <1>1 DEF Device
      <4> QED
        BY Zenon, <1>1, <4>1, SlotTyped DEF Slots, At, After, SlotsAfter, NewCur
    <3>4. nst.sender.key = m.ratchet
      BY Zenon, <1>1, <2>2 DEF Sent
    <3>5. e = d /\ j = 0
      BY <3>2, <3>3, <3>4
    <3>6. After(e, j) = nst
      BY <3>3, <3>5
    <3>7. nst.sender.index = new.counter + 1 /\ nst.pending = new.pre /\ new.counter \in Nat
      BY Zenon, <1>1, <1>2 DEF Sent, StateTypes
    <3> QED
      BY <2>2, <3>6, <3>7
  <2> QED
    BY Zenon, <1>1, <2>1, <2>2
<1> QED
  BY Zenon, <1>4, <1>6, <1>7

(* No receiver is past the new message.                                    *)
LEMMA SentGone ==
    ASSUME SessionInv, NEW d \in Devices, NEW nst, NEW new, SentStep(d, nst, new)
    PROVE  GoneIsUsed'
<1> SUFFICES \A e \in Devices : \A j \in SlotsAfter(e) :
          \A r \in DOMAIN After(e, j).recv : \A m \in net' :
            (/\ After(e, j).sender.key # None /\ m.to = e
             /\ m.ratchet = After(e, j).recv[r].key
             /\ Gone(After(e, j).recv[r].keys, m.counter))
                => \/ reads'[m.n] > 0 \/ m.n \in lost'
                   \/ \E later \in net' :
                         later.ratchet = m.ratchet /\ later.counter - m.counter > MaxKeys
  BY ZenonT(30) DEF GoneIsUsed, SlotsOf, Held, Live, Used, Evicted, After, SlotsAfter
<1> TAKE e \in Devices
<1> TAKE j \in SlotsAfter(e)
<1> TAKE r \in DOMAIN After(e, j).recv
<1> TAKE m \in net'
<1> HAVE /\ After(e, j).sender.key # None /\ m.to = e
         /\ m.ratchet = After(e, j).recv[r].key
         /\ Gone(After(e, j).recv[r].keys, m.counter)
<1>1. CASE m \in net
  BY Zenon, <1>1, SentIsStep, GoneIsUsedStep
<1>2. CASE m = new
  <2>1. PICK a \in SlotsOf(e) : /\ After(e, j).sender.key = Held(e, a).sender.key
                                /\ After(e, j).recv = Held(e, a).recv
    BY Zenon, SentSlots
  <2> DEFINE rc == Held(e, a).recv[r]
  <2>2. /\ Live(e, a) /\ r \in DOMAIN Held(e, a).recv /\ rc.key = new.ratchet
        /\ new.counter < rc.keys.index
    BY Zenon, <1>2, <2>1 DEF Live, Gone
  <2>3. /\ ReceiverBehind /\ SenderAhead /\ TypeOK /\ Source(d, 0)
        /\ Held(d, 0) = dev[d].session.cur /\ Sent(d, nst, new)
    BY Zenon DEF SessionInv, SentStep
  <2>4. new.ratchet = Held(d, 0).sender.key /\ new.counter = Held(d, 0).sender.index
    BY Zenon, <2>3 DEF Sent
  <2>5. new.counter \in Nat /\ rc.keys.index \in Nat
    <3>1. StateTypes(Held(d, 0)) /\ StateTypes(Held(e, a))
      BY Zenon, <2>3, HeldTyped DEF Source
    <3> QED
      BY Zenon, <2>2, <2>4, <3>1 DEF StateTypes, Chain
  <2>6. PICK k \in net : k.ratchet = rc.key /\ k.counter = rc.keys.index - 1
    <3>1. rc.keys.index > 0
      BY Zenon, <2>2, <2>5, BelowPositive
    <3> QED
      BY Zenon, <2>2, <2>3, <3>1 DEF ReceiverBehind
  <2>7. k.counter < new.counter
    BY Zenon, <2>2, <2>3, <2>4, <2>6 DEF SenderAhead, Source
  <2>8. ~(rc.keys.index - 1 < new.counter)
    BY Zenon, <2>2, <2>5, BelowPositive
  <2> QED
    BY Zenon, <2>6, <2>7, <2>8
<1> QED
  BY Zenon, <1>1, <1>2 DEF SentStep

(* The new message names what its state has named before.                  *)
LEMMA SentOffers ==
    ASSUME SessionInv, NEW d \in Devices, NEW nst, NEW new, SentStep(d, nst, new)
    PROVE  OffersOK'
<1>1. /\ Peer(d) \in Devices /\ Source(d, 0) /\ Sent(d, nst, new)
      /\ Held(d, 0) = dev[d].session.cur /\ net' = net \cup {new} /\ Peer(Peer(d)) = d
      /\ NewCur(d) = nst
  <2>1. Peer(d) \in Devices /\ Peer(Peer(d)) = d
    BY DEF Peer, Devices
  <2> QED
    BY Zenon, <2>1 DEF SentStep
<1>2. /\ new.to = Peer(d) /\ new.pre = Held(d, 0).pending /\ new.base = Held(d, 0).base
      /\ nst.base = Held(d, 0).base
  BY Zenon, <1>1 DEF Sent
<1>3. ASSUME NEW e \in Devices, NEW o \in OffersTo(e)'
      PROVE  o \in OffersTo(e)
  <2>1. Peer(e) \in Devices
    BY DEF Peer, Devices
  <2>2. \/ \E m \in net' : m.to = e /\ m.pre # None /\ o = <<m.base, m.pre>>
        \/ \E j \in SlotsAfter(Peer(e)) :
              /\ After(Peer(e), j).sender.key # None
              /\ After(Peer(e), j).pending # None
              /\ o = <<After(Peer(e), j).base, After(Peer(e), j).pending>>
    BY Zenon, <1>3 DEF OffersTo, SlotsOf, Held, Live, After, SlotsAfter
  <2>3. ASSUME NEW m \in net', m.to = e, m.pre # None, o = <<m.base, m.pre>>
        PROVE  o \in OffersTo(e)
    <3>1. CASE m \in net
      BY Zenon, <2>3, <3>1, Offered
    <3>2. CASE m = new
      BY <1>1, <1>2, <2>3, <3>2, Offered DEF Source
    <3> QED
      BY Zenon, <1>1, <2>3, <3>1, <3>2
  <2>4. ASSUME NEW j \in SlotsAfter(Peer(e)),
               After(Peer(e), j).sender.key # None,
               After(Peer(e), j).pending # None,
               o = <<After(Peer(e), j).base, After(Peer(e), j).pending>>
        PROVE  o \in OffersTo(e)
    <3>1. PICK a \in SlotsOf(Peer(e)) :
            /\ After(Peer(e), j).sender.key = Held(Peer(e), a).sender.key
            /\ After(Peer(e), j).base = Held(Peer(e), a).base
            /\ After(Peer(e), j).pending = Held(Peer(e), a).pending
      BY <2>1, SentSlots
    <3> QED
      BY Zenon, <2>4, <3>1, Offered DEF Live
  <2> QED
    BY Zenon, <2>2, <2>3, <2>4
<1>4. \A e \in Devices : dev'[e].oneTime \subseteq dev[e].oneTime \cup {fresh + 1}
  BY Zenon DEF SentStep
<1>5. \A e \in Devices : \A o \in OffersTo(e)' : o \in OffersTo(e)
  BY <1>3
<1> QED
  BY Zenon, <1>1, <1>2, <1>4, <1>5, SentIsStep, OffersOKStep

(* session_cipher_encrypt                                                  *)
LEMMA EncryptPreserves ==
    ASSUME SessionInv, NEW d \in Devices, Encrypt(d), NetCounts
    PROVE  SessionInv'
<1>1. PICK nst, new : SentStep(d, nst, new)
  BY EncryptSends
<1>2. Step(d, 0, {})
  BY <1>1, SentIsStep
<1>3. TypeOK' /\ Drawn' /\ Numbered' /\ AtMostOnce'
  BY <1>1, SentTyped
<1>4. MessagesOK' /\ MessagesApart' /\ SenderAhead'
  BY <1>1, SentMessages
<1>5. StatesOK' /\ SendersApart' /\ ReceiverBehind' /\ OwnKeysRetired' /\ ReceiversApart' /\ UsedIsGone'
  BY Zenon, <1>2, StatesOKStep, SendersApartStep, ReceiverBehindStep, OwnKeysRetiredStep,
     ReceiversApartStep, UsedIsGoneStep
<1>6. SignedApart'
  <2>1. \A e \in Devices : dev'[e].signed = dev[e].signed
    BY Zenon, <1>1 DEF SentStep
  <2> QED
    BY Zenon, <1>2, <2>1, SignedApartStep
<1>7. UsedPreKeyGone'
  <2>1. \A m \in net : m.pre \in dev'[m.to].oneTime => m.pre \in dev[m.to].oneTime
    <3>1. \A m \in net : m.to \in Devices
      BY MessageTyped
    <3> QED
      BY Zenon, <1>1, <3>1 DEF SentStep
  <2> QED
    BY <1>2, <2>1, UsedPreKeyGoneStep
<1>8. GoneIsUsed' /\ OffersOK'
  BY Zenon, <1>1, SentGone, SentOffers
<1> QED
  BY Zenon, <1>3, <1>4, <1>5, <1>6, <1>7, <1>8 DEF SessionInv

----------------------------------------------------------------------------
(* The invariant                                                           *)

(* The invariant holds in the beginning,                                   *)
LEMMA InitInv ==
    ASSUME Init, IsFiniteSet({}), Cardinality({}) = 0
    PROVE  SessionInv
<1>1. /\ net = {} /\ fresh = 4 /\ lost = {} /\ kept = {}
      /\ dev = [d \in Devices |-> NewDevice(2 * d - 1)]
      /\ asked = [d \in Devices |-> NoBundle] /\ reads = [n \in 1 .. MaxMessages |-> 0]
  BY DEF Init
<1>2. \A d \in Devices : /\ NewDevice(2 * d - 1) \in Device
                         /\ NewDevice(2 * d - 1).session = NoSession
                         /\ NewDevice(2 * d - 1).signed = 2 * d
                         /\ NewDevice(2 * d - 1).oneTime = {}
  BY NoSessionTyped DEF NewDevice, Device, Devices, None
<1>3. \A d \in Devices : dev[d].session = NoSession /\ dev[d].signed = 2 * d /\ dev[d].oneTime = {}
  BY Zenon, <1>1, <1>2
<1>4. \A d \in Devices : \A i \in SlotsOf(d) : ~Live(d, i)
  <2>1. \A d \in Devices : SlotsOf(d) = 0 .. 0 /\ Held(d, 0) = NewState
    BY <1>3, NoSessionTyped DEF SlotsOf, Slots, Held, At, After, SlotsAfter, NewCur
  <2> QED
    BY <2>1, NewStateTyped DEF Live
<1>5. TypeOK
  <2>1. NoBundle \in Bundle
    BY DEF NoBundle, Bundle, None
  <2>2. IsFiniteSet(net)
    BY <1>1
  <2> QED
    BY Zenon, <1>1, <1>2, <2>1, <2>2 DEF TypeOK
<1>6. Drawn
  BY <1>1, <1>3 DEF Drawn, NoBundle, None, Devices
<1>7. Numbered
  <2>1. Cardinality(net) = 0
    BY <1>1
  <2> QED
    BY <1>1, <2>1, MessagesAssumption DEF Numbered
<1>8. StatesOK /\ SignedApart /\ SendersApart /\ ReceiverBehind /\ ReceiversApart
  BY Zenon, <1>4 DEF StatesOK, SignedApart, SendersApart, ReceiverBehind, ReceiversApart, SharesChain, Live
<1>9. OwnKeysRetired
  BY Zenon, <1>4 DEF OwnKeysRetired, Retired, Live
<1>10. /\ MessagesOK /\ MessagesApart /\ SenderAhead /\ GoneIsUsed /\ UsedIsGone /\ UsedPreKeyGone
       /\ AtMostOnce
  BY Zenon, <1>1 DEF MessagesOK, MessagesApart, SenderAhead, GoneIsUsed, UsedIsGone, UsedPreKeyGone, AtMostOnce
<1>11. OffersOK
  <2>1. \A d \in Devices : Peer(d) \in Devices
    BY DEF Peer, Devices
  <2>2. \A d \in Devices : \A o : o \notin OffersTo(d)
    BY Zenon, <1>1, <1>4, <2>1, Offered
  <2> QED
    BY <2>2 DEF OffersOK
<1> QED
  BY Zenon, <1>5, <1>6, <1>7, <1>8, <1>9, <1>10, <1>11 DEF SessionInv

(* when nothing changes,                                                   *)
LEMMA StutterInv ==
    ASSUME SessionInv, UNCHANGED vars
    PROVE  SessionInv'
<1>1. /\ dev' = dev /\ asked' = asked /\ net' = net /\ reads' = reads /\ fresh' = fresh
      /\ lost' = lost /\ kept' = kept
  BY DEF vars
<1>2. 1 \in Devices /\ TypeOK /\ Drawn /\ Numbered /\ AtMostOnce /\ fresh \in Nat
  BY DEF Devices, SessionInv, TypeOK
<1>3. TypeOK' /\ Drawn' /\ Numbered' /\ AtMostOnce'
  BY Zenon, <1>1, <1>2 DEF TypeOK, Drawn, Numbered, AtMostOnce
<1>4. fresh' \in Nat /\ fresh <= fresh' /\ dev' \in [Devices -> Device]
  BY <1>1, <1>2 DEF TypeOK
<1>5. QuietStep(1, 0, {})
  BY Zenon, <1>1, <1>2, <1>4, SameRecords
<1> QED
  BY Zenon, <1>2, <1>3, <1>5, QuietPreserves

=============================================================================
