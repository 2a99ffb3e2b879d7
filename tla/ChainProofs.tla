----------------------------- MODULE ChainProofs ---------------------------
(***************************************************************************)
(* Proofs about ReceiverChain and about MessageKeyList, which implements   *)
(* it, for every value of MaxSkip, MaxKeys and MaxMessages.                *)
(*                                                                         *)
(* The invariant of the list, ListInv, says that it is ordered, oldest     *)
(* first, and no longer than MaxKeys: then the key that is dropped from    *)
(* the front is the oldest one, and the list holds the newest keys.        *)
(***************************************************************************)
EXTENDS MessageKeyList, FiniteSetTheorems, SequenceTheorems, WellFoundedInduction, TLAPS

(* The inductive strengthening: a counter below the chain's index has been *)
(* consumed, is held, or was evicted, and never both consumed and held.    *)
Inv ==
    /\ TypeOK
    /\ NeverAhead
    /\ \A k \in chain.skipped : k < chain.index
    /\ \A i \in DOMAIN log : log[i] < chain.index /\ log[i] \notin chain.skipped
    /\ AtMostOnce
    /\ WindowKept

----------------------------------------------------------------------------
(* Eviction keeps a subset of what was there.                              *)
LEMMA KeepNewestSubset == \A S : KeepNewest(S) \subseteq S
  BY DEF KeepNewest

(* Eviction never reaches a key that is less than MaxKeys below the top:   *)
(* with everything in S below n, at most n - k elements are not below k.   *)
LEMMA KeepNewestWindow ==
  ASSUME NEW n \in Nat, NEW S, \A s \in S : s \in 0 .. n - 1,
         NEW k \in S, n - k <= MaxKeys
  PROVE  k \in KeepNewest(S)
<1> DEFINE Up == {j \in S : j >= k}
<1>1. Up \subseteq k .. n - 1
  OBVIOUS
<1>2. k \in 0 .. n - 1
  OBVIOUS
<1>3. IsFiniteSet(k .. n - 1) /\ Cardinality(k .. n - 1) = n - k
  <2>1. k \in Int /\ n - 1 \in Int
    BY <1>2
  <2> QED  BY <2>1, <1>2, FS_Interval
<1>4. Cardinality(Up) <= Cardinality(k .. n - 1)
  <2> HIDE DEF Up
  <2> QED  BY ZenonT(30), <1>1, <1>3, FS_Subset
<1>5. Cardinality(Up) \in Nat
  <2> HIDE DEF Up
  <2>1. IsFiniteSet(Up)
    BY ZenonT(30), <1>1, <1>3, FS_Subset
  <2> QED  BY <2>1, FS_CardinalityType
<1>6. Cardinality(Up) <= MaxKeys
  <2> HIDE DEF Up
  <2> QED  BY <1>2, <1>3, <1>4, <1>5, LimitsAssumption
<1> QED
  BY <1>6 DEF KeepNewest

----------------------------------------------------------------------------
LEMMA InitInv == Init => Inv
  BY MessagesAssumption
  DEF Init, Inv, TypeOK, NeverAhead, AtMostOnce, WindowKept, NewChain, Chain, Counters

LEMMA SendInv == Inv /\ Send => Inv'
  BY MessagesAssumption
  DEF Inv, Send, TypeOK, NeverAhead, AtMostOnce, WindowKept, Chain, Counters

LEMMA DamagedInv ==
  ASSUME NEW c \in Counters, Inv, DeliverDamaged(c)
  PROVE  Inv'
  BY DEF Inv, DeliverDamaged, Accept, TypeOK, NeverAhead, AtMostOnce, WindowKept

(* A message below the chain's index takes its skipped key or is refused.  *)
LEMMA DeliverOldInv ==
  ASSUME NEW c \in Counters, Inv, Deliver(c), c < chain.index
  PROVE  Inv'
<1> USE DEF Inv, Counters
<1>1. CASE c \notin chain.skipped
  BY <1>1 DEF Deliver, Accept, KeysResult, KeysChain, TypeOK, NeverAhead, AtMostOnce, WindowKept
<1>2. CASE c \in chain.skipped
  <2>1. /\ chain' = [chain EXCEPT !.skipped = @ \ {c}]
        /\ log' = Append(log, c)
        /\ sent' = sent
    BY <1>2 DEF Deliver, Accept, KeysResult, KeysChain, TakeSkipped
  <2>2. /\ chain'.index = chain.index
        /\ chain'.skipped = chain.skipped \ {c}
    BY <2>1 DEF TypeOK, Chain
  <2>3. TypeOK'
    <3>1. log' \in Seq(Counters)
      <4> HIDE DEF Counters
      <4> QED  BY <2>1 DEF TypeOK
    <3>2. chain' \in Chain
      BY <2>1 DEF TypeOK, Chain
    <3> QED  BY <3>1, <3>2, <2>1 DEF TypeOK
  <2>4. /\ Len(log') = Len(log) + 1
        /\ log'[Len(log) + 1] = c
        /\ \A i \in 1 .. Len(log) : log'[i] = log[i]
        /\ Len(log) \in Nat
        /\ DOMAIN log = 1 .. Len(log)
        /\ DOMAIN log' = 1 .. Len(log) + 1
    BY <2>1 DEF TypeOK
  <2>5. AtMostOnce'
    BY <2>4, <1>2 DEF AtMostOnce
  <2>6. WindowKept'
    BY <2>1, <2>2, <2>4 DEF WindowKept
  <2> QED
    BY <2>1, <2>2, <2>3, <2>4, <2>5, <2>6 DEF NeverAhead, TypeOK, Chain
<1> QED  BY <1>1, <1>2

(* A message at or above the index moves the chain past it, or is refused. *)
LEMMA DeliverNewInv ==
  ASSUME NEW c \in Counters, Inv, Deliver(c), ~(c < chain.index)
  PROVE  Inv'
<1> USE DEF Inv, Counters
<1>1. CASE c - chain.index > MaxSkip
  BY <1>1 DEF Deliver, Accept, KeysResult, KeysChain, TypeOK, NeverAhead, AtMostOnce, WindowKept
<1>2. CASE ~(c - chain.index > MaxSkip)
  <2> DEFINE S == chain.skipped \cup (chain.index .. c - 1)
  <2>1. /\ chain' = [index |-> c + 1, skipped |-> KeepNewest(S)]
        /\ log' = Append(log, c)
        /\ sent' = sent
        /\ c < sent
    BY <1>2 DEF Deliver, Accept, KeysResult, KeysChain, Advance
  <2>2. chain'.index = c + 1 /\ chain'.skipped = KeepNewest(S)
    BY <2>1
  <2>3. (\A s \in S : s \in 0 .. (c + 1) - 1) /\ c \notin S
    BY DEF TypeOK, Chain
  <2>4. KeepNewest(S) \subseteq S
    BY KeepNewestSubset
  <2> HIDE DEF S
  <2>5. TypeOK'
    <3>1. log' \in Seq(Counters)
      <4> HIDE DEF Counters
      <4> QED  BY <2>1 DEF TypeOK
    <3>2. chain' \in Chain
      BY <2>1, <2>3, <2>4 DEF Chain
    <3> QED  BY <3>1, <3>2, <2>1 DEF TypeOK
  <2>6. /\ Len(log') = Len(log) + 1
        /\ log'[Len(log) + 1] = c
        /\ \A i \in 1 .. Len(log) : log'[i] = log[i]
        /\ Len(log) \in Nat
        /\ DOMAIN log = 1 .. Len(log)
        /\ DOMAIN log' = 1 .. Len(log) + 1
    BY <2>1 DEF TypeOK
  <2>7. chain.index \in Nat /\ c \in Nat
    BY DEF TypeOK, Chain
  <2>8. AtMostOnce'
    BY <2>6, <2>7 DEF AtMostOnce
  <2>9. \A k \in chain'.skipped : k < chain'.index
    BY <2>2, <2>3, <2>4, <2>7
  <2>10. \A i \in DOMAIN log : log[i] \in Nat /\ log[i] < chain.index /\ log[i] \notin S
    <3>1. \A i \in DOMAIN log : log[i] \in Counters
      <4> HIDE DEF Counters
      <4> QED  BY DEF TypeOK
    <3>2. \A i \in DOMAIN log : log[i] < chain.index /\ log[i] \notin chain.skipped
      OBVIOUS
    <3> QED  BY <3>1, <3>2, <2>7 DEF S
  <2>11. \A i \in DOMAIN log' : log'[i] < chain'.index /\ log'[i] \notin chain'.skipped
    BY <2>2, <2>3, <2>4, <2>6, <2>7, <2>10
  <2>12. WindowKept'
    <3> SUFFICES ASSUME NEW d \in Counters, d < chain'.index, chain'.index - d <= MaxKeys
                 PROVE  d \in chain'.skipped \/ \E i \in DOMAIN log' : log'[i] = d
      BY DEF WindowKept
    <3>0. d \in Nat /\ d <= c /\ (c + 1) - d <= MaxKeys
      BY <2>2, <2>7
    <3>1. CASE d = c
      BY <3>1, <2>6
    <3>2. CASE d # c /\ d \in S
      <4>1. c + 1 \in Nat
        BY <2>7
      <4>2. d \in KeepNewest(S)
        BY ZenonT(30), <4>1, <3>0, <3>2, <2>3, KeepNewestWindow
      <4> QED  BY <4>2, <2>2
    <3>3. CASE d # c /\ d \notin S
      <4>1. d < chain.index /\ chain.index - d <= MaxKeys /\ d \notin chain.skipped
        BY <3>0, <3>3, <2>7, LimitsAssumption DEF S
      <4>2. PICK i \in DOMAIN log : log[i] = d
        BY <4>1 DEF WindowKept
      <4> QED  BY <4>2, <2>6
    <3> QED  BY <3>1, <3>2, <3>3
  <2> QED
    BY <2>1, <2>2, <2>5, <2>7, <2>8, <2>9, <2>11, <2>12 DEF NeverAhead, TypeOK
<1> QED  BY <1>1, <1>2

LEMMA NextInv == Inv /\ [Next]_vars => Inv'
<1> SUFFICES ASSUME Inv, [Next]_vars PROVE Inv'
  OBVIOUS
<1>1. CASE Send
  BY <1>1, SendInv
<1>2. ASSUME NEW c \in Counters, Deliver(c) PROVE Inv'
  BY <1>2, DeliverOldInv, DeliverNewInv
<1>3. ASSUME NEW c \in Counters, DeliverDamaged(c) PROVE Inv'
  BY <1>3, DamagedInv
<1>4. CASE UNCHANGED vars
  BY <1>4 DEF vars, Inv, TypeOK, NeverAhead, AtMostOnce, WindowKept
<1> QED  BY <1>1, <1>2, <1>3, <1>4 DEF Next

(* The inductive invariant holds in every reachable state.                 *)
THEOREM Invariance == Spec => []Inv
  BY InitInv, NextInv, PTL DEF Spec

(* The types of the chain, the sender's index and the log are preserved.   *)
THEOREM TypeCorrect == Spec => []TypeOK
<1>1. Inv => TypeOK
  BY DEF Inv
<1> QED  BY <1>1, Invariance, PTL

(* A receiver chain hands out the plaintext of no counter twice, however   *)
(* the network repeats and reorders messages.                              *)
THEOREM DecryptedAtMostOnce == Spec => []AtMostOnce
<1>1. Inv => AtMostOnce
  BY DEF Inv
<1> QED  BY <1>1, Invariance, PTL

(* Eviction of skipped keys never costs a message that is at most MaxKeys  *)
(* behind the head of the chain.                                           *)
THEOREM WindowIsKept == Spec => []WindowKept
<1>1. Inv => WindowKept
  BY DEF Inv
<1> QED  BY <1>1, Invariance, PTL

(* The receiver chain never moves past the sender chain.                   *)
THEOREM ReceiverNeverAhead == Spec => []NeverAhead
<1>1. Inv => NeverAhead
  BY DEF Inv
<1> QED  BY <1>1, Invariance, PTL

----------------------------------------------------------------------------
(* Lists of keys in order                                                  *)

(* A set of numbers that is not empty has a least one.                     *)
LEMMA LeastNumber ==
    ASSUME NEW I \in SUBSET Nat, I # {}
    PROVE  Min(I) \in I /\ \A y \in I : Min(I) <= y
<1>1. IsWellFoundedOn(OpToRel(<, Nat), Nat)
  BY Zenon, NatLessThanWellFounded
<1>2. \E x \in I : \A y \in I : ~(<<y, x>> \in OpToRel(<, Nat))
  BY Zenon, <1>1, WFMin
<1>3. \E x \in I : \A y \in I : ~(y < x)
  BY Zenon, <1>2 DEF OpToRel
<1>4. \E x \in I : \A y \in I : x <= y
  BY <1>3
<1> QED
  BY <1>4 DEF Min

(* A list of keys has no room for others between its own: the key at k is  *)
(* at least as many iterations after the one at j as it is places after    *)
(* it.  This is why an eviction takes the oldest key only.                 *)
Spread(keys, it) ==
    /\ \A j, k \in 1 .. Len(keys) : j <= k => keys[k] - keys[j] >= k - j
    /\ \A j \in 1 .. Len(keys) : keys[j] < it

(* Distances in a list: with one more step;                                *)
LEMMA OneFarther ==
    ASSUME NEW x \in Nat, NEW y \in Nat, NEW i \in Nat, NEW j \in Nat, NEW n \in Nat,
           x - y >= n - j, x < i
    PROVE  i - y >= (n + 1) - j
OBVIOUS

(* and with one distance inside of another.                                *)
LEMMA FartherStill ==
    ASSUME NEW x \in Nat, NEW y \in Nat, NEW u \in Nat, NEW v \in Nat, NEW j \in Nat, NEW k \in Nat,
           x - y >= u - v, u - v >= k - j
    PROVE  x - y >= k - j
OBVIOUS

(* Without: the others stay in order.                                      *)
LEMMA Removed ==
    ASSUME NEW S, NEW s \in Seq(S), NEW i \in 1 .. Len(s)
    PROVE  /\ Without(s, i) \in Seq(S) /\ Len(Without(s, i)) = Len(s) - 1
           /\ \A j \in 1 .. Len(s) - 1 : Without(s, i)[j] = IF j < i THEN s[j] ELSE s[j + 1]
<1> DEFINE a == SubSeq(s, 1, i - 1)
           b == SubSeq(s, i + 1, Len(s))
<1>1. \A k \in 1 .. Len(s) : s[k] \in S
  OBVIOUS
<1>2. a \in Seq(S) /\ Len(a) = i - 1 /\ \A k \in 1 .. i - 1 : a[k] = s[k]
  BY <1>1, SubSeqProperties
<1>3. b \in Seq(S) /\ Len(b) = Len(s) - i /\ \A k \in 1 .. Len(s) - i : b[k] = s[i + k]
  BY <1>1, SubSeqProperties
<1>4. Without(s, i) = a \o b
  BY DEF Without
<1> HIDE DEF a, b
<1>5. /\ a \o b \in Seq(S) /\ Len(a \o b) = Len(a) + Len(b)
      /\ \A j \in 1 .. Len(a) + Len(b) : (a \o b)[j] = IF j <= Len(a) THEN a[j] ELSE b[j - Len(a)]
  BY <1>2, <1>3, ConcatProperties
<1> QED
  BY <1>2, <1>3, <1>4, <1>5

(* session_state_remove_message_keys, for a key that is there              *)
LEMMA ListRemoves ==
    ASSUME NEW keys \in Seq(Nat), NEW it \in Nat, Spread(keys, it), NEW c \in Nat,
           c \in Range(keys)
    PROVE  /\ RemoveMessageKeys(keys, c) \in Seq(Nat)
           /\ Len(RemoveMessageKeys(keys, c)) <= Len(keys)
           /\ Spread(RemoveMessageKeys(keys, c), it)
           /\ Range(RemoveMessageKeys(keys, c)) = Range(keys) \ {c}
<1> DEFINE n == Len(keys)
           I == {i \in 1 .. n : keys[i] = c}
           p == Min(I)
           R == Without(keys, p)
<1>1. n \in Nat /\ DOMAIN keys = 1 .. n /\ \A j \in 1 .. n : keys[j] \in Nat
  OBVIOUS
<1>2. \E i \in 1 .. n : keys[i] = c
  BY <1>1 DEF Range
<1>3. RemoveMessageKeys(keys, c) = R
  <2>1. FirstIndex(I) = p
    BY <1>2 DEF FirstIndex
  <2> QED
    BY Zenon, <2>1 DEF RemoveMessageKeys
<1>4. p \in 1 .. n /\ keys[p] = c
  <2>1. I \in SUBSET Nat /\ I # {}
    BY <1>1, <1>2
  <2>2. p \in I
    BY <2>1, LeastNumber
  <2> QED
    BY <2>2
<1>5. /\ \A j, k \in 1 .. n : j <= k => keys[k] - keys[j] >= k - j
      /\ \A j \in 1 .. n : keys[j] < it
  BY DEF Spread
<1> HIDE DEF p, I
<1>6. /\ R \in Seq(Nat) /\ Len(R) = n - 1
      /\ \A j \in 1 .. n - 1 : R[j] = IF j < p THEN keys[j] ELSE keys[j + 1]
  BY <1>4, Removed
<1> HIDE DEF R, n
<1>7. n - 1 \in Nat /\ DOMAIN R = 1 .. n - 1
  BY <1>1, <1>4, <1>6
<1> DEFINE from(j) == IF j < p THEN j ELSE j + 1
<1>8. \A j \in 1 .. n - 1 : from(j) \in 1 .. n /\ from(j) # p /\ R[j] = keys[from(j)] /\ from(j) \in Nat
  BY <1>1, <1>4, <1>6, <1>7
<1>9. Spread(R, it)
  <2>1. ASSUME NEW j \in 1 .. n - 1, NEW k \in 1 .. n - 1, j <= k PROVE R[k] - R[j] >= k - j
    <3>1. from(j) <= from(k) /\ from(k) - from(j) >= k - j
      <4>1. j \in Nat /\ k \in Nat /\ p \in Nat
        BY <1>1, <1>4, <1>7
      <4> QED
        BY <2>1, <4>1
    <3> HIDE DEF from
    <3>2. keys[from(k)] - keys[from(j)] >= from(k) - from(j)
      BY <1>5, <1>8, <3>1
    <3>3. keys[from(k)] \in Nat /\ keys[from(j)] \in Nat /\ from(k) \in Nat /\ from(j) \in Nat
      BY <1>1, <1>8
    <3> QED
      <4>1. j \in Nat /\ k \in Nat
        BY <1>7
      <4>2. keys[from(k)] - keys[from(j)] >= k - j
        BY <3>1, <3>2, <3>3, <4>1, FartherStill
      <4> QED
        BY <1>8, <4>2
  <2>2. \A j \in 1 .. n - 1 : R[j] < it
    BY <1>5, <1>8
  <2> QED
    BY <1>6, <2>1, <2>2 DEF Spread
<1>10. \A e \in Nat : e \in Range(R) => e \in Range(keys) /\ e # c
  <2> SUFFICES ASSUME NEW e \in Nat, NEW j \in 1 .. n - 1, R[j] = e
               PROVE  e \in Range(keys) /\ e # c
    BY <1>7 DEF Range
  <2>1. from(j) \in 1 .. n /\ from(j) # p /\ keys[from(j)] = e
    BY <1>8
  <2> HIDE DEF from
  <2>2. e \in Range(keys)
    BY <1>1, <2>1 DEF Range
  <2>3. from(j) < p \/ p < from(j)
    BY <1>1, <1>4, <2>1
  <2>4. e # c
    <3>1. from(j) \in Nat /\ p \in Nat /\ keys[p] \in Nat
      BY <1>1, <1>4, <2>1
    <3>2. (from(j) <= p => keys[p] - e >= p - from(j)) /\ (p <= from(j) => e - keys[p] >= from(j) - p)
      BY <1>4, <1>5, <2>1
    <3> QED
      BY <1>4, <2>3, <3>1, <3>2
  <2> QED
    BY <2>2, <2>4
<1>11. \A e \in Nat : e \in Range(keys) /\ e # c => e \in Range(R)
  <2> SUFFICES ASSUME NEW e \in Nat, NEW k \in 1 .. n, keys[k] = e, e # c
               PROVE  e \in Range(R)
    BY <1>1 DEF Range
  <2> DEFINE j == IF k < p THEN k ELSE k - 1
  <2>1. k # p
    BY <1>4
  <2>2. j \in 1 .. n - 1 /\ from(j) = k
    BY <1>1, <1>4, <2>1
  <2> HIDE DEF j, from
  <2> QED
    BY <1>7, <1>8, <2>2 DEF Range
<1>12. Range(R) = Range(keys) \ {c}
  <2>1. \A e \in Range(keys) : e \in Nat
    BY <1>1 DEF Range
  <2>2. \A e \in Range(R) : e \in Nat
    BY <1>1, <1>7, <1>8 DEF Range
  <2> QED
    BY <1>10, <1>11, <2>1, <2>2
<1>13. Len(R) <= n
  BY <1>1, <1>6
<1> QED
  BY <1>3, <1>6, <1>9, <1>12, <1>13 DEF n

----------------------------------------------------------------------------
(* The linked list implements the set of keys                              *)

(* The two modules name the same operators.                                *)
LEMMA SameNewest == \A S : Abs!KeepNewest(S) = KeepNewest(S)
<1>1. \A S : Abs!Cardinality(S) = Cardinality(S)
  BY Zenon DEF Abs!Cardinality, Cardinality
<1> QED
  BY <1>1 DEF Abs!KeepNewest, KeepNewest

(* In a list in order, the keys from place k on are those not below the    *)
(* key at k.                                                               *)
LEMMA CountAbove ==
    ASSUME NEW s \in Seq(Nat), NEW it, Spread(s, it), NEW k \in 1 .. Len(s)
    PROVE  Cardinality({x \in Range(s) : x >= s[k]}) = Len(s) - k + 1
<1> DEFINE n == Len(s)
           T == {x \in Range(s) : x >= s[k]}
           f == [j \in k .. n |-> s[j]]
<1>1. /\ n \in Nat /\ DOMAIN s = 1 .. n /\ \A j \in 1 .. n : s[j] \in Nat
      /\ \A i, j \in 1 .. n : i <= j => s[j] - s[i] >= j - i
  BY DEF Spread
<1>2. \A i, j \in 1 .. n : i < j => s[i] < s[j]
  <2> SUFFICES ASSUME NEW i \in 1 .. n, NEW j \in 1 .. n, i < j PROVE s[i] < s[j]
    OBVIOUS
  <2>1. s[j] - s[i] >= j - i /\ s[i] \in Nat /\ s[j] \in Nat /\ i \in Nat /\ j \in Nat
    BY <1>1
  <2> QED
    BY <2>1
<1>3. Range(s) = {s[j] : j \in 1 .. n}
  BY <1>1 DEF Range
<1> HIDE DEF n
<1>4. k \in Nat /\ k <= n /\ \A j \in k .. n : j \in 1 .. n
  BY <1>1 DEF n
<1>5. \A j \in k .. n : s[j] \in T
  <2> SUFFICES ASSUME NEW j \in k .. n PROVE s[j] \in Range(s) /\ s[j] >= s[k]
    OBVIOUS
  <2>1. j \in 1 .. n /\ k \in 1 .. n /\ (j = k \/ k < j)
    BY <1>1, <1>4
  <2>2. s[j] \in Nat /\ s[k] \in Nat /\ (j = k \/ s[k] < s[j])
    BY <1>1, <1>2, <2>1
  <2> QED
    BY <1>3, <2>1, <2>2
<1>6. \A t \in T : \E j \in k .. n : s[j] = t
  <2> SUFFICES ASSUME NEW j \in 1 .. n, s[j] >= s[k] PROVE j \in k .. n
    BY <1>3
  <2>1. ~(j < k)
    BY <1>1, <1>2, <1>4
  <2> QED
    BY <1>1, <1>4, <2>1
<1>7. \A i, j \in k .. n : s[i] = s[j] => i = j
  <2> SUFFICES ASSUME NEW i \in k .. n, NEW j \in k .. n, i # j PROVE s[i] # s[j]
    OBVIOUS
  <2>1. i \in 1 .. n /\ j \in 1 .. n /\ (i < j \/ j < i)
    BY <1>1, <1>4
  <2>2. s[i] \in Nat /\ s[j] \in Nat /\ (s[i] < s[j] \/ s[j] < s[i])
    BY <1>1, <1>2, <2>1
  <2> QED
    BY <2>2
<1> HIDE DEF T
<1>8. f \in Bijection(k .. n, T)
  <2>1. f \in [k .. n -> T]
    BY <1>5
  <2>2. IsInjective(f)
    BY <1>7 DEF IsInjective
  <2>3. \A t \in T : \E j \in k .. n : f[j] = t
    BY <1>6
  <2> QED
    BY Zenon, <2>1, <2>2, <2>3 DEF Bijection, Injection, Surjection
<1>9. ExistsBijection(k .. n, T)
  BY <1>8 DEF ExistsBijection
<1>10. IsFiniteSet(k .. n) /\ Cardinality(k .. n) = n - k + 1
  BY <1>1, <1>4, FS_Interval
<1>11. Cardinality(T) = Cardinality(k .. n)
  BY <1>9, <1>10, FS_Bijection
<1> QED
  BY <1>10, <1>11 DEF T, n

(* Evicting the smallest keys leaves the end of the list.                  *)
LEMMA NewestOfList ==
    ASSUME NEW s \in Seq(Nat), NEW it, Spread(s, it)
    PROVE  KeepNewest(Range(s)) = {s[k] : k \in {x \in 1 .. Len(s) : Len(s) - x + 1 <= MaxKeys}}
<1>1. \A k \in 1 .. Len(s) : Cardinality({x \in Range(s) : x >= s[k]}) = Len(s) - k + 1
  BY CountAbove
<1>2. Range(s) = {s[k] : k \in 1 .. Len(s)}
  BY DEF Range
<1> DEFINE C(y) == Cardinality({x \in Range(s) : x >= y})
<1>3. KeepNewest(Range(s)) = {y \in Range(s) : C(y) <= MaxKeys}
  BY DEF KeepNewest
<1>4. \A k \in 1 .. Len(s) : C(s[k]) = Len(s) - k + 1
  BY <1>1
<1> HIDE DEF C
<1> QED
  BY <1>2, <1>3, <1>4

(* The while loop of session_cipher_get_or_create_message_keys, as far as  *)
(* counter b.                                                              *)
ListLoop(f, list, a, b) ==
    f = [i \in a .. b |-> IF i = a THEN list ELSE SetMessageKeys(f[i - 1], i - 1)]

(* The loop that skips message keys has a result.                          *)
LEMMA ListLoopExists ==
    ASSUME NEW list, NEW a \in Nat, NEW b \in Nat, a <= b
    PROVE  \E f : ListLoop(f, list, a, b)
<1> DEFINE I == {n \in Nat : a <= n /\ ~\E f : ListLoop(f, list, a, n)}
<1> SUFFICES ASSUME I # {} PROVE FALSE
  OBVIOUS
<1> DEFINE n == Min(I)
<1>1. n \in I /\ \A y \in I : n <= y
  BY LeastNumber
<1> HIDE DEF n
<1>2. n \in Nat /\ a <= n /\ ~\E f : ListLoop(f, list, a, n)
  BY <1>1
<1>3. CASE n = a
  <2> DEFINE f == [i \in a .. a |-> list]
  <2>1. ListLoop(f, list, a, a)
    BY DEF ListLoop
  <2> QED
    BY <1>2, <1>3, <2>1
<1>4. CASE n # a
  <2>1. n - 1 \in Nat /\ a <= n - 1 /\ n - 1 \notin I
    BY <1>1, <1>2, <1>4
  <2>2. PICK f : ListLoop(f, list, a, n - 1)
    BY <2>1
  <2> DEFINE g == [i \in a .. n |-> IF i < n THEN f[i] ELSE SetMessageKeys(f[n - 1], n - 1)]
  <2>3. \A i \in a .. n : g[i] = IF i = a THEN list ELSE SetMessageKeys(g[i - 1], i - 1)
    <3> SUFFICES ASSUME NEW i \in a .. n
                 PROVE  g[i] = IF i = a THEN list ELSE SetMessageKeys(g[i - 1], i - 1)
      OBVIOUS
    <3>1. CASE i = n
      BY <1>2, <1>4, <3>1
    <3>2. CASE i # n
      <4>1. i \in a .. n - 1 /\ g[i] = f[i] /\ (i # a => i - 1 \in a .. n /\ g[i - 1] = f[i - 1])
        BY <1>2, <3>2
      <4>2. f[i] = IF i = a THEN list ELSE SetMessageKeys(f[i - 1], i - 1)
        BY <2>2, <4>1 DEF ListLoop
      <4> QED
        BY <4>1, <4>2
    <3> QED
      BY <3>1, <3>2
  <2>4. g = [i \in a .. n |-> IF i = a THEN list ELSE SetMessageKeys(g[i - 1], i - 1)]
    BY <2>3
  <2> HIDE DEF g
  <2> QED
    BY <1>2, <2>4 DEF ListLoop
<1> QED
  BY <1>3, <1>4

(* SkipTo is what the loop has made at the end.                            *)
LEMMA SkipToLoop ==
    ASSUME NEW list, NEW a \in Nat, NEW c \in Nat, a <= c
    PROVE  \E f : ListLoop(f, list, a, c) /\ SkipTo(list, a, c) = f[c]
<1> DEFINE f == CHOOSE g : g = [i \in a .. c |->
                                  IF i = a THEN list ELSE SetMessageKeys(g[i - 1], i - 1)]
<1>1. SkipTo(list, a, c) = f[c]
  BY DEF SkipTo
<1>2. \E g : ListLoop(g, list, a, c)
  BY ListLoopExists
<1>3. ListLoop(f, list, a, c)
  BY Zenon, <1>2 DEF ListLoop
<1> QED
  BY Zenon, <1>1, <1>3

(* The list with the counters from a on appended and nothing evicted.      *)
Full(list, a, j) == IF j <= Len(list) THEN list[j] ELSE a + (j - Len(list) - 1)

(* R is the end of the first N keys of the full list: as much of them as   *)
(* may be kept.                                                            *)
EndOf(R, list, a, N) ==
    /\ R \in Seq(Nat)
    /\ Len(R) = IF N <= MaxKeys THEN N ELSE MaxKeys
    /\ \A j \in 1 .. Len(R) : R[j] = Full(list, a, N - Len(R) + j)

(* session_state_set_message_keys                                          *)
LEMMA EndGrows ==
    ASSUME NEW list, NEW a, NEW i \in Nat, NEW N \in Nat, Full(list, a, N + 1) = i,
           NEW R, EndOf(R, list, a, N)
    PROVE  EndOf(SetMessageKeys(R, i), list, a, N + 1)
<1> DEFINE r   == Len(R)
           all == Append(R, i)
           X   == SetMessageKeys(R, i)
<1> SUFFICES EndOf(X, list, a, N + 1)
  OBVIOUS
<1>1. /\ R \in Seq(Nat) /\ r \in Nat /\ MaxKeys \in Nat
      /\ r = IF N <= MaxKeys THEN N ELSE MaxKeys
  BY LimitsAssumption DEF EndOf
<1>2. \A j \in 1 .. r : R[j] = Full(list, a, N - r + j)
  BY DEF EndOf
<1>3. /\ all \in Seq(Nat) /\ Len(all) = r + 1
      /\ \A j \in 1 .. r : all[j] = R[j]
      /\ all[r + 1] = i
  BY <1>1
<1>4. X = IF Len(all) > MaxKeys THEN SubSeq(all, Len(all) - MaxKeys + 1, Len(all)) ELSE all
  BY DEF SetMessageKeys
<1> HIDE DEF all, X, r
<1>5. \A j \in 1 .. r + 1 : all[j] = Full(list, a, N - r + j)
  <2> SUFFICES ASSUME NEW j \in 1 .. r + 1 PROVE all[j] = Full(list, a, N - r + j)
    OBVIOUS
  <2>1. CASE j = r + 1
    <3>1. N - r + j = N + 1
      BY <1>1, <2>1
    <3> QED
      BY <1>3, <2>1, <3>1
  <2>2. CASE j # r + 1
    <3>1. j \in 1 .. r
      BY <1>1, <2>2
    <3> QED
      BY <1>2, <1>3, <3>1
  <2> QED
    BY <2>1, <2>2
<1>6. CASE ~(r + 1 > MaxKeys)
  <2>1. r = N /\ N + 1 <= MaxKeys
    BY <1>1, <1>6
  <2>2. X = all
    BY <1>3, <1>4, <1>6
  <2>3. \A j \in 1 .. r + 1 : (N + 1) - (r + 1) + j = N - r + j
    BY <1>1
  <2>4. Len(X) = N + 1 /\ Len(X) = r + 1
    BY <1>3, <2>1, <2>2
  <2>5. \A j \in 1 .. Len(X) : X[j] = Full(list, a, (N + 1) - Len(X) + j)
    BY <1>5, <2>2, <2>3, <2>4
  <2> QED
    BY <1>3, <2>1, <2>2, <2>4, <2>5 DEF EndOf
<1>7. CASE r + 1 > MaxKeys
  <2> DEFINE last == r + 1
  <2>1. r = MaxKeys /\ ~(N + 1 <= MaxKeys) /\ last - MaxKeys + 1 = 2
    BY <1>1, <1>7
  <2>2. X = SubSeq(all, 2, last)
    <3>1. Len(all) = last /\ last > MaxKeys
      BY <1>3, <1>7
    <3> HIDE DEF last
    <3> QED
      BY Zenon, <1>4, <2>1, <3>1
  <2>3. (\A j \in 2 .. last : all[j] \in Nat) /\ last \in Int /\ 2 \in Int
    BY <1>1, <1>3
  <2> HIDE DEF last
  <2>4. /\ X \in Seq(Nat) /\ Len(X) = IF 2 <= last THEN last - 2 + 1 ELSE 0
        /\ \A j \in 1 .. last - 2 + 1 : X[j] = all[2 + j - 1]
    BY <2>2, <2>3, SubSeqProperties
  <2>5. Len(X) = r /\ last - 2 + 1 = r
    BY <1>1, <2>4 DEF last
  <2>6. \A j \in 1 .. r : /\ 2 + j - 1 \in 1 .. r + 1
                          /\ N - r + (2 + j - 1) = (N + 1) - r + j
    BY <1>1
  <2>7. \A j \in 1 .. r : X[j] = Full(list, a, (N + 1) - r + j)
    BY <1>5, <2>4, <2>5, <2>6
  <2> QED
    BY <2>1, <2>4, <2>5, <2>7 DEF EndOf
<1> QED
  BY <1>6, <1>7

(* The loop as a whole                                                     *)
LEMMA SkipToEnd ==
    ASSUME NEW list \in Seq(Nat), NEW a \in Nat, NEW c \in Nat, a <= c, Len(list) <= MaxKeys
    PROVE  EndOf(SkipTo(list, a, c), list, a, Len(list) + (c - a))
<1> DEFINE n == Len(list)
<1>1. PICK f : ListLoop(f, list, a, c) /\ SkipTo(list, a, c) = f[c]
  BY SkipToLoop
<1>2. /\ f[a] = list
      /\ \A i \in a + 1 .. c : f[i] = SetMessageKeys(f[i - 1], i - 1)
  BY <1>1 DEF ListLoop
<1>3. n \in Nat /\ n <= MaxKeys /\ MaxKeys \in Nat
  BY LimitsAssumption
<1>4. \A j \in 1 .. n : list[j] = Full(list, a, j)
  BY DEF Full
<1>5. \A i \in Nat : a <= i => n + (i - a) \in Nat /\ Full(list, a, (n + (i - a)) + 1) = i
  <2> SUFFICES ASSUME NEW i \in Nat, a <= i
               PROVE  n + (i - a) \in Nat /\ Full(list, a, (n + (i - a)) + 1) = i
    OBVIOUS
  <2>1. n + (i - a) \in Nat /\ ~((n + (i - a)) + 1 <= n) /\ a + (((n + (i - a)) + 1) - n - 1) = i
    BY <1>3
  <2> QED
    BY <2>1 DEF Full
<1> HIDE DEF n
<1> DEFINE I == {i \in Nat : i \in a .. c /\ ~EndOf(f[i], list, a, n + (i - a))}
<1>6. ASSUME I # {} PROVE FALSE
  <2> DEFINE i == Min(I)
  <2>1. i \in I /\ \A y \in I : i <= y
    BY <1>6, LeastNumber
  <2> HIDE DEF i
  <2>2. i \in Nat /\ i \in a .. c /\ ~EndOf(f[i], list, a, n + (i - a))
    BY <2>1
  <2>3. CASE i = a
    <3>1. n + (i - a) = n
      BY <1>3, <2>3
    <3>2. \A j \in 1 .. n : n - n + j = j
      BY <1>3
    <3>3. EndOf(list, list, a, n)
      BY <1>3, <1>4, <3>2 DEF EndOf, n
    <3> QED
      BY <1>2, <2>2, <2>3, <3>1, <3>3
  <2>4. CASE i # a
    <3> DEFINE p == i - 1
               N == n + (p - a)
    <3>1. /\ p \in Nat /\ p \in a .. c /\ a <= p /\ p \notin I /\ i \in a + 1 .. c
          /\ n + (i - a) = N + 1
      BY <1>3, <2>1, <2>2, <2>4
    <3>2. f[i] = SetMessageKeys(f[p], p)
      BY <1>2, <3>1
    <3> HIDE DEF p
    <3>3. EndOf(f[p], list, a, N)
      BY <3>1
    <3>4. N \in Nat /\ Full(list, a, N + 1) = p
      BY <1>5, <3>1
    <3> HIDE DEF N
    <3>5. EndOf(SetMessageKeys(f[p], p), list, a, N + 1)
      BY <3>1, <3>3, <3>4, EndGrows
    <3> QED
      BY <2>2, <3>1, <3>2, <3>5
  <2> QED
    BY <2>3, <2>4
<1>7. c \in a .. c
  OBVIOUS
<1> QED
  BY <1>1, <1>6, <1>7 DEF n

(* The list after the loop holds the keys that Advance keeps.              *)
LEMMA SkipToKeepsNewest ==
    ASSUME NEW list \in Seq(Nat), NEW a \in Nat, NEW c \in Nat, a <= c, Len(list) <= MaxKeys,
           Spread(list, a)
    PROVE  /\ SkipTo(list, a, c) \in Seq(Nat) /\ Len(SkipTo(list, a, c)) <= MaxKeys
           /\ Spread(SkipTo(list, a, c), c)
           /\ Range(SkipTo(list, a, c)) = KeepNewest(Range(list) \cup (a .. c - 1))
<1> DEFINE n == Len(list)
           N == n + (c - a)
           R == SkipTo(list, a, c)
           r == Len(R)
           s == [j \in 1 .. N |-> Full(list, a, j)]
<1>1. n \in Nat /\ N \in Nat /\ n <= N /\ MaxKeys \in Nat /\ N = n + (c - a)
  BY LimitsAssumption
<1>2. /\ DOMAIN list = 1 .. n /\ \A j \in 1 .. n : list[j] \in Nat /\ list[j] < a
      /\ \A j, k \in 1 .. n : j <= k => list[k] - list[j] >= k - j
  BY DEF Spread
<1>3. EndOf(R, list, a, N)
  BY SkipToEnd
<1>4. /\ R \in Seq(Nat) /\ r \in Nat /\ r <= N /\ r <= MaxKeys /\ (r = N \/ r = MaxKeys)
      /\ \A j \in 1 .. r : R[j] = Full(list, a, N - r + j)
  <2> HIDE DEF R, N
  <2>1. R \in Seq(Nat) /\ r = (IF N <= MaxKeys THEN N ELSE MaxKeys)
    BY <1>3 DEF EndOf
  <2>2. \A j \in 1 .. r : R[j] = Full(list, a, N - r + j)
    BY <1>3 DEF EndOf
  <2> HIDE DEF r
  <2>3. N \in Nat /\ MaxKeys \in Nat
    BY <1>1
  <2>4. r \in Nat /\ r <= N /\ r <= MaxKeys /\ (r = N \/ r = MaxKeys)
    BY <2>1, <2>3
  <2> QED
    BY <2>1, <2>2, <2>4
<1> HIDE DEF R, r, N
<1>5. \A j \in 1 .. N : \/ j \in 1 .. n /\ Full(list, a, j) = list[j]
                        \/ j \in n + 1 .. N /\ Full(list, a, j) = a + (j - n - 1)
  BY <1>1 DEF Full
<1> HIDE DEF n
<1>6. \A j \in n + 1 .. N : a + (j - n - 1) \in a .. c - 1
  BY <1>1
<1>7. /\ s \in Seq(Nat) /\ Len(s) = N /\ DOMAIN s = 1 .. N
      /\ \A j \in 1 .. N : s[j] = Full(list, a, j)
  <2>1. \A j \in 1 .. N : Full(list, a, j) \in Nat
    BY <1>2, <1>5, <1>6
  <2> QED
    BY <1>1, <2>1
<1> HIDE DEF s
<1>8. ASSUME NEW j \in 1 .. N PROVE s[j] < c /\ s[j] \in Nat
  <2>1. CASE j \in 1 .. n /\ Full(list, a, j) = list[j]
    BY <1>2, <1>7, <2>1
  <2>2. CASE j \in n + 1 .. N /\ Full(list, a, j) = a + (j - n - 1)
    BY <1>6, <1>7, <2>2
  <2> QED
    BY <1>5, <2>1, <2>2
<1>9. ASSUME NEW j \in 1 .. N, NEW k \in 1 .. N, j <= k PROVE s[k] - s[j] >= k - j
  <2>1. CASE k \in 1 .. n
    <3>1. j \in 1 .. n
      BY <1>1, <1>9, <2>1
    <3>2. s[j] = list[j] /\ s[k] = list[k]
      BY <1>7, <2>1, <3>1 DEF Full, n
    <3> QED
      BY <1>2, <1>9, <2>1, <3>1, <3>2
  <2>2. CASE k \in n + 1 .. N /\ j \in n + 1 .. N
    <3>1. s[j] = a + (j - n - 1) /\ s[k] = a + (k - n - 1)
      BY <1>1, <1>5, <1>7, <2>2
    <3>2. j \in Nat /\ k \in Nat
      BY <1>1
    <3> QED
      BY <1>1, <3>1, <3>2
  <2>3. CASE k \in n + 1 .. N /\ j \in 1 .. n
    <3>1. s[k] = a + (k - n - 1) /\ s[j] = list[j]
      BY <1>1, <1>5, <1>7, <2>3
    <3>2. n \in 1 .. n
      BY <1>1, <2>3
    <3> DEFINE x == list[n]
               y == list[j]
    <3>3. /\ x - y >= n - j /\ x < a /\ x \in Nat /\ y \in Nat
          /\ j \in Nat /\ k \in Nat
      BY <1>1, <1>2, <2>3, <3>2
    <3>4. s[j] = y
      BY <3>1
    <3> HIDE DEF x, y
    <3>5. (a + (k - n - 1)) - y >= k - j
      BY <1>1, <3>3
    <3> QED
      BY <3>1, <3>4, <3>5
  <2> QED
    BY <1>5, <2>1, <2>2, <2>3
<1>10. Spread(s, c)
  BY <1>7, <1>8, <1>9 DEF Spread
<1>11. Range(s) = Range(list) \cup (a .. c - 1)
  <2>1. Range(s) = {s[j] : j \in 1 .. N} /\ Range(list) = {list[j] : j \in 1 .. n}
    BY <1>2, <1>7 DEF Range
  <2>2. \A j \in 1 .. n : j \in 1 .. N /\ s[j] = list[j]
    BY <1>1, <1>7 DEF Full, n
  <2>3. \A x \in a .. c - 1 : \E j \in 1 .. N : s[j] = x
    <3> SUFFICES ASSUME NEW x \in a .. c - 1 PROVE \E j \in 1 .. N : s[j] = x
      OBVIOUS
    <3> DEFINE j == n + 1 + (x - a)
    <3>1. j \in n + 1 .. N /\ j \in 1 .. N /\ a + (j - n - 1) = x /\ ~(j <= n)
      BY <1>1
    <3>2. Full(list, a, j) = x
      BY <3>1 DEF Full, n
    <3> HIDE DEF j
    <3> QED
      BY <1>7, <3>1, <3>2
  <2>4. \A j \in 1 .. N : (\E i \in 1 .. n : s[j] = list[i]) \/ s[j] \in a .. c - 1
    BY <1>5, <1>6, <1>7
  <2>5. ASSUME NEW x \in Range(s) PROVE x \in Range(list) \cup (a .. c - 1)
    <3>1. PICK j \in 1 .. N : s[j] = x
      BY Zenon, <2>1
    <3> QED
      BY Zenon, <2>1, <2>4, <3>1
  <2>6. ASSUME NEW x \in Range(list) PROVE x \in Range(s)
    <3>1. PICK j \in 1 .. n : list[j] = x
      BY Zenon, <2>1
    <3> QED
      BY Zenon, <2>1, <2>2, <3>1
  <2>7. ASSUME NEW x \in a .. c - 1 PROVE x \in Range(s)
    <3>1. PICK j \in 1 .. N : s[j] = x
      BY Zenon, <2>3
    <3> QED
      BY Zenon, <2>1, <3>1
  <2> QED
    BY Zenon, <2>5, <2>6, <2>7
<1>12. KeepNewest(Range(s)) = {s[k] : k \in {x \in 1 .. N : N - x + 1 <= MaxKeys}}
  BY <1>7, <1>10, NewestOfList
<1>13. \A j \in 1 .. r : N - r + j \in 1 .. N /\ N - (N - r + j) + 1 <= MaxKeys /\ R[j] = s[N - r + j]
  BY <1>1, <1>4, <1>7
<1>14. \A k \in 1 .. N : N - k + 1 <= MaxKeys => \E j \in 1 .. r : s[k] = R[j]
  <2> SUFFICES ASSUME NEW k \in 1 .. N, N - k + 1 <= MaxKeys PROVE \E j \in 1 .. r : s[k] = R[j]
    OBVIOUS
  <2> DEFINE j == k - (N - r)
  <2>1. j \in 1 .. r /\ N - r + j = k
    BY <1>1, <1>4
  <2> HIDE DEF j
  <2> QED
    BY <1>13, <2>1
<1>15. Range(R) = {R[j] : j \in 1 .. r}
  BY <1>4 DEF Range, r
<1>16. Range(R) = KeepNewest(Range(s))
  <2>1. \A j \in 1 .. r : \E k \in 1 .. N : N - k + 1 <= MaxKeys /\ R[j] = s[k]
    BY Zenon, <1>13
  <2>2. ASSUME NEW y \in Range(R) PROVE y \in KeepNewest(Range(s))
    <3>1. PICK j \in 1 .. r : y = R[j]
      BY Zenon, <1>15
    <3>2. PICK k \in 1 .. N : N - k + 1 <= MaxKeys /\ R[j] = s[k]
      BY Zenon, <2>1
    <3> QED
      BY Zenon, <1>12, <3>1, <3>2
  <2>3. ASSUME NEW y \in KeepNewest(Range(s)) PROVE y \in Range(R)
    <3>1. PICK k \in 1 .. N : N - k + 1 <= MaxKeys /\ y = s[k]
      BY Zenon, <1>12
    <3> QED
      BY Zenon, <1>14, <1>15, <3>1
  <2> QED
    BY <2>2, <2>3
<1>17. Spread(R, c)
  <2>1. \A j \in 1 .. r : R[j] < c
    BY <1>8, <1>13
  <2>2. ASSUME NEW j \in 1 .. r, NEW k \in 1 .. r, j <= k PROVE R[k] - R[j] >= k - j
    <3>1. N - r + j <= N - r + k /\ (N - r + k) - (N - r + j) = k - j
      BY <1>1, <1>4, <2>2
    <3>2. s[N - r + k] - s[N - r + j] >= (N - r + k) - (N - r + j)
      BY <1>9, <1>13, <3>1
    <3> QED
      BY <1>13, <3>1, <3>2
  <2> QED
    BY <2>1, <2>2 DEF Spread, r
<1> QED
  BY <1>4, <1>11, <1>16, <1>17 DEF R, r

(* What the list is like in every state                                    *)
ListInv ==
    /\ index \in Nat /\ nodes \in Seq(Nat) /\ Len(nodes) <= MaxKeys
    /\ Spread(nodes, index)

(* A counter behind the chain                                              *)
LEMMA OldImplements ==
    ASSUME ListInv, NEW c \in Counters, DeliverOld(c)
    PROVE  ListInv' /\ Abs!Deliver(c)
<1> DEFINE ch == [index |-> index, skipped |-> Range(nodes)]
<1>1. /\ c < listSent /\ c < index /\ listSent' = listSent /\ index' = index
      /\ IF c \in Range(nodes)
         THEN nodes' = RemoveMessageKeys(nodes, c) /\ listLog' = Append(listLog, c)
         ELSE nodes' = nodes /\ listLog' = listLog
  BY DEF DeliverOld
<1>2. c \in Nat /\ index \in Nat /\ nodes \in Seq(Nat) /\ Len(nodes) <= MaxKeys /\ Spread(nodes, index)
  BY MessagesAssumption DEF Counters, ListInv
<1>3. ch.index = index /\ ch.skipped = Range(nodes)
  OBVIOUS
<1> HIDE DEF ch
<1>4. CASE c \notin Range(nodes)
  <2>1. Abs!KeysResult(ch, c) = "duplicate"
    BY <1>1, <1>3, <1>4 DEF Abs!KeysResult
  <2>2. ListInv'
    BY <1>1, <1>2, <1>4 DEF ListInv
  <2>3. [index |-> index', skipped |-> Range(nodes')] = ch
    BY <1>1, <1>4 DEF ch
  <2> QED
    BY <1>1, <1>4, <2>1, <2>2, <2>3 DEF Abs!Deliver, Abs!Accept, ch
<1>5. CASE c \in Range(nodes)
  <2>1. Abs!KeysResult(ch, c) = "ok"
    BY <1>1, <1>3, <1>5 DEF Abs!KeysResult
  <2>2. /\ nodes' \in Seq(Nat) /\ Len(nodes') <= Len(nodes) /\ Spread(nodes', index)
        /\ Range(nodes') = Range(nodes) \ {c}
    BY <1>1, <1>2, <1>5, ListRemoves
  <2>3. ListInv'
    <3>1. Len(nodes') <= MaxKeys
      BY <1>2, <2>2, LimitsAssumption
    <3> QED
      BY <1>1, <1>2, <2>2, <3>1 DEF ListInv
  <2>4. Abs!KeysChain(ch, c) = [ch EXCEPT !.skipped = @ \ {c}]
    BY <1>1, <1>3, <2>1 DEF Abs!KeysChain, Abs!TakeSkipped
  <2>5. [index |-> index', skipped |-> Range(nodes')] = [ch EXCEPT !.skipped = @ \ {c}]
    <3>1. [ch EXCEPT !.skipped = @ \ {c}] = [index |-> index, skipped |-> Range(nodes) \ {c}]
      BY DEF ch
    <3>2. index' = index /\ Range(nodes') = Range(nodes) \ {c}
      BY <1>1, <2>2
    <3> QED
      BY <3>1, <3>2
  <2> QED
    BY <1>1, <1>5, <2>1, <2>3, <2>4, <2>5 DEF Abs!Deliver, Abs!Accept, ch
<1> QED
  BY <1>4, <1>5

(* A counter ahead of the chain                                            *)
LEMMA NewImplements ==
    ASSUME ListInv, NEW c \in Counters, DeliverNew(c)
    PROVE  ListInv' /\ Abs!Deliver(c)
<1> DEFINE ch == [index |-> index, skipped |-> Range(nodes)]
<1>1. /\ c < listSent /\ c >= index /\ listSent' = listSent
      /\ IF c - index > MaxSkip
         THEN index' = index /\ nodes' = nodes /\ listLog' = listLog
         ELSE nodes' = SkipTo(nodes, index, c) /\ index' = c + 1 /\ listLog' = Append(listLog, c)
  BY DEF DeliverNew
<1>2. c \in Nat /\ index \in Nat /\ nodes \in Seq(Nat) /\ Len(nodes) <= MaxKeys /\ Spread(nodes, index)
  BY MessagesAssumption DEF Counters, ListInv
<1>3. ch.index = index /\ ch.skipped = Range(nodes) /\ ~(c < index)
  BY <1>1, <1>2
<1> HIDE DEF ch
<1>4. CASE c - index > MaxSkip
  <2>1. Abs!KeysResult(ch, c) = "invalid"
    BY <1>1, <1>3, <1>4 DEF Abs!KeysResult
  <2>2. ListInv'
    BY <1>1, <1>2, <1>4 DEF ListInv
  <2>3. [index |-> index', skipped |-> Range(nodes')] = ch
    BY <1>1, <1>4 DEF ch
  <2> QED
    BY <1>1, <1>4, <2>1, <2>2, <2>3 DEF Abs!Deliver, Abs!Accept, ch
<1>5. CASE ~(c - index > MaxSkip)
  <2>1. Abs!KeysResult(ch, c) = "ok"
    BY <1>1, <1>3, <1>5 DEF Abs!KeysResult
  <2>2. /\ nodes' \in Seq(Nat) /\ Len(nodes') <= MaxKeys /\ Spread(nodes', c)
        /\ Range(nodes') = KeepNewest(Range(nodes) \cup (index .. c - 1))
    BY <1>1, <1>2, <1>5, SkipToKeepsNewest
  <2>3. Spread(nodes', c + 1)
    <3>1. \A j \in 1 .. Len(nodes') : nodes'[j] \in Nat /\ nodes'[j] < c
      BY <2>2 DEF Spread
    <3> QED
      BY <1>2, <2>2, <3>1 DEF Spread
  <2>4. ListInv'
    BY <1>1, <1>2, <1>5, <2>2, <2>3 DEF ListInv
  <2>5. Abs!KeysChain(ch, c)
          = [index |-> c + 1, skipped |-> KeepNewest(Range(nodes) \cup (index .. c - 1))]
    BY <1>1, <1>3, <2>1, SameNewest DEF Abs!KeysChain, Abs!Advance
  <2>6. [index |-> index', skipped |-> Range(nodes')]
          = [index |-> c + 1, skipped |-> KeepNewest(Range(nodes) \cup (index .. c - 1))]
    BY <1>1, <1>5, <2>2
  <2> QED
    BY <1>1, <1>5, <2>1, <2>4, <2>5, <2>6 DEF Abs!Deliver, Abs!Accept, ch
<1> QED
  BY <1>4, <1>5

(* Every step of the list is a step of the chain.                          *)
LEMMA ListStep ==
    ASSUME ListInv, [ListNext]_listVars
    PROVE  ListInv' /\ [Abs!Next]_(Abs!vars)
<1>1. CASE ListSend
  <2>1. ListInv'
    BY <1>1 DEF ListSend, ListInv
  <2>2. Abs!Send
    BY <1>1 DEF ListSend, Abs!Send
  <2> QED
    BY <2>1, <2>2 DEF Abs!Next
<1>2. ASSUME NEW c \in Counters, DeliverOld(c) \/ DeliverNew(c)
      PROVE  ListInv' /\ Abs!Next
  <2>1. c \in Counters /\ c \in Abs!Counters
    BY DEF Counters, Abs!Counters
  <2>2. ListInv' /\ Abs!Deliver(c)
    BY <1>2, <2>1, OldImplements, NewImplements
  <2> QED
    BY <2>1, <2>2 DEF Abs!Next
<1>3. CASE UNCHANGED listVars
  BY <1>3 DEF listVars, Abs!vars, ListInv
<1> QED
  BY <1>1, <1>2, <1>3 DEF ListNext

(* session_state.c keeps the message keys in a list, and finds, stores and *)
(* evicts the same keys as ReceiverChain with its set, for all limits.     *)
THEOREM ListImplementsChain == ListSpec => ImplementsChain
<1>1. ListInit => ListInv /\ Abs!Init
  <2> SUFFICES ASSUME ListInit PROVE ListInv /\ Abs!Init
    OBVIOUS
  <2>1. index = 0 /\ nodes = <<>> /\ listSent = 0 /\ listLog = <<>>
    BY DEF ListInit
  <2>2. Range(<<>>) = {}
    BY DEF Range
  <2>3. ListInv
    BY <2>1, LimitsAssumption DEF ListInv, Spread
  <2> QED
    BY <2>1, <2>2, <2>3 DEF Abs!Init, Abs!NewChain
<1>2. ListInv /\ [ListNext]_listVars => ListInv' /\ [Abs!Next]_(Abs!vars)
  BY ListStep
<1> QED
  BY <1>1, <1>2, PTL DEF ListSpec, ImplementsChain, Abs!Spec

=============================================================================
