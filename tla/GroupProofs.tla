----------------------------- MODULE GroupProofs ---------------------------
(***************************************************************************)
(* Proofs about Group, for every number of messages, chains, states, kept  *)
(* keys and crashes.                                                       *)
(*                                                                         *)
(* The sender: no key of a chain encrypts two messages.  The property      *)
(* alone is not inductive, as it says nothing of the key that is used      *)
(* next.  SenderInv adds that the stored chain is past every message that  *)
(* was encrypted with it, and that a chain which is started has a seed     *)
(* that no message has.                                                    *)
(*                                                                         *)
(* The receiver: a message is read at most once for each time its chain    *)
(* was put into the record, one that was not read and is not too old can   *)
(* be read, and the states of the last chains are there.  GroupInv adds    *)
(* that every list of keys is ordered and ends before the chain, that      *)
(* every state was set up from a distribution message, that the reads of a *)
(* message and the states that still have its key are together no more     *)
(* than those set-ups (ReadsPaid), and that the first state of a chain has *)
(* kept what it skipped (SkippedKept).                                     *)
(***************************************************************************)
EXTENDS Group, SequenceTheorems, WellFoundedInduction, TLAPS

(* The state with which a sender encrypts.                                 *)
SenderState == [id : Nat, seed : Nat, iteration : Nat, private : BOOLEAN, keys : {<<>>}]

(* The messages that a key was used for, whether they were handed to the   *)
(* app or not.                                                             *)
Encrypted == net \cup underway

(* The stored chain is past every message that it encrypted.               *)
ChainAhead ==
    \A m \in Encrypted :
        /\ m.seed \in Nat /\ m.iteration \in Nat
        /\ m.seed <= chains
        /\ (mine # <<>> /\ m.seed = mine[1].seed) => m.iteration < mine[1].iteration

(* The own record has one state, with a seed that was drawn.               *)
OwnRecord == mine # <<>> => \E st \in SenderState : mine = <<st>> /\ st.seed <= chains

(* The inductive invariant of the sender.                                  *)
SenderInv == chains \in Nat /\ OwnRecord /\ ChainAhead /\ GroupKeysUsedOnce

(* The sender's chain is as it was, and no message is new.                 *)
LEMMA NothingNew ==
    ASSUME SenderInv, mine' = mine \/ mine' = <<>>, chains' = chains,
           net' \cup underway' \subseteq net \cup underway
    PROVE  SenderInv'
<1>1. OwnRecord'
  BY DEF SenderInv, OwnRecord
<1>2. ChainAhead'
  BY DEF SenderInv, ChainAhead, Encrypted
<1>3. GroupKeysUsedOnce'
  BY DEF SenderInv, GroupKeysUsedOnce
<1> QED
  BY <1>1, <1>2, <1>3 DEF SenderInv

(* group_session_builder_create_session: a new chain has a new seed.       *)
LEMMA NewChainOK ==
    ASSUME SenderInv, CreateSession
    PROVE  SenderInv'
<1>1. CASE mine # <<>>
  BY <1>1, NothingNew DEF CreateSession
<1>2. CASE mine = <<>>
  <2> DEFINE st == NewKeyState(chains + 1, chains + 1, 0, TRUE)
  <2>1. /\ mine' = <<st>> /\ chains' = chains + 1
        /\ net' = net /\ underway' = underway
    BY <1>2 DEF CreateSession, SetKeyState
  <2>2. chains \in Nat /\ chains' \in Nat
    BY <2>1 DEF SenderInv
  <2>3. st \in SenderState /\ st.seed = chains + 1
    BY <2>2 DEF NewKeyState, SenderState
  <2> HIDE DEF st
  <2>4. OwnRecord'
    BY <2>1, <2>2, <2>3 DEF OwnRecord
  <2>5. ChainAhead'
    <3>1. mine'[1].seed = chains + 1
      BY <2>1, <2>3
    <3>2. \A m \in Encrypted : m.seed \in Nat /\ m.iteration \in Nat /\ m.seed <= chains
      BY DEF SenderInv, ChainAhead
    <3>3. Encrypted' = Encrypted
      BY <2>1 DEF Encrypted
    <3>4. \A m \in Encrypted : m.seed <= chains' /\ m.seed # chains + 1
      BY <2>1, <2>2, <3>2
    <3> QED
      BY <3>1, <3>2, <3>3, <3>4 DEF ChainAhead
  <2>6. GroupKeysUsedOnce'
    BY <2>1 DEF SenderInv, GroupKeysUsedOnce
  <2> QED
    BY <2>2, <2>4, <2>5, <2>6 DEF SenderInv
<1> QED
  BY <1>1, <1>2

(* group_cipher_encrypt: the chain moves past the new message in the same  *)
(* step, and the message is past all that were encrypted before.           *)
LEMMA EncryptOK ==
    ASSUME SenderInv, Encrypt
    PROVE  SenderInv'
<1>1. PICK st \in SenderState : mine = <<st>> /\ st.seed <= chains
  BY DEF Encrypt, SenderInv, OwnRecord
<1> DEFINE new  == [n |-> count + 1, id |-> st.id, seed |-> st.seed, iteration |-> st.iteration]
           next == [st EXCEPT !.iteration = @ + 1]
<1>2. /\ underway = {} /\ underway' = {new}
      /\ net' = net /\ chains' = chains
  BY <1>1 DEF Encrypt
<1>3. mine' = <<next>>
  BY <1>1 DEF Encrypt, StoreNext
<1>4. /\ next \in SenderState /\ next.seed = st.seed
      /\ next.iteration = st.iteration + 1
  BY <1>1 DEF SenderState
<1>5. st.seed \in Nat /\ st.iteration \in Nat /\ chains \in Nat
  BY <1>1 DEF SenderState, SenderInv
<1>6. \A m \in net : /\ m.seed \in Nat /\ m.iteration \in Nat /\ m.seed <= chains
                     /\ m.seed = st.seed => m.iteration < st.iteration
  BY <1>1 DEF SenderInv, ChainAhead, Encrypted
<1>7. OwnRecord'
  BY ZenonT(30), <1>1, <1>2, <1>3, <1>4 DEF OwnRecord
<1>8. ChainAhead'
  <2>1. mine'[1].seed = st.seed /\ mine'[1].iteration = st.iteration + 1
    BY ZenonT(30), <1>3, <1>4
  <2>2. Encrypted' = net \cup {new} /\ new.seed = st.seed /\ new.iteration = st.iteration
    BY <1>2 DEF Encrypted
  <2> QED
    BY <1>1, <1>2, <1>5, <1>6, <2>1, <2>2 DEF ChainAhead
<1>9. GroupKeysUsedOnce'
  <2>1. \A m \in net : ~(m.seed = new.seed /\ m.iteration = new.iteration)
    BY <1>5, <1>6
  <2>2. \A m1, m2 \in net : (m1.seed = m2.seed /\ m1.iteration = m2.iteration) => m1 = m2
    BY DEF SenderInv, GroupKeysUsedOnce
  <2> QED
    BY <1>2, <2>1, <2>2 DEF GroupKeysUsedOnce
<1> QED
  BY <1>2, <1>5, <1>7, <1>8, <1>9 DEF SenderInv

(* Every step of Group keeps the invariant.                                *)
LEMMA SenderStep ==
    ASSUME SenderInv, [GroupNext]_groupVars
    PROVE  SenderInv'
<1>1. CASE CreateSession
  BY <1>1, NewChainOK
<1>2. CASE Forget
  BY <1>2, NothingNew DEF Forget
<1>3. CASE Encrypt
  BY <1>3, EncryptOK
<1>4. CASE \E sent \in BOOLEAN : Return(sent)
  BY <1>4, NothingNew DEF Return
<1>5. CASE \E d \in dists : ProcessSession(d)
  BY <1>5, NothingNew DEF ProcessSession
<1>6. CASE \E m \in net, taken \in BOOLEAN : Decrypt(m, taken)
  BY <1>6, NothingNew DEF Decrypt
<1>7. CASE UNCHANGED groupVars
  BY <1>7, NothingNew DEF groupVars
<1> QED
  BY <1>1, <1>2, <1>3, <1>4, <1>5, <1>6, <1>7 DEF GroupNext

(* No key of a sender's chain encrypts two messages, for any number of     *)
(* messages and chains, wherever the process ends between the store of the *)
(* next chain key in group_cipher_encrypt and the return of the message.   *)
THEOREM GroupKeyUsedOnce == GroupSpec => []GroupKeysUsedOnce
<1>1. GroupInit => SenderInv
  BY DEF GroupInit, SenderInv, OwnRecord, ChainAhead, Encrypted, GroupKeysUsedOnce
<1>2. SenderInv /\ [GroupNext]_groupVars => SenderInv'
  BY SenderStep
<1>3. SenderInv => GroupKeysUsedOnce
  BY DEF SenderInv
<1> QED
  BY <1>1, <1>2, <1>3, PTL DEF GroupSpec

----------------------------------------------------------------------------
(* The keys of skipped messages                                            *)

(* A set of numbers that is not empty has a least one.                     *)
LEMMA LeastNumber ==
    ASSUME NEW I \in SUBSET Nat, I # {}
    PROVE  Min(I) \in I /\ \A y \in I : Min(I) <= y
<1>1. IsWellFoundedOn(OpToRel(<, Nat), Nat)
  BY Zenon, NatLessThanWellFounded
<1>2. \E x \in I : \A y \in I : ~(<<y, x>> \in OpToRel(<, Nat))
  BY Zenon, <1>1, WFMin
<1>3. \E x \in I : \A y \in I : ~(y < x)
  BY Zenon, <1>2 DEF OpToRel
<1>4. \E x \in I : \A y \in I : x <= y
  BY <1>3
<1> QED
  BY <1>4 DEF Min

(* The loop of group_cipher_get_sender_key, as far as iteration b.         *)
Loop(f, keys, a, b) ==
    f = [i \in a .. b |-> IF i = a THEN keys ELSE AddMessageKey(f[i - 1], i - 1)]

(* The loop of sender_key_state_step has a result, whatever the number of  *)
(* keys.                                                                   *)
LEMMA LoopExists ==
    ASSUME NEW keys, NEW a \in Nat, NEW b \in Nat, a <= b
    PROVE  \E f : Loop(f, keys, a, b)
<1> DEFINE I == {n \in Nat : a <= n /\ ~\E f : Loop(f, keys, a, n)}
<1> SUFFICES ASSUME I # {} PROVE FALSE
  OBVIOUS
<1> DEFINE n == Min(I)
<1>1. n \in I /\ \A y \in I : n <= y
  BY LeastNumber
<1> HIDE DEF n
<1>2. n \in Nat /\ a <= n /\ ~\E f : Loop(f, keys, a, n)
  BY <1>1
<1>3. CASE n = a
  <2> DEFINE f == [i \in a .. a |-> keys]
  <2>1. Loop(f, keys, a, a)
    BY DEF Loop
  <2> QED
    BY <1>2, <1>3, <2>1
<1>4. CASE n # a
  <2>1. n - 1 \in Nat /\ a <= n - 1 /\ n - 1 \notin I
    BY <1>1, <1>2, <1>4
  <2>2. PICK f : Loop(f, keys, a, n - 1)
    BY <2>1
  <2> DEFINE g == [i \in a .. n |-> IF i < n THEN f[i] ELSE AddMessageKey(f[n - 1], n - 1)]
  <2>3. \A i \in a .. n : g[i] = IF i = a THEN keys ELSE AddMessageKey(g[i - 1], i - 1)
    <3> SUFFICES ASSUME NEW i \in a .. n
                 PROVE  g[i] = IF i = a THEN keys ELSE AddMessageKey(g[i - 1], i - 1)
      OBVIOUS
    <3>1. CASE i = n
      BY <1>2, <1>4, <3>1
    <3>2. CASE i # n
      <4>1. i \in a .. n - 1 /\ g[i] = f[i] /\ (i # a => i - 1 \in a .. n /\ g[i - 1] = f[i - 1])
        BY <1>2, <3>2
      <4>2. f[i] = IF i = a THEN keys ELSE AddMessageKey(f[i - 1], i - 1)
        BY <2>2, <4>1 DEF Loop
      <4> QED
        BY <4>1, <4>2
    <3> QED
      BY <3>1, <3>2
  <2>4. g = [i \in a .. n |-> IF i = a THEN keys ELSE AddMessageKey(g[i - 1], i - 1)]
    BY <2>3
  <2> HIDE DEF g
  <2> QED
    BY <1>2, <2>4 DEF Loop
<1> QED
  BY <1>3, <1>4

(* SkipKeys is what the loop has made at the end.                          *)
LEMMA SkipKeysLoop ==
    ASSUME NEW st, NEW it \in Nat, st.iteration \in Nat, st.iteration <= it
    PROVE  \E f : Loop(f, st.keys, st.iteration, it) /\ SkipKeys(st, it) = f[it]
<1> DEFINE f == CHOOSE g : g = [i \in st.iteration .. it |->
                                  IF i = st.iteration THEN st.keys ELSE AddMessageKey(g[i - 1], i - 1)]
<1>1. SkipKeys(st, it) = f[it]
  BY DEF SkipKeys
<1>2. \E g : Loop(g, st.keys, st.iteration, it)
  BY LoopExists
<1>3. Loop(f, st.keys, st.iteration, it)
  BY Zenon, <1>2 DEF Loop
<1> QED
  BY Zenon, <1>1, <1>3

----------------------------------------------------------------------------
(* What the receiver keeps                                                 *)

(* A state of the receiver, a distribution message and a message.          *)
KeyState == [id : 1 .. MaxChains, seed : Nat, iteration : Nat, private : BOOLEAN, keys : Seq(Nat)]

Distribution == [id : 1 .. MaxChains, seed : Nat, iteration : Nat]

GroupMessage == [n : 1 .. MaxSent, id : 1 .. MaxChains, seed : Nat, iteration : Nat]

(* The types of the variables.                                             *)
GroupTypes ==
    /\ theirs \in Seq(KeyState)
    /\ dists \subseteq Distribution
    /\ Encrypted \subseteq GroupMessage
    /\ installs \in [1 .. MaxChains -> Seq(Nat)]
    /\ reads \in [1 .. MaxSent -> Nat]
    /\ count \in Nat /\ chains <= MaxChains

(* The id of a chain stands for its seed, on both sides and on the way.    *)
IdsAreSeeds ==
    /\ mine # <<>> => mine[1].id = mine[1].seed /\ mine[1].id \in 1 .. MaxChains
    /\ \A d \in dists : d.id = d.seed
    /\ \A m \in Encrypted : m.id = m.seed
    /\ \A i \in DOMAIN theirs : theirs[i].id = theirs[i].seed

(* A number belongs to one message, and none was read before it was sent.  *)
NumbersOK ==
    /\ \A m \in Encrypted : m.n <= count
    /\ \A m1, m2 \in Encrypted : m1.n = m2.n => m1 = m2
    /\ \A n \in 1 .. MaxSent : n > count => reads[n] = 0

(* A list of keys has no room for others between its own: the key at k is  *)
(* at least as many iterations after the one at j as it is places after    *)
(* it.  This is why an eviction takes the oldest key only.                 *)
Spread(keys, it) ==
    /\ \A j, k \in 1 .. Len(keys) : j <= k => keys[k] - keys[j] >= k - j
    /\ \A j \in 1 .. Len(keys) : keys[j] < it

(* The list of every state is spread.                                      *)
ListsOK == \A i \in DOMAIN theirs : Spread(theirs[i].keys, theirs[i].iteration)

(* Every state was set up by a distribution message, and there are two for *)
(* one chain only if it was set up twice.                                  *)
SetUp ==
    /\ \A i \in DOMAIN theirs : Len(installs[theirs[i].id]) >= 1
    /\ \A i, j \in DOMAIN theirs :
           (theirs[i].id = theirs[j].id /\ Len(installs[theirs[i].id]) = 1) => i = j

(* The state that is found for an id is the first one with it.             *)
FirstWith(record, i, id) ==
    i \in DOMAIN record /\ record[i].id = id /\ \A j \in 1 .. i - 1 : record[j].id # id

(* The state has the key of the iteration, or will derive it.              *)
HasKey(st, it) == st.iteration <= it \/ HasMessageKey(st.keys, it)

(* The receiver may read the message.                                      *)
Open(record, m) == \E i \in DOMAIN record : FirstWith(record, i, m.id) /\ HasKey(record[i], m.iteration)

(* Each set-up of its chain pays for one read of a message; a message that *)
(* can still be read has one to spend.                                     *)
ReadsPaid ==
    \A m \in Encrypted :
        /\ reads[m.n] <= Len(installs[m.id])
        /\ Open(theirs, m) => reads[m.n] < Len(installs[m.id])

(* The iterations of a chain that were read.                               *)
ReadOf(messages, times, id) ==
    {m.iteration : m \in {x \in messages : x.id = id /\ times[x.n] > 0}}

(* Since its place `from`, the state has kept or used all the keys that    *)
(* are not too old.                                                        *)
KeptSince(st, from, read) ==
    /\ from <= st.iteration
    /\ \A c \in from .. st.iteration - 1 :
           st.iteration - c <= GroupKeys => HasMessageKey(st.keys, c) \/ c \in read

(* In a chain that was set up once, an iteration between the set-up and    *)
(* the chain key was read, or its key is kept, or it is too long ago.      *)
SkippedKept ==
    \A i \in DOMAIN theirs :
        Len(installs[theirs[i].id]) = 1
            => KeptSince(theirs[i], installs[theirs[i].id][1], ReadOf(net, reads, theirs[i].id))

(* The inductive invariant.                                                *)
GroupInv ==
    /\ SenderInv /\ GroupTypes /\ IdsAreSeeds /\ NumbersOK
    /\ ListsOK /\ SetUp /\ ReadsPaid /\ SkippedKept

----------------------------------------------------------------------------
(* What the operations on a list of keys keep                              *)

(* Distances in a list: with one more step;                                *)
LEMMA OneFarther ==
    ASSUME NEW x \in Nat, NEW y \in Nat, NEW i \in Nat, NEW j \in Nat, NEW n \in Nat,
           x - y >= n - j, x < i
    PROVE  i - y >= (n + 1) - j
OBVIOUS

(* and with one distance inside of another.                                *)
LEMMA FartherStill ==
    ASSUME NEW x \in Nat, NEW y \in Nat, NEW u \in Nat, NEW v \in Nat, NEW j \in Nat, NEW k \in Nat,
           x - y >= u - v, u - v >= k - j
    PROVE  x - y >= k - j
OBVIOUS

(* The list `new` has grown from `old` by the iterations from a to b - 1:  *)
(* it has no other key, and lacks only those that are more than the limit  *)
(* behind.                                                                 *)
Grown(old, new, a, b) ==
    /\ new \in Seq(Nat) /\ Spread(new, b)
    /\ \A c \in Nat : HasMessageKey(new, c) => HasMessageKey(old, c) \/ c \in a .. b - 1
    /\ \A c \in Nat : ((HasMessageKey(old, c) \/ c \in a .. b - 1) /\ b - c <= GroupKeys)
                          => HasMessageKey(new, c)

(* sender_key_state_add_sender_message_key: the key that is evicted is     *)
(* more than the limit behind.                                             *)
LEMMA AddedKey ==
    ASSUME NEW keys \in Seq(Nat), NEW i \in Nat, Spread(keys, i)
    PROVE  Grown(keys, AddMessageKey(keys, i), i, i + 1)
<1> DEFINE all == Append(keys, i)
           n   == Len(keys)
<1>1. /\ all \in Seq(Nat) /\ Len(all) = n + 1 /\ n \in Nat
      /\ \A k \in 1 .. n : all[k] = keys[k] /\ all[k] \in Nat
      /\ all[n + 1] = i
  OBVIOUS
<1>2. DOMAIN all = 1 .. n + 1 /\ DOMAIN keys = 1 .. n
  BY <1>1
<1>3. /\ \A j, k \in 1 .. n : j <= k => keys[k] - keys[j] >= k - j
      /\ \A j \in 1 .. n : keys[j] < i
  BY DEF Spread
<1>4. AddMessageKey(keys, i) = IF n + 1 > GroupKeys THEN Tail(all) ELSE all
  BY <1>1 DEF AddMessageKey
<1> HIDE DEF all, n
<1>5. Spread(all, i + 1)
  <2>1. ASSUME NEW j \in 1 .. n + 1 PROVE all[j] < i + 1
    <3>1. CASE j = n + 1
      BY <1>1, <3>1
    <3>2. CASE j # n + 1
      <4>1. j \in 1 .. n
        BY <1>1, <3>2
      <4>2. all[j] = keys[j] /\ all[j] \in Nat /\ keys[j] < i
        BY <1>1, <1>3, <4>1
      <4> QED
        BY <4>2
    <3> QED
      BY <3>1, <3>2
  <2>2. ASSUME NEW j \in 1 .. n + 1, NEW k \in 1 .. n + 1, j <= k
        PROVE  all[k] - all[j] >= k - j
    <3>1. CASE j = n + 1
      BY <1>1, <2>2, <3>1
    <3>2. CASE j # n + 1 /\ k = n + 1
      <4>1. j \in 1 .. n /\ n \in 1 .. n
        BY <1>1, <3>2
      <4>2. keys[n] - keys[j] >= n - j /\ keys[n] < i /\ keys[n] \in Nat /\ keys[j] \in Nat
        <5>1. j <= n
          BY <1>1, <4>1
        <5>2. keys[n] - keys[j] >= n - j
          BY <1>3, <4>1, <5>1
        <5> QED
          BY <1>1, <1>3, <4>1, <5>2
      <4>3. all[k] = i /\ all[j] = keys[j] /\ j \in Nat
        BY <1>1, <3>2, <4>1
      <4>4. i - keys[j] >= (n + 1) - j
        <5>1. keys[n] \in Nat /\ keys[j] \in Nat /\ n \in Nat /\ keys[n] - keys[j] >= n - j /\ keys[n] < i
          BY <1>1, <4>2
        <5> QED
          BY <4>3, <5>1, OneFarther
      <4> QED
        BY <3>2, <4>3, <4>4
    <3>3. CASE j # n + 1 /\ k # n + 1
      <4>1. j \in 1 .. n /\ k \in 1 .. n
        BY <1>1, <3>3
      <4> QED
        BY <1>1, <1>3, <2>2, <4>1
    <3> QED
      BY <3>1, <3>2, <3>3
  <2> QED
    BY <1>1, <2>1, <2>2 DEF Spread
<1>6. \A c \in Nat : HasMessageKey(all, c) <=> HasMessageKey(keys, c) \/ c \in i .. i + 1 - 1
  <2>1. \A k \in 1 .. n + 1 : k \in 1 .. n \/ k = n + 1
    BY <1>1
  <2>2. 1 .. n \subseteq 1 .. n + 1 /\ n + 1 \in 1 .. n + 1 /\ i .. i + 1 - 1 = {i}
    BY <1>1
  <2> QED
    BY <1>1, <1>2, <2>1, <2>2 DEF HasMessageKey
<1>7. CASE ~(n + 1 > GroupKeys)
  BY <1>1, <1>4, <1>5, <1>6, <1>7 DEF Grown
<1>8. CASE n + 1 > GroupKeys
  <2> DEFINE rest == Tail(all)
  <2>1. AddMessageKey(keys, i) = rest
    BY <1>4, <1>8
  <2>2. /\ rest \in Seq(Nat) /\ Len(rest) = n /\ DOMAIN rest = 1 .. n
        /\ \A k \in 1 .. n : rest[k] = all[k + 1] /\ k + 1 \in 1 .. n + 1 /\ rest[k] \in Nat
    BY <1>1
  <2> HIDE DEF rest
  <2>3. Spread(rest, i + 1)
    <3>1. /\ \A j, k \in 1 .. n + 1 : j <= k => all[k] - all[j] >= k - j
          /\ \A j \in 1 .. n + 1 : all[j] < i + 1
      BY <1>1, <1>5 DEF Spread
    <3>2. ASSUME NEW j \in 1 .. n, NEW k \in 1 .. n, j <= k
          PROVE  rest[k] - rest[j] >= k - j
      <4>1. all[k + 1] - all[j + 1] >= (k + 1) - (j + 1)
        BY <1>1, <2>2, <3>1, <3>2
      <4> QED
        BY <1>1, <2>2, <4>1
    <3>3. \A j \in 1 .. n : rest[j] < i + 1
      BY <2>2, <3>1
    <3> QED
      BY <2>2, <3>2, <3>3 DEF Spread
  <2>4. \A c \in Nat : HasMessageKey(rest, c) => HasMessageKey(all, c)
    BY Zenon, <1>2, <2>2 DEF HasMessageKey
  <2>5. \A c \in Nat : HasMessageKey(all, c) /\ i + 1 - c <= GroupKeys => HasMessageKey(rest, c)
    <3> SUFFICES ASSUME NEW c \in Nat, HasMessageKey(all, c), i + 1 - c <= GroupKeys
                 PROVE  HasMessageKey(rest, c)
      OBVIOUS
    <3>1. PICK k \in 1 .. n + 1 : all[k] = c
      BY <1>2 DEF HasMessageKey
    <3>2. CASE k = 1
      <4>1. all[n + 1] - all[1] >= n + 1 - 1
        BY <1>1, <1>5 DEF Spread
      <4> QED
        BY <1>1, <1>8, <3>1, <3>2, <4>1, GroupAssumption
    <3>3. CASE k # 1
      <4>1. k - 1 \in 1 .. n /\ (k - 1) + 1 = k
        BY <1>1, <3>3
      <4>2. rest[k - 1] = c
        BY <2>2, <3>1, <4>1
      <4> QED
        BY <2>2, <4>1, <4>2 DEF HasMessageKey
    <3> QED
      BY <3>2, <3>3
  <2> QED
    BY <1>6, <2>1, <2>2, <2>3, <2>4, <2>5 DEF Grown
<1> QED
  BY <1>7, <1>8

(* The loop of group_cipher_get_sender_key                                 *)
LEMMA SkippedKeys ==
    ASSUME NEW st, NEW it \in Nat, st.iteration \in Nat, st.iteration <= it,
           st.keys \in Seq(Nat), Spread(st.keys, st.iteration)
    PROVE  Grown(st.keys, SkipKeys(st, it), st.iteration, it)
<1> DEFINE a == st.iteration
           K == st.keys
<1>1. PICK f : Loop(f, K, a, it) /\ SkipKeys(st, it) = f[it]
  BY SkipKeysLoop
<1>2. /\ a \in a .. it /\ f[a] = K
      /\ \A i \in a + 1 .. it : f[i] = AddMessageKey(f[i - 1], i - 1)
  BY <1>1 DEF Loop
<1> DEFINE I == {i \in Nat : i \in a .. it /\ ~Grown(K, f[i], a, i)}
<1>3. ASSUME I # {} PROVE FALSE
  <2> DEFINE i == Min(I)
  <2>1. i \in I /\ \A y \in I : i <= y
    BY <1>3, LeastNumber
  <2> HIDE DEF i
  <2>2. i \in Nat /\ i \in a .. it /\ ~Grown(K, f[i], a, i)
    BY <2>1
  <2>3. CASE i = a
    <3>1. \A c \in Nat : c \notin a .. a - 1
      OBVIOUS
    <3>2. Grown(K, K, a, a)
      BY <3>1 DEF Grown
    <3> QED
      BY <1>2, <2>2, <2>3, <3>2
  <2>4. CASE i # a
    <3> DEFINE p == i - 1
    <3>1. p \in Nat /\ p \in a .. it /\ p \notin I /\ i \in a + 1 .. it /\ i = p + 1
      BY <2>1, <2>2, <2>4
    <3> HIDE DEF p
    <3>2. Grown(K, f[p], a, p)
      BY <3>1
    <3>3. f[p] \in Seq(Nat) /\ Spread(f[p], p)
      BY <3>2 DEF Grown
    <3>4. Grown(f[p], AddMessageKey(f[p], p), p, i)
      BY <3>1, <3>3, AddedKey
    <3>5. f[i] = AddMessageKey(f[p], p)
      BY <1>2, <3>1 DEF p
    <3>6. \A c \in Nat : /\ c \in p .. i - 1 <=> c = p
                         /\ c \in a .. i - 1 <=> c \in a .. p - 1 \/ c = p
                         /\ i - c <= GroupKeys => p - c <= GroupKeys
      BY <3>1, GroupAssumption
    <3>7. Grown(K, f[i], a, i)
      <4>1. \A c \in Nat : HasMessageKey(f[i], c) => HasMessageKey(K, c) \/ c \in a .. i - 1
        BY <3>2, <3>4, <3>5, <3>6 DEF Grown
      <4>2. \A c \in Nat : ((HasMessageKey(K, c) \/ c \in a .. i - 1) /\ i - c <= GroupKeys)
                               => HasMessageKey(f[i], c)
        BY <3>2, <3>4, <3>5, <3>6 DEF Grown
      <4> QED
        BY <3>4, <3>5, <4>1, <4>2 DEF Grown
    <3> QED
      BY <2>2, <3>7
  <2> QED
    BY <2>3, <2>4
<1>4. it \in a .. it
  OBVIOUS
<1> QED
  BY <1>1, <1>3, <1>4

(* sender_key_state_remove_sender_message_key, for a key that is there     *)
LEMMA RemovedKey ==
    ASSUME NEW keys \in Seq(Nat), NEW it \in Nat, Spread(keys, it), NEW c \in Nat,
           HasMessageKey(keys, c)
    PROVE  /\ RemoveMessageKey(keys, c) \in Seq(Nat)
           /\ Len(RemoveMessageKey(keys, c)) = Len(keys) - 1
           /\ Spread(RemoveMessageKey(keys, c), it)
           /\ \A e \in Nat : HasMessageKey(RemoveMessageKey(keys, c), e)
                                 <=> HasMessageKey(keys, e) /\ e # c
<1> DEFINE n == Len(keys)
           I == {i \in 1 .. n : keys[i] = c}
           p == Min(I)
           R == Without(keys, p)
<1>1. n \in Nat /\ DOMAIN keys = 1 .. n /\ \A j \in 1 .. n : keys[j] \in Nat
  OBVIOUS
<1>2. \E i \in 1 .. n : keys[i] = c
  BY <1>1 DEF HasMessageKey
<1>4. p \in 1 .. n /\ keys[p] = c
  <2>1. I \in SUBSET Nat /\ I # {}
    BY <1>1, <1>2
  <2>2. p \in I
    BY <2>1, LeastNumber
  <2> QED
    BY <2>2
<1>3. RemoveMessageKey(keys, c) = R
  <2>1. FirstIndex(I) = p
    BY <1>2 DEF FirstIndex
  <2> QED
    BY <1>4, <2>1 DEF RemoveMessageKey
<1>5. /\ \A j, k \in 1 .. n : j <= k => keys[k] - keys[j] >= k - j
      /\ \A j \in 1 .. n : keys[j] < it
  BY DEF Spread
<1> HIDE DEF p, I
<1>6. /\ R \in Seq(Nat) /\ Len(R) = n - 1
      /\ \A j \in 1 .. n - 1 : R[j] = IF j < p THEN keys[j] ELSE keys[j + 1]
  <2> DEFINE A == SubSeq(keys, 1, p - 1)
             B == SubSeq(keys, p + 1, n)
  <2>1. /\ A \in Seq(Nat) /\ Len(A) = p - 1
        /\ \A j \in 1 .. p - 1 : A[j] = keys[j]
    BY <1>1, <1>4
  <2>2. /\ B \in Seq(Nat) /\ Len(B) = n - p
        /\ \A j \in 1 .. n - p : B[j] = keys[j + p]
    <3>1. p + 1 \in Int /\ n \in Int /\ \A j \in p + 1 .. n : keys[j] \in Nat
      BY <1>1, <1>4
    <3>2. /\ B \in Seq(Nat) /\ Len(B) = IF p + 1 <= n THEN n - (p + 1) + 1 ELSE 0
          /\ \A j \in 1 .. n - (p + 1) + 1 : B[j] = keys[(p + 1) + j - 1]
      BY <3>1, SubSeqProperties
    <3> HIDE DEF B, n
    <3>3. n - (p + 1) + 1 = n - p /\ (~(p + 1 <= n) => n - p = 0)
      BY <1>1, <1>4
    <3>4. \A j \in 1 .. n - p : (p + 1) + j - 1 = j + p
      BY <1>1, <1>4
    <3> QED
      BY <3>2, <3>3, <3>4
  <2>3. R = A \o B
    BY DEF Without
  <2> HIDE DEF A, B, R, n
  <2>4. /\ R \in Seq(Nat) /\ Len(R) = Len(A) + Len(B)
        /\ \A j \in 1 .. Len(A) + Len(B) : R[j] = IF j <= Len(A) THEN A[j] ELSE B[j - Len(A)]
    BY <2>1, <2>2, <2>3, ConcatProperties
  <2>5. ASSUME NEW j \in 1 .. n - 1 PROVE R[j] = IF j < p THEN keys[j] ELSE keys[j + 1]
    <3>1. j \in 1 .. Len(A) + Len(B) /\ (j <= Len(A) <=> j < p) /\ (j < p => j \in 1 .. p - 1)
      BY <1>1, <1>4, <2>1, <2>2
    <3>2. ~(j < p) => j - Len(A) \in 1 .. n - p /\ (j - Len(A)) + p = j + 1
      BY <1>1, <1>4, <2>1
    <3> QED
      BY <2>1, <2>2, <2>4, <3>1, <3>2
  <2>6. Len(R) = n - 1
    BY <1>1, <1>4, <2>1, <2>2, <2>4
  <2> QED
    BY <2>4, <2>5, <2>6
<1> HIDE DEF R, n
<1>7. n - 1 \in Nat /\ DOMAIN R = 1 .. n - 1
  BY <1>1, <1>4, <1>6
<1> DEFINE from(j) == IF j < p THEN j ELSE j + 1
<1>8. \A j \in 1 .. n - 1 : from(j) \in 1 .. n /\ from(j) # p /\ R[j] = keys[from(j)] /\ from(j) \in Nat
  BY <1>1, <1>4, <1>6, <1>7
<1>9. Spread(R, it)
  <2>1. ASSUME NEW j \in 1 .. n - 1, NEW k \in 1 .. n - 1, j <= k PROVE R[k] - R[j] >= k - j
    <3>1. from(j) <= from(k) /\ from(k) - from(j) >= k - j
      <4>1. j \in Nat /\ k \in Nat /\ p \in Nat
        BY <1>1, <1>4, <1>7
      <4> QED
        BY <2>1, <4>1
    <3> HIDE DEF from
    <3>2. keys[from(k)] - keys[from(j)] >= from(k) - from(j)
      BY <1>5, <1>8, <3>1
    <3>3. keys[from(k)] \in Nat /\ keys[from(j)] \in Nat /\ from(k) \in Nat /\ from(j) \in Nat
      BY <1>1, <1>8
    <3> QED
      <4>1. j \in Nat /\ k \in Nat
        BY <1>7
      <4>2. keys[from(k)] - keys[from(j)] >= k - j
        BY <3>1, <3>2, <3>3, <4>1, FartherStill
      <4> QED
        BY <1>8, <4>2
  <2>2. \A j \in 1 .. n - 1 : R[j] < it
    BY <1>5, <1>8
  <2> QED
    BY <1>6, <2>1, <2>2 DEF Spread
<1>10. \A e \in Nat : HasMessageKey(R, e) => HasMessageKey(keys, e) /\ e # c
  <2> SUFFICES ASSUME NEW e \in Nat, NEW j \in 1 .. n - 1, R[j] = e
               PROVE  HasMessageKey(keys, e) /\ e # c
    BY <1>7 DEF HasMessageKey
  <2>1. from(j) \in 1 .. n /\ from(j) # p /\ keys[from(j)] = e
    BY <1>8
  <2> HIDE DEF from
  <2>2. HasMessageKey(keys, e)
    BY <1>1, <2>1 DEF HasMessageKey
  <2>3. from(j) < p \/ p < from(j)
    BY <1>1, <1>4, <2>1
  <2>4. e # c
    <3>1. from(j) \in Nat /\ p \in Nat /\ keys[p] \in Nat
      BY <1>1, <1>4, <2>1
    <3>2. (from(j) <= p => keys[p] - e >= p - from(j)) /\ (p <= from(j) => e - keys[p] >= from(j) - p)
      BY <1>4, <1>5, <2>1
    <3> QED
      BY <1>4, <2>3, <3>1, <3>2
  <2> QED
    BY <2>2, <2>4
<1>11. \A e \in Nat : HasMessageKey(keys, e) /\ e # c => HasMessageKey(R, e)
  <2> SUFFICES ASSUME NEW e \in Nat, NEW k \in 1 .. n, keys[k] = e, e # c
               PROVE  HasMessageKey(R, e)
    BY <1>1 DEF HasMessageKey
  <2> DEFINE j == IF k < p THEN k ELSE k - 1
  <2>1. k # p
    BY <1>4
  <2>2. j \in 1 .. n - 1 /\ from(j) = k
    BY <1>1, <1>4, <2>1
  <2> HIDE DEF j, from
  <2> QED
    BY <1>7, <1>8, <2>2 DEF HasMessageKey
<1> QED
  BY <1>3, <1>6, <1>9, <1>10, <1>11 DEF n

----------------------------------------------------------------------------
(* The state that is found                                                 *)

(* sender_key_record_get_sender_key_state_by_id                            *)
LEMMA FoundState ==
    ASSUME NEW record \in Seq(KeyState), NEW id
    PROVE  /\ StateById(record, id) = 0 => \A i \in DOMAIN record : record[i].id # id
           /\ StateById(record, id) # 0 => FirstWith(record, StateById(record, id), id)
<1> DEFINE n == Len(record)
           I == {i \in 1 .. n : record[i].id = id}
<1>1. n \in Nat /\ DOMAIN record = 1 .. n
  OBVIOUS
<1>2. StateById(record, id) = IF I # {} THEN Min(I) ELSE 0
  BY DEF StateById, FirstIndex
<1>3. CASE I = {}
  BY <1>1, <1>2, <1>3
<1>4. CASE I # {}
  <2> DEFINE p == Min(I)
  <2>1. I \in SUBSET Nat
    BY <1>1
  <2>2. p \in I /\ \A y \in I : p <= y
    BY <1>4, <2>1, LeastNumber
  <2> HIDE DEF p
  <2>3. p \in 1 .. n /\ record[p].id = id
    BY <2>2
  <2>4. \A j \in 1 .. p - 1 : record[j].id # id
    BY <1>1, <2>2, <2>3
  <2>5. StateById(record, id) = p /\ p # 0
    BY <1>1, <1>2, <1>4, <2>3 DEF p
  <2> QED
    BY <1>1, <2>3, <2>4, <2>5 DEF FirstWith
<1> QED
  BY <1>3, <1>4

(* Only one state is the first with an id.                                 *)
LEMMA OneFirst ==
    ASSUME NEW record \in Seq(KeyState), NEW id, NEW i, NEW j,
           FirstWith(record, i, id), FirstWith(record, j, id)
    PROVE  i = j
<1>1. /\ i \in 1 .. Len(record) /\ j \in 1 .. Len(record) /\ Len(record) \in Nat
      /\ record[i].id = id /\ record[j].id = id
      /\ \A k \in 1 .. i - 1 : record[k].id # id
      /\ \A k \in 1 .. j - 1 : record[k].id # id
  BY DEF FirstWith
<1>2. ~(i < j) /\ ~(j < i)
  BY <1>1
<1> QED
  BY <1>1, <1>2

----------------------------------------------------------------------------
(* The steps of the sender                                                 *)

(* More messages were read.                                                *)
LEMMA KeptMore ==
    ASSUME NEW st, NEW from, NEW A, NEW B, KeptSince(st, from, A), A \subseteq B
    PROVE  KeptSince(st, from, B)
BY DEF KeptSince

(* The receiver's side is as it was, and a new message was not read.       *)
LEMMA SenderSide ==
    ASSUME GroupInv, SenderInv', GroupTypes', IdsAreSeeds', NumbersOK',
           theirs' = theirs, reads' = reads, installs' = installs, net \subseteq net',
           \A m \in Encrypted' : m \in Encrypted \/ reads[m.n] = 0
    PROVE  GroupInv'
<1>1. ListsOK' /\ SetUp'
  BY DEF GroupInv, ListsOK, SetUp
<1>2. ReadsPaid'
  <2> SUFFICES ASSUME NEW m \in Encrypted'
               PROVE  /\ reads[m.n] <= Len(installs[m.id])
                      /\ Open(theirs, m) => reads[m.n] < Len(installs[m.id])
    BY DEF ReadsPaid
  <2>1. CASE m \in Encrypted
    BY <2>1 DEF GroupInv, ReadsPaid
  <2>2. CASE reads[m.n] = 0
    <3>1. m.id \in 1 .. MaxChains
      BY DEF GroupTypes, GroupMessage
    <3>2. Len(installs[m.id]) \in Nat
      BY <3>1 DEF GroupInv, GroupTypes
    <3>3. Open(theirs, m) => Len(installs[m.id]) >= 1
      BY DEF GroupInv, SetUp, Open, FirstWith
    <3> QED
      BY <2>2, <3>2, <3>3
  <2> QED
    BY <2>1, <2>2
<1>3. SkippedKept'
  <2>1. \A id : ReadOf(net, reads, id) \subseteq ReadOf(net', reads', id)
    BY DEF ReadOf
  <2> QED
    BY <2>1, KeptMore DEF GroupInv, SkippedKept
<1> QED
  BY <1>1, <1>2, <1>3 DEF GroupInv

(* group_session_builder_create_session                                    *)
LEMMA CreateKeeps ==
    ASSUME GroupInv, CreateSession
    PROVE  GroupInv'
<1>1. SenderInv'
  BY NewChainOK DEF GroupInv
<1>2. /\ theirs' = theirs /\ reads' = reads /\ installs' = installs /\ net' = net
      /\ underway' = underway /\ count' = count
  BY DEF CreateSession
<1>3. Encrypted' = Encrypted
  BY <1>2 DEF Encrypted
<1> DEFINE st == IF mine = <<>> THEN NewKeyState(chains + 1, chains + 1, 0, TRUE) ELSE mine[1]
           d  == [id |-> st.id, seed |-> st.seed, iteration |-> st.iteration]
<1>4. /\ mine = <<>> => chains < MaxChains
      /\ mine' = IF mine = <<>> THEN <<st>> ELSE mine
      /\ chains' = IF mine = <<>> THEN chains + 1 ELSE chains
      /\ dists' = dists \cup {d}
  BY DEF CreateSession, SetKeyState
<1>5. st.id = st.seed /\ st.id \in 1 .. MaxChains /\ st.iteration \in Nat /\ st.seed \in Nat
  <2>1. CASE mine = <<>>
    <3>1. chains \in Nat /\ chains < MaxChains
      BY <1>4, <2>1 DEF GroupInv, SenderInv
    <3>2. st.id = chains + 1 /\ st.seed = chains + 1 /\ st.iteration = 0
      BY <2>1 DEF NewKeyState
    <3> HIDE DEF st
    <3> QED
      BY <3>1, <3>2, GroupAssumption
  <2>2. CASE mine # <<>>
    <3>1. st = mine[1] /\ \E s \in SenderState : mine = <<s>>
      BY <2>2 DEF GroupInv, SenderInv, OwnRecord
    <3> QED
      BY <2>2, <3>1 DEF GroupInv, IdsAreSeeds, SenderState
  <2> QED
    BY <2>1, <2>2
<1> HIDE DEF st
<1>6. d \in Distribution /\ d.id = d.seed
  BY <1>5 DEF Distribution
<1>7. mine' # <<>> => mine'[1].id = mine'[1].seed /\ mine'[1].id \in 1 .. MaxChains
  BY <1>4, <1>5 DEF GroupInv, IdsAreSeeds
<1> HIDE DEF d
<1>8. IdsAreSeeds'
  BY <1>2, <1>3, <1>4, <1>6, <1>7 DEF GroupInv, IdsAreSeeds
<1>9. GroupTypes'
  <2>1. chains' <= MaxChains
    BY <1>4, GroupAssumption DEF GroupInv, GroupTypes, SenderInv
  <2>2. dists' \subseteq Distribution
    BY <1>4, <1>6 DEF GroupInv, GroupTypes
  <2> QED
    BY <1>2, <1>3, <2>1, <2>2 DEF GroupInv, GroupTypes
<1>10. NumbersOK'
  BY <1>2, <1>3 DEF GroupInv, NumbersOK
<1> QED
  BY <1>1, <1>2, <1>3, <1>8, <1>9, <1>10, SenderSide

(* The key is deleted, or the message that was encrypted is handed out or  *)
(* lost.                                                                   *)
LEMMA HandedOver ==
    ASSUME GroupInv, SenderInv', mine' = mine \/ mine' = <<>>, chains' = chains, dists' = dists,
           theirs' = theirs, reads' = reads, installs' = installs, count' = count,
           net \subseteq net', net' \cup underway' \subseteq net \cup underway
    PROVE  GroupInv'
<1>1. Encrypted' \subseteq Encrypted
  BY DEF Encrypted
<1>2. GroupTypes'
  BY <1>1 DEF GroupInv, GroupTypes
<1>3. IdsAreSeeds'
  BY <1>1 DEF GroupInv, IdsAreSeeds
<1>4. NumbersOK'
  BY <1>1 DEF GroupInv, NumbersOK
<1> QED
  BY <1>1, <1>2, <1>3, <1>4, SenderSide

(* group_cipher_encrypt: the new message has a number of its own, and was  *)
(* not read.                                                               *)
LEMMA EncryptKeeps ==
    ASSUME GroupInv, Encrypt
    PROVE  GroupInv'
<1>1. SenderInv'
  BY EncryptOK DEF GroupInv
<1>2. PICK st \in SenderState : mine = <<st>>
  BY DEF Encrypt, GroupInv, SenderInv, OwnRecord
<1> DEFINE new == [n |-> count + 1, id |-> st.id, seed |-> st.seed, iteration |-> st.iteration]
<1>3. /\ underway = {} /\ underway' = {new} /\ count < MaxSent /\ count' = count + 1
      /\ net' = net /\ chains' = chains /\ theirs' = theirs /\ reads' = reads
      /\ installs' = installs /\ dists' = dists
  BY <1>2 DEF Encrypt
<1>4. mine'[1].id = st.id /\ mine'[1].seed = st.seed
  BY <1>2 DEF Encrypt, StoreNext, SenderState
<1>5. st.id = st.seed /\ st.id \in 1 .. MaxChains /\ st.iteration \in Nat /\ count \in Nat
  BY <1>2 DEF GroupInv, IdsAreSeeds, SenderState, GroupTypes
<1>6. /\ new.n = count + 1 /\ new.id = st.id /\ new.seed = st.id
      /\ new \in GroupMessage
  BY <1>3, <1>5, GroupAssumption DEF GroupMessage
<1> HIDE DEF new
<1>7. Encrypted' = Encrypted \cup {new}
  BY <1>3 DEF Encrypted
<1>8. reads[new.n] = 0
  <2>1. count + 1 \in 1 .. MaxSent /\ count + 1 > count
    BY <1>3, <1>5, GroupAssumption
  <2> QED
    BY <1>6, <2>1 DEF GroupInv, NumbersOK
<1>9. GroupTypes'
  BY <1>3, <1>5, <1>6, <1>7 DEF GroupInv, GroupTypes
<1>10. IdsAreSeeds'
  BY <1>3, <1>4, <1>5, <1>6, <1>7 DEF GroupInv, IdsAreSeeds
<1>11. NumbersOK'
  <2>1. \A m \in Encrypted : m.n \in Nat /\ m.n <= count /\ m.n # new.n
    BY <1>5, <1>6 DEF GroupInv, NumbersOK, GroupTypes, GroupMessage
  <2>2. \A m \in Encrypted' : m.n <= count'
    BY <1>3, <1>5, <1>6, <1>7, <2>1
  <2>3. \A m1, m2 \in Encrypted' : m1.n = m2.n => m1 = m2
    BY <1>7, <2>1 DEF GroupInv, NumbersOK
  <2>4. \A n \in 1 .. MaxSent : n > count' => reads'[n] = 0
    BY <1>3, <1>5, GroupAssumption DEF GroupInv, NumbersOK
  <2> QED
    BY <2>2, <2>3, <2>4 DEF NumbersOK
<1> QED
  BY <1>1, <1>3, <1>7, <1>8, <1>9, <1>10, <1>11, SenderSide

----------------------------------------------------------------------------
(* The steps of the receiver                                               *)

(* sender_key_record_add_sender_key_state: the new state is in front, the  *)
(* others move up by one, and those beyond the limit go.                   *)
LEMMA AddedState ==
    ASSUME NEW record \in Seq(KeyState), NEW st \in KeyState
    PROVE  /\ AddKeyState(record, st) \in Seq(KeyState)
           /\ \A i \in DOMAIN AddKeyState(record, st) :
                  \/ i = 1 /\ AddKeyState(record, st)[i] = st
                  \/ i > 1 /\ i - 1 \in DOMAIN record /\ AddKeyState(record, st)[i] = record[i - 1]
           /\ \A i \in DOMAIN record : i + 1 <= MaxStates
                  => AddKeyState(record, st)[i + 1] = record[i]
<1> DEFINE n   == Len(record)
           all == <<st>> \o record
           R   == AddKeyState(record, st)
<1>1. n \in Nat /\ DOMAIN record = 1 .. n
  OBVIOUS
<1>2. <<st>> \in Seq(KeyState) /\ Len(<<st>>) = 1 /\ <<st>>[1] = st
  OBVIOUS
<1>3. /\ all \in Seq(KeyState) /\ Len(all) = 1 + n
      /\ \A i \in 1 .. 1 + n : all[i] = IF i <= 1 THEN <<st>>[i] ELSE record[i - 1]
  BY <1>2, ConcatProperties
<1>4. \A i \in 1 .. 1 + n : all[i] = IF i = 1 THEN st ELSE record[i - 1]
  BY <1>1, <1>2, <1>3
<1>5. R = IF 1 + n > MaxStates THEN SubSeq(all, 1, MaxStates) ELSE all
  BY <1>3 DEF AddKeyState
<1> HIDE DEF all, n, R
<1>6. /\ R \in Seq(KeyState)
      /\ Len(R) = IF 1 + n > MaxStates THEN MaxStates ELSE 1 + n
      /\ \A i \in 1 .. Len(R) : i \in 1 .. 1 + n /\ R[i] = all[i]
  <2>1. CASE ~(1 + n > MaxStates)
    BY <1>1, <1>3, <1>5, <2>1
  <2>2. CASE 1 + n > MaxStates
    <3>1. \A i \in 1 .. MaxStates : i \in 1 .. 1 + n /\ all[i] \in KeyState
      BY <1>1, <1>3, <2>2, GroupAssumption
    <3>2. /\ R \in Seq(KeyState)
          /\ Len(R) = IF 1 <= MaxStates THEN MaxStates - 1 + 1 ELSE 0
          /\ \A i \in 1 .. MaxStates - 1 + 1 : R[i] = all[1 + i - 1]
      BY <1>5, <2>2, <3>1, SubSeqProperties, GroupAssumption
    <3>3. Len(R) = MaxStates /\ \A i \in 1 .. MaxStates : R[i] = all[i]
      BY <3>2, GroupAssumption
    <3> QED
      BY <2>2, <3>1, <3>2, <3>3
  <2> QED
    BY <2>1, <2>2
<1>7. DOMAIN R = 1 .. Len(R) /\ Len(R) \in Nat
  BY <1>6
<1>8. ASSUME NEW i \in DOMAIN R
      PROVE  \/ i = 1 /\ R[i] = st
             \/ i > 1 /\ i - 1 \in DOMAIN record /\ R[i] = record[i - 1]
  BY <1>1, <1>4, <1>6, <1>7
<1>9. ASSUME NEW i \in DOMAIN record, i + 1 <= MaxStates
      PROVE  R[i + 1] = record[i]
  <2>1. i + 1 \in 1 .. Len(R) /\ i + 1 \in 1 .. 1 + n /\ i + 1 # 1 /\ (i + 1) - 1 = i
    BY <1>1, <1>6, <1>9, GroupAssumption
  <2> QED
    BY <1>4, <1>6, <2>1
<1> QED
  BY <1>6, <1>8, <1>9 DEF R

(* group_session_builder_process_session                                   *)
LEMMA ProcessKeeps ==
    ASSUME GroupInv, NEW d \in dists, ProcessSession(d)
    PROVE  GroupInv'
<1> DEFINE st == NewKeyState(d.id, d.seed, d.iteration, FALSE)
<1>1. /\ theirs' = AddKeyState(theirs, st)
      /\ installs' = [installs EXCEPT ![d.id] = Append(@, d.iteration)]
      /\ mine' = mine /\ chains' = chains /\ net' = net /\ underway' = underway
      /\ count' = count /\ dists' = dists /\ reads' = reads
  BY DEF ProcessSession
<1>2. SenderInv'
  BY <1>1, NothingNew DEF GroupInv
<1>3. d.id \in 1 .. MaxChains /\ d.seed \in Nat /\ d.iteration \in Nat /\ d.seed = d.id
  BY DEF GroupInv, GroupTypes, Distribution, IdsAreSeeds
<1>4. /\ st \in KeyState /\ st.id = d.id /\ st.seed = d.seed /\ st.iteration = d.iteration
      /\ st.keys = <<>>
  BY <1>3 DEF NewKeyState, KeyState
<1> HIDE DEF st
<1>5. theirs \in Seq(KeyState) /\ installs \in [1 .. MaxChains -> Seq(Nat)]
  BY DEF GroupInv, GroupTypes
<1>6. /\ theirs' \in Seq(KeyState)
      /\ \A i \in DOMAIN theirs' :
            \/ i = 1 /\ theirs'[i] = st
            \/ i > 1 /\ i - 1 \in DOMAIN theirs /\ theirs'[i] = theirs[i - 1]
  BY <1>1, <1>4, <1>5, AddedState
<1>7. /\ installs' \in [1 .. MaxChains -> Seq(Nat)]
      /\ \A id \in 1 .. MaxChains : id # d.id => installs'[id] = installs[id]
      /\ Len(installs'[d.id]) = Len(installs[d.id]) + 1 /\ Len(installs[d.id]) \in Nat
      /\ Len(installs[d.id]) = 0 => installs'[d.id][1] = d.iteration
  <2>1. installs[d.id] \in Seq(Nat)
    BY <1>3, <1>5
  <2> DEFINE new == Append(installs[d.id], d.iteration)
  <2>2. /\ new \in Seq(Nat) /\ Len(new) = Len(installs[d.id]) + 1 /\ Len(installs[d.id]) \in Nat
        /\ new[Len(installs[d.id]) + 1] = d.iteration
    BY <1>3, <2>1
  <2>3. installs'[d.id] = new
    BY <1>1, <1>3, <1>5
  <2> HIDE DEF new
  <2>4. installs' = [installs EXCEPT ![d.id] = new]
    BY <1>1 DEF new
  <2> QED
    BY <1>3, <1>5, <2>2, <2>3, <2>4
<1>71. Len(installs'[d.id]) = 1 => Len(installs[d.id]) = 0
  <2> DEFINE x == Len(installs'[d.id])
             y == Len(installs[d.id])
  <2>1. x = y + 1 /\ y \in Nat
    BY <1>7
  <2> HIDE DEF x, y
  <2>2. x = 1 => y = 0
    BY <2>1
  <2> QED
    BY Zenon, <2>2 DEF x, y
<1>8. Encrypted' = Encrypted
  BY <1>1 DEF Encrypted
<1>9. \A i \in DOMAIN theirs : theirs[i].id \in 1 .. MaxChains /\ Len(installs[theirs[i].id]) \in Nat
  <2> SUFFICES ASSUME NEW i \in DOMAIN theirs
               PROVE  theirs[i].id \in 1 .. MaxChains /\ Len(installs[theirs[i].id]) \in Nat
    OBVIOUS
  <2>1. theirs[i] \in KeyState
    BY <1>5
  <2>2. theirs[i].id \in 1 .. MaxChains
    BY <2>1 DEF KeyState
  <2> QED
    BY <1>5, <2>2
<1>10. GroupTypes' /\ NumbersOK'
  BY <1>1, <1>6, <1>7, <1>8 DEF GroupInv, GroupTypes, NumbersOK
<1>11. IdsAreSeeds'
  BY <1>1, <1>3, <1>4, <1>6, <1>8 DEF GroupInv, IdsAreSeeds
<1>12. ListsOK'
  <2>1. Spread(st.keys, st.iteration)
    BY <1>4 DEF Spread
  <2> QED
    BY <1>6, <2>1 DEF GroupInv, ListsOK
<1>13. SetUp'
  <2>1. \A i \in DOMAIN theirs : Len(installs[theirs[i].id]) >= 1
    BY DEF GroupInv, SetUp
  <2>2. \A i \in DOMAIN theirs' : Len(installs'[theirs'[i].id]) >= 1
    <3> SUFFICES ASSUME NEW i \in DOMAIN theirs'
                 PROVE  Len(installs'[theirs'[i].id]) >= 1
      OBVIOUS
    <3> DEFINE id == theirs'[i].id
    <3>1. id = d.id \/ (id \in 1 .. MaxChains /\ id # d.id /\ Len(installs[id]) >= 1)
      BY <1>4, <1>6, <1>9, <2>1
    <3> HIDE DEF id
    <3>2. Len(installs'[id]) >= 1
      BY <1>7, <3>1
    <3> QED
      BY <3>2 DEF id
  <2>3. ASSUME NEW i \in DOMAIN theirs', NEW j \in DOMAIN theirs',
               theirs'[i].id = theirs'[j].id, Len(installs'[theirs'[i].id]) = 1
        PROVE  i = j
    <3>1. CASE theirs'[i].id = d.id
      <4>1. Len(installs[d.id]) = 0
        <5>1. Len(installs'[d.id]) = 1
          BY <2>3, <3>1
        <5> QED
          BY <1>71, <5>1
      <4>2. \A k \in DOMAIN theirs : theirs[k].id # d.id
        BY <2>1, <4>1
      <4> QED
        BY <1>6, <2>3, <3>1, <4>2
    <3>2. CASE theirs'[i].id # d.id
      <4>1. /\ i > 1 /\ i - 1 \in DOMAIN theirs /\ theirs'[i] = theirs[i - 1]
            /\ j > 1 /\ j - 1 \in DOMAIN theirs /\ theirs'[j] = theirs[j - 1]
        BY <1>4, <1>6, <2>3, <3>2
      <4>2. Len(installs[theirs[i - 1].id]) = 1
        BY <1>7, <1>9, <2>3, <3>2, <4>1
      <4>3. i - 1 = j - 1 /\ i \in Nat /\ j \in Nat
        BY <1>5, <1>6, <2>3, <4>1, <4>2 DEF GroupInv, SetUp
      <4> QED
        BY <4>3
    <3> QED
      BY <3>1, <3>2
  <2> QED
    BY <2>2, <2>3 DEF SetUp
<1>14. ReadsPaid'
  <2> SUFFICES ASSUME NEW m \in Encrypted
               PROVE  /\ reads[m.n] <= Len(installs'[m.id])
                      /\ Open(theirs', m) => reads[m.n] < Len(installs'[m.id])
    BY <1>1, <1>8 DEF ReadsPaid
  <2>1. m.id \in 1 .. MaxChains /\ reads[m.n] \in Nat
    BY DEF GroupInv, GroupTypes, GroupMessage
  <2>2. /\ reads[m.n] <= Len(installs[m.id])
        /\ Open(theirs, m) => reads[m.n] < Len(installs[m.id])
    BY DEF GroupInv, ReadsPaid
  <2>3. CASE m.id = d.id
    BY <1>7, <2>1, <2>2, <2>3
  <2>4. CASE m.id # d.id
    <3>1. ASSUME Open(theirs', m) PROVE Open(theirs, m)
      <4>1. PICK i \in DOMAIN theirs' : FirstWith(theirs', i, m.id) /\ HasKey(theirs'[i], m.iteration)
        BY <3>1 DEF Open
      <4>2. theirs'[i].id = m.id /\ \A j \in 1 .. i - 1 : theirs'[j].id # m.id
        BY <4>1 DEF FirstWith
      <4>3. i > 1 /\ i - 1 \in DOMAIN theirs /\ theirs'[i] = theirs[i - 1]
        BY <1>4, <1>6, <2>4, <4>2
      <4>4. DOMAIN theirs' = 1 .. Len(theirs') /\ Len(theirs') \in Nat
        BY <1>6
      <4>5. ASSUME NEW j \in 1 .. i - 1 - 1 PROVE theirs[j].id # m.id
        <5>1. j + 1 \in 1 .. i - 1 /\ j + 1 \in DOMAIN theirs' /\ j + 1 # 1 /\ (j + 1) - 1 = j
          BY <4>4
        <5>2. theirs'[j + 1] = theirs[j]
          BY <1>6, <5>1
        <5> QED
          BY <4>2, <5>1, <5>2
      <4>6. FirstWith(theirs, i - 1, m.id)
        BY <4>2, <4>3, <4>5 DEF FirstWith
      <4> QED
        BY <4>1, <4>3, <4>6 DEF Open
    <3> QED
      BY <1>7, <2>1, <2>2, <2>4, <3>1
  <2> QED
    BY <2>3, <2>4
<1>15. SkippedKept'
  <2> SUFFICES ASSUME NEW i \in DOMAIN theirs', Len(installs'[theirs'[i].id]) = 1
               PROVE  KeptSince(theirs'[i], installs'[theirs'[i].id][1], ReadOf(net, reads, theirs'[i].id))
    BY <1>1 DEF SkippedKept
  <2>1. CASE theirs'[i] = st
    <3>1. theirs'[i].id = d.id
      BY <1>4, <2>1
    <3>2. Len(installs'[d.id]) = 1
      BY <3>1
    <3>3. installs'[d.id][1] = d.iteration
      BY <1>7, <1>71, <3>2
    <3>4. KeptSince(st, d.iteration, ReadOf(net, reads, d.id))
      BY <1>3, <1>4 DEF KeptSince
    <3> QED
      BY <2>1, <3>1, <3>3, <3>4
  <2>2. CASE i > 1 /\ i - 1 \in DOMAIN theirs /\ theirs'[i] = theirs[i - 1]
    <3> DEFINE id == theirs'[i].id
    <3>1. id \in 1 .. MaxChains /\ Len(installs[id]) >= 1 /\ Len(installs[id]) \in Nat
      BY <1>9, <2>2 DEF GroupInv, SetUp
    <3>2. Len(installs'[id]) = 1
      OBVIOUS
    <3>3. id # d.id
      <4> HIDE DEF id
      <4>1. Len(installs[id]) # 0
        BY <3>1
      <4> QED
        BY <1>71, <3>2, <4>1
    <3>4. installs'[id] = installs[id]
      BY <1>7, <3>1, <3>3
    <3>5. KeptSince(theirs'[i], installs[id][1], ReadOf(net, reads, id))
      BY <2>2, <3>2, <3>4 DEF GroupInv, SkippedKept
    <3> QED
      BY <3>4, <3>5
  <2> QED
    BY <1>6, <2>1, <2>2
<1> QED
  BY <1>2, <1>10, <1>11, <1>12, <1>13, <1>14, <1>15 DEF GroupInv

(* The state after the key of an iteration was taken: that key is gone,    *)
(* no other one came up, and those that are kept are kept on.              *)
KeyTaken(st, new, it) ==
    /\ new \in KeyState /\ new.id = st.id /\ new.seed = st.seed
    /\ Spread(new.keys, new.iteration)
    /\ HasKey(st, it) /\ ~HasKey(new, it)
    /\ \A c \in Nat : HasKey(new, c) => HasKey(st, c)
    /\ \A from \in Nat : \A read : KeptSince(st, from, read) => KeptSince(new, from, read \cup {it})

(* group_cipher_get_sender_key                                             *)
LEMMA TakesKey ==
    ASSUME NEW st \in KeyState, Spread(st.keys, st.iteration), NEW it \in Nat,
           SenderKeyResult(st, it) = "ok"
    PROVE  KeyTaken(st, SenderKeyState(st, it), it)
<1> DEFINE new == SenderKeyState(st, it)
<1> SUFFICES KeyTaken(st, new, it)
  OBVIOUS
<1>1. st.keys \in Seq(Nat) /\ st.iteration \in Nat
  BY DEF KeyState
<1>2. CASE st.iteration > it
  <2>1. HasMessageKey(st.keys, it)
    BY <1>2 DEF SenderKeyResult
  <2> DEFINE R == RemoveMessageKey(st.keys, it)
  <2>2. /\ R \in Seq(Nat) /\ Spread(R, st.iteration)
        /\ \A e \in Nat : HasMessageKey(R, e) <=> HasMessageKey(st.keys, e) /\ e # it
    BY <1>1, <2>1, RemovedKey
  <2>3. new = [st EXCEPT !.keys = R]
    BY <1>2 DEF SenderKeyState
  <2> HIDE DEF R, new
  <2>4. /\ new.id = st.id /\ new.seed = st.seed /\ new.iteration = st.iteration
        /\ new.keys = R
    BY <2>3 DEF KeyState
  <2>5. new \in KeyState
    BY Zenon, <2>2, <2>3 DEF KeyState
  <2>6. HasKey(st, it) /\ ~HasKey(new, it)
    BY <1>1, <1>2, <2>1, <2>2, <2>4 DEF HasKey
  <2>7. \A c \in Nat : HasKey(new, c) => HasKey(st, c)
    BY <2>2, <2>4 DEF HasKey
  <2>8. ASSUME NEW from \in Nat, NEW read, KeptSince(st, from, read)
        PROVE  KeptSince(new, from, read \cup {it})
    <3>1. \A c \in from .. st.iteration - 1 : c \in Nat
      BY <1>1
    <3> QED
      BY <2>2, <2>4, <2>8, <3>1 DEF KeptSince
  <2> QED
    BY <2>2, <2>4, <2>5, <2>6, <2>7, <2>8 DEF KeyTaken
<1>3. CASE ~(st.iteration > it)
  <2> DEFINE R == SkipKeys(st, it)
             a == st.iteration
  <2>1. a <= it
    BY <1>1, <1>3
  <2>2. Grown(st.keys, R, a, it)
    BY <1>1, <2>1, SkippedKeys
  <2>3. new = [st EXCEPT !.keys = R, !.iteration = it + 1]
    BY <1>3 DEF SenderKeyState
  <2> HIDE DEF R, new
  <2>4. /\ new.id = st.id /\ new.seed = st.seed /\ new.iteration = it + 1
        /\ new.keys = R
    BY <2>3 DEF KeyState
  <2>5. R \in Seq(Nat) /\ Spread(R, it) /\ it + 1 \in Nat
    BY <2>2 DEF Grown
  <2>6. new \in KeyState
    BY Zenon, <2>3, <2>5 DEF KeyState
  <2>7. Len(R) \in Nat /\ DOMAIN R = 1 .. Len(R) /\ \A j \in 1 .. Len(R) : R[j] \in Nat /\ R[j] < it
    BY <2>5 DEF Spread
  <2>8. Spread(R, it + 1)
    BY <2>5, <2>7 DEF Spread
  <2>9. HasKey(st, it) /\ ~HasKey(new, it)
    BY <2>1, <2>4, <2>7 DEF HasKey, HasMessageKey
  <2>10. ASSUME NEW c \in Nat, HasKey(new, c) PROVE HasKey(st, c)
    <3>1. CASE it + 1 <= c
      BY <1>1, <2>1, <3>1 DEF HasKey
    <3>2. CASE HasMessageKey(R, c)
      <4>1. HasMessageKey(st.keys, c) \/ c \in a .. it - 1
        BY <2>2, <3>2 DEF Grown
      <4> QED
        BY <1>1, <4>1 DEF HasKey
    <3> QED
      BY <2>4, <2>10, <3>1, <3>2 DEF HasKey
  <2>11. ASSUME NEW from \in Nat, NEW read, KeptSince(st, from, read)
         PROVE  KeptSince(new, from, read \cup {it})
    <3>1. from <= it + 1
      BY <1>1, <2>1, <2>11 DEF KeptSince
    <3>2. ASSUME NEW c \in from .. it + 1 - 1, it + 1 - c <= GroupKeys
          PROVE  HasMessageKey(R, c) \/ c \in read \cup {it}
      <4>1. c \in Nat /\ it - c <= GroupKeys
        BY <3>2, GroupAssumption
      <4>2. CASE c = it
        BY <4>2
      <4>3. CASE c # it /\ c >= a
        <5>1. c \in a .. it - 1
          BY <1>1, <4>3
        <5> QED
          BY <2>2, <4>1, <5>1 DEF Grown
      <4>4. CASE c < a
        <5>1. c \in from .. a - 1 /\ a - c <= GroupKeys
          BY <1>1, <2>1, <4>1, <4>4, GroupAssumption
        <5>2. HasMessageKey(st.keys, c) \/ c \in read
          BY <2>11, <5>1 DEF KeptSince
        <5> QED
          BY <2>2, <4>1, <5>2 DEF Grown
      <4> QED
        BY <1>1, <4>1, <4>2, <4>3, <4>4
    <3> QED
      BY <2>4, <3>1, <3>2 DEF KeptSince
  <2> QED
    BY <2>4, <2>6, <2>8, <2>9, <2>10, <2>11 DEF KeyTaken
<1> QED
  BY <1>2, <1>3

(* group_cipher_decrypt, when the text was decrypted and the callback took *)
(* it                                                                      *)
LEMMA ReadKeeps ==
    ASSUME GroupInv, NEW m \in net, Decrypt(m, TRUE), DecryptResult(theirs, m) = "ok"
    PROVE  GroupInv'
<1> DEFINE i   == StateById(theirs, m.id)
           st  == theirs[i]
           new == SenderKeyState(st, m.iteration)
<1>1. theirs \in Seq(KeyState) /\ reads \in [1 .. MaxSent -> Nat] /\ m \in Encrypted
  BY DEF GroupInv, GroupTypes, Encrypted
<1>2. m.n \in 1 .. MaxSent /\ m.id \in 1 .. MaxChains /\ m.iteration \in Nat
  BY <1>1 DEF GroupInv, GroupTypes, GroupMessage
<1>3. i # 0 /\ SenderKeyResult(st, m.iteration) = "ok"
  BY DEF DecryptResult
<1>4. FirstWith(theirs, i, m.id)
  BY <1>1, <1>3, FoundState
<1>5. /\ theirs' = [theirs EXCEPT ![i] = new]
      /\ reads' = [reads EXCEPT ![m.n] = @ + 1]
      /\ mine' = mine /\ underway' = underway /\ count' = count /\ net' = net
      /\ dists' = dists /\ installs' = installs /\ chains' = chains
  BY DEF Decrypt, StoredRecord
<1> HIDE DEF i
<1>6. i \in DOMAIN theirs /\ st.id = m.id /\ st \in KeyState /\ Spread(st.keys, st.iteration)
  BY <1>1, <1>4 DEF FirstWith, GroupInv, ListsOK
<1>7. KeyTaken(st, new, m.iteration)
  BY <1>2, <1>3, <1>6, TakesKey
<1> HIDE DEF st, new
<1>8. /\ new \in KeyState /\ new.id = st.id /\ new.seed = st.seed
      /\ Spread(new.keys, new.iteration)
  BY <1>7 DEF KeyTaken
<1>9. /\ theirs' \in Seq(KeyState) /\ DOMAIN theirs' = DOMAIN theirs
      /\ theirs'[i] = new /\ \A j \in DOMAIN theirs : j # i => theirs'[j] = theirs[j]
  BY <1>1, <1>5, <1>6, <1>8
<1>10. \A j \in DOMAIN theirs : theirs'[j].id = theirs[j].id /\ theirs'[j].seed = theirs[j].seed
  BY <1>8, <1>9 DEF st
<1>11. /\ reads' \in [1 .. MaxSent -> Nat] /\ reads'[m.n] = reads[m.n] + 1
       /\ \A n \in 1 .. MaxSent : n # m.n => reads'[n] = reads[n]
       /\ \A n \in 1 .. MaxSent : reads[n] \in Nat
  BY <1>1, <1>2, <1>5
<1>12. Encrypted' = Encrypted
  BY <1>5 DEF Encrypted
<1>13. SenderInv'
  BY <1>5, NothingNew DEF GroupInv
<1>14. GroupTypes'
  BY <1>5, <1>9, <1>11, <1>12 DEF GroupInv, GroupTypes
<1>15. IdsAreSeeds'
  BY <1>5, <1>9, <1>10, <1>12 DEF GroupInv, IdsAreSeeds
<1>16. NumbersOK'
  <2>1. m.n <= count /\ m.n \in Nat /\ count \in Nat
    BY <1>1, <1>2 DEF GroupInv, NumbersOK, GroupTypes
  <2>2. ASSUME NEW n \in 1 .. MaxSent, n > count PROVE reads'[n] = 0
    <3>1. n # m.n
      BY <2>1, <2>2
    <3> QED
      BY <1>11, <2>2, <3>1 DEF GroupInv, NumbersOK
  <2> QED
    BY <1>5, <1>12, <2>2 DEF GroupInv, NumbersOK
<1>17. ListsOK'
  BY <1>8, <1>9 DEF GroupInv, ListsOK
<1>18. SetUp'
  BY <1>5, <1>9, <1>10 DEF GroupInv, SetUp
<1>19. \A j, id : FirstWith(theirs', j, id) <=> FirstWith(theirs, j, id)
  <2>1. DOMAIN theirs = 1 .. Len(theirs) /\ Len(theirs) \in Nat
    BY <1>1
  <2>2. \A j \in DOMAIN theirs : \A k \in 1 .. j - 1 : k \in DOMAIN theirs
    BY <2>1
  <2> QED
    BY <1>9, <1>10, <2>2 DEF FirstWith
<1>20. ReadsPaid'
  <2> SUFFICES ASSUME NEW x \in Encrypted
               PROVE  /\ reads'[x.n] <= Len(installs[x.id])
                      /\ Open(theirs', x) => reads'[x.n] < Len(installs[x.id])
    BY <1>5, <1>12 DEF ReadsPaid
  <2>1. x.id \in 1 .. MaxChains /\ x.n \in 1 .. MaxSent /\ x.iteration \in Nat
    BY DEF GroupInv, GroupTypes, GroupMessage
  <2>2. Len(installs[x.id]) \in Nat
    BY <2>1 DEF GroupInv, GroupTypes
  <2>3. /\ reads[x.n] <= Len(installs[x.id])
        /\ Open(theirs, x) => reads[x.n] < Len(installs[x.id])
    BY DEF GroupInv, ReadsPaid
  <2>4. CASE x = m
    <3>1. Open(theirs, m)
      BY <1>4, <1>6, <1>7 DEF Open, KeyTaken, st
    <3>2. ~Open(theirs', m)
      <4> SUFFICES ASSUME NEW j \in DOMAIN theirs', FirstWith(theirs', j, m.id),
                          HasKey(theirs'[j], m.iteration)
                   PROVE  FALSE
        BY DEF Open
      <4>1. j = i
        BY <1>1, <1>4, <1>19, OneFirst
      <4> QED
        BY <1>7, <1>9, <4>1 DEF KeyTaken
    <3>3. reads[m.n] < Len(installs[m.id]) /\ reads[m.n] \in Nat /\ Len(installs[m.id]) \in Nat
      BY <1>2, <1>11, <2>2, <2>3, <2>4, <3>1
    <3>4. reads'[m.n] <= Len(installs[m.id])
      <4> DEFINE a == reads[m.n]
                 b == Len(installs[m.id])
      <4>1. a < b /\ a \in Nat /\ b \in Nat
        BY <3>3
      <4> HIDE DEF a, b
      <4>2. a + 1 <= b
        BY <4>1
      <4> QED
        BY <1>11, <4>2 DEF a, b
    <3> QED
      BY <2>4, <3>2, <3>4
  <2>5. CASE x # m
    <3>1. x.n # m.n
      BY <1>1, <2>5 DEF GroupInv, NumbersOK
    <3>2. reads'[x.n] = reads[x.n]
      BY <1>11, <2>1, <3>1
    <3>3. ASSUME Open(theirs', x) PROVE Open(theirs, x)
      <4>1. PICK j \in DOMAIN theirs' : FirstWith(theirs', j, x.id) /\ HasKey(theirs'[j], x.iteration)
        BY <3>3 DEF Open
      <4>2. j \in DOMAIN theirs /\ FirstWith(theirs, j, x.id)
        BY <1>9, <1>19, <4>1
      <4>3. HasKey(theirs[j], x.iteration)
        <5>1. CASE j = i
          BY <1>7, <1>9, <2>1, <4>1, <5>1 DEF KeyTaken, st
        <5>2. CASE j # i
          BY <1>9, <4>1, <4>2, <5>2
        <5> QED
          BY <5>1, <5>2
      <4> QED
        BY <4>2, <4>3 DEF Open
    <3> QED
      BY <2>3, <3>2, <3>3
  <2> QED
    BY <2>4, <2>5
<1>21. SkippedKept'
  <2> SUFFICES ASSUME NEW j \in DOMAIN theirs, Len(installs[theirs'[j].id]) = 1
               PROVE  KeptSince(theirs'[j], installs[theirs'[j].id][1],
                                ReadOf(net, reads', theirs'[j].id))
    BY <1>5, <1>9 DEF SkippedKept
  <2>1. theirs'[j].id = theirs[j].id
    BY <1>10
  <2> DEFINE id == theirs[j].id
  <2>2. Len(installs[id]) = 1
    BY <2>1
  <2>3. KeptSince(theirs[j], installs[id][1], ReadOf(net, reads, id))
    BY <2>2 DEF GroupInv, SkippedKept
  <2>4. \A x \in net : x.n \in 1 .. MaxSent /\ (reads[x.n] > 0 => reads'[x.n] > 0)
    <3> SUFFICES ASSUME NEW x \in net
                 PROVE  x.n \in 1 .. MaxSent /\ (reads[x.n] > 0 => reads'[x.n] > 0)
      OBVIOUS
    <3>1. x.n \in 1 .. MaxSent
      BY DEF GroupInv, GroupTypes, GroupMessage, Encrypted
    <3>2. reads'[x.n] = reads[x.n] \/ reads'[x.n] = reads[x.n] + 1
      BY <1>11, <3>1
    <3>3. reads[x.n] \in Nat
      BY <1>11, <3>1
    <3> QED
      BY <3>1, <3>2, <3>3
  <2>5. ReadOf(net, reads, id) \subseteq ReadOf(net, reads', id)
    BY <2>4 DEF ReadOf
  <2>6. CASE j # i
    BY <1>9, <2>1, <2>3, <2>5, <2>6, KeptMore
  <2>7. CASE j = i
    <3>1. id = m.id /\ theirs[j] = st /\ theirs'[j] = new
      BY <1>6, <1>9, <2>7 DEF st
    <3>2. reads'[m.n] > 0
      BY <1>2, <1>11
    <3>3. m.iteration \in ReadOf(net, reads', id)
      BY <3>1, <3>2 DEF ReadOf
    <3>4. installs[id][1] \in Nat
      <4>1. id \in 1 .. MaxChains /\ installs \in [1 .. MaxChains -> Seq(Nat)]
        BY <1>2, <3>1 DEF GroupInv, GroupTypes
      <4>2. installs[id] \in Seq(Nat)
        BY <4>1
      <4> HIDE DEF id
      <4> QED
        BY <2>2, <4>2
    <3>5. KeptSince(new, installs[id][1], ReadOf(net, reads, id) \cup {m.iteration})
      <4>1. KeptSince(st, installs[id][1], ReadOf(net, reads, id))
        BY <2>3, <3>1
      <4> HIDE DEF id
      <4> QED
        BY Zenon, <1>7, <3>4, <4>1 DEF KeyTaken
    <3>6. ReadOf(net, reads, id) \cup {m.iteration} \subseteq ReadOf(net, reads', id)
      BY <2>5, <3>3
    <3>7. KeptSince(new, installs[id][1], ReadOf(net, reads', id))
      <4> HIDE DEF id
      <4> QED
        BY <3>5, <3>6, KeptMore
    <3> QED
      BY <2>1, <3>1, <3>7
  <2> QED
    BY <2>6, <2>7
<1> QED
  BY <1>13, <1>14, <1>15, <1>16, <1>17, <1>18, <1>20, <1>21 DEF GroupInv

(* group_cipher_decrypt: unless the text was decrypted and taken, nothing  *)
(* is stored.                                                              *)
LEMMA DecryptKeeps ==
    ASSUME GroupInv, NEW m \in net, NEW taken \in BOOLEAN, Decrypt(m, taken)
    PROVE  GroupInv'
<1>1. CASE taken = TRUE /\ DecryptResult(theirs, m) = "ok"
  BY <1>1, ReadKeeps
<1>2. CASE ~(taken = TRUE /\ DecryptResult(theirs, m) = "ok")
  <2>1. UNCHANGED groupVars
    BY <1>2 DEF Decrypt, StoredRecord, groupVars
  <2>2. SenderInv'
    BY <2>1, NothingNew DEF GroupInv, groupVars
  <2> QED
    BY <2>1, <2>2, HandedOver DEF groupVars
<1> QED
  BY <1>1, <1>2

(* The invariant holds in the beginning.                                   *)
LEMMA GroupStarts ==
    ASSUME GroupInit
    PROVE  GroupInv
<1>1. SenderInv
  BY DEF GroupInit, SenderInv, OwnRecord, ChainAhead, Encrypted, GroupKeysUsedOnce
<1>2. /\ theirs = <<>> /\ mine = <<>> /\ dists = {} /\ Encrypted = {}
      /\ chains = 0 /\ count = 0
  BY DEF GroupInit, Encrypted
<1>3. DOMAIN theirs = {} /\ theirs \in Seq(KeyState)
  BY <1>2
<1>4. reads \in [1 .. MaxSent -> Nat] /\ \A n \in 1 .. MaxSent : reads[n] = 0
  BY DEF GroupInit
<1>5. installs \in [1 .. MaxChains -> Seq(Nat)]
  BY DEF GroupInit
<1>6. GroupTypes
  BY <1>2, <1>3, <1>4, <1>5, GroupAssumption DEF GroupTypes
<1>7. IdsAreSeeds /\ NumbersOK
  BY <1>2, <1>3, <1>4 DEF IdsAreSeeds, NumbersOK
<1>8. ListsOK /\ SetUp /\ ReadsPaid /\ SkippedKept
  BY <1>2, <1>3 DEF ListsOK, SetUp, ReadsPaid, SkippedKept
<1> QED
  BY <1>1, <1>6, <1>7, <1>8 DEF GroupInv

(* Every step of Group keeps the invariant.                                *)
LEMMA GroupStep ==
    ASSUME GroupInv, [GroupNext]_groupVars
    PROVE  GroupInv'
<1>1. SenderInv'
  BY SenderStep DEF GroupInv
<1>2. CASE CreateSession
  BY <1>2, CreateKeeps
<1>3. CASE Forget
  BY <1>1, <1>3, HandedOver DEF Forget
<1>4. CASE Encrypt
  BY <1>4, EncryptKeeps
<1>5. CASE \E sent \in BOOLEAN : Return(sent)
  BY <1>1, <1>5, HandedOver DEF Return
<1>6. CASE \E d \in dists : ProcessSession(d)
  BY <1>6, ProcessKeeps
<1>7. CASE \E m \in net, taken \in BOOLEAN : Decrypt(m, taken)
  BY <1>7, DecryptKeeps
<1>8. CASE UNCHANGED groupVars
  BY <1>1, <1>8, HandedOver DEF groupVars
<1> QED
  BY <1>2, <1>3, <1>4, <1>5, <1>6, <1>7, <1>8 DEF GroupNext

(* What the invariant says of a message that was not read.                 *)
LEMMA UnreadFound ==
    ASSUME GroupInv
    PROVE  UnreadGroupReadable
<1> SUFFICES ASSUME NEW m \in net, NEW i \in DOMAIN theirs,
                    theirs[i].id = m.id, Len(installs[m.id]) = 1, reads[m.n] = 0,
                    m.iteration >= installs[m.id][1],
                    m.iteration - theirs[i].iteration <= GroupSkip,
                    theirs[i].iteration - m.iteration <= GroupKeys
             PROVE  DecryptResult(theirs, m) = "ok"
  BY DEF UnreadGroupReadable
<1> DEFINE st == theirs[i]
           p  == StateById(theirs, m.id)
<1>1. theirs \in Seq(KeyState) /\ m \in Encrypted
  BY DEF GroupInv, GroupTypes, Encrypted
<1>2. p # 0 /\ FirstWith(theirs, p, m.id)
  BY <1>1, FoundState
<1> HIDE DEF p
<1>3. p = i
  BY <1>2 DEF FirstWith, GroupInv, SetUp
<1>4. theirs # <<>> /\ st.seed = m.seed
  BY <1>1 DEF GroupInv, IdsAreSeeds
<1>5. st \in KeyState /\ st.iteration \in Nat /\ m.iteration \in Nat /\ m.id \in 1 .. MaxChains
  <2>1. st \in KeyState
    BY <1>1
  <2>2. st.iteration \in Nat
    BY <2>1 DEF KeyState
  <2>3. m \in GroupMessage
    BY <1>1 DEF GroupInv, GroupTypes
  <2> QED
    BY <2>1, <2>2, <2>3 DEF GroupMessage
<1>6. KeptSince(st, installs[m.id][1], ReadOf(net, reads, m.id))
  BY DEF GroupInv, SkippedKept
<1>7. m.iteration \notin ReadOf(net, reads, m.id)
  <2> SUFFICES ASSUME NEW x \in net, x.id = m.id, reads[x.n] > 0, x.iteration = m.iteration
               PROVE  FALSE
    BY DEF ReadOf
  <2>1. x.seed = m.seed
    BY DEF GroupInv, IdsAreSeeds, Encrypted
  <2>2. x = m
    BY <2>1 DEF GroupInv, SenderInv, GroupKeysUsedOnce
  <2> QED
    BY <2>2
<1>8. SenderKeyResult(st, m.iteration) = "ok"
  <2>1. CASE st.iteration > m.iteration
    <3>1. installs[m.id][1] \in Nat
      <4>1. installs[m.id] \in Seq(Nat)
        BY <1>5 DEF GroupInv, GroupTypes
      <4> QED
        BY <4>1
    <3>2. m.iteration \in installs[m.id][1] .. st.iteration - 1
      BY <1>5, <2>1, <3>1
    <3>3. HasMessageKey(st.keys, m.iteration)
      BY <1>6, <1>7, <3>2 DEF KeptSince
    <3> QED
      BY <2>1, <3>3 DEF SenderKeyResult
  <2>2. CASE ~(st.iteration > m.iteration)
    BY <1>5, <2>2, GroupAssumption DEF SenderKeyResult
  <2> QED
    BY <2>1, <2>2
<1> QED
  BY <1>2, <1>3, <1>4, <1>8 DEF DecryptResult, p

(* GroupInv holds in every state, for all limits.                          *)
THEOREM GroupInvariant == GroupSpec => []GroupInv
<1>1. GroupInit => GroupInv
  BY GroupStarts
<1>2. GroupInv /\ [GroupNext]_groupVars => GroupInv'
  BY GroupStep
<1> QED
  BY <1>1, <1>2, PTL DEF GroupSpec

(* A message is read at most once for each time that its chain was set up, *)
(* whatever is lost, repeated or reordered, and for all limits.            *)
THEOREM GroupReadsBounded == GroupSpec => []ReadsBounded
<1>1. GroupInv => ReadsBounded
  BY DEF GroupInv, ReadsPaid, ReadsBounded, Encrypted
<1> QED
  BY <1>1, GroupInvariant, PTL

(* A message of a chain that was set up once is read or can be read, as    *)
(* long as it is within the limits of group_cipher_get_sender_key and      *)
(* sender_key_state_add_sender_message_key.                                *)
THEOREM GroupUnreadReadable == GroupSpec => []UnreadGroupReadable
<1>1. GroupInv => UnreadGroupReadable
  BY UnreadFound
<1> QED
  BY <1>1, GroupInvariant, PTL

(* sender_key_record_add_sender_key_state never drops a state that was set *)
(* up among the last MaxStates.                                            *)
THEOREM GroupNewestKept == GroupSpec => NewestKept
<1> DEFINE Kept == \A i \in 1 .. MaxStates - 1 :
                       (i \in DOMAIN theirs /\ Len(theirs') > 0 /\ installs' # installs)
                           => theirs'[i + 1] = theirs[i]
<1>1. GroupInv /\ [GroupNext]_groupVars => [Kept]_groupVars
  <2> SUFFICES ASSUME GroupInv, GroupNext, NEW i \in 1 .. MaxStates - 1, i \in DOMAIN theirs,
                      installs' # installs
               PROVE  theirs'[i + 1] = theirs[i]
    OBVIOUS
  <2>1. PICK d \in dists : ProcessSession(d)
    BY DEF GroupNext, CreateSession, Forget, Encrypt, Return, Decrypt
  <2> DEFINE st == NewKeyState(d.id, d.seed, d.iteration, FALSE)
  <2>2. theirs' = AddKeyState(theirs, st)
    BY <2>1 DEF ProcessSession
  <2>3. st \in KeyState
    <3>1. d.id \in 1 .. MaxChains /\ d.seed \in Nat /\ d.iteration \in Nat
      BY DEF GroupInv, GroupTypes, Distribution
    <3> QED
      BY <3>1 DEF NewKeyState, KeyState
  <2>4. theirs \in Seq(KeyState) /\ i + 1 <= MaxStates
    BY GroupAssumption DEF GroupInv, GroupTypes
  <2> HIDE DEF st
  <2> QED
    BY <2>2, <2>3, <2>4, AddedState
<1> QED
  BY <1>1, GroupInvariant, PTL DEF GroupSpec, NewestKept

=============================================================================
