---------------------------- MODULE LibraryProofs --------------------------
(***************************************************************************)
(* Proofs about Vpool and Ownership.                                       *)
(*                                                                         *)
(* Vpool, for any block size, limit and data and any number of calls: the  *)
(* pool holds what its caller put there.  A block m holds the sequence s   *)
(* from position g on if m[g + i] is s[i]; every way of moving data is     *)
(* shown to keep that, place by place.                                     *)
(*                                                                         *)
(* Ownership, for any limit of archived states and any number of objects:  *)
(* the heap is known exactly, one reference for each object that the       *)
(* record holds or that was left behind, none for the others.              *)
(***************************************************************************)
EXTENDS Vpool, Ownership, FiniteSetTheorems, SequenceTheorems,
        WellFoundedInduction, TLAPS

Values == Seq(Int)

(* The block m holds the sequence s, after g other places.                 *)
Holds(m, g, s) ==
    /\ g + Len(s) <= Len(m)
    /\ \A i \in 1 .. Len(s) : m[g + i] = s[i]

(* A part of a sequence, place by place.                                   *)
LEMMA Slice ==
    ASSUME NEW s \in Values, NEW a \in Nat, NEW b \in Nat, a <= b, b <= Len(s)
    PROVE  /\ SubSeq(s, a + 1, b) \in Values /\ Len(SubSeq(s, a + 1, b)) = b - a
           /\ \A i \in 1 .. b - a : SubSeq(s, a + 1, b)[i] = s[a + i]
<1>1. a + 1 \in 1 .. Len(s) + 1 /\ b \in (a + 1) - 1 .. Len(s) /\ Len(s) \in Nat
  BY DEF Values
<1>2. /\ SubSeq(s, a + 1, b) \in Seq(Int)
      /\ Len(SubSeq(s, a + 1, b)) = b - (a + 1) + 1
      /\ \A i \in 1 .. b - (a + 1) + 1 : SubSeq(s, a + 1, b)[i] = s[(a + 1) + i - 1]
  BY <1>1, SubSeqProperties DEF Values
<1> QED
  BY <1>1, <1>2 DEF Values

(* Two sequences, one after the other, place by place.                     *)
LEMMA Joined ==
    ASSUME NEW s \in Values, NEW t \in Values
    PROVE  /\ s \o t \in Values /\ Len(s \o t) = Len(s) + Len(t)
           /\ \A i \in 1 .. Len(s) : (s \o t)[i] = s[i]
           /\ \A i \in 1 .. Len(t) : (s \o t)[Len(s) + i] = t[i]
<1>1. Len(s) \in Nat /\ Len(t) \in Nat
  BY DEF Values
<1>2. /\ s \o t \in Seq(Int) /\ Len(s \o t) = Len(s) + Len(t)
      /\ \A i \in 1 .. Len(s) + Len(t) :
            (s \o t)[i] = IF i <= Len(s) THEN s[i] ELSE t[i - Len(s)]
  BY ConcatProperties DEF Values
<1> QED
  BY <1>1, <1>2 DEF Values

(* What is held is a part of the block.                                    *)
LEMMA HeldPart ==
    ASSUME NEW m \in Values, NEW g \in Nat, NEW s \in Values, NEW n \in Nat, n = Len(s),
           Holds(m, g, s)
    PROVE  SubSeq(m, g + 1, g + n) = s
<1>1. Len(m) \in Nat /\ g + n \in Nat /\ g + n <= Len(m)
  BY DEF Values, Holds
<1>2. /\ SubSeq(m, g + 1, g + n) \in Values /\ Len(SubSeq(m, g + 1, g + n)) = n
      /\ \A i \in 1 .. n : SubSeq(m, g + 1, g + n)[i] = m[g + i]
  BY <1>1, Slice
<1>3. \A i \in 1 .. n : SubSeq(m, g + 1, g + n)[i] = s[i]
  BY <1>2 DEF Holds
<1> QED
  BY <1>2, <1>3, SeqEqual DEF Values

(* memmove and memcpy within a block, place by place.                      *)
LEMMA Overwritten ==
    ASSUME NEW m \in Values, NEW p \in Nat, NEW data \in Values, p + Len(data) <= Len(m)
    PROVE  /\ Overwrite(m, p, data) \in Values /\ Len(Overwrite(m, p, data)) = Len(m)
           /\ \A i \in 1 .. Len(data) : Overwrite(m, p, data)[p + i] = data[i]
           /\ \A i \in 1 .. Len(m) :
                 (i <= p \/ i > p + Len(data)) => Overwrite(m, p, data)[i] = m[i]
<1>1. /\ Len(m) \in Nat /\ Len(data) \in Nat /\ DOMAIN m = 1 .. Len(m)
      /\ \A i \in 1 .. Len(m) : m[i] \in Int
      /\ \A i \in 1 .. Len(data) : data[i] \in Int
  BY DEF Values
<1>2. Overwrite(m, p, data) =
        [i \in 1 .. Len(m) |-> IF i \in p + 1 .. p + Len(data) THEN data[i - p] ELSE m[i]]
  BY <1>1 DEF Overwrite
<1>3. \A i \in 1 .. Len(m) :
        (IF i \in p + 1 .. p + Len(data) THEN data[i - p] ELSE m[i]) \in Int
  BY <1>1
<1>4. Overwrite(m, p, data) \in Seq(Int) /\ Len(Overwrite(m, p, data)) = Len(m)
  BY <1>1, <1>2, <1>3
<1>5. \A i \in 1 .. Len(data) : p + i \in 1 .. Len(m) /\ p + i \in p + 1 .. p + Len(data)
                                 /\ (p + i) - p = i
  BY <1>1
<1> QED
  BY <1>1, <1>2, <1>4, <1>5 DEF Values

----------------------------------------------------------------------------
(* The types of the variables.                                             *)
PoolTypes ==
    /\ mem \in Values /\ gap \in Nat /\ off \in Nat /\ ideal \in Values
    /\ exported.block \in Values /\ exported.size \in Nat /\ wanted \in Values
    /\ ops \in Nat

(* What the pool holds and what it has handed out, place by place.         *)
PoolInv ==
    /\ PoolTypes
    /\ Len(mem) <= Limit /\ off = Len(ideal) /\ Holds(mem, gap, ideal)
    /\ exported.size = Len(wanted) /\ Holds(exported.block, 0, wanted)

(* vpool_new_size finds room for the data, within the limit.               *)
LEMMA NewSizeFits ==
    ASSUME PoolInv, NEW n \in Nat, ~(n > Len(mem) - off /\ Limit - off < n)
    PROVE  /\ NewSize(n) \in Nat /\ NewSize(n) <= Limit
           /\ NewSize(n) >= off + n /\ NewSize(n) >= Len(mem)
<1> DEFINE need == off + n
           rem  == need % BlkSize
<1>1. off \in Nat /\ Len(mem) \in Nat /\ Len(mem) <= Limit
  BY DEF PoolInv, PoolTypes, Values
<1>2. rem \in 0 .. BlkSize - 1
  BY <1>1, PoolAssumption
<1>3. NewSize(n) = IF n <= Len(mem) - off THEN Len(mem)
                   ELSE IF Limit - off < n THEN 0
                   ELSE IF rem = 0 THEN need
                   ELSE IF Limit - off >= n + (BlkSize - rem) THEN need + BlkSize - rem
                   ELSE Limit
  BY DEF NewSize
<1> HIDE DEF rem
<1> QED
  BY <1>1, <1>2, <1>3, PoolAssumption

(* Data that is moved to the front of a block.                             *)
LEMMA MovedToFront ==
    ASSUME PoolInv, NEW rest \in Values
    PROVE  /\ Contents = ideal /\ Contents \o rest \in Values
           /\ Len(Contents \o rest) = off + Len(rest) /\ Holds(Contents \o rest, 0, ideal)
<1>1. /\ mem \in Values /\ gap \in Nat /\ off \in Nat /\ ideal \in Values
      /\ off = Len(ideal) /\ Holds(mem, gap, ideal) /\ Len(rest) \in Nat
  BY DEF PoolInv, PoolTypes, Values
<1>2. Contents = ideal
  BY <1>1, HeldPart DEF Contents
<1>3. /\ ideal \o rest \in Values /\ Len(ideal \o rest) = off + Len(rest)
      /\ \A i \in 1 .. Len(ideal) : (ideal \o rest)[i] = ideal[i]
  BY <1>1, Joined
<1>4. \A i \in 1 .. Len(ideal) : 0 + i = i
  BY <1>1
<1> QED
  BY <1>1, <1>2, <1>3, <1>4 DEF Holds

(* vpool_resize: afterwards there is room for the data, and what was there *)
(* still is.                                                               *)
LEMMA ResizedHolds ==
    ASSUME PoolInv, NEW n \in Nat, ~(n > Len(mem) - off /\ Limit - off < n)
    PROVE  /\ Resized(n).mem \in Values /\ Resized(n).gap \in Nat
           /\ Len(Resized(n).mem) <= Limit
           /\ Resized(n).gap + off + n <= Len(Resized(n).mem)
           /\ Holds(Resized(n).mem, Resized(n).gap, ideal)
<1> DEFINE size == NewSize(n)
<1>1. /\ size \in Nat /\ size <= Limit /\ size >= off + n /\ size >= Len(mem)
  BY NewSizeFits
<1>2. /\ mem \in Values /\ gap \in Nat /\ off \in Nat /\ ideal \in Values /\ Len(mem) \in Nat
      /\ off = Len(ideal) /\ Holds(mem, gap, ideal) /\ gap + off <= Len(mem) /\ Len(mem) <= Limit
  BY DEF PoolInv, PoolTypes, Values, Holds
<1>3. Resized(n) = IF size > Len(mem) THEN [mem |-> Contents \o Fill(size - off), gap |-> 0]
                   ELSE IF Len(mem) - off - gap < n THEN [mem |-> Shifted, gap |-> 0]
                   ELSE [mem |-> mem, gap |-> gap]
  BY DEF Resized
<1> HIDE DEF size
<1>4. CASE size > Len(mem)
  <2>1. Resized(n).mem = Contents \o Fill(size - off) /\ Resized(n).gap = 0
    BY <1>3, <1>4
  <2>2. Fill(size - off) \in Values /\ Len(Fill(size - off)) = size - off
    BY <1>1, <1>2 DEF Fill, Stale, Values
  <2>3. /\ Contents \o Fill(size - off) \in Values
        /\ Len(Contents \o Fill(size - off)) = off + (size - off)
        /\ Holds(Contents \o Fill(size - off), 0, ideal)
    BY <2>2, MovedToFront
  <2> QED
    BY <1>1, <1>2, <2>1, <2>3
<1>5. CASE ~(size > Len(mem)) /\ Len(mem) - off - gap < n
  <2>1. Resized(n).mem = Shifted /\ Resized(n).gap = 0
    BY <1>3, <1>5
  <2>2. /\ SubSeq(mem, off + 1, Len(mem)) \in Values
        /\ Len(SubSeq(mem, off + 1, Len(mem))) = Len(mem) - off
    BY <1>2, Slice
  <2>3. Shifted \in Values /\ Len(Shifted) = off + (Len(mem) - off) /\ Holds(Shifted, 0, ideal)
    BY <2>2, MovedToFront DEF Shifted
  <2> QED
    BY <1>1, <1>2, <1>5, <2>1, <2>3
<1>6. CASE ~(size > Len(mem)) /\ ~(Len(mem) - off - gap < n)
  <2>1. Resized(n).mem = mem /\ Resized(n).gap = gap
    BY <1>3, <1>6
  <2> QED
    BY <1>1, <1>2, <1>6, <2>1
<1> QED
  BY <1>4, <1>5, <1>6

----------------------------------------------------------------------------
(* What the moves of vpool make, as relations, place by place.             *)

(* t is the part of s with the n places after a.                           *)
IsPart(t, s, a, n) ==
    t \in Values /\ Len(t) = n /\ \A i \in 1 .. n : t[i] = s[a + i]

(* x is m, with the n values of data after p.                              *)
IsPatched(x, m, p, data, n) ==
    /\ x \in Values /\ Len(x) = Len(m)
    /\ \A i \in 1 .. n : x[p + i] = data[i]
    /\ \A i \in 1 .. Len(m) : (i <= p \/ i > p + n) => x[i] = m[i]

(* t is s with the n values of data put in after at.                       *)
IsSpliced(t, s, at, data, n) ==
    /\ t \in Values /\ Len(t) = Len(s) + n
    /\ \A i \in 1 .. at : t[i] = s[i]
    /\ \A i \in 1 .. n : t[at + i] = data[i]
    /\ \A i \in 1 .. Len(s) - at : t[at + n + i] = s[at + i]

(* t is s without the n places after at.                                   *)
IsCut(t, s, at, n) ==
    /\ t \in Values /\ Len(t) = Len(s) - n
    /\ \A i \in 1 .. at : t[i] = s[i]
    /\ \A i \in 1 .. Len(s) - (at + n) : t[at + i] = s[at + n + i]

(* A part of a sequence: what memmove takes.                               *)
LEMMA Part ==
    ASSUME NEW s \in Values, NEW a \in Nat, NEW n \in Nat, NEW b \in Nat, NEW c \in Nat,
           b = a + n, c = a + 1, b <= Len(s)
    PROVE  IsPart(SubSeq(s, c, b), s, a, n)
<1>1. b - a = n /\ a <= b
  OBVIOUS
<1>2. /\ SubSeq(s, a + 1, b) \in Values /\ Len(SubSeq(s, a + 1, b)) = b - a
      /\ \A i \in 1 .. b - a : SubSeq(s, a + 1, b)[i] = s[a + i]
  BY <1>1, Slice
<1> QED
  BY <1>1, <1>2 DEF IsPart

(* Two parts of a sequence, one after the other.                           *)
LEMMA Cut ==
    ASSUME NEW s \in Values, NEW at \in Nat, NEW n \in Nat, NEW l \in Nat, NEW c \in Nat,
           l = Len(s), c = at + n + 1, at + n <= l
    PROVE  IsCut(SubSeq(s, 1, at) \o SubSeq(s, c, l), s, at, n)
<1> DEFINE front == SubSeq(s, 1, at)
           back  == SubSeq(s, c, l)
           t     == front \o back
           e     == at + n
           k     == l - e
<1>1. /\ 0 \in Nat /\ 1 \in Nat /\ at = 0 + at /\ 1 = 0 + 1 /\ at <= Len(s)
      /\ e \in Nat /\ k \in Nat /\ l = e + k /\ c = e + 1 /\ l <= Len(s)
  OBVIOUS
<1>e. e = at + n /\ k = l - e
  OBVIOUS
<1> HIDE DEF e, k
<1>2. IsPart(front, s, 0, at)
  BY <1>1, Part
<1>3. IsPart(back, s, e, k)
  BY <1>1, Part
<1> HIDE DEF front, back
<1>4. /\ t \in Values /\ Len(t) = Len(front) + Len(back)
      /\ \A i \in 1 .. Len(front) : t[i] = front[i]
      /\ \A i \in 1 .. Len(back) : t[Len(front) + i] = back[i]
  <2>1. front \in Values /\ back \in Values
    BY <1>2, <1>3 DEF IsPart
  <2> QED
    BY <2>1, Joined
<1> HIDE DEF t
<1>5. /\ Len(front) = at /\ \A i \in 1 .. at : front[i] = s[i]
      /\ Len(back) = k /\ \A i \in 1 .. k : back[i] = s[e + i]
  BY <1>2, <1>3 DEF IsPart
<1>6. /\ Len(t) = Len(s) - n
      /\ \A i \in 1 .. at : t[i] = s[i]
      /\ \A i \in 1 .. k : t[at + i] = s[e + i]
  <2>1. Len(t) = at + k /\ (\A i \in 1 .. at : t[i] = front[i])
        /\ \A i \in 1 .. k : t[at + i] = back[i]
    BY Zenon, <1>4, <1>5
  <2>2. Len(t) = Len(s) - n
    BY <1>1, <1>e, <2>1
  <2> QED
    BY Zenon, <1>5, <2>1, <2>2
<1>7. IsCut(t, s, at, n)
  BY <1>4, <1>6, <1>e DEF IsCut
<1> QED
  BY <1>7 DEF t, front, back

(* A sequence with data put into it.                                       *)
LEMMA Spliced ==
    ASSUME NEW s \in Values, NEW data \in Values, NEW at \in Nat, NEW n \in Nat,
           NEW l \in Nat, l = Len(s), n = Len(data), at <= l
    PROVE  IsSpliced(SubSeq(s, 1, at) \o data \o SubSeq(s, at + 1, l), s, at, data, n)
<1> DEFINE front == SubSeq(s, 1, at)
           back  == SubSeq(s, at + 1, l)
           both  == front \o data
           t     == both \o back
           k     == l - at
<1>1. /\ 0 \in Nat /\ 1 \in Nat /\ at = 0 + at /\ 1 = 0 + 1 /\ at <= Len(s)
      /\ k \in Nat /\ l = at + k /\ at + 1 \in Nat /\ l <= Len(s)
  OBVIOUS
<1>k. k = l - at
  OBVIOUS
<1> HIDE DEF k
<1>2. IsPart(front, s, 0, at)
  BY <1>1, Part
<1>3. IsPart(back, s, at, k)
  BY <1>1, Part
<1> HIDE DEF front, back
<1>4. /\ Len(front) = at /\ \A i \in 1 .. at : front[i] = s[i]
      /\ Len(back) = k /\ \A i \in 1 .. k : back[i] = s[at + i]
      /\ front \in Values /\ back \in Values
  BY <1>2, <1>3 DEF IsPart
<1>5. /\ both \in Values /\ Len(both) = Len(front) + Len(data)
      /\ \A i \in 1 .. Len(front) : both[i] = front[i]
      /\ \A i \in 1 .. Len(data) : both[Len(front) + i] = data[i]
  BY <1>4, Joined
<1> HIDE DEF both
<1>6. /\ t \in Values /\ Len(t) = Len(both) + Len(back)
      /\ \A i \in 1 .. Len(both) : t[i] = both[i]
      /\ \A i \in 1 .. Len(back) : t[Len(both) + i] = back[i]
  BY <1>4, <1>5, Joined
<1> HIDE DEF t
<1>7. /\ Len(both) = at + n
      /\ \A i \in 1 .. at : both[i] = s[i] /\ i \in 1 .. at + n
      /\ \A i \in 1 .. n : both[at + i] = data[i] /\ at + i \in 1 .. at + n
  BY <1>4, <1>5
<1>8. /\ Len(t) = Len(s) + n
      /\ \A i \in 1 .. at : t[i] = s[i]
      /\ \A i \in 1 .. n : t[at + i] = data[i]
      /\ \A i \in 1 .. k : t[at + n + i] = s[at + i]
  <2>1. Len(t) = at + n + k /\ (\A i \in 1 .. at + n : t[i] = both[i])
        /\ \A i \in 1 .. k : t[at + n + i] = back[i]
    BY Zenon, <1>4, <1>6, <1>7
  <2>2. Len(t) = Len(s) + n
    BY <1>1, <2>1
  <2>3. \A i \in 1 .. at : t[i] = s[i]
    BY Zenon, <1>7, <2>1
  <2>4. \A i \in 1 .. n : t[at + i] = data[i]
    BY Zenon, <1>7, <2>1
  <2>5. \A i \in 1 .. k : t[at + n + i] = s[at + i]
    BY Zenon, <1>4, <2>1
  <2> QED
    BY Zenon, <2>2, <2>3, <2>4, <2>5
<1>9. IsSpliced(t, s, at, data, n)
  BY <1>6, <1>8, <1>k DEF IsSpliced
<1> QED
  BY <1>9 DEF t, both, front, back

(* memmove and memcpy within a block.                                      *)
LEMMA Patched ==
    ASSUME NEW m \in Values, NEW p \in Nat, NEW data \in Values, NEW n \in Nat,
           n = Len(data), p + n <= Len(m)
    PROVE  IsPatched(Overwrite(m, p, data), m, p, data, n)
BY Overwritten DEF IsPatched

----------------------------------------------------------------------------
(* A call that leaves what was exported alone keeps its part of PoolInv.   *)
LEMMA SameExport ==
    ASSUME PoolInv, UNCHANGED <<exported, wanted>>, ops' \in Nat,
           mem' \in Values, gap' \in Nat, off' \in Nat, ideal' \in Values,
           Len(mem') <= Limit, off' = Len(ideal'), Holds(mem', gap', ideal')
    PROVE  PoolInv'
BY Zenon DEF PoolInv, PoolTypes, Holds

(* Nothing changes when a call fails.                                      *)
LEMMA FailsInv ==
    ASSUME PoolInv, Call, Fails, UNCHANGED <<exported, wanted>>
    PROVE  PoolInv'
<1>1. ops' \in Nat
  BY DEF PoolInv, PoolTypes, Call
<1>2. mem' = mem /\ gap' = gap /\ off' = off /\ ideal' = ideal
  BY DEF Fails
<1> QED
  BY Zenon, <1>1, <1>2 DEF PoolInv, PoolTypes, Holds

(* vpool_insert.                                                           *)
LEMMA InsertInv ==
    ASSUME PoolInv, NEW where \in Nat, NEW data \in Values, Insert(where, data)
    PROVE  PoolInv'
<1> DEFINE n  == Len(data)
           at == IF where > off THEN off ELSE where
           r  == Resized(n)
           tail  == SubSeq(r.mem, r.gap + at + 1, r.gap + off)
           moved == Overwrite(r.mem, r.gap + at + n, tail)
           new   == Overwrite(moved, r.gap + at, data)
           t     == SubSeq(ideal, 1, at) \o data \o SubSeq(ideal, at + 1, off)
<1>1. CASE n > Len(mem) - off /\ Limit - off < n
  <2>1. Call /\ Fails /\ UNCHANGED <<exported, wanted>>
    BY Zenon, <1>1 DEF Insert
  <2> QED
    BY <2>1, FailsInv
<1>2. CASE ~(n > Len(mem) - off /\ Limit - off < n)
  <2>1. /\ mem' = new /\ gap' = r.gap /\ off' = off + n /\ Call
        /\ UNCHANGED <<exported, wanted>>
        /\ ideal' = SubSeq(ideal, 1, at) \o data \o SubSeq(ideal, at + 1, Len(ideal))
    BY Zenon, <1>2 DEF Insert
  <2>2. n \in Nat /\ off \in Nat /\ ideal \in Values /\ off = Len(ideal) /\ at \in Nat /\ at <= off
    BY DEF PoolInv, PoolTypes, Values
  <2>3. ideal' = t /\ ops' \in Nat
    BY <2>1, <2>2 DEF Call, PoolInv, PoolTypes
  <2>4. /\ r.mem \in Values /\ r.gap \in Nat /\ Len(r.mem) <= Limit
        /\ Holds(r.mem, r.gap, ideal) /\ r.gap + off + n <= Len(r.mem)
    BY <1>2, <2>2, ResizedHolds
  <2> DEFINE m == r.mem
             g == r.gap
  <2>m. /\ m \in Values /\ g \in Nat /\ Holds(m, g, ideal) /\ g + off + n <= Len(m)
        /\ Len(m) \in Nat
    BY <2>4 DEF Values
  <2> HIDE DEF n, at, r, m, g
  <2> DEFINE p == g + at
             c == p + n
             k == off - at
             b == g + off
  <2>5. /\ p \in Nat /\ c \in Nat /\ k \in Nat /\ b \in Nat /\ b = p + k /\ p + 1 \in Nat
        /\ b <= Len(m) /\ c + k <= Len(m) /\ p + n <= Len(m) /\ g \in Nat
    BY <2>2, <2>m
  <2>6. /\ tail = SubSeq(m, p + 1, b) /\ moved = Overwrite(m, c, tail)
        /\ new = Overwrite(moved, p, data) /\ p = g + at /\ c = g + at + n /\ k = off - at
    BY DEF m, g
  <2> HIDE DEF p, c, k, b, tail, moved, new, t
  <2>7. IsPart(tail, m, p, k)
    BY <2>m, <2>5, <2>6, Part
  <2>8. tail \in Values /\ Len(tail) = k
    BY Zenon, <2>7 DEF IsPart
  <2>9. IsPatched(moved, m, c, tail, k)
    BY <2>m, <2>5, <2>6, <2>8, Patched
  <2>10. moved \in Values /\ p + n <= Len(moved) /\ n = Len(data)
    BY Zenon, <2>5, <2>9 DEF IsPatched, n
  <2>11. IsPatched(new, moved, p, data, n)
    BY <2>2, <2>5, <2>6, <2>10, Patched
  <2>12. IsSpliced(t, ideal, at, data, n)
    BY <2>2, <2>10, Spliced DEF t
  <2>13. /\ new \in Values /\ t \in Values /\ Len(new) = Len(m) /\ Len(t) = off + n
         /\ Holds(new, g, t)
    <3> DEFINE size == Len(m)
    <3>1. size \in Nat /\ g + off + n <= size
      BY <2>m
    <3>2. new \in Values /\ t \in Values /\ Len(new) = size /\ Len(moved) = size /\ Len(t) = off + n
      BY Zenon, <2>2, <2>9, <2>11, <2>12 DEF IsPatched, IsSpliced
    <3>3. \A i \in 1 .. off : m[g + i] = ideal[i]
      BY Zenon, <2>2, <2>m DEF Holds
    <3>4. \A i \in 1 .. off - at : moved[g + at + n + i] = m[g + at + i]
      BY Zenon, <2>6, <2>7, <2>9 DEF IsPart, IsPatched
    <3>5. \A i \in 1 .. size : i <= g + at + n => moved[i] = m[i]
      BY Zenon, <2>6, <2>9 DEF IsPatched
    <3>6. /\ \A i \in 1 .. n : new[g + at + i] = data[i]
          /\ \A i \in 1 .. size : (i <= g + at \/ i > g + at + n) => new[i] = moved[i]
      BY Zenon, <2>6, <2>11, <3>2 DEF IsPatched
    <3>7. /\ \A i \in 1 .. at : t[i] = ideal[i]
          /\ \A i \in 1 .. n : t[at + i] = data[i]
          /\ \A i \in 1 .. off - at : t[at + n + i] = ideal[at + i]
      BY Zenon, <2>2, <2>12 DEF IsSpliced
    <3> HIDE DEF size
    <3>8. \A i \in 1 .. off + n : new[g + i] = t[i]
      <4> TAKE i \in 1 .. off + n
      <4>1. CASE i <= at
        <5>1. g + i \in 1 .. size /\ g + i <= g + at /\ g + i <= g + at + n /\ i \in 1 .. at
              /\ i \in 1 .. off
          BY <2>2, <2>m, <3>1, <4>1
        <5> QED
          BY Zenon, <3>3, <3>5, <3>6, <3>7, <5>1
      <4>2. CASE i > at /\ i <= at + n
        <5> DEFINE j == i - at
        <5>1. j \in 1 .. n /\ at + j = i /\ g + at + j = g + i
          BY <2>2, <2>m, <4>2
        <5> HIDE DEF j
        <5>2. new[g + at + j] = data[j] /\ t[at + j] = data[j]
          BY Zenon, <3>6, <3>7, <5>1
        <5> QED
          BY Zenon, <5>1, <5>2
      <4>3. CASE i > at + n
        <5> DEFINE j == i - at - n
                   e == at + j
        <5>1. /\ j \in 1 .. off - at /\ at + n + j = i /\ g + at + n + j = g + i
              /\ g + i \in 1 .. size /\ g + i > g + at + n
              /\ e \in 1 .. off /\ g + at + j = g + e
          BY <2>2, <2>m, <3>1, <4>3
        <5>c. e = at + j
          OBVIOUS
        <5> HIDE DEF j, e
        <5>2. new[g + i] = moved[g + i]
          BY Zenon, <3>6, <5>1
        <5>3. moved[g + at + n + j] = m[g + at + j] /\ t[at + n + j] = ideal[at + j]
          BY Zenon, <3>4, <3>7, <5>1
        <5>4. m[g + e] = ideal[e]
          BY Zenon, <3>3, <5>1
        <5> QED
          BY Zenon, <5>1, <5>2, <5>3, <5>4, <5>c
      <4> QED
        BY <2>2, <4>1, <4>2, <4>3
    <3>9. g + Len(t) <= Len(new)
      BY <3>1, <3>2, <2>2, <2>m
    <3> QED
      BY Zenon, <3>2, <3>8, <3>9 DEF Holds, size
  <2>14. /\ mem' \in Values /\ gap' \in Nat /\ off' \in Nat /\ ideal' \in Values
         /\ Len(mem') <= Limit /\ off' = Len(ideal') /\ Holds(mem', gap', ideal')
    <3>1. off + n \in Nat
      BY <2>2
    <3> QED
      BY Zenon, <2>1, <2>3, <2>4, <2>13, <3>1 DEF m, g
  <2> QED
    BY Zenon, <2>1, <2>3, <2>14, SameExport
<1> QED
  BY <1>1, <1>2

(* vpool_truncate with VPOOL_EXCLUDE.                                      *)
LEMMA ExcludeInv ==
    ASSUME PoolInv, NEW where \in Nat, NEW n \in Nat, Exclude(where, n)
    PROVE  PoolInv'
<1> DEFINE c    == gap + where + n
           p    == gap + where
           k    == off - (where + n)
           b    == gap + off
           tail == SubSeq(mem, gap + where + n + 1, gap + off)
           new  == Overwrite(mem, gap + where, tail)
           t    == SubSeq(ideal, 1, where) \o SubSeq(ideal, where + n + 1, off)
<1>1. CASE where >= off \/ n > off \/ off - n < where
  <2>1. Call /\ Fails /\ UNCHANGED <<exported, wanted>>
    BY Zenon, <1>1 DEF Exclude
  <2> QED
    BY <2>1, FailsInv
<1>2. CASE ~(where >= off \/ n > off \/ off - n < where)
  <2>1. /\ IF where = 0 THEN gap' = gap + n /\ mem' = mem ELSE mem' = new /\ gap' = gap
        /\ off' = off - n /\ Call /\ UNCHANGED <<exported, wanted>>
        /\ ideal' = SubSeq(ideal, 1, where) \o SubSeq(ideal, where + n + 1, Len(ideal))
    BY Zenon, <1>2 DEF Exclude
  <2>2. /\ off \in Nat /\ ideal \in Values /\ off = Len(ideal) /\ where + n <= off
        /\ mem \in Values /\ gap \in Nat /\ Holds(mem, gap, ideal) /\ gap + off <= Len(mem)
        /\ Len(mem) \in Nat /\ Len(mem) <= Limit
    <3>1. /\ off \in Nat /\ ideal \in Values /\ off = Len(ideal) /\ mem \in Values /\ gap \in Nat
          /\ Holds(mem, gap, ideal) /\ gap + off <= Len(mem) /\ Len(mem) <= Limit
      BY Zenon DEF PoolInv, PoolTypes, Holds
    <3>2. Len(mem) \in Nat
      BY <3>1 DEF Values
    <3>3. where + n <= off
      BY <1>2, <3>1
    <3> QED
      BY Zenon, <3>1, <3>2, <3>3
  <2>3. ideal' = t /\ ops' \in Nat
    BY <2>1, <2>2 DEF Call, PoolInv, PoolTypes
  <2>4. /\ p \in Nat /\ c \in Nat /\ k \in Nat /\ b \in Nat /\ b = c + k /\ c + 1 \in Nat
        /\ b <= Len(mem) /\ p + k <= Len(mem) /\ where + n + 1 \in Nat
    BY <2>2
  <2>5. tail = SubSeq(mem, c + 1, b) /\ new = Overwrite(mem, p, tail)
        /\ p = gap + where /\ c = gap + where + n /\ k = off - (where + n)
    OBVIOUS
  <2> HIDE DEF p, c, k, b, tail, new, t
  <2>6. IsPart(tail, mem, c, k)
    BY <2>2, <2>4, <2>5, Part
  <2>7. tail \in Values /\ Len(tail) = k
    BY Zenon, <2>6 DEF IsPart
  <2>8. IsPatched(new, mem, p, tail, k)
    BY <2>2, <2>4, <2>5, <2>7, Patched
  <2>9. IsCut(t, ideal, where, n)
    BY <2>2, <2>4, Cut DEF t
  <2>10. /\ new \in Values /\ t \in Values /\ Len(new) = Len(mem) /\ Len(t) = off - n
         /\ Holds(new, gap, t) /\ (where = 0 => Holds(mem, gap + n, t))
    <3> DEFINE size == Len(mem)
               rest == off - (where + n)
    <3>1. size \in Nat /\ gap + off <= size /\ rest \in Nat
      BY <2>2
    <3>2. new \in Values /\ t \in Values /\ Len(new) = size /\ Len(t) = off - n
      BY Zenon, <2>2, <2>8, <2>9 DEF IsPatched, IsCut
    <3>3. \A i \in 1 .. off : mem[gap + i] = ideal[i]
      BY Zenon, <2>2 DEF Holds
    <3>4. \A i \in 1 .. rest : new[gap + where + i] = mem[gap + where + n + i]
      BY Zenon, <2>5, <2>6, <2>8 DEF IsPart, IsPatched
    <3>5. \A i \in 1 .. size : i <= gap + where => new[i] = mem[i]
      BY Zenon, <2>5, <2>8 DEF IsPatched
    <3>6. /\ \A i \in 1 .. where : t[i] = ideal[i]
          /\ \A i \in 1 .. rest : t[where + i] = ideal[where + n + i]
      BY Zenon, <2>2, <2>9 DEF IsCut
    <3> HIDE DEF size
    <3>7. ASSUME NEW i \in 1 .. off - n PROVE new[gap + i] = t[i] /\ (where = 0 => mem[gap + n + i] = t[i])
      <4>1. CASE i <= where
        <5>1. gap + i \in 1 .. size /\ gap + i <= gap + where /\ i \in 1 .. where /\ i \in 1 .. off /\ where # 0
          BY <2>2, <3>1, <4>1
        <5> QED
          BY <3>3, <3>5, <3>6, <5>1
      <4>2. CASE i > where
        <5> DEFINE j == i - where
                   e == where + n + j
        <5>1. /\ j \in 1 .. rest /\ where + j = i /\ gap + where + j = gap + i /\ e \in 1 .. off
              /\ gap + where + n + j = gap + e /\ (where = 0 => gap + n + i = gap + e)
          BY <2>2, <3>1, <4>2
        <5>c. e = where + n + j
          OBVIOUS
        <5> HIDE DEF j, e, rest
        <5>2. new[gap + where + j] = mem[gap + where + n + j] /\ t[where + j] = ideal[where + n + j]
          BY Zenon, <3>4, <3>6, <5>1
        <5>3. mem[gap + e] = ideal[e]
          BY Zenon, <3>3, <5>1
        <5> QED
          BY Zenon, <5>1, <5>2, <5>3, <5>c
      <4> QED
        BY <4>1, <4>2
    <3>8. gap + Len(t) <= Len(new) /\ (gap + n) + Len(t) <= size
      BY <2>2, <3>1, <3>2
    <3> QED
      BY Zenon, <3>2, <3>7, <3>8 DEF Holds, size
  <2>11. /\ mem' \in Values /\ gap' \in Nat /\ off' \in Nat /\ ideal' \in Values
         /\ Len(mem') <= Limit /\ off' = Len(ideal')
    <3>1. off - n \in Nat /\ gap + n \in Nat
      BY <2>2
    <3> QED
      BY Zenon, <2>1, <2>2, <2>3, <2>10, <3>1
  <2>12. Holds(mem', gap', ideal')
    BY Zenon, <2>1, <2>3, <2>10
  <2> QED
    BY Zenon, <2>1, <2>3, <2>11, <2>12, SameExport
<1> QED
  BY <1>1, <1>2

(* vpool_truncate with VPOOL_INCLUDE.                                      *)
LEMMA IncludeInv ==
    ASSUME PoolInv, NEW where \in Nat, NEW n \in Nat, Include(where, n)
    PROVE  PoolInv'
<1> DEFINE t == SubSeq(ideal, where + 1, where + n)
<1>1. CASE where >= off \/ n > off \/ off - n < where
  <2>1. Call /\ Fails /\ UNCHANGED <<exported, wanted>>
    BY Zenon, <1>1 DEF Include
  <2> QED
    BY <2>1, FailsInv
<1>2. CASE ~(where >= off \/ n > off \/ off - n < where)
  <2>1. /\ gap' = gap + where /\ off' = n /\ mem' = mem /\ ideal' = t
        /\ Call /\ UNCHANGED <<exported, wanted>>
    BY Zenon, <1>2 DEF Include
  <2>2. /\ off \in Nat /\ ideal \in Values /\ off = Len(ideal) /\ where + n <= off
        /\ mem \in Values /\ gap \in Nat /\ gap + off <= Len(mem) /\ Len(mem) <= Limit
        /\ Len(mem) \in Nat /\ where + n \in Nat /\ where + 1 \in Nat
        /\ \A i \in 1 .. off : mem[gap + i] = ideal[i]
    <3>1. /\ off \in Nat /\ ideal \in Values /\ off = Len(ideal) /\ mem \in Values /\ gap \in Nat
          /\ gap + off <= Len(mem) /\ Len(mem) <= Limit
          /\ \A i \in 1 .. off : mem[gap + i] = ideal[i]
      BY Zenon DEF PoolInv, PoolTypes, Holds
    <3>2. Len(mem) \in Nat
      BY <3>1 DEF Values
    <3>3. where + n <= off /\ where + n \in Nat /\ where + 1 \in Nat
      BY <1>2, <3>1
    <3> QED
      BY Zenon, <3>1, <3>2, <3>3
  <2>3. IsPart(t, ideal, where, n)
    BY <2>2, Part
  <2> HIDE DEF t
  <2>4. t \in Values /\ Len(t) = n /\ \A i \in 1 .. n : t[i] = ideal[where + i]
    BY Zenon, <2>3 DEF IsPart
  <2>5. ASSUME NEW i \in 1 .. n PROVE mem[gap + where + i] = t[i]
    <3> DEFINE j == where + i
    <3>1. j \in 1 .. off /\ gap + where + i = gap + j
      BY <2>2
    <3>2. t[i] = ideal[j]
      BY Zenon, <2>4
    <3> HIDE DEF j
    <3> QED
      BY Zenon, <2>2, <3>1, <3>2
  <2>6. (gap + where) + Len(t) <= Len(mem) /\ gap + where \in Nat /\ ops' \in Nat
    BY <2>1, <2>2, <2>4 DEF Call, PoolInv, PoolTypes
  <2>7. Holds(mem, gap + where, t)
    BY Zenon, <2>4, <2>5, <2>6 DEF Holds
  <2> QED
    BY Zenon, <2>1, <2>2, <2>4, <2>6, <2>7, SameExport
<1> QED
  BY <1>1, <1>2

(* vpool_wipe, vpool_reset and vpool_export.                               *)
LEMMA EmptyInv ==
    ASSUME PoolInv, Wipe \/ Reset \/ Export
    PROVE  PoolInv'
<1>1. /\ mem \in Values /\ gap \in Nat /\ off \in Nat /\ ideal \in Values /\ ops \in Nat
      /\ off = Len(ideal) /\ gap + off <= Len(mem) /\ Len(mem) <= Limit
  BY Zenon DEF PoolInv, PoolTypes, Holds
<1>2. Len(mem) \in Nat /\ <<>> \in Values /\ Len(<<>>) = 0 /\ Limit \in Nat
  BY <1>1, PoolAssumption DEF Values
<1>3. \A m \in Values, g \in Nat : g <= Len(m) => Holds(m, g, <<>>)
  BY <1>2 DEF Holds, Values
<1>4. ops' \in Nat
  BY <1>1 DEF Wipe, Reset, Export, Call
<1>5. gap <= Len(mem) /\ 0 <= Len(<<>>) /\ 0 <= Limit
  BY <1>1, <1>2
<1>6. Holds(mem, gap, <<>>) /\ Holds(<<>>, 0, <<>>)
  BY <1>1, <1>2, <1>3, <1>5
<1>7. CASE Wipe
  <2>1. mem' = mem /\ gap' = gap /\ off' = 0 /\ ideal' = <<>> /\ UNCHANGED <<exported, wanted>>
    BY <1>7 DEF Wipe
  <2> QED
    BY Zenon, <1>1, <1>2, <1>4, <1>6, <2>1, SameExport
<1>8. Emptied => /\ mem' \in Values /\ gap' \in Nat /\ off' \in Nat /\ ideal' \in Values
                 /\ Len(mem') <= Limit /\ off' = Len(ideal') /\ Holds(mem', gap', ideal')
  <2>1. 0 \in Nat
    OBVIOUS
  <2> QED
    BY Zenon, <1>2, <1>5, <1>6, <2>1 DEF Emptied
<1>9. CASE Reset
  <2>1. Emptied /\ UNCHANGED <<exported, wanted>>
    BY <1>9 DEF Reset
  <2> QED
    BY Zenon, <1>4, <1>8, <2>1, SameExport
<1>10. CASE Export
  <2>1. Emptied /\ exported'.block = Shifted /\ exported'.size = off /\ wanted' = ideal
    BY <1>10 DEF Export
  <2>2. off <= Len(mem) /\ Len(mem) <= Len(mem)
    BY <1>1, <1>2
  <2>3. SubSeq(mem, off + 1, Len(mem)) \in Values
    BY <1>1, <1>2, <2>2, Slice
  <2>4. Shifted \in Values /\ Holds(Shifted, 0, ideal)
    BY <2>3, MovedToFront DEF Shifted
  <2> QED
    BY Zenon, <1>1, <1>4, <1>8, <2>1, <2>4 DEF PoolInv, PoolTypes, Holds
<1> QED
  BY <1>7, <1>9, <1>10

(* The values that an insertion brings.                                    *)
LEMMA DataValues ==
    ASSUME ops \in Nat, NEW n \in Nat
    PROVE  Data(n) \in Values
BY DEF Data, Values

(* What PoolInv says of the pool.                                          *)
LEMMA PoolInvHolds ==
    ASSUME PoolInv
    PROVE  PoolHolds
<1>1. /\ mem \in Values /\ gap \in Nat /\ off \in Nat /\ ideal \in Values
      /\ off = Len(ideal) /\ Holds(mem, gap, ideal) /\ Len(mem) <= Limit
      /\ gap + off <= Len(mem)
      /\ exported.block \in Values /\ exported.size \in Nat /\ wanted \in Values
      /\ exported.size = Len(wanted) /\ Holds(exported.block, 0, wanted)
  BY Zenon DEF PoolInv, PoolTypes, Holds
<1>2. Contents = ideal
  BY <1>1, HeldPart DEF Contents
<1>3. SubSeq(exported.block, 0 + 1, 0 + exported.size) = wanted
  BY <1>1, HeldPart
<1>4. 0 + 1 = 1 /\ 0 + exported.size = exported.size
  BY <1>1
<1> QED
  BY Zenon, <1>1, <1>2, <1>3, <1>4 DEF PoolHolds

(* PoolInv is inductive.                                                   *)
LEMMA PoolStep ==
    ASSUME PoolInv, [PoolNext]_poolVars
    PROVE  PoolInv'
<1>1. off \in Nat /\ ops \in Nat /\ MaxData \in Nat
  BY PoolAssumption DEF PoolInv, PoolTypes
<1>2. ASSUME NEW where \in 0 .. off + 1, NEW n \in 1 .. MaxData, Insert(where, Data(n))
      PROVE  PoolInv'
  <2>1. where \in Nat /\ n \in Nat
    BY <1>1
  <2> QED
    BY <1>1, <1>2, <2>1, DataValues, InsertInv
<1>3. ASSUME NEW where \in 0 .. off, NEW n \in 0 .. off, Exclude(where, n) \/ Include(where, n)
      PROVE  PoolInv'
  <2>1. where \in Nat /\ n \in Nat
    BY <1>1
  <2> QED
    BY <1>3, <2>1, ExcludeInv, IncludeInv
<1>4. CASE UNCHANGED poolVars
  BY Zenon, <1>4 DEF PoolInv, PoolTypes, Holds, poolVars
<1> QED
  BY Zenon, <1>2, <1>3, <1>4, EmptyInv DEF PoolNext

(* The pool holds what its caller put there, whatever calls came before,   *)
(* for any block size, limit and data: no growth, shift, insertion or      *)
(* truncation loses, repeats or moves a byte, and what was exported is     *)
(* what was held then.                                                     *)
THEOREM PoolKeepsData == PoolSpec => []PoolHolds
<1>1. PoolInit => PoolInv
  <2> SUFFICES ASSUME PoolInit PROVE PoolInv
    OBVIOUS
  <2>1. <<>> \in Values /\ Len(<<>>) = 0 /\ 0 \in Nat /\ Limit \in Nat
    BY PoolAssumption DEF Values
  <2>2. Holds(<<>>, 0, <<>>) /\ 0 <= Limit
    BY <2>1 DEF Holds
  <2>3. exported.block = <<>> /\ exported.size = 0
    BY DEF PoolInit
  <2> QED
    BY Zenon, <2>1, <2>2, <2>3 DEF PoolInit, PoolInv, PoolTypes
<1>2. PoolInv /\ [PoolNext]_poolVars => PoolInv'
  BY PoolStep
<1>3. PoolInv => PoolHolds
  BY PoolInvHolds
<1> QED
  BY <1>1, <1>2, <1>3, PTL DEF PoolSpec

----------------------------------------------------------------------------
(* Reference counts                                                        *)

(* No object is twice in the sequence.                                     *)
Apart(s) == \A i, j \in 1 .. Len(s) : s[i] = s[j] => i = j

(* The objects that the record holds.                                      *)
Owned(r) == {r.state} \cup Range(r.previous)

RecordOK(r) ==
    /\ r \in [state : Objects \cup {0}, previous : Seq(Objects)]
    /\ r.state = 0 => r = NoRecord
    /\ Apart(r.previous) /\ r.state \notin Range(r.previous)

(* The objects in S are there, with one reference each, and no others.     *)
Once(h, S) == h = [o \in Objects |-> IF o \in S THEN 1 ELSE 0]

OwnershipInv ==
    /\ RecordOK(record) /\ leaked \subseteq Objects
    /\ leaked \cap Owned(record) = {}
    /\ Once(refs, Owned(record) \cup leaked)

(* A set of numbers that is not empty has a least one.                     *)
LEMMA LeastNumber ==
    ASSUME NEW I \in SUBSET Nat, I # {}
    PROVE  Min(I) \in I /\ \A y \in I : Min(I) <= y
<1>1. IsWellFoundedOn(OpToRel(<, Nat), Nat)
  BY Zenon, NatLessThanWellFounded
<1>2. \E x \in I : \A y \in I : ~(<<y, x>> \in OpToRel(<, Nat))
  BY Zenon, <1>1, WFMin
<1>3. \E x \in I : \A y \in I : ~(y < x)
  BY Zenon, <1>2 DEF OpToRel
<1>4. \E x \in I : \A y \in I : x <= y
  BY <1>3
<1> QED
  BY <1>4 DEF Min

(* What is at the places of a sequence.                                    *)
LEMMA RangePlaces ==
    ASSUME NEW S, NEW s \in Seq(S)
    PROVE  /\ Range(s) = {s[i] : i \in 1 .. Len(s)} /\ Range(s) \subseteq S
           /\ Len(s) \in Nat /\ \A i \in 1 .. Len(s) : s[i] \in S
  BY DEF Range

LEMMA InRange ==
    ASSUME NEW S, NEW s \in Seq(S)
    PROVE  /\ \A i \in 1 .. Len(s) : s[i] \in Range(s)
           /\ \A x \in Range(s) : \E i \in 1 .. Len(s) : s[i] = x
  BY DEF Range

(* signal_type_init takes an object that is not in use.                    *)
LEMMA NewOnce ==
    ASSUME NEW S, NEW h, Once(h, S), Objects \ S # {}
    PROVE  /\ New(h).object \in Objects \ S
           /\ Once(New(h).heap, S \cup {New(h).object})
<1> DEFINE o == Min(Free(h))
<1>1. Free(h) = Objects \ S
  BY DEF Free, Once
<1>2. Free(h) \in SUBSET Nat
  BY <1>1, OwnershipAssumption
<1>3. o \in Objects \ S
  BY <1>1, <1>2, LeastNumber
<1>4. New(h).object = o /\ New(h).heap = [h EXCEPT ![o] = 1]
  BY Zenon DEF New
<1> HIDE DEF o
<1>5. [h EXCEPT ![o] = 1] = [x \in Objects |-> IF x \in S \cup {o} THEN 1 ELSE 0]
  BY <1>3 DEF Once
<1> QED
  BY Zenon, <1>3, <1>4, <1>5 DEF Once

(* signal_type_unref of the one reference frees the object.                *)
LEMMA UnrefOnce ==
    ASSUME NEW S, NEW h, Once(h, S), NEW o \in Objects, o \in S
    PROVE  Once(Unref(h, o), S \ {o})
<1>1. o # 0
  BY OwnershipAssumption
<1>2. h \in [Objects -> Int] /\ h[o] = 1
  BY DEF Once
<1>3. Unref(h, o) = [h EXCEPT ![o] = 0]
  BY <1>1, <1>2 DEF Unref
<1>4. [h EXCEPT ![o] = 0] = [x \in Objects |-> IF x \in S \ {o} THEN 1 ELSE 0]
  BY DEF Once
<1> QED
  BY Zenon, <1>3, <1>4 DEF Once

(* Taking a reference and giving it back changes nothing.                  *)
LEMMA RefUnref ==
    ASSUME NEW h \in [Objects -> Nat], NEW o \in Objects, h[o] > 0
    PROVE  Unref(Ref(h, o), o) = h
<1>1. o # 0
  BY OwnershipAssumption
<1>2. Ref(h, o) = [h EXCEPT ![o] = h[o] + 1]
  BY DEF Ref
<1>3. Unref(Ref(h, o), o) = [[h EXCEPT ![o] = h[o] + 1] EXCEPT ![o] = h[o]]
  BY <1>1, <1>2 DEF Unref
<1> QED
  BY <1>3

----------------------------------------------------------------------------
(* The loop that releases a list of states.                                *)
UnrefLoop(f, h, s, n) == f = [i \in 0 .. n |-> IF i = 0 THEN h ELSE Unref(f[i - 1], s[i])]

(* It has a result.                                                        *)
LEMMA UnrefLoopExists ==
    ASSUME NEW h, NEW s, NEW m \in Nat
    PROVE  \E f : UnrefLoop(f, h, s, m)
<1> DEFINE I == {n \in Nat : ~\E f : UnrefLoop(f, h, s, n)}
<1> SUFFICES ASSUME I # {} PROVE FALSE
  OBVIOUS
<1> DEFINE n == Min(I)
<1>1. n \in I /\ \A y \in I : n <= y
  BY LeastNumber
<1> HIDE DEF n
<1>2. n \in Nat /\ ~\E f : UnrefLoop(f, h, s, n)
  BY <1>1
<1>3. CASE n = 0
  <2> DEFINE f == [i \in 0 .. 0 |-> h]
  <2>1. UnrefLoop(f, h, s, 0)
    BY DEF UnrefLoop
  <2> QED
    BY <1>2, <1>3, <2>1
<1>4. CASE n # 0
  <2>1. n - 1 \in Nat /\ n - 1 \notin I
    BY <1>1, <1>2, <1>4
  <2>2. PICK f : UnrefLoop(f, h, s, n - 1)
    BY <2>1
  <2> DEFINE g == [i \in 0 .. n |-> IF i < n THEN f[i] ELSE Unref(f[n - 1], s[n])]
  <2>3. \A i \in 0 .. n : g[i] = IF i = 0 THEN h ELSE Unref(g[i - 1], s[i])
    <3> SUFFICES ASSUME NEW i \in 0 .. n
                 PROVE  g[i] = IF i = 0 THEN h ELSE Unref(g[i - 1], s[i])
      OBVIOUS
    <3>1. CASE i = n
      BY <1>2, <1>4, <3>1
    <3>2. CASE i # n
      <4>1. i \in 0 .. n - 1 /\ g[i] = f[i] /\ (i # 0 => i - 1 \in 0 .. n /\ g[i - 1] = f[i - 1])
        BY <1>2, <3>2
      <4>2. f[i] = IF i = 0 THEN h ELSE Unref(f[i - 1], s[i])
        BY <2>2, <4>1 DEF UnrefLoop
      <4> QED
        BY <4>1, <4>2
    <3> QED
      BY <3>1, <3>2
  <2>4. g = [i \in 0 .. n |-> IF i = 0 THEN h ELSE Unref(g[i - 1], s[i])]
    BY <2>3
  <2> HIDE DEF g
  <2> QED
    BY <1>2, <2>4 DEF UnrefLoop
<1> QED
  BY <1>3, <1>4

(* The heap h without one reference to each of the first k of s.           *)
Less(h, s, k) == [o \in Objects |-> IF \E j \in 1 .. k : s[j] = o THEN h[o] - 1 ELSE h[o]]

(* Releasing the next one.                                                 *)
LEMMA LessStep ==
    ASSUME NEW h \in [Objects -> Nat], NEW s \in Seq(Objects), Apart(s),
           \A i \in 1 .. Len(s) : h[s[i]] > 0, NEW k \in 1 .. Len(s)
    PROVE  Unref(Less(h, s, k - 1), s[k]) = Less(h, s, k)
<1> DEFINE g == Less(h, s, k - 1)
           o == s[k]
<1>1. o \in Objects /\ o # 0 /\ h[o] \in Nat /\ h[o] > 0
  <2>1. o \in Objects
    OBVIOUS
  <2> QED
    BY Zenon, <2>1, OwnershipAssumption
<1>2. \A j \in 1 .. k - 1 : s[j] # o
  BY DEF Apart
<1>3. g \in [Objects -> Int] /\ g[o] = h[o]
  BY <1>1, <1>2 DEF Less
<1>4. Unref(g, o) = [g EXCEPT ![o] = h[o] - 1]
  BY <1>1, <1>3 DEF Unref
<1>5. \A x \in Objects : x # o => ((\E j \in 1 .. k : s[j] = x) <=> (\E j \in 1 .. k - 1 : s[j] = x))
  BY DEF Less
<1>6. \E j \in 1 .. k : s[j] = o
  OBVIOUS
<1>7. \A x \in Objects : [g EXCEPT ![o] = h[o] - 1][x] = Less(h, s, k)[x]
  <2> SUFFICES ASSUME NEW x \in Objects PROVE [g EXCEPT ![o] = h[o] - 1][x] = Less(h, s, k)[x]
    OBVIOUS
  <2>1. CASE x = o
    BY <1>3, <1>6, <2>1 DEF Less
  <2>2. CASE x # o
    <3>1. [g EXCEPT ![o] = h[o] - 1][x] = g[x]
      BY <1>3, <2>2
    <3> QED
      BY Zenon, <1>5, <2>2, <3>1 DEF Less
  <2> QED
    BY <2>1, <2>2
<1>8. [g EXCEPT ![o] = h[o] - 1] = Less(h, s, k)
  <2>1. /\ [g EXCEPT ![o] = h[o] - 1] = [x \in Objects |-> [g EXCEPT ![o] = h[o] - 1][x]]
        /\ Less(h, s, k) = [x \in Objects |-> Less(h, s, k)[x]]
    BY <1>3 DEF Less
  <2> QED
    BY Zenon, <1>7, <2>1
<1> QED
  BY Zenon, <1>4, <1>8

(* session_record_free_previous_states takes one reference from each.      *)
LEMMA UnrefAllLess ==
    ASSUME NEW h \in [Objects -> Nat], NEW s \in Seq(Objects), Apart(s),
           \A i \in 1 .. Len(s) : h[s[i]] > 0
    PROVE  UnrefAll(h, s) = Less(h, s, Len(s))
<1> DEFINE n == Len(s)
           f == CHOOSE g : g = [i \in 0 .. n |-> IF i = 0 THEN h ELSE Unref(g[i - 1], s[i])]
<1>1. UnrefAll(h, s) = f[n] /\ n \in Nat
  BY DEF UnrefAll
<1>2. \E g : UnrefLoop(g, h, s, n)
  BY <1>1, UnrefLoopExists
<1>3. UnrefLoop(f, h, s, n)
  BY Zenon, <1>2 DEF UnrefLoop
<1> HIDE DEF f
<1>4. f[0] = h /\ \A i \in 1 .. n : f[i] = Unref(f[i - 1], s[i])
  <2>1. 0 \in 0 .. n /\ \A i \in 1 .. n : i \in 0 .. n /\ i # 0
    BY <1>1
  <2> HIDE DEF n
  <2> QED
    BY Zenon, <1>3, <2>1 DEF UnrefLoop
<1> DEFINE I == {i \in Nat : i <= n /\ f[i] # Less(h, s, i)}
<1>5. ASSUME I # {} PROVE FALSE
  <2> DEFINE i == Min(I)
  <2>1. i \in I /\ \A y \in I : i <= y
    BY <1>5, LeastNumber
  <2> HIDE DEF i
  <2>2. i \in Nat /\ i <= n /\ f[i] # Less(h, s, i)
    BY <2>1
  <2>3. CASE i = 0
    <3>1. Less(h, s, 0) = h
      BY DEF Less
    <3> QED
      BY Zenon, <1>4, <2>2, <2>3, <3>1
  <2>4. CASE i # 0
    <3>1. i \in 1 .. n /\ i - 1 \in Nat /\ i - 1 <= n /\ i - 1 \notin I
      BY <1>1, <2>1, <2>2, <2>4
    <3>2. f[i - 1] = Less(h, s, i - 1)
      BY Zenon, <3>1
    <3>3. Unref(Less(h, s, i - 1), s[i]) = Less(h, s, i)
      BY <3>1, LessStep
    <3> QED
      BY Zenon, <1>4, <2>2, <3>1, <3>2, <3>3
  <2> QED
    BY <2>3, <2>4
<1> QED
  BY <1>1, <1>5
----------------------------------------------------------------------------
(* One more state is created.                                              *)
Created(w) == [heap |-> New(w.heap).heap, objects |-> Append(w.objects, New(w.heap).object)]

NewLoop(f, h, n) ==
    f = [i \in 0 .. n |-> IF i = 0 THEN [heap |-> h, objects |-> <<>>] ELSE Created(f[i - 1])]

(* The loop that creates states has a result.                              *)
LEMMA NewLoopExists ==
    ASSUME NEW h, NEW m \in Nat
    PROVE  \E f : NewLoop(f, h, m)
<1> DEFINE w == [heap |-> h, objects |-> <<>>]
           I == {n \in Nat : ~\E f : NewLoop(f, h, n)}
<1> SUFFICES ASSUME I # {} PROVE FALSE
  OBVIOUS
<1> DEFINE n == Min(I)
<1>1. n \in I /\ \A y \in I : n <= y
  BY LeastNumber
<1> HIDE DEF n
<1>2. n \in Nat /\ ~\E f : NewLoop(f, h, n)
  BY <1>1
<1>3. CASE n = 0
  <2> DEFINE f == [i \in 0 .. 0 |-> w]
  <2>1. NewLoop(f, h, 0)
    BY DEF NewLoop
  <2> QED
    BY <1>2, <1>3, <2>1
<1>4. CASE n # 0
  <2>1. n - 1 \in Nat /\ n - 1 \notin I
    BY <1>1, <1>2, <1>4
  <2>2. PICK f : NewLoop(f, h, n - 1)
    BY <2>1
  <2> DEFINE g == [i \in 0 .. n |-> IF i < n THEN f[i] ELSE Created(f[n - 1])]
  <2>3. \A i \in 0 .. n : g[i] = IF i = 0 THEN w ELSE Created(g[i - 1])
    <3> SUFFICES ASSUME NEW i \in 0 .. n
                 PROVE  g[i] = IF i = 0 THEN w ELSE Created(g[i - 1])
      OBVIOUS
    <3>1. CASE i = n
      BY <1>2, <1>4, <3>1
    <3>2. CASE i # n
      <4>1. i \in 0 .. n - 1 /\ g[i] = f[i] /\ (i # 0 => i - 1 \in 0 .. n /\ g[i - 1] = f[i - 1])
        BY <1>2, <3>2
      <4>2. f[i] = IF i = 0 THEN w ELSE Created(f[i - 1])
        BY <2>2, <4>1 DEF NewLoop
      <4> QED
        BY <4>1, <4>2
    <3> QED
      BY <3>1, <3>2
  <2>4. g = [i \in 0 .. n |-> IF i = 0 THEN w ELSE Created(g[i - 1])]
    BY <2>3
  <2> HIDE DEF g
  <2> QED
    BY <1>2, <2>4 DEF NewLoop
<1> QED
  BY <1>3, <1>4

(* The first i of n states were created, in a heap with the objects S.     *)
Making(w, S, i, n) ==
    /\ w.objects \in Seq(Objects) /\ Len(w.objects) = i /\ Apart(w.objects)
    /\ Range(w.objects) \cap S = {}
    /\ Once(w.heap, S \cup Range(w.objects))
    /\ Cardinality(Objects \ (S \cup Range(w.objects))) >= n - i

(* What is appended is the only thing that is added.                       *)
LEMMA AppendRange ==
    ASSUME NEW S, NEW s \in Seq(S), NEW x \in S
    PROVE  Append(s, x) \in Seq(S) /\ Range(Append(s, x)) = Range(s) \cup {x}
<1>1. /\ Append(s, x) \in Seq(S) /\ Len(Append(s, x)) = Len(s) + 1 /\ Len(s) \in Nat
      /\ Append(s, x)[Len(s) + 1] = x /\ \A i \in 1 .. Len(s) : Append(s, x)[i] = s[i]
  OBVIOUS
<1>2. /\ Range(s) = {s[i] : i \in 1 .. Len(s)}
      /\ Range(Append(s, x)) = {Append(s, x)[i] : i \in 1 .. Len(s) + 1}
  BY <1>1, RangePlaces
<1> QED
  BY <1>1, <1>2

(* Creating the next one.                                                  *)
LEMMA MakingStep ==
    ASSUME NEW S, NEW w, NEW i \in Nat, NEW n \in Nat, i < n, Making(w, S, i, n)
    PROVE  Making(Created(w), S, i + 1, n)
<1> DEFINE s == w.objects
           U == S \cup Range(s)
           o == New(w.heap).object
           t == Append(s, o)
<1>1. /\ s \in Seq(Objects) /\ Len(s) = i /\ Apart(s) /\ Range(s) \cap S = {}
      /\ Once(w.heap, U) /\ Cardinality(Objects \ U) >= n - i
  BY Zenon DEF Making
<1>2. IsFiniteSet(Objects \ U)
  BY OwnershipAssumption, FS_Subset
<1>3. Objects \ U # {} /\ Cardinality(Objects \ U) \in Nat
  <2>1. Cardinality({}) = 0
    BY FS_EmptySet
  <2>2. Cardinality(Objects \ U) # 0
    BY <1>1
  <2> QED
    BY <1>2, <2>1, <2>2, FS_CardinalityType
<1>4. o \in Objects \ U /\ Once(New(w.heap).heap, U \cup {o})
  BY Zenon, <1>1, <1>3, NewOnce
<1>5. Created(w).heap = New(w.heap).heap /\ Created(w).objects = t
  BY Zenon DEF Created
<1> HIDE DEF o
<1>6. /\ t \in Seq(Objects) /\ Range(t) = Range(s) \cup {o} /\ Len(t) = i + 1
      /\ t[i + 1] = o /\ \A k \in 1 .. i : t[k] = s[k]
  BY <1>1, <1>4, AppendRange
<1>7. Apart(t)
  <2>1. \A k \in 1 .. i : s[k] # o
    BY <1>1, <1>4, RangePlaces
  <2> HIDE DEF t, s
  <2> SUFFICES ASSUME NEW j \in 1 .. i + 1, NEW k \in 1 .. i + 1, t[j] = t[k] PROVE j = k
    BY <1>6 DEF Apart
  <2>2. \A x \in 1 .. i + 1 : x \in 1 .. i \/ x = i + 1
    OBVIOUS
  <2> QED
    BY Zenon, <1>1, <1>6, <2>1, <2>2 DEF Apart
<1>8. S \cup Range(t) = U \cup {o} /\ Range(t) \cap S = {}
  BY Zenon, <1>1, <1>4, <1>6
<1>9. Cardinality(Objects \ (S \cup Range(t))) >= n - (i + 1)
  <2>1. Objects \ (U \cup {o}) = (Objects \ U) \ {o}
    BY Zenon
  <2>2. Cardinality((Objects \ U) \ {o}) = Cardinality(Objects \ U) - 1
    BY <1>2, <1>4, FS_RemoveElement
  <2> HIDE DEF U, t
  <2>3. Cardinality(Objects \ (S \cup Range(t))) = Cardinality(Objects \ U) - 1
    BY Zenon, <1>8, <2>1, <2>2
  <2> QED
    BY <1>1, <1>3, <2>3
<1> HIDE DEF t, U
<1> QED
  BY Zenon, <1>4, <1>5, <1>6, <1>7, <1>8, <1>9 DEF Making

(* session_record_deserialize creates different states that were not in    *)
(* use.                                                                    *)
LEMMA NewStatesMade ==
    ASSUME NEW S, NEW h, Once(h, S), NEW n \in Nat, Cardinality(Objects \ S) >= n
    PROVE  Making(NewStates(h, n), S, n, n)
<1> DEFINE f == CHOOSE g : g = [i \in 0 .. n |->
                                 IF i = 0 THEN [heap |-> h, objects |-> <<>>] ELSE Created(g[i - 1])]
<1>1. NewStates(h, n) = f[n]
  BY Zenon DEF NewStates, Created
<1>2. \E g : NewLoop(g, h, n)
  BY NewLoopExists
<1>3. NewLoop(f, h, n)
  BY Zenon, <1>2 DEF NewLoop
<1> HIDE DEF f
<1>4. f[0] = [heap |-> h, objects |-> <<>>] /\ \A i \in 1 .. n : f[i] = Created(f[i - 1])
  <2>1. 0 \in 0 .. n /\ \A i \in 1 .. n : i \in 0 .. n /\ i # 0
    OBVIOUS
  <2> QED
    BY Zenon, <1>3, <2>1 DEF NewLoop
<1>5. Making(f[0], S, 0, n)
  <2>1. <<>> \in Seq(Objects) /\ Len(<<>>) = 0 /\ Range(<<>>) = {} /\ Apart(<<>>)
    BY DEF Apart, Range
  <2>2. S \cup Range(<<>>) = S /\ Range(<<>>) \cap S = {} /\ n - 0 = n
    BY <2>1
  <2>3. f[0].objects = <<>> /\ f[0].heap = h
    BY <1>4
  <2> QED
    BY Zenon, <2>1, <2>2, <2>3 DEF Making
<1> DEFINE I == {i \in Nat : i <= n /\ ~Making(f[i], S, i, n)}
<1>6. ASSUME I # {} PROVE FALSE
  <2> DEFINE i == Min(I)
  <2>1. i \in I /\ \A y \in I : i <= y
    BY <1>6, LeastNumber
  <2> HIDE DEF i
  <2>2. i \in Nat /\ i <= n /\ ~Making(f[i], S, i, n) /\ i # 0
    BY Zenon, <1>5, <2>1
  <2>3. /\ i \in 1 .. n /\ i - 1 \in Nat /\ i - 1 <= n /\ i - 1 < n /\ i - 1 \notin I
        /\ (i - 1) + 1 = i
    BY <2>1, <2>2
  <2>4. Making(f[i - 1], S, i - 1, n)
    BY Zenon, <2>3
  <2>5. Making(Created(f[i - 1]), S, (i - 1) + 1, n)
    BY Zenon, <2>3, <2>4, MakingStep
  <2> QED
    BY Zenon, <1>4, <2>2, <2>3, <2>5
<1>7. n <= n
  OBVIOUS
<1> QED
  BY Zenon, <1>1, <1>6, <1>7
----------------------------------------------------------------------------
(* A sequence is cut in two.                                               *)
LEMMA CutApart ==
    ASSUME NEW S, NEW s \in Seq(S), Apart(s), NEW k \in 0 .. Len(s)
    PROVE  LET a == SubSeq(s, 1, k)
               b == SubSeq(s, k + 1, Len(s))
           IN  /\ a \in Seq(S) /\ b \in Seq(S) /\ Apart(a) /\ Apart(b)
               /\ Range(a) \cup Range(b) = Range(s) /\ Range(a) \cap Range(b) = {}
<1> DEFINE n == Len(s)
           a == SubSeq(s, 1, k)
           b == SubSeq(s, k + 1, n)
<1>1. /\ a \in Seq(S) /\ Len(a) = k /\ \A i \in 1 .. k : a[i] = s[i]
      /\ b \in Seq(S) /\ Len(b) = n - k /\ \A i \in 1 .. n - k : b[i] = s[k + i]
      /\ n \in Nat
  OBVIOUS
<1> HIDE DEF a, b
<1>s. /\ \A i \in 1 .. n : s[i] \in Range(s)
      /\ \A x \in Range(s) : \E i \in 1 .. n : s[i] = x
  BY Zenon, InRange
<1>a. /\ \A i \in 1 .. k : a[i] \in Range(a)
      /\ \A x \in Range(a) : \E i \in 1 .. k : a[i] = x
  <2>1. /\ \A i \in 1 .. Len(a) : a[i] \in Range(a)
        /\ \A x \in Range(a) : \E i \in 1 .. Len(a) : a[i] = x
    BY Zenon, <1>1, InRange
  <2>2. Len(a) = k
    BY Zenon, <1>1
  <2> QED
    BY <2>1, <2>2
<1>b. /\ \A i \in 1 .. n - k : b[i] \in Range(b)
      /\ \A x \in Range(b) : \E i \in 1 .. n - k : b[i] = x
  <2>1. /\ \A i \in 1 .. Len(b) : b[i] \in Range(b)
        /\ \A x \in Range(b) : \E i \in 1 .. Len(b) : b[i] = x
    BY Zenon, <1>1, InRange
  <2>2. Len(b) = n - k
    BY Zenon, <1>1
  <2> QED
    BY <2>1, <2>2
<1>3. \A i, j \in 1 .. n : s[i] = s[j] => i = j
  BY Zenon DEF Apart
<1> HIDE DEF n
<1>4. \A i \in 1 .. n : i \in 1 .. k \/ (i - k \in 1 .. n - k /\ k + (i - k) = i)
  BY <1>1
<1>5. \A i \in 1 .. k : i \in 1 .. n
  BY <1>1 DEF n
<1>6. \A i \in 1 .. n - k : k + i \in 1 .. n /\ k + i \notin 1 .. k
  BY <1>1
<1>7. Apart(a)
  BY Zenon, <1>1, <1>3, <1>5 DEF Apart
<1>8. Apart(b)
  <2>1. \A i, j \in 1 .. n - k : k + i = k + j => i = j
    BY <1>1
  <2> QED
    BY <1>1, <1>3, <1>6, <2>1 DEF Apart
<1>9. Range(a) \cup Range(b) = Range(s)
  <2>1. ASSUME NEW x \in Range(s) PROVE x \in Range(a) \cup Range(b)
    <3>1. PICK i \in 1 .. n : x = s[i]
      BY Zenon, <1>s
    <3>2. CASE i \in 1 .. k
      BY Zenon, <1>1, <1>a, <3>1, <3>2
    <3>3. CASE i - k \in 1 .. n - k /\ k + (i - k) = i
      <4>1. b[i - k] = x
        BY Zenon, <1>1, <3>1, <3>3
      <4> QED
        BY Zenon, <1>b, <3>3, <4>1
    <3> QED
      BY Zenon, <1>4, <3>2, <3>3
  <2>2. ASSUME NEW x \in Range(a) PROVE x \in Range(s)
    <3>1. PICK i \in 1 .. k : a[i] = x
      BY Zenon, <1>a
    <3>2. i \in 1 .. n /\ s[i] = x
      BY Zenon, <1>1, <1>5, <3>1
    <3> QED
      BY Zenon, <1>s, <3>2
  <2>3. ASSUME NEW x \in Range(b) PROVE x \in Range(s)
    <3>1. PICK i \in 1 .. n - k : b[i] = x
      BY Zenon, <1>b
    <3>2. k + i \in 1 .. n /\ s[k + i] = x
      BY Zenon, <1>1, <1>6, <3>1
    <3> QED
      BY Zenon, <1>s, <3>2
  <2> QED
    BY Zenon, <2>1, <2>2, <2>3
<1>10. Range(a) \cap Range(b) = {}
  <2> SUFFICES ASSUME NEW x \in Range(a), x \in Range(b) PROVE FALSE
    OBVIOUS
  <2>1. PICK i \in 1 .. k : a[i] = x
    BY Zenon, <1>a
  <2>2. PICK j \in 1 .. n - k : b[j] = x
    BY Zenon, <1>b
  <2>3. s[i] = s[k + j]
    BY Zenon, <1>1, <2>1, <2>2
  <2> QED
    BY Zenon, <1>3, <1>5, <1>6, <2>3
<1> QED
  BY Zenon, <1>1, <1>7, <1>8, <1>9, <1>10 DEF a, b, n

(* Two sequences are joined.                                               *)
LEMMA JoinedApart ==
    ASSUME NEW S, NEW a \in Seq(S), NEW b \in Seq(S), Apart(a), Apart(b), Range(a) \cap Range(b) = {}
    PROVE  a \o b \in Seq(S) /\ Apart(a \o b) /\ Range(a \o b) = Range(a) \cup Range(b)
<1> DEFINE s == a \o b
           m == Len(a)
           n == Len(b)
<1>1. /\ s \in Seq(S) /\ Len(s) = m + n /\ m \in Nat /\ n \in Nat
      /\ \A i \in 1 .. m + n : s[i] = IF i <= m THEN a[i] ELSE b[i - m]
  BY ConcatProperties
<1> HIDE DEF s
<1>s. /\ \A i \in 1 .. m + n : s[i] \in Range(s)
      /\ \A x \in Range(s) : \E i \in 1 .. m + n : s[i] = x
  <2>1. /\ \A i \in 1 .. Len(s) : s[i] \in Range(s)
        /\ \A x \in Range(s) : \E i \in 1 .. Len(s) : s[i] = x
    BY Zenon, <1>1, InRange
  <2>2. Len(s) = m + n
    BY Zenon, <1>1
  <2> QED
    BY <2>1, <2>2
<1>a. /\ \A i \in 1 .. m : a[i] \in Range(a)
      /\ \A x \in Range(a) : \E i \in 1 .. m : a[i] = x
  BY Zenon, InRange
<1>b. /\ \A i \in 1 .. n : b[i] \in Range(b)
      /\ \A x \in Range(b) : \E i \in 1 .. n : b[i] = x
  BY Zenon, InRange
<1>3. /\ \A i, j \in 1 .. m : a[i] = a[j] => i = j
      /\ \A i, j \in 1 .. n : b[i] = b[j] => i = j
      /\ \A i \in 1 .. m : \A j \in 1 .. n : a[i] # b[j]
  <2>1. \A i \in 1 .. m : \A j \in 1 .. n : a[i] \in Range(a) /\ b[j] \in Range(b)
    BY Zenon, <1>a, <1>b
  <2>2. \A x \in Range(a) : x \notin Range(b)
    BY Zenon
  <2> QED
    BY Zenon, <2>1, <2>2 DEF Apart
<1> HIDE DEF m, n
<1>4. \A i \in 1 .. m : i \in 1 .. m + n /\ s[i] = a[i]
  BY <1>1
<1>5. \A i \in 1 .. n : m + i \in 1 .. m + n /\ s[m + i] = b[i]
  BY <1>1
<1>6. \A i \in 1 .. m + n : \/ i \in 1 .. m /\ s[i] = a[i]
                            \/ i - m \in 1 .. n /\ s[i] = b[i - m]
  BY <1>1
<1>7. Range(s) = Range(a) \cup Range(b)
  <2>1. ASSUME NEW x \in Range(a) PROVE x \in Range(s)
    <3>1. PICK i \in 1 .. m : a[i] = x
      BY Zenon, <1>a
    <3>2. i \in 1 .. m + n /\ s[i] = x
      BY Zenon, <1>4, <3>1
    <3> QED
      BY Zenon, <1>s, <3>2
  <2>2. ASSUME NEW x \in Range(b) PROVE x \in Range(s)
    <3>1. PICK i \in 1 .. n : b[i] = x
      BY Zenon, <1>b
    <3>2. m + i \in 1 .. m + n /\ s[m + i] = x
      BY Zenon, <1>5, <3>1
    <3> QED
      BY Zenon, <1>s, <3>2
  <2>3. ASSUME NEW x \in Range(s) PROVE x \in Range(a) \/ x \in Range(b)
    <3>1. PICK i \in 1 .. m + n : s[i] = x
      BY Zenon, <1>s
    <3>2. \/ i \in 1 .. m /\ a[i] = x
          \/ i - m \in 1 .. n /\ b[i - m] = x
      BY Zenon, <1>6, <3>1
    <3> QED
      BY Zenon, <1>a, <1>b, <3>2
  <2> QED
    BY Zenon, <2>1, <2>2, <2>3
<1>8. Apart(s)
  <2> SUFFICES ASSUME NEW i \in 1 .. m + n, NEW j \in 1 .. m + n, s[i] = s[j] PROVE i = j
    BY Zenon, <1>1 DEF Apart
  <2>1. i - m = j - m => i = j
    BY <1>1
  <2> QED
    BY Zenon, <1>3, <1>6, <2>1
<1> QED
  BY Zenon, <1>1, <1>7, <1>8 DEF s

(* DL_DELETE: all but one stay.                                            *)
LEMMA WithoutOne ==
    ASSUME NEW S, NEW s \in Seq(S), Apart(s), NEW i \in 1 .. Len(s)
    PROVE  /\ Without(s, i) \in Seq(S) /\ Apart(Without(s, i))
           /\ Range(Without(s, i)) = Range(s) \ {s[i]}
<1> DEFINE a == SubSeq(s, 1, i - 1)
           q == SubSeq(s, 1, i)
           b == SubSeq(s, i + 1, Len(s))
<1>1. i - 1 \in 0 .. Len(s) /\ i \in 0 .. Len(s) /\ i \in 1 .. i
  OBVIOUS
<1>2. a \in Seq(S) /\ Apart(a)
  BY <1>1, CutApart
<1>3. /\ q \in Seq(S) /\ b \in Seq(S) /\ Apart(b)
      /\ Range(q) \cup Range(b) = Range(s) /\ Range(q) \cap Range(b) = {}
  BY <1>1, CutApart
<1>4. Range(q) = Range(a) \cup {s[i]} /\ s[i] \notin Range(a)
  <2>1. Len(a) = i - 1 /\ \A k \in 1 .. i - 1 : a[k] = s[k]
    OBVIOUS
  <2>2. Len(q) = i /\ \A k \in 1 .. i : q[k] = s[k]
    OBVIOUS
  <2>3. /\ \A k \in 1 .. i : q[k] \in Range(q)
        /\ \A x \in Range(q) : \E k \in 1 .. i : q[k] = x
    <3>1. /\ \A k \in 1 .. Len(q) : q[k] \in Range(q)
          /\ \A x \in Range(q) : \E k \in 1 .. Len(q) : q[k] = x
      BY Zenon, <1>3, InRange
    <3>2. Len(q) = i
      BY Zenon, <1>3, <2>2
    <3> QED
      BY <3>1, <3>2
  <2>4. /\ \A k \in 1 .. i - 1 : a[k] \in Range(a)
        /\ \A x \in Range(a) : \E k \in 1 .. i - 1 : a[k] = x
    <3>1. /\ \A k \in 1 .. Len(a) : a[k] \in Range(a)
          /\ \A x \in Range(a) : \E k \in 1 .. Len(a) : a[k] = x
      BY Zenon, <1>2, InRange
    <3>2. Len(a) = i - 1
      BY Zenon, <1>2, <2>1
    <3> QED
      BY <3>1, <3>2
  <2> HIDE DEF a, q
  <2>5. \A k \in 1 .. i : k = i \/ k \in 1 .. i - 1
    OBVIOUS
  <2>6. \A k \in 1 .. i - 1 : k \in 1 .. i /\ k # i /\ k \in 1 .. Len(s)
    OBVIOUS
  <2>7. Range(q) \subseteq Range(a) \cup {s[i]}
    <3> SUFFICES ASSUME NEW x \in Range(q) PROVE x \in Range(a) \/ x = s[i]
      BY Zenon
    <3>1. PICK k \in 1 .. i : q[k] = x
      BY Zenon, <2>3
    <3>2. s[k] = x /\ (k = i \/ (k \in 1 .. i - 1 /\ a[k] = s[k]))
      BY Zenon, <2>1, <2>2, <2>5, <3>1
    <3> QED
      BY Zenon, <2>4, <3>2
  <2>8. Range(a) \subseteq Range(q)
    <3> SUFFICES ASSUME NEW x \in Range(a) PROVE x \in Range(q)
      BY Zenon
    <3>1. PICK k \in 1 .. i - 1 : a[k] = x
      BY Zenon, <2>4
    <3>2. k \in 1 .. i /\ q[k] = x
      BY Zenon, <2>1, <2>2, <2>6, <3>1
    <3> QED
      BY Zenon, <2>3, <3>2
  <2>9. s[i] \in Range(q)
    BY Zenon, <1>1, <2>2, <2>3
  <2>10. s[i] \notin Range(a)
    <3> SUFFICES ASSUME s[i] \in Range(a) PROVE FALSE
      BY Zenon
    <3>1. PICK k \in 1 .. i - 1 : a[k] = s[i]
      BY Zenon, <2>4
    <3>2. s[k] = s[i]
      BY Zenon, <2>1, <3>1
    <3> QED
      BY Zenon, <2>6, <3>2 DEF Apart
  <2> QED
    BY Zenon, <2>7, <2>8, <2>9, <2>10
<1>5. Without(s, i) = a \o b
  BY Zenon DEF Without
<1> HIDE DEF a, b, q
<1>6. Range(a) \cap Range(b) = {} /\ s[i] \notin Range(b)
  BY Zenon, <1>3, <1>4
<1>7. /\ a \o b \in Seq(S) /\ Apart(a \o b) /\ Range(a \o b) = Range(a) \cup Range(b)
  BY <1>2, <1>3, <1>6, JoinedApart
<1>8. Range(s) \ {s[i]} = Range(a) \cup Range(b)
  BY Zenon, <1>3, <1>4, <1>6
<1> QED
  BY Zenon, <1>5, <1>7, <1>8

----------------------------------------------------------------------------
(* Only objects count.                                                     *)
LEMMA OnceSame ==
    ASSUME NEW h, NEW S, NEW T, Once(h, S), \A o \in Objects : o \in S <=> o \in T
    PROVE  Once(h, T)
<1>1. \A o \in Objects : (IF o \in S THEN 1 ELSE 0) = (IF o \in T THEN 1 ELSE 0)
  BY Zenon
<1> QED
  BY Zenon, <1>1 DEF Once

(* After the list is released, its objects are gone.                       *)
LEMMA UnrefAllOnce ==
    ASSUME NEW S, NEW h, Once(h, S), NEW s \in Seq(Objects), Apart(s), Range(s) \subseteq S
    PROVE  Once(UnrefAll(h, s), S \ Range(s))
<1>1. h \in [Objects -> Nat] /\ \A o \in Objects : h[o] = IF o \in S THEN 1 ELSE 0
  BY DEF Once
<1>2. /\ \A i \in 1 .. Len(s) : s[i] \in Range(s)
      /\ \A x \in Range(s) : \E i \in 1 .. Len(s) : s[i] = x
  BY Zenon, InRange
<1>3. \A i \in 1 .. Len(s) : s[i] \in Objects
  OBVIOUS
<1>4. \A i \in 1 .. Len(s) : h[s[i]] = 1
  BY Zenon, <1>1, <1>2, <1>3
<1>5. \A i \in 1 .. Len(s) : h[s[i]] > 0
  BY <1>4
<1>6. UnrefAll(h, s) = Less(h, s, Len(s))
  BY Zenon, <1>1, <1>5, UnrefAllLess
<1>7. \A o \in Objects : (IF \E j \in 1 .. Len(s) : s[j] = o THEN h[o] - 1 ELSE h[o])
                         = (IF o \in S \ Range(s) THEN 1 ELSE 0)
  <2> TAKE o \in Objects
  <2>1. (\E j \in 1 .. Len(s) : s[j] = o) <=> o \in Range(s)
    BY Zenon, <1>2
  <2>2. o \in Range(s) => o \in S
    BY Zenon
  <2> QED
    BY <1>1, <2>1, <2>2
<1> QED
  BY Zenon, <1>6, <1>7 DEF Once, Less

(* The same while a state is held twice, which is then released once.      *)
LEMMA ReleaseRest ==
    ASSUME NEW S, NEW h, Once(h, S), NEW o \in Objects, o \in S,
           NEW s \in Seq(Objects), Apart(s), Range(s) \subseteq S \ {o}
    PROVE  Once(Unref(UnrefAll(Ref(h, o), s), o), S \ Range(s))
<1> DEFINE g == Ref(h, o)
           f == UnrefAll(g, s)
<1>1. h \in [Objects -> Nat] /\ \A x \in Objects : h[x] = IF x \in S THEN 1 ELSE 0
  BY DEF Once
<1>2. g \in [Objects -> Nat] /\ g[o] = 2 /\ \A x \in Objects \ {o} : g[x] = IF x \in S THEN 1 ELSE 0
  BY <1>1 DEF Ref
<1>3. /\ \A i \in 1 .. Len(s) : s[i] \in Range(s)
      /\ \A x \in Range(s) : \E i \in 1 .. Len(s) : s[i] = x
  BY Zenon, InRange
<1>4. \A i \in 1 .. Len(s) : s[i] \in Objects
  OBVIOUS
<1> HIDE DEF g
<1>5. \A i \in 1 .. Len(s) : g[s[i]] = 1
  BY Zenon, <1>2, <1>3, <1>4
<1>6. \A i \in 1 .. Len(s) : g[s[i]] > 0
  BY <1>5
<1>7. f = Less(g, s, Len(s))
  BY Zenon, <1>2, <1>6, UnrefAllLess
<1> HIDE DEF f
<1>8. \A x \in Objects : (\E j \in 1 .. Len(s) : s[j] = x) <=> x \in Range(s)
  BY Zenon, <1>3
<1>9. /\ f \in [Objects -> Int] /\ f[o] = 2
      /\ \A x \in Objects \ {o} : f[x] = IF x \in S \ Range(s) THEN 1 ELSE 0
  <2>1. f = [x \in Objects |-> IF x \in Range(s) THEN g[x] - 1 ELSE g[x]]
    BY Zenon, <1>7, <1>8 DEF Less
  <2>2. o \notin Range(s) /\ \A x \in Range(s) : x \in S
    BY Zenon
  <2> QED
    BY <1>2, <2>1, <2>2
<1>10. Unref(f, o) = [f EXCEPT ![o] = 1]
  <2>1. o # 0
    BY OwnershipAssumption
  <2> QED
    BY <1>9, <2>1 DEF Unref
<1>11. Unref(f, o) = [x \in Objects |-> IF x \in S \ Range(s) THEN 1 ELSE 0]
  <2>1. o \in S \ Range(s)
    BY Zenon
  <2> QED
    BY <1>9, <1>10, <2>1
<1> QED
  BY Zenon, <1>11 DEF Once, f, g

LEMMA WithParts ==
    ASSUME NEW w, NEW h, NEW r, w = With(h, r)
    PROVE  w.heap = h /\ w.record = r
  BY DEF With

LEMMA BecomesParts ==
    ASSUME NEW STATE h, NEW STATE r, Becomes(With(h, r))
    PROVE  refs' = h /\ record' = r
<1>1. refs' = With(h, r).heap /\ record' = With(h, r).record
  BY Zenon DEF Becomes
<1> QED
  BY <1>1 DEF With

(* A list of one.                                                          *)
LEMMA Single ==
    ASSUME NEW S, NEW x \in S
    PROVE  <<x>> \in Seq(S) /\ Apart(<<x>>) /\ Range(<<x>>) = {x}
<1> DEFINE t == <<x>>
<1>1. t \in Seq(S) /\ Len(t) = 1 /\ t[1] = x
  OBVIOUS
<1> HIDE DEF t
<1>2. Apart(t)
  BY <1>1 DEF Apart
<1>3. /\ \A i \in 1 .. Len(t) : t[i] \in Range(t)
      /\ \A y \in Range(t) : \E i \in 1 .. Len(t) : t[i] = y
  BY Zenon, <1>1, InRange
<1>4. 1 \in 1 .. Len(t) /\ \A i \in 1 .. Len(t) : i = 1
  BY <1>1
<1>5. x \in Range(t) /\ \A y \in Range(t) : y = x
  BY Zenon, <1>1, <1>3, <1>4
<1>6. Range(t) = {x}
  BY Zenon, <1>5
<1> QED
  BY Zenon, <1>1, <1>2, <1>6 DEF t

(* session_record_promote_state, and the release by its caller: the record *)
(* holds the new state, and what it no longer holds is gone.               *)
LEMMA Promoted ==
    ASSUME NEW h, NEW r, RecordOK(r), r.state # 0, NEW o \in Objects, o \notin Owned(r),
           NEW L, L \cap Owned(r) = {}, o \notin L, Once(h, Owned(r) \cup {o} \cup L),
           NEW room \in BOOLEAN
    PROVE  LET p == PromoteState(h, r, o, room)
           IN  /\ RecordOK(p.record) /\ L \cap Owned(p.record) = {}
               /\ Once(Unref(p.heap, o), Owned(p.record) \cup L)
<1> DEFINE p == PromoteState(h, r, o, room)
           S == Owned(r) \cup {o} \cup L
<1>1. /\ r.state \in Objects /\ r.previous \in Seq(Objects)
      /\ Apart(r.previous) /\ r.state \notin Range(r.previous)
  BY DEF RecordOK
<1>2. CASE ~room
  <2>1. p = With(h, r)
    BY Zenon, <1>2 DEF PromoteState
  <2>2. p.heap = h /\ p.record = r
    BY Zenon, <2>1, WithParts
  <2>3. Once(Unref(h, o), S \ {o})
    BY Zenon, UnrefOnce
  <2>4. S \ {o} = Owned(r) \cup L
    BY Zenon
  <2> QED
    BY Zenon, <2>2, <2>3, <2>4
<1>3. CASE room
  <2> DEFINE q == <<r.state>> \o r.previous
             k == Min({MaxPrevious, Len(q)})
             a == SubSeq(q, 1, k)
             b == SubSeq(q, k + 1, Len(q))
             n == [state |-> o, previous |-> a]
  <2>1. p = With(UnrefAll(Ref(h, o), b), n)
    BY Zenon, <1>3 DEF PromoteState
  <2>2. p.heap = UnrefAll(Ref(h, o), b) /\ p.record = n
    BY Zenon, <2>1, WithParts
  <2>3. /\ <<r.state>> \in Seq(Objects) /\ Apart(<<r.state>>) /\ Range(<<r.state>>) = {r.state}
    BY Zenon, <1>1, Single
  <2>4. q \in Seq(Objects) /\ Apart(q) /\ Range(q) = Owned(r)
    <3>1. Range(<<r.state>>) \cap Range(r.previous) = {}
      BY Zenon, <1>1, <2>3
    <3> DEFINE t == <<r.state>>
               u == r.previous
    <3>2. t \in Seq(Objects) /\ u \in Seq(Objects) /\ Apart(t) /\ Apart(u)
      BY Zenon, <1>1, <2>3
    <3> HIDE DEF t, u
    <3>3. Range(t) \cap Range(u) = {}
      BY Zenon, <3>1 DEF t, u
    <3>4. t \o u \in Seq(Objects) /\ Apart(t \o u) /\ Range(t \o u) = Range(t) \cup Range(u)
      BY <3>2, <3>3, JoinedApart
    <3> QED
      BY Zenon, <2>3, <3>4 DEF Owned, t, u
  <2> HIDE DEF q
  <2>5. k \in 0 .. Len(q)
    <3>1. Len(q) \in Nat
      BY <2>4
    <3>2. {MaxPrevious, Len(q)} \in SUBSET Nat
      BY <3>1, OwnershipAssumption
    <3>3. k \in {MaxPrevious, Len(q)} /\ \A y \in {MaxPrevious, Len(q)} : k <= y
      BY <3>2, LeastNumber
    <3> HIDE DEF k
    <3> QED
      BY <3>1, <3>2, <3>3
  <2> HIDE DEF k
  <2>6. /\ a \in Seq(Objects) /\ b \in Seq(Objects) /\ Apart(a) /\ Apart(b)
        /\ Range(a) \cup Range(b) = Owned(r) /\ Range(a) \cap Range(b) = {}
    BY Zenon, <2>4, <2>5, CutApart
  <2> HIDE DEF a, b
  <2>7. Range(b) \subseteq S \ {o}
    BY Zenon, <2>6
  <2>8. Once(Unref(p.heap, o), S \ Range(b))
    BY Zenon, <2>2, <2>6, <2>7, ReleaseRest
  <2>9. Owned(n) = {o} \cup Range(a)
    BY Zenon DEF Owned
  <2>10. S \ Range(b) = Owned(n) \cup L
    BY Zenon, <2>6, <2>9
  <2>11. RecordOK(n) /\ L \cap Owned(n) = {}
    <3>1. n \in [state : Objects \cup {0}, previous : Seq(Objects)]
      BY <2>6
    <3>2. o # 0
      BY OwnershipAssumption
    <3>3. o \notin Range(a)
      BY Zenon, <2>6
    <3>4. RecordOK(n)
      BY Zenon, <2>6, <3>1, <3>2, <3>3 DEF RecordOK
    <3>5. L \cap Owned(n) = {}
      BY Zenon, <2>6, <2>9
    <3> QED
      BY Zenon, <3>4, <3>5
  <2> QED
    BY Zenon, <2>2, <2>8, <2>10, <2>11
<1> QED
  BY Zenon, <1>2, <1>3

(* No record: it holds nothing.                                            *)
LEMMA EmptyRecord == RecordOK(NoRecord) /\ Owned(NoRecord) = {0}
<1> DEFINE r == NoRecord
           s == <<>>
<1>1. r.state = 0 /\ r.previous = s /\ r \in [state : Objects \cup {0}, previous : Seq(Objects)]
  BY DEF NoRecord
<1>2. s \in Seq(Objects) /\ Len(s) = 0
  OBVIOUS
<1>3. \A i \in 1 .. 0 : FALSE
  OBVIOUS
<1> HIDE DEF s, r
<1>4. Apart(s)
  BY Zenon, <1>2, <1>3 DEF Apart
<1>5. \A x \in Range(s) : \E i \in 1 .. Len(s) : s[i] = x
  BY Zenon, <1>2, InRange
<1>6. Range(s) = {}
  BY Zenon, <1>2, <1>3, <1>5
<1>7. RecordOK(r)
  BY Zenon, <1>1, <1>4, <1>6 DEF RecordOK, r
<1>8. Owned(r) = {0}
  BY Zenon, <1>1, <1>6 DEF Owned
<1> QED
  BY Zenon, <1>7, <1>8 DEF r

----------------------------------------------------------------------------
LEMMA OwnershipStart == OwnershipInit => OwnershipInv
<1> SUFFICES ASSUME OwnershipInit PROVE OwnershipInv
  OBVIOUS
<1>1. RecordOK(NoRecord) /\ Owned(NoRecord) = {0}
  BY Zenon, EmptyRecord
<1>2. 0 \notin Objects
  BY OwnershipAssumption
<1>3. \A o \in Objects : (IF o \in {0} \cup {} THEN 1 ELSE 0) = 0
  BY Zenon, <1>2
<1>4. Once(refs, {0} \cup {})
  BY Zenon, <1>3 DEF Once, OwnershipInit
<1> QED
  BY Zenon, <1>1, <1>4 DEF OwnershipInit, OwnershipInv

(* A new state, when there is a record and when there is room for one.     *)
LEMMA NewInUse ==
    ASSUME OwnershipInv, Free(refs) # {}
    PROVE  LET o == New(refs).object
           IN  /\ o \in Objects /\ o \notin Owned(record) /\ o \notin leaked
               /\ Once(New(refs).heap, Owned(record) \cup {o} \cup leaked)
<1> DEFINE S == Owned(record) \cup leaked
           o == New(refs).object
<1>1. Once(refs, S)
  BY Zenon DEF OwnershipInv
<1>2. Free(refs) = Objects \ S
  BY <1>1 DEF Free, Once
<1>3. o \in Objects \ S /\ Once(New(refs).heap, S \cup {o})
  BY Zenon, <1>1, <1>2, NewOnce
<1>4. S \cup {o} = Owned(record) \cup {o} \cup leaked
  BY Zenon
<1> QED
  BY Zenon, <1>3, <1>4

(* What the record that is in memory looks like.                           *)
LEMMA InMemory ==
    ASSUME OwnershipInv, Loaded
    PROVE  /\ record.state \in Objects /\ record.state # 0 /\ record.previous \in Seq(Objects)
           /\ Apart(record.previous) /\ record.state \notin Range(record.previous)
           /\ record = [state |-> record.state, previous |-> record.previous]
           /\ Owned(record) = {record.state} \cup Range(record.previous)
           /\ leaked \cap Owned(record) = {} /\ leaked \subseteq Objects
<1>1. RecordOK(record) /\ leaked \cap Owned(record) = {} /\ leaked \subseteq Objects
  BY Zenon DEF OwnershipInv
<1>2. record.state # 0
  BY Zenon, <1>1 DEF RecordOK, Loaded
<1>3. record \in [state : Objects \cup {0}, previous : Seq(Objects)]
  BY Zenon, <1>1 DEF RecordOK
<1>4. /\ record.state \in Objects /\ record.previous \in Seq(Objects)
      /\ record = [state |-> record.state, previous |-> record.previous]
  BY <1>2, <1>3
<1> QED
  BY Zenon, <1>1, <1>2, <1>4 DEF RecordOK, Owned

(* A record with a state, from its parts.                                  *)
LEMMA RecordMade ==
    ASSUME NEW o \in Objects, NEW s \in Seq(Objects), Apart(s), o \notin Range(s),
           NEW r, r = [state |-> o, previous |-> s]
    PROVE  /\ RecordOK(r) /\ Owned(r) = {o} \cup Range(s)
           /\ r.state = o /\ r.previous = s /\ r.state # 0
<1>1. r.state = o /\ r.previous = s /\ r \in [state : Objects \cup {0}, previous : Seq(Objects)]
  OBVIOUS
<1>2. o # 0
  BY OwnershipAssumption
<1> QED
  BY Zenon, <1>1, <1>2 DEF RecordOK, Owned

LEMMA DecryptCurrentOwns == OwnershipInv /\ DecryptCurrent => OwnershipInv'
<1> SUFFICES ASSUME OwnershipInv, DecryptCurrent PROVE OwnershipInv'
  OBVIOUS
<1> DEFINE h == New(refs).heap
           o == New(refs).object
           v == record.state
           s == record.previous
           n == [record EXCEPT !.state = o]
<1>1. Loaded /\ Free(refs) # {}
  BY Zenon DEF DecryptCurrent
<1>2. /\ v \in Objects /\ v # 0 /\ s \in Seq(Objects) /\ Apart(s) /\ v \notin Range(s)
      /\ record = [state |-> v, previous |-> s] /\ Owned(record) = {v} \cup Range(s)
      /\ leaked \cap Owned(record) = {} /\ leaked \subseteq Objects
  BY Zenon, <1>1, InMemory
<1>3. /\ o \in Objects /\ o \notin Owned(record) /\ o \notin leaked
      /\ Once(h, Owned(record) \cup {o} \cup leaked)
  BY Zenon, <1>1, NewInUse
<1>4. SetState(h, record, o) = With(Ref(Unref(h, v), o), n)
  BY Zenon DEF SetState
<1>5. SetState(h, record, o).heap = Ref(Unref(h, v), o) /\ SetState(h, record, o).record = n
  BY Zenon, <1>4, WithParts
<1>6. refs' = Unref(Ref(Unref(h, v), o), o) /\ record' = n /\ leaked' = leaked
  <2>1. Becomes(With(Unref(SetState(h, record, o).heap, o), SetState(h, record, o).record))
    BY Zenon DEF DecryptCurrent
  <2>2. Becomes(With(Unref(Ref(Unref(h, v), o), o), n))
    BY Zenon, <1>5, <2>1
  <2> QED
    BY Zenon, <2>2, BecomesParts DEF DecryptCurrent
<1>7. n = [state |-> o, previous |-> s]
  BY <1>2
<1> HIDE DEF h, o, v, s, n
<1>8. v # o /\ v \in Owned(record) \cup {o} \cup leaked
  BY Zenon, <1>2, <1>3
<1>9. Once(Unref(h, v), (Owned(record) \cup {o} \cup leaked) \ {v})
  BY Zenon, <1>2, <1>3, <1>8, UnrefOnce
<1>10. refs' = Unref(h, v)
  <2>1. o \in (Owned(record) \cup {o} \cup leaked) \ {v}
    BY Zenon, <1>8
  <2> DEFINE g == Unref(h, v)
  <2>2. Once(g, (Owned(record) \cup {o} \cup leaked) \ {v})
    BY Zenon, <1>9
  <2> HIDE DEF g
  <2>3. g \in [Objects -> Nat] /\ g[o] > 0
    BY <1>3, <2>1, <2>2 DEF Once
  <2>4. Unref(Ref(g, o), o) = g
    BY Zenon, <1>3, <2>3, RefUnref
  <2> QED
    BY Zenon, <1>6, <2>4 DEF g
<1>11. RecordOK(n) /\ Owned(n) = {o} \cup Range(s)
  <2>1. o \notin Range(s)
    BY Zenon, <1>2, <1>3
  <2> QED
    BY Zenon, <1>2, <1>3, <1>7, <2>1, RecordMade
<1>12. (Owned(record) \cup {o} \cup leaked) \ {v} = Owned(n) \cup leaked
  BY Zenon, <1>2, <1>8, <1>11
<1>13. leaked \cap Owned(n) = {}
  BY Zenon, <1>2, <1>3, <1>11
<1>14. Once(refs', Owned(n) \cup leaked)
  BY Zenon, <1>9, <1>10, <1>12
<1> QED
  BY Zenon, <1>2, <1>6, <1>11, <1>13, <1>14 DEF OwnershipInv

(* The copy of the state that reads a message is promoted, or lost.        *)
LEMMA DecryptPreviousOwns ==
    ASSUME NEW i, NEW room \in BOOLEAN, OwnershipInv, DecryptPrevious(i, room)
    PROVE  OwnershipInv'
<1> DEFINE h == New(refs).heap
           o == New(refs).object
           v == record.state
           s == record.previous
           g == Unref(h, s[i])
           m == [record EXCEPT !.previous = Without(@, i)]
           p == PromoteState(g, m, o, room)
<1>1. Loaded /\ Free(refs) # {} /\ i \in DOMAIN s
  BY Zenon DEF DecryptPrevious
<1>2. /\ v \in Objects /\ v # 0 /\ s \in Seq(Objects) /\ Apart(s) /\ v \notin Range(s)
      /\ record = [state |-> v, previous |-> s] /\ Owned(record) = {v} \cup Range(s)
      /\ leaked \cap Owned(record) = {} /\ leaked \subseteq Objects
  BY Zenon, <1>1, InMemory
<1>3. /\ o \in Objects /\ o \notin Owned(record) /\ o \notin leaked
      /\ Once(h, Owned(record) \cup {o} \cup leaked)
  BY Zenon, <1>1, NewInUse
<1>4. refs' = Unref(p.heap, o) /\ record' = p.record /\ leaked' = leaked
  <2>1. PreviousRemove(h, record, i) = With(g, m)
    BY Zenon DEF PreviousRemove
  <2>2. PreviousRemove(h, record, i).heap = g /\ PreviousRemove(h, record, i).record = m
    BY Zenon, <2>1, WithParts
  <2> DEFINE z == PreviousRemove(h, record, i)
             y == PromoteState(z.heap, z.record, o, room)
  <2>3. Becomes(With(Unref(y.heap, o), y.record)) /\ leaked' = leaked
    BY Zenon DEF DecryptPrevious
  <2>4. y = p
    BY Zenon, <2>2
  <2> HIDE DEF y, p
  <2>5. Becomes(With(Unref(p.heap, o), p.record))
    BY Zenon, <2>3, <2>4
  <2> QED
    BY Zenon, <2>3, <2>5, BecomesParts
<1>5. m = [state |-> v, previous |-> Without(s, i)]
  BY <1>2
<1> HIDE DEF h, o, v, s, m
<1>6. i \in 1 .. Len(s)
  BY <1>1, <1>2
<1>7. /\ Without(s, i) \in Seq(Objects) /\ Apart(Without(s, i))
      /\ Range(Without(s, i)) = Range(s) \ {s[i]}
  BY Zenon, <1>2, <1>6, WithoutOne
<1>8. s[i] \in Objects /\ s[i] \in Range(s)
  <2>1. s[i] \in Range(s)
    BY Zenon, <1>2, <1>6, InRange
  <2> QED
    BY <1>2, <1>6, <2>1
<1>9. v \notin Range(Without(s, i))
  BY Zenon, <1>2, <1>7
<1>10. /\ RecordOK(m) /\ Owned(m) = {v} \cup Range(Without(s, i)) /\ m.state # 0
  BY Zenon, <1>2, <1>5, <1>7, <1>9, RecordMade
<1>11. s[i] \in Owned(record) \cup {o} \cup leaked
  BY Zenon, <1>2, <1>8
<1>12. Once(g, (Owned(record) \cup {o} \cup leaked) \ {s[i]})
  BY Zenon, <1>3, <1>8, <1>11, UnrefOnce
<1>13. /\ s[i] # o /\ s[i] # v /\ s[i] \notin leaked
  BY Zenon, <1>2, <1>3, <1>8
<1>14. (Owned(record) \cup {o} \cup leaked) \ {s[i]} = Owned(m) \cup {o} \cup leaked
  BY Zenon, <1>2, <1>7, <1>10, <1>13
<1> HIDE DEF g
<1>15. Once(g, Owned(m) \cup {o} \cup leaked)
  BY Zenon, <1>12, <1>14
<1>16. o \notin Owned(m) /\ leaked \cap Owned(m) = {}
  BY Zenon, <1>2, <1>3, <1>7, <1>10
<1>17. /\ RecordOK(p.record) /\ leaked \cap Owned(p.record) = {}
       /\ Once(Unref(p.heap, o), Owned(p.record) \cup leaked)
  BY Zenon, <1>3, <1>10, <1>15, <1>16, Promoted
<1> HIDE DEF p
<1> QED
  BY Zenon, <1>2, <1>4, <1>17 DEF OwnershipInv

LEMMA ArchiveOwns ==
    ASSUME NEW room \in BOOLEAN, OwnershipInv, Archive(room)
    PROVE  OwnershipInv'
<1> DEFINE h == New(refs).heap
           o == New(refs).object
           p == PromoteState(h, record, o, room)
<1>1. Loaded /\ Free(refs) # {}
  BY Zenon DEF Archive
<1>2. record.state # 0 /\ leaked \cap Owned(record) = {} /\ leaked \subseteq Objects
  BY Zenon, <1>1, InMemory
<1>3. /\ o \in Objects /\ o \notin Owned(record) /\ o \notin leaked
      /\ Once(h, Owned(record) \cup {o} \cup leaked)
  BY Zenon, <1>1, NewInUse
<1>4. refs' = Unref(p.heap, o) /\ record' = p.record /\ leaked' = leaked
  <2>1. Becomes(With(Unref(p.heap, o), p.record)) /\ leaked' = leaked
    BY Zenon DEF Archive
  <2> HIDE DEF p
  <2> QED
    BY Zenon, <2>1, BecomesParts
<1> HIDE DEF h, o
<1>5. RecordOK(record)
  BY Zenon DEF OwnershipInv
<1>6. /\ RecordOK(p.record) /\ leaked \cap Owned(p.record) = {}
      /\ Once(Unref(p.heap, o), Owned(p.record) \cup leaked)
  BY Zenon, <1>2, <1>3, <1>5, Promoted
<1> HIDE DEF p
<1> QED
  BY Zenon, <1>2, <1>4, <1>6 DEF OwnershipInv

LEMMA DestroyOwns == OwnershipInv /\ Destroy => OwnershipInv'
<1> SUFFICES ASSUME OwnershipInv, Destroy PROVE OwnershipInv'
  OBVIOUS
<1> DEFINE v == record.state
           s == record.previous
           g == Unref(refs, v)
<1>1. /\ v \in Objects /\ s \in Seq(Objects) /\ Apart(s) /\ v \notin Range(s)
      /\ Owned(record) = {v} \cup Range(s)
      /\ leaked \cap Owned(record) = {} /\ leaked \subseteq Objects
  BY Zenon, InMemory DEF Destroy
<1>2. refs' = UnrefAll(g, s) /\ record' = NoRecord /\ leaked' = leaked
  <2>1. Becomes(With(UnrefAll(g, s), NoRecord)) /\ leaked' = leaked
    BY Zenon DEF Destroy
  <2> QED
    BY Zenon, <2>1, BecomesParts
<1>3. Once(refs, Owned(record) \cup leaked)
  BY Zenon DEF OwnershipInv
<1> HIDE DEF v, s
<1>4. Once(g, (Owned(record) \cup leaked) \ {v})
  BY Zenon, <1>1, <1>3, UnrefOnce
<1> HIDE DEF g
<1>5. Range(s) \subseteq (Owned(record) \cup leaked) \ {v}
  BY Zenon, <1>1
<1>6. Once(UnrefAll(g, s), ((Owned(record) \cup leaked) \ {v}) \ Range(s))
  BY Zenon, <1>1, <1>4, <1>5, UnrefAllOnce
<1>7. RecordOK(NoRecord) /\ Owned(NoRecord) = {0}
  BY Zenon, EmptyRecord
<1>8. 0 \notin Objects
  BY OwnershipAssumption
<1>9. \A x \in Objects : x \in ((Owned(record) \cup leaked) \ {v}) \ Range(s) <=> x \in {0} \cup leaked
  BY Zenon, <1>1, <1>8
<1>10. Once(UnrefAll(g, s), {0} \cup leaked)
  BY Zenon, <1>6, <1>9, OnceSame
<1>11. leaked \cap {0} = {}
  BY Zenon, <1>1, <1>8
<1> QED
  BY Zenon, <1>1, <1>2, <1>7, <1>10, <1>11 DEF OwnershipInv

(* A record is read only when there is none: the first state, and room for *)
(* n others.                                                               *)
LEMMA FirstLoaded ==
    ASSUME OwnershipInv, ~Loaded, NEW n \in Nat, Cardinality(Free(refs)) > n
    PROVE  LET o == New(refs).object
           IN  /\ o \in Objects /\ o \notin leaked /\ leaked \subseteq Objects
               /\ record = NoRecord
               /\ Once(New(refs).heap, leaked \cup {o})
               /\ Cardinality(Objects \ (leaked \cup {o})) >= n
<1> DEFINE o == New(refs).object
           F == Objects \ leaked
<1>1. record = NoRecord /\ Owned(NoRecord) = {0}
  BY Zenon, EmptyRecord DEF Loaded
<1>2. leaked \subseteq Objects /\ Once(refs, {0} \cup leaked)
  BY Zenon, <1>1 DEF OwnershipInv
<1>3. 0 \notin Objects
  BY OwnershipAssumption
<1>4. Once(refs, leaked)
  <2>1. \A x \in Objects : x \in {0} \cup leaked <=> x \in leaked
    BY Zenon, <1>3
  <2> QED
    BY Zenon, <1>2, <2>1, OnceSame
<1>5. Free(refs) = F
  BY <1>4 DEF Free, Once
<1>6. IsFiniteSet(F) /\ Cardinality(F) \in Nat /\ Cardinality(F) > n
  <2>1. IsFiniteSet(F)
    BY OwnershipAssumption, FS_Subset
  <2> QED
    BY <1>5, <2>1, FS_CardinalityType
<1>7. F # {}
  BY <1>6, FS_EmptySet
<1>8. o \in F /\ Once(New(refs).heap, leaked \cup {o})
  BY Zenon, <1>4, <1>7, NewOnce
<1> HIDE DEF o
<1>9. Cardinality(F \ {o}) = Cardinality(F) - 1
  BY <1>6, <1>8, FS_RemoveElement
<1>10. F \ {o} = Objects \ (leaked \cup {o})
  BY Zenon
<1>11. Cardinality(Objects \ (leaked \cup {o})) >= n
  BY <1>6, <1>9, <1>10
<1> QED
  BY Zenon, <1>1, <1>2, <1>8, <1>11 DEF o

LEMMA LoadOwns ==
    ASSUME NEW n \in Nat, OwnershipInv, Load(n)
    PROVE  OwnershipInv'
<1> DEFINE h == New(refs).heap
           o == New(refs).object
           w == NewStates(h, n)
           r == [state |-> o, previous |-> w.objects]
<1>1. /\ o \in Objects /\ o \notin leaked /\ leaked \subseteq Objects
      /\ Once(h, leaked \cup {o}) /\ Cardinality(Objects \ (leaked \cup {o})) >= n
  BY Zenon, FirstLoaded DEF Load
<1>2. Unref(Ref(h, o), o) = h
  <2>1. o \in leaked \cup {o}
    OBVIOUS
  <2> HIDE DEF h, o
  <2>2. h \in [Objects -> Nat] /\ h[o] > 0
    BY <1>1, <2>1 DEF Once
  <2> QED
    BY Zenon, <1>1, <2>2, RefUnref
<1>3. refs' = w.heap /\ record' = r /\ leaked' = leaked
  <2> DEFINE all == NewStates(Unref(Ref(h, o), o), n)
  <2>1. Becomes(With(all.heap, [state |-> o, previous |-> all.objects])) /\ leaked' = leaked
    BY Zenon DEF Load
  <2>2. all = w
    BY Zenon, <1>2
  <2> HIDE DEF all, w
  <2>3. Becomes(With(w.heap, [state |-> o, previous |-> w.objects]))
    BY Zenon, <2>1, <2>2
  <2> QED
    BY Zenon, <2>1, <2>3, BecomesParts
<1> HIDE DEF h, o
<1>4. Making(w, leaked \cup {o}, n, n)
  BY Zenon, <1>1, NewStatesMade
<1> HIDE DEF w
<1>5. /\ w.objects \in Seq(Objects) /\ Apart(w.objects) /\ Range(w.objects) \cap (leaked \cup {o}) = {}
      /\ Once(w.heap, (leaked \cup {o}) \cup Range(w.objects))
  BY Zenon, <1>4 DEF Making
<1>6. o \notin Range(w.objects)
  BY Zenon, <1>5
<1>7. RecordOK(r) /\ Owned(r) = {o} \cup Range(w.objects)
  <2>1. r = [state |-> o, previous |-> w.objects]
    OBVIOUS
  <2> HIDE DEF r
  <2> QED
    BY Zenon, <1>1, <1>5, <1>6, <2>1, RecordMade
<1>8. leaked \cap Owned(r) = {}
  BY Zenon, <1>1, <1>5, <1>7
<1>9. (leaked \cup {o}) \cup Range(w.objects) = Owned(r) \cup leaked
  BY Zenon, <1>7
<1> HIDE DEF r
<1>10. Once(w.heap, Owned(r) \cup leaked)
  BY Zenon, <1>5, <1>9
<1> QED
  BY Zenon, <1>1, <1>3, <1>7, <1>8, <1>10 DEF OwnershipInv

LEMMA LoadFailsOwns ==
    ASSUME NEW n \in Nat, OwnershipInv, LoadFails(n)
    PROVE  OwnershipInv'
<1> DEFINE h == New(refs).heap
           o == New(refs).object
           w == NewStates(h, n)
           R == Range(w.objects)
<1>1. /\ o \in Objects /\ o \notin leaked /\ leaked \subseteq Objects /\ record = NoRecord
      /\ Once(h, leaked \cup {o}) /\ Cardinality(Objects \ (leaked \cup {o})) >= n
  BY Zenon, FirstLoaded DEF LoadFails
<1>2. refs' = Unref(w.heap, o) /\ record' = record /\ leaked' = leaked \cup R
  BY Zenon DEF LoadFails
<1> HIDE DEF h, o
<1>3. Making(w, leaked \cup {o}, n, n)
  BY Zenon, <1>1, NewStatesMade
<1> HIDE DEF w
<1>4. /\ w.objects \in Seq(Objects) /\ R \cap (leaked \cup {o}) = {}
      /\ Once(w.heap, (leaked \cup {o}) \cup R)
  BY Zenon, <1>3 DEF Making
<1>5. R \subseteq Objects
  BY Zenon, <1>4, RangePlaces
<1> HIDE DEF R
<1>6. Once(Unref(w.heap, o), ((leaked \cup {o}) \cup R) \ {o})
  <2>1. o \in (leaked \cup {o}) \cup R
    BY Zenon
  <2> QED
    BY Zenon, <1>1, <1>4, <2>1, UnrefOnce
<1>7. RecordOK(NoRecord) /\ Owned(NoRecord) = {0}
  BY Zenon, EmptyRecord
<1>8. 0 \notin Objects
  BY OwnershipAssumption
<1>9. \A x \in Objects : x \in ((leaked \cup {o}) \cup R) \ {o} <=> x \in {0} \cup (leaked \cup R)
  BY Zenon, <1>1, <1>4, <1>8
<1>10. Once(Unref(w.heap, o), {0} \cup (leaked \cup R))
  BY Zenon, <1>6, <1>9, OnceSame
<1>11. (leaked \cup R) \cap {0} = {} /\ leaked \cup R \subseteq Objects
  BY Zenon, <1>1, <1>5, <1>8
<1>12. record' = NoRecord
  BY Zenon, <1>1, <1>2
<1> QED
  BY Zenon, <1>2, <1>7, <1>10, <1>11, <1>12 DEF OwnershipInv

(* The invariant says what CountsExact says: an object is in the list of   *)
(* previous states at one place, or at none.                               *)
LEMMA InvCounts == OwnershipInv => CountsExact
<1> SUFFICES ASSUME OwnershipInv, NEW o \in Objects
             PROVE  refs[o] = (IF record.state = o THEN 1 ELSE 0)
                              + Cardinality({i \in DOMAIN record.previous : record.previous[i] = o})
                              + (IF o \in leaked THEN 1 ELSE 0)
  BY Zenon DEF CountsExact
<1> DEFINE s == record.previous
           I == {i \in DOMAIN s : s[i] = o}
<1>1. /\ s \in Seq(Objects) /\ Apart(s) /\ record.state \notin Range(s)
      /\ leaked \cap Owned(record) = {} /\ Owned(record) = {record.state} \cup Range(s)
  <2>1. record \in [state : Objects \cup {0}, previous : Seq(Objects)]
    BY Zenon DEF OwnershipInv, RecordOK
  <2>2. s \in Seq(Objects)
    BY <2>1
  <2> QED
    BY Zenon, <2>2 DEF OwnershipInv, RecordOK, Owned
<1>2. refs[o] = IF o \in Owned(record) \cup leaked THEN 1 ELSE 0
  BY Zenon DEF OwnershipInv, Once
<1> HIDE DEF s
<1>3. Cardinality(I) = IF o \in Range(s) THEN 1 ELSE 0
  <2>1. DOMAIN s = 1 .. Len(s)
    BY <1>1
  <2>2. /\ \A i \in 1 .. Len(s) : s[i] \in Range(s)
        /\ \A x \in Range(s) : \E i \in 1 .. Len(s) : s[i] = x
    BY Zenon, <1>1, InRange
  <2>3. CASE o \in Range(s)
    <3>1. PICK i \in 1 .. Len(s) : s[i] = o
      BY Zenon, <2>2, <2>3
    <3>2. \A j \in 1 .. Len(s) : s[j] = o => j = i
      BY Zenon, <1>1, <3>1 DEF Apart
    <3>3. I = {i}
      BY Zenon, <2>1, <3>1, <3>2
    <3> QED
      BY <2>3, <3>3, FS_Singleton
  <2>4. CASE o \notin Range(s)
    <3>1. I = {}
      BY Zenon, <2>1, <2>2, <2>4
    <3> QED
      BY <2>4, <3>1, FS_EmptySet
  <2> QED
    BY Zenon, <2>3, <2>4
<1> HIDE DEF I
<1>4. /\ ~(record.state = o /\ o \in Range(s)) /\ ~(o \in leaked /\ o \in Range(s))
      /\ ~(o \in leaked /\ record.state = o)
  BY Zenon, <1>1
<1>5. o \in Owned(record) \cup leaked <=> (record.state = o \/ o \in Range(s) \/ o \in leaked)
  BY Zenon, <1>1
<1>6. refs[o] = (IF record.state = o THEN 1 ELSE 0) + Cardinality(I) + (IF o \in leaked THEN 1 ELSE 0)
  BY <1>2, <1>3, <1>4, <1>5
<1> QED
  BY Zenon, <1>6 DEF I, s

(* Every session state of a record in memory has the one reference that    *)
(* the record holds, through reading, archiving, promoting and evicting,   *)
(* with or without memory for the node, for every limit of archived        *)
(* states and every number of objects; what is left when the record is     *)
(* gone are only the states of failed deserializations.                    *)
THEOREM CountsAreExact == OwnershipSpec => []CountsExact
<1>1. OwnershipInit => OwnershipInv
  BY Zenon, OwnershipStart
<1>2. OwnershipInv /\ [OwnershipNext]_ownershipVars => OwnershipInv'
  <2> SUFFICES ASSUME OwnershipInv, [OwnershipNext]_ownershipVars PROVE OwnershipInv'
    OBVIOUS
  <2>1. CASE UNCHANGED ownershipVars
    BY Zenon, <2>1 DEF ownershipVars, OwnershipInv, RecordOK, Owned, Once, Apart, NoRecord, Range
  <2>2. ASSUME NEW n \in 0 .. MaxPrevious, Load(n) \/ LoadFails(n) PROVE OwnershipInv'
    <3>1. n \in Nat
      OBVIOUS
    <3> QED
      BY Zenon, <2>2, <3>1, LoadOwns, LoadFailsOwns
  <2>3. CASE DecryptCurrent
    BY Zenon, <2>3, DecryptCurrentOwns
  <2>4. CASE Destroy
    BY Zenon, <2>4, DestroyOwns
  <2>5. ASSUME NEW room \in BOOLEAN, Archive(room) PROVE OwnershipInv'
    BY Zenon, <2>5, ArchiveOwns
  <2>6. ASSUME NEW room \in BOOLEAN, NEW i \in 1 .. MaxPrevious, DecryptPrevious(i, room)
        PROVE  OwnershipInv'
    BY Zenon, <2>6, DecryptPreviousOwns
  <2> QED
    BY Zenon, <2>1, <2>2, <2>3, <2>4, <2>5, <2>6 DEF OwnershipNext
<1> QED
  BY <1>1, <1>2, InvCounts, PTL DEF OwnershipSpec

=============================================================================
