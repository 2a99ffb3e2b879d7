-------------------------------- MODULE Vpool ------------------------------
(***************************************************************************)
(* vpool.c: a growing buffer.  Data lies somewhere in a block of memory;   *)
(* taking data off the front moves the start instead of the data.  PoolNext to *)
(* it, the sequence that the caller thinks of.                             *)
(***************************************************************************)
EXTENDS Integers, Sequences

CONSTANTS
    BlkSize,      \* v_blksize
    Limit,        \* v_limit
    MaxData,      \* bound on the length of what is inserted
    MaxPoolOps    \* bound on calls

ASSUME PoolAssumption ==
    BlkSize \in Nat \ {0} /\ Limit \in Nat /\ MaxData \in Nat /\ MaxPoolOps \in Nat

VARIABLES
    mem,       \* v_basebuf: what is in the block; its length is v_size
    gap,       \* v_buf - v_basebuf
    off,       \* v_off
    ideal,     \* what the pool holds
    failed,    \* v_lasterr # 0
    exported,  \* the block and the length that vpool_export handed out
    wanted,    \* what was in the pool then
    ops        \* calls so far

poolVars == <<mem, gap, off, ideal, failed, exported, wanted, ops>>

Stale == 0      \* what nobody has written

(* vpool_new_size: 0 if the limit does not allow it                        *)
NewSize(n) ==
    LET need == off + n
        rem  == need % BlkSize
    IN  IF n <= Len(mem) - off THEN Len(mem)
        ELSE IF Limit - off < n THEN 0
        ELSE IF rem = 0 THEN need
        ELSE IF Limit - off >= n + (BlkSize - rem) THEN need + BlkSize - rem
        ELSE Limit

Contents == SubSeq(mem, gap + 1, gap + off)

(* vpool_shift                                                             *)
Shifted == Contents \o SubSeq(mem, off + 1, Len(mem))

Fill(size) == [i \in 1 .. size |-> Stale]

(* Mutant: data is shifted only when the block is full.                    *)
ResizedNoShift(n) ==
    LET size == NewSize(n)
    IN  IF size > Len(mem) THEN [mem |-> Contents \o Fill(size - off), gap |-> 0]
        ELSE [mem |-> mem, gap |-> gap]

(* vpool_resize with vpool_shift: the block afterwards, and where data     *)
(* starts                                                                  *)
Resized(n) ==
    LET size == NewSize(n)
    IN  IF size > Len(mem) THEN [mem |-> Contents \o Fill(size - off), gap |-> 0]
        ELSE IF Len(mem) - off - gap < n
             THEN [mem |-> Shifted, gap |-> 0]
        ELSE [mem |-> mem, gap |-> gap]

(* memmove and memcpy: `data` is put at position p of the block, over what *)
(* is there.                                                               *)
Overwrite(m, p, data) ==
    [i \in DOMAIN m |-> IF i \in p + 1 .. p + Len(data) THEN data[i - p] ELSE m[i]]

Call == ops < MaxPoolOps /\ ops' = ops + 1

Fails == failed' = TRUE /\ UNCHANGED <<mem, gap, off, ideal>>

(* vpool_insert; vpool_expand is the same, with data of the caller's        *)
(* choice written afterwards.                                             *)
Insert(where, data) ==
    LET n  == Len(data)
        at == IF where > off THEN off ELSE where
        r  == Resized(n)
        moved == Overwrite(r.mem, r.gap + at + n, SubSeq(r.mem, r.gap + at + 1, r.gap + off))
    IN  /\ Call
        /\ UNCHANGED <<exported, wanted>>
        /\ IF n > Len(mem) - off /\ Limit - off < n THEN Fails
           ELSE /\ mem' = Overwrite(moved, r.gap + at, data)
                /\ gap' = r.gap
                /\ off' = off + n
                /\ ideal' = SubSeq(ideal, 1, at) \o data \o SubSeq(ideal, at + 1, Len(ideal))
                /\ failed' = FALSE

(* vpool_truncate with VPOOL_EXCLUDE                                       *)
Exclude(where, n) ==
    /\ Call
    /\ UNCHANGED <<exported, wanted>>
    /\ IF where >= off \/ n > off \/ off - n < where THEN Fails
       ELSE /\ IF where = 0 THEN gap' = gap + n /\ mem' = mem
               ELSE /\ mem' = Overwrite(mem, gap + where, SubSeq(mem, gap + where + n + 1, gap + off))
                    /\ gap' = gap
            /\ off' = off - n
            /\ ideal' = SubSeq(ideal, 1, where) \o SubSeq(ideal, where + n + 1, Len(ideal))
            /\ failed' = FALSE

(* vpool_truncate with VPOOL_INCLUDE                                       *)
Include(where, n) ==
    /\ Call
    /\ UNCHANGED <<exported, wanted>>
    /\ IF where >= off \/ n > off \/ off - n < where THEN Fails
       ELSE /\ gap' = gap + where
            /\ off' = n
            /\ ideal' = SubSeq(ideal, where + 1, where + n)
            /\ failed' = FALSE
            /\ UNCHANGED mem

(* vpool_wipe                                                              *)
Wipe ==
    /\ Call
    /\ off' = 0 /\ ideal' = <<>> /\ failed' = FALSE
    /\ UNCHANGED <<mem, gap, exported, wanted>>

Emptied == mem' = <<>> /\ gap' = 0 /\ off' = 0 /\ ideal' = <<>> /\ failed' = FALSE

(* vpool_reset                                                             *)
Reset == Call /\ Emptied /\ UNCHANGED <<exported, wanted>>

(* vpool_export                                                            *)
Export ==
    /\ Call
    /\ exported' = [block |-> Shifted, size |-> off] /\ wanted' = ideal
    /\ Emptied

PoolInit ==
    /\ mem = <<>> /\ gap = 0 /\ off = 0
    /\ ideal = <<>> /\ failed = FALSE /\ ops = 0
    /\ exported = [block |-> <<>>, size |-> 0] /\ wanted = <<>>

(* Every insertion brings values of its own.                               *)
Data(n) == [i \in 1 .. n |-> 10 * (ops + 1) + i]

PoolNext ==
    \/ \E where \in 0 .. off + 1, n \in 1 .. MaxData : Insert(where, Data(n))
    \/ \E where, n \in 0 .. off : Exclude(where, n) \/ Include(where, n)
    \/ Wipe \/ Reset \/ Export

PoolSpec == PoolInit /\ [][PoolNext]_poolVars

----------------------------------------------------------------------------
(* The pool holds what its caller put there, in order, wherever in the     *)
(* block it lies; the data is inside of the block, and the block within    *)
(* the limit.  What vpool_export hands out begins with what was in it.     *)
PoolHolds ==
    /\ gap + off <= Len(mem) /\ Len(mem) <= Limit
    /\ Contents = ideal
    /\ SubSeq(exported.block, 1, exported.size) = wanted

=============================================================================
