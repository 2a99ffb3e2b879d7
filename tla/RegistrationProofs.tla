------------------------- MODULE RegistrationProofs ------------------------
(***************************************************************************)
(* One-time keys are handed out once, whatever calls overlap and whatever  *)
(* happens to the files; and published ones stay readable until a call     *)
(* overlaps with another or the pre keys file is disturbed.  For any       *)
(* number of calls, any sizes of batches, any low-water mark and either    *)
(* platform.                                                               *)
(***************************************************************************)
EXTENDS Registration, FiniteSetTheorems, TLAPS

(* Every identity and key pair seen anywhere was drawn in the past, so     *)
(* what is drawn next is different from all of them.                       *)
Fresh ==
    /\ local.identity <= gen
    /\ \A k \in server.keys : k.identity <= gen /\ k.gen <= gen
    /\ \A k \in handed : k.identity <= gen /\ k.gen <= gen
    /\ \A s \in Slots : \A k \in calls[s].keys : k.identity <= gen /\ k.gen <= gen

(* The keys of a batch are with one call, or at the server or a peer.      *)
Apart ==
    /\ \A s \in Slots : \A k \in calls[s].keys : k \notin server.keys /\ k \notin handed
    /\ \A s, t \in Slots : s # t => \A k \in calls[s].keys : k \notin calls[t].keys

(* Only a batch that is being stored has keys to do, and what the main     *)
(* thread is about to put into the file is one of them.                    *)
Shape ==
    /\ \A s \in Slots :
          /\ calls[s].todo \subseteq calls[s].keys
          /\ calls[s].todo # {} => calls[s].op = "store"
          /\ calls[s].op = "store" => calls[s].st = "none"
    /\ access["native"].put = {}
    /\ \A k \in access["main"].put :
          access["main"].open /\ \E s \in Slots : calls[s].op = "store" /\ k \in calls[s].keys

(* The file has one entry per id.                                          *)
UniqueIds(S) == \A j, k \in S : j.id = k.id => j = k

Unique ==
    /\ UniqueIds(stored)
    /\ \A t \in Users : UniqueIds(access[t].seen) /\ UniqueIds(access[t].put)

(* What the server counts can be counted.                                  *)
Finite ==
    /\ IsFiniteSet(server.keys)
    /\ \A s \in Slots : IsFiniteSet(calls[s].keys)

Base == RegTypes /\ Fresh /\ Apart /\ Shape /\ Unique /\ Finite /\ FetchedOnce

(* One call is outstanding, and one thread has the file open.              *)
Alone ==
    /\ \A s, t \in Slots : calls[s] # Idle /\ calls[t] # Idle => s = t
    /\ ~(access["main"].open /\ access["native"].open)

(* A registration runs only on a device without identity key, a refill     *)
(* only on one that has it; the identity key is stored last.               *)
CallsAgree ==
    /\ \A s \in Slots :
          /\ calls[s].op = "account" => local.regId # None /\ local.identity = None
          /\ calls[s].op = "count" => local.identity # None
    /\ local.identity # None => local.regId # None

Mine(k) == local.identity # None /\ k.identity = local.identity

(* The key is in the file, or in what will be written to it; on iOS the    *)
(* old file is there until then.                                           *)
Held(k) ==
    /\ (\A t \in Users : ~access[t].open) => k \in stored
    /\ \A t \in Users : access[t].open =>
          k \in Contents(access[t]) /\ (Ios => k \in stored \/ k \in access[t].put)

(* PublishedStored, place by place; and storing the rest of a batch will   *)
(* replace no key that is out there.                                       *)
Kept ==
    /\ \A k \in server.keys \cup handed : Mine(k) => Held(k)
    /\ \A s \in Slots : \A k \in calls[s].keys \ calls[s].todo : Mine(k) => Held(k)
    /\ \A s \in Slots : \A k \in calls[s].todo :
          \A n \in server.keys \cup handed : Mine(n) => n.id # k.id
    /\ \A s \in Slots : UniqueIds(calls[s].keys)

Calm == ~disturbed => Alone /\ CallsAgree /\ Kept

Inv == Base /\ Calm

LEMMA IdleCall ==
    /\ Idle \in Call /\ Idle.keys = {} /\ Idle.todo = {}
    /\ Idle.op = "idle" /\ Idle.st = "none"
BY DEF Idle, Call, None

LEMMA ClosedAccess ==
    /\ Closed \in Access /\ Closed.open = FALSE /\ Closed.put = {} /\ Closed.seen = {}
BY DEF Closed, Access

LEMMA InitInv == RegInit => Inv
<1> SUFFICES ASSUME RegInit PROVE Inv
  OBVIOUS
<1> USE DEF RegInit
<1>1. /\ \A s \in Slots : calls[s] = Idle
      /\ \A t \in Users : access[t] = Closed
      /\ "main" \in Users /\ "native" \in Users
  BY DEF Users
<1>2. RegTypes
  BY IdleCall, ClosedAccess DEF RegTypes, NoLocal, NoAccount, None
<1>3. Fresh
  BY <1>1, IdleCall DEF Fresh, NoLocal, NoAccount, None
<1>4. Apart /\ FetchedOnce
  BY <1>1, IdleCall DEF Apart, FetchedOnce
<1>5. Shape
  BY <1>1, IdleCall, ClosedAccess DEF Shape
<1>6. Unique
  BY <1>1, ClosedAccess DEF Unique, UniqueIds
<1>7. Finite
  BY Zenon, <1>1, IdleCall, FS_EmptySet DEF Finite, NoAccount
<1>8. Alone
  BY <1>1, ClosedAccess DEF Alone
<1>9. CallsAgree
  BY <1>1, IdleCall DEF CallsAgree, NoLocal
<1>10. Kept
  BY <1>1, IdleCall DEF Kept, NoAccount, UniqueIds
<1> QED
  BY <1>2, <1>3, <1>4, <1>5, <1>6, <1>7, <1>8, <1>9, <1>10 DEF Inv, Base, Calm

Account == [regId : Nat, identity : Nat, keys : SUBSET Key, last : Nat]

(* What is known of the call of a slot, and of the account.                *)
LEMMA CallFacts ==
    ASSUME Inv, NEW s \in Slots
    PROVE  /\ calls[s] \in Call /\ server \in Account
           /\ calls[s].op # "store" => calls[s].todo = {}
           /\ calls[s].st # "none" => calls[s].op # "store" /\ calls[s].todo = {}
           /\ calls[s].st # "none" => calls[s] # Idle
           /\ calls[s].op # "idle" => calls[s] # Idle
BY IdleCall DEF Inv, Base, RegTypes, Account, Shape

(* While nothing was disturbed, whoever calls is alone.                    *)
LEMMA OthersIdle ==
    ASSUME Inv, NEW s \in Slots, calls[s] # Idle, ~disturbed
    PROVE  /\ \A t \in Slots : t # s => calls[t] = Idle
           /\ calls[s].op = "account" => local.regId # None /\ local.identity = None
           /\ calls[s].op = "count" => local.identity # None
BY Zenon DEF Inv, Calm, Alone, CallsAgree

(* An exchange goes on, or ends, without any new keys: the call of the     *)
(* slot becomes r, and the server's keys stay or are cleared.              *)
LEMMA ExchangeInv ==
    ASSUME Inv, NEW s \in Slots, NEW r \in Call, r.op # "store", r.todo = {},
           calls[s].todo = {}, r.keys \in {calls[s].keys, {}},
           calls[s].op = "store" => ~access["main"].open,
           calls' = [calls EXCEPT ![s] = r],
           server' \in Account, server'.keys \in {server.keys, {}},
           disturbed' \in BOOLEAN,
           ~disturbed' => /\ ~disturbed
                          /\ \A t \in Slots : t # s => calls[t] = Idle
                          /\ r.op = "account" => local.regId # None /\ local.identity = None
                          /\ r.op = "count" => local.identity # None,
           UNCHANGED <<local, stored, access, handed, gen>>
    PROVE  Inv'
<1>1. calls'[s] = r /\ \A t \in Slots : t # s => calls'[t] = calls[t]
  BY DEF Inv, Base, RegTypes
<1>2. server'.keys \subseteq server.keys
  OBVIOUS
<1>a. \A t \in Slots : calls'[t].keys \subseteq calls[t].keys
  BY <1>1
<1>3. RegTypes'
  <2>1. calls' \in [Slots -> Call]
    BY DEF Inv, Base, RegTypes
  <2> QED
    BY <2>1 DEF Inv, Base, RegTypes, Account
<1>4. Fresh'
  BY <1>a, <1>2 DEF Inv, Base, Fresh
<1>5. Apart'
  BY <1>a, <1>2 DEF Inv, Base, Apart
<1>6. Shape'
  <2>1. ASSUME NEW t \in Slots
        PROVE  /\ calls'[t].todo \subseteq calls'[t].keys
               /\ calls'[t].todo # {} => calls'[t].op = "store"
               /\ calls'[t].op = "store" => calls'[t].st = "none"
    BY <1>1 DEF Inv, Base, Shape
  <2>2. ASSUME NEW k \in access["main"].put
        PROVE  access["main"].open /\ \E t \in Slots : calls'[t].op = "store" /\ k \in calls'[t].keys
    <3>1. access["main"].open
      BY DEF Inv, Base, Shape
    <3>2. PICK t \in Slots : calls[t].op = "store" /\ k \in calls[t].keys
      BY DEF Inv, Base, Shape
    <3>3. t # s
      BY <3>1, <3>2
    <3> QED
      BY <1>1, <3>1, <3>2, <3>3
  <2> QED
    BY <2>1, <2>2 DEF Inv, Base, Shape
<1>7. Unique' /\ FetchedOnce'
  BY <1>2 DEF Inv, Base, Unique, FetchedOnce
<1>8. Finite'
  BY ZenonT(30), <1>1, FS_EmptySet DEF Inv, Base, Finite
<1>9. Calm'
  <2> SUFFICES ASSUME ~disturbed' PROVE Alone' /\ CallsAgree' /\ Kept'
    BY DEF Calm
  <2>1. Alone /\ CallsAgree /\ Kept /\ \A t \in Slots : t # s => calls'[t] = Idle
    BY <1>1 DEF Inv, Calm
  <2>2. Alone'
    BY <2>1 DEF Alone
  <2>3. CallsAgree'
    BY <1>1, <2>1, IdleCall DEF CallsAgree
  <2>4. Kept'
    <3>1. \A t \in Slots : calls'[t].todo = {} /\ calls'[t].keys \subseteq calls[t].keys \ calls[t].todo
      BY <1>1, <2>1, IdleCall
    <3>2. \A k : (Mine(k)' <=> Mine(k)) /\ (Held(k)' <=> Held(k))
      BY DEF Mine, Held
    <3> QED
      BY <1>2, <2>1, <3>1, <3>2 DEF Kept, UniqueIds
  <2> QED
    BY <2>2, <2>3, <2>4
<1> QED
  BY <1>3, <1>4, <1>5, <1>6, <1>7, <1>8, <1>9 DEF Inv, Base

(* The end of an exchange.                                                 *)
LEMMA EndInv ==
    ASSUME Inv, NEW s \in Slots, calls[s].st # "none", End(s),
           UNCHANGED <<local, stored, access, server, handed, gen, disturbed>>
    PROVE  Inv'
<1>1. calls[s].op # "store" /\ calls[s].todo = {} /\ calls[s] # Idle
  BY CallFacts
<1>2. calls' = [calls EXCEPT ![s] = Idle]
  BY DEF End, Request
<1>3. server' \in Account /\ server'.keys = server.keys
  BY CallFacts
<1>4. disturbed \in BOOLEAN
  BY DEF Inv, Base, RegTypes
<1> QED
  BY ZenonT(60), <1>1, <1>2, <1>3, <1>4, IdleCall, OthersIdle, ExchangeInv

LEMMA OnFailureInv ==
    ASSUME Inv, NEW s \in Slots, OnFailure(s)
    PROVE  Inv'
BY EndInv DEF OnFailure

LEMMA OnKeysResponseInv ==
    ASSUME Inv, NEW s \in Slots, OnKeysResponse(s)
    PROVE  Inv'
BY EndInv DEF OnKeysResponse

LEMMA ServerAccountInv ==
    ASSUME Inv, NEW s \in Slots, ServerAccount(s)
    PROVE  Inv'
<1> DEFINE r == [calls[s] EXCEPT !.st = "ok"]
<1>1. calls[s] \in Call /\ calls[s].st = "sent"
  BY CallFacts DEF ServerAccount
<1>2. calls[s].op # "store" /\ calls[s].todo = {} /\ calls[s] # Idle
  BY <1>1, CallFacts
<1>3. r \in Call /\ r.op = calls[s].op /\ r.todo = calls[s].todo
  BY <1>1, ZenonT(60) DEF Call
<1>4. r.keys \in {calls[s].keys, {}}
  BY <1>1 DEF Call
<1>5. /\ calls' = [calls EXCEPT ![s] = r]
      /\ UNCHANGED <<local, stored, access, handed, gen, disturbed>>
  BY DEF ServerAccount, Request
<1>6. server' \in Account /\ server'.keys \in {server.keys, {}}
  BY CallFacts DEF ServerAccount, Account, Call, NoAccount, None
<1>7. disturbed \in BOOLEAN
  BY DEF Inv, Base, RegTypes
<1> HIDE DEF r
<1> QED
  BY ZenonT(60), <1>2, <1>3, <1>4, <1>5, <1>6, <1>7, OthersIdle, ExchangeInv

LEMMA ServerAttributesInv ==
    ASSUME Inv, NEW s \in Slots, ServerAttributes(s)
    PROVE  Inv'
<1> DEFINE r == [calls[s] EXCEPT !.st = "ok"]
<1>1. calls[s] \in Call /\ calls[s].st = "sent"
  BY CallFacts DEF ServerAttributes
<1>2. calls[s].op # "store" /\ calls[s].todo = {} /\ calls[s] # Idle
  BY <1>1, CallFacts
<1>3. r \in Call /\ r.op = calls[s].op /\ r.todo = calls[s].todo
  BY <1>1, ZenonT(60) DEF Call
<1>4. r.keys \in {calls[s].keys, {}}
  BY <1>1 DEF Call
<1>5. /\ calls' = [calls EXCEPT ![s] = r]
      /\ UNCHANGED <<local, stored, access, handed, gen, disturbed>>
  BY DEF ServerAttributes, Request
<1>6. server' \in Account /\ server'.keys \in {server.keys, {}}
  BY CallFacts DEF ServerAttributes, Account, Call
<1>7. disturbed \in BOOLEAN
  BY DEF Inv, Base, RegTypes
<1> HIDE DEF r
<1> QED
  BY ZenonT(60), <1>2, <1>3, <1>4, <1>5, <1>6, <1>7, OthersIdle, ExchangeInv

LEMMA ServerRefusesInv ==
    ASSUME Inv, NEW s \in Slots, ServerRefuses(s)
    PROVE  Inv'
<1> DEFINE r == [calls[s] EXCEPT !.st = "error", !.keys = {}]
<1>1. calls[s] \in Call /\ calls[s].st = "sent"
  BY CallFacts DEF ServerRefuses
<1>2. calls[s].op # "store" /\ calls[s].todo = {} /\ calls[s] # Idle
  BY <1>1, CallFacts
<1>3. r \in Call /\ r.op = calls[s].op /\ r.todo = calls[s].todo
  BY <1>1, ZenonT(60) DEF Call
<1>4. r.keys \in {calls[s].keys, {}}
  BY <1>1 DEF Call
<1>5. /\ calls' = [calls EXCEPT ![s] = r]
      /\ UNCHANGED <<local, stored, access, handed, gen, disturbed>>
  BY DEF ServerRefuses, Request
<1>6. server' \in Account /\ server'.keys \in {server.keys, {}}
  BY CallFacts DEF ServerRefuses
<1>7. disturbed \in BOOLEAN
  BY DEF Inv, Base, RegTypes
<1> HIDE DEF r
<1> QED
  BY ZenonT(60), <1>2, <1>3, <1>4, <1>5, <1>6, <1>7, OthersIdle, ExchangeInv

LEMMA NetworkFailsInv ==
    ASSUME Inv, NEW s \in Slots, NetworkFails(s)
    PROVE  Inv'
<1> DEFINE r == [calls[s] EXCEPT !.st = "failed", !.keys = {}]
<1>1. calls[s] \in Call /\ calls[s].st # "none"
  BY CallFacts DEF NetworkFails
<1>2. calls[s].op # "store" /\ calls[s].todo = {} /\ calls[s] # Idle
  BY <1>1, CallFacts
<1>3. r \in Call /\ r.op = calls[s].op /\ r.todo = calls[s].todo
  BY <1>1, ZenonT(60) DEF Call
<1>4. r.keys \in {calls[s].keys, {}}
  BY <1>1 DEF Call
<1>5. /\ calls' = [calls EXCEPT ![s] = r]
      /\ UNCHANGED <<local, stored, access, handed, gen, disturbed>>
  BY DEF NetworkFails, Request
<1>6. server' \in Account /\ server'.keys \in {server.keys, {}}
  BY CallFacts DEF NetworkFails
<1>7. disturbed \in BOOLEAN
  BY DEF Inv, Base, RegTypes
<1> HIDE DEF r
<1> QED
  BY ZenonT(60), <1>2, <1>3, <1>4, <1>5, <1>6, <1>7, OthersIdle, ExchangeInv

LEMMA ServerCountInv ==
    ASSUME Inv, NEW s \in Slots, ServerCount(s)
    PROVE  Inv'
<1> DEFINE n == Cardinality(server.keys)
           r == [calls[s] EXCEPT !.st = "ok", !.count = n]
<1>1. calls[s] \in Call /\ calls[s].st = "sent"
  BY CallFacts DEF ServerCount
<1>2. calls[s].op # "store" /\ calls[s].todo = {} /\ calls[s] # Idle
  BY <1>1, CallFacts
<1>3. n \in Nat
  BY FS_CardinalityType DEF Inv, Base, Finite
<1>4. /\ calls' = [calls EXCEPT ![s] = r]
      /\ UNCHANGED <<local, stored, access, server, handed, gen, disturbed>>
  BY DEF ServerCount, Request
<1> HIDE DEF n
<1>5. r \in Call /\ r.op = calls[s].op /\ r.todo = calls[s].todo /\ r.keys = calls[s].keys
  BY <1>1, <1>3, ZenonT(60) DEF Call
<1>6. server' \in Account /\ server'.keys = server.keys
  BY <1>4, CallFacts
<1>7. disturbed \in BOOLEAN
  BY DEF Inv, Base, RegTypes
<1> HIDE DEF r
<1> QED
  BY ZenonT(60), <1>2, <1>4, <1>5, <1>6, <1>7, OthersIdle, ExchangeInv

LEMMA PublishPreKeysInv ==
    ASSUME Inv, NEW s \in Slots, PublishPreKeys(s)
    PROVE  Inv'
<1> DEFINE r == [calls[s] EXCEPT !.op = "keys", !.st = "sent"]
<1>1. calls[s] \in Call /\ calls[s] # Idle /\ calls[s].todo = {} /\ ~access["main"].open
  BY CallFacts DEF PublishPreKeys
<1>2. /\ r \in Call /\ r.op = "keys" /\ r.todo = calls[s].todo /\ r.keys = calls[s].keys
  BY <1>1, ZenonT(60) DEF Call
<1>3. /\ calls' = [calls EXCEPT ![s] = r]
      /\ UNCHANGED <<local, stored, access, server, handed, gen, disturbed>>
  BY DEF PublishPreKeys, Request
<1>4. server' \in Account /\ server'.keys = server.keys
  BY <1>3, CallFacts
<1>5. disturbed \in BOOLEAN
  BY DEF Inv, Base, RegTypes
<1>6. r.op # "store" /\ r.op # "account" /\ r.op # "count"
  BY <1>2
<1> HIDE DEF r
<1> QED
  BY ZenonT(60), <1>1, <1>2, <1>3, <1>4, <1>5, <1>6, OthersIdle, ExchangeInv

(* A call begins: in calm, there is no other.                              *)
LEMMA BeginsFacts ==
    ASSUME Inv, NEW s \in Slots, Begins(s)
    PROVE  /\ calls[s] = Idle /\ disturbed' \in BOOLEAN
           /\ calls[s].todo = {} /\ calls[s].keys = {} /\ calls[s].op # "store"
           /\ ~disturbed' => ~disturbed /\ \A u \in Slots : calls[u] = Idle
BY IdleCall DEF Begins, Inv, Base, RegTypes

LEMMA AppResetInv ==
    ASSUME Inv, NEW s \in Slots, AppReset(s)
    PROVE  Inv'
<1>1. local' = NoLocal /\ stored' = {} /\ UNCHANGED <<access, calls, server, handed, gen>>
  BY DEF AppReset
<1>2. disturbed' \in BOOLEAN /\ (~disturbed' => ~disturbed /\ \A u \in Slots : calls[u] = Idle)
  BY BeginsFacts DEF AppReset
<1>3. RegTypes'
  BY <1>1, <1>2 DEF Inv, Base, RegTypes, NoLocal, None
<1>4. Fresh'
  BY <1>1 DEF Inv, Base, Fresh, RegTypes, NoLocal, None
<1>5. Apart' /\ Shape' /\ Finite' /\ FetchedOnce'
  BY <1>1 DEF Inv, Base, Apart, Shape, Finite, FetchedOnce
<1>6. Unique'
  BY <1>1 DEF Inv, Base, Unique, UniqueIds
<1>7. Calm'
  <2> SUFFICES ASSUME ~disturbed' PROVE Alone' /\ CallsAgree' /\ Kept'
    BY DEF Calm
  <2>1. Alone'
    BY <1>1, <1>2 DEF Inv, Calm, Alone
  <2>2. local'.identity = None
    BY <1>1 DEF NoLocal
  <2>3. CallsAgree'
    BY <1>1, <1>2, <2>2, IdleCall DEF CallsAgree
  <2>4. Kept'
    BY <1>1, <1>2, <2>2, IdleCall DEF Kept, Mine, UniqueIds
  <2> QED
    BY <2>1, <2>3, <2>4
<1> QED
  BY <1>3, <1>4, <1>5, <1>6, <1>7 DEF Inv, Base

(* The request of a registration is a call.                                *)
LEMMA AccountRequest ==
    ASSUME NEW g \in Nat
    PROVE  LET call == [Idle EXCEPT !.op = "account", !.st = "sent", !.regId = g]
           IN  /\ call \in Call /\ call.keys = {} /\ call.todo = {}
               /\ call.op = "account"
<1>1. Idle \in Call /\ Idle.keys = {} /\ Idle.todo = {}
  BY IdleCall
<1> QED
  BY <1>1, ZenonT(60) DEF Call

LEMMA RegisterAccountInv ==
    ASSUME Inv, NEW s \in Slots, NEW loc \in {local, NoLocal}, calls[s] = Idle,
           stored' \in {stored, {}}, RegisterAccount(s, loc),
           disturbed' \in BOOLEAN,
           ~disturbed' => /\ ~disturbed /\ \A u \in Slots : calls[u] = Idle
                          /\ loc.identity = None,
           UNCHANGED <<access, server, handed>>
    PROVE  Inv'
<1> DEFINE call == [Idle EXCEPT !.op = "account", !.st = "sent", !.regId = gen + 1]
<1>a. gen \in Nat /\ gen' = gen + 1
  BY DEF Inv, Base, RegTypes, RegisterAccount
<1>b. loc.regId \in Nat /\ loc.identity \in Nat /\ loc.identity <= gen
  BY <1>a DEF Inv, Base, RegTypes, Fresh, NoLocal, None
<1>c. local' = [user |-> TRUE, regId |-> StoredRegId(loc.regId, gen + 1),
                identity |-> loc.identity]
  BY DEF RegisterAccount
<1>d. StoredRegId(loc.regId, gen + 1) \in Nat \ {None}
  BY <1>a, <1>b DEF StoredRegId, None
<1>e. call \in Call /\ call.keys = {} /\ call.todo = {} /\ call.op = "account"
  <2>1. gen + 1 \in Nat
    BY <1>a
  <2> QED
    BY <2>1, AccountRequest
<1>f. calls' = [calls EXCEPT ![s] = call]
  BY DEF RegisterAccount, Request
<1> HIDE DEF call
<1>g. calls'[s] = call /\ \A t \in Slots : t # s => calls'[t] = calls[t]
  BY <1>f DEF Inv, Base, RegTypes
<1>h. \A t \in Slots : calls'[t].keys = calls[t].keys /\ calls'[t].todo = calls[t].todo
  BY <1>e, <1>g, IdleCall
<1>1. RegTypes'
  BY <1>a, <1>b, <1>c, <1>d, <1>e, <1>f DEF Inv, Base, RegTypes
<1>2. Fresh'
  BY <1>a, <1>b, <1>c, <1>h DEF Inv, Base, Fresh, RegTypes, Key, Call
<1>3. Apart' /\ FetchedOnce'
  BY <1>h DEF Inv, Base, Apart, FetchedOnce
<1>4. Shape'
  <2>1. \A t \in Slots : calls[t].op = "store" => t # s
    BY IdleCall
  <2> QED
    BY <1>e, <1>g, <1>h, <2>1 DEF Inv, Base, Shape
<1>5. Unique'
  BY DEF Inv, Base, Unique, UniqueIds
<1>6. Finite'
  BY <1>h DEF Inv, Base, Finite
<1>7. Calm'
  <2> SUFFICES ASSUME ~disturbed' PROVE Alone' /\ CallsAgree' /\ Kept'
    BY DEF Calm
  <2>1. Alone'
    BY <1>g DEF Inv, Calm, Alone
  <2>2. local'.identity = None /\ local'.regId # None
    BY <1>c, <1>d
  <2>3. CallsAgree'
    BY <1>e, <1>g, <2>2, IdleCall DEF CallsAgree
  <2>4. Kept'
    BY <1>h, <2>2, IdleCall DEF Kept, Mine, UniqueIds
  <2> QED
    BY <2>1, <2>3, <2>4
<1> QED
  BY <1>1, <1>2, <1>3, <1>4, <1>5, <1>6, <1>7 DEF Inv, Base

LEMMA AppInitInv ==
    ASSUME Inv, NEW s \in Slots, AppInit(s)
    PROVE  Inv'
<1>0. Begins(s) /\ UNCHANGED <<access, server, handed>>
  BY DEF AppInit
<1>1. CASE ~PerformSoftReset /\ local.user /\ IsLocalRegistered
  <2> DEFINE call == [Idle EXCEPT !.op = "count", !.st = "sent", !.quiet = Ios]
  <2>1. call \in Call /\ call.keys = {} /\ call.todo = {} /\ call.op = "count"
    <3>1. Ios \in BOOLEAN
      BY RegistrationAssumption
    <3> QED
      BY <3>1, IdleCall, ZenonT(60) DEF Call
  <2>2. calls' = [calls EXCEPT ![s] = call] /\ UNCHANGED <<local, stored, gen>>
    BY <1>1 DEF AppInit, Request
  <2>3. local.identity # None
    BY <1>1 DEF IsLocalRegistered
  <2>4. server' \in Account /\ server'.keys = server.keys
    BY <1>0, CallFacts
  <2>5. call.op # "store" /\ call.op # "account"
    BY <2>1
  <2> HIDE DEF call
  <2> QED
    BY ZenonT(60), <1>0, <2>1, <2>2, <2>3, <2>4, <2>5, BeginsFacts, ExchangeInv
<1>2. CASE ~(~PerformSoftReset /\ local.user /\ IsLocalRegistered)
  <2>1. stored' = {} /\ RegisterAccount(s, NoLocal)
    BY <1>2 DEF AppInit
  <2>2. NoLocal.identity = None
    BY DEF NoLocal
  <2> QED
    BY Zenon, <1>0, <2>1, <2>2, BeginsFacts, RegisterAccountInv
<1> QED
  BY <1>1, <1>2

LEMMA AppRegisterInv ==
    ASSUME Inv, NEW s \in Slots, AppRegister(s)
    PROVE  Inv'
<1>0. Begins(s) /\ UNCHANGED <<stored, access, server, handed>>
  BY DEF AppRegister
<1>1. CASE SkipsRegistration
  <2> DEFINE call == [Idle EXCEPT !.op = "attributes", !.st = "sent",
                                  !.regId = local.regId]
  <2>1. call \in Call /\ call.keys = {} /\ call.todo = {} /\ call.op = "attributes"
    <3>1. local.regId \in Nat
      BY DEF Inv, Base, RegTypes
    <3> QED
      BY <3>1, IdleCall, ZenonT(60) DEF Call
  <2>2. calls' = [calls EXCEPT ![s] = call] /\ UNCHANGED <<local, gen>>
    BY <1>1 DEF AppRegister, Request
  <2>3. server' \in Account /\ server'.keys = server.keys
    BY <1>0, CallFacts
  <2>4. call.op # "store" /\ call.op # "account" /\ call.op # "count"
    BY <2>1
  <2> HIDE DEF call
  <2> QED
    BY ZenonT(60), <1>0, <2>1, <2>2, <2>3, <2>4, BeginsFacts, ExchangeInv
<1>2. CASE ~SkipsRegistration
  <2>1. RegisterAccount(s, local)
    BY <1>2 DEF AppRegister
  <2>2. ~disturbed => local.identity = None
    BY <1>2 DEF SkipsRegistration, IsLocalRegistered, Inv, Calm, CallsAgree
  <2> QED
    BY Zenon, <1>0, <2>1, <2>2, BeginsFacts, RegisterAccountInv
<1> QED
  BY <1>1, <1>2

LEMMA ServerKeysInv ==
    ASSUME Inv, NEW s \in Slots, ServerKeys(s)
    PROVE  Inv'
<1> DEFINE r == [calls[s] EXCEPT !.st = "ok", !.keys = {}]
<1>1. calls[s] \in Call /\ calls[s] # Idle /\ calls[s].todo = {} /\ calls[s].op = "keys"
  BY CallFacts DEF ServerKeys
<1>2. r \in Call /\ r.op = calls[s].op /\ r.todo = {} /\ r.keys = {}
  BY <1>1, ZenonT(60) DEF Call
<1>3. PICK left \in {server.keys, {}} :
         server' = [server EXCEPT !.identity = calls[s].identity,
                                  !.keys = left \cup calls[s].keys,
                                  !.last = calls[s].last]
  BY Zenon DEF ServerKeys
<1>4. /\ calls' = [calls EXCEPT ![s] = r]
      /\ UNCHANGED <<local, stored, access, handed, gen, disturbed>>
  BY DEF ServerKeys, Request
<1> HIDE DEF r
<1>5. calls'[s] = r /\ \A t \in Slots : t # s => calls'[t] = calls[t]
  BY <1>4 DEF Inv, Base, RegTypes
<1>6. server'.keys = left \cup calls[s].keys
  BY ZenonT(30), <1>3 DEF Inv, Base, RegTypes
<1>7. left \subseteq server.keys
  OBVIOUS
<1>8. RegTypes'
  <2>1. left \cup calls[s].keys \in SUBSET Key
    BY <1>1, <1>7 DEF Inv, Base, RegTypes, Call
  <2>2. server' \in [regId : Nat, identity : Nat, keys : SUBSET Key, last : Nat]
    BY ZenonT(30), <1>1, <1>3, <2>1 DEF Inv, Base, RegTypes, Call
  <2> QED
    BY <1>2, <1>4, <2>2 DEF Inv, Base, RegTypes
<1>9. Fresh'
  BY <1>2, <1>4, <1>5, <1>6, <1>7 DEF Inv, Base, Fresh
<1>10. Apart' /\ FetchedOnce'
  BY <1>2, <1>4, <1>5, <1>6, <1>7 DEF Inv, Base, Apart, FetchedOnce
<1>11. Shape'
  BY <1>1, <1>2, <1>4, <1>5 DEF Inv, Base, Shape
<1>12. Unique'
  BY <1>4 DEF Inv, Base, Unique
<1>13. Finite'
  <2>1. IsFiniteSet(left) /\ IsFiniteSet(calls[s].keys)
    BY FS_EmptySet DEF Inv, Base, Finite
  <2>2. IsFiniteSet(left \cup calls[s].keys)
    BY ZenonT(30), <2>1, FS_Union
  <2> QED
    BY ZenonT(30), <1>2, <1>5, <1>6, <2>2, FS_EmptySet DEF Inv, Base, Finite
<1>14. Calm'
  <2> SUFFICES ASSUME ~disturbed' PROVE Alone' /\ CallsAgree' /\ Kept'
    BY DEF Calm
  <2>1. Alone /\ CallsAgree /\ Kept /\ \A t \in Slots : t # s => calls'[t] = Idle
    BY <1>1, <1>4, <1>5, OthersIdle DEF Inv, Calm
  <2>2. Alone'
    BY <1>4, <2>1 DEF Alone
  <2>3. CallsAgree'
    BY <1>1, <1>2, <1>4, <1>5, <2>1, IdleCall DEF CallsAgree
  <2>4. Kept'
    <3>1. \A t \in Slots : calls'[t].todo = {} /\ calls'[t].keys = {}
      BY <1>2, <1>5, <2>1, IdleCall
    <3>2. \A k : (Mine(k)' <=> Mine(k)) /\ (Held(k)' <=> Held(k))
      BY <1>4 DEF Mine, Held
    <3>3. \A k \in server'.keys \cup handed' : Mine(k) => Held(k)
      BY <1>1, <1>4, <1>6, <1>7, <2>1 DEF Kept
    <3> QED
      BY <3>1, <3>2, <3>3 DEF Kept, UniqueIds
  <2> QED
    BY <2>2, <2>3, <2>4
<1> QED
  BY <1>8, <1>9, <1>10, <1>11, <1>12, <1>13, <1>14 DEF Inv, Base

(* An interval of ids gives finitely many keys.                            *)
LEMMA GeneratedFinite ==
    ASSUME NEW start \in Nat, NEW count \in Int, NEW identity
    PROVE  IsFiniteSet(GeneratePreKeys(start, count, identity))
<1> DEFINE S == start .. start + count - 1
           T == {[id |-> i, gen |-> gen + 1, identity |-> identity] : i \in S}
           f == [i \in S |-> [id |-> i, gen |-> gen + 1, identity |-> identity]]
<1>1. IsFiniteSet(S)
  BY FS_Interval
<1>2. f \in Surjection(S, T)
  BY DEF Surjection
<1> HIDE DEF S, T, f
<1>3. IsFiniteSet(T)
  BY <1>1, <1>2, FS_Surjection
<1> QED
  BY <1>3 DEF S, T, GeneratePreKeys

(* The heart of the matter: a batch is generated either under a new        *)
(* identity, or with ids above every id that is stored.                    *)
LEMMA RegisterPreKeysInv ==
    ASSUME Inv, NEW s \in Slots, NEW start \in Nat, NEW count \in Int,
           calls[s] # Idle, MainFree,
           disturbed' \in BOOLEAN,
           ~disturbed' => /\ ~disturbed /\ local.regId # None
                          /\ \/ local.identity = None
                             \/ /\ \A k \in stored : k.id < start
                                /\ ~access["native"].open,
           RegisterPreKeys(s, start, count), UNCHANGED <<stored, access, server, handed>>
    PROVE  Inv'
<1> DEFINE ident == IF local.identity = None THEN gen + 1 ELSE local.identity
           new   == GeneratePreKeys(start, count, ident)
           last  == IF \E k \in stored : k.id = LastResort
                    THEN (CHOOSE k \in stored : k.id = LastResort).gen ELSE gen + 1
           call  == [Idle EXCEPT !.op = "store", !.identity = ident, !.keys = new,
                                 !.todo = new, !.last = last,
                                 !.quiet = calls[s].quiet]
<1>1. /\ gen' = gen + 1
      /\ local' = [local EXCEPT !.identity = ident]
      /\ calls' = [calls EXCEPT ![s] = call]
  BY DEF RegisterPreKeys, Request
<1>2. gen \in Nat /\ local.identity \in Nat /\ ident \in Nat /\ ident # None
      /\ ident <= gen + 1
  BY DEF Inv, Base, RegTypes, Fresh, None
<1>3. /\ new \subseteq Key /\ UniqueIds(new)
      /\ \A k \in new : k.gen = gen + 1 /\ k.identity = ident /\ k.id >= start
  BY <1>2 DEF GeneratePreKeys, Key, UniqueIds
<1>4. last \in Nat
  BY <1>2 DEF Inv, Base, RegTypes, Key
<1> HIDE DEF ident, last
<1>5. IsFiniteSet(new)
  BY GeneratedFinite
<1> HIDE DEF new
<1>6. /\ call \in Call /\ call.keys = new /\ call.todo = new
      /\ call.op = "store" /\ call.st = "none"
  <2>1. calls[s].quiet \in BOOLEAN
    BY DEF Inv, Base, RegTypes, Call
  <2> QED
    BY <1>2, <1>3, <1>4, <2>1, IdleCall, ZenonT(60) DEF Call
<1> HIDE DEF call
<1>7. calls'[s] = call /\ \A t \in Slots : t # s => calls'[t] = calls[t]
  BY <1>1 DEF Inv, Base, RegTypes
<1>8. local'.identity = ident /\ local'.regId = local.regId
  BY <1>1 DEF Inv, Base, RegTypes
<1>9. RegTypes'
  <2>1. local' \in [user : BOOLEAN, regId : Nat, identity : Nat]
    BY <1>1, <1>2 DEF Inv, Base, RegTypes
  <2> QED
    BY <1>1, <1>2, <1>6, <2>1 DEF Inv, Base, RegTypes
<1>10. Fresh'
  BY <1>1, <1>2, <1>3, <1>6, <1>7, <1>8 DEF Inv, Base, Fresh, RegTypes, Call, Key
<1>11. Apart'
  <2>1. \A k \in new : /\ k \notin server.keys /\ k \notin handed
                       /\ \A t \in Slots : k \notin calls[t].keys
    BY <1>2, <1>3 DEF Inv, Base, Fresh
  <2> QED
    BY <1>6, <1>7, <2>1 DEF Inv, Base, Apart
<1>12. Shape'
  <2>1. access["main"].put = {}
    BY DEF Inv, Base, Shape, MainFree
  <2> QED
    BY <1>6, <1>7, <2>1 DEF Inv, Base, Shape
<1>13. Unique' /\ FetchedOnce'
  BY DEF Inv, Base, Unique, FetchedOnce
<1>14. Finite'
  BY <1>5, <1>6, <1>7 DEF Inv, Base, Finite
<1>15. Calm'
  <2> SUFFICES ASSUME ~disturbed' PROVE Alone' /\ CallsAgree' /\ Kept'
    BY DEF Calm
  <2>1. Alone /\ CallsAgree /\ Kept /\ \A t \in Slots : t # s => calls'[t] = Idle
    BY <1>7, OthersIdle DEF Inv, Calm
  <2>2. Alone'
    BY <2>1 DEF Alone
  <2>3. CallsAgree'
    BY <1>6, <1>7, <1>8, <2>1, IdleCall DEF CallsAgree
  <2>4. ASSUME NEW k \in Key, k \in server.keys \cup handed, Mine(k)'
        PROVE  Held(k)' /\ \A n \in new : k.id # n.id
    <3>1. k.identity = ident /\ k.identity <= gen
      BY <1>8, <2>4 DEF Mine, Inv, Base, Fresh
    <3>2. local.identity # None
      BY <1>2, <3>1 DEF ident, Key
    <3>3. Held(k) /\ Mine(k)
      BY <2>1, <2>4, <3>1, <3>2 DEF ident, Kept, Mine
    <3>4. \A t \in Users : ~access[t].open
      BY <3>2 DEF MainFree, Users
    <3>5. k \in stored /\ k.id < start
      BY <3>2, <3>3, <3>4 DEF Held
    <3>6. Held(k)'
      BY <3>4, <3>5 DEF Held
    <3> QED
      BY <1>3, <3>5, <3>6 DEF Key
  <2>5. server.keys \cup handed \subseteq Key
    BY DEF Inv, Base, RegTypes
  <2>6. Kept'
    BY <1>3, <1>6, <1>7, <2>1, <2>4, <2>5, IdleCall DEF Kept, UniqueIds
  <2> QED
    BY <2>2, <2>3, <2>6
<1> QED
  BY <1>9, <1>10, <1>11, <1>12, <1>13, <1>14, <1>15 DEF Inv, Base

LEMMA OnAccountResponseInv ==
    ASSUME Inv, NEW s \in Slots, OnAccountResponse(s)
    PROVE  Inv'
<1>1. /\ calls[s] # Idle /\ MainFree /\ disturbed' = disturbed /\ disturbed \in BOOLEAN
      /\ RegisterPreKeys(s, FirstIndex, Batch) /\ UNCHANGED <<stored, access, server, handed>>
  BY CallFacts DEF OnAccountResponse, Inv, Base, RegTypes
<1>2. FirstIndex \in Nat /\ Batch \in Int
  BY RegistrationAssumption DEF FirstIndex
<1>3. ~disturbed => local.regId # None /\ local.identity = None
  BY <1>1, OthersIdle DEF OnAccountResponse
<1> QED
  BY Zenon, <1>1, <1>2, <1>3, RegisterPreKeysInv

LEMMA OnCountResponseInv ==
    ASSUME Inv, NEW s \in Slots, OnCountResponse(s)
    PROVE  Inv'
<1>1. /\ calls[s] # Idle /\ calls[s].st # "none" /\ calls[s] \in Call /\ MainFree
      /\ disturbed \in BOOLEAN /\ UNCHANGED <<stored, access, server, handed>>
  BY CallFacts DEF OnCountResponse, Inv, Base, RegTypes
<1>2. CASE calls[s].st = "ok" /\ calls[s].count <= LowWater
  <2>1. PICK last \in {0} \cup {k.id : k \in stored} :
           /\ IsLastPreKeyIndex(last)
           /\ RegisterPreKeys(s, last + 1, RefillCount(calls[s].count))
    BY <1>2 DEF OnCountResponse
  <2>2. last \in Nat
    BY DEF Inv, Base, RegTypes, Key
  <2>3. \A k \in stored : k.id < last + 1
    BY <2>1, <2>2 DEF IsLastPreKeyIndex, Inv, Base, RegTypes, Key
  <2>4. RefillCount(calls[s].count) \in Int
    BY <1>1, RegistrationAssumption DEF RefillCount, Call
  <2>5. PICK start \in Nat : start = last + 1
    BY <2>2
  <2>6. RegisterPreKeys(s, start, RefillCount(calls[s].count))
    BY <2>1, <2>5
  <2>7. \A k \in stored : k.id < start
    BY <2>3, <2>5
  <2>8. disturbed' \in BOOLEAN /\ (~disturbed' => ~disturbed /\ ~access["native"].open)
    BY <1>1, <1>2 DEF OnCountResponse
  <2>9. ~disturbed => local.regId # None
    BY <1>1, OthersIdle DEF OnCountResponse, Inv, Calm, CallsAgree
  <2> QED
    BY Zenon, <1>1, <2>4, <2>6, <2>7, <2>8, <2>9, RegisterPreKeysInv
<1>3. CASE ~(calls[s].st = "ok" /\ calls[s].count <= LowWater)
  BY <1>1, <1>3, EndInv DEF OnCountResponse
<1> QED
  BY <1>2, <1>3

(* What one entry per id means for the new contents of the file.           *)
LEMMA ContentsFacts ==
    ASSUME NEW seen \in SUBSET Key, NEW put \in SUBSET Key, NEW drop \in SUBSET Key,
           UniqueIds(seen), UniqueIds(put)
    PROVE  LET a == [open |-> TRUE, seen |-> seen, put |-> put, drop |-> drop]
           IN  /\ a \in Access /\ a.open /\ a.seen = seen /\ a.put = put
               /\ put \subseteq Contents(a)
               /\ \A k \in seen :
                     (\A n \in put \cup drop : n.id # k.id) => k \in Contents(a)
BY DEF Contents, Access

LEMMA WrittenFacts ==
    ASSUME NEW a \in Access, UniqueIds(a.seen), UniqueIds(a.put)
    PROVE  Contents(a) \subseteq Key /\ UniqueIds(Contents(a))
<1>1. a.seen \subseteq Key /\ a.put \subseteq Key
  BY DEF Access
<1>2. Contents(a) \subseteq Key
  BY <1>1 DEF Contents
<1>3. UniqueIds(Contents(a))
  BY <1>1 DEF Contents, UniqueIds
<1> QED
  BY <1>2, <1>3

LEMMA StorePreKeyInv ==
    ASSUME Inv, NEW s \in Slots, StorePreKey(s)
    PROVE  Inv'
<1>1. PICK k \in calls[s].todo :
         /\ Request(s, [calls[s] EXCEPT !.todo = calls[s].todo \ {k}])
         /\ \/ /\ OpenFile("main", stored, {k}, {})
               /\ disturbed' = (disturbed \/ access["native"].open)
            \/ FileFaults /\ OpenFile("main", {}, {k}, {}) /\ disturbed' = TRUE
  BY DEF StorePreKey
<1>2. PICK seen \in {stored, {}} :
         /\ OpenFile("main", seen, {k}, {})
         /\ disturbed' \in BOOLEAN
         /\ ~disturbed' => ~disturbed /\ ~access["native"].open /\ seen = stored
  BY <1>1 DEF Inv, Base, RegTypes
<1> DEFINE r == [calls[s] EXCEPT !.todo = calls[s].todo \ {k}]
           a == [open |-> TRUE, seen |-> seen, put |-> {k}, drop |-> {}]
<1>3. /\ calls' = [calls EXCEPT ![s] = r] /\ access' = [access EXCEPT !["main"] = a]
      /\ stored' = (IF Ios THEN stored ELSE {})
      /\ UNCHANGED <<local, server, handed, gen>>
  BY <1>1, <1>2 DEF StorePreKey, Request, OpenFile
<1>4. calls[s] \in Call /\ calls[s].op = "store" /\ calls[s].todo \subseteq calls[s].keys
      /\ ~access["main"].open
  BY DEF StorePreKey, Inv, Base, RegTypes, Shape
<1>5. /\ r \in Call /\ r.op = calls[s].op /\ r.st = calls[s].st
      /\ r.keys = calls[s].keys /\ r.todo = calls[s].todo \ {k}
  <2>1. calls[s].todo \ {k} \in SUBSET Key
    BY <1>4 DEF Call
  <2> QED
    BY <1>4, <2>1, ZenonT(60) DEF Call
<1>6. k \in Key /\ seen \subseteq Key /\ UniqueIds(seen) /\ UniqueIds({k})
  BY <1>4 DEF Call, Inv, Base, RegTypes, Unique, UniqueIds
<1>7. /\ a \in Access /\ a.open /\ a.seen = seen /\ a.put = {k} /\ k \in Contents(a)
      /\ \A n \in seen : n.id # k.id => n \in Contents(a)
  <2>1. {} \in SUBSET Key /\ {k} \in SUBSET Key
    BY <1>6
  <2>2. /\ a \in Access /\ a.open /\ a.seen = seen /\ a.put = {k} /\ {k} \subseteq Contents(a)
        /\ \A n \in seen : (\A m \in {k} \cup {} : m.id # n.id) => n \in Contents(a)
    BY Zenon, <1>6, <2>1, ContentsFacts
  <2> HIDE DEF a
  <2> QED
    BY <2>2
<1> HIDE DEF r, a
<1>8. calls'[s] = r /\ \A t \in Slots : t # s => calls'[t] = calls[t]
  BY <1>3 DEF Inv, Base, RegTypes
<1>9. access'["main"] = a /\ access'["native"] = access["native"]
  BY <1>3 DEF Inv, Base, RegTypes, Users
<1>10. RegTypes'
  BY <1>2, <1>3, <1>5, <1>7 DEF Inv, Base, RegTypes, Users
<1>11. Fresh' /\ Apart' /\ Finite' /\ FetchedOnce'
  <2>1. \A t \in Slots : calls'[t].keys = calls[t].keys
    BY <1>5, <1>8
  <2> QED
    BY <1>3, <2>1 DEF Inv, Base, Fresh, Apart, Finite, FetchedOnce
<1>12. Shape'
  <2>1. \A t \in Slots : /\ calls'[t].todo \subseteq calls'[t].keys
                         /\ calls'[t].todo # {} => calls'[t].op = "store"
                         /\ calls'[t].op = "store" => calls'[t].st = "none"
    BY <1>4, <1>5, <1>8 DEF Inv, Base, Shape
  <2>2. calls'[s].op = "store" /\ k \in calls'[s].keys
    BY <1>4, <1>5, <1>8
  <2> QED
    BY <1>7, <1>9, <2>1, <2>2 DEF Inv, Base, Shape
<1>13. Unique'
  BY <1>3, <1>6, <1>7, <1>9 DEF Inv, Base, Unique, UniqueIds, Users
<1>14. Calm'
  <2> SUFFICES ASSUME ~disturbed' PROVE Alone' /\ CallsAgree' /\ Kept'
    BY DEF Calm
  <2>1. Alone /\ CallsAgree /\ Kept /\ \A t \in Slots : t # s => calls'[t] = Idle
    BY <1>2, <1>4, <1>8, OthersIdle, IdleCall DEF Inv, Calm
  <2>2. Alone'
    BY <1>2, <1>9, <2>1 DEF Alone
  <2>3. CallsAgree'
    BY <1>3, <1>5, <1>8, <2>1, IdleCall DEF CallsAgree
  <2>4. \A t \in Users : ~access[t].open
    BY <1>2, <1>4 DEF Users
  <2>5. Held(k)'
    BY <1>2, <1>7, <1>9 DEF Held, Users
  <2>6. ASSUME NEW n, Held(n), n.id # k.id
        PROVE  Held(n)'
    <3>1. n \in stored /\ n \in Contents(a)
      BY <1>2, <1>7, <2>4, <2>6 DEF Held
    <3> QED
      BY <1>2, <1>3, <1>7, <1>9, <3>1 DEF Held, Users
  <2>7. \A n : Mine(n)' <=> Mine(n)
    BY <1>3 DEF Mine
  <2>8. \A n \in server'.keys \cup handed' : Mine(n) => Held(n)'
    BY <1>3, <2>1, <2>6 DEF Kept
  <2>9. \A n \in calls'[s].keys \ calls'[s].todo : Mine(n) => Held(n)'
    BY <1>4, <1>5, <1>8, <2>1, <2>5, <2>6 DEF Kept, UniqueIds
  <2>10. Kept'
    BY <1>3, <1>5, <1>8, <2>1, <2>7, <2>8, <2>9, IdleCall DEF Kept, UniqueIds
  <2> QED
    BY <2>2, <2>3, <2>10
<1> QED
  BY <1>10, <1>11, <1>12, <1>13, <1>14 DEF Inv, Base

LEMMA WriteFileInv ==
    ASSUME Inv, NEW t \in Users, WriteFile(t)
    PROVE  Inv'
<1>1. /\ access[t].open /\ access' = [access EXCEPT ![t] = Closed]
      /\ UNCHANGED <<local, calls, server, handed, gen>>
  BY DEF WriteFile
<1>2. /\ stored' \in {stored, Contents(access[t])} /\ disturbed' \in BOOLEAN
      /\ ~disturbed' => ~disturbed /\ stored' = Contents(access[t])
  <2>1. disturbed \in BOOLEAN
    BY DEF Inv, Base, RegTypes
  <2>2. CASE stored' = Contents(access[t]) /\ disturbed' = disturbed
    BY Zenon, <2>1, <2>2
  <2>3. CASE stored' = stored /\ disturbed' = TRUE
    BY Zenon, <2>3
  <2> QED
    BY <2>2, <2>3 DEF WriteFile
<1>3. access'[t] = Closed /\ \A u \in Users : u # t => access'[u] = access[u]
  BY <1>1 DEF Inv, Base, RegTypes
<1>4. Contents(access[t]) \subseteq Key /\ UniqueIds(Contents(access[t]))
  <2>1. access[t] \in Access /\ UniqueIds(access[t].seen) /\ UniqueIds(access[t].put)
    BY DEF Inv, Base, RegTypes, Unique
  <2> QED
    BY <2>1, WrittenFacts
<1>5. RegTypes'
  BY <1>1, <1>2, <1>4, ClosedAccess DEF Inv, Base, RegTypes
<1>6. Fresh' /\ Apart' /\ Finite' /\ FetchedOnce'
  BY <1>1 DEF Inv, Base, Fresh, Apart, Finite, FetchedOnce
<1>7. Shape'
  BY <1>1, <1>3, ClosedAccess DEF Inv, Base, Shape, Users
<1>8. Unique'
  BY <1>2, <1>3, <1>4, ClosedAccess DEF Inv, Base, Unique, UniqueIds
<1>9. Calm'
  <2> SUFFICES ASSUME ~disturbed' PROVE Alone' /\ CallsAgree' /\ Kept'
    BY DEF Calm
  <2>1. Alone /\ CallsAgree /\ Kept
    BY <1>2 DEF Inv, Calm
  <2>2. \A u \in Users : ~access'[u].open
    BY <1>1, <1>3, <2>1, ClosedAccess DEF Alone, Users
  <2>3. Alone' /\ CallsAgree'
    BY <1>1, <2>1, <2>2 DEF Alone, CallsAgree, Users
  <2>4. \A n : (Mine(n)' <=> Mine(n)) /\ (Held(n) => Held(n)')
    BY <1>1, <1>2, <2>2 DEF Mine, Held
  <2>5. Kept'
    BY <1>1, <2>1, <2>4 DEF Kept
  <2> QED
    BY <2>3, <2>5
<1> QED
  BY <1>5, <1>6, <1>7, <1>8, <1>9 DEF Inv, Base

LEMMA PeerFetchesInv ==
    ASSUME Inv, PeerFetches
    PROVE  Inv'
<1>1. PICK k \in server.keys :
         /\ server' = [server EXCEPT !.keys = server.keys \ {k}]
         /\ handed' = handed \cup {k}
         /\ UNCHANGED <<local, stored, access, calls, gen, disturbed>>
  BY DEF PeerFetches
<1>2. server'.keys = server.keys \ {k}
  BY <1>1 DEF Inv, Base, RegTypes
<1>3. RegTypes'
  BY <1>1 DEF Inv, Base, RegTypes
<1>4. Fresh' /\ Apart' /\ FetchedOnce'
  BY <1>1, <1>2 DEF Inv, Base, Fresh, Apart, FetchedOnce
<1>5. Shape' /\ Unique'
  BY <1>1 DEF Inv, Base, Shape, Unique
<1>6. Finite'
  <2>1. IsFiniteSet(server.keys \ {k})
    BY FS_Subset DEF Inv, Base, Finite
  <2> QED
    BY <1>1, <1>2, <2>1 DEF Inv, Base, Finite
<1>7. Calm'
  <2>1. Alone => Alone'
    BY <1>1 DEF Alone
  <2>2. CallsAgree => CallsAgree'
    BY <1>1 DEF CallsAgree
  <2>3. \A n : (Mine(n)' <=> Mine(n)) /\ (Held(n)' <=> Held(n))
    BY <1>1 DEF Mine, Held
  <2>4. Kept => Kept'
    <3>1. server'.keys \cup handed' = server.keys \cup handed
      BY <1>1, <1>2
    <3> QED
      BY <1>1, <2>3, <3>1 DEF Kept
  <2> QED
    BY <1>1, <2>1, <2>2, <2>4 DEF Inv, Calm
<1> QED
  BY <1>3, <1>4, <1>5, <1>6, <1>7 DEF Inv, Base

LEMMA PeerUsesInv ==
    ASSUME Inv, NEW t \in Users, PeerUses(t)
    PROVE  Inv'
<1>1. PICK k \in handed :
         /\ handed' = handed \ {k}
         /\ IF k \in stored
            THEN /\ OpenFile(t, stored, {}, {k})
                 /\ disturbed' = (disturbed \/ \E u \in Users : access[u].open)
            ELSE UNCHANGED <<stored, access, disturbed>>
  BY DEF PeerUses
<1>2. UNCHANGED <<local, calls, server, gen>> /\ k \in Key
  BY DEF PeerUses, Inv, Base, RegTypes
<1>3. Fresh' /\ Apart' /\ Finite' /\ FetchedOnce'
  BY <1>1, <1>2 DEF Inv, Base, Fresh, Apart, Finite, FetchedOnce
<1>4. CASE k \notin stored
  <2>1. RegTypes' /\ Shape' /\ Unique'
    BY <1>1, <1>2, <1>4 DEF Inv, Base, RegTypes, Shape, Unique
  <2>2. Alone /\ CallsAgree => Alone' /\ CallsAgree'
    BY <1>1, <1>2, <1>4 DEF Alone, CallsAgree
  <2>3. \A n : (Mine(n)' <=> Mine(n)) /\ (Held(n)' <=> Held(n))
    BY <1>1, <1>2, <1>4 DEF Mine, Held
  <2>4. Kept => Kept'
    BY <1>1, <1>2, <2>3 DEF Kept
  <2> QED
    BY <1>1, <1>3, <1>4, <2>1, <2>2, <2>4 DEF Inv, Base, Calm
<1>5. CASE k \in stored
  <2> DEFINE a == [open |-> TRUE, seen |-> stored, put |-> {}, drop |-> {k}]
  <2>1. /\ access' = [access EXCEPT ![t] = a]
        /\ stored' = (IF Ios THEN stored ELSE {})
        /\ disturbed' \in BOOLEAN
        /\ ~disturbed' => ~disturbed /\ \A u \in Users : ~access[u].open
    BY <1>1, <1>5 DEF OpenFile, Inv, Base, RegTypes
  <2>2. stored \subseteq Key /\ UniqueIds(stored) /\ UniqueIds({})
    BY DEF Inv, Base, RegTypes, Unique, UniqueIds
  <2>3. /\ a \in Access /\ a.open /\ a.seen = stored /\ a.put = {}
        /\ \A n \in stored : n.id # k.id => n \in Contents(a)
    <3>1. {} \in SUBSET Key /\ {k} \in SUBSET Key
      BY <1>2
    <3>2. /\ a \in Access /\ a.open /\ a.seen = stored /\ a.put = {}
          /\ \A n \in stored : (\A m \in {} \cup {k} : m.id # n.id) => n \in Contents(a)
      BY Zenon, <2>2, <3>1, ContentsFacts
    <3> HIDE DEF a
    <3> QED
      BY <3>2
  <2> HIDE DEF a
  <2>4. access'[t] = a /\ \A u \in Users : u # t => access'[u] = access[u]
    BY <2>1 DEF Inv, Base, RegTypes
  <2>5. RegTypes'
    BY <1>1, <1>2, <2>1, <2>3 DEF Inv, Base, RegTypes
  <2>6. Shape'
    BY <1>2, <2>3, <2>4 DEF Inv, Base, Shape, Users
  <2>7. Unique'
    BY <2>1, <2>2, <2>3, <2>4 DEF Inv, Base, Unique, UniqueIds
  <2>8. Calm'
    <3> SUFFICES ASSUME ~disturbed' PROVE Alone' /\ CallsAgree' /\ Kept'
      BY DEF Calm
    <3>1. Alone /\ CallsAgree /\ Kept
      BY <2>1 DEF Inv, Calm
    <3>2. Alone'
      BY <1>2, <2>1, <2>4, <3>1 DEF Alone, Users
    <3>3. CallsAgree'
      BY <1>2, <3>1 DEF CallsAgree
    <3>4. ASSUME NEW n, n # k, Held(n)
          PROVE  Held(n)'
      <4>1. n \in stored /\ n.id # k.id
        BY <1>5, <2>1, <2>2, <3>4 DEF Held, UniqueIds
      <4>2. \A u \in Users : access'[u].open => u = t
        BY <2>1, <2>4
      <4> QED
        BY <2>1, <2>3, <2>4, <4>1, <4>2 DEF Held
    <3>5. \A n : Mine(n)' <=> Mine(n)
      BY <1>2 DEF Mine
    <3>6. \A n \in server'.keys \cup handed' : n # k /\ (Mine(n) => Held(n))
      BY <1>1, <1>2, <3>1 DEF Kept, Inv, Base, FetchedOnce
    <3>7. \A s \in Slots : \A n \in calls[s].keys : n # k
      BY DEF Inv, Base, Apart
    <3>8. Kept'
      BY <1>1, <1>2, <3>1, <3>4, <3>5, <3>6, <3>7 DEF Kept
    <3> QED
      BY <3>2, <3>3, <3>8
  <2> QED
    BY <1>3, <2>5, <2>6, <2>7, <2>8 DEF Inv, Base
<1> QED
  BY <1>4, <1>5

LEMMA DiesInv ==
    ASSUME Inv, Dies
    PROVE  Inv'
<1>1. /\ \A s \in Slots : calls'[s] = Idle
      /\ \A t \in Users : access'[t] = Closed
      /\ UNCHANGED <<local, stored, server, handed, gen>>
      /\ disturbed' \in BOOLEAN
      /\ ~disturbed' => ~disturbed /\ (Ios \/ \A t \in Users : ~access[t].open)
  BY DEF Dies, Inv, Base, RegTypes
<1>2. RegTypes'
  BY <1>1, IdleCall, ClosedAccess DEF Dies, Inv, Base, RegTypes
<1>3. Fresh' /\ Apart' /\ FetchedOnce'
  BY <1>1, IdleCall DEF Inv, Base, Fresh, Apart, FetchedOnce
<1>4. Shape'
  BY <1>1, IdleCall, ClosedAccess DEF Shape, Users
<1>5. Unique'
  BY <1>1, ClosedAccess DEF Inv, Base, Unique, UniqueIds
<1>6. Finite'
  BY ZenonT(30), <1>1, IdleCall, FS_EmptySet DEF Inv, Base, Finite
<1>7. Calm'
  <2> SUFFICES ASSUME ~disturbed' PROVE Alone' /\ CallsAgree' /\ Kept'
    BY DEF Calm
  <2>1. Alone /\ CallsAgree /\ Kept
    BY <1>1 DEF Inv, Calm
  <2>2. Alone' /\ CallsAgree'
    BY <1>1, <2>1, IdleCall, ClosedAccess DEF Alone, CallsAgree, Users
  <2>3. ASSUME NEW n \in server.keys \cup handed, Held(n)
        PROVE  Held(n)'
    <3>1. \A t \in Users : n \notin access[t].put
      BY DEF Inv, Base, Shape, Apart, Users
    <3>2. n \in stored
      BY <1>1, <2>3, <3>1 DEF Held
    <3> QED
      BY <1>1, <3>2, ClosedAccess DEF Held
  <2>4. \A n : Mine(n)' <=> Mine(n)
    BY <1>1 DEF Mine
  <2>5. Kept'
    BY <1>1, <2>1, <2>3, <2>4, IdleCall DEF Kept, UniqueIds
  <2> QED
    BY <2>2, <2>5
<1> QED
  BY <1>2, <1>3, <1>4, <1>5, <1>6, <1>7 DEF Inv, Base

LEMMA NextInv == Inv /\ [RegNext]_regVars => Inv'
<1> SUFFICES ASSUME Inv, [RegNext]_regVars PROVE Inv'
  OBVIOUS
<1>1. CASE UNCHANGED regVars
  <2>1. Base'
    BY <1>1 DEF regVars, Inv, Base, RegTypes, Fresh, Apart, Shape, Unique, Finite, FetchedOnce
  <2>2. Calm'
    BY <1>1 DEF regVars, Inv, Calm, Alone, CallsAgree, Kept, Mine, Held
  <2> QED
    BY <2>1, <2>2 DEF Inv
<1>2. ASSUME NEW s \in Slots,
             AppInit(s) \/ AppRegister(s) \/ AppReset(s)
      PROVE  Inv'
  BY <1>2, AppInitInv, AppRegisterInv, AppResetInv
<1>3. ASSUME NEW s \in Slots,
             \/ ServerAccount(s) \/ ServerAttributes(s) \/ ServerKeys(s)
             \/ ServerCount(s) \/ ServerRefuses(s) \/ NetworkFails(s)
      PROVE  Inv'
  BY <1>3, ServerAccountInv, ServerAttributesInv, ServerKeysInv, ServerCountInv,
     ServerRefusesInv, NetworkFailsInv
<1>4. ASSUME NEW s \in Slots,
             \/ OnFailure(s) \/ OnAccountResponse(s) \/ OnKeysResponse(s)
             \/ OnCountResponse(s) \/ StorePreKey(s) \/ PublishPreKeys(s)
      PROVE  Inv'
  BY <1>4, OnFailureInv, OnAccountResponseInv, OnKeysResponseInv, OnCountResponseInv,
     StorePreKeyInv, PublishPreKeysInv
<1>5. ASSUME NEW t \in Users, WriteFile(t) \/ PeerUses(t)
      PROVE  Inv'
  BY <1>5, WriteFileInv, PeerUsesInv
<1>6. CASE PeerFetches \/ Dies
  BY <1>6, PeerFetchesInv, DiesInv
<1> QED
  BY <1>1, <1>2, <1>3, <1>4, <1>5, <1>6 DEF RegNext

LEMMA InvImplies == Inv => PublishedStored
<1> SUFFICES ASSUME Inv, ~disturbed, NEW k \in Outstanding, Mine(k)
             PROVE  k \in stored \/ \E t \in Users : access[t].open /\ k \in Contents(access[t])
  BY DEF PublishedStored, CopySaved, Mine
<1>1. Held(k)
  <2>1. CASE k \in server.keys \cup handed
    BY <2>1 DEF Inv, Calm, Kept
  <2>2. ASSUME NEW s \in Slots, calls[s].op = "keys", k \in calls[s].keys
        PROVE  Held(k)
    <3>1. calls[s].todo = {}
      BY <2>2, CallFacts
    <3> QED
      BY <2>2, <3>1 DEF Inv, Calm, Kept
  <2> QED
    BY <2>1, <2>2 DEF Outstanding
<1> QED
  BY <1>1 DEF Held

(* The strengthened invariant holds in every state.                        *)
THEOREM Invariance == RegSpec => []Inv
BY InitInv, NextInv, PTL DEF RegSpec

(* The values init, registerAccount and the callbacks leave behind are of  *)
(* their types.                                                            *)
THEOREM TypeCorrect == RegSpec => []RegTypes
<1>1. Inv => RegTypes
  BY DEF Inv, Base
<1> QED
  BY <1>1, Invariance, PTL

(* Storing a batch key by key, refilling, resetting and working off first  *)
(* messages never lose the private half of a key that a peer has or can    *)
(* get, on either platform, for any batch size and low-water mark, through *)
(* lost responses and crashes; as long as calls do not overlap and no two  *)
(* accesses to the pre keys file do.                                       *)
THEOREM PublishedKeysAreStored == RegSpec => []PublishedStored
BY InvImplies, Invariance, PTL

(* No one-time key is offered again once a peer has fetched it, with any   *)
(* number of overlapping calls and whatever becomes of the files.          *)
THEOREM KeysAreFetchedOnce == RegSpec => []FetchedOnce
<1>1. Inv => FetchedOnce
  BY DEF Inv, Base
<1> QED
  BY <1>1, Invariance, PTL

=============================================================================
