---------------------------- MODULE Registration ---------------------------
(***************************************************************************)
(* Account registration and the life of one-time pre keys: the module's    *)
(* init / registerAccount / resetAccount, SignalClient's registerAccount,  *)
(* registerPreKeys and checkRemotePreKeys, the pre key part of the         *)
(* protocol storage, the server they talk to, and the peers that fetch     *)
(* keys from it and use them up.                                           *)
(*                                                                         *)
(* A call of the app runs until its request is on the wire; the rest runs  *)
(* in the response callback, on the main thread.  Between the two anything *)
(* may happen.  An app that awaits every promise (`Awaits`) has at most    *)
(* one call outstanding that it knows of; on iOS the check of the pre keys *)
(* that createClient starts goes on after createClient was resolved.       *)
(*                                                                         *)
(* The pre keys file is read and written as a whole, once for every key of *)
(* a batch, by the main thread, which stores keys and works off polled     *)
(* messages, and by the native modules thread, which works off pushed      *)
(* ones.  No lock protects it.  Reading it and opening it for writing is   *)
(* one step: whatever the other thread does in between is overwritten.     *)
(*                                                                         *)
(* Key material is a number that is never used twice; None stands for an   *)
(* absent entry of local.json.  The two platforms share the design and     *)
(* differ in the constants and conditions collected under "Platforms".     *)
(***************************************************************************)
EXTENDS Integers, FiniteSets

CONSTANTS
    Ios,         \* TRUE: SignalClient.swift, FALSE: SignalClient.java
    Awaits,      \* whether the app awaits each promise
    Slots,       \* bound on the calls that are outstanding at once
    Pushed,      \* whether messages are pushed to the app
    FileFaults,  \* whether reading or writing a file may fail
    Batch,       \* pre keys of a registration                   (100)
    LowWater,    \* refill when the server has no more than this  (10)
    ResetLimit,  \* soft reset above this                        (300)
    LastResort,  \* id of the last resort key
    MaxGen       \* bound on fresh values (registration ids, key batches)

ASSUME RegistrationAssumption ==
    /\ {Ios, Awaits, Pushed, FileFaults} \subseteq BOOLEAN
    /\ Batch \in Nat /\ LowWater \in Nat /\ LowWater < Batch
    /\ ResetLimit \in Nat /\ LastResort \in Nat /\ MaxGen \in Nat

VARIABLES
    local,      \* local.json: username present, registration id, identity key
    stored,     \* the pre keys file
    access,     \* what each thread is doing with that file
    calls,      \* outstanding call of each slot, and its HTTP exchange
    server,     \* the account as the server has it
    handed,     \* one-time keys fetched by peers and not used yet
    gen,        \* fresh values drawn so far
    disturbed   \* whether calls have overlapped, or the file was disturbed

regVars == <<local, stored, access, calls, server, handed, gen, disturbed>>

None == 0

Key == [id : Nat, gen : Nat, identity : Nat]

(* `todo`: keys of the batch still to be stored; `quiet`: no promise waits *)
(* for the outcome.                                                        *)
Idle == [op |-> "idle", st |-> "none", regId |-> None, identity |-> None,
         keys |-> {}, todo |-> {}, last |-> None, count |-> 0, quiet |-> FALSE]

NoAccount == [regId |-> None, identity |-> None, keys |-> {}, last |-> None]

NoLocal == [user |-> FALSE, regId |-> None, identity |-> None]

Users == {"main", "native"}

(* `seen` is the file as it was read, `put` and `drop` what is to change.  *)
Closed == [open |-> FALSE, seen |-> {}, put |-> {}, drop |-> {}]

RegInit ==
    /\ local = NoLocal
    /\ stored = {}
    /\ access = [t \in Users |-> Closed]
    /\ calls = [s \in Slots |-> Idle]
    /\ server = NoAccount
    /\ handed = {}
    /\ gen = 0
    /\ disturbed = FALSE

----------------------------------------------------------------------------
(* Platforms                                                               *)

(* The first id of the batch that registerAccount asks for.                *)
FirstIndex == IF Ios THEN 1 ELSE 0

(* How many keys a refill makes when the server has n left.                *)
RefillCount(n) == IF Ios THEN (Batch - n) + 1 ELSE Batch - n

(* isLocalRegistered, the same on both platforms                           *)
IsLocalRegistered == local.identity # None /\ local.regId # None

(* What makes registerAccount update attributes instead of registering:    *)
(* Android asks isLocalRegistered, iOS only for the registration id.       *)
SkipsRegistration == IF Ios THEN local.regId # None ELSE IsLocalRegistered

(* storeLocalRegistrationId: Android keeps an existing id, iOS overwrites. *)
StoredRegId(old, new) == IF ~Ios /\ old # None THEN old ELSE new

(* Mutant: finds the first index instead of the last.                      *)
IsFirstPreKeyIndex(n) ==
    IF stored = {} THEN n = 0
    ELSE (\E k \in stored : k.id = n) /\ \A k \in stored : k.id >= n

(* getLastPreKeyIndex returns n                                            *)
IsLastPreKeyIndex(n) ==
    IF stored = {} THEN n = 0
    ELSE (\E k \in stored : k.id = n) /\ \A k \in stored : k.id <= n

(* Android compares the last index, iOS the number of entries.             *)
PerformSoftReset ==
    IF Ios THEN Cardinality(stored) > ResetLimit
    ELSE \E k \in stored : k.id > ResetLimit

----------------------------------------------------------------------------
(* The pre keys file                                                       *)

(* What storePreKey or removePreKey makes of the file: one entry per id.   *)
Contents(a) ==
    {k \in a.seen : \A n \in a.put \cup a.drop : n.id # k.id} \cup a.put

(* The file is read, as `seen`, and opened; on Android this empties it.    *)
OpenFile(t, seen, put, drop) ==
    /\ access' = [access EXCEPT
          ![t] = [open |-> TRUE, seen |-> seen, put |-> put, drop |-> drop]]
    /\ stored' = IF Ios THEN stored ELSE {}

(* The new contents are written.  An error is reported and swallowed.      *)
WriteFile(t) ==
    /\ access[t].open
    /\ access' = [access EXCEPT ![t] = Closed]
    /\ \/ stored' = Contents(access[t]) /\ UNCHANGED disturbed
       \/ FileFaults /\ disturbed' = TRUE /\ UNCHANGED stored
    /\ UNCHANGED <<local, calls, server, handed, gen>>

(* Registering and calling back                                            *)

Request(s, r) == calls' = [calls EXCEPT ![s] = r]

End(s) == Request(s, Idle)

(* A call is made in the slot s.                                           *)
Begins(s) ==
    /\ calls[s] = Idle /\ ~access["native"].open
    /\ Awaits => \A u \in Slots : calls[u] = Idle \/ calls[u].quiet
    /\ disturbed' = (disturbed \/ \E u \in Slots : calls[u] # Idle)

(* The main thread can run a callback.                                     *)
MainFree == ~access["main"].open /\ \A s \in Slots : calls[s].op # "store"

(* Mutant: a batch comes with everything that is stored.                   *)
GeneratePreKeysAndStored(start, count, identity) ==
    stored \cup {[id |-> i, gen |-> gen + 1, identity |-> identity] :
                    i \in start .. start + count - 1}

(* The keys of a batch: ids start .. start + count - 1, fresh material.    *)
(* (The ids wrap below 2^24, far above the ids that ResetLimit allows.)     *)
GeneratePreKeys(start, count, identity) ==
    {[id |-> i, gen |-> gen + 1, identity |-> identity] :
        i \in start .. start + count - 1}

(* registerPreKeys: an identity key if there is none, a batch of one-time  *)
(* keys to be stored, a last resort key that is not.  The signed pre key   *)
(* is created with the identity and stays, so it is no state of its own.   *)
RegisterPreKeys(s, start, count) ==
    LET id   == IF local.identity = None THEN gen + 1 ELSE local.identity
        new  == GeneratePreKeys(start, count, id)
        last == IF \E k \in stored : k.id = LastResort
                THEN (CHOOSE k \in stored : k.id = LastResort).gen ELSE gen + 1
    IN  /\ gen < MaxGen
        /\ gen' = gen + 1
        /\ local' = [local EXCEPT !.identity = id]
        /\ Request(s, [Idle EXCEPT !.op = "store", !.identity = id, !.keys = new,
                                   !.todo = new, !.last = last,
                                   !.quiet = calls[s].quiet])

(* storePreKey for the next key of the batch.  If the file cannot be read  *)
(* it counts as empty.                                                     *)
StorePreKey(s) ==
    /\ calls[s].todo # {} /\ ~access["main"].open
    /\ \E k \in calls[s].todo :
          /\ \A n \in calls[s].todo : k.id <= n.id
          /\ Request(s, [calls[s] EXCEPT !.todo = @ \ {k}])
          /\ \/ /\ OpenFile("main", stored, {k}, {})
                /\ disturbed' = (disturbed \/ access["native"].open)
             \/ FileFaults /\ OpenFile("main", {}, {k}, {}) /\ disturbed' = TRUE
    /\ UNCHANGED <<local, server, handed, gen>>

(* The whole batch is stored: PUT keys.                                    *)
PublishPreKeys(s) ==
    /\ calls[s].op = "store" /\ calls[s].todo = {} /\ ~access["main"].open
    /\ Request(s, [calls[s] EXCEPT !.op = "keys", !.st = "sent"])
    /\ UNCHANGED <<local, stored, access, server, handed, gen, disturbed>>

(* registerAccount on the storage `loc`, which init may just have emptied. *)
RegisterAccount(s, loc) ==
    /\ gen < MaxGen
    /\ gen' = gen + 1
    /\ local' = [user |-> TRUE, regId |-> StoredRegId(loc.regId, gen + 1),
                 identity |-> loc.identity]
    /\ Request(s, [Idle EXCEPT !.op = "account", !.st = "sent", !.regId = gen + 1])

----------------------------------------------------------------------------
(* Calls of the app                                                        *)

(* init / createClient.  Android resolves when the check of the pre keys   *)
(* is over, iOS when it has begun.                                         *)
AppInit(s) ==
    /\ Begins(s)
    /\ IF ~PerformSoftReset /\ local.user /\ IsLocalRegistered
       THEN /\ Request(s, [Idle EXCEPT !.op = "count", !.st = "sent", !.quiet = Ios])
            /\ UNCHANGED <<local, stored, gen>>
       ELSE /\ stored' = {}
            /\ RegisterAccount(s, NoLocal)
    /\ UNCHANGED <<access, server, handed>>

AppRegister(s) ==
    /\ Begins(s)
    /\ IF SkipsRegistration
       THEN /\ Request(s, [Idle EXCEPT !.op = "attributes", !.st = "sent",
                                       !.regId = local.regId])
            /\ UNCHANGED <<local, gen>>
       ELSE RegisterAccount(s, local)
    /\ UNCHANGED <<stored, access, server, handed>>

AppReset(s) ==
    /\ Begins(s)
    /\ local' = NoLocal
    /\ stored' = {}
    /\ UNCHANGED <<access, calls, server, handed, gen>>

----------------------------------------------------------------------------
(* The server (external)                                                   *)

(* A registration starts the account anew.                                 *)
ServerAccount(s) ==
    /\ calls[s].op = "account" /\ calls[s].st = "sent"
    /\ server' = [NoAccount EXCEPT !.regId = calls[s].regId]
    /\ Request(s, [calls[s] EXCEPT !.st = "ok"])
    /\ UNCHANGED <<local, stored, access, handed, gen, disturbed>>

ServerAttributes(s) ==
    /\ calls[s].op = "attributes" /\ calls[s].st = "sent"
    /\ server.regId # None
    /\ server' = [server EXCEPT !.regId = calls[s].regId]
    /\ Request(s, [calls[s] EXCEPT !.st = "ok"])
    /\ UNCHANGED <<local, stored, access, handed, gen, disturbed>>

(* Published keys are added to those that are left, or replace them.       *)
ServerKeys(s) ==
    /\ calls[s].op = "keys" /\ calls[s].st = "sent"
    /\ server.regId # None
    /\ \E left \in {server.keys, {}} :
          server' = [server EXCEPT !.identity = calls[s].identity,
                                   !.keys = left \cup calls[s].keys,
                                   !.last = calls[s].last]
    /\ Request(s, [calls[s] EXCEPT !.st = "ok", !.keys = {}])
    /\ UNCHANGED <<local, stored, access, handed, gen, disturbed>>

ServerCount(s) ==
    /\ calls[s].op = "count" /\ calls[s].st = "sent"
    /\ server.regId # None
    /\ Request(s, [calls[s] EXCEPT !.st = "ok", !.count = Cardinality(server.keys)])
    /\ UNCHANGED <<local, stored, access, server, handed, gen, disturbed>>

(* The server refuses (no such account, or an internal error).             *)
ServerRefuses(s) ==
    /\ calls[s].st = "sent"
    /\ Request(s, [calls[s] EXCEPT !.st = "error", !.keys = {}])
    /\ UNCHANGED <<local, stored, access, server, handed, gen, disturbed>>

(* The request or its response is lost: the client sees an IOException.    *)
NetworkFails(s) ==
    /\ calls[s].st \in {"sent", "ok", "error"}
    /\ Request(s, [calls[s] EXCEPT !.st = "failed", !.keys = {}])
    /\ UNCHANGED <<local, stored, access, server, handed, gen, disturbed>>

(* A peer's requestPreKeys takes one key off the server.                   *)
PeerFetches ==
    \E k \in server.keys :
        /\ server' = [server EXCEPT !.keys = @ \ {k}]
        /\ handed' = handed \cup {k}
        /\ UNCHANGED <<local, stored, access, calls, gen, disturbed>>

(* The peer's first message arrives, polled or pushed.  It can be read,    *)
(* and its pre key is removed, only if the private half is still the one   *)
(* that was published.                                                     *)
PeerUses(t) ==
    /\ IF t = "main" THEN MainFree ELSE Pushed /\ ~access["native"].open
    /\ \E k \in handed :
          /\ handed' = handed \ {k}
          /\ IF k \in stored
             THEN /\ OpenFile(t, stored, {}, {k})
                  /\ disturbed' = (disturbed \/ \E u \in Users : access[u].open)
             ELSE UNCHANGED <<stored, access, disturbed>>
    /\ UNCHANGED <<local, calls, server, gen>>

----------------------------------------------------------------------------
(* Response callbacks                                                      *)

(* onFailure of any of the requests.                                       *)
OnFailure(s) ==
    /\ calls[s].st = "failed" /\ MainFree
    /\ End(s)
    /\ UNCHANGED <<local, stored, access, server, handed, gen, disturbed>>

(* PUT accounts was answered, whatever the status.                         *)
OnAccountResponse(s) ==
    /\ calls[s].op = "account" /\ calls[s].st \in {"ok", "error"} /\ MainFree
    /\ RegisterPreKeys(s, FirstIndex, Batch)
    /\ UNCHANGED <<stored, access, server, handed, disturbed>>

(* PUT keys or PUT attributes was answered, whatever the status.           *)
OnKeysResponse(s) ==
    /\ calls[s].op \in {"keys", "attributes"} /\ calls[s].st \in {"ok", "error"} /\ MainFree
    /\ End(s)
    /\ UNCHANGED <<local, stored, access, server, handed, gen, disturbed>>

(* GET keys was answered: refill if the server runs low.                   *)
OnCountResponse(s) ==
    /\ calls[s].op = "count" /\ calls[s].st \in {"ok", "error"} /\ MainFree
    /\ IF calls[s].st = "ok" /\ calls[s].count <= LowWater
       THEN /\ \E last \in {0} \cup {k.id : k \in stored} :
                  /\ IsLastPreKeyIndex(last)
                  /\ RegisterPreKeys(s, last + 1, RefillCount(calls[s].count))
            /\ disturbed' = (disturbed \/ access["native"].open)
       ELSE End(s) /\ UNCHANGED <<local, gen, disturbed>>
    /\ UNCHANGED <<stored, access, server, handed>>

(* The process dies; whatever was outstanding never calls back.  A file    *)
(* that was open on Android stays empty; iOS writes a new one first.       *)
Dies ==
    /\ (\E s \in Slots : calls[s] # Idle) \/ \E t \in Users : access[t].open
    /\ calls' = [s \in Slots |-> Idle]
    /\ access' = [t \in Users |-> Closed]
    /\ disturbed' = (disturbed \/ (~Ios /\ \E t \in Users : access[t].open))
    /\ UNCHANGED <<local, stored, server, handed, gen>>

RegNext ==
    \/ \E s \in Slots :
          \/ AppInit(s) \/ AppRegister(s) \/ AppReset(s)
          \/ ServerAccount(s) \/ ServerAttributes(s) \/ ServerKeys(s)
          \/ ServerCount(s) \/ ServerRefuses(s) \/ NetworkFails(s)
          \/ OnFailure(s) \/ OnAccountResponse(s) \/ OnKeysResponse(s)
          \/ OnCountResponse(s) \/ StorePreKey(s) \/ PublishPreKeys(s)
    \/ \E t \in Users : WriteFile(t) \/ PeerUses(t)
    \/ PeerFetches \/ Dies

RegSpec == RegInit /\ [][RegNext]_regVars

----------------------------------------------------------------------------
Call == [op : {"idle", "account", "attributes", "store", "keys", "count"},
         st : {"none", "sent", "ok", "error", "failed"},
         regId : Nat, identity : Nat, keys : SUBSET Key, todo : SUBSET Key,
         last : Nat, count : Nat, quiet : BOOLEAN]

Access == [open : BOOLEAN, seen : SUBSET Key, put : SUBSET Key, drop : SUBSET Key]

RegTypes ==
    /\ local \in [user : BOOLEAN, regId : Nat, identity : Nat]
    /\ stored \subseteq Key
    /\ access \in [Users -> Access]
    /\ calls \in [Slots -> Call]
    /\ server \in [regId : Nat, identity : Nat, keys : SUBSET Key, last : Nat]
    /\ handed \subseteq Key
    /\ gen \in Nat
    /\ disturbed \in BOOLEAN

(* One-time keys a peer has or can still get.                              *)
Outstanding ==
    server.keys \cup handed \cup UNION {calls[s].keys : s \in {u \in Slots : calls[u].op = "keys"}}

(* "Sends them to Signal Server while also saving a copy locally": every   *)
(* one-time key that was published under the device's identity, and is not *)
(* used up, is in the pre keys file with the key pair that was published,  *)
(* or in the contents that a thread is about to write.                     *)
CopySaved ==
    \A k \in Outstanding :
        (local.identity # None /\ k.identity = local.identity) =>
            k \in stored \/ \E t \in Users : access[t].open /\ k \in Contents(access[t])

(* The same for registrations, refills, resets, lost answers and crashes   *)
(* in any order: no refill reuses the id of a key that is still out there, *)
(* so the first message of every peer can be read.  It does not hold once  *)
(* a call has begun while another was outstanding, the two threads had the *)
(* file open at once, or the process died or a file operation failed       *)
(* between reading and writing.                                            *)
PublishedStored == disturbed \/ CopySaved

(* What a peer has fetched can no longer be fetched by another, whatever   *)
(* refills, retries, lost responses, overlapping calls and lost files do:  *)
(* one-time keys are one-time.                                             *)
FetchedOnce == handed \cap server.keys = {}

(* The last resort key the server hands out when it has nothing else is in *)
(* the pre keys file ("sends them to Signal Server while also saving a     *)
(* copy locally").                                                         *)
LastResortStored ==
    (local.identity # None /\ server.identity = local.identity) =>
        \E k \in stored : k.id = LastResort /\ k.gen = server.last

(* A soft reset, which drops all sessions, happens only to a device with a *)
(* large amount of pre keys.                                               *)
SoftResetNeedsManyKeys ==
    PerformSoftReset => Cardinality(stored) > ResetLimit

=============================================================================
