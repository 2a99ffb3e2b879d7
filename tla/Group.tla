-------------------------------- MODULE Group ------------------------------
(***************************************************************************)
(* group_session_builder.c and group_cipher.c: a member of a group sends,  *)
(* another one receives.  Distribution messages and messages are lost,     *)
(* repeated and reordered; the sender may start a new chain; either side   *)
(* may stop between computing and storing.                                 *)
(***************************************************************************)
EXTENDS SenderKeys, FiniteSets, Functions

CONSTANTS
    MaxSent,        \* bound on messages
    MaxChains,      \* bound on chains that the sender starts
    MaxDists,       \* bound on distribution messages
    MaxInstalls     \* bound on distribution messages worked off

ASSUME GroupAssumption ==
    /\ GroupSkip \in Nat /\ GroupKeys \in Nat /\ MaxStates \in Nat
    /\ MaxSent \in Nat /\ MaxChains \in Nat

VARIABLES
    mine,         \* the sender's record, as stored
    underway,     \* the message that was encrypted and is not handed out yet
    count,        \* messages encrypted so far
    net,          \* messages that were sent
    dists,        \* distribution messages that were sent
    theirs,       \* the receiver's record, as stored
    reads,        \* how often each message was returned as plaintext
    installs,     \* the iterations from which each chain was set up
    chains        \* chains started so far

groupVars == <<mine, underway, count, net, dists, theirs, reads, installs, chains>>

GroupInit ==
    /\ mine = <<>> /\ theirs = <<>>
    /\ underway = {} /\ net = {} /\ dists = {}
    /\ reads = [n \in 1 .. MaxSent |-> 0]
    /\ installs = [c \in 1 .. MaxChains |-> <<>>]
    /\ chains = 0 /\ count = 0

(* group_session_builder_create_session: a new chain if there is none; in  *)
(* either case a distribution message with the state of the chain now.     *)
CreateSession ==
    LET c  == chains + 1
        st == IF mine = <<>> THEN NewKeyState(c, c, 0, TRUE) ELSE mine[1]
    IN  /\ mine = <<>> => chains < MaxChains
        /\ Cardinality(dists) < MaxDists
        /\ mine' = IF mine = <<>> THEN SetKeyState(st) ELSE mine
        /\ chains' = IF mine = <<>> THEN c ELSE chains
        /\ dists' = dists \cup {[id |-> st.id, seed |-> st.seed, iteration |-> st.iteration]}
        /\ UNCHANGED <<underway, count, net, theirs, reads, installs>>

(* The application deletes its sender key, to start a new chain.           *)
Forget ==
    /\ mine # <<>>
    /\ mine' = <<>>
    /\ UNCHANGED <<underway, count, net, dists, theirs, reads, installs, chains>>

(* Mutant: the message goes out with the chain key as it was.              *)
StoreNextSame(st) == st

(* sender_chain_key_create_next, for the record that group_cipher_encrypt  *)
(* stores before it returns the message                                    *)
StoreNext(st) == [st EXCEPT !.iteration = @ + 1]

(* group_cipher_encrypt, up to the store.  A record from a distribution    *)
(* message has no private key to sign with.                                *)
Encrypt ==
    /\ mine # <<>> /\ mine[1].private /\ underway = {}
    /\ count < MaxSent
    /\ count' = count + 1
    /\ underway' = {[n |-> count + 1, id |-> mine[1].id, seed |-> mine[1].seed,
                     iteration |-> mine[1].iteration]}
    /\ mine' = [mine EXCEPT ![1] = StoreNext(@)]
    /\ UNCHANGED <<net, dists, theirs, reads, installs, chains>>

(* The message is returned and sent; or the process ends, and it is lost.  *)
Return(sent) ==
    /\ underway # {}
    /\ underway' = {}
    /\ net' = IF sent THEN net \cup underway ELSE net
    /\ UNCHANGED <<mine, count, dists, theirs, reads, installs, chains>>

(* group_session_builder_process_session: the state goes in front, also    *)
(* when there is one with the same id.                                     *)
ProcessSession(d) ==
    /\ FoldFunction(LAMBDA from, n : Len(from) + n, 0, installs) < MaxInstalls
    /\ theirs' = AddKeyState(theirs, NewKeyState(d.id, d.seed, d.iteration, FALSE))
    /\ installs' = [installs EXCEPT ![d.id] = Append(@, d.iteration)]
    /\ UNCHANGED <<mine, underway, count, net, dists, reads, chains>>

(* What group_cipher_decrypt answers.                                      *)
DecryptResult(record, m) ==
    LET i == StateById(record, m.id)
    IN  IF record = <<>> THEN "no session"
        ELSE IF i = 0 THEN "invalid"
        ELSE IF record[i].seed # m.seed THEN "invalid"
        ELSE SenderKeyResult(record[i], m.iteration)

(* Mutant: the record is stored although decryption failed.                *)
StoredStates(record, m, decrypted) ==
    LET i == StateById(record, m.id)
    IN  [record EXCEPT ![i] = SenderKeyState(@, m.iteration)]

(* The record that group_cipher_decrypt stores: nothing is stored unless   *)
(* the text was decrypted and the callback took it.                        *)
StoredRecord(record, m, decrypted) ==
    LET i == StateById(record, m.id)
    IN  IF decrypted THEN [record EXCEPT ![i] = SenderKeyState(@, m.iteration)] ELSE record

(* group_cipher_decrypt; `taken` is false when the callback refuses the    *)
(* text, or when the process ends before the record is stored.             *)
Decrypt(m, taken) ==
    LET ok == DecryptResult(theirs, m) = "ok"
    IN  /\ ok \/ taken
        /\ theirs' = IF ok THEN StoredRecord(theirs, m, taken) ELSE theirs
        /\ reads' = IF ok /\ taken THEN [reads EXCEPT ![m.n] = @ + 1] ELSE reads
        /\ UNCHANGED <<mine, underway, count, net, dists, installs, chains>>

GroupNext ==
    \/ CreateSession \/ Forget \/ Encrypt
    \/ \E sent \in BOOLEAN : Return(sent)
    \/ \E d \in dists : ProcessSession(d)
    \/ \E m \in net, taken \in BOOLEAN : Decrypt(m, taken)

GroupSpec == GroupInit /\ [][GroupNext]_groupVars

----------------------------------------------------------------------------
(* A message is read at most once for each time that its chain was set up: *)
(* exactly the repeated distribution message, which puts the chain back,   *)
(* allows it to be read again.                                             *)
ReadsBounded == \A m \in net : reads[m.n] <= Len(installs[m.id])

(* No key of a chain encrypts two messages, although the process may end   *)
(* anywhere between computing a message and sending it.                    *)
GroupKeysUsedOnce ==
    \A m1, m2 \in net \cup underway :
        (m1.seed = m2.seed /\ m1.iteration = m2.iteration) => m1 = m2

(* When the chain of a message was set up once, and is still kept, every   *)
(* message from then on is read or can be read, in any order, as long as   *)
(* it is not further ahead than the limit, nor was skipped so long ago     *)
(* that its key had to go.                                                 *)
UnreadGroupReadable ==
    \A m \in net, i \in DOMAIN theirs :
        LET st == theirs[i]
        IN  (/\ st.id = m.id /\ Len(installs[m.id]) = 1 /\ reads[m.n] = 0
             /\ m.iteration >= installs[m.id][1]
             /\ m.iteration - st.iteration <= GroupSkip
             /\ st.iteration - m.iteration <= GroupKeys)
                => DecryptResult(theirs, m) = "ok"

(* The states that are kept are those set up last: setting up a chain      *)
(* never makes the one unreadable that was set up just before it.          *)
NewestKept == [][\A i \in 1 .. MaxStates - 1 : (i \in DOMAIN theirs /\ Len(theirs') > 0
                    /\ installs' # installs) => theirs'[i + 1] = theirs[i]]_groupVars

=============================================================================
