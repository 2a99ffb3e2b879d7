---------------------------- MODULE ClientProofs ---------------------------
(***************************************************************************)
(* Proofs about Receive and Send, the two halves of the client.            *)
(*                                                                         *)
(* Receive, for any messages, any of them unreadable.  With and without    *)
(* pushes and crashes: StoredOnce is not inductive; what keeps a second    *)
(* entry out is that the session has used up the key of a message before   *)
(* the first entry exists, so that of all threads only one can ever have   *)
(* it in hand (Single).  With polling alone: DeletedIsStored and           *)
(* DecryptedIsKept, for which one has to know that what the one thread has *)
(* read of the history is all of it but what failing reads and writes have *)
(* cost (PollInv).                                                         *)
(*                                                                         *)
(* Send, for any number of calls and registrations and on both platforms.  *)
(***************************************************************************)
EXTENDS Receive, Send, TLAPS

(* Thread t is going to add an entry for m.                                *)
Pending(t, m) == m \in thread[t].msg /\ thread[t].at \in {"read", "truncate", "write"}

(* What the history, and any copy of it, has of m.                         *)
Recorded(m) ==
    /\ history[m] <= 1 /\ (history[m] > 0 => m \in used)
    /\ \A t \in Threads : thread[t].seen[m] <= 1 /\ (thread[t].seen[m] > 0 => m \in used)

(* The first entry for m is still to be written, by one thread only.       *)
Single(m) ==
    \A t \in Threads : Pending(t, m) =>
        /\ m \in used
        /\ history[m] = 0
        /\ \A u \in Threads : thread[u].seen[m] = 0 /\ (Pending(u, m) => u = t)

Inv == TypeOK /\ \A m \in Msgs \ Bad : Recorded(m) /\ Single(m)

(* Emptied and freshly written files are files.                            *)
LEMMA EntriesTypes ==
    /\ NoEntries \in Entries
    /\ \A seen \in Entries : \A M \in SUBSET All : Put(seen, M) \in Entries
BY ReceiveAssumption DEF NoEntries, Put, Entries

(* A thread that has nothing to do.                                        *)
LEMMA StoppedType == Stopped \in Doing
BY EntriesTypes DEF Stopped, Doing

(* After storeMessage, whatever became of it, the thread has no copy of    *)
(* the history left.                                                       *)
LEMMA ProceedFacts ==
    ASSUME TypeOK, NEW t \in Threads, Proceed(t)
    PROVE  /\ thread' \in [Threads -> Doing]
           /\ thread'[t].seen = NoEntries /\ thread'[t].at \in {"next", "delete"}
           /\ thread'[t].at = "delete" => thread'[t].msg = thread[t].msg
           /\ \A u \in Threads : u # t => thread'[u] = thread[u]
<1> DEFINE rest == [thread[t] EXCEPT !.at = "delete", !.seen = NoEntries]
<1>1. thread \in [Threads -> Doing] /\ thread[t] \in Doing
    BY DEF TypeOK
<1>2. rest \in Doing /\ rest.seen = NoEntries /\ rest.at = "delete" /\ rest.msg = thread[t].msg
    BY <1>1, EntriesTypes, ZenonT(60) DEF Doing
<1>3. Stopped \in Doing /\ Stopped.seen = NoEntries /\ Stopped.at = "next"
    BY StoppedType DEF Stopped
<1>4. thread' = [thread EXCEPT ![t] = IF thread[t].msg \subseteq Own THEN Stopped ELSE rest]
    BY <1>1, ZenonT(30) DEF Proceed
<1> HIDE DEF rest
<1>5. thread'[t] = (IF thread[t].msg \subseteq Own THEN Stopped ELSE rest)
    BY <1>1, <1>4, Zenon
<1>6. \A u \in Threads : u # t => thread'[u] = thread[u]
    BY <1>1, <1>4, Zenon
<1>7. thread' \in [Threads -> Doing]
    BY <1>1, <1>2, <1>3, <1>4
<1> QED
    BY <1>2, <1>3, <1>5, <1>6, <1>7

(* Init establishes the invariant.                                         *)
LEMMA InitInv == Init => Inv
<1> SUFFICES ASSUME Init PROVE Inv
    OBVIOUS
<1>1. TypeOK
    BY EntriesTypes, StoppedType DEF Init, TypeOK
<1>2. \A m \in Msgs \ Bad : Recorded(m) /\ Single(m)
    BY DEF Init, Recorded, Single, Pending, Stopped, NoEntries, All
<1> QED
    BY <1>1, <1>2 DEF Inv

(* TypeOK is inductive on its own.                                         *)
LEMMA TypeStep == TypeOK /\ [Next]_vars => TypeOK'
<1> SUFFICES ASSUME TypeOK, [Next]_vars PROVE TypeOK'
    OBVIOUS
<1>1. ASSUME NEW m \in Msgs, Arrive(m) \/ ServerDeletes(m) \/ DeleteLost(m) PROVE TypeOK'
    BY <1>1 DEF TypeOK, Arrive, ServerDeletes, DeleteLost, file
<1>2. ASSUME NEW m \in Msgs, DecryptPushed(m) PROVE TypeOK'
    BY <1>2 DEF TypeOK, DecryptPushed, file, Threads, Doing
<1>3. ASSUME NEW m \in Own, SaveSent(m) PROVE TypeOK'
    <2>1. thread' = [thread EXCEPT !["native"] =
                        [thread["native"] EXCEPT !.msg = {m}, !.at = "read"]]
        BY ZenonT(30), <1>3 DEF SaveSent, TypeOK
    <2>2. thread["native"] \in Doing /\ {m} \in SUBSET All
        BY DEF TypeOK, Threads, All
    <2>3. [thread["native"] EXCEPT !.msg = {m}, !.at = "read"] \in Doing
        BY <2>2, ZenonT(60) DEF Doing
    <2> QED
        BY ZenonT(30), <1>3, <2>1, <2>3 DEF TypeOK, SaveSent, file
<1>4. CASE AnswerLost \/ Poll
    BY <1>4 DEF TypeOK, AnswerLost, Poll, file
<1>5. CASE OnMessages
    BY <1>5 DEF TypeOK, OnMessages, file, Threads, Doing
<1>6. CASE Crash
    <2>1. history' \in Entries /\ damaged' \in BOOLEAN
        BY <1>6, EntriesTypes, Zenon DEF TypeOK, Crash, CutShort
    <2> QED
        BY <1>6, <2>1, StoppedType DEF TypeOK, Crash
<1>7. ASSUME NEW t \in Threads, Decrypt(t) PROVE TypeOK'
    <2>1. PICK m \in thread[t].todo :
              \/ m \in Broken /\ thread' = [thread EXCEPT ![t] = Stopped] /\ UNCHANGED used
              \/ /\ StepSession(m)
                 /\ thread' = [thread EXCEPT
                       ![t].msg = {m}, ![t].todo = @ \ {m},
                       ![t].at = IF m \in used THEN "delete" ELSE "read"]
        BY <1>7 DEF Decrypt
    <2>2. m \in Msgs /\ UNCHANGED <<sent, queue, answers, deletes, history, damaged, harmed>>
        BY <1>7, <2>1 DEF TypeOK, Decrypt, Doing, file
    <2> QED
        BY <2>1, <2>2, StoppedType DEF TypeOK, StepSession, All, Doing
<1>8. ASSUME NEW t \in Threads, ReadHistory(t) PROVE TypeOK'
    <2>1. thread' = [thread EXCEPT ![t] =
                        [thread[t] EXCEPT !.at = "truncate", !.seen = history]]
        BY ZenonT(30), <1>8 DEF ReadHistory, TypeOK
    <2>2. thread[t] \in Doing /\ history \in Entries
        BY DEF TypeOK
    <2>3. [thread[t] EXCEPT !.at = "truncate", !.seen = history] \in Doing
        BY <2>2, ZenonT(60) DEF Doing
    <2> QED
        BY <1>8, <2>1, <2>3 DEF TypeOK, ReadHistory, file
<1>9. ASSUME NEW t \in Threads, Truncate(t) PROVE TypeOK'
    <2>1. thread' \in [Threads -> Doing]
        BY <1>9 DEF TypeOK, Truncate, Doing
    <2> QED
        BY <1>9, <2>1, EntriesTypes DEF TypeOK, Truncate
<1>10. ASSUME NEW t \in Threads, WriteHistory(t) PROVE TypeOK'
    <2>1. thread' \in [Threads -> Doing]
        BY <1>10, ProceedFacts DEF WriteHistory
    <2>2. Put(thread[t].seen, thread[t].msg) \in Entries
        BY EntriesTypes DEF TypeOK, Doing
    <2> QED
        BY <1>10, <2>1, <2>2 DEF TypeOK, WriteHistory
<1>11. ASSUME NEW t \in Threads, RequestDelete(t) PROVE TypeOK'
    <2>1. thread' = [thread EXCEPT ![t] = [thread[t] EXCEPT !.at = "next", !.msg = {}]]
        BY ZenonT(30), <1>11 DEF RequestDelete, TypeOK
    <2>2. thread[t] \in Doing
        BY DEF TypeOK
    <2>3. [thread[t] EXCEPT !.at = "next", !.msg = {}] \in Doing
        BY <2>2, ZenonT(60) DEF Doing
    <2>4. thread[t].msg \subseteq All
        BY <2>2 DEF Doing
    <2> QED
        BY <1>11, <2>1, <2>3, <2>4 DEF TypeOK, RequestDelete, file
<1>12. CASE UNCHANGED vars
    BY <1>12 DEF TypeOK, vars, file
<1>13. ASSUME NEW t \in Threads, ReadFails(t) PROVE TypeOK'
    <2>1. thread' = [thread EXCEPT ![t] =
                        [thread[t] EXCEPT !.at = "truncate", !.seen = NoEntries]]
        BY ZenonT(30), <1>13 DEF ReadFails, TypeOK
    <2>2. thread[t] \in Doing
        BY DEF TypeOK
    <2>3. [thread[t] EXCEPT !.at = "truncate", !.seen = NoEntries] \in Doing
        BY <2>2, EntriesTypes, ZenonT(60) DEF Doing
    <2> QED
        BY <1>13, <2>1, <2>3 DEF TypeOK, ReadFails, Listed
<1>14. ASSUME NEW t \in Threads, NotStored(t) PROVE TypeOK'
    <2>1. thread' \in [Threads -> Doing] /\ thread[t].msg \subseteq All
        BY <1>14, ProceedFacts DEF NotStored, TypeOK, Doing
    <2> QED
        BY <1>14, <2>1 DEF TypeOK, NotStored
<1>15. ASSUME NEW t \in Threads, WriteFails(t) PROVE TypeOK'
    <2>1. thread' \in [Threads -> Doing] /\ thread[t].msg \subseteq All
        BY <1>15, ProceedFacts DEF WriteFails, TypeOK, Doing
    <2>2. history' \in Entries /\ damaged' \in BOOLEAN
        BY <1>15, EntriesTypes, Zenon DEF TypeOK, WriteFails, CutShort
    <2> QED
        BY <1>15, <2>1, <2>2 DEF TypeOK, WriteFails, Listed
<1> QED
    BY <1>1, <1>2, <1>3, <1>4, <1>5, <1>6, <1>7, <1>8, <1>9, <1>10, <1>11, <1>12, <1>13, <1>14, <1>15
    DEF Next, Step

(* Recorded and Single survive every step.                                 *)
LEMMA RecordStep ==
    ASSUME Inv, [Next]_vars, NEW m \in Msgs \ Bad
    PROVE  Recorded(m)' /\ Single(m)'
<1> USE ReceiveAssumption
<1>0. /\ thread \in [Threads -> Doing] /\ history \in Entries
      /\ Recorded(m) /\ Single(m) /\ m \in All /\ m \notin Own
    BY DEF Inv, TypeOK, All
<1>00. \A u \in Threads : thread[u].seen[m] \in Nat
    BY <1>0 DEF Doing, Entries
<1>000. history[m] \in Nat
    BY <1>0 DEF Entries
<1>01. \A t \in Threads : Proceed(t) =>
          /\ thread'[t].seen = NoEntries /\ thread'[t].at \in {"next", "delete"}
          /\ \A u \in Threads : u # t => thread'[u] = thread[u]
    BY ProceedFacts DEF Inv
<1> DEFINE Same(u) == /\ thread'[u].at = thread[u].at
                      /\ thread'[u].msg = thread[u].msg
                      /\ thread'[u].seen = thread[u].seen
<1>1. CASE used' = used /\ history' = history /\ \A u \in Threads : Same(u)
    BY <1>0, <1>1 DEF Recorded, Single, Pending
<1>2. ASSUME NEW k \in Own, SaveSent(k) PROVE Recorded(m)' /\ Single(m)'
    <2>1. \A u \in Threads : thread'[u].seen = thread[u].seen
        BY <1>2, <1>0 DEF SaveSent, Doing
    <2>2. \A u \in Threads : Pending(u, m)' => Pending(u, m)
        BY <1>2, <1>0 DEF SaveSent, Pending, Doing
    <2> QED
        BY <1>0, <1>2, <2>1, <2>2 DEF Recorded, Single, SaveSent, file
<1>3. CASE Crash
    <2>1. \A u \in Threads : thread'[u].seen[m] = 0 /\ ~Pending(u, m)'
        BY <1>3, <1>0 DEF Crash, Stopped, Pending, NoEntries
    <2>2. used' = used /\ (history' = history \/ history' = NoEntries)
        BY <1>3, Zenon DEF Crash, CutShort
    <2>3. history'[m] = history[m] \/ history'[m] = 0
        BY <1>0, <2>2 DEF NoEntries
    <2> QED
        BY <1>0, <2>1, <2>2, <2>3 DEF Recorded, Single
<1>4. ASSUME NEW t \in Threads, Decrypt(t) PROVE Recorded(m)' /\ Single(m)'
    <2>0. CASE thread' = [thread EXCEPT ![t] = Stopped] /\ UNCHANGED <<used, history>>
        <3>1. \A u \in Threads : thread'[u] = IF u = t THEN Stopped ELSE thread[u]
            BY <1>0, <2>0
        <3>2. \A u \in Threads : Pending(u, m)' => Pending(u, m)
            BY <3>1 DEF Pending, Stopped
        <3>3. \A u \in Threads : thread'[u].seen[m] = thread[u].seen[m] \/ thread'[u].seen[m] = 0
            BY <1>0, <3>1 DEF Stopped, NoEntries
        <3> QED
            BY <1>0, <2>0, <3>2, <3>3 DEF Recorded, Single
    <2>2. history' = history /\ thread[t].at = "next"
        BY <1>4 DEF Decrypt, file
    <2> SUFFICES ASSUME ~(thread' = [thread EXCEPT ![t] = Stopped] /\ UNCHANGED <<used, history>>)
                 PROVE  Recorded(m)' /\ Single(m)'
        BY <2>0
    <2>1. PICK n \in thread[t].todo :
              /\ StepSession(n)
              /\ thread' = [thread EXCEPT
                    ![t].msg = {n}, ![t].todo = @ \ {n},
                    ![t].at = IF n \in used THEN "delete" ELSE "read"]
        BY <1>4, <2>2 DEF Decrypt
    <2>3. \A u \in Threads : thread'[u].seen = thread[u].seen
        BY <2>1, <1>0 DEF Doing
    <2>4. \A u \in Threads : u # t => (Pending(u, m)' => Pending(u, m))
        BY <2>1, <1>0 DEF Pending, Doing
    <2>5. thread'[t].msg = {n} /\ thread'[t].at = IF n \in used THEN "delete" ELSE "read"
        BY <2>1, <1>0 DEF Doing
    <2>6. used \subseteq used' /\ (n = m => m \in used')
        BY <2>1 DEF StepSession
    <2>7. Pending(t, m)' => n = m /\ m \notin used
        BY <2>5 DEF Pending
    <2>8. Recorded(m)'
        BY <1>0, <2>2, <2>3, <2>6 DEF Recorded
    <2>9. ~Pending(t, m)
        BY <2>2 DEF Pending
    <2>10. CASE Pending(t, m)'
        <3>1. history[m] = 0 /\ \A u \in Threads : thread[u].seen[m] = 0 /\ ~Pending(u, m)
            BY <2>10, <2>7, <1>0, <1>00, <1>000 DEF Recorded, Single
        <3>2. \A u \in Threads : Pending(u, m)' => u = t
            BY <3>1, <2>4
        <3>3. m \in used' /\ history'[m] = 0 /\ \A u \in Threads : thread'[u].seen[m] = 0
            BY <3>1, <2>2, <2>3, <2>6, <2>7, <2>10
        <3> QED
            BY <2>8, <3>2, <3>3 DEF Single
    <2>11. CASE ~Pending(t, m)'
        <3>1. \A u \in Threads : Pending(u, m)' => Pending(u, m)
            BY <2>4, <2>11
        <3> QED
            BY <2>8, <3>1, <2>2, <2>3, <2>6, <1>0 DEF Single
    <2> QED
        BY <2>8, <2>10, <2>11
<1>5. ASSUME NEW t \in Threads, ReadHistory(t) PROVE Recorded(m)' /\ Single(m)'
    <2>1. \A u \in Threads : thread'[u].seen = IF u = t THEN history ELSE thread[u].seen
        BY <1>5, <1>0 DEF ReadHistory, Doing
    <2>2. \A u \in Threads : Pending(u, m)' <=> Pending(u, m)
        BY <1>5, <1>0 DEF ReadHistory, Pending, Doing
    <2> QED
        BY <1>0, <1>5, <2>1, <2>2 DEF Recorded, Single, ReadHistory, file
<1>6. ASSUME NEW t \in Threads, Truncate(t) PROVE Recorded(m)' /\ Single(m)'
    <2>1. \A u \in Threads : thread'[u].seen = thread[u].seen
        BY <1>6, <1>0 DEF Truncate, Doing
    <2>2. \A u \in Threads : Pending(u, m)' <=> Pending(u, m)
        BY <1>6, <1>0 DEF Truncate, Pending, Doing
    <2>3. history'[m] = 0 /\ used' = used
        BY <1>6, <1>0 DEF Truncate, NoEntries
    <2> QED
        BY <1>0, <2>1, <2>2, <2>3 DEF Recorded, Single
<1>7. ASSUME NEW t \in Threads, WriteHistory(t) PROVE Recorded(m)' /\ Single(m)'
    <2>1. thread'[t].seen[m] = 0 /\ ~Pending(t, m)'
        BY <1>7, <1>0, <1>01 DEF WriteHistory, NoEntries, Pending
    <2>2. \A u \in Threads : u # t => thread'[u] = thread[u]
        BY <1>7, <1>01 DEF WriteHistory
    <2>3. used' = used /\ thread[t].at = "write"
        BY <1>7 DEF WriteHistory
    <2>4. history'[m] = IF m \in thread[t].msg /\ thread[t].seen[m] < MaxEntries
                        THEN thread[t].seen[m] + 1 ELSE thread[t].seen[m]
        BY <1>7, <1>0 DEF WriteHistory, Put
    <2>5. CASE m \in thread[t].msg
        <3>1. Pending(t, m)
            BY <2>5, <2>3 DEF Pending
        <3>2. history'[m] <= 1 /\ m \in used'
            BY <3>1, <2>3, <2>4, <1>0 DEF Single
        <3>3. \A u \in Threads : thread'[u].seen[m] = 0 /\ ~Pending(u, m)'
            BY <3>1, <2>1, <2>2, <1>0 DEF Single, Pending
        <3> QED
            BY <3>2, <3>3 DEF Recorded, Single
    <2>6. CASE m \notin thread[t].msg
        <3>1. history'[m] = thread[t].seen[m]
            BY <2>4, <2>6
        <3>2. \A u \in Threads : Pending(u, m)' => Pending(u, m) /\ u # t
            BY <2>1, <2>2 DEF Pending
        <3>3. Recorded(m)'
            BY <3>1, <2>1, <2>2, <2>3, <1>0, <1>00 DEF Recorded
        <3> QED
            BY <3>1, <3>2, <3>3, <2>1, <2>2, <2>3, <1>0 DEF Single
    <2> QED
        BY <2>5, <2>6
<1>8. ASSUME NEW t \in Threads, RequestDelete(t) PROVE Recorded(m)' /\ Single(m)'
    <2>1. \A u \in Threads : thread'[u].seen = thread[u].seen
        BY <1>8, <1>0 DEF RequestDelete, Doing
    <2>2. \A u \in Threads : Pending(u, m)' => Pending(u, m)
        BY <1>8, <1>0 DEF RequestDelete, Pending, Doing
    <2> QED
        BY <1>0, <1>8, <2>1, <2>2 DEF Recorded, Single, RequestDelete, file
<1>9. ASSUME NEW k \in Msgs, Arrive(k) \/ ServerDeletes(k) \/ DeleteLost(k)
      PROVE Recorded(m)' /\ Single(m)'
    BY <1>1, <1>9 DEF Arrive, ServerDeletes, DeleteLost, file
<1>10. ASSUME NEW k \in Msgs, DecryptPushed(k) PROVE Recorded(m)' /\ Single(m)'
    BY <1>0, <1>1, <1>10 DEF DecryptPushed, Doing, file
<1>11. CASE AnswerLost \/ Poll
    BY <1>1, <1>11 DEF AnswerLost, Poll, file
<1>12. CASE OnMessages
    BY <1>0, <1>1, <1>12 DEF OnMessages, Doing, file
<1>13. CASE UNCHANGED vars
    BY <1>1, <1>13 DEF vars, file
<1>14. ASSUME NEW t \in Threads, ReadFails(t) PROVE Recorded(m)' /\ Single(m)'
    <2>1. \A u \in Threads : thread'[u].seen = IF u = t THEN NoEntries ELSE thread[u].seen
        BY <1>14, <1>0 DEF ReadFails, Doing
    <2>2. \A u \in Threads : Pending(u, m)' <=> Pending(u, m)
        BY <1>14, <1>0 DEF ReadFails, Pending, Doing
    <2>3. NoEntries[m] = 0
        BY <1>0 DEF NoEntries
    <2> QED
        BY <1>0, <1>14, <2>1, <2>2, <2>3 DEF Recorded, Single, ReadFails
<1>15. ASSUME NEW t \in Threads, NotStored(t) \/ WriteFails(t) PROVE Recorded(m)' /\ Single(m)'
    <2>1. Proceed(t) /\ used' = used /\ (history' = history \/ history' = NoEntries)
        BY <1>15, Zenon DEF NotStored, WriteFails, CutShort
    <2>2. history'[m] = history[m] \/ history'[m] = 0
        BY <1>0, <2>1 DEF NoEntries
    <2>3. \A u \in Threads : thread'[u].seen[m] = thread[u].seen[m] \/ thread'[u].seen[m] = 0
        BY <1>0, <1>01, <2>1 DEF NoEntries
    <2>4. \A u \in Threads : Pending(u, m)' => Pending(u, m)
        BY <1>01, <2>1 DEF Pending
    <2> QED
        BY <1>0, <2>1, <2>2, <2>3, <2>4 DEF Recorded, Single
<1> QED
    BY <1>2, <1>3, <1>4, <1>5, <1>6, <1>7, <1>8, <1>9, <1>10, <1>11, <1>12, <1>13, <1>14, <1>15
    DEF Next, Step

----------------------------------------------------------------------------
(* The invariant holds in every reachable state.                           *)
THEOREM Invariance == Spec => []Inv
<1>1. Inv /\ [Next]_vars => Inv'
    BY TypeStep, RecordStep DEF Inv
<1> QED
    BY InitInv, <1>1, PTL DEF Spec

(* Type correctness.                                                       *)
THEOREM TypeCorrect == Spec => []TypeOK
<1>1. Inv => TypeOK
    BY DEF Inv
<1> QED
    BY Invariance, <1>1, PTL

(* No message is shown twice in the history, however it was received and   *)
(* wherever the process died.                                              *)
THEOREM HistoryShowsOnce == Spec => []StoredOnce
<1>1. Inv => StoredOnce
    BY DEF Inv, Recorded, StoredOnce
<1> QED
    BY Invariance, <1>1, PTL

----------------------------------------------------------------------------
(* Polling alone: the app saves nothing of its own, nothing is pushed, and *)
(* the process does not die, so that only the main thread runs.            *)
PollingAlone == Own = {} /\ ~Push /\ ~Crashes

(* The message is in the history, or on its way there, or a read or write  *)
(* that failed has cost it its entry.                                      *)
Kept(m) == history[m] > 0 \/ InHand(m) \/ m \in harmed

(* Between reading the history and writing it the thread has all of it     *)
(* that did not fall to a failing read; between emptying and writing the   *)
(* file nothing is in it.                                                  *)
WholeHistory ==
    /\ thread["main"].at = "truncate" =>
          \A m \in All : history[m] > 0 => thread["main"].seen[m] > 0 \/ m \in harmed
    /\ thread["main"].at = "write" => history = NoEntries

PollInv ==
    /\ TypeOK /\ WholeHistory
    /\ thread["native"] = Stopped
    /\ \A m \in (sent \ queue) \cup used \cup deletes : Kept(m)
    /\ thread["main"].at = "delete" => \A m \in thread["main"].msg : Kept(m)

(* What is kept, when only the main thread runs.                           *)
LEMMA KeptBy ==
    ASSUME thread["native"] = Stopped, NEW m
    PROVE  Kept(m) <=> \/ history[m] > 0
                       \/ m \in thread["main"].msg /\ thread["main"].at \in {"read", "truncate", "write"}
                       \/ thread["main"].seen[m] > 0 /\ thread["main"].at = "write"
                       \/ m \in harmed
<1>1. thread["native"].at = "next"
    BY DEF Stopped
<1> QED
    BY <1>1 DEF Kept, InHand, Threads

(* Init establishes PollInv.                                               *)
LEMMA PollInit == Init => PollInv
<1> SUFFICES ASSUME Init PROVE PollInv
    OBVIOUS
<1>1. TypeOK
    BY InitInv DEF Inv
<1>2. thread["main"] = Stopped /\ thread["native"] = Stopped /\ Stopped.at = "next"
    BY DEF Init, Threads, Stopped
<1>3. (sent \ queue) \cup used \cup deletes = {}
    BY DEF Init
<1> QED
    BY <1>1, <1>2, <1>3 DEF PollInv, WholeHistory

(* A step that leaves the threads and the history alone.                   *)
LEMMA QuietPoll ==
    ASSUME PollInv, TypeOK', UNCHANGED <<thread, history, harmed>>,
           \A m \in (sent' \ queue') \cup used' \cup deletes' : Kept(m)
    PROVE  PollInv'
<1>1. \A m : Kept(m)' <=> Kept(m)
    BY DEF Kept, InHand
<1> QED
    BY <1>1 DEF PollInv, WholeHistory

(* PollInv survives every step.                                            *)
LEMMA PollStep ==
    ASSUME PollingAlone, PollInv, [Next]_vars
    PROVE  PollInv'
<1>1. TypeOK' /\ TypeOK
    BY TypeStep DEF PollInv
<1>2. /\ thread \in [Threads -> Doing] /\ thread["main"] \in Doing /\ history \in Entries
      /\ thread["native"] = Stopped /\ "main" \in Threads /\ "native" \in Threads
      /\ "main" # "native"
    BY <1>1 DEF TypeOK, Threads, PollInv
<1>3. /\ Stopped.at = "next" /\ Stopped.todo = {} /\ Stopped.msg = {}
    BY DEF Stopped
<1>02. (sent \ queue) \cup used \cup deletes \subseteq All
    BY <1>1 DEF TypeOK, All
<1>4. ASSUME NEW m \in Msgs, Arrive(m) \/ ServerDeletes(m) \/ DeleteLost(m) PROVE PollInv'
    <2>1. /\ UNCHANGED <<thread, history, harmed>>
          /\ (sent' \ queue') \cup used' \cup deletes' \subseteq (sent \ queue) \cup used \cup deletes
        BY <1>4 DEF Arrive, ServerDeletes, DeleteLost, file
    <2> QED
        BY <1>1, <2>1, QuietPoll DEF PollInv
<1>5. CASE AnswerLost \/ Poll \/ UNCHANGED vars
    <2>1. UNCHANGED <<thread, history, harmed, sent, queue, used, deletes>>
        BY <1>5 DEF AnswerLost, Poll, vars, file
    <2> QED
        BY <1>1, <2>1, QuietPoll DEF PollInv
<1>6. CASE OnMessages
    <2>1. PICK a \in answers : thread' = [thread EXCEPT !["main"].todo = a]
        BY <1>6 DEF OnMessages
    <2>2. /\ thread'["main"].at = "next" /\ thread["main"].at = "next"
          /\ thread'["native"] = Stopped /\ UNCHANGED <<history, harmed, sent, queue, used, deletes>>
        BY <1>2, <1>3, <1>6, <2>1 DEF OnMessages, Doing, file
    <2>3. \A m : Kept(m)' <=> Kept(m)
        BY <1>2, <2>2, KeptBy DEF Kept, InHand, Threads, Stopped
    <2> QED
        BY <1>1, <2>2, <2>3 DEF PollInv, WholeHistory
<1>7. CASE Decrypt("main")
    <2>0. /\ UNCHANGED <<sent, queue, deletes, history, harmed>> /\ thread["main"].at = "next"
          /\ \A m \in (sent \ queue) \cup used \cup deletes : history[m] > 0 \/ m \in harmed
        BY <1>2, <1>7, KeptBy DEF PollInv, Decrypt, file
    <2>9. CASE thread' = [thread EXCEPT !["main"] = Stopped] /\ UNCHANGED used
        <3>1. thread'["main"].at = "next" /\ thread'["native"] = Stopped
            BY <1>2, <1>3, <2>9
        <3>2. \A m \in (sent' \ queue') \cup used' \cup deletes' : Kept(m)'
            BY <2>0, <2>9 DEF Kept
        <3> QED
            BY <1>1, <3>1, <3>2 DEF PollInv, WholeHistory
    <2> SUFFICES ASSUME ~(thread' = [thread EXCEPT !["main"] = Stopped] /\ UNCHANGED used)
                 PROVE  PollInv'
        BY <2>9
    <2>1. PICK n \in thread["main"].todo :
              /\ StepSession(n)
              /\ thread' = [thread EXCEPT
                    !["main"].msg = {n}, !["main"].todo = @ \ {n},
                    !["main"].at = IF n \in used THEN "delete" ELSE "read"]
        BY <1>7 DEF Decrypt
    <2>2. /\ thread'["main"].at = (IF n \in used THEN "delete" ELSE "read")
          /\ thread'["main"].msg = {n} /\ thread'["native"] = Stopped
        BY <1>2, <2>1 DEF Doing
    <2>3. used \subseteq used' /\ used' \subseteq used \cup {n}
        BY <2>1 DEF StepSession
    <2>5. Kept(n)'
        BY <1>2, <2>0, <2>2, <2>3 DEF Kept, InHand
    <2>6. \A m \in (sent' \ queue') \cup used' \cup deletes' : Kept(m)'
        BY <2>0, <2>3, <2>5 DEF Kept
    <2> QED
        BY <1>1, <2>2, <2>5, <2>6 DEF PollInv, WholeHistory
<1>8. CASE ReadHistory("main")
    <2>1. /\ thread'["main"].at = "truncate" /\ thread["main"].at = "read"
          /\ thread'["main"].msg = thread["main"].msg /\ thread'["main"].seen = history'
          /\ thread'["native"] = Stopped /\ UNCHANGED <<history, harmed, sent, queue, used, deletes>>
        BY <1>2, <1>8 DEF ReadHistory, Doing, file
    <2>2. \A m : Kept(m) => Kept(m)'
        BY <1>2, <2>1, KeptBy DEF Kept, InHand
    <2> QED
        BY <1>1, <2>1, <2>2 DEF PollInv, WholeHistory
<1>9. CASE Truncate("main")
    <2>1. /\ thread'["main"].at = "write" /\ thread["main"].at = "truncate"
          /\ thread'["main"].msg = thread["main"].msg
          /\ thread'["main"].seen = thread["main"].seen
          /\ thread'["native"] = Stopped /\ UNCHANGED <<harmed, sent, queue, used, deletes>>
          /\ history' = NoEntries
        BY <1>2, <1>9 DEF Truncate, Doing
    <2>2. \A m \in All : history[m] > 0 => thread["main"].seen[m] > 0 \/ m \in harmed
        BY <2>1 DEF PollInv, WholeHistory
    <2>3. \A m \in All : Kept(m) => Kept(m)'
        BY <1>2, <2>1, <2>2, KeptBy DEF Kept, InHand
    <2> QED
        BY <1>1, <1>02, <2>1, <2>3 DEF PollInv, WholeHistory
<1>10. CASE WriteHistory("main")
    <2> DEFINE old == thread["main"]
    <2>1. /\ old.at = "write" /\ history' = Put(old.seen, old.msg)
          /\ thread'["native"] = Stopped /\ UNCHANGED <<harmed, sent, queue, used, deletes>>
        BY <1>1, <1>2, <1>10, ProceedFacts DEF WriteHistory
    <2>2. old.seen \in Entries /\ old.msg \subseteq All
        BY <1>2 DEF Doing
    <2>3. \A m \in All : (m \in old.msg \/ old.seen[m] > 0) => history'[m] > 0
        BY <2>1, <2>2, ReceiveAssumption DEF Put, Entries
    <2>4. history = NoEntries
        BY <2>1 DEF PollInv, WholeHistory
    <2>5. \A m \in All : Kept(m) => history'[m] > 0 \/ m \in harmed
        BY <1>2, <2>1, <2>3, <2>4, KeptBy DEF NoEntries
    <2>7. /\ thread'["main"].at \in {"next", "delete"}
          /\ thread'["main"].at = "delete" => thread'["main"].msg = old.msg
        BY <1>1, <1>2, <1>10, ProceedFacts DEF WriteHistory
    <2>8. \A m \in (sent' \ queue') \cup used' \cup deletes' : Kept(m)'
        BY <1>02, <2>1, <2>5 DEF PollInv, Kept
    <2>9. thread'["main"].at = "delete" => \A m \in thread'["main"].msg : Kept(m)'
        BY <2>2, <2>3, <2>7 DEF Kept
    <2> QED
        BY <1>1, <2>1, <2>7, <2>8, <2>9 DEF PollInv, WholeHistory
<1>11. CASE RequestDelete("main")
    <2>1. /\ thread["main"].at = "delete" /\ thread'["main"].at = "next"
          /\ thread'["native"] = Stopped /\ UNCHANGED <<history, harmed, sent, queue, used>>
          /\ deletes' = deletes \cup thread["main"].msg
        BY <1>2, <1>11 DEF RequestDelete, Doing, file
    <2>2. \A m \in (sent \ queue) \cup used \cup deletes \cup thread["main"].msg :
              history[m] > 0 \/ m \in harmed
        BY <1>2, <2>1, KeptBy DEF PollInv
    <2>3. \A m \in (sent' \ queue') \cup used' \cup deletes' : Kept(m)'
        BY <2>1, <2>2 DEF Kept
    <2> QED
        BY <1>1, <2>1, <2>3 DEF PollInv, WholeHistory
<1>12. ~Step("native")
    BY <1>2, <1>3 DEF Step, Decrypt, ReadHistory, ReadFails, NotStored, Truncate, WriteHistory,
                      WriteFails, RequestDelete
<1>13. /\ ~Crash /\ \A m \in Msgs : ~DecryptPushed(m)
       /\ \A m \in Own : ~SaveSent(m)
    BY DEF PollingAlone, Crash, DecryptPushed
<1>14. CASE ReadFails("main")
    <2>1. /\ thread'["main"].at = "truncate" /\ thread["main"].at = "read"
          /\ thread'["main"].msg = thread["main"].msg /\ harmed' = harmed \cup Listed(history)
          /\ thread'["native"] = Stopped /\ UNCHANGED <<history, sent, queue, used, deletes>>
        BY <1>2, <1>14 DEF ReadFails, Doing
    <2>2. \A m \in All : history'[m] > 0 => m \in harmed'
        BY <2>1 DEF Listed
    <2>3. \A m \in All : Kept(m) => Kept(m)'
        BY <1>2, <2>1, <2>2, KeptBy DEF Kept, InHand
    <2> QED
        BY <1>1, <1>02, <2>1, <2>2, <2>3 DEF PollInv, WholeHistory
<1>15. CASE NotStored("main")
    <2>1. /\ thread["main"].at \in {"read", "truncate"} /\ thread'["main"].at \in {"next", "delete"}
          /\ thread'["main"].at = "delete" => thread'["main"].msg = thread["main"].msg
          /\ harmed' = harmed \cup thread["main"].msg
          /\ thread'["native"] = Stopped /\ UNCHANGED <<history, sent, queue, used, deletes>>
        BY <1>1, <1>2, <1>15, ProceedFacts DEF NotStored
    <2>2. \A m : Kept(m) => Kept(m)'
        BY <1>2, <2>1, KeptBy DEF Kept
    <2>3. thread'["main"].at = "delete" => \A m \in thread'["main"].msg : Kept(m)'
        BY <2>1 DEF Kept
    <2> QED
        BY <1>1, <2>1, <2>2, <2>3 DEF PollInv, WholeHistory
<1>16. CASE WriteFails("main")
    <2>1. /\ thread["main"].at = "write" /\ thread'["main"].at \in {"next", "delete"}
          /\ thread'["main"].at = "delete" => thread'["main"].msg = thread["main"].msg
          /\ harmed' = harmed \cup thread["main"].msg \cup Listed(thread["main"].seen)
          /\ thread'["native"] = Stopped /\ UNCHANGED <<sent, queue, used, deletes>>
        BY <1>1, <1>2, <1>16, ProceedFacts DEF WriteFails
    <2>2. history = NoEntries
        BY <2>1 DEF PollInv, WholeHistory
    <2>3. \A m \in All : Kept(m) => m \in harmed'
        BY <1>2, <2>1, <2>2, KeptBy DEF NoEntries, Listed
    <2>4. \A m \in (sent' \ queue') \cup used' \cup deletes' : Kept(m)'
        BY <1>02, <2>1, <2>3 DEF PollInv, Kept
    <2>5. thread'["main"].at = "delete" => \A m \in thread'["main"].msg : Kept(m)'
        BY <2>1 DEF Kept
    <2> QED
        BY <1>1, <2>1, <2>4, <2>5 DEF PollInv, WholeHistory
<1> QED
    BY <1>4, <1>5, <1>6, <1>7, <1>8, <1>9, <1>10, <1>11, <1>12, <1>13, <1>14, <1>15, <1>16
    DEF Next, Step, Threads

(* With polling alone the server loses its copy of a message only when the *)
(* message is in the history, or in hand to be written there, or when a    *)
(* read or write of the history failed for it; the loop that gives up at a *)
(* message it cannot parse loses nothing.  With pushes or crashes this is  *)
(* not so, as the runs receive_threads and receive_crash show.             *)
THEOREM PollingLosesNothing ==
    ASSUME PollingAlone
    PROVE  Spec => []DeletedIsStored
<1>1. PollInv /\ [Next]_vars => PollInv'
    BY PollStep
<1>2. PollInv => DeletedIsStored
    BY DEF PollInv, DeletedIsStored, Kept
<1> QED
    BY PollInit, <1>1, <1>2, PTL DEF Spec

(* So does the session lose the key that reads the message: what is lost   *)
(* for good is lost to a failing read or write, and to nothing else.       *)
THEOREM PollingReadsToHistory ==
    ASSUME PollingAlone
    PROVE  Spec => []DecryptedIsKept
<1>1. PollInv /\ [Next]_vars => PollInv'
    BY PollStep
<1>2. PollInv => DecryptedIsKept
    BY DEF PollInv, DecryptedIsKept, Kept
<1> QED
    BY PollInit, <1>1, <1>2, PTL DEF Spec

----------------------------------------------------------------------------
(* The phases from which the message may be encrypted (again).             *)
Untaken == {"idle", "clock", "keysClock", "keys", "retry"}

(* What holds of one call: its promise is settled when it ends and not     *)
(* before, and while it may be sent again the server has not taken it.     *)
CallOK(m) ==
    /\ settled[m] \in {<<>>, <<"ok">>, <<"rejected">>}
    /\ settled[m] # <<>> => phase[m] = "ended"
    /\ phase[m] \in Untaken => pending[m] \in {"none", "stale"}
    /\ taken[m] = IF pending[m] = "taken" THEN 1 ELSE 0

SendInv == SendTypes /\ \A m \in Calls : CallOK(m)

(* The handler of call m leaves the other calls alone.                     *)
Untouched(n) ==
    /\ phase'[n] = phase[n] /\ pending'[n] = pending[n] /\ settled'[n] = settled[n]
    /\ taken'[n] = taken[n]

(* What is left alone stays as it should be.                               *)
LEMMA UntouchedOK ==
    ASSUME NEW n \in Calls, CallOK(n), Untouched(n)
    PROVE  CallOK(n)'
BY DEF CallOK, Untouched

(* A promise that was not settled is settled as it should be.              *)
LEMMA SettlesOnce ==
    ASSUME NEW m \in Calls, NEW o \in {"ok", "rejected"}, SendTypes, settled[m] = <<>>, Settle(m, o)
    PROVE  /\ settled'[m] = <<o>> /\ phase'[m] = "ended"
           /\ settled' \in [Calls -> Seq({"ok", "rejected"})]
           /\ phase' \in [Calls -> Phases]
           /\ \A n \in Calls \ {m} : settled'[n] = settled[n] /\ phase'[n] = phase[n]
<1>1. Append(<<>>, o) = <<o>>
  OBVIOUS
<1>2. Append(settled[m], o) \in Seq({"ok", "rejected"})
  BY <1>1 DEF SendTypes
<1> QED
  BY <1>1, <1>2 DEF SendTypes, Settle, Goes, Phases

(* Encryption leads to a request, to silence or to a rejected promise.     *)
LEMMA EncryptOK ==
    ASSUME NEW m \in Calls, NEW s \in Nat, SendTypes, CallOK(m), phase[m] \in Untaken,
           Encrypt(m, s), UNCHANGED <<saved, taken>>
    PROVE  /\ CallOK(m)'
           /\ \A n \in Calls \ {m} : Untouched(n)
           /\ phase' \in [Calls -> Phases]
           /\ body' \in [Calls -> Nat]
           /\ pending' \in [Calls -> Pendings]
           /\ settled' \in [Calls -> Seq({"ok", "rejected"})]
<1>0. settled[m] = <<>>
  BY DEF CallOK, Untaken
<1>1. CASE s = 0
  <2>1. Settle(m, "rejected") /\ UNCHANGED <<body, pending>>
    BY <1>1 DEF Encrypt
  <2>2. /\ settled'[m] = <<"rejected">> /\ phase'[m] = "ended"
        /\ settled' \in [Calls -> Seq({"ok", "rejected"})]
        /\ phase' \in [Calls -> Phases]
        /\ \A n \in Calls \ {m} : settled'[n] = settled[n] /\ phase'[n] = phase[n]
    BY <1>0, <2>1, SettlesOnce
  <2>3. CallOK(m)'
    BY <1>0, <2>1, <2>2 DEF CallOK, Untaken
  <2> QED
    BY <2>1, <2>2, <2>3 DEF Untouched, SendTypes
<1>2. CASE s # 0
  <2>1. /\ settled' = settled /\ body' = [body EXCEPT ![m] = s]
        /\ \/ Goes(m, "put") /\ pending' = [pending EXCEPT ![m] = "sent"]
           \/ Goes(m, "silent") /\ pending' = pending
    BY <1>2 DEF Encrypt
  <2>2. CASE Goes(m, "put") /\ pending' = [pending EXCEPT ![m] = "sent"]
    BY <1>0, <2>1, <2>2 DEF CallOK, Untaken, Untouched, SendTypes, Goes, Phases, Pendings
  <2>3. CASE Goes(m, "silent") /\ pending' = pending
    BY <1>0, <2>1, <2>3 DEF CallOK, Untaken, Untouched, SendTypes, Goes, Phases, Pendings
  <2> QED
    BY <2>1, <2>2, <2>3
<1> QED
  BY <1>1, <1>2

(* A step that keeps the calls other than m keeps the invariant, if it     *)
(* keeps it for m.                                                         *)
LEMMA OneCall ==
    ASSUME SendInv, SendTypes', NEW m \in Calls, CallOK(m)', \A n \in Calls \ {m} : Untouched(n)
    PROVE  SendInv'
BY UntouchedOK DEF SendInv

(* So does a step that keeps all calls.                                    *)
LEMMA NoCall ==
    ASSUME SendInv, SendTypes', UNCHANGED <<phase, pending, settled, saved, taken>>
    PROVE  SendInv'
<1>1. \A n \in Calls : CallOK(n) /\ Untouched(n)
  BY DEF SendInv, Untouched
<1> QED
  BY <1>1, UntouchedOK DEF SendInv

(* A call that is rejected keeps the invariant.                            *)
LEMMA RejectedOK ==
    ASSUME SendInv, NEW m \in Calls, settled[m] = <<>>, Settle(m, "rejected"), session' \in Nat,
           UNCHANGED <<body, pending, bundle, saved, taken, peer, alive>>
    PROVE  SendInv'
<1>0. SendTypes /\ CallOK(m)
  BY DEF SendInv
<1>1. /\ settled'[m] = <<"rejected">> /\ phase'[m] = "ended"
      /\ settled' \in [Calls -> Seq({"ok", "rejected"})] /\ phase' \in [Calls -> Phases]
      /\ \A n \in Calls \ {m} : settled'[n] = settled[n] /\ phase'[n] = phase[n]
  BY <1>0, SettlesOnce
<1>2. CallOK(m)'
  BY <1>0, <1>1 DEF CallOK, Untaken
<1>3. SendTypes'
  BY <1>0, <1>1 DEF SendTypes
<1>4. \A n \in Calls \ {m} : Untouched(n)
  BY <1>1 DEF Untouched
<1> QED
  BY <1>2, <1>3, <1>4, OneCall

(* Every step keeps the invariant.                                         *)
LEMMA SendStep == SendInv /\ [SendNext]_sendVars => SendInv'
<1> SUFFICES ASSUME SendInv, [SendNext]_sendVars PROVE SendInv'
  OBVIOUS
<1>0. SendTypes /\ \A m \in Calls : CallOK(m)
  BY DEF SendInv
<1>1. ASSUME NEW m \in Calls, SendMessage(m) PROVE SendInv'
  <2>0. phase[m] \in Untaken /\ CallOK(m)
    BY <1>0, <1>1 DEF SendMessage, Untaken
  <2>1. CASE IsAndroid
    <3>1. /\ UNCHANGED <<body, pending, bundle, settled, saved, taken, session, peer, alive>>
          /\ Goes(m, "clock") \/ Goes(m, "silent")
      BY <1>1, <2>1 DEF SendMessage, Requests
    <3> QED
      BY <1>0, <2>0, <3>1, OneCall DEF CallOK, Untouched, Untaken, SendTypes, Goes, Phases
  <2>2. CASE ~IsAndroid
    <3>1. /\ Encrypt(m, session)
          /\ UNCHANGED <<bundle, saved, taken, session, peer, alive>>
      BY <1>1, <2>2 DEF SendMessage
    <3> QED
      BY ZenonT(30), <1>0, <2>0, <3>1, EncryptOK, OneCall DEF SendTypes
  <2> QED
    BY <2>1, <2>2
<1>2. ASSUME NEW m \in Calls, Timestamp(m) PROVE SendInv'
  <2>1. /\ Encrypt(m, session) /\ phase[m] \in Untaken
        /\ UNCHANGED <<bundle, saved, taken, session, peer, alive>>
    BY <1>2 DEF Timestamp, Untaken
  <2> QED
    BY ZenonT(30), <1>0, <2>1, EncryptOK, OneCall DEF SendTypes
<1>3. ASSUME NEW m \in Calls, RequestFails(m) PROVE SendInv'
  <2>1. settled[m] = <<>> /\ Settle(m, "rejected")
    BY <1>0, <1>3 DEF RequestFails, CallOK
  <2>2. UNCHANGED <<body, pending, bundle, saved, taken, session, peer, alive>>
    BY <1>3 DEF RequestFails
  <2> QED
    BY <1>0, <2>1, <2>2, RejectedOK DEF SendTypes
<1>4. ASSUME NEW m \in Calls, Response(m) PROVE SendInv'
  <2>0. /\ phase[m] = "put" /\ settled[m] = <<>>
        /\ UNCHANGED <<body, pending, bundle, taken, session, peer, alive>>
    BY <1>0, <1>4 DEF Response, CallOK
  <2>1. \/ pending[m] = "stale" /\ RequestPreKeys(m)
        \/ Settle(m, "rejected") /\ UNCHANGED saved
        \/ Goes(m, "silent") /\ UNCHANGED <<settled, saved>>
        \/ pending[m] # "stale" /\ SaveSentMessage(m)
    BY <1>4 DEF Response
  <2>2. CASE pending[m] = "stale" /\ RequestPreKeys(m)
    <3>1. /\ UNCHANGED <<settled, saved>>
          /\ Goes(m, "keysClock") \/ Goes(m, "keys") \/ Goes(m, "silent")
      BY <2>2 DEF RequestPreKeys, Requests
    <3> QED
      BY ZenonT(30), <1>0, <2>0, <2>2, <3>1, OneCall DEF CallOK, Untouched, Untaken, SendTypes, Goes, Phases
  <2>3. CASE Settle(m, "rejected") /\ UNCHANGED saved
    BY <1>0, <2>0, <2>3, RejectedOK DEF SendTypes
  <2>4. CASE Goes(m, "silent") /\ UNCHANGED <<settled, saved>>
    BY ZenonT(30), <1>0, <2>0, <2>4, OneCall DEF CallOK, Untouched, Untaken, SendTypes, Goes, Phases
  <2>5. CASE pending[m] # "stale" /\ SaveSentMessage(m)
    <3>1. Settle(m, "ok")
      BY <2>5 DEF SaveSentMessage
    <3>2. saved' \in [Calls -> SUBSET {"contact", "user"}]
      BY <1>0, <2>5 DEF SaveSentMessage, SendTypes
    <3>3. /\ settled'[m] = <<"ok">> /\ phase'[m] = "ended"
          /\ settled' \in [Calls -> Seq({"ok", "rejected"})] /\ phase' \in [Calls -> Phases]
          /\ \A n \in Calls \ {m} : settled'[n] = settled[n] /\ phase'[n] = phase[n]
      BY <1>0, <2>0, <3>1, SettlesOnce
    <3>4. CallOK(m)'
      BY <1>0, <2>0, <2>5, <3>2, <3>3 DEF CallOK, Untaken
    <3>5. SendTypes' /\ \A n \in Calls \ {m} : Untouched(n)
      BY <1>0, <2>0, <3>2, <3>3 DEF Untouched, SendTypes
    <3> QED
      BY <3>4, <3>5, OneCall
  <2> QED
    BY <2>1, <2>2, <2>3, <2>4, <2>5
<1>5. ASSUME NEW m \in Calls, KeysTimestamp(m) PROVE SendInv'
  <2>1. /\ Goes(m, "keys") \/ Goes(m, "silent")
        /\ phase[m] = "keysClock"
        /\ UNCHANGED <<body, pending, bundle, settled, saved, taken, session, peer, alive>>
    BY <1>5 DEF KeysTimestamp, Requests
  <2> QED
    BY ZenonT(30), <1>0, <2>1, OneCall DEF CallOK, Untouched, Untaken, SendTypes, Goes, Phases
<1>6. ASSUME NEW m \in Calls, PreKeysFail(m) PROVE SendInv'
  <2>0. /\ settled[m] = <<>> /\ phase[m] \in {"keysClock", "keys"}
        /\ UNCHANGED <<body, pending, bundle, saved, taken, session, peer>>
    BY <1>0, <1>6 DEF PreKeysFail, CallOK
  <2>1. CASE alive' = FALSE /\ UNCHANGED <<phase, settled>>
    BY ZenonT(30), <1>0, <2>0, <2>1 DEF SendInv, CallOK, SendTypes
  <2>2. CASE Settle(m, "rejected") /\ UNCHANGED alive
    BY <1>0, <2>0, <2>2, RejectedOK DEF SendTypes
  <2>3. CASE Goes(m, "silent") /\ UNCHANGED <<settled, alive>>
    BY ZenonT(30), <1>0, <2>0, <2>3, OneCall DEF CallOK, Untouched, Untaken, SendTypes, Goes, Phases
  <2> QED
    BY ZenonT(30), <1>6, <2>1, <2>2, <2>3 DEF PreKeysFail
<1>7. ASSUME NEW m \in Calls, PreKeys(m) PROVE SendInv'
  <2>0. /\ phase[m] = "keys" /\ bundle[m] \in Nat /\ session' = bundle[m] /\ Retry(m, bundle[m])
        /\ bundle' = [bundle EXCEPT ![m] = 0] /\ UNCHANGED <<saved, taken, peer, alive>>
    BY <1>0, <1>7 DEF PreKeys, SendTypes
  <2>1. bundle' \in [Calls -> Nat]
    BY <1>0, <2>0 DEF SendTypes
  <2>2. CASE IsAndroid
    <3>1. Goes(m, "retry") /\ UNCHANGED <<body, pending, settled>>
      BY <2>0, <2>2 DEF Retry
    <3> QED
      BY ZenonT(30), <1>0, <2>0, <2>1, <3>1, OneCall DEF CallOK, Untouched, Untaken, SendTypes, Goes, Phases
  <2>3. CASE ~IsAndroid
    <3>1. Encrypt(m, bundle[m])
      BY <2>0, <2>3 DEF Retry
    <3>2. /\ CallOK(m)' /\ \A n \in Calls \ {m} : Untouched(n)
          /\ phase' \in [Calls -> Phases] /\ body' \in [Calls -> Nat]
          /\ pending' \in [Calls -> Pendings] /\ settled' \in [Calls -> Seq({"ok", "rejected"})]
      BY <1>0, <2>0, <3>1, EncryptOK DEF Untaken
    <3> QED
      BY <1>0, <2>0, <2>1, <3>2, OneCall DEF SendTypes
  <2> QED
    BY <2>2, <2>3
<1>8. ASSUME NEW m \in Calls, BadPreKeys(m) PROVE SendInv'
  <2>0. /\ settled[m] = <<>> /\ phase[m] = "keys" /\ session' = 0
        /\ UNCHANGED <<body, pending, bundle, saved, taken, peer, alive>>
    BY <1>0, <1>8 DEF BadPreKeys, CallOK
  <2>1. CASE Goes(m, "silent") /\ UNCHANGED settled
    <3>1. CallOK(m)'
      BY ZenonT(30), <1>0, <2>0, <2>1 DEF CallOK, Untaken, SendTypes, Goes
    <3>2. SendTypes' /\ \A n \in Calls \ {m} : Untouched(n)
      BY <1>0, <2>0, <2>1 DEF Untouched, SendTypes, Goes, Phases
    <3> QED
      BY <3>1, <3>2, OneCall
  <2>2. CASE Settle(m, "rejected")
    BY <1>0, <2>0, <2>2, RejectedOK DEF SendTypes
  <2> QED
    BY <1>8, <2>1, <2>2 DEF BadPreKeys
<1>9. ASSUME NEW m \in Calls, ServerTakes(m) PROVE SendInv'
  <2>0. /\ pending[m] = "sent" /\ taken[m] = 0 /\ phase[m] \notin Untaken
        /\ UNCHANGED <<phase, body, bundle, settled, saved, session, peer, alive>>
    BY <1>0, <1>9 DEF ServerTakes, CallOK
  <2>1. CASE pending' = [pending EXCEPT ![m] = "taken"] /\ taken' = [taken EXCEPT ![m] = @ + 1]
    <3>1. taken'[m] = 1 /\ taken' \in [Calls -> Nat]
      BY <1>0, <2>0, <2>1 DEF SendTypes
    <3>2. CallOK(m)'
      BY <1>0, <2>0, <2>1, <3>1 DEF CallOK, SendTypes
    <3>3. SendTypes' /\ \A n \in Calls \ {m} : Untouched(n)
      BY <1>0, <2>0, <2>1, <3>1 DEF Untouched, SendTypes, Pendings
    <3> QED
      BY <3>2, <3>3, OneCall
  <2>2. CASE pending' = [pending EXCEPT ![m] = "stale"] /\ taken' = taken
    <3>1. CallOK(m)'
      BY <1>0, <2>0, <2>2 DEF CallOK, SendTypes
    <3>2. SendTypes' /\ \A n \in Calls \ {m} : Untouched(n)
      BY <1>0, <2>0, <2>2 DEF Untouched, SendTypes, Pendings
    <3> QED
      BY <3>1, <3>2, OneCall
  <2> QED
    BY <1>9, <2>1, <2>2 DEF ServerTakes
<1>10. ASSUME NEW m \in Calls, ServerRefuses(m) PROVE SendInv'
  <2>0. /\ pending[m] = "sent" /\ phase[m] \notin Untaken
        /\ UNCHANGED <<phase, body, bundle, settled, saved, taken, session, peer, alive>>
    BY <1>0, <1>10 DEF ServerRefuses, CallOK
  <2>1. PICK r \in {"refused", "notfound", "odd"} : pending' = [pending EXCEPT ![m] = r]
    BY ZenonT(30), <1>10 DEF ServerRefuses
  <2>2. CallOK(m)'
    BY <1>0, <2>0, <2>1 DEF CallOK, SendTypes
  <2>3. SendTypes' /\ \A n \in Calls \ {m} : Untouched(n)
    BY <1>0, <2>0, <2>1 DEF Untouched, SendTypes, Pendings
  <2> QED
    BY <2>2, <2>3, OneCall
<1>11. ASSUME NEW m \in Calls, ServerPreKeys(m) PROVE SendInv'
  <2>1. SendTypes'
    BY <1>0, <1>11 DEF ServerPreKeys, SendTypes
  <2>2. UNCHANGED <<phase, pending, settled, saved, taken>>
    BY <1>11 DEF ServerPreKeys
  <2> QED
    BY <2>1, <2>2, NoCall
<1>12. CASE PeerRegisters \/ DeleteContact
  <2>1. SendTypes'
    BY <1>0, <1>12 DEF PeerRegisters, DeleteContact, SendTypes
  <2>2. UNCHANGED <<phase, pending, settled, saved, taken>>
    BY <1>12 DEF PeerRegisters, DeleteContact
  <2> QED
    BY <2>1, <2>2, NoCall
<1>13. CASE UNCHANGED sendVars
  <2>1. SendTypes'
    BY <1>0, <1>13 DEF sendVars, SendTypes
  <2> QED
    BY <1>13, <2>1, NoCall DEF sendVars
<1> QED
  BY <1>1, <1>2, <1>3, <1>4, <1>5, <1>6, <1>7, <1>8, <1>9, <1>10, <1>11, <1>12, <1>13 DEF SendNext

(* The invariant holds in every state.                                     *)
LEMMA SendInvariant == SendSpec => []SendInv
<1>1. SendInit => SendInv
  BY DEF SendInit, SendInv, CallOK, SendTypes, Untaken, Phases, Pendings
<1> QED
  BY <1>1, SendStep, PTL DEF SendSpec

(* The promise of sendMessage is settled at most once, for any number of   *)
(* calls at once and any number of stale sessions.                         *)
THEOREM PromiseSettledOnce == SendSpec => []SettledOnce
<1>1. SendInv => SettledOnce
  <2> SUFFICES ASSUME SendInv, NEW m \in Calls PROVE Len(settled[m]) <= 1
    BY DEF SettledOnce
  <2>1. settled[m] = <<>> \/ settled[m] = <<"ok">> \/ settled[m] = <<"rejected">>
    BY DEF SendInv, CallOK
  <2>2. Len(<<>>) = 0 /\ Len(<<"ok">>) = 1 /\ Len(<<"rejected">>) = 1
    OBVIOUS
  <2>3. Len(settled[m]) = 0 \/ Len(settled[m]) = 1
    BY <2>1, <2>2, Zenon
  <2>4. \A k : k = 0 \/ k = 1 => k <= 1
    OBVIOUS
  <2> QED
    BY <2>3, <2>4, Zenon
<1> QED
  BY <1>1, SendInvariant, PTL

(* The server takes at most one copy of a message that sendMessage sends,  *)
(* however often the call is repeated.                                     *)
THEOREM ServerTakesOnce == SendSpec => []TakenOnce
<1>1. SendInv => TakenOnce
  <2> SUFFICES ASSUME SendInv, NEW m \in Calls PROVE taken[m] <= 1
    BY DEF TakenOnce
  <2>1. taken[m] = 1 \/ taken[m] = 0
    BY DEF SendInv, CallOK
  <2> QED
    BY <2>1
<1> QED
  BY <1>1, SendInvariant, PTL

=============================================================================
