------------------------------- MODULE Receive -----------------------------
(***************************************************************************)
(* How messages of one contact get from the server's queue into the        *)
(* message history of the device: polling (receiveNewMessagesByContact),   *)
(* whose answer is worked off on the main thread, and pushed messages      *)
(* (decryptSignalMessage, then deleteSignalMessage), which run on the      *)
(* native modules thread, as does saveSentMessage; all of it as on Android.*)
(* (iOS goes on to the next message where Android gives up, does not store *)
(* a pushed message that it cannot decrypt, and replaces the file instead  *)
(* of rewriting it.)                                                       *)
(*                                                                         *)
(* A session is abstracted to the set of messages whose keys it has used   *)
(* up: it reads a message once and calls it a duplicate ever after, which  *)
(* is what Session shows of it.  Loading, decrypting and storing a session *)
(* is one step, under the lock of the Signal library.  No lock protects    *)
(* the history, a file that is read, truncated and written as a whole.     *)
(* Reading and writing may fail: the error is reported and swallowed.      *)
(*                                                                         *)
(* Messages are numbered in the order of their arrival, which is the order *)
(* of the server's answers.  There is a session with the contact; messages *)
(* of others are left alone.                                               *)
(***************************************************************************)
EXTENDS Integers, FiniteSets

CONSTANTS
    Msgs,        \* messages of the contact, numbers
    Bad,         \* those of them that cannot be decrypted
    Broken,      \* those that are no valid JSON or Base64
    Own,         \* messages the app saves with saveSentMessage
    Push,        \* whether messages are pushed
    Crashes,     \* whether the process may die
    Faults,      \* whether reading or writing the history may fail
    MaxAnswers,  \* bound on polls outstanding at once
    MaxEntries   \* entries per message that are told apart in the history

ASSUME ReceiveAssumption ==
    /\ Msgs \subseteq Nat /\ Bad \subseteq Msgs /\ Broken \subseteq Msgs
    /\ Own \cap Msgs = {}
    /\ Push \in BOOLEAN /\ Crashes \in BOOLEAN /\ Faults \in BOOLEAN
    /\ MaxAnswers \in Nat /\ MaxEntries \in Nat \ {0}

VARIABLES
    sent,      \* messages the contact has sent
    queue,     \* those the server still has
    answers,   \* answers to polls, on their way
    deletes,   \* DELETE requests, on their way
    used,      \* messages the stored session has the keys of behind it
    history,   \* entries of each message in the history file
    damaged,   \* whether that file was cut short and cannot be parsed
    harmed,    \* messages whose entries failing file operations kept out
    thread     \* what each thread is doing

file == <<history, damaged, harmed>>

vars == <<sent, queue, answers, deletes, used, file, thread>>

Threads == {"main", "native"}

All == Msgs \cup Own

NoEntries == [m \in All |-> 0]

(* `todo` is the rest of the loop over an answer, `at` the next step for   *)
(* the message `msg` in hand, `seen` the history as it was read.           *)
Stopped == [at |-> "next", msg |-> {}, todo |-> {}, seen |-> NoEntries]

Init ==
    /\ sent = {} /\ queue = {} /\ answers = {} /\ deletes = {} /\ used = {}
    /\ history = NoEntries /\ damaged = FALSE /\ harmed = {}
    /\ thread = [t \in Threads |-> Stopped]

----------------------------------------------------------------------------
(* The server and the network (external)                                   *)

Arrive(m) ==
    /\ m \notin sent /\ \A n \in Msgs : n < m => n \in sent
    /\ sent' = sent \cup {m}
    /\ queue' = queue \cup {m}
    /\ UNCHANGED <<answers, deletes, used, file, thread>>

ServerDeletes(m) ==
    /\ m \in deletes
    /\ queue' = queue \ {m}
    /\ deletes' = deletes \ {m}
    /\ UNCHANGED <<sent, answers, used, file, thread>>

DeleteLost(m) ==
    /\ m \in deletes
    /\ deletes' = deletes \ {m}
    /\ UNCHANGED <<sent, queue, answers, used, file, thread>>

AnswerLost ==
    /\ \E a \in answers : answers' = answers \ {a}
    /\ UNCHANGED <<sent, queue, deletes, used, file, thread>>

----------------------------------------------------------------------------
(* Calls of the app                                                        *)

(* receiveNewMessagesByContact: GET messages                               *)
Poll ==
    /\ Cardinality(answers) < MaxAnswers
    /\ answers' = answers \cup {queue}
    /\ UNCHANGED <<sent, queue, deletes, used, file, thread>>

(* decryptSignalMessage for a message that was pushed, maybe again         *)
DecryptPushed(m) ==
    /\ Push /\ m \in sent
    /\ thread["native"] = Stopped
    /\ thread' = [thread EXCEPT !["native"].todo = {m}]
    /\ UNCHANGED <<sent, queue, answers, deletes, used, file>>

(* saveSentMessage                                                         *)
SaveSent(m) ==
    /\ m \in Own
    /\ thread["native"] = Stopped
    /\ thread' = [thread EXCEPT !["native"].msg = {m}, !["native"].at = "read"]
    /\ UNCHANGED <<sent, queue, answers, deletes, used, file>>

----------------------------------------------------------------------------
(* The steps of a thread                                                   *)

(* onResponse of a poll, posted to the main thread.                        *)
OnMessages ==
    /\ thread["main"] = Stopped
    /\ \E a \in answers :
          /\ answers' = answers \ {a}
          /\ thread' = [thread EXCEPT !["main"].todo = a]
    /\ UNCHANGED <<sent, queue, deletes, used, file>>

(* Mutant: the session that was stepped on is not stored.                  *)
StepSessionInMemory(m) == UNCHANGED used

(* The session store after a message was tried: one that is read moves the *)
(* session on, one that is not leaves it.                                  *)
StepSession(m) == used' = IF m \in Bad THEN used ELSE used \cup {m}

(* Mutant: the loop goes on with the last message.                         *)
DecryptLast(t) ==
    /\ thread[t].at = "next"
    /\ \E m \in thread[t].todo :
          /\ \A n \in thread[t].todo : n <= m
          /\ IF m \in Broken
             THEN thread' = [thread EXCEPT ![t] = Stopped] /\ UNCHANGED used
             ELSE /\ StepSession(m)
                  /\ thread' = [thread EXCEPT
                        ![t].msg = {m}, ![t].todo = @ \ {m},
                        ![t].at = IF m \in used THEN "delete" ELSE "read"]
    /\ UNCHANGED <<sent, queue, answers, deletes, file>>

(* The attempts to decrypt.  A duplicate is not stored; a message that     *)
(* cannot be read is, as a warning.  At one that cannot even be parsed the *)
(* promise is rejected and the loop abandoned.                             *)
Decrypt(t) ==
    /\ thread[t].at = "next"
    /\ \E m \in thread[t].todo :
          /\ \A n \in thread[t].todo : m <= n
          /\ IF m \in Broken
             THEN thread' = [thread EXCEPT ![t] = Stopped] /\ UNCHANGED used
             ELSE /\ StepSession(m)
                  /\ thread' = [thread EXCEPT
                        ![t].msg = {m}, ![t].todo = @ \ {m},
                        ![t].at = IF m \in used THEN "delete" ELSE "read"]
    /\ UNCHANGED <<sent, queue, answers, deletes, file>>

(* storeMessage: readFromStorage                                           *)
ReadHistory(t) ==
    /\ thread[t].at = "read" /\ ~damaged
    /\ thread' = [thread EXCEPT ![t].at = "truncate", ![t].seen = history]
    /\ UNCHANGED <<sent, queue, answers, deletes, used, file>>

Listed(entries) == {m \in All : entries[m] > 0}

(* readFromStorage fails, and its null is taken for an empty history.      *)
ReadFails(t) ==
    /\ Faults /\ thread[t].at = "read"
    /\ thread' = [thread EXCEPT ![t].at = "truncate", ![t].seen = NoEntries]
    /\ harmed' = harmed \cup Listed(history)
    /\ UNCHANGED <<sent, queue, answers, deletes, used, history, damaged>>

(* What follows storeMessage: a saved message of one's own is done.        *)
Proceed(t) ==
    thread' = [thread EXCEPT
        ![t] = IF @.msg \subseteq Own THEN Stopped
               ELSE [@ EXCEPT !.at = "delete", !.seen = NoEntries]]

(* storeMessage gives up: what it read is no JSON, because the file is     *)
(* damaged or the other thread is writing it, or it cannot be opened for   *)
(* writing.                                                                *)
NotStored(t) ==
    /\ \/ thread[t].at = "read" /\ damaged
       \/ thread[t].at = "read" /\ \E u \in Threads : u # t /\ thread[u].at = "write"
       \/ thread[t].at = "truncate" /\ Faults
    /\ harmed' = harmed \cup thread[t].msg
    /\ Proceed(t)
    /\ UNCHANGED <<sent, queue, answers, deletes, used, history, damaged>>

(* writeToStorageFile: opening the file for writing empties it.            *)
Truncate(t) ==
    /\ thread[t].at = "truncate"
    /\ history' = NoEntries /\ damaged' = FALSE
    /\ thread' = [thread EXCEPT ![t].at = "write"]
    /\ UNCHANGED <<sent, queue, answers, deletes, used, harmed>>

(* Mutant: only the new entry is written.                                  *)
PutOnly(seen, M) == [m \in All |-> IF m \in M THEN 1 ELSE 0]

(* Mutant: a file that is not there yet is an error.                       *)
PutNeedsFile(seen, M) ==
    [m \in All |-> IF m \in M /\ seen # NoEntries THEN 1 ELSE seen[m]]

(* The history that was read with an entry for the message in hand.        *)
Put(seen, M) ==
    [m \in All |-> IF m \in M /\ seen[m] < MaxEntries THEN seen[m] + 1 ELSE seen[m]]

(* writeToStorageFile: the data                                            *)
WriteHistory(t) ==
    /\ thread[t].at = "write"
    /\ history' = Put(thread[t].seen, thread[t].msg) /\ damaged' = FALSE
    /\ Proceed(t)
    /\ UNCHANGED <<sent, queue, answers, deletes, used, harmed>>

(* The file is left as it is, or with part of the data (`cut`).            *)
CutShort(cut) ==
    /\ history' = IF cut THEN NoEntries ELSE history
    /\ damaged' = (damaged \/ cut)

(* writeToStorageFile fails.                                               *)
WriteFails(t) ==
    /\ Faults /\ thread[t].at = "write"
    /\ \E cut \in BOOLEAN : CutShort(cut)
    /\ harmed' = harmed \cup thread[t].msg \cup Listed(thread[t].seen)
    /\ Proceed(t)
    /\ UNCHANGED <<sent, queue, answers, deletes, used>>

(* deleteSignalMessage: called by the loop, or by the app for a message    *)
(* that was pushed.                                                        *)
RequestDelete(t) ==
    /\ thread[t].at = "delete"
    /\ deletes' = deletes \cup thread[t].msg
    /\ thread' = [thread EXCEPT ![t].at = "next", ![t].msg = {}]
    /\ UNCHANGED <<sent, queue, answers, used, file>>

Step(t) ==
    \/ Decrypt(t) \/ ReadHistory(t) \/ ReadFails(t) \/ NotStored(t)
    \/ Truncate(t) \/ WriteHistory(t) \/ WriteFails(t) \/ RequestDelete(t)

(* The process dies.  A DELETE that was sent may still arrive.             *)
Crash ==
    /\ Crashes
    /\ answers' = {}
    /\ thread' = [t \in Threads |-> Stopped]
    /\ \E cut \in {FALSE} \cup {thread[t].at = "write" : t \in Threads} : CutShort(cut)
    /\ UNCHANGED <<sent, queue, deletes, used, harmed>>

Next ==
    \/ \E m \in Msgs : Arrive(m) \/ ServerDeletes(m) \/ DeleteLost(m) \/ DecryptPushed(m)
    \/ \E m \in Own : SaveSent(m)
    \/ AnswerLost \/ Poll \/ OnMessages \/ Crash
    \/ \E t \in Threads : Step(t)

Spec == Init /\ [][Next]_vars

----------------------------------------------------------------------------
Entries == [All -> 0 .. MaxEntries]

Doing == [at : {"next", "read", "truncate", "write", "delete"}, msg : SUBSET All,
          todo : SUBSET Msgs, seen : Entries]

TypeOK ==
    /\ queue \subseteq sent /\ sent \subseteq Msgs
    /\ answers \subseteq SUBSET Msgs
    /\ deletes \subseteq All /\ used \subseteq Msgs \ Bad
    /\ history \in Entries /\ damaged \in BOOLEAN /\ harmed \subseteq All
    /\ thread \in [Threads -> Doing]

(* A thread is about to write an entry for m.                              *)
InHand(m) ==
    \E t \in Threads :
        \/ m \in thread[t].msg /\ thread[t].at \in {"read", "truncate", "write"}
        \/ thread[t].seen[m] > 0 /\ thread[t].at = "write"

(* However often a message is polled and pushed, and wherever the process  *)
(* dies, the history never shows the text of a message twice.              *)
StoredOnce == \A m \in Msgs \ Bad : history[m] <= 1

(* The server loses its copy of a message only after the message is in the *)
(* history, or after reading or writing the history failed for it.         *)
DeletedIsStored ==
    \A m \in sent \ queue : history[m] > 0 \/ InHand(m) \/ m \in harmed

(* "Received messages are decoded, stored in device local storage": a      *)
(* message whose keys are used up, and which can therefore never be read   *)
(* again, is in the history.                                               *)
DecryptedIsStored == \A m \in used : history[m] > 0 \/ InHand(m)

(* The same, unless reading or writing the history failed for the message, *)
(* or for the file that had it.                                            *)
DecryptedIsKept == \A m \in used : history[m] > 0 \/ InHand(m) \/ m \in harmed

(* A message on the server gets into the history if the app keeps polling; *)
(* unless the history cannot be read or written, or a message before it    *)
(* cannot be parsed, which then holds up all that follow.                  *)
EventuallyStored ==
    \A m \in Msgs :
        m \in queue ~> \/ history[m] > 0
                       \/ m \in harmed
                       \/ \E b \in Broken \cap queue : b <= m

=============================================================================
