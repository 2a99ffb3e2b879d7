-------------------------------- MODULE Send -------------------------------
(***************************************************************************)
(* sendMessage of both clients: the time of the server (Android), the      *)
(* message encrypted and put on the server, and, if the server says that   *)
(* the session is for a device that was registered anew (staleDevices),    *)
(* new pre keys and another attempt.  Several calls run at once, for one   *)
(* contact; all handlers run on the main thread.                           *)
(***************************************************************************)
EXTENDS Integers, Sequences

CONSTANTS
    Calls,       \* calls of sendMessage
    IsAndroid,   \* the platform
    MaxRegs      \* bound on the registrations of the contact

VARIABLES
    phase,      \* what each call waits for
    body,       \* the registration that its request was encrypted for
    pending,    \* its request to the server, or the answer
    bundle,     \* the registration in the answer with pre keys; 0: none yet
    settled,    \* how its promise was settled, in order
    saved,      \* whose histories have an entry for it
    taken,      \* copies that the server took
    session,    \* the registration that the session is for; 0: no session
    peer,       \* the registration of the contact
    alive       \* the process runs

sendVars == <<phase, body, pending, bundle, settled, saved, taken, session, peer, alive>>

SendInit ==
    /\ phase = [m \in Calls |-> "idle"]
    /\ body = [m \in Calls |-> 0]
    /\ pending = [m \in Calls |-> "none"]
    /\ bundle = [m \in Calls |-> 0]
    /\ settled = [m \in Calls |-> <<>>]
    /\ saved = [m \in Calls |-> {}]
    /\ taken = [m \in Calls |-> 0]
    /\ session = 1 /\ peer = 1
    /\ alive = TRUE

Goes(m, p) == phase' = [phase EXCEPT ![m] = p]

Settle(m, o) == settled' = [settled EXCEPT ![m] = Append(@, o)] /\ Goes(m, "ended")

(* A request is made.  Without a network SignalServer.java returns and     *)
(* calls no handler; SignalServer.swift lets the request fail.             *)
Requests(m, p) == \E online \in BOOLEAN : Goes(m, IF online \/ ~IsAndroid THEN p ELSE "silent")

----------------------------------------------------------------------------
(* prepareApiBody with the session s, which throws if there is none, and   *)
(* the PUT of the message                                                  *)
Encrypt(m, s) ==
    IF s = 0
    THEN Settle(m, "rejected") /\ UNCHANGED <<body, pending>>
    ELSE /\ UNCHANGED settled
         /\ body' = [body EXCEPT ![m] = s]
         /\ \E online \in BOOLEAN :
               IF online \/ ~IsAndroid
               THEN Goes(m, "put") /\ pending' = [pending EXCEPT ![m] = "sent"]
               ELSE Goes(m, "silent") /\ UNCHANGED pending

(* sendMessage: Android asks for the time first                            *)
SendMessage(m) ==
    /\ alive
    /\ phase[m] \in {"idle", "retry"}
    /\ IF IsAndroid THEN Requests(m, "clock") /\ UNCHANGED <<body, pending, settled>>
       ELSE Encrypt(m, session)
    /\ UNCHANGED <<bundle, saved, taken, session, peer, alive>>

(* The answer to requestServerTimestamp, whatever its status.              *)
Timestamp(m) ==
    /\ alive /\ phase[m] = "clock"
    /\ Encrypt(m, session)
    /\ UNCHANGED <<bundle, saved, taken, session, peer, alive>>

(* Mutant: the attempt is repeated.                                        *)
RequestFailsRetry(m) ==
    /\ alive /\ phase[m] \in {"clock", "put"}
    /\ Goes(m, "retry")
    /\ UNCHANGED <<settled, body, pending, bundle, saved, taken, session, peer, alive>>

(* onFailure of a request: no answer, or one that came too late.           *)
RequestFails(m) ==
    /\ alive /\ phase[m] \in {"clock", "put"}
    /\ Settle(m, "rejected")
    /\ UNCHANGED <<body, pending, bundle, saved, taken, session, peer, alive>>

(* requestPreKeys, for a stale session: Android asks for the time first    *)
RequestPreKeys(m) ==
    /\ Requests(m, IF IsAndroid THEN "keysClock" ELSE "keys")
    /\ UNCHANGED <<settled, saved>>

(* saveSentMessage: iOS passes the user's own name where Android passes    *)
(* the contact's                                                           *)
SaveSentMessage(m) ==
    /\ saved' = [saved EXCEPT ![m] = @ \cup {IF IsAndroid THEN "contact" ELSE "user"}]
    /\ Settle(m, "ok")

(* onResponse of the PUT.  Any answer without staleDevices counts as sent; *)
(* iOS fails for 404 and does nothing for JSON that is no object.          *)
Response(m) ==
    /\ alive /\ phase[m] = "put" /\ pending[m] \in {"taken", "stale", "refused", "notfound", "odd"}
    /\ CASE pending[m] = "stale" -> RequestPreKeys(m)
         [] pending[m] = "notfound" /\ ~IsAndroid -> Settle(m, "rejected") /\ UNCHANGED saved
         [] pending[m] = "odd" /\ ~IsAndroid -> Goes(m, "silent") /\ UNCHANGED <<settled, saved>>
         [] OTHER -> SaveSentMessage(m)
    /\ UNCHANGED <<body, pending, bundle, taken, session, peer, alive>>

(* The time, for requestPreKeys.                                           *)
KeysTimestamp(m) ==
    /\ alive /\ phase[m] = "keysClock"
    /\ Requests(m, "keys")
    /\ UNCHANGED <<body, pending, bundle, settled, saved, taken, session, peer, alive>>

(* requestPreKeys fails: a request that failed, 404, no devices.  Android  *)
(* rejects a promise that is null, on the main thread; iOS does nothing    *)
(* for JSON that is no object.                                             *)
PreKeysFail(m) ==
    /\ alive /\ phase[m] \in {"keysClock", "keys"}
    /\ \/ IsAndroid /\ alive' = FALSE /\ UNCHANGED <<phase, settled>>
       \/ ~IsAndroid /\ Settle(m, "rejected") /\ UNCHANGED alive
       \/ ~IsAndroid /\ Goes(m, "silent") /\ UNCHANGED <<settled, alive>>
    /\ UNCHANGED <<body, pending, bundle, saved, taken, session, peer>>

(* sendMessage again: Android posts it to the main thread, iOS calls it    *)
(* with the session s that is there now                                    *)
Retry(m, s) ==
    IF IsAndroid THEN Goes(m, "retry") /\ UNCHANGED <<body, pending, settled>> ELSE Encrypt(m, s)

(* Mutant: the session that is there is kept.                              *)
PreKeysKept(m) ==
    /\ alive /\ phase[m] = "keys" /\ bundle[m] # 0
    /\ bundle' = [bundle EXCEPT ![m] = 0]
    /\ Retry(m, session)
    /\ UNCHANGED <<session, saved, taken, peer, alive>>

(* Mutant: requestPreKeys gets the promise of sendMessage and resolves it. *)
PreKeysResolve(m) ==
    /\ alive /\ phase[m] = "keys" /\ bundle[m] # 0
    /\ session' = bundle[m]
    /\ bundle' = [bundle EXCEPT ![m] = 0]
    /\ settled' = [settled EXCEPT ![m] = Append(@, "ok")]
    /\ Goes(m, "retry")
    /\ UNCHANGED <<body, pending, saved, taken, peer, alive>>

(* requestPreKeys with a bundle: the session is deleted and built anew     *)
PreKeys(m) ==
    /\ alive /\ phase[m] = "keys" /\ bundle[m] # 0
    /\ session' = bundle[m]
    /\ bundle' = [bundle EXCEPT ![m] = 0]
    /\ Retry(m, bundle[m])
    /\ UNCHANGED <<saved, taken, peer, alive>>

(* requestPreKeys with a bundle that cannot be used: the session is gone.  *)
BadPreKeys(m) ==
    /\ alive /\ phase[m] = "keys" /\ bundle[m] # 0
    /\ session' = 0
    /\ IF IsAndroid THEN Goes(m, "silent") /\ UNCHANGED settled ELSE Settle(m, "rejected")
    /\ UNCHANGED <<body, pending, bundle, saved, taken, peer, alive>>

----------------------------------------------------------------------------
(* The server takes a message for the current registration; it may refuse  *)
(* any, and take one whose sender has given up.                            *)
ServerTakes(m) ==
    /\ pending[m] = "sent"
    /\ IF body[m] = peer
       THEN pending' = [pending EXCEPT ![m] = "taken"] /\ taken' = [taken EXCEPT ![m] = @ + 1]
       ELSE pending' = [pending EXCEPT ![m] = "stale"] /\ UNCHANGED taken
    /\ UNCHANGED <<phase, body, bundle, settled, saved, session, peer, alive>>

ServerRefuses(m) ==
    /\ pending[m] = "sent"
    /\ \E r \in {"refused", "notfound", "odd"} : pending' = [pending EXCEPT ![m] = r]
    /\ UNCHANGED <<phase, body, bundle, settled, saved, taken, session, peer, alive>>

ServerPreKeys(m) ==
    /\ phase[m] = "keys" /\ bundle[m] = 0
    /\ bundle' = [bundle EXCEPT ![m] = peer]
    /\ UNCHANGED <<phase, body, pending, settled, saved, taken, session, peer, alive>>

(* The contact registers anew.                                             *)
PeerRegisters ==
    /\ peer < MaxRegs
    /\ peer' = peer + 1
    /\ UNCHANGED <<phase, body, pending, bundle, settled, saved, taken, session, alive>>

(* deleteContact                                                           *)
DeleteContact ==
    /\ alive /\ session # 0
    /\ session' = 0
    /\ UNCHANGED <<phase, body, pending, bundle, settled, saved, taken, peer, alive>>

(* What the main thread does for a call once it runs.                      *)
Handle(m) ==
    \/ (phase[m] = "retry" /\ SendMessage(m)) \/ Timestamp(m) \/ RequestFails(m) \/ Response(m)
    \/ KeysTimestamp(m) \/ PreKeysFail(m) \/ PreKeys(m) \/ BadPreKeys(m)

SendNext ==
    \/ \E m \in Calls : \/ SendMessage(m) \/ Timestamp(m) \/ RequestFails(m) \/ Response(m)
                        \/ KeysTimestamp(m) \/ PreKeysFail(m) \/ PreKeys(m) \/ BadPreKeys(m)
                        \/ ServerTakes(m) \/ ServerRefuses(m) \/ ServerPreKeys(m)
    \/ PeerRegisters \/ DeleteContact

SendSpec == SendInit /\ [][SendNext]_sendVars

----------------------------------------------------------------------------
Phases == {"idle", "clock", "put", "keysClock", "keys", "retry", "ended", "silent"}

Pendings == {"none", "sent", "taken", "stale", "refused", "notfound", "odd"}

SendTypes ==
    /\ phase \in [Calls -> Phases] /\ pending \in [Calls -> Pendings]
    /\ body \in [Calls -> Nat] /\ bundle \in [Calls -> Nat]
    /\ settled \in [Calls -> Seq({"ok", "rejected"})]
    /\ saved \in [Calls -> SUBSET {"contact", "user"}] /\ taken \in [Calls -> Nat]
    /\ session \in Nat /\ peer \in Nat /\ alive \in BOOLEAN

(* The promise of sendMessage is settled at most once, however often the   *)
(* call is tried again and whatever happens to the attempts.               *)
SettledOnce == \A m \in Calls : Len(settled[m]) <= 1

(* The contact gets at most one copy: an attempt is repeated only if the   *)
(* server has not taken the one before it.                                 *)
TakenOnce == \A m \in Calls : taken[m] <= 1

(* "lastMessage contains object of last message from chat with this user,  *)
(* this can be either received or sent message": a message whose call was  *)
(* resolved is in the history of the chat with the contact.                *)
SentInHistory == \A m \in Calls : settled[m] = <<"ok">> => "contact" \in saved[m]

(* A call ends: its promise is settled, unless the request was made        *)
(* without a network, the bundle for the retry was no good or the answer   *)
(* no JSON object ("silent"), or the process ended with the null promise.  *)
EventuallySettled ==
    \A m \in Calls : phase[m] # "idle" ~> (settled[m] # <<>> \/ phase[m] = "silent" \/ ~alive)

=============================================================================
