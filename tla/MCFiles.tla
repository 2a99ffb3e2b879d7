------------------------------ MODULE MCFiles -----------------------------
(***************************************************************************)
(* The files of the device: `part` chooses between                         *)
(*   android    Registration, with the pre keys file,                      *)
(*   ios        the same on the other platform,                            *)
(*   history    Receive, with the history file.                            *)
(***************************************************************************)
EXTENDS Registration, Receive

VARIABLE part

OnIos == INSTANCE Registration WITH Ios <- ~Ios

MCInit == part \in {"android", "ios", "history"} /\ RegInit /\ Init

MCNext ==
    /\ \/ part = "android" /\ RegNext /\ UNCHANGED vars
       \/ part = "ios" /\ OnIos!RegNext /\ UNCHANGED vars
       \/ part = "history" /\ Next /\ UNCHANGED regVars
    /\ UNCHANGED part

MCSpec == MCInit /\ [][MCNext]_<<part, regVars, vars>>

(* What follows a disturbance is left to the proof of FetchedOnce, which   *)
(* is about any number of calls: PublishedStored says nothing about it.    *)
Undisturbed == ~disturbed

=============================================================================
