------------------------------- MODULE MCPoll ------------------------------
(***************************************************************************)
(* What must happen in the end: `mode` chooses between                     *)
(*   poll       Receive, with polling alone and without crashes,           *)
(*   android    Send, two calls and three registrations of the contact,    *)
(*   ios        the same on the other platform.                            *)
(***************************************************************************)
EXTENDS Receive, Send

VARIABLE mode

IOS == INSTANCE Send WITH IsAndroid <- ~IsAndroid

pollVars == <<mode, vars, sendVars>>

MCInit == mode \in {"poll", "android", "ios"} /\ Init /\ SendInit

Receiving(step) == mode = "poll" /\ step /\ UNCHANGED <<mode, sendVars>>

Sending(android, ios) ==
    /\ \/ mode = "android" /\ android
       \/ mode = "ios" /\ ios
    /\ UNCHANGED <<mode, vars>>

MCNext == Receiving(Next) \/ Sending(SendNext, IOS!SendNext)

(* For Receive, the app keeps polling, not every answer is lost, and       *)
(* threads run.  For Send, the main thread runs the handlers, and a        *)
(* request that is not answered times out.                                 *)
FairSpec ==
    /\ MCInit /\ [][MCNext]_pollVars
    /\ WF_pollVars(Receiving(Poll)) /\ SF_pollVars(Receiving(OnMessages))
    /\ \A t \in Threads : WF_pollVars(Receiving(Step(t)))
    /\ \A m \in Calls : WF_pollVars(Sending(Handle(m), IOS!Handle(m)))

=============================================================================
