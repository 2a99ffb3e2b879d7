------------------------------- MODULE MCChain -----------------------------
(***************************************************************************)
(* Chains of message keys, checked together: `mode` chooses between        *)
(*   chain   ReceiverChain,                                                *)
(*   list    MessageKeyList, which implements it, and                      *)
(*   group   Group, with limits of its own.                                *)
(* The variables of the modules that are not chosen keep their values.     *)
(***************************************************************************)
EXTENDS MessageKeyList, Group

VARIABLE mode

MCInit ==
    /\ mode \in {"chain", "list", "group"}
    /\ Init /\ ListInit /\ GroupInit

MCNext ==
    /\ UNCHANGED mode
    /\ \/ mode = "chain" /\ Next /\ UNCHANGED <<listVars, groupVars>>
       \/ mode = "list" /\ ListNext /\ UNCHANGED <<vars, groupVars>>
       \/ mode = "group" /\ GroupNext /\ UNCHANGED <<vars, listVars>>

MCSpec == MCInit /\ [][MCNext]_<<mode, vars, listVars, groupVars>>

=============================================================================
