------------------------------ MODULE MCSession ----------------------------
(***************************************************************************)
(* Session within three sets of bounds, chosen by `mode`.                  *)
(*   replay   Two messages, three additions of a contact, deletions and a  *)
(*            new registration: what repeated messages may do.             *)
(*   crash    The same without a new registration, with a process that     *)
(*            ends in the middle of a decryption.                          *)
(*   order    Four messages over two sessions that cross, with a crash and *)
(*            without deletions: what the order of arrival may do.         *)
(***************************************************************************)
EXTENDS Session

VARIABLE mode

Modes == {"replay", "crash", "order"}

MCInit == Init /\ mode \in Modes

Within(limits) == Cardinality(net') <= limits.messages /\ adds' <= limits.adds
                  /\ resets' <= limits.resets /\ crashes' <= limits.crashes

Deleted == \E d \in Devices : dev'[d].session = NoSession /\ ContainsSession(d)

MCNext ==
    /\ Next
    /\ UNCHANGED mode
    /\ Within([messages |-> IF mode = "order" THEN 4 ELSE 2,
               adds     |-> IF mode = "order" THEN 2 ELSE 3,
               resets   |-> IF mode = "replay" THEN 1 ELSE 0,
               crashes  |-> IF mode = "replay" THEN 0 ELSE 1])
    /\ mode = "order" => ~Deleted

MCSpec == MCInit /\ [][MCNext]_<<vars, mode>>

----------------------------------------------------------------------------
(* Every message that has not been read yet can be read whenever it comes  *)
(* in, in any order, through crossing sessions, archiving and promotion,   *)
(* as long as nobody deletes the session or registers anew.  A crash may   *)
(* lose the message that was being decrypted, and no other one.            *)
UnreadIsReadableInOrder == mode = "order" => UnreadIsReadable

=============================================================================
