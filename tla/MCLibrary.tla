------------------------------ MODULE MCLibrary ----------------------------
(***************************************************************************)
(* Parts of the library that do not share state, checked together: `mode`  *)
(* chooses between                                                         *)
(*   fingerprints   Fingerprints, with two keys per user,                  *)
(*   consistency    Consistency, with two devices,                         *)
(*   schedule       KeySchedule,                                           *)
(*   pool           Vpool, with a limit that is no multiple of the block   *)
(*                  size, and                                              *)
(*   ownership      Ownership.                                             *)
(***************************************************************************)
EXTENDS Vpool, Ownership, Consistency

CONSTANTS
    DigitBits, WordBits, LongBits, HashLen, HashIterations, IdentityKeys,    \* of Fingerprints
    Agreements, MaxDerived                                                   \* of KeySchedule

VARIABLES
    mode,
    owns, believes, version,                                        \* of Fingerprints
    hkdfVersion, rootKey, chainKey, groupKey, used, derived         \* of KeySchedule

F == INSTANCE Fingerprints
K == INSTANCE KeySchedule

fingerprintVars == <<owns, believes, version>>
scheduleVars    == <<hkdfVersion, rootKey, chainKey, groupKey, used, derived>>

NoFingerprints == owns = <<>> /\ believes = <<>> /\ version = 0

NoSchedule ==
    /\ hkdfVersion = 0 /\ rootKey = <<>> /\ chainKey = <<>> /\ groupKey = <<>>
    /\ used = <<>> /\ derived = 0

Init ==
    /\ ConsistencyInit /\ PoolInit /\ OwnershipInit
    /\ \/ mode = "fingerprints" /\ F!Init /\ NoSchedule
       \/ mode = "schedule" /\ K!Init /\ NoFingerprints
       \/ mode \in {"consistency", "pool", "ownership"} /\ NoFingerprints /\ NoSchedule

Next ==
    /\ UNCHANGED mode
    /\ \/ /\ mode = "fingerprints" /\ F!Next
          /\ UNCHANGED <<consistencyVars, scheduleVars, poolVars, ownershipVars>>
       \/ /\ mode = "consistency" /\ ConsistencyNext
          /\ UNCHANGED <<fingerprintVars, scheduleVars, poolVars, ownershipVars>>
       \/ /\ mode = "schedule" /\ K!Next
          /\ UNCHANGED <<fingerprintVars, consistencyVars, poolVars, ownershipVars>>
       \/ /\ mode = "pool" /\ PoolNext
          /\ UNCHANGED <<fingerprintVars, consistencyVars, scheduleVars, ownershipVars>>
       \/ /\ mode = "ownership" /\ OwnershipNext
          /\ UNCHANGED <<fingerprintVars, consistencyVars, scheduleVars, poolVars>>

Spec ==
    Init /\ [][Next]_<<mode, fingerprintVars, consistencyVars, scheduleVars, poolVars, ownershipVars>>

----------------------------------------------------------------------------
(* Both users see the same text exactly when each of them knows the keys   *)
(* the other one has, in whatever order they learned them.  Scanning says  *)
(* that the keys match exactly then, unless the versions differ, whoever   *)
(* scans.                                                                  *)
FingerprintsAgree == mode = "fingerprints" => F!TextsAgree /\ F!ScansAgree

(* Every length that is asked for is what comes out, so that none of the   *)
(* parts into which it is split is short; and a longer output begins with  *)
(* a shorter one.                                                          *)
ExpandsExactly == mode = "schedule" => K!ExpandsExactly

(* The keys that are used for something - root keys, chain keys, cipher    *)
(* keys, MAC keys, of the session and of a group - are all different, in   *)
(* every order of ratchet steps and messages.                              *)
KeysAreSeparate == mode = "schedule" => K!KeysAreSeparate

=============================================================================
