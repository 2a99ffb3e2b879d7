------------------------------ MODULE KeyFormat ----------------------------
(***************************************************************************)
(* curve.c: the two forms of a key in a message or in a store.  A public   *)
(* key is a type byte and the key (32 bytes, here one that tells keys      *)
(* apart), a private key is the key alone.                                 *)
(***************************************************************************)
EXTENDS Integers, Sequences

DjbType == 5
DjbKeyLen == 1    \* DJB_KEY_LEN    (32)

(* ec_public_key_serialize                                                 *)
EncodePoint(k) == <<DjbType, k>>

(* curve_decode_point: at most one key                                     *)
DecodePoint(b) == IF Len(b) = DjbKeyLen + 1 /\ b[1] = DjbType THEN <<b[2]>> ELSE <<>>

(* ec_private_key_serialize                                                *)
EncodePrivate(k) == <<k>>

(* curve_decode_private_point: at most one key                             *)
DecodePrivate(b) == IF Len(b) = DjbKeyLen THEN <<b[1]>> ELSE <<>>

(* Key pair number k                                                       *)
Pair(k) == [public |-> k, private |-> k]

(* ec_key_pair_create of two decoded keys, as all readers of a pair do: at *)
(* most one pair                                                           *)
DecodePair(public, private) ==
    IF <<>> \in {DecodePoint(public), DecodePrivate(private)} THEN <<>>
    ELSE <<[public |-> DecodePoint(public)[1], private |-> DecodePrivate(private)[1]]>>

=============================================================================
