-------------------------------- MODULE Lists ------------------------------
(***************************************************************************)
(* What the C code does with its linked lists, on sequences: it searches   *)
(* them from the head and unlinks a node.                                  *)
(***************************************************************************)
EXTENDS Integers, Sequences, FiniteSetsExt

(* DL_FOREACH until a node is found: the first of the places that pass the *)
(* test, or 0.                                                             *)
FirstIndex(places) == IF places # {} THEN Min(places) ELSE 0

(* DL_DELETE: the list without its i-th element.                           *)
Without(s, i) == SubSeq(s, 1, i - 1) \o SubSeq(s, i + 1, Len(s))

=============================================================================
