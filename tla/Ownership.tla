------------------------------ MODULE Ownership ----------------------------
(***************************************************************************)
(* Who owns the session states of a record: reference counts               *)
(* (signal_type_ref, signal_type_unref) through everything session_record.c*)
(* and session_cipher.c do with them, with allocations that fail.          *)
(***************************************************************************)
EXTENDS Lists, Functions

CONSTANTS
    MaxPrevious,    \* ARCHIVED_STATES_MAX_LENGTH          (40)
    Objects         \* places for session states

ASSUME OwnershipAssumption ==
    /\ MaxPrevious \in Nat
    /\ Objects \subseteq Nat \ {0} /\ IsFiniteSet(Objects)

VARIABLES
    refs,      \* ref_count of every object; 0: there is none, or it is destroyed
    record,    \* the record that is in memory: its state and previous states
    leaked     \* objects that a failed deserialization left behind

ownershipVars == <<refs, record, leaked>>

NoRecord == [state |-> 0, previous |-> <<>>]

Free(h) == {o \in Objects : h[o] = 0}

(* session_state_create, session_state_copy: signal_type_init              *)
New(h) == LET o == Min(Free(h)) IN [object |-> o, heap |-> [h EXCEPT ![o] = 1]]

(* session_state_deserialize_protobuf, for n states                        *)
NewStates(h, n) ==
    LET made[i \in 0 .. n] ==
            IF i = 0 THEN [heap |-> h, objects |-> <<>>]
            ELSE LET x == New(made[i - 1].heap)
                 IN  [heap |-> x.heap, objects |-> Append(made[i - 1].objects, x.object)]
    IN  made[n]

(* signal_type_ref.  An object that was destroyed counts -1 from then on.  *)
Ref(h, o) == [h EXCEPT ![o] = IF @ > 0 THEN @ + 1 ELSE -1]

(* signal_type_unref                                                       *)
Unref(h, o) == IF o = 0 THEN h ELSE [h EXCEPT ![o] = IF @ > 0 THEN @ - 1 ELSE -1]

(* session_record_free_previous_states                                     *)
UnrefAll(h, s) ==
    LET released[i \in 0 .. Len(s)] == IF i = 0 THEN h ELSE Unref(released[i - 1], s[i])
    IN  released[Len(s)]

(* A record, and the heap it lives in.                                     *)
With(h, r) == [heap |-> h, record |-> r]

(* Mutant: the state that is replaced is not released.                     *)
SetStateKeeps(h, r, o) == With(Ref(h, o), [r EXCEPT !.state = o])

(* session_record_set_state                                                *)
SetState(h, r, o) == With(Ref(Unref(h, r.state), o), [r EXCEPT !.state = o])

(* session_record_get_previous_states_remove                               *)
PreviousRemove(h, r, i) ==
    With(Unref(h, r.previous[i]), [r EXCEPT !.previous = Without(@, i)])

(* session_record_promote_state; `room` is false when there is no memory   *)
(* for the node                                                            *)
PromoteState(h, r, o, room) ==
    LET previous == IF r.state = 0 THEN r.previous ELSE <<r.state>> \o r.previous
        kept == Min({MaxPrevious, Len(previous)})
    IN  IF r.state # 0 /\ ~room THEN With(h, r)
        ELSE With(UnrefAll(Ref(h, o), SubSeq(previous, kept + 1, Len(previous))),
                  [state |-> o, previous |-> SubSeq(previous, 1, kept)])

Becomes(w) == refs' = w.heap /\ record' = w.record

----------------------------------------------------------------------------
OwnershipInit ==
    /\ refs = [o \in Objects |-> 0]
    /\ record = NoRecord
    /\ leaked = {}

Loaded == record # NoRecord

(* session_record_deserialize with n previous states                       *)
Load(n) ==
    /\ ~Loaded /\ Cardinality(Free(refs)) > n
    /\ LET first == New(refs)
           set   == Unref(Ref(first.heap, first.object), first.object)
           all   == NewStates(set, n)
       IN  Becomes(With(all.heap, [state |-> first.object, previous |-> all.objects]))
    /\ UNCHANGED leaked

(* session_record_deserialize fails at the previous state after the n-th:  *)
(* the record and its state go, the nodes are freed, and the states in     *)
(* them are forgotten.                                                     *)
LoadFails(n) ==
    /\ ~Loaded /\ Cardinality(Free(refs)) > n
    /\ LET first == New(refs)
           made  == NewStates(first.heap, n)
       IN  /\ refs' = Unref(made.heap, first.object)
           /\ leaked' = leaked \cup Range(made.objects)
    /\ UNCHANGED record

(* session_cipher_decrypt_from_record_and_signal_message, when the current *)
(* state reads the message                                                 *)
DecryptCurrent ==
    /\ Loaded /\ Free(refs) # {}
    /\ LET copy == New(refs)
           set  == SetState(copy.heap, record, copy.object)
       IN  Becomes(With(Unref(set.heap, copy.object), set.record))
    /\ UNCHANGED leaked

(* ... and when the i-th of the previous states does, which is then        *)
(* promoted, or lost if there is no memory for the node                    *)
DecryptPrevious(i, room) ==
    /\ Loaded /\ Free(refs) # {} /\ i \in DOMAIN record.previous
    /\ LET copy    == New(refs)
           removed == PreviousRemove(copy.heap, record, i)
           p       == PromoteState(removed.heap, removed.record, copy.object, room)
       IN  Becomes(With(Unref(p.heap, copy.object), p.record))
    /\ UNCHANGED leaked

(* session_record_archive_current_state                                    *)
Archive(room) ==
    /\ Loaded /\ Free(refs) # {}
    /\ LET new == New(refs)
           p   == PromoteState(new.heap, record, new.object, room)
       IN  Becomes(With(Unref(p.heap, new.object), p.record))
    /\ UNCHANGED leaked

(* session_record_destroy                                                  *)
Destroy ==
    /\ Loaded
    /\ Becomes(With(UnrefAll(Unref(refs, record.state), record.previous), NoRecord))
    /\ UNCHANGED leaked

OwnershipNext ==
    \/ \E n \in 0 .. MaxPrevious : Load(n) \/ LoadFails(n)
    \/ DecryptCurrent \/ Destroy
    \/ \E room \in BOOLEAN : Archive(room) \/ \E i \in 1 .. MaxPrevious : DecryptPrevious(i, room)

OwnershipSpec == OwnershipInit /\ [][OwnershipNext]_ownershipVars

----------------------------------------------------------------------------
(* Every state has exactly the references that the record in memory holds: *)
(* none is destroyed that the record still uses, and none is left when the *)
(* record is gone, except for those of a failed deserialization.           *)
CountsExact ==
    \A o \in Objects :
        refs[o] = (IF record.state = o THEN 1 ELSE 0)
                  + Cardinality({i \in DOMAIN record.previous : record.previous[i] = o})
                  + (IF o \in leaked THEN 1 ELSE 0)

=============================================================================
