---------------------------- MODULE GroupOutbox ----------------------------
(***************************************************************************)
(* What the aggregation of notifications promises: a notification that was *)
(* accepted waits until a batch is made of it, and is deleted only then.   *)
(* It may be in several batches.  A batch is made in one payload format    *)
(* and carries all its members that were written in that one.              *)
(***************************************************************************)
CONSTANT Requests

VARIABLES
    waiting,        \* accepted, and no batch made of it yet
    batched,        \* in the payload of a batch that was enqueued
    lost,           \* left out of every batch made of it
    deleted,        \* deleted with its aggregation set
    proto           \* those that were written as Protobuf

Init == waiting = {} /\ batched = {} /\ lost = {} /\ deleted = {} /\ proto = {}

Accept(r) ==
    /\ r \notin waiting \cup batched \cup lost
    /\ waiting' = waiting \cup {r}
    /\ proto' \in {proto, proto \cup {r}}
    /\ UNCHANGED <<batched, lost, deleted>>

Batch ==
    \E S \in SUBSET ((waiting \cup batched \cup lost) \ deleted) :
        /\ waiting' = waiting \ S
        /\ batched \subseteq batched' /\ batched' \subseteq batched \cup S
        /\ lost' = (lost \cup S) \ batched'
        /\ S \ proto \subseteq batched' \/ S \cap proto \subseteq batched'
        /\ UNCHANGED <<deleted, proto>>

Delete ==
    /\ deleted \subseteq deleted' /\ deleted' \subseteq batched \cup lost
    /\ UNCHANGED <<waiting, batched, lost, proto>>

Next == Delete \/ (\E r \in Requests : Accept(r)) \/ Batch

vars == <<waiting, batched, lost, deleted, proto>>

Spec == Init /\ [][Next]_vars
=============================================================================
