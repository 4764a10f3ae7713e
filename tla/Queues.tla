------------------------------- MODULE Queues -------------------------------
(* TodoQueue, the queue as its callers see it, and LinkbackQueue, the list *)
(* over the pool that implements it.  A behaviour uses the one or the      *)
(* other: plans and merging are looked at on the first, pointers and       *)
(* recycled items on the second, which has profiles and requests of its    *)
(* own so that each can be as rich as TLC can take.                        *)
EXTENDS TodoQueue

CONSTANTS PoolProfs, PoolChecks     \* Profs and CheckValues of the list

ASSUME QueuesAssumption == PoolChecks \subseteq BOOLEAN

VARIABLES item, head, tail

Pool == INSTANCE LinkbackQueue WITH Profs <- PoolProfs, CheckValues <- PoolChecks

QueuesInit == Init /\ Pool!Init

QueuesNext == \/ Pool!Init /\ Next /\ UNCHANGED <<item, head, tail>>
              \/ Init /\ Pool!Next /\ UNCHANGED queue

QueuesSpec == QueuesInit /\ [][QueuesNext]_<<queue, item, head, tail>>

\* The pool neither leaks nor dangles (LinkbackQueue).
PoolExact == Pool!PoolExact

\* The list implements the sequence, call for call (LinkbackQueue).
ImplementsTodoQueue == Pool!ImplementsTodoQueue
=============================================================================
