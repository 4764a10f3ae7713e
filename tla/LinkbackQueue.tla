---------------------------- MODULE LinkbackQueue ----------------------------
(***************************************************************************)
(* linkback_todo_queue as app_linkback.c keeps it: a singly linked list    *)
(* with a head and a tail pointer over a pool of LINKBACK_NODE_ITEM_NUM    *)
(* items that are never given back to the heap.  An item is the pair of a  *)
(* used mark and a next pointer; pointers are indices of the pool and 0 is *)
(* NULL.                                                                   *)
(*                                                                         *)
(* The list functions are operators from a list to a list (a record of the *)
(* three variables), so that a function that calls several of them is one  *)
(* action.  A freed item keeps its check_bond_flag, which the next user of *)
(* the item may inherit; the rest of it is always written again before it  *)
(* is read and is blanked here.                                            *)
(***************************************************************************)
EXTENDS Integers, Sequences, FiniteSets

CONSTANTS Addrs, Profs, ItemNum, MaxTime, MaxLoad, CheckValues

VARIABLES
    item,   \* linkback_node_item
    head,   \* linkback_todo_queue.head
    tail    \* linkback_todo_queue.tail

vars == <<item, head, tail>>

Null  == 0
Items == 1 .. ItemNum

\* Where a pointer stands that begins at an item and follows the next pointers.
Walk(pool, first) ==
    LET next == [p \in Items \cup {Null} |-> IF p = Null THEN Null ELSE pool[p].next]
        at[k \in 1 .. ItemNum] == IF k = 1 THEN first ELSE next[at[k - 1]]
    IN  at

\* How many items it passes, and these items as a sequence.
Passed(pool, first) == Cardinality({k \in 1 .. ItemNum : Walk(pool, first)[k] # Null})

Follow(L) == [k \in 1 .. Passed(L.item, L.head) |-> Walk(L.item, L.head)[k]]

\* The items in a sequence, and those the list holds.
InSeq(c)   == {c[k] : k \in DOMAIN c}
Waiting(L) == InSeq(Follow(L))

List == [item |-> item, head |-> head, tail |-> tail]

Chain == Follow(List)

\* The abstract queue this list stands for.
Queue == [k \in 1 .. Passed(item, head) |-> item[Walk(item, head)[k]].node]

Abs == INSTANCE TodoQueue WITH queue <- Queue

Unused(check) == [used |-> FALSE, next |-> Null, node |-> [check |-> check]]

-----------------------------------------------------------------------------
(* The list functions.                                                     *)

\* linkback_todo_queue_malloc_node_item: the first free item of the pool.
Free(L)   == {i \in Items : ~L.item[i].used}
Malloc(L) == CHOOSE i \in Free(L) : \A j \in Free(L) : i <= j

\* linkback_todo_queue_find_node_item, through the next pointers.
Matches(L, a) == {k \in DOMAIN Follow(L) : L.item[Follow(L)[k]].node.addr = a}
Find(L, a)    == Follow(L)[CHOOSE k \in Matches(L, a) : \A m \in Matches(L, a) : k <= m]

\* An insert function that finds the address changes the node in place.
Update(L, n) ==
    LET p == Find(L, n.addr)
    IN  [L EXCEPT !.item[p].node = Abs!Merged(@, n)]

\* linkback_todo_queue_insert_normal_node: append at the tail; the item's
\* check_bond_flag is left as the last user of the item set it.
InsertNormal(L, n) ==
    LET p     == Malloc(L)
        node  == [n EXCEPT !.force = FALSE, !.check = L.item[p].node.check]
        taken == [L EXCEPT !.item[p] = [used |-> TRUE, next |-> Null, node |-> node],
                           !.tail = p]
    IN  IF Matches(L, n.addr) # {} THEN Update(L, n)
        ELSE IF Free(L) = {} THEN L
        ELSE IF L.head = Null THEN [taken EXCEPT !.head = p]
        ELSE [taken EXCEPT !.item[L.tail].next = p]

\* linkback_todo_queue_insert_force_node: push in front of the head.
InsertForce(L, n) ==
    LET p     == Malloc(L)
        node  == [n EXCEPT !.force = TRUE]
        taken == [L EXCEPT !.item[p] = [used |-> TRUE, next |-> L.head, node |-> node],
                           !.head = p]
    IN  IF Matches(L, n.addr) # {} THEN Update(L, [n EXCEPT !.force = TRUE])
        ELSE IF Free(L) = {} THEN L
        ELSE IF L.head = Null THEN [taken EXCEPT !.tail = p]
        ELSE taken

\* linkback_todo_queue_free_node_item on a set of items.
Release(L, S) == IF S = {} THEN L.item ELSE
    [i \in Items |-> IF i \in S
                     THEN Unused(L.item[i].node.check) ELSE L.item[i]]

\* Mutant: the item taken is not freed.
UnlinkLeaks(L) ==
    [item |-> L.item, head |-> L.item[L.head].next,
     tail |-> IF L.item[L.head].next = Null THEN Null ELSE L.tail]

\* linkback_todo_queue_take_first_node.
Unlink(L) ==
    [item |-> Release(L, {L.head}),
     head |-> L.item[L.head].next,
     tail |-> IF L.item[L.head].next = Null THEN Null ELSE L.tail]

\* The items in kept become the list, those in dropped are freed.
Place(kept, p) == CHOOSE k \in DOMAIN kept : kept[k] = p
After(kept, p) ==
    IF Place(kept, p) = Len(kept) THEN Null ELSE kept[Place(kept, p) + 1]

Relink(L, kept, dropped) ==
    LET linked == [i \in Items |->
                      IF i \in InSeq(kept) THEN [L.item[i] EXCEPT !.next = After(kept, i)]
                                           ELSE L.item[i]]
    IN  [item |-> Release([L EXCEPT !.item = linked], dropped),
         head |-> IF kept = << >> THEN Null ELSE kept[1],
         tail |-> IF kept = << >> THEN Null ELSE kept[Len(kept)]]

\* The two deletion loops (group members, nodes without time) have the same
\* shape: drop leading nodes by moving the head, then unlink inner ones, and
\* leave the tail at the last node kept.
Delete(L, dropped) ==
    LET chain == Follow(L)
    IN  Relink(L, Abs!Keep(chain, {k \in DOMAIN chain : chain[k] \notin dropped}), dropped)

DeleteGroup(L) == Delete(L, {p \in Waiting(L) : L.item[p].node.group})

\* linkback_todo_queue_delete_all_node.
DeleteAll(L) ==
    [item |-> Release(L, Waiting(L)), head |-> Null, tail |-> Null]

RemovePlan(L, a, profs) ==
    [L EXCEPT !.item = [i \in Items |->
        IF i \in Waiting(L) /\ L.item[i].node.addr = a
        THEN [L.item[i] EXCEPT !.node.plan = @ \ profs] ELSE L.item[i]]]

SetGroupRetry(L, t) ==
    [L EXCEPT !.item = [i \in Items |->
        IF i \in Waiting(L) /\ L.item[i].node.group
        THEN [L.item[i] EXCEPT !.node.retry = t] ELSE L.item[i]]]

\* linkback_todo_queue_sub_alone_member_retry_timeout.
SubAlone(L, t) ==
    LET charged == [L EXCEPT !.item = [i \in Items |->
                       IF i \in Waiting(L)
                       THEN [L.item[i] EXCEPT !.node = Abs!Charge(@, t)] ELSE L.item[i]]]
    IN  IF \E p \in Waiting(L) : Abs!Spends(L.item[p].node, t)
        THEN Delete(charged, {p \in Waiting(L) : charged.item[p].node.retry = 0})
        ELSE charged

\* Mutant: a node that used exactly its time goes back once more.
UseLeftTimeZero(L, n, used, isNormal) ==
    LET again == [n EXCEPT !.retry = n.retry - used, !.first = FALSE]
    IN  IF n.retry >= used THEN InsertNormal(SubAlone(L, used), again)
                           ELSE SubAlone(L, used)

\* linkback_active_node_use_left_time_insert_to_queue_again.
UseLeftTime(L, n, used, isNormal) ==
    LET charged == SubAlone(L, used)
        left    == n.retry - used
        again   == [n EXCEPT !.retry = left, !.first = FALSE, !.force = FALSE]
        others  == IF n.group THEN SetGroupRetry(charged, left) ELSE charged
    IN  IF n.retry > used
        THEN IF isNormal THEN InsertNormal(others, again)
                         ELSE InsertForce(others, again)
        ELSE IF n.group THEN DeleteGroup(charged) ELSE charged

\* One insert_normal_node for each of a sequence of nodes.
InsertAll(L, nodes) ==
    LET after[k \in 0 .. Len(nodes)] ==
            IF k = 0 THEN L ELSE InsertNormal(after[k - 1], nodes[k])
    IN  after[Len(nodes)]

\* linkback_load_bond_list: delete_all, one insert for each bond, and the
\* time doubled when there are several.
LoadBondList(L, bonds, t) ==
    LET num == Abs!Least({Len(bonds), MaxLoad})
        nodes == [i \in 1 .. num |->
                     [addr |-> bonds[i].addr, plan |-> bonds[i].plan, retry |-> t,
                      group |-> TRUE, first |-> TRUE, force |-> FALSE, check |-> FALSE]]
        loaded == InsertAll(DeleteAll(L), nodes)
    IN  IF num > 1 THEN SetGroupRetry(loaded, 2 * t) ELSE loaded

-----------------------------------------------------------------------------

Becomes(L) == item' = L.item /\ head' = L.head /\ tail' = L.tail

\* linkback_todo_queue_init zeroes the pool and the two pointers.
Zeroed == [item |-> [i \in Items |-> Unused(FALSE)],
           head |-> Null, tail |-> Null]

Init == item = Zeroed.item /\ head = Zeroed.head /\ tail = Zeroed.tail

QueueInit == Becomes(Zeroed)

InsertNormalNode == \E n \in Abs!Requests : Becomes(InsertNormal(List, n))

InsertForceNode == \E n \in Abs!Requests : Becomes(InsertForce(List, n))

TakeFirstNode == head # Null /\ Becomes(Unlink(List))

RemovePlanProfs == \E a \in Addrs, profs \in Abs!Plans : Becomes(RemovePlan(List, a, profs))

DeleteGroupMember == Becomes(DeleteGroup(List))

Reinsert ==
    \E n \in Abs!ActiveNodes, used \in Abs!Times, isNormal \in BOOLEAN :
        Becomes(UseLeftTime(List, n, used, isNormal))

Load ==
    \E bonds \in Abs!BondLists, t \in Abs!Times \ {0} :
        /\ Len(bonds) > 1 => 2 * t \in Abs!Times
        /\ Becomes(LoadBondList(List, bonds, t))

Next == QueueInit \/ InsertNormalNode \/ InsertForceNode \/ TakeFirstNode \/ RemovePlanProfs
            \/ DeleteGroupMember \/ Reinsert \/ Load

Spec == Init /\ [][Next]_vars

-----------------------------------------------------------------------------

TypeOK ==
    /\ \A i \in Items :
        /\ item[i].used \in BOOLEAN
        /\ item[i].next \in Items \cup {Null}
        /\ item[i].used => item[i].node \in Abs!Node
    /\ head \in Items \cup {Null}
    /\ tail \in Items \cup {Null}

\* The tail is the last item of the list, and the list ends there: the next
\* insert_normal_node writes through it.
TailIsLast ==
    IF head = Null THEN tail = Null
    ELSE tail = Chain[Len(Chain)] /\ item[tail].next = Null

\* The pool neither leaks nor dangles: an item is marked used exactly when
\* the next pointers reach it from the head, and the tail is the last of them.
\* A leaked item is lost until the next linkback_todo_queue_init, and eight of
\* them end all linkback.
PoolExact ==
    /\ TypeOK
    /\ {i \in Items : item[i].used} = InSeq(Chain)
    /\ TailIsLast

\* The list implements the sequence, call for call.
ImplementsTodoQueue == Abs!Spec

=============================================================================
