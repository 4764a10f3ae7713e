------------------------------ MODULE TodoQueue ------------------------------
(***************************************************************************)
(* The list of phones still to be called back (linkback_todo_queue of      *)
(* app_linkback.c), as its callers see it: a sequence of nodes, at most    *)
(* one for each address, served from the front.  The operators below are   *)
(* the list functions of app_linkback.c on that sequence; LinkbackQueue    *)
(* gives the same functions on the linked list over a pool of items that   *)
(* the code really keeps, and is proved to implement Spec of this module.  *)
(* BtPolicy uses the operators for its own queue.                          *)
(*                                                                         *)
(* Of T_LINKBACK_NODE the model keeps what later decisions read: is_special*)
(* and search_param only choose the UUID of the search, and gtiming        *)
(* belongs to the active node.                                             *)
(***************************************************************************)
EXTENDS Integers, Sequences, FiniteSets

CONSTANTS
    Addrs,          \* Bluetooth addresses of the phones
    Profs,          \* profile bits a node can plan to connect
    ItemNum,        \* LINKBACK_NODE_ITEM_NUM, the number of pool items
    MaxTime,        \* bound on retry_timeout, in units of elapsed time
    MaxLoad,        \* maximum_linkback_number: nodes loaded at power on
    CheckValues     \* values of check_bond_flag the callers ask for

ASSUME TodoQueueAssumption ==
    /\ ItemNum \in Nat \ {0}
    /\ MaxTime \in Nat \ {0}
    /\ MaxLoad \in Nat \ {0}
    /\ CheckValues \subseteq BOOLEAN

Times == 0 .. MaxTime

Node == [addr  : Addrs,
         plan  : SUBSET Profs,
         retry : Times,
         group : BOOLEAN,       \* is_group_member: loaded from the bond list
         first : BOOLEAN,       \* first_insert_flag
         force : BOOLEAN,       \* is_force
         check : BOOLEAN]       \* check_bond_flag

VARIABLE queue

-----------------------------------------------------------------------------
(* The list functions.                                                     *)

\* linkback_todo_queue_find_node_item: does a node of address a wait in q?
Waiting(q, a) == \E i \in 1 .. Len(q) : q[i].addr = a

\* insert_normal_node and insert_force_node on a node that waits already: a
\* group member never changes it, any other request is merged into it where
\* it stands.  Only a forced request sets is_force and check_bond_flag.
Merged(old, n) ==
    IF n.group THEN old
    ELSE [old EXCEPT !.plan  = @ \cup n.plan,
                     !.retry = n.retry,
                     !.group = FALSE,
                     !.first = n.first,
                     !.force = @ \/ n.force,
                     !.check = IF n.force THEN n.check ELSE @]

MergeInto(q, n) ==
    [i \in 1 .. Len(q) |-> IF q[i].addr = n.addr THEN Merged(q[i], n) ELSE q[i]]

\* linkback_todo_queue_insert_normal_node: a new node goes to the tail, and
\* is dropped without a word when no pool item is free.
InsertNormal(q, n) ==
    IF Waiting(q, n.addr) THEN MergeInto(q, n)
    ELSE IF Len(q) < ItemNum THEN Append(q, [n EXCEPT !.force = FALSE])
    ELSE q

\* Mutant: the force insert does not look for the address.
InsertForceNoFind(q, n) ==
    IF Len(q) < ItemNum THEN <<[n EXCEPT !.force = TRUE]>> \o q ELSE q

\* linkback_todo_queue_insert_force_node: a new node goes to the head.
InsertForce(q, n) ==
    IF Waiting(q, n.addr) THEN MergeInto(q, [n EXCEPT !.force = TRUE])
    ELSE IF Len(q) < ItemNum THEN <<[n EXCEPT !.force = TRUE]>> \o q
    ELSE q

\* linkback_todo_queue_remove_plan_profs.
RemovePlan(q, a, profs) ==
    [i \in 1 .. Len(q) |->
        IF q[i].addr = a THEN [q[i] EXCEPT !.plan = @ \ profs] ELSE q[i]]

\* The entries at the positions in K, in their order.
NthOf(K, k) == CHOOSE i \in K : Cardinality({j \in K : j <= i}) = k

Keep(q, K) == [k \in 1 .. Cardinality(K) |-> q[NthOf(K, k)]]

\* linkback_todo_queue_delete_group_member.
DeleteGroup(q) == Keep(q, {i \in 1 .. Len(q) : ~q[i].group})

\* linkback_todo_queue_set_group_member_retry_timeout.
SetGroupRetry(q, t) ==
    [i \in 1 .. Len(q) |->
        IF q[i].group THEN [q[i] EXCEPT !.retry = t] ELSE q[i]]

\* The first loop of linkback_todo_queue_sub_alone_member_retry_timeout: a
\* node outside the group pays for the time the active node used, unless it
\* was inserted while that node was being called.
Charge(n, t) ==
    IF n.group THEN n
    ELSE IF n.first THEN [n EXCEPT !.first = FALSE]
    ELSE [n EXCEPT !.retry = IF n.retry > t THEN n.retry - t ELSE 0]

\* zero_flag: some node spent its last time in this call.
Spends(n, t) == ~n.group /\ ~n.first /\ n.retry <= t

\* linkback_todo_queue_sub_alone_member_retry_timeout: when a node ran out of
\* time, every node without time left is deleted.
SubAlone(q, t) ==
    LET charged == [i \in 1 .. Len(q) |-> Charge(q[i], t)]
    IN  IF \E i \in 1 .. Len(q) : Spends(q[i], t)
        THEN Keep(charged, {i \in 1 .. Len(q) : charged[i].retry # 0})
        ELSE charged

\* Mutant: a group member keeps its time left to itself.
UseLeftTimeAlone(q, n, used, isNormal, stale) ==
    LET charged == SubAlone(q, used)
        again   == [n EXCEPT !.retry = n.retry - used, !.first = FALSE]
    IN  IF n.retry > used
        THEN IF isNormal THEN InsertNormal(charged, again) ELSE InsertForce(charged, again)
        ELSE IF n.group THEN DeleteGroup(charged) ELSE charged

\* linkback_active_node_use_left_time_insert_to_queue_again: the active node
\* n, called for the time used, goes back to the queue with what is left of
\* its time, to the tail or (isNormal = FALSE) to the head.  A group member
\* gives the whole group the time left, or takes the whole group with it.
\* insert_normal_node does not write check_bond_flag: stale is what the pool
\* item held.
UseLeftTime(q, n, used, isNormal, stale) ==
    LET charged == SubAlone(q, used)
        left    == n.retry - used
        again   == [n EXCEPT !.retry = left, !.first = FALSE, !.force = FALSE,
                             !.check = IF isNormal THEN stale ELSE @]
        others  == IF n.group THEN SetGroupRetry(charged, left) ELSE charged
    IN  IF n.retry > used
        THEN IF isNormal THEN InsertNormal(others, again)
                         ELSE InsertForce(others, again)
        ELSE IF n.group THEN DeleteGroup(charged) ELSE charged

\* linkback_load_bond_list: the bonded phones, last used first, become the
\* group; when there are several each gets twice the time.  stale[i] is what
\* the pool item of the i-th held.
Least(S) == CHOOSE x \in S : \A y \in S : x <= y

LoadBondList(bonds, t, stale) ==
    LET num  == Least({Len(bonds), MaxLoad})
        time == IF num > 1 THEN 2 * t ELSE t
    IN  [i \in 1 .. Least({num, ItemNum}) |->
            [addr |-> bonds[i].addr, plan |-> bonds[i].plan, retry |-> time,
             group |-> TRUE, first |-> TRUE, force |-> FALSE, check |-> stale[i]]]

-----------------------------------------------------------------------------
(* The queue under every sequence of calls app_bt_policy.c can make.       *)

\* get_profs_by_bond_flag may find nothing to connect, so a plan can be empty.
Plans  == SUBSET Profs
Checks == CheckValues \cup {FALSE}

\* A request as the callers of the insert functions build it: never a group
\* member, first_insert_flag set, and some time.
Requests == [addr : Addrs, plan : Plans, retry : Times \ {0}, group : {FALSE},
             first : {TRUE}, force : {FALSE}, check : Checks]

\* The active node when it goes back: it had time, and any plan is left.  Its
\* first_insert_flag and is_force are written again.
ActiveNodes == [addr : Addrs, plan : Plans, retry : Times \ {0},
                group : BOOLEAN, first : {FALSE}, force : {FALSE}, check : Checks]

\* What linkback_load_bond_list takes of the bond list: distinct phones, each
\* with its plan; it looks no further than MaxLoad.
BondLists ==
    {bonds \in UNION {[1 .. k -> [addr : Addrs, plan : Plans]] : k \in 0 .. MaxLoad} :
        \A i, j \in DOMAIN bonds : i # j => bonds[i].addr # bonds[j].addr}

Init == queue = << >>

QueueInit == queue' = << >>

Insert == \E n \in Requests : \/ queue' = InsertNormal(queue, n)
                              \/ queue' = InsertForce(queue, n)

TakeFirst == queue # << >> /\ queue' = Tail(queue)

RemovePlanProfs == \E a \in Addrs, profs \in Plans : queue' = RemovePlan(queue, a, profs)

DeleteGroupMember == queue' = DeleteGroup(queue)

Reinsert ==
    \E n \in ActiveNodes, used \in Times, isNormal \in BOOLEAN, stale \in Checks :
        queue' = UseLeftTime(queue, n, used, isNormal, stale)

Load ==
    \E bonds \in BondLists, t \in Times \ {0}, stale \in [1 .. ItemNum -> Checks] :
        /\ Len(bonds) > 1 => 2 * t \in Times
        /\ queue' = LoadBondList(bonds, t, stale)

Next == QueueInit \/ Insert \/ TakeFirst \/ RemovePlanProfs \/ DeleteGroupMember
            \/ Reinsert \/ Load

Spec == Init /\ [][Next]_queue

-----------------------------------------------------------------------------
(* What the queue promises.                                                *)

\* Every entry is a node and the pool bounds their number.
TypeOK == queue \in Seq(Node) /\ Len(queue) <= ItemNum

\* A phone waits at most once, so a phone is never called back twice for one
\* loss: the insert functions look for the address before they take an item.
AddressesUnique ==
    \A i, j \in 1 .. Len(queue) : queue[i].addr = queue[j].addr => i = j

\* A node whose time is spent is gone: linkback_run would start the linkback
\* timer with 0 for it.  Charging deletes it together with the charge, and no
\* other function lets a node reach 0.
NoSpentNode == \A i \in 1 .. Len(queue) : queue[i].retry > 0

\* Group members share one fate, so they share one time: the bond list gives
\* all of them the same, and a member that goes back hands its own time left
\* to the others.
GroupSharesTime ==
    \A i, j \in 1 .. Len(queue) :
        queue[i].group /\ queue[j].group => queue[i].retry = queue[j].retry

\* Both, after any charges, merges and returns of the active node: each phone
\* that waits has time to be called for, and the group the same time.
TimesRight == NoSpentNode /\ GroupSharesTime

=============================================================================
