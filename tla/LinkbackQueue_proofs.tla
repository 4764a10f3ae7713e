------------------------ MODULE LinkbackQueue_proofs ------------------------
(***************************************************************************)
(* The linked list of app_linkback.c over its pool of items implements the *)
(* sequence of TodoQueue, and the pool neither leaks nor dangles, whatever *)
(* its size.  The invariant is that the items reached from the head are    *)
(* some sequence c without repetitions, that exactly they are used, and    *)
(* that their addresses differ: Holds(L, c).  Each list function is shown  *)
(* to lead from Holds(L, c) to Holds of another sequence, and to do to the *)
(* nodes of c what the operator of TodoQueue does.  The walk through the   *)
(* next pointers and the loading loop are recursive functions: that they   *)
(* are well defined follows from the least position where they would not   *)
(* be.                                                                     *)
(***************************************************************************)
EXTENDS Queues, FiniteSetTheorems, FunctionTheorems, WellFoundedInduction, TLAPS

\* A node in an item, an item that is free and one that is used.
Entry == [addr : Addrs, plan : Pool!Abs!Plans, retry : Pool!Abs!Times, group : BOOLEAN,
          first : BOOLEAN, force : BOOLEAN, check : Pool!Abs!Checks]
FreeItem == {Pool!Unused(check) : check \in Pool!Abs!Checks}
UsedItem == [used : {TRUE}, next : Pool!Items \cup {Pool!Null}, node : Entry]

\* The items of c, in this order, are the list L.
Chained(L, c) ==
    /\ DOMAIN L = {"item", "head", "tail"}
    /\ L.item \in [Pool!Items -> FreeItem \cup UsedItem]
    /\ c \in Seq(Pool!Items)
    /\ \A j, k \in 1 .. Len(c) : c[j] = c[k] => j = k
    /\ \A i \in Pool!Items : L.item[i].used <=> \E k \in 1 .. Len(c) : c[k] = i
    /\ L.head = IF Len(c) = 0 THEN Pool!Null ELSE c[1]
    /\ L.tail = IF Len(c) = 0 THEN Pool!Null ELSE c[Len(c)]
    /\ \A k \in 1 .. Len(c) : L.item[c[k]].next = IF k = Len(c) THEN Pool!Null ELSE c[k + 1]

Nodes(L, c) == [k \in 1 .. Len(c) |-> L.item[c[k]].node]

\* No two items of the list have the same address.
Distinct(L, c) ==
    \A j, k \in 1 .. Len(c) : L.item[c[j]].node.addr = L.item[c[k]].node.addr => j = k

\* L is the list of c, no address twice.
Holds(L, c) == Chained(L, c) /\ Distinct(L, c)

-----------------------------------------------------------------------------
(* The natural numbers.                                                    *)

\* A set of naturals with a member has a least one.
LEMMA LeastMember ==
    ASSUME NEW T, T \subseteq Nat, T # {}
    PROVE  \E x \in T : \A y \in T : x <= y
<1> DEFINE R == OpToRel(<, Nat)
<1>1. PICK x \in T : \A y \in T : ~(<<y, x>> \in R)
  <2>1. IsWellFoundedOn(R, Nat)
    BY NatLessThanWellFounded
  <2> HIDE DEF R
  <2> QED
    BY <2>1, WFMin
<1>2. \A y, z \in Nat : y < z => <<y, z>> \in R
  BY DEF OpToRel
<1> HIDE DEF R
<1>3. ASSUME NEW y \in T PROVE x <= y
  <2>1. x \in Nat /\ y \in Nat
    OBVIOUS
  <2>2. ~(y < x)
    BY <1>1, <1>2, <2>1
  <2> QED
    BY <2>1, <2>2
<1> QED
  BY <1>3

\* Induction: T is the set of those for which it holds.
LEMMA SetInduction ==
    ASSUME NEW T, NEW n \in Nat, 0 \in T, \A k \in 0 .. n - 1 : k \in T => k + 1 \in T
    PROVE  0 .. n \subseteq T
<1> SUFFICES ASSUME NEW j \in 0 .. n, j \notin T PROVE FALSE
  OBVIOUS
<1> DEFINE S == {k \in 0 .. n : k \notin T}
<1>1. PICK x \in S : \A y \in S : x <= y
  <2>1. S \subseteq Nat /\ S # {}
    OBVIOUS
  <2> HIDE DEF S
  <2> QED
    BY <2>1, LeastMember
<1>2. x # 0 /\ x \in 0 .. n
  OBVIOUS
<1>3. x - 1 \in 0 .. n - 1 /\ x - 1 \in T
  BY <1>1, <1>2
<1>4. (x - 1) + 1 \in T
  BY <1>3
<1> QED
  BY <1>2, <1>4

\* Sequences with one more.
LEMMA AppendIs ==
    ASSUME NEW S, NEW s \in Seq(S), NEW x \in S
    PROVE  /\ Append(s, x) \in Seq(S) /\ Len(Append(s, x)) = Len(s) + 1 /\ Len(s) \in Nat
           /\ Append(s, x)[Len(s) + 1] = x
           /\ \A k \in 1 .. Len(s) : Append(s, x)[k] = s[k]
           /\ \A k \in 1 .. Len(s) + 1 : k \in 1 .. Len(s) \/ k = Len(s) + 1
OBVIOUS

\* A sequence with one more entry in front.
LEMMA PushIs ==
    ASSUME NEW S, NEW s \in Seq(S), NEW x \in S
    PROVE  /\ <<x>> \o s \in Seq(S) /\ Len(<<x>> \o s) = Len(s) + 1 /\ Len(s) \in Nat
           /\ (<<x>> \o s)[1] = x
           /\ \A k \in 1 .. Len(s) : (<<x>> \o s)[k + 1] = s[k]
           /\ \A k \in 1 .. Len(s) + 1 : k = 1 \/ (k - 1 \in 1 .. Len(s) /\ (k - 1) + 1 = k)
OBVIOUS

\* Sequences of one length with the same entries are equal.
LEMMA SameSeq ==
    ASSUME NEW S, NEW s \in Seq(S), NEW T, NEW t \in Seq(T), Len(s) = Len(t),
           \A k \in 1 .. Len(s) : s[k] = t[k]
    PROVE  s = t
<1>1. s = [k \in 1 .. Len(s) |-> s[k]] /\ t = [k \in 1 .. Len(t) |-> t[k]]
  OBVIOUS
<1> QED
  BY <1>1

-----------------------------------------------------------------------------
(* Reading the list.                                                       *)

\* The first n numbers are n.
LEMMA UpTo == ASSUME NEW n \in Nat PROVE IsFiniteSet(1 .. n) /\ Cardinality(1 .. n) = n
BY FS_Interval

\* The modules count alike.
LEMMA CardinalityIs ==
    \A S : Pool!Cardinality(S) = Cardinality(S) /\ Pool!Abs!Cardinality(S) = Cardinality(S)
BY DEF Pool!Cardinality, Pool!Abs!Cardinality, Cardinality

\* What the assumptions say of the parameters.
LEMMA Constants ==
    /\ ItemNum \in Nat /\ ItemNum > 0 /\ MaxTime \in Nat /\ MaxTime > 0
           /\ MaxLoad \in Nat /\ MaxLoad > 0 /\ Pool!Abs!Checks \subseteq BOOLEAN /\ FALSE \in Pool!Abs!Checks
           /\ Pool!Items \subseteq Nat \ {0} /\ IsFiniteSet(Pool!Items) /\ Cardinality(Pool!Items) = ItemNum
<1>1. ItemNum \in Nat /\ ItemNum > 0
  BY TodoQueueAssumption
<1>2. IsFiniteSet(1 .. ItemNum) /\ Cardinality(1 .. ItemNum) = ItemNum
  BY <1>1, UpTo
<1>3. MaxTime \in Nat /\ MaxTime > 0 /\ MaxLoad \in Nat /\ MaxLoad > 0
  BY TodoQueueAssumption
<1>4. Pool!Abs!Checks \subseteq BOOLEAN /\ FALSE \in Pool!Abs!Checks
  BY QueuesAssumption DEF Pool!Abs!Checks
<1>5. 1 .. ItemNum \subseteq Nat \ {0}
  BY <1>1
<1> QED
  BY <1>1, <1>2, <1>3, <1>4, <1>5 DEF Pool!Items

\* The fields of an item, free or used.
LEMMA ItemFacts ==
    ASSUME NEW e \in FreeItem \cup UsedItem
    PROVE  /\ e.used \in BOOLEAN /\ e.node.check \in Pool!Abs!Checks
           /\ e.next \in Pool!Items \cup {Pool!Null}
           /\ e.used => e \in UsedItem
           /\ ~e.used => e = Pool!Unused(e.node.check)
<1>1. CASE e \in FreeItem
  <2>1. PICK check \in Pool!Abs!Checks : e = Pool!Unused(check)
    BY <1>1 DEF FreeItem
  <2>2. e.used = FALSE /\ e.node.check = check /\ e.next = Pool!Null
    BY <2>1 DEF Pool!Unused
  <2> QED
    BY <2>1, <2>2
<1>2. CASE e \in UsedItem
  BY <1>2 DEF UsedItem, Entry
<1> QED
  BY <1>1, <1>2

\* What is read at once of a list.
LEMMA ListFacts ==
    ASSUME NEW L, NEW c, Chained(L, c)
    PROVE  /\ Len(c) \in Nat /\ DOMAIN c = 1 .. Len(c)
           /\ \A k \in 1 .. Len(c) : /\ c[k] \in Pool!Items /\ c[k] # Pool!Null
                                     /\ L.item[c[k]] \in UsedItem /\ L.item[c[k]].node \in Entry
           /\ L.head = Pool!Null <=> Len(c) = 0
           /\ Nodes(L, c) \in Seq(Entry) /\ Len(Nodes(L, c)) = Len(c)
           /\ \A k \in 1 .. Len(c) : Nodes(L, c)[k] = L.item[c[k]].node
<1>1. Len(c) \in Nat /\ DOMAIN c = 1 .. Len(c)
  BY DEF Chained
<1>2. ASSUME NEW k \in 1 .. Len(c)
      PROVE  c[k] \in Pool!Items /\ L.item[c[k]] \in UsedItem /\ L.item[c[k]].node \in Entry
  <2>1. c[k] \in Pool!Items
    BY DEF Chained
  <2>2. L.item[c[k]].used /\ L.item[c[k]] \in FreeItem \cup UsedItem
    BY <2>1 DEF Chained
  <2> QED
    BY <2>1, <2>2, ItemFacts DEF UsedItem
<1>3. \A i \in Pool!Items : i # Pool!Null
  BY Constants DEF Pool!Null
<1>4. L.head = Pool!Null <=> Len(c) = 0
  <2>1. CASE Len(c) = 0
    BY <2>1 DEF Chained
  <2>2. CASE Len(c) # 0
    <3>1. L.head = c[1]
      BY <2>2 DEF Chained
    <3>2. 1 \in 1 .. Len(c)
      <4> DEFINE n == Len(c)
      <4> HIDE DEF n
      <4>1. n \in Nat /\ n # 0 => 1 \in 1 .. n
        OBVIOUS
      <4> QED
        BY <1>1, <2>2, <4>1 DEF n
    <3> QED
      BY <1>2, <1>3, <2>2, <3>1, <3>2
  <2> QED
    BY <2>1, <2>2
<1>5. /\ Nodes(L, c) \in Seq(Entry) /\ Len(Nodes(L, c)) = Len(c)
      /\ \A k \in 1 .. Len(c) : Nodes(L, c)[k] = L.item[c[k]].node
  <2> DEFINE f == [k \in 1 .. Len(c) |-> L.item[c[k]].node]
  <2>1. f \in [1 .. Len(c) -> Entry]
    BY <1>2
  <2>2. f \in Seq(Entry) /\ Len(f) = Len(c)
    <3> HIDE DEF f
    <3> QED
      BY <1>1, <2>1
  <2> QED
    BY <2>2 DEF Nodes
<1> QED
  BY <1>1, <1>2, <1>3, <1>4, <1>5

\* The pool bounds the list, and is free of an item unless it is as long.
LEMMA PoolBounds ==
    ASSUME NEW L, NEW c, Chained(L, c)
    PROVE  Len(c) <= ItemNum /\ (Pool!Free(L) = {} <=> Len(c) = ItemNum)
<1> DEFINE n == Len(c)
           S == {c[k] : k \in 1 .. n}
<1>1. n \in Nat /\ \A k \in 1 .. n : c[k] \in Pool!Items
  BY ListFacts
<1>2. IsFiniteSet(1 .. n) /\ Cardinality(1 .. n) = n
  BY <1>1, UpTo
<1>3. IsFiniteSet(S) /\ Cardinality(S) = n
  <2> DEFINE f == [k \in 1 .. n |-> c[k]]
  <2>1. f \in Bijection(1 .. n, S)
    <3>1. f \in [1 .. n -> S] /\ \A j, k \in 1 .. n : f[j] = f[k] => j = k
      BY DEF Chained
    <3>2. f \in Injection(1 .. n, S)
      BY <3>1, Fun_IsInj
    <3>3. \A s \in S : \E k \in 1 .. n : f[k] = s
      OBVIOUS
    <3> HIDE DEF f, S
    <3>4. f \in Surjection(1 .. n, S)
      BY <3>1, <3>3, Fun_IsSurj
    <3> QED
      BY <3>2, <3>4 DEF Bijection
  <2>2. ExistsBijection(1 .. n, S)
    BY <2>1 DEF ExistsBijection
  <2> HIDE DEF S
  <2> QED
    BY <1>1, <1>2, <2>2, FS_Bijection
<1>4. S \subseteq Pool!Items
  BY <1>1
<1>5. Pool!Free(L) = Pool!Items \ S
  BY DEF Pool!Free, Chained
<1> HIDE DEF S
<1>6. n <= ItemNum /\ (n = ItemNum => S = Pool!Items)
  BY <1>3, <1>4, Constants, FS_Subset
<1>7. S = Pool!Items => n = ItemNum
  BY <1>3, Constants
<1> QED
  BY <1>4, <1>5, <1>6, <1>7

\* A pointer that begins at the head stands on one item of c after the other.
LEMMA WalkReads ==
    ASSUME NEW L, NEW c, Chained(L, c)
    PROVE  \A k \in 1 .. ItemNum : Pool!Walk(L.item, L.head)[k] = IF k <= Len(c) THEN c[k] ELSE Pool!Null
<1> DEFINE next == [p \in Pool!Items \cup {Pool!Null} |-> IF p = Pool!Null THEN Pool!Null ELSE L.item[p].next]
           step(f) == [k \in 1 .. ItemNum |-> IF k = 1 THEN L.head ELSE next[f[k - 1]]]
           g == [k \in 1 .. ItemNum |-> IF k <= Len(c) THEN c[k] ELSE Pool!Null]
           w == Pool!Walk(L.item, L.head)
<1>1. w = CHOOSE f : f = step(f)
  BY DEF Pool!Walk
<1>2. Len(c) \in Nat /\ ItemNum \in Nat /\ Len(c) <= ItemNum
  BY ListFacts, PoolBounds, Constants
<1>3. \A k \in 1 .. ItemNum : k = 1 \/ (k - 1 \in 1 .. ItemNum /\ k = (k - 1) + 1)
  BY <1>2
<1>4. g = step(g)
  <2>1. ASSUME NEW k \in 1 .. ItemNum PROVE g[k] = step(g)[k]
    <3>1. CASE k = 1
      <4>1. step(g)[k] = L.head
        BY <3>1
      <4>2. L.head = IF 1 <= Len(c) THEN c[1] ELSE Pool!Null
        BY <1>2, ListFacts DEF Chained
      <4> QED
        BY <3>1, <4>1, <4>2
    <3>2. CASE k # 1 /\ k - 1 <= Len(c)
      <4>1. k - 1 \in 1 .. Len(c) /\ k - 1 \in 1 .. ItemNum
        BY <1>2, <3>2
      <4>2. g[k - 1] = c[k - 1] /\ c[k - 1] # Pool!Null /\ c[k - 1] \in Pool!Items
        BY <4>1, ListFacts
      <4>3. step(g)[k] = L.item[c[k - 1]].next
        BY <3>2, <4>2
      <4>4. L.item[c[k - 1]].next = IF k - 1 = Len(c) THEN Pool!Null ELSE c[(k - 1) + 1]
        BY <4>1 DEF Chained
      <4> QED
        BY <1>2, <3>2, <4>3, <4>4
    <3>3. CASE k # 1 /\ ~(k - 1 <= Len(c))
      <4>1. k - 1 \in 1 .. ItemNum /\ ~(k <= Len(c))
        BY <1>2, <3>3
      <4>2. g[k - 1] = Pool!Null
        BY <3>3, <4>1
      <4> QED
        BY <3>3, <4>1, <4>2
    <3> QED
      BY <3>1, <3>2, <3>3
  <2> QED
    BY <2>1
<1>5. w = step(w)
  <2> HIDE DEF g, step, w
  <2> QED
    BY <1>1, <1>4
<1>6. \A k \in 0 .. ItemNum : k = 0 \/ w[k] = g[k]
  <2> DEFINE T == {k \in 0 .. ItemNum : k = 0 \/ w[k] = g[k]}
  <2>1. ASSUME NEW k \in 0 .. ItemNum - 1, k \in T PROVE k + 1 \in T
    <3>1. k + 1 \in 1 .. ItemNum /\ (k + 1) - 1 = k
      BY <1>2
    <3>2. w[k + 1] = step(w)[k + 1] /\ g[k + 1] = step(g)[k + 1]
      <4> HIDE DEF step, w, g
      <4> QED
        BY <1>4, <1>5
    <3>3. step(w)[k + 1] = step(g)[k + 1]
      <4> HIDE DEF w, g
      <4> QED
        BY <2>1, <3>1
    <3> QED
      BY <3>1, <3>2, <3>3
  <2>2. 0 \in T
    BY <1>2
  <2> HIDE DEF T
  <2>3. 0 .. ItemNum \subseteq T
    BY <1>2, <2>1, <2>2, SetInduction
  <2> QED
    BY <2>3 DEF T
<1>7. \A k \in 1 .. ItemNum : w[k] = g[k]
  <2>1. \A k \in 1 .. ItemNum : k \in 0 .. ItemNum /\ k # 0
    BY <1>2
  <2> HIDE DEF w, g
  <2> QED
    BY <1>6, <2>1
<1> QED
  BY <1>7

\* The nodes as the next pointers give them.
Spelled(L) ==
    [k \in 1 .. Pool!Passed(L.item, L.head) |-> L.item[Pool!Walk(L.item, L.head)[k]].node]

\* So c is what Follow reads, and its nodes are the queue.
LEMMA FollowIs ==
    ASSUME NEW L, NEW c, Chained(L, c)
    PROVE  Pool!Follow(L) = c /\ Spelled(L) = Nodes(L, c)
<1> DEFINE w == Pool!Walk(L.item, L.head)
           S == {j \in 1 .. ItemNum : w[j] # Pool!Null}
<1>1. Len(c) \in Nat /\ ItemNum \in Nat /\ Len(c) <= ItemNum /\ \A k \in 1 .. Len(c) : c[k] # Pool!Null
  BY ListFacts, PoolBounds, Constants
<1>2. \A k \in 1 .. ItemNum : w[k] = IF k <= Len(c) THEN c[k] ELSE Pool!Null
  BY WalkReads
<1>3. /\ Pool!Follow(L) = [k \in 1 .. Cardinality(S) |-> w[k]]
      /\ Spelled(L) = [k \in 1 .. Cardinality(S) |-> L.item[w[k]].node]
  <2>1. Pool!Passed(L.item, L.head) = Cardinality(S)
    BY CardinalityIs DEF Pool!Passed
  <2> HIDE DEF w, S
  <2> QED
    BY <2>1 DEF Pool!Follow, Spelled, w
<1> HIDE DEF w
<1>4. S = 1 .. Len(c)
  BY <1>1, <1>2
<1> HIDE DEF S
<1>5. Cardinality(S) = Len(c)
  <2>1. Cardinality(1 .. Len(c)) = Len(c)
    BY <1>1, UpTo
  <2> QED
    BY <1>4, <2>1
<1>6. Pool!Follow(L) = [k \in 1 .. Len(c) |-> c[k]]
  BY <1>1, <1>2, <1>3, <1>5
<1>7. c = [k \in 1 .. Len(c) |-> c[k]]
  BY DEF Chained
<1>8. Spelled(L) = Nodes(L, c)
  BY <1>1, <1>2, <1>3, <1>5 DEF Nodes
<1> QED
  BY <1>6, <1>7, <1>8

-----------------------------------------------------------------------------
(* The list functions on the list are those on the sequence of its nodes.  *)

\* The nodes may change while the pointers stay.
LEMMA MapItems ==
    ASSUME NEW L, NEW c, Chained(L, c), NEW M \in [Pool!Items -> FreeItem \cup UsedItem],
           \A i \in Pool!Items : M[i].used = L.item[i].used /\ M[i].next = L.item[i].next
    PROVE  Chained([L EXCEPT !.item = M], c)
<1> DEFINE R == [L EXCEPT !.item = M]
<1>1. DOMAIN R = {"item", "head", "tail"} /\ R.item = M /\ R.head = L.head /\ R.tail = L.tail
  BY DEF Chained
<1>2. \A k \in 1 .. Len(c) : c[k] \in Pool!Items
  BY ListFacts
<1> HIDE DEF R
<1>3. Chained(R, c)
  BY <1>1, <1>2 DEF Chained
<1> QED
  BY <1>3 DEF R

\* find_node_item finds the one node with the address.
LEMMA FindIs ==
    ASSUME NEW L, NEW c, Holds(L, c), NEW k \in 1 .. Len(c)
    PROVE  /\ Pool!Matches(L, L.item[c[k]].node.addr) # {}
           /\ Pool!Find(L, L.item[c[k]].node.addr) = c[k]
<1> DEFINE a == L.item[c[k]].node.addr
<1>1. Pool!Follow(L) = c /\ DOMAIN c = 1 .. Len(c) /\ Len(c) \in Nat
  BY FollowIs, ListFacts DEF Holds
<1>2. Pool!Matches(L, a) = {j \in 1 .. Len(c) : L.item[c[j]].node.addr = a}
  BY <1>1 DEF Pool!Matches
<1>3. Pool!Matches(L, a) = {k}
  BY <1>2 DEF Holds, Distinct
<1>4. (CHOOSE j \in Pool!Matches(L, a) : \A m \in Pool!Matches(L, a) : j <= m) = k
  BY <1>1, <1>3
<1> QED
  BY <1>1, <1>3, <1>4 DEF Pool!Find

\* An item of the list matches when the address waits in the queue, and only then.
LEMMA MatchesIs ==
    ASSUME NEW L, NEW c, Holds(L, c), NEW a
    PROVE  Pool!Matches(L, a) # {} <=> Pool!Abs!Waiting(Nodes(L, c), a)
<1>1. Pool!Follow(L) = c /\ DOMAIN c = 1 .. Len(c) /\ Len(c) \in Nat
  BY FollowIs, ListFacts DEF Holds
<1>2. Len(Nodes(L, c)) = Len(c) /\ \A k \in 1 .. Len(c) : Nodes(L, c)[k] = L.item[c[k]].node
  BY <1>1 DEF Nodes
<1> QED
  BY <1>1, <1>2 DEF Pool!Matches, Pool!Abs!Waiting

\* A request that is found is merged into the node where it stands.
LEMMA UpdateIs ==
    ASSUME NEW L, NEW c, Holds(L, c), NEW n \in Entry, Pool!Matches(L, n.addr) # {}
    PROVE  /\ Holds(Pool!Update(L, n), c)
           /\ Nodes(Pool!Update(L, n), c) = Pool!Abs!MergeInto(Nodes(L, c), n)
<1>1. /\ Pool!Follow(L) = c /\ DOMAIN c = 1 .. Len(c) /\ Len(c) \in Nat
      /\ \A j \in 1 .. Len(c) : c[j] \in Pool!Items /\ L.item[c[j]] \in UsedItem /\ L.item[c[j]].node \in Entry
  BY FollowIs, ListFacts DEF Holds
<1>2. PICK k \in 1 .. Len(c) : L.item[c[k]].node.addr = n.addr
  BY <1>1 DEF Pool!Matches
<1> DEFINE p == c[k]
           old == L.item[p].node
           e == [L.item[p] EXCEPT !.node = Pool!Abs!Merged(old, n)]
           M == [L.item EXCEPT ![p] = e]
<1>3. Pool!Find(L, n.addr) = p
  BY <1>2, FindIs
<1>4. p \in Pool!Items /\ L.item[p] \in UsedItem /\ old \in Entry /\ old.addr = n.addr
  BY <1>1, <1>2
<1>5. Pool!Abs!Merged(old, n) \in Entry /\ Pool!Abs!Merged(old, n).addr = n.addr
  <2> HIDE DEF old
  <2> QED
    BY <1>4 DEF Pool!Abs!Merged, Entry, Pool!Abs!Plans
<1>6. e \in UsedItem /\ e.used = L.item[p].used /\ e.next = L.item[p].next
                     /\ e.node = Pool!Abs!Merged(old, n)
  <2> HIDE DEF old, p
  <2> QED
    BY <1>4, <1>5 DEF UsedItem
<1>7. Pool!Update(L, n) = [L EXCEPT !.item = M]
  BY <1>3, <1>4 DEF Pool!Update, Holds, Chained
<1>8. L.item \in [Pool!Items -> FreeItem \cup UsedItem]
  BY DEF Holds, Chained
<1> HIDE DEF e, old
<1>9. M \in [Pool!Items -> FreeItem \cup UsedItem] /\ M[p] = e /\ \A i \in Pool!Items : i # p => M[i] = L.item[i]
  BY <1>4, <1>6, <1>8
<1> HIDE DEF p, M
<1>10. \A i \in Pool!Items : M[i].used = L.item[i].used /\ M[i].next = L.item[i].next
  BY <1>6, <1>9
<1>11. Chained(Pool!Update(L, n), c) /\ Pool!Update(L, n).item = M
  <2>1. Chained([L EXCEPT !.item = M], c)
    BY <1>9, <1>10, MapItems DEF Holds
  <2>2. [L EXCEPT !.item = M].item = M
    BY DEF Holds, Chained
  <2> QED
    BY <1>7, <2>1, <2>2
<1>12. \A j \in 1 .. Len(c) :
          M[c[j]].node = IF L.item[c[j]].node.addr = n.addr
                         THEN Pool!Abs!Merged(L.item[c[j]].node, n) ELSE L.item[c[j]].node
  <2> SUFFICES ASSUME NEW j \in 1 .. Len(c)
               PROVE  M[c[j]].node = IF L.item[c[j]].node.addr = n.addr
                                     THEN Pool!Abs!Merged(L.item[c[j]].node, n) ELSE L.item[c[j]].node
    OBVIOUS
  <2>1. CASE j = k
    BY <1>2, <1>6, <1>9, <2>1 DEF p, old
  <2>2. CASE j # k
    <3>1. c[j] # p /\ L.item[c[j]].node.addr # n.addr
      BY <1>2, <2>2 DEF p, Holds, Chained, Distinct
    <3> QED
      BY <1>1, <1>9, <3>1
  <2> QED
    BY <2>1, <2>2
<1>13. Distinct(Pool!Update(L, n), c)
  <2>1. \A j \in 1 .. Len(c) : M[c[j]].node.addr = L.item[c[j]].node.addr
    <3>1. \A j \in 1 .. Len(c) : c[j] # p => M[c[j]] = L.item[c[j]]
      BY <1>1, <1>9
    <3>2. M[p].node.addr = L.item[p].node.addr
      BY <1>4, <1>5, <1>6, <1>9 DEF old
    <3> QED
      BY <3>1, <3>2
  <2> QED
    BY <1>11, <2>1 DEF Distinct, Holds
<1>14. Nodes(Pool!Update(L, n), c) = Pool!Abs!MergeInto(Nodes(L, c), n)
  BY <1>1, <1>11, <1>12 DEF Nodes, Pool!Abs!MergeInto
<1> QED
  BY <1>11, <1>13, <1>14 DEF Holds

\* malloc_node_item takes an item that is free.
LEMMA MallocIs ==
    ASSUME NEW L, NEW c, Chained(L, c), Pool!Free(L) # {}
    PROVE  /\ Pool!Malloc(L) \in Pool!Items /\ ~L.item[Pool!Malloc(L)].used
           /\ L.item[Pool!Malloc(L)].node.check \in Pool!Abs!Checks
           /\ \A i \in Pool!Free(L) : Pool!Malloc(L) <= i
           /\ \A k \in 1 .. Len(c) : c[k] # Pool!Malloc(L)
<1>1. Pool!Free(L) \subseteq Nat
  BY Constants DEF Pool!Free
<1>2. Pool!Malloc(L) \in Pool!Free(L) /\ \A i \in Pool!Free(L) : Pool!Malloc(L) <= i
  <2>1. \E i \in Pool!Free(L) : \A j \in Pool!Free(L) : i <= j
    BY <1>1, LeastMember
  <2> QED
    BY <2>1 DEF Pool!Malloc
<1>3. Pool!Malloc(L) \in Pool!Items /\ ~L.item[Pool!Malloc(L)].used
  BY <1>2 DEF Pool!Free
<1>4. L.item[Pool!Malloc(L)] \in FreeItem \cup UsedItem
  BY <1>3 DEF Chained
<1>5. \A k \in 1 .. Len(c) : c[k] # Pool!Malloc(L)
  BY <1>3, ListFacts DEF Chained
<1> QED
  BY <1>2, <1>3, <1>4, <1>5, ItemFacts

\* insert_normal_node appends; the node has the check_bond_flag the item had.
LEMMA InsertNormalIs ==
    ASSUME NEW L, NEW c, Holds(L, c), NEW n \in Entry, ~n.force
    PROVE  \E d : \E stale \in Pool!Abs!Checks :
              /\ Holds(Pool!InsertNormal(L, n), d)
              /\ Nodes(Pool!InsertNormal(L, n), d) =
                    Pool!Abs!InsertNormal(Nodes(L, c), [n EXCEPT !.check = stale])
<1> DEFINE q == Nodes(L, c)
           same(s) == [n EXCEPT !.check = s]
<1>1. /\ Len(c) \in Nat /\ Len(q) = Len(c) /\ c \in Seq(Pool!Items) /\ q \in Seq(Entry)
      /\ \A k \in 1 .. Len(c) : /\ c[k] \in Pool!Items /\ L.item[c[k]] \in UsedItem
                                /\ L.item[c[k]].node \in Entry /\ q[k] = L.item[c[k]].node
      /\ L.head = Pool!Null <=> Len(c) = 0
  BY ListFacts DEF Holds, Chained
<1>2. \A s \in Pool!Abs!Checks : /\ same(s) \in Entry /\ same(s).addr = n.addr /\ same(s).check = s
                            /\ \A old : Pool!Abs!Merged(old, same(s)) = Pool!Abs!Merged(old, n)
  <2> TAKE s \in Pool!Abs!Checks
  <2>1. /\ same(s) \in Entry /\ same(s).addr = n.addr /\ same(s).check = s
        /\ same(s).group = n.group /\ same(s).plan = n.plan /\ same(s).retry = n.retry
        /\ same(s).first = n.first /\ same(s).force = n.force
    BY DEF Entry
  <2> HIDE DEF same
  <2> QED
    BY <2>1 DEF Pool!Abs!Merged
<1>3. \A s \in Pool!Abs!Checks : Pool!Abs!MergeInto(q, same(s)) = Pool!Abs!MergeInto(q, n)
  <2> HIDE DEF same
  <2> QED
    BY <1>2 DEF Pool!Abs!MergeInto
<1>4. \A s \in Pool!Abs!Checks : Pool!Abs!Waiting(q, same(s).addr) <=> Pool!Matches(L, n.addr) # {}
  <2> HIDE DEF same
  <2> QED
    BY <1>2, MatchesIs
<1>5. CASE Pool!Matches(L, n.addr) # {}
  <2>1. Pool!InsertNormal(L, n) = Pool!Update(L, n)
    BY <1>5 DEF Pool!InsertNormal
  <2>2. Pool!Abs!InsertNormal(q, same(FALSE)) = Pool!Abs!MergeInto(q, n)
    <3> HIDE DEF same
    <3> QED
      BY <1>3, <1>4, <1>5, Constants DEF Pool!Abs!InsertNormal
  <2>3. /\ Holds(Pool!InsertNormal(L, n), c)
        /\ Nodes(Pool!InsertNormal(L, n), c) = Pool!Abs!InsertNormal(q, same(FALSE))
    BY <1>5, <2>1, <2>2, UpdateIs
  <2> QED
    BY <2>3, Constants
<1>6. CASE Pool!Matches(L, n.addr) = {} /\ Pool!Free(L) = {}
  <2>1. Pool!InsertNormal(L, n) = L
    BY <1>6 DEF Pool!InsertNormal
  <2>2. ~(Len(q) < ItemNum)
    BY <1>1, <1>6, PoolBounds, Constants DEF Holds
  <2>3. Pool!Abs!InsertNormal(q, same(FALSE)) = q
    <3> HIDE DEF same, q
    <3> QED
      BY <1>4, <1>6, <2>2, Constants DEF Pool!Abs!InsertNormal
  <2> QED
    BY <2>1, <2>3, Constants
<1>7. CASE Pool!Matches(L, n.addr) = {} /\ Pool!Free(L) # {}
  <2> DEFINE p == Pool!Malloc(L)
             stale == L.item[p].node.check
             node == [n EXCEPT !.force = FALSE, !.check = stale]
             e == [used |-> TRUE, next |-> Pool!Null, node |-> node]
             M == [i \in Pool!Items |-> IF i = p THEN e
                                   ELSE IF Len(c) # 0 /\ i = L.tail THEN [L.item[i] EXCEPT !.next = p]
                                   ELSE L.item[i]]
             R == Pool!InsertNormal(L, n)
             d == Append(c, p)
  <2>1. p \in Pool!Items /\ ~L.item[p].used /\ stale \in Pool!Abs!Checks /\ \A k \in 1 .. Len(c) : c[k] # p
    BY <1>7, MallocIs DEF Holds
  <2>2. node \in Entry /\ node.addr = n.addr /\ e \in UsedItem /\ e.node = node /\ e.used /\ e.next = Pool!Null
    <3>1. node \in Entry /\ node.addr = n.addr
      <4> HIDE DEF stale
      <4> QED
        BY <2>1 DEF Entry
    <3> HIDE DEF node
    <3> QED
      BY <3>1 DEF UsedItem
  <2>3. L.item \in [Pool!Items -> FreeItem \cup UsedItem] /\ DOMAIN L = {"item", "head", "tail"}
    BY DEF Holds, Chained
  <2>4. Len(c) # 0 => L.tail \in Pool!Items /\ L.tail = c[Len(c)] /\ L.tail # p
    BY <1>1, <2>1 DEF Holds, Chained
  <2>5. DOMAIN R = {"item", "head", "tail"} /\ R.item = M /\ R.tail = p
            /\ R.head = IF Len(c) = 0 THEN p ELSE L.head
    <3> HIDE DEF node, p
    <3>2. CASE Len(c) = 0
      <4>1. R = [[L EXCEPT !.item[p] = e, !.tail = p] EXCEPT !.head = p]
        BY <1>1, <1>7, <3>2 DEF Pool!InsertNormal, p, node
      <4>2. M = [L.item EXCEPT ![p] = e]
        BY <2>1, <2>3, <3>2
      <4> HIDE DEF R, M, e
      <4> QED
        BY <2>3, <3>2, <4>1, <4>2
    <3>3. CASE Len(c) # 0
      <4>1. R = [[L EXCEPT !.item[p] = e, !.tail = p] EXCEPT !.item[L.tail].next = p]
        BY <1>1, <1>7, <3>3 DEF Pool!InsertNormal, p, node
      <4>2. M = [[L.item EXCEPT ![p] = e] EXCEPT ![L.tail].next = p]
        BY <2>1, <2>3, <2>4, <3>3
      <4> HIDE DEF R, M, e
      <4> QED
        BY <2>3, <3>3, <4>1, <4>2
    <3> QED
      BY <3>2, <3>3
  <2> HIDE DEF R, node, e, p
  <2>6. /\ M \in [Pool!Items -> FreeItem \cup UsedItem]
        /\ M[p] = e
        /\ \A k \in 1 .. Len(c) : M[c[k]].node = L.item[c[k]].node /\ M[c[k]].used
                   /\ M[c[k]].next = IF k = Len(c) THEN p ELSE L.item[c[k]].next
        /\ \A i \in Pool!Items : i # p => M[i].used = L.item[i].used
    <3>1. \A i \in Pool!Items : L.item[i] \in UsedItem =>
             LET f == [L.item[i] EXCEPT !.next = p]
             IN  f \in UsedItem /\ f.used = L.item[i].used /\ f.node = L.item[i].node /\ f.next = p
      BY <2>1 DEF UsedItem
    <3>2. Len(c) # 0 => L.item[L.tail] \in UsedItem
      BY <1>1, <2>4
    <3>3. M \in [Pool!Items -> FreeItem \cup UsedItem]
      BY <2>2, <2>3, <3>1, <3>2
    <3>4. \A k \in 1 .. Len(c) : c[k] = L.tail <=> k = Len(c)
      BY <1>1, <2>4 DEF Holds, Chained
    <3>5. \A k \in 1 .. Len(c) : L.item[c[k]].used
      BY <1>1 DEF UsedItem
    <3>6. M[p] = e
      BY <2>1
    <3>7. \A i \in Pool!Items : i # p =>
             M[i] = IF Len(c) # 0 /\ i = L.tail THEN [L.item[i] EXCEPT !.next = p] ELSE L.item[i]
      OBVIOUS
    <3> HIDE DEF M
    <3>8. ASSUME NEW k \in 1 .. Len(c)
          PROVE  M[c[k]].node = L.item[c[k]].node /\ M[c[k]].used
                   /\ M[c[k]].next = IF k = Len(c) THEN p ELSE L.item[c[k]].next
      <4>0. c[k] \in Pool!Items /\ c[k] # p /\ L.item[c[k]] \in UsedItem /\ L.item[c[k]].used
        BY <1>1, <2>1, <3>5
      <4>1. CASE k = Len(c)
        <5>1. c[k] = L.tail /\ Len(c) # 0
          BY <1>1, <3>4, <4>1
        <5>2. M[c[k]] = [L.item[c[k]] EXCEPT !.next = p]
          BY <3>7, <4>0, <5>1
        <5> QED
          BY <3>1, <4>0, <4>1, <5>2
      <4>2. CASE k # Len(c)
        <5>1. c[k] # L.tail
          BY <3>4, <4>2
        <5>2. M[c[k]] = L.item[c[k]]
          BY <3>7, <4>0, <5>1
        <5> QED
          BY <4>0, <4>2, <5>2
      <4> QED
        BY <4>1, <4>2
    <3>9. \A i \in Pool!Items : i # p => M[i].used = L.item[i].used
      BY <3>1, <3>2, <3>7
    <3> QED
      BY <3>3, <3>6, <3>8, <3>9
  <2> HIDE DEF M
  <2>7. /\ d \in Seq(Pool!Items) /\ Len(d) = Len(c) + 1 /\ d[Len(c) + 1] = p
        /\ \A k \in 1 .. Len(c) : d[k] = c[k]
        /\ \A k \in 1 .. Len(d) : k \in 1 .. Len(c) \/ k = Len(c) + 1
    BY <1>1, <2>1, AppendIs
  <2>8. Chained(R, d)
    <3> HIDE DEF d
    <3>1. \A j, k \in 1 .. Len(d) : d[j] = d[k] => j = k
      BY <1>1, <2>1, <2>7 DEF Holds, Chained
    <3>2. \A i \in Pool!Items : M[i].used <=> \E k \in 1 .. Len(d) : d[k] = i
      <4> SUFFICES ASSUME NEW i \in Pool!Items PROVE M[i].used <=> \E k \in 1 .. Len(d) : d[k] = i
        OBVIOUS
      <4>1. (\E k \in 1 .. Len(d) : d[k] = i) <=> i = p \/ \E k \in 1 .. Len(c) : c[k] = i
        BY <1>1, <2>7
      <4> QED
        BY <2>2, <2>6, <4>1 DEF Holds, Chained
    <3>3. R.head = d[1]
      BY <1>1, <2>5, <2>7 DEF Holds, Chained
    <3>4. \A k \in 1 .. Len(d) : M[d[k]].next = IF k = Len(d) THEN Pool!Null ELSE d[k + 1]
      <4> SUFFICES ASSUME NEW k \in 1 .. Len(d)
                   PROVE  M[d[k]].next = IF k = Len(d) THEN Pool!Null ELSE d[k + 1]
        OBVIOUS
      <4>1. CASE k = Len(c) + 1
        BY <1>1, <2>2, <2>6, <2>7, <4>1
      <4>2. CASE k \in 1 .. Len(c)
        <5>1. L.item[c[k]].next = IF k = Len(c) THEN Pool!Null ELSE c[k + 1]
          BY <4>2 DEF Holds, Chained
        <5>2. k # Len(d) /\ (k = Len(c) => d[k + 1] = p)
          BY <1>1, <2>7, <4>2
        <5>3. k # Len(c) => k + 1 \in 1 .. Len(c) /\ d[k + 1] = c[k + 1]
          BY <1>1, <2>7, <4>2
        <5> QED
          BY <2>6, <2>7, <4>2, <5>1, <5>2, <5>3
      <4> QED
        BY <2>7, <4>1, <4>2
    <3>5. R.tail = d[Len(d)]
      BY <2>5, <2>7
    <3> QED
      BY <2>5, <2>6, <2>7, <3>1, <3>2, <3>3, <3>4, <3>5 DEF Chained
  <2>9. Distinct(R, d)
    <3>1. \A k \in 1 .. Len(c) : L.item[c[k]].node.addr # n.addr
      <4>1. Pool!Follow(L) = c /\ DOMAIN c = 1 .. Len(c)
        BY FollowIs, ListFacts DEF Holds
      <4> QED
        BY <1>7, <4>1 DEF Pool!Matches
    <3>2. \A k \in 1 .. Len(c) : M[d[k]].node = L.item[c[k]].node
      BY <2>6, <2>7
    <3>3. M[d[Len(c) + 1]].node.addr = n.addr
      BY <2>2, <2>6, <2>7
    <3> HIDE DEF d
    <3> SUFFICES ASSUME NEW j \in 1 .. Len(d), NEW k \in 1 .. Len(d),
                        M[d[j]].node.addr = M[d[k]].node.addr
                 PROVE  j = k
      BY <2>5 DEF Distinct
    <3>4. CASE j \in 1 .. Len(c) /\ k \in 1 .. Len(c)
      BY <3>2, <3>4 DEF Distinct, Holds
    <3>5. CASE j \in 1 .. Len(c) /\ k = Len(c) + 1
      BY <3>1, <3>2, <3>3, <3>5
    <3>6. CASE j = Len(c) + 1 /\ k \in 1 .. Len(c)
      BY <3>1, <3>2, <3>3, <3>6
    <3> QED
      BY <2>7, <3>4, <3>5, <3>6
  <2>10. Nodes(R, d) = Append(q, node)
    <3>1. /\ Nodes(R, d) \in Seq(Entry) /\ Len(Nodes(R, d)) = Len(c) + 1
          /\ \A k \in 1 .. Len(c) + 1 : Nodes(R, d)[k] = M[d[k]].node
      <4> HIDE DEF d
      <4> QED
        BY <2>5, <2>7, <2>8, ListFacts
    <3>2. \A k \in 1 .. Len(c) : M[d[k]].node = q[k]
      BY <1>1, <2>6, <2>7
    <3>3. M[d[Len(c) + 1]].node = node
      BY <2>2, <2>6, <2>7
    <3> HIDE DEF q, d
    <3>4. /\ Append(q, node) \in Seq(Entry) /\ Len(Append(q, node)) = Len(c) + 1
          /\ \A k \in 1 .. Len(c) : Append(q, node)[k] = q[k]
          /\ Append(q, node)[Len(c) + 1] = node
      BY <1>1, <2>2, AppendIs
    <3>5. \A k \in 1 .. Len(c) + 1 : Nodes(R, d)[k] = Append(q, node)[k]
      BY <2>7, <3>1, <3>2, <3>3, <3>4
    <3> QED
      BY <3>1, <3>4, <3>5, SameSeq
  <2>11. Append(q, node) = Pool!Abs!InsertNormal(q, same(stale))
    <3>1. Len(q) < ItemNum
      BY <1>1, <1>7, PoolBounds, Constants DEF Holds
    <3>2. [same(stale) EXCEPT !.force = FALSE] = node
      BY DEF node, Entry
    <3> HIDE DEF same, q
    <3> QED
      BY <1>4, <1>7, <2>1, <3>1, <3>2 DEF Pool!Abs!InsertNormal
  <2> QED
    BY <2>1, <2>8, <2>9, <2>10, <2>11 DEF R, Holds
<1> QED
  BY <1>5, <1>6, <1>7

\* insert_force_node pushes in front of the head.
LEMMA InsertForceIs ==
    ASSUME NEW L, NEW c, Holds(L, c), NEW n \in Entry
    PROVE  \E d : /\ Holds(Pool!InsertForce(L, n), d)
                  /\ Nodes(Pool!InsertForce(L, n), d) = Pool!Abs!InsertForce(Nodes(L, c), n)
<1> DEFINE q == Nodes(L, c)
           node == [n EXCEPT !.force = TRUE]
           R == Pool!InsertForce(L, n)
<1>1. /\ Len(c) \in Nat /\ Len(q) = Len(c) /\ c \in Seq(Pool!Items) /\ q \in Seq(Entry)
      /\ \A k \in 1 .. Len(c) : /\ c[k] \in Pool!Items /\ L.item[c[k]] \in UsedItem
                                /\ L.item[c[k]].node \in Entry /\ q[k] = L.item[c[k]].node
      /\ L.head = Pool!Null <=> Len(c) = 0
  BY ListFacts DEF Holds, Chained
<1>2. node \in Entry /\ node.addr = n.addr
  BY DEF Entry
<1>3. Pool!Abs!Waiting(q, n.addr) <=> Pool!Matches(L, n.addr) # {}
  BY MatchesIs
<1>4. CASE Pool!Matches(L, n.addr) # {}
  <2>1. R = Pool!Update(L, node) /\ Pool!Abs!InsertForce(q, n) = Pool!Abs!MergeInto(q, node)
    BY <1>3, <1>4 DEF Pool!InsertForce, Pool!Abs!InsertForce
  <2>2. Holds(Pool!Update(L, node), c) /\ Nodes(Pool!Update(L, node), c) = Pool!Abs!MergeInto(q, node)
    <3> HIDE DEF node
    <3> QED
      BY <1>2, <1>4, UpdateIs
  <2> QED
    BY <2>1, <2>2
<1>5. CASE Pool!Matches(L, n.addr) = {} /\ Pool!Free(L) = {}
  <2>1. ~(Len(q) < ItemNum)
    BY <1>1, <1>5, PoolBounds, Constants DEF Holds
  <2> HIDE DEF q
  <2>2. R = L /\ Pool!Abs!InsertForce(q, n) = q
    BY <1>3, <1>5, <2>1 DEF Pool!InsertForce, Pool!Abs!InsertForce
  <2> QED
    BY <2>2 DEF q
<1>6. CASE Pool!Matches(L, n.addr) = {} /\ Pool!Free(L) # {}
  <2> DEFINE p == Pool!Malloc(L)
             e == [used |-> TRUE, next |-> L.head, node |-> node]
             M == [L.item EXCEPT ![p] = e]
             d == <<p>> \o c
  <2>1. p \in Pool!Items /\ ~L.item[p].used /\ \A k \in 1 .. Len(c) : c[k] # p
    BY <1>6, MallocIs DEF Holds
  <2>2. L.item \in [Pool!Items -> FreeItem \cup UsedItem] /\ DOMAIN L = {"item", "head", "tail"}
    BY DEF Holds, Chained
  <2>3. L.head \in Pool!Items \cup {Pool!Null} /\ (Len(c) # 0 => 1 \in 1 .. Len(c) /\ L.head = c[1])
    <3>1. CASE Len(c) = 0
      BY <1>1, <3>1
    <3>2. CASE Len(c) # 0
      <4>1. L.head = c[1]
        BY <3>2 DEF Holds, Chained
      <4>2. 1 \in 1 .. Len(c)
        <5> DEFINE m == Len(c)
        <5> HIDE DEF m
        <5>1. m \in Nat /\ m # 0 => 1 \in 1 .. m
          OBVIOUS
        <5> QED
          BY <1>1, <3>2, <5>1 DEF m
      <4> QED
        BY <1>1, <4>1, <4>2
    <3> QED
      BY <3>1, <3>2
  <2>4. e \in UsedItem /\ e.node = node /\ e.used /\ e.next = L.head
    <3> HIDE DEF node
    <3> QED
      BY <1>2, <2>3 DEF UsedItem
  <2>5. DOMAIN R = {"item", "head", "tail"} /\ R.item = M /\ R.head = p
            /\ R.tail = IF Len(c) = 0 THEN p ELSE L.tail
    <3> HIDE DEF node, p
    <3>1. CASE Len(c) = 0
      <4>1. R = [[L EXCEPT !.item[p] = e, !.head = p] EXCEPT !.tail = p]
        BY <1>1, <1>6, <3>1 DEF Pool!InsertForce, p, node
      <4> HIDE DEF R, e
      <4> QED
        BY <2>2, <3>1, <4>1
    <3>2. CASE Len(c) # 0
      <4>1. R = [L EXCEPT !.item[p] = e, !.head = p]
        BY <1>1, <1>6, <3>2 DEF Pool!InsertForce, p, node
      <4> HIDE DEF R, e
      <4> QED
        BY <2>2, <3>2, <4>1
    <3> QED
      BY <3>1, <3>2
  <2> HIDE DEF R, node, e, p
  <2>6. /\ M \in [Pool!Items -> FreeItem \cup UsedItem] /\ M[p] = e
        /\ \A i \in Pool!Items : i # p => M[i] = L.item[i]
    BY <2>1, <2>2, <2>4
  <2> HIDE DEF M
  <2>7. /\ d \in Seq(Pool!Items) /\ Len(d) = Len(c) + 1 /\ d[1] = p
        /\ \A k \in 1 .. Len(c) : d[k + 1] = c[k] /\ d[k + 1] # p /\ d[k + 1] \in Pool!Items
        /\ \A k \in 1 .. Len(d) : k = 1 \/ (k - 1 \in 1 .. Len(c) /\ (k - 1) + 1 = k)
    BY <1>1, <2>1, PushIs
  <2> HIDE DEF d
  <2>8. \A k \in 1 .. Len(d) : k = 1 \/ (k - 1 \in 1 .. Len(c) /\ d[k] = c[k - 1] /\ d[k] # p
                                          /\ M[d[k]] = L.item[c[k - 1]])
    <3> SUFFICES ASSUME NEW k \in 1 .. Len(d), k # 1
                 PROVE  k - 1 \in 1 .. Len(c) /\ d[k] = c[k - 1] /\ d[k] # p
                          /\ M[d[k]] = L.item[c[k - 1]]
      OBVIOUS
    <3> DEFINE j == k - 1
    <3>1. j \in 1 .. Len(c) /\ j + 1 = k
      BY <2>7
    <3> HIDE DEF j
    <3>2. d[k] = c[j] /\ d[k] # p /\ d[k] \in Pool!Items
      BY <2>7, <3>1
    <3> QED
      BY <2>6, <3>1, <3>2 DEF j
  <2>9. Chained(R, d)
    <3>1. ASSUME NEW j \in 1 .. Len(d), NEW k \in 1 .. Len(d), d[j] = d[k] PROVE j = k
      <4>1. CASE j = 1 \/ k = 1
        BY <2>7, <2>8, <3>1, <4>1
      <4>2. CASE j # 1 /\ k # 1
        <5>1. c[j - 1] = c[k - 1] /\ j - 1 \in 1 .. Len(c) /\ k - 1 \in 1 .. Len(c)
          BY <2>8, <3>1, <4>2
        <5>2. j - 1 = k - 1
          BY <5>1 DEF Holds, Chained
        <5> QED
          BY <5>2
      <4> QED
        BY <4>1, <4>2
    <3>2. ASSUME NEW i \in Pool!Items PROVE M[i].used <=> \E k \in 1 .. Len(d) : d[k] = i
      <4>1. (\E k \in 1 .. Len(d) : d[k] = i) <=> i = p \/ \E k \in 1 .. Len(c) : c[k] = i
        <5>1. 1 \in 1 .. Len(d) /\ \A k \in 1 .. Len(c) : k + 1 \in 1 .. Len(d)
          BY <1>1, <2>7
        <5>2. \A k \in 1 .. Len(d) : d[k] = i => i = p \/ \E j \in 1 .. Len(c) : c[j] = i
          <6> SUFFICES ASSUME NEW k \in 1 .. Len(d), d[k] = i, k # 1 PROVE \E j \in 1 .. Len(c) : c[j] = i
            BY <2>7
          <6> QED
            BY <2>8
        <5>3. \A j \in 1 .. Len(c) : c[j] = i => \E k \in 1 .. Len(d) : d[k] = i
          BY <2>7, <5>1
        <5> QED
          BY <2>7, <5>1, <5>2, <5>3
      <4> QED
        BY <2>4, <2>6, <4>1 DEF Holds, Chained
    <3>3. ASSUME NEW k \in 1 .. Len(d)
          PROVE  M[d[k]].next = IF k = Len(d) THEN Pool!Null ELSE d[k + 1]
      <4>1. CASE k = 1 /\ Len(c) = 0
        BY <1>1, <2>4, <2>6, <2>7, <4>1
      <4>2. CASE k = 1 /\ Len(c) # 0
        <5>1. M[d[k]].next = c[1] /\ d[1 + 1] = c[1]
          BY <2>3, <2>4, <2>6, <2>7, <4>2
        <5>2. k # Len(d)
          BY <1>1, <2>7, <4>2
        <5> QED
          BY <4>2, <5>1, <5>2
      <4>3. CASE k # 1
        <5> DEFINE j == k - 1
        <5>1. j \in 1 .. Len(c) /\ j + 1 = k /\ M[d[k]] = L.item[c[j]]
          BY <2>7, <2>8, <4>3
        <5> HIDE DEF j
        <5>2. L.item[c[j]].next = IF j = Len(c) THEN Pool!Null ELSE c[j + 1]
          BY <5>1 DEF Holds, Chained
        <5>3. j = Len(c) <=> k = Len(d)
          BY <1>1, <2>7, <5>1
        <5>4. j # Len(c) => k \in 1 .. Len(c)
          BY <1>1, <5>1
        <5>5. j # Len(c) => d[k + 1] = c[j + 1]
          BY <2>7, <5>1, <5>4
        <5> QED
          BY <5>1, <5>2, <5>3, <5>5
      <4> QED
        BY <4>1, <4>2, <4>3
    <3>4. R.tail = d[Len(d)] /\ Len(d) # 0
      <4>1. CASE Len(c) = 0
        BY <2>5, <2>7, <4>1
      <4>2. CASE Len(c) # 0
        <5>1. Len(c) \in 1 .. Len(c) /\ Len(c) + 1 # 0
          <6> DEFINE m == Len(c)
          <6> HIDE DEF m
          <6>1. m \in Nat /\ m # 0 => m \in 1 .. m /\ m + 1 # 0
            OBVIOUS
          <6> QED
            BY <1>1, <4>2, <6>1 DEF m
        <5>2. L.tail = c[Len(c)]
          BY <4>2 DEF Holds, Chained
        <5> QED
          BY <2>5, <2>7, <4>2, <5>1, <5>2
      <4> QED
        BY <4>1, <4>2
    <3> QED
      BY <2>5, <2>6, <2>7, <3>1, <3>2, <3>3, <3>4 DEF Chained
  <2>10. Distinct(R, d)
    <3>1. \A k \in 1 .. Len(c) : L.item[c[k]].node.addr # n.addr
      <4>1. Pool!Follow(L) = c /\ DOMAIN c = 1 .. Len(c)
        BY FollowIs, ListFacts DEF Holds
      <4> QED
        BY <1>6, <4>1 DEF Pool!Matches
    <3>2. M[d[1]].node.addr = n.addr
      BY <1>2, <2>4, <2>6, <2>7
    <3> SUFFICES ASSUME NEW j \in 1 .. Len(d), NEW k \in 1 .. Len(d),
                        M[d[j]].node.addr = M[d[k]].node.addr
                 PROVE  j = k
      BY <2>5 DEF Distinct
    <3>3. CASE j = 1 \/ k = 1
      <4>1. \A m \in 1 .. Len(d) : m # 1 => M[d[m]].node.addr # n.addr
        BY <2>8, <3>1
      <4> QED
        BY <3>2, <3>3, <4>1
    <3>4. CASE j # 1 /\ k # 1
      <4> DEFINE x == j - 1
                 y == k - 1
      <4>1. /\ x \in 1 .. Len(c) /\ y \in 1 .. Len(c)
            /\ L.item[c[x]].node.addr = L.item[c[y]].node.addr
        BY <2>8, <3>4
      <4> HIDE DEF x, y
      <4>2. x = y
        BY <4>1 DEF Holds, Distinct
      <4> QED
        BY <4>2 DEF x, y
    <3> QED
      BY <3>3, <3>4
  <2>11. Nodes(R, d) = <<node>> \o q
    <3>1. /\ Nodes(R, d) \in Seq(Entry) /\ Len(Nodes(R, d)) = Len(c) + 1
          /\ \A k \in 1 .. Len(c) + 1 : Nodes(R, d)[k] = M[d[k]].node
      BY <2>5, <2>7, <2>9, ListFacts
    <3> DEFINE r == <<node>> \o q
    <3> HIDE DEF q
    <3>2. /\ r \in Seq(Entry) /\ Len(r) = Len(c) + 1 /\ r[1] = node
          /\ \A k \in 1 .. Len(c) : r[k + 1] = q[k]
      BY <1>1, <1>2, PushIs
    <3> HIDE DEF r
    <3>3. ASSUME NEW k \in 1 .. Len(c) + 1 PROVE Nodes(R, d)[k] = r[k]
      <4>1. CASE k = 1
        BY <2>4, <2>6, <2>7, <3>1, <3>2, <4>1
      <4>2. CASE k # 1
        <5> DEFINE j == k - 1
        <5>1. j \in 1 .. Len(c) /\ j + 1 = k /\ M[d[k]] = L.item[c[j]]
          BY <2>7, <2>8, <4>2
        <5> HIDE DEF j
        <5> QED
          BY <1>1, <3>1, <3>2, <5>1
      <4> QED
        BY <4>1, <4>2
    <3> QED
      BY <3>1, <3>2, <3>3, SameSeq DEF r
  <2>12. <<node>> \o q = Pool!Abs!InsertForce(q, n)
    <3>1. Len(q) < ItemNum
      BY <1>1, <1>6, PoolBounds, Constants DEF Holds
    <3> HIDE DEF q
    <3> QED
      BY <1>3, <1>6, <3>1 DEF Pool!Abs!InsertForce, node
  <2> QED
    BY <2>9, <2>10, <2>11, <2>12 DEF R, Holds
<1> QED
  BY <1>4, <1>5, <1>6

-----------------------------------------------------------------------------
(* Keep.                                                                   *)

\* Keep takes the entries at the positions K, each of them once.
LEMMA KeepIs ==
    ASSUME NEW S, NEW q \in Seq(S), NEW K \in SUBSET (1 .. Len(q))
    PROVE  /\ Cardinality(K) \in Nat
           /\ Pool!Abs!Keep(q, K) \in Seq(S) /\ Len(Pool!Abs!Keep(q, K)) = Cardinality(K)
           /\ \A k \in 1 .. Cardinality(K) : /\ Pool!Abs!NthOf(K, k) \in K
                                             /\ Pool!Abs!Keep(q, K)[k] = q[Pool!Abs!NthOf(K, k)]
           /\ \A j, k \in 1 .. Cardinality(K) : Pool!Abs!NthOf(K, j) = Pool!Abs!NthOf(K, k) => j = k
           /\ \A i \in K : \E k \in 1 .. Cardinality(K) : Pool!Abs!NthOf(K, k) = i
<1> DEFINE Upto(i) == {j \in K : j <= i}
           rank    == [i \in K |-> Cardinality(Upto(i))]
           c       == Cardinality(K)
<1>0. Len(q) \in Nat
  OBVIOUS
<1>1. IsFiniteSet(K) /\ c \in Nat
  <2>1. IsFiniteSet(1 .. Len(q))
    BY <1>0, UpTo
  <2> QED
    BY <2>1, FS_Subset, FS_CardinalityType
<1>2. ASSUME NEW i \in K
      PROVE  IsFiniteSet(Upto(i)) /\ Cardinality(Upto(i)) \in 1 .. c
  <2>1. IsFiniteSet(Upto(i)) /\ Cardinality(Upto(i)) <= c
    BY <1>1, FS_Subset, Upto(i) \in SUBSET K
  <2>2. Upto(i) # {}
    OBVIOUS
  <2> QED
    BY <1>1, <2>1, <2>2, FS_CardinalityType, FS_EmptySet
<1>3. ASSUME NEW i \in K, NEW j \in K, i < j
      PROVE  Cardinality(Upto(i)) # Cardinality(Upto(j))
  <2>0. K \subseteq Int /\ i \in Int /\ j \in Int
    OBVIOUS
  <2>1. Upto(i) \in SUBSET Upto(j) /\ j \in Upto(j) /\ j \notin Upto(i)
    <3>1. \A x \in Upto(i) : x \in Upto(j)
      BY <1>3, <2>0
    <3>2. j \in Upto(j) /\ j \notin Upto(i)
      BY <1>3, <2>0
    <3> QED
      BY <3>1, <3>2
  <2> HIDE DEF Upto
  <2> QED
    BY <1>2, <2>1, FS_Subset
<1>4. rank \in [K -> 1 .. c] /\ \A i, j \in K : rank[i] = rank[j] => i = j
  <2>1. rank \in [K -> 1 .. c]
    BY <1>2
  <2>2. ASSUME NEW i \in K, NEW j \in K, rank[i] = rank[j]
        PROVE  i = j
    <3>1. i \in Int /\ j \in Int
      OBVIOUS
    <3>2. Cardinality(Upto(i)) = Cardinality(Upto(j))
      BY <2>2
    <3> HIDE DEF Upto
    <3>3. ~(i < j) /\ ~(j < i)
      BY <1>3, <3>2
    <3> QED
      BY <3>1, <3>3
  <2> QED
    BY <2>1, <2>2
<1>5. rank \in Injection(K, 1 .. c)
  BY <1>4, Fun_IsInj
<1>6. IsFiniteSet(1 .. c) /\ Cardinality(1 .. c) = c
  BY <1>1, UpTo
<1>7. \A k \in 1 .. c : \E i \in K : rank[i] = k
  <2>1. rank \in Surjection(K, 1 .. c)
    BY <1>5, <1>6, FS_Injection
  <2> QED
    BY <2>1 DEF Surjection
<1>8. \A k \in 1 .. c : Pool!Abs!NthOf(K, k) = CHOOSE i \in K : rank[i] = k
  BY CardinalityIs DEF Pool!Abs!NthOf
<1> HIDE DEF rank
<1>9. \A k \in 1 .. c : Pool!Abs!NthOf(K, k) \in K /\ rank[Pool!Abs!NthOf(K, k)] = k
  BY <1>7, <1>8
<1>10. \A i \in K : Pool!Abs!NthOf(K, rank[i]) = i /\ rank[i] \in 1 .. c
  BY <1>4, <1>9
<1>11. /\ Pool!Abs!Keep(q, K) \in Seq(S) /\ Len(Pool!Abs!Keep(q, K)) = c
       /\ \A k \in 1 .. c : Pool!Abs!Keep(q, K)[k] = q[Pool!Abs!NthOf(K, k)]
  <2> DEFINE f == [k \in 1 .. c |-> q[Pool!Abs!NthOf(K, k)]]
  <2>1. Pool!Abs!Keep(q, K) = f
    BY CardinalityIs DEF Pool!Abs!Keep
  <2>2. f \in [1 .. c -> S]
    <3>1. \A k \in 1 .. c : Pool!Abs!NthOf(K, k) \in 1 .. Len(q) /\ q[Pool!Abs!NthOf(K, k)] \in S
      <4>1. \A i \in 1 .. Len(q) : q[i] \in S
        OBVIOUS
      <4> QED
        BY <1>9, <4>1
    <3> QED
      BY <3>1
  <2>3. \A k \in 1 .. c : f[k] = q[Pool!Abs!NthOf(K, k)]
    OBVIOUS
  <2> HIDE DEF f
  <2> QED
    BY <1>1, <2>1, <2>2, <2>3
<1> QED
  BY <1>1, <1>9, <1>10, <1>11

-----------------------------------------------------------------------------
(* Taking nodes out.                                                       *)

\* The items that wait are those of c.
LEMMA WaitingIs ==
    ASSUME NEW L, NEW c, Chained(L, c)
    PROVE  Pool!Waiting(L) = {c[k] : k \in 1 .. Len(c)} /\ Pool!Waiting(L) \subseteq Pool!Items
<1>1. Pool!Follow(L) = c /\ DOMAIN c = 1 .. Len(c) /\ \A k \in 1 .. Len(c) : c[k] \in Pool!Items
  BY FollowIs, ListFacts
<1> QED
  BY <1>1 DEF Pool!Waiting, Pool!InSeq

\* free_node_item leaves check_bond_flag in the item.
LEMMA ReleaseIs ==
    ASSUME NEW L, L.item \in [Pool!Items -> FreeItem \cup UsedItem], NEW S \in SUBSET Pool!Items
    PROVE  /\ Pool!Release(L, S) \in [Pool!Items -> FreeItem \cup UsedItem]
           /\ \A i \in S : Pool!Release(L, S)[i] \in FreeItem /\ ~Pool!Release(L, S)[i].used
           /\ \A i \in Pool!Items \ S : Pool!Release(L, S)[i] = L.item[i]
<1>1. ASSUME NEW i \in Pool!Items
      PROVE  Pool!Unused(L.item[i].node.check) \in FreeItem /\ ~Pool!Unused(L.item[i].node.check).used
  <2>1. L.item[i].node.check \in Pool!Abs!Checks
    BY ItemFacts
  <2>2. Pool!Unused(L.item[i].node.check) \in FreeItem
    BY <2>1 DEF FreeItem
  <2> QED
    BY <2>2 DEF Pool!Unused
<1>2. CASE S = {}
  BY <1>2 DEF Pool!Release
<1>3. CASE S # {}
  BY <1>1, <1>3 DEF Pool!Release
<1> QED
  BY <1>2, <1>3

\* delete_all_node.
LEMMA DeleteAllIs ==
    ASSUME NEW L, NEW c, Chained(L, c)
    PROVE  Holds(Pool!DeleteAll(L), << >>) /\ Nodes(Pool!DeleteAll(L), << >>) = << >>
<1> DEFINE M == Pool!Release(L, Pool!Waiting(L))
<1>1. /\ M \in [Pool!Items -> FreeItem \cup UsedItem]
      /\ \A i \in Pool!Waiting(L) : ~M[i].used
      /\ \A i \in Pool!Items \ Pool!Waiting(L) : M[i] = L.item[i]
  <2>1. L.item \in [Pool!Items -> FreeItem \cup UsedItem] /\ Pool!Waiting(L) \in SUBSET Pool!Items
    BY WaitingIs DEF Chained
  <2> QED
    BY <2>1, ReleaseIs
<1>2. \A i \in Pool!Items : ~M[i].used
  <2>1. \A i \in Pool!Items \ Pool!Waiting(L) : ~L.item[i].used
    BY WaitingIs DEF Chained
  <2> HIDE DEF M
  <2> QED
    BY <1>1, <2>1
<1>3. /\ DOMAIN Pool!DeleteAll(L) = {"item", "head", "tail"} /\ Pool!DeleteAll(L).item = M
      /\ Pool!DeleteAll(L).head = Pool!Null /\ Pool!DeleteAll(L).tail = Pool!Null
  BY DEF Pool!DeleteAll
<1> HIDE DEF M
<1>4. << >> \in Seq(Pool!Items) /\ Len(<< >>) = 0 /\ 1 .. 0 = {}
  OBVIOUS
<1> DEFINE d == << >>
<1>5. d \in Seq(Pool!Items) /\ Len(d) = 0 /\ 1 .. Len(d) = {}
  BY <1>4
<1> HIDE DEF d
<1>6. Chained(Pool!DeleteAll(L), d)
  BY <1>1, <1>2, <1>3, <1>5 DEF Chained
<1>7. Distinct(Pool!DeleteAll(L), d)
  BY <1>5 DEF Distinct
<1>8. Nodes(Pool!DeleteAll(L), d) = << >>
  <2>1. Nodes(Pool!DeleteAll(L), d) \in Seq(Entry) /\ Len(Nodes(Pool!DeleteAll(L), d)) = 0
    BY <1>5, <1>6, ListFacts
  <2> QED
    BY <2>1
<1> QED
  BY <1>6, <1>7, <1>8 DEF d, Holds

\* What Holds says, in the form the lemmas use.
LEMMA ListShape ==
    ASSUME NEW L, NEW c, Holds(L, c)
    PROVE  /\ Len(c) \in Nat /\ c \in Seq(Pool!Items) /\ DOMAIN c = 1 .. Len(c) /\ Pool!Follow(L) = c
           /\ \A k \in 1 .. Len(c) : /\ c[k] \in Pool!Items /\ L.item[c[k]] \in UsedItem
                                     /\ L.item[c[k]].node \in Entry /\ L.item[c[k]].used
           /\ \A j, k \in 1 .. Len(c) : c[j] = c[k] => j = k
           /\ L.item \in [Pool!Items -> FreeItem \cup UsedItem] /\ DOMAIN L = {"item", "head", "tail"}
           /\ Len(c) # 0 => L.head = c[1] /\ L.tail = c[Len(c)]
<1>1. Chained(L, c)
  BY DEF Holds
<1>2. Len(c) \in Nat /\ DOMAIN c = 1 .. Len(c) /\ Pool!Follow(L) = c
  BY <1>1, ListFacts, FollowIs
<1>3. \A k \in 1 .. Len(c) : /\ c[k] \in Pool!Items /\ L.item[c[k]] \in UsedItem
                             /\ L.item[c[k]].node \in Entry
  BY <1>1, ListFacts
<1>4. \A k \in 1 .. Len(c) : L.item[c[k]].used
  BY <1>3 DEF UsedItem
<1> QED
  BY <1>1, <1>2, <1>3, <1>4 DEF Chained

\* The deletion loops: the nodes at the positions K stay, in their order.
LEMMA DeleteIs ==
    ASSUME NEW L, NEW c, Holds(L, c), NEW K \in SUBSET (1 .. Len(c)), NEW dropped,
           \A i : i \in dropped <=> \E k \in (1 .. Len(c)) \ K : c[k] = i
    PROVE  /\ Holds(Pool!Delete(L, dropped), Pool!Abs!Keep(c, K))
           /\ Nodes(Pool!Delete(L, dropped), Pool!Abs!Keep(c, K)) = Pool!Abs!Keep(Nodes(L, c), K)
<1> DEFINE d == Pool!Abs!Keep(c, K)
           n == Cardinality(K)
           at(k) == Pool!Abs!NthOf(K, k)
<1>1. /\ Len(c) \in Nat /\ c \in Seq(Pool!Items) /\ DOMAIN c = 1 .. Len(c) /\ Pool!Follow(L) = c
      /\ \A k \in 1 .. Len(c) : /\ c[k] \in Pool!Items /\ L.item[c[k]] \in UsedItem
                                /\ L.item[c[k]].node \in Entry /\ L.item[c[k]].used
      /\ \A j, k \in 1 .. Len(c) : c[j] = c[k] => j = k
      /\ L.item \in [Pool!Items -> FreeItem \cup UsedItem] /\ DOMAIN L = {"item", "head", "tail"}
  BY ListShape
<1>2. /\ n \in Nat /\ d \in Seq(Pool!Items) /\ Len(d) = n
      /\ \A k \in 1 .. n : at(k) \in K /\ d[k] = c[at(k)]
      /\ \A j, k \in 1 .. n : at(j) = at(k) => j = k
      /\ \A i \in K : \E k \in 1 .. n : at(k) = i
  BY <1>1, KeepIs
<1> HIDE DEF d, n, at
<1>3. DOMAIN d = 1 .. n /\ n \in Nat /\ \A k \in 1 .. n : d[k] \in Pool!Items
  BY <1>2
<1>4. \A k \in 1 .. n : at(k) \in 1 .. Len(c) /\ d[k] = c[at(k)]
  BY <1>2
<1>5. \A j, k \in 1 .. n : d[j] = d[k] => j = k
  BY <1>1, <1>2, <1>4
<1>6. \A k \in 1 .. n : /\ d[k] \in Pool!Items /\ L.item[d[k]] \in UsedItem /\ d[k] \notin dropped
                        /\ L.item[d[k]].node \in Entry /\ L.item[d[k]].used
  BY <1>1, <1>2, <1>4
<1>7. ASSUME NEW i \in Pool!Items
      PROVE  L.item[i].used <=> (i \in dropped \/ \E k \in 1 .. n : d[k] = i)
  <2>1. L.item[i].used <=> \E k \in 1 .. Len(c) : c[k] = i
    BY DEF Holds, Chained
  <2>2. \A k \in K : \E j \in 1 .. n : d[j] = c[k]
    BY <1>2
  <2> QED
    BY <1>4, <2>1, <2>2
<1>8. \A i : i \in Pool!InSeq(d) <=> \E k \in 1 .. n : d[k] = i
  BY <1>3 DEF Pool!InSeq
<1>9. ASSUME NEW k \in 1 .. n
      PROVE  Pool!After(d, d[k]) = (IF k = n THEN Pool!Null ELSE d[k + 1]) /\ Pool!After(d, d[k]) \in Pool!Items \cup {Pool!Null}
  <2>1. Pool!Place(d, d[k]) = k
    BY <1>3, <1>5 DEF Pool!Place
  <2>2. Pool!After(d, d[k]) = IF k = Len(d) THEN Pool!Null ELSE d[k + 1]
    BY <2>1 DEF Pool!After
  <2>3. k # n => k + 1 \in 1 .. n
    BY <1>3
  <2> QED
    BY <1>2, <1>3, <2>2, <2>3
<1> DEFINE linked == [i \in Pool!Items |-> IF i \in Pool!InSeq(d) THEN [L.item[i] EXCEPT !.next = Pool!After(d, i)]
                                                        ELSE L.item[i]]
           L1 == [L EXCEPT !.item = linked]
           M == Pool!Release(L1, dropped)
           R == Pool!Delete(L, dropped)
<1>10. R.item = M /\ R.head = (IF Len(d) = 0 THEN Pool!Null ELSE d[1])
        /\ R.tail = (IF Len(d) = 0 THEN Pool!Null ELSE d[Len(d)])
        /\ DOMAIN R = {"item", "head", "tail"}
  <2>1. {k \in DOMAIN c : c[k] \notin dropped} = K
    <3>1. \A k \in 1 .. Len(c) : c[k] \notin dropped <=> k \in K
      BY <1>1
    <3> QED
      BY <1>1, <3>1
  <2>2. R = Pool!Relink(L, Pool!Abs!Keep(c, {k \in DOMAIN c : c[k] \notin dropped}), dropped)
    BY <1>1, Zenon DEF Pool!Delete
  <2> HIDE DEF R
  <2>3. R = Pool!Relink(L, d, dropped)
    BY <2>1, <2>2 DEF d
  <2>4. Pool!Relink(L, d, dropped) = [item |-> M, head |-> IF d = << >> THEN Pool!Null ELSE d[1],
                                 tail |-> IF d = << >> THEN Pool!Null ELSE d[Len(d)]]
    BY Zenon DEF Pool!Relink
  <2>5. d = << >> <=> Len(d) = 0
    BY <1>2
  <2> HIDE DEF M
  <2> QED
    BY <2>3, <2>4, <2>5
<1> HIDE DEF R
<1>11. /\ linked \in [Pool!Items -> FreeItem \cup UsedItem]
       /\ \A k \in 1 .. n : /\ linked[d[k]].used /\ linked[d[k]].node = L.item[d[k]].node
                            /\ linked[d[k]].next = Pool!After(d, d[k])
       /\ \A i \in Pool!Items : (~ \E k \in 1 .. n : d[k] = i) => linked[i] = L.item[i]
  <2> HIDE DEF M, L1
  <2>1. ASSUME NEW k \in 1 .. n
        PROVE  LET e == [L.item[d[k]] EXCEPT !.next = Pool!After(d, d[k])]
               IN  e \in UsedItem /\ e.used /\ e.node = L.item[d[k]].node /\ e.next = Pool!After(d, d[k])
    BY <1>6, <1>9 DEF UsedItem
  <2>2. ASSUME NEW i \in Pool!Items PROVE linked[i] \in FreeItem \cup UsedItem
    <3>1. CASE i \in Pool!InSeq(d)
      <4>1. PICK k \in 1 .. n : d[k] = i
        BY <1>8, <3>1
      <4> QED
        BY <2>1, <3>1, <4>1
    <3>2. CASE i \notin Pool!InSeq(d)
      BY <1>1, <3>2
    <3> QED
      BY <3>1, <3>2
  <2>3. \A k \in 1 .. n : linked[d[k]] = [L.item[d[k]] EXCEPT !.next = Pool!After(d, d[k])]
    BY <1>6, <1>8
  <2>4. \A i \in Pool!Items : (~ \E k \in 1 .. n : d[k] = i) => linked[i] = L.item[i]
    BY <1>8
  <2>5. linked \in [Pool!Items -> FreeItem \cup UsedItem]
    <3>1. linked = [i \in Pool!Items |-> linked[i]]
      OBVIOUS
    <3> HIDE DEF linked
    <3> QED
      BY <2>2, <3>1
  <2> HIDE DEF linked
  <2> QED
    BY <2>1, <2>3, <2>4, <2>5
<1> HIDE DEF linked
<1>12. L1.item = linked
  BY <1>1
<1>13. dropped \in SUBSET Pool!Items
  BY <1>1
<1> HIDE DEF L1
<1>14. /\ M \in [Pool!Items -> FreeItem \cup UsedItem]
       /\ \A i \in dropped : M[i] \in FreeItem /\ ~M[i].used
       /\ \A i \in Pool!Items \ dropped : M[i] = linked[i]
  BY <1>11, <1>12, <1>13, ReleaseIs
<1> HIDE DEF M
<1>15. \A k \in 1 .. n : /\ M[d[k]].used /\ M[d[k]].node = L.item[d[k]].node
                         /\ M[d[k]].next = IF k = n THEN Pool!Null ELSE d[k + 1]
  BY <1>6, <1>9, <1>11, <1>14
<1>16. \A i \in Pool!Items : M[i].used <=> \E k \in 1 .. n : d[k] = i
  <2> SUFFICES ASSUME NEW i \in Pool!Items PROVE M[i].used <=> \E k \in 1 .. n : d[k] = i
    OBVIOUS
  <2>1. CASE i \in dropped
    BY <1>6, <1>14, <2>1
  <2>2. CASE i \notin dropped /\ \E k \in 1 .. n : d[k] = i
    BY <1>15, <2>2
  <2>3. CASE i \notin dropped /\ ~ \E k \in 1 .. n : d[k] = i
    BY <1>7, <1>11, <1>14, <2>3
  <2> QED
    BY <2>1, <2>2, <2>3
<1>17. Chained(R, d)
  BY <1>2, <1>5, <1>10, <1>14, <1>15, <1>16 DEF Chained
<1>18. \A k \in 1 .. n : M[d[k]].node = L.item[c[at(k)]].node
  BY <1>4, <1>15
<1>19. Distinct(R, d)
  <2> SUFFICES ASSUME NEW j \in 1 .. n, NEW k \in 1 .. n,
                      M[d[j]].node.addr = M[d[k]].node.addr
               PROVE  j = k
    BY <1>2, <1>10 DEF Distinct
  <2>1. L.item[c[at(j)]].node.addr = L.item[c[at(k)]].node.addr
    BY <1>18
  <2>2. at(j) = at(k)
    BY <1>4, <2>1 DEF Holds, Distinct
  <2> QED
    BY <1>2, <2>2
<1>20. Nodes(R, d) = Pool!Abs!Keep(Nodes(L, c), K)
  <2> DEFINE q == Nodes(L, c)
             kept == Pool!Abs!Keep(q, K)
  <2>1. q \in Seq(Entry) /\ Len(q) = Len(c) /\ \A k \in 1 .. Len(c) : q[k] = L.item[c[k]].node
    BY ListFacts DEF Holds
  <2> HIDE DEF q
  <2>2. kept \in Seq(Entry) /\ Len(kept) = n /\ \A k \in 1 .. n : kept[k] = q[at(k)]
    BY <2>1, KeepIs DEF n, at
  <2>3. /\ Nodes(R, d) \in Seq(Entry) /\ Len(Nodes(R, d)) = n
        /\ \A k \in 1 .. n : Nodes(R, d)[k] = M[d[k]].node
    BY <1>2, <1>10, <1>17, ListFacts
  <2> HIDE DEF kept
  <2>4. ASSUME NEW k \in 1 .. n PROVE Nodes(R, d)[k] = kept[k]
    <3>1. q[at(k)] = L.item[c[at(k)]].node
      BY <1>4, <2>1
    <3> QED
      BY <1>18, <2>2, <2>3, <3>1
  <2>5. Nodes(R, d) = kept
    BY <2>2, <2>3, <2>4, SameSeq
  <2> QED
    BY <2>5 DEF kept, q
<1> QED
  BY <1>17, <1>19, <1>20 DEF Holds, R, d

\* delete_group_member.
LEMMA DeleteGroupIs ==
    ASSUME NEW L, NEW c, Holds(L, c)
    PROVE  \E d : /\ Holds(Pool!DeleteGroup(L), d)
                  /\ Nodes(Pool!DeleteGroup(L), d) = Pool!Abs!DeleteGroup(Nodes(L, c))
<1> DEFINE K == {k \in 1 .. Len(c) : ~L.item[c[k]].node.group}
           dropped == {p \in Pool!Waiting(L) : L.item[p].node.group}
<1>1. K \in SUBSET (1 .. Len(c))
  OBVIOUS
<1>2. Pool!Waiting(L) = {c[k] : k \in 1 .. Len(c)}
  BY WaitingIs DEF Holds
<1>3. \A i : i \in dropped <=> \E k \in (1 .. Len(c)) \ K : c[k] = i
  BY <1>2
<1>4. {i \in 1 .. Len(Nodes(L, c)) : ~Nodes(L, c)[i].group} = K
  BY ListFacts DEF Holds
<1>5. /\ Pool!DeleteGroup(L) = Pool!Delete(L, dropped)
      /\ Pool!Abs!DeleteGroup(Nodes(L, c)) = Pool!Abs!Keep(Nodes(L, c), K)
  BY <1>4 DEF Pool!DeleteGroup, Pool!Abs!DeleteGroup
<1> HIDE DEF K, dropped
<1> QED
  BY <1>1, <1>3, <1>5, DeleteIs

\* take_first_node.
LEMMA UnlinkIs ==
    ASSUME NEW L, NEW c, Holds(L, c), L.head # Pool!Null
    PROVE  \E d : Holds(Pool!Unlink(L), d) /\ Nodes(Pool!Unlink(L), d) = Tail(Nodes(L, c)) /\ Nodes(L, c) # << >>
<1> DEFINE d == Tail(c)
           M == Pool!Release(L, {L.head})
           R == Pool!Unlink(L)
<1>1. /\ Len(c) \in Nat /\ c \in Seq(Pool!Items) /\ Len(c) # 0
      /\ \A k \in 1 .. Len(c) : /\ c[k] \in Pool!Items /\ L.item[c[k]] \in UsedItem
                                /\ L.item[c[k]].node \in Entry /\ L.item[c[k]].used
      /\ \A j, k \in 1 .. Len(c) : c[j] = c[k] => j = k
      /\ L.item \in [Pool!Items -> FreeItem \cup UsedItem]
      /\ L.head = c[1] /\ L.tail = c[Len(c)]
  <2>1. Len(c) # 0
    BY ListFacts DEF Holds
  <2> QED
    BY <2>1, ListShape
<1>2. ASSUME NEW S, NEW s \in Seq(S), Len(s) # 0
      PROVE  /\ Tail(s) \in Seq(S) /\ Len(s) = Len(Tail(s)) + 1 /\ Len(Tail(s)) \in Nat
             /\ 1 \in 1 .. Len(s) /\ s # << >>
             /\ \A k \in 1 .. Len(Tail(s)) : Tail(s)[k] = s[k + 1] /\ k + 1 \in 1 .. Len(s)
             /\ \A k \in 1 .. Len(s) : k = 1 \/ (k - 1 \in 1 .. Len(Tail(s)) /\ (k - 1) + 1 = k)
  BY <1>2
<1>3. /\ d \in Seq(Pool!Items) /\ Len(c) = Len(d) + 1 /\ Len(d) \in Nat /\ 1 \in 1 .. Len(c)
      /\ \A k \in 1 .. Len(d) : d[k] = c[k + 1] /\ k + 1 \in 1 .. Len(c)
      /\ \A k \in 1 .. Len(c) : k = 1 \/ (k - 1 \in 1 .. Len(d) /\ (k - 1) + 1 = k)
  BY <1>1, <1>2
<1> HIDE DEF d
<1>4. /\ M \in [Pool!Items -> FreeItem \cup UsedItem]
      /\ ~M[L.head].used
      /\ \A i \in Pool!Items : i # L.head => M[i] = L.item[i]
  <2>1. {L.head} \in SUBSET Pool!Items
    BY <1>1, <1>3
  <2> QED
    BY <1>1, <2>1, ReleaseIs
<1>5. L.item[L.head].next = IF Len(d) = 0 THEN Pool!Null ELSE d[1]
  <2>1. L.item[c[1]].next = IF 1 = Len(c) THEN Pool!Null ELSE c[1 + 1]
    BY <1>3 DEF Holds, Chained
  <2>2. Len(d) = 0 <=> 1 = Len(c)
    BY <1>3
  <2>3. Len(d) # 0 => d[1] = c[1 + 1]
    BY <1>3
  <2> QED
    BY <1>1, <2>1, <2>2, <2>3
<1>6. Len(d) # 0 => d[1] # Pool!Null /\ d[1] \in Pool!Items
  BY <1>3, Constants DEF Pool!Null
<1>7. /\ DOMAIN R = {"item", "head", "tail"} /\ R.item = M
      /\ R.head = L.item[L.head].next
      /\ R.tail = IF L.item[L.head].next = Pool!Null THEN Pool!Null ELSE L.tail
  BY DEF Pool!Unlink
<1>8. R.head = (IF Len(d) = 0 THEN Pool!Null ELSE d[1]) /\ R.tail = (IF Len(d) = 0 THEN Pool!Null ELSE d[Len(d)])
  <2>1. Len(d) # 0 => d[Len(d)] = L.tail
    <3>1. Len(d) # 0 => Len(d) \in 1 .. Len(d)
      BY <1>3
    <3> QED
      BY <1>1, <1>3, <3>1
  <2> HIDE DEF R
  <2> QED
    BY <1>5, <1>6, <1>7, <2>1
<1> HIDE DEF R, M
<1>9. \A k \in 1 .. Len(d) : /\ d[k] # L.head /\ d[k] \in Pool!Items /\ d[k] = c[k + 1]
                             /\ M[d[k]] = L.item[c[k + 1]] /\ L.item[c[k + 1]].used
  <2> SUFFICES ASSUME NEW k \in 1 .. Len(d)
               PROVE  d[k] # L.head /\ d[k] \in Pool!Items /\ d[k] = c[k + 1]
    BY <1>1, <1>3, <1>4
  <2>1. k + 1 # 1
    BY <1>3
  <2> QED
    BY <1>1, <1>3, <2>1
<1>10. \A j, k \in 1 .. Len(d) : d[j] = d[k] => j = k
  BY <1>1, <1>3
<1>11. \A i \in Pool!Items : M[i].used <=> \E k \in 1 .. Len(d) : d[k] = i
  <2> SUFFICES ASSUME NEW i \in Pool!Items PROVE M[i].used <=> \E k \in 1 .. Len(d) : d[k] = i
    OBVIOUS
  <2>1. CASE i = L.head
    BY <1>4, <1>9, <2>1
  <2>2. CASE i # L.head
    <3>1. M[i].used <=> \E k \in 1 .. Len(c) : c[k] = i
      BY <1>4, <2>2 DEF Holds, Chained
    <3>2. ASSUME NEW k \in 1 .. Len(c), c[k] = i PROVE \E j \in 1 .. Len(d) : d[j] = i
      <4>1. k # 1
        BY <1>1, <2>2, <3>2
      <4>2. k - 1 \in 1 .. Len(d) /\ (k - 1) + 1 = k
        BY <1>3, <4>1
      <4>3. d[k - 1] = i
        BY <1>3, <3>2, <4>2
      <4> QED
        BY <4>2, <4>3
    <3> QED
      BY <1>3, <3>1, <3>2
  <2> QED
    BY <2>1, <2>2
<1>12. \A k \in 1 .. Len(d) : M[d[k]].next = IF k = Len(d) THEN Pool!Null ELSE d[k + 1]
  <2> SUFFICES ASSUME NEW k \in 1 .. Len(d)
               PROVE  M[d[k]].next = IF k = Len(d) THEN Pool!Null ELSE d[k + 1]
    OBVIOUS
  <2>1. L.item[c[k + 1]].next = IF k + 1 = Len(c) THEN Pool!Null ELSE c[(k + 1) + 1]
    BY <1>3 DEF Holds, Chained
  <2>2. k = Len(d) <=> k + 1 = Len(c)
    BY <1>3
  <2>3. k # Len(d) => k + 1 \in 1 .. Len(d) /\ d[k + 1] = c[(k + 1) + 1]
    BY <1>3
  <2> QED
    BY <1>9, <2>1, <2>2, <2>3
<1>13. Chained(R, d)
  BY <1>3, <1>4, <1>7, <1>8, <1>10, <1>11, <1>12 DEF Chained
<1>14. Distinct(R, d)
  <2> SUFFICES ASSUME NEW j \in 1 .. Len(d), NEW k \in 1 .. Len(d),
                      M[d[j]].node.addr = M[d[k]].node.addr
               PROVE  j = k
    BY <1>7 DEF Distinct
  <2>1. L.item[c[j + 1]].node.addr = L.item[c[k + 1]].node.addr
    BY <1>9
  <2>2. j + 1 = k + 1
    BY <1>3, <2>1 DEF Holds, Distinct
  <2> QED
    BY <1>3, <2>2
<1>15. Nodes(R, d) = Tail(Nodes(L, c)) /\ Nodes(L, c) # << >>
  <2> DEFINE q == Nodes(L, c)
  <2>1. q \in Seq(Entry) /\ Len(q) = Len(c) /\ \A k \in 1 .. Len(c) : q[k] = L.item[c[k]].node
    BY ListFacts DEF Holds
  <2>2. /\ Nodes(R, d) \in Seq(Entry) /\ Len(Nodes(R, d)) = Len(d)
        /\ \A k \in 1 .. Len(d) : Nodes(R, d)[k] = M[d[k]].node
    BY <1>7, <1>13, ListFacts
  <2> HIDE DEF q
  <2>3. /\ Tail(q) \in Seq(Entry) /\ Len(q) = Len(Tail(q)) + 1 /\ Len(Tail(q)) \in Nat /\ q # << >>
        /\ \A k \in 1 .. Len(Tail(q)) : Tail(q)[k] = q[k + 1]
    BY <1>1, <1>2, <2>1
  <2>4. Len(Tail(q)) = Len(d)
    BY <1>3, <2>1, <2>3
  <2>5. \A k \in 1 .. Len(d) : Nodes(R, d)[k] = Tail(q)[k]
    BY <1>3, <1>9, <2>1, <2>2, <2>3, <2>4
  <2>6. Nodes(R, d) = Tail(q)
    BY <2>2, <2>3, <2>4, <2>5, SameSeq
  <2> QED
    BY <2>3, <2>6 DEF q
<1> QED
  BY <1>13, <1>14, <1>15 DEF Holds, R

-----------------------------------------------------------------------------
(* Changing nodes where they stand.                                        *)

\* A used item with another node is a used item.
LEMMA NodeSet ==
    ASSUME NEW e \in UsedItem, NEW g \in Entry
    PROVE  /\ [e EXCEPT !.node = g] \in UsedItem /\ [e EXCEPT !.node = g].used
           /\ [e EXCEPT !.node = g].node = g /\ [e EXCEPT !.node = g].next = e.next
BY DEF UsedItem

\* Each node of the list changes by itself and keeps its address.
Mapped(L, c, M, f) ==
    /\ M \in [Pool!Items -> {M[i] : i \in Pool!Items}]
    /\ f \in [1 .. Len(c) -> Entry]
    /\ \A k \in 1 .. Len(c) : M[c[k]] = [L.item[c[k]] EXCEPT !.node = f[k]]
    /\ \A k \in 1 .. Len(c) : f[k].addr = L.item[c[k]].node.addr
    /\ \A i \in Pool!Items : i \notin Pool!Waiting(L) => M[i] = L.item[i]

\* Writing nodes in place leaves the list the list of c.
LEMMA MapNodes ==
    ASSUME NEW L, NEW c, Holds(L, c), NEW M, NEW f, Mapped(L, c, M, f)
    PROVE  /\ Holds([L EXCEPT !.item = M], c) /\ [L EXCEPT !.item = M].item = M
           /\ Nodes([L EXCEPT !.item = M], c) = f
<1> DEFINE R == [L EXCEPT !.item = M]
<1>1. /\ Len(c) \in Nat
      /\ \A k \in 1 .. Len(c) : c[k] \in Pool!Items /\ L.item[c[k]] \in UsedItem /\ L.item[c[k]].used
      /\ L.item \in [Pool!Items -> FreeItem \cup UsedItem] /\ DOMAIN L = {"item", "head", "tail"}
  BY ListShape
<1>2. Pool!Waiting(L) = {c[k] : k \in 1 .. Len(c)}
  BY WaitingIs DEF Holds
<1>3. \A k \in 1 .. Len(c) : /\ M[c[k]] \in UsedItem /\ M[c[k]].used /\ M[c[k]].node = f[k]
                             /\ M[c[k]].next = L.item[c[k]].next
  <2> SUFFICES ASSUME NEW k \in 1 .. Len(c)
               PROVE  /\ M[c[k]] \in UsedItem /\ M[c[k]].used /\ M[c[k]].node = f[k]
                      /\ M[c[k]].next = L.item[c[k]].next
    OBVIOUS
  <2>1. M[c[k]] = [L.item[c[k]] EXCEPT !.node = f[k]] /\ f[k] \in Entry
    BY DEF Mapped
  <2>2. L.item[c[k]] \in UsedItem
    BY <1>1
  <2> QED
    BY <2>1, <2>2, NodeSet
<1>4. \A i \in Pool!Items : i \in Pool!Waiting(L) => \E k \in 1 .. Len(c) : i = c[k]
  BY <1>2
<1>5. \A i \in Pool!Items : /\ M[i] \in FreeItem \cup UsedItem
                       /\ M[i].used = L.item[i].used /\ M[i].next = L.item[i].next
  <2> SUFFICES ASSUME NEW i \in Pool!Items
               PROVE  /\ M[i] \in FreeItem \cup UsedItem
                      /\ M[i].used = L.item[i].used /\ M[i].next = L.item[i].next
    OBVIOUS
  <2>1. CASE i \in Pool!Waiting(L)
    <3>1. PICK k \in 1 .. Len(c) : i = c[k]
      BY <1>4, <2>1
    <3>2. M[c[k]].used = TRUE /\ L.item[c[k]].used = TRUE
      BY <1>1, <1>3 DEF UsedItem
    <3> QED
      BY <1>3, <3>1, <3>2
  <2>2. CASE i \notin Pool!Waiting(L)
    BY <1>1, <2>2 DEF Mapped
  <2> QED
    BY <2>1, <2>2
<1>6. M \in [Pool!Items -> FreeItem \cup UsedItem]
  BY <1>5 DEF Mapped
<1>7. Chained(R, c)
  BY <1>5, <1>6, MapItems DEF Holds
<1>8. R.item = M
  BY <1>1
<1> HIDE DEF R
<1>9. Distinct(R, c)
  <2>1. \A k \in 1 .. Len(c) : R.item[c[k]].node.addr = L.item[c[k]].node.addr
    BY <1>3, <1>8 DEF Mapped
  <2> QED
    BY <2>1 DEF Distinct, Holds
<1>10. Nodes(R, c) = f
  <2>1. f = [k \in 1 .. Len(c) |-> f[k]]
    BY DEF Mapped
  <2> QED
    BY <1>3, <1>8, <2>1 DEF Nodes
<1> QED
  BY <1>7, <1>8, <1>9, <1>10 DEF Holds, R

\* The items on the list are told from the others.
LEMMA InListIs ==
    ASSUME NEW L, NEW c, Holds(L, c)
    PROVE  /\ \A k \in 1 .. Len(c) : c[k] \in Pool!Waiting(L) /\ c[k] \in Pool!Items
           /\ \A i \in Pool!Waiting(L) : \E k \in 1 .. Len(c) : c[k] = i
           /\ Len(Nodes(L, c)) = Len(c)
           /\ \A k \in 1 .. Len(c) : Nodes(L, c)[k] = L.item[c[k]].node /\ Nodes(L, c)[k] \in Entry
<1>1. Pool!Waiting(L) = {c[k] : k \in 1 .. Len(c)}
  BY WaitingIs DEF Holds
<1> QED
  BY <1>1, ListShape, ListFacts DEF Holds

\* linkback_todo_queue_remove_plan_profs.
LEMMA RemovePlanIs ==
    ASSUME NEW L, NEW c, Holds(L, c), NEW a \in Addrs, NEW profs \in Pool!Abs!Plans
    PROVE  /\ Holds(Pool!RemovePlan(L, a, profs), c)
           /\ Nodes(Pool!RemovePlan(L, a, profs), c) = Pool!Abs!RemovePlan(Nodes(L, c), a, profs)
<1> DEFINE M == [i \in Pool!Items |->
                    IF i \in Pool!Waiting(L) /\ L.item[i].node.addr = a
                    THEN [L.item[i] EXCEPT !.node.plan = @ \ profs] ELSE L.item[i]]
           q == Nodes(L, c)
           f == Pool!Abs!RemovePlan(q, a, profs)
<1>1. /\ \A k \in 1 .. Len(c) : c[k] \in Pool!Waiting(L) /\ c[k] \in Pool!Items
      /\ Len(q) = Len(c)
      /\ \A k \in 1 .. Len(c) : q[k] = L.item[c[k]].node /\ q[k] \in Entry /\ L.item[c[k]] \in UsedItem
  BY InListIs, ListShape
<1> HIDE DEF q
<1>2. ASSUME NEW k \in 1 .. Len(c)
      PROVE  f[k] \in Entry /\ f[k].addr = q[k].addr
             /\ f[k] = IF q[k].addr = a THEN [q[k] EXCEPT !.plan = @ \ profs] ELSE q[k]
  <2>1. f[k] = IF q[k].addr = a THEN [q[k] EXCEPT !.plan = @ \ profs] ELSE q[k]
    BY <1>1 DEF Pool!Abs!RemovePlan
  <2> HIDE DEF f
  <2>2. q[k] \in Entry
    BY <1>1
  <2> QED
    BY <2>1, <2>2 DEF Entry, Pool!Abs!Plans
<1>3. f \in [1 .. Len(c) -> Entry]
  BY <1>1, <1>2 DEF Pool!Abs!RemovePlan
<1>4. Pool!RemovePlan(L, a, profs) = [L EXCEPT !.item = M]
  BY DEF Pool!RemovePlan
<1> HIDE DEF f
<1>5. ASSUME NEW k \in 1 .. Len(c) PROVE M[c[k]] = [L.item[c[k]] EXCEPT !.node = f[k]]
  <2> DEFINE e == L.item[c[k]]
  <2>1. M[c[k]] = IF e.node.addr = a THEN [e EXCEPT !.node.plan = @ \ profs] ELSE e
    BY <1>1
  <2>2. e \in UsedItem /\ q[k] = e.node
    BY <1>1
  <2> HIDE DEF M, e
  <2>3. f[k] = IF e.node.addr = a THEN [e.node EXCEPT !.plan = @ \ profs] ELSE e.node
    BY <1>2, <2>2
  <2> QED
    BY <2>1, <2>2, <2>3 DEF e, UsedItem
<1>6. M \in [Pool!Items -> {M[i] : i \in Pool!Items}] /\ \A i \in Pool!Items : i \notin Pool!Waiting(L) => M[i] = L.item[i]
  OBVIOUS
<1> HIDE DEF M
<1>7. \A k \in 1 .. Len(c) : f[k].addr = L.item[c[k]].node.addr
  BY <1>1, <1>2
<1>8. Mapped(L, c, M, f)
  BY <1>3, <1>5, <1>6, <1>7 DEF Mapped
<1> QED
  BY <1>4, <1>8, MapNodes DEF f, q

\* linkback_todo_queue_set_group_member_retry_timeout.
LEMMA SetGroupRetryIs ==
    ASSUME NEW L, NEW c, Holds(L, c), NEW t \in Pool!Abs!Times
    PROVE  /\ Holds(Pool!SetGroupRetry(L, t), c)
           /\ Nodes(Pool!SetGroupRetry(L, t), c) = Pool!Abs!SetGroupRetry(Nodes(L, c), t)
<1> DEFINE M == [i \in Pool!Items |->
                    IF i \in Pool!Waiting(L) /\ L.item[i].node.group
                    THEN [L.item[i] EXCEPT !.node.retry = t] ELSE L.item[i]]
           q == Nodes(L, c)
           f == Pool!Abs!SetGroupRetry(q, t)
<1>1. /\ \A k \in 1 .. Len(c) : c[k] \in Pool!Waiting(L) /\ c[k] \in Pool!Items
      /\ Len(q) = Len(c)
      /\ \A k \in 1 .. Len(c) : q[k] = L.item[c[k]].node /\ q[k] \in Entry /\ L.item[c[k]] \in UsedItem
  BY InListIs, ListShape
<1> HIDE DEF q
<1>2. ASSUME NEW k \in 1 .. Len(c)
      PROVE  f[k] \in Entry /\ f[k].addr = q[k].addr
             /\ f[k] = IF q[k].group THEN [q[k] EXCEPT !.retry = t] ELSE q[k]
  <2>1. f[k] = IF q[k].group THEN [q[k] EXCEPT !.retry = t] ELSE q[k]
    BY <1>1 DEF Pool!Abs!SetGroupRetry
  <2> HIDE DEF f
  <2>2. q[k] \in Entry
    BY <1>1
  <2> QED
    BY <2>1, <2>2 DEF Entry
<1>3. f \in [1 .. Len(c) -> Entry]
  BY <1>1, <1>2 DEF Pool!Abs!SetGroupRetry
<1>4. Pool!SetGroupRetry(L, t) = [L EXCEPT !.item = M]
  BY DEF Pool!SetGroupRetry
<1> HIDE DEF f
<1>5. ASSUME NEW k \in 1 .. Len(c) PROVE M[c[k]] = [L.item[c[k]] EXCEPT !.node = f[k]]
  <2> DEFINE e == L.item[c[k]]
  <2>1. M[c[k]] = IF e.node.group THEN [e EXCEPT !.node.retry = t] ELSE e
    BY <1>1
  <2>2. e \in UsedItem /\ q[k] = e.node
    BY <1>1
  <2> HIDE DEF M, e
  <2>3. f[k] = IF e.node.group THEN [e.node EXCEPT !.retry = t] ELSE e.node
    BY <1>2, <2>2
  <2> QED
    BY <2>1, <2>2, <2>3 DEF e, UsedItem
<1>6. M \in [Pool!Items -> {M[i] : i \in Pool!Items}] /\ \A i \in Pool!Items : i \notin Pool!Waiting(L) => M[i] = L.item[i]
  OBVIOUS
<1> HIDE DEF M
<1>7. \A k \in 1 .. Len(c) : f[k].addr = L.item[c[k]].node.addr
  BY <1>1, <1>2
<1>8. Mapped(L, c, M, f)
  BY <1>3, <1>5, <1>6, <1>7 DEF Mapped
<1> QED
  BY <1>4, <1>8, MapNodes DEF f, q

\* Charging an entry makes an entry of the same address.
LEMMA ChargeIs ==
    ASSUME NEW n \in Entry, NEW t \in Pool!Abs!Times
    PROVE  Pool!Abs!Charge(n, t) \in Entry /\ Pool!Abs!Charge(n, t).addr = n.addr
<1>1. MaxTime \in Nat /\ n.retry \in 0 .. MaxTime /\ t \in 0 .. MaxTime
  BY Constants DEF Entry, Pool!Abs!Times
<1>2. n.retry > t => n.retry - t \in Pool!Abs!Times
  BY <1>1 DEF Pool!Abs!Times
<1>3. 0 \in Pool!Abs!Times
  BY <1>1 DEF Pool!Abs!Times
<1>4. CASE n.group
  BY <1>4 DEF Pool!Abs!Charge
<1>5. CASE ~n.group /\ n.first
  <2>1. Pool!Abs!Charge(n, t) = [n EXCEPT !.first = FALSE]
    BY <1>5 DEF Pool!Abs!Charge
  <2> QED
    BY <2>1 DEF Entry
<1>6. CASE ~n.group /\ ~n.first
  <2> DEFINE r == IF n.retry > t THEN n.retry - t ELSE 0
  <2>1. Pool!Abs!Charge(n, t) = [n EXCEPT !.retry = r] /\ r \in Pool!Abs!Times
    BY <1>2, <1>3, <1>6 DEF Pool!Abs!Charge
  <2> HIDE DEF r
  <2> QED
    BY <2>1 DEF Entry
<1> QED
  BY <1>4, <1>5, <1>6

\* sub_alone_member_retry_timeout.
LEMMA SubAloneIs ==
    ASSUME NEW L, NEW c, Holds(L, c), NEW t \in Pool!Abs!Times
    PROVE  \E d : /\ Holds(Pool!SubAlone(L, t), d)
                  /\ Nodes(Pool!SubAlone(L, t), d) = Pool!Abs!SubAlone(Nodes(L, c), t)
<1> DEFINE M == [i \in Pool!Items |->
                    IF i \in Pool!Waiting(L)
                    THEN [L.item[i] EXCEPT !.node = Pool!Abs!Charge(@, t)] ELSE L.item[i]]
           q == Nodes(L, c)
           f == [i \in 1 .. Len(q) |-> Pool!Abs!Charge(q[i], t)]
           L1 == [L EXCEPT !.item = M]
           dropped == {p \in Pool!Waiting(L) : L1.item[p].node.retry = 0}
           K == {i \in 1 .. Len(c) : f[i].retry # 0}
           spent == \E p \in Pool!Waiting(L) : Pool!Abs!Spends(L.item[p].node, t)
<1>1. /\ Len(c) \in Nat
      /\ \A k \in 1 .. Len(c) : c[k] \in Pool!Waiting(L) /\ c[k] \in Pool!Items
      /\ \A i \in Pool!Waiting(L) : \E k \in 1 .. Len(c) : c[k] = i
      /\ Len(q) = Len(c)
      /\ \A k \in 1 .. Len(c) : q[k] = L.item[c[k]].node /\ q[k] \in Entry /\ L.item[c[k]] \in UsedItem
      /\ \A j, k \in 1 .. Len(c) : c[j] = c[k] => j = k
  BY InListIs, ListShape
<1>2. /\ Pool!SubAlone(L, t) = IF spent THEN Pool!Delete(L1, dropped) ELSE L1
      /\ Pool!Abs!SubAlone(q, t) = IF \E i \in 1 .. Len(q) : Pool!Abs!Spends(q[i], t)
                              THEN Pool!Abs!Keep(f, {i \in 1 .. Len(q) : f[i].retry # 0}) ELSE f
  <2> HIDE DEF q
  <2> QED
    BY DEF Pool!SubAlone, Pool!Abs!SubAlone
<1>3. spent <=> \E i \in 1 .. Len(q) : Pool!Abs!Spends(q[i], t)
  <2> HIDE DEF q
  <2> QED
    BY <1>1
<1>4. {i \in 1 .. Len(q) : f[i].retry # 0} = K
  BY <1>1
<1> HIDE DEF spent, q
<1>5. \A k \in 1 .. Len(c) : f[k] = Pool!Abs!Charge(q[k], t) /\ f[k] \in Entry /\ f[k].addr = L.item[c[k]].node.addr
  BY <1>1, ChargeIs
<1>6. f \in [1 .. Len(c) -> Entry]
  BY <1>1, <1>5
<1>7. \A k \in 1 .. Len(c) : M[c[k]] = [L.item[c[k]] EXCEPT !.node = f[k]]
  BY <1>1, <1>5
<1>8. M \in [Pool!Items -> {M[i] : i \in Pool!Items}] /\ \A i \in Pool!Items : i \notin Pool!Waiting(L) => M[i] = L.item[i]
  OBVIOUS
<1> HIDE DEF M, f
<1>9. Mapped(L, c, M, f)
  BY <1>5, <1>6, <1>7, <1>8 DEF Mapped
<1>10. Holds(L1, c) /\ L1.item = M /\ Nodes(L1, c) = f
  BY <1>9, MapNodes
<1> HIDE DEF L1
<1>11. CASE ~spent
  BY <1>2, <1>3, <1>10, <1>11 DEF q
<1>12. CASE spent
  <2>1. \A k \in 1 .. Len(c) : L1.item[c[k]].node = f[k]
    BY <1>10, InListIs
  <2>2. \A i : i \in dropped <=> \E k \in (1 .. Len(c)) \ K : c[k] = i
    BY <1>1, <2>1
  <2>3. K \in SUBSET (1 .. Len(c))
    OBVIOUS
  <2> HIDE DEF dropped, K
  <2>4. /\ Holds(Pool!Delete(L1, dropped), Pool!Abs!Keep(c, K))
        /\ Nodes(Pool!Delete(L1, dropped), Pool!Abs!Keep(c, K)) = Pool!Abs!Keep(f, K)
    BY <1>10, <2>2, <2>3, DeleteIs
  <2> QED
    BY <1>2, <1>3, <1>4, <1>12, <2>4 DEF q
<1> QED
  BY <1>11, <1>12

\* The active node goes back with the time it has left.
LEMMA UseLeftTimeIs ==
    ASSUME NEW L, NEW c, Holds(L, c),
           NEW n \in Pool!Abs!ActiveNodes, NEW used \in Pool!Abs!Times, NEW isNormal \in BOOLEAN
    PROVE  \E d : \E stale \in Pool!Abs!Checks :
              /\ Holds(Pool!UseLeftTime(L, n, used, isNormal), d)
              /\ Nodes(Pool!UseLeftTime(L, n, used, isNormal), d) =
                    Pool!Abs!UseLeftTime(Nodes(L, c), n, used, isNormal, stale)
<1> DEFINE q == Nodes(L, c)
           left == n.retry - used
           again == [n EXCEPT !.retry = left, !.first = FALSE, !.force = FALSE]
           charged == Pool!SubAlone(L, used)
           aCharged == Pool!Abs!SubAlone(q, used)
           others == IF n.group THEN Pool!SetGroupRetry(charged, left) ELSE charged
           aOthers == IF n.group THEN Pool!Abs!SetGroupRetry(aCharged, left) ELSE aCharged
           R == Pool!UseLeftTime(L, n, used, isNormal)
           A(s) == Pool!Abs!UseLeftTime(q, n, used, isNormal, s)
<1>1. PICK d : Holds(charged, d) /\ Nodes(charged, d) = aCharged
  BY SubAloneIs
<1>2. FALSE \in Pool!Abs!Checks
  BY Constants
<1>3. R = IF n.retry > used
          THEN IF isNormal THEN Pool!InsertNormal(others, again) ELSE Pool!InsertForce(others, again)
          ELSE IF n.group THEN Pool!DeleteGroup(charged) ELSE charged
  BY DEF Pool!UseLeftTime
<1>4. \A s : A(s) = LET back == [n EXCEPT !.retry = left, !.first = FALSE, !.force = FALSE,
                                          !.check = IF isNormal THEN s ELSE @]
                    IN  IF n.retry > used
                        THEN IF isNormal THEN Pool!Abs!InsertNormal(aOthers, back)
                                         ELSE Pool!Abs!InsertForce(aOthers, back)
                        ELSE IF n.group THEN Pool!Abs!DeleteGroup(aCharged) ELSE aCharged
  BY DEF Pool!Abs!UseLeftTime
<1>5. \A s : [n EXCEPT !.retry = left, !.first = FALSE, !.force = FALSE,
                       !.check = IF isNormal THEN s ELSE @]
             = IF isNormal THEN [again EXCEPT !.check = s] ELSE again
  BY DEF Pool!Abs!ActiveNodes
<1>6. \A s : A(s) = IF n.retry > used
                    THEN IF isNormal THEN Pool!Abs!InsertNormal(aOthers, [again EXCEPT !.check = s])
                                     ELSE Pool!Abs!InsertForce(aOthers, again)
                    ELSE IF n.group THEN Pool!Abs!DeleteGroup(aCharged) ELSE aCharged
  <2> TAKE s
  <2>1. CASE isNormal
    <3>1. [n EXCEPT !.retry = left, !.first = FALSE, !.force = FALSE,
                    !.check = IF isNormal THEN s ELSE @] = [again EXCEPT !.check = s]
      BY <1>5, <2>1
    <3> HIDE DEF A, again, aOthers, aCharged, left
    <3> QED
      BY <1>4, <2>1, <3>1
  <2>2. CASE ~isNormal
    <3>1. [n EXCEPT !.retry = left, !.first = FALSE, !.force = FALSE,
                    !.check = IF isNormal THEN s ELSE @] = again
      BY <1>5, <2>2
    <3> HIDE DEF A, again, aOthers, aCharged, left
    <3> QED
      BY <1>4, <2>2, <3>1
  <2> QED
    BY <2>1, <2>2
<1> HIDE DEF A, R
<1>7. CASE n.retry > used
  <2>1. left \in Pool!Abs!Times
    BY <1>7, Constants DEF Pool!Abs!ActiveNodes, Pool!Abs!Times
  <2>2. again \in Entry /\ ~again.force
    <3> HIDE DEF left
    <3> QED
      BY <2>1 DEF Pool!Abs!ActiveNodes, Entry
  <2> HIDE DEF left, charged, aCharged, again
  <2>3. Holds(others, d) /\ Nodes(others, d) = aOthers
    <3>1. Holds(Pool!SetGroupRetry(charged, left), d)
            /\ Nodes(Pool!SetGroupRetry(charged, left), d) = Pool!Abs!SetGroupRetry(aCharged, left)
      BY <1>1, <2>1, SetGroupRetryIs
    <3>2. CASE n.group
      BY <3>1, <3>2
    <3>3. CASE ~n.group
      BY <1>1, <3>3
    <3> QED
      BY <3>2, <3>3
  <2> HIDE DEF others, aOthers
  <2>4. CASE isNormal
    <3>0. PICK e : \E stale \in Pool!Abs!Checks :
             /\ Holds(Pool!InsertNormal(others, again), e)
             /\ Nodes(Pool!InsertNormal(others, again), e) =
                   Pool!Abs!InsertNormal(aOthers, [again EXCEPT !.check = stale])
      BY <2>2, <2>3, InsertNormalIs
    <3>1. PICK stale \in Pool!Abs!Checks :
             /\ Holds(Pool!InsertNormal(others, again), e)
             /\ Nodes(Pool!InsertNormal(others, again), e) =
                   Pool!Abs!InsertNormal(aOthers, [again EXCEPT !.check = stale])
      BY <3>0
    <3>2. R = Pool!InsertNormal(others, again)
            /\ A(stale) = Pool!Abs!InsertNormal(aOthers, [again EXCEPT !.check = stale])
      BY <1>3, <1>6, <1>7, <2>4
    <3>3. Holds(R, e) /\ Nodes(R, e) = A(stale)
      BY <3>1, <3>2
    <3> QED
      BY <3>3 DEF R, A, q
  <2>5. CASE ~isNormal
    <3>1. PICK e : /\ Holds(Pool!InsertForce(others, again), e)
                   /\ Nodes(Pool!InsertForce(others, again), e) = Pool!Abs!InsertForce(aOthers, again)
      BY <2>2, <2>3, InsertForceIs
    <3>2. R = Pool!InsertForce(others, again) /\ A(FALSE) = Pool!Abs!InsertForce(aOthers, again)
      BY <1>3, <1>6, <1>7, <2>5
    <3>3. Holds(R, e) /\ Nodes(R, e) = A(FALSE)
      BY <3>1, <3>2
    <3> QED
      BY <1>2, <3>3 DEF R, A, q
  <2> QED
    BY <2>4, <2>5
<1>8. CASE ~(n.retry > used) /\ n.group
  <2>1. PICK e : Holds(Pool!DeleteGroup(charged), e)
                 /\ Nodes(Pool!DeleteGroup(charged), e) = Pool!Abs!DeleteGroup(aCharged)
    BY <1>1, DeleteGroupIs
  <2> HIDE DEF charged, aCharged
  <2>2. R = Pool!DeleteGroup(charged) /\ A(FALSE) = Pool!Abs!DeleteGroup(aCharged)
    BY <1>3, <1>6, <1>8
  <2>3. Holds(R, e) /\ Nodes(R, e) = A(FALSE)
    BY <2>1, <2>2
  <2> QED
    BY <1>2, <2>3 DEF R, A, q
<1>9. CASE ~(n.retry > used) /\ ~n.group
  <2> HIDE DEF charged, aCharged
  <2>1. R = charged /\ A(FALSE) = aCharged
    BY <1>3, <1>6, <1>9
  <2>2. Holds(R, d) /\ Nodes(R, d) = A(FALSE)
    BY <1>1, <2>1
  <2> QED
    BY <1>2, <2>2 DEF R, A, q
<1> QED
  BY <1>7, <1>8, <1>9

-----------------------------------------------------------------------------
(* Loading the bond list.                                                  *)

\* InsertAll inserts one node after the other.
LEMMA InsertAllReads ==
    ASSUME NEW L, NEW nodes, Len(nodes) \in Nat
    PROVE  \E w : /\ Pool!InsertAll(L, nodes) = w[Len(nodes)] /\ w[0] = L
                  /\ \A k \in 0 .. Len(nodes) - 1 : w[k + 1] = Pool!InsertNormal(w[k], nodes[k + 1])
<1> DEFINE n == Len(nodes)
           S(m, f) == [k \in 0 .. m |-> IF k = 0 THEN L ELSE Pool!InsertNormal(f[k - 1], nodes[k])]
           T == {m \in 0 .. n : \E f : f = S(m, f)}
           w == CHOOSE f : f = S(n, f)
<1>1. n \in Nat
  OBVIOUS
<1>2. Pool!InsertAll(L, nodes) = w[n]
  BY DEF Pool!InsertAll
<1> HIDE DEF n, w
<1>3. 0 \in T
  <2> DEFINE f == [k \in 0 .. 0 |-> L]
  <2>1. \A k \in 0 .. 0 : k = 0
    OBVIOUS
  <2>2. f = S(0, f)
    BY <2>1
  <2> HIDE DEF f, S
  <2> QED
    BY <1>1, <2>2
<1>4. ASSUME NEW m \in 0 .. n - 1, m \in T PROVE m + 1 \in T
  <2>1. PICK f : f = S(m, f)
    BY <1>4
  <2> DEFINE g == [k \in 0 .. m + 1 |-> IF k = m + 1 THEN Pool!InsertNormal(f[m], nodes[m + 1]) ELSE f[k]]
             h == S(m + 1, g)
  <2>2. m \in Nat /\ m + 1 \in 0 .. n
    BY <1>1
  <2>3. \A k \in 0 .. m : f[k] = S(m, f)[k]
    <3> HIDE DEF S
    <3> QED
      BY <2>1
  <2>4. \A k \in 0 .. m : f[k] = IF k = 0 THEN L ELSE Pool!InsertNormal(f[k - 1], nodes[k])
    BY <2>3
  <2>5. ASSUME NEW k \in 0 .. m + 1 PROVE g[k] = h[k]
    <3>1. CASE k = 0
      BY <2>2, <2>4, <3>1
    <3>2. CASE k \in 1 .. m
      <4>1. k \in 0 .. m /\ k # 0 /\ k - 1 \in 0 .. m + 1 /\ k - 1 # m + 1 /\ k # m + 1
        BY <2>2, <3>2
      <4>2. g[k] = Pool!InsertNormal(f[k - 1], nodes[k]) /\ g[k - 1] = f[k - 1]
        BY <2>4, <4>1
      <4>3. h[k] = Pool!InsertNormal(g[k - 1], nodes[k])
        <5> HIDE DEF g
        <5> QED
          BY <4>1
      <4> QED
        BY <4>2, <4>3
    <3>3. CASE k = m + 1
      <4>1. k # 0 /\ k - 1 = m /\ m \in 0 .. m + 1 /\ m # m + 1
        BY <2>2, <3>3
      <4>2. g[k] = Pool!InsertNormal(f[m], nodes[k]) /\ g[m] = f[m]
        BY <3>3, <4>1
      <4>3. h[k] = Pool!InsertNormal(g[m], nodes[k])
        <5> HIDE DEF g
        <5> QED
          BY <4>1
      <4> QED
        BY <4>2, <4>3
    <3> QED
      BY <2>2, <3>1, <3>2, <3>3
  <2>6. g = [k \in 0 .. m + 1 |-> g[k]] /\ h = [k \in 0 .. m + 1 |-> h[k]]
    OBVIOUS
  <2>7. g = h
    <3> HIDE DEF g, h
    <3> QED
      BY <2>5, <2>6
  <2> HIDE DEF g, S
  <2> QED
    BY <2>2, <2>7
<1>5. n \in T
  <2> HIDE DEF T
  <2>1. 0 .. n \subseteq T
    BY <1>1, <1>3, <1>4, SetInduction
  <2> QED
    BY <1>1, <2>1
<1>6. w = S(n, w)
  <2> HIDE DEF S
  <2> QED
    BY <1>5 DEF w
<1>7. \A k \in 0 .. n : w[k] = S(n, w)[k]
  <2> HIDE DEF S
  <2> QED
    BY <1>6
<1>8. \A k \in 0 .. n : w[k] = IF k = 0 THEN L ELSE Pool!InsertNormal(w[k - 1], nodes[k])
  BY <1>7
<1>9. w[0] = L
  BY <1>1, <1>8
<1>10. ASSUME NEW k \in 0 .. n - 1 PROVE w[k + 1] = Pool!InsertNormal(w[k], nodes[k + 1])
  <2>1. k + 1 \in 0 .. n /\ k + 1 # 0 /\ (k + 1) - 1 = k
    BY <1>1
  <2> QED
    BY <1>8, <2>1
<1> QED
  BY <1>2, <1>9, <1>10 DEF n

\* The lesser of two numbers.
LEMMA LeastIs ==
    ASSUME NEW a \in Nat, NEW b \in Nat
    PROVE  Pool!Abs!Least({a, b}) = IF a <= b THEN a ELSE b
BY DEF Pool!Abs!Least

\* The first k nodes, as far as the pool goes, with what the items held.
Loaded(nodes, stale, k) ==
    [i \in 1 .. Pool!Abs!Least({k, ItemNum}) |-> [nodes[i] EXCEPT !.check = stale[i]]]

Stales == [1 .. ItemNum -> Pool!Abs!Checks]

\* Nodes of several addresses, as a load brings them.
Fresh(nodes) ==
    /\ nodes \in Seq(Entry)
    /\ \A i \in 1 .. Len(nodes) : ~nodes[i].force
    /\ \A i, j \in 1 .. Len(nodes) : nodes[i].addr = nodes[j].addr => i = j

\* One insert of the loading loop.
LEMMA InsertNext ==
    ASSUME NEW nodes, Fresh(nodes), NEW k \in 0 .. Len(nodes) - 1,
           NEW stale \in Stales, NEW L, NEW c, Holds(L, c), Nodes(L, c) = Loaded(nodes, stale, k)
    PROVE  \E d : \E s \in Stales :
              /\ Holds(Pool!InsertNormal(L, nodes[k + 1]), d)
              /\ Nodes(Pool!InsertNormal(L, nodes[k + 1]), d) = Loaded(nodes, s, k + 1)
<1> DEFINE n == nodes[k + 1]
           q == Nodes(L, c)
           l == Pool!Abs!Least({k, ItemNum})
           held(s) == [n EXCEPT !.check = s]
<1>1. /\ Len(nodes) \in Nat /\ k \in Nat /\ k + 1 \in 1 .. Len(nodes) /\ ItemNum \in Nat
      /\ \A i \in 1 .. Len(nodes) : nodes[i] \in Entry /\ ~nodes[i].force
  BY Constants DEF Fresh
<1>2. l = (IF k <= ItemNum THEN k ELSE ItemNum) /\ l \in Nat
  BY <1>1, LeastIs
<1>3. PICK d : \E s \in Pool!Abs!Checks :
          /\ Holds(Pool!InsertNormal(L, n), d)
          /\ Nodes(Pool!InsertNormal(L, n), d) = Pool!Abs!InsertNormal(q, held(s))
  BY <1>1, InsertNormalIs
<1>4. PICK s \in Pool!Abs!Checks :
          /\ Holds(Pool!InsertNormal(L, n), d)
          /\ Nodes(Pool!InsertNormal(L, n), d) = Pool!Abs!InsertNormal(q, held(s))
  BY <1>3
<1>5. /\ q \in Seq(Entry) /\ Len(q) = l
      /\ \A i \in 1 .. l : q[i] = [nodes[i] EXCEPT !.check = stale[i]] /\ i \in 1 .. k
  <2>1. q = [i \in 1 .. l |-> [nodes[i] EXCEPT !.check = stale[i]]]
    BY DEF Loaded
  <2>2. q \in Seq(Entry)
    BY ListFacts DEF Holds
  <2> HIDE DEF q, l
  <2>3. Len(q) = l /\ \A i \in 1 .. l : q[i] = [nodes[i] EXCEPT !.check = stale[i]]
    BY <1>2, <2>1
  <2> QED
    BY <1>1, <1>2, <2>2, <2>3
<1> HIDE DEF q, l
<1>6. held(s) \in Entry /\ held(s).addr = n.addr /\ [held(s) EXCEPT !.force = FALSE] = held(s)
  <2>1. n \in Entry /\ n.force = FALSE
    BY <1>1 DEF Entry
  <2> HIDE DEF n
  <2> QED
    BY <2>1 DEF Entry
<1>7. ~Pool!Abs!Waiting(q, held(s).addr)
  <2> SUFFICES ASSUME NEW i \in 1 .. l, q[i].addr = n.addr PROVE FALSE
    BY <1>5, <1>6 DEF Pool!Abs!Waiting
  <2>1. i \in 1 .. Len(nodes) /\ i # k + 1 /\ nodes[i] \in Entry
    BY <1>1, <1>2, <1>5
  <2>2. q[i].addr = nodes[i].addr
    BY <1>5, <2>1 DEF Entry
  <2> QED
    BY <1>1, <2>1, <2>2 DEF Fresh
<1>8. CASE k < ItemNum
  <2> DEFINE st == [stale EXCEPT ![k + 1] = s]
             R == Loaded(nodes, st, k + 1)
             p == Append(q, held(s))
  <2>1. l = k /\ k + 1 \in 1 .. ItemNum /\ Pool!Abs!Least({k + 1, ItemNum}) = k + 1
    BY <1>1, <1>2, <1>8, LeastIs
  <2>2. st \in Stales /\ st[k + 1] = s /\ \A i \in 1 .. k : st[i] = stale[i]
    <3>1. \A i \in 1 .. k : i # k + 1 /\ i \in 1 .. ItemNum
      BY <1>1, <1>8
    <3> QED
      BY <2>1, <3>1 DEF Stales
  <2>3. Pool!Abs!InsertNormal(q, held(s)) = p
    <3> HIDE DEF held
    <3> QED
      BY <1>5, <1>6, <1>7, <1>8, <2>1 DEF Pool!Abs!InsertNormal
  <2>4. /\ p \in Seq(Entry) /\ Len(p) = k + 1 /\ p[k + 1] = held(s)
        /\ \A i \in 1 .. k : p[i] = q[i]
        /\ \A i \in 1 .. k + 1 : i \in 1 .. k \/ i = k + 1
    <3> HIDE DEF held
    <3> QED
      BY <1>5, <1>6, <2>1, AppendIs
  <2> HIDE DEF st, p
  <2>5. R = [i \in 1 .. k + 1 |-> [nodes[i] EXCEPT !.check = st[i]]]
    BY <2>1 DEF Loaded
  <2>6. \A i \in 1 .. k + 1 : R[i] = p[i]
    <3> SUFFICES ASSUME NEW i \in 1 .. k + 1 PROVE [nodes[i] EXCEPT !.check = st[i]] = p[i]
      BY <2>5
    <3>1. CASE i = k + 1
      BY <2>2, <2>4, <3>1
    <3>2. CASE i \in 1 .. k
      BY <1>5, <2>1, <2>2, <2>4, <3>2
    <3> QED
      BY <2>4, <3>1, <3>2
  <2>7. p = R
    <3>1. p = [i \in 1 .. k + 1 |-> p[i]] /\ R = [i \in 1 .. k + 1 |-> R[i]]
      BY <2>4, <2>5
    <3> HIDE DEF R
    <3> QED
      BY <2>6, <3>1
  <2> QED
    BY <1>4, <2>2, <2>3, <2>7
<1>9. CASE ~(k < ItemNum)
  <2>1. l = ItemNum /\ Pool!Abs!Least({k + 1, ItemNum}) = ItemNum /\ Pool!Abs!Least({k, ItemNum}) = ItemNum
    BY <1>1, <1>2, <1>9, LeastIs
  <2>2. Pool!Abs!InsertNormal(q, held(s)) = q
    <3> HIDE DEF held
    <3> QED
      BY <1>1, <1>5, <1>7, <2>1 DEF Pool!Abs!InsertNormal
  <2>3. Loaded(nodes, stale, k + 1) = Loaded(nodes, stale, k)
    BY <2>1 DEF Loaded
  <2> QED
    BY <1>4, <2>2, <2>3 DEF q
<1> QED
  BY <1>1, <1>8, <1>9

\* The loading loop.
LEMMA InsertAllIs ==
    ASSUME NEW nodes, Fresh(nodes), NEW L, NEW c, Holds(L, c), Nodes(L, c) = << >>
    PROVE  \E d : \E s \in Stales :
              /\ Holds(Pool!InsertAll(L, nodes), d)
              /\ Nodes(Pool!InsertAll(L, nodes), d) = Loaded(nodes, s, Len(nodes))
<1> DEFINE n == Len(nodes)
<1>1. n \in Nat /\ ItemNum \in Nat
  BY Constants DEF Fresh
<1>2. PICK w : /\ Pool!InsertAll(L, nodes) = w[n] /\ w[0] = L
               /\ \A k \in 0 .. n - 1 : w[k + 1] = Pool!InsertNormal(w[k], nodes[k + 1])
  BY <1>1, InsertAllReads
<1> DEFINE T == {k \in 0 .. n : \E d : \E s \in Stales :
                    Holds(w[k], d) /\ Nodes(w[k], d) = Loaded(nodes, s, k)}
<1>3. 0 \in T
  <2>1. Pool!Abs!Least({0, ItemNum}) = 0
    BY <1>1, LeastIs
  <2>2. [i \in 1 .. ItemNum |-> FALSE] \in Stales
    BY Constants DEF Stales
  <2>3. \A s : Loaded(nodes, s, 0) = << >>
    <3> TAKE s
    <3> DEFINE f == [i \in 1 .. 0 |-> [nodes[i] EXCEPT !.check = s[i]]]
    <3>0. 1 .. 0 = {}
      OBVIOUS
    <3>1. f \in [1 .. 0 -> Entry]
      BY <3>0
    <3>3. Loaded(nodes, s, 0) = f
      BY <2>1, Zenon DEF Loaded
    <3> HIDE DEF f
    <3>2. f \in Seq(Entry) /\ Len(f) = 0
      BY <3>1
    <3> QED
      BY <3>2, <3>3
  <2> QED
    BY <1>1, <1>2, <2>2, <2>3
<1>4. ASSUME NEW k \in 0 .. n - 1, k \in T PROVE k + 1 \in T
  <2>1. PICK d : \E s \in Stales : Holds(w[k], d) /\ Nodes(w[k], d) = Loaded(nodes, s, k)
    BY <1>4
  <2>2. PICK s \in Stales : Holds(w[k], d) /\ Nodes(w[k], d) = Loaded(nodes, s, k)
    BY <2>1
  <2>3. \E e : \E u \in Stales :
           /\ Holds(Pool!InsertNormal(w[k], nodes[k + 1]), e)
           /\ Nodes(Pool!InsertNormal(w[k], nodes[k + 1]), e) = Loaded(nodes, u, k + 1)
    BY <2>2, InsertNext
  <2>4. k + 1 \in 0 .. n
    BY <1>1
  <2> QED
    BY <1>2, <2>3, <2>4
<1>5. n \in T
  <2> HIDE DEF T
  <2>1. 0 .. n \subseteq T
    BY <1>1, <1>3, <1>4, SetInduction
  <2> QED
    BY <1>1, <2>1
<1> QED
  BY <1>2, <1>5

\* The bonded phones differ.
LEMMA BondsAre ==
    ASSUME NEW bonds \in Pool!Abs!BondLists
    PROVE  /\ Len(bonds) \in Nat /\ Len(bonds) <= MaxLoad
           /\ \A i \in 1 .. Len(bonds) : bonds[i].addr \in Addrs /\ bonds[i].plan \in Pool!Abs!Plans
           /\ \A i, j \in 1 .. Len(bonds) : bonds[i].addr = bonds[j].addr => i = j
<1> DEFINE B == [addr : Addrs, plan : Pool!Abs!Plans]
<1>1. /\ \E k \in 0 .. MaxLoad : bonds \in [1 .. k -> B]
      /\ \A i, j \in DOMAIN bonds : i # j => bonds[i].addr # bonds[j].addr
  BY DEF Pool!Abs!BondLists
<1>2. PICK k \in 0 .. MaxLoad : bonds \in [1 .. k -> B]
  BY <1>1
<1>3. k \in Nat /\ k <= MaxLoad
  BY Constants
<1>4. DOMAIN bonds = 1 .. k /\ \A i \in 1 .. k : bonds[i] \in B
  BY <1>2
<1>5. Len(bonds) = k
  <2> HIDE DEF B
  <2> QED
    BY <1>2, <1>3
<1> QED
  BY <1>1, <1>3, <1>4, <1>5

BondNode(a, plan, t, check) ==
    [addr |-> a, plan |-> plan, retry |-> t,
     group |-> TRUE, first |-> TRUE, force |-> FALSE, check |-> check]

\* A bonded phone's node with another check_bond_flag, and with another time.
LEMMA CheckSet ==
    ASSUME NEW a, NEW p, NEW t, NEW s, NEW u
    PROVE  [BondNode(a, p, t, s) EXCEPT !.check = u] = BondNode(a, p, t, u)
<1> DEFINE e == BondNode(a, p, t, s)
           f == [e EXCEPT !.check = u]
           g == BondNode(a, p, t, u)
           D == {"addr", "plan", "retry", "group", "first", "force", "check"}
<1>1. f = [x \in D |-> IF x = "check" THEN u ELSE e[x]]
  <2>1. DOMAIN e = D
    BY DEF BondNode
  <2> QED
    BY <2>1
<1>2. g = [x \in D |-> g[x]]
  BY DEF BondNode
<1>3. \A x \in D : g[x] = IF x = "check" THEN u ELSE e[x]
  <2>1. e["addr"] = a /\ e["plan"] = p /\ e["retry"] = t /\ e["check"] = s
    BY DEF BondNode
  <2>2. g["addr"] = a /\ g["plan"] = p /\ g["retry"] = t /\ g["check"] = u
    BY DEF BondNode
  <2>3. e["group"] = TRUE /\ e["first"] = TRUE /\ e["force"] = FALSE
    BY DEF BondNode
  <2>4. g["group"] = TRUE /\ g["first"] = TRUE /\ g["force"] = FALSE
    BY DEF BondNode
  <2> HIDE DEF e, g
  <2> QED
    BY <2>1, <2>2, <2>3, <2>4
<1> HIDE DEF e, f, g
<1> QED
  BY <1>1, <1>2, <1>3 DEF f, g, e

LEMMA RetrySet ==
    ASSUME NEW a, NEW p, NEW t, NEW s, NEW u
    PROVE  [BondNode(a, p, t, s) EXCEPT !.retry = u] = BondNode(a, p, u, s)
<1> DEFINE e == BondNode(a, p, t, s)
           f == [e EXCEPT !.retry = u]
           g == BondNode(a, p, u, s)
           D == {"addr", "plan", "retry", "group", "first", "force", "check"}
<1>1. f = [x \in D |-> IF x = "retry" THEN u ELSE e[x]]
  <2>1. DOMAIN e = D
    BY DEF BondNode
  <2> QED
    BY <2>1
<1>2. g = [x \in D |-> g[x]]
  BY DEF BondNode
<1>3. \A x \in D : g[x] = IF x = "retry" THEN u ELSE e[x]
  <2>1. e["addr"] = a /\ e["plan"] = p /\ e["retry"] = t /\ e["check"] = s
    BY DEF BondNode
  <2>2. g["addr"] = a /\ g["plan"] = p /\ g["retry"] = u /\ g["check"] = s
    BY DEF BondNode
  <2>3. e["group"] = TRUE /\ e["first"] = TRUE /\ e["force"] = FALSE
    BY DEF BondNode
  <2>4. g["group"] = TRUE /\ g["first"] = TRUE /\ g["force"] = FALSE
    BY DEF BondNode
  <2> HIDE DEF e, g
  <2> QED
    BY <2>1, <2>2, <2>3, <2>4
<1> HIDE DEF e, f, g
<1> QED
  BY <1>1, <1>2, <1>3 DEF f, g, e

\* A bonded phone's node.
LEMMA BondNodeIs ==
    ASSUME NEW a, NEW p, NEW t, NEW s
    PROVE  /\ a \in Addrs /\ p \in Pool!Abs!Plans /\ t \in Pool!Abs!Times /\ s \in Pool!Abs!Checks
                => BondNode(a, p, t, s) \in Entry
           /\ BondNode(a, p, t, s).addr = a /\ BondNode(a, p, t, s).group
           /\ ~BondNode(a, p, t, s).force
<1>1. /\ BondNode(a, p, t, s).addr = a /\ BondNode(a, p, t, s).group
      /\ ~BondNode(a, p, t, s).force
  BY DEF BondNode
<1>2. a \in Addrs /\ p \in Pool!Abs!Plans /\ t \in Pool!Abs!Times /\ s \in Pool!Abs!Checks
        => BondNode(a, p, t, s) \in Entry
  BY DEF BondNode, Entry
<1> QED
  BY <1>1, <1>2

\* load_bond_list empties the list, inserts the bonds and doubles the time.
LEMMA LoadBondListIs ==
    ASSUME NEW L, NEW c, Holds(L, c), NEW bonds \in Pool!Abs!BondLists,
           NEW t \in Pool!Abs!Times, Len(bonds) > 1 => 2 * t \in Pool!Abs!Times
    PROVE  \E d : \E s \in Stales :
              /\ Holds(Pool!LoadBondList(L, bonds, t), d)
              /\ Nodes(Pool!LoadBondList(L, bonds, t), d) = Pool!Abs!LoadBondList(bonds, t, s)
<1> DEFINE num == Pool!Abs!Least({Len(bonds), MaxLoad})
           nodes == [i \in 1 .. num |->
                        [addr |-> bonds[i].addr, plan |-> bonds[i].plan, retry |-> t,
                         group |-> TRUE, first |-> TRUE, force |-> FALSE, check |-> FALSE]]
           loaded == Pool!InsertAll(Pool!DeleteAll(L), nodes)
           R == Pool!LoadBondList(L, bonds, t)
           time == IF num > 1 THEN 2 * t ELSE t
           m == Pool!Abs!Least({num, ItemNum})
<1>1. R = IF num > 1 THEN Pool!SetGroupRetry(loaded, 2 * t) ELSE loaded
  BY DEF Pool!LoadBondList
<1>2. \A s : Pool!Abs!LoadBondList(bonds, t, s) =
         [i \in 1 .. m |-> BondNode(bonds[i].addr, bonds[i].plan, time, s[i])]
  BY DEF Pool!Abs!LoadBondList, BondNode
<1> HIDE DEF R
<1>3. num = Len(bonds) /\ num \in Nat
  <2>1. Len(bonds) \in Nat /\ MaxLoad \in Nat /\ Len(bonds) <= MaxLoad
    BY BondsAre, Constants
  <2> QED
    BY <2>1, LeastIs
<1> HIDE DEF num
<1>4. m = (IF num <= ItemNum THEN num ELSE ItemNum) /\ m \in Nat /\ m <= num
  <2>1. ItemNum \in Nat
    BY Constants
  <2> QED
    BY <1>3, <2>1, LeastIs
<1> HIDE DEF m
<1>5. PICK no \in Pool!Abs!Checks : no = FALSE
  BY Constants
<1>6. /\ Fresh(nodes) /\ Len(nodes) = num
      /\ \A i \in 1 .. num :
            nodes[i] = BondNode(bonds[i].addr, bonds[i].plan, t, no)
  <2>1. \A i \in 1 .. num :
            nodes[i] = BondNode(bonds[i].addr, bonds[i].plan, t, no)
    BY <1>5 DEF BondNode
  <2>2. \A i \in 1 .. num : /\ nodes[i] \in Entry /\ ~nodes[i].force
                            /\ nodes[i].addr = bonds[i].addr
    <3> SUFFICES ASSUME NEW i \in 1 .. num
                 PROVE  nodes[i] \in Entry /\ ~nodes[i].force /\ nodes[i].addr = bonds[i].addr
      OBVIOUS
    <3>1. bonds[i].addr \in Addrs /\ bonds[i].plan \in Pool!Abs!Plans
      BY <1>3, BondsAre
    <3> DEFINE e == BondNode(bonds[i].addr, bonds[i].plan, t, no)
    <3>2. e \in Entry /\ ~e.force /\ e.addr = bonds[i].addr
      BY <3>1, BondNodeIs
    <3>3. nodes[i] = e
      BY <2>1
    <3> HIDE DEF nodes, e
    <3> QED
      BY <3>2, <3>3
  <2>3. nodes \in [1 .. num -> Entry]
    BY <2>2
  <2> HIDE DEF nodes
  <2>4. nodes \in Seq(Entry) /\ Len(nodes) = num
    BY <1>3, <2>3
  <2>5. \A i, j \in 1 .. num : nodes[i].addr = nodes[j].addr => i = j
    <3>1. \A i, j \in 1 .. num : bonds[i].addr = bonds[j].addr => i = j
      BY <1>3, BondsAre
    <3> QED
      BY <2>2, <3>1
  <2> QED
    BY <2>1, <2>2, <2>4, <2>5 DEF Fresh
<1> HIDE DEF nodes
<1>7. PICK d : \E s \in Stales : Holds(loaded, d) /\ Nodes(loaded, d) = Loaded(nodes, s, num)
  <2>1. Holds(Pool!DeleteAll(L), << >>) /\ Nodes(Pool!DeleteAll(L), << >>) = << >>
    BY DeleteAllIs DEF Holds
  <2> QED
    BY <1>6, <2>1, InsertAllIs
<1>8. PICK s \in Stales : Holds(loaded, d) /\ Nodes(loaded, d) = Loaded(nodes, s, num)
  BY <1>7
<1> DEFINE q == Loaded(nodes, s, num)
           Q == Pool!Abs!LoadBondList(bonds, t, s)
<1>9. q = [i \in 1 .. m |-> [nodes[i] EXCEPT !.check = s[i]]]
  BY DEF Loaded, m
<1>10. \A i \in 1 .. m : q[i] = BondNode(bonds[i].addr, bonds[i].plan, t, s[i])
  <2> SUFFICES ASSUME NEW i \in 1 .. m
               PROVE  [nodes[i] EXCEPT !.check = s[i]] = BondNode(bonds[i].addr, bonds[i].plan, t, s[i])
    BY <1>9
  <2>1. i \in 1 .. num
    BY <1>3, <1>4
  <2>2. nodes[i] = BondNode(bonds[i].addr, bonds[i].plan, t, no)
    BY <1>6, <2>1
  <2>3. [BondNode(bonds[i].addr, bonds[i].plan, t, no) EXCEPT !.check = s[i]]
          = BondNode(bonds[i].addr, bonds[i].plan, t, s[i])
    BY CheckSet
  <2> QED
    BY <2>2, <2>3, Zenon
<1>11. CASE num > 1
  <2>1. 2 * t \in Pool!Abs!Times
    BY <1>3, <1>11
  <2>2. /\ Holds(Pool!SetGroupRetry(loaded, 2 * t), d)
        /\ Nodes(Pool!SetGroupRetry(loaded, 2 * t), d) = Pool!Abs!SetGroupRetry(q, 2 * t)
    BY <1>8, <2>1, SetGroupRetryIs
  <2>3. Pool!Abs!SetGroupRetry(q, 2 * t) = Q
    <3>1. Len(q) = m
      <4> HIDE DEF q
      <4> QED
        BY <1>4, <1>9
    <3> HIDE DEF q
    <3>2. Pool!Abs!SetGroupRetry(q, 2 * t) =
             [i \in 1 .. m |-> IF q[i].group THEN [q[i] EXCEPT !.retry = 2 * t] ELSE q[i]]
      BY <3>1 DEF Pool!Abs!SetGroupRetry
    <3>3. \A i \in 1 .. m : (IF q[i].group THEN [q[i] EXCEPT !.retry = 2 * t] ELSE q[i])
             = BondNode(bonds[i].addr, bonds[i].plan, 2 * t, s[i])
      BY <1>10, BondNodeIs, RetrySet
    <3>4. Q = [i \in 1 .. m |-> BondNode(bonds[i].addr, bonds[i].plan, 2 * t, s[i])]
      BY <1>2, <1>11
    <3> QED
      BY <3>2, <3>3, <3>4
  <2> HIDE DEF q, Q, loaded
  <2>4. Holds(R, d) /\ Nodes(R, d) = Q
    BY <1>1, <1>11, <2>2, <2>3
  <2> QED
    BY <1>8, <2>4 DEF R, Q
<1>12. CASE ~(num > 1)
  <2>1. q = Q
    <3>1. Q = [i \in 1 .. m |-> BondNode(bonds[i].addr, bonds[i].plan, t, s[i])]
      BY <1>2, <1>12
    <3>2. q = [i \in 1 .. m |-> q[i]]
      BY <1>9
    <3> HIDE DEF q, Q
    <3> QED
      BY <1>10, <3>1, <3>2
  <2> HIDE DEF loaded, q, Q
  <2>2. Holds(R, d) /\ Nodes(R, d) = Q
    BY <1>1, <1>8, <1>12, <2>1 DEF q
  <2> QED
    BY <1>8, <2>2 DEF R, Q
<1> QED
  BY <1>11, <1>12

-----------------------------------------------------------------------------
(* The specification.                                                      *)

\* Two records with the same three fields are the same list.
LEMMA SameList ==
    ASSUME NEW L, NEW R, NEW c, Holds(R, c), DOMAIN L = {"item", "head", "tail"},
           L.item = R.item, L.head = R.head, L.tail = R.tail
    PROVE  Holds(L, c) /\ Nodes(L, c) = Nodes(R, c)
<1>1. Chained(L, c)
  <2>1. Chained(R, c)
    BY DEF Holds
  <2> QED
    BY <2>1 DEF Chained
<1>2. Distinct(L, c)
  BY DEF Holds, Distinct
<1> QED
  BY <1>1, <1>2 DEF Holds, Nodes

\* The queue the list stands for.
LEMMA QueueIs ==
    ASSUME NEW c, Holds(Pool!List, c)
    PROVE  Pool!Chain = c /\ Pool!Queue = Nodes(Pool!List, c)
<1>1. Pool!Follow(Pool!List) = c /\ Spelled(Pool!List) = Nodes(Pool!List, c)
  BY FollowIs DEF Holds
<1>2. Pool!Chain = Pool!Follow(Pool!List) /\ Pool!List.item = item /\ Pool!List.head = head
  BY DEF Pool!Chain, Pool!List
<1> QED
  BY <1>1, <1>2 DEF Pool!Queue, Spelled

\* A step that becomes the list R.
LEMMA BecomesIs ==
    ASSUME NEW R, NEW d, Holds(R, d), Pool!Becomes(R)
    PROVE  Holds(Pool!List', d) /\ Pool!Queue' = Nodes(R, d)
<1>1. /\ DOMAIN Pool!List' = {"item", "head", "tail"}
      /\ (Pool!List').item = R.item /\ (Pool!List').head = R.head /\ (Pool!List').tail = R.tail
  BY DEF Pool!List, Pool!Becomes
<1>2. Holds(Pool!List', d) /\ Nodes(Pool!List', d) = Nodes(R, d)
  BY <1>1, SameList
<1>3. Pool!Follow(Pool!List') = d /\ Spelled(Pool!List') = Nodes(Pool!List', d)
  BY <1>2, FollowIs DEF Holds
<1>4. Pool!Queue' = Spelled(Pool!List')
  BY DEF Pool!Queue, Pool!List, Spelled
<1> QED
  BY <1>2, <1>3, <1>4

\* linkback_todo_queue_init leaves an empty list.
LEMMA ZeroedIs ==
    Holds(Pool!Zeroed, << >>) /\ Nodes(Pool!Zeroed, << >>) = << >>
<1> DEFINE Z == Pool!Zeroed
<1>1. DOMAIN Z = {"item", "head", "tail"} /\ Z.head = Pool!Null /\ Z.tail = Pool!Null
  BY DEF Pool!Zeroed
<1>2. PICK no \in Pool!Abs!Checks : no = FALSE
  BY Constants
<1>3. Z.item = [i \in Pool!Items |-> Pool!Unused(no)]
  BY <1>2 DEF Pool!Zeroed
<1>4. Pool!Unused(no) \in FreeItem /\ Pool!Unused(no).used = FALSE
  BY DEF FreeItem, Pool!Unused
<1>5. Z.item \in [Pool!Items -> FreeItem \cup UsedItem] /\ \A i \in Pool!Items : ~Z.item[i].used
  <2> HIDE DEF Z
  <2> QED
    BY <1>3, <1>4
<1> HIDE DEF Z
<1>6. Chained(Z, << >>)
  BY <1>1, <1>5 DEF Chained
<1>7. Distinct(Z, << >>) /\ Nodes(Z, << >>) = << >>
  BY DEF Distinct, Nodes
<1> QED
  BY <1>6, <1>7 DEF Holds, Z

\* What the callers insert is an entry.
LEMMA RequestIs ==
    /\ Pool!Abs!Requests \subseteq Entry /\ Pool!Abs!ActiveNodes \subseteq Entry
    /\ \A n \in Pool!Abs!Requests : ~n.force
    /\ \A n \in Pool!Abs!Requests : \A stale \in Pool!Abs!Checks : [n EXCEPT !.check = stale] \in Pool!Abs!Requests
BY DEF Pool!Abs!Requests, Pool!Abs!ActiveNodes, Entry

\* Every call on the list is the same call on the sequence.
LEMMA Step ==
    ASSUME NEW c, Holds(Pool!List, c), Pool!Next
    PROVE  (\E d : Holds(Pool!List', d)) /\ Pool!Abs!Next
<1> DEFINE q == Nodes(Pool!List, c)
<1>1. Pool!Queue = q
  BY QueueIs
<1>2. /\ Pool!Abs!Requests \subseteq Entry /\ Pool!Abs!ActiveNodes \subseteq Entry
      /\ \A n \in Pool!Abs!Requests : ~n.force
      /\ \A n \in Pool!Abs!Requests : \A stale \in Pool!Abs!Checks : [n EXCEPT !.check = stale] \in Pool!Abs!Requests
  BY RequestIs
<1> HIDE DEF q
<1>3. CASE Pool!QueueInit
  <2>1. Holds(Pool!List', << >>) /\ Pool!Queue' = << >>
    BY <1>3, ZeroedIs, BecomesIs DEF Pool!QueueInit
  <2>2. Pool!Abs!QueueInit
    BY <2>1 DEF Pool!Abs!QueueInit
  <2> QED
    BY <2>1, <2>2 DEF Pool!Abs!Next
<1>4. CASE Pool!InsertNormalNode
  <2>1. PICK n \in Pool!Abs!Requests : Pool!Becomes(Pool!InsertNormal(Pool!List, n))
    BY <1>4 DEF Pool!InsertNormalNode
  <2>2. n \in Entry /\ ~n.force
    BY <1>2
  <2>3. PICK d : \E stale \in Pool!Abs!Checks :
                    /\ Holds(Pool!InsertNormal(Pool!List, n), d)
                    /\ Nodes(Pool!InsertNormal(Pool!List, n), d)
                          = Pool!Abs!InsertNormal(q, [n EXCEPT !.check = stale])
    BY <2>2, InsertNormalIs DEF q
  <2>4. PICK stale \in Pool!Abs!Checks :
                    /\ Holds(Pool!InsertNormal(Pool!List, n), d)
                    /\ Nodes(Pool!InsertNormal(Pool!List, n), d)
                          = Pool!Abs!InsertNormal(q, [n EXCEPT !.check = stale])
    BY <2>3
  <2>5. Holds(Pool!List', d) /\ Pool!Queue' = Pool!Abs!InsertNormal(Pool!Queue, [n EXCEPT !.check = stale])
    BY <1>1, <2>1, <2>4, BecomesIs
  <2>6. Pool!Abs!Insert
    BY <1>2, <2>5 DEF Pool!Abs!Insert
  <2> QED
    BY <2>5, <2>6 DEF Pool!Abs!Next
<1>5. CASE Pool!InsertForceNode
  <2>1. PICK n \in Pool!Abs!Requests : Pool!Becomes(Pool!InsertForce(Pool!List, n))
    BY <1>5 DEF Pool!InsertForceNode
  <2>2. PICK d : /\ Holds(Pool!InsertForce(Pool!List, n), d)
                 /\ Nodes(Pool!InsertForce(Pool!List, n), d) = Pool!Abs!InsertForce(q, n)
    BY <1>2, InsertForceIs DEF q
  <2>3. Holds(Pool!List', d) /\ Pool!Queue' = Pool!Abs!InsertForce(Pool!Queue, n)
    BY <1>1, <2>1, <2>2, BecomesIs
  <2>4. Pool!Abs!Insert
    BY <2>3 DEF Pool!Abs!Insert
  <2> QED
    BY <2>3, <2>4 DEF Pool!Abs!Next
<1>6. CASE Pool!TakeFirstNode
  <2>1. Pool!List.head # Pool!Null /\ Pool!Becomes(Pool!Unlink(Pool!List))
    BY <1>6 DEF Pool!TakeFirstNode, Pool!List
  <2>2. PICK d : Holds(Pool!Unlink(Pool!List), d) /\ Nodes(Pool!Unlink(Pool!List), d) = Tail(q) /\ q # << >>
    BY <2>1, UnlinkIs DEF q
  <2>3. Holds(Pool!List', d) /\ Pool!Queue' = Tail(Pool!Queue) /\ Pool!Queue # << >>
    BY <1>1, <2>1, <2>2, BecomesIs
  <2>4. Pool!Abs!TakeFirst
    BY <2>3 DEF Pool!Abs!TakeFirst
  <2> QED
    BY <2>3, <2>4 DEF Pool!Abs!Next
<1>7. CASE Pool!RemovePlanProfs
  <2>1. PICK a \in Addrs, profs \in Pool!Abs!Plans : Pool!Becomes(Pool!RemovePlan(Pool!List, a, profs))
    BY <1>7 DEF Pool!RemovePlanProfs
  <2>2. /\ Holds(Pool!RemovePlan(Pool!List, a, profs), c)
        /\ Nodes(Pool!RemovePlan(Pool!List, a, profs), c) = Pool!Abs!RemovePlan(q, a, profs)
    BY RemovePlanIs DEF q
  <2>3. Holds(Pool!List', c) /\ Pool!Queue' = Pool!Abs!RemovePlan(Pool!Queue, a, profs)
    BY <1>1, <2>1, <2>2, BecomesIs
  <2>4. Pool!Abs!RemovePlanProfs
    BY <2>3 DEF Pool!Abs!RemovePlanProfs
  <2> QED
    BY <2>3, <2>4 DEF Pool!Abs!Next
<1>8. CASE Pool!DeleteGroupMember
  <2>1. PICK d : /\ Holds(Pool!DeleteGroup(Pool!List), d)
                 /\ Nodes(Pool!DeleteGroup(Pool!List), d) = Pool!Abs!DeleteGroup(q)
    BY DeleteGroupIs DEF q
  <2>2. Holds(Pool!List', d) /\ Pool!Queue' = Pool!Abs!DeleteGroup(Pool!Queue)
    BY <1>1, <1>8, <2>1, BecomesIs DEF Pool!DeleteGroupMember
  <2>3. Pool!Abs!DeleteGroupMember
    BY <2>2 DEF Pool!Abs!DeleteGroupMember
  <2> QED
    BY <2>2, <2>3 DEF Pool!Abs!Next
<1>9. CASE Pool!Reinsert
  <2>1. PICK n \in Pool!Abs!ActiveNodes, used \in Pool!Abs!Times, isNormal \in BOOLEAN :
            Pool!Becomes(Pool!UseLeftTime(Pool!List, n, used, isNormal))
    BY <1>9 DEF Pool!Reinsert
  <2>2. PICK d : \E stale \in Pool!Abs!Checks :
            /\ Holds(Pool!UseLeftTime(Pool!List, n, used, isNormal), d)
            /\ Nodes(Pool!UseLeftTime(Pool!List, n, used, isNormal), d)
                  = Pool!Abs!UseLeftTime(q, n, used, isNormal, stale)
    BY UseLeftTimeIs DEF q
  <2>3. PICK stale \in Pool!Abs!Checks :
            /\ Holds(Pool!UseLeftTime(Pool!List, n, used, isNormal), d)
            /\ Nodes(Pool!UseLeftTime(Pool!List, n, used, isNormal), d)
                  = Pool!Abs!UseLeftTime(q, n, used, isNormal, stale)
    BY <2>2
  <2>4. Holds(Pool!List', d) /\ Pool!Queue' = Pool!Abs!UseLeftTime(Pool!Queue, n, used, isNormal, stale)
    BY <1>1, <2>1, <2>3, BecomesIs
  <2>5. Pool!Abs!Reinsert
    BY <2>4 DEF Pool!Abs!Reinsert
  <2> QED
    BY <2>4, <2>5 DEF Pool!Abs!Next
<1>10. CASE Pool!Load
  <2>1. PICK bonds \in Pool!Abs!BondLists, t \in Pool!Abs!Times \ {0} :
            /\ Len(bonds) > 1 => 2 * t \in Pool!Abs!Times
            /\ Pool!Becomes(Pool!LoadBondList(Pool!List, bonds, t))
    BY <1>10 DEF Pool!Load
  <2>2. PICK d : \E s \in Stales :
            /\ Holds(Pool!LoadBondList(Pool!List, bonds, t), d)
            /\ Nodes(Pool!LoadBondList(Pool!List, bonds, t), d) = Pool!Abs!LoadBondList(bonds, t, s)
    BY <2>1, LoadBondListIs
  <2>3. PICK s \in Stales :
            /\ Holds(Pool!LoadBondList(Pool!List, bonds, t), d)
            /\ Nodes(Pool!LoadBondList(Pool!List, bonds, t), d) = Pool!Abs!LoadBondList(bonds, t, s)
    BY <2>2
  <2>4. Holds(Pool!List', d) /\ Pool!Queue' = Pool!Abs!LoadBondList(bonds, t, s)
    BY <2>1, <2>3, BecomesIs
  <2>5. s \in [1 .. ItemNum -> Pool!Abs!Checks]
    BY DEF Stales
  <2>6. Pool!Abs!Load
    BY <2>1, <2>4, <2>5 DEF Pool!Abs!Load
  <2> QED
    BY <2>4, <2>6 DEF Pool!Abs!Next
<1> QED
  BY <1>3, <1>4, <1>5, <1>6, <1>7, <1>8, <1>9, <1>10 DEF Pool!Next

\* The invariant: the pool is the list of some sequence of items.
IsList == \E c : Holds(Pool!List, c)

\* The first state is the empty list and the empty queue.
LEMMA InitIsList ==
    ASSUME Pool!Init
    PROVE  IsList /\ Pool!Abs!Init
<1>1. /\ DOMAIN Pool!List = {"item", "head", "tail"}
      /\ Pool!List.item = Pool!Zeroed.item /\ Pool!List.head = Pool!Zeroed.head /\ Pool!List.tail = Pool!Zeroed.tail
  BY DEF Pool!List, Pool!Init
<1>2. Holds(Pool!List, << >>) /\ Nodes(Pool!List, << >>) = << >>
  BY <1>1, ZeroedIs, SameList
<1>3. Pool!Queue = << >>
  BY <1>2, QueueIs
<1> QED
  BY <1>2, <1>3 DEF IsList, Pool!Abs!Init

\* Each step of the list is one of the queue, or none.
LEMMA NextIsList ==
    ASSUME IsList, [Pool!Next]_(Pool!vars)
    PROVE  IsList' /\ [Pool!Abs!Next]_(Pool!Queue)
<1>1. PICK c : Holds(Pool!List, c)
  BY DEF IsList
<1>2. CASE Pool!Next
  BY <1>1, <1>2, Step DEF IsList
<1>3. CASE UNCHANGED Pool!vars
  <2>1. UNCHANGED <<item, head, tail>>
    BY <1>3 DEF Pool!vars
  <2>2. Pool!List' = Pool!List /\ Pool!Queue' = Pool!Queue
    BY <2>1 DEF Pool!List, Pool!Queue, Pool!Chain
  <2> QED
    BY <1>1, <2>2 DEF IsList
<1> QED
  BY <1>2, <1>3

\* A list that stands for a sequence leaks and dangles nowhere.
LEMMA IsListIsExact ==
    ASSUME IsList
    PROVE  Pool!PoolExact
<1>1. PICK c : Holds(Pool!List, c)
  BY DEF IsList
<1>2. /\ Len(c) \in Nat /\ DOMAIN c = 1 .. Len(c)
      /\ item \in [Pool!Items -> FreeItem \cup UsedItem]
      /\ \A k \in 1 .. Len(c) : c[k] \in Pool!Items
      /\ \A i \in Pool!Items : item[i].used <=> \E k \in 1 .. Len(c) : c[k] = i
      /\ head = IF Len(c) = 0 THEN Pool!Null ELSE c[1]
      /\ tail = IF Len(c) = 0 THEN Pool!Null ELSE c[Len(c)]
      /\ \A k \in 1 .. Len(c) : item[c[k]].next = IF k = Len(c) THEN Pool!Null ELSE c[k + 1]
  <2>1. Chained(Pool!List, c) /\ Pool!List.item = item /\ Pool!List.head = head /\ Pool!List.tail = tail
    BY <1>1 DEF Holds, Pool!List
  <2> QED
    BY <2>1, ListFacts DEF Chained
<1>3. Pool!Chain = c
  BY <1>1, QueueIs
<1>4. Len(c) # 0 => /\ 1 \in 1 .. Len(c) /\ Len(c) \in 1 .. Len(c)
                    /\ c[1] \in Pool!Items /\ c[Len(c)] \in Pool!Items /\ Pool!Null \notin Pool!Items
  <2>1. Len(c) # 0 => 1 \in 1 .. Len(c) /\ Len(c) \in 1 .. Len(c)
    <3>1. Len(c) \in Nat
      BY <1>2
    <3> QED
      BY <3>1
  <2>2. Pool!Null \notin Pool!Items
    BY Constants DEF Pool!Null
  <2> QED
    BY <1>2, <2>1, <2>2
<1>5. Pool!TypeOK
  <2>1. ASSUME NEW i \in Pool!Items
        PROVE  /\ item[i].used \in BOOLEAN
               /\ item[i].next \in Pool!Items \cup {Pool!Null}
               /\ item[i].used => item[i].node \in Pool!Abs!Node
    <3>1. item[i] \in FreeItem \cup UsedItem
      BY <1>2
    <3>2. /\ item[i].used \in BOOLEAN
          /\ item[i].next \in Pool!Items \cup {Pool!Null}
          /\ item[i].used => item[i] \in UsedItem
      BY <3>1, ItemFacts
    <3>3. Entry \subseteq Pool!Abs!Node
      <4>1. Pool!Abs!Plans = SUBSET PoolProfs /\ Pool!Abs!Checks \subseteq BOOLEAN
        BY Constants DEF Pool!Abs!Plans
      <4> QED
        BY <4>1 DEF Entry, Pool!Abs!Node
    <3> QED
      BY <3>2, <3>3 DEF UsedItem
  <2>2. head \in Pool!Items \cup {Pool!Null} /\ tail \in Pool!Items \cup {Pool!Null}
    BY <1>2, <1>4
  <2> QED
    BY <2>1, <2>2 DEF Pool!TypeOK
<1>6. {i \in Pool!Items : item[i].used} = Pool!InSeq(Pool!Chain)
  <2>1. ASSUME NEW i \in Pool!Items
        PROVE  item[i].used <=> i \in {c[k] : k \in 1 .. Len(c)}
    BY <1>2
  <2>2. \A i \in {c[k] : k \in 1 .. Len(c)} : i \in Pool!Items
    BY <1>2
  <2>3. {i \in Pool!Items : item[i].used} = {c[k] : k \in 1 .. Len(c)}
    BY <2>1, <2>2
  <2>4. Pool!InSeq(c) = {c[k] : k \in 1 .. Len(c)}
    BY <1>2, Zenon DEF Pool!InSeq
  <2> QED
    BY <1>3, <2>3, <2>4
<1>7. Pool!TailIsLast
  <2>1. CASE Len(c) = 0
    BY <1>2, <2>1 DEF Pool!TailIsLast
  <2>2. CASE Len(c) # 0
    <3>1. c[1] # Pool!Null /\ Len(c) \in 1 .. Len(c)
      BY <1>4, <2>2
    <3>2. head # Pool!Null /\ tail = c[Len(c)] /\ item[tail].next = Pool!Null
      BY <1>2, <2>2, <3>1
    <3> QED
      BY <1>3, <3>2 DEF Pool!TailIsLast
  <2> QED
    BY <2>1, <2>2
<1> QED
  BY <1>5, <1>6, <1>7 DEF Pool!PoolExact

\* The pool of app_linkback.c neither leaks nor dangles, whatever its size,
\* the phones, their profiles and the calls: an item is marked used exactly
\* when the next pointers reach it from the head, and the tail is the last.
THEOREM ListIsExact == Pool!Spec => []Pool!PoolExact
<1>1. Pool!Init => IsList
  BY InitIsList
<1>2. IsList /\ [Pool!Next]_(Pool!vars) => IsList'
  BY NextIsList
<1>3. IsList => Pool!PoolExact
  BY IsListIsExact
<1> QED
  BY <1>1, <1>2, <1>3, PTL DEF Pool!Spec

\* The linked list of app_linkback.c implements the sequence of TodoQueue,
\* call for call, so that its callers may be reasoned about with the latter.
THEOREM ListIsTodoQueue == Pool!Spec => Pool!Abs!Spec
<1>1. Pool!Init => IsList /\ Pool!Abs!Init
  BY InitIsList
<1>2. IsList /\ [Pool!Next]_(Pool!vars) => IsList' /\ [Pool!Abs!Next]_(Pool!Queue)
  BY NextIsList
<1> QED
  BY <1>1, <1>2, PTL DEF Pool!Spec, Pool!Abs!Spec

\* Beside the abstract queue the list takes its own steps or none.
LEMMA QueuesPool == QueuesSpec => Pool!Spec
<1>1. QueuesInit => Pool!Init
  BY DEF QueuesInit
<1>2. [QueuesNext]_<<queue, item, head, tail>> => [Pool!Next]_(Pool!vars)
  BY DEF QueuesNext, Pool!vars
<1> QED
  BY <1>1, <1>2, PTL DEF QueuesSpec, Pool!Spec

\* The pool neither leaks nor dangles, as the run of the queues checks it on
\* a pool of two items.
THEOREM PoolIsExact == QueuesSpec => []PoolExact
BY ListIsExact, QueuesPool, PTL DEF PoolExact

\* The list implements the sequence, as the run of the queues checks it.
THEOREM PoolIsTodoQueue == QueuesSpec => ImplementsTodoQueue
BY ListIsTodoQueue, QueuesPool, PTL DEF ImplementsTodoQueue, Pool!ImplementsTodoQueue

=============================================================================
