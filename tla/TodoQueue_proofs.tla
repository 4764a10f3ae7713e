--------------------------- MODULE TodoQueue_proofs ---------------------------
(***************************************************************************)
(* The invariants of TodoQueue hold whatever the addresses, the profiles   *)
(* and the size of the pool.  Each list function is shown to keep a sound  *)
(* queue sound; the steps of the specification follow.                     *)
(***************************************************************************)
EXTENDS TodoQueue, FiniteSetTheorems, FunctionTheorems, TLAPS

\* The invariants, of any queue q.
Shape(q) ==
    /\ q \in Seq(Node)
    /\ Len(q) <= ItemNum
    /\ \A i, j \in 1 .. Len(q) : q[i].addr = q[j].addr => i = j
    /\ \A i, j \in 1 .. Len(q) : q[i].group /\ q[j].group => q[i].retry = q[j].retry

Sound(q) == Shape(q) /\ \A i \in 1 .. Len(q) : q[i].retry > 0

-----------------------------------------------------------------------------
(* Keep.                                                                   *)

\* Counting the members of a finite set of positions up to each member
\* numbers them 1, 2, ... : for each number there is one position.
LEMMA RankOnto ==
    ASSUME NEW n \in Nat, NEW K \in SUBSET (1 .. n)
    PROVE  /\ Cardinality(K) \in 0 .. n
           /\ \A k \in 1 .. Cardinality(K) :
                \E i \in K : Cardinality({j \in K : j <= i}) = k
PROOF
<1> DEFINE Upto(i) == {j \in K : j <= i}
           rank    == [i \in K |-> Cardinality(Upto(i))]
           c       == Cardinality(K)
<1>1. IsFiniteSet(K) /\ c \in Nat /\ c <= n
  <2>1. IsFiniteSet(1 .. n) /\ Cardinality(1 .. n) = n
    BY FS_Interval
  <2>2. IsFiniteSet(K) /\ c <= n
    BY <2>1, FS_Subset
  <2> QED
    BY <2>2, FS_CardinalityType
<1>2. ASSUME NEW i \in K
      PROVE  IsFiniteSet(Upto(i)) /\ Cardinality(Upto(i)) \in 1 .. c
  <2>1. IsFiniteSet(Upto(i)) /\ Cardinality(Upto(i)) <= c
    BY <1>1, FS_Subset, Upto(i) \in SUBSET K
  <2>2. Upto(i) # {}
    OBVIOUS
  <2> QED
    BY <1>1, <2>1, <2>2, FS_CardinalityType, FS_EmptySet
<1>3. ASSUME NEW i \in K, NEW j \in K, i < j
      PROVE  Cardinality(Upto(i)) # Cardinality(Upto(j))
  <2>0. K \subseteq Int /\ i \in Int /\ j \in Int
    OBVIOUS
  <2>1. Upto(i) \in SUBSET Upto(j) /\ j \in Upto(j) /\ j \notin Upto(i)
    <3>1. \A x \in Upto(i) : x \in Upto(j)
      BY <1>3, <2>0
    <3>2. j \in Upto(j) /\ j \notin Upto(i)
      BY <1>3, <2>0
    <3> QED
      BY <3>1, <3>2
  <2> HIDE DEF Upto
  <2> QED
    BY <1>2, <2>1, FS_Subset
<1>4. rank \in [K -> 1 .. c] /\ \A i, j \in K : rank[i] = rank[j] => i = j
  <2>1. rank \in [K -> 1 .. c]
    BY <1>2
  <2>2. ASSUME NEW i \in K, NEW j \in K, rank[i] = rank[j]
        PROVE  i = j
    <3>1. i \in Int /\ j \in Int
      OBVIOUS
    <3>2. Cardinality(Upto(i)) = Cardinality(Upto(j))
      BY <2>2
    <3> HIDE DEF Upto
    <3>3. ~(i < j) /\ ~(j < i)
      BY <1>3, <3>2
    <3> QED
      BY <3>1, <3>3
  <2> QED
    BY <2>1, <2>2
<1>5. rank \in Injection(K, 1 .. c)
  BY <1>4, Fun_IsInj
<1>6. IsFiniteSet(1 .. c) /\ Cardinality(1 .. c) = c
  BY <1>1, FS_Interval
<1>7. rank \in Surjection(K, 1 .. c)
  BY <1>5, <1>6, FS_Injection
<1>8. \A k \in 1 .. c : \E i \in K : rank[i] = k
  BY <1>7 DEF Surjection
<1>9. \A i \in K : rank[i] = Cardinality({j \in K : j <= i})
  OBVIOUS
<1> HIDE DEF rank
<1> QED
  BY <1>1, <1>8, <1>9

\* Keep returns a sequence of as many entries as there are positions, each
\* the entry of one of the positions, no position twice.
LEMMA KeepProperties ==
    ASSUME NEW S, NEW q \in Seq(S), NEW K \in SUBSET (1 .. Len(q))
    PROVE  /\ Keep(q, K) \in Seq(S)
           /\ Len(Keep(q, K)) <= Len(q)
           /\ \E f \in [1 .. Len(Keep(q, K)) -> K] :
                /\ \A k, m \in 1 .. Len(Keep(q, K)) : f[k] = f[m] => k = m
                /\ \A k \in 1 .. Len(Keep(q, K)) : Keep(q, K)[k] = q[f[k]]
PROOF
<1> DEFINE c == Cardinality(K)
           f == [k \in 1 .. c |-> NthOf(K, k)]
<1>1. Len(q) \in Nat /\ c \in 0 .. Len(q)
  BY RankOnto
<1>2. \A k \in 1 .. c : /\ NthOf(K, k) \in K
                        /\ Cardinality({j \in K : j <= NthOf(K, k)}) = k
  <2> SUFFICES ASSUME NEW k \in 1 .. c
               PROVE  \E i \in K : Cardinality({j \in K : j <= i}) = k
    BY DEF NthOf
  <2> QED
    BY <1>1, RankOnto
<1>3. \A k \in 1 .. c : q[NthOf(K, k)] \in S
  <2>1. \A i \in 1 .. Len(q) : q[i] \in S
    OBVIOUS
  <2> QED
    BY <1>2, <2>1
<1>4. /\ Keep(q, K) \in Seq(S)
      /\ Len(Keep(q, K)) = c
      /\ \A k \in 1 .. c : Keep(q, K)[k] = q[NthOf(K, k)]
  BY <1>1, <1>3 DEF Keep
<1>5. /\ f \in [1 .. c -> K]
      /\ \A k, m \in 1 .. c : f[k] = f[m] => k = m
      /\ \A k \in 1 .. c : Keep(q, K)[k] = q[f[k]]
  BY <1>2, <1>4
<1> HIDE DEF f
<1> QED
  BY <1>1, <1>4, <1>5

-----------------------------------------------------------------------------
(* Each list function keeps a sound queue sound.                           *)

\* A function on the positions that keeps addresses, keeps entries nodes and
\* gives the group one time keeps the shape of the queue.
LEMMA MapShape ==
    ASSUME NEW q, Shape(q), NEW f \in [1 .. Len(q) -> Node],
           \A i \in 1 .. Len(q) : f[i].addr = q[i].addr,
           \A i, j \in 1 .. Len(q) : f[i].group /\ f[j].group => f[i].retry = f[j].retry
    PROVE  Shape(f) /\ Len(f) = Len(q)
PROOF
<1>1. q \in Seq(Node) /\ Len(q) \in Nat
  BY DEF Shape
<1>2. f \in Seq(Node) /\ Len(f) = Len(q)
  BY <1>1
<1> QED
  BY <1>2 DEF Shape

LEMMA KeepShape ==
    ASSUME NEW q, Shape(q), NEW K \in SUBSET (1 .. Len(q))
    PROVE  /\ Shape(Keep(q, K))
           /\ \A k \in 1 .. Len(Keep(q, K)) : \E i \in K : Keep(q, K)[k] = q[i]
PROOF
<1>1. q \in Seq(Node) /\ Len(q) \in Nat
  BY DEF Shape
<1>2. Keep(q, K) \in Seq(Node) /\ Len(Keep(q, K)) <= Len(q)
  BY <1>1, KeepProperties
<1>3. PICK f \in [1 .. Len(Keep(q, K)) -> K] :
         /\ \A k, m \in 1 .. Len(Keep(q, K)) : f[k] = f[m] => k = m
         /\ \A k \in 1 .. Len(Keep(q, K)) : Keep(q, K)[k] = q[f[k]]
  BY <1>1, KeepProperties
<1>4. \A k \in 1 .. Len(Keep(q, K)) : f[k] \in K /\ f[k] \in 1 .. Len(q)
  BY <1>3
<1> DEFINE kept == Keep(q, K)
<1>5. /\ \A i, j \in 1 .. Len(q) : q[i].addr = q[j].addr => i = j
      /\ \A i, j \in 1 .. Len(q) : q[i].group /\ q[j].group => q[i].retry = q[j].retry
  BY DEF Shape
<1>6. ASSUME NEW k \in 1 .. Len(kept), NEW m \in 1 .. Len(kept)
      PROVE  /\ kept[k].addr = kept[m].addr => k = m
             /\ kept[k].group /\ kept[m].group => kept[k].retry = kept[m].retry
  <2>1. kept[k] = q[f[k]] /\ kept[m] = q[f[m]] /\ f[k] \in 1 .. Len(q) /\ f[m] \in 1 .. Len(q)
    BY <1>3, <1>4
  <2>2. f[k] = f[m] => k = m
    BY <1>3
  <2> HIDE DEF kept
  <2> QED
    BY <2>1, <2>2, <1>5
<1>7. Len(kept) <= ItemNum
  BY <1>1, <1>2, TodoQueueAssumption DEF Shape
<1> QED
  BY <1>2, <1>3, <1>4, <1>6, <1>7 DEF Shape

LEMMA KeepSound ==
    ASSUME NEW q, Sound(q), NEW K \in SUBSET (1 .. Len(q))
    PROVE  Sound(Keep(q, K))
PROOF
  BY KeepShape DEF Sound

\* A request that waits already is merged; its group mark can only go.
LEMMA MergeIntoSound ==
    ASSUME NEW q, Sound(q), NEW n \in Node, n.retry > 0
    PROVE  Sound(MergeInto(q, n))
PROOF
<1> DEFINE f == MergeInto(q, n)
<1>1. q \in Seq(Node) /\ Len(q) \in Nat /\ \A i \in 1 .. Len(q) : q[i] \in Node
  BY DEF Sound, Shape
<1>2. ASSUME NEW old \in Node, old.addr = n.addr, old.retry > 0
      PROVE  /\ Merged(old, n) \in Node
             /\ Merged(old, n).addr = old.addr
             /\ Merged(old, n).retry > 0
             /\ Merged(old, n).group => Merged(old, n) = old
  BY <1>2 DEF Merged, Node
<1>3. f \in [1 .. Len(q) -> Node] /\ \A i \in 1 .. Len(q) :
          /\ f[i].addr = q[i].addr
          /\ f[i].retry > 0
          /\ f[i].group => f[i] = q[i]
  BY <1>1, <1>2 DEF MergeInto, Sound
<1>4. Shape(f) /\ Len(f) = Len(q)
  <2>1. \A i, j \in 1 .. Len(q) : f[i].group /\ f[j].group => f[i].retry = f[j].retry
    BY <1>3 DEF Sound, Shape
  <2> HIDE DEF f
  <2> QED
    BY <1>3, <2>1, MapShape DEF Sound
<1> QED
  BY <1>3, <1>4 DEF Sound

\* A new node joins a sound queue at either end, when its address does not
\* wait yet, it has time left, and as a group member it has the group's time.
LEMMA InsertSound ==
    ASSUME NEW q, Sound(q), NEW n \in Node, n.retry > 0,
           n.group => \A i \in 1 .. Len(q) : q[i].group => q[i].retry = n.retry
    PROVE  Sound(InsertNormal(q, n)) /\ Sound(InsertForce(q, n))
PROOF
<1>1. q \in Seq(Node) /\ Len(q) \in Nat
  BY DEF Sound, Shape
<1> DEFINE m == [n EXCEPT !.force = FALSE]
           p == [n EXCEPT !.force = TRUE]
<1>2. /\ m \in Node /\ m.addr = n.addr /\ m.retry = n.retry /\ m.group = n.group
      /\ p \in Node /\ p.addr = n.addr /\ p.retry = n.retry /\ p.group = n.group
  BY DEF Node
<1> HIDE DEF m, p
<1>3. CASE Waiting(q, n.addr)
  <2>1. Waiting(q, p.addr)
    BY <1>2, <1>3
  <2> QED
    BY <1>2, <1>3, <2>1, MergeIntoSound DEF InsertNormal, InsertForce, p
<1>4. CASE ~Waiting(q, n.addr) /\ Len(q) < ItemNum
  <2>1. Sound(Append(q, m))
    <3>1. /\ Append(q, m) \in Seq(Node) /\ Len(Append(q, m)) = Len(q) + 1
          /\ \A i \in 1 .. Len(q) : Append(q, m)[i] = q[i]
          /\ Append(q, m)[Len(q) + 1] = m
      BY <1>1, <1>2
    <3>2. \A i \in 1 .. Len(q) + 1 : i \in 1 .. Len(q) \/ i = Len(q) + 1
      BY <1>1
    <3>3. \A i \in 1 .. Len(q) : q[i].addr # m.addr
      BY <1>2, <1>4 DEF Waiting
    <3>4. Len(q) + 1 <= ItemNum
      BY <1>1, <1>4, TodoQueueAssumption
    <3> QED
      BY <1>1, <1>2, <3>1, <3>2, <3>3, <3>4 DEF Sound, Shape
  <2>2. Sound(<<p>> \o q)
    <3>1. /\ <<p>> \o q \in Seq(Node) /\ Len(<<p>> \o q) = Len(q) + 1
          /\ (<<p>> \o q)[1] = p
          /\ \A i \in 2 .. Len(q) + 1 : (<<p>> \o q)[i] = q[i - 1]
      BY <1>1, <1>2
    <3>2. \A i \in 1 .. Len(q) + 1 : i = 1 \/ (i \in 2 .. Len(q) + 1 /\ i - 1 \in 1 .. Len(q))
      BY <1>1
    <3>3. \A i \in 1 .. Len(q) : q[i].addr # p.addr
      BY <1>2, <1>4 DEF Waiting
    <3>4. Len(q) + 1 <= ItemNum
      BY <1>1, <1>4, TodoQueueAssumption
    <3> DEFINE r == <<p>> \o q
    <3> HIDE DEF r
    <3>5. \A i, j \in 1 .. Len(q) + 1 : r[i].addr = r[j].addr => i = j
      <4> SUFFICES ASSUME NEW i \in 1 .. Len(q) + 1, NEW j \in 1 .. Len(q) + 1,
                          r[i].addr = r[j].addr
                   PROVE  i = j
        OBVIOUS
      <4>1. CASE i = 1 /\ j # 1
        BY <3>1, <3>2, <3>3, <4>1 DEF r
      <4>2. CASE i # 1 /\ j = 1
        BY <3>1, <3>2, <3>3, <4>2 DEF r
      <4>3. CASE i # 1 /\ j # 1
        <5>1. i - 1 \in 1 .. Len(q) /\ j - 1 \in 1 .. Len(q) /\ q[i - 1].addr = q[j - 1].addr
          BY <3>1, <3>2, <4>3 DEF r
        <5>2. i - 1 = j - 1
          BY <5>1 DEF Sound, Shape
        <5> QED
          BY <5>2
      <4> QED
        BY <4>1, <4>2, <4>3
    <3>6. \A i, j \in 1 .. Len(q) + 1 : r[i].group /\ r[j].group => r[i].retry = r[j].retry
      BY <1>2, <3>1, <3>2 DEF Sound, Shape, r
    <3>7. \A i \in 1 .. Len(q) + 1 : r[i].retry > 0
      BY <1>2, <3>1, <3>2 DEF Sound, r
    <3> QED
      BY <3>1, <3>4, <3>5, <3>6, <3>7 DEF Sound, Shape, r
  <2> QED
    BY <1>4, <1>2, <2>1, <2>2 DEF InsertNormal, InsertForce, m, p, Waiting
<1>5. CASE ~Waiting(q, n.addr) /\ ~(Len(q) < ItemNum)
  BY <1>5, <1>2 DEF InsertNormal, InsertForce, Waiting
<1> QED
  BY <1>3, <1>4, <1>5

LEMMA RemovePlanSound ==
    ASSUME NEW q, Sound(q), NEW a, NEW profs
    PROVE  Sound(RemovePlan(q, a, profs))
PROOF
<1> DEFINE f == RemovePlan(q, a, profs)
<1>1. q \in Seq(Node) /\ Len(q) \in Nat /\ \A i \in 1 .. Len(q) : q[i] \in Node
  BY DEF Sound, Shape
<1>2. f \in [1 .. Len(q) -> Node] /\ \A i \in 1 .. Len(q) :
          f[i].addr = q[i].addr /\ f[i].retry = q[i].retry /\ f[i].group = q[i].group
  BY <1>1 DEF RemovePlan, Node
<1> HIDE DEF f
<1>3. Shape(f) /\ Len(f) = Len(q)
  <2>1. \A i, j \in 1 .. Len(q) : f[i].group /\ f[j].group => f[i].retry = f[j].retry
    BY <1>2 DEF Sound, Shape
  <2> QED
    BY <1>2, <2>1, MapShape DEF Sound
<1> QED
  BY <1>2, <1>3 DEF Sound, f

\* The group's new time is everyone's in the group.
LEMMA SetGroupRetrySound ==
    ASSUME NEW q, Sound(q), NEW t \in Times, t > 0
    PROVE  /\ Sound(SetGroupRetry(q, t))
           /\ \A i \in 1 .. Len(SetGroupRetry(q, t)) :
                SetGroupRetry(q, t)[i].group => SetGroupRetry(q, t)[i].retry = t
PROOF
<1> DEFINE f == SetGroupRetry(q, t)
<1>1. q \in Seq(Node) /\ Len(q) \in Nat /\ \A i \in 1 .. Len(q) : q[i] \in Node
  BY DEF Sound, Shape
<1>2. f \in [1 .. Len(q) -> Node] /\ \A i \in 1 .. Len(q) :
          /\ f[i].addr = q[i].addr
          /\ f[i].retry > 0
          /\ f[i].group => f[i].retry = t
  BY <1>1 DEF SetGroupRetry, Node, Sound
<1> HIDE DEF f
<1>3. Shape(f) /\ Len(f) = Len(q)
  BY <1>2, MapShape DEF Sound
<1> QED
  BY <1>2, <1>3 DEF Sound, f

\* Charging may leave nodes without time; the deletion that follows it in
\* the same call removes exactly those.
LEMMA SubAloneSound ==
    ASSUME NEW q, Sound(q), NEW t \in Times
    PROVE  Sound(SubAlone(q, t))
PROOF
<1> DEFINE f == [i \in 1 .. Len(q) |-> Charge(q[i], t)]
<1>1. q \in Seq(Node) /\ Len(q) \in Nat /\ \A i \in 1 .. Len(q) : q[i] \in Node
  BY DEF Sound, Shape
<1>2. ASSUME NEW n \in Node, n.retry > 0
      PROVE  /\ Charge(n, t) \in Node
             /\ Charge(n, t).addr = n.addr
             /\ Charge(n, t).group = n.group
             /\ n.group => Charge(n, t) = n
             /\ ~Spends(n, t) => Charge(n, t).retry > 0
  <2>1. n.retry \in 0 .. MaxTime /\ t \in 0 .. MaxTime /\ MaxTime \in Nat
    BY TodoQueueAssumption DEF Node, Times
  <2>2. (IF n.retry > t THEN n.retry - t ELSE 0) \in 0 .. MaxTime
    BY <2>1
  <2>3. n.retry > t => n.retry - t > 0
    BY <2>1
  <2>4. CASE n.group
    BY <1>2, <2>4 DEF Charge
  <2>5. CASE ~n.group /\ n.first
    BY <1>2, <2>5 DEF Charge, Node
  <2>6. CASE ~n.group /\ ~n.first
    <3>1. /\ Charge(n, t) = [n EXCEPT !.retry = IF n.retry > t THEN n.retry - t ELSE 0]
          /\ ~Spends(n, t) => n.retry > t
      BY <2>1, <2>6 DEF Charge, Spends
    <3> QED
      BY <2>2, <2>3, <2>6, <3>1 DEF Node, Times
  <2> QED
    BY <2>4, <2>5, <2>6
<1>3. f \in [1 .. Len(q) -> Node] /\ \A i \in 1 .. Len(q) :
          /\ f[i].addr = q[i].addr
          /\ f[i].group = q[i].group
          /\ q[i].group => f[i] = q[i]
          /\ ~Spends(q[i], t) => f[i].retry > 0
  BY <1>1, <1>2 DEF Sound
<1> HIDE DEF f
<1>4. Shape(f) /\ Len(f) = Len(q)
  <2>1. \A i, j \in 1 .. Len(q) : f[i].group /\ f[j].group => f[i].retry = f[j].retry
    BY <1>3 DEF Sound, Shape
  <2> QED
    BY <1>3, <2>1, MapShape DEF Sound
<1>5. CASE \E i \in 1 .. Len(q) : Spends(q[i], t)
  <2> DEFINE K == {i \in 1 .. Len(q) : f[i].retry # 0}
  <2>1. K \in SUBSET (1 .. Len(f)) /\ \A i \in K : f[i].retry \in Nat /\ f[i].retry # 0
    BY <1>3, <1>4 DEF Node, Times
  <2> HIDE DEF K
  <2>2. Shape(Keep(f, K)) /\ \A k \in 1 .. Len(Keep(f, K)) : \E i \in K : Keep(f, K)[k] = f[i]
    BY <1>4, <2>1, KeepShape
  <2>3. Sound(Keep(f, K))
    BY <2>1, <2>2 DEF Sound
  <2> QED
    BY <1>5, <2>3 DEF SubAlone, f, K
<1>6. CASE ~\E i \in 1 .. Len(q) : Spends(q[i], t)
  <2>1. Sound(f)
    BY <1>3, <1>4, <1>6 DEF Sound
  <2> QED
    BY <1>6, <2>1 DEF SubAlone, f
<1> QED
  BY <1>5, <1>6

LEMMA DeleteGroupSound ==
    ASSUME NEW q, Sound(q)
    PROVE  Sound(DeleteGroup(q))
PROOF
  BY KeepSound, {i \in 1 .. Len(q) : ~q[i].group} \in SUBSET (1 .. Len(q)) DEF DeleteGroup

\* The active node goes back with the time left, which is positive, and as a
\* group member it has first given that time to the whole group.
LEMMA UseLeftTimeSound ==
    ASSUME NEW q, Sound(q), NEW n \in Node, NEW used \in Times,
           NEW isNormal \in BOOLEAN, NEW stale \in BOOLEAN
    PROVE  Sound(UseLeftTime(q, n, used, isNormal, stale))
PROOF
<1> DEFINE charged == SubAlone(q, used)
           left    == n.retry - used
           again   == [n EXCEPT !.retry = left, !.first = FALSE, !.force = FALSE,
                                !.check = IF isNormal THEN stale ELSE @]
           others  == IF n.group THEN SetGroupRetry(charged, left) ELSE charged
<1>1. Sound(charged)
  BY SubAloneSound
<1>2. CASE n.retry > used
  <2>1. left \in Times /\ left > 0
    BY <1>2, TodoQueueAssumption DEF Node, Times
  <2>2. again \in Node /\ again.retry = left /\ again.group = n.group
    BY <2>1 DEF Node
  <2>3. /\ Sound(others)
        /\ n.group => \A i \in 1 .. Len(others) : others[i].group => others[i].retry = left
    <3> HIDE DEF charged, left
    <3> QED
      BY <1>1, <2>1, SetGroupRetrySound
  <2>4. UseLeftTime(q, n, used, isNormal, stale) =
            IF isNormal THEN InsertNormal(others, again) ELSE InsertForce(others, again)
    BY <1>2 DEF UseLeftTime
  <2> HIDE DEF again, others, left
  <2> QED
    BY <2>1, <2>2, <2>3, <2>4, InsertSound
<1>3. CASE ~(n.retry > used)
  <2>1. UseLeftTime(q, n, used, isNormal, stale) =
            IF n.group THEN DeleteGroup(charged) ELSE charged
    BY <1>3 DEF UseLeftTime
  <2> HIDE DEF charged
  <2> QED
    BY <1>1, <2>1, DeleteGroupSound
<1> QED
  BY <1>2, <1>3

\* Distinct bonded phones make a sound queue.
LEMMA LoadBondListSound ==
    ASSUME NEW bonds, NEW m \in Nat, bonds \in [1 .. m -> [addr : Addrs, plan : Plans]],
           \A i, j \in 1 .. m : i # j => bonds[i].addr # bonds[j].addr,
           NEW t \in Times \ {0}, m > 1 => 2 * t \in Times,
           NEW stale \in [1 .. ItemNum -> BOOLEAN]
    PROVE  Sound(LoadBondList(bonds, t, stale))
PROOF
<1> DEFINE num  == Least({Len(bonds), MaxLoad})
           time == IF num > 1 THEN 2 * t ELSE t
           size == Least({num, ItemNum})
           f    == LoadBondList(bonds, t, stale)
<1>1. Len(bonds) = m /\ t \in Nat /\ t > 0 /\ MaxLoad \in Nat /\ ItemNum \in Nat
  BY TodoQueueAssumption DEF Times
<1>2. \A x, y \in Nat : /\ Least({x, y}) \in Nat
                        /\ Least({x, y}) <= x
                        /\ Least({x, y}) <= y
  <2> SUFFICES ASSUME NEW x \in Nat, NEW y \in Nat
               PROVE  \E z \in {x, y} : \A w \in {x, y} : z <= w
    BY DEF Least
  <2> QED
    BY x <= y \/ y <= x
<1>3. num \in Nat /\ num <= m /\ size \in Nat /\ size <= m /\ size <= ItemNum
  <2>1. num \in Nat /\ num <= m
    BY <1>1, <1>2
  <2> HIDE DEF num
  <2>2. size \in Nat /\ size <= num /\ size <= ItemNum
    BY <1>1, <1>2, <2>1
  <2> HIDE DEF size
  <2> QED
    BY <1>1, <2>1, <2>2
<1>4. time \in Times /\ time > 0
  <2> HIDE DEF num
  <2> QED
    BY <1>1, <1>3
<1>5. f = [i \in 1 .. size |->
              [addr |-> bonds[i].addr, plan |-> bonds[i].plan, retry |-> time, group |-> TRUE,
               first |-> TRUE, force |-> FALSE, check |-> stale[i]]]
  BY DEF LoadBondList
<1> HIDE DEF f, time, size, num
<1>6. \A i \in 1 .. size : i \in 1 .. m /\ i \in 1 .. ItemNum
  BY <1>1, <1>3
<1>7. f \in [1 .. size -> Node] /\ \A i \in 1 .. size : f[i].addr = bonds[i].addr /\ f[i].retry = time
  BY <1>4, <1>5, <1>6 DEF Node, Plans
<1>8. f \in Seq(Node) /\ Len(f) = size
  BY <1>3, <1>7
<1>9. \A i, j \in 1 .. size : f[i].addr = f[j].addr => i = j
  BY <1>6, <1>7
<1>10. Len(f) <= ItemNum
  BY <1>3, <1>8
<1>11. Sound(f)
  BY <1>4, <1>7, <1>8, <1>9, <1>10 DEF Sound, Shape
<1> QED
  BY <1>11 DEF f

-----------------------------------------------------------------------------
(* The invariants of the specification.                                    *)

\* What is left when the first node is taken.
LEMMA TailSound ==
    ASSUME NEW q, Sound(q), q # << >>
    PROVE  /\ Sound(Tail(q)) /\ Len(Tail(q)) = Len(q) - 1
           /\ \A i \in 1 .. Len(Tail(q)) : i + 1 \in 1 .. Len(q) /\ Tail(q)[i] = q[i + 1]
PROOF
<1> DEFINE r == Tail(q)
<1>1. q \in Seq(Node) /\ Len(q) \in Nat
  BY DEF Sound, Shape
<1>2. /\ r \in Seq(Node) /\ Len(r) = Len(q) - 1
      /\ \A i \in 1 .. Len(q) - 1 : r[i] = q[i + 1] /\ i + 1 \in 1 .. Len(q)
  BY <1>1
<1> HIDE DEF r
<1>3. \A i, j \in 1 .. Len(r) : r[i].addr = r[j].addr => i = j
  <2> SUFFICES ASSUME NEW i \in 1 .. Len(r), NEW j \in 1 .. Len(r), r[i].addr = r[j].addr
               PROVE  i = j
    OBVIOUS
  <2>1. i + 1 \in 1 .. Len(q) /\ j + 1 \in 1 .. Len(q) /\ q[i + 1].addr = q[j + 1].addr
    BY <1>2
  <2>2. i + 1 = j + 1
    BY <2>1 DEF Sound, Shape
  <2> QED
    BY <2>2
<1>4. Len(r) <= ItemNum
  BY <1>1, <1>2, TodoQueueAssumption DEF Sound, Shape
<1>5. \A i \in 1 .. Len(r) : r[i].retry > 0
  BY <1>2 DEF Sound
<1>6. \A i, j \in 1 .. Len(r) : r[i].group /\ r[j].group => r[i].retry = r[j].retry
  BY <1>2 DEF Sound, Shape
<1>7. Sound(r)
  BY <1>2, <1>3, <1>4, <1>5, <1>6 DEF Sound, Shape
<1> QED
  BY <1>2, <1>7 DEF r

\* TodoQueue's four invariants are together inductive: the addresses must be
\* distinct for the group to be told apart, and the group must share its time
\* for a member that goes back to leave every other member some.
THEOREM QueueSound == Spec => []Sound(queue)
PROOF
<1>1. Init => Sound(queue)
  BY TodoQueueAssumption DEF Init, Sound, Shape
<1>2. Sound(queue) /\ [Next]_queue => Sound(queue)'
  <2> SUFFICES ASSUME Sound(queue), [Next]_queue PROVE Sound(queue')
    BY DEF Sound, Shape
  <2>1. CASE QueueInit
    BY <2>1, TodoQueueAssumption DEF QueueInit, Sound, Shape
  <2>2. CASE Insert
    <3>1. \A n \in Requests : n \in Node /\ n.retry > 0 /\ ~n.group
      <4>1. Requests \subseteq Node
        BY TodoQueueAssumption DEF Requests, Node, Checks, Plans
      <4>2. \A t \in Times \ {0} : t > 0
        BY TodoQueueAssumption DEF Times
      <4> QED
        BY <4>1, <4>2 DEF Requests
    <3> QED
      BY <2>2, <3>1, InsertSound DEF Insert
  <2>3. CASE TakeFirst
    BY <2>3, TailSound DEF TakeFirst
  <2>4. CASE RemovePlanProfs
    BY <2>4, RemovePlanSound DEF RemovePlanProfs
  <2>5. CASE DeleteGroupMember
    BY <2>5, DeleteGroupSound DEF DeleteGroupMember
  <2>6. CASE Reinsert
    <3>1. ActiveNodes \subseteq Node /\ Checks \subseteq BOOLEAN
      BY TodoQueueAssumption DEF ActiveNodes, Node, Checks, Plans
    <3> QED
      BY <2>6, <3>1, UseLeftTimeSound DEF Reinsert
  <2>7. CASE Load
    <3>1. PICK bonds \in BondLists, t \in Times \ {0}, stale \in [1 .. ItemNum -> Checks] :
            /\ Len(bonds) > 1 => 2 * t \in Times
            /\ queue' = LoadBondList(bonds, t, stale)
      BY <2>7 DEF Load
    <3>2. PICK m \in 0 .. MaxLoad :
            /\ bonds \in [1 .. m -> [addr : Addrs, plan : Plans]]
            /\ \A i, j \in 1 .. m : i # j => bonds[i].addr # bonds[j].addr
      BY DEF BondLists
    <3>3. m \in Nat /\ Len(bonds) = m
      BY <3>2
    <3>4. stale \in [1 .. ItemNum -> BOOLEAN]
      BY TodoQueueAssumption DEF Checks
    <3> QED
      BY <3>1, <3>2, <3>3, <3>4, LoadBondListSound
  <2>8. CASE UNCHANGED queue
    BY <2>8
  <2> QED
    BY <2>1, <2>2, <2>3, <2>4, <2>5, <2>6, <2>7, <2>8 DEF Next
<1> QED
  BY <1>1, <1>2, PTL DEF Spec

\* Every entry is a node, and the pool bounds the queue.
THEOREM TypeCorrect == Spec => []TypeOK
PROOF
<1>1. Sound(queue) => TypeOK
  BY DEF Sound, Shape, TypeOK
<1> QED
  BY <1>1, QueueSound, PTL

\* No phone waits twice.
THEOREM NoDuplicates == Spec => []AddressesUnique
PROOF
<1>1. Sound(queue) => AddressesUnique
  BY DEF Sound, Shape, AddressesUnique
<1> QED
  BY <1>1, QueueSound, PTL

\* No node waits without time, and the members of the group have the same time
\* left, whatever calls are made.
THEOREM TimesAreRight == Spec => []TimesRight
PROOF
<1>1. Sound(queue) => NoSpentNode
  BY DEF Sound, NoSpentNode
<1>2. Sound(queue) => GroupSharesTime
  BY DEF Sound, Shape, GroupSharesTime
<1>3. Sound(queue) => TimesRight
  BY <1>1, <1>2 DEF TimesRight
<1> QED
  BY <1>3, QueueSound, PTL

=============================================================================
