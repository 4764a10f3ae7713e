--------------------------- MODULE Transfer_proofs ---------------------------
(***************************************************************************)
(* The ring of app_transfer.c, for every number of slots, links, events    *)
(* and attempts and every configuration: its types, that the slots in use  *)
(* are those between the indices, that packets keep their order, that      *)
(* nothing is sent out of order, and, with commands embedded, that a       *)
(* waiting packet is never forgotten.                                      *)
(*                                                                         *)
(* A handler is built from operators on the record dt.  Sound says what    *)
(* every one of them keeps.  Alive, the last of the results, does not hold *)
(* between them: Serve restores it at the end of a handler, which needs    *)
(* the ring to be exact (an empty slot at the read index means that no     *)
(* packet waits) and every packet to have its link.                        *)
(***************************************************************************)
EXTENDS MCTransfer, TLAPS

Fields == {"ring", "r", "w", "resend", "status", "timer", "again", "spp", "credit",
           "credited", "le", "last", "heard", "owed"}

\* q is a record of the right types; n packets were reported.
Typed(q, n) ==
    /\ DOMAIN q = Fields
    /\ q.ring \in [Slots -> Packet \cup {Empty}]
    /\ q.r \in Slots /\ q.w \in Slots
    /\ q.resend \in Nat
    /\ q.status \in {"idle", "active"} /\ q.timer \in {"off", "retry", "ack"}
    /\ q.again \in BOOLEAN
    /\ q.spp \subseteq SppLinks /\ q.credit \subseteq q.spp
    /\ q.credited \in q.spp \cup {None}
    /\ q.le \in [LeLinks -> {"closed", "open", "ready", "closing"}]
    /\ q.last \in Nat /\ q.last <= n /\ q.owed \in Nat
    /\ q.heard \subseteq Events \X SppLinks

Between(q, i) == IF q.r < q.w THEN q.r <= i /\ i < q.w ELSE q.r <= i \/ i < q.w

Exact(q) ==
    \/ \A i \in Slots : q.ring[i] # Empty <=> Between(q, i)
    \/ q.r = q.w /\ \A i \in Slots : q.ring[i] = Empty

\* Packets stand in the order of their ids, which are between the last one
\* sent and the last one reported.
Ordered(q, n) ==
    /\ \A i, j \in Slots : q.ring[i] # Empty /\ q.ring[j] # Empty /\ Before(q, i, j)
                              => q.ring[i].id < q.ring[j].id
    /\ \A i \in Slots : q.ring[i] # Empty => q.last <= q.ring[i].id /\ q.ring[i].id <= n

\* A packet over SPP has a link with the profile.
Owned(q) ==
    \A i \in Slots : q.ring[i] # Empty /\ q.ring[i].link \in SppLinks => q.ring[i].link \in q.spp

Sound(q, n) == Typed(q, n) /\ Exact(q) /\ Ordered(q, n) /\ Owned(q)

\* What an operator q |-> c keeps.
Kept(q, c, n) ==
    /\ Sound(c, n)
    /\ c.last >= q.last
    /\ c.resend \in {0, q.resend}
    /\ c.credited = q.credited /\ c.spp = q.spp /\ c.credit = q.credit

\* Between handlers: attempts are left, and a credit that waits to be noted
\* waits for a nested call.
Attempts(q) == q.resend = 0 \/ q.resend < Resend
Noted(q)    == q.again \/ q.credited = None

\* Something will move the queue, if it waits for something at all.
Moves(q) == q.again \/ q.timer # "off" \/ (q.status = "active" /\ q.owed > 0)
Alive(q) ==
    /\ q.status = "active" => Moves(q)
    /\ (\E i \in Slots : q.ring[i] # Empty) => Moves(q)

-----------------------------------------------------------------------------
(* The operators on the ring.                                              *)

LEMMA EmptyIsNoPacket == Empty \notin Packet
BY DEF Empty, Packet

\* What leaves the ring, its indices and the last packet sent alone.
LEMMA SameRing ==
    ASSUME NEW q, NEW c, NEW n \in Nat, Sound(q, n), Typed(c, n),
           c.ring = q.ring, c.r = q.r, c.w = q.w, c.last = q.last, q.spp \subseteq c.spp
    PROVE  Sound(c, n)
BY DEF Sound, Exact, Ordered, Owned, Between, Before

LEMMA AdvanceSound ==
    ASSUME NEW q, NEW n \in Nat, Sound(q, n), Head(q) # Empty
    PROVE  Kept(q, Advance(q), n) /\ Advance(q).last = q.last
<1> DEFINE c == Advance(q)
<1>1. /\ DOMAIN c = Fields /\ c.ring = [q.ring EXCEPT ![q.r] = Empty]
      /\ c.r = Succ(q.r) /\ c.w = q.w
      /\ \A f \in Fields \ {"ring", "r"} : c[f] = q[f]
  BY DEF Advance, Sound, Typed, Fields
<1>2. /\ \A i \in Slots : c.ring[i] = IF i = q.r THEN Empty ELSE q.ring[i]
      /\ c.ring \in [Slots -> Packet \cup {Empty}]
  BY <1>1 DEF Sound, Typed
<1>3. c.r \in Slots /\ q.r \in Slots /\ q.w \in Slots
  BY <1>1, TransferAssumption DEF TransferAssumption, Sound, Typed, Succ, Slots
<1>4. Typed(c, n)
  BY <1>1, <1>2, <1>3 DEF Sound, Typed, Fields
<1>5. \A i \in Slots : q.ring[i] # Empty <=> Between(q, i)
  BY <1>3 DEF Sound, Exact, Head
<1>6. Exact(c)
  <2>1. CASE c.r = c.w
    <3> DEFINE r == q.r
               w == q.w
    <3>1. r \in Slots /\ w \in Slots /\ w = Succ(r)
      BY <2>1, <1>1, <1>3
    <3>2. \A i \in Slots : (IF r < w THEN r <= i /\ i < w ELSE r <= i \/ i < w) => i = r
      <4> HIDE DEF r, w
      <4> QED
        BY <3>1, TransferAssumption DEF TransferAssumption, Succ, Slots
    <3>3. \A i \in Slots : Between(q, i) => i = q.r
      BY <3>2 DEF Between
    <3> QED
      BY <2>1, <3>3, <1>2, <1>5 DEF Exact
  <2>2. CASE c.r # c.w
    <3>1. \A i \in Slots : Between(c, i) <=> i # q.r /\ Between(q, i)
      BY <2>2, <1>1, <1>3, TransferAssumption DEF TransferAssumption, Between, Succ, Slots
    <3> QED
      BY <3>1, <1>2, <1>5 DEF Exact
  <2> QED
    BY <2>1, <2>2
<1>7. \A i, j \in Slots : i # q.r /\ j # q.r /\ Before(c, i, j) => Before(q, i, j)
  BY <1>1, <1>3, TransferAssumption DEF TransferAssumption, Before, Succ, Slots
<1>8. c.last = q.last
  BY <1>1 DEF Fields
<1>9. Ordered(c, n)
  BY <1>2, <1>7, <1>8 DEF Sound, Ordered
<1>10. Owned(c)
  BY <1>1, <1>2 DEF Sound, Owned, Fields
<1> QED
  BY <1>1, <1>4, <1>6, <1>8, <1>9, <1>10 DEF Kept, Sound, Typed, Fields

LEMMA SentSound ==
    ASSUME NEW q, NEW n \in Nat, Sound(q, n), Head(q) # Empty
    PROVE  Kept(q, Sent(q), n) /\ Sent(q).again = q.again
           /\ Sent(q).ring = q.ring /\ Sent(q).r = q.r
           /\ (Head(q).link \in LeLinks => Sent(q).owed > 0)
<1> DEFINE c == Sent(q)
<1>1. /\ DOMAIN c = Fields /\ c.last = Head(q).id
      /\ c.heard = q.heard \cup (({Head(q).event} \ {EventAck}) \X ({Head(q).link} \cap SppLinks))
      /\ c.owed = IF Head(q).link \in LeLinks THEN q.owed + 1 ELSE q.owed
      /\ \A f \in Fields \ {"last", "heard", "owed"} : c[f] = q[f]
  BY DEF Sent, Sound, Typed, Fields
<1>2. Head(q) \in Packet /\ q.r \in Slots
  BY DEF Head, Sound, Typed
<1>3. Head(q).id \in Nat /\ Head(q).event \in Events \cup {EventAck} /\ q.last <= Head(q).id /\ Head(q).id <= n
  BY <1>2 DEF Packet, Sound, Ordered, Head
<1>4. Typed(c, n)
  BY <1>1, <1>3 DEF Sound, Typed, Fields
<1>5. c.ring = q.ring /\ c.r = q.r /\ c.w = q.w /\ c.spp = q.spp
  BY <1>1 DEF Fields
<1>6. \A j \in Slots : j # q.r /\ q.ring[j] # Empty => Before(q, q.r, j)
  BY <1>2 DEF Before, Slots
<1>7. \A j \in Slots : q.ring[j] # Empty => Head(q).id <= q.ring[j].id
  <2> TAKE j \in Slots
  <2> HAVE q.ring[j] # Empty
  <2>1. q.ring[j] \in Packet
    BY DEF Sound, Typed
  <2>2. q.ring[j].id \in Nat
    BY <2>1 DEF Packet
  <2> QED
    BY <1>2, <1>3, <1>6, <2>2 DEF Sound, Ordered, Head
<1>8. Ordered(c, n)
  BY <1>1, <1>5, <1>7 DEF Sound, Ordered, Before
<1>9. Exact(c) /\ Owned(c)
  BY <1>5 DEF Sound, Exact, Between, Owned
<1> QED
  BY <1>1, <1>3, <1>4, <1>8, <1>9 DEF Kept, Sound, Typed, Fields

\* A packet is put at the write index.
Pushed(q, n, l, e) ==
    [q EXCEPT !.ring[q.w] = [id |-> n + 1, link |-> l, event |-> e], !.w = Succ(q.w)]

LEMMA PushSound ==
    ASSUME NEW q, NEW n \in Nat, Sound(q, n), q.ring[q.w] = Empty,
           NEW l \in Links, l \in SppLinks => l \in q.spp,
           NEW e \in Events \cup {EventAck}, n < MaxPackets
    PROVE  Sound(Pushed(q, n, l, e), n + 1) /\ Pushed(q, n, l, e).last = q.last
<1> DEFINE p == [id |-> n + 1, link |-> l, event |-> e]
           c == Pushed(q, n, l, e)
<1>1. /\ DOMAIN c = Fields /\ c.ring = [q.ring EXCEPT ![q.w] = p]
      /\ c.w = Succ(q.w) /\ c.r = q.r
      /\ \A f \in Fields \ {"ring", "w"} : c[f] = q[f]
  BY DEF Pushed, Sound, Typed, Fields
<1>2. p \in Packet /\ p # Empty
  BY TransferAssumption DEF TransferAssumption, Packet, Empty
<1> HIDE DEF p, c
<1>3. /\ \A i \in Slots : c.ring[i] = IF i = q.w THEN p ELSE q.ring[i]
      /\ c.ring \in [Slots -> Packet \cup {Empty}]
  BY <1>1, <1>2 DEF Sound, Typed
<1>4. c.w \in Slots /\ q.r \in Slots /\ q.w \in Slots
  BY <1>1, TransferAssumption DEF TransferAssumption, Sound, Typed, Succ, Slots
<1>5. Typed(c, n + 1)
  BY <1>1, <1>3, <1>4 DEF Sound, Typed, Fields
<1>6. \/ q.r # q.w /\ \A i \in Slots : q.ring[i] # Empty <=> Between(q, i)
      \/ q.r = q.w /\ \A i \in Slots : q.ring[i] = Empty
  <2>1. CASE q.r = q.w
    <3>1. Between(q, q.w)
      BY <2>1, <1>4 DEF Between, Slots
    <3> QED
      BY <2>1, <3>1, <1>4 DEF Sound, Exact
  <2>2. CASE q.r # q.w
    BY <2>2 DEF Sound, Exact
  <2> QED
    BY <2>1, <2>2
<1>7. \A i \in Slots : Between(c, i) <=> i = q.w \/ (q.r # q.w /\ Between(q, i))
  BY <1>1, <1>4, TransferAssumption DEF TransferAssumption, Between, Succ, Slots
<1>8. Exact(c)
  BY <1>2, <1>3, <1>6, <1>7 DEF Exact
<1>9. \A i, j \in Slots : Before(c, i, j) <=> Before(q, i, j)
  BY <1>1 DEF Before
<1>10. \A j \in Slots : j # q.w /\ q.ring[j] # Empty => ~Before(q, q.w, j)
  BY <1>4, <1>6 DEF Before, Between, Slots
<1>11. Ordered(c, n + 1) /\ c.last = q.last
  <2>1. c.last = q.last /\ p.id = n + 1 /\ q.last <= n /\ q.last \in Nat
    BY <1>1 DEF Fields, Sound, Typed, p
  <2>2. \A i \in Slots : q.ring[i] # Empty => q.ring[i].id \in Nat /\ q.ring[i].id <= n
    BY DEF Sound, Typed, Ordered, Packet
  <2>3. ASSUME NEW i \in Slots, NEW j \in Slots, c.ring[i] # Empty, c.ring[j] # Empty, Before(c, i, j)
        PROVE  c.ring[i].id < c.ring[j].id
    <3>1. i # j
      BY <2>3, <1>1, <1>4 DEF Before, Slots
    <3>2. i # q.w
      BY <2>3, <3>1, <1>3, <1>9, <1>10
    <3>3. CASE j = q.w
      BY <2>1, <2>2, <2>3, <3>2, <3>3, <1>3
    <3>4. CASE j # q.w
      BY <2>3, <3>2, <3>4, <1>3, <1>9 DEF Sound, Ordered
    <3> QED
      BY <3>3, <3>4
  <2>4. \A i \in Slots : c.ring[i] # Empty => c.last <= c.ring[i].id /\ c.ring[i].id <= n + 1
    BY <2>1, <2>2, <1>3 DEF Sound, Ordered
  <2> QED
    BY <2>1, <2>3, <2>4 DEF Ordered
<1>12. Owned(c)
  BY <1>1, <1>3 DEF Sound, Owned, Fields, p
<1> QED
  BY <1>5, <1>8, <1>11, <1>12 DEF Sound, c, p

LEMMA ResetSound ==
    ASSUME NEW q, NEW n \in Nat, Typed(q, n)
    PROVE  /\ Sound(Reset(q), n) /\ Reset(q).last = q.last
           /\ Reset(q).status = "idle" /\ Reset(q).again = q.again
           /\ \A i \in Slots : Reset(q).ring[i] = Empty
<1> DEFINE c == Reset(q)
<1>1. /\ DOMAIN c = Fields /\ c.ring = [i \in Slots |-> Empty] /\ c.r = 0 /\ c.w = 0
      /\ c.resend = 0 /\ c.status = "idle" /\ c.timer = "off"
      /\ \A f \in Fields \ {"ring", "r", "w", "resend", "status", "timer"} : c[f] = q[f]
  BY DEF Reset, Typed, Fields
<1>2. Typed(c, n)
  <2>1. 0 \in Slots /\ 0 \in Nat
    BY TransferAssumption DEF TransferAssumption, Slots
  <2>2. c.ring \in [Slots -> Packet \cup {Empty}]
    BY <1>1
  <2> HIDE DEF c
  <2> QED
    BY <1>1, <2>1, <2>2 DEF Typed, Fields
<1> QED
  BY <1>1, <1>2 DEF Sound, Exact, Ordered, Owned, Fields

-----------------------------------------------------------------------------
(* The operators that only set flags, and those built from them.           *)

LEMMA SameFlags ==
    ASSUME NEW q, NEW n \in Nat, Sound(q, n), NEW c, DOMAIN c = Fields,
           \A f \in Fields \ {"resend", "status", "timer", "again"} : c[f] = q[f],
           c.resend \in {0, q.resend}, c.status \in {"idle", "active"},
           c.timer \in {"off", "retry", "ack"}, c.again \in BOOLEAN
    PROVE  Kept(q, c, n)
<1>1. /\ c.ring = q.ring /\ c.r = q.r /\ c.w = q.w /\ c.last = q.last
      /\ c.spp = q.spp /\ c.credit = q.credit /\ c.credited = q.credited
  BY DEF Fields
<1>2. Typed(c, n)
  BY <1>1 DEF Sound, Typed, Fields
<1> QED
  BY <1>1, <1>2, SameRing DEF Kept, Sound, Typed

LEMMA TimerSet ==
    ASSUME NEW q, NEW n \in Nat, Sound(q, n), NEW ch \in {"off", "retry", "ack"}
    PROVE  Kept(q, Timer(q, ch), n) /\ Timer(q, ch).timer = ch
<1> DEFINE c == Timer(q, ch)
<1>1. /\ DOMAIN c = Fields /\ c.timer = ch
      /\ \A f \in Fields \ {"timer"} : c[f] = q[f]
  BY DEF Sound, Typed, Fields, Timer
<1> HIDE DEF c
<1>2. c.resend = q.resend /\ c.status = q.status /\ c.again = q.again
  BY <1>1 DEF Fields
<1> QED
  BY <1>1, <1>2, SameFlags DEF Sound, Typed, c

LEMMA AgainSet ==
    ASSUME NEW q, NEW n \in Nat, Sound(q, n)
    PROVE  Kept(q, Again(q), n) /\ Again(q).again = TRUE
<1> DEFINE c == Again(q)
<1>1. /\ DOMAIN c = Fields /\ c.again = TRUE
      /\ \A f \in Fields \ {"again"} : c[f] = q[f]
  BY DEF Sound, Typed, Fields, Again
<1> HIDE DEF c
<1>2. c.resend = q.resend /\ c.status = q.status /\ c.timer = q.timer
  BY <1>1 DEF Fields
<1> QED
  BY <1>1, <1>2, SameFlags DEF Sound, Typed, c

LEMMA StatusSet ==
    ASSUME NEW q, NEW n \in Nat, Sound(q, n)
    PROVE  LET c == [q EXCEPT !.status = "active"]
           IN  Kept(q, c, n) /\ c.status = "active" /\ c.owed = q.owed /\ c.again = q.again
<1> DEFINE c == [q EXCEPT !.status = "active"]
<1>1. /\ DOMAIN c = Fields /\ c.status = "active"
      /\ \A f \in Fields \ {"status"} : c[f] = q[f]
  BY DEF Sound, Typed, Fields
<1> HIDE DEF c
<1>2. c.resend = q.resend /\ c.timer = q.timer /\ c.again = q.again /\ c.owed = q.owed
  BY <1>1 DEF Fields
<1> QED
  BY <1>1, <1>2, SameFlags DEF Sound, Typed, c

LEMMA ResendReset ==
    ASSUME NEW q, NEW n \in Nat, Sound(q, n)
    PROVE  Kept(q, [q EXCEPT !.resend = 0], n)
<1> DEFINE c == [q EXCEPT !.resend = 0]
<1>1. /\ DOMAIN c = Fields /\ c.resend = 0
      /\ \A f \in Fields \ {"resend"} : c[f] = q[f]
  BY DEF Sound, Typed, Fields
<1> HIDE DEF c
<1>2. c.status = q.status /\ c.timer = q.timer /\ c.again = q.again
  BY <1>1 DEF Fields
<1> QED
  BY <1>1, <1>2, SameFlags DEF Sound, Typed, c

LEMMA AllReset ==
    ASSUME NEW q, NEW n \in Nat, Sound(q, n)
    PROVE  LET c == [q EXCEPT !.timer = "off", !.resend = 0, !.status = "idle"]
           IN  Kept(q, c, n) /\ c.resend = 0 /\ c.status = "idle" /\ c.again = q.again
<1> DEFINE c == [q EXCEPT !.timer = "off", !.resend = 0, !.status = "idle"]
<1>1. /\ DOMAIN c = Fields /\ c.timer = "off" /\ c.resend = 0 /\ c.status = "idle"
      /\ \A f \in Fields \ {"timer", "resend", "status"} : c[f] = q[f]
  BY DEF Sound, Typed, Fields
<1> HIDE DEF c
<1>2. c.again = q.again
  BY <1>1 DEF Fields
<1> QED
  BY <1>1, <1>2, SameFlags DEF Sound, Typed, c

LEMMA KeptTrans ==
    ASSUME NEW q, NEW c, NEW d, NEW n \in Nat, Sound(q, n), Kept(q, c, n), Kept(c, d, n)
    PROVE  Kept(q, d, n)
BY DEF Kept, Sound, Typed

LEMMA DiscardSound ==
    ASSUME NEW q, NEW n \in Nat, Sound(q, n)
    PROVE  Kept(q, Discard(q), n) /\ Discard(q).resend = 0 /\ Discard(q).status = "idle"
           /\ Discard(q).again = q.again
<1> DEFINE a == IF Head(q) # Empty THEN Advance(q) ELSE q
<1>1. Kept(q, a, n) /\ a.again = q.again
  <2>1. CASE Head(q) # Empty
    <3>1. Advance(q).again = q.again
      BY DEF Advance, Sound, Typed, Fields
    <3> QED
      BY <2>1, <3>1, AdvanceSound
  <2>2. CASE Head(q) = Empty
    BY <2>2 DEF Kept, Sound, Typed
  <2> QED
    BY <2>1, <2>2
<1> HIDE DEF a
<1>2. LET c == [a EXCEPT !.timer = "off", !.resend = 0, !.status = "idle"]
      IN  Kept(a, c, n) /\ c.resend = 0 /\ c.status = "idle" /\ c.again = a.again
  BY <1>1, AllReset DEF Kept
<1> QED
  BY <1>1, <1>2, KeptTrans DEF Discard, a

LEMMA SkipSound ==
    ASSUME NEW q, NEW n \in Nat, Sound(q, n), Head(q) # Empty
    PROVE  Kept(q, Skip(q), n) /\ Skip(q).timer = "retry"
<1>1. Kept(q, Advance(q), n)
  BY AdvanceSound
<1> DEFINE a == [Advance(q) EXCEPT !.resend = 0]
<1>2. Kept(Advance(q), a, n)
  BY <1>1, ResendReset DEF Kept
<1>3. Kept(a, Timer(a, "retry"), n) /\ Timer(a, "retry").timer = "retry"
  BY <1>2, TimerSet DEF Kept
<1> QED
  BY <1>1, <1>2, <1>3, KeptTrans DEF Skip, Kept

\* With commands embedded, or LE only.
Plain == On("enable_embedded_cmd") \/ SppLinks = {}

LEMMA SppSentSound ==
    ASSUME NEW q, NEW n \in Nat, Sound(q, n), Head(q) # Empty, q.status = "idle"
    PROVE  Kept(q, SppSent(q), n)
           /\ (On("enable_embedded_cmd") => Moves(SppSent(q)))
<1> DEFINE ack  == Head(q).event = EventAck
           s    == Sent(q)
           gone == IF ack THEN Advance(s) ELSE s
<1>1. Kept(q, s, n) /\ Head(s) # Empty
  BY SentSound DEF Head
<1>2. Kept(q, gone, n)
  <2>1. CASE ack
    BY <2>1, <1>1, AdvanceSound, KeptTrans DEF Kept
  <2>2. CASE ~ack
    BY <2>2, <1>1
  <2> QED
    BY <2>1, <2>2
<1> DEFINE wait == [gone EXCEPT !.status = "active"]
<1> HIDE DEF gone, s, ack
<1>3. Sound(gone, n)
  BY <1>2 DEF Kept
<1>4. Kept(q, Again(gone), n) /\ Moves(Again(gone))
  BY <1>2, <1>3, AgainSet, KeptTrans DEF Moves
<1>5. Kept(q, Timer(gone, "retry"), n) /\ Moves(Timer(gone, "retry"))
  BY <1>2, <1>3, TimerSet, KeptTrans DEF Moves
<1>6. Kept(gone, wait, n)
  BY <1>3, StatusSet
<1>7. Kept(wait, Timer(wait, "ack"), n) /\ Moves(Timer(wait, "ack"))
  BY <1>6, TimerSet DEF Moves, Kept
<1>8. Kept(q, Timer(wait, "ack"), n)
  BY <1>2, <1>3, <1>6, <1>7, KeptTrans
<1> QED
  BY <1>1, <1>4, <1>5, <1>7, <1>8 DEF SppSent, gone, s, ack

LEMMA LeSentSound ==
    ASSUME NEW q, NEW n \in Nat, Sound(q, n), Head(q) # Empty, Head(q).link \in LeLinks
    PROVE  Kept(q, LeSent(q), n) /\ Moves(LeSent(q))
<1> DEFINE s == [Sent(q) EXCEPT !.status = "active"]
<1>1. Kept(q, Sent(q), n) /\ Sent(q).owed > 0
  BY SentSound
<1>2. Kept(Sent(q), s, n) /\ s.status = "active" /\ s.owed > 0
  BY <1>1, StatusSet DEF Kept
<1> HIDE DEF s
<1>3. Kept(q, s, n) /\ Moves(s)
  BY <1>1, <1>2, KeptTrans DEF Moves
<1>4. Kept(s, Again(s), n) /\ Moves(Again(s))
  BY <1>3, AgainSet DEF Moves, Kept
<1> QED
  BY <1>3, <1>4, KeptTrans DEF LeSent, s

LEMMA RefusedSound ==
    ASSUME NEW q, NEW n \in Nat, Sound(q, n)
    PROVE  Kept(q, Refused(q), n) /\ Moves(Refused(q))
BY TimerSet, AgainSet DEF Refused, Moves

LEMMA ServeSound ==
    ASSUME NEW q, NEW n \in Nat, Sound(q, n), NEW ok \in BOOLEAN
    PROVE  Kept(q, Serve(q, ok), n)
           /\ (Plain /\ (q.status = "active" => Moves(q)) => Alive(Serve(q, ok)))
<1> DEFINE c == Serve(q, ok)
<1>1. CASE q.status # "idle"
  <2>1. q.status = "active" /\ c = q
    BY <1>1 DEF Sound, Typed, Serve
  <2>2. Kept(q, q, n)
    BY DEF Kept, Sound, Typed
  <2> QED
    BY <2>1, <2>2 DEF Alive
<1>2. CASE q.status = "idle" /\ Head(q) = Empty
  <2>1. c = q /\ Kept(q, q, n)
    BY <1>2 DEF Kept, Sound, Typed, Serve
  <2>2. Between(q, q.r) /\ q.r \in Slots
    BY DEF Sound, Typed, Between, Slots
  <2>3. \A i \in Slots : q.ring[i] = Empty
    BY <1>2, <2>2 DEF Sound, Exact, Head
  <2> QED
    BY <1>2, <2>1, <2>3 DEF Alive
<1>3. CASE q.status = "idle" /\ Head(q) # Empty
  <2>1. /\ Head(q) \in Packet /\ Head(q).link \in SppLinks \cup LeLinks
        /\ Head(q).link \in SppLinks => Head(q).link \in q.spp
    BY <1>3 DEF Sound, Typed, Owned, Head, Packet, Links
  <2>2. Kept(q, Skip(q), n) /\ Moves(Skip(q))
    BY <1>3, SkipSound DEF Moves
  <2>3. Kept(q, Refused(q), n) /\ Moves(Refused(q))
    BY RefusedSound
  <2>4. Kept(q, Timer(q, "retry"), n) /\ Moves(Timer(q, "retry"))
    BY TimerSet DEF Moves
  <2>5. Kept(q, c, n) /\ (Plain => Moves(c))
    <3>1. CASE Head(q).link \in SppLinks
      <4>1. Kept(q, SppSent(q), n) /\ (Plain => Moves(SppSent(q)))
        BY <1>3, <3>1, SppSentSound DEF Plain
      <4> QED
        BY <1>3, <2>1, <2>2, <2>3, <3>1, <4>1 DEF Serve, ServeSpp
    <3>2. CASE Head(q).link \notin SppLinks
      <4>1. Kept(q, LeSent(q), n) /\ Moves(LeSent(q))
        BY <1>3, <2>1, <3>2, LeSentSound
      <4> QED
        BY <1>3, <2>1, <2>2, <2>3, <2>4, <3>2, <4>1 DEF Serve, ServeLe
    <3> QED
      BY <3>1, <3>2
  <2> QED
    BY <2>5 DEF Alive
<1> QED
  BY <1>1, <1>2, <1>3 DEF Sound, Typed

LEMMA DiscardServeSound ==
    ASSUME NEW q, NEW n \in Nat, Sound(q, n), NEW ok \in BOOLEAN
    PROVE  LET c == Serve(Discard(q), ok)
           IN  Kept(q, c, n) /\ c.resend = 0 /\ (Plain => Alive(c))
<1>1. Kept(q, Discard(q), n) /\ Discard(q).resend = 0 /\ Discard(q).status = "idle"
  BY DiscardSound
<1>2. /\ Kept(Discard(q), Serve(Discard(q), ok), n)
      /\ Plain => Alive(Serve(Discard(q), ok))
  BY <1>1, ServeSound DEF Kept
<1> QED
  BY <1>1, <1>2, KeptTrans DEF Kept

-----------------------------------------------------------------------------
(* The handlers.                                                           *)

Inv ==
    /\ count \in Nat /\ count <= MaxPackets
    /\ Sound(dt, count) /\ Attempts(dt) /\ Noted(dt)
    /\ Plain => Alive(dt)

\* A step that ends well.
Ends == Inv' /\ dt'.last >= dt.last

\* A handler ends with a record c kept of a record q that differs from dt in
\* what the ring does not depend on.
LEMMA HandlerEnds ==
    ASSUME NEW q, NEW c, Inv, count' = count, dt' = c, Sound(q, count), Kept(q, c, count),
           q.last = dt.last, Attempts(q), q.credited = None, Plain => Alive(c)
    PROVE  Ends
BY DEF Inv, Ends, Kept, Attempts, Noted

LEMMA InitInv == Init => Inv
<1> SUFFICES ASSUME Init PROVE Inv
  OBVIOUS
<1>1. /\ DOMAIN dt = Fields /\ dt.ring = [i \in Slots |-> Empty] /\ dt.r = 0 /\ dt.w = 0
      /\ dt.resend = 0 /\ dt.status = "idle" /\ dt.timer = "off" /\ dt.again = FALSE
      /\ dt.spp = {} /\ dt.credit = {} /\ dt.credited = None
      /\ dt.le = [l \in LeLinks |-> "closed"]
      /\ dt.last = 0 /\ dt.heard = {} /\ dt.owed = 0 /\ count = 0
  BY DEF Init, Fields
<1>2. 0 \in Slots /\ 0 \in Nat /\ 0 <= MaxPackets
  BY TransferAssumption DEF TransferAssumption, Slots
<1>3. dt.ring \in [Slots -> Packet \cup {Empty}] /\ \A i \in Slots : dt.ring[i] = Empty
  BY <1>1
<1>4. Typed(dt, 0)
  <2>1. dt.le \in [LeLinks -> {"closed", "open", "ready", "closing"}]
    BY <1>1
  <2>2. dt.credited \in dt.spp \cup {None} /\ dt.heard \subseteq Events \X SppLinks
    BY <1>1
  <2>3. dt.spp \subseteq SppLinks /\ dt.credit \subseteq dt.spp
    BY <1>1
  <2>4. dt.last \in Nat /\ dt.last <= 0 /\ dt.owed \in Nat /\ dt.resend \in Nat
    BY <1>1
  <2> QED
    BY <1>1, <1>2, <1>3, <2>1, <2>2, <2>3, <2>4, Zenon DEF Typed
<1>5. Sound(dt, 0)
  BY <1>1, <1>3, <1>4 DEF Sound, Exact, Ordered, Owned
<1> QED
  BY <1>1, <1>2, <1>3, <1>5 DEF Inv, Attempts, Noted, Alive

LEMMA ReportEnds ==
    ASSUME Inv, NEW l \in Links, NEW e \in Events \cup {EventAck}, NEW ok \in BOOLEAN, Report(l, e, ok)
    PROVE  Ends
<1> DEFINE q == Pushed(dt, count, l, e)
<1>1. /\ count < MaxPackets /\ dt.ring[dt.w] = Empty /\ count' = count + 1
      /\ ~dt.again /\ dt' = Serve(q, ok)
  BY DEF Report, Handle, Pushed
<1>2. l \in SppLinks => l \in dt.spp
  BY TransferAssumption DEF TransferAssumption, Report
<1>3. Sound(q, count + 1) /\ q.last = dt.last
  BY <1>1, <1>2, PushSound DEF Inv
<1>4. q.resend = dt.resend /\ q.credited = dt.credited /\ (Moves(q) <=> Moves(dt)) /\ q.status = dt.status
  BY DEF Pushed, Inv, Sound, Typed, Fields, Moves
<1> HIDE DEF q
<1>5. Kept(q, Serve(q, ok), count + 1) /\ (Plain => Alive(Serve(q, ok)))
  BY <1>3, <1>4, ServeSound DEF Inv, Alive
<1> QED
  BY <1>1, <1>3, <1>4, <1>5, TransferAssumption DEF TransferAssumption, Inv, Ends, Kept, Attempts, Noted

LEMMA PopAgainEnds ==
    ASSUME Inv, NEW ok \in BOOLEAN, PopAgain(ok) PROVE Ends
<1> DEFINE p == [dt EXCEPT !.again = FALSE]
           q == Serve(Discard(p), ok)
           c == [q EXCEPT !.credit = @ \cup ({q.credited} \ {None}), !.credited = None]
<1>1. dt' = (IF q.again THEN q ELSE c) /\ count' = count
  BY DEF PopAgain
<1>2. /\ DOMAIN p = Fields /\ p.again = FALSE
      /\ \A f \in Fields \ {"again"} : p[f] = dt[f]
  BY DEF Inv, Sound, Typed, Fields
<1> HIDE DEF p
<1>3. Kept(dt, p, count) /\ p.last = dt.last
  <2>1. p.resend = dt.resend /\ p.status = dt.status /\ p.timer = dt.timer /\ p.last = dt.last
    BY <1>2 DEF Fields
  <2> QED
    BY <1>2, <2>1, SameFlags DEF Inv, Sound, Typed
<1>4. Kept(p, q, count) /\ q.resend = 0 /\ (Plain => Alive(q))
  BY <1>3, DiscardServeSound DEF Kept, Inv
<1> HIDE DEF q
<1>5. Sound(q, count) /\ q.last >= dt.last
  BY <1>3, <1>4 DEF Kept, Inv
<1>6. CASE q.again
  BY <1>1, <1>4, <1>5, <1>6 DEF Inv, Ends, Attempts, Noted
<1>7. CASE ~q.again
  <2>1. /\ DOMAIN c = Fields /\ c.credited = None
        /\ c.credit = q.credit \cup ({q.credited} \ {None})
        /\ \A f \in Fields \ {"credit", "credited"} : c[f] = q[f]
    BY <1>5 DEF Sound, Typed, Fields
  <2> HIDE DEF c
  <2>2. /\ c.ring = q.ring /\ c.r = q.r /\ c.w = q.w /\ c.last = q.last /\ c.spp = q.spp
        /\ c.resend = q.resend /\ c.status = q.status /\ c.timer = q.timer
        /\ c.again = q.again /\ c.owed = q.owed
    BY <2>1 DEF Fields
  <2>3. Typed(c, count)
    BY <1>5, <2>1, <2>2 DEF Sound, Typed, Fields
  <2>4. Sound(c, count) /\ (Plain => Alive(c))
    BY <1>4, <1>5, <2>2, <2>3, SameRing DEF Alive, Moves, Inv
  <2> QED
    BY <1>1, <1>4, <1>5, <1>7, <2>1, <2>2, <2>4 DEF Inv, Ends, Attempts, Noted
<1> QED
  BY <1>6, <1>7

LEMMA AcknowledgeEnds ==
    ASSUME Inv, NEW l \in SppLinks, NEW e \in Events, NEW ok \in BOOLEAN, Acknowledge(l, e, ok)
    PROVE  Ends
<1>1. PICK match \in BOOLEAN : ~dt.again /\ count' = count
                               /\ dt' = Serve(IF match THEN Discard(dt) ELSE dt, ok)
  BY DEF Acknowledge, Handle
<1>2. Kept(dt, dt', count) /\ (Plain => Alive(dt'))
  BY <1>1, ServeSound, DiscardServeSound DEF Inv, Alive
<1> QED
  BY <1>1, <1>2, HandlerEnds DEF Inv, Noted

LEMMA SendDataCompleteEnds ==
    ASSUME Inv, NEW ok \in BOOLEAN, SendDataComplete(ok) PROVE Ends
<1> DEFINE q == [dt EXCEPT !.owed = @ - 1]
<1>1. dt.owed > 0 /\ ~dt.again /\ count' = count /\ dt' = Serve(Discard(q), ok)
  BY DEF SendDataComplete, Handle
<1>2. /\ DOMAIN q = Fields /\ q.owed = dt.owed - 1
      /\ \A f \in Fields \ {"owed"} : q[f] = dt[f]
  BY DEF Inv, Sound, Typed, Fields
<1> HIDE DEF q
<1>3. /\ q.ring = dt.ring /\ q.r = dt.r /\ q.w = dt.w /\ q.last = dt.last /\ q.spp = dt.spp
      /\ q.resend = dt.resend /\ q.credited = dt.credited
  BY <1>2 DEF Fields
<1>4. Typed(q, count)
  BY <1>1, <1>2, <1>3 DEF Inv, Sound, Typed, Fields
<1>5. Sound(q, count)
  BY <1>3, <1>4, SameRing DEF Inv
<1>6. Kept(q, dt', count) /\ (Plain => Alive(dt'))
  BY <1>1, <1>5, DiscardServeSound DEF Inv
<1> QED
  BY <1>1, <1>3, <1>5, <1>6, HandlerEnds DEF Inv, Noted, Attempts

LEMMA TimeoutEnds ==
    ASSUME Inv, NEW ok \in BOOLEAN, Timeout(ok) PROVE Ends
<1> DEFINE q     == [dt EXCEPT !.timer = "off", !.status = "idle"]
           spent == [q EXCEPT !.resend = @ + 1]
<1>1. /\ dt.timer # "off" /\ ~dt.again /\ count' = count
      /\ dt' = Serve(IF dt.timer = "retry" THEN q
                     ELSE IF spent.resend >= Resend THEN Discard(spent) ELSE spent, ok)
  BY DEF Timeout, Handle
<1>2. /\ DOMAIN q = Fields /\ q.timer = "off" /\ q.status = "idle"
      /\ \A f \in Fields \ {"timer", "status"} : q[f] = dt[f]
  BY DEF Inv, Sound, Typed, Fields
<1>3. /\ DOMAIN spent = Fields /\ spent.resend = q.resend + 1
      /\ \A f \in Fields \ {"resend"} : spent[f] = q[f]
  BY <1>2 DEF Fields
<1> HIDE DEF q, spent
<1>4. /\ q.resend = dt.resend /\ q.again = dt.again /\ q.last = dt.last /\ q.credited = dt.credited
      /\ spent.ring = q.ring /\ spent.r = q.r /\ spent.w = q.w /\ spent.last = q.last
      /\ spent.spp = q.spp /\ spent.credited = q.credited /\ spent.status = q.status
  BY <1>2, <1>3 DEF Fields
<1>5. Sound(q, count) /\ Attempts(q)
  BY <1>2, <1>4, SameFlags DEF Inv, Kept, Sound, Typed, Attempts
<1>6. Typed(spent, count)
  BY <1>3, <1>4, <1>5 DEF Sound, Typed, Fields
<1>7. Sound(spent, count)
  BY <1>4, <1>5, <1>6, SameRing DEF Inv
<1>8. CASE dt.timer = "retry"
  <2>1. Kept(q, dt', count) /\ (Plain => Alive(dt'))
    BY <1>1, <1>2, <1>5, <1>8, ServeSound DEF Inv
  <2> QED
    BY <1>1, <1>4, <1>5, <2>1, HandlerEnds DEF Inv, Noted
<1>9. CASE dt.timer # "retry" /\ spent.resend < Resend
  <2>1. dt' = Serve(spent, ok) /\ Attempts(spent)
    BY <1>1, <1>9, <1>6, TransferAssumption DEF TransferAssumption, Typed, Attempts
  <2>2. Kept(spent, dt', count) /\ (Plain => Alive(dt'))
    BY <2>1, <1>2, <1>4, <1>7, ServeSound DEF Inv
  <2> QED
    BY <1>1, <1>4, <1>7, <2>1, <2>2, HandlerEnds DEF Inv, Noted
<1>10. CASE dt.timer # "retry" /\ spent.resend >= Resend
  <2>1. dt' = Serve(Discard(spent), ok)
    BY <1>1, <1>10
  <2>2. Kept(spent, dt', count) /\ dt'.resend = 0 /\ (Plain => Alive(dt'))
    BY <2>1, <1>7, DiscardServeSound DEF Inv
  <2> QED
    BY <1>1, <1>4, <2>2 DEF Inv, Ends, Kept, Noted, Attempts
<1> QED
  BY <1>8, <1>9, <1>10, <1>6, TransferAssumption DEF TransferAssumption, Typed

\* What happens to a link leaves the ring alone.
LEMMA LinkChange ==
    ASSUME Inv, ~dt.again, NEW q, Typed(q, count), dt.spp \subseteq q.spp,
           \A f \in Fields \ {"spp", "credit", "le", "heard"} : q[f] = dt[f]
    PROVE  /\ Sound(q, count) /\ Kept(q, q, count) /\ q.last = dt.last
           /\ Attempts(q) /\ q.credited = None /\ (Plain => Alive(q))
<1>1. /\ q.ring = dt.ring /\ q.r = dt.r /\ q.w = dt.w /\ q.last = dt.last
      /\ q.resend = dt.resend /\ q.credited = dt.credited /\ q.status = dt.status
      /\ q.timer = dt.timer /\ q.again = dt.again /\ q.owed = dt.owed
  BY DEF Fields
<1>2. Sound(q, count)
  BY <1>1, SameRing DEF Inv
<1>3. (Plain => Alive(q)) /\ Attempts(q) /\ q.credited = None
  BY <1>1 DEF Inv, Alive, Moves, Attempts, Noted
<1> QED
  BY <1>1, <1>2, <1>3 DEF Kept, Sound, Typed

LEMMA SppConnectedEnds ==
    ASSUME Inv, NEW l \in SppLinks, NEW credit \in BOOLEAN, NEW ok \in BOOLEAN,
           SppConnected(l, credit, ok)
    PROVE  Ends
<1> DEFINE q == [dt EXCEPT !.spp = @ \cup {l},
                           !.credit = IF credit THEN @ \cup {l} ELSE @ \ {l}]
<1>1. ~dt.again /\ count' = count /\ dt' = IF credit THEN Serve(q, ok) ELSE q
  BY DEF SppConnected, Handle
<1>2. /\ DOMAIN q = Fields /\ q.spp = dt.spp \cup {l}
      /\ q.credit = IF credit THEN dt.credit \cup {l} ELSE dt.credit \ {l}
      /\ \A f \in Fields \ {"spp", "credit"} : q[f] = dt[f]
  BY DEF Inv, Sound, Typed, Fields
<1> HIDE DEF q
<1>3. Typed(q, count)
  BY <1>2 DEF Inv, Sound, Typed, Fields
<1>4. /\ Sound(q, count) /\ Kept(q, q, count) /\ q.last = dt.last
      /\ Attempts(q) /\ q.credited = None /\ (Plain => Alive(q))
  BY <1>1, <1>2, <1>3, LinkChange
<1>5. Kept(q, dt', count) /\ (Plain => Alive(dt'))
  BY <1>1, <1>4, ServeSound DEF Alive, Inv
<1> QED
  BY <1>1, <1>4, <1>5, HandlerEnds

LEMMA SppCreditEnds ==
    ASSUME Inv, NEW l \in SppLinks, NEW ok \in BOOLEAN, SppCredit(l, ok) PROVE Ends
<1> DEFINE q == Serve(dt, ok)
           b == [q EXCEPT !.credited = l]
           c == [q EXCEPT !.credit = @ \cup {l}]
<1>1. l \in dt.spp /\ ~dt.again /\ count' = count /\ dt' = IF q.again THEN b ELSE c
  BY DEF SppCredit, Handle
<1>2. Kept(dt, q, count) /\ (Plain => Alive(q))
  BY ServeSound DEF Inv, Alive
<1> HIDE DEF q
<1>3. /\ Sound(q, count) /\ q.last >= dt.last /\ Attempts(q)
      /\ q.credited = None /\ l \in q.spp
  BY <1>1, <1>2 DEF Kept, Inv, Attempts, Noted
<1>4. /\ DOMAIN b = Fields /\ b.credited = l
      /\ \A f \in Fields \ {"credited"} : b[f] = q[f]
  BY <1>3 DEF Sound, Typed, Fields
<1>5. /\ DOMAIN c = Fields /\ c.credit = q.credit \cup {l}
      /\ \A f \in Fields \ {"credit"} : c[f] = q[f]
  BY <1>3 DEF Sound, Typed, Fields
<1> HIDE DEF b, c
<1>6. Typed(b, count) /\ Typed(c, count)
  BY <1>3, <1>4, <1>5 DEF Sound, Typed, Fields
<1>7. \A x \in {b, c} :
          /\ x.ring = q.ring /\ x.r = q.r /\ x.w = q.w /\ x.last = q.last /\ x.spp = q.spp
          /\ x.resend = q.resend /\ x.status = q.status /\ x.timer = q.timer
          /\ x.again = q.again /\ x.owed = q.owed
  BY <1>4, <1>5 DEF Fields
<1>8. \A x \in {b, c} : Sound(x, count) /\ Attempts(x) /\ (Plain => Alive(x)) /\ x.last >= dt.last
  BY <1>2, <1>3, <1>6, <1>7, SameRing DEF Inv, Attempts, Alive, Moves
<1>9. (q.again => Noted(b)) /\ Noted(c)
  BY <1>3, <1>5, <1>7 DEF Noted, Fields
<1> QED
  BY <1>1, <1>8, <1>9 DEF Inv, Ends

LEMMA ResetEnds ==
    ASSUME Inv, ~dt.again, NEW q, Typed(q, count), q.last = dt.last, q.credited = dt.credited,
           q.again = dt.again, count' = count, dt' = Reset(q)
    PROVE  Ends
<1>1. /\ Sound(dt', count) /\ dt'.last = dt.last /\ dt'.status = "idle"
      /\ \A i \in Slots : dt'.ring[i] = Empty
  BY ResetSound DEF Inv
<1>2. dt'.resend = 0 /\ dt'.credited = dt.credited
  BY DEF Reset, Typed, Fields
<1>3. dt'.last >= dt.last
  BY <1>1 DEF Sound, Typed
<1> QED
  BY <1>1, <1>2, <1>3 DEF Inv, Ends, Attempts, Noted, Alive

LEMMA SppDisconnectedEnds ==
    ASSUME Inv, NEW l \in SppLinks, SppDisconnected(l) PROVE Ends
<1> DEFINE q == [dt EXCEPT !.spp = @ \ {l}, !.credit = @ \ {l}, !.heard = @ \ (Events \X {l})]
<1>1. ~dt.again /\ count' = count /\ dt' = Reset(q)
  BY DEF SppDisconnected, Handle
<1>2. /\ DOMAIN q = Fields /\ q.spp = dt.spp \ {l} /\ q.credit = dt.credit \ {l}
      /\ q.heard = dt.heard \ (Events \X {l})
      /\ \A f \in Fields \ {"spp", "credit", "heard"} : q[f] = dt[f]
  BY DEF Inv, Sound, Typed, Fields
<1> HIDE DEF q
<1>3. dt.credited = None
  BY <1>1 DEF Inv, Noted
<1>4. Typed(q, count) /\ q.last = dt.last /\ q.credited = dt.credited /\ q.again = dt.again
  BY <1>2, <1>3 DEF Inv, Sound, Typed, Fields
<1> QED
  BY <1>1, <1>4, ResetEnds

LEMMA LeEnds ==
    ASSUME Inv, NEW l \in LeLinks, LeConnected(l) \/ LeEnabled(l) \/ LeClosing(l) \/ LeDisconnected(l)
    PROVE  Ends
<1>1. CASE LeConnected(l) \/ LeEnabled(l) \/ LeClosing(l)
  <2>1. PICK s \in {"open", "ready", "closing"} :
            ~dt.again /\ count' = count /\ dt' = [dt EXCEPT !.le[l] = s]
    BY <1>1 DEF LeConnected, LeEnabled, LeClosing, Handle, Inv, Sound, Typed
  <2>2. /\ DOMAIN dt' = Fields /\ dt'.le = [dt.le EXCEPT ![l] = s]
        /\ \A f \in Fields \ {"le"} : dt'[f] = dt[f]
    BY <2>1 DEF Inv, Sound, Typed, Fields
  <2>3. Typed(dt', count)
    BY <2>2 DEF Inv, Sound, Typed, Fields
  <2>4. dt.spp \subseteq dt'.spp
    BY <2>2 DEF Fields
  <2>5. /\ Sound(dt', count) /\ Kept(dt', dt', count) /\ dt'.last = dt.last
        /\ Attempts(dt') /\ dt'.credited = None /\ (Plain => Alive(dt'))
    BY <2>1, <2>2, <2>3, <2>4, LinkChange
  <2> QED
    BY <2>1, <2>5, HandlerEnds
<1>2. CASE LeDisconnected(l)
  <2>1. PICK left \in 0 .. dt.owed :
            /\ ~dt.again /\ count' = count
            /\ dt' = Reset([dt EXCEPT !.le[l] = "closed", !.owed = left])
    BY <1>2 DEF LeDisconnected, Handle
  <2> DEFINE q == [dt EXCEPT !.le[l] = "closed", !.owed = left]
  <2>2. /\ DOMAIN q = Fields /\ q.le = [dt.le EXCEPT ![l] = "closed"] /\ q.owed = left
        /\ \A f \in Fields \ {"le", "owed"} : q[f] = dt[f]
    BY DEF Inv, Sound, Typed, Fields
  <2>3. left \in Nat
    BY DEF Inv, Sound, Typed
  <2> HIDE DEF q
  <2>4. Typed(q, count) /\ q.last = dt.last /\ q.credited = dt.credited /\ q.again = dt.again
    BY <2>2, <2>3 DEF Inv, Sound, Typed, Fields
  <2> QED
    BY <2>1, <2>4, ResetEnds DEF q
<1> QED
  BY <1>1, <1>2

LEMMA NextEnds == Inv /\ [Next]_vars => Ends
<1> SUFFICES ASSUME Inv, [Next]_vars PROVE Ends
  OBVIOUS
<1>1. CASE UNCHANGED vars
  BY <1>1 DEF vars, Inv, Ends, Sound, Typed, Exact, Between, Ordered, Before, Owned, Attempts, Noted, Alive, Moves
<1>2. CASE Next
  BY <1>2, ReportEnds, PopAgainEnds, AcknowledgeEnds, SendDataCompleteEnds, TimeoutEnds,
     SppConnectedEnds, SppCreditEnds, SppDisconnectedEnds, LeEnds
  DEF Next
<1> QED
  BY <1>1, <1>2

-----------------------------------------------------------------------------
(* The results.                                                            *)

\* The invariant of the ring holds in every reachable state.
THEOREM RingIsSound == Spec => []Inv
<1>1. Inv /\ [Next]_vars => Inv'
  BY NextEnds DEF Ends
<1> QED
  BY InitInv, <1>1, PTL DEF Spec

\* Types of dt_queue, dt_queue_ctrl and what goes with them.
THEOREM QueueTypes == Spec => []TypeOK
<1>1. Inv => TypeOK
  BY TransferAssumption DEF TransferAssumption, Inv, Sound, Typed, Attempts, TypeOK
<1> QED
  BY RingIsSound, <1>1, PTL

\* The slots in use are those from the read index on, up to the write index.
THEOREM IndicesAgree == Spec => []RingExact
<1>1. Inv => RingExact
  <2> SUFFICES ASSUME Inv PROVE RingExact
    OBVIOUS
  <2>1. dt.r \in Slots /\ dt.w \in Slots
    BY DEF Inv, Sound, Typed
  <2>2. \A i : i \in Slots /\ Between(dt, i) <=>
               i \in (IF dt.r < dt.w THEN dt.r .. dt.w - 1
                     ELSE (dt.r .. QueueNo - 1) \cup (0 .. dt.w - 1))
    BY <2>1, TransferAssumption DEF TransferAssumption, Between, Slots
  <2> QED
    BY <2>2 DEF Inv, Sound, Exact, RingExact, Active
<1> QED
  BY RingIsSound, <1>1, PTL

\* Packets stand in the order they were reported in, from the read index on.
THEOREM PacketsKeepOrder == Spec => []OrderKept
<1>1. Inv => OrderKept
  BY DEF Inv, Sound, Ordered, OrderKept, Active
<1> QED
  BY RingIsSound, <1>1, PTL

\* No packet is sent after one that was reported later.
THEOREM SentInOrder == Spec => InOrder
<1>1. Inv /\ [Next]_vars => [dt'.last >= dt.last]_vars
  BY NextEnds DEF Ends
<1> QED
  BY RingIsSound, <1>1, PTL DEF Spec, InOrder

\* With commands embedded, or over LE alone, a waiting packet has a timer or a
\* completion that will move it.
THEOREM NothingForgotten ==
    ASSUME Plain
    PROVE  Spec => []NoStall
<1>1. Inv => NoStall
  BY DEF Inv, Alive, Moves, NoStall, Active
<1> QED
  BY RingIsSound, <1>1, PTL

-----------------------------------------------------------------------------
(***************************************************************************)
(* The queue of events for an external controller, for every length of the *)
(* ring and any number of attempts and packets: that the slots in use are  *)
(* those between the indices, that the oldest packet is the one last       *)
(* written, with its end under way, and that packets are written in order. *)
(*                                                                         *)
(* A handler puts a packet into the ring or takes one out and then looks   *)
(* at the queue.  UartSound is what the first half keeps; that the first   *)
(* packet is written holds only after Look, and only says something of the *)
(* other packets because the ring is exact: Look takes an empty slot at    *)
(* the read index for an empty ring.                                       *)
(***************************************************************************)

UartParameters ==
    /\ UartQueueNo \in Nat \ {0} /\ Resend \in Nat
    /\ OnlyOnce \in BOOLEAN

UartFields == {"ring", "r", "w", "resend", "timer", "again", "last"}
UartPacket == [id : Nat \ {0}, ack : BOOLEAN]

\* q is a record of the right types; n packets were reported.
UartTyped(q, n) ==
    /\ DOMAIN q = UartFields
    /\ q.ring \in [Uart!Slots -> UartPacket \cup {Uart!Empty}]
    /\ q.r \in Uart!Slots /\ q.w \in Uart!Slots
    /\ q.resend \in Nat
    /\ q.timer \in BOOLEAN /\ q.again \in BOOLEAN
    /\ q.last \in Nat /\ q.last <= n

Waits(q, i)   == q.ring[i] # Uart!Empty
UartBetween(q, i) == IF q.r < q.w THEN q.r <= i /\ i < q.w ELSE q.r <= i \/ i < q.w

UartExact(q) ==
    \/ \A i \in Uart!Slots : Waits(q, i) <=> UartBetween(q, i)
    \/ q.r = q.w /\ \A i \in Uart!Slots : ~Waits(q, i)

\* i comes before j on the way round from the read index.
UartBefore(q, i, j) ==
    \/ i < j /\ (q.r <= i \/ j < q.r)
    \/ q.r <= i /\ j < q.r

UartOrdered(q, n) ==
    /\ \A i, j \in Uart!Slots : Waits(q, i) /\ Waits(q, j) /\ UartBefore(q, i, j)
                              => q.ring[i].id < q.ring[j].id
    /\ \A i \in Uart!Slots : Waits(q, i) => q.last <= q.ring[i].id /\ q.ring[i].id <= n

UartSound(q, n) == UartTyped(q, n) /\ UartExact(q) /\ UartOrdered(q, n)

\* The packet at the read index was written and will be again, or moves on;
\* the timer runs for a packet.
UartServed(q) ==
    /\ Waits(q, q.r) => q.last = Uart!Head(q).id /\ (q.timer \/ q.again)
    /\ q.timer => Waits(q, q.r)

UartInv ==
    /\ sent \in Nat
    /\ UartSound(uart, sent)
    /\ UartServed(uart)
    /\ uart.resend <= Resend

-----------------------------------------------------------------------------
(* The operators on the ring.                                              *)

LEMMA UartIndexFacts ==
    ASSUME UartParameters
    PROVE  /\ \A i \in Uart!Slots : i \in Int /\ Uart!Succ(i) \in Uart!Slots
           /\ 0 \in Uart!Slots
BY DEF UartParameters, Uart!Slots, Uart!Succ

LEMMA UartEmptyIsNoPacket == Uart!Empty \notin UartPacket
BY DEF Uart!Empty, UartPacket

\* What leaves the ring, its indices and the last packet written alone.
LEMMA UartSameRing ==
    ASSUME NEW q, NEW c, NEW n \in Nat, UartSound(q, n), UartTyped(c, n),
           c.ring = q.ring, c.r = q.r, c.w = q.w, c.last = q.last
    PROVE  UartSound(c, n)
BY DEF UartSound, UartExact, UartOrdered, Waits, UartBetween, UartBefore

\* In an exact ring the packet at the read index comes before the others, and
\* an empty slot there means that nothing waits.
LEMMA UartHeadIsFirst ==
    ASSUME UartParameters, NEW q, NEW n \in Nat, UartSound(q, n)
    PROVE  /\ \A i \in Uart!Slots : Waits(q, i) => Waits(q, q.r)
           /\ \A i \in Uart!Slots : Waits(q, i) => Uart!Head(q).id <= q.ring[i].id
           /\ Waits(q, q.r) => Uart!Head(q) \in UartPacket /\ q.last <= Uart!Head(q).id /\ Uart!Head(q).id <= n
<1>1. q.r \in Uart!Slots /\ q.w \in Uart!Slots
  BY DEF UartSound, UartTyped
<1>2. \A i \in Uart!Slots : UartBetween(q, i) => UartBetween(q, q.r)
  BY <1>1 DEF UartBetween, Uart!Slots
<1>3. \A i \in Uart!Slots : Waits(q, i) => Waits(q, q.r)
  BY <1>1, <1>2 DEF UartSound, UartExact
<1>4. \A i \in Uart!Slots : i # q.r => UartBefore(q, q.r, i)
  BY <1>1 DEF UartBefore, Uart!Slots
<1>5. \A i \in Uart!Slots : Waits(q, i) => q.ring[i] \in UartPacket /\ q.ring[i].id \in Nat
  BY DEF UartSound, UartTyped, Waits, UartPacket
<1>6. \A i \in Uart!Slots : Waits(q, i) => Uart!Head(q).id <= q.ring[i].id
  BY <1>1, <1>3, <1>4, <1>5 DEF UartSound, UartOrdered, Uart!Head
<1> QED
  BY <1>1, <1>3, <1>5, <1>6 DEF UartSound, UartOrdered, Uart!Head

LEMMA UartWriteSound ==
    ASSUME UartParameters, NEW q, NEW n \in Nat, UartSound(q, n), ~q.timer
    PROVE  /\ UartSound(Uart!Write(q), n) /\ UartServed(Uart!Write(q))
           /\ Uart!Write(q).last >= q.last /\ Uart!Write(q).resend = q.resend
<1> DEFINE c == Uart!Write(q)
           p == Uart!Head(q)
<1>1. CASE p = Uart!Empty
  <2>1. c = q /\ q.last \in Nat
    BY <1>1 DEF Uart!Write, UartSound, UartTyped
  <2> QED
    BY <2>1, <1>1 DEF UartServed, Waits, Uart!Head
<1>2. CASE p # Uart!Empty
  <2>1. /\ DOMAIN c = UartFields /\ c.last = p.id
        /\ c.again = ~Uart!Awaits(p) /\ c.timer = Uart!Awaits(p)
        /\ c.ring = q.ring /\ c.r = q.r /\ c.w = q.w /\ c.resend = q.resend
    BY <1>2 DEF Uart!Write, UartSound, UartTyped, UartFields
  <2>2. /\ Waits(q, q.r) /\ p \in UartPacket /\ q.last <= p.id /\ p.id <= n
        /\ \A i \in Uart!Slots : Waits(q, i) => p.id <= q.ring[i].id
    BY <1>2, UartHeadIsFirst DEF Waits, Uart!Head
  <2>3. p.id \in Nat /\ q.last \in Nat /\ Uart!Awaits(p) \in BOOLEAN
    BY <2>2 DEF UartPacket, UartSound, UartTyped, Uart!Awaits
  <2>4. Uart!Head(c) = p
    BY <2>1 DEF Uart!Head
  <2> HIDE DEF c, p
  <2>5. UartTyped(c, n)
    BY <2>1, <2>2, <2>3 DEF UartSound, UartTyped
  <2>6. UartExact(c)
    BY <2>1 DEF UartSound, UartExact, Waits, UartBetween
  <2>7. UartOrdered(c, n)
    BY <2>1, <2>2 DEF UartSound, UartOrdered, Waits, UartBefore
  <2>8. UartServed(c)
    BY <2>1, <2>2, <2>3, <2>4 DEF UartServed, Waits
  <2> QED
    BY <2>1, <2>2, <2>3, <2>5, <2>6, <2>7, <2>8 DEF c, UartSound
<1> QED
  BY <1>1, <1>2

LEMMA UartLookSound ==
    ASSUME UartParameters, NEW q, NEW n \in Nat, UartSound(q, n)
    PROVE  /\ UartSound(Uart!Look(q), n) /\ UartServed(Uart!Look(q))
           /\ Uart!Look(q).last >= q.last /\ Uart!Look(q).resend = q.resend
<1> DEFINE c == [q EXCEPT !.timer = FALSE]
<1>1. /\ DOMAIN c = UartFields /\ c.timer = FALSE
      /\ \A f \in UartFields \ {"timer"} : c[f] = q[f]
  BY DEF UartSound, UartTyped, UartFields
<1> HIDE DEF c
<1>2. UartTyped(c, n)
  BY <1>1 DEF UartSound, UartTyped, UartFields
<1>3. UartSound(c, n) /\ c.last = q.last /\ c.resend = q.resend
  BY <1>1, <1>2, UartSameRing DEF UartFields
<1> QED
  BY <1>1, <1>3, UartWriteSound DEF c, Uart!Look

\* The packet at the read index goes.
UartTaken(q) == [q EXCEPT !.ring[q.r] = Uart!Empty, !.r = Uart!Succ(q.r), !.resend = 0]

LEMMA UartTakenSound ==
    ASSUME UartParameters, NEW q, NEW n \in Nat, UartSound(q, n), Waits(q, q.r)
    PROVE  UartSound(UartTaken(q), n) /\ UartTaken(q).last = q.last /\ UartTaken(q).resend = 0
<1> DEFINE c == UartTaken(q)
<1>1. /\ DOMAIN c = UartFields /\ c.ring = [q.ring EXCEPT ![q.r] = Uart!Empty]
      /\ c.r = Uart!Succ(q.r) /\ c.resend = 0
      /\ \A f \in UartFields \ {"ring", "r", "resend"} : c[f] = q[f]
  BY DEF UartTaken, UartSound, UartTyped, UartFields
<1> HIDE DEF c
<1>2. /\ \A i \in Uart!Slots : c.ring[i] = IF i = q.r THEN Uart!Empty ELSE q.ring[i]
      /\ c.ring \in [Uart!Slots -> UartPacket \cup {Uart!Empty}]
  BY <1>1 DEF UartSound, UartTyped
<1>3. c.r \in Uart!Slots /\ q.r \in Uart!Slots /\ q.w \in Uart!Slots /\ c.w = q.w /\ c.last = q.last
  BY <1>1, UartIndexFacts DEF UartSound, UartTyped, UartFields
<1>4. UartTyped(c, n)
  BY <1>1, <1>2, <1>3 DEF UartSound, UartTyped, UartFields
<1>5. \A i \in Uart!Slots : Waits(q, i) <=> UartBetween(q, i)
  BY <1>3 DEF UartSound, UartExact
<1>6. \A i \in Uart!Slots : Waits(c, i) <=> i # q.r /\ Waits(q, i)
  BY <1>2 DEF Waits
<1>7. CASE c.r = c.w
  <2>1. ASSUME NEW r \in Uart!Slots, NEW w \in Uart!Slots, w = Uart!Succ(r),
               NEW i \in Uart!Slots, IF r < w THEN r <= i /\ i < w ELSE r <= i \/ i < w
        PROVE  i = r
    BY <2>1 DEF UartParameters, Uart!Succ, Uart!Slots
  <2>2. \A i \in Uart!Slots : ~Waits(c, i)
    BY <1>7, <2>1, <1>1, <1>3, <1>5, <1>6 DEF UartBetween
  <2> QED
    BY <1>7, <2>2, <1>1, <1>3, <1>4 DEF UartExact, UartSound, UartOrdered, c
<1>8. \A i, j \in Uart!Slots : i # q.r /\ j # q.r /\ UartBefore(c, i, j) => UartBefore(q, i, j)
  BY <1>1, <1>3 DEF UartParameters, UartBefore, Uart!Succ, Uart!Slots
<1>9. UartOrdered(c, n)
  BY <1>2, <1>3, <1>6, <1>8 DEF UartSound, UartOrdered
<1>10. CASE c.r # c.w
  <2>1. \A i \in Uart!Slots : UartBetween(c, i) <=> i # q.r /\ UartBetween(q, i)
    BY <1>10, <1>1, <1>3 DEF UartParameters, UartBetween, Uart!Succ, Uart!Slots
  <2> QED
    BY <2>1, <1>1, <1>3, <1>4, <1>5, <1>6, <1>9 DEF UartExact, UartSound, c
<1> QED
  BY <1>1, <1>3, <1>7, <1>10 DEF c

LEMMA UartMoveSound ==
    ASSUME UartParameters, NEW q, NEW n \in Nat, UartSound(q, n)
    PROVE  /\ UartSound(Uart!Move(q), n) /\ UartServed(Uart!Move(q))
           /\ Uart!Move(q).last >= q.last /\ Uart!Move(q).resend \in {0, q.resend}
           /\ Waits(q, q.r) => Uart!Move(q).resend = 0
<1>1. CASE Uart!Head(q) = Uart!Empty
  BY <1>1, UartLookSound DEF Uart!Move, Waits, Uart!Head
<1>2. CASE Uart!Head(q) # Uart!Empty
  BY <1>2, UartTakenSound, UartLookSound DEF Uart!Move, UartTaken, Waits, Uart!Head
<1> QED
  BY <1>1, <1>2

\* A packet is put at the write index.
UartPushed(q, n, ack) ==
    [q EXCEPT !.ring[q.w] = [id |-> n + 1, ack |-> ack], !.w = Uart!Succ(q.w)]

LEMMA UartPushSound ==
    ASSUME UartParameters, NEW q, NEW n \in Nat, UartSound(q, n), ~Waits(q, q.w),
           NEW ack \in BOOLEAN
    PROVE  /\ UartSound(UartPushed(q, n, ack), n + 1)
           /\ UartPushed(q, n, ack).last = q.last /\ UartPushed(q, n, ack).resend = q.resend
<1> DEFINE p == [id |-> n + 1, ack |-> ack]
           c == UartPushed(q, n, ack)
<1>1. /\ DOMAIN c = UartFields /\ c.ring = [q.ring EXCEPT ![q.w] = p]
      /\ c.w = Uart!Succ(q.w)
      /\ \A f \in UartFields \ {"ring", "w"} : c[f] = q[f]
  BY DEF UartPushed, UartSound, UartTyped, UartFields
<1>2. p \in UartPacket /\ p # Uart!Empty /\ p.id = n + 1
  BY DEF UartPacket, Uart!Empty
<1> HIDE DEF p, c
<1>3. /\ \A i \in Uart!Slots : c.ring[i] = IF i = q.w THEN p ELSE q.ring[i]
      /\ c.ring \in [Uart!Slots -> UartPacket \cup {Uart!Empty}]
  BY <1>1, <1>2 DEF UartSound, UartTyped
<1>4. c.w \in Uart!Slots /\ q.r \in Uart!Slots /\ q.w \in Uart!Slots /\ c.r = q.r
  BY <1>1, UartIndexFacts DEF UartSound, UartTyped, UartFields
<1>5. c.last = q.last /\ c.resend = q.resend /\ q.last \in Nat /\ q.last <= n
  BY <1>1 DEF UartSound, UartTyped, UartFields
<1>6. UartTyped(c, n + 1)
  BY <1>1, <1>3, <1>4, <1>5 DEF UartSound, UartTyped, UartFields
<1>7. \/ q.r # q.w /\ \A i \in Uart!Slots : Waits(q, i) <=> UartBetween(q, i)
      \/ q.r = q.w /\ \A i \in Uart!Slots : ~Waits(q, i)
  <2>1. CASE q.r = q.w
    <3>1. UartBetween(q, q.w)
      BY <2>1, <1>4 DEF UartBetween, Uart!Slots
    <3> QED
      BY <2>1, <3>1, <1>4 DEF UartSound, UartExact
  <2>2. CASE q.r # q.w
    BY <2>2 DEF UartSound, UartExact
  <2> QED
    BY <2>1, <2>2
<1>8. \A i \in Uart!Slots : Waits(c, i) <=> i = q.w \/ Waits(q, i)
  BY <1>2, <1>3 DEF Waits
<1>9. \A i \in Uart!Slots : UartBetween(c, i) <=> i = q.w \/ (q.r # q.w /\ UartBetween(q, i))
  BY <1>1, <1>4 DEF UartParameters, UartBetween, Uart!Succ, Uart!Slots
<1>10. UartExact(c)
  BY <1>7, <1>8, <1>9 DEF UartExact
<1>11. \A i, j \in Uart!Slots : UartBefore(c, i, j) <=> UartBefore(q, i, j)
  BY <1>4 DEF UartBefore
<1>12. \A j \in Uart!Slots : Waits(q, j) => ~UartBefore(q, q.w, j)
  BY <1>4, <1>7 DEF UartBefore, UartBetween, Uart!Slots
<1>13. \A i \in Uart!Slots : Waits(q, i) => q.ring[i].id \in Nat /\ q.ring[i].id <= n
  BY DEF UartSound, UartTyped, UartOrdered, UartPacket, Waits
<1>14. ASSUME NEW i \in Uart!Slots, NEW j \in Uart!Slots, Waits(c, i), Waits(c, j), UartBefore(c, i, j)
       PROVE  c.ring[i].id < c.ring[j].id
  <2>1. i # j
    BY <1>14, <1>4 DEF UartBefore, Uart!Slots
  <2>2. i # q.w /\ Waits(q, i)
    BY <2>1, <1>14, <1>8, <1>11, <1>12
  <2>3. CASE j = q.w
    BY <2>2, <2>3, <1>2, <1>3, <1>13
  <2>4. CASE j # q.w
    BY <2>2, <2>4, <1>3, <1>8, <1>11, <1>14 DEF UartSound, UartOrdered
  <2> QED
    BY <2>3, <2>4
<1>15. \A i \in Uart!Slots : Waits(c, i) => c.last <= c.ring[i].id /\ c.ring[i].id <= n + 1
  BY <1>2, <1>3, <1>5, <1>8, <1>13 DEF UartSound, UartOrdered
<1>16. UartOrdered(c, n + 1)
  BY <1>14, <1>15 DEF UartOrdered
<1> QED
  BY <1>5, <1>6, <1>10, <1>16 DEF UartSound, c

-----------------------------------------------------------------------------
(* The handlers.                                                           *)

LEMMA UartInitInv == ASSUME UartParameters, Uart!Init PROVE UartInv
<1> DEFINE q == uart
<1>1. /\ DOMAIN q = UartFields /\ q.r = 0 /\ q.w = 0 /\ q.resend = 0 /\ q.last = 0
      /\ q.timer = FALSE /\ q.again = FALSE /\ sent = 0
  BY DEF Uart!Init, UartFields
<1>2. q.ring = [i \in Uart!Slots |-> Uart!Empty]
  BY DEF Uart!Init
<1> HIDE DEF q
<1>3. \A i \in Uart!Slots : ~Waits(q, i)
  BY <1>2 DEF Waits
<1>4. UartTyped(q, 0)
  <2>1. q.ring \in [Uart!Slots -> UartPacket \cup {Uart!Empty}]
    BY <1>2
  <2>2. q.r \in Uart!Slots /\ q.w \in Uart!Slots
    BY <1>1, UartIndexFacts
  <2>3. q.resend \in Nat /\ q.last \in Nat /\ q.last <= 0
    BY <1>1
  <2>4. q.timer \in BOOLEAN /\ q.again \in BOOLEAN
    BY <1>1
  <2> QED
    BY <2>1, <2>2, <2>3, <2>4, <1>1 DEF UartTyped
<1>5. UartSound(q, 0)
  BY <1>1, <1>3, <1>4 DEF UartSound, UartExact, UartOrdered
<1> QED
  BY <1>1, <1>3, <1>5, UartIndexFacts DEF UartInv, UartServed, q, UartParameters

\* What a step does: the invariant stays, and last does not go back.
UartEnds == UartInv' /\ uart'.last >= uart.last

\* A handler that changes the record to a sound one and then looks at the
\* queue.
LEMMA UartLookEnds ==
    ASSUME UartParameters, UartInv, NEW q, NEW n \in Nat, UartSound(q, n), q.resend <= Resend,
           q.last = uart.last, uart' = Uart!Look(q), sent' = n
    PROVE  UartEnds
BY UartLookSound DEF UartEnds, UartInv

LEMMA UartReportEnds ==
    ASSUME UartParameters, UartInv, NEW ack \in BOOLEAN, Uart!Report(ack)
    PROVE  UartEnds
<1> DEFINE q == UartPushed(uart, sent, ack)
<1>1. UartSound(q, sent + 1) /\ q.last = uart.last /\ q.resend = uart.resend
  BY UartPushSound DEF Uart!Report, UartInv, Waits
<1>2. uart' = Uart!Look(q) /\ sent' = sent + 1 /\ sent + 1 \in Nat
  BY DEF Uart!Report, Uart!Handle, UartPushed, UartInv
<1> QED
  BY <1>1, <1>2, UartLookEnds DEF UartInv

LEMMA UartPopAgainEnds == ASSUME UartParameters, UartInv, Uart!PopAgain PROVE UartEnds
<1> DEFINE q == [uart EXCEPT !.again = FALSE]
<1>1. /\ DOMAIN q = UartFields /\ q.again = FALSE
      /\ \A f \in UartFields \ {"again"} : q[f] = uart[f]
  BY DEF UartInv, UartSound, UartTyped, UartFields
<1>2. uart' = Uart!Move(q) /\ sent' = sent
  BY DEF Uart!PopAgain
<1> HIDE DEF q
<1>3. UartTyped(q, sent)
  BY <1>1 DEF UartInv, UartSound, UartTyped, UartFields
<1>4. UartSound(q, sent) /\ q.last = uart.last /\ q.resend = uart.resend
  BY <1>1, <1>3, UartSameRing DEF UartInv, UartFields
<1> QED
  BY <1>2, <1>4, UartMoveSound DEF UartEnds, UartInv, UartParameters

LEMMA UartAcknowledgeEnds == ASSUME UartParameters, UartInv, Uart!Acknowledge PROVE UartEnds
<1>1. uart' = Uart!Move(uart) /\ sent' = sent
  BY DEF Uart!Acknowledge, Uart!Handle
<1> QED
  BY <1>1, UartMoveSound DEF UartEnds, UartInv, UartParameters

LEMMA UartTimeoutEnds == ASSUME UartParameters, UartInv, Uart!Timeout PROVE UartEnds
<1> DEFINE q == [uart EXCEPT !.timer = FALSE, !.resend = @ + 1]
<1>1. /\ DOMAIN q = UartFields /\ q.timer = FALSE /\ q.resend = uart.resend + 1
      /\ \A f \in UartFields \ {"timer", "resend"} : q[f] = uart[f]
  BY DEF UartInv, UartSound, UartTyped, UartFields
<1>2. uart' = (IF q.resend > Resend THEN Uart!Move(q) ELSE Uart!Look(q)) /\ sent' = sent
  BY DEF Uart!Timeout, Uart!Handle
<1>3. uart.timer /\ uart.resend \in Nat /\ sent \in Nat
  BY DEF Uart!Timeout, UartInv, UartSound, UartTyped
<1> HIDE DEF q
<1>4. UartTyped(q, sent) /\ q.resend \in Nat
  <2>1. q.resend \in Nat
    BY <1>1, <1>3
  <2> QED
    BY <2>1, <1>1 DEF UartInv, UartSound, UartTyped, UartFields
<1>5. UartSound(q, sent) /\ q.last = uart.last
  BY <1>1, <1>4, UartSameRing DEF UartInv, UartFields
<1>6. CASE q.resend <= Resend
  BY <1>2, <1>3, <1>4, <1>5, <1>6, UartLookEnds DEF UartParameters
<1>7. CASE q.resend > Resend
  <2>1. uart' = Uart!Move(q)
    BY <1>2, <1>7
  <2>2. UartSound(uart', sent) /\ UartServed(uart') /\ uart'.last >= uart.last
    BY <2>1, <1>3, <1>5, UartMoveSound
  <2>3. Waits(q, q.r)
    <3>1. Waits(uart, uart.r)
      BY <1>3 DEF UartInv, UartServed
    <3> QED
      BY <3>1, <1>1 DEF Waits, UartFields
  <2>4. uart'.resend = 0
    BY <2>1, <2>3, <1>3, <1>5, UartMoveSound
  <2> QED
    BY <2>2, <2>4, <1>2, <1>3 DEF UartEnds, UartInv, UartParameters
<1> QED
  BY <1>4, <1>6, <1>7 DEF UartParameters

-----------------------------------------------------------------------------
LEMMA UartNextEnds == ASSUME UartParameters, UartInv, [Uart!Next]_(Uart!vars) PROVE UartEnds
<1>1. CASE UNCHANGED Uart!vars
  BY <1>1 DEF Uart!vars, UartEnds, UartInv, UartServed, UartSound, UartTyped, UartExact, UartOrdered, Waits, UartBetween, UartBefore,
              Uart!Head
<1> QED
  BY <1>1, UartReportEnds, UartPopAgainEnds, UartAcknowledgeEnds, UartTimeoutEnds DEF Uart!Next

\* Whatever the controller answers, and whenever, the ring stays exact and in
\* order, and the packet that stands first is served.
THEOREM UartIsSound == ASSUME UartParameters PROVE Uart!Spec => []UartInv
<1>1. Uart!Init => UartInv
  BY UartInitInv
<1>2. UartInv /\ [Uart!Next]_(Uart!vars) => UartInv'
  BY UartNextEnds DEF UartEnds
<1> QED
  BY <1>1, <1>2, PTL DEF Uart!Spec

\* app_pop_data_transfer_queue of the UART: while anything waits, the packet
\* at the read index has been written, and the timer of its answer runs or the
\* queue is about to move on, however late or often the controller answers.
THEOREM FirstIsServed == ASSUME UartParameters PROVE Uart!Spec => []Uart!FirstIsWritten
<1>1. UartInv => Uart!FirstIsWritten
  BY DEF UartInv, UartServed, Waits, Uart!FirstIsWritten, Uart!Head
<1> QED
  BY <1>1, UartIsSound, PTL

\* The slots of uart_tx_queue in use are those between its indices, so that an
\* empty slot at the read index, where the code stops, means an empty queue;
\* and the packet written is the oldest of those that wait.
OldestIsWritten ==
    /\ UartExact(uart)
    /\ \A i \in Uart!Slots : Waits(uart, i) =>
           uart.last = Uart!Head(uart).id /\ uart.last <= uart.ring[i].id

THEOREM NothingBehindAGap == ASSUME UartParameters PROVE Uart!Spec => []OldestIsWritten
<1>1. UartInv => OldestIsWritten
  <2> SUFFICES ASSUME UartInv PROVE OldestIsWritten
    OBVIOUS
  <2>1. /\ \A i \in Uart!Slots : Waits(uart, i) => Waits(uart, uart.r)
        /\ \A i \in Uart!Slots : Waits(uart, i) => Uart!Head(uart).id <= uart.ring[i].id
    BY UartHeadIsFirst DEF UartInv
  <2> QED
    BY <2>1 DEF UartInv, UartSound, UartServed, OldestIsWritten
<1> QED
  BY <1>1, UartIsSound, PTL

\* An answer that comes late or twice takes packets away, but none is written
\* after one that was reported later.
WrittenInOrder == [][uart'.last >= uart.last]_(Uart!vars)

THEOREM WritesKeepOrder == ASSUME UartParameters PROVE Uart!Spec => WrittenInOrder
<1>1. UartInv /\ [Uart!Next]_(Uart!vars) => [uart'.last >= uart.last]_(Uart!vars)
  BY UartNextEnds DEF UartEnds
<1> QED
  BY <1>1, UartIsSound, PTL DEF Uart!Spec, WrittenInOrder

\* For want of an answer a packet is sent again at most Resend times
\* (dt_resend_num), and the timer of the answer never runs on an empty queue.
AttemptsBounded == uart.resend \in 0 .. Resend /\ (uart.timer => Waits(uart, uart.r))

THEOREM AttemptsAreBounded == ASSUME UartParameters PROVE Uart!Spec => []AttemptsBounded
<1>1. ASSUME UartParameters, UartInv PROVE AttemptsBounded
  BY <1>1 DEF UartParameters, UartInv, UartSound, UartTyped, UartServed, AttemptsBounded
<1> QED
  BY <1>1, UartIsSound, PTL

-----------------------------------------------------------------------------
(* Beside each other.                                                      *)

\* Whatever the phones' ring does, on the UART the first packet has been written
\* and its end is under way (app_pop_data_transfer_queue with CMD_PATH_UART).
THEOREM UartIsServed == ASSUME UartParameters PROVE RingsSpec => []FirstIsWritten
<1>1. RingsInit => Uart!Init
  BY DEF RingsInit
<1>2. [RingsNext]_<<vars, uart, sent>> => [Uart!Next]_(Uart!vars)
  BY DEF RingsNext, Uart!vars
<1> QED
  BY <1>1, <1>2, FirstIsServed, PTL DEF RingsSpec, Uart!Spec, FirstIsWritten

=============================================================================
