-------------------------- MODULE BtPolicy_proofs --------------------------
(***************************************************************************)
(* Invariants of the policy, for every number of phones, profiles, places  *)
(* and every configuration.  First those of links, modes and timers:       *)
(*   - b2s_connected.num counts the links in use;                          *)
(*   - while the discoverable timer runs the headset can be found;         *)
(*   - a headset that is off, stopped or on its way there cannot;          *)
(*   - the pairing timer runs while the headset pairs, and then only;      *)
(*   - a headset that nobody is connected to can be connected;             *)
(*   - a headset that is switched off leaves no link unasked.              *)
(* They are parts of Sound, a predicate of the record bp.  Each handler is *)
(* an operator from a record to a record, so there is a lemma for each: of *)
(* a sound record it makes a sound record.  Some parts do not hold in the  *)
(* middle of a handler: a record is sound but for E and A when the parts   *)
(* named in E, and what is said of the addresses in A, need not hold, and  *)
(* the lemmas say which operator takes what out of E and A.                *)
(*                                                                         *)
(* Then the types of the state, and the queue: the policy uses the         *)
(* operations of TodoQueue one at a time, with arguments they are meant    *)
(* for, so that what is proved of that module holds of bp.queue; and the   *)
(* phone being called fits the phones that wait.  Again there is a lemma   *)
(* for each handler: of a good record it makes a good record, with at most *)
(* one operation on the queue.                                             *)
(***************************************************************************)
EXTENDS BtPolicy, TLAPS, FiniteSetTheorems


Fields == {"cur", "radio", "queue", "active", "link", "bond", "num", "ind", "timer",
           "flag", "step", "cnt", "call", "op", "run"}
LinkFields == {"used", "profs", "auth", "later", "drop", "master"}

\* enter_state may not make the headset discoverable in every state.
Quiet == ~(On("enable_multi_link") /\ On("enable_always_discoverable"))

OffOp == Op("off", NoAddr)

\* b is a record of the right shape: what an EXCEPT changes is there.
Fits(b) ==
    /\ DOMAIN b = Fields
    /\ DOMAIN b.link = Addrs
    /\ \A a \in Addrs : DOMAIN b.link[a] = LinkFields

Counted(b) == b.num = Cardinality(UsedLinks(b))
Silent(b)  == b.cur \notin Stable \cup {"LINKBACK"} => b.radio = "IDLE"
Visible(b) == "discoverable" \in b.timer => b.cur \in Stable /\ b.radio = "DISCOVERABLE"
Open(b)    == b.cur \in {"PAIRING", "STANDBY"} => b.radio # "IDLE"

\* The pairing timer runs in pairing only, and all the time.
Begun(b) == "pairing" \in b.timer => On("timer_pairing_timeout") /\ b.cur = "PAIRING"
Timed(b) ==
    On("timer_pairing_timeout") /\ b.cur = "PAIRING" /\ OffOp \notin b.op
        => "pairing" \in b.timer

\* CONNECTED is left with the last link.
Busy(b) == b.cur = "CONNECTED" => b.num > 0

\* Where shutting down stands, and from which point on links were asked to go.
Going(b) == b.cur = "SHUTDOWN_STEP" => b.step \in {"WAIT_PROFILE", "START_LINK", "WAIT_LINK"}
AllAsked(b) == b.cur = "SHUTDOWN" \/ (b.cur = "SHUTDOWN_STEP" /\ b.step = "WAIT_LINK")
Asked(b, a) == Quiet /\ AllAsked(b) /\ b.link[a].used => Op("disc", a) \in b.op

\* Requests that matter: the links asked to go, but for A, and the power-off
\* that a pairing without timer waits for.
Kept(b, A, o) == (o[1] = "disc" /\ o[2] \notin A) \/ (o = OffOp /\ b.cur = "PAIRING")

\* Sound but for the parts E and the addresses A.
Sound(b, E, A) ==
    /\ Fits(b)
    /\ Counted(b)
    /\ Quiet => Silent(b)
    /\ Visible(b) /\ Open(b) /\ Begun(b)
    /\ "timed" \notin E => Timed(b)
    /\ "busy" \notin E => Busy(b)
    /\ "going" \notin E => Going(b)
    /\ \A a \in Addrs \ A : Asked(b, a)

-----------------------------------------------------------------------------
(* What leaves the links in use, the state, the radio mode and the timers  *)
(* of being visible alone, and asks for more only, keeps a record sound.   *)

LEMMA Weaker ==
    ASSUME NEW b, NEW E, NEW A, Sound(b, E, A), NEW F, NEW B, E \subseteq F, A \subseteq B
    PROVE  Sound(b, F, B)
BY DEF Sound

LEMMA SameSlots ==
    ASSUME NEW b, NEW E, NEW A, NEW c, Sound(b, E, A), DOMAIN c = Fields, c.num = b.num,
           DOMAIN c.link = Addrs,
           \A a \in Addrs : DOMAIN c.link[a] = LinkFields /\ c.link[a].used = b.link[a].used,
           c.cur = b.cur, c.radio = b.radio,
           c.step = b.step \/ ("going" \in E /\ Addrs \subseteq A),
           "discoverable" \in c.timer => "discoverable" \in b.timer,
           "pairing" \in c.timer <=> "pairing" \in b.timer,
           \A o \in b.op : Kept(b, A, o) => o \in c.op
    PROVE  Sound(c, E, A)
<1>1. Fits(c) /\ Counted(c)
  BY DEF Sound, Fits, Counted, UsedLinks
<1>2. (Quiet => Silent(c)) /\ Visible(c) /\ Open(c) /\ Begun(c)
  BY DEF Sound, Silent, Visible, Open, Begun
<1>3. "timed" \notin E => Timed(c)
  BY DEF Sound, Timed, Kept
<1>4. ("busy" \notin E => Busy(c)) /\ ("going" \notin E => Going(c))
  BY DEF Sound, Busy, Going
<1>5. ASSUME NEW a \in Addrs \ A PROVE Asked(c, a)
  <2>1. Op("disc", a)[1] = "disc" /\ Op("disc", a)[2] = a
    BY DEF Op
  <2>2. Asked(b, a) /\ c.step = b.step
    BY DEF Sound
  <2> QED
    BY <2>1, <2>2 DEF Asked, AllAsked, Kept
<1> QED
  BY <1>1, <1>2, <1>3, <1>4, <1>5 DEF Sound

LEMMA SameLinks ==
    ASSUME NEW b, NEW E, NEW A, NEW c, Sound(b, E, A), DOMAIN c = Fields, c.link = b.link, c.num = b.num,
           c.cur = b.cur, c.radio = b.radio,
           c.step = b.step \/ ("going" \in E /\ Addrs \subseteq A),
           "discoverable" \in c.timer => "discoverable" \in b.timer,
           "pairing" \in c.timer <=> "pairing" \in b.timer,
           \A o \in b.op : Kept(b, A, o) => o \in c.op
    PROVE  Sound(c, E, A)
<1>1. DOMAIN c.link = Addrs
  BY DEF Sound, Fits
<1>2. \A a \in Addrs : DOMAIN c.link[a] = LinkFields /\ c.link[a].used = b.link[a].used
  BY DEF Sound, Fits
<1> QED
  BY <1>1, <1>2, SameSlots

\* c differs from b in fields only that soundness does not look at.
Alike(b, c) ==
    /\ DOMAIN c = Fields
    /\ c.link = b.link /\ c.num = b.num /\ c.cur = b.cur /\ c.radio = b.radio
    /\ c.step = b.step /\ c.timer = b.timer /\ c.op = b.op

LEMMA Aside ==
    ASSUME NEW b, NEW E, NEW A, NEW c, Sound(b, E, A), Alike(b, c) PROVE Sound(c, E, A)
<1>1. \A o \in b.op : Kept(b, A, o) => o \in c.op
  BY DEF Alike
<1> QED
  BY <1>1, SameLinks DEF Alike

LEMMA Helpers ==
    ASSUME NEW b, NEW E, NEW A, Sound(b, E, A), NEW x
    PROVE  /\ x \notin {"discoverable", "pairing"} => Sound(Start(b, x), E, A)
           /\ "pairing" \notin x => Sound(Stop(b, x), E, A)
           /\ Sound(Set(b, x), E, A) /\ Sound(Clear(b, x), E, A) /\ Sound(Ask(b, x), E, A)
           /\ x[1] \notin {"off", "disc"} => Sound(Done(b, x), E, A)
           /\ Sound(Run(b), E, A) /\ Sound(Waits(b), E, A)
<1>1. x \notin {"discoverable", "pairing"} => Sound(Start(b, x), E, A)
  <2> DEFINE c == Start(b, x)
  <2>1. /\ DOMAIN c = Fields /\ c.timer = b.timer \cup {x}
        /\ \A f \in Fields \ {"timer"} : c[f] = b[f]
    BY DEF Start, Sound, Fits, Fields
  <2> HIDE DEF c
  <2> SUFFICES ASSUME x \notin {"discoverable", "pairing"} PROVE Sound(c, E, A)
    BY DEF c
  <2> QED
    BY <2>1, SameLinks DEF Fields
<1>2. "pairing" \notin x => Sound(Stop(b, x), E, A)
  <2> DEFINE c == Stop(b, x)
  <2>1. /\ DOMAIN c = Fields /\ c.timer = b.timer \ x
        /\ \A f \in Fields \ {"timer"} : c[f] = b[f]
    BY DEF Stop, Sound, Fits, Fields
  <2> HIDE DEF c
  <2> SUFFICES ASSUME "pairing" \notin x PROVE Sound(c, E, A)
    BY DEF c
  <2> QED
    BY <2>1, SameLinks DEF Fields
<1>3. Sound(Set(b, x), E, A)
  BY SameLinks DEF Sound, Fits, Fields, Set
<1>7. Sound(Clear(b, x), E, A)
  <2> DEFINE c == Clear(b, x)
  <2>1. DOMAIN c = Fields /\ \A f \in Fields \ {"flag"} : c[f] = b[f]
    BY DEF Clear, Sound, Fits, Fields
  <2> HIDE DEF c
  <2>2. Sound(c, E, A)
    BY <2>1, SameLinks DEF Fields
  <2> QED
    BY <2>2 DEF c
<1>4. Sound(Ask(b, x), E, A)
  <2> DEFINE c == Ask(b, x)
  <2>1. /\ DOMAIN c = Fields /\ c.op = b.op \cup {x}
        /\ \A f \in Fields \ {"op"} : c[f] = b[f]
    BY DEF Ask, Sound, Fits, Fields
  <2> HIDE DEF c
  <2>2. Sound(c, E, A)
    BY <2>1, SameLinks DEF Fields
  <2> QED
    BY <2>2 DEF c
<1>5. x[1] \notin {"off", "disc"} => Sound(Done(b, x), E, A)
  <2> DEFINE c == Done(b, x)
  <2>1. DOMAIN c = Fields /\ c.op = b.op \ {x} /\ \A f \in Fields \ {"op"} : c[f] = b[f]
    BY DEF Done, Sound, Fits, Fields
  <2> HIDE DEF c
  <2> SUFFICES ASSUME x[1] \notin {"off", "disc"} PROVE Sound(c, E, A)
    BY DEF c
  <2> QED
    BY <2>1, SameLinks DEF Fields, Kept, OffOp, Op
<1>6. Sound(Run(b), E, A) /\ Sound(Waits(b), E, A)
  <2>1. Alike(b, Run(b)) /\ Alike(b, Waits(b))
    BY DEF Alike, Sound, Fits, Fields, Run, Waits
  <2> QED
    BY <2>1, Aside
<1> QED
  BY <1>1, <1>2, <1>3, <1>4, <1>5, <1>6, <1>7

\* Stopping the pairing timer leaves the pairing untimed.
LEMMA StopSound ==
    ASSUME NEW b, NEW E, NEW A, Sound(b, E, A), NEW x PROVE Sound(Stop(b, x), E \cup {"timed"}, A)
<1> DEFINE c == Stop(b, x)
<1>1. DOMAIN c = Fields /\ c.timer = b.timer \ x
      /\ \A f \in Fields \ {"timer"} : c[f] = b[f]
  BY DEF Sound, Fits, Fields, Stop
<1> HIDE DEF c
<1>2. Fits(c) /\ Counted(c)
  BY <1>1 DEF Sound, Fits, Counted, UsedLinks, Fields
<1>3. (Quiet => Silent(c)) /\ Visible(c) /\ Open(c) /\ Begun(c)
  BY <1>1 DEF Sound, Silent, Visible, Open, Begun, Fields
<1>4. ("busy" \notin E => Busy(c)) /\ ("going" \notin E => Going(c))
  BY <1>1 DEF Sound, Busy, Going, Fields
<1>5. \A a \in Addrs \ A : Asked(c, a)
  BY <1>1 DEF Sound, Asked, AllAsked, Fields
<1>6. Sound(c, E \cup {"timed"}, A)
  BY <1>2, <1>3, <1>4, <1>5 DEF Sound
<1> QED
  BY <1>6 DEF c

-----------------------------------------------------------------------------
(* The places where the count of links changes.                            *)

LEMMA CountFacts ==
    ASSUME NEW b, Counted(b)
    PROVE  /\ b.num \in Nat /\ (b.num = 0 <=> UsedLinks(b) = {})
           /\ IsFiniteSet(UsedLinks(b))
<1>1. IsFiniteSet(UsedLinks(b))
  BY BtPolicyAssumption, FS_Subset DEF BtPolicyAssumption, UsedLinks
<1> QED
  BY <1>1, FS_CardinalityType, FS_EmptySet DEF Counted

\* A link that came up was not asked to go yet.
LEMMA AddSound ==
    ASSUME NEW b, NEW E, NEW A, Sound(b, E, A), NEW a \in Addrs
    PROVE  Sound(AddNode(b, a), E, A \cup {a})
<1> DEFINE c == AddNode(b, a)
<1>1. CASE Linked(b, a)
  BY <1>1, Weaker DEF AddNode
<1>2. CASE ~Linked(b, a)
  <2>1. /\ DOMAIN c = Fields /\ DOMAIN c.link = Addrs
        /\ \A x \in Addrs : DOMAIN c.link[x] = LinkFields
    BY <1>2 DEF AddNode, Sound, Fits, Fields, LinkFields, NoLink
  <2>2. c.num = b.num + 1
    BY <1>2 DEF AddNode, Sound, Fits, Fields
  <2>3. UsedLinks(c) = UsedLinks(b) \cup {a} /\ a \notin UsedLinks(b)
    BY <1>2 DEF AddNode, Sound, Fits, Fields, LinkFields, NoLink, UsedLinks, Linked
  <2>4. IsFiniteSet(UsedLinks(b)) /\ b.num \in Nat
    BY CountFacts DEF Sound
  <2>5. Fits(c) /\ Counted(c)
    BY <2>1, <2>2, <2>3, <2>4, FS_AddElement DEF Sound, Fits, Counted
  <2>6. /\ c.cur = b.cur /\ c.radio = b.radio /\ c.timer = b.timer
        /\ c.step = b.step /\ c.op = b.op
    BY <1>2 DEF AddNode, Sound, Fits, Fields
  <2>7. \A x \in Addrs \ {a} : c.link[x].used = b.link[x].used
    BY <1>2 DEF AddNode, Sound, Fits, Fields
  <2> HIDE DEF c
  <2>8. \A x \in Addrs \ (A \cup {a}) : Asked(c, x)
    BY <2>6, <2>7 DEF Sound, Asked, AllAsked
  <2>9. ("timed" \notin E => Timed(c)) /\ ("busy" \notin E => Busy(c)) /\ ("going" \notin E => Going(c))
    BY <2>2, <2>4, <2>6 DEF Sound, Timed, Busy, Going
  <2>10. (Quiet => Silent(c)) /\ Visible(c) /\ Open(c) /\ Begun(c)
    BY <2>6 DEF Sound, Silent, Visible, Open, Begun
  <2>11. Sound(c, E, A \cup {a})
    BY <2>5, <2>8, <2>9, <2>10 DEF Sound
  <2> QED
    BY <2>11 DEF c
<1> QED
  BY <1>1, <1>2

\* The last link may go in CONNECTED.
LEMMA DelSound ==
    ASSUME NEW b, NEW a \in Addrs, Sound(b, {}, {a}) PROVE Sound(DelNode(b, a), {"busy"}, {})
<1> DEFINE c == DelNode(b, a)
<1>1. CASE ~Linked(b, a)
  <2>1. c = b /\ Asked(b, a)
    BY <1>1 DEF DelNode, Linked, Asked
  <2> QED
    BY <2>1 DEF Sound
<1>2. CASE Linked(b, a)
  <2>1. /\ DOMAIN c = Fields /\ DOMAIN c.link = Addrs
        /\ \A x \in Addrs : DOMAIN c.link[x] = LinkFields
    BY <1>2 DEF DelNode, Sound, Fits, Fields, LinkFields, NoLink
  <2>2. c.num = IF b.num > 0 THEN b.num - 1 ELSE 0
    BY <1>2 DEF DelNode, Sound, Fits, Fields
  <2>3. UsedLinks(c) = UsedLinks(b) \ {a} /\ a \in UsedLinks(b)
    BY <1>2 DEF DelNode, Sound, Fits, Fields, LinkFields, NoLink, UsedLinks, Linked
  <2>4. IsFiniteSet(UsedLinks(b))
    BY CountFacts DEF Sound
  <2>5. Cardinality(UsedLinks(b)) \in Nat \ {0}
    BY <2>3, <2>4, FS_CardinalityType, FS_EmptySet
  <2>6. c.num = Cardinality(UsedLinks(b)) - 1
    BY <2>2, <2>5 DEF Sound, Counted
  <2>7. Cardinality(UsedLinks(c)) = Cardinality(UsedLinks(b)) - 1
    BY <2>3, <2>4, FS_RemoveElement
  <2>8. Fits(c) /\ Counted(c)
    BY <2>1, <2>6, <2>7 DEF Sound, Fits, Counted
  <2>9. /\ c.cur = b.cur /\ c.radio = b.radio /\ c.timer = b.timer
        /\ c.step = b.step /\ c.op = b.op
    BY <1>2 DEF DelNode, Sound, Fits, Fields
  <2>10. ~c.link[a].used /\ \A x \in Addrs \ {a} : c.link[x].used = b.link[x].used
    BY <1>2 DEF DelNode, Sound, Fits, Fields, NoLink
  <2> HIDE DEF c
  <2>11. \A x \in Addrs : Asked(c, x)
    BY <2>9, <2>10 DEF Sound, Asked, AllAsked
  <2>12. Timed(c) /\ Going(c)
    BY <2>9, BtPolicyAssumption DEF BtPolicyAssumption, Sound, Timed, Going
  <2>13. (Quiet => Silent(c)) /\ Visible(c) /\ Open(c) /\ Begun(c)
    BY <2>9 DEF Sound, Silent, Visible, Open, Begun
  <2> QED
    BY <2>8, <2>11, <2>12, <2>13 DEF Sound, c
<1> QED
  BY <1>1, <1>2

\* Outside CONNECTED the headset may be empty.
LEMMA BusyAgain ==
    ASSUME NEW b, Sound(b, {"busy"}, {}), b.cur # "CONNECTED" \/ ~IsEmpty(b)
    PROVE  Sound(b, {}, {})
<1>1. Busy(b)
  BY CountFacts DEF Sound, Busy, IsEmpty
<1> QED
  BY <1>1 DEF Sound

-----------------------------------------------------------------------------
(* Where the state, the radio mode and the timers of being visible change. *)
(* The discoverable timer runs on, or is started, only where the mode      *)
(* becomes DISCOVERABLE; the pairing timer is started where pairing is     *)
(* entered and stopped where it is left.                                   *)

\* What shutting down has still to do where its state is entered.
Late(s)    == IF s \in {"SHUTDOWN", "SHUTDOWN_STEP"} THEN {"going"} ELSE {}
Unasked(s) == IF s \in {"SHUTDOWN", "SHUTDOWN_STEP"} THEN Addrs ELSE {}

LEMMA EnterSound ==
    ASSUME NEW b, NEW E, NEW A, Sound(b, E, A), NEW s, NEW m, NEW u,
           s \in Stable \cup {"LINKBACK"} \/ m = "IDLE",
           s \in {"PAIRING", "STANDBY"} => m # "IDLE",
           s = "PAIRING" => "timed" \notin E,
           s = "CONNECTED" => ~IsEmpty(b)
    PROVE  /\ Sound(EnterState(b, s, m, u), Late(s), Unasked(s))
           /\ EnterState(b, s, m, u).num = b.num /\ EnterState(b, s, m, u).cur = s
           /\ EnterState(b, s, m, u).link = b.link
<1> DEFINE c == EnterState(b, s, m, u)
<1>1. DOMAIN c = Fields
  BY DEF EnterState, Sound, Fits, Fields
<1>2. c.link = b.link /\ c.num = b.num /\ c.step = b.step /\ c.op = b.op
  BY DEF EnterState, Sound, Fits, Fields
<1>3. c.cur = s
  BY DEF EnterState, Sound, Fits, Fields
<1>4. /\ Quiet /\ s \notin Stable \cup {"LINKBACK"} => c.radio = m
      /\ m # "IDLE" => c.radio # "IDLE"
  BY DEF EnterState, Sound, Fits, Fields, Quiet, Stable
<1>5. "discoverable" \in c.timer => s \in Stable /\ c.radio = "DISCOVERABLE"
  <2>1. "discoverable" \in c.timer => s \in Stable
    BY DEF EnterState, Sound, Fits, Fields
  <2>2. "discoverable" \in c.timer => ~b.call /\ ~IsFull(b)
    BY DEF EnterState, Sound, Fits, Fields
  <2>3. s \in Stable /\ Is(b, "one_link") /\ ~b.call => c.radio = "DISCOVERABLE"
    BY DEF EnterState, Sound, Fits, Fields
  <2>4. ASSUME s \in Stable, ~Is(b, "one_link"), "discoverable" \in b.timer, ~b.call, ~IsFull(b)
        PROVE  c.radio = "DISCOVERABLE"
    BY <2>4 DEF EnterState, Sound, Fits, Fields
  <2>5. "discoverable" \in c.timer => Is(b, "one_link") \/ "discoverable" \in b.timer
    BY DEF EnterState, Sound, Fits, Fields
  <2> QED
    BY <2>1, <2>2, <2>3, <2>4, <2>5
<1>6. /\ "pairing" \in c.timer => \/ On("timer_pairing_timeout") /\ s = "PAIRING"
                                  \/ "pairing" \in b.timer /\ ~On("timer_pairing_timeout")
                                  \/ "pairing" \in b.timer /\ s = b.cur
      /\ On("timer_pairing_timeout") /\ s = "PAIRING" =>
             "pairing" \in c.timer \/ ("pairing" \notin b.timer /\ b.cur = s)
  BY DEF EnterState, Sound, Fits, Fields
<1> HIDE DEF c
<1>7. Fits(c) /\ Counted(c)
  BY <1>1, <1>2 DEF Sound, Fits, Counted, UsedLinks
<1>8. (Quiet => Silent(c)) /\ Visible(c) /\ Open(c)
  BY <1>3, <1>4, <1>5 DEF Silent, Visible, Open
<1>9. Begun(c) /\ Timed(c)
  BY <1>2, <1>3, <1>6 DEF Sound, Begun, Timed
<1>10. Busy(c)
  BY <1>2, <1>3, CountFacts DEF Sound, Busy, IsEmpty
<1>11. s \notin {"SHUTDOWN", "SHUTDOWN_STEP"} => Going(c) /\ \A a \in Addrs : Asked(c, a)
  BY <1>3 DEF Going, Asked, AllAsked
<1> QED
  BY <1>2, <1>3, <1>7, <1>8, <1>9, <1>10, <1>11 DEF Sound, Late, Unasked, c

\* A state that is not stable, entered silently.
LEMMA EnterSilent ==
    ASSUME NEW b, NEW E, NEW A, Sound(b, E, A), NEW s, s \notin Stable
    PROVE  /\ Sound(EnterState(b, s, "IDLE", FALSE), Late(s), Unasked(s))
           /\ EnterState(b, s, "IDLE", FALSE).num = b.num
           /\ EnterState(b, s, "IDLE", FALSE).cur = s
           /\ EnterState(b, s, "IDLE", FALSE).link = b.link
<1>1. s \notin {"PAIRING", "STANDBY", "CONNECTED"}
  BY DEF Stable
<1>2. ASSUME NEW u
      PROVE  /\ Sound(EnterState(b, s, "IDLE", u), Late(s), Unasked(s))
             /\ EnterState(b, s, "IDLE", u).num = b.num
             /\ EnterState(b, s, "IDLE", u).cur = s
             /\ EnterState(b, s, "IDLE", u).link = b.link
  BY <1>1, EnterSound
<1> QED
  BY <1>2, Zenon

LEMMA StatesSound ==
    ASSUME NEW b, NEW E, NEW A, Sound(b, E, A), NEW u
    PROVE  /\ "timed" \notin E => Sound(Pair(b, u), {}, {})
           /\ Sound(Standby(b, u), {}, {})
           /\ ~IsEmpty(b) => Sound(Connected(b), {}, {})
           /\ Sound(Settle(b), E, A) /\ Sound(Settled(b), E, A)
<1>1. "timed" \notin E => Sound(Pair(b, u), {}, {})
  BY EnterSound DEF Pair, Stable, Late, Unasked
<1>2. Sound(Standby(b, u), {}, {})
  BY EnterSound DEF Standby, Stable, Late, Unasked
<1>3. ~IsEmpty(b) => Sound(Connected(b), {}, {})
  BY EnterSound DEF Connected, Stable, Late, Unasked
<1>4. Sound(Settle(b), E, A) /\ Sound(Settled(b), E, A)
  BY Helpers DEF Settle, Settled
<1> QED
  BY <1>1, <1>2, <1>3, <1>4

\* stable_sched takes the last link's leaving into account.
LEMMA StableSound ==
    ASSUME NEW b, Sound(b, {"busy"}, {}) \/ Sound(b, {}, {}), NEW x
    PROVE  /\ Sound(StableNormal(b), {}, {}) /\ Sound(StableAgain(b, x), {}, {})
           /\ Sound(StableDedicated(b), {}, {}) /\ Sound(StableDirect(b), {}, {})
<1> DEFINE c == Settle(b)
<1>1. Sound(c, {"busy"}, {})
  <2>1. Sound(b, {"busy"}, {})
    BY Weaker
  <2> QED
    BY <2>1, StatesSound
<1> HIDE DEF c
<1>2. ASSUME NEW u
      PROVE  /\ Sound(Pair(c, u), {}, {}) /\ Sound(Standby(c, u), {}, {})
             /\ ~IsEmpty(c) => Sound(Connected(c), {}, {})
  <2>1. "timed" \notin {"busy"}
    OBVIOUS
  <2> QED
    BY <1>1, <2>1, StatesSound
<1>3. ASSUME NEW d, Sound(d, {}, {}) PROVE Sound(Settled(d), {}, {})
  BY <1>3, StatesSound
<1>4. Sound(StableNormal(b), {}, {})
  <2>1. ASSUME NEW d, Sound(d, {}, {}) PROVE Sound(Settled(Clear(d, {"linkback"})), {}, {})
    BY <2>1, <1>3, Helpers
  <2> QED
    BY <1>2, <2>1 DEF StableNormal, c
<1>5. Sound(StableAgain(b, x), {}, {})
  BY <1>2, <1>3 DEF StableAgain, c
<1>6. Sound(StableDedicated(b), {}, {})
  BY <1>2, <1>3 DEF StableDedicated, c
<1>7. Sound(StableDirect(b), {}, {})
  BY <1>2, <1>3 DEF StableDirect, c
<1> QED
  BY <1>4, <1>5, <1>6, <1>7

\* A pairing that is over is left, or the headset asks to be switched off.
LEMMA NotPairingSound ==
    ASSUME NEW b, Sound(b, {"timed"}, {}) \/ Sound(b, {}, {}), NEW x
    PROVE  Sound(StableNotPairing(b, x), {}, {})
<1>1. ASSUME NEW c, Sound(c, {"timed"}, {}) PROVE Sound(Ask(c, OffOp), {}, {})
  <2>1. Sound(Ask(c, OffOp), {"timed"}, {})
    BY <1>1, Helpers
  <2>2. OffOp \in Ask(c, OffOp).op
    BY <1>1 DEF Ask, Sound, Fits, Fields
  <2> QED
    BY <2>1, <2>2 DEF Sound, Timed
<1>2. Sound(Settle(b), {"timed"}, {})
  <2>1. Sound(b, {"timed"}, {})
    BY Weaker
  <2> QED
    BY <2>1, StatesSound
<1> QED
  BY <1>1, <1>2, StatesSound DEF StableNotPairing, OffOp

-----------------------------------------------------------------------------
(* The active node, the queue and the user's requests.                     *)

LEMMA StepsSound ==
    ASSUME NEW b, NEW E, NEW A, Sound(b, E, A), NEW x
    PROVE  /\ Sound(Invalid(b), E, A) /\ Sound(Load(b, x), E, A) /\ Sound(StepSuc(b), E, A)
           /\ Sound(StepFail(b), E, A) /\ Sound(CallAnew(b), E, A)
           /\ Sound(RemainAdd(b, x), E, A) /\ Sound(RemainSub(b, x), E, A) /\ Sound(StopSearch(b, x), E, A)
<1> USE DEF Alike, Fits, Fields
<1>9. Fits(b)
  BY DEF Sound
<1>1. Alike(b, Invalid(b))
  BY <1>9 DEF Invalid
<1>2. Alike(b, Load(b, x))
  BY <1>9 DEF Load
<1>3. Alike(b, StepSuc(b))
  BY <1>9 DEF StepSuc
<1>4. Alike(b, StepFail(b))
  BY <1>9 DEF StepFail
<1>5. Alike(b, CallAnew(b))
  BY <1>9 DEF CallAnew
<1>6. Alike(b, RemainAdd(b, x))
  BY <1>9 DEF RemainAdd
<1>7. Alike(b, RemainSub(b, x))
  BY <1>9 DEF RemainSub
<1>8. Sound(StopSearch(b, x), E, A)
  <2> DEFINE c == StopSearch(b, x)
  <2>1. /\ DOMAIN c = Fields /\ b.op \ {Op("sdp", x)} \subseteq c.op
        /\ \A f \in Fields \ {"op"} : c[f] = b[f]
    BY DEF StopSearch, Sound, Fits, Fields
  <2>2. \A o \in b.op : Kept(b, A, o) => o \in c.op
    BY <2>1 DEF Kept, OffOp, Op
  <2> HIDE DEF c
  <2>3. Sound(c, E, A)
    BY <2>1, <2>2, SameLinks DEF Fields
  <2> QED
    BY <2>3 DEF c
<1> HIDE DEF Alike, Fits, Fields
<1> QED
  BY <1>1, <1>2, <1>3, <1>4, <1>5, <1>6, <1>7, <1>8, Aside

LEMMA QueueSound ==
    ASSUME NEW b, NEW E, NEW A, Sound(b, E, A), NEW q
    PROVE  /\ Sound([b EXCEPT !.queue = q], E, A)
           /\ Sound([b EXCEPT !.queue = q, !.active = NoActive], E, A)
<1>1. Fits(b)
  BY DEF Sound
<1>2. Alike(b, [b EXCEPT !.queue = q]) /\ Alike(b, [b EXCEPT !.queue = q, !.active = NoActive])
  BY <1>1 DEF Alike, Fits, Fields
<1> QED
  BY <1>2, Aside

LEMMA PutBackSound ==
    ASSUME NEW b, NEW E, NEW A, Sound(b, E, A), NEW used, NEW n PROVE Sound(PutBack(b, used, n), E, A)
BY QueueSound, StepsSound DEF PutBack

LEMMA CallFirstSound ==
    ASSUME NEW b, NEW E, NEW A, Sound(b, E, A), NEW a, NEW profs PROVE Sound(CallFirst(b, a, profs), E, A)
BY QueueSound DEF CallFirst

LEMMA ToLinkback ==
    ASSUME NEW b, Sound(b, {}, {}) \/ Sound(b, {"busy"}, {})
    PROVE  Sound(EnterState(b, "LINKBACK", "CONNECTABLE", FALSE), {}, {})
<1>1. Sound(b, {"busy"}, {})
  BY Weaker
<1> QED
  BY <1>1, EnterSound DEF Late, Unasked, Stable

LEMMA ConnectSound ==
    ASSUME NEW b, Sound(b, {}, {}), NEW a, NEW profs PROVE Sound(DedicatedConnect(b, a, profs), {}, {})
<1>1. ASSUME NEW c, Sound(c, {}, {}) PROVE Sound(EnterState(c, "LINKBACK", "CONNECTABLE", FALSE), {}, {})
  BY <1>1, ToLinkback
<1> QED
  BY <1>1, CallFirstSound, StepsSound, Helpers DEF DedicatedConnect

LEMMA OneLinkSound ==
    ASSUME NEW b, NEW E, NEW A, Sound(b, E, A), NEW a, NEW n,
           a \in Addrs => DOMAIN n = LinkFields /\ n.used = b.link[a].used
    PROVE  Sound([b EXCEPT !.link[a] = n], E, A)
<1> DEFINE c == [b EXCEPT !.link[a] = n]
<1>1. DOMAIN c = Fields /\ c.num = b.num /\ c.link = [b.link EXCEPT ![a] = n]
  BY DEF Sound, Fits, Fields
<1>2. /\ c.cur = b.cur /\ c.radio = b.radio /\ c.timer = b.timer
      /\ c.step = b.step /\ c.op = b.op
  BY DEF Sound, Fits, Fields
<1>3. ASSUME NEW x \in Addrs
      PROVE  DOMAIN c.link[x] = LinkFields /\ c.link[x].used = b.link[x].used
  BY <1>1 DEF Sound, Fits
<1>4. DOMAIN c.link = Addrs
  BY <1>1 DEF Sound, Fits
<1> HIDE DEF c
<1>5. Sound(c, E, A)
  BY <1>1, <1>2, <1>3, <1>4, SameSlots
<1> QED
  BY <1>5 DEF c

LEMMA LinkFieldSound ==
    ASSUME NEW b, NEW E, NEW A, Sound(b, E, A), NEW a, NEW v
    PROVE  /\ Sound([b EXCEPT !.link[a].drop = v], E, A)
           /\ Sound([b EXCEPT !.link[a].auth = v], E, A)
           /\ Sound([b EXCEPT !.link[a].later = v], E, A)
           /\ Sound([b EXCEPT !.link[a].master = v], E, A)
           /\ Sound([b EXCEPT !.link[a].profs = v], E, A)
<1>1. Sound([b EXCEPT !.link[a].drop = v], E, A)
  <2> DEFINE n == [b.link[a] EXCEPT !.drop = v]
  <2>1. [b EXCEPT !.link[a].drop = v] = [b EXCEPT !.link[a] = n]
    OBVIOUS
  <2>2. a \in Addrs => DOMAIN n = LinkFields /\ n.used = b.link[a].used
    BY DEF Sound, Fits, LinkFields
  <2> HIDE DEF n
  <2> QED
    BY <2>1, <2>2, OneLinkSound
<1>2. Sound([b EXCEPT !.link[a].auth = v], E, A)
  <2> DEFINE n == [b.link[a] EXCEPT !.auth = v]
  <2>1. [b EXCEPT !.link[a].auth = v] = [b EXCEPT !.link[a] = n]
    OBVIOUS
  <2>2. a \in Addrs => DOMAIN n = LinkFields /\ n.used = b.link[a].used
    BY DEF Sound, Fits, LinkFields
  <2> HIDE DEF n
  <2> QED
    BY <2>1, <2>2, OneLinkSound
<1>3. Sound([b EXCEPT !.link[a].later = v], E, A)
  <2> DEFINE n == [b.link[a] EXCEPT !.later = v]
  <2>1. [b EXCEPT !.link[a].later = v] = [b EXCEPT !.link[a] = n]
    OBVIOUS
  <2>2. a \in Addrs => DOMAIN n = LinkFields /\ n.used = b.link[a].used
    BY DEF Sound, Fits, LinkFields
  <2> HIDE DEF n
  <2> QED
    BY <2>1, <2>2, OneLinkSound
<1>4. Sound([b EXCEPT !.link[a].master = v], E, A)
  <2> DEFINE n == [b.link[a] EXCEPT !.master = v]
  <2>1. [b EXCEPT !.link[a].master = v] = [b EXCEPT !.link[a] = n]
    OBVIOUS
  <2>2. a \in Addrs => DOMAIN n = LinkFields /\ n.used = b.link[a].used
    BY DEF Sound, Fits, LinkFields
  <2> HIDE DEF n
  <2> QED
    BY <2>1, <2>2, OneLinkSound
<1>5. Sound([b EXCEPT !.link[a].profs = v], E, A)
  <2> DEFINE n == [b.link[a] EXCEPT !.profs = v]
  <2>1. [b EXCEPT !.link[a].profs = v] = [b EXCEPT !.link[a] = n]
    OBVIOUS
  <2>2. a \in Addrs => DOMAIN n = LinkFields /\ n.used = b.link[a].used
    BY DEF Sound, Fits, LinkFields
  <2> HIDE DEF n
  <2> QED
    BY <2>1, <2>2, OneLinkSound
<1> QED
  BY <1>1, <1>2, <1>3, <1>4, <1>5

LEMMA DisconnectSound ==
    ASSUME NEW b, NEW E, NEW A, Sound(b, E, A), NEW a, NEW profs PROVE Sound(DedicatedDisconnect(b, a, profs), E, A)
<1>1. ASSUME NEW d, Sound(d, E, A), NEW p PROVE Sound(DisconnectProfs(d, a, p), E, A)
  <2> DEFINE c == DisconnectProfs(d, a, p)
  <2>1. /\ DOMAIN c = Fields /\ d.op \subseteq c.op
        /\ \A f \in Fields \ {"op"} : c[f] = d[f]
    BY <1>1 DEF DisconnectProfs, Sound, Fits, Fields
  <2> HIDE DEF c
  <2>2. Sound(c, E, A)
    BY <1>1, <2>1, SameLinks DEF Fields
  <2> QED
    BY <2>2 DEF c
<1>2. ASSUME NEW c, Sound(c, E, A) PROVE Sound([c EXCEPT !.queue = Q!RemovePlan(@, a, profs)], E, A)
  BY <1>2, QueueSound
<1> QED
  BY <1>1, <1>2, StepsSound, LinkFieldSound DEF DedicatedDisconnect

LEMMA PreparePairingSound ==
    ASSUME NEW b, Sound(b, {}, {}), NEW victim PROVE Sound(PreparePairing(b, victim), {}, {})
BY Helpers, StableSound, DisconnectSound DEF PreparePairing

LEMMA OtherSound ==
    ASSUME NEW b, NEW E, NEW A, Sound(b, E, A), NEW x
    PROVE  /\ Sound([b EXCEPT !.flag = x], E, A)
           /\ Sound([b EXCEPT !.ind = x], E, A)
           /\ Sound([b EXCEPT !.call = x], E, A)
           /\ Sound([b EXCEPT !.bond = x], E, A)
<1>1. Fits(b)
  BY DEF Sound
<1>2. /\ Alike(b, [b EXCEPT !.flag = x]) /\ Alike(b, [b EXCEPT !.ind = x])
      /\ Alike(b, [b EXCEPT !.call = x]) /\ Alike(b, [b EXCEPT !.bond = x])
  BY <1>1 DEF Alike, Fits, Fields
<1> QED
  BY <1>2, Aside

LEMMA EnterPairingSound ==
    ASSUME NEW b, Sound(b, {}, {}), NEW visible, NEW force, NEW victim
    PROVE  Sound(EnterPairing(b, visible, force, victim), {}, {})
BY OtherSound, QueueSound, Helpers, StepsSound, StableSound, PreparePairingSound
   DEF EnterPairing

LEMMA ExitPairingSound ==
    ASSUME NEW b, Sound(b, {}, {}) PROVE Sound(ExitPairing(b), {}, {})
BY Helpers, NotPairingSound DEF ExitPairing

LEMMA LinkbackSchedSound ==
    ASSUME NEW b, Sound(b, {}, {}), NEW bonds, NEW victim PROVE Sound(LinkbackSched(b, bonds, victim), {}, {})
BY Helpers, QueueSound, PreparePairingSound, ToLinkback, StableSound DEF LinkbackSched

-----------------------------------------------------------------------------
(* Starting, stopping and shutting down.                                   *)

\* b2s_connected.num is reset at power-on, which finds no link in use.
LEMMA StartUpSound ==
    ASSUME NEW b, Sound(b, {}, {}), UsedLinks(b) = {}, NEW atOnce, NEW bonds
    PROVE  Sound(StartUp(b, atOnce, bonds), {}, {})
<1> DEFINE c == [b EXCEPT !.flag = @ \cap {"visible", "force"}, !.timer = {}, !.ind = {}]
           d == EnterState(c, "STARTUP", "IDLE", FALSE)
           e == [d EXCEPT !.num = 0, !.queue = << >>, !.active = NoActive]
<1>1. Sound(c, {"timed"}, {}) /\ c.num = b.num
  <2> DEFINE f == Stop(b, b.timer)
  <2>1. Sound(f, {"timed"}, {})
    BY StopSound
  <2>2. Alike(f, c) /\ c.num = b.num
    BY DEF Alike, Stop, Sound, Fits, Fields
  <2> HIDE DEF c, f
  <2> QED
    BY <2>1, <2>2, Aside
<1>2. b.num = 0
  BY FS_EmptySet DEF Sound, Counted
<1>3. Sound(d, {}, {}) /\ d.num = 0
  <2> HIDE DEF c
  <2>1. Sound(d, Late("STARTUP"), Unasked("STARTUP")) /\ d.num = c.num
    BY <1>1, EnterSilent DEF Stable
  <2> QED
    BY <2>1, <1>1, <1>2 DEF Late, Unasked
<1>4. Sound(e, {}, {})
  <2> HIDE DEF d
  <2>1. Alike(d, e)
    BY <1>3 DEF Alike, Sound, Fits, Fields
  <2> QED
    BY <1>3, <2>1, Aside
<1> HIDE DEF e
<1>5. Sound(LinkbackSched(e, bonds, NoAddr), {}, {})
  BY <1>4, LinkbackSchedSound
<1> QED
  BY <1>4, <1>5 DEF StartUp, e

\* What is stopped includes the pairing timer; the state entered next is none
\* that needs it.
LEMMA StopAllSound ==
    ASSUME NEW b, Sound(b, {}, {}), NEW used PROVE Sound(StopAll(b, used), {"timed"}, {})
<1> DEFINE c == Stop(b, {"pairing", "discoverable", "linkback", "delay"})
<1>1. Sound(c, {"timed"}, {})
  <2>1. {} \cup {"timed"} = {"timed"}
    OBVIOUS
  <2> QED
    BY <2>1, StopSound
<1> HIDE DEF c
<1> QED
  BY <1>1, Helpers, StepsSound, PutBackSound DEF StopAll, c

\* The links are asked to go in the step START_LINK; END is reached with no link
\* left, or after that step.
LEMMA ShutDownStepSound ==
    ASSUME NEW b, Sound(b, {"going"}, Addrs), b.cur = "SHUTDOWN_STEP", b.step \in Steps,
           b.step = "END" => IsEmpty(b),
           b.step = "WAIT_LINK" => \A a \in Addrs : Asked(b, a)
    PROVE  Sound(ShutDownStep(b), {}, {})
<1> DEFINE c(next, asked, cnt) ==
        [b EXCEPT !.step = next, !.op = @ \cup asked, !.cnt = cnt,
                  !.link = IF b.step # "START_PROFILE" THEN @
                           ELSE [a \in Addrs |-> [@[a] EXCEPT !.drop = FALSE]]]
<1>1. ASSUME NEW next, NEW asked, NEW cnt
      PROVE  /\ Sound(c(next, asked, cnt), {"going"}, Addrs)
             /\ c(next, asked, cnt).step = next /\ c(next, asked, cnt).op = b.op \cup asked
             /\ c(next, asked, cnt).cur = b.cur
             /\ \A a \in Addrs : c(next, asked, cnt).link[a].used = b.link[a].used
  <2> DEFINE d == c(next, asked, cnt)
  <2>1. /\ DOMAIN d = Fields /\ d.num = b.num /\ d.step = next
        /\ d.cur = b.cur /\ d.radio = b.radio /\ d.timer = b.timer /\ d.op = b.op \cup asked
    BY DEF Sound, Fits, Fields
  <2>2. d.link = IF b.step # "START_PROFILE" THEN b.link
                 ELSE [a \in Addrs |-> [b.link[a] EXCEPT !.drop = FALSE]]
    BY DEF Sound, Fits, Fields
  <2>3. DOMAIN d.link = Addrs
    BY <2>2 DEF Sound, Fits
  <2>4. \A a \in Addrs : DOMAIN d.link[a] = LinkFields /\ d.link[a].used = b.link[a].used
    BY <2>2 DEF Sound, Fits, LinkFields
  <2> HIDE DEF d
  <2>5. Sound(d, {"going"}, Addrs)
    BY <2>1, <2>3, <2>4, SameSlots
  <2> QED
    BY <2>1, <2>4, <2>5 DEF d
<1> HIDE DEF c
\* A step that is not the last.
<1>2. ASSUME NEW next \in {"WAIT_PROFILE", "START_LINK", "WAIT_LINK"}, NEW asked, NEW cnt,
             next = "WAIT_LINK" => \/ b.step = "WAIT_LINK"
                                   \/ asked = {Op("disc", a) : a \in UsedLinks(b)}
      PROVE  Sound(Start(c(next, asked, cnt), "shutdown"), {}, {})
  <2> DEFINE d == c(next, asked, cnt)
  <2> HIDE DEF d
  <2>1. /\ Sound(d, {"going"}, Addrs) /\ d.step = next /\ d.cur = "SHUTDOWN_STEP"
        /\ d.op = b.op \cup asked /\ \A a \in Addrs : d.link[a].used = b.link[a].used
    BY <1>1 DEF d
  <2>2. Going(d)
    BY <2>1 DEF Going
  <2>3. ASSUME NEW a \in Addrs PROVE Asked(d, a)
    <3>1. CASE next = "WAIT_LINK" /\ b.step = "WAIT_LINK"
      BY <2>1, <3>1 DEF Asked, AllAsked
    <3>2. CASE next = "WAIT_LINK" /\ asked = {Op("disc", x) : x \in UsedLinks(b)}
      BY <2>1, <3>2 DEF Asked, UsedLinks
    <3>3. CASE next # "WAIT_LINK"
      BY <2>1, <3>3 DEF Asked, AllAsked
    <3> QED
      BY <1>2, <3>1, <3>2, <3>3
  <2>4. Sound(d, {}, {})
    BY <2>1, <2>2, <2>3 DEF Sound
  <2> QED
    BY <2>4, Helpers DEF d
\* The last step.
<1>3. ASSUME NEW cnt, b.step = "END" \/ b.step = "WAIT_LINK"
      PROVE  Sound(EnterState(c("END", {}, cnt), "SHUTDOWN", "IDLE", FALSE), {}, {})
  <2> DEFINE d == c("END", {}, cnt)
             e == EnterState(d, "SHUTDOWN", "IDLE", FALSE)
  <2> HIDE DEF d
  <2>1. /\ Sound(d, {"going"}, Addrs) /\ d.op = b.op
        /\ \A a \in Addrs : d.link[a].used = b.link[a].used
    <3>1. d.op = b.op
      BY DEF d, c, Sound, Fits, Fields
    <3>2. Sound(d, {"going"}, Addrs) /\ \A a \in Addrs : d.link[a].used = b.link[a].used
      BY <1>1 DEF d
    <3> QED
      BY <3>1, <3>2
  <2>2. /\ Sound(e, Late("SHUTDOWN"), Unasked("SHUTDOWN")) /\ e.cur = "SHUTDOWN"
        /\ e.link = d.link
    BY <2>1, EnterSilent DEF Stable
  <2>3. e.op = d.op
    BY <2>1 DEF EnterState, Sound, Fits, Fields
  <2> HIDE DEF e
  <2>4. ASSUME NEW a \in Addrs PROVE Asked(e, a)
    <3>1. CASE b.step = "END"
      <4>1. UsedLinks(b) = {}
        BY <3>1, CountFacts DEF Sound, IsEmpty
      <4> QED
        BY <4>1, <2>1, <2>2 DEF Asked, UsedLinks
    <3>2. CASE b.step = "WAIT_LINK"
      BY <3>2, <2>1, <2>2, <2>3 DEF Asked, AllAsked
    <3> QED
      BY <1>3, <3>1, <3>2
  <2>5. Sound(e, {}, {})
    BY <2>2, <2>4 DEF Sound, Late, Unasked, Going
  <2> QED
    BY <2>5 DEF d, e
<1> DEFINE waited == b.cnt + 1
           some   == {Op("disc", a) : a \in {x \in UsedLinks(b) : b.link[x].profs = {}}}
                        \cup {o \in {"pdisc"} \X Addrs \X Profs : o[3] \in b.link[o[2]].profs}
<1>4. CASE b.step = "START_PROFILE"
  <2>1. ShutDownStep(b) = Start(c("WAIT_PROFILE", some, 0), "shutdown")
    BY <1>4 DEF ShutDownStep, c
  <2> HIDE DEF some
  <2> QED
    BY <2>1, <1>2
<1>5. CASE b.step = "WAIT_PROFILE"
  <2>1. \/ ShutDownStep(b) = Start(c("START_LINK", {}, waited), "shutdown")
        \/ ShutDownStep(b) = Start(c("WAIT_PROFILE", {}, waited), "shutdown")
    BY <1>5 DEF ShutDownStep, c
  <2> QED
    BY <2>1, <1>2
<1>6. CASE b.step = "START_LINK"
  <2>1. ShutDownStep(b) = Start(c("WAIT_LINK", {Op("disc", a) : a \in UsedLinks(b)}, 0), "shutdown")
    BY <1>6 DEF ShutDownStep, c
  <2> QED
    BY <2>1, <1>2
<1>7. CASE b.step = "WAIT_LINK"
  <2>1. \/ ShutDownStep(b) = EnterState(c("END", {}, waited), "SHUTDOWN", "IDLE", FALSE)
        \/ ShutDownStep(b) = Start(c("WAIT_LINK", {}, waited), "shutdown")
    BY <1>7 DEF ShutDownStep, c
  <2> QED
    BY <2>1, <1>2, <1>3, <1>7
<1>8. CASE b.step = "END"
  <2>1. ShutDownStep(b) = EnterState(c("END", {}, b.cnt), "SHUTDOWN", "IDLE", FALSE)
    BY <1>8 DEF ShutDownStep, c
  <2> QED
    BY <2>1, <1>3, <1>8
<1> QED
  BY <1>4, <1>5, <1>6, <1>7, <1>8 DEF Steps

LEMMA ShutDownSound ==
    ASSUME NEW b, Sound(b, {}, {}), NEW used PROVE Sound(ShutDown(b, used), {}, {})
<1> DEFINE c == EnterState(StopAll(b, used), "SHUTDOWN_STEP", "IDLE", FALSE)
           d == [c EXCEPT !.step = IF IsEmpty(c) THEN "END" ELSE "START_PROFILE",
                          !.op = @ \ {OffOp}]
<1>1. Sound(c, {"going"}, Addrs) /\ c.cur = "SHUTDOWN_STEP"
  <2>1. Sound(StopAll(b, used), {"timed"}, {})
    BY StopAllSound
  <2>2. Late("SHUTDOWN_STEP") = {"going"} /\ Unasked("SHUTDOWN_STEP") = Addrs
    BY DEF Late, Unasked
  <2> QED
    BY <2>1, <2>2, EnterSilent DEF Stable
<1> HIDE DEF c
<1>2. /\ DOMAIN d = Fields /\ d.link = c.link /\ d.num = c.num /\ d.cur = c.cur
      /\ d.radio = c.radio /\ d.timer = c.timer /\ d.op = c.op \ {OffOp}
      /\ d.step = IF IsEmpty(c) THEN "END" ELSE "START_PROFILE"
  BY <1>1 DEF Sound, Fits, Fields
<1> HIDE DEF d
<1>3. \A o \in c.op : Kept(c, Addrs, o) => o \in d.op
  BY <1>1, <1>2 DEF Kept, OffOp, Op
<1>4. Sound(d, {"going"}, Addrs)
  BY <1>1, <1>2, <1>3, SameLinks
<1>5. d.step \in {"END", "START_PROFILE"} /\ (d.step = "END" => IsEmpty(d))
  BY <1>2 DEF IsEmpty
<1>6. Sound(ShutDownStep(d), {}, {})
  BY <1>1, <1>2, <1>4, <1>5, ShutDownStepSound DEF Steps
<1> QED
  BY <1>6 DEF ShutDown, c, d, OffOp

LEMMA StopPolicySound ==
    ASSUME NEW b, Sound(b, {}, {}), NEW used PROVE Sound(StopPolicy(b, used), {}, {})
<1>1. Sound(StopAll(b, used), {"timed"}, {})
  BY StopAllSound
<1>2. Late("STOP") = {} /\ Unasked("STOP") = {}
  BY DEF Late, Unasked
<1> QED
  BY <1>1, <1>2, EnterSilent DEF StopPolicy, Stable

LEMMA RestoredSound ==
    ASSUME NEW b, Sound(b, {}, {}), NEW bonds, NEW victim PROVE Sound(Restored(b, bonds, victim), {}, {})
BY Helpers, QueueSound, LinkbackSchedSound DEF Restored

-----------------------------------------------------------------------------
(* linkback_run and the handlers of events.                                *)

LEMMA NextPhoneSound ==
    ASSUME NEW b, Sound(b, {}, {}) PROVE Sound(NextPhone(b), {}, {})
BY QueueSound, StepsSound, StableSound, Helpers DEF NextPhone

LEMMA LinkbackRoundSound ==
    ASSUME NEW b, Sound(b, {}, {}), NEW starts PROVE Sound(LinkbackRound(b, starts), {}, {})
<1>1. Sound(CallPhone(b, starts), {}, {})
  BY Helpers, StepsSound DEF CallPhone
<1> QED
  BY <1>1, NextPhoneSound, Helpers, StepsSound DEF LinkbackRound

LEMMA PlanSound ==
    ASSUME NEW b, NEW E, NEW A, Sound(b, E, A), NEW x
    PROVE  /\ Sound([b EXCEPT !.active.node.plan = x], E, A)
           /\ Sound([b EXCEPT !.active.sdp_ok = x], E, A)
           /\ Sound([b EXCEPT !.active.exit = x], E, A)
           /\ Sound([b EXCEPT !.active.pending = x], E, A)
<1>1. Fits(b)
  BY DEF Sound
<1>2. /\ Alike(b, [b EXCEPT !.active.node.plan = x]) /\ Alike(b, [b EXCEPT !.active.sdp_ok = x])
      /\ Alike(b, [b EXCEPT !.active.exit = x]) /\ Alike(b, [b EXCEPT !.active.pending = x])
  BY <1>1 DEF Alike, Fits, Fields
<1> QED
  BY <1>2, Aside

LEMMA LinkbackTimeoutSound ==
    ASSUME NEW b, Sound(b, {}, {}) PROVE Sound(LinkbackTimeout(b), {}, {})
<1>1. ASSUME NEW d, Sound(d, {}, {}) PROVE Sound(CallTimedOut(d), {}, {})
  BY <1>1, Helpers, StepsSound, PlanSound DEF CallTimedOut
<1> QED
  BY <1>1, QueueSound, StepsSound, Helpers DEF LinkbackTimeout

LEMMA LinkUpSound ==
    ASSUME NEW b, Sound(b, {}, {}), NEW a \in Addrs, NEW victim PROVE Sound(LinkUp(b, a, victim), {}, {})
<1> DEFINE c == AddNode(b, a)
           d == IF c.num > NumMax THEN DedicatedDisconnect(c, victim, Profs) ELSE c
<1>1. Sound(d, {}, {a})
  <2> HIDE DEF c
  <2>1. {} \cup {a} = {a}
    OBVIOUS
  <2>2. Sound(c, {}, {a})
    BY <2>1, AddSound DEF c
  <2> QED
    BY <2>2, DisconnectSound
<1> HIDE DEF d
<1>2. ASSUME d.radio = "IDLE" PROVE Sound(Ask(d, Op("disc", a)), {}, {})
  <2>1. Sound(Ask(d, Op("disc", a)), {}, {a})
    BY <1>1, Helpers
  <2>2. Op("disc", a) \in Ask(d, Op("disc", a)).op
    BY <1>1 DEF Ask, Sound, Fits, Fields
  <2> QED
    BY <2>1, <2>2 DEF Sound, Asked
<1>3. ASSUME d.radio # "IDLE" PROVE Sound(d, {}, {})
  <2>1. Asked(d, a)
    BY <1>1, <1>3 DEF Sound, Silent, Asked, AllAsked, Stable
  <2> QED
    BY <1>1, <2>1 DEF Sound
<1> QED
  BY <1>2, <1>3 DEF LinkUp, d

LEMMA LinkFailSound ==
    ASSUME NEW b, Sound(b, {}, {}), NEW a, NEW cause, NEW used PROVE Sound(LinkFail(b, a, cause, used), {}, {})
BY Helpers, StepsSound, PutBackSound DEF LinkFail

LEMMA DelayOverSound ==
    ASSUME NEW b, Sound(b, {}, {}) PROVE Sound(DelayOver(b), {}, {})
BY Helpers, StepsSound DEF DelayOver

LEMMA AuthSucSound ==
    ASSUME NEW b, Sound(b, {}, {}), NEW a PROVE Sound(AuthSuc(b, a), {}, {})
<1> DEFINE c(f) == [b EXCEPT !.flag = f, !.link[a].auth = TRUE]
<1>1. ASSUME NEW f PROVE Sound(c(f), {}, {})
  <2>1. Sound([b EXCEPT !.flag = f], {}, {})
    BY OtherSound
  <2>2. Sound([[b EXCEPT !.flag = f] EXCEPT !.link[a].auth = TRUE], {}, {})
    BY <2>1, LinkFieldSound
  <2> QED
    BY <2>2
<1>2. ASSUME NEW d, Sound(d, {}, {}) PROVE Sound(PlaceTaken(d, a), {}, {})
  BY <1>2, LinkbackTimeoutSound DEF PlaceTaken
<1> QED
  BY <1>1, <1>2, StableSound DEF AuthSuc

LEMMA AuthFailSound ==
    ASSUME NEW b, Sound(b, {}, {}), NEW a PROVE Sound(AuthFail(b, a), {}, {})
<1> DEFINE c == Ask(b, Op("disc", a))
<1>1. Sound(c, {}, {})
  BY Helpers
<1> HIDE DEF c
<1>2. Sound([c EXCEPT !.bond[a] = {}], {}, {})
  <2>1. Alike(c, [c EXCEPT !.bond[a] = {}])
    BY <1>1 DEF Alike, Sound, Fits, Fields
  <2> QED
    BY <1>1, <2>1, Aside
<1> QED
  BY <1>2 DEF AuthFail, c

LEMMA GoneSound ==
    ASSUME NEW b, NEW E, NEW A, Sound(b, E, A), NEW a PROVE Sound(CalledGone(b, a), E, A)
BY PlanSound, Helpers DEF CalledGone

LEMMA DisconnLostSound ==
    ASSUME NEW b, NEW a \in Addrs, Sound(b, {}, {a}) PROVE Sound(DisconnLost(b, a), {}, {})
<1> DEFINE c == DelNode(b, a)
           d == IF CalledBack(b, a)
                THEN [c EXCEPT !.queue = Q!InsertNormal(@, Request(a, ProfsOfBond(b.bond[a]), LossTime))]
                ELSE c
<1>1. Sound(c, {"busy"}, {})
  BY DelSound
<1>2. Sound(d, {"busy"}, {})
  <2> HIDE DEF c
  <2> QED
    BY <1>1, QueueSound
<1> HIDE DEF d
<1>3. CASE d.cur = "LINKBACK"
  <2>1. Sound(d, {}, {})
    BY <1>2, <1>3, BusyAgain
  <2>2. Sound(CalledGone(d, a), {}, {})
    BY <2>1, GoneSound
  <2>3. DisconnLost(b, a) = CalledGone(d, a)
    BY <1>3 DEF DisconnLost, d, Stable
  <2> QED
    BY <2>2, <2>3
<1>4. CASE d.cur \in Stable
  <2>1. DisconnLost(b, a) = EnterState(d, "LINKBACK", "CONNECTABLE", FALSE)
    BY <1>4 DEF DisconnLost, d, Stable
  <2> QED
    BY <1>2, <2>1, ToLinkback
<1>5. CASE d.cur \notin Stable \cup {"LINKBACK"}
  <2>1. Sound(d, {}, {})
    BY <1>2, <1>5, BusyAgain DEF Stable
  <2>2. d.cur \notin Stable /\ d.cur # "LINKBACK"
    BY <1>5
  <2>3. DisconnLost(b, a) = d
    BY <2>2 DEF DisconnLost, d
  <2> QED
    BY <2>1, <2>3
<1> QED
  BY <1>3, <1>4, <1>5

LEMMA DisconnNormalSound ==
    ASSUME NEW b, NEW a \in Addrs, Sound(b, {}, {a}) PROVE Sound(DisconnNormal(b, a), {}, {})
<1> DEFINE c == DelNode(b, a)
<1>1. Sound(c, {"busy"}, {})
  BY DelSound
<1> HIDE DEF c
<1>2. CASE Is(c, "disconnect_for_pairing")
  <2>1. Sound(StableDedicated(Clear(c, {"disconnect_for_pairing"})), {}, {})
    BY <1>1, Helpers, StableSound
  <2> QED
    BY <1>2, <2>1 DEF DisconnNormal, c
<1>3. CASE ~Is(c, "disconnect_for_pairing") /\ c.cur = "LINKBACK"
  <2>1. Sound(c, {}, {})
    BY <1>1, <1>3, BusyAgain
  <2>2. Sound(CalledGone(c, a), {}, {})
    BY <2>1, GoneSound
  <2>3. DisconnNormal(b, a) = CalledGone(c, a)
    BY <1>3 DEF DisconnNormal, c, Stable
  <2> QED
    BY <2>2, <2>3
<1>4. CASE ~Is(c, "disconnect_for_pairing") /\ c.cur \in Stable
  <2>1. DisconnNormal(b, a) = StableGone(c, b.link[a].auth)
    BY <1>4 DEF DisconnNormal, c, Stable
  <2>2. c.cur # "CONNECTED" \/ ~IsEmpty(c) => Sound(c, {}, {})
    BY <1>1, BusyAgain
  <2>3. Sound(StableAgain(c, "SRC_DISCONN_NORMAL"), {}, {})
    BY <1>1, StableSound
  <2> QED
    BY <2>1, <2>2, <2>3 DEF StableGone
<1>5. CASE ~Is(c, "disconnect_for_pairing") /\ c.cur \notin Stable \cup {"LINKBACK"}
  <2>1. Sound(c, {}, {})
    BY <1>1, <1>5, BusyAgain DEF Stable
  <2>2. c.cur \notin Stable /\ c.cur # "LINKBACK"
    BY <1>5
  <2>3. DisconnNormal(b, a) = c
    BY <1>5, <2>2 DEF DisconnNormal, c
  <2> QED
    BY <2>1, <2>3
<1> QED
  BY <1>2, <1>3, <1>4, <1>5

LEMMA SearchSound ==
    ASSUME NEW b, Sound(b, {}, {}), NEW a, NEW cause, NEW starts, NEW known
    PROVE  /\ Sound(SdpAttr(b, a), {}, {}) /\ Sound(SdpStop(b), {}, {})
           /\ Sound(SdpCmpl(b, a, cause, starts, known), {}, {})
<1>1. Sound(SdpAttr(b, a), {}, {})
  BY PlanSound DEF SdpAttr
<1>2. Sound(SdpStop(b), {}, {})
  BY Helpers DEF SdpStop
<1>3. ASSUME NEW c, Sound(c, {}, {}) PROVE Sound(ConnectProf(c, starts), {}, {})
  BY <1>3, Helpers, StepsSound DEF ConnectProf
<1>4. Sound(SdpCmpl(b, a, cause, starts, known), {}, {})
  BY <1>3, PlanSound, Helpers, StepsSound DEF SdpCmpl
<1> QED
  BY <1>1, <1>2, <1>4

LEMMA ProfConnSucSound ==
    ASSUME NEW b, Sound(b, {}, {}), NEW a, NEW p PROVE Sound(ProfConnSuc(b, a, p), {}, {})
<1>1. ASSUME NEW c, Sound(c, {}, {}) PROVE Sound(Bond(c, a, p), {}, {})
  <2> DEFINE d == [c EXCEPT !.link[a].profs = @ \cup {p}]
  <2>1. Sound(d, {}, {})
    BY <1>1, LinkFieldSound
  <2> HIDE DEF d
  <2>2. ASSUME NEW f PROVE Sound([d EXCEPT !.bond = f], {}, {})
    BY <2>1, OtherSound
  <2> QED
    BY <2>2 DEF Bond, d
<1>2. ASSUME NEW c, Sound(c, {}, {}) PROVE Sound(StepDone(c, a, p), {}, {})
  BY <1>2, StepsSound, Helpers DEF StepDone
<1> QED
  BY <1>1, <1>2, ConnectSound, LinkFieldSound DEF ProfConnSuc

LEMMA ProfConnFailSound ==
    ASSUME NEW b, Sound(b, {}, {}), NEW a, NEW p, NEW cause PROVE Sound(ProfConnFail(b, a, p, cause), {}, {})
BY StepsSound, Helpers DEF ProfConnFail

LEMMA ProfDisconnSound ==
    ASSUME NEW b, Sound(b, {}, {}), NEW a, NEW p PROVE Sound(ProfDisconn(b, a, p), {}, {})
BY LinkFieldSound, Helpers DEF ProfDisconn

LEMMA PhoneSound ==
    ASSUME NEW b, Sound(b, {}, {}), NEW a, NEW starts, NEW notCheck
    PROVE  /\ Sound(ConnInd(b, a), {}, {}) /\ Sound(LaterAvrcp(b, a), {}, {})
           /\ Sound(RoleSlave(b, a, starts, notCheck), {}, {})
<1>1. Sound(ConnInd(b, a), {}, {})
  BY OtherSound, Helpers DEF ConnInd
<1>2. Sound(LaterAvrcp(b, a), {}, {})
  BY LinkFieldSound, ConnectSound, Helpers DEF LaterAvrcp
<1>3. Sound(RoleSlave(b, a, starts, notCheck), {}, {})
  BY LinkFieldSound, SearchSound DEF RoleSlave
<1> QED
  BY <1>1, <1>2, <1>3

-----------------------------------------------------------------------------
(* The actions.                                                            *)

LEMMA StackSound ==
    ASSUME Sound(bp, {}, {}), NEW a \in Addrs, Stack(a) PROVE Sound(bp', {}, {})
<1>1. CASE ConnSuc(a)
  <2> DEFINE b == [bp EXCEPT !.op = @ \ {Op("page", a), Op("in", a)}]
  <2>1. Sound(b, {}, {})
    <3>1. /\ DOMAIN b = Fields /\ b.op = bp.op \ {Op("page", a), Op("in", a)}
          /\ \A f \in Fields \ {"op"} : b[f] = bp[f]
      BY DEF Sound, Fits, Fields
    <3> HIDE DEF b
    <3> QED
      BY <3>1, SameLinks DEF Fields, Kept, OffOp, Op
  <2>2. PICK victim : bp' = LinkUp(b, a, victim)
    BY <1>1 DEF ConnSuc, Becomes
  <2> HIDE DEF b
  <2> QED
    BY <2>1, <2>2, LinkUpSound
<1>2. CASE ConnFail(a)
  <2>1. PICK o \in Paging(a), used \in 1 .. MaxTime,
            cause \in {"fail", "exist", "busy"} : bp' = LinkFail(Done(bp, o), a, cause, used)
    BY <1>2 DEF ConnFail, Becomes
  <2>2. o[1] \notin {"off", "disc"}
    BY DEF Paging
  <2> QED
    BY <2>1, <2>2, Helpers, LinkFailSound
<1>3. CASE Authenticate(a)
  BY <1>3, AuthSucSound, AuthFailSound DEF Authenticate, Becomes
<1>4. CASE Disconnected(a)
  <2>1. Sound(Down(bp, a), {}, {a})
    <3> DEFINE b == Down(bp, a)
    <3>1. /\ DOMAIN b = Fields /\ b.op = {o \in bp.op : o[2] # a \/ o[1] = "stop"}
          /\ \A f \in Fields \ {"op"} : b[f] = bp[f]
      BY DEF Down, Sound, Fits, Fields
    <3> HIDE DEF b
    <3>2. OffOp[2] # a
      BY BtPolicyAssumption DEF BtPolicyAssumption, OffOp, Op
    <3>3. Sound(bp, {}, {a})
      BY Weaker
    <3>4. \A o \in bp.op : Kept(bp, {a}, o) => o \in b.op
      BY <3>1, <3>2 DEF Kept
    <3>5. Sound(b, {}, {a})
      BY <3>1, <3>3, <3>4, SameLinks DEF Fields
    <3> QED
      BY <3>5 DEF b
  <2> QED
    BY <1>4, <2>1, DisconnNormalSound, DisconnLostSound DEF Disconnected, Becomes
<1>5. CASE SearchAttr(a)
  BY <1>5, SearchSound DEF SearchAttr, Becomes
<1>6. CASE SearchCmpl(a)
  <2>1. Sound(Done(bp, Op("sdp", a)), {}, {})
    BY Helpers DEF Op
  <2> QED
    BY <1>6, <2>1, SearchSound, Helpers DEF SearchCmpl, Becomes
<1>7. CASE SearchStop(a)
  <2>1. Sound(Done(bp, Op("stop", a)), {}, {})
    BY Helpers DEF Op
  <2> QED
    BY <1>7, <2>1, SearchSound DEF SearchStop, Becomes
<1>8. ASSUME NEW p \in Profs \cup {NoProf}, ConnCmpl(a, p) PROVE Sound(bp', {}, {})
  <2>1. Sound(Done(bp, <<"conn", a, p>>), {}, {})
    BY Helpers
  <2> QED
    BY <1>8, <2>1, Helpers, ProfConnSucSound, ProfConnFailSound DEF ConnCmpl, Becomes
<1>9. ASSUME NEW p \in Profs \cup {NoProf}, DisconnCmpl(a, p) PROVE Sound(bp', {}, {})
  <2>1. Sound(Done(bp, <<"pdisc", a, p>>), {}, {})
    BY Helpers
  <2> QED
    BY <1>9, <2>1, ProfDisconnSound DEF DisconnCmpl, Becomes
<1> QED
  BY <1>1, <1>2, <1>3, <1>4, <1>5, <1>6, <1>7, <1>8, <1>9 DEF Stack

LEMMA PhoneStepSound ==
    ASSUME Sound(bp, {}, {}), NEW a \in Addrs, Phone(a) PROVE Sound(bp', {}, {})
<1>1. CASE Incoming(a)
  BY <1>1, PhoneSound DEF Incoming, Becomes
<1>2. CASE RoleSwitched(a)
  BY <1>2, PhoneSound DEF RoleSwitched, Becomes
<1>3. ASSUME NEW p \in Profs, RemoteConn(a, p) PROVE Sound(bp', {}, {})
  BY <1>3, ProfConnSucSound DEF RemoteConn, Becomes
<1> QED
  BY <1>1, <1>2, <1>3 DEF Phone

LEMMA TimerSound ==
    ASSUME Sound(bp, {}, {}), Timer PROVE Sound(bp', {}, {})
<1>1. CASE TimerLinkback
  BY <1>1, LinkbackTimeoutSound DEF TimerLinkback, Becomes
<1>2. CASE TimerDelay
  BY <1>2, DelayOverSound DEF TimerDelay, Becomes
<1>3. CASE TimerPairing
  <2>1. Sound(Stop(bp, {"pairing"}), {"timed"}, {})
    <3>1. {} \cup {"timed"} = {"timed"}
      OBVIOUS
    <3> QED
      BY <3>1, StopSound
  <2> QED
    BY <1>3, <2>1, NotPairingSound DEF TimerPairing, Becomes
<1>4. CASE TimerShutdown
  <2> DEFINE b == Stop(bp, {"shutdown"})
  <2>1. Sound(b, {}, {})
    BY Helpers
  <2>2. b.cur = bp.cur
    BY DEF Stop, Sound, Fits, Fields
  <2> HIDE DEF b
  <2>3. b.cur = "SHUTDOWN_STEP" =>
            b.step \in Steps /\ b.step # "END" /\ \A a \in Addrs : Asked(b, a)
    BY <2>1 DEF Sound, Going, Steps
  <2>4. Sound(b, {"going"}, Addrs)
    BY <2>1, Weaker
  <2>5. b.cur = "SHUTDOWN_STEP" => Sound(ShutDownStep(b), {}, {})
    BY <2>3, <2>4, ShutDownStepSound
  <2> QED
    BY <1>4, <2>1, <2>2, <2>5 DEF TimerShutdown, Becomes, b
<1>5. CASE TimerDiscoverable
  BY <1>5, Helpers, StableSound DEF TimerDiscoverable, Becomes
<1>6. ASSUME NEW a \in Addrs, IndTimeout(a) PROVE Sound(bp', {}, {})
  BY <1>6, OtherSound DEF IndTimeout, Becomes
<1>7. ASSUME NEW a \in Addrs, AvrcpTimeout(a) PROVE Sound(bp', {}, {})
  BY <1>7, PhoneSound DEF AvrcpTimeout, Becomes
<1> QED
  BY <1>1, <1>2, <1>3, <1>4, <1>5, <1>6, <1>7 DEF Timer

LEMMA UserSound ==
    ASSUME Sound(bp, {}, {}), User PROVE Sound(bp', {}, {})
<1>1. ASSUME NEW a \in Addrs, UserConnect(a) PROVE Sound(bp', {}, {})
  BY <1>1, ConnectSound DEF UserConnect, Becomes
<1>2. ASSUME NEW a \in Addrs, UserDisconnect(a) PROVE Sound(bp', {}, {})
  BY <1>2, DisconnectSound DEF UserDisconnect, Becomes
<1>3. CASE UserDisconnectAll
  <2> DEFINE b == [bp EXCEPT !.op = @ \cup {Op("disc", a) : a \in UsedLinks(bp)}]
  <2>1. /\ DOMAIN b = Fields /\ bp.op \subseteq b.op
        /\ \A f \in Fields \ {"op"} : b[f] = bp[f]
    BY DEF Sound, Fits, Fields
  <2>2. bp' = b
    BY <1>3 DEF UserDisconnectAll, Becomes
  <2> HIDE DEF b
  <2> QED
    BY <2>1, <2>2, SameLinks DEF Fields
<1>4. CASE UserPairing
  BY <1>4, EnterPairingSound, ExitPairingSound DEF UserPairing, Becomes
<1>5. CASE PowerOn
  BY <1>5, StartUpSound DEF PowerOn, Becomes
<1>6. CASE PowerOff
  BY <1>6, ShutDownSound DEF PowerOff, Becomes
<1>7. CASE IntoBox
  BY <1>7, StopPolicySound DEF IntoBox, Becomes
<1>8. CASE OutOfBox
  BY <1>8, RestoredSound DEF OutOfBox, Becomes
<1>9. CASE Call
  <2>1. Sound([bp EXCEPT !.call = TRUE], {}, {}) /\ Sound([bp EXCEPT !.call = FALSE], {}, {})
    BY OtherSound
  <2> QED
    BY <1>9, <2>1, ExitPairingSound DEF Call, Becomes
<1> QED
  BY <1>1, <1>2, <1>3, <1>4, <1>5, <1>6, <1>7, <1>8, <1>9 DEF User

-----------------------------------------------------------------------------
(* The theorems about links, modes and timers.                             *)

\* The inductive invariant: every handler keeps the record sound, and power-off
\* is where it starts.
THEOREM PolicyIsSound == Spec => []Sound(bp, {}, {})
<1>1. Init => Sound(bp, {}, {})
  <2> SUFFICES ASSUME Init PROVE Sound(bp, {}, {})
    OBVIOUS
  <2>1. Fits(bp) /\ bp.num = 0
    BY DEF Init, Fits, Fields, LinkFields, NoLink
  <2>2. UsedLinks(bp) = {}
    BY DEF Init, UsedLinks, NoLink
  <2>3. bp.radio = "IDLE" /\ bp.timer = {} /\ bp.cur = "SHUTDOWN"
    BY DEF Init
  <2>4. Counted(bp) /\ Silent(bp) /\ Visible(bp) /\ Open(bp)
    BY <2>1, <2>2, <2>3, FS_EmptySet DEF Counted, Silent, Visible, Open
  <2>5. Begun(bp) /\ Timed(bp) /\ Busy(bp) /\ Going(bp)
    BY <2>3 DEF Begun, Timed, Busy, Going
  <2>6. \A a \in Addrs : Asked(bp, a)
    BY <2>2 DEF Asked, UsedLinks
  <2> QED
    BY <2>1, <2>4, <2>5, <2>6 DEF Sound
<1>2. Sound(bp, {}, {}) /\ [Next]_vars => Sound(bp', {}, {})
  <2> SUFFICES ASSUME Sound(bp, {}, {}), [Next]_vars PROVE Sound(bp', {}, {})
    OBVIOUS
  <2>1. CASE LinkbackRun
    BY <2>1, LinkbackRoundSound DEF LinkbackRun
  <2>2. ASSUME NEW a \in Addrs, Stack(a) \/ Phone(a) PROVE Sound(bp', {}, {})
    BY <2>2, StackSound, PhoneStepSound
  <2>3. CASE Timer
    BY <2>3, TimerSound
  <2>4. CASE User
    BY <2>4, UserSound
  <2>5. CASE UNCHANGED vars
    BY <2>5 DEF vars
  <2> QED
    BY <2>1, <2>2, <2>3, <2>4, <2>5 DEF Next
<1>3. Sound(bp, {}, {})' <=> Sound(bp', {}, {})
  BY DEF Sound, Fits, Counted, Silent, Visible, Open, Begun, Timed, Busy, Going, Asked,
         AllAsked, UsedLinks
<1> QED
  BY <1>1, <1>2, <1>3, PTL DEF Spec

\* The number of phones b2s_connected.num goes by is the number of slots of
\* app_db.br_link in use, whatever order links come up, fail and are shut down in.
THEOREM LinksAreCounted == Spec => []NumMatchesLinks
<1>1. Sound(bp, {}, {}) => NumMatchesLinks
  BY DEF Sound, Counted, NumMatchesLinks
<1> QED
  BY <1>1, PolicyIsSound, PTL

\* While the discoverable timer runs the headset is in a stable state and can be
\* found: enter_state keeps timer and radio mode together in all its branches.
THEOREM TimerMeansVisible == Spec => []VisibleWhileTimerRuns
<1>1. Sound(bp, {}, {}) => VisibleWhileTimerRuns
  BY DEF Sound, Visible, VisibleWhileTimerRuns
<1> QED
  BY <1>1, PolicyIsSound, PTL

\* A headset that is off, in the charging box or shutting down is neither
\* discoverable nor connectable, unless it is configured to be always discoverable:
\* enter_state looks at that switch in every state.
THEOREM OffIsSilent == ASSUME Quiet PROVE Spec => []SilentWhenOff
<1>1. Sound(bp, {}, {}) => SilentWhenOff
  BY Quiet DEF Sound, Silent, SilentWhenOff
<1> QED
  BY <1>1, PolicyIsSound, PTL

\* Pairing is over when its timer runs out, and no timer ends a pairing that is
\* over: enter_state stops and starts timer_handle_pairing_mode as the state is left
\* and entered, and what else stops it leaves the state or asks for power-off.
THEOREM PairingEndsInTime == Spec => []PairingIsTimed
<1>1. Sound(bp, {}, {}) => PairingIsTimed
  BY DEF Sound, Begun, Timed, PairingIsTimed, Owed, OffOp
<1> QED
  BY <1>1, PolicyIsSound, PTL

\* A headset nobody is connected to can be connected, in each stable state: CONNECTED,
\* which a full house may enter without being connectable, is left with the last link.
THEOREM EmptyIsReachable == Spec => []Reachable
<1>1. Sound(bp, {}, {}) => Reachable
  BY CountFacts DEF Sound, Open, Busy, Reachable, IsEmpty, Stable
<1> QED
  BY <1>1, PolicyIsSound, PTL

\* Once the links were asked to go, and when the headset is off, each link that is
\* left, or that comes up then, was asked to go; not so where the headset is
\* connectable all the time.
THEOREM OffKeepsNoLink == ASSUME Quiet PROVE Spec => []NoLinkKept
<1>1. Sound(bp, {}, {}) => NoLinkKept
  BY Quiet DEF Sound, Asked, AllAsked, NoLinkKept, UsedLinks, Owed
<1> QED
  BY <1>1, PolicyIsSound, PTL

-----------------------------------------------------------------------------
(* Types and the queue.                                                    *)

\* The profiles linkback_run can choose: a plan holds no other.
Listed == {prof_arr[i] : i \in DOMAIN prof_arr}

\* The theorems of TodoQueue, for plans of listed profiles.
QP == INSTANCE TodoQueue_proofs
        WITH queue <- bp.queue, CheckValues <- {FALSE}, Profs <- Profs \cap Listed

LEMMA QueueConstants == QP!TodoQueueAssumption
BY BtPolicyAssumption DEF BtPolicyAssumption

LEMMA ListedProfs ==
    Listed = {"A2DP", "AVRCP", "HFP", "HSP", "DID", "SPP", "IAP", "PBAP"}
BY DEF Listed, prof_arr

-----------------------------------------------------------------------------
(* What a good record is.                                                  *)

Simple(b) ==
    /\ b.cur \in States /\ b.radio \in Modes /\ b.num \in Nat /\ b.ind \subseteq Addrs
    /\ b.timer \subseteq Timers /\ b.flag \subseteq Flags /\ b.call \in BOOLEAN /\ b.run \in BOOLEAN
    /\ b.bond \in [Addrs -> SUBSET Profs]

\* AVRCP is asked for later only where there is A2DP.
LinkOK(l) == l \in Link /\ (l.later => "A2DP" \in Profs)
LinksOK(b) == b.link \in [Addrs -> Link] /\ \A a \in Addrs : LinkOK(b.link[a])

\* No connection without profile is asked for.
OpsOK(b) == b.op \subseteq Ops /\ \A a \in Addrs : <<"conn", a, NoProf>> \notin b.op

\* A wait that is going on is not the last.
WaitsOK(b) ==
    /\ b.step \in Steps /\ b.cnt \in 0 .. 4
    /\ b.step \in {"WAIT_PROFILE", "WAIT_LINK"} => b.cnt <= 3

\* The queue is sound, and no node in it is checked.
QueueOK(q) == QP!Sound(q) /\ \A i \in 1 .. Len(q) : ~q[i].check

\* The phone being called could go back to the queue; its profiles are done when
\* none is chosen.
ActiveOK(n) ==
    /\ n \in Active
    /\ ~n.node.check /\ n.node.plan \subseteq Listed /\ n.remain \subseteq Listed
    /\ n.valid => n.node.addr \in Addrs /\ n.node.retry > 0
    /\ n.sdp_ok => n.valid
    /\ n.doing = NoProf => n.remain = {}

\* The phone being called and the group in the queue have the same time.
Grouped(q, n) ==
    n.valid /\ n.node.group => \A i \in 1 .. Len(q) : q[i].group => q[i].retry = n.node.retry

\* linkback_run runs in LINKBACK only.  Where the user does not ask for pairing, a
\* phone is called in LINKBACK only and, until it is given up, does not wait as
\* well.
PairingFlags == {"dedicated", "disconnect_for_pairing"}
NotWaiting(q, n) == n.valid /\ ~n.exit => \A i \in 1 .. Len(q) : q[i].addr # n.node.addr
Released(b) == "pairing" \in Features \/ ~b.active.valid
Fit(b) ==
    /\ b.run => b.cur = "LINKBACK"
    /\ b.cur = "LINKBACK" \/ Released(b)
    /\ "pairing" \notin Features => b.flag \cap PairingFlags = {}
    /\ "pairing" \notin Features => NotWaiting(b.queue, b.active)

Shaped(b) == b = [f \in Fields |-> b[f]]

Good(b) ==
    /\ Shaped(b) /\ Simple(b) /\ LinksOK(b) /\ OpsOK(b) /\ WaitsOK(b)
    /\ QueueOK(b.queue) /\ ActiveOK(b.active) /\ Grouped(b.queue, b.active)
    /\ Fit(b)

\* Between two events the phone being called has a profile chosen and is not
\* given up; linkback_run sees to that.
Calm(b) == b.active.valid => b.active.doing # NoProf /\ ~b.active.exit

-----------------------------------------------------------------------------
(* The operations on the queue.                                            *)

\* The operators of the two instances are the same.
LEMMA SameOperators ==
    ASSUME NEW q, NEW n
    PROVE  /\ Q!InsertNormal(q, n) = QP!InsertNormal(q, n)
           /\ Q!InsertForce(q, n) = QP!InsertForce(q, n)
           /\ Q!DeleteGroup(q) = QP!DeleteGroup(q)
           /\ \A profs : Q!RemovePlan(q, n, profs) = QP!RemovePlan(q, n, profs)
<1>1. Q!InsertNormal(q, n) = QP!InsertNormal(q, n) /\ Q!InsertForce(q, n) = QP!InsertForce(q, n)
  BY DEF Q!InsertNormal, QP!InsertNormal, Q!InsertForce, QP!InsertForce, Q!MergeInto, QP!MergeInto,
         Q!Merged, QP!Merged, Q!Waiting, QP!Waiting
<1>2. Q!DeleteGroup(q) = QP!DeleteGroup(q)
  BY DEF Q!DeleteGroup, QP!DeleteGroup, Q!Keep, QP!Keep, Q!NthOf, QP!NthOf,
         Q!Cardinality, QP!Cardinality
<1>3. \A profs : Q!RemovePlan(q, n, profs) = QP!RemovePlan(q, n, profs)
  BY DEF Q!RemovePlan, QP!RemovePlan
<1> QED
  BY <1>1, <1>2, <1>3

LEMMA SameReturn ==
    ASSUME NEW q, NEW n, NEW used, NEW isNormal, NEW stale
    PROVE  Q!UseLeftTime(q, n, used, isNormal, stale) = QP!UseLeftTime(q, n, used, isNormal, stale)
BY DEF Q!UseLeftTime, QP!UseLeftTime, Q!SubAlone, QP!SubAlone, Q!Charge, QP!Charge, Q!Spends,
       QP!Spends, Q!SetGroupRetry, QP!SetGroupRetry, Q!DeleteGroup, QP!DeleteGroup, Q!Keep, QP!Keep,
       Q!NthOf, QP!NthOf, Q!Cardinality, QP!Cardinality, Q!InsertNormal, QP!InsertNormal,
       Q!InsertForce, QP!InsertForce, Q!MergeInto, QP!MergeInto, Q!Merged, QP!Merged,
       Q!Waiting, QP!Waiting

LEMMA SameLoad ==
    ASSUME NEW bonds, NEW t, NEW stale
    PROVE  Q!LoadBondList(bonds, t, stale) = QP!LoadBondList(bonds, t, stale)
BY DEF Q!LoadBondList, QP!LoadBondList, Q!Least, QP!Least

\* r comes from q by at most one operation, with arguments it is meant for.
One(q, r) ==
    \/ r = q \/ r = << >> \/ r = Q!DeleteGroup(q)
    \/ q # << >> /\ r = Tail(q)
    \/ \E n \in Q!Requests : r = Q!InsertNormal(q, n) \/ r = Q!InsertForce(q, n)
    \/ \E a \in Addrs, profs \in SUBSET Profs : r = Q!RemovePlan(q, a, profs)
    \/ \E n \in Q!ActiveNodes, used \in Q!Times, isNormal \in BOOLEAN :
            r = Q!UseLeftTime(q, n, used, isNormal, FALSE)
    \/ \E bonds \in Q!BondLists :
            r = Q!LoadBondList(bonds, LinkbackTime, [i \in 1 .. ItemNum |-> FALSE])

\* Each group member of r was one in q, with the same time, and each phone of r
\* but a waited in q.
Inherits(q, r, a) ==
    \A i \in 1 .. Len(r) :
        /\ r[i].group => \E j \in 1 .. Len(q) : q[j].group /\ q[j].retry = r[i].retry
        /\ r[i].addr = a \/ \E j \in 1 .. Len(q) : q[j].addr = r[i].addr

LEMMA OneIsStep == ASSUME One(bp.queue, bp.queue') PROVE [Q!Next]_(bp.queue)
<1>1. ASSUME NEW bonds \in Q!BondLists,
             bp.queue' = Q!LoadBondList(bonds, LinkbackTime, [i \in 1 .. ItemNum |-> FALSE])
      PROVE  Q!Load
  <2>1. [i \in 1 .. ItemNum |-> FALSE] \in [1 .. ItemNum -> Q!Checks]
    BY DEF Q!Checks
  <2>2. LinkbackTime \in Q!Times \ {0} /\ 2 * LinkbackTime \in Q!Times
    BY BtPolicyAssumption DEF BtPolicyAssumption, Q!Times
  <2> QED
    BY <1>1, <2>1, <2>2 DEF Q!Load
<1>2. ASSUME NEW n \in Q!ActiveNodes, NEW used \in Q!Times, NEW isNormal \in BOOLEAN,
             bp.queue' = Q!UseLeftTime(bp.queue, n, used, isNormal, FALSE)
      PROVE  Q!Reinsert
  <2>1. FALSE \in Q!Checks
    BY DEF Q!Checks
  <2> QED
    BY <1>2, <2>1 DEF Q!Reinsert
<1>3. CASE bp.queue' = << >> \/ bp.queue' = Q!DeleteGroup(bp.queue)
  BY <1>3 DEF Q!Next, Q!QueueInit, Q!DeleteGroupMember
<1>4. CASE bp.queue # << >> /\ bp.queue' = Tail(bp.queue)
  BY <1>4 DEF Q!Next, Q!TakeFirst
<1>5. ASSUME NEW n \in Q!Requests,
             bp.queue' = Q!InsertNormal(bp.queue, n) \/ bp.queue' = Q!InsertForce(bp.queue, n)
      PROVE  Q!Next
  BY <1>5 DEF Q!Next, Q!Insert
<1>6. ASSUME NEW a \in Addrs, NEW profs \in SUBSET Profs, bp.queue' = Q!RemovePlan(bp.queue, a, profs)
      PROVE  Q!Next
  BY <1>6 DEF Q!Next, Q!RemovePlanProfs, Q!Plans
<1> QED
  BY <1>1, <1>2, <1>3, <1>4, <1>5, <1>6 DEF One, Q!Next

\* Of the nodes of a queue that comes from q: the checked and the group members
\* among them are nodes of q as they were, and but for a no phone is new.
LEMMA Derived ==
    ASSUME NEW q, QueueOK(q), NEW r, QP!Sound(r), NEW a,
           \A i \in 1 .. Len(r) :
               /\ ~r[i].check \/ \E j \in 1 .. Len(q) : r[i] = q[j]
               /\ ~r[i].group \/ \E j \in 1 .. Len(q) : q[j].group /\ q[j].retry = r[i].retry
               /\ r[i].addr = a \/ \E j \in 1 .. Len(q) : q[j].addr = r[i].addr
    PROVE  QueueOK(r) /\ Inherits(q, r, a)
BY DEF QueueOK, Inherits

LEMMA QueueNodes ==
    ASSUME NEW q, QueueOK(q)
    PROVE  /\ q \in Seq(QP!Node) /\ Len(q) \in Nat
           /\ \A i \in 1 .. Len(q) : q[i] \in QP!Node /\ ~q[i].check /\ q[i].retry > 0
BY DEF QueueOK, QP!Sound, QP!Shape

LEMMA InsertGood ==
    ASSUME NEW q, QueueOK(q), NEW n \in QP!Requests
    PROVE  /\ QueueOK(Q!InsertNormal(q, n)) /\ Inherits(q, Q!InsertNormal(q, n), n.addr)
           /\ QueueOK(Q!InsertForce(q, n)) /\ Inherits(q, Q!InsertForce(q, n), n.addr)
           /\ One(q, Q!InsertNormal(q, n)) /\ One(q, Q!InsertForce(q, n))
<1> DEFINE m == [n EXCEPT !.force = FALSE]
           p == [n EXCEPT !.force = TRUE]
<1>1. n \in QP!Node /\ n.retry > 0 /\ ~n.group /\ ~n.check /\ n \in Q!Requests
  <2>1. QP!Requests \subseteq QP!Node /\ QP!Requests \subseteq Q!Requests
    BY BtPolicyAssumption
    DEF BtPolicyAssumption, QP!Requests, QP!Node, QP!Checks, QP!Plans, QP!Times,
        Q!Requests, Q!Checks, Q!Plans, Q!Times
  <2>2. n.retry \in QP!Times \ {0} /\ n.group \in {FALSE} /\ n.check \in {FALSE}
    BY DEF QP!Requests, QP!Checks
  <2>3. n.retry > 0
    BY <2>2, BtPolicyAssumption DEF BtPolicyAssumption, QP!Times
  <2> QED
    BY <2>1, <2>2, <2>3
<1>2. /\ m.addr = n.addr /\ ~m.group /\ ~m.check
      /\ p.addr = n.addr /\ ~p.group /\ ~p.check
  BY <1>1 DEF QP!Node
<1>3. QP!Sound(Q!InsertNormal(q, n)) /\ QP!Sound(Q!InsertForce(q, n))
  BY <1>1, QP!InsertSound, QueueConstants, SameOperators DEF QueueOK
<1>4. q \in Seq(QP!Node) /\ Len(q) \in Nat /\ \A i \in 1 .. Len(q) : q[i] \in QP!Node /\ ~q[i].check
  BY QueueNodes
<1>5. ASSUME NEW x, x.addr = n.addr, ~x.group, ~x.check
      PROVE  /\ Len(Q!MergeInto(q, x)) = Len(q)
             /\ \A i \in 1 .. Len(q) :
                    /\ ~Q!MergeInto(q, x)[i].check
                    /\ ~Q!MergeInto(q, x)[i].group \/ Q!MergeInto(q, x)[i] = q[i]
                    /\ Q!MergeInto(q, x)[i].addr = q[i].addr
  <2>1. ASSUME NEW i \in 1 .. Len(q)
        PROVE  ~Q!Merged(q[i], x).check /\ ~Q!Merged(q[i], x).group /\ Q!Merged(q[i], x).addr = q[i].addr
    BY <1>4, <1>5 DEF Q!Merged, QP!Node
  <2> QED
    BY <2>1, <1>4 DEF Q!MergeInto
<1>6. ASSUME NEW x, x.addr = n.addr, ~x.group, ~x.check,
             NEW r, QP!Sound(r), r = Q!MergeInto(q, x)
      PROVE  QueueOK(r) /\ Inherits(q, r, n.addr)
  <2>1. Len(r) = Len(q) /\ \A i \in 1 .. Len(q) : 
            ~r[i].check /\ (~r[i].group \/ r[i] = q[i]) /\ r[i].addr = q[i].addr
    BY <1>5, <1>6
  <2>2. \A i \in 1 .. Len(r) :
               /\ ~r[i].check \/ \E j \in 1 .. Len(q) : r[i] = q[j]
               /\ ~r[i].group \/ \E j \in 1 .. Len(q) : q[j].group /\ q[j].retry = r[i].retry
               /\ r[i].addr = n.addr \/ \E j \in 1 .. Len(q) : q[j].addr = r[i].addr
    BY <2>1
  <2>3. QP!Sound(r)
    BY <1>6
  <2> QED
    BY <2>2, <2>3, Derived
<1>7. ASSUME NEW x, x.addr = n.addr, ~x.group, ~x.check, NEW r, QP!Sound(r),
             r = Append(q, x) \/ r = <<x>> \o q
      PROVE  QueueOK(r) /\ Inherits(q, r, n.addr)
  <2>1. \A i \in 1 .. Len(r) : r[i] = x \/ \E j \in 1 .. Len(q) : r[i] = q[j]
    <3>1. CASE r = Append(q, x)
      <4>1. Len(r) = Len(q) + 1 /\ \A i \in 1 .. Len(r) : r[i] = IF i <= Len(q) THEN q[i] ELSE x
        BY <1>4, <3>1
      <4> QED
        BY <4>1, <1>4
    <3>2. CASE r = <<x>> \o q
      <4>1. Len(r) = Len(q) + 1 /\ \A i \in 1 .. Len(r) : r[i] = IF i = 1 THEN x ELSE q[i - 1]
        BY <1>4, <3>2
      <4> QED
        BY <4>1, <1>4
    <3> QED
      BY <1>7, <3>1, <3>2
  <2>2. \A i \in 1 .. Len(r) :
               /\ ~r[i].check \/ \E j \in 1 .. Len(q) : r[i] = q[j]
               /\ ~r[i].group \/ \E j \in 1 .. Len(q) : q[j].group /\ q[j].retry = r[i].retry
               /\ r[i].addr = n.addr \/ \E j \in 1 .. Len(q) : q[j].addr = r[i].addr
    BY <1>7, <2>1
  <2> QED
    BY <1>7, <2>2, Derived
<1>8. QueueOK(q) /\ Inherits(q, q, n.addr)
  BY DEF Inherits
<1>9. QueueOK(Q!InsertNormal(q, n)) /\ Inherits(q, Q!InsertNormal(q, n), n.addr)
  <2> DEFINE r == Q!InsertNormal(q, n)
  <2>1. r = Q!MergeInto(q, n) \/ r = Append(q, m) \/ r = q
    BY DEF Q!InsertNormal
  <2> HIDE DEF r, m
  <2> QED
    BY <2>1, <1>1, <1>2, <1>3, <1>6, <1>7, <1>8 DEF r
<1>10. QueueOK(Q!InsertForce(q, n)) /\ Inherits(q, Q!InsertForce(q, n), n.addr)
  <2> DEFINE r == Q!InsertForce(q, n)
  <2>1. r = Q!MergeInto(q, p) \/ r = <<p>> \o q \/ r = q
    BY DEF Q!InsertForce
  <2> HIDE DEF r, p
  <2> QED
    BY <2>1, <1>2, <1>3, <1>6, <1>7, <1>8 DEF r
<1> QED
  BY <1>1, <1>9, <1>10 DEF One

LEMMA RemovePlanGood ==
    ASSUME NEW q, QueueOK(q), NEW a \in Addrs, NEW profs \in SUBSET Profs, NEW x
    PROVE  /\ QueueOK(Q!RemovePlan(q, a, profs)) /\ Inherits(q, Q!RemovePlan(q, a, profs), x)
           /\ One(q, Q!RemovePlan(q, a, profs))
<1> DEFINE r == Q!RemovePlan(q, a, profs)
<1>1. q \in Seq(QP!Node) /\ Len(q) \in Nat /\ \A i \in 1 .. Len(q) : q[i] \in QP!Node /\ ~q[i].check
  BY QueueNodes
<1>2. QP!Sound(r)
  BY ZenonT(60), QP!RemovePlanSound, QueueConstants, SameOperators DEF QueueOK
<1>3. Len(r) = Len(q) /\ \A i \in 1 .. Len(q) :
          /\ ~r[i].check /\ r[i].addr = q[i].addr
          /\ r[i].group = q[i].group /\ r[i].retry = q[i].retry
  BY <1>1 DEF Q!RemovePlan, QP!Node
<1>4. One(q, r)
  BY DEF One
<1> HIDE DEF r
<1>5. QueueOK(r) /\ Inherits(q, r, x)
  BY <1>1, <1>2, <1>3 DEF QueueOK, Inherits
<1> QED
  BY <1>4, <1>5 DEF r

LEMMA DeleteGroupGood ==
    ASSUME NEW q, QueueOK(q), NEW x
    PROVE  /\ QueueOK(Q!DeleteGroup(q)) /\ Inherits(q, Q!DeleteGroup(q), x) /\ One(q, Q!DeleteGroup(q))
           /\ \A i \in 1 .. Len(Q!DeleteGroup(q)) : ~Q!DeleteGroup(q)[i].group
<1> DEFINE K == {i \in 1 .. Len(q) : ~q[i].group}
           r == QP!Keep(q, K)
<1>1. Q!DeleteGroup(q) = r
  BY SameOperators DEF QP!DeleteGroup
<1>2. K \in SUBSET (1 .. Len(q))
  OBVIOUS
<1>3. QP!Sound(r)
  <2> HIDE DEF K
  <2> QED
    BY <1>2, QP!KeepSound, QueueConstants DEF QueueOK
<1>4. \A k \in 1 .. Len(r) : \E i \in K : r[k] = q[i]
  <2>1. QP!Shape(q)
    BY DEF QueueOK, QP!Sound
  <2> HIDE DEF K
  <2> QED
    BY <1>2, <2>1, QP!KeepShape, QueueConstants
<1> HIDE DEF r
<1>5. QueueOK(r) /\ Inherits(q, r, x) /\ \A i \in 1 .. Len(r) : ~r[i].group
  BY <1>3, <1>4 DEF QueueOK, Inherits
<1> QED
  BY <1>1, <1>5 DEF One

LEMMA TailGood ==
    ASSUME NEW q, QueueOK(q), q # << >>, NEW x
    PROVE  /\ QueueOK(Tail(q)) /\ Inherits(q, Tail(q), x) /\ One(q, Tail(q))
           /\ Head(q) = q[1] /\ 1 \in 1 .. Len(q)
           /\ \A i \in 1 .. Len(Tail(q)) : Tail(q)[i].addr # Head(q).addr
<1> DEFINE r == Tail(q)
<1>1. q \in Seq(QP!Node) /\ Len(q) \in Nat /\ \A i \in 1 .. Len(q) : q[i] \in QP!Node /\ ~q[i].check
  BY QueueNodes
<1>2. /\ QP!Sound(r) /\ Len(r) = Len(q) - 1
      /\ \A i \in 1 .. Len(r) : i + 1 \in 1 .. Len(q) /\ r[i] = q[i + 1]
  BY QP!TailSound, QueueConstants DEF QueueOK
<1>3. Head(q) = q[1] /\ 1 \in 1 .. Len(q)
  BY <1>1
<1> HIDE DEF r
<1>4. QueueOK(r) /\ Inherits(q, r, x)
  BY <1>1, <1>2 DEF QueueOK, Inherits
<1>5. \A i, j \in 1 .. Len(q) : q[i].addr = q[j].addr => i = j
  BY DEF QueueOK, QP!Sound, QP!Shape
<1>6. ASSUME NEW i \in 1 .. Len(r) PROVE r[i].addr # Head(q).addr
  <2>1. i + 1 # 1 /\ i + 1 \in 1 .. Len(q)
    BY <1>1, <1>2
  <2> QED
    BY <2>1, <1>2, <1>3, <1>5
<1> QED
  BY <1>3, <1>4, <1>6 DEF One, r

\* Nodes that are not checked.
Clean == {n \in QP!Node : ~n.check}

LEMMA CleanQueue ==
    ASSUME NEW q, QP!Sound(q) PROVE QueueOK(q) <=> q \in Seq(Clean)
<1>1. q \in Seq(QP!Node)
  BY DEF QP!Sound, QP!Shape
<1> QED
  BY <1>1 DEF QueueOK, Clean

LEMMA InsertClean ==
    ASSUME NEW q \in Seq(Clean), NEW n \in Clean
    PROVE  QP!InsertNormal(q, n) \in Seq(Clean) /\ QP!InsertForce(q, n) \in Seq(Clean)
<1> DEFINE m == [n EXCEPT !.force = FALSE]
           p == [n EXCEPT !.force = TRUE]
<1>1. m \in Clean /\ p \in Clean
  BY DEF Clean, QP!Node
<1>2. ASSUME NEW x \in Clean PROVE QP!MergeInto(q, x) \in Seq(Clean)
  <2>1. ASSUME NEW old \in Clean PROVE QP!Merged(old, x) \in Clean
    BY <1>2, <2>1 DEF QP!Merged, Clean, QP!Node
  <2> QED
    BY <2>1 DEF QP!MergeInto
<1> HIDE DEF m, p
<1>3. Append(q, m) \in Seq(Clean) /\ <<p>> \o q \in Seq(Clean)
  BY <1>1
<1>4. QP!InsertNormal(q, n) = QP!MergeInto(q, n) \/ QP!InsertNormal(q, n) = Append(q, m)
      \/ QP!InsertNormal(q, n) = q
  BY DEF QP!InsertNormal, m
<1>5. QP!InsertForce(q, n) = QP!MergeInto(q, p) \/ QP!InsertForce(q, n) = <<p>> \o q
      \/ QP!InsertForce(q, n) = q
  BY DEF QP!InsertForce, p
<1> QED
  BY <1>1, <1>2, <1>3, <1>4, <1>5

LEMMA KeepClean ==
    ASSUME NEW q \in Seq(Clean), NEW K \in SUBSET (1 .. Len(q)) PROVE QP!Keep(q, K) \in Seq(Clean)
BY QP!KeepProperties, QueueConstants

LEMMA ChargeClean ==
    ASSUME NEW q \in Seq(Clean), NEW t \in QP!Times PROVE QP!SubAlone(q, t) \in Seq(Clean)
<1> DEFINE c == [i \in 1 .. Len(q) |-> QP!Charge(q[i], t)]
           K == {i \in 1 .. Len(q) : c[i].retry # 0}
<1>1. ASSUME NEW n \in Clean PROVE QP!Charge(n, t) \in Clean
  <2>1. n \in QP!Node /\ ~n.check /\ n.retry \in 0 .. MaxTime /\ t \in 0 .. MaxTime /\ MaxTime \in Nat
    BY <1>1, BtPolicyAssumption DEF BtPolicyAssumption, Clean, QP!Node, QP!Times
  <2>2. [n EXCEPT !.first = FALSE] \in Clean
    BY <2>1 DEF Clean, QP!Node
  <2>3. ASSUME NEW x \in 0 .. MaxTime PROVE [n EXCEPT !.retry = x] \in Clean
    BY <2>1, <2>3 DEF Clean, QP!Node, QP!Times
  <2>4. (IF n.retry > t THEN n.retry - t ELSE 0) \in 0 .. MaxTime
    BY <2>1
  <2> QED
    BY <1>1, <2>2, <2>3, <2>4 DEF QP!Charge
<1>2. c \in Seq(Clean) /\ Len(c) = Len(q)
  BY <1>1
<1>3. QP!SubAlone(q, t) = c \/ QP!SubAlone(q, t) = QP!Keep(c, K)
  BY DEF QP!SubAlone
<1> HIDE DEF c
<1>4. QP!Keep(c, K) \in Seq(Clean)
  BY <1>2, KeepClean
<1> QED
  BY <1>2, <1>3, <1>4

LEMMA ReturnClean ==
    ASSUME NEW q \in Seq(Clean), NEW n \in Clean, NEW used \in QP!Times, NEW isNormal \in BOOLEAN
    PROVE  QP!UseLeftTime(q, n, used, isNormal, FALSE) \in Seq(Clean)
<1> DEFINE charged == QP!SubAlone(q, used)
           rest    == n.retry - used
           again   == [n EXCEPT !.retry = rest, !.first = FALSE, !.force = FALSE,
                                !.check = IF isNormal THEN FALSE ELSE @]
           others  == IF n.group THEN QP!SetGroupRetry(charged, rest) ELSE charged
           K       == {i \in 1 .. Len(charged) : ~charged[i].group}
<1>1. charged \in Seq(Clean)
  BY ChargeClean
<1>2. QP!DeleteGroup(charged) \in Seq(Clean)
  <2> HIDE DEF charged
  <2> QED
    BY <1>1, KeepClean DEF QP!DeleteGroup
<1>3. CASE n.retry > used
  <2>1. rest \in QP!Times
    BY <1>3, BtPolicyAssumption DEF BtPolicyAssumption, Clean, QP!Node, QP!Times
  <2>2. again \in Clean
    BY <2>1 DEF Clean, QP!Node
  <2>3. QP!SetGroupRetry(charged, rest) \in Seq(Clean)
    <3> HIDE DEF charged, rest
    <3>1. \A i \in 1 .. Len(charged) : charged[i] \in Clean /\ [charged[i] EXCEPT !.retry = rest] \in Clean
      BY <1>1, <2>1 DEF Clean, QP!Node
    <3> QED
      BY <1>1, <3>1 DEF QP!SetGroupRetry
  <2>4. others \in Seq(Clean)
    <3> HIDE DEF charged, rest
    <3> QED
      BY <1>1, <2>3
  <2>5. QP!UseLeftTime(q, n, used, isNormal, FALSE) =
            IF isNormal THEN QP!InsertNormal(others, again) ELSE QP!InsertForce(others, again)
    BY <1>3 DEF QP!UseLeftTime
  <2> HIDE DEF others, again
  <2> QED
    BY <2>2, <2>4, <2>5, InsertClean
<1>4. CASE ~(n.retry > used)
  <2>1. QP!UseLeftTime(q, n, used, isNormal, FALSE) =
            IF n.group THEN QP!DeleteGroup(charged) ELSE charged
    BY <1>4 DEF QP!UseLeftTime
  <2> HIDE DEF charged
  <2> QED
    BY <2>1, <1>1, <1>2
<1> QED
  BY <1>3, <1>4

\* first_insert_flag and is_force of the phone being called are written again
\* before anybody reads them.
LEMMA ReturnGood ==
    ASSUME NEW q, QueueOK(q), NEW n, ActiveOK(n), n.valid, NEW used \in 0 .. MaxTime,
           NEW isNormal \in BOOLEAN
    PROVE  /\ QueueOK(Q!UseLeftTime(q, n.node, used, isNormal, FALSE))
           /\ One(q, Q!UseLeftTime(q, n.node, used, isNormal, FALSE))
<1> DEFINE m == [n.node EXCEPT !.first = FALSE, !.force = FALSE]
           r == QP!UseLeftTime(q, n.node, used, isNormal, FALSE)
<1>1. n.node \in Clean /\ used \in QP!Times
  BY DEF ActiveOK, Active, Clean, QP!Node, QP!Times
<1>2. QP!Sound(r)
  BY <1>1, QP!UseLeftTimeSound, QueueConstants DEF QueueOK, Clean
<1>3. r \in Seq(Clean)
  BY <1>1, CleanQueue, ReturnClean DEF QueueOK
<1>4. QueueOK(r)
  BY <1>2, <1>3, CleanQueue
<1>5. m \in Q!ActiveNodes /\ used \in Q!Times
  <2>1. n.node.retry \in 0 .. MaxTime /\ n.node.retry > 0 /\ MaxTime \in Nat
    BY <1>1, BtPolicyAssumption DEF BtPolicyAssumption, Clean, QP!Node, QP!Times, ActiveOK
  <2>2. n.node.check = FALSE /\ n.node.plan \in SUBSET Profs /\ n.node.group \in BOOLEAN
        /\ n.node.addr \in Addrs
    BY <1>1 DEF Clean, QP!Node
  <2>3. n.node.retry \in Q!Times \ {0} /\ used \in Q!Times
    BY <2>1 DEF Q!Times
  <2>4. m \in QP!Node
    BY <1>1 DEF Clean, QP!Node
  <2>5. /\ m.addr = n.node.addr /\ m.plan = n.node.plan /\ m.retry = n.node.retry
        /\ m.group = n.node.group /\ m.first = FALSE /\ m.force = FALSE /\ m.check = n.node.check
    BY <1>1 DEF Clean, QP!Node
  <2> HIDE DEF m
  <2>6. m.retry \in Q!Times \ {0} /\ m.plan \in Q!Plans /\ m.check \in Q!Checks
    BY <2>2, <2>3, <2>5 DEF Q!Plans, Q!Checks
  <2>7. m \in Q!ActiveNodes
    BY <2>2, <2>4, <2>5, <2>6 DEF Q!ActiveNodes, QP!Node
  <2> QED
    BY <2>3, <2>7
<1>6. Q!UseLeftTime(q, m, used, isNormal, FALSE) = Q!UseLeftTime(q, n.node, used, isNormal, FALSE)
  <2>1. /\ m.retry = n.node.retry /\ m.group = n.node.group
        /\ \A t, c : [m EXCEPT !.retry = t, !.first = FALSE, !.force = FALSE, !.check = c]
                     = [n.node EXCEPT !.retry = t, !.first = FALSE, !.force = FALSE, !.check = c]
    BY <1>1 DEF Clean, QP!Node
  <2>2. m.check = n.node.check
    BY <1>1 DEF Clean, QP!Node
  <2> HIDE DEF m
  <2> QED
    BY <2>1, <2>2 DEF Q!UseLeftTime
<1>7. One(q, Q!UseLeftTime(q, n.node, used, isNormal, FALSE))
  <2> HIDE DEF m
  <2> QED
    BY <1>5, <1>6 DEF One
<1> QED
  BY <1>4, <1>7, SameReturn

LEMMA LeastOfTwo ==
    ASSUME NEW x \in Nat, NEW y \in Nat PROVE Q!Least({x, y}) = IF x <= y THEN x ELSE y
<1>1. \E z \in {x, y} : \A w \in {x, y} : z <= w
  BY x <= y \/ y <= x
<1>2. Q!Least({x, y}) \in {x, y} /\ Q!Least({x, y}) <= x /\ Q!Least({x, y}) <= y
  BY <1>1 DEF Q!Least
<1> QED
  BY <1>2

LEMMA BondProfs ==
    ASSUME NEW flags \in SUBSET Profs PROVE ProfsOfBond(flags) \subseteq Profs \cap Listed
<1>1. "A2DP" \in flags => {"A2DP", "AVRCP"} \subseteq Profs \cap Listed
  BY BtPolicyAssumption, ListedProfs DEF BtPolicyAssumption
<1> QED
  BY <1>1, ListedProfs DEF ProfsOfBond

\* The bond list is loaded whole or in part.
LEMMA LoadGood ==
    ASSUME NEW b, Simple(b), NEW bonds \in BondLists(b)
    PROVE  LET r == Q!LoadBondList(bonds, LinkbackTime, [i \in 1 .. ItemNum |-> FALSE])
           IN  QueueOK(r) /\ \A q : One(q, r)
<1> DEFINE stale == [i \in 1 .. ItemNum |-> FALSE]
           S     == {a \in Addrs : CalledBack(b, a)}
           m     == Cardinality(S)
           k     == IF m <= MaxLoad THEN m ELSE MaxLoad
           part  == [i \in 1 .. k |-> bonds[i]]
           size  == IF k <= ItemNum THEN k ELSE ItemNum
           time  == IF k > 1 THEN 2 * LinkbackTime ELSE LinkbackTime
           load  == [i \in 1 .. size |->
                        [addr |-> bonds[i].addr, plan |-> bonds[i].plan, retry |-> time,
                         group |-> TRUE, first |-> TRUE, force |-> FALSE, check |-> stale[i]]]
           r     == Q!LoadBondList(bonds, LinkbackTime, stale)
<1>1. m \in Nat /\ MaxLoad \in Nat /\ ItemNum \in Nat /\ S \subseteq Addrs
  <2>1. IsFiniteSet(S)
    BY BtPolicyAssumption, FS_Subset DEF BtPolicyAssumption
  <2> HIDE DEF S
  <2> QED
    BY <2>1, FS_CardinalityType, BtPolicyAssumption, S \subseteq Addrs DEF BtPolicyAssumption, S
<1> HIDE DEF m
<1>2. PICK order \in [1 .. m -> S] :
          /\ \A i, j \in 1 .. m : order[i] = order[j] => i = j
          /\ bonds = [i \in 1 .. m |-> [addr |-> order[i], plan |-> ProfsOfBond(b.bond[order[i]])]]
  BY DEF BondLists, m
<1>3. \A a \in S : ProfsOfBond(b.bond[a]) \subseteq Profs \cap Listed
  BY <1>1, BondProfs DEF Simple
<1> HIDE DEF S
<1>4. /\ bonds \in [1 .. m -> [addr : Addrs, plan : SUBSET (Profs \cap Listed)]]
      /\ \A i, j \in 1 .. m : i # j => bonds[i].addr # bonds[j].addr
  BY <1>1, <1>2, <1>3
<1>5. LinkbackTime \in QP!Times \ {0} /\ 2 * LinkbackTime \in QP!Times
  BY BtPolicyAssumption DEF BtPolicyAssumption, QP!Times
<1>6. stale \in [1 .. ItemNum -> BOOLEAN]
  OBVIOUS
<1>7. QP!Sound(r)
  <2> HIDE DEF stale
  <2>1. QP!Sound(QP!LoadBondList(bonds, LinkbackTime, stale))
    BY <1>1, <1>4, <1>5, <1>6, QP!LoadBondListSound, QueueConstants DEF QP!Plans
  <2> QED
    BY <2>1, SameLoad
<1>8. Len(bonds) = m /\ k \in 0 .. MaxLoad /\ Len(part) = k /\ size \in Nat /\ size <= k
      /\ size <= ItemNum
  BY <1>1, <1>2
<1>9. r = load
  <2>1. Q!Least({Len(bonds), MaxLoad}) = k
    BY <1>1, <1>8, LeastOfTwo
  <2>2. Q!Least({k, ItemNum}) = size
    BY <1>1, <1>8, LeastOfTwo
  <2> HIDE DEF size, k, stale
  <2> QED
    BY <2>1, <2>2 DEF Q!LoadBondList
<1>10. Q!LoadBondList(part, LinkbackTime, stale) = load
  <2>1. Q!Least({Len(part), MaxLoad}) = k
    BY <1>1, <1>8, LeastOfTwo
  <2>2. Q!Least({k, ItemNum}) = size
    BY <1>1, <1>8, LeastOfTwo
  <2>3. \A i \in 1 .. size : i \in 1 .. k
    BY <1>1, <1>8
  <2>4. \A i \in 1 .. k : part[i] = bonds[i]
    OBVIOUS
  <2> HIDE DEF size, k, stale, part
  <2> QED
    BY <2>1, <2>2, <2>3, <2>4 DEF Q!LoadBondList
<1>11. part \in Q!BondLists
  <2>1. part \in [1 .. k -> [addr : Addrs, plan : Q!Plans]] /\ DOMAIN part = 1 .. k
    BY <1>1, <1>4 DEF Q!Plans
  <2>2. \A i, j \in 1 .. k : i # j => part[i].addr # part[j].addr
    BY <1>1, <1>4
  <2> HIDE DEF part, k
  <2> QED
    BY <1>8, <2>1, <2>2 DEF Q!BondLists
<1>12. \A q : One(q, r)
  <2> HIDE DEF part, load, r, stale
  <2>1. r = Q!LoadBondList(part, LinkbackTime, stale)
    BY <1>9, <1>10
  <2> QED
    BY <1>11, <2>1 DEF One, stale
<1>13. \A i \in 1 .. Len(r) : ~r[i].check
  <2>1. Len(r) = size /\ \A i \in 1 .. size : i \in 1 .. ItemNum /\ r[i].check = stale[i]
    <3> HIDE DEF size, stale, time
    <3>1. DOMAIN load = 1 .. size /\ Len(load) = size
      BY <1>8
    <3>2. \A i \in 1 .. size : load[i].check = stale[i]
      OBVIOUS
    <3>3. \A i \in 1 .. size : i \in 1 .. ItemNum
      BY <1>1, <1>8
    <3> HIDE DEF load
    <3> QED
      BY <1>9, <3>1, <3>2, <3>3
  <2> QED
    BY <2>1
<1>14. QueueOK(r)
  <2> HIDE DEF r
  <2> QED
    BY <1>7, <1>13 DEF QueueOK
<1> QED
  BY <1>12, <1>14

-----------------------------------------------------------------------------
(* Operators that leave the queue and the phone being called alone.        *)

\* c is as good as b, with the same queue and the same phone being called.
Same(b, c) == Good(c) /\ c.queue = b.queue /\ c.active = b.active

LEMMA SameQueue ==
    ASSUME NEW b, Good(b), NEW c, Shaped(c), c.queue = b.queue, c.active = b.active,
           Simple(c), c.link = b.link \/ LinksOK(c), c.op = b.op \/ OpsOK(c),
           (c.step = b.step /\ c.cnt = b.cnt) \/ WaitsOK(c),
           c.cur \in {b.cur, "LINKBACK"} \/ Released(b),
           (c.run = b.run /\ c.cur = b.cur) \/ (c.run => c.cur = "LINKBACK"),
           "pairing" \notin Features => c.flag \cap PairingFlags \subseteq b.flag
    PROVE  Same(b, c)
<1>1. LinksOK(c) /\ OpsOK(c) /\ WaitsOK(c)
  BY DEF Good, LinksOK, OpsOK, WaitsOK
<1>2. Fit(c)
  BY DEF Good, Fit, Released, NotWaiting
<1> QED
  BY <1>1, <1>2 DEF Good, Same

LEMMA SameSmall ==
    ASSUME NEW b, Good(b), NEW x
    PROVE  /\ x \in Timers => Same(b, Start(b, x))
           /\ Same(b, Stop(b, x))
           /\ x \in Flags /\ ("pairing" \in Features \/ x \notin PairingFlags) => Same(b, Set(b, x))
           /\ Same(b, Clear(b, x))
           /\ x \in Ops /\ (\A a \in Addrs : x # <<"conn", a, NoProf>>) => Same(b, Ask(b, x))
           /\ Same(b, Done(b, x))
           /\ b.cur = "LINKBACK" => Same(b, Run(b)) /\ Run(b).run
           /\ Same(b, Waits(b)) /\ ~Waits(b).run
<1>1. x \in Timers => Same(b, Start(b, x))
  <2> DEFINE c == Start(b, x)
  <2>1. Shaped(c) /\ c.timer = b.timer \cup {x} /\ \A f \in Fields \ {"timer"} : c[f] = b[f]
    BY DEF Start, Good, Shaped, Fields
  <2> HIDE DEF c
  <2>2. x \in Timers => Simple(c)
    BY <2>1 DEF Good, Simple, Fields
  <2> SUFFICES ASSUME x \in Timers PROVE Same(b, c)
    BY DEF c
  <2> QED
    BY <2>1, <2>2, SameQueue DEF Fields
<1>2. Same(b, Stop(b, x))
  <2> DEFINE c == Stop(b, x)
  <2>1. Shaped(c) /\ c.timer = b.timer \ x /\ \A f \in Fields \ {"timer"} : c[f] = b[f]
    BY DEF Stop, Good, Shaped, Fields
  <2> HIDE DEF c
  <2>2. Simple(c)
    BY <2>1 DEF Good, Simple, Fields
  <2>3. Same(b, c)
    BY <2>1, <2>2, SameQueue DEF Fields
  <2> QED
    BY <2>3 DEF c
<1>3. x \in Flags /\ ("pairing" \in Features \/ x \notin PairingFlags) => Same(b, Set(b, x))
  <2> DEFINE c == Set(b, x)
  <2>1. Shaped(c) /\ c.flag = b.flag \cup {x} /\ \A f \in Fields \ {"flag"} : c[f] = b[f]
    BY DEF Set, Good, Shaped, Fields
  <2> HIDE DEF c
  <2>2. x \in Flags => Simple(c)
    BY <2>1 DEF Good, Simple, Fields
  <2> SUFFICES ASSUME x \in Flags, "pairing" \in Features \/ x \notin PairingFlags PROVE Same(b, c)
    BY DEF c
  <2>3. "pairing" \notin Features => c.flag \cap PairingFlags \subseteq b.flag
    BY <2>1
  <2> QED
    BY <2>1, <2>2, <2>3, SameQueue DEF Fields
<1>4. Same(b, Clear(b, x))
  <2> DEFINE c == Clear(b, x)
  <2>1. Shaped(c) /\ c.flag = b.flag \ x /\ \A f \in Fields \ {"flag"} : c[f] = b[f]
    BY DEF Clear, Good, Shaped, Fields
  <2> HIDE DEF c
  <2>2. Simple(c)
    BY <2>1 DEF Good, Simple, Fields
  <2>3. c.flag \cap PairingFlags \subseteq b.flag
    BY <2>1
  <2>4. Same(b, c)
    BY <2>1, <2>2, <2>3, SameQueue DEF Fields
  <2> QED
    BY <2>4 DEF c
<1>5. x \in Ops /\ (\A a \in Addrs : x # <<"conn", a, NoProf>>) => Same(b, Ask(b, x))
  <2> DEFINE c == Ask(b, x)
  <2>1. Shaped(c) /\ c.op = b.op \cup {x} /\ \A f \in Fields \ {"op"} : c[f] = b[f]
    BY DEF Ask, Good, Shaped, Fields
  <2> HIDE DEF c
  <2>2. Simple(c)
    BY <2>1 DEF Good, Simple, Fields
  <2> SUFFICES ASSUME x \in Ops, \A a \in Addrs : x # <<"conn", a, NoProf>> PROVE Same(b, c)
    BY DEF c
  <2>3. OpsOK(c)
    BY <2>1 DEF Good, OpsOK
  <2> QED
    BY <2>1, <2>2, <2>3, SameQueue DEF Fields
<1>6. Same(b, Done(b, x))
  <2> DEFINE c == Done(b, x)
  <2>1. Shaped(c) /\ c.op = b.op \ {x} /\ \A f \in Fields \ {"op"} : c[f] = b[f]
    BY DEF Done, Good, Shaped, Fields
  <2> HIDE DEF c
  <2>2. Simple(c) /\ OpsOK(c)
    BY <2>1 DEF Good, Simple, OpsOK, Fields
  <2>3. Same(b, c)
    BY <2>1, <2>2, SameQueue DEF Fields
  <2> QED
    BY <2>3 DEF c
<1>7. b.cur = "LINKBACK" => Same(b, Run(b)) /\ Run(b).run
  <2> DEFINE c == Run(b)
  <2>1. Shaped(c) /\ c.run = TRUE /\ \A f \in Fields \ {"run"} : c[f] = b[f]
    BY DEF Run, Good, Shaped, Fields
  <2> HIDE DEF c
  <2>2. Simple(c)
    BY <2>1 DEF Good, Simple, Fields
  <2>3. b.cur = "LINKBACK" => Same(b, c)
    BY <2>1, <2>2, SameQueue DEF Fields
  <2> QED
    BY <2>1, <2>3 DEF c
<1>8. Same(b, Waits(b)) /\ ~Waits(b).run
  <2> DEFINE c == Waits(b)
  <2>1. Shaped(c) /\ c.run = FALSE /\ \A f \in Fields \ {"run"} : c[f] = b[f]
    BY DEF Waits, Good, Shaped, Fields
  <2> HIDE DEF c
  <2>2. Simple(c)
    BY <2>1 DEF Good, Simple, Fields
  <2>3. Same(b, c)
    BY <2>1, <2>2, SameQueue DEF Fields
  <2> QED
    BY <2>1, <2>3 DEF c
<1> QED
  BY <1>1, <1>2, <1>3, <1>4, <1>5, <1>6, <1>7, <1>8

\* A state is entered where no phone is being called, or to call phones.
LEMMA SameEnter ==
    ASSUME NEW b, Good(b), NEW s \in States, NEW m \in Modes, NEW u,
           s = "LINKBACK" \/ Released(b)
    PROVE  /\ Same(b, EnterState(b, s, m, u)) /\ EnterState(b, s, m, u).cur = s
           /\ EnterState(b, s, m, u).num = b.num /\ EnterState(b, s, m, u).link = b.link
           /\ s # "LINKBACK" => ~EnterState(b, s, m, u).run
<1> DEFINE c == EnterState(b, s, m, u)
<1>1. Shaped(c)
  <2>1. DOMAIN b = Fields
    BY DEF Good, Shaped
  <2>2. ASSUME NEW d, d = EnterState(b, s, m, u) PROVE Shaped(d)
    BY ZenonT(60), <2>1, <2>2 DEF EnterState, Shaped
  <2> QED
    BY <2>2
<1>2. \A f \in Fields \ {"cur", "radio", "timer", "flag", "run"} : c[f] = b[f]
  BY DEF EnterState, Good, Shaped, Fields
<1>3. c.cur = s /\ c.radio \in Modes
  BY DEF EnterState, Good, Shaped, Fields, Modes
<1>4. c.timer \subseteq Timers
  <2>1. b.timer \subseteq Timers /\ {"discoverable"} \subseteq Timers /\ {"pairing"} \subseteq Timers
    BY DEF Good, Simple, Timers
  <2> QED
    BY <2>1 DEF EnterState, Good, Shaped, Fields
<1>5. c.flag \subseteq b.flag /\ c.run \in BOOLEAN /\ (s # "LINKBACK" => ~c.run)
  BY DEF EnterState, Good, Shaped, Fields
<1> HIDE DEF c
<1>6. Simple(c)
  BY <1>2, <1>3, <1>4, <1>5 DEF Good, Simple, Fields
<1>7. Same(b, c)
  BY <1>1, <1>2, <1>3, <1>5, <1>6, SameQueue DEF Fields
<1> QED
  BY <1>2, <1>3, <1>5, <1>7 DEF c, Fields

LEMMA SameStates ==
    ASSUME NEW b, Good(b), Released(b), NEW u
    PROVE  /\ Same(b, Pair(b, u)) /\ ~Pair(b, u).run
           /\ Same(b, Standby(b, u)) /\ ~Standby(b, u).run
           /\ Same(b, Connected(b)) /\ ~Connected(b).run
           /\ Same(b, Settle(b))
<1>1. /\ {"PAIRING", "STANDBY", "CONNECTED"} \subseteq States \ {"LINKBACK"}
      /\ {"IDLE", "CONNECTABLE", "DISCOVERABLE"} \subseteq Modes
  BY DEF States, Stable, Modes
<1>2. Same(b, Pair(b, u)) /\ ~Pair(b, u).run
  BY <1>1, SameEnter DEF Pair
<1>3. Same(b, Standby(b, u)) /\ ~Standby(b, u).run
  BY <1>1, SameEnter DEF Standby
<1>4. \A w : Same(b, EnterState(b, "CONNECTED", IF IsFull(b) THEN "IDLE" ELSE "CONNECTABLE", w))
             /\ ~EnterState(b, "CONNECTED", IF IsFull(b) THEN "IDLE" ELSE "CONNECTABLE", w).run
  BY <1>1, SameEnter
<1>5. Same(b, Connected(b)) /\ ~Connected(b).run
  BY <1>4, Zenon DEF Connected
<1>6. Same(b, Settle(b))
  <2>1. "startup_done" \in Flags \ PairingFlags
    BY DEF Flags, PairingFlags
  <2>2. Good(Stop(b, {"linkback"}))
    BY SameSmall DEF Same
  <2> QED
    BY <2>1, <2>2, SameSmall DEF Settle, Same
<1> QED
  BY <1>2, <1>3, <1>5, <1>6

LEMMA SameSettled ==
    ASSUME NEW b, Good(b) PROVE Same(b, Settled(b)) /\ Settled(b).run = b.run
<1>1. "power_on_done" \in Flags \ PairingFlags
  BY DEF Flags, PairingFlags
<1>2. Settled(b).run = b.run
  BY DEF Settled, Set, Good, Shaped, Fields
<1> QED
  BY <1>1, <1>2, SameSmall DEF Settled

\* linkback is over, or was interrupted: no phone is being called.
LEMMA SameSched ==
    ASSUME NEW b, Good(b), Released(b), NEW x
    PROVE  /\ Same(b, StableNormal(b)) /\ ~StableNormal(b).run
           /\ Same(b, StableAgain(b, x)) /\ ~StableAgain(b, x).run
           /\ Same(b, StableDedicated(b)) /\ ~StableDedicated(b).run
           /\ ~b.run => Same(b, StableNotPairing(b, x)) /\ ~StableNotPairing(b, x).run
           /\ Same(b, StableDirect(b)) /\ ~StableDirect(b).run
<1> DEFINE c == Settle(b)
<1>1. Same(b, c) /\ Good(c) /\ Released(c)
  BY SameStates DEF Same, Released
<1>2. c.run = b.run
  BY DEF Settle, Set, Stop, Good, Shaped, Fields
<1> HIDE DEF c
<1>3. \A u : Same(c, Pair(c, u)) /\ ~Pair(c, u).run
  BY <1>1, SameStates
<1>4. \A u : Same(c, Standby(c, u)) /\ ~Standby(c, u).run
  BY <1>1, SameStates
<1>5. Same(c, Connected(c)) /\ ~Connected(c).run
  BY <1>1, SameStates
<1>6. ASSUME NEW d, Same(c, d), ~d.run PROVE Same(b, Settled(d)) /\ ~Settled(d).run
  BY <1>1, <1>6, SameSettled DEF Same
<1>7. Same(b, StableNormal(b)) /\ ~StableNormal(b).run
  <2> DEFINE pairs == /\ ~Is(c, "linkback") \/ On("enable_power_on_linkback_fail_enter_pairing")
                      /\ ~c.call
                      /\ ~Is(c, "power_on_done")
             d == CASE ~IsEmpty(c) -> Connected(c)
                    [] IsEmpty(c) /\ pairs  -> Pair(c, FALSE)
                    [] IsEmpty(c) /\ ~pairs -> Standby(c, FALSE)
  <2>1. Same(c, d) /\ ~d.run
    <3>1. Same(c, Pair(c, FALSE)) /\ ~Pair(c, FALSE).run
      BY <1>3, Zenon
    <3>2. Same(c, Standby(c, FALSE)) /\ ~Standby(c, FALSE).run
      BY <1>4, Zenon
    <3> HIDE DEF pairs
    <3> QED
      BY <1>5, <3>1, <3>2
  <2>2. StableNormal(b) = Settled(Clear(d, {"linkback"}))
    BY Zenon DEF StableNormal, c
  <2> HIDE DEF d
  <2>3. Same(c, Clear(d, {"linkback"})) /\ ~Clear(d, {"linkback"}).run
    <3>1. Same(d, Clear(d, {"linkback"}))
      BY <2>1, SameSmall DEF Same
    <3>2. Clear(d, {"linkback"}).run = d.run
      BY <2>1 DEF Clear, Same, Good, Shaped, Fields
    <3> QED
      BY <2>1, <3>1, <3>2 DEF Same
  <2> QED
    BY <1>6, <2>2, <2>3
<1>8. Same(b, StableAgain(b, x)) /\ ~StableAgain(b, x).run
  <2> DEFINE normal == x = "SRC_DISCONN_NORMAL"
             again  == normal /\ DisconnectPairs(c)
             stays  == c.cur = "PAIRING" /\ (IsEmpty(c) \/ x # "SRC_AUTH_SUC")
             u      == IF IsEmpty(c) THEN again ELSE normal
             d == IF (stays \/ again) /\ ~c.call THEN Pair(c, u)
                  ELSE IF IsEmpty(c) THEN Standby(c, FALSE) ELSE Connected(c)
  <2>1. StableAgain(b, x) = Settled(d)
    BY Zenon DEF StableAgain, c
  <2>2. Same(c, Standby(c, FALSE)) /\ ~Standby(c, FALSE).run
    BY <1>4, Zenon
  <2>3. Same(c, d) /\ ~d.run
    <3> HIDE DEF again, stays, normal, u
    <3> QED
      BY <1>3, <1>5, <2>2
  <2> HIDE DEF d
  <2> QED
    BY <1>6, <2>1, <2>3
<1>9. Same(b, StableDedicated(b)) /\ ~StableDedicated(b).run
  <2> DEFINE d == IF Is(c, "visible") THEN Pair(c, TRUE) ELSE Standby(c, TRUE)
  <2>1. StableDedicated(b) = Settled(d)
    BY Zenon DEF StableDedicated, c
  <2>2. Same(c, Standby(c, TRUE)) /\ ~Standby(c, TRUE).run /\ Same(c, Pair(c, TRUE)) /\ ~Pair(c, TRUE).run
    BY <1>3, <1>4, Zenon
  <2>3. Same(c, d) /\ ~d.run
    BY <2>2
  <2> HIDE DEF d
  <2> QED
    BY <1>6, <2>1, <2>3
<1>10. ~b.run => Same(b, StableNotPairing(b, x)) /\ ~StableNotPairing(b, x).run
  <2> SUFFICES ASSUME ~b.run PROVE Same(b, StableNotPairing(b, x)) /\ ~StableNotPairing(b, x).run
    OBVIOUS
  <2> DEFINE asks == /\ x /\ On("enable_pairing_timeout_to_power_off")
                     /\ \A a \in Addrs : c.bond[a] = {}
             d == CASE ~IsEmpty(c) -> Connected(c)
                    [] IsEmpty(c) /\ asks  -> Ask(c, Op("off", NoAddr))
                    [] IsEmpty(c) /\ ~asks -> Standby(c, FALSE)
  <2>1. StableNotPairing(b, x) = Settled(d)
    BY Zenon DEF StableNotPairing, c
  <2>2. Same(c, Standby(c, FALSE)) /\ ~Standby(c, FALSE).run
    BY <1>4, Zenon
  <2>3. Same(c, Ask(c, Op("off", NoAddr)))
    <3>1. Op("off", NoAddr) \in Ops /\ \A a \in Addrs : Op("off", NoAddr) # <<"conn", a, NoProf>>
      BY DEF Ops, Op
    <3> QED
      BY <1>1, <3>1, SameSmall
  <2>4. Ask(c, Op("off", NoAddr)).run = c.run
    BY <1>1 DEF Ask, Same, Good, Shaped, Fields
  <2>5. Same(c, d) /\ ~d.run
    <3> HIDE DEF asks
    <3> QED
      BY <1>2, <1>5, <2>2, <2>3, <2>4
  <2> HIDE DEF d
  <2> QED
    BY <1>6, <2>1, <2>5
<1>11. Same(b, StableDirect(b)) /\ ~StableDirect(b).run
  <2>1. Same(c, Pair(c, FALSE)) /\ ~Pair(c, FALSE).run
    BY <1>3, Zenon
  <2>2. StableDirect(b) = Settled(Pair(c, FALSE))
    BY Zenon DEF StableDirect, c
  <2> DEFINE d == Pair(c, FALSE)
  <2> HIDE DEF d
  <2>3. Same(c, d) /\ ~d.run
    BY <2>1 DEF d
  <2> QED
    BY <1>6, <2>2, <2>3 DEF d
<1> QED
  BY <1>7, <1>8, <1>9, <1>10, <1>11

-----------------------------------------------------------------------------
(* The phone being called, and its profile steps.                          *)

\* A profile is chosen as long as one remains.
LEMMA DoingGood ==
    ASSUME NEW r \in SUBSET (Profs \cap Listed)
    PROVE  DoingProf(r) \in Profs \cup {NoProf} /\ (DoingProf(r) = NoProf => r = {})
<1> DEFINE places == {i \in DOMAIN prof_arr : prof_arr[i] \in r}
<1>1. DOMAIN prof_arr = 1 .. 8
  BY DEF prof_arr
<1>2. ASSUME places # {} PROVE Q!Least(places) \in places
  <2>1. \E x \in places : \A y \in places : x <= y
    <3>1. places \subseteq 1 .. 8
      BY <1>1
    <3> HIDE DEF places
    <3>2. PICK x \in places : TRUE
      BY <1>2
    <3> QED
      BY <3>1, <3>2
  <2> QED
    BY <2>1 DEF Q!Least
<1>3. r # {} => places # {}
  BY DEF Listed
<1>4. NoProf \notin Listed
  BY ListedProfs DEF NoProf
<1>5. places # {} => DoingProf(r) \in r
  BY <1>2 DEF DoingProf
<1>6. places = {} => DoingProf(r) = NoProf
  BY DEF DoingProf
<1> QED
  BY <1>3, <1>4, <1>5, <1>6

\* Whatever becomes of n's steps, n is as it should be.
LEMMA ActiveSteps ==
    ASSUME NEW n, ActiveOK(n), NEW r \in SUBSET (Profs \cap Listed), NEW k \in 0 .. 2
    PROVE  /\ ActiveOK([n EXCEPT !.remain = r, !.doing = DoingProf(r), !.sdp_ok = FALSE, !.cnt = k])
           /\ ActiveOK([n EXCEPT !.sdp_ok = FALSE, !.cnt = k])
<1>1. DoingProf(r) \in Profs \cup {NoProf} /\ (DoingProf(r) = NoProf => r = {})
  BY DoingGood
<1>2. ASSUME NEW m, NEW d, d = DoingProf(r), m = [n EXCEPT !.remain = r, !.doing = d, !.sdp_ok = FALSE, !.cnt = k]
      PROVE  ActiveOK(m)
  <2>1. m \in Active
    BY <1>1, <1>2 DEF ActiveOK, Active
  <2>2. /\ m.remain = r /\ m.doing = d /\ ~m.sdp_ok /\ m.valid = n.valid
        /\ m.node = n.node
    BY <1>2 DEF ActiveOK, Active
  <2> QED
    BY <1>1, <1>2, <2>1, <2>2 DEF ActiveOK
<1>3. ASSUME NEW m, m = [n EXCEPT !.sdp_ok = FALSE, !.cnt = k] PROVE ActiveOK(m)
  <2>1. m \in Active
    BY <1>3 DEF ActiveOK, Active
  <2>2. /\ m.remain = n.remain /\ m.doing = n.doing /\ ~m.sdp_ok /\ m.valid = n.valid
        /\ m.node = n.node
    BY <1>3 DEF ActiveOK, Active
  <2> QED
    BY <2>1, <2>2 DEF ActiveOK
<1> QED
  BY <1>2, <1>3

LEMMA ActiveMarks ==
    ASSUME NEW n, ActiveOK(n), NEW u \in BOOLEAN
    PROVE  /\ n.valid => ActiveOK([n EXCEPT !.sdp_ok = TRUE])
           /\ ActiveOK([n EXCEPT !.exit = TRUE]) /\ ActiveOK([n EXCEPT !.pending = u])
           /\ ActiveOK([n EXCEPT !.node.plan = {}])
           /\ ActiveOK([NoActive EXCEPT !.node.addr = n.node.addr, !.pending = n.pending])
           /\ ActiveOK(NoActive)
<1>1. ASSUME NEW m, m = [n EXCEPT !.sdp_ok = TRUE], n.valid PROVE ActiveOK(m)
  <2>1. m \in Active /\ m.remain = n.remain /\ m.doing = n.doing /\ m.valid = n.valid /\ m.node = n.node
    BY <1>1 DEF ActiveOK, Active
  <2> QED
    BY <1>1, <2>1 DEF ActiveOK
<1>2. ASSUME NEW m, m = [n EXCEPT !.exit = TRUE] \/ m = [n EXCEPT !.pending = u] PROVE ActiveOK(m)
  <2>1. /\ m \in Active /\ m.remain = n.remain /\ m.doing = n.doing /\ m.valid = n.valid /\ m.node = n.node
        /\ m.sdp_ok = n.sdp_ok
    BY <1>2 DEF ActiveOK, Active
  <2> QED
    BY <2>1 DEF ActiveOK
<1>3. ASSUME NEW m, m = [n EXCEPT !.node.plan = {}] PROVE ActiveOK(m)
  <2>1. n.node.plan \in SUBSET Profs
    BY DEF ActiveOK, Active
  <2>2. /\ m.remain = n.remain /\ m.doing = n.doing /\ m.valid = n.valid /\ m.sdp_ok = n.sdp_ok
        /\ m.node.addr = n.node.addr /\ m.node.retry = n.node.retry /\ m.node.check = n.node.check
        /\ m.node.plan = {}
    BY <1>3 DEF ActiveOK, Active
  <2>3. m \in Active
    BY <1>3 DEF ActiveOK, Active
  <2> QED
    BY <2>2, <2>3 DEF ActiveOK
<1>4. NoActive \in Active /\ ActiveOK(NoActive)
  BY BtPolicyAssumption DEF BtPolicyAssumption, NoActive, NoNode, Active, ActiveOK
<1>5. ASSUME NEW m, m = [NoActive EXCEPT !.node.addr = n.node.addr, !.pending = n.pending]
      PROVE  ActiveOK(m)
  <2>1. /\ ~m.valid /\ ~m.node.check /\ m.node.plan = {} /\ m.remain = {} /\ ~m.sdp_ok
    BY <1>5 DEF NoActive, NoNode
  <2>2. n.node.addr \in Addrs \cup {NoAddr} /\ n.pending \in BOOLEAN
    BY DEF ActiveOK, Active
  <2>3. m \in Active
    BY <1>4, <1>5, <2>2 DEF Active
  <2> QED
    BY <2>1, <2>3 DEF ActiveOK
<1> QED
  BY <1>1, <1>2, <1>3, <1>4, <1>5

\* Of the phone being called profiles are asked for and given up.
LEMMA ActivePlans ==
    ASSUME NEW n, ActiveOK(n), NEW profs \in SUBSET Profs
    PROVE  /\ profs \subseteq Listed /\ n.doing # NoProf =>
                ActiveOK([n EXCEPT !.node.plan = @ \cup profs, !.remain = @ \cup profs,
                                   !.node.retry = LinkbackTime, !.node.group = FALSE,
                                   !.node.check = FALSE])
           /\ ActiveOK([n EXCEPT !.node.plan = @ \ profs, !.remain = @ \ profs])
<1>0. LinkbackTime \in 0 .. MaxTime /\ LinkbackTime > 0
  BY BtPolicyAssumption DEF BtPolicyAssumption
<1>1. ASSUME profs \subseteq Listed, n.doing # NoProf, NEW m,
             m = [n EXCEPT !.node.plan = @ \cup profs, !.remain = @ \cup profs,
                           !.node.retry = LinkbackTime, !.node.group = FALSE, !.node.check = FALSE]
      PROVE  ActiveOK(m)
  <2>1. /\ m.remain = n.remain \cup profs /\ m.doing = n.doing /\ m.valid = n.valid /\ m.sdp_ok = n.sdp_ok
        /\ m.node.addr = n.node.addr /\ m.node.retry = LinkbackTime /\ ~m.node.check
        /\ m.node.plan = n.node.plan \cup profs
    BY <1>1 DEF ActiveOK, Active
  <2>2. m \in Active
    BY ZenonT(60), <1>0, <1>1 DEF ActiveOK, Active
  <2> QED
    BY <1>0, <1>1, <2>1, <2>2 DEF ActiveOK
<1>2. ASSUME NEW m, m = [n EXCEPT !.node.plan = @ \ profs, !.remain = @ \ profs]
      PROVE  ActiveOK(m)
  <2>1. /\ m.remain = n.remain \ profs /\ m.doing = n.doing /\ m.valid = n.valid /\ m.sdp_ok = n.sdp_ok
        /\ m.node.addr = n.node.addr /\ m.node.retry = n.node.retry /\ m.node.check = n.node.check
        /\ m.node.plan = n.node.plan \ profs
    BY <1>2 DEF ActiveOK, Active
  <2>2. m \in Active
    BY <1>2 DEF ActiveOK, Active
  <2> QED
    BY <2>1, <2>2 DEF ActiveOK
<1> QED
  BY <1>1, <1>2

\* c is b but for what is known of the phone being called.
Only(b, c) == Good(c) /\ \A f \in Fields \ {"active"} : c[f] = b[f]

\* n tells of the same phone as m, if of any, and gives it up no less.
Follows(m, n) ==
    n.valid => /\ m.valid /\ n.node.addr = m.node.addr /\ (m.exit => n.exit)
               /\ n.node.group => m.node.group /\ n.node.retry = m.node.retry

LEMMA OnlyActive ==
    ASSUME NEW b, Good(b), NEW c, Shaped(c), \A f \in Fields \ {"active"} : c[f] = b[f],
           ActiveOK(c.active), Follows(b.active, c.active)
    PROVE  Only(b, c)
<1>1. Simple(c) /\ LinksOK(c) /\ OpsOK(c) /\ WaitsOK(c)
  BY DEF Good, Simple, LinksOK, OpsOK, WaitsOK, Fields
<1>2. c.queue = b.queue /\ c.cur = b.cur /\ c.flag = b.flag /\ c.run = b.run
  BY DEF Fields
<1>3. Grouped(c.queue, c.active)
  BY <1>2 DEF Good, Grouped, Follows
<1>4. Fit(c)
  BY <1>2 DEF Good, Fit, Released, NotWaiting, Follows
<1> QED
  BY <1>1, <1>2, <1>3, <1>4 DEF Good, Only

LEMMA OnlySteps ==
    ASSUME NEW b, Good(b)
    PROVE  Only(b, StepSuc(b)) /\ Only(b, StepFail(b)) /\ Only(b, CallAnew(b))
<1> DEFINE n == b.active
           With(r, k) == [n EXCEPT !.remain = r, !.doing = DoingProf(r), !.sdp_ok = FALSE, !.cnt = k]
           More(k) == [n EXCEPT !.sdp_ok = FALSE, !.cnt = k]
<1>1. ActiveOK(n) /\ Shaped(b) /\ DOMAIN b = Fields
  BY DEF Good, Shaped
<1>2. n.remain \in SUBSET (Profs \cap Listed) /\ n.cnt \in 0 .. 2
      /\ n.node.plan \in SUBSET (Profs \cap Listed)
  BY <1>1 DEF ActiveOK, Active
<1>3. ASSUME NEW c, NEW r \in SUBSET (Profs \cap Listed), NEW k \in 0 .. 2,
             c = [b EXCEPT !.active = With(r, k)] \/ c = [b EXCEPT !.active = More(k)]
      PROVE  Only(b, c)
  <2>1. ActiveOK(With(r, k)) /\ ActiveOK(More(k))
    BY <1>1, ActiveSteps
  <2>2. Follows(n, With(r, k)) /\ Follows(n, More(k))
    BY <1>1 DEF Follows, ActiveOK, Active
  <2> HIDE DEF n, With, More
  <2>3. Shaped(c) /\ (c.active = With(r, k) \/ c.active = More(k)) /\ \A f \in Fields \ {"active"} : c[f] = b[f]
    BY <1>1, <1>3 DEF Fields, Shaped
  <2> QED
    BY <2>1, <2>2, <2>3, OnlyActive DEF n
<1>4. Only(b, StepSuc(b))
  <2> DEFINE r == n.remain \ {n.doing}
  <2>1. r \in SUBSET (Profs \cap Listed)
    BY <1>2
  <2>2. StepSuc(b) = [b EXCEPT !.active = With(r, 0)]
    BY DEF StepSuc
  <2> HIDE DEF r, With
  <2> QED
    BY <1>3, <2>1, <2>2
<1>5. Only(b, StepFail(b))
  <2> DEFINE gone == {p \in Profs : p = n.doing \/ <<n.doing, p>> \in prof_relation}
             r == n.remain \ gone
  <2>1. r \in SUBSET (Profs \cap Listed)
    BY <1>2
  <2>2. n.cnt < 2 => StepFail(b) = [b EXCEPT !.active = More(n.cnt + 1)]
    BY DEF StepFail
  <2>3. ~(n.cnt < 2) => StepFail(b) = [b EXCEPT !.active = With(r, 0)]
    BY DEF StepFail
  <2>4. n.cnt < 2 => n.cnt + 1 \in 0 .. 2
    BY <1>2
  <2> HIDE DEF r, With, More, n
  <2> QED
    BY <1>3, <2>1, <2>2, <2>3, <2>4
<1>6. Only(b, CallAnew(b))
  <2> DEFINE r == n.node.plan
  <2>1. r \in SUBSET (Profs \cap Listed)
    BY <1>2
  <2>2. CallAnew(b) = [b EXCEPT !.active = With(r, 0)]
    BY DEF CallAnew
  <2> HIDE DEF r, With
  <2> QED
    BY <1>3, <2>1, <2>2
<1> QED
  BY <1>4, <1>5, <1>6

LEMMA OnlyMarks ==
    ASSUME NEW b, Good(b), NEW u \in BOOLEAN
    PROVE  /\ b.active.valid => Only(b, [b EXCEPT !.active.sdp_ok = TRUE])
           /\ Only(b, [b EXCEPT !.active.exit = TRUE]) /\ Only(b, [b EXCEPT !.active.pending = u])
           /\ Only(b, [b EXCEPT !.active.node.plan = {}])
           /\ Only(b, Invalid(b)) /\ ~Invalid(b).active.valid
           /\ Only(b, [b EXCEPT !.active = NoActive])
<1> DEFINE n == b.active
<1>1. ActiveOK(n) /\ Shaped(b) /\ DOMAIN b = Fields
  BY DEF Good, Shaped
<1>2. ASSUME NEW m, ActiveOK(m), Follows(n, m), NEW c, c = [b EXCEPT !.active = m] PROVE Only(b, c)
  <2>1. Shaped(c) /\ c.active = m /\ \A f \in Fields \ {"active"} : c[f] = b[f]
    BY <1>1, <1>2 DEF Fields, Shaped
  <2> QED
    BY <1>2, <2>1, OnlyActive DEF n
<1>3. n.valid => Only(b, [b EXCEPT !.active.sdp_ok = TRUE])
  <2>1. Follows(n, [n EXCEPT !.sdp_ok = TRUE])
    BY <1>1 DEF Follows, ActiveOK, Active
  <2>2. n.valid => ActiveOK([n EXCEPT !.sdp_ok = TRUE])
    BY <1>1, ActiveMarks
  <2> QED
    BY <1>2, <2>1, <2>2
<1>4. Only(b, [b EXCEPT !.active.exit = TRUE])
  <2>1. Follows(n, [n EXCEPT !.exit = TRUE])
    BY <1>1 DEF Follows, ActiveOK, Active
  <2>2. ActiveOK([n EXCEPT !.exit = TRUE])
    BY <1>1, ActiveMarks
  <2> QED
    BY <1>2, <2>1, <2>2
<1>5. Only(b, [b EXCEPT !.active.pending = u])
  <2>1. Follows(n, [n EXCEPT !.pending = u])
    BY <1>1 DEF Follows, ActiveOK, Active
  <2>2. ActiveOK([n EXCEPT !.pending = u])
    BY <1>1, ActiveMarks
  <2> QED
    BY <1>2, <2>1, <2>2
<1>6. Only(b, [b EXCEPT !.active.node.plan = {}])
  <2>1. Follows(n, [n EXCEPT !.node.plan = {}])
    BY <1>1 DEF Follows, ActiveOK, Active
  <2>2. ActiveOK([n EXCEPT !.node.plan = {}])
    BY <1>1, ActiveMarks
  <2> QED
    BY <1>2, <2>1, <2>2
<1>7. Only(b, Invalid(b)) /\ ~Invalid(b).active.valid
  <2> DEFINE m == [NoActive EXCEPT !.node.addr = n.node.addr, !.pending = n.pending]
  <2>1. ~m.valid
    BY DEF NoActive
  <2>2. ActiveOK(m) /\ Follows(n, m)
    BY <1>1, <2>1, ActiveMarks DEF Follows
  <2>3. Invalid(b) = [b EXCEPT !.active = m]
    BY DEF Invalid
  <2> HIDE DEF m
  <2>4. Invalid(b).active = m
    BY <1>1, <2>3 DEF Fields
  <2> QED
    BY <1>2, <2>1, <2>2, <2>3, <2>4
<1>8. Only(b, [b EXCEPT !.active = NoActive])
  <2>1. Follows(n, NoActive)
    BY DEF Follows, NoActive
  <2> QED
    BY <1>1, <1>2, <2>1, ActiveMarks
<1> QED
  BY <1>3, <1>4, <1>5, <1>6, <1>7, <1>8

LEMMA AddedPlans ==
    ASSUME NEW b, NEW profs
    PROVE  RemainAdd(b, profs) =
               [b EXCEPT !.active = [b.active EXCEPT !.node.plan = @ \cup profs, !.remain = @ \cup profs,
                                                     !.node.retry = LinkbackTime, !.node.group = FALSE,
                                                     !.node.check = FALSE]]
BY ZenonT(60) DEF RemainAdd

LEMMA OnlyPlans ==
    ASSUME NEW b, Good(b), NEW profs \in SUBSET Profs
    PROVE  /\ profs \subseteq Listed /\ b.active.doing # NoProf =>
                Only(b, RemainAdd(b, profs)) /\ (Calm(b) => Calm(RemainAdd(b, profs)))
           /\ Only(b, RemainSub(b, profs)) /\ (Calm(b) => Calm(RemainSub(b, profs)))
<1> DEFINE n == b.active
           add == [n EXCEPT !.node.plan = @ \cup profs, !.remain = @ \cup profs,
                            !.node.retry = LinkbackTime, !.node.group = FALSE, !.node.check = FALSE]
           sub == [n EXCEPT !.node.plan = @ \ profs, !.remain = @ \ profs]
<1>1. ActiveOK(n) /\ Shaped(b) /\ DOMAIN b = Fields
  BY DEF Good, Shaped
<1>2. ASSUME NEW m, ActiveOK(m), Follows(n, m), m.doing = n.doing, m.exit = n.exit,
             NEW c, c = [b EXCEPT !.active = m]
      PROVE  Only(b, c) /\ (Calm(b) => Calm(c))
  <2>1. Shaped(c) /\ c.active = m /\ \A f \in Fields \ {"active"} : c[f] = b[f]
    BY <1>1, <1>2 DEF Fields, Shaped
  <2> QED
    BY <1>2, <2>1, OnlyActive DEF n, Calm, Follows
<1>3. ASSUME profs \subseteq Listed, n.doing # NoProf
      PROVE  Only(b, RemainAdd(b, profs)) /\ (Calm(b) => Calm(RemainAdd(b, profs)))
  <2>1. Follows(n, add) /\ add.doing = n.doing /\ add.exit = n.exit
    BY <1>1 DEF Follows, ActiveOK, Active
  <2>2. ActiveOK(add)
    BY <1>1, <1>3, ActivePlans
  <2>3. RemainAdd(b, profs) = [b EXCEPT !.active = add]
    BY AddedPlans
  <2> HIDE DEF add
  <2> QED
    BY <1>2, <2>1, <2>2, <2>3
<1>4. Only(b, RemainSub(b, profs)) /\ (Calm(b) => Calm(RemainSub(b, profs)))
  <2>1. Follows(n, sub) /\ sub.doing = n.doing /\ sub.exit = n.exit
    BY <1>1 DEF Follows, ActiveOK, Active
  <2>2. ActiveOK(sub)
    BY <1>1, ActivePlans
  <2>3. RemainSub(b, profs) = [b EXCEPT !.active = sub]
    BY DEF RemainSub
  <2> HIDE DEF sub
  <2> QED
    BY <1>2, <2>1, <2>2, <2>3
<1> QED
  BY <1>3, <1>4

-----------------------------------------------------------------------------
(* Operators that change the queue.                                        *)

\* One operation on the queue at most, and calm as b was unless linkback_run
\* follows.
Well(b, c) == Good(c) /\ One(b.queue, c.queue) /\ (c.run \/ (Calm(b) => Calm(c)))

LEMMA WellSame ==
    ASSUME NEW b, NEW c
    PROVE  /\ Same(b, c) => Well(b, c)
           /\ Only(b, c) /\ c.run => Well(b, c)
           /\ \A d : Same(b, c) /\ Well(c, d) => Well(b, d)
           /\ \A d : Well(b, c) /\ Same(c, d) /\ (d.run \/ ~c.run) => Well(b, d)
BY ZenonT(60) DEF Well, Same, Only, One, Calm, Fields

LEMMA GoodQueue ==
    ASSUME NEW b, Good(b), NEW c, Shaped(c), \A f \in Fields \ {"queue"} : c[f] = b[f],
           QueueOK(c.queue),
           \/ ~b.active.valid
           \/ \E x : /\ Inherits(b.queue, c.queue, x)
                     /\ "pairing" \in Features \/ b.active.exit \/ x # b.active.node.addr
    PROVE  Good(c)
<1>1. Simple(c) /\ LinksOK(c) /\ OpsOK(c) /\ WaitsOK(c)
  BY DEF Good, Simple, LinksOK, OpsOK, WaitsOK, Fields
<1>2. c.active = b.active /\ c.cur = b.cur /\ c.flag = b.flag /\ c.run = b.run
  BY DEF Fields
<1>3. Grouped(c.queue, c.active)
  BY <1>2 DEF Good, Grouped, Inherits
<1>4. "pairing" \notin Features => NotWaiting(c.queue, c.active)
  BY <1>2 DEF Good, Fit, NotWaiting, Inherits
<1>5. Fit(c)
  BY <1>2, <1>4 DEF Good, Fit, Released
<1> QED
  BY <1>1, <1>2, <1>3, <1>5 DEF Good

LEMMA SetQueue ==
    ASSUME NEW b, Good(b), NEW r
    PROVE  LET c == [b EXCEPT !.queue = r]
           IN  Shaped(c) /\ c.queue = r /\ \A f \in Fields \ {"queue"} : c[f] = b[f]
<1>1. Shaped(b) /\ DOMAIN b = Fields
  BY DEF Good, Shaped
<1>2. ASSUME NEW c, c = [b EXCEPT !.queue = r]
      PROVE  Shaped(c) /\ c.queue = r /\ \A f \in Fields \ {"queue"} : c[f] = b[f]
  BY <1>1, <1>2 DEF Shaped, Fields
<1> QED
  BY <1>2

\* A node that is not for the phone being called is put in the queue.
LEMMA RequestGood ==
    ASSUME NEW a \in Addrs, NEW plan \in SUBSET (Profs \cap Listed), NEW t \in 1 .. MaxTime
    PROVE  Request(a, plan, t) \in QP!Requests /\ Request(a, plan, t).addr = a
<1>1. t \in QP!Times \ {0}
  BY BtPolicyAssumption DEF BtPolicyAssumption, QP!Times
<1> QED
  BY <1>1 DEF Request, QP!Requests, QP!Plans, QP!Checks

LEMMA CallFirstWell ==
    ASSUME NEW b, Good(b), NEW a \in Addrs, NEW profs \in SUBSET (Profs \cap Listed),
           b.active.valid /\ "pairing" \notin Features => b.active.node.addr # a
    PROVE  /\ Good(CallFirst(b, a, profs)) /\ One(b.queue, CallFirst(b, a, profs).queue)
           /\ CallFirst(b, a, profs).active = b.active /\ CallFirst(b, a, profs).run = b.run
           /\ CallFirst(b, a, profs).link = b.link
<1> DEFINE n == Request(a, profs, LinkbackTime)
           r == Q!InsertForce(b.queue, n)
           c == [b EXCEPT !.queue = r]
<1>1. LinkbackTime \in 1 .. MaxTime
  BY BtPolicyAssumption DEF BtPolicyAssumption
<1>2. n \in QP!Requests /\ n.addr = a
  BY <1>1, RequestGood
<1> HIDE DEF n
<1>3. QueueOK(r) /\ Inherits(b.queue, r, a) /\ One(b.queue, r)
  BY <1>2, InsertGood DEF Good
<1> HIDE DEF r
<1>4. Shaped(c) /\ c.queue = r /\ \A f \in Fields \ {"queue"} : c[f] = b[f]
  BY SetQueue
<1> HIDE DEF c
<1>5. Good(c)
  BY <1>3, <1>4, GoodQueue
<1>6. c.active = b.active /\ c.run = b.run /\ c.link = b.link
  BY <1>4 DEF Fields
<1>7. CallFirst(b, a, profs) = c
  BY DEF CallFirst, c, r, n
<1> QED
  BY <1>3, <1>4, <1>5, <1>6, <1>7

\* The phone being called goes back to the queue.
LEMMA PutBackGood ==
    ASSUME NEW b, Good(b), b.active.valid, NEW used \in 0 .. MaxTime, NEW isNormal \in BOOLEAN
    PROVE  /\ Good(PutBack(b, used, isNormal)) /\ ~PutBack(b, used, isNormal).active.valid
           /\ One(b.queue, PutBack(b, used, isNormal).queue)
<1> DEFINE e == Invalid(b)
           r == Q!UseLeftTime(b.queue, b.active.node, used, isNormal, FALSE)
           d == [b EXCEPT !.queue = r]
           c == Invalid(d)
<1>1. Good(e) /\ ~e.active.valid
  BY OnlyMarks DEF Only
<1>2. QueueOK(r) /\ One(b.queue, r)
  BY ReturnGood DEF Good
<1>3. Shaped(d) /\ d.queue = r /\ \A f \in Fields \ {"queue"} : d[f] = b[f]
  <2> HIDE DEF r
  <2> QED
    BY SMTT(30), SetQueue
<1> HIDE DEF d, r
<1>4. DOMAIN d = Fields /\ DOMAIN b = Fields /\ d.active = b.active
  BY <1>3 DEF Good, Shaped, Fields
<1>5. ASSUME NEW x, DOMAIN x = Fields, NEW y, y = Invalid(x)
      PROVE  /\ Shaped(y) /\ \A f \in Fields \ {"active"} : y[f] = x[f]
             /\ y.active = [NoActive EXCEPT !.node.addr = x.active.node.addr, !.pending = x.active.pending]
  BY <1>5 DEF Invalid, Shaped, Fields
<1>6. Shaped(c) /\ c.active = e.active /\ \A f \in Fields \ {"active"} : c[f] = d[f] /\ e[f] = b[f]
  <2>1. /\ Shaped(c) /\ \A f \in Fields \ {"active"} : c[f] = d[f]
        /\ c.active = [NoActive EXCEPT !.node.addr = d.active.node.addr, !.pending = d.active.pending]
    BY <1>4, <1>5, Zenon
  <2>2. /\ \A f \in Fields \ {"active"} : e[f] = b[f]
        /\ e.active = [NoActive EXCEPT !.node.addr = b.active.node.addr, !.pending = b.active.pending]
    BY <1>4, <1>5, Zenon
  <2> HIDE DEF c, e
  <2> QED
    BY <1>4, <2>1, <2>2
<1>7. c.queue = r /\ \A f \in Fields \ {"queue"} : c[f] = e[f]
  BY <1>3, <1>6 DEF Fields
<1> HIDE DEF c, e
<1>8. Good(c) /\ ~c.active.valid
  BY <1>1, <1>2, <1>6, <1>7, GoodQueue
<1>9. PutBack(b, used, isNormal) = c
  BY Zenon DEF PutBack, c, d, r
<1> QED
  BY <1>2, <1>7, <1>8, <1>9

-----------------------------------------------------------------------------
(* Links and requests to the stack.                                        *)

\* c is as good as b and differs in the fields S only, not in the queue and the
\* phone being called.
Alter(b, c, S) == Same(b, c) /\ \A f \in Fields \ S : c[f] = b[f]

LEMMA AlterLink ==
    ASSUME NEW b, Good(b), NEW a \in Addrs, NEW l, LinkOK(l), NEW c, c = [b EXCEPT !.link[a] = l]
    PROVE  Alter(b, c, {"link"}) /\ c.link[a] = l
<1>1. Shaped(b) /\ DOMAIN b = Fields /\ LinksOK(b)
  BY DEF Good, Shaped
<1>2. /\ Shaped(c) /\ c.link = [b.link EXCEPT ![a] = l]
      /\ \A f \in Fields \ {"link"} : c[f] = b[f]
  BY <1>1 DEF Shaped, Fields
<1>3. LinksOK(c) /\ c.link[a] = l
  BY <1>1, <1>2 DEF LinksOK, LinkOK
<1>4. Simple(c)
  BY <1>2 DEF Good, Simple, Fields
<1> QED
  BY <1>2, <1>3, <1>4, SameQueue DEF Alter, Fields

LEMMA AlterLinkField ==
    ASSUME NEW b, Good(b), NEW a \in Addrs, NEW x \in BOOLEAN
    PROVE  /\ Alter(b, [b EXCEPT !.link[a].drop = x], {"link"})
           /\ Alter(b, [b EXCEPT !.link[a].auth = x], {"link"})
           /\ Alter(b, [b EXCEPT !.link[a].master = x], {"link"})
           /\ (x => "A2DP" \in Profs) => Alter(b, [b EXCEPT !.link[a].later = x], {"link"})
           /\ \A profs \in SUBSET Profs : Alter(b, [b EXCEPT !.link[a].profs = profs], {"link"})
<1>1. b.link[a] \in Link /\ (b.link[a].later => "A2DP" \in Profs)
  BY DEF Good, LinksOK, LinkOK
<1>2. /\ LinkOK([b.link[a] EXCEPT !.drop = x]) /\ LinkOK([b.link[a] EXCEPT !.auth = x])
      /\ LinkOK([b.link[a] EXCEPT !.master = x])
      /\ (x => "A2DP" \in Profs) => LinkOK([b.link[a] EXCEPT !.later = x])
      /\ \A profs \in SUBSET Profs : LinkOK([b.link[a] EXCEPT !.profs = profs])
  BY <1>1 DEF LinkOK, Link
<1>3. /\ [b EXCEPT !.link[a].drop = x] = [b EXCEPT !.link[a] = [b.link[a] EXCEPT !.drop = x]]
      /\ [b EXCEPT !.link[a].auth = x] = [b EXCEPT !.link[a] = [b.link[a] EXCEPT !.auth = x]]
      /\ [b EXCEPT !.link[a].master = x] = [b EXCEPT !.link[a] = [b.link[a] EXCEPT !.master = x]]
      /\ [b EXCEPT !.link[a].later = x] = [b EXCEPT !.link[a] = [b.link[a] EXCEPT !.later = x]]
      /\ \A profs : [b EXCEPT !.link[a].profs = profs] = [b EXCEPT !.link[a] = [b.link[a] EXCEPT !.profs = profs]]
  OBVIOUS
<1>4. \A l : LinkOK(l) => Alter(b, [b EXCEPT !.link[a] = l], {"link"})
  BY AlterLink
<1> QED
  BY <1>2, <1>3, <1>4

LEMMA AlterOps ==
    ASSUME NEW b, Good(b), NEW s, s \subseteq b.op \cup Ops,
           \A a \in Addrs : <<"conn", a, NoProf>> \notin s \ b.op,
           NEW c, c = [b EXCEPT !.op = s]
    PROVE  Alter(b, c, {"op"})
<1>1. Shaped(c) /\ c.op = s /\ \A f \in Fields \ {"op"} : c[f] = b[f]
  BY DEF Good, Shaped, Fields
<1>2. Simple(c)
  BY <1>1 DEF Good, Simple, Fields
<1>3. OpsOK(c)
  BY <1>1 DEF Good, OpsOK
<1> QED
  BY <1>1, <1>2, <1>3, SameQueue DEF Alter, Fields

LEMMA OpKinds ==
    ASSUME NEW a \in Addrs, NEW p \in Profs \cup {NoProf}
    PROVE  /\ \A kind \in Kinds : Op(kind, a) \in Ops /\ Op(kind, a)[1] # "conn"
           /\ Op("off", NoAddr) \in Ops /\ Op("off", NoAddr)[1] # "conn"
           /\ <<"conn", a, p>> \in Ops /\ <<"pdisc", a, p>> \in Ops /\ <<"pdisc", a, p>>[1] # "conn"
           /\ Kinds = {"sdp", "page", "in", "stop", "disc"}
BY DEF Ops, Op, Kinds

LEMMA StopSearchSame ==
    ASSUME NEW b, Good(b), NEW a \in Addrs
    PROVE  Alter(b, StopSearch(b, a), {"op"})
<1> DEFINE paged == ~Linked(b, a) /\ Op("sdp", a) \in b.op
           s == (b.op \ {Op("sdp", a)}) \cup {Op("stop", a)} \cup (IF paged THEN {Op("page", a)} ELSE {})
<1>1. Op("stop", a) \in Ops /\ Op("page", a) \in Ops
      /\ Op("stop", a)[1] # "conn" /\ Op("page", a)[1] # "conn"
  BY OpKinds
<1>2. s \subseteq b.op \cup Ops /\ \A x \in Addrs : <<"conn", x, NoProf>> \notin s \ b.op
  BY <1>1
<1>3. StopSearch(b, a) = [b EXCEPT !.op = s]
  BY Zenon DEF StopSearch
<1> HIDE DEF s
<1> QED
  BY <1>2, <1>3, AlterOps

LEMMA AskSame ==
    ASSUME NEW b, Good(b), NEW o \in Ops, o[1] # "conn" \/ o[3] # NoProf
    PROVE  Alter(b, Ask(b, o), {"op"})
<1> DEFINE s == b.op \cup {o}
<1>1. s \subseteq b.op \cup Ops /\ \A x \in Addrs : <<"conn", x, NoProf>> \notin s \ b.op
  OBVIOUS
<1>2. Ask(b, o) = [b EXCEPT !.op = s]
  BY Zenon DEF Ask
<1> HIDE DEF s
<1> QED
  BY <1>1, <1>2, AlterOps

LEMMA DisconnectProfsSame ==
    ASSUME NEW b, Good(b), NEW a \in Addrs, NEW profs \in SUBSET Profs
    PROVE  Alter(b, DisconnectProfs(b, a, profs), {"op"})
<1> DEFINE s == b.op \cup IF profs = {} THEN {Op("disc", a)} ELSE {"pdisc"} \X {a} \X profs
<1>1. ASSUME NEW o \in s \ b.op PROVE o \in Ops /\ o[1] # "conn"
  <2>1. CASE o = Op("disc", a)
    BY <2>1, OpKinds
  <2>2. CASE o \in {"pdisc"} \X {a} \X profs
    BY <2>2 DEF Ops
  <2> QED
    BY <2>1, <2>2
<1>2. s \subseteq b.op \cup Ops /\ \A x \in Addrs : <<"conn", x, NoProf>> \notin s \ b.op
  <2> HIDE DEF s
  <2> QED
    BY <1>1
<1>3. DisconnectProfs(b, a, profs) = [b EXCEPT !.op = s]
  BY Zenon DEF DisconnectProfs
<1> HIDE DEF s
<1> QED
  BY <1>2, <1>3, AlterOps

-----------------------------------------------------------------------------
(* The user's requests.                                                    *)

LEMMA DedicatedConnectWell ==
    ASSUME NEW b, Good(b), Calm(b), NEW a \in Addrs, NEW profs \in SUBSET (Profs \cap Listed)
    PROVE  Well(b, DedicatedConnect(b, a, profs))
<1> DEFINE c == DedicatedConnect(b, a, profs)
           d == CallFirst(b, a, profs)
<1>1. CASE b.cur = "LINKBACK" /\ IsCurrent(b, a)
  <2>1. b.active.valid /\ b.active.doing # NoProf
    BY <1>1 DEF IsCurrent, Calm
  <2>2. Only(b, RemainAdd(b, profs)) /\ Calm(RemainAdd(b, profs))
    BY <2>1, OnlyPlans
  <2>3. "linkback" \in Timers
    BY DEF Timers
  <2>4. Same(RemainAdd(b, profs), c)
    BY <1>1, <2>2, <2>3, SameSmall DEF DedicatedConnect, Only
  <2> HIDE DEF c
  <2>5. Well(b, c)
    BY <2>2, <2>4 DEF Well, Same, Only, One, Calm, Fields
  <2> QED
    BY <2>5 DEF c
<1>2. CASE b.cur = "LINKBACK" /\ ~IsCurrent(b, a)
  <2>1. c = d
    BY <1>2 DEF DedicatedConnect
  <2>2. b.active.valid => b.active.node.addr # a
    BY <1>2 DEF IsCurrent
  <2>3. Good(d) /\ One(b.queue, d.queue) /\ d.active = b.active
    BY <2>2, CallFirstWell
  <2> HIDE DEF c, d
  <2>4. Well(b, d)
    BY <2>3 DEF Well, Calm
  <2> QED
    BY <2>1, <2>4 DEF c
<1>3. CASE b.cur \notin Stable \cup {"LINKBACK"}
  <2>1. c = b
    BY <1>3 DEF DedicatedConnect
  <2> QED
    BY <2>1 DEF Well, One
<1>4. CASE b.cur \in Stable /\ profs = {"DID"}
  <2>1. b.cur # "LINKBACK"
    BY <1>4 DEF Stable
  <2>2. c = b \/ c = Ask(b, Op("sdp", a))
    BY <1>4, <2>1 DEF DedicatedConnect
  <2>3. Same(b, Ask(b, Op("sdp", a)))
    BY OpKinds, AskSame DEF Alter
  <2> HIDE DEF c
  <2>4. Well(b, c)
    BY <2>2, <2>3, WellSame DEF Well, One
  <2> QED
    BY <2>4 DEF c
<1>5. CASE b.cur \in Stable /\ profs # {"DID"}
  <2>1. b.cur # "LINKBACK"
    BY <1>5 DEF Stable
  <2>2. Released(b)
    BY <2>1 DEF Good, Fit
  <2>3. Good(d) /\ One(b.queue, d.queue) /\ d.active = b.active
    BY <2>2, CallFirstWell DEF Released
  <2>4. c = EnterState(d, "LINKBACK", "CONNECTABLE", FALSE)
    BY <1>5, <2>1 DEF DedicatedConnect
  <2> HIDE DEF d
  <2>5. \A u : Same(d, EnterState(d, "LINKBACK", "CONNECTABLE", u))
    BY <2>3, SameEnter DEF States, Modes
  <2>6. Same(d, c)
    BY <2>4, <2>5, Zenon
  <2> HIDE DEF c
  <2>7. Well(b, c)
    BY <2>3, <2>6 DEF Well, Same, Calm
  <2> QED
    BY <2>7 DEF c
<1> QED
  BY <1>1, <1>2, <1>3, <1>4, <1>5

LEMMA DedicatedDisconnectWell ==
    ASSUME NEW b, Good(b), NEW a \in Addrs, NEW profs \in SUBSET Profs
    PROVE  LET c == DedicatedDisconnect(b, a, profs)
           IN  /\ Good(c) /\ One(b.queue, c.queue) /\ (Calm(b) => Calm(c))
               /\ b.queue = << >> => c.queue = << >>
               /\ c.run = b.run /\ c.cur = b.cur /\ c.flag = b.flag /\ c.radio = b.radio
<1> DEFINE c    == IF IsCurrent(b, a) THEN RemainSub(b, profs) ELSE b
           r    == Q!RemovePlan(c.queue, a, profs)
           d    == [c EXCEPT !.queue = r]
           plan == profs \cap b.link[a].profs
           e    == [d EXCEPT !.link[a].drop = (plan = b.link[a].profs)]
           z    == DedicatedDisconnect(b, a, profs)
<1>1. Only(b, c) /\ (Calm(b) => Calm(c))
  BY OnlyPlans DEF Only
<1>2. Good(c) /\ c.queue = b.queue /\ \A f \in Fields \ {"active"} : c[f] = b[f]
  BY <1>1 DEF Only, Fields
<1>3. /\ QueueOK(r) /\ One(b.queue, r) /\ \A x : Inherits(b.queue, r, x)
      /\ b.queue = << >> => r = << >>
  <2>1. r = Q!RemovePlan(b.queue, a, profs)
    BY <1>2
  <2> HIDE DEF r
  <2>2. b.queue = << >> => r = << >>
    BY <2>1 DEF Q!RemovePlan
  <2> QED
    BY <2>1, <2>2, RemovePlanGood DEF Good
<1>4. z = IF ~Linked(b, a) THEN d ELSE DisconnectProfs(e, a, plan)
  BY Zenon DEF DedicatedDisconnect
<1> HIDE DEF c, r
<1>5. Shaped(d) /\ d.queue = r /\ \A f \in Fields \ {"queue"} : d[f] = c[f]
  BY <1>2, SetQueue
<1> HIDE DEF d
<1>6. Good(d)
  <2>1. PICK x \in {"some", "other"} : x # c.active.node.addr
    OBVIOUS
  <2> QED
    BY <1>2, <1>3, <1>5, <2>1, GoodQueue
<1>7. Alter(d, e, {"link"})
  BY <1>6, AlterLinkField
<1>8. plan \in SUBSET Profs
  OBVIOUS
<1>9. Good(e)
  BY <1>7 DEF Alter, Same
<1> HIDE DEF e, plan
<1>10. Alter(e, DisconnectProfs(e, a, plan), {"op"})
  BY <1>8, <1>9, DisconnectProfsSame
<1>11. /\ Good(z) /\ z.queue = d.queue /\ z.active = d.active
       /\ \A f \in Fields \ {"link", "op"} : z[f] = d[f]
  BY <1>4, <1>6, <1>7, <1>10 DEF Alter, Same
<1> HIDE DEF z
<1>12. /\ One(b.queue, z.queue) /\ (Calm(b) => Calm(z)) /\ (b.queue = << >> => z.queue = << >>)
  BY <1>1, <1>3, <1>5, <1>11 DEF Calm, Fields
<1>13. z.run = b.run /\ z.cur = b.cur /\ z.flag = b.flag /\ z.radio = b.radio
  BY <1>2, <1>5, <1>11 DEF Fields
<1> QED
  BY <1>11, <1>12, <1>13 DEF z

LEMMA PreparePairingWell ==
    ASSUME NEW b, Good(b), "pairing" \in Features, NEW victim \in Addrs \cup {NoAddr}
    PROVE  LET c == PreparePairing(b, victim)
           IN  /\ Good(c) /\ One(b.queue, c.queue) /\ (Calm(b) => Calm(c))
               /\ b.queue = << >> => c.queue = << >>
<1> DEFINE c == Clear(b, {"disconnect_for_pairing"})
           e == DedicatedDisconnect(c, victim, Profs)
           d == IF ~IsFull(c) THEN StableDedicated(c)
                ELSE IF Is(c, "force") /\ victim # NoAddr
                THEN Set(e, "disconnect_for_pairing")
                ELSE c
           z == Clear(d, {"force"})
<1>1. Same(b, c)
  BY SameSmall
<1>2. Same(c, StableDedicated(c))
  BY <1>1, SameSched DEF Same, Released
<1> HIDE DEF c
<1>3. victim # NoAddr =>
          /\ Good(e) /\ One(c.queue, e.queue) /\ (Calm(c) => Calm(e))
          /\ c.queue = << >> => e.queue = << >>
  BY <1>1, DedicatedDisconnectWell DEF Same
<1> HIDE DEF e
<1>4. victim # NoAddr => Same(e, Set(e, "disconnect_for_pairing"))
  BY <1>3, SameSmall DEF Flags
<1>5. Good(d) /\ One(c.queue, d.queue) /\ (Calm(c) => Calm(d)) /\ (c.queue = << >> => d.queue = << >>)
  BY <1>1, <1>2, <1>3, <1>4 DEF Same, One, Calm
<1>6. PreparePairing(b, victim) = z
  BY Zenon DEF PreparePairing, c, e
<1> HIDE DEF d
<1>7. Same(d, z)
  BY <1>5, SameSmall
<1> HIDE DEF z
<1>8. Good(z) /\ One(b.queue, z.queue) /\ (Calm(b) => Calm(z)) /\ (b.queue = << >> => z.queue = << >>)
  BY <1>1, <1>5, <1>7 DEF Same, Calm
<1> QED
  BY <1>6, <1>8

\* A record without a phone being called, with a sound queue.
LEMMA FreshGood ==
    ASSUME NEW b, Good(b), NEW c, Shaped(c), Simple(c), c.active = NoActive, QueueOK(c.queue),
           c.link = b.link, c.op = b.op, c.step = b.step, c.cnt = b.cnt, c.flag \subseteq b.flag,
           c.run = b.run, c.cur = b.cur
    PROVE  Good(c)
<1>1. ActiveOK(c.active) /\ ~c.active.valid
  <2>1. ActiveOK(b.active)
    BY DEF Good
  <2>2. \A u \in BOOLEAN : ActiveOK(NoActive)
    BY <2>1, ActiveMarks
  <2>3. ActiveOK(NoActive)
    BY <2>2
  <2>4. ~NoActive.valid
    BY DEF NoActive
  <2> QED
    BY <2>3, <2>4
<1>2. Grouped(c.queue, c.active) /\ Fit(c)
  BY <1>1 DEF Good, Grouped, Fit, Released, NotWaiting
<1>3. LinksOK(c) /\ OpsOK(c) /\ WaitsOK(c)
  BY DEF Good, LinksOK, OpsOK, WaitsOK
<1> QED
  BY <1>1, <1>2, <1>3 DEF Good

LEMMA EmptyQueue == QueueOK(<< >>) /\ \A q : One(q, << >>)
<1>1. QP!Sound(<< >>)
  BY BtPolicyAssumption DEF BtPolicyAssumption, QP!Sound, QP!Shape
<1> QED
  BY <1>1 DEF QueueOK, One

LEMMA EnterPairingWell ==
    ASSUME NEW b, Good(b), Calm(b), "pairing" \in Features, NEW visible \in BOOLEAN,
           NEW force \in BOOLEAN, NEW victim \in Addrs \cup {NoAddr}
    PROVE  Well(b, EnterPairing(b, visible, force, victim))
<1> DEFINE c == [b EXCEPT !.flag = (@ \ {"visible", "force"})
                                   \cup (IF visible THEN {"visible"} ELSE {})
                                   \cup (IF force THEN {"force"} ELSE {})]
           a == c.active.node.addr
           d == Stop(c, {"linkback"})
           g == Clear(d, {"after_stop_sdp"})
           e == IF d.active.valid THEN StopSearch(g, a) ELSE d
           f == [e EXCEPT !.queue = << >>, !.active = NoActive]
           z == EnterPairing(b, visible, force, victim)
<1>1. Same(b, c)
  <2>1. Shaped(c) /\ \A x \in Fields \ {"flag"} : c[x] = b[x]
    BY DEF Good, Shaped, Fields
  <2>2. c.flag \subseteq Flags
    BY DEF Good, Shaped, Fields, Simple, Flags
  <2> HIDE DEF c
  <2>3. Simple(c)
    BY <2>1, <2>2 DEF Good, Simple, Fields
  <2> QED
    BY <2>1, <2>3, SameQueue DEF Fields
<1>2. z = CASE c.cur = "STARTUP" -> StableDirect(c)
            [] c.cur = "LINKBACK" /\ ~MayPair(c) -> c
            [] c.cur = "LINKBACK" /\ MayPair(c) /\ ~Linked(c, a) -> PreparePairing(f, victim)
            [] c.cur \in Stable -> IF MayPair(c) THEN PreparePairing(c, victim) ELSE c
            [] OTHER -> Set(c, "dedicated")
  BY Zenon DEF EnterPairing
<1> HIDE DEF c
<1>3. Same(c, StableDirect(c)) /\ Same(c, Set(c, "dedicated"))
  <2>1. Good(c) /\ Released(c)
    BY <1>1 DEF Same, Released
  <2>2. \A x : Same(c, StableDirect(c))
    BY <2>1, SameSched
  <2>3. Same(c, Set(c, "dedicated"))
    BY <2>1, SameSmall DEF Flags
  <2> QED
    BY <2>2, <2>3
<1>4. Good(f) /\ f.queue = << >> /\ Calm(f)
  <2>1. Same(c, d)
    BY <1>1, SameSmall DEF Same
  <2> HIDE DEF d
  <2>2. Same(d, g)
    BY <2>1, SameSmall DEF Same
  <2> HIDE DEF g
  <2>3. g.active.valid => a \in Addrs
    BY <2>1, <2>2 DEF Same, Good, ActiveOK
  <2>4. Same(g, g)
    BY <2>2 DEF Same
  <2>5. d.active.valid => Same(g, StopSearch(g, a))
    BY <2>2, <2>3, StopSearchSame DEF Same, Alter
  <2>6. Same(c, e)
    BY <2>1, <2>2, <2>5 DEF Same
  <2> HIDE DEF e
  <2>7. Good(e)
    BY <2>6 DEF Same
  <2>8. /\ Shaped(f) /\ f.queue = << >> /\ f.active = NoActive
        /\ \A x \in Fields \ {"queue", "active"} : f[x] = e[x]
    BY <2>7 DEF Good, Shaped, Fields
  <2> HIDE DEF f
  <2>9. Simple(f)
    BY <2>7, <2>8 DEF Good, Simple, Fields
  <2>10. Good(f)
    BY <2>7, <2>8, <2>9, FreshGood, EmptyQueue DEF Fields
  <2> QED
    BY <2>8, <2>10 DEF Calm, NoActive
<1> HIDE DEF f
<1>5. LET p == PreparePairing(f, victim) IN Good(p) /\ p.queue = << >> /\ Calm(p)
  BY <1>4, PreparePairingWell
<1>6. LET p == PreparePairing(c, victim) IN Good(p) /\ One(c.queue, p.queue) /\ (Calm(c) => Calm(p))
  BY <1>1, PreparePairingWell DEF Same
<1>7. Well(b, StableDirect(c)) /\ Well(b, c) /\ Well(b, Set(c, "dedicated"))
  BY <1>1, <1>3, WellSame DEF Well, Same, One, Calm
<1>8. Well(b, PreparePairing(f, victim)) /\ Well(b, PreparePairing(c, victim))
  <2>1. Well(b, PreparePairing(f, victim))
    BY <1>5, EmptyQueue DEF Well
  <2>2. c.queue = b.queue /\ (Calm(b) => Calm(c))
    BY <1>1 DEF Same, Calm
  <2>3. Well(b, PreparePairing(c, victim))
    BY <1>6, <2>2 DEF Well
  <2> QED
    BY <2>1, <2>3
<1> HIDE DEF z
<1>9. Well(b, z)
  BY <1>2, <1>7, <1>8 DEF Stable
<1> QED
  BY <1>9 DEF z

LEMMA ExitPairingSame ==
    ASSUME NEW b, Good(b), ~b.run PROVE Same(b, ExitPairing(b)) /\ ~ExitPairing(b).run
<1> DEFINE c == Clear(b, {"dedicated"})
<1>1. Same(b, c) /\ c.run = b.run
  BY SameSmall DEF Clear, Good, Shaped, Fields
<1>2. ExitPairing(b) = IF c.cur \in Stable THEN StableNotPairing(c, FALSE) ELSE c
  BY DEF ExitPairing
<1> HIDE DEF c
<1>3. c.cur \in Stable => Released(c)
  BY <1>1 DEF Same, Good, Fit, Stable
<1>4. c.cur \in Stable => \A x : Same(c, StableNotPairing(c, x)) /\ ~StableNotPairing(c, x).run
  BY <1>1, <1>3, SameSched DEF Same
<1>5. c.cur \in Stable => Same(c, StableNotPairing(c, FALSE)) /\ ~StableNotPairing(c, FALSE).run
  BY <1>4, Zenon
<1> QED
  BY <1>1, <1>2, <1>5 DEF Same

\* linkback_sched is called where nobody waits and nobody is being called.
LEMMA SchedGood ==
    ASSUME NEW b, Good(b), b.queue = << >>, ~b.active.valid, NEW x, Simple(x),
           NEW bonds \in BondLists(x), NEW victim \in Addrs \cup {NoAddr}
    PROVE  LET z == LinkbackSched(b, bonds, victim)
           IN  Good(z) /\ Calm(z) /\ \A q : One(q, z.queue)
<1> DEFINE c == Clear(b, {"linkback", "dedicated"})
           r == Q!LoadBondList(bonds, LinkbackTime, [i \in 1 .. ItemNum |-> FALSE])
           e == [c EXCEPT !.queue = r]
           d == IF On("enable_power_on_linkback") /\ c.flag \cap {"startup_done", "bond_loaded"} = {}
                THEN Set(e, "bond_loaded") ELSE c
           z == LinkbackSched(b, bonds, victim)
<1>1. Same(b, c)
  BY SameSmall
<1>2. z = IF Is(b, "dedicated") /\ MayPair(c) THEN PreparePairing(c, victim)
          ELSE IF d.queue # << >> \/ d.active.valid
          THEN EnterState(d, "LINKBACK", "CONNECTABLE", FALSE)
          ELSE StableNormal(d)
  BY Zenon DEF LinkbackSched
<1> HIDE DEF c
<1>3. QueueOK(r) /\ \A q : One(q, r)
  BY LoadGood
<1> HIDE DEF r
<1>4. Good(e) /\ e.queue = r /\ e.active = c.active
  <2>1. Shaped(e) /\ e.queue = r /\ \A f \in Fields \ {"queue"} : e[f] = c[f]
    BY <1>1, SetQueue DEF Same
  <2> HIDE DEF e
  <2>2. Good(e)
    BY <1>1, <1>3, <2>1, GoodQueue DEF Same
  <2> QED
    BY <2>1, <2>2 DEF Fields
<1> HIDE DEF e
<1>5. Same(e, Set(e, "bond_loaded"))
  BY <1>4, SameSmall DEF Flags, PairingFlags
<1>6. Good(d) /\ d.queue \in {<< >>, r} /\ ~d.active.valid
  BY <1>1, <1>4, <1>5 DEF Same
<1> HIDE DEF d
<1>7. Same(d, StableNormal(d))
  BY <1>6, SameSched DEF Released
<1>8. \A u : Same(d, EnterState(d, "LINKBACK", "CONNECTABLE", u))
  BY <1>6, SameEnter DEF States, Modes
<1>9. Same(d, EnterState(d, "LINKBACK", "CONNECTABLE", FALSE))
  BY <1>8, Zenon
<1>10. Is(b, "dedicated") => "pairing" \in Features
  BY DEF Good, Fit, Is, PairingFlags
<1>11. Is(b, "dedicated") => LET p == PreparePairing(c, victim) IN Good(p) /\ p.queue = << >> /\ Calm(p)
  <2>1. Good(c) /\ c.queue = << >> /\ Calm(c)
    BY <1>1 DEF Same, Calm
  <2> QED
    BY <1>10, <2>1, PreparePairingWell
<1> HIDE DEF z
<1>12. Good(z) /\ z.queue \in {<< >>, r} /\ Calm(z)
  <2>1. CASE Is(b, "dedicated") /\ MayPair(c)
    BY <1>2, <1>11, <2>1
  <2>2. ASSUME Same(d, z) PROVE Good(z) /\ z.queue \in {<< >>, r} /\ Calm(z)
    BY <1>6, <2>2 DEF Same, Calm
  <2>3. CASE ~(Is(b, "dedicated") /\ MayPair(c))
    <3>1. Same(d, z)
      BY <1>2, <1>7, <1>9, <2>3
    <3> QED
      BY <2>2, <3>1
  <2> QED
    BY <2>1, <2>3
<1> QED
  BY <1>3, <1>12, EmptyQueue DEF z

-----------------------------------------------------------------------------
(* Starting, stopping and shutting down.                                   *)

LEMMA StartUpWell ==
    ASSUME NEW b, Good(b), b.cur # "LINKBACK", NEW atOnce \in BOOLEAN, NEW bonds \in BondLists(b)
    PROVE  Well(b, StartUp(b, atOnce, bonds))
<1> DEFINE x == [b EXCEPT !.flag = @ \cap {"visible", "force"}, !.timer = {}, !.ind = {}]
           y == EnterState(x, "STARTUP", "IDLE", FALSE)
           c == [y EXCEPT !.num = 0, !.queue = << >>, !.active = NoActive]
           z == StartUp(b, atOnce, bonds)
<1>1. Same(b, x)
  <2>1. /\ Shaped(x) /\ x.timer = {} /\ x.ind = {} /\ x.flag = b.flag \cap {"visible", "force"}
        /\ \A f \in Fields \ {"flag", "timer", "ind"} : x[f] = b[f]
    BY DEF Good, Shaped, Fields
  <2> HIDE DEF x
  <2>2. Simple(x)
    BY <2>1 DEF Good, Simple, Fields
  <2> QED
    BY <2>1, <2>2, SameQueue DEF Fields
<1>2. Released(x)
  BY <1>1 DEF Good, Fit, Released, Same
<1> HIDE DEF x
<1>3. \A u : Same(x, EnterState(x, "STARTUP", "IDLE", u))
  <2>1. "STARTUP" \in States /\ "IDLE" \in Modes
    BY DEF States, Modes
  <2> QED
    BY <1>1, <1>2, <2>1, SameEnter DEF Same
<1>4. Good(y)
  BY <1>3, Zenon DEF Same
<1> HIDE DEF y
<1>5. /\ Shaped(c) /\ c.num = 0 /\ c.queue = << >> /\ c.active = NoActive
      /\ \A f \in Fields \ {"num", "queue", "active"} : c[f] = y[f]
  BY <1>4 DEF Good, Shaped, Fields
<1>6. z = IF atOnce THEN LinkbackSched(c, bonds, NoAddr) ELSE c
  BY Zenon DEF StartUp, y, x
<1> HIDE DEF c
<1>7. Simple(c)
  BY <1>4, <1>5 DEF Good, Simple, Fields
<1>8. Good(c) /\ c.queue = << >> /\ ~c.active.valid
  <2>1. ~NoActive.valid
    BY DEF NoActive
  <2>2. c.link = y.link /\ c.op = y.op /\ c.step = y.step /\ c.cnt = y.cnt /\ c.flag = y.flag
        /\ c.run = y.run /\ c.cur = y.cur
    BY <1>5 DEF Fields
  <2>3. Good(c)
    BY <1>4, <1>5, <1>7, <2>2, FreshGood, EmptyQueue
  <2> QED
    BY <1>5, <2>1, <2>3
<1>9. LET s == LinkbackSched(c, bonds, NoAddr)
      IN  Good(s) /\ Calm(s) /\ \A q : One(q, s.queue)
  <2>1. Simple(b)
    BY DEF Good
  <2> QED
    BY <1>8, <2>1, SchedGood
<1>10. Good(z) /\ Calm(z) /\ One(b.queue, z.queue)
  <2>1. Calm(c) /\ One(b.queue, c.queue)
    BY <1>8, EmptyQueue DEF Calm
  <2> QED
    BY <1>6, <1>8, <1>9, <2>1
<1> QED
  BY <1>10 DEF Well

LEMMA RestoredWell ==
    ASSUME NEW b, Good(b), b.cur = "STOP", NEW bonds \in BondLists(b), NEW victim \in Addrs \cup {NoAddr}
    PROVE  Well(b, Restored(b, bonds, victim))
<1> DEFINE x == Clear(b, {"startup_done", "bond_loaded"})
           c == [x EXCEPT !.queue = << >>, !.active = NoActive]
           z == Restored(b, bonds, victim)
<1>1. Same(b, x)
  BY SameSmall
<1> HIDE DEF x
<1>2. /\ Shaped(c) /\ c.queue = << >> /\ c.active = NoActive
      /\ \A f \in Fields \ {"queue", "active"} : c[f] = x[f]
  BY <1>1 DEF Same, Good, Shaped, Fields
<1>3. z = LinkbackSched(c, bonds, victim)
  BY Zenon DEF Restored, x
<1> HIDE DEF c
<1>4. Simple(c)
  BY <1>1, <1>2 DEF Same, Good, Simple, Fields
<1>5. Good(c) /\ ~c.active.valid
  <2>1. ~NoActive.valid
    BY DEF NoActive
  <2>2. c.link = x.link /\ c.op = x.op /\ c.step = x.step /\ c.cnt = x.cnt /\ c.flag = x.flag
        /\ c.run = x.run /\ c.cur = x.cur
    BY <1>2 DEF Fields
  <2>3. Good(c)
    BY <1>1, <1>2, <1>4, <2>2, FreshGood, EmptyQueue DEF Same
  <2> QED
    BY <1>2, <2>1, <2>3
<1>6. Good(z) /\ Calm(z) /\ \A q : One(q, z.queue)
  <2>1. Simple(b)
    BY DEF Good
  <2> QED
    BY <1>2, <1>3, <1>5, <2>1, SchedGood
<1> QED
  BY <1>6 DEF Well

\* The phone being called is given up.
LEMMA StopAllGood ==
    ASSUME NEW b, Good(b), NEW used \in 0 .. MaxTime
    PROVE  LET z == StopAll(b, used) IN Good(z) /\ One(b.queue, z.queue) /\ ~z.active.valid
<1> DEFINE c == Stop(b, {"pairing", "discoverable", "linkback", "delay"})
           d == Clear(c, {"after_stop_sdp"})
           e == StopSearch(d, c.active.node.addr)
           z == StopAll(b, used)
<1>1. Same(b, c)
  BY SameSmall
<1>2. z = IF c.active.valid THEN PutBack(e, used, FALSE) ELSE c
  BY Zenon DEF StopAll
<1> HIDE DEF c
<1>3. Same(c, d)
  BY <1>1, SameSmall DEF Same
<1> HIDE DEF d
<1>4. c.active.valid => Same(d, e)
  BY SMTT(30), <1>1, <1>3, StopSearchSame DEF Same, Alter, Good, ActiveOK
<1> HIDE DEF e
<1>5. c.active.valid => \A u \in BOOLEAN :
          LET p == PutBack(e, used, u) IN Good(p) /\ ~p.active.valid /\ One(e.queue, p.queue)
  BY <1>3, <1>4, PutBackGood DEF Same
<1>6. c.active.valid =>
          LET p == PutBack(e, used, FALSE) IN Good(p) /\ ~p.active.valid /\ One(e.queue, p.queue)
  BY <1>5
<1> HIDE DEF z
<1>7. Good(z) /\ One(b.queue, z.queue) /\ ~z.active.valid
  BY <1>1, <1>2, <1>3, <1>4, <1>6 DEF Same, One
<1> QED
  BY <1>7 DEF z

LEMMA ShutDownStepSame ==
    ASSUME NEW b, Good(b), Released(b) PROVE Same(b, ShutDownStep(b))
<1> DEFINE waited == b.cnt + 1
           next   == CASE b.step = "START_PROFILE" -> "WAIT_PROFILE"
                       [] b.step = "WAIT_PROFILE"  -> IF waited >= 4 THEN "START_LINK" ELSE b.step
                       [] b.step = "START_LINK"    -> "WAIT_LINK"
                       [] b.step = "WAIT_LINK"     -> IF IsEmpty(b) \/ waited >= 4 THEN "END" ELSE b.step
                       [] b.step = "END"           -> "END"
           asked  == CASE b.step = "START_PROFILE"
                            -> {Op("disc", a) : a \in {x \in UsedLinks(b) : b.link[x].profs = {}}}
                               \cup {o \in {"pdisc"} \X Addrs \X Profs : o[3] \in b.link[o[2]].profs}
                       [] b.step = "START_LINK" -> {Op("disc", a) : a \in UsedLinks(b)}
                       [] OTHER -> {}
           cnt    == IF b.step \in {"WAIT_PROFILE", "WAIT_LINK"} THEN waited
                     ELSE IF b.step = "END" THEN b.cnt ELSE 0
           link   == IF b.step # "START_PROFILE" THEN b.link
                     ELSE [a \in Addrs |-> [b.link[a] EXCEPT !.drop = FALSE]]
           c      == [b EXCEPT !.step = next, !.op = @ \cup asked, !.cnt = cnt, !.link = link]
           z      == ShutDownStep(b)
<1>1. z = IF next = "END" THEN EnterState(c, "SHUTDOWN", "IDLE", FALSE) ELSE Start(c, "shutdown")
  BY Zenon DEF ShutDownStep
<1>2. asked \subseteq Ops /\ \A o \in asked : o[1] # "conn"
  <2>1. UsedLinks(b) \subseteq Addrs
    BY DEF UsedLinks
  <2>2. \A a \in Addrs : Op("disc", a) \in Ops /\ Op("disc", a)[1] # "conn"
    BY OpKinds
  <2>3. ASSUME NEW o \in {"pdisc"} \X Addrs \X Profs PROVE o \in Ops /\ o[1] # "conn"
    BY DEF Ops
  <2>4. ASSUME NEW o \in asked
        PROVE  o \in {"pdisc"} \X Addrs \X Profs \/ \E a \in Addrs : o = Op("disc", a)
    BY <2>1 DEF Stable
  <2> HIDE DEF asked
  <2> QED
    BY <2>2, <2>3, <2>4
<1>3. b.step \in Steps /\ b.cnt \in 0 .. 4
      /\ (b.step \in {"WAIT_PROFILE", "WAIT_LINK"} => b.cnt <= 3)
  BY DEF Good, WaitsOK
<1>4. /\ next \in Steps /\ cnt \in 0 .. 4
      /\ next \in {"WAIT_PROFILE", "WAIT_LINK"} => cnt <= 3
  BY <1>3 DEF Steps
<1>5. link \in [Addrs -> Link] /\ \A a \in Addrs : LinkOK(link[a])
  BY DEF Good, LinksOK, LinkOK, Link
<1> HIDE DEF next, asked, cnt, link
<1>6. /\ Shaped(c) /\ c.step = next /\ c.op = b.op \cup asked /\ c.cnt = cnt /\ c.link = link
      /\ \A f \in Fields \ {"step", "op", "cnt", "link"} : c[f] = b[f]
  BY DEF Good, Shaped, Fields
<1> HIDE DEF c
<1>7. Simple(c) /\ LinksOK(c) /\ WaitsOK(c)
  BY <1>4, <1>5, <1>6 DEF Good, Simple, LinksOK, WaitsOK, Fields
<1>8. OpsOK(c)
  BY <1>2, <1>6 DEF Good, OpsOK
<1>9. Same(b, c)
  BY <1>6, <1>7, <1>8, SameQueue DEF Fields
<1>10. \A u : Same(c, EnterState(c, "SHUTDOWN", "IDLE", u))
  BY <1>9, SameEnter DEF Same, Released, States, Modes
<1>11. Same(c, EnterState(c, "SHUTDOWN", "IDLE", FALSE))
  BY <1>10, Zenon
<1>12. Same(c, Start(c, "shutdown"))
  BY <1>9, SameSmall DEF Same, Timers
<1> HIDE DEF z
<1>13. Same(b, z)
  BY <1>1, <1>9, <1>11, <1>12 DEF Same
<1> QED
  BY <1>13 DEF z

LEMMA ShutDownWell ==
    ASSUME NEW b, Good(b), NEW used \in 0 .. MaxTime
    PROVE  Well(b, ShutDown(b, used)) /\ Well(b, StopPolicy(b, used))
<1> DEFINE s == StopAll(b, used)
           y == EnterState(s, "SHUTDOWN_STEP", "IDLE", FALSE)
           c == [y EXCEPT !.step = IF IsEmpty(y) THEN "END" ELSE "START_PROFILE",
                          !.op = @ \ {Op("off", NoAddr)}]
           z == ShutDownStep(c)
           p == EnterState(s, "STOP", "IDLE", FALSE)
<1>1. Good(s) /\ One(b.queue, s.queue) /\ ~s.active.valid
  BY StopAllGood
<1>2. ShutDown(b, used) = z /\ StopPolicy(b, used) = p
  BY Zenon DEF ShutDown, StopPolicy
<1> HIDE DEF s
<1>3. {"SHUTDOWN_STEP", "STOP"} \subseteq States /\ "IDLE" \in Modes
  BY DEF States, Modes
<1>4. \A u : Same(s, EnterState(s, "SHUTDOWN_STEP", "IDLE", u)) /\ Same(s, EnterState(s, "STOP", "IDLE", u))
  BY <1>1, <1>3, SameEnter DEF Released
<1>5. Same(s, y) /\ Same(s, p)
  BY <1>4, Zenon
<1> HIDE DEF y, p
<1>6. Same(y, c)
  <2>1. /\ Shaped(c) /\ c.step \in {"END", "START_PROFILE"} /\ c.op \subseteq y.op
        /\ \A f \in Fields \ {"step", "op"} : c[f] = y[f]
    BY <1>5 DEF Same, Good, Shaped, Fields
  <2> HIDE DEF c
  <2>2. Simple(c) /\ OpsOK(c) /\ WaitsOK(c)
    BY <1>5, <2>1 DEF Same, Good, Simple, OpsOK, WaitsOK, Fields, Steps
  <2> QED
    BY <1>5, <2>1, <2>2, SameQueue DEF Same, Fields
<1> HIDE DEF c
<1>7. Same(c, z)
  BY <1>1, <1>5, <1>6, ShutDownStepSame DEF Same, Released
<1> HIDE DEF z
<1>8. Well(b, z) /\ Well(b, p)
  BY <1>1, <1>5, <1>6, <1>7 DEF Same, Well, Calm
<1> QED
  BY <1>2, <1>8

-----------------------------------------------------------------------------
(* linkback_run.                                                           *)

\* The first phone that waits is called, or nobody.
LEMMA LoadFirst ==
    ASSUME NEW b, Good(b), ~b.active.valid, b.queue # << >>,
           NEW c, c = Load([b EXCEPT !.queue = Tail(@)], Head(b.queue))
    PROVE  /\ b.cur = "LINKBACK" => Good(c)
           /\ ~c.active.valid => Good(c)
           /\ One(b.queue, c.queue) /\ c.run = b.run /\ c.cur = b.cur
<1> DEFINE n == b.queue[1]
           r == Tail(b.queue)
           d == [b EXCEPT !.queue = r]
           m == IF n.plan = {} THEN NoActive
                ELSE [NoActive EXCEPT !.valid = TRUE, !.node = n, !.remain = n.plan,
                                      !.doing = DoingProf(n.plan)]
<1>1. QueueOK(b.queue)
  BY DEF Good
<1>2. /\ QueueOK(r) /\ Inherits(b.queue, r, NoAddr) /\ One(b.queue, r)
      /\ Head(b.queue) = n /\ 1 \in 1 .. Len(b.queue)
      /\ \A i \in 1 .. Len(r) : r[i].addr # n.addr
  BY <1>1, TailGood
<1>3. n \in QP!Node /\ ~n.check /\ n.retry > 0
  BY <1>1, <1>2, QueueNodes
<1>4. \A i \in 1 .. Len(r) : r[i].group /\ n.group => r[i].retry = n.retry
  <2>1. \A i, j \in 1 .. Len(b.queue) :
            b.queue[i].group /\ b.queue[j].group => b.queue[i].retry = b.queue[j].retry
    BY <1>1 DEF QueueOK, QP!Sound, QP!Shape
  <2> HIDE DEF r
  <2> QED
    BY <1>2, <2>1 DEF Inherits
<1> HIDE DEF r
<1>5. ActiveOK(m) /\ (m.valid => m.node = n /\ ~m.exit)
  <2>1. ActiveOK(NoActive) /\ ~NoActive.valid /\ NoActive \in Active
    <3>1. ActiveOK(b.active)
      BY DEF Good
    <3>2. \A u \in BOOLEAN : ActiveOK(NoActive)
      BY <3>1, ActiveMarks
    <3>3. ActiveOK(NoActive)
      BY <3>2
    <3> QED
      BY <3>3 DEF NoActive, ActiveOK
  <2>2. n.plan \in SUBSET (Profs \cap Listed) /\ n.addr \in Addrs
    BY <1>3 DEF QP!Node
  <2>3. DoingProf(n.plan) \in Profs \cup {NoProf} /\ (DoingProf(n.plan) = NoProf => n.plan = {})
    BY <2>2, DoingGood
  <2>4. ASSUME NEW p, NEW x, x = DoingProf(n.plan),
               p = [NoActive EXCEPT !.valid = TRUE, !.node = n, !.remain = n.plan, !.doing = x]
        PROVE  ActiveOK(p) /\ p.node = n /\ ~p.exit
    <3>1. n \in [addr  : Addrs \cup {NoAddr}, plan  : SUBSET Profs, retry : 0 .. MaxTime,
                 group : BOOLEAN, first : BOOLEAN, force : BOOLEAN, check : BOOLEAN]
      BY <1>3 DEF QP!Node, QP!Times
    <3>2. /\ p.valid /\ p.node = n /\ p.remain = n.plan /\ p.doing = x /\ ~p.sdp_ok /\ ~p.exit
      BY <2>4 DEF NoActive
    <3>3. p \in Active
      BY <2>1, <2>2, <2>3, <2>4, <3>1 DEF Active
    <3> QED
      BY <1>3, <2>2, <2>3, <2>4, <3>2, <3>3 DEF ActiveOK
  <2> QED
    BY <2>1, <2>4
<1>6. c = [d EXCEPT !.active = m]
  BY <1>2 DEF Load, r
<1> HIDE DEF m, n
<1>7. Shaped(d) /\ d.queue = r /\ \A f \in Fields \ {"queue"} : d[f] = b[f]
  <2>1. \A x : LET e == [b EXCEPT !.queue = x]
               IN  Shaped(e) /\ e.queue = x /\ \A f \in Fields \ {"queue"} : e[f] = b[f]
    BY SetQueue
  <2> QED
    BY <2>1, Zenon
<1> HIDE DEF d
<1>8. /\ Shaped(c) /\ c.active = m /\ c.queue = r /\ \A f \in Fields \ {"queue", "active"} : c[f] = b[f]
  BY <1>6, <1>7 DEF Shaped, Fields
<1>9. c.run = b.run /\ c.cur = b.cur /\ c.flag = b.flag
  BY <1>8 DEF Fields
<1>10. Simple(c) /\ LinksOK(c) /\ OpsOK(c) /\ WaitsOK(c)
  BY <1>8 DEF Good, Simple, LinksOK, OpsOK, WaitsOK, Fields
<1>11. Grouped(c.queue, c.active) /\ NotWaiting(c.queue, c.active)
  BY ZenonT(60), <1>2, <1>4, <1>5, <1>8 DEF Grouped, NotWaiting
<1>12. b.cur = "LINKBACK" \/ ~m.valid => Fit(c)
  BY <1>8, <1>9, <1>11 DEF Good, Fit, Released
<1>13. b.cur = "LINKBACK" \/ ~m.valid => Good(c)
  BY <1>2, <1>5, <1>8, <1>10, <1>11, <1>12 DEF Good
<1> QED
  BY <1>2, <1>8, <1>9, <1>13

LEMMA NextPhoneWell ==
    ASSUME NEW b, Good(b), b.run, ~b.active.valid PROVE Well(b, NextPhone(b))
<1> DEFINE c == Load([b EXCEPT !.queue = Tail(@)], Head(b.queue))
           w == Waits(b)
           v == Waits(c)
           z == NextPhone(b)
<1>1. b.cur = "LINKBACK"
  BY DEF Good, Fit
<1>2. z = CASE b.queue = << >> -> StableNormal(w)
            [] b.queue # << >> /\ ~c.active.valid -> StableNormal(v)
            [] OTHER -> Start(c, "linkback")
  BY Zenon DEF NextPhone
<1>3. b.queue # << >> => Good(c) /\ One(b.queue, c.queue) /\ c.run
  BY <1>1, LoadFirst
<1> HIDE DEF c
<1>4. CASE b.queue = << >>
  <2>1. Same(b, w)
    BY SameSmall
  <2> HIDE DEF w
  <2>2. Same(w, StableNormal(w))
    BY <2>1, SameSched DEF Same, Released
  <2> HIDE DEF z
  <2>3. Same(b, z)
    BY <1>2, <1>4, <2>1, <2>2 DEF Same
  <2>4. Well(b, z)
    BY <2>3, WellSame
  <2> QED
    BY <2>4 DEF z
<1>5. CASE b.queue # << >> /\ ~c.active.valid
  <2>1. Same(c, v)
    BY <1>3, <1>5, SameSmall
  <2> HIDE DEF v
  <2>2. Same(v, StableNormal(v))
    BY <1>5, <2>1, SameSched DEF Same, Released
  <2> HIDE DEF z
  <2>3. Same(c, z)
    BY <1>2, <1>5, <2>1, <2>2 DEF Same
  <2>4. Well(b, z)
    BY <1>3, <1>5, <2>3 DEF Well, Same, Calm
  <2> QED
    BY <2>4 DEF z
<1>6. CASE b.queue # << >> /\ c.active.valid
  <2>1. Same(c, Start(c, "linkback"))
    BY <1>3, <1>6, SameSmall DEF Timers
  <2>2. Start(c, "linkback").run
    BY <1>3, <1>6 DEF Start, Good, Shaped, Fields
  <2> HIDE DEF z
  <2>3. Well(b, z)
    BY <1>2, <1>3, <1>6, <2>1, <2>2 DEF Well, Same
  <2> QED
    BY <2>3 DEF z
<1> QED
  BY <1>4, <1>5, <1>6

LEMMA CallPhoneGood ==
    ASSUME NEW b, Good(b), b.run, b.active.valid, ~b.active.exit, b.active.remain # {}, NEW starts \in BOOLEAN
    PROVE  LET z == CallPhone(b, starts)
           IN  Good(z) /\ One(b.queue, z.queue) /\ (z.run \/ Calm(z))
<1> DEFINE a == b.active.node.addr
           c == Set(b, "linkback")
           e == Ask(c, Op("sdp", a))
           z == CallPhone(b, starts)
<1>1. z \in {StepFail(c), Waits(e)}
  BY Zenon DEF CallPhone
<1>2. Same(b, c) /\ c.run
  BY SameSmall DEF Flags, PairingFlags, Set, Good, Shaped, Fields
<1> HIDE DEF c
<1>3. Only(c, StepFail(c))
  BY <1>2, OnlySteps DEF Same
<1>4. a \in Addrs /\ b.active.doing # NoProf
  BY DEF Good, ActiveOK
<1>5. Op("sdp", a) \in Ops /\ Op("sdp", a)[1] # "conn"
  BY <1>4, OpKinds
<1>6. Same(c, e)
  BY <1>2, <1>5, AskSame DEF Same, Alter
<1> HIDE DEF e
<1>7. Same(e, Waits(e))
  BY <1>6, SameSmall DEF Same
<1> HIDE DEF z
<1>8. CASE z = StepFail(c)
  <2>1. Good(z) /\ z.queue = b.queue /\ z.run
    BY <1>2, <1>3, <1>8 DEF Same, Only, Fields
  <2> QED
    BY <2>1 DEF One, z
<1>9. CASE z = Waits(e)
  <2>1. Good(z) /\ z.queue = b.queue /\ z.active = b.active
    BY <1>2, <1>6, <1>7, <1>9 DEF Same
  <2> QED
    BY <1>4, <2>1 DEF One, Calm, z
<1> QED
  BY <1>1, <1>8, <1>9

\* A round goes on, or leaves a phone called whose profile is chosen.
LEMMA RoundGood ==
    ASSUME NEW b, Good(b), b.run, NEW starts \in BOOLEAN
    PROVE  LET z == LinkbackRound(b, starts)
           IN  Good(z) /\ One(b.queue, z.queue) /\ (z.run \/ Calm(z))
<1> DEFINE n == b.active
           a == n.node.addr
           d == Start(b, "delay")
           z == LinkbackRound(b, starts)
<1>1. CASE ~n.valid
  <2>1. z = NextPhone(b)
    BY <1>1 DEF LinkbackRound
  <2>2. Calm(b)
    BY <1>1 DEF Calm
  <2> HIDE DEF z
  <2>3. Good(z) /\ One(b.queue, z.queue) /\ (z.run \/ Calm(z))
    BY <1>1, <2>1, <2>2, NextPhoneWell DEF Well
  <2> QED
    BY <2>3 DEF z
<1>2. n.valid => /\ Only(b, Invalid(b)) /\ Only(b, StepSuc(b))
  BY OnlyMarks, OnlySteps
<1>3. ASSUME NEW x, Only(b, x) PROVE Good(x) /\ One(b.queue, x.queue) /\ x.run
  BY <1>3 DEF Only, One, Fields
<1>4. CASE n.valid /\ (n.exit \/ n.remain = {})
  <2>1. z = Invalid(b)
    BY <1>4 DEF LinkbackRound
  <2> HIDE DEF z
  <2>2. Good(z) /\ One(b.queue, z.queue) /\ z.run
    BY <1>2, <1>3, <1>4, <2>1
  <2> QED
    BY <2>2 DEF z
<1>5. CASE n.valid /\ ~n.exit /\ n.remain # {}
  <2>1. n.doing # NoProf
    BY <1>5 DEF Good, ActiveOK
  <2>2. z \in {Waits(d), StepSuc(b), CallPhone(b, starts), Invalid(b)}
    BY <1>5, Zenon DEF LinkbackRound
  <2>3. LET c == CallPhone(b, starts) IN Good(c) /\ One(b.queue, c.queue) /\ (c.run \/ Calm(c))
    BY <1>5, CallPhoneGood
  <2>4. Same(b, d)
    BY SameSmall DEF Timers
  <2> HIDE DEF d
  <2>5. Same(d, Waits(d))
    BY <2>4, SameSmall DEF Same
  <2>6. Good(Waits(d)) /\ One(b.queue, Waits(d).queue) /\ Calm(Waits(d))
    BY <1>5, <2>1, <2>4, <2>5 DEF Same, One, Calm
  <2> HIDE DEF z
  <2>7. Good(z) /\ One(b.queue, z.queue) /\ (z.run \/ Calm(z))
    BY <1>2, <1>3, <1>5, <2>2, <2>3, <2>6
  <2> QED
    BY <2>7 DEF z
<1> QED
  BY <1>1, <1>4, <1>5

-----------------------------------------------------------------------------
(* The calls that end, and the timers.                                     *)

\* After an operation on the queue, one that is none.
LEMMA WellThen ==
    ASSUME NEW b, NEW c, NEW d, Well(b, c)
    PROVE  /\ Same(c, d) /\ (c.run => d.run) => Well(b, d)
           /\ Only(c, d) /\ d.run => Well(b, d)
           /\ Good(d) /\ d.queue = c.queue /\ d.run => Well(b, d)
           /\ Good(d) /\ d.queue = c.queue /\ ~d.active.valid => Well(b, d)
BY DEF Well, Same, Only, One, Calm, Fields

\* linkback_run follows where a phone is being called.
LEMMA RunWell ==
    ASSUME NEW b, NEW c, Only(b, c), b.cur = "LINKBACK"
    PROVE  Well(b, Run(c)) /\ Same(c, Run(c)) /\ Run(c).run
<1>1. Good(c) /\ c.queue = b.queue /\ c.cur = "LINKBACK"
  BY DEF Only, Fields
<1>2. Same(c, Run(c)) /\ Run(c).run
  BY <1>1, SameSmall
<1> QED
  BY <1>1, <1>2 DEF Well, Same, One

LEMMA CallTimedOutGood ==
    ASSUME NEW b, Good(b), b.cur = "LINKBACK"
    PROVE  LET z == CallTimedOut(b)
           IN  Good(z) /\ z.queue = b.queue /\ (z.run \/ (Calm(b) => Calm(z))) /\ (b.run => z.run)
<1> DEFINE a == b.active.node.addr
           i == Invalid(b)
           s == StopSearch(i, a)
           p == [b EXCEPT !.active.node.plan = {}]
           z == CallTimedOut(b)
<1>1. Same(b, Run(b)) /\ Run(b).run
  BY SameSmall
<1>2. Only(b, i) /\ ~i.active.valid /\ Only(b, p)
  BY OnlyMarks
<1>3. p.active.valid = b.active.valid /\ p.active.doing = b.active.doing /\ p.active.exit = b.active.exit
  BY DEF Good, Shaped, Fields, ActiveOK, Active
<1> HIDE DEF i, p
<1>4. b.active.valid => Same(i, s) /\ s.run = b.run
  BY <1>2, StopSearchSame DEF Only, Good, ActiveOK, Alter, Fields
<1> HIDE DEF s
<1>5. b.active.valid => Same(s, Set(s, "after_stop_sdp")) /\ Set(s, "after_stop_sdp").run = s.run
  BY <1>4, SameSmall DEF Same, Flags, PairingFlags, Set, Good, Shaped, Fields
<1>6. z = IF ~b.active.valid THEN Run(b)
          ELSE IF Linked(b, a) THEN p ELSE Set(s, "after_stop_sdp")
  BY DEF CallTimedOut, s, i, p
<1> HIDE DEF z
<1>7. Good(z) /\ z.queue = b.queue /\ (z.run \/ (Calm(b) => Calm(z))) /\ (b.run => z.run)
  <2>1. CASE ~b.active.valid
    BY <1>1, <1>6, <2>1 DEF Same
  <2>2. CASE b.active.valid /\ Linked(b, a)
    BY <1>2, <1>3, <1>6, <2>2 DEF Only, Calm, Fields
  <2>3. CASE b.active.valid /\ ~Linked(b, a)
    BY <1>2, <1>4, <1>5, <1>6, <2>3 DEF Only, Same, Calm, Fields
  <2> QED
    BY <2>1, <2>2, <2>3
<1> QED
  BY <1>7 DEF z

LEMMA LinkbackTimeoutWell ==
    ASSUME NEW b, Good(b) PROVE Well(b, LinkbackTimeout(b))
<1> DEFINE e == [b EXCEPT !.queue = Q!DeleteGroup(@)]
           c == IF b.active.valid /\ b.active.node.group THEN e ELSE b
           x == IF b.cur = "LINKBACK" THEN c ELSE Invalid(c)
           d == Stop(x, {"linkback", "delay"})
           z == LinkbackTimeout(b)
<1>1. Well(b, e) /\ e.active = b.active
  <2> DEFINE r == Q!DeleteGroup(b.queue)
  <2>1. QueueOK(r) /\ One(b.queue, r) /\ \A y : Inherits(b.queue, r, y)
    BY DeleteGroupGood DEF Good
  <2>2. e = [b EXCEPT !.queue = r]
    OBVIOUS
  <2> HIDE DEF r, e
  <2>3. Shaped(e) /\ e.queue = r /\ \A f \in Fields \ {"queue"} : e[f] = b[f]
    BY <2>2, SetQueue
  <2>4. PICK y \in {"some", "other"} : y # b.active.node.addr
    OBVIOUS
  <2>5. Good(e)
    BY <2>1, <2>3, <2>4, GoodQueue
  <2> QED
    BY <2>1, <2>3, <2>5 DEF Well, Calm, Fields
<1>2. Well(b, b)
  BY DEF Well, One
<1>3. z = IF d.cur = "LINKBACK" THEN CallTimedOut(d) ELSE d
  BY Zenon DEF LinkbackTimeout
<1> HIDE DEF e
<1>4. Well(b, c) /\ c.active = b.active
  BY <1>1, <1>2
<1> HIDE DEF c
<1>5. Only(c, Invalid(c)) /\ ~Invalid(c).active.valid
  BY <1>4, OnlyMarks DEF Well
<1>6. Well(b, x)
  BY <1>4, <1>5, WellThen DEF Only, Fields
<1> HIDE DEF x
<1>7. Same(x, d) /\ d.run = x.run
  BY <1>6, SameSmall DEF Well, Stop, Good, Shaped, Fields
<1>8. Well(b, d)
  BY <1>6, <1>7, WellThen
<1> HIDE DEF d
<1>9. d.cur = "LINKBACK" => LET t == CallTimedOut(d)
                            IN  Good(t) /\ t.queue = d.queue /\ (t.run \/ (Calm(d) => Calm(t))) /\ (d.run => t.run)
  BY <1>8, CallTimedOutGood DEF Well
<1> DEFINE t == CallTimedOut(d)
<1> HIDE DEF t, z
<1>10. d.cur = "LINKBACK" => Good(t) /\ t.queue = d.queue /\ (t.run \/ (Calm(d) => Calm(t))) /\ (d.run => t.run)
  BY <1>9 DEF t
<1>11. z = d \/ (d.cur = "LINKBACK" /\ z = t)
  BY <1>3 DEF t
<1>12. Well(b, z)
  BY <1>8, <1>10, <1>11 DEF Well
<1> QED
  BY <1>12 DEF z

-----------------------------------------------------------------------------
(* What the stack reports of links.                                        *)

LEMMA NodesSame ==
    ASSUME NEW b, Good(b), NEW a \in Addrs
    PROVE  /\ Alter(b, AddNode(b, a), {"link", "num"})
           /\ Alter(b, DelNode(b, a), {"link", "num"})
<1> DEFINE l == [NoLink EXCEPT !.used = TRUE, !.master = "roles" \in Features]
<1>1. LinkOK(l) /\ LinkOK(NoLink)
  <2>1. ASSUME NEW u \in BOOLEAN PROVE LinkOK([NoLink EXCEPT !.used = TRUE, !.master = u])
    BY DEF NoLink, LinkOK, Link
  <2>2. ("roles" \in Features) \in BOOLEAN
    OBVIOUS
  <2>3. LinkOK(NoLink)
    BY DEF NoLink, LinkOK, Link
  <2> QED
    BY <2>1, <2>2, <2>3, Zenon
<1>2. Shaped(b) /\ DOMAIN b = Fields /\ LinksOK(b) /\ b.num \in Nat
  BY DEF Good, Shaped, Simple
<1>3. ASSUME NEW c, NEW k, LinkOK(k), NEW m \in Nat, c = [b EXCEPT !.link[a] = k, !.num = m]
      PROVE  Alter(b, c, {"link", "num"})
  <2>1. /\ Shaped(c) /\ c.link = [b.link EXCEPT ![a] = k] /\ c.num = m
        /\ \A f \in Fields \ {"link", "num"} : c[f] = b[f]
    BY <1>2, <1>3 DEF Shaped, Fields
  <2>2. LinksOK(c)
    BY <1>2, <1>3, <2>1 DEF LinksOK, LinkOK
  <2>3. Simple(c)
    BY <2>1 DEF Good, Simple, Fields
  <2> QED
    BY <2>1, <2>2, <2>3, SameQueue DEF Alter, Fields
<1>4. Alter(b, b, {"link", "num"})
  BY DEF Alter, Same
<1>5. Alter(b, AddNode(b, a), {"link", "num"})
  <2>1. AddNode(b, a) = b \/ AddNode(b, a) = [b EXCEPT !.link[a] = l, !.num = b.num + 1]
    BY DEF AddNode
  <2>2. b.num + 1 \in Nat
    BY <1>2
  <2> HIDE DEF l
  <2> QED
    BY <1>1, <1>3, <1>4, <2>1, <2>2
<1>6. Alter(b, DelNode(b, a), {"link", "num"})
  <2> DEFINE m == IF b.num > 0 THEN b.num - 1 ELSE 0
  <2>1. DelNode(b, a) = b \/ DelNode(b, a) = [b EXCEPT !.link[a] = NoLink, !.num = m]
    BY DEF DelNode
  <2>2. m \in Nat
    BY <1>2
  <2> HIDE DEF m
  <2> QED
    BY <1>1, <1>3, <1>4, <2>1, <2>2
<1> QED
  BY <1>5, <1>6

LEMMA LinkUpWell ==
    ASSUME NEW b, Good(b), NEW a \in Addrs, NEW victim \in Addrs
    PROVE  Well(b, LinkUp(b, a, victim))
<1> DEFINE c == AddNode(b, a)
           d == IF c.num > NumMax THEN DedicatedDisconnect(c, victim, Profs) ELSE c
           e == Ask(d, Op("disc", a))
<1>1. Same(b, c) /\ c.run = b.run
  BY NodesSame DEF Alter, Fields
<1> HIDE DEF c
<1>2. LET x == DedicatedDisconnect(c, victim, Profs)
      IN  Good(x) /\ One(c.queue, x.queue) /\ (Calm(c) => Calm(x)) /\ x.run = c.run
  BY <1>1, DedicatedDisconnectWell DEF Same
<1>3. Good(d) /\ One(c.queue, d.queue) /\ (Calm(c) => Calm(d)) /\ d.run = c.run
  BY <1>1, <1>2 DEF Same, One
<1>4. LinkUp(b, a, victim) = IF d.radio = "IDLE" THEN e ELSE d
  BY Zenon DEF LinkUp, c
<1> HIDE DEF d
<1>5. Same(d, e) /\ e.run = d.run
  <2>1. Alter(d, e, {"op"})
    BY <1>3, OpKinds, AskSame
  <2> HIDE DEF e
  <2> QED
    BY <2>1 DEF Alter, Fields
<1>6. Well(b, d)
  BY <1>1, <1>3 DEF Well, Same, Calm
<1> HIDE DEF e
<1>7. Well(b, e)
  BY <1>5, <1>6, WellThen
<1> QED
  BY <1>4, <1>6, <1>7

LEMMA LinkFailWell ==
    ASSUME NEW b, Good(b), NEW a \in Addrs, NEW cause, NEW used \in 0 .. MaxTime
    PROVE  Well(b, LinkFail(b, a, cause, used))
<1> DEFINE d == Stop(b, {"linkback"})
           e == PutBack(d, used, TRUE)
           z == LinkFail(b, a, cause, used)
<1>1. \/ z = b \/ z = Start(b, "delay")
      \/ b.cur = "LINKBACK" /\ (z = Run(CallAnew(b)) \/ (b.active.valid /\ z = Run(e)))
  BY DEF LinkFail, IsCurrent
<1>2. Same(b, Start(b, "delay"))
  BY SameSmall DEF Timers
<1>3. Only(b, CallAnew(b))
  BY OnlySteps
<1>4. Same(b, d)
  BY SameSmall
<1> HIDE DEF d
<1>5. b.active.valid => Good(e) /\ One(b.queue, e.queue) /\ e.cur = b.cur
  <2>1. Good(d) /\ d.active = b.active /\ d.queue = b.queue
    BY <1>4 DEF Same
  <2>2. b.active.valid => \A u \in BOOLEAN : Good(PutBack(d, used, u)) /\ One(d.queue, PutBack(d, used, u).queue)
    BY <2>1, PutBackGood
  <2>3. b.active.valid => Good(e) /\ One(d.queue, e.queue)
    BY <2>2
  <2>4. e.cur = d.cur
    BY <2>1 DEF PutBack, Invalid, Good, Shaped, Fields
  <2>5. d.cur = b.cur
    BY DEF d, Stop, Good, Shaped, Fields
  <2> QED
    BY <2>1, <2>3, <2>4, <2>5
<1> HIDE DEF e, z
<1>6. b.active.valid /\ b.cur = "LINKBACK" => Good(Run(e)) /\ Run(e).queue = e.queue /\ Run(e).run
  BY <1>5, SameSmall DEF Same
<1>7. Well(b, z)
  <2>1. CASE z = b
    BY <2>1 DEF Well, One
  <2>2. CASE z = Start(b, "delay")
    BY <1>2, <2>2, WellSame
  <2>3. CASE b.cur = "LINKBACK" /\ z = Run(CallAnew(b))
    BY <1>3, <2>3, RunWell
  <2>4. CASE b.cur = "LINKBACK" /\ b.active.valid /\ z = Run(e)
    BY <1>5, <1>6, <2>4 DEF Well
  <2> QED
    BY <1>1, <2>1, <2>2, <2>3, <2>4
<1> QED
  BY <1>7 DEF z

LEMMA DelayOverWell ==
    ASSUME NEW b, Good(b) PROVE Well(b, DelayOver(b))
<1> DEFINE c == Stop(b, {"delay"})
<1>1. Same(b, c)
  BY SameSmall
<1>2. DelayOver(b) = IF c.cur = "LINKBACK" THEN Run(CallAnew(c)) ELSE c
  BY DEF DelayOver
<1> HIDE DEF c
<1>3. Only(c, CallAnew(c))
  BY <1>1, OnlySteps DEF Same
<1>4. c.cur = "LINKBACK" => Well(c, Run(CallAnew(c)))
  BY <1>3, RunWell
<1> QED
  BY <1>1, <1>2, <1>4, WellSame

LEMMA PlaceTakenWell ==
    ASSUME NEW b, Good(b), NEW a PROVE Well(b, PlaceTaken(b, a))
<1>1. PlaceTaken(b, a) \in {b, LinkbackTimeout(b)}
  BY DEF PlaceTaken
<1>2. Well(b, b)
  BY DEF Well, One
<1> QED
  BY <1>1, <1>2, LinkbackTimeoutWell

LEMMA AuthWell ==
    ASSUME NEW b, Good(b), NEW a \in Addrs PROVE Well(b, AuthSuc(b, a)) /\ Well(b, AuthFail(b, a))
<1> DEFINE one == On("enter_pairing_while_only_one_device_connected") /\ b.num = 1
           l == [b.link[a] EXCEPT !.auth = TRUE]
           c == [b EXCEPT !.flag = (@ \ {"one_link"}) \cup (IF one THEN {"one_link"} ELSE {}),
                          !.link[a].auth = TRUE]
           e == Ask(b, Op("disc", a))
           f == [e EXCEPT !.bond[a] = {}]
<1>1. Same(b, c)
  <2>1. /\ Shaped(c) /\ c.link = [b.link EXCEPT ![a] = l] /\ c.flag \subseteq b.flag \cup {"one_link"}
        /\ \A x \in Fields \ {"flag", "link"} : c[x] = b[x]
    BY DEF Good, Shaped, Fields
  <2>2. LinkOK(l)
    BY DEF Good, LinksOK, LinkOK, Link
  <2> HIDE DEF c, l
  <2>3. LinksOK(c)
    BY <2>1, <2>2 DEF Good, LinksOK, LinkOK
  <2>4. "one_link" \in Flags \ PairingFlags
    BY DEF Flags, PairingFlags
  <2>5. Simple(c)
    BY <2>1, <2>4 DEF Good, Simple, Fields
  <2>6. c.flag \cap PairingFlags \subseteq b.flag
    BY <2>1, <2>4
  <2> QED
    BY <2>1, <2>3, <2>5, <2>6, SameQueue DEF Fields
<1>2. AuthSuc(b, a) = CASE c.cur = "LINKBACK" -> PlaceTaken(c, a)
                        [] c.cur \in Stable   -> StableAgain(c, "SRC_AUTH_SUC")
                        [] OTHER              -> c
  BY Zenon DEF AuthSuc
<1> HIDE DEF c
<1>3. Well(c, PlaceTaken(c, a)) /\ Same(c, c)
  BY <1>1, PlaceTakenWell DEF Same
<1>4. c.cur \in Stable => Same(c, StableAgain(c, "SRC_AUTH_SUC"))
  BY <1>1, SameSched DEF Same, Good, Fit, Stable
<1>5. Well(b, AuthSuc(b, a))
  <2>1. Well(b, PlaceTaken(c, a)) /\ Well(b, c) /\ (c.cur \in Stable => Well(b, StableAgain(c, "SRC_AUTH_SUC")))
    BY <1>1, <1>3, <1>4, WellSame
  <2> QED
    BY <1>2, <2>1 DEF Stable
<1>6. AuthFail(b, a) = f
  BY DEF AuthFail
<1>7. Same(b, e)
  BY OpKinds, AskSame DEF Alter
<1> HIDE DEF e
<1>8. Same(e, f)
  <2>1. /\ Shaped(f) /\ f.bond = [e.bond EXCEPT ![a] = {}]
        /\ \A x \in Fields \ {"bond"} : f[x] = e[x]
    BY <1>7 DEF Same, Good, Shaped, Fields
  <2> HIDE DEF f
  <2>2. Simple(f)
    BY <1>7, <2>1 DEF Same, Good, Simple, Fields
  <2> QED
    BY <1>7, <2>1, <2>2, SameQueue DEF Same, Fields
<1>9. Well(b, f)
  BY <1>7, <1>8, WellSame
<1> QED
  BY <1>5, <1>6, <1>9

LEMMA CalledGoneWell ==
    ASSUME NEW b, Good(b), NEW a, b.cur = "LINKBACK" PROVE Well(b, CalledGone(b, a))
<1>1. Only(b, [b EXCEPT !.active.exit = TRUE])
  BY OnlyMarks
<1>2. Well(b, b)
  BY DEF Well, One
<1> QED
  BY <1>1, <1>2, RunWell DEF CalledGone

LEMMA DownSame ==
    ASSUME NEW b, Good(b), NEW a PROVE Same(b, Down(b, a)) /\ Down(b, a).run = b.run
<1> DEFINE s == {o \in b.op : o[2] # a \/ o[1] = "stop"}
<1>1. s \subseteq b.op \cup Ops /\ \A x \in Addrs : <<"conn", x, NoProf>> \notin s \ b.op
  OBVIOUS
<1>2. Down(b, a) = [b EXCEPT !.op = s]
  BY Zenon DEF Down
<1> HIDE DEF s
<1>3. Alter(b, Down(b, a), {"op"})
  BY <1>1, <1>2, AlterOps
<1> QED
  BY <1>3 DEF Alter, Fields

\* A phone that is lost waits, the one being called once it is given up.
LEMMA LostWell ==
    ASSUME NEW b, Good(b), NEW a \in Addrs, NEW plan \in SUBSET (Profs \cap Listed),
           NEW c, c = [b EXCEPT !.queue = Q!InsertNormal(@, Request(a, plan, LossTime))]
    PROVE  /\ c.cur = b.cur
           /\ b.cur # "LINKBACK" => Well(b, c)
           /\ b.cur = "LINKBACK" => Well(b, CalledGone(c, a))
<1> DEFINE n == Request(a, plan, LossTime)
           r == Q!InsertNormal(b.queue, n)
           e == [b EXCEPT !.active.exit = TRUE]
           f == [e EXCEPT !.queue = r]
<1>1. LossTime \in 1 .. MaxTime
  BY BtPolicyAssumption DEF BtPolicyAssumption
<1>2. n \in QP!Requests /\ n.addr = a
  BY <1>1, RequestGood
<1>3. c = [b EXCEPT !.queue = r]
  OBVIOUS
<1> HIDE DEF n
<1>4. QueueOK(r) /\ Inherits(b.queue, r, a) /\ One(b.queue, r)
  BY <1>2, InsertGood DEF Good
<1> HIDE DEF r
<1>5. Shaped(c) /\ c.queue = r /\ \A x \in Fields \ {"queue"} : c[x] = b[x]
  <2>1. LET g == [b EXCEPT !.queue = r]
        IN  Shaped(g) /\ g.queue = r /\ \A x \in Fields \ {"queue"} : g[x] = b[x]
    BY SetQueue
  <2> QED
    BY <1>3, <2>1, Zenon
<1>6. c.cur = b.cur /\ c.active = b.active /\ c.run = b.run
  BY <1>5 DEF Fields
<1>7. "pairing" \in Features \/ ~IsCurrent(b, a) => Well(b, c)
  <2>1. "pairing" \in Features \/ ~IsCurrent(b, a) => Good(c)
    BY <1>4, <1>5, GoodQueue DEF IsCurrent
  <2> QED
    BY <1>4, <1>5, <1>6, <2>1 DEF Well, Calm
<1>8. b.cur # "LINKBACK" => Well(b, c)
  <2>1. b.cur # "LINKBACK" => "pairing" \in Features \/ ~IsCurrent(b, a)
    BY DEF Good, Fit, Released, IsCurrent
  <2> QED
    BY <1>7, <2>1
<1>9. ASSUME b.cur = "LINKBACK" PROVE Well(b, CalledGone(c, a))
  <2>1. Only(b, e) /\ e.active.exit /\ e.queue = b.queue /\ e.cur = b.cur
    <3>1. Only(b, e)
      BY OnlyMarks
    <3>2. e.active.exit
      BY DEF Good, Shaped, Fields, ActiveOK, Active
    <3> HIDE DEF e
    <3> QED
      BY <3>1, <3>2 DEF Only, Fields
  <2>2. [c EXCEPT !.active.exit = TRUE] = f
    BY <1>3 DEF Good, Shaped, Fields
  <2>3. f = [e EXCEPT !.queue = r]
    OBVIOUS
  <2> HIDE DEF e, f
  <2>4. Shaped(f) /\ f.queue = r /\ \A x \in Fields \ {"queue"} : f[x] = e[x]
    BY <2>1, <2>3, SetQueue DEF Only
  <2>5. Good(f)
    BY <1>4, <2>1, <2>4, GoodQueue DEF Only
  <2>6. f.cur = "LINKBACK"
    BY <1>9, <2>1, <2>4 DEF Fields
  <2>7. Good(Run(f)) /\ Run(f).queue = r /\ Run(f).run
    BY <2>4, <2>5, <2>6, SameSmall DEF Same
  <2>8. CASE IsCurrent(c, a)
    <3>1. CalledGone(c, a) = Run(f)
      BY <2>2, <2>8 DEF CalledGone
    <3> QED
      BY <1>4, <2>7, <3>1 DEF Well
  <2>9. CASE ~IsCurrent(c, a)
    <3>1. CalledGone(c, a) = c
      BY <2>9 DEF CalledGone
    <3>2. ~IsCurrent(b, a)
      BY <1>6, <2>9 DEF IsCurrent
    <3> QED
      BY <1>7, <3>1, <3>2
  <2> QED
    BY <2>8, <2>9
<1> QED
  BY <1>6, <1>8, <1>9

LEMMA DisconnLostWell ==
    ASSUME NEW b, Good(b), ~b.run, NEW a \in Addrs PROVE Well(b, DisconnLost(b, a))
<1> DEFINE c == DelNode(b, a)
           plan == ProfsOfBond(b.bond[a])
           e == [c EXCEPT !.queue = Q!InsertNormal(@, Request(a, plan, LossTime))]
           d == IF CalledBack(b, a) THEN e ELSE c
<1>1. DisconnLost(b, a) = CASE d.cur = "LINKBACK"  -> CalledGone(d, a)
                            [] d.cur \in Stable    -> EnterState(d, "LINKBACK", "CONNECTABLE", FALSE)
                            [] OTHER               -> d
  BY Zenon DEF DisconnLost
<1>2. Same(b, c) /\ c.run = b.run
  BY NodesSame DEF Alter, Fields
<1>3. plan \in SUBSET (Profs \cap Listed)
  BY BondProfs DEF Good, Simple
<1> HIDE DEF c, plan
<1>4. /\ e.cur = c.cur
      /\ c.cur # "LINKBACK" => Well(c, e)
      /\ c.cur = "LINKBACK" => Well(c, CalledGone(e, a))
  BY <1>2, <1>3, LostWell DEF Same
<1> HIDE DEF e
<1>5. Well(c, c) /\ (c.cur = "LINKBACK" => Well(c, CalledGone(c, a)))
  BY <1>2, CalledGoneWell DEF Well, Same, One
<1>6. /\ d.cur = c.cur
      /\ c.cur # "LINKBACK" => Well(c, d)
      /\ c.cur = "LINKBACK" => Well(c, CalledGone(d, a))
  BY <1>4, <1>5
<1> HIDE DEF d
<1>7. ASSUME c.cur \in Stable PROVE Well(c, EnterState(d, "LINKBACK", "CONNECTABLE", FALSE))
  <2>1. Well(c, d)
    BY <1>6, <1>7 DEF Stable
  <2>2. \A u : LET x == EnterState(d, "LINKBACK", "CONNECTABLE", u) IN Same(d, x)
    BY <2>1, SameEnter DEF Well, States, Modes
  <2> DEFINE x == EnterState(d, "LINKBACK", "CONNECTABLE", FALSE)
  <2>3. Same(d, x)
    BY <2>2, Zenon
  <2>4. ~c.active.valid \/ "pairing" \in Features
    BY <1>2, <1>7 DEF Same, Good, Fit, Released, Stable
  <2>5. d.run = c.run
    BY <1>4 DEF d, e, c, DelNode
  <2> HIDE DEF x
  <2>6. Well(c, x)
    BY <1>2, <2>1, <2>3, <2>5 DEF Well, Same, Calm
  <2> QED
    BY <2>6 DEF x
<1>8. Well(c, DisconnLost(b, a))
  BY <1>1, <1>6, <1>7 DEF Stable
<1> QED
  BY <1>2, <1>8, WellSame

LEMMA DisconnNormalWell ==
    ASSUME NEW b, Good(b), NEW a \in Addrs PROVE Well(b, DisconnNormal(b, a))
<1> DEFINE c == DelNode(b, a)
           d == Clear(c, {"disconnect_for_pairing"})
           auth == b.link[a].auth
           z == DisconnNormal(b, a)
<1>1. z = CASE Is(c, "disconnect_for_pairing") -> StableDedicated(d)
            [] ~Is(c, "disconnect_for_pairing") /\ c.cur = "LINKBACK" -> CalledGone(c, a)
            [] ~Is(c, "disconnect_for_pairing") /\ c.cur \in Stable   -> StableGone(c, auth)
            [] OTHER -> c
  BY Zenon DEF DisconnNormal
<1>2. Same(b, c)
  BY NodesSame DEF Alter
<1> HIDE DEF c, auth
<1>3. Same(c, d)
  BY <1>2, SameSmall DEF Same
<1> HIDE DEF d
<1>4. Is(c, "disconnect_for_pairing") => "pairing" \in Features
  BY <1>2 DEF Same, Good, Fit, Is, PairingFlags
<1>5. Is(c, "disconnect_for_pairing") => \A x : Same(d, StableDedicated(d))
  BY <1>3, <1>4, SameSched DEF Same, Released
<1>6. c.cur = "LINKBACK" => Well(c, CalledGone(c, a))
  BY <1>2, CalledGoneWell DEF Same
<1>7. c.cur \in Stable => Same(c, StableGone(c, auth))
  <2>1. c.cur \in Stable => Same(c, StableAgain(c, "SRC_DISCONN_NORMAL"))
    BY <1>2, SameSched DEF Same, Good, Fit, Stable
  <2>2. StableGone(c, auth) \in {c, StableAgain(c, "SRC_DISCONN_NORMAL")}
    BY DEF StableGone
  <2> QED
    BY <1>2, <2>1, <2>2 DEF Same
<1>8. Well(c, c)
  BY <1>2 DEF Well, Same, One
<1> HIDE DEF z
<1>9. Well(c, z)
  <2>1. Is(c, "disconnect_for_pairing") => Well(c, StableDedicated(d))
    BY <1>3, <1>5, WellSame
  <2>2. c.cur \in Stable => Well(c, StableGone(c, auth))
    BY <1>7, WellSame
  <2> QED
    BY <1>1, <1>6, <1>8, <2>1, <2>2 DEF Stable
<1> QED
  BY <1>2, <1>9, WellSame DEF z

-----------------------------------------------------------------------------
(* What the stack reports of searches and profiles.                        *)

\* What is noted of the phone being called neither ends its step nor gives it up.
LEMMA NotesWell ==
    ASSUME NEW b, Good(b), NEW u \in BOOLEAN
    PROVE  /\ b.active.valid => Well(b, [b EXCEPT !.active.sdp_ok = TRUE])
           /\ LET c == [b EXCEPT !.active.pending = u]
              IN  Well(b, c) /\ c.cur = b.cur /\ c.link = b.link /\ (Calm(b) => Calm(c))
<1>1. ASSUME NEW c, Only(b, c), c.active.valid = b.active.valid, c.active.doing = b.active.doing,
             c.active.exit = b.active.exit
      PROVE  Well(b, c) /\ c.cur = b.cur /\ c.link = b.link /\ (Calm(b) => Calm(c))
  BY <1>1 DEF Only, Well, One, Calm, Fields
<1>2. b.active.valid => Only(b, [b EXCEPT !.active.sdp_ok = TRUE])
  BY OnlyMarks
<1>3. Only(b, [b EXCEPT !.active.pending = u])
  BY OnlyMarks
<1>4. ASSUME NEW c, c = [b EXCEPT !.active.sdp_ok = TRUE] \/ c = [b EXCEPT !.active.pending = u]
      PROVE  /\ c.active.valid = b.active.valid /\ c.active.doing = b.active.doing
             /\ c.active.exit = b.active.exit
  BY <1>4 DEF Good, Shaped, Fields, ActiveOK, Active
<1> QED
  BY <1>1, <1>2, <1>3, <1>4

LEMMA ConnectProfWell ==
    ASSUME NEW b, Good(b), Calm(b), b.cur = "LINKBACK", b.active.sdp_ok, NEW starts \in BOOLEAN
    PROVE  Well(b, ConnectProf(b, starts))
<1> DEFINE p == b.active.doing
           c == Ask(b, <<"conn", b.active.node.addr, p>>)
<1>1. b.active.valid /\ b.active.node.addr \in Addrs /\ p \in Profs
  BY DEF Good, ActiveOK, Active, Calm
<1>2. b.active.doing # NoProf
  BY <1>1 DEF Calm
<1>3. Alter(b, c, {"op"})
  <2>1. <<"conn", b.active.node.addr, p>> \in Ops /\ <<"conn", b.active.node.addr, p>>[3] # NoProf
    BY <1>1, <1>2, OpKinds
  <2> QED
    BY <2>1, AskSame
<1>4. ConnectProf(b, starts) \in {Run(StepFail(b)), Run(StepSuc(c)), c}
  BY DEF ConnectProf
<1> HIDE DEF c
<1>5. Good(c) /\ c.cur = "LINKBACK"
  BY <1>3 DEF Alter, Same, Fields
<1>6. Only(b, StepFail(b)) /\ Only(c, StepSuc(c))
  BY <1>5, OnlySteps
<1>7. Well(b, Run(StepFail(b))) /\ Well(c, Run(StepSuc(c)))
  BY <1>5, <1>6, RunWell
<1>8. Same(b, c)
  BY <1>3 DEF Alter
<1> QED
  BY <1>4, <1>7, <1>8, WellSame

LEMMA SdpCmplWell ==
    ASSUME NEW b, Good(b), Calm(b), NEW a, NEW cause, NEW starts \in BOOLEAN, NEW known \in BOOLEAN
    PROVE  Well(b, SdpCmpl(b, a, cause, starts, known))
<1> DEFINE c == IF cause = "ok" THEN [b EXCEPT !.active.pending = FALSE] ELSE b
           d == [b EXCEPT !.active.pending = TRUE]
           z == SdpCmpl(b, a, cause, starts, known)
<1>1. Well(b, b)
  BY DEF Well, One
<1>2. Well(b, c) /\ c.cur = b.cur /\ Calm(c)
  <2>1. \A u \in BOOLEAN : LET e == [b EXCEPT !.active.pending = u]
                           IN  Well(b, e) /\ e.cur = b.cur /\ Calm(e)
    BY NotesWell
  <2>2. LET e == [b EXCEPT !.active.pending = FALSE] IN Well(b, e) /\ e.cur = b.cur /\ Calm(e)
    BY <2>1
  <2> QED
    BY <1>1, <2>2
<1>3. Well(b, d)
  <2>1. \A u \in BOOLEAN : Well(b, [b EXCEPT !.active.pending = u])
    BY NotesWell
  <2> QED
    BY <2>1
<1>4. \/ z \in {b, c, d}
      \/ b.cur = "LINKBACK" /\ z \in {Run(StepFail(c)), Run(StepSuc(c))}
      \/ b.cur = "LINKBACK" /\ c.active.sdp_ok /\ z = ConnectProf(c, starts)
  <2>1. z = CASE b.cur # "LINKBACK" \/ ~known -> b
              [] b.cur = "LINKBACK" /\ known /\ cause = "ok" /\ Linked(b, a) /\ b.link[a].master -> d
              [] b.cur = "LINKBACK" /\ known /\ (~Linked(b, a) \/ cause = "hci") -> c
              [] OTHER -> IF ~c.active.sdp_ok THEN Run(StepFail(c))
                          ELSE IF c.active.doing \in {"DID"} \cup c.link[a].profs THEN Run(StepSuc(c))
                          ELSE ConnectProf(c, starts)
    BY Zenon DEF SdpCmpl
  <2> HIDE DEF c, d, z
  <2> QED
    BY <2>1
<1> HIDE DEF c, d, z
<1>5. Good(c)
  BY <1>2 DEF Well
<1>6. Only(c, StepFail(c)) /\ Only(c, StepSuc(c))
  BY <1>5, OnlySteps
<1>7. b.cur = "LINKBACK" => /\ Good(Run(StepFail(c))) /\ Run(StepFail(c)).queue = c.queue /\ Run(StepFail(c)).run
                            /\ Good(Run(StepSuc(c))) /\ Run(StepSuc(c)).queue = c.queue /\ Run(StepSuc(c)).run
  BY <1>2, <1>6, RunWell DEF Same, Only, Fields
<1>8. b.cur = "LINKBACK" => Well(b, Run(StepFail(c))) /\ Well(b, Run(StepSuc(c)))
  BY <1>2, <1>7, WellThen
<1>9. ASSUME b.cur = "LINKBACK", c.active.sdp_ok PROVE Well(b, ConnectProf(c, starts))
  <2>1. Well(c, ConnectProf(c, starts))
    BY <1>2, <1>5, <1>9, ConnectProfWell
  <2>2. c.queue = b.queue
    BY DEF c, Good, Shaped, Fields
  <2> QED
    BY <1>2, <2>1, <2>2 DEF Well
<1> QED
  BY <1>1, <1>2, <1>3, <1>4, <1>8, <1>9 DEF z

LEMMA SdpWell ==
    ASSUME NEW b, Good(b), NEW a PROVE Well(b, SdpAttr(b, a)) /\ Well(b, SdpStop(b))
<1>1. Well(b, b)
  BY DEF Well, One
<1>2. b.active.valid => Well(b, [b EXCEPT !.active.sdp_ok = TRUE])
  <2>1. \A u \in BOOLEAN : b.active.valid => Well(b, [b EXCEPT !.active.sdp_ok = TRUE])
    BY NotesWell
  <2> QED
    BY <2>1
<1>3. Well(b, SdpAttr(b, a))
  BY <1>1, <1>2 DEF SdpAttr, IsCurrent
<1>4. Well(b, SdpStop(b))
  <2> DEFINE c == Clear(b, {"after_stop_sdp"})
  <2>1. Same(b, c)
    BY SameSmall
  <2>2. c.cur = b.cur
    BY DEF Clear, Good, Shaped, Fields
  <2>3. SdpStop(b) = b \/ (b.cur = "LINKBACK" /\ SdpStop(b) = Run(c))
    BY DEF SdpStop
  <2> HIDE DEF c
  <2>4. b.cur = "LINKBACK" => Same(c, Run(c))
    BY <2>1, <2>2, SameSmall DEF Same
  <2> QED
    BY <1>1, <2>1, <2>3, <2>4, WellSame
<1> QED
  BY <1>3, <1>4

LEMMA BondSame ==
    ASSUME NEW b, Good(b), NEW a \in Addrs, NEW p \in Profs
    PROVE  Same(b, Bond(b, a, p)) /\ Bond(b, a, p).run = b.run /\ Bond(b, a, p).cur = b.cur
<1> DEFINE l == [b.link[a] EXCEPT !.profs = @ \cup {p}]
           s == CASE p = "HFP" -> (b.bond[a] \ {"HSP"}) \cup {"HFP"}
                  [] p = "HSP" -> (b.bond[a] \ {"HFP"}) \cup {"HSP"}
                  [] p \in {"A2DP", "SPP", "IAP"} -> b.bond[a] \cup {p}
                  [] OTHER -> b.bond[a]
           c == [b EXCEPT !.link[a] = l, !.bond[a] = s]
<1>1. DOMAIN b = Fields /\ LinksOK(b) /\ b.bond \in [Addrs -> SUBSET Profs]
  BY DEF Good, Shaped, Simple
<1>2. LinkOK(l) /\ s \in SUBSET Profs
  <2>1. LinkOK(l)
    BY <1>1 DEF LinksOK, LinkOK, Link
  <2>2. b.bond[a] \in SUBSET Profs
    BY <1>1
  <2>3. s \in SUBSET Profs
    BY <2>2
  <2> QED
    BY <2>1, <2>3
<1>3. Bond(b, a, p) = c
  BY DEF Bond
<1> HIDE DEF l, s
<1>4. /\ Shaped(c) /\ c.link = [b.link EXCEPT ![a] = l] /\ c.bond = [b.bond EXCEPT ![a] = s]
      /\ \A f \in Fields \ {"link", "bond"} : c[f] = b[f]
  BY <1>1 DEF Shaped, Fields
<1> HIDE DEF c
<1>5. LinksOK(c)
  BY <1>1, <1>2, <1>4 DEF LinksOK, LinkOK
<1>6. Simple(c)
  BY <1>1, <1>2, <1>4 DEF Good, Simple, Fields
<1>7. Same(b, c) /\ c.run = b.run /\ c.cur = b.cur
  BY <1>4, <1>5, <1>6, SameQueue DEF Fields
<1> QED
  BY <1>3, <1>7

LEMMA StepDoneGood ==
    ASSUME NEW b, Good(b), b.cur = "LINKBACK", NEW a, NEW p
    PROVE  LET z == StepDone(b, a, p) IN z = b \/ (Good(z) /\ z.queue = b.queue /\ z.run)
<1>1. Only(b, StepSuc(b))
  BY OnlySteps
<1>2. Good(StepSuc(b)) /\ StepSuc(b).cur = "LINKBACK" /\ StepSuc(b).queue = b.queue
  BY <1>1 DEF Only, Fields
<1>3. Same(StepSuc(b), Run(StepSuc(b))) /\ Run(StepSuc(b)).run
  BY <1>2, SameSmall
<1> QED
  BY <1>2, <1>3 DEF StepDone, Same

LEMMA ProfConnSucWell ==
    ASSUME NEW b, Good(b), Calm(b), NEW a \in Addrs, NEW p \in Profs
    PROVE  Well(b, ProfConnSuc(b, a, p))
<1> DEFINE c == IF p = "A2DP" THEN DedicatedConnect(b, a, {"DID"}) ELSE b
           d == Bond(c, a, p)
           x == CASE p = "A2DP" -> d.link[a].later \/ "AVRCP" \notin d.link[a].profs
                  [] p = "AVRCP" -> FALSE
                  [] OTHER -> d.link[a].later
           e == [d EXCEPT !.link[a].later = x]
           z == ProfConnSuc(b, a, p)
<1>1. Well(b, c)
  <2>1. p = "A2DP" => {"DID"} \in SUBSET (Profs \cap Listed)
    BY BtPolicyAssumption, ListedProfs DEF BtPolicyAssumption
  <2>2. Well(b, b)
    BY DEF Well, One
  <2> QED
    BY <2>1, <2>2, DedicatedConnectWell
<1>2. z = IF e.cur = "LINKBACK" THEN StepDone(e, a, p) ELSE e
  BY DEF ProfConnSuc
<1> HIDE DEF c
<1>3. Same(c, d) /\ d.run = c.run
  BY <1>1, BondSame DEF Well
<1> HIDE DEF d
<1>4. x \in BOOLEAN /\ (x => "A2DP" \in Profs)
  BY <1>3 DEF Same, Good, LinksOK, LinkOK, Link
<1> HIDE DEF x
<1>5. Same(d, e) /\ e.run = d.run
  <2>1. Alter(d, e, {"link"})
    BY <1>3, <1>4, AlterLinkField DEF Same
  <2> HIDE DEF e
  <2> QED
    BY <2>1 DEF Alter, Fields
<1> HIDE DEF e
<1>6. Well(b, e)
  BY <1>1, <1>3, <1>5, WellThen
<1>7. e.cur = "LINKBACK" => LET s == StepDone(e, a, p)
                            IN  s = e \/ (Good(s) /\ s.queue = e.queue /\ s.run)
  BY <1>6, StepDoneGood DEF Well
<1>8. e.cur = "LINKBACK" => Well(b, StepDone(e, a, p))
  BY <1>6, <1>7, WellThen
<1> HIDE DEF z
<1> QED
  BY <1>2, <1>6, <1>8 DEF z

LEMMA ProfConnFailWell ==
    ASSUME NEW b, Good(b), NEW a \in Addrs, NEW p, NEW cause
    PROVE  Well(b, ProfConnFail(b, a, p, cause))
<1>1. \/ ProfConnFail(b, a, p, cause) \in {b, Ask(b, Op("disc", a)), Start(b, "delay")}
      \/ b.cur = "LINKBACK" /\ ProfConnFail(b, a, p, cause) = Run(StepFail(b))
  BY DEF ProfConnFail
<1>2. Same(b, Ask(b, Op("disc", a)))
  BY OpKinds, AskSame DEF Alter
<1>3. Same(b, Start(b, "delay"))
  BY SameSmall DEF Timers
<1>4. b.cur = "LINKBACK" => Well(b, Run(StepFail(b)))
  BY OnlySteps, RunWell
<1>5. Well(b, b)
  BY DEF Well, One
<1> QED
  BY <1>1, <1>2, <1>3, <1>4, <1>5, WellSame

LEMMA ProfDisconnSame ==
    ASSUME NEW b, Good(b), NEW a \in Addrs, NEW p PROVE Same(b, ProfDisconn(b, a, p))
<1> DEFINE c == [b EXCEPT !.link[a].profs = @ \ {p}]
           e == Ask(c, <<"pdisc", a, "AVRCP">>)
           d == IF p = "A2DP" /\ "AVRCP" \in c.link[a].profs THEN e ELSE c
           f == [d EXCEPT !.link[a].drop = FALSE]
           g == Ask(f, Op("disc", a))
           z == ProfDisconn(b, a, p)
<1>1. z = IF d.link[a].profs = {} /\ d.link[a].drop THEN g ELSE d
  BY Zenon DEF ProfDisconn
<1>2. Same(b, c)
  <2> DEFINE profs == b.link[a].profs \ {p}
  <2>1. profs \in SUBSET Profs
    BY DEF Good, LinksOK, LinkOK, Link
  <2>2. c = [b EXCEPT !.link[a].profs = profs]
    OBVIOUS
  <2> HIDE DEF profs
  <2>3. \A x \in BOOLEAN : Alter(b, [b EXCEPT !.link[a].profs = profs], {"link"})
    BY <2>1, AlterLinkField
  <2>4. Alter(b, [b EXCEPT !.link[a].profs = profs], {"link"})
    BY <2>3
  <2> QED
    BY <2>2, <2>4 DEF Alter
<1> HIDE DEF c
<1>3. "AVRCP" \in c.link[a].profs => Same(c, e)
  <2>1. "AVRCP" \in c.link[a].profs => "AVRCP" \in Profs
    BY <1>2 DEF Same, Good, LinksOK, LinkOK, Link
  <2>2. "AVRCP" \in Profs => <<"pdisc", a, "AVRCP">> \in Ops /\ <<"pdisc", a, "AVRCP">>[1] # "conn"
    BY OpKinds
  <2> QED
    BY <1>2, <2>1, <2>2, AskSame DEF Same, Alter
<1> HIDE DEF e
<1>4. Same(b, d)
  BY <1>2, <1>3 DEF Same
<1> HIDE DEF d
<1>5. Same(b, f)
  <2>1. \A x \in BOOLEAN : Alter(d, [d EXCEPT !.link[a].drop = x], {"link"})
    BY <1>4, AlterLinkField DEF Same
  <2>2. Alter(d, f, {"link"})
    BY <2>1
  <2> QED
    BY <1>4, <2>2 DEF Alter, Same
<1> HIDE DEF f
<1>6. Same(f, g)
  BY <1>5, OpKinds, AskSame DEF Alter, Same
<1> HIDE DEF g, z
<1>7. Same(b, z)
  BY <1>1, <1>4, <1>5, <1>6 DEF Same
<1> QED
  BY <1>7 DEF z

LEMMA ConnIndSame ==
    ASSUME NEW b, Good(b), NEW a \in Addrs PROVE Same(b, ConnInd(b, a))
<1> DEFINE c == [b EXCEPT !.ind = @ \cup {a}]
           d == IF Cardinality(b.ind) < 2 THEN c ELSE b
           e == Ask(d, Op("in", a))
<1>1. ConnInd(b, a) \in {b, e}
  BY DEF ConnInd
<1>2. Same(b, c)
  <2>1. Shaped(c) /\ c.ind = b.ind \cup {a} /\ \A f \in Fields \ {"ind"} : c[f] = b[f]
    BY DEF Good, Shaped, Fields
  <2> HIDE DEF c
  <2>2. Simple(c)
    BY <2>1 DEF Good, Simple, Fields
  <2> QED
    BY <2>1, <2>2, SameQueue DEF Fields
<1> HIDE DEF c
<1>3. Same(b, d)
  BY <1>2 DEF Same
<1> HIDE DEF d
<1>4. Same(d, e)
  BY <1>3, OpKinds, AskSame DEF Alter, Same
<1> QED
  BY <1>1, <1>3, <1>4 DEF Same

LEMMA LaterAvrcpWell ==
    ASSUME NEW b, Good(b), Calm(b), NEW a \in Addrs, b.link[a].later PROVE Well(b, LaterAvrcp(b, a))
<1> DEFINE c == [b EXCEPT !.link[a].later = FALSE]
           e == Ask(c, <<"conn", a, "AVRCP">>)
           d == DedicatedConnect(c, a, {"AVRCP"})
<1>1. LaterAvrcp(b, a) \in {c, e, d}
  BY DEF LaterAvrcp
<1>2. {"AVRCP"} \in SUBSET (Profs \cap Listed)
  BY BtPolicyAssumption, ListedProfs DEF BtPolicyAssumption, Good, LinksOK, LinkOK
<1>3. Same(b, c)
  <2>1. \A x \in BOOLEAN : (x => "A2DP" \in Profs) => Alter(b, [b EXCEPT !.link[a].later = x], {"link"})
    BY AlterLinkField
  <2>2. Alter(b, c, {"link"})
    BY <2>1
  <2> QED
    BY <2>2 DEF Alter
<1> HIDE DEF c
<1>4. Same(c, e)
  <2>1. <<"conn", a, "AVRCP">> \in Ops /\ <<"conn", a, "AVRCP">>[3] # NoProf
    BY <1>2, OpKinds DEF NoProf
  <2> QED
    BY <1>3, <2>1, AskSame DEF Alter, Same
<1>5. Well(c, d)
  BY <1>2, <1>3, DedicatedConnectWell DEF Same, Calm
<1> HIDE DEF d, e
<1> QED
  BY <1>1, <1>3, <1>4, <1>5, WellSame DEF Same

LEMMA RoleSlaveWell ==
    ASSUME NEW b, Good(b), Calm(b), NEW a \in Addrs, NEW starts \in BOOLEAN, NEW notCheck \in BOOLEAN
    PROVE  Well(b, RoleSlave(b, a, starts, notCheck))
<1> DEFINE c == [b EXCEPT !.link[a].master = FALSE]
           known == notCheck \/ IsCurrent(c, a)
<1>1. RoleSlave(b, a, starts, notCheck) \in {c, SdpCmpl(c, a, "ok", starts, known)}
  BY DEF RoleSlave
<1>2. Same(b, c)
  <2>1. \A x \in BOOLEAN : Alter(b, [b EXCEPT !.link[a].master = x], {"link"})
    BY AlterLinkField
  <2>2. Alter(b, c, {"link"})
    BY <2>1
  <2> QED
    BY <2>2 DEF Alter
<1> HIDE DEF c
<1>3. known \in BOOLEAN
  OBVIOUS
<1> HIDE DEF known
<1>4. Well(c, SdpCmpl(c, a, "ok", starts, known))
  BY <1>2, <1>3, SdpCmplWell DEF Same, Calm
<1>5. Well(b, SdpCmpl(c, a, "ok", starts, known))
  BY <1>2, <1>4, WellSame
<1>6. Well(b, c)
  BY <1>2, WellSame
<1> QED
  BY <1>1, <1>5, <1>6

-----------------------------------------------------------------------------
(* The actions.                                                            *)

\* What holds between two events, and between two rounds.
Ready(b)  == Good(b) /\ Calm(b) /\ ~b.run
Steady(b) == Good(b) /\ (b.run \/ Calm(b))

LEMMA SmallFields ==
    ASSUME NEW b, Good(b), NEW u \in BOOLEAN, NEW s, s \subseteq b.ind
    PROVE  Same(b, [b EXCEPT !.call = u]) /\ Same(b, [b EXCEPT !.ind = s])
<1>1. ASSUME NEW c, c = [b EXCEPT !.call = u] \/ c = [b EXCEPT !.ind = s] PROVE Same(b, c)
  <2>1. /\ Shaped(c) /\ c.call \in BOOLEAN /\ c.ind \subseteq b.ind
        /\ \A f \in Fields \ {"call", "ind"} : c[f] = b[f]
    BY <1>1 DEF Good, Shaped, Fields, Simple
  <2>2. Simple(c)
    BY <2>1 DEF Good, Simple, Fields
  <2> QED
    BY <2>1, <2>2, SameQueue DEF Fields
<1> QED
  BY <1>1

LEMMA LinkWell ==
    ASSUME Ready(bp), NEW a \in Addrs, ConnSuc(a) \/ ConnFail(a) \/ Authenticate(a) \/ Disconnected(a)
    PROVE  Well(bp, bp')
<1>1. Good(bp) /\ Calm(bp) /\ ~bp.run
  BY DEF Ready
<1>2. CASE ConnSuc(a)
  <2> DEFINE b == [bp EXCEPT !.op = @ \ {Op("page", a), Op("in", a)}]
  <2>1. PICK victim \in UsedLinks(b) \cup {a} : bp' = LinkUp(b, a, victim)
    BY <1>2 DEF ConnSuc, Becomes
  <2>2. Same(bp, b)
    <3> DEFINE s == bp.op \ {Op("page", a), Op("in", a)}
    <3>1. s \subseteq bp.op \cup Ops /\ \A x \in Addrs : <<"conn", x, NoProf>> \notin s \ bp.op
      OBVIOUS
    <3>2. b = [bp EXCEPT !.op = s]
      OBVIOUS
    <3> HIDE DEF s
    <3> QED
      BY <1>1, <3>1, <3>2, AlterOps DEF Alter
  <2> HIDE DEF b
  <2>3. victim \in Addrs
    BY DEF UsedLinks
  <2>4. Well(b, LinkUp(b, a, victim))
    BY <2>2, <2>3, LinkUpWell DEF Same
  <2> QED
    BY <2>1, <2>2, <2>4, WellSame
<1>3. CASE ConnFail(a)
  <2>1. PICK o \in Paging(a), used \in 1 .. MaxTime, cause \in {"fail", "exist", "busy"} :
            bp' = LinkFail(Done(bp, o), a, cause, used)
    BY <1>3 DEF ConnFail, Becomes
  <2>2. Same(bp, Done(bp, o))
    BY <1>1, SameSmall
  <2>3. used \in 0 .. MaxTime
    BY BtPolicyAssumption DEF BtPolicyAssumption
  <2>4. Well(Done(bp, o), LinkFail(Done(bp, o), a, cause, used))
    BY <2>2, <2>3, LinkFailWell DEF Same
  <2> QED
    BY <2>1, <2>2, <2>4, WellSame
<1>4. CASE Authenticate(a)
  <2>1. bp' = AuthSuc(bp, a) \/ bp' = AuthFail(bp, a)
    BY <1>4 DEF Authenticate, Becomes
  <2> QED
    BY <1>1, <2>1, AuthWell
<1>5. CASE Disconnected(a)
  <2> DEFINE b == Down(bp, a)
  <2>1. bp' = DisconnNormal(b, a) \/ bp' = DisconnLost(b, a)
    BY <1>5 DEF Disconnected, Becomes
  <2>2. Same(bp, b) /\ ~b.run
    BY <1>1, DownSame
  <2> HIDE DEF b
  <2>3. Well(b, DisconnNormal(b, a)) /\ Well(b, DisconnLost(b, a))
    BY <2>2, DisconnNormalWell, DisconnLostWell DEF Same
  <2> QED
    BY <2>1, <2>2, <2>3, WellSame
<1> QED
  BY <1>2, <1>3, <1>4, <1>5

LEMMA SearchWell ==
    ASSUME Ready(bp), NEW a \in Addrs, SearchAttr(a) \/ SearchCmpl(a) \/ SearchStop(a)
    PROVE  Well(bp, bp')
<1>1. Good(bp) /\ Calm(bp) /\ ~bp.run
  BY DEF Ready
<1>2. CASE SearchAttr(a)
  BY <1>1, <1>2, SdpWell DEF SearchAttr, Becomes
<1>3. CASE SearchStop(a)
  <2> DEFINE b == Done(bp, Op("stop", a))
  <2>1. bp' = SdpStop(b)
    BY <1>3 DEF SearchStop, Becomes
  <2>2. Same(bp, b)
    BY <1>1, SameSmall
  <2> HIDE DEF b
  <2>3. \A x : Well(b, SdpStop(b))
    BY <2>2, SdpWell DEF Same
  <2> QED
    BY <2>1, <2>2, <2>3, WellSame
<1>4. CASE SearchCmpl(a)
  <2> DEFINE b == Done(bp, Op("sdp", a))
             z(cause, starts) == SdpCmpl(b, a, cause, starts, IsCurrent(b, a))
  <2>1. Same(bp, b)
    BY <1>1, SameSmall
  <2>2. \/ \E starts \in BOOLEAN, cause \in {"ok", "other"} : bp' = z(cause, starts)
        \/ bp' = Ask(z("hci", TRUE), Op("disc", a))
    BY <1>4 DEF SearchCmpl, Becomes
  <2> HIDE DEF b
  <2>3. ASSUME NEW cause, NEW starts \in BOOLEAN PROVE Well(bp, z(cause, starts))
    <3> DEFINE known == IsCurrent(b, a)
    <3>1. known \in BOOLEAN
      BY <2>1 DEF IsCurrent, Same, Good, ActiveOK, Active
    <3> HIDE DEF known
    <3>2. Well(b, SdpCmpl(b, a, cause, starts, known))
      BY <1>1, <2>1, <3>1, SdpCmplWell DEF Same, Calm
    <3>3. Well(bp, SdpCmpl(b, a, cause, starts, known))
      BY <2>1, <3>2, WellSame
    <3> QED
      BY <3>3 DEF known
  <2>4. Well(bp, z("hci", TRUE))
    <3>1. \A starts \in BOOLEAN : Well(bp, z("hci", starts))
      BY <2>3
    <3> HIDE DEF z
    <3> QED
      BY <3>1
  <2> DEFINE y == z("hci", TRUE)
  <2> HIDE DEF z
  <2>5. Well(bp, Ask(y, Op("disc", a)))
    <3> HIDE DEF y
    <3>0. Good(y) /\ Well(bp, y)
      BY <2>4 DEF Well, y
    <3>1. Alter(y, Ask(y, Op("disc", a)), {"op"})
      BY <3>0, OpKinds, AskSame
    <3>2. Same(y, Ask(y, Op("disc", a))) /\ Ask(y, Op("disc", a)).run = y.run
      BY <3>1 DEF Alter, Fields
    <3> QED
      BY <3>0, <3>2, WellThen
  <2> QED
    BY <2>2, <2>3, <2>5 DEF z
<1> QED
  BY <1>2, <1>3, <1>4

LEMMA ProfileWell ==
    ASSUME Ready(bp), NEW a \in Addrs, NEW p \in Profs \cup {NoProf}, ConnCmpl(a, p) \/ DisconnCmpl(a, p)
    PROVE  Well(bp, bp')
<1>1. Good(bp) /\ Calm(bp) /\ ~bp.run
  BY DEF Ready
<1>2. CASE ConnCmpl(a, p)
  <2> DEFINE b == Done(bp, <<"conn", a, p>>)
             f(cause) == ProfConnFail(b, a, p, cause)
  <2>1. Same(bp, b)
    BY <1>1, SameSmall
  <2>2. p \in Profs
    BY <1>1, <1>2 DEF ConnCmpl, Owed, Good, OpsOK
  <2>3. \/ bp' = ProfConnSuc(b, a, p) \/ \E cause \in {"other", "security_block", "no_resource"} : bp' = f(cause)
        \/ bp' = Ask(f("hci"), Op("disc", a))
    BY <1>2 DEF ConnCmpl, Becomes
  <2> HIDE DEF b
  <2>4. Well(bp, ProfConnSuc(b, a, p))
    <3>1. Well(b, ProfConnSuc(b, a, p))
      BY <1>1, <2>1, <2>2, ProfConnSucWell DEF Same, Calm
    <3> QED
      BY <2>1, <3>1, WellSame
  <2>5. ASSUME NEW cause PROVE Well(bp, f(cause))
    <3>1. Well(b, ProfConnFail(b, a, p, cause))
      BY <2>1, ProfConnFailWell DEF Same
    <3> QED
      BY <2>1, <3>1, WellSame
  <2> DEFINE y == f("hci")
  <2> HIDE DEF f
  <2>6. Well(bp, Ask(y, Op("disc", a)))
    <3>0. Good(y) /\ Well(bp, y)
      BY <2>5 DEF Well
    <3> HIDE DEF y
    <3>1. Alter(y, Ask(y, Op("disc", a)), {"op"})
      BY <3>0, OpKinds, AskSame
    <3>2. Same(y, Ask(y, Op("disc", a))) /\ Ask(y, Op("disc", a)).run = y.run
      BY <3>1 DEF Alter, Fields
    <3> QED
      BY <3>0, <3>2, WellThen
  <2> QED
    BY <2>3, <2>4, <2>5, <2>6
<1>3. CASE DisconnCmpl(a, p)
  <2> DEFINE b == Done(bp, <<"pdisc", a, p>>)
  <2>1. Same(bp, b)
    BY <1>1, SameSmall
  <2>2. bp' = b \/ bp' = ProfDisconn(b, a, p)
    BY <1>3 DEF DisconnCmpl, Becomes
  <2> HIDE DEF b
  <2>3. Same(b, ProfDisconn(b, a, p))
    BY <2>1, ProfDisconnSame DEF Same
  <2>4. Same(bp, bp')
    BY <2>1, <2>2, <2>3 DEF Same
  <2> QED
    BY <2>4, WellSame
<1> QED
  BY <1>2, <1>3

LEMMA PhoneWell ==
    ASSUME Ready(bp), NEW a \in Addrs, Phone(a) PROVE Well(bp, bp')
<1>1. Good(bp) /\ Calm(bp) /\ ~bp.run
  BY DEF Ready
<1>2. CASE Incoming(a)
  <2>1. Same(bp, bp')
    BY <1>1, <1>2, ConnIndSame DEF Incoming, Becomes
  <2> QED
    BY <2>1, WellSame
<1>3. CASE RoleSwitched(a)
  BY <1>1, <1>3, RoleSlaveWell DEF RoleSwitched, Becomes
<1>4. ASSUME NEW p \in Profs, RemoteConn(a, p) PROVE Well(bp, bp')
  BY <1>1, <1>4, ProfConnSucWell DEF RemoteConn, Becomes
<1> QED
  BY <1>2, <1>3, <1>4 DEF Phone

\* The timer of pairing runs in PAIRING only, where no phone is being called.
LEMMA TimerWell ==
    ASSUME Ready(bp), Begun(bp), Timer PROVE Well(bp, bp')
<1>1. Good(bp) /\ Calm(bp) /\ ~bp.run
  BY DEF Ready
<1>2. ASSUME NEW a \in Addrs, IndTimeout(a) \/ AvrcpTimeout(a) PROVE Well(bp, bp')
  <2>1. CASE IndTimeout(a)
    <3> DEFINE s == bp.ind \ {a}
    <3>1. bp' = [bp EXCEPT !.ind = s]
      BY <2>1 DEF IndTimeout, Becomes
    <3>2. s \subseteq bp.ind
      OBVIOUS
    <3> HIDE DEF s
    <3>3. \A u \in BOOLEAN : Same(bp, [bp EXCEPT !.ind = s])
      BY <1>1, <3>2, SmallFields
    <3>4. Same(bp, bp')
      BY <3>1, <3>3
    <3> QED
      BY <3>4, WellSame
  <2>2. CASE AvrcpTimeout(a)
    BY <1>1, <2>2, LaterAvrcpWell DEF AvrcpTimeout, Becomes
  <2> QED
    BY <1>2, <2>1, <2>2
<1>3. CASE TimerLinkback \/ TimerDelay
  BY <1>1, <1>3, LinkbackTimeoutWell, DelayOverWell DEF TimerLinkback, TimerDelay, Becomes
<1>4. ASSUME NEW x PROVE /\ Same(bp, Stop(bp, x)) /\ Stop(bp, x).run = bp.run /\ Stop(bp, x).cur = bp.cur
  BY <1>1, SameSmall DEF Stop, Good, Shaped, Fields
<1>5. CASE TimerPairing
  <2> DEFINE b == Stop(bp, {"pairing"})
  <2>1. bp' = StableNotPairing(b, TRUE) /\ "pairing" \in bp.timer
    BY <1>5 DEF TimerPairing, Becomes
  <2>2. Released(bp)
    BY <1>1, <2>1 DEF Begun, Good, Fit
  <2>3. Same(bp, b) /\ Good(b) /\ Released(b) /\ ~b.run
    BY <1>1, <1>4, <2>2 DEF Same, Released
  <2> HIDE DEF b
  <2>4. \A x : Same(b, StableNotPairing(b, x))
    BY <2>3, SameSched
  <2>5. Same(b, bp')
    BY <2>1, <2>4
  <2> QED
    BY <2>3, <2>5, WellSame DEF Same
<1>6. CASE TimerShutdown
  <2> DEFINE b == Stop(bp, {"shutdown"})
  <2>1. bp' = IF bp.cur = "SHUTDOWN_STEP" THEN ShutDownStep(b) ELSE b
    BY <1>6 DEF TimerShutdown, Becomes
  <2>2. Same(bp, b) /\ b.cur = bp.cur
    BY <1>4
  <2> HIDE DEF b
  <2>3. bp.cur = "SHUTDOWN_STEP" => Same(b, ShutDownStep(b))
    BY <2>2, ShutDownStepSame DEF Same, Good, Fit
  <2>4. Same(bp, bp')
    BY <2>1, <2>2, <2>3 DEF Same
  <2> QED
    BY <2>4, WellSame
<1>7. CASE TimerDiscoverable
  <2> DEFINE b == Stop(bp, {"discoverable"})
  <2>1. bp' = IF b.cur \in Stable THEN StableAgain(b, "DISCOVERABLE_TIMEOUT") ELSE b
    BY <1>7 DEF TimerDiscoverable, Becomes
  <2>2. Same(bp, b)
    BY <1>4
  <2> HIDE DEF b
  <2>3. b.cur \in Stable => \A x : Same(b, StableAgain(b, x))
    BY <2>2, SameSched DEF Same, Good, Fit, Stable
  <2>4. Same(bp, bp')
    BY <2>1, <2>2, <2>3 DEF Same
  <2> QED
    BY <2>4, WellSame
<1> QED
  BY <1>2, <1>3, <1>5, <1>6, <1>7 DEF Timer

LEMMA RequestWell ==
    ASSUME Ready(bp),
           UserDisconnectAll \/ UserPairing \/ \E a \in Addrs : UserConnect(a) \/ UserDisconnect(a)
    PROVE  Well(bp, bp')
<1>1. Good(bp) /\ Calm(bp) /\ ~bp.run
  BY DEF Ready
<1>2. ASSUME NEW a \in Addrs, UserConnect(a) PROVE Well(bp, bp')
  <2>1. PICK profs \in SUBSET ProfsOfBond(bp.bond[a]) : bp' = DedicatedConnect(bp, a, profs)
    BY <1>2 DEF UserConnect, Becomes
  <2>2. profs \in SUBSET (Profs \cap Listed)
    BY <1>1, BondProfs DEF Good, Simple
  <2> QED
    BY <1>1, <2>1, <2>2, DedicatedConnectWell
<1>3. ASSUME NEW a \in Addrs, UserDisconnect(a) PROVE Well(bp, bp')
  <2>1. PICK profs \in {Profs} \cup {{p} : p \in Profs} : bp' = DedicatedDisconnect(bp, a, profs)
    BY <1>3 DEF UserDisconnect, Becomes
  <2>2. profs \in SUBSET Profs
    OBVIOUS
  <2> QED
    BY <1>1, <2>1, <2>2, DedicatedDisconnectWell DEF Well
<1>4. CASE UserDisconnectAll
  <2> DEFINE s == bp.op \cup {Op("disc", a) : a \in UsedLinks(bp)}
  <2>1. bp' = [bp EXCEPT !.op = s]
    BY <1>4 DEF UserDisconnectAll, Becomes
  <2>2. s \subseteq bp.op \cup Ops /\ \A x \in Addrs : <<"conn", x, NoProf>> \notin s \ bp.op
    <3>1. ASSUME NEW o \in s \ bp.op PROVE o \in Ops /\ o[1] # "conn"
      <4>1. PICK a \in Addrs : o = Op("disc", a)
        BY DEF UsedLinks
      <4>2. \A p \in Profs \cup {NoProf} : Op("disc", a) \in Ops /\ Op("disc", a)[1] # "conn"
        BY OpKinds
      <4> QED
        BY <4>1, <4>2
    <3> HIDE DEF s
    <3> QED
      BY <3>1
  <2> HIDE DEF s
  <2>3. Same(bp, bp')
    BY <1>1, <2>1, <2>2, AlterOps DEF Alter
  <2> QED
    BY <2>3, WellSame
<1>5. CASE UserPairing
  <2>1. "pairing" \in Features
    BY <1>5 DEF UserPairing, Own
  <2>2. ASSUME NEW visible \in BOOLEAN, NEW force \in BOOLEAN, NEW victim \in UsedLinks(bp) \cup {NoAddr},
               bp' = EnterPairing(bp, visible, force, victim)
        PROVE  Well(bp, bp')
    <3>1. victim \in Addrs \cup {NoAddr}
      BY DEF UsedLinks
    <3> QED
      BY <1>1, <2>1, <2>2, <3>1, EnterPairingWell
  <2>3. ASSUME bp' = ExitPairing(bp) PROVE Well(bp, bp')
    BY <1>1, <2>3, ExitPairingSame, WellSame
  <2> QED
    BY <1>5, <2>2, <2>3 DEF UserPairing, Becomes
<1> QED
  BY <1>2, <1>3, <1>4, <1>5

LEMMA PowerWell ==
    ASSUME Ready(bp), PowerOn \/ PowerOff \/ IntoBox \/ OutOfBox \/ Call PROVE Well(bp, bp')
<1>1. Good(bp) /\ Calm(bp) /\ ~bp.run
  BY DEF Ready
<1>2. CASE PowerOn
  BY <1>1, <1>2, StartUpWell DEF PowerOn, Becomes
<1>3. CASE PowerOff
  BY <1>1, <1>3, ShutDownWell DEF PowerOff, Becomes
<1>4. CASE IntoBox
  BY <1>1, <1>4, ShutDownWell DEF IntoBox, Becomes
<1>5. CASE OutOfBox
  <2>1. PICK bonds \in BondLists(bp), victim \in UsedLinks(bp) \cup {NoAddr} :
            bp' = Restored(bp, bonds, victim)
    BY <1>5 DEF OutOfBox, Becomes
  <2>2. victim \in Addrs \cup {NoAddr} /\ bp.cur = "STOP"
    BY <1>5 DEF UsedLinks, OutOfBox
  <2> QED
    BY <1>1, <2>1, <2>2, RestoredWell
<1>6. CASE Call
  <2>1. \A u \in BOOLEAN : \A s \in SUBSET bp.ind : Same(bp, [bp EXCEPT !.call = u])
    BY <1>1, SmallFields
  <2>2. \A u \in BOOLEAN : Same(bp, [bp EXCEPT !.call = u])
    BY <2>1
  <2>3. Same(bp, ExitPairing(bp))
    BY <1>1, ExitPairingSame
  <2>4. Same(bp, bp')
    BY <1>6, <2>2, <2>3 DEF Call, Becomes
  <2> QED
    BY <2>4, WellSame
<1> QED
  BY <1>2, <1>3, <1>4, <1>5, <1>6

LEMMA EventWaits ==
    ASSUME Timer \/ User \/ \E a \in Addrs : Stack(a) \/ Phone(a) PROVE ~bp.run
<1>1. Timer => ~bp.run
  BY DEF Timer, TimerLinkback, TimerDelay, TimerPairing, TimerShutdown, TimerDiscoverable,
         IndTimeout, AvrcpTimeout, Becomes
<1>2. User => ~bp.run
  BY DEF User, UserConnect, UserDisconnect, UserDisconnectAll, UserPairing, PowerOn, PowerOff,
         IntoBox, OutOfBox, Call, Becomes
<1>3. ASSUME NEW a \in Addrs, Stack(a) PROVE ~bp.run
  BY <1>3 DEF Stack, ConnSuc, ConnFail, Authenticate, Disconnected, SearchAttr, SearchCmpl,
              SearchStop, ConnCmpl, DisconnCmpl, Becomes
<1>4. ASSUME NEW a \in Addrs, Phone(a) PROVE ~bp.run
  BY <1>4 DEF Phone, Incoming, RoleSwitched, RemoteConn, Becomes
<1> QED
  BY <1>1, <1>2, <1>3, <1>4

\* An event, and a round, keep the record good and do at most one thing to the queue.
LEMMA StepSteady ==
    ASSUME Steady(bp), Begun(bp), [Next]_vars
    PROVE  Steady(bp') /\ One(bp.queue, bp'.queue)
<1>1. CASE LinkbackRun
  BY <1>1, RoundGood DEF LinkbackRun, Steady
<1>2. CASE UNCHANGED vars
  BY <1>2 DEF vars, Steady, One
<1>3. ASSUME Ready(bp), Well(bp, bp') PROVE Steady(bp') /\ One(bp.queue, bp'.queue)
  BY <1>3 DEF Ready, Well, Steady
<1>4. ASSUME Timer \/ User \/ \E a \in Addrs : Stack(a) \/ Phone(a) PROVE Ready(bp)
  BY <1>4, EventWaits DEF Steady, Ready
<1>5. ASSUME NEW a \in Addrs, Stack(a) PROVE Well(bp, bp')
  BY <1>4, <1>5, LinkWell, SearchWell, ProfileWell DEF Stack
<1>6. ASSUME NEW a \in Addrs, Phone(a) PROVE Well(bp, bp')
  BY <1>4, <1>6, PhoneWell
<1>7. Timer => Well(bp, bp')
  BY <1>4, TimerWell
<1>8. User => Well(bp, bp')
  BY <1>4, RequestWell, PowerWell DEF User
<1> QED
  BY <1>1, <1>2, <1>3, <1>4, <1>5, <1>6, <1>7, <1>8 DEF Next

-----------------------------------------------------------------------------
(* The theorems about types and the queue.                                 *)

LEMMA InitGood == Init => Good(bp) /\ Calm(bp) /\ left \in 0 .. MaxEvents
<1> SUFFICES ASSUME Init PROVE Good(bp) /\ Calm(bp) /\ left \in 0 .. MaxEvents
  OBVIOUS
<1>1. /\ bp.cur = "SHUTDOWN" /\ bp.radio = "IDLE" /\ bp.queue = << >> /\ bp.active = NoActive
      /\ bp.link = [a \in Addrs |-> NoLink] /\ bp.bond = Bonded /\ bp.num = 0 /\ bp.ind = {}
      /\ bp.timer = {} /\ bp.flag = {} /\ bp.step = "START_PROFILE" /\ bp.cnt = 0
      /\ bp.call = FALSE /\ bp.op = {} /\ bp.run = FALSE
  BY DEF Init
<1>2. Shaped(bp)
  BY DEF Init, Shaped, Fields
<1>3. NoActive.valid = FALSE /\ NoActive.exit = FALSE
  BY DEF NoActive
<1>4. ActiveOK(NoActive)
  <2>1. NoActive \in Active
    BY BtPolicyAssumption DEF BtPolicyAssumption, NoActive, NoNode, Active
  <2> QED
    BY <2>1 DEF NoActive, NoNode, ActiveOK
<1>5. Simple(bp)
  <2>1. Bonded \in [Addrs -> SUBSET Profs]
    BY BtPolicyAssumption DEF BtPolicyAssumption
  <2>2. bp.cur \in States /\ bp.radio \in Modes
    BY <1>1 DEF States, Modes
  <2>3. bp.num \in Nat /\ bp.ind \subseteq Addrs /\ bp.timer \subseteq Timers /\ bp.flag \subseteq Flags
    BY <1>1
  <2>4. bp.call \in BOOLEAN /\ bp.run \in BOOLEAN
    BY <1>1
  <2> QED
    BY <1>1, <2>1, <2>2, <2>3, <2>4 DEF Simple
<1>6. LinksOK(bp) /\ OpsOK(bp) /\ WaitsOK(bp)
  BY <1>1 DEF LinksOK, LinkOK, Link, NoLink, OpsOK, WaitsOK, Steps
<1>7. Grouped(bp.queue, bp.active) /\ Fit(bp) /\ Calm(bp)
  BY <1>1, <1>3 DEF Grouped, Fit, Released, NotWaiting, PairingFlags, Calm
<1>8. left \in 0 .. MaxEvents
  BY BtPolicyAssumption DEF Init, BtPolicyAssumption
<1> QED
  BY <1>1, <1>2, <1>4, <1>5, <1>6, <1>7, <1>8, EmptyQueue DEF Good

\* Between two events, and between two rounds of linkback_run, the record is good
\* and, but for linkback_run, the phone being called has a profile to connect; a step
\* does at most one thing to the queue.
THEOREM PolicyStaysGood == Spec => [](Steady(bp) /\ Begun(bp))
<1>1. Init => Steady(bp)
  BY InitGood DEF Steady
<1>2. Steady(bp) /\ Sound(bp, {}, {}) /\ [Next]_vars => Steady(bp')
  BY StepSteady DEF Sound
<1>3. Steady(bp)' <=> Steady(bp')
  OBVIOUS
<1>4. Sound(bp, {}, {}) => Begun(bp)
  BY DEF Sound
<1> QED
  BY <1>1, <1>2, <1>3, <1>4, PolicyIsSound, PTL DEF Spec

\* Every event that somebody has of their own accord counts down.
LEMMA LeftFalls == ASSUME left \in 0 .. MaxEvents, [Next]_vars PROVE left' \in 0 .. MaxEvents
<1>1. ASSUME left' = left \/ (left > 0 /\ left' = left - 1) PROVE left' \in 0 .. MaxEvents
  BY <1>1, BtPolicyAssumption DEF BtPolicyAssumption
<1>2. LinkbackRun => left' = left \/ (left > 0 /\ left' = left - 1)
  BY DEF LinkbackRun, Taken, Own
<1>3. ASSUME NEW a \in Addrs, Stack(a) PROVE left' = left \/ (left > 0 /\ left' = left - 1)
  BY <1>3 DEF Stack, ConnSuc, ConnFail, Authenticate, Disconnected, SearchAttr, SearchCmpl,
              SearchStop, ConnCmpl, DisconnCmpl, Taken, Own, Free
<1>4. ASSUME NEW a \in Addrs, Phone(a) PROVE left' = left \/ (left > 0 /\ left' = left - 1)
  BY <1>4 DEF Phone, Incoming, RoleSwitched, RemoteConn, Taken, Own
<1>5. Timer => left' = left
  BY DEF Timer, TimerLinkback, TimerDelay, TimerPairing, TimerShutdown, TimerDiscoverable,
         IndTimeout, AvrcpTimeout, Free
<1>6. User => left' = left \/ (left > 0 /\ left' = left - 1)
  BY DEF User, UserConnect, UserDisconnect, UserDisconnectAll, UserPairing, PowerOn, PowerOff,
         IntoBox, OutOfBox, Call, Own, Free
<1> QED
  BY <1>1, <1>2, <1>3, <1>4, <1>5, <1>6 DEF Next, vars

LEMMA GoodIsTyped == ASSUME Good(bp) PROVE bp \in Policy
<1>1. bp.queue \in Seq(Q!Node)
  <2>1. QP!Node \subseteq Q!Node
    BY DEF QP!Node, Q!Node, QP!Times, Q!Times
  <2>2. bp.queue \in Seq(QP!Node)
    BY QueueNodes DEF Good
  <2> QED
    BY <2>1, <2>2
<1>2. bp.active \in Active /\ bp.link \in [Addrs -> Link] /\ bp.op \subseteq Ops
      /\ bp.step \in Steps /\ bp.cnt \in 0 .. 4
  BY DEF Good, ActiveOK, LinksOK, OpsOK, WaitsOK
<1> QED
  BY <1>1, <1>2 DEF Good, Shaped, Fields, Simple, Policy

\* The state is that of Policy, whatever phones, user and timers do: the retries and
\* waits keep to their limits, a phone being called has an address and profiles that
\* can be connected, and times never run below zero or over the longest.
THEOREM PolicyIsTyped == Spec => []TypeOK
<1>1. Init => left \in 0 .. MaxEvents
  BY InitGood
<1>2. left \in 0 .. MaxEvents /\ [Next]_vars => (left \in 0 .. MaxEvents)'
  BY LeftFalls
<1>3. left \in 0 .. MaxEvents /\ Steady(bp) => TypeOK
  BY GoodIsTyped DEF Steady, TypeOK
<1> QED
  BY <1>1, <1>2, <1>3, PolicyStaysGood, PTL DEF Spec

\* The policy implements the abstract queue: each event changes it by one operation
\* of TodoQueue at most, with arguments these are meant for, so that its theorems
\* (no phone twice, forced phones first, one time for the group) hold of bp.queue.
THEOREM QueueIsImplemented == Spec => QueueRefinement
<1>1. Init => Q!Init
  BY DEF Init, Q!Init
<1>2. Steady(bp) /\ Begun(bp) /\ [Next]_vars => [Q!Next]_(bp.queue)
  BY StepSteady, OneIsStep
<1> QED
  BY <1>1, <1>2, PolicyStaysGood, PTL DEF Spec, QueueRefinement, Q!Spec

\* The phone being called has the time of its group, also when the user asks for it
\* by name or its time is up: the time-out deletes the whole group on its behalf.
THEOREM GroupKeepsItsTime == Spec => []GroupWithActive
<1>1. Steady(bp) => GroupWithActive
  <2> SUFFICES ASSUME Good(bp) PROVE GroupWithActive
    BY DEF Steady
  <2>1. bp.queue \in Seq(QP!Node)
    BY QueueNodes DEF Good
  <2>2. DOMAIN bp.queue = 1 .. Len(bp.queue)
    BY <2>1
  <2> QED
    BY <2>2 DEF Good, Grouped, GroupWithActive
<1> QED
  BY <1>1, PolicyStaysGood, PTL

\* Where the user does not ask for pairing: outside LINKBACK no phone is being
\* called, whatever ended it.
THEOREM NobodyIsLeftCalling == ASSUME "pairing" \notin Features PROVE Spec => []NoZombie
<1>1. Steady(bp) => NoZombie
  BY DEF Steady, Good, Fit, Released, NoZombie
<1> QED
  BY <1>1, PolicyStaysGood, PTL

\* There as well: no phone is called and waits to be called at once, and the phone
\* being called fits those that wait.
THEOREM ActiveFits == ASSUME "pairing" \notin Features PROVE Spec => []ActiveFitsQueue
<1>1. Steady(bp) => NoDoubleCall
  <2> SUFFICES ASSUME Good(bp), ~bp.run, bp.active.valid, Calm(bp),
                      NEW i \in DOMAIN bp.queue, bp.queue[i].addr = bp.active.node.addr
               PROVE  FALSE
    BY DEF Steady, NoDoubleCall, Idle, Q!Waiting, Calling
  <2>1. bp.queue \in Seq(QP!Node)
    BY QueueNodes DEF Good
  <2>2. i \in 1 .. Len(bp.queue)
    BY <2>1
  <2> QED
    BY <2>2 DEF Good, Fit, NotWaiting, Calm
<1> QED
  BY <1>1, PolicyStaysGood, GroupKeepsItsTime, PTL DEF ActiveFitsQueue

=============================================================================
