------------------------ MODULE BtPolicyCalls_proofs ------------------------
(***************************************************************************)
(* The calls of the policy and its full house, for every number of phones, *)
(* profiles and places:                                                    *)
(*   - a phone that is called is pursued: its timer runs, or it was        *)
(*     connected when its time was up; with nobody called, the end of a    *)
(*     stopped search is to come;                                          *)
(*   - a full house is closed, and nobody is called on top of it;          *)
(*   - one link too many is about to go;                                   *)
(*   - a profile is left out only when the phone has it or it failed.      *)
(* The first three are parts of Quick, a predicate of the record bp; the   *)
(* last is Skips, a relation of two records.  There is a lemma for each    *)
(* handler and each action: of a fine record it makes a fine record, and   *)
(* skips nothing.                                                          *)
(***************************************************************************)
EXTENDS BtPolicy_proofs

ActiveFields == {"valid", "exit", "node", "remain", "doing", "sdp_ok", "cnt", "pending"}
NodeFields == {"addr", "plan", "retry", "group", "first", "force", "check"}

\* What an EXCEPT changes is there.
Formed(b) ==
    /\ Fits(b)
    /\ DOMAIN b.active = ActiveFields /\ DOMAIN b.active.node = NodeFields
    /\ b.active.cnt \in 0 .. 2

Authed(b) == {a \in Addrs : b.link[a].auth}

-----------------------------------------------------------------------------
(* The parts of the invariant.                                             *)

\* The links: those authenticated are in use; a phone is master only where roles
\* are switched; of one link too many one is marked to go, and with one profile
\* a marked link is asked to.
Known(b) == \A a \in Addrs : b.link[a].auth => b.link[a].used
Roles(b) == \A a \in Addrs : b.link[a].master => "roles" \in Features
Single   == \E p : Profs = {p}
Few      == Cardinality(Addrs) <= NumMax + 1 /\ (Single \/ "disconnect" \notin Features)
ToGo(b, a) == b.link[a].drop \/ Op("disc", a) \in b.op
Over(b)    == b.num > NumMax /\ b.cur \notin {"SHUTDOWN_STEP", "SHUTDOWN"}
Marked(b)  == Few /\ Over(b) => \E a \in Addrs : b.link[a].used /\ ToGo(b, a)
Led(b, a)  == Op("disc", a) \in b.op \/ \E p \in b.link[a].profs : <<"pdisc", a, p>> \in b.op
Leads(b)   == Single => \A a \in Addrs : b.link[a].drop => Led(b, a)
LinksFine(b) == Known(b) /\ Roles(b) /\ Marked(b) /\ Leads(b)

\* The radio mode: only a headset with one phone asks others in, and a full house
\* is closed.
Roomy == NumMax > 1 \/ (Quiet /\ ~On("enter_pairing_while_only_one_device_connected"))
Full(b) == Cardinality(Authed(b)) >= NumMax
Spare(b) ==
    Is(b, "one_link") => /\ On("enter_pairing_while_only_one_device_connected")
                         /\ \A x, y \in Authed(b) : x = y
Shut(b) ==
    Roomy /\ b.cur = "CONNECTED" /\ Full(b)
        => b.radio = IF On("easy_connection_switch") THEN "CONNECTABLE" ELSE "IDLE"

\* The phone being called.
Pursued(b) ==
    b.cur = "LINKBACK" /\ b.active.valid /\ ~b.active.exit
        => \/ "linkback" \in b.timer
           \/ Linked(b, b.active.node.addr) /\ b.active.node.plan = {}
Halted(b) ==
    b.cur = "LINKBACK" /\ ~b.run /\ ~b.active.valid
        => Is(b, "after_stop_sdp") /\ \E a \in Addrs : Op("stop", a) \in b.op
Called(b) ==
    /\ b.cur = "LINKBACK" /\ ~b.run /\ b.active.valid /\ ~b.active.node.force
    /\ ~Linked(b, b.active.node.addr) /\ Op("sdp", b.active.node.addr) \in b.op
    /\ "delay" \notin b.timer
    => ~Full(b)
CallFine(b) == Pursued(b) /\ Halted(b) /\ Called(b)

Quick(b) == LinksFine(b) /\ Spare(b) /\ Shut(b) /\ CallFine(b)

\* What a step may leave out of the profiles that remain.
Skips(b, c) ==
    \A p \in b.active.remain \ c.active.remain :
        /\ b.active.valid /\ c.active.valid
        /\ b.active.node.addr \in Addrs /\ c.active.node.addr = b.active.node.addr
        /\ p \in c.active.node.plan
        => \/ p \in c.link[b.active.node.addr].profs \cup {"DID", "PBAP"}
           \/ b.active.cnt = 2

-----------------------------------------------------------------------------
(* What keeps these parts.                                                 *)

\* The links are those they were, with no less connected and no less asked.
KeepsLinks(b, c) ==
    /\ c.num = b.num
    /\ \A a \in Addrs :
        /\ c.link[a].used = b.link[a].used /\ c.link[a].auth = b.link[a].auth
        /\ c.link[a].master => b.link[a].master
        /\ b.link[a].profs \subseteq c.link[a].profs
        /\ c.link[a].drop => b.link[a].drop
        /\ b.link[a].drop => c.link[a].drop \/ Op("disc", a) \in c.op
    /\ \A o \in b.op : o[1] \in {"stop", "disc", "pdisc"} => o \in c.op

\* Nobody asks others in who did not.
KeepsFlag(b, c) == Is(c, "one_link") => Is(b, "one_link")

\* The phone being called is the same, or linkback_run goes on; nothing that would
\* make it go on is lost.
SamePhone(m, n) ==
    /\ m.valid /\ n.node.addr = m.node.addr /\ n.node.force = m.node.force
    /\ m.exit => n.exit

HoldsCall(b, c) ==
    /\ c.active.valid => SamePhone(b.active, c.active)
    /\ c.active.valid /\ b.active.node.plan = {} =>
            c.active.node.plan = {} \/ "linkback" \in c.timer
    /\ b.active.valid => c.active.valid \/ c.run
    /\ b.run => c.run
    /\ Is(b, "after_stop_sdp") => Is(c, "after_stop_sdp")
    /\ "linkback" \in b.timer => "linkback" \in c.timer
    /\ "delay" \in b.timer => "delay" \in c.timer \/ c.run
    /\ b.cur = "LINKBACK" => \A o \in c.op : o[1] = "sdp" => o \in b.op

Holds(b, c) ==
    /\ Formed(c) /\ c.cur = b.cur /\ c.radio = b.radio
    /\ KeepsLinks(b, c) /\ KeepsFlag(b, c) /\ HoldsCall(b, c)

\* What is planned anew remains to be done.
PlanGrows(b, c) ==
    c.active.valid => c.active.node.plan \subseteq b.active.node.plan \cup c.active.remain

\* The parts hold of c as of b, and the profiles that were left out may be.
Moves(b, c) == Holds(b, c) /\ Skips(b, c) /\ PlanGrows(b, c)

\* And no profile was left out, nor failed more often.
Keeps(b, c) ==
    /\ Holds(b, c) /\ PlanGrows(b, c)
    /\ c.active.valid =>
        /\ \A p \in b.active.remain : p \in c.active.remain \/ p \notin c.active.node.plan
        /\ c.active.cnt = 2 => b.active.cnt = 2

\* The parts of a request.
LEMMA OpParts ==
    ASSUME NEW a, NEW k PROVE Op(k, a)[1] = k /\ Op(k, a)[2] = a
BY DEF Op

\* The links stay fine where the state is not that of shutting down any more only
\* without links.
LEMMA LinksKept ==
    ASSUME NEW b, NEW c, LinksFine(b), KeepsLinks(b, c), Over(c) => Over(b)
    PROVE  LinksFine(c) /\ Authed(c) = Authed(b)
<1>1. Known(c) /\ Roles(c) /\ Authed(c) = Authed(b)
  BY DEF LinksFine, KeepsLinks, Known, Roles, Authed
<1>2. ASSUME NEW a \in Addrs PROVE ToGo(b, a) => ToGo(c, a)
  BY <1>2, OpParts DEF ToGo, KeepsLinks
<1>3. Marked(c)
  BY <1>2 DEF LinksFine, KeepsLinks, Marked
<1>4. ASSUME NEW a \in Addrs PROVE Led(b, a) => Led(c, a)
  <2>1. Op("disc", a) \in b.op => Op("disc", a) \in c.op
    BY OpParts DEF KeepsLinks
  <2>2. ASSUME NEW p \in b.link[a].profs, <<"pdisc", a, p>> \in b.op
        PROVE  p \in c.link[a].profs /\ <<"pdisc", a, p>> \in c.op
    BY <2>2 DEF KeepsLinks
  <2> QED
    BY <2>1, <2>2 DEF Led
<1>5. Leads(c)
  BY <1>4 DEF LinksFine, KeepsLinks, Leads
<1> QED
  BY <1>1, <1>3, <1>5 DEF LinksFine

\* The phone being called is pursued where it is the same, linked as it was or more.
LEMMA PursuedHeld ==
    ASSUME NEW b, NEW c, Pursued(b), HoldsCall(b, c), c.cur = b.cur,
           LET a == b.active.node.addr IN b.active.valid /\ Linked(b, a) => Linked(c, a)
    PROVE  Pursued(c)
<1>1. c.active.valid => b.active.valid /\ c.active.node.addr = b.active.node.addr
  BY DEF HoldsCall, SamePhone
<1> QED
  BY <1>1 DEF HoldsCall, SamePhone, Pursued

\* The phone being called is fine where it is the same, linked as it was or more,
\* and the house is not fuller.
LEMMA CallHeld ==
    ASSUME NEW b, NEW c, CallFine(b), HoldsCall(b, c), c.cur = b.cur,
           LET a == b.active.node.addr IN b.active.valid /\ Linked(b, a) => Linked(c, a),
           \A a \in Addrs : Op("stop", a) \in b.op => Op("stop", a) \in c.op,
           Full(c) => Full(b)
    PROVE  CallFine(c)
<1>1. c.active.valid => b.active.valid /\ c.active.node.addr = b.active.node.addr
  BY DEF HoldsCall, SamePhone
<1>2. Pursued(c)
  BY PursuedHeld DEF CallFine
<1>3. Halted(c)
  BY DEF CallFine, HoldsCall, Halted
<1>4. Called(c)
  <2> SUFFICES ASSUME c.cur = "LINKBACK", ~c.run, c.active.valid, ~c.active.node.force,
                      ~Linked(c, c.active.node.addr), Op("sdp", c.active.node.addr) \in c.op,
                      "delay" \notin c.timer
               PROVE  ~Full(c)
    BY DEF Called
  <2>1. b.cur = "LINKBACK" /\ ~b.run /\ "delay" \notin b.timer
    BY DEF HoldsCall
  <2>2. /\ b.active.valid /\ ~b.active.node.force /\ ~Linked(b, b.active.node.addr)
        /\ c.active.node.addr = b.active.node.addr
    BY <1>1 DEF HoldsCall, SamePhone
  <2>3. ~Full(b)
    BY <2>1, <2>2, OpParts DEF CallFine, Called, HoldsCall
  <2> QED
    BY <2>3
<1> QED
  BY <1>2, <1>3, <1>4 DEF CallFine

\* All parts hold of c as of b.
LEMMA QuickHeld ==
    ASSUME NEW b, NEW c, Quick(b), Holds(b, c)
    PROVE  Quick(c)
<1>1. LinksFine(c) /\ Authed(c) = Authed(b)
  BY LinksKept DEF Quick, Holds, Over, KeepsLinks
<1>2. Spare(c) /\ Shut(c)
  BY <1>1 DEF Quick, Holds, KeepsFlag, Spare, Shut, Full
<1>3. \A a \in Addrs : Op("stop", a) \in b.op => Op("stop", a) \in c.op
  BY OpParts DEF Holds, KeepsLinks
<1>4. \A a : Linked(c, a) <=> Linked(b, a)
  BY DEF Holds, KeepsLinks, Linked
<1>5. CallFine(c)
  BY <1>1, <1>3, <1>4, CallHeld DEF Quick, Holds, Full
<1> QED
  BY <1>1, <1>2, <1>5 DEF Quick

\* What holds of b, and is kept, composes.
LEMMA HoldsRefl == ASSUME NEW b, Formed(b) PROVE Keeps(b, b)
BY DEF Keeps, Holds, KeepsLinks, KeepsFlag, HoldsCall, SamePhone, PlanGrows

LEMMA HoldsTrans ==
    ASSUME NEW b, NEW c, NEW d, Holds(b, c), Holds(c, d) PROVE Holds(b, d)
<1>1. KeepsLinks(b, d)
  BY OpParts DEF Holds, KeepsLinks
<1>2. KeepsFlag(b, d)
  BY DEF Holds, KeepsFlag
<1>3. HoldsCall(b, d)
  <2>1. d.active.valid => c.active.valid /\ SamePhone(b.active, d.active)
    BY DEF Holds, HoldsCall, SamePhone
  <2>2. d.active.valid /\ b.active.node.plan = {} => d.active.node.plan = {} \/ "linkback" \in d.timer
    BY <2>1 DEF Holds, HoldsCall
  <2> QED
    BY <2>1, <2>2 DEF Holds, HoldsCall
<1> QED
  BY <1>1, <1>2, <1>3 DEF Holds

LEMMA KeepsTrans ==
    ASSUME NEW b, NEW c, NEW d, Keeps(b, c)
    PROVE  /\ Moves(b, c)
           /\ Keeps(c, d) => Keeps(b, d)
           /\ Moves(c, d) => Holds(b, d) /\ Skips(b, d)
           /\ Moves(d, b) => Moves(d, c)
<1>1. Moves(b, c)
  BY DEF Keeps, Moves, Skips
<1>2. ASSUME Keeps(c, d) PROVE Keeps(b, d)
  <2>1. Holds(b, d) /\ (d.active.valid => c.active.valid)
    BY <1>2, HoldsTrans DEF Keeps, Holds, HoldsCall, SamePhone
  <2> QED
    BY <1>2, <2>1 DEF Keeps, PlanGrows
<1>3. ASSUME Moves(c, d) PROVE Holds(b, d) /\ Skips(b, d)
  <2>1. Holds(b, d) /\ (d.active.valid => c.active.valid /\ c.active.node.addr = b.active.node.addr)
    BY <1>3, HoldsTrans DEF Keeps, Moves, Holds, HoldsCall, SamePhone
  <2> SUFFICES ASSUME d.active.valid PROVE Skips(b, d)
    BY <2>1 DEF Skips
  <2>2. /\ c.active.node.plan \subseteq b.active.node.plan \cup c.active.remain
        /\ d.active.node.plan \subseteq c.active.node.plan \cup d.active.remain
        /\ \A p \in b.active.remain : p \in c.active.remain \/ p \notin c.active.node.plan
        /\ c.active.cnt = 2 => b.active.cnt = 2
    BY <1>3, <2>1 DEF Keeps, Moves, PlanGrows
  <2>3. Skips(c, d)
    BY <1>3 DEF Moves
  <2> QED
    BY <2>1, <2>2, <2>3 DEF Skips
<1>4. ASSUME Moves(d, b) PROVE Moves(d, c)
  <2>1. Holds(d, c) /\ (c.active.valid => b.active.valid /\ d.active.valid /\ b.active.node.addr = d.active.node.addr)
    BY <1>4, HoldsTrans DEF Keeps, Moves, Holds, HoldsCall, SamePhone
  <2> SUFFICES ASSUME c.active.valid PROVE Skips(d, c) /\ PlanGrows(d, c)
    BY <2>1 DEF Moves, Skips, PlanGrows
  <2>2. /\ b.active.node.plan \subseteq d.active.node.plan \cup b.active.remain
        /\ c.active.node.plan \subseteq b.active.node.plan \cup c.active.remain
        /\ \A p \in b.active.remain : p \in c.active.remain \/ p \notin c.active.node.plan
    BY <1>4, <2>1 DEF Keeps, Moves, PlanGrows
  <2>3. \A a \in Addrs : b.link[a].profs \subseteq c.link[a].profs
    BY DEF Keeps, Holds, KeepsLinks
  <2>4. Skips(d, b)
    BY <1>4 DEF Moves
  <2>5. Skips(d, c)
    BY <2>1, <2>2, <2>3, <2>4 DEF Skips
  <2> QED
    BY <2>2, <2>5 DEF PlanGrows
<1> QED
  BY <1>1, <1>2, <1>3, <1>4

-----------------------------------------------------------------------------
(* Small helpers.                                                          *)

\* c has the links and the phone being called of b, and loses no request.
Beside(b, c) ==
    /\ DOMAIN c = Fields
    /\ c.cur = b.cur /\ c.radio = b.radio /\ c.num = b.num
    /\ c.link = b.link /\ c.active = b.active
    /\ KeepsFlag(b, c) /\ (Is(b, "after_stop_sdp") => Is(c, "after_stop_sdp"))
    /\ b.timer \cap {"linkback", "delay"} \subseteq c.timer
    /\ \A o \in b.op : o[1] \in {"stop", "disc", "pdisc"} => o \in c.op
    /\ b.cur = "LINKBACK" => \A o \in c.op : o[1] = "sdp" => o \in b.op
    /\ b.run => c.run

\* Such a record keeps all parts.
LEMMA KeepsBeside == ASSUME NEW b, Formed(b), NEW c, Beside(b, c) PROVE Keeps(b, c)
<1>1. Formed(c)
  BY DEF Beside, Formed, Fits
<1>2. KeepsLinks(b, c) /\ HoldsCall(b, c)
  BY DEF Beside, KeepsLinks, HoldsCall, SamePhone
<1> QED
  BY <1>1, <1>2 DEF Beside, Keeps, Holds, PlanGrows

\* Timers, flags and requests.
LEMMA KeepsSmall ==
    ASSUME NEW b, Formed(b), NEW x
    PROVE  /\ Keeps(b, Start(b, x))
           /\ x \cap {"linkback", "delay"} = {} => Keeps(b, Stop(b, x))
           /\ x # "one_link" => Keeps(b, Set(b, x))
           /\ "after_stop_sdp" \notin x => Keeps(b, Clear(b, x))
           /\ x[1] # "sdp" \/ b.cur # "LINKBACK" => Keeps(b, Ask(b, x))
           /\ x[1] \notin {"stop", "disc", "pdisc"} => Keeps(b, Done(b, x))
           /\ Keeps(b, Run(b))
<1>0. DOMAIN b = Fields
  BY DEF Formed, Fits
<1>1. Keeps(b, Start(b, x))
  <2>1. Beside(b, Start(b, x))
    BY <1>0 DEF Start, Beside, Fields, KeepsFlag, Is
  <2> QED
    BY <2>1, KeepsBeside
<1>2. x \cap {"linkback", "delay"} = {} => Keeps(b, Stop(b, x))
  <2>1. x \cap {"linkback", "delay"} = {} => Beside(b, Stop(b, x))
    BY <1>0 DEF Stop, Beside, Fields, KeepsFlag, Is
  <2> QED
    BY <2>1, KeepsBeside
<1>3. x # "one_link" => Keeps(b, Set(b, x))
  <2>1. x # "one_link" => Beside(b, Set(b, x))
    BY <1>0 DEF Set, Beside, Fields, KeepsFlag, Is
  <2> QED
    BY <2>1, KeepsBeside
<1>4. "after_stop_sdp" \notin x => Keeps(b, Clear(b, x))
  <2>1. "after_stop_sdp" \notin x => Beside(b, Clear(b, x))
    BY <1>0 DEF Clear, Beside, Fields, KeepsFlag, Is
  <2> QED
    BY <2>1, KeepsBeside
<1>5. x[1] # "sdp" \/ b.cur # "LINKBACK" => Keeps(b, Ask(b, x))
  <2>1. x[1] # "sdp" \/ b.cur # "LINKBACK" => Beside(b, Ask(b, x))
    BY <1>0 DEF Ask, Beside, Fields, KeepsFlag, Is
  <2> QED
    BY <2>1, KeepsBeside
<1>6. x[1] \notin {"stop", "disc", "pdisc"} => Keeps(b, Done(b, x))
  <2>1. x[1] \notin {"stop", "disc", "pdisc"} => Beside(b, Done(b, x))
    BY <1>0 DEF Done, Beside, Fields, KeepsFlag, Is
  <2> QED
    BY <2>1, KeepsBeside
<1>7. Keeps(b, Run(b))
  <2>1. Beside(b, Run(b))
    BY <1>0 DEF Run, Beside, Fields, KeepsFlag, Is
  <2> QED
    BY <2>1, KeepsBeside
<1> QED
  BY <1>1, <1>2, <1>3, <1>4, <1>5, <1>6, <1>7

\* A good record is one of the right shape.
LEMMA GoodFormed == ASSUME NEW b, Good(b) PROVE Formed(b)
<1>1. DOMAIN b = Fields
  BY DEF Good, Shaped
<1>2. DOMAIN b.link = Addrs /\ \A a \in Addrs : DOMAIN b.link[a] = LinkFields
  BY DEF Good, LinksOK, Link, LinkFields
<1>3. DOMAIN b.active = ActiveFields /\ DOMAIN b.active.node = NodeFields /\ b.active.cnt \in 0 .. 2
  BY DEF Good, ActiveOK, Active, ActiveFields, NodeFields
<1> QED
  BY <1>1, <1>2, <1>3 DEF Formed, Fits

-----------------------------------------------------------------------------
(* The phone being called.                                                 *)

\* c is b but for the phone being called, which is the same.
LEMMA HoldsActive ==
    ASSUME NEW b, Formed(b), NEW n, DOMAIN n = ActiveFields, DOMAIN n.node = NodeFields,
           n.cnt \in 0 .. 2,
           n.valid => SamePhone(b.active, n), b.active.valid => n.valid \/ b.run,
           b.active.node.plan = {} => n.node.plan = {} \/ "linkback" \in b.timer,
           NEW c, c = [b EXCEPT !.active = n]
    PROVE  Holds(b, c) /\ c.active = n /\ \A f \in Fields \ {"active"} : c[f] = b[f]
<1>1. DOMAIN c = Fields /\ c.active = n /\ \A f \in Fields \ {"active"} : c[f] = b[f]
  BY DEF Formed, Fits, Fields
<1>2. /\ c.cur = b.cur /\ c.radio = b.radio /\ c.num = b.num /\ c.link = b.link /\ c.flag = b.flag
      /\ c.timer = b.timer /\ c.op = b.op /\ c.run = b.run
  BY <1>1 DEF Fields
<1>3. Formed(c)
  BY <1>1, <1>2 DEF Formed, Fits
<1>4. KeepsLinks(b, c) /\ KeepsFlag(b, c)
  BY <1>2 DEF KeepsLinks, KeepsFlag, Is
<1>5. HoldsCall(b, c)
  BY <1>1, <1>2 DEF HoldsCall, Is
<1> QED
  BY <1>1, <1>2, <1>3, <1>4, <1>5 DEF Holds

\* The steps of linkback_run: a profile is done, failed, or all begin anew.
LEMMA StepsHold ==
    ASSUME NEW b, Formed(b)
    PROVE  /\ Holds(b, StepSuc(b)) /\ PlanGrows(b, StepSuc(b))
           /\ b.active.remain \ StepSuc(b).active.remain \subseteq {b.active.doing}
           /\ Moves(b, StepFail(b)) /\ Keeps(b, CallAnew(b))
           /\ \A f \in Fields \ {"active"} : StepSuc(b)[f] = b[f]
<1>0. DOMAIN b.active = ActiveFields /\ DOMAIN b.active.node = NodeFields /\ b.active.cnt \in 0 .. 2
  BY DEF Formed
<1>1. ASSUME NEW m, DOMAIN m = ActiveFields, m.valid = b.active.valid, m.exit = b.active.exit,
             m.node = b.active.node, m.cnt \in 0 .. 2, NEW c, c = [b EXCEPT !.active = m]
      PROVE  /\ Holds(b, c) /\ PlanGrows(b, c) /\ c.active = m
             /\ \A f \in Fields \ {"active"} : c[f] = b[f]
  <2>1. m.valid => SamePhone(b.active, m)
    BY <1>1 DEF SamePhone
  <2>2. Holds(b, c) /\ c.active = m /\ \A f \in Fields \ {"active"} : c[f] = b[f]
    BY <1>0, <1>1, <2>1, HoldsActive
  <2> QED
    BY <1>1, <2>2 DEF PlanGrows
<1>4. /\ Holds(b, StepSuc(b)) /\ PlanGrows(b, StepSuc(b))
      /\ b.active.remain \ StepSuc(b).active.remain \subseteq {b.active.doing}
      /\ \A f \in Fields \ {"active"} : StepSuc(b)[f] = b[f]
  <2> DEFINE r == b.active.remain \ {b.active.doing}
             m == [b.active EXCEPT !.remain = r, !.doing = DoingProf(r), !.sdp_ok = FALSE, !.cnt = 0]
             c == StepSuc(b)
  <2>1. c = [b EXCEPT !.active = m]
    BY DEF StepSuc
  <2>2. b.active.remain \ r \subseteq {b.active.doing}
    OBVIOUS
  <2> HIDE DEF r
  <2>3. /\ DOMAIN m = ActiveFields /\ m.valid = b.active.valid /\ m.exit = b.active.exit
        /\ m.node = b.active.node /\ m.cnt = 0 /\ m.remain = r
    BY <1>0 DEF ActiveFields
  <2> HIDE DEF c, m
  <2>4. /\ Holds(b, c) /\ PlanGrows(b, c) /\ c.active = m /\ \A f \in Fields \ {"active"} : c[f] = b[f]
    BY <1>1, <2>1, <2>3
  <2> QED
    BY <2>2, <2>3, <2>4 DEF c
<1>5. Moves(b, StepFail(b))
  <2> DEFINE r == b.active.remain \ {p \in Profs : p = b.active.doing \/ <<b.active.doing, p>> \in prof_relation}
             m == [b.active EXCEPT !.remain = r, !.doing = DoingProf(r), !.sdp_ok = FALSE, !.cnt = 0]
             l == [b.active EXCEPT !.sdp_ok = FALSE, !.cnt = b.active.cnt + 1]
             c == StepFail(b)
  <2>1. c = IF b.active.cnt < 2 THEN [b EXCEPT !.active = l] ELSE [b EXCEPT !.active = m]
    BY DEF StepFail
  <2>2. /\ b.active.cnt < 2 => b.active.cnt + 1 \in 0 .. 2
        /\ b.active.cnt < 2 \/ b.active.cnt = 2
    BY <1>0
  <2> HIDE DEF r
  <2>3. /\ DOMAIN m = ActiveFields /\ m.valid = b.active.valid /\ m.exit = b.active.exit
        /\ m.node = b.active.node /\ m.cnt = 0
    BY <1>0 DEF ActiveFields
  <2>4. b.active.cnt < 2 =>
          /\ DOMAIN l = ActiveFields /\ l.valid = b.active.valid /\ l.exit = b.active.exit
          /\ l.node = b.active.node /\ l.cnt \in 0 .. 2 /\ l.remain = b.active.remain
    BY <1>0, <2>2 DEF ActiveFields
  <2> HIDE DEF c, m, l
  <2>5. Holds(b, c) /\ PlanGrows(b, c) /\ (b.active.cnt = 2 \/ c.active.remain = b.active.remain)
    BY <1>1, <2>1, <2>2, <2>3, <2>4
  <2> QED
    BY <2>5 DEF Moves, Skips, c
<1>6. Keeps(b, CallAnew(b))
  <2> DEFINE r == b.active.node.plan
             m == [b.active EXCEPT !.remain = r, !.doing = DoingProf(r), !.sdp_ok = FALSE, !.cnt = 0]
             c == CallAnew(b)
  <2>1. c = [b EXCEPT !.active = m]
    BY DEF CallAnew
  <2>3. /\ DOMAIN m = ActiveFields /\ m.valid = b.active.valid /\ m.exit = b.active.exit
        /\ m.node = b.active.node /\ m.cnt = 0 /\ m.remain = b.active.node.plan
    BY <1>0 DEF ActiveFields
  <2> HIDE DEF c, m
  <2>4. Holds(b, c) /\ PlanGrows(b, c) /\ c.active = m
    BY <1>1, <2>1, <2>3
  <2> QED
    BY <2>3, <2>4 DEF Keeps, c
<1> QED
  BY <1>4, <1>5, <1>6

\* What is noted of the phone being called.
LEMMA NotesHold ==
    ASSUME NEW b, Formed(b), NEW u
    PROVE  /\ Keeps(b, [b EXCEPT !.active.sdp_ok = TRUE]) /\ Keeps(b, [b EXCEPT !.active.exit = TRUE])
           /\ Keeps(b, [b EXCEPT !.active.pending = u])
           /\ [b EXCEPT !.active.exit = TRUE].active.exit
<1>0. DOMAIN b.active = ActiveFields /\ DOMAIN b.active.node = NodeFields /\ b.active.cnt \in 0 .. 2
  BY DEF Formed
<1>1. ASSUME NEW n, DOMAIN n = ActiveFields, n.valid = b.active.valid, n.node = b.active.node,
             n.remain = b.active.remain, n.cnt = b.active.cnt, b.active.exit => n.exit
      PROVE  Keeps(b, [b EXCEPT !.active = n]) /\ [b EXCEPT !.active = n].active = n
  <2> DEFINE c == [b EXCEPT !.active = n]
  <2>1. n.valid => SamePhone(b.active, n)
    BY <1>1 DEF SamePhone
  <2>2. Holds(b, c) /\ c.active = n
    BY <1>0, <1>1, <2>1, HoldsActive
  <2> HIDE DEF c
  <2>3. Keeps(b, c)
    BY <1>1, <2>2 DEF Keeps, PlanGrows
  <2> QED
    BY <2>2, <2>3 DEF c
<1>2. Keeps(b, [b EXCEPT !.active.sdp_ok = TRUE])
  <2> DEFINE n == [b.active EXCEPT !.sdp_ok = TRUE]
  <2>1. /\ DOMAIN n = ActiveFields /\ n.valid = b.active.valid /\ n.node = b.active.node
        /\ n.remain = b.active.remain /\ n.cnt = b.active.cnt /\ n.exit = b.active.exit
    BY <1>0 DEF ActiveFields
  <2>2. [b EXCEPT !.active.sdp_ok = TRUE] = [b EXCEPT !.active = n]
    OBVIOUS
  <2> HIDE DEF n
  <2> QED
    BY <1>1, <2>1, <2>2
<1>3. Keeps(b, [b EXCEPT !.active.exit = TRUE]) /\ [b EXCEPT !.active.exit = TRUE].active.exit
  <2> DEFINE n == [b.active EXCEPT !.exit = TRUE]
  <2>1. /\ DOMAIN n = ActiveFields /\ n.valid = b.active.valid /\ n.node = b.active.node
        /\ n.remain = b.active.remain /\ n.cnt = b.active.cnt /\ n.exit
    BY <1>0 DEF ActiveFields
  <2>2. [b EXCEPT !.active.exit = TRUE] = [b EXCEPT !.active = n]
    OBVIOUS
  <2> HIDE DEF n
  <2> QED
    BY <1>1, <2>1, <2>2
<1>4. Keeps(b, [b EXCEPT !.active.pending = u])
  <2> DEFINE n == [b.active EXCEPT !.pending = u]
  <2>1. /\ DOMAIN n = ActiveFields /\ n.valid = b.active.valid /\ n.node = b.active.node
        /\ n.remain = b.active.remain /\ n.cnt = b.active.cnt /\ n.exit = b.active.exit
    BY <1>0 DEF ActiveFields
  <2>2. [b EXCEPT !.active.pending = u] = [b EXCEPT !.active = n]
    OBVIOUS
  <2> HIDE DEF n
  <2> QED
    BY <1>1, <2>1, <2>2
<1> QED
  BY <1>2, <1>3, <1>4

\* What the user asks for, or gives up, of the phone being called.
LEMMA PlansHold ==
    ASSUME NEW b, Formed(b), NEW profs
    PROVE  /\ Keeps(b, Start(RemainAdd(b, profs), "linkback")) /\ Keeps(b, RemainSub(b, profs))
           /\ RemainSub(b, profs).active.node.plan = b.active.node.plan \ profs
           /\ RemainSub(b, profs).active.node.addr = b.active.node.addr
           /\ \A f \in Fields \ {"active"} : RemainSub(b, profs)[f] = b[f]
<1>0. DOMAIN b.active = ActiveFields /\ DOMAIN b.active.node = NodeFields /\ b.active.cnt \in 0 .. 2
      /\ DOMAIN b = Fields
  BY DEF Formed, Fits
<1>1. Keeps(b, Start(RemainAdd(b, profs), "linkback"))
  <2> DEFINE d == Start(b, "linkback")
             n == [b.active EXCEPT !.node.plan = @ \cup profs, !.remain = @ \cup profs,
                                   !.node.retry = LinkbackTime, !.node.group = FALSE,
                                   !.node.check = FALSE]
             c == [d EXCEPT !.active = n]
  <2>1. /\ DOMAIN n = ActiveFields /\ DOMAIN n.node = NodeFields /\ n.valid = b.active.valid
        /\ n.exit = b.active.exit /\ n.cnt = b.active.cnt /\ n.remain = b.active.remain \cup profs
        /\ n.node.addr = b.active.node.addr /\ n.node.force = b.active.node.force
        /\ n.node.plan = b.active.node.plan \cup profs
    BY <1>0 DEF ActiveFields, NodeFields
  <2>2. d.active = b.active /\ "linkback" \in d.timer
    BY <1>0 DEF Start, Fields
  <2>3. Keeps(b, d) /\ Formed(d)
    BY KeepsSmall DEF Keeps, Holds
  <2>4. Start(RemainAdd(b, profs), "linkback") = c
    <3>1. RemainAdd(b, profs) = [b EXCEPT !.active = n]
      BY AddedPlans
    <3> HIDE DEF n
    <3> QED
      BY <1>0, <3>1 DEF Start, Fields
  <2> HIDE DEF n, d
  <2>5. n.valid => SamePhone(d.active, n)
    BY <2>1, <2>2 DEF SamePhone
  <2>6. Holds(d, c) /\ c.active = n
    BY <1>0, <2>1, <2>2, <2>3, <2>5, HoldsActive
  <2> HIDE DEF c
  <2>7. Keeps(d, c)
    BY <2>1, <2>2, <2>6 DEF Keeps, PlanGrows
  <2> QED
    BY <2>3, <2>4, <2>7, KeepsTrans
<1>2. /\ Keeps(b, RemainSub(b, profs))
      /\ RemainSub(b, profs).active.node.plan = b.active.node.plan \ profs
      /\ RemainSub(b, profs).active.node.addr = b.active.node.addr
      /\ \A f \in Fields \ {"active"} : RemainSub(b, profs)[f] = b[f]
  <2> DEFINE n == [b.active EXCEPT !.node.plan = @ \ profs, !.remain = @ \ profs]
             c == RemainSub(b, profs)
  <2>1. /\ DOMAIN n = ActiveFields /\ DOMAIN n.node = NodeFields /\ n.valid = b.active.valid
        /\ n.exit = b.active.exit /\ n.cnt = b.active.cnt /\ n.remain = b.active.remain \ profs
        /\ n.node.addr = b.active.node.addr /\ n.node.force = b.active.node.force
        /\ n.node.plan = b.active.node.plan \ profs
    BY <1>0 DEF ActiveFields, NodeFields
  <2>2. c = [b EXCEPT !.active = n]
    BY DEF RemainSub
  <2>3. n.valid => SamePhone(b.active, n)
    BY <2>1 DEF SamePhone
  <2> HIDE DEF n, c
  <2>4. Holds(b, c) /\ c.active = n /\ \A f \in Fields \ {"active"} : c[f] = b[f]
    BY <1>0, <2>1, <2>2, <2>3, HoldsActive
  <2>5. Keeps(b, c)
    BY <2>1, <2>4 DEF Keeps, PlanGrows
  <2> QED
    BY <2>1, <2>4, <2>5 DEF c
<1> QED
  BY <1>1, <1>2

\* linkback_run gives the phone up.
LEMMA GivenUpHolds ==
    ASSUME NEW b, Formed(b)
    PROVE  /\ Formed(Invalid(b)) /\ ~Invalid(b).active.valid /\ Invalid(b).active.node.addr = b.active.node.addr
           /\ \A f \in Fields \ {"active"} : Invalid(b)[f] = b[f]
           /\ b.run => Keeps(b, Invalid(b))
<1> DEFINE n == [NoActive EXCEPT !.node.addr = b.active.node.addr, !.pending = b.active.pending]
           c == Invalid(b)
<1>1. /\ DOMAIN n = ActiveFields /\ DOMAIN n.node = NodeFields /\ ~n.valid /\ n.cnt = 0
      /\ n.node.addr = b.active.node.addr /\ n.node.plan = {}
  BY DEF NoActive, NoNode, ActiveFields, NodeFields
<1>2. c = [b EXCEPT !.active = n]
  BY DEF Invalid
<1> HIDE DEF n, c
<1>3. c.active = n /\ DOMAIN c = Fields /\ \A f \in Fields \ {"active"} : c[f] = b[f]
  BY <1>2 DEF Formed, Fits, Fields
<1>4. Formed(c)
  BY <1>1, <1>3 DEF Formed, Fits, Fields
<1>5. ASSUME b.run PROVE Keeps(b, c)
  <2>1. Holds(b, c)
    BY <1>1, <1>2, <1>5, HoldsActive
  <2> QED
    BY <1>1, <1>3, <2>1 DEF Keeps, PlanGrows
<1> QED
  BY <1>1, <1>3, <1>4, <1>5 DEF c

-----------------------------------------------------------------------------
(* States that are entered.                                                *)

\* What is needed to enter a state.
Base(b) == Formed(b) /\ b.num \in Nat /\ Counted(b) /\ Known(b) /\ Spare(b)

\* c has the links of b in a mode that suits them.
Settles(b, c) ==
    /\ Formed(c) /\ KeepsLinks(b, c) /\ c.active = b.active
    /\ Spare(c) /\ Shut(c)

\* A house full of known phones is full; the only link is that of the only known phone.
LEMMA FullIsFull ==
    ASSUME NEW b, b.num \in Nat, Counted(b), Known(b)
    PROVE  /\ Full(b) => IsFull(b)
           /\ \A a \in Addrs : b.num = 1 /\ b.link[a].used => \A x \in Authed(b) : x = a
<1>1. IsFiniteSet(Addrs) /\ NumMax \in Nat
  BY BtPolicyAssumption DEF BtPolicyAssumption
<1>2. Authed(b) \subseteq UsedLinks(b) /\ UsedLinks(b) \subseteq Addrs
  BY DEF Known, Authed, UsedLinks
<1>3. IsFiniteSet(UsedLinks(b)) /\ IsFiniteSet(Authed(b))
  BY <1>1, <1>2, FS_Subset
<1>4. Cardinality(Authed(b)) <= Cardinality(UsedLinks(b)) /\ Cardinality(Authed(b)) \in Nat
  BY <1>2, <1>3, FS_Subset, FS_CardinalityType
<1>5. Full(b) => IsFull(b)
  BY <1>1, <1>4 DEF Full, IsFull, Counted
<1>6. ASSUME NEW a \in Addrs, b.num = 1, b.link[a].used, NEW x \in Authed(b) PROVE x = a
  <2>1. PICK y : UsedLinks(b) = {y}
    BY <1>3, <1>6, FS_Singleton DEF Counted
  <2> QED
    BY <1>2, <1>6, <2>1 DEF UsedLinks
<1> QED
  BY <1>5, <1>6

\* Where nobody is called, or linkback_run goes on, the call is fine.
LEMMA NotCalling == ASSUME NEW b PROVE /\ b.cur # "LINKBACK" => CallFine(b)
                                       /\ b.run /\ (~b.active.valid \/ b.active.exit) => CallFine(b)
                                       /\ b.run /\ Pursued(b) => CallFine(b)
                                       /\ b.cur # "CONNECTED" => Shut(b)
BY DEF CallFine, Pursued, Halted, Called, Shut

\* enter_state settles the links in every state.
LEMMA EnterSettles ==
    ASSUME NEW b, Base(b), NEW s, NEW m, NEW u, s = "CONNECTED" /\ IsFull(b) => m = "IDLE"
    PROVE  /\ Settles(b, EnterState(b, s, m, u)) /\ EnterState(b, s, m, u).cur = s
           /\ \A f \in Fields \ {"cur", "radio", "timer", "flag", "run"} : EnterState(b, s, m, u)[f] = b[f]
           /\ EnterState(b, s, m, u).run = ((b.cur # s \/ u) /\ s = "LINKBACK")
           /\ EnterState(b, s, m, u).flag \subseteq b.flag
<1> DEFINE c == EnterState(b, s, m, u)
<1>0. DOMAIN b = Fields
  BY DEF Base, Formed, Fits
<1>1. DOMAIN c = Fields /\ \A f \in Fields \ {"cur", "radio", "timer", "flag", "run"} : c[f] = b[f]
  BY <1>0 DEF EnterState, Fields
<1>2. /\ c.cur = s /\ c.flag = (IF s \in Stable THEN b.flag \ {"one_link"} ELSE b.flag)
      /\ c.run = ((b.cur # s \/ u) /\ s = "LINKBACK")
  BY <1>0 DEF EnterState, Fields
<1>3. c.link = b.link /\ c.num = b.num /\ c.op = b.op /\ c.active = b.active
  BY <1>1 DEF Fields
<1>4. ASSUME Roomy, s = "CONNECTED", Full(b)
      PROVE  c.radio = IF On("easy_connection_switch") THEN "CONNECTABLE" ELSE "IDLE"
  <2>1. IsFull(b) /\ m = "IDLE"
    BY <1>4, FullIsFull DEF Base
  <2>2. ~Is(b, "one_link")
    <3>1. CASE Quiet /\ ~On("enter_pairing_while_only_one_device_connected")
      BY <3>1 DEF Base, Spare
    <3>2. CASE NumMax > 1
      <4>1. ASSUME \A x, y \in Authed(b) : x = y PROVE FALSE
        <5>1. Authed(b) = {} \/ \E x : Authed(b) = {x}
          BY <4>1
        <5>2. Cardinality(Authed(b)) \in {0, 1}
          BY <5>1, FS_Singleton, FS_EmptySet
        <5> QED
          BY <1>4, <3>2, <5>2, BtPolicyAssumption DEF Full, BtPolicyAssumption
      <4> QED
        BY <4>1 DEF Base, Spare
    <3> QED
      BY <1>4, <3>1, <3>2 DEF Roomy
  <2>3. ~(b.num = 1 /\ On("enable_multi_link") /\ On("enable_always_discoverable"))
    BY <1>4, <2>1, BtPolicyAssumption DEF Roomy, Quiet, IsFull, Base, BtPolicyAssumption
  <2> QED
    BY <1>0, <1>4, <2>1, <2>2, <2>3 DEF EnterState, Fields, Stable
<1> HIDE DEF c
<1>5. Formed(c) /\ KeepsLinks(b, c)
  BY <1>1, <1>3 DEF Base, Formed, Fits, KeepsLinks
<1>6. Authed(c) = Authed(b)
  BY <1>3 DEF Authed
<1>7. Spare(c)
  BY <1>2, <1>6 DEF Base, Spare, Is
<1>8. Shut(c)
  BY <1>2, <1>4, <1>6 DEF Shut, Full
<1> QED
  BY <1>1, <1>2, <1>3, <1>5, <1>7, <1>8 DEF Settles, c

\* And so it does after what keeps the links.
LEMMA SettlesAfter ==
    ASSUME NEW b, NEW c, KeepsLinks(b, c), c.active = b.active, NEW d, Settles(c, d)
    PROVE  Settles(b, d)
<1>1. KeepsLinks(b, d)
  BY OpParts DEF Settles, KeepsLinks
<1> QED
  BY <1>1 DEF Settles

\* The three stable states.
LEMMA StatesSettle ==
    ASSUME NEW b, Base(b), NEW u
    PROVE  /\ Settles(b, Pair(b, u)) /\ Pair(b, u).cur = "PAIRING"
           /\ Settles(b, Standby(b, u)) /\ Standby(b, u).cur = "STANDBY"
           /\ Settles(b, Connected(b)) /\ Connected(b).cur = "CONNECTED"
           /\ Base(Settle(b)) /\ KeepsLinks(b, Settle(b)) /\ Settle(b).active = b.active
           /\ Settle(b).cur = b.cur
<1>1. Settles(b, Pair(b, u)) /\ Pair(b, u).cur = "PAIRING"
  BY EnterSettles DEF Pair
<1>2. Settles(b, Standby(b, u)) /\ Standby(b, u).cur = "STANDBY"
  BY EnterSettles DEF Standby
<1>3. Settles(b, Connected(b)) /\ Connected(b).cur = "CONNECTED"
  <2>1. \A w : LET c == EnterState(b, "CONNECTED", IF IsFull(b) THEN "IDLE" ELSE "CONNECTABLE", w)
              IN  Settles(b, c) /\ c.cur = "CONNECTED"
    BY EnterSettles
  <2> QED
    BY <2>1, Zenon DEF Connected
<1>4. /\ Base(Settle(b)) /\ KeepsLinks(b, Settle(b)) /\ Settle(b).active = b.active
      /\ Settle(b).cur = b.cur
  <2> DEFINE c == Settle(b)
  <2>1. /\ DOMAIN c = Fields /\ c.link = b.link /\ c.num = b.num /\ c.op = b.op /\ c.active = b.active
        /\ c.cur = b.cur /\ c.flag = b.flag \cup {"startup_done"}
    BY DEF Settle, Set, Stop, Base, Formed, Fits, Fields
  <2> HIDE DEF c
  <2>2. Authed(c) = Authed(b)
    BY <2>1 DEF Authed
  <2> QED
    BY <2>1, <2>2 DEF Base, Formed, Fits, Counted, UsedLinks, Known, Spare, Is, KeepsLinks, c
<1> QED
  BY <1>1, <1>2, <1>3, <1>4

\* Flags that are set or cleared afterwards change nothing.
LEMMA FlagSettles ==
    ASSUME NEW b, NEW c, Settles(b, c)
    PROVE  /\ Settles(b, Settled(c)) /\ Settled(c).cur = c.cur
           /\ \A f : Settles(b, Clear(c, f)) /\ Clear(c, f).cur = c.cur
<1>0. DOMAIN c = Fields
  BY DEF Settles, Formed, Fits
<1>1. ASSUME NEW d, DOMAIN d = Fields, \A f \in Fields \ {"flag"} : d[f] = c[f],
             d.flag \subseteq c.flag \cup {"power_on_done"}
      PROVE  Settles(b, d) /\ d.cur = c.cur
  <2>1. /\ d.link = c.link /\ d.num = c.num /\ d.op = c.op /\ d.active = c.active
        /\ d.cur = c.cur /\ d.radio = c.radio
    BY <1>1 DEF Fields
  <2>2. Authed(d) = Authed(c) /\ Is(d, "one_link") => Is(c, "one_link")
    BY <1>1, <2>1 DEF Authed, Is
  <2> QED
    BY <1>1, <2>1, <2>2 DEF Settles, Formed, Fits, KeepsLinks, Spare, Is, Shut, Full, Authed
<1>2. Settles(b, Settled(c)) /\ Settled(c).cur = c.cur
  <2> DEFINE d == Settled(c)
  <2>1. DOMAIN d = Fields /\ (\A f \in Fields \ {"flag"} : d[f] = c[f]) /\ d.flag \subseteq c.flag \cup {"power_on_done"}
    BY <1>0 DEF Settled, Set, Fields
  <2> HIDE DEF d
  <2> QED
    BY <1>1, <2>1 DEF d
<1>3. ASSUME NEW f PROVE Settles(b, Clear(c, f)) /\ Clear(c, f).cur = c.cur
  <2> DEFINE d == Clear(c, f)
  <2>1. DOMAIN d = Fields /\ (\A g \in Fields \ {"flag"} : d[g] = c[g]) /\ d.flag \subseteq c.flag \cup {"power_on_done"}
    BY <1>0 DEF Clear, Fields
  <2> HIDE DEF d
  <2> QED
    BY <1>1, <2>1 DEF d
<1> QED
  BY <1>2, <1>3

\* linkback is over, or a link came or went, or pairing ends: with its links the
\* headset settles in a stable state.
LEMMA StableSettles ==
    ASSUME NEW b, Base(b), NEW x
    PROVE  /\ Settles(b, StableNormal(b)) /\ StableNormal(b).cur \in Stable
           /\ Settles(b, StableAgain(b, x)) /\ StableAgain(b, x).cur \in Stable
           /\ b.cur \in Stable => Settles(b, StableNotPairing(b, x)) /\ StableNotPairing(b, x).cur \in Stable
<1> DEFINE c == Settle(b)
<1>1. Base(c) /\ KeepsLinks(b, c) /\ c.active = b.active /\ c.cur = b.cur
  BY StatesSettle
<1> HIDE DEF c
<1>0. {"PAIRING", "STANDBY", "CONNECTED"} = Stable
  BY DEF Stable
<1>2. \A u : Settles(c, Pair(c, u)) /\ Pair(c, u).cur \in Stable
  BY <1>0, <1>1, StatesSettle
<1>3. \A u : Settles(c, Standby(c, u)) /\ Standby(c, u).cur \in Stable
  BY <1>0, <1>1, StatesSettle
<1>4. Settles(c, Connected(c)) /\ Connected(c).cur \in Stable
  BY <1>0, <1>1, StatesSettle
<1>5. ASSUME NEW d, Settles(c, d), d.cur \in Stable PROVE Settles(b, Settled(d)) /\ Settled(d).cur \in Stable
  BY <1>1, <1>5, SettlesAfter, FlagSettles
<1>6. Settles(b, StableNormal(b)) /\ StableNormal(b).cur \in Stable
  <2> DEFINE pairs == /\ ~Is(c, "linkback") \/ On("enable_power_on_linkback_fail_enter_pairing")
                      /\ ~c.call
                      /\ ~Is(c, "power_on_done")
             d == CASE ~IsEmpty(c) -> Connected(c)
                    [] IsEmpty(c) /\ pairs  -> Pair(c, FALSE)
                    [] IsEmpty(c) /\ ~pairs -> Standby(c, FALSE)
  <2>1. Settles(c, d) /\ d.cur \in Stable
    <3>1. Settles(c, Pair(c, FALSE)) /\ Pair(c, FALSE).cur \in Stable
      BY <1>2, Zenon
    <3>2. Settles(c, Standby(c, FALSE)) /\ Standby(c, FALSE).cur \in Stable
      BY <1>3, Zenon
    <3> HIDE DEF pairs
    <3> QED
      BY <1>4, <3>1, <3>2
  <2>2. StableNormal(b) = Settled(Clear(d, {"linkback"}))
    BY Zenon DEF StableNormal, c
  <2> HIDE DEF d
  <2>3. Settles(c, Clear(d, {"linkback"})) /\ Clear(d, {"linkback"}).cur \in Stable
    BY <2>1, FlagSettles
  <2> QED
    BY <1>5, <2>2, <2>3
<1>7. Settles(b, StableAgain(b, x)) /\ StableAgain(b, x).cur \in Stable
  <2> DEFINE normal == x = "SRC_DISCONN_NORMAL"
             again  == normal /\ DisconnectPairs(c)
             stays  == c.cur = "PAIRING" /\ (IsEmpty(c) \/ x # "SRC_AUTH_SUC")
             u      == IF IsEmpty(c) THEN again ELSE normal
             d == IF (stays \/ again) /\ ~c.call THEN Pair(c, u)
                  ELSE IF IsEmpty(c) THEN Standby(c, FALSE) ELSE Connected(c)
  <2>1. StableAgain(b, x) = Settled(d)
    BY Zenon DEF StableAgain, c
  <2>2. Settles(c, Standby(c, FALSE)) /\ Standby(c, FALSE).cur \in Stable
    BY <1>3, Zenon
  <2>3. Settles(c, d) /\ d.cur \in Stable
    <3> HIDE DEF again, stays, normal, u
    <3> QED
      BY <1>2, <1>4, <2>2
  <2> HIDE DEF d
  <2> QED
    BY <1>5, <2>1, <2>3
<1>8. ASSUME b.cur \in Stable
      PROVE  Settles(b, StableNotPairing(b, x)) /\ StableNotPairing(b, x).cur \in Stable
  <2> DEFINE asks == /\ x /\ On("enable_pairing_timeout_to_power_off")
                     /\ \A a \in Addrs : c.bond[a] = {}
             d == CASE ~IsEmpty(c) -> Connected(c)
                    [] IsEmpty(c) /\ asks  -> Ask(c, Op("off", NoAddr))
                    [] IsEmpty(c) /\ ~asks -> Standby(c, FALSE)
  <2>1. StableNotPairing(b, x) = Settled(d)
    BY Zenon DEF StableNotPairing, c
  <2>2. Settles(c, Standby(c, FALSE)) /\ Standby(c, FALSE).cur \in Stable
    BY <1>3, Zenon
  <2>3. ASSUME IsEmpty(c) PROVE Settles(c, Ask(c, Op("off", NoAddr))) /\ Ask(c, Op("off", NoAddr)).cur \in Stable
    <3> DEFINE e == Ask(c, Op("off", NoAddr))
    <3>1. DOMAIN e = Fields /\ (\A f \in Fields \ {"op"} : e[f] = c[f]) /\ c.op \subseteq e.op
      BY <1>1 DEF Ask, Base, Formed, Fits, Fields
    <3> HIDE DEF e
    <3>2. /\ e.link = c.link /\ e.num = c.num /\ e.active = c.active /\ e.cur = c.cur
          /\ e.radio = c.radio /\ e.flag = c.flag
      BY <3>1 DEF Fields
    <3>3. Authed(e) = Authed(c) /\ ~Full(c)
      BY <1>1, <2>3, <3>2, FullIsFull, BtPolicyAssumption
      DEF Authed, Base, IsEmpty, IsFull, BtPolicyAssumption
    <3> QED
      BY <1>1, <1>8, <3>1, <3>2, <3>3
      DEF Settles, Base, Formed, Fits, KeepsLinks, Spare, Is, Shut, Full, e
  <2>5. Settles(c, d) /\ d.cur \in Stable
    <3> HIDE DEF asks
    <3> QED
      BY <1>4, <2>2, <2>3
  <2> HIDE DEF d
  <2> QED
    BY <1>5, <2>1, <2>5
<1> QED
  BY <1>6, <1>7, <1>8

\* With its links settled the policy is fine.
LEMMA QuickSettled ==
    ASSUME NEW b, LinksFine(b), NEW c, Settles(b, c), Over(c) => Over(b),
           c.cur # "LINKBACK" \/ CallFine(c)
    PROVE  Quick(c)
BY LinksKept, NotCalling DEF Settles, Quick

\* What a fine and good record has.
LEMMA QuickEnough ==
    ASSUME NEW b, Good(b), Counted(b), Quick(b) PROVE Base(b) /\ LinksFine(b)
BY GoodFormed DEF Base, Good, Simple, Quick, LinksFine

-----------------------------------------------------------------------------
(* Links and requests.                                                     *)

\* Only the requests differ, and none is lost that brings a link down.
LEMMA OpsKeep ==
    ASSUME NEW b, Formed(b), NEW s, NEW c, c = [b EXCEPT !.op = s],
           \A o \in b.op : o[1] \in {"stop", "disc", "pdisc"} => o \in s,
           b.cur = "LINKBACK" => \A o \in s : o[1] = "sdp" => o \in b.op
    PROVE  Keeps(b, c) /\ c.op = s /\ \A f \in Fields \ {"op"} : c[f] = b[f]
<1>1. DOMAIN c = Fields /\ c.op = s /\ \A f \in Fields \ {"op"} : c[f] = b[f]
  BY DEF Formed, Fits, Fields
<1>2. Beside(b, c)
  BY <1>1 DEF Beside, Fields, KeepsFlag, Is
<1> QED
  BY <1>1, <1>2, KeepsBeside

\* A search that is stopped.
LEMMA StopSearchKeeps ==
    ASSUME NEW b, Formed(b), NEW a
    PROVE  /\ Keeps(b, StopSearch(b, a)) /\ Op("stop", a) \in StopSearch(b, a).op
           /\ \A f \in Fields \ {"op"} : StopSearch(b, a)[f] = b[f]
<1> DEFINE paged == ~Linked(b, a) /\ Op("sdp", a) \in b.op
           s == (b.op \ {Op("sdp", a)}) \cup {Op("stop", a)} \cup (IF paged THEN {Op("page", a)} ELSE {})
<1>1. StopSearch(b, a) = [b EXCEPT !.op = s]
  BY DEF StopSearch
<1>2. \A o \in s : o \in b.op \/ o = Op("stop", a) \/ o = Op("page", a)
  OBVIOUS
<1>3. (\A o \in b.op : o \in s \/ o = Op("sdp", a)) /\ Op("stop", a) \in s
  OBVIOUS
<1> HIDE DEF s, paged
<1>4. /\ \A o \in b.op : o[1] \in {"stop", "disc", "pdisc"} => o \in s
      /\ \A o \in s : o[1] = "sdp" => o \in b.op
  BY <1>2, <1>3, OpParts
<1> DEFINE c == StopSearch(b, a)
<1> HIDE DEF c
<1>5. Keeps(b, c) /\ c.op = s /\ \A f \in Fields \ {"op"} : c[f] = b[f]
  BY <1>1, <1>4, OpsKeep DEF c
<1> QED
  BY <1>3, <1>5 DEF c

\* One link has more profiles, or is master no longer; its bond may differ.
LEMMA LinkKeeps ==
    ASSUME NEW b, Formed(b), NEW a \in Addrs, NEW l, DOMAIN l = LinkFields,
           l.used = b.link[a].used, l.auth = b.link[a].auth, l.drop = b.link[a].drop,
           l.master => b.link[a].master, b.link[a].profs \subseteq l.profs,
           NEW c, DOMAIN c = Fields, c.link = [b.link EXCEPT ![a] = l],
           \A f \in Fields \ {"link", "bond"} : c[f] = b[f]
    PROVE  Keeps(b, c)
<1>1. /\ c.cur = b.cur /\ c.radio = b.radio /\ c.num = b.num /\ c.active = b.active /\ c.op = b.op
      /\ c.timer = b.timer /\ c.flag = b.flag /\ c.run = b.run
  BY DEF Fields
<1>2. DOMAIN c.link = Addrs /\ c.link[a] = l /\ \A x \in Addrs : x # a => c.link[x] = b.link[x]
  BY DEF Formed, Fits
<1>3. Formed(c)
  BY <1>1, <1>2 DEF Formed, Fits
<1>4. KeepsLinks(b, c)
  BY <1>1, <1>2 DEF KeepsLinks
<1>5. KeepsFlag(b, c) /\ HoldsCall(b, c)
  BY <1>1 DEF KeepsFlag, HoldsCall, SamePhone, Is
<1> QED
  BY <1>1, <1>3, <1>4, <1>5 DEF Keeps, Holds, PlanGrows

\* The fields of a link that matter little.
LEMMA LinkFieldKeeps ==
    ASSUME NEW b, Formed(b), NEW a \in Addrs, NEW p, NEW u
    PROVE  /\ Keeps(b, Bond(b, a, p)) /\ p \in Bond(b, a, p).link[a].profs
           /\ Keeps(b, [b EXCEPT !.link[a].later = u])
           /\ [b EXCEPT !.link[a].later = u].link[a].profs = b.link[a].profs
           /\ Keeps(b, [b EXCEPT !.link[a].master = FALSE])
           /\ [b EXCEPT !.link[a].master = FALSE].active = b.active
<1>0. /\ DOMAIN b = Fields /\ DOMAIN b.link = Addrs /\ DOMAIN b.link[a] = LinkFields
  BY DEF Formed, Fits
<1>1. Keeps(b, Bond(b, a, p)) /\ p \in Bond(b, a, p).link[a].profs
  <2> DEFINE l == [b.link[a] EXCEPT !.profs = @ \cup {p}]
             c == Bond(b, a, p)
  <2>1. /\ DOMAIN c = Fields /\ c.link = [b.link EXCEPT ![a] = l]
        /\ \A f \in Fields \ {"link", "bond"} : c[f] = b[f]
    BY <1>0 DEF Bond, Fields
  <2>2. /\ DOMAIN l = LinkFields /\ l.used = b.link[a].used /\ l.auth = b.link[a].auth
        /\ l.drop = b.link[a].drop /\ l.master = b.link[a].master /\ l.profs = b.link[a].profs \cup {p}
    BY <1>0 DEF LinkFields
  <2> HIDE DEF l, c
  <2>3. c.link[a] = l
    BY <1>0, <2>1
  <2>4. Keeps(b, c)
    BY <2>1, <2>2, LinkKeeps
  <2> QED
    BY <2>2, <2>3, <2>4 DEF c
<1>2. /\ Keeps(b, [b EXCEPT !.link[a].later = u])
      /\ [b EXCEPT !.link[a].later = u].link[a].profs = b.link[a].profs
  <2> DEFINE l == [b.link[a] EXCEPT !.later = u]
             c == [b EXCEPT !.link[a].later = u]
  <2>1. /\ DOMAIN c = Fields /\ c.link = [b.link EXCEPT ![a] = l]
        /\ \A f \in Fields \ {"link", "bond"} : c[f] = b[f]
    BY <1>0 DEF Fields
  <2>2. /\ DOMAIN l = LinkFields /\ l.used = b.link[a].used /\ l.auth = b.link[a].auth
        /\ l.drop = b.link[a].drop /\ l.master = b.link[a].master /\ l.profs = b.link[a].profs
    BY <1>0 DEF LinkFields
  <2> HIDE DEF l, c
  <2>3. c.link[a] = l
    BY <1>0, <2>1
  <2>4. Keeps(b, c)
    BY <2>1, <2>2, LinkKeeps
  <2> QED
    BY <2>2, <2>3, <2>4 DEF c
<1>3. /\ Keeps(b, [b EXCEPT !.link[a].master = FALSE])
      /\ [b EXCEPT !.link[a].master = FALSE].active = b.active
  <2> DEFINE l == [b.link[a] EXCEPT !.master = FALSE]
             c == [b EXCEPT !.link[a].master = FALSE]
  <2>1. /\ DOMAIN c = Fields /\ c.link = [b.link EXCEPT ![a] = l] /\ c.active = b.active
        /\ \A f \in Fields \ {"link", "bond"} : c[f] = b[f]
    BY <1>0 DEF Fields
  <2>2. /\ DOMAIN l = LinkFields /\ l.used = b.link[a].used /\ l.auth = b.link[a].auth
        /\ l.drop = b.link[a].drop /\ ~l.master /\ l.profs = b.link[a].profs
    BY <1>0 DEF LinkFields
  <2> HIDE DEF l, c
  <2>4. Keeps(b, c)
    BY <2>1, <2>2, LinkKeeps
  <2> QED
    BY <2>1, <2>4 DEF c
<1> QED
  BY <1>1, <1>2, <1>3

\* c is b but for its queue.
LEMMA QueueKeeps ==
    ASSUME NEW b, Formed(b), NEW q, NEW c, c = [b EXCEPT !.queue = q]
    PROVE  Keeps(b, c) /\ \A f \in Fields \ {"queue"} : c[f] = b[f]
<1>1. DOMAIN c = Fields /\ \A f \in Fields \ {"queue"} : c[f] = b[f]
  BY DEF Formed, Fits, Fields
<1>2. Beside(b, c)
  BY <1>1 DEF Beside, Fields, KeepsFlag, Is
<1> QED
  BY <1>1, <1>2, KeepsBeside

\* A phone that is called is asked for more, one that is connected for DID.
LEMMA ConnectKeeps ==
    ASSUME NEW b, Formed(b), NEW a, NEW profs, b.cur \notin Stable \/ profs = {"DID"}
    PROVE  Keeps(b, DedicatedConnect(b, a, profs))
<1>1. Keeps(b, Start(RemainAdd(b, profs), "linkback")) /\ Keeps(b, b)
  BY PlansHold, HoldsRefl
<1>2. Keeps(b, CallFirst(b, a, profs))
  BY QueueKeeps DEF CallFirst
<1>3. b.cur # "LINKBACK" => Keeps(b, Ask(b, Op("sdp", a)))
  BY KeepsSmall
<1>4. \/ DedicatedConnect(b, a, profs) = Start(RemainAdd(b, profs), "linkback")
      \/ DedicatedConnect(b, a, profs) = CallFirst(b, a, profs) \/ DedicatedConnect(b, a, profs) = b
      \/ b.cur # "LINKBACK" /\ DedicatedConnect(b, a, profs) = Ask(b, Op("sdp", a))
  BY Zenon DEF DedicatedConnect
<1> QED
  BY <1>1, <1>2, <1>3, <1>4

\* The user, or a link too many, asks a phone to go.
LEMMA DisconnectFacts ==
    ASSUME NEW b, Formed(b), NEW a \in Addrs, NEW profs, NEW c, c = DedicatedDisconnect(b, a, profs)
    PROVE  /\ Formed(c) /\ c.cur = b.cur /\ c.radio = b.radio /\ c.num = b.num /\ c.flag = b.flag
           /\ c.run = b.run /\ HoldsCall(b, c) /\ Skips(b, c)
           /\ \A o \in b.op : o \in c.op
           /\ \A x \in Addrs : /\ c.link[x].used = b.link[x].used /\ c.link[x].auth = b.link[x].auth
                               /\ c.link[x].master = b.link[x].master /\ c.link[x].profs = b.link[x].profs
                               /\ x # a => c.link[x].drop = b.link[x].drop
           /\ ~Linked(b, a) => c.link[a].drop = b.link[a].drop
           /\ Linked(b, a) => /\ c.link[a].drop => Led(c, a)
                              /\ b.link[a].profs \subseteq profs => c.link[a].drop
<1> DEFINE d    == IF IsCurrent(b, a) THEN RemainSub(b, profs) ELSE b
           e    == [d EXCEPT !.queue = Q!RemovePlan(@, a, profs)]
           plan == profs \cap b.link[a].profs
           l    == [b.link[a] EXCEPT !.drop = (plan = b.link[a].profs)]
           ops  == IF plan = {} THEN {Op("disc", a)} ELSE {"pdisc"} \X {a} \X plan
<1>1. c = IF ~Linked(b, a) THEN e ELSE DisconnectProfs([e EXCEPT !.link[a].drop = (plan = b.link[a].profs)], a, plan)
  BY DEF DedicatedDisconnect
<1>2. Keeps(b, d) /\ \A f \in Fields \ {"active"} : d[f] = b[f]
  BY PlansHold, HoldsRefl
<1> HIDE DEF d
<1>3. Formed(d)
  BY <1>2 DEF Keeps, Holds
<1>4. Keeps(d, e) /\ \A f \in Fields \ {"queue"} : e[f] = d[f]
  BY <1>3, QueueKeeps
<1> HIDE DEF e
<1>5. Keeps(b, e) /\ \A f \in Fields \ {"active", "queue"} : e[f] = b[f]
  BY <1>2, <1>4, KeepsTrans
<1>6. /\ e.cur = b.cur /\ e.radio = b.radio /\ e.num = b.num /\ e.flag = b.flag /\ e.op = b.op
      /\ e.timer = b.timer /\ e.run = b.run /\ e.link = b.link /\ Formed(e) /\ HoldsCall(b, e)
  BY <1>5 DEF Fields, Keeps, Holds
<1>7. Skips(b, e)
  BY <1>5, KeepsTrans DEF Moves
<1>8. CASE ~Linked(b, a)
  BY <1>1, <1>6, <1>7, <1>8
<1>9. CASE Linked(b, a)
  <2>0. /\ DOMAIN e = Fields /\ DOMAIN b.link = Addrs /\ DOMAIN b.link[a] = LinkFields
    BY <1>6 DEF Formed, Fits
  <2>1. /\ DOMAIN c = Fields /\ c.link = [b.link EXCEPT ![a] = l] /\ c.op = b.op \cup ops
        /\ \A f \in Fields \ {"link", "op"} : c[f] = e[f]
    <3> DEFINE u == (plan = b.link[a].profs)
               f == [e EXCEPT !.link[a].drop = u]
    <3> HIDE DEF plan, ops
    <3>1. c = DisconnectProfs(f, a, plan)
      BY <1>1, <1>9
    <3> HIDE DEF u
    <3>2. /\ DOMAIN f = Fields /\ f.link = [b.link EXCEPT ![a] = [b.link[a] EXCEPT !.drop = u]]
          /\ \A g \in Fields \ {"link"} : f[g] = e[g]
      BY <1>6, <2>0 DEF Fields
    <3> HIDE DEF f
    <3>3. c = [f EXCEPT !.op = @ \cup ops]
      BY <3>1 DEF DisconnectProfs, ops
    <3>4. /\ DOMAIN c = Fields /\ c.op = f.op \cup ops /\ \A g \in Fields \ {"op"} : c[g] = f[g]
      BY <3>2, <3>3 DEF Fields
    <3> QED
      BY <1>6, <3>2, <3>4 DEF Fields, u
  <2>2. /\ DOMAIN l = LinkFields /\ l.used = b.link[a].used /\ l.auth = b.link[a].auth
        /\ l.master = b.link[a].master /\ l.profs = b.link[a].profs /\ l.drop = (plan = b.link[a].profs)
    BY <2>0 DEF LinkFields
  <2>3. \A o \in ops : o[1] # "sdp"
    BY OpParts
  <2>4. plan = b.link[a].profs => Op("disc", a) \in ops \/ \E p \in b.link[a].profs : <<"pdisc", a, p>> \in ops
    OBVIOUS
  <2>5. b.link[a].profs \subseteq profs => plan = b.link[a].profs
    OBVIOUS
  <2> HIDE DEF l, ops, plan
  <2>6. /\ c.cur = e.cur /\ c.radio = e.radio /\ c.num = e.num /\ c.flag = e.flag
        /\ c.timer = e.timer /\ c.run = e.run /\ c.active = e.active
    BY <2>1 DEF Fields
  <2>7. c.link[a] = l /\ DOMAIN c.link = Addrs /\ \A x \in Addrs : x # a => c.link[x] = b.link[x]
    BY <2>0, <2>1
  <2>8. Formed(c)
    BY <1>6, <2>1, <2>2, <2>6, <2>7 DEF Formed, Fits
  <2>9. HoldsCall(b, c)
    BY <1>6, <2>1, <2>3, <2>6 DEF HoldsCall, Is
  <2>10. Skips(b, c)
    BY <1>6, <1>7, <2>2, <2>6, <2>7 DEF Skips
  <2>11. c.link[a].drop => Led(c, a)
    BY <2>1, <2>2, <2>4, <2>7 DEF Led
  <2>12. \A x \in Addrs : /\ c.link[x].used = b.link[x].used /\ c.link[x].auth = b.link[x].auth
                          /\ c.link[x].master = b.link[x].master /\ c.link[x].profs = b.link[x].profs
                          /\ x # a => c.link[x].drop = b.link[x].drop
    BY <2>2, <2>7
  <2>13. b.link[a].profs \subseteq profs => c.link[a].drop
    BY <2>2, <2>5, <2>7
  <2>14. \A o \in b.op : o \in c.op
    BY <2>1
  <2> QED
    BY <1>6, <1>9, <2>6, <2>8, <2>9, <2>10, <2>11, <2>12, <2>13, <2>14
<1> QED
  BY <1>8, <1>9

\* It stays so that one link too many is about to go.
LEMMA DisconnectFine ==
    ASSUME NEW b, Formed(b), Known(b), Roles(b), Leads(b), NEW a \in Addrs, NEW profs,
           Few => b.link[a].profs \subseteq profs,
           Marked(b) \/ Linked(b, a),
           NEW c, c = DedicatedDisconnect(b, a, profs)
    PROVE  LinksFine(c) /\ Authed(c) = Authed(b)
<1>1. Known(c) /\ Roles(c) /\ Authed(c) = Authed(b)
  BY DisconnectFacts DEF Known, Roles, Authed
<1>2. Leads(c)
  <2> SUFFICES ASSUME Single, NEW x \in Addrs, c.link[x].drop PROVE Led(c, x)
    BY DEF Leads
  <2>1. CASE b.link[x].drop
    BY <2>1, DisconnectFacts DEF Leads, Led
  <2>2. CASE x = a /\ Linked(b, a)
    BY <2>2, DisconnectFacts
  <2> QED
    BY <2>1, <2>2, DisconnectFacts
<1>3. Marked(c)
  <2> SUFFICES ASSUME Few, Over(c) PROVE \E x \in Addrs : c.link[x].used /\ ToGo(c, x)
    BY DEF Marked
  <2>1. CASE Linked(b, a)
    BY <2>1, DisconnectFacts DEF Linked, ToGo
  <2>2. CASE ~Linked(b, a)
    <3>1. PICK x \in Addrs : b.link[x].used /\ ToGo(b, x)
      BY <2>2, DisconnectFacts DEF Marked, Over
    <3>2. c.link[x].drop = b.link[x].drop
      BY <2>2, DisconnectFacts
    <3> QED
      BY <3>1, <3>2, DisconnectFacts DEF ToGo
  <2> QED
    BY <2>1, <2>2
<1> QED
  BY <1>1, <1>2, <1>3 DEF LinksFine

\* A disconnection that is asked for keeps all parts.
LEMMA QuickDisconnect ==
    ASSUME NEW b, Formed(b), Known(b), Roles(b), Leads(b), Spare(b), Shut(b), CallFine(b),
           NEW a \in Addrs, NEW profs, Few => b.link[a].profs \subseteq profs,
           Marked(b) \/ Linked(b, a),
           NEW c, c = DedicatedDisconnect(b, a, profs)
    PROVE  Quick(c) /\ Skips(b, c) /\ c.radio = b.radio /\ Formed(c) /\ c.cur = b.cur
<1>1. LinksFine(c) /\ Authed(c) = Authed(b)
  BY DisconnectFine
<1>2. /\ Formed(c) /\ c.cur = b.cur /\ c.radio = b.radio /\ c.num = b.num /\ c.flag = b.flag
      /\ HoldsCall(b, c) /\ Skips(b, c) /\ \A o \in b.op : o \in c.op
      /\ \A x : Linked(b, x) => Linked(c, x)
  BY DisconnectFacts DEF Linked
<1>3. CallFine(c)
  BY <1>1, <1>2, CallHeld DEF Full
<1> QED
  BY <1>1, <1>2, <1>3 DEF Quick, Spare, Shut, Is, Full

-----------------------------------------------------------------------------
(* linkback_run.                                                           *)

\* c has the links, the state and the mode of b.
Apart(b, c) == Formed(c) /\ KeepsLinks(b, c) /\ KeepsFlag(b, c) /\ c.cur = b.cur /\ c.radio = b.radio

\* What does not depend on the phone being called holds of such a record.
LEMMA ApartFine ==
    ASSUME NEW b, Base(b), LinksFine(b), NEW c, Apart(b, c)
    PROVE  /\ Base(c) /\ LinksFine(c) /\ Authed(c) = Authed(b)
           /\ Shut(b) => Shut(c)
           /\ Shut(b) /\ CallFine(c) => Quick(c)
<1>1. LinksFine(c) /\ Authed(c) = Authed(b)
  BY LinksKept DEF Apart, KeepsLinks, Over
<1>2. UsedLinks(c) = UsedLinks(b) /\ c.num = b.num
  BY DEF Apart, KeepsLinks, UsedLinks
<1>3. Base(c)
  BY <1>1, <1>2 DEF Apart, Base, Counted, LinksFine, Spare, KeepsFlag
<1>4. Shut(b) => Shut(c)
  BY <1>1 DEF Apart, Shut, Full
<1> QED
  BY <1>1, <1>3, <1>4 DEF Quick, Base

LEMMA ApartTrans ==
    ASSUME NEW b, NEW c PROVE /\ Keeps(b, c) => Apart(b, c)
                              /\ \A d : Apart(b, c) /\ Apart(c, d) => Apart(b, d)
<1>1. Keeps(b, c) => Apart(b, c)
  BY DEF Keeps, Holds, Apart
<1>2. ASSUME NEW d, Apart(b, c), Apart(c, d) PROVE Apart(b, d)
  BY <1>2, OpParts DEF Apart, KeepsLinks, KeepsFlag
<1> QED
  BY <1>1, <1>2

\* Only the fields named differ.
LEMMA ApartFields ==
    ASSUME NEW b, Formed(b), NEW c, DOMAIN c = Fields,
           \A f \in Fields \ {"queue", "active", "run", "timer", "bond", "ind", "call", "step", "cnt"} : c[f] = b[f],
           DOMAIN c.active = ActiveFields /\ DOMAIN c.active.node = NodeFields /\ c.active.cnt \in 0 .. 2
    PROVE  Apart(b, c)
<1>1. /\ c.cur = b.cur /\ c.radio = b.radio /\ c.num = b.num /\ c.link = b.link /\ c.flag = b.flag
      /\ c.op = b.op
  BY DEF Fields
<1> QED
  BY <1>1 DEF Apart, Formed, Fits, KeepsLinks, KeepsFlag, Is

\* With nobody left to call linkback is over.
LEMMA NormalQuick ==
    ASSUME NEW b, Base(b), LinksFine(b), b.cur = "LINKBACK"
    PROVE  Quick(StableNormal(b)) /\ StableNormal(b).active = b.active
<1> DEFINE c == StableNormal(b)
<1>1. \A x : Settles(b, c) /\ c.cur \in Stable
  BY StableSettles
<1> HIDE DEF c
<1>2. Settles(b, c) /\ c.cur \in Stable
  BY <1>1
<1>3. c.cur # "LINKBACK" /\ (Over(c) => Over(b))
  BY <1>2 DEF Stable, Over, Settles, KeepsLinks
<1> QED
  BY <1>2, <1>3, QuickSettled DEF Settles, c

\* The next phone is loaded, or linkback is over.
LEMMA NextPhoneQuick ==
    ASSUME NEW b, Good(b), Counted(b), Quick(b), b.run, ~b.active.valid
    PROVE  Quick(NextPhone(b))
<1> DEFINE c == Load([b EXCEPT !.queue = Tail(@)], Head(b.queue))
           w == Waits(b)
           v == Waits(c)
           y == Start(c, "linkback")
           z == NextPhone(b)
<1>1. b.cur = "LINKBACK" /\ Base(b) /\ LinksFine(b) /\ Shut(b) /\ Formed(b)
  BY QuickEnough DEF Good, Fit, Quick, Base
<1>2. z = CASE b.queue = << >> -> StableNormal(w)
            [] b.queue # << >> /\ ~c.active.valid -> StableNormal(v)
            [] OTHER -> y
  BY Zenon DEF NextPhone
<1>3. b.queue # << >> => Good(c) /\ c.run /\ c.cur = "LINKBACK"
  BY <1>1, LoadFirst
<1>4. \A f \in Fields \ {"queue", "active"} : c[f] = b[f]
  <2> DEFINE d == [b EXCEPT !.queue = Tail(@)]
  <2>1. DOMAIN d = Fields /\ \A f \in Fields \ {"queue"} : d[f] = b[f]
    BY <1>1 DEF Formed, Fits
  <2>0. c = Load(d, Head(b.queue))
    OBVIOUS
  <2> HIDE DEF c, d
  <2>2. DOMAIN c = Fields /\ \A f \in Fields \ {"active"} : c[f] = d[f]
    BY <2>0, <2>1 DEF Load
  <2> QED
    BY <2>1, <2>2
<1> HIDE DEF c
<1>5. b.queue # << >> => Apart(b, c)
  <2>1. b.queue # << >> => Formed(c)
    BY <1>3, GoodFormed
  <2> QED
    BY <1>1, <1>4, <2>1, ApartFields DEF Formed, Fits
<1>6. ASSUME NEW x, Formed(x), Apart(b, x) PROVE Apart(b, Waits(x)) /\ Waits(x).cur = x.cur
  <2> DEFINE u == Waits(x)
  <2>1. DOMAIN u = Fields /\ \A f \in Fields \ {"run"} : u[f] = x[f]
    BY <1>6 DEF Waits, Formed, Fits, Fields
  <2> HIDE DEF u
  <2>2. Apart(x, u)
    BY <1>6, <2>1, ApartFields DEF Formed, Fields
  <2>3. Apart(b, u)
    BY <1>6, <2>2, OpParts DEF Apart, KeepsLinks, KeepsFlag
  <2> QED
    BY <2>1, <2>3 DEF Fields, u
<1>7. CASE b.queue = << >>
  <2>1. Apart(b, b)
    BY <1>1 DEF Apart, KeepsLinks, KeepsFlag
  <2>2. Apart(b, w) /\ w.cur = "LINKBACK"
    BY <1>1, <1>6, <2>1
  <2> HIDE DEF w
  <2>3. Base(w) /\ LinksFine(w)
    BY <1>1, <2>2, ApartFine
  <2> QED
    BY <1>2, <1>7, <2>2, <2>3, NormalQuick
<1>8. CASE b.queue # << >> /\ ~c.active.valid
  <2>2. Apart(b, v) /\ v.cur = "LINKBACK"
    BY <1>3, <1>5, <1>6, <1>8 DEF Apart
  <2> HIDE DEF v
  <2>3. Base(v) /\ LinksFine(v)
    BY <1>1, <2>2, ApartFine
  <2> QED
    BY <1>2, <1>8, <2>2, <2>3, NormalQuick
<1>9. CASE b.queue # << >> /\ c.active.valid
  <2>0. Formed(c) /\ Apart(b, c) /\ c.run
    BY <1>3, <1>5, <1>9 DEF Apart
  <2>1. DOMAIN y = Fields /\ (\A f \in Fields \ {"timer"} : y[f] = c[f]) /\ "linkback" \in y.timer
    BY <2>0 DEF Start, Formed, Fits, Fields
  <2> HIDE DEF y
  <2>2. y.run /\ Formed(y)
    BY <2>0, <2>1 DEF Fields, Formed, Fits
  <2>3. \A f \in Fields \ {"queue", "active", "timer"} : y[f] = b[f]
    BY <1>4, <2>1
  <2>4. Apart(b, y)
    BY <1>1, <2>1, <2>2, <2>3, ApartFields DEF Formed
  <2>5. CallFine(y)
    BY <2>1, <2>2 DEF CallFine, Pursued, Halted, Called
  <2>6. Quick(y)
    BY <1>1, <2>4, <2>5, ApartFine
  <2> QED
    BY <1>2, <1>9, <2>6
<1> QED
  BY <1>7, <1>8, <1>9

\* A phone is called on top of no full house, unless the user wants it.
LEMMA CallPhoneQuick ==
    ASSUME NEW b, Good(b), Counted(b), Quick(b), b.run, b.active.valid, ~b.active.exit, NEW starts,
           Linked(b, b.active.node.addr) \/ ~IsFull(b) \/ b.active.node.force
    PROVE  Quick(CallPhone(b, starts)) /\ Skips(b, CallPhone(b, starts))
<1> DEFINE a == b.active.node.addr
           c == Set(b, "linkback")
           e == Ask(c, Op("sdp", a))
           w == Waits(e)
           z == CallPhone(b, starts)
<1>1. z = StepFail(c) \/ z = w
  BY Zenon DEF CallPhone
<1>2. Base(b) /\ LinksFine(b) /\ Formed(b) /\ DOMAIN b = Fields
  BY QuickEnough DEF Base, Formed, Fits
<1>3. Keeps(b, c)
  BY <1>2, KeepsSmall
<1>4. Quick(StepFail(c)) /\ Skips(b, StepFail(c))
  <2> HIDE DEF c
  <2>1. Moves(c, StepFail(c))
    BY <1>3, StepsHold DEF Keeps, Holds
  <2>2. Holds(b, StepFail(c)) /\ Skips(b, StepFail(c))
    BY <1>3, <2>1, KeepsTrans
  <2> QED
    BY <2>2, QuickHeld
<1>5. Quick(w) /\ Skips(b, w)
  <2>1. /\ DOMAIN w = Fields /\ w.op = b.op \cup {Op("sdp", a)} /\ w.flag = b.flag \cup {"linkback"} /\ ~w.run
        /\ \A f \in Fields \ {"op", "flag", "run"} : w[f] = b[f]
    BY <1>2 DEF Waits, Ask, Set, Fields
  <2> HIDE DEF w
  <2>2. /\ w.cur = b.cur /\ w.radio = b.radio /\ w.num = b.num /\ w.link = b.link /\ w.timer = b.timer
        /\ w.active = b.active
    BY <2>1 DEF Fields
  <2>3. Apart(b, w)
    BY <1>2, <2>1, <2>2 DEF Apart, Formed, Fits, KeepsLinks, KeepsFlag, Is
  <2>4. \A x : Linked(w, x) = Linked(b, x)
    BY <2>2 DEF Linked
  <2>5. ~Linked(b, a) /\ ~b.active.node.force => ~Full(w)
    BY <1>2, <2>3, FullIsFull, ApartFine DEF Base, Full
  <2>6. CallFine(w)
    BY <2>2, <2>4, <2>5 DEF Quick, CallFine, Pursued, Halted, Called
  <2> QED
    BY <1>2, <2>2, <2>3, <2>6, ApartFine DEF Quick, Skips
<1> QED
  BY <1>1, <1>4, <1>5

\* One round of linkback_run, whichever branch it takes.
LEMMA RoundQuick ==
    ASSUME NEW b, Good(b), Counted(b), Quick(b), b.run, NEW starts
    PROVE  Quick(LinkbackRound(b, starts)) /\ Skips(b, LinkbackRound(b, starts))
<1> DEFINE n == b.active
           a == n.node.addr
           w == Waits(Start(b, "delay"))
           z == LinkbackRound(b, starts)
<1>0. Base(b) /\ LinksFine(b) /\ Formed(b) /\ DOMAIN b = Fields /\ Shut(b)
  BY QuickEnough DEF Base, Formed, Fits, Quick
<1>1. CASE ~n.valid
  <2>1. z = NextPhone(b)
    BY <1>1 DEF LinkbackRound
  <2>2. Skips(b, z)
    BY <1>1 DEF Skips
  <2> QED
    BY <1>1, <2>1, <2>2, NextPhoneQuick
<1>2. Quick(Invalid(b)) /\ Skips(b, Invalid(b))
  <2>1. Moves(b, Invalid(b))
    BY <1>0, GivenUpHolds, KeepsTrans
  <2> QED
    BY <2>1, QuickHeld DEF Moves
<1>3. Linked(b, a) /\ n.doing \in b.link[a].profs => Quick(StepSuc(b)) /\ Skips(b, StepSuc(b))
  <2> DEFINE c == StepSuc(b)
  <2>1. Holds(b, c) /\ n.remain \ c.active.remain \subseteq {n.doing} /\ c.link = b.link
    BY <1>0, StepsHold DEF Fields
  <2> HIDE DEF c
  <2>2. Quick(c)
    BY <2>1, QuickHeld
  <2> QED
    BY <2>1, <2>2 DEF Skips, Linked, c
<1>4. n.valid => Quick(w) /\ Skips(b, w)
  <2>1. /\ DOMAIN w = Fields /\ "delay" \in w.timer /\ b.timer \subseteq w.timer
        /\ \A f \in Fields \ {"timer", "run"} : w[f] = b[f]
    BY <1>0 DEF Waits, Start, Fields
  <2> HIDE DEF w
  <2>2. w.link = b.link /\ w.active = b.active /\ w.cur = b.cur
    BY <2>1 DEF Fields
  <2>3. Apart(b, w)
    BY <1>0, <2>1, <2>2, ApartFields DEF Formed
  <2>4. n.valid => CallFine(w)
    BY <2>1, <2>2 DEF Quick, CallFine, Pursued, Halted, Called, Linked
  <2> QED
    BY <1>0, <2>2, <2>3, <2>4, ApartFine DEF Skips
<1>5. CASE n.valid /\ (n.exit \/ n.remain = {})
  <2>1. z = Invalid(b)
    BY <1>5 DEF LinkbackRound
  <2> QED
    BY <1>2, <2>1
<1>6. CASE n.valid /\ ~n.exit /\ n.remain # {}
  <2>1. \/ z = w \/ z = Invalid(b)
        \/ z = StepSuc(b) /\ Linked(b, a) /\ n.doing \in b.link[a].profs
        \/ z = CallPhone(b, starts) /\ (Linked(b, a) \/ ~IsFull(b) \/ n.node.force)
    BY <1>6, Zenon DEF LinkbackRound
  <2>2. Linked(b, a) \/ ~IsFull(b) \/ n.node.force =>
            Quick(CallPhone(b, starts)) /\ Skips(b, CallPhone(b, starts))
    BY <1>6, CallPhoneQuick
  <2> HIDE DEF z
  <2>3. Quick(z) /\ Skips(b, z)
    BY <1>2, <1>3, <1>4, <1>6, <2>1, <2>2
  <2> QED
    BY <2>3 DEF z
<1> QED
  BY <1>1, <1>5, <1>6

-----------------------------------------------------------------------------
(* Calls that end.                                                         *)

\* The phone whose time is up is given up when its search has stopped, or keeps its
\* step where it is connected.
LEMMA CallTimedOutQuick ==
    ASSUME NEW b, Base(b), LinksFine(b), b.cur = "LINKBACK", b.active.valid => b.active.node.addr \in Addrs
    PROVE  Quick(CallTimedOut(b)) /\ Skips(b, CallTimedOut(b))
<1> DEFINE a == b.active.node.addr
           z == CallTimedOut(b)
<1>0. Formed(b) /\ DOMAIN b = Fields /\ Shut(b)
  BY DEF Base, Formed, Fits, Shut
<1>1. CASE ~b.active.valid
  <2> DEFINE c == Run(b)
  <2>1. z = c
    BY <1>1, Zenon DEF CallTimedOut
  <2>2. Keeps(b, c) /\ c.run /\ c.active = b.active
    BY <1>0, KeepsSmall DEF Run, Fields
  <2> HIDE DEF c, z
  <2>3. Apart(b, c) /\ CallFine(c)
    BY <1>1, <2>2, ApartTrans, NotCalling
  <2>4. Quick(z) /\ Skips(b, z)
    BY <1>0, <2>1, <2>2, <2>3, ApartFine DEF Skips
  <2> QED
    BY <2>4 DEF z
<1>2. CASE b.active.valid /\ Linked(b, a)
  <2> DEFINE c == [b EXCEPT !.active.node.plan = {}]
  <2>1. z = c
    BY <1>2, Zenon DEF CallTimedOut
  <2>2. /\ DOMAIN c = Fields /\ c.active = [b.active EXCEPT !.node.plan = {}]
        /\ \A f \in Fields \ {"active"} : c[f] = b[f]
    BY <1>0 DEF Fields
  <2>3. DOMAIN b.active = ActiveFields /\ DOMAIN b.active.node = NodeFields /\ b.active.cnt \in 0 .. 2
    BY <1>0 DEF Formed
  <2> HIDE DEF c, z
  <2>4. /\ DOMAIN c.active = ActiveFields /\ DOMAIN c.active.node = NodeFields /\ c.active.cnt = b.active.cnt
        /\ c.active.remain = b.active.remain /\ c.active.valid /\ c.active.node.addr = a
        /\ c.active.node.plan = {} /\ c.link = b.link
    BY <1>2, <2>2, <2>3 DEF ActiveFields, NodeFields, Fields
  <2>5. Apart(b, c)
    <3>1. c.active.cnt \in 0 .. 2
      BY <2>3, <2>4
    <3>2. \A f \in Fields \ {"queue", "active", "run", "timer", "bond", "ind", "call", "step", "cnt"} : c[f] = b[f]
      BY <2>2
    <3> QED
      BY <1>0, <2>2, <2>4, <3>1, <3>2, ApartFields
  <2>6. CallFine(c)
    BY <1>2, <2>4 DEF CallFine, Pursued, Halted, Called, Linked
  <2>7. Quick(z) /\ Skips(b, z)
    BY <1>0, <2>1, <2>4, <2>5, <2>6, ApartFine DEF Skips
  <2> QED
    BY <2>7 DEF z
<1>3. CASE b.active.valid /\ ~Linked(b, a)
  <2> DEFINE c == Invalid(b)
             d == StopSearch(c, a)
             e == Set(d, "after_stop_sdp")
  <2>1. z = e
    BY <1>3, Zenon DEF CallTimedOut
  <2>2. Formed(c) /\ ~c.active.valid /\ (\A f \in Fields \ {"active"} : c[f] = b[f]) /\ DOMAIN c = Fields
    BY <1>0, GivenUpHolds DEF Formed, Fits
  <2> HIDE DEF c
  <2>3. Apart(b, c)
    BY <1>0, <2>2, ApartFields DEF Formed
  <2>4. Keeps(c, d) /\ Op("stop", a) \in d.op /\ \A f \in Fields \ {"op"} : d[f] = c[f]
    BY <2>2, StopSearchKeeps
  <2> HIDE DEF d
  <2>5. Formed(d) /\ DOMAIN d = Fields
    BY <2>4 DEF Keeps, Holds, Formed, Fits
  <2>6. Keeps(d, e) /\ e.op = d.op /\ e.active = d.active /\ Is(e, "after_stop_sdp")
    BY <2>5, KeepsSmall DEF Set, Fields, Is
  <2> HIDE DEF e, z
  <2>7. Apart(b, e)
    BY <2>3, <2>4, <2>6, ApartTrans
  <2>8. ~e.active.valid
    BY <2>2, <2>4, <2>6 DEF Fields
  <2>9. CallFine(e)
    BY <1>3, <2>4, <2>6, <2>8 DEF CallFine, Pursued, Halted, Called
  <2>10. Quick(z) /\ Skips(b, z)
    BY <1>0, <2>1, <2>7, <2>8, <2>9, ApartFine DEF Skips
  <2> QED
    BY <2>10 DEF z
<1> QED
  BY <1>1, <1>2, <1>3

LEMMA LinkbackTimeoutQuick ==
    ASSUME NEW b, Base(b), LinksFine(b), Shut(b), b.active.valid => b.active.node.addr \in Addrs
    PROVE  Quick(LinkbackTimeout(b)) /\ Skips(b, LinkbackTimeout(b))
<1> DEFINE x == IF b.active.valid /\ b.active.node.group
                THEN [b EXCEPT !.queue = Q!DeleteGroup(@)] ELSE b
           y == IF b.cur = "LINKBACK" THEN x ELSE Invalid(x)
           d == Stop(y, {"linkback", "delay"})
           z == LinkbackTimeout(b)
<1>0. Formed(b) /\ DOMAIN b = Fields
  BY DEF Base, Formed, Fits
<1>1. z = IF d.cur = "LINKBACK" THEN CallTimedOut(d) ELSE d
  BY DEF LinkbackTimeout
<1>2. Keeps(b, x) /\ Formed(x) /\ \A f \in Fields \ {"queue"} : x[f] = b[f]
  BY <1>0, QueueKeeps, HoldsRefl DEF Keeps, Holds
<1> HIDE DEF x
<1>3. /\ Formed(y) /\ Apart(b, y) /\ y.cur = b.cur
      /\ b.cur = "LINKBACK" => y.active = b.active
      /\ b.cur # "LINKBACK" => ~y.active.valid
  <2>1. CASE b.cur = "LINKBACK"
    BY <1>2, <2>1, ApartTrans DEF Fields
  <2>2. CASE b.cur # "LINKBACK"
    <3> DEFINE v == Invalid(x)
    <3>1. Formed(v) /\ ~v.active.valid /\ \A f \in Fields \ {"active"} : v[f] = x[f]
      BY <1>2, GivenUpHolds
    <3> HIDE DEF v
    <3>2. Apart(x, v)
      BY <1>2, <3>1, ApartFields DEF Formed, Fits
    <3>3. Apart(b, v)
      BY <1>2, <3>2, ApartTrans
    <3> QED
      BY <2>2, <3>1, <3>3 DEF v, Apart
  <2> QED
    BY <2>1, <2>2
<1> HIDE DEF y
<1>4. DOMAIN d = Fields /\ \A f \in Fields \ {"timer"} : d[f] = y[f]
  BY <1>3 DEF Stop, Formed, Fits, Fields
<1> HIDE DEF d
<1>5. Apart(b, d) /\ d.active = y.active /\ d.cur = b.cur /\ d.link = y.link
  <2>1. d.active = y.active /\ d.cur = y.cur /\ d.link = y.link
    BY <1>4 DEF Fields
  <2>2. Apart(y, d)
    BY <1>3, <1>4, <2>1, ApartFields DEF Formed
  <2> QED
    BY <1>3, <2>1, <2>2, ApartTrans
<1>6. Base(d) /\ LinksFine(d) /\ Shut(d)
  BY <1>5, ApartFine
<1>7. CASE b.cur = "LINKBACK"
  <2>1. z = CallTimedOut(d) /\ d.active = b.active
    BY <1>1, <1>3, <1>5, <1>7
  <2>2. Quick(CallTimedOut(d)) /\ Skips(d, CallTimedOut(d))
    BY <1>5, <1>6, <1>7, <2>1, CallTimedOutQuick
  <2> QED
    BY <2>1, <2>2 DEF Skips
<1>8. CASE b.cur # "LINKBACK"
  <2>1. z = d /\ ~d.active.valid
    BY <1>1, <1>3, <1>5, <1>8
  <2> HIDE DEF z
  <2>2. Quick(z) /\ Skips(b, z)
    BY <1>5, <1>6, <1>8, <2>1, NotCalling DEF Quick, Base, Skips
  <2> QED
    BY <2>2 DEF z
<1> QED
  BY <1>7, <1>8

\* The call fails, or is put off.
LEMMA LinkFailQuick ==
    ASSUME NEW b, Base(b), Quick(b), NEW a, NEW cause, NEW used
    PROVE  Quick(LinkFail(b, a, cause, used)) /\ Skips(b, LinkFail(b, a, cause, used))
<1> DEFINE c == CallAnew(b)
           s == Stop(b, {"linkback"})
           p == PutBack(s, used, TRUE)
           z == LinkFail(b, a, cause, used)
<1>0. Formed(b) /\ DOMAIN b = Fields /\ LinksFine(b) /\ Shut(b)
  BY DEF Base, Formed, Fits, Quick
<1>1. \/ z = b \/ z = Start(b, "delay") \/ z = Run(c)
      \/ z = Run(p) /\ b.cur = "LINKBACK"
  BY Zenon DEF LinkFail
<1>2. ASSUME NEW x, Keeps(b, x) PROVE Quick(x) /\ Skips(b, x)
  BY <1>2, QuickHeld, KeepsTrans DEF Keeps, Moves
<1>3. Keeps(b, b) /\ Keeps(b, Start(b, "delay"))
  BY <1>0, HoldsRefl, KeepsSmall
<1>4. Keeps(b, Run(c))
  <2>1. Keeps(b, c)
    BY <1>0, StepsHold
  <2> HIDE DEF c
  <2>2. Keeps(c, Run(c))
    BY <2>1, KeepsSmall DEF Keeps, Holds
  <2> QED
    BY <2>1, <2>2, KeepsTrans
<1>5. Quick(Run(p)) /\ Skips(b, Run(p))
  <2> DEFINE q == [s EXCEPT !.queue = Q!UseLeftTime(s.queue, s.active.node, used, TRUE, FALSE)]
  <2>1. p = Invalid(q)
    BY DEF PutBack
  <2>2. DOMAIN s = Fields /\ \A f \in Fields \ {"timer"} : s[f] = b[f]
    BY <1>0 DEF Stop, Fields
  <2> HIDE DEF s
  <2>3. Formed(q) /\ \A f \in Fields \ {"timer", "queue"} : q[f] = b[f]
    BY <1>0, <2>2 DEF Formed, Fits, Fields
  <2> HIDE DEF q, p
  <2>4. Formed(p) /\ ~p.active.valid /\ \A f \in Fields \ {"active"} : p[f] = q[f]
    BY <2>1, <2>3, GivenUpHolds
  <2> DEFINE r == Run(p)
  <2>5. DOMAIN r = Fields /\ r.run /\ \A f \in Fields \ {"run"} : r[f] = p[f]
    BY <2>4 DEF Run, Formed, Fits, Fields
  <2> HIDE DEF r
  <2>6. r.active = p.active /\ \A f \in Fields \ {"timer", "queue", "active", "run"} : r[f] = b[f]
    BY <2>3, <2>4, <2>5 DEF Fields
  <2>7. Apart(b, r)
    BY <1>0, <2>4, <2>5, <2>6, ApartFields DEF Formed
  <2>8. CallFine(r)
    BY <2>4, <2>5, <2>6, NotCalling
  <2> QED
    BY <1>0, <2>4, <2>6, <2>7, <2>8, ApartFine DEF Skips, r
<1> QED
  BY <1>1, <1>2, <1>3, <1>4, <1>5

LEMMA DelayOverQuick ==
    ASSUME NEW b, Base(b), Quick(b)
    PROVE  Quick(DelayOver(b)) /\ Skips(b, DelayOver(b))
<1> DEFINE c == Stop(b, {"delay"})
           d == CallAnew(c)
           r == Run(d)
<1>0. Formed(b) /\ DOMAIN b = Fields /\ LinksFine(b) /\ Shut(b) /\ Pursued(b)
  BY DEF Base, Formed, Fits, Quick, CallFine
<1>1. DelayOver(b) = IF c.cur = "LINKBACK" THEN r ELSE c
  BY DEF DelayOver
<1>2. /\ DOMAIN c = Fields /\ c.timer = b.timer \ {"delay"} /\ \A f \in Fields \ {"timer"} : c[f] = b[f]
  BY <1>0 DEF Stop, Fields
<1> HIDE DEF c
<1>3. c.cur = b.cur /\ c.active = b.active /\ c.link = b.link
  BY <1>2 DEF Fields
<1>4. Apart(b, c) /\ Formed(c)
  BY <1>0, <1>2, <1>3, ApartFields DEF Formed, Apart
<1>5. Pursued(c)
  BY <1>0, <1>2, <1>3 DEF Pursued, Linked
<1>6. Keeps(c, d)
  BY <1>4, StepsHold
<1> HIDE DEF d
<1>7. Keeps(d, r) /\ r.run
  BY <1>6, KeepsSmall DEF Keeps, Holds, Run, Formed, Fits, Fields
<1> HIDE DEF r
<1>8. Keeps(c, r)
  BY <1>6, <1>7, KeepsTrans
<1>9. Apart(b, r)
  BY <1>4, <1>8, ApartTrans
<1>10. Pursued(r)
  <2>1. \A x : Linked(c, x) => Linked(r, x)
    BY <1>8 DEF Keeps, Holds, KeepsLinks, Linked
  <2> QED
    BY <1>5, <1>8, <2>1, PursuedHeld DEF Keeps, Holds
<1>11. Quick(r)
  BY <1>0, <1>7, <1>9, <1>10, NotCalling, ApartFine
<1>12. Skips(b, r)
  BY <1>3, <1>8, KeepsTrans DEF Moves, Skips
<1>13. b.cur # "LINKBACK" => Quick(c) /\ Skips(b, c)
  BY <1>0, <1>3, <1>4, NotCalling, ApartFine DEF Skips
<1> QED
  BY <1>1, <1>3, <1>11, <1>12, <1>13


-----------------------------------------------------------------------------
(* Events.                                                                 *)

\* A handler leaves the policy fine and no profile out that it must not.
Goes(b, c) == Quick(c) /\ Skips(b, c)

LEMMA GoesOn ==
    ASSUME NEW b, Quick(b)
    PROVE  /\ \A c : Holds(b, c) /\ Skips(b, c) => Goes(b, c)
           /\ \A c : Keeps(b, c) => Goes(b, c) /\ Formed(c)
           /\ \A c : \A d : c.active = b.active /\ Goes(c, d) => Goes(b, d)
           /\ \A c : Quick(c) /\ c.active = b.active => Goes(b, c)
<1>1. ASSUME NEW c, Holds(b, c), Skips(b, c) PROVE Goes(b, c)
  BY <1>1, QuickHeld DEF Goes
<1>2. ASSUME NEW c, Keeps(b, c) PROVE Goes(b, c) /\ Formed(c)
  BY <1>1, <1>2, KeepsTrans DEF Moves, Keeps, Holds
<1>3. ASSUME NEW c, NEW d, c.active = b.active, Goes(c, d) PROVE Goes(b, d)
  BY <1>3 DEF Goes, Skips
<1>4. ASSUME NEW c, Quick(c), c.active = b.active PROVE Goes(b, c)
  BY <1>4 DEF Goes, Skips
<1> QED
  BY <1>1, <1>2, <1>3, <1>4

\* What settles from a policy with fine links is fine.
LEMMA SettlesGoes ==
    ASSUME NEW b, LinksFine(b), b.cur \notin {"SHUTDOWN_STEP", "SHUTDOWN"}, NEW c, Settles(b, c),
           c.cur # "LINKBACK" \/ CallFine(c)
    PROVE  Goes(b, c)
<1>1. Over(c) => Over(b)
  BY DEF Over, Settles, KeepsLinks
<1> QED
  BY <1>1, QuickSettled DEF Goes, Settles, Skips

\* Where nobody is called, and linkback_run goes on to call.
LEMMA CallsSettle ==
    ASSUME NEW b, Base(b), b.cur # "LINKBACK"
    PROVE  LET c == EnterState(b, "LINKBACK", "CONNECTABLE", FALSE)
           IN  Settles(b, c) /\ c.cur = "LINKBACK" /\ c.run
<1>1. \A w : LET c == EnterState(b, "LINKBACK", "CONNECTABLE", w)
             IN  Settles(b, c) /\ c.cur = "LINKBACK" /\ c.run = ((b.cur # "LINKBACK" \/ w) /\ "LINKBACK" = "LINKBACK")
  BY EnterSettles
<1>2. LET c == EnterState(b, "LINKBACK", "CONNECTABLE", FALSE)
      IN  Settles(b, c) /\ c.cur = "LINKBACK" /\ c.run = ((b.cur # "LINKBACK" \/ FALSE) /\ "LINKBACK" = "LINKBACK")
  BY <1>1, Zenon
<1> QED
  BY <1>2

\* A phone is known, and may have taken the last place.
LEMMA AuthSucGoes ==
    ASSUME NEW b, Good(b), Calm(b), Counted(b), Quick(b), ~b.run, NEW a \in Addrs, b.link[a].used
    PROVE  Goes(b, AuthSuc(b, a))
<1> DEFINE one == On("enter_pairing_while_only_one_device_connected") /\ b.num = 1
           c   == [b EXCEPT !.flag = (@ \ {"one_link"}) \cup (IF one THEN {"one_link"} ELSE {}),
                            !.link[a].auth = TRUE]
           z   == AuthSuc(b, a)
<1> SUFFICES Goes(b, z)
  OBVIOUS
<1>0. Formed(b) /\ Base(b) /\ LinksFine(b) /\ DOMAIN b = Fields /\ DOMAIN b.link = Addrs
      /\ DOMAIN b.link[a] = LinkFields
  BY QuickEnough DEF Base, Formed, Fits
<1>1. z = CASE c.cur = "LINKBACK" -> PlaceTaken(c, a)
            [] c.cur \in Stable   -> StableAgain(c, "SRC_AUTH_SUC")
            [] OTHER              -> c
  BY Zenon DEF AuthSuc
<1>2. /\ DOMAIN c = Fields /\ c.link = [b.link EXCEPT ![a] = [b.link[a] EXCEPT !.auth = TRUE]]
      /\ Is(c, "one_link") => one
      /\ Is(b, "after_stop_sdp") => Is(c, "after_stop_sdp")
      /\ \A f \in Fields \ {"flag", "link"} : c[f] = b[f]
  BY <1>0 DEF Fields, Is
<1> HIDE DEF c
<1>3. /\ c.cur = b.cur /\ c.radio = b.radio /\ c.num = b.num /\ c.active = b.active /\ c.op = b.op
      /\ c.timer = b.timer /\ c.run = b.run
  BY <1>2 DEF Fields
<1>4. /\ DOMAIN c.link = Addrs /\ c.link[a].auth /\ DOMAIN c.link[a] = LinkFields
      /\ \A x \in Addrs : /\ x # a => c.link[x] = b.link[x]
                          /\ c.link[x].used = b.link[x].used /\ c.link[x].master = b.link[x].master
                          /\ c.link[x].drop = b.link[x].drop /\ c.link[x].profs = b.link[x].profs
  BY <1>0, <1>2 DEF LinkFields
<1>5. Formed(c) /\ Counted(c) /\ Known(c) /\ c.num \in Nat
  <2>1. UsedLinks(c) = UsedLinks(b)
    BY <1>4 DEF UsedLinks
  <2> QED
    BY <1>0, <1>2, <1>3, <1>4, <2>1 DEF Base, Formed, Fits, Counted, Known
<1>6. Spare(c)
  <2> SUFFICES ASSUME Is(c, "one_link") PROVE \A x, y \in Authed(c) : x = y
    BY <1>2 DEF Spare
  <2>1. c.num = 1 /\ c.link[a].used
    BY <1>2, <1>3, <1>4
  <2>2. \A x \in Authed(c) : x = a
    BY <1>5, <2>1, FullIsFull
  <2> QED
    BY <2>2
<1>7. LinksFine(c)
  BY <1>0, <1>3, <1>4, <1>5 DEF LinksFine, Roles, Marked, Over, ToGo, Leads, Led
<1>8. Base(c)
  BY <1>5, <1>6 DEF Base
<1> HIDE DEF z, one
<1>9. CASE c.cur = "LINKBACK"
  <2>1. Shut(c) /\ (c.active.valid => c.active.node.addr \in Addrs)
    BY <1>3, <1>9 DEF Shut, Good, ActiveOK
  <2>2. Goes(c, LinkbackTimeout(c))
    BY <1>7, <1>8, <2>1, LinkbackTimeoutQuick DEF Goes
  <2>3. CASE z = LinkbackTimeout(c)
    BY <1>3, <2>2, <2>3, GoesOn
  <2>4. CASE z # LinkbackTimeout(c)
    <3>1. z = c /\ ~(/\ IsFull(c) /\ c.active.valid /\ c.active.node.addr # a
                     /\ ~Linked(c, c.active.node.addr) /\ "linkback" \in c.timer)
      <4>1. z = PlaceTaken(c, a)
        BY <1>1, <1>9 DEF Stable
      <4> QED
        BY <2>4, <4>1, Zenon DEF PlaceTaken
    <3>2. \A x : Linked(c, x) <=> Linked(b, x)
      BY <1>4 DEF Linked
    <3>3. Pursued(c) /\ Halted(c)
      BY <1>2, <1>3, <3>2 DEF Quick, CallFine, Pursued, Halted
    <3>4. Called(c)
      <4> SUFFICES ASSUME c.active.valid, ~Linked(c, c.active.node.addr) PROVE ~Full(c)
        BY DEF Called
      <4>1. "linkback" \in c.timer
        BY <1>3, <1>9, <3>3 DEF Calm, Pursued
      <4>2. c.active.node.addr # a
        BY <1>4 DEF Linked
      <4> QED
        BY <1>5, <3>1, <4>1, <4>2, FullIsFull
    <3> QED
      BY <1>3, <1>6, <1>7, <2>1, <3>1, <3>3, <3>4, GoesOn DEF Quick, CallFine
  <2> QED
    BY <2>3, <2>4
<1>10. CASE c.cur \in Stable
  <2> DEFINE s == StableAgain(c, "SRC_AUTH_SUC")
  <2>1. z = s /\ c.cur \notin {"SHUTDOWN_STEP", "SHUTDOWN", "LINKBACK"}
    BY <1>1, <1>10 DEF Stable
  <2>2. Settles(c, s) /\ s.cur \in Stable
    BY <1>8, StableSettles
  <2> HIDE DEF s
  <2>3. Goes(c, s)
    BY <1>7, <2>1, <2>2, SettlesGoes DEF Stable
  <2> QED
    BY <1>3, <2>1, <2>3, GoesOn
<1>11. CASE c.cur # "LINKBACK" /\ c.cur \notin Stable
  <2>1. z = c /\ c.cur # "CONNECTED"
    BY <1>1, <1>11 DEF Stable
  <2> QED
    BY <1>3, <1>6, <1>7, <1>11, <2>1, GoesOn, NotCalling DEF Quick
<1> QED
  BY <1>9, <1>10, <1>11

\* A phone that cannot be authenticated.
LEMMA AuthFailGoes ==
    ASSUME NEW b, Formed(b), Quick(b), NEW a PROVE Goes(b, AuthFail(b, a))
<1> DEFINE c == AuthFail(b, a)
<1>0. Op("disc", a)[1] = "disc" /\ DOMAIN b = Fields
  BY OpParts DEF Formed, Fits
<1>1. /\ DOMAIN c = Fields /\ c.op = b.op \cup {Op("disc", a)}
      /\ \A f \in Fields \ {"op", "bond"} : c[f] = b[f]
  BY <1>0 DEF AuthFail, Ask, Fields
<1> HIDE DEF c
<1>2. Beside(b, c)
  BY <1>0, <1>1 DEF Beside, Fields, KeepsFlag, Is
<1>3. Goes(b, c)
  BY <1>2, KeepsBeside, GoesOn
<1> QED
  BY <1>3 DEF c

\* What more is asked of the stack.
LEMMA AskGoes ==
    ASSUME NEW b, NEW c, Goes(b, c), Formed(c), NEW o, o[1] # "sdp"
    PROVE  Goes(b, Ask(c, o)) /\ Formed(Ask(c, o))
<1> DEFINE d == Ask(c, o)
<1>1. Keeps(c, d)
  BY KeepsSmall
<1>2. d.active = c.active /\ d.link = c.link
  BY DEF Ask, Formed, Fits, Fields
<1> HIDE DEF d
<1>3. Goes(c, d) /\ Formed(d)
  BY <1>1, GoesOn DEF Goes
<1>4. Goes(b, d) /\ Formed(d)
  BY <1>2, <1>3 DEF Goes, Skips
<1> QED
  BY <1>4 DEF d

\* A link comes up; one too many picks a phone that is to go.
LEMMA LinkUpGoes ==
    ASSUME NEW b, Good(b), Counted(b), Quick(b), NEW a \in Addrs, ~b.link[a].used,
           NEW victim \in UsedLinks(b) \cup {a}
    PROVE  Goes(b, LinkUp(b, a, victim))
<1> DEFINE c == AddNode(b, a)
           d == IF c.num > NumMax THEN DedicatedDisconnect(c, victim, Profs) ELSE c
           z == LinkUp(b, a, victim)
<1> SUFFICES Goes(b, z)
  OBVIOUS
<1>0. Formed(b) /\ Base(b) /\ LinksFine(b) /\ DOMAIN b = Fields /\ DOMAIN b.link = Addrs
  BY QuickEnough DEF Base, Formed, Fits
<1>1. z = IF d.radio = "IDLE" THEN Ask(d, Op("disc", a)) ELSE d
  BY DEF LinkUp
<1>2. c = [b EXCEPT !.link[a] = [NoLink EXCEPT !.used = TRUE, !.master = "roles" \in Features],
                    !.num = @ + 1]
  BY DEF AddNode, Linked
<1>3. /\ DOMAIN c = Fields /\ c.num = b.num + 1 /\ DOMAIN c.link = Addrs
      /\ c.link[a] = [NoLink EXCEPT !.used = TRUE, !.master = "roles" \in Features]
      /\ \A x \in Addrs : x # a => c.link[x] = b.link[x]
      /\ \A f \in Fields \ {"num", "link"} : c[f] = b[f]
  <2> DEFINE l == [NoLink EXCEPT !.used = TRUE, !.master = "roles" \in Features]
  <2>1. c = [b EXCEPT !.link = [b.link EXCEPT ![a] = l], !.num = b.num + 1]
    BY <1>0, <1>2 DEF Fields
  <2> HIDE DEF c, l
  <2>2. /\ DOMAIN c = Fields /\ c.num = b.num + 1 /\ c.link = [b.link EXCEPT ![a] = l]
        /\ \A f \in Fields \ {"num", "link"} : c[f] = b[f]
    BY <1>0, <2>1 DEF Fields
  <2>3. DOMAIN c.link = Addrs /\ c.link[a] = l /\ \A x \in Addrs : x # a => c.link[x] = b.link[x]
    BY <1>0, <2>2
  <2> QED
    BY <2>2, <2>3 DEF l
<1> HIDE DEF c
<1>4. /\ DOMAIN c.link[a] = LinkFields /\ c.link[a].used /\ ~c.link[a].auth /\ ~c.link[a].drop
      /\ c.link[a].profs = {} /\ (c.link[a].master => "roles" \in Features)
  BY <1>3 DEF NoLink, LinkFields
<1>5. /\ c.cur = b.cur /\ c.radio = b.radio /\ c.active = b.active /\ c.op = b.op
      /\ c.timer = b.timer /\ c.run = b.run /\ c.flag = b.flag
  BY <1>3 DEF Fields
<1>6. Formed(c)
  BY <1>0, <1>3, <1>4, <1>5 DEF Formed, Fits
<1>7. Known(c) /\ Roles(c) /\ Leads(c)
  <2>1. Known(c) /\ Roles(c)
    BY <1>0, <1>3, <1>4 DEF LinksFine, Known, Roles
  <2>2. Leads(c)
    BY <1>0, <1>3, <1>4, <1>5 DEF LinksFine, Leads, Led
  <2> QED
    BY <2>1, <2>2
<1>8. Authed(c) = Authed(b)
  BY <1>0, <1>3, <1>4 DEF Authed, LinksFine, Known
<1>9. Spare(c) /\ Shut(c)
  BY <1>5, <1>8 DEF Quick, Spare, Shut, Is, Full
<1>10. CallFine(c)
  <2>1. HoldsCall(b, c)
    BY <1>5 DEF HoldsCall, SamePhone, Is
  <2>2. \A x : Linked(b, x) => Linked(c, x)
    BY <1>3, <1>4 DEF Linked
  <2> QED
    BY <1>5, <1>8, <2>1, <2>2, CallHeld DEF Quick, Full
<1>11. Goes(b, d) /\ Formed(d)
  <2>1. CASE c.num > NumMax
    <3>1. Linked(c, victim) /\ victim \in Addrs
      BY <1>3, <1>4 DEF Linked, UsedLinks
    <3>2. c.link[victim].profs \subseteq Profs
      BY <1>3, <1>4, <3>1 DEF Good, LinksOK, Link
    <3> DEFINE e == DedicatedDisconnect(c, victim, Profs)
    <3>3. Quick(e) /\ Skips(c, e) /\ Formed(e)
      BY <1>6, <1>7, <1>9, <1>10, <3>1, <3>2, QuickDisconnect
    <3>4. d = e
      BY <2>1
    <3> HIDE DEF d, e
    <3> QED
      BY <1>5, <3>3, <3>4, GoesOn DEF Goes
  <2>2. CASE ~(c.num > NumMax)
    <3>1. d = c
      BY <2>2
    <3> HIDE DEF d
    <3>2. Quick(c)
      BY <1>7, <1>9, <1>10, <2>2 DEF Quick, LinksFine, Marked, Over
    <3> QED
      BY <1>5, <1>6, <3>1, <3>2, GoesOn
  <2> QED
    BY <2>1, <2>2
<1> HIDE DEF d, z
<1> QED
  BY <1>1, <1>11, AskGoes, OpParts

\* What the entry of a state needs is kept.
LEMMA KeepsBase ==
    ASSUME NEW b, Base(b), LinksFine(b), NEW c, Keeps(b, c) PROVE Base(c) /\ LinksFine(c)
BY ApartTrans, ApartFine

\* A link comes up, wanted or not.
LEMMA ConnSucGoes ==
    ASSUME Ready(bp), Counted(bp), Quick(bp), NEW a \in Addrs, ConnSuc(a) PROVE Goes(bp, bp')
<1> DEFINE s == bp.op \ {Op("page", a), Op("in", a)}
           b == [bp EXCEPT !.op = s]
<1>1. PICK victim \in UsedLinks(b) \cup {a} : bp' = LinkUp(b, a, victim)
  BY DEF ConnSuc, Becomes
<1>2. ~bp.link[a].used /\ Good(bp) /\ Formed(bp)
  BY GoodFormed DEF ConnSuc, Linked, Ready
<1>3. Same(bp, b)
  <2>1. s \subseteq bp.op \cup Ops /\ \A x \in Addrs : <<"conn", x, NoProf>> \notin s \ bp.op
    OBVIOUS
  <2> HIDE DEF s
  <2> QED
    BY <1>2, <2>1, AlterOps DEF Alter
<1>4. \A o \in s : o \in bp.op
  OBVIOUS
<1>5. \A o \in bp.op : o \in s \/ o = Op("page", a) \/ o = Op("in", a)
  OBVIOUS
<1> HIDE DEF s
<1>6. Keeps(bp, b) /\ \A f \in Fields \ {"op"} : b[f] = bp[f]
  BY <1>2, <1>4, <1>5, OpParts, OpsKeep
<1> HIDE DEF b
<1>7. b.link = bp.link /\ b.num = bp.num
  BY <1>6 DEF Fields
<1>8. Good(b) /\ Counted(b) /\ Quick(b) /\ ~b.link[a].used /\ b.active = bp.active
  BY <1>2, <1>3, <1>6, <1>7, GoesOn DEF Same, Counted, UsedLinks, Goes
<1>9. Goes(b, LinkUp(b, a, victim))
  BY <1>8, LinkUpGoes
<1> QED
  BY <1>1, <1>8, <1>9, GoesOn

\* A page fails.
LEMMA ConnFailGoes ==
    ASSUME Ready(bp), Counted(bp), Quick(bp), NEW a \in Addrs, ConnFail(a) PROVE Goes(bp, bp')
<1>1. PICK o \in Paging(a), used \in 1 .. MaxTime, cause \in {"fail", "exist", "busy"} :
          bp' = LinkFail(Done(bp, o), a, cause, used)
  BY DEF ConnFail, Becomes
<1> DEFINE b == Done(bp, o)
<1>2. Base(bp) /\ LinksFine(bp) /\ Formed(bp)
  BY QuickEnough, GoodFormed DEF Ready
<1>3. o[1] \notin {"stop", "disc", "pdisc"}
  BY DEF Paging
<1>4. Keeps(bp, b) /\ b.active = bp.active
  BY <1>2, <1>3, KeepsSmall DEF Done, Formed, Fits, Fields
<1> HIDE DEF b
<1>5. Base(b) /\ Quick(b)
  BY <1>2, <1>4, KeepsBase, GoesOn DEF Goes
<1>6. Goes(b, LinkFail(b, a, cause, used))
  BY <1>5, LinkFailQuick DEF Goes
<1> QED
  BY <1>1, <1>4, <1>6, GoesOn DEF b

\* A link goes down, and with it what was owed on it.
Gone(b, a) == DelNode(Down(b, a), a)

LEMMA GoneFine ==
    ASSUME NEW b, Good(b), Counted(b), Quick(b), NEW a \in Addrs, b.link[a].used, NEW c, c = Gone(b, a)
    PROVE  /\ Base(c) /\ LinksFine(c) /\ Shut(c) /\ Formed(c)
           /\ c.active = b.active /\ c.cur = b.cur /\ c.flag = b.flag
           /\ ~IsCurrent(b, a) => Quick(c)
<1> DEFINE s == {o \in b.op : o[2] # a \/ o[1] = "stop"}
           d == Down(b, a)
<1>0. Formed(b) /\ Base(b) /\ LinksFine(b) /\ DOMAIN b = Fields /\ DOMAIN b.link = Addrs
  BY QuickEnough DEF Base, Formed, Fits
<1>1. IsFiniteSet(Addrs) /\ NumMax \in Nat \ {0}
  BY BtPolicyAssumption DEF BtPolicyAssumption
<1>2. /\ DOMAIN d = Fields /\ d.op = s /\ \A f \in Fields \ {"op"} : d[f] = b[f]
  BY <1>0 DEF Down, Fields
<1> HIDE DEF d
<1>3. d.link = b.link /\ d.num = b.num
  BY <1>2 DEF Fields
<1>4. a \in UsedLinks(b) /\ IsFiniteSet(UsedLinks(b)) /\ b.num = Cardinality(UsedLinks(b))
  <2>1. UsedLinks(b) \subseteq Addrs
    BY DEF UsedLinks
  <2> QED
    BY <1>1, <2>1, FS_Subset DEF UsedLinks, Counted
<1>5. b.num \in Nat \ {0} /\ Cardinality(UsedLinks(b) \ {a}) = b.num - 1
  <2>1. IsFiniteSet(UsedLinks(b) \ {a})
    BY <1>4, FS_RemoveElement
  <2>2. Cardinality(UsedLinks(b)) \in Nat /\ Cardinality(UsedLinks(b) \ {a}) \in Nat
    BY <1>4, <2>1, FS_CardinalityType
  <2>3. Cardinality(UsedLinks(b) \ {a}) = Cardinality(UsedLinks(b)) - 1
    BY <1>4, FS_RemoveElement
  <2> QED
    BY <1>4, <2>2, <2>3
<1>6. /\ DOMAIN c = Fields /\ c.num = b.num - 1 /\ DOMAIN c.link = Addrs
      /\ c.link[a] = NoLink /\ c.op = s
      /\ \A x \in Addrs : x # a => c.link[x] = b.link[x]
      /\ \A f \in Fields \ {"num", "link", "op"} : c[f] = b[f]
  <2>0. c = DelNode(d, a) /\ Linked(d, a) /\ d.num > 0
    BY <1>3, <1>5 DEF Gone, Linked, d
  <2>1. c = [d EXCEPT !.link = [d.link EXCEPT ![a] = NoLink], !.num = d.num - 1]
    BY <2>0 DEF DelNode
  <2> DEFINE l == [b.link EXCEPT ![a] = NoLink]
             n == b.num - 1
  <2>4. c = [d EXCEPT !.link = l, !.num = n]
    BY <1>3, <2>1
  <2> HIDE DEF l, n, s
  <2>5. DOMAIN c = Fields /\ c.num = n /\ c.link = l /\ \A f \in Fields \ {"num", "link"} : c[f] = d[f]
    BY <1>2, <2>4 DEF Fields
  <2>2. /\ DOMAIN c = Fields /\ c.num = b.num - 1 /\ c.link = [b.link EXCEPT ![a] = NoLink]
        /\ \A f \in Fields \ {"num", "link"} : c[f] = d[f]
    BY <2>5 DEF l, n
  <2>3. DOMAIN c.link = Addrs /\ c.link[a] = NoLink /\ \A x \in Addrs : x # a => c.link[x] = b.link[x]
    BY <1>0, <2>2
  <2> QED
    BY <1>2, <2>2, <2>3 DEF Fields
<1>7. \A o : o \in s <=> o \in b.op /\ (o[2] # a \/ o[1] = "stop")
  OBVIOUS
<1> HIDE DEF s
<1>8. /\ DOMAIN c.link[a] = LinkFields /\ ~c.link[a].used /\ ~c.link[a].auth /\ ~c.link[a].drop
      /\ ~c.link[a].master
  BY <1>6 DEF NoLink, LinkFields
<1>9. /\ c.cur = b.cur /\ c.radio = b.radio /\ c.active = b.active
      /\ c.timer = b.timer /\ c.run = b.run /\ c.flag = b.flag
  BY <1>6 DEF Fields
<1>10. Formed(c)
  BY <1>0, <1>6, <1>8, <1>9 DEF Formed, Fits
<1>11. UsedLinks(c) = UsedLinks(b) \ {a} /\ Authed(c) = Authed(b) \ {a}
  BY <1>6, <1>8 DEF UsedLinks, Authed
<1>12. Counted(c) /\ c.num \in Nat
  BY <1>5, <1>6, <1>11 DEF Counted
<1>13. Full(c) => Full(b)
  <2>1. Authed(b) \subseteq Addrs /\ Authed(c) \subseteq Authed(b)
    BY <1>11 DEF Authed
  <2>2. IsFiniteSet(Authed(b)) /\ IsFiniteSet(Authed(c))
    BY <1>1, <2>1, FS_Subset
  <2>3. /\ Cardinality(Authed(c)) <= Cardinality(Authed(b))
        /\ Cardinality(Authed(c)) \in Nat /\ Cardinality(Authed(b)) \in Nat
    BY <2>1, <2>2, FS_Subset, FS_CardinalityType
  <2> QED
    BY <1>1, <2>3 DEF Full
<1>14. Known(c) /\ Roles(c)
  BY <1>0, <1>6, <1>8 DEF LinksFine, Known, Roles
<1>15. Leads(c)
  <2> SUFFICES ASSUME Single, NEW x \in Addrs, c.link[x].drop PROVE Led(c, x)
    BY DEF Leads
  <2>1. x # a /\ c.link[x] = b.link[x]
    BY <1>6, <1>8
  <2>2. Led(b, x)
    BY <1>0, <2>1 DEF LinksFine, Leads
  <2>3. Op("disc", x) \in b.op => Op("disc", x) \in c.op
    BY <1>6, <1>7, <2>1, OpParts
  <2>4. ASSUME NEW p \in b.link[x].profs, <<"pdisc", x, p>> \in b.op PROVE <<"pdisc", x, p>> \in c.op
    BY <1>6, <1>7, <2>1, <2>4
  <2> QED
    BY <2>1, <2>2, <2>3, <2>4 DEF Led
<1>16. Marked(c)
  <2> SUFFICES ASSUME Few, Over(c) PROVE FALSE
    BY DEF Marked
  <2>1. Cardinality(Addrs) \in Nat /\ Cardinality(Addrs \ {a}) = Cardinality(Addrs) - 1
    BY <1>1, FS_CardinalityType, FS_RemoveElement
  <2>2. UsedLinks(c) \subseteq Addrs \ {a} /\ IsFiniteSet(Addrs \ {a})
    BY <1>1, <1>11, FS_RemoveElement DEF UsedLinks
  <2>3. Cardinality(UsedLinks(c)) <= Cardinality(Addrs \ {a})
    BY <2>2, FS_Subset
  <2> QED
    BY <1>1, <1>12, <2>1, <2>3 DEF Few, Over, Counted
<1>17. LinksFine(c) /\ Spare(c) /\ Shut(c)
  BY <1>0, <1>9, <1>11, <1>13, <1>14, <1>15, <1>16 DEF LinksFine, Quick, Spare, Shut, Is
<1>18. ~IsCurrent(b, a) => CallFine(c)
  <2> SUFFICES ASSUME ~IsCurrent(b, a) PROVE CallFine(c)
    OBVIOUS
  <2>1. HoldsCall(b, c)
    BY <1>6, <1>7, <1>9 DEF HoldsCall, SamePhone, Is
  <2>2. b.active.valid /\ Linked(b, b.active.node.addr) => Linked(c, b.active.node.addr)
    BY <1>6 DEF IsCurrent, Linked
  <2>3. \A x \in Addrs : Op("stop", x) \in b.op => Op("stop", x) \in c.op
    BY <1>6, <1>7, OpParts
  <2> QED
    BY <1>9, <1>13, <2>1, <2>2, <2>3, CallHeld DEF Quick
<1>19. Base(c)
  BY <1>10, <1>12, <1>17 DEF Base, LinksFine
<1> QED
  BY <1>9, <1>10, <1>17, <1>18, <1>19 DEF Quick

\* A phone that was called and is gone is given up by linkback_run.
LEMMA CalledGoneGoes ==
    ASSUME NEW c, Base(c), LinksFine(c), Shut(c), NEW a, ~IsCurrent(c, a) => Quick(c)
    PROVE  Goes(c, CalledGone(c, a))
<1> DEFINE d == [c EXCEPT !.active.exit = TRUE]
           e == Run(d)
<1>0. Formed(c)
  BY DEF Base
<1>1. CalledGone(c, a) = IF IsCurrent(c, a) THEN e ELSE c
  BY DEF CalledGone
<1>2. Keeps(c, d) /\ d.active.exit
  <2>1. \A u : Keeps(c, d) /\ d.active.exit
    BY <1>0, NotesHold
  <2> QED
    BY <2>1
<1> HIDE DEF d
<1>3. Keeps(d, e) /\ e.run /\ e.active = d.active
  BY <1>2, KeepsSmall DEF Keeps, Holds, Run, Formed, Fits, Fields
<1> HIDE DEF e
<1>4. Keeps(c, e)
  BY <1>2, <1>3, KeepsTrans
<1>5. Quick(e)
  BY <1>2, <1>3, <1>4, NotCalling, ApartTrans, ApartFine
<1>6. Skips(c, e)
  BY <1>4, KeepsTrans DEF Moves
<1>7. Skips(c, c)
  BY DEF Skips
<1> QED
  BY <1>1, <1>5, <1>6, <1>7 DEF Goes

LEMMA DisconnectedGoes ==
    ASSUME Ready(bp), Counted(bp), Quick(bp), "pairing" \notin Features,
           NEW a \in Addrs, Disconnected(a)
    PROVE  Goes(bp, bp')
<1> DEFINE b == Down(bp, a)
           c == Gone(bp, a)
           d == IF CalledBack(b, a)
                THEN [c EXCEPT !.queue = Q!InsertNormal(@, Request(a, ProfsOfBond(b.bond[a]), LossTime))]
                ELSE c
           n == DisconnNormal(b, a)
           l == DisconnLost(b, a)
<1>1. bp' = n \/ bp' = l
  BY DEF Disconnected, Becomes
<1>2. Good(bp) /\ bp.link[a].used /\ ~bp.run
  BY DEF Disconnected, Ready, Linked
<1>3. /\ Base(c) /\ LinksFine(c) /\ Shut(c) /\ Formed(c)
      /\ c.active = bp.active /\ c.cur = bp.cur /\ c.flag = bp.flag
      /\ ~IsCurrent(c, a) => Quick(c)
  BY <1>2, GoneFine DEF IsCurrent
<1>4. ~Is(c, "disconnect_for_pairing") /\ (c.cur # "LINKBACK" => ~c.active.valid)
  BY <1>2, <1>3 DEF Good, Fit, Released, PairingFlags, Is
<1>5. n = CASE Is(c, "disconnect_for_pairing") -> StableDedicated(Clear(c, {"disconnect_for_pairing"}))
            [] ~Is(c, "disconnect_for_pairing") /\ c.cur = "LINKBACK" -> CalledGone(c, a)
            [] ~Is(c, "disconnect_for_pairing") /\ c.cur \in Stable   -> StableGone(c, b.link[a].auth)
            [] OTHER -> c
  BY Zenon DEF DisconnNormal, Gone
<1>6. l = CASE d.cur = "LINKBACK"  -> CalledGone(d, a)
            [] d.cur \in Stable    -> EnterState(d, "LINKBACK", "CONNECTABLE", FALSE)
            [] OTHER               -> d
  BY Zenon DEF DisconnLost, Gone
<1> HIDE DEF c, n, l
<1>7. c.cur # "LINKBACK" => Quick(c)
  BY <1>3, <1>4 DEF IsCurrent
<1>8. Goes(c, n)
  <2>1. CASE c.cur = "LINKBACK"
    <3>1. n = CalledGone(c, a)
      BY <1>4, <1>5, <2>1 DEF Stable
    <3> QED
      BY <1>3, <3>1, CalledGoneGoes
  <2>2. CASE c.cur \in Stable
    <3> DEFINE s == StableAgain(c, "SRC_DISCONN_NORMAL")
    <3>1. c.cur # "LINKBACK" /\ c.cur \notin {"SHUTDOWN_STEP", "SHUTDOWN"}
      BY <2>2 DEF Stable
    <3>2. n = StableGone(c, b.link[a].auth)
      BY <1>4, <1>5, <2>2, <3>1
    <3>3. Settles(c, s) /\ s.cur \in Stable
      BY <1>3, StableSettles
    <3>4. n = s \/ n = c
      BY <3>2, Zenon DEF StableGone
    <3> HIDE DEF s
    <3>5. Goes(c, s)
      BY <1>3, <3>1, <3>3, SettlesGoes DEF Stable
    <3> QED
      BY <1>7, <3>1, <3>4, <3>5, GoesOn
  <2>3. CASE c.cur # "LINKBACK" /\ c.cur \notin Stable
    BY <1>4, <1>5, <1>7, <2>3, GoesOn
  <2> QED
    BY <2>1, <2>2, <2>3
<1>9. Keeps(c, d) /\ \A f \in Fields \ {"queue"} : d[f] = c[f]
  <2> DEFINE q == Q!InsertNormal(c.queue, Request(a, ProfsOfBond(b.bond[a]), LossTime))
  <2>1. d = [c EXCEPT !.queue = q] \/ d = c
    OBVIOUS
  <2> HIDE DEF d, q
  <2> QED
    BY <1>3, <2>1, HoldsRefl, QueueKeeps
<1> HIDE DEF d
<1>10. d.active = c.active /\ d.cur = c.cur
  BY <1>9 DEF Fields
<1>11. /\ Base(d) /\ LinksFine(d) /\ Shut(d) /\ Formed(d)
       /\ ~IsCurrent(d, a) => Quick(d)
  BY <1>3, <1>9, <1>10, ApartTrans, ApartFine, GoesOn DEF IsCurrent, Apart, Goes
<1>12. Goes(d, l)
  <2>1. CASE d.cur = "LINKBACK"
    <3>1. l = CalledGone(d, a)
      BY <1>6, <2>1 DEF Stable
    <3> QED
      BY <1>11, <3>1, CalledGoneGoes
  <2>2. CASE d.cur \in Stable
    <3> DEFINE s == EnterState(d, "LINKBACK", "CONNECTABLE", FALSE)
    <3>1. d.cur # "LINKBACK" /\ d.cur \notin {"SHUTDOWN_STEP", "SHUTDOWN"}
      BY <2>2 DEF Stable
    <3>2. l = s
      BY <1>6, <2>2, <3>1
    <3>3. Settles(d, s) /\ s.cur = "LINKBACK" /\ s.run
      BY <1>11, <3>1, CallsSettle
    <3> HIDE DEF s
    <3>4. CallFine(s)
      BY <1>4, <1>10, <3>1, <3>3, NotCalling DEF Settles
    <3> QED
      BY <1>11, <3>1, <3>2, <3>3, <3>4, SettlesGoes
  <2>3. CASE d.cur # "LINKBACK" /\ d.cur \notin Stable
    BY <1>4, <1>6, <1>10, <1>11, <2>3, GoesOn DEF IsCurrent
  <2> QED
    BY <2>1, <2>2, <2>3
<1> QED
  BY <1>1, <1>3, <1>8, <1>10, <1>12 DEF Goes, Skips

-----------------------------------------------------------------------------
(* Searches.                                                               *)

\* The step of the phone being called ends, and linkback_run goes on.
LEMMA StepsGo ==
    ASSUME NEW b, Formed(b)
    PROVE  /\ Moves(b, Run(StepFail(b)))
           /\ Holds(b, Run(StepSuc(b)))
           /\ b.active.doing \in b.link[b.active.node.addr].profs \cup {"DID", "PBAP"}
                => Moves(b, Run(StepSuc(b)))
<1>1. Moves(b, Run(StepFail(b)))
  <2> DEFINE c == StepFail(b)
  <2>1. Moves(b, c)
    BY StepsHold
  <2> HIDE DEF c
  <2>2. Keeps(c, Run(c))
    BY <2>1, KeepsSmall DEF Moves, Holds
  <2>3. Moves(b, Run(c))
    BY <2>1, <2>2, KeepsTrans
  <2> QED
    BY <2>3 DEF c
<1>2. /\ Holds(b, Run(StepSuc(b)))
      /\ b.active.doing \in b.link[b.active.node.addr].profs \cup {"DID", "PBAP"}
                => Moves(b, Run(StepSuc(b)))
  <2> DEFINE c == StepSuc(b)
  <2>1. /\ Holds(b, c) /\ PlanGrows(b, c) /\ b.active.remain \ c.active.remain \subseteq {b.active.doing}
        /\ c.link = b.link
    BY StepsHold DEF Fields
  <2> HIDE DEF c
  <2>2. Keeps(c, Run(c)) /\ Holds(c, Run(c))
    BY <2>1, KeepsSmall DEF Holds, Keeps
  <2>3. Holds(b, Run(c))
    BY <2>1, <2>2, HoldsTrans
  <2>4. b.active.doing \in b.link[b.active.node.addr].profs \cup {"DID", "PBAP"} => Moves(b, c)
    BY <2>1 DEF Moves, Skips
  <2>5. b.active.doing \in b.link[b.active.node.addr].profs \cup {"DID", "PBAP"} => Moves(b, Run(c))
    BY <2>2, <2>4, KeepsTrans
  <2> QED
    BY <2>3, <2>5 DEF c
<1> QED
  BY <1>1, <1>2

LEMMA ConnectProfMoves ==
    ASSUME NEW b, Formed(b), NEW starts PROVE Moves(b, ConnectProf(b, starts))
<1> DEFINE o == <<"conn", b.active.node.addr, b.active.doing>>
           c == Ask(b, o)
           z == ConnectProf(b, starts)
<1>1. \/ z = Run(StepFail(b)) \/ z = c
      \/ z = Run(StepSuc(c)) /\ b.active.doing = "PBAP"
  BY Zenon DEF ConnectProf
<1>2. o[1] = "conn"
  OBVIOUS
<1> HIDE DEF o
<1>3. Keeps(b, c) /\ Formed(c) /\ c.active = b.active
  BY <1>2, KeepsSmall DEF Keeps, Holds, Ask, Formed, Fits, Fields
<1> HIDE DEF c, z
<1>4. Moves(b, c) /\ Moves(b, Run(StepFail(b)))
  BY <1>3, StepsGo, KeepsTrans
<1>5. ASSUME b.active.doing = "PBAP" PROVE Moves(b, Run(StepSuc(c)))
  <2> DEFINE e == Run(StepSuc(c))
  <2>1. Moves(c, e)
    BY <1>3, <1>5, StepsGo
  <2> HIDE DEF e
  <2>2. Holds(b, e) /\ Skips(b, e)
    BY <1>3, <2>1, KeepsTrans
  <2>3. PlanGrows(b, e)
    BY <1>3, <2>1 DEF Moves, PlanGrows
  <2> QED
    BY <2>2, <2>3 DEF Moves, e
<1>6. Moves(b, z)
  BY <1>1, <1>4, <1>5
<1> QED
  BY <1>6 DEF z

LEMMA SdpCmplGoes ==
    ASSUME NEW b, Formed(b), Quick(b), NEW a, NEW cause, NEW starts, NEW known
    PROVE  LET z == SdpCmpl(b, a, cause, starts, known)
           IN  /\ Quick(z) /\ Formed(z)
               /\ (known => b.active.node.addr = a) => Goes(b, z)
<1> DEFINE c == IF cause = "ok" THEN [b EXCEPT !.active.pending = FALSE] ELSE b
           m == [b EXCEPT !.active.pending = TRUE]
           z == SdpCmpl(b, a, cause, starts, known)
<1>1. \/ z = b \/ z = m \/ z = c \/ z = Run(StepFail(c)) \/ z = ConnectProf(c, starts)
      \/ z = Run(StepSuc(c)) /\ c.active.doing \in {"DID"} \cup c.link[a].profs /\ known
  BY Zenon DEF SdpCmpl
<1>2. Keeps(b, b)
  BY HoldsRefl
<1>3. \A u : Keeps(b, [b EXCEPT !.active.pending = u])
  BY NotesHold
<1>4. Keeps(b, m)
  BY <1>3, Zenon
<1>5. Keeps(b, c)
  <2>1. Keeps(b, [b EXCEPT !.active.pending = FALSE])
    BY <1>3, Zenon
  <2> QED
    BY <1>2, <2>1
<1>6. c.active.node.addr = b.active.node.addr
  <2>1. [b EXCEPT !.active.pending = FALSE].active.node = b.active.node
    BY DEF Formed, Fits, Fields, ActiveFields
  <2> QED
    BY <2>1
<1> HIDE DEF c, m, z
<1>7. Formed(c)
  BY <1>5 DEF Keeps, Holds
<1>8. ASSUME NEW d, Moves(c, d) PROVE Goes(b, d) /\ Formed(d)
  BY <1>5, <1>8, KeepsTrans, GoesOn DEF Holds
<1>9. /\ Goes(b, b) /\ Formed(b) /\ Goes(b, m) /\ Formed(m) /\ Goes(b, c) /\ Formed(c)
  BY <1>2, <1>4, <1>5, GoesOn
<1>10. /\ Goes(b, Run(StepFail(c))) /\ Formed(Run(StepFail(c)))
       /\ Goes(b, ConnectProf(c, starts)) /\ Formed(ConnectProf(c, starts))
  BY <1>7, <1>8, StepsGo, ConnectProfMoves
<1>11. ASSUME c.active.doing \in {"DID"} \cup c.link[a].profs, known
       PROVE  /\ Quick(Run(StepSuc(c))) /\ Formed(Run(StepSuc(c)))
              /\ b.active.node.addr = a => Goes(b, Run(StepSuc(c)))
  <2>1. Holds(c, Run(StepSuc(c))) /\ Quick(c)
    BY <1>7, <1>9, StepsGo DEF Goes
  <2>2. b.active.node.addr = a => Moves(c, Run(StepSuc(c)))
    BY <1>6, <1>7, <1>11, StepsGo
  <2> QED
    BY <1>8, <2>1, <2>2, QuickHeld DEF Holds
<1>12. Quick(z) /\ Formed(z) /\ ((known => b.active.node.addr = a) => Goes(b, z))
  BY <1>1, <1>9, <1>10, <1>11 DEF Goes
<1> QED
  BY <1>12 DEF z

LEMMA SearchAttrGoes ==
    ASSUME Ready(bp), Quick(bp), NEW a \in Addrs, SearchAttr(a) PROVE Goes(bp, bp')
<1>1. Formed(bp)
  BY GoodFormed DEF Ready
<1>2. bp' = bp \/ bp' = [bp EXCEPT !.active.sdp_ok = TRUE]
  BY Zenon DEF SearchAttr, Becomes, SdpAttr
<1>3. \A u : Keeps(bp, [bp EXCEPT !.active.sdp_ok = TRUE])
  BY <1>1, NotesHold
<1> QED
  BY <1>1, <1>2, <1>3, HoldsRefl, GoesOn

LEMMA SearchCmplGoes ==
    ASSUME Ready(bp), Quick(bp), NEW a \in Addrs, SearchCmpl(a) PROVE Goes(bp, bp')
<1> DEFINE b == Done(bp, Op("sdp", a))
           known == IsCurrent(bp, a)
<1>1. Formed(bp)
  BY GoodFormed DEF Ready
<1>2. Keeps(bp, b) /\ b.active = bp.active
  BY <1>1, OpParts, KeepsSmall DEF Done, Formed, Fits, Fields
<1>3. \E starts, cause : \/ bp' = SdpCmpl(b, a, cause, starts, IsCurrent(b, a))
                         \/ bp' = Ask(SdpCmpl(b, a, cause, starts, IsCurrent(b, a)), Op("disc", a))
  BY DEF SearchCmpl, Becomes
<1> HIDE DEF b
<1>4. PICK starts, cause : \/ bp' = SdpCmpl(b, a, cause, starts, IsCurrent(b, a))
                           \/ bp' = Ask(SdpCmpl(b, a, cause, starts, IsCurrent(b, a)), Op("disc", a))
  BY <1>3
<1> DEFINE d == SdpCmpl(b, a, cause, starts, IsCurrent(b, a))
<1>5. Quick(b) /\ Formed(b)
  BY <1>2, GoesOn DEF Goes
<1>6. Goes(b, d) /\ Formed(d)
  <2> DEFINE w == IsCurrent(b, a)
  <2>1. w => b.active.node.addr = a
    BY DEF IsCurrent
  <2> HIDE DEF w
  <2> QED
    BY <1>5, <2>1, SdpCmplGoes, Zenon DEF w
<1> HIDE DEF d
<1>7. Goes(bp, d)
  BY <1>2, <1>6, GoesOn
<1> QED
  BY <1>4, <1>6, <1>7, AskGoes, OpParts DEF d

\* The end of a stopped search makes linkback_run go on.
LEMMA SearchStopGoes ==
    ASSUME Ready(bp), Quick(bp), NEW a \in Addrs, SearchStop(a) PROVE Goes(bp, bp')
<1> DEFINE b == Done(bp, Op("stop", a))
           r == Run(Clear(b, {"after_stop_sdp"}))
<1>0. DOMAIN bp = Fields /\ Formed(bp)
  BY GoodFormed DEF Ready, Formed, Fits
<1>1. bp' = r \/ (bp' = b /\ ~(b.cur = "LINKBACK" /\ Is(b, "after_stop_sdp")))
  BY Zenon DEF SearchStop, Becomes, SdpStop
<1>2. /\ DOMAIN b = Fields /\ b.op = bp.op \ {Op("stop", a)}
      /\ \A f \in Fields \ {"op"} : b[f] = bp[f]
  BY <1>0 DEF Done, Fields
<1>3. /\ DOMAIN r = Fields /\ r.op = b.op /\ r.run /\ (Is(r, "one_link") => Is(b, "one_link"))
      /\ \A f \in Fields \ {"flag", "run"} : r[f] = b[f]
  BY <1>2 DEF Run, Clear, Fields, Is
<1> HIDE DEF b, r
<1>4. /\ b.cur = bp.cur /\ b.radio = bp.radio /\ b.num = bp.num /\ b.link = bp.link
      /\ b.timer = bp.timer /\ b.flag = bp.flag /\ b.active = bp.active /\ b.run = bp.run
  BY <1>2 DEF Fields
<1>5. /\ r.cur = bp.cur /\ r.radio = bp.radio /\ r.num = bp.num /\ r.link = bp.link
      /\ r.timer = bp.timer /\ r.active = bp.active
  BY <1>3, <1>4 DEF Fields
<1>6. \A o \in bp.op : o[1] # "stop" => o \in b.op
  BY <1>2, OpParts
<1>7. ASSUME NEW c, c.cur = bp.cur, c.radio = bp.radio, c.num = bp.num, c.link = bp.link,
             c.active = bp.active, Is(c, "one_link") => Is(bp, "one_link"), c.op = b.op, CallFine(c)
      PROVE  Goes(bp, c)
  <2>1. LinksFine(c)
    <3>1. \A x : Op("disc", x) \in bp.op => Op("disc", x) \in c.op
      BY <1>6, <1>7, OpParts
    <3>2. \A x, p : <<"pdisc", x, p>> \in bp.op => <<"pdisc", x, p>> \in c.op
      BY <1>6, <1>7
    <3>3. Known(c) /\ Roles(c)
      BY <1>7 DEF Quick, LinksFine, Known, Roles
    <3>4. Marked(c)
      BY <1>7, <3>1 DEF Quick, LinksFine, Marked, Over, ToGo
    <3>5. Leads(c)
      BY <1>7, <3>1, <3>2 DEF Quick, LinksFine, Leads, Led
    <3> QED
      BY <3>3, <3>4, <3>5 DEF LinksFine
  <2>2. Authed(c) = Authed(bp)
    BY <1>7 DEF Authed
  <2>3. Spare(c) /\ Shut(c)
    BY <1>7, <2>2 DEF Quick, Spare, Shut, Full
  <2> QED
    BY <1>7, <2>1, <2>3 DEF Goes, Quick, Skips
<1>8. Goes(bp, r)
  <2>1. Pursued(r)
    BY <1>5 DEF Quick, CallFine, Pursued, Linked
  <2>2. CallFine(r)
    BY <1>3, <2>1, NotCalling
  <2> QED
    BY <1>3, <1>4, <1>5, <1>7, <2>2 DEF Is
<1>9. ASSUME ~(b.cur = "LINKBACK" /\ Is(b, "after_stop_sdp")) PROVE Goes(bp, b)
  <2>1. Authed(b) = Authed(bp) /\ b.op \subseteq bp.op
    BY <1>2, <1>4 DEF Authed
  <2>2. CallFine(b)
    BY <1>4, <1>9, <2>1 DEF Quick, CallFine, Pursued, Halted, Called, Linked, Full, Is
  <2> QED
    BY <1>4, <1>7, <2>2 DEF Is
<1> QED
  BY <1>1, <1>8, <1>9

-----------------------------------------------------------------------------
(* Profiles.                                                               *)

LEMMA ProfConnSucGoes ==
    ASSUME NEW b, Formed(b), Quick(b), NEW a \in Addrs, NEW p PROVE Goes(b, ProfConnSuc(b, a, p))
<1> DEFINE c == IF p = "A2DP" THEN DedicatedConnect(b, a, {"DID"}) ELSE b
           d == Bond(c, a, p)
           u == CASE p = "A2DP" -> d.link[a].later \/ "AVRCP" \notin d.link[a].profs
                  [] p = "AVRCP" -> FALSE
                  [] OTHER -> d.link[a].later
           e == [d EXCEPT !.link[a].later = u]
           z == ProfConnSuc(b, a, p)
<1> SUFFICES Goes(b, z)
  OBVIOUS
<1>1. z = IF e.cur = "LINKBACK" THEN StepDone(e, a, p) ELSE e
  <2>1. DOMAIN d.link[a] = LinkFields \/ TRUE
    OBVIOUS
  <2> QED
    BY DEF ProfConnSuc
<1>2. Keeps(b, c)
  BY HoldsRefl, ConnectKeeps
<1> HIDE DEF c, z
<1>3. Formed(c)
  BY <1>2 DEF Keeps, Holds
<1>4. Keeps(c, d) /\ p \in d.link[a].profs
  <2>1. \A w : Keeps(c, d) /\ p \in d.link[a].profs
    BY <1>3, LinkFieldKeeps
  <2> QED
    BY <2>1
<1> HIDE DEF d
<1>5. Formed(d)
  BY <1>4 DEF Keeps, Holds
<1> HIDE DEF u
<1>6. Keeps(d, e) /\ e.link[a].profs = d.link[a].profs
  BY <1>5, LinkFieldKeeps
<1> HIDE DEF e
<1>7. Keeps(b, e) /\ Formed(e) /\ p \in e.link[a].profs
  BY <1>2, <1>4, <1>6, KeepsTrans DEF Keeps, Holds
<1>8. Goes(b, e)
  BY <1>7, GoesOn
<1>9. ASSUME IsCurrentProf(e, a, p) PROVE Goes(b, Run(StepSuc(e)))
  <2>1. Moves(e, Run(StepSuc(e)))
    BY <1>7, <1>9, StepsGo DEF IsCurrentProf, IsCurrent
  <2> QED
    BY <1>7, <2>1, KeepsTrans, GoesOn
<1>10. z = e \/ (z = Run(StepSuc(e)) /\ IsCurrentProf(e, a, p))
  BY <1>1, Zenon DEF StepDone
<1> QED
  BY <1>8, <1>9, <1>10

LEMMA ProfConnFailGoes ==
    ASSUME NEW b, Formed(b), Quick(b), NEW a, NEW p, NEW cause
    PROVE  Goes(b, ProfConnFail(b, a, p, cause)) /\ Formed(ProfConnFail(b, a, p, cause))
<1> DEFINE z == ProfConnFail(b, a, p, cause)
<1>1. \/ z = b \/ z = Ask(b, Op("disc", a)) \/ z = Start(b, "delay") \/ z = Run(StepFail(b))
  BY Zenon DEF ProfConnFail
<1> HIDE DEF z
<1>2. Goes(b, b) /\ Formed(b)
  BY HoldsRefl, GoesOn
<1>3. Goes(b, Ask(b, Op("disc", a))) /\ Formed(Ask(b, Op("disc", a)))
  BY <1>2, AskGoes, OpParts
<1>4. Keeps(b, Start(b, "delay"))
  BY KeepsSmall
<1>5. Goes(b, Start(b, "delay")) /\ Formed(Start(b, "delay"))
  BY <1>4, GoesOn
<1>6. Goes(b, Run(StepFail(b))) /\ Formed(Run(StepFail(b)))
  BY StepsGo, GoesOn DEF Moves, Holds
<1>7. Goes(b, z) /\ Formed(z)
  BY <1>1, <1>2, <1>3, <1>5, <1>6
<1> QED
  BY <1>7 DEF z

LEMMA ConnCmplGoes ==
    ASSUME Ready(bp), Quick(bp), NEW a \in Addrs, NEW p, ConnCmpl(a, p) PROVE Goes(bp, bp')
<1> DEFINE o == <<"conn", a, p>>
           b == Done(bp, o)
<1>1. Formed(bp)
  BY GoodFormed DEF Ready
<1>2. o[1] = "conn"
  OBVIOUS
<1>3. \E cause : \/ bp' = ProfConnSuc(b, a, p) \/ bp' = ProfConnFail(b, a, p, cause)
                 \/ bp' = Ask(ProfConnFail(b, a, p, cause), Op("disc", a))
  BY DEF ConnCmpl, Becomes
<1> HIDE DEF o
<1>4. Keeps(bp, b) /\ b.active = bp.active
  BY <1>1, <1>2, KeepsSmall DEF Done, Formed, Fits, Fields
<1> HIDE DEF b
<1>5. Quick(b) /\ Formed(b)
  BY <1>4, GoesOn DEF Goes
<1>6. PICK cause : \/ bp' = ProfConnSuc(b, a, p) \/ bp' = ProfConnFail(b, a, p, cause)
                   \/ bp' = Ask(ProfConnFail(b, a, p, cause), Op("disc", a))
  BY <1>3
<1>7. Goes(b, ProfConnSuc(b, a, p))
  BY <1>5, ProfConnSucGoes
<1>8. Goes(b, ProfConnFail(b, a, p, cause)) /\ Formed(ProfConnFail(b, a, p, cause))
  BY <1>5, ProfConnFailGoes
<1>9. Goes(b, Ask(ProfConnFail(b, a, p, cause), Op("disc", a)))
  BY <1>8, AskGoes, OpParts
<1> QED
  BY <1>4, <1>6, <1>7, <1>8, <1>9, GoesOn

\* One profile of a link is gone, or was not there: the link that was to go with it is
\* asked to.
LEMMA ProfGone ==
    ASSUME NEW b, Formed(b), Quick(b), NEW a \in Addrs, NEW p, NEW c, DOMAIN c = Fields,
           \A f \in Fields \ {"link", "op"} : c[f] = b[f],
           DOMAIN c.link = Addrs,
           \A x \in Addrs : x # a => c.link[x] = b.link[x],
           NEW l, c.link[a] = l, DOMAIN l = LinkFields, l.used = b.link[a].used,
           l.auth = b.link[a].auth, l.master = b.link[a].master,
           b.link[a].drop => l.drop \/ Op("disc", a) \in c.op,
           Single /\ l.drop => Led(c, a),
           \A o \in b.op : o # <<"pdisc", a, p>> => o \in c.op,
           \A o \in c.op : o[1] = "sdp" => o \in b.op
    PROVE  Goes(b, c)
<1>1. /\ c.cur = b.cur /\ c.radio = b.radio /\ c.num = b.num /\ c.active = b.active
      /\ c.timer = b.timer /\ c.flag = b.flag /\ c.run = b.run
  BY DEF Fields
<1>2. /\ \A x : Op("disc", x) \in b.op => Op("disc", x) \in c.op
      /\ \A x : Op("stop", x) \in b.op => Op("stop", x) \in c.op
  BY OpParts
<1>3. /\ \A x \in Addrs : /\ c.link[x].used = b.link[x].used /\ c.link[x].auth = b.link[x].auth
                          /\ c.link[x].master = b.link[x].master
                          /\ b.link[x].drop => c.link[x].drop \/ Op("disc", x) \in c.op
  OBVIOUS
<1>4. Authed(c) = Authed(b)
  BY <1>3 DEF Authed
<1>5. Known(c) /\ Roles(c)
  BY <1>3 DEF Quick, LinksFine, Known, Roles
<1>6. Marked(c)
  BY <1>1, <1>2, <1>3 DEF Quick, LinksFine, Marked, Over, ToGo
<1>7. Leads(c)
  <2> SUFFICES ASSUME Single, NEW x \in Addrs, c.link[x].drop, x # a PROVE Led(c, x)
    BY DEF Leads
  <2>1. c.link[x] = b.link[x] /\ Led(b, x)
    BY DEF Quick, LinksFine, Leads
  <2>2. \A q : <<"pdisc", x, q>> \in b.op => <<"pdisc", x, q>> \in c.op
    OBVIOUS
  <2> QED
    BY <1>2, <2>1, <2>2 DEF Led
<1>8. CallFine(c)
  <2>1. HoldsCall(b, c)
    BY <1>1 DEF HoldsCall, SamePhone, Is
  <2>2. \A x : Linked(b, x) => Linked(c, x)
    BY <1>3 DEF Linked
  <2> QED
    BY <1>1, <1>2, <1>4, <2>1, <2>2, CallHeld DEF Quick, Full
<1> QED
  BY <1>1, <1>4, <1>5, <1>6, <1>7, <1>8 DEF Goes, Quick, LinksFine, Spare, Shut, Is, Full, Skips

LEMMA DisconnCmplGoes ==
    ASSUME Ready(bp), Quick(bp), NEW a \in Addrs, NEW p, DisconnCmpl(a, p) PROVE Goes(bp, bp')
<1> DEFINE o == <<"pdisc", a, p>>
           b == Done(bp, o)
           k == bp.link[a]
           q == k.profs \ {p}
           ends == q = {} /\ k.drop
           m == [k EXCEPT !.profs = q]
           l == IF ends THEN [m EXCEPT !.drop = FALSE] ELSE m
           c == [b EXCEPT !.link[a].profs = @ \ {p}]
           d == IF p = "A2DP" /\ "AVRCP" \in c.link[a].profs THEN Ask(c, <<"pdisc", a, "AVRCP">>) ELSE c
           e == [d EXCEPT !.link[a].drop = FALSE]
           z == ProfDisconn(b, a, p)
<1>1. /\ Formed(bp) /\ DOMAIN bp = Fields /\ DOMAIN bp.link = Addrs /\ DOMAIN k = LinkFields
      /\ k.profs \subseteq Profs
  BY GoodFormed DEF Ready, Formed, Fits, Good, LinksOK, Link
<1>2. bp' = IF p \in k.profs THEN z ELSE b
  BY DEF DisconnCmpl, Becomes
<1>3. /\ DOMAIN b = Fields /\ b.op = bp.op \ {o} /\ b.link = bp.link
      /\ \A f \in Fields \ {"op"} : b[f] = bp[f]
  BY <1>1 DEF Done, Fields
<1>4. /\ \A x \in bp.op : x # o => x \in b.op
      /\ \A x \in b.op : x \in bp.op
      /\ o[1] = "pdisc"
  BY <1>3
<1>5. CASE p \notin k.profs
  <2>1. bp' = b
    BY <1>2, <1>5
  <2>2. Single /\ k.drop => Led(b, a)
    <3> SUFFICES ASSUME Single, k.drop PROVE Led(b, a)
      OBVIOUS
    <3>1. Led(bp, a)
      BY DEF Quick, LinksFine, Leads
    <3>2. Op("disc", a) \in bp.op => Op("disc", a) \in b.op
      BY <1>4, OpParts
    <3>3. \A x \in k.profs : <<"pdisc", a, x>> \in bp.op => <<"pdisc", a, x>> \in b.op
      BY <1>4, <1>5
    <3> QED
      BY <1>3, <3>1, <3>2, <3>3 DEF Led
  <2> HIDE DEF b, k
  <2>3. b.link[a] = k /\ bp.link[a] = k
    BY <1>3 DEF k
  <2> HIDE DEF o
  <2>4. \A f \in Fields \ {"link", "op"} : b[f] = bp[f]
    BY <1>3
  <2>5. Goes(bp, b)
    BY <1>1, <1>3, <1>4, <2>2, <2>3, <2>4, ProfGone DEF o
  <2> QED
    BY <2>1, <2>5
<1>6. CASE p \in k.profs
  <2>1. z = IF d.link[a].profs = {} /\ d.link[a].drop THEN Ask(e, Op("disc", a)) ELSE d
    BY DEF ProfDisconn
  <2>2. bp' = z
    BY <1>2, <1>6
  <2> HIDE DEF z
  <2>3. /\ DOMAIN m = LinkFields /\ m.profs = q /\ m.drop = k.drop /\ m.used = k.used
        /\ m.auth = k.auth /\ m.master = k.master
    BY <1>1 DEF LinkFields
  <2>4. /\ DOMAIN c = Fields /\ c.op = b.op /\ c.link = [bp.link EXCEPT ![a] = m]
        /\ \A f \in Fields \ {"link"} : c[f] = b[f]
    BY <1>1, <1>3 DEF Fields
  <2> HIDE DEF m, b, c, o
  <2>5. c.link[a] = m
    BY <1>1, <2>4
  <2>6. /\ DOMAIN d = Fields /\ c.op \subseteq d.op /\ (\A x \in d.op : x \in c.op \/ x[1] = "pdisc")
        /\ \A f \in Fields \ {"op"} : d[f] = c[f]
    BY <2>4 DEF Ask, Fields
  <2> HIDE DEF d
  <2>7. d.link = c.link
    BY <2>6 DEF Fields
  <2>8. DOMAIN l = LinkFields /\ l.used = k.used /\ l.auth = k.auth /\ l.master = k.master
        /\ l.profs = q /\ l.drop = (k.drop /\ ~ends)
    BY <1>1, <2>3 DEF LinkFields, Ready, Good, LinksOK, Link
  <2>9. Single => q = {}
    BY <1>1, <1>6 DEF Single
  <2> HIDE DEF q
  <2>10. /\ DOMAIN z = Fields /\ z.link = [bp.link EXCEPT ![a] = l]
         /\ d.op \subseteq z.op /\ (\A x \in z.op : x \in d.op \/ x = Op("disc", a))
         /\ \A f \in Fields \ {"link", "op"} : z[f] = d[f]
         /\ ends => Op("disc", a) \in z.op
    <3>1. CASE ends
      <4>1. z = Ask(e, Op("disc", a)) /\ l = [m EXCEPT !.drop = FALSE]
        BY <2>1, <2>3, <2>5, <2>7, <3>1
      <4>2. e.link = [bp.link EXCEPT ![a] = l] /\ DOMAIN e = Fields /\ \A f \in Fields \ {"link"} : e[f] = d[f]
        <5>1. /\ e.link = [d.link EXCEPT ![a] = [d.link[a] EXCEPT !.drop = FALSE]]
              /\ DOMAIN e = Fields /\ \A f \in Fields \ {"link"} : e[f] = d[f]
          BY <2>6 DEF Fields
        <5>2. d.link = [bp.link EXCEPT ![a] = m] /\ d.link[a] = m
          BY <2>4, <2>5, <2>7
        <5> HIDE DEF e, l, ends
        <5>3. e.link = [[bp.link EXCEPT ![a] = m] EXCEPT ![a] = l]
          BY <4>1, <5>1, <5>2
        <5>4. [[bp.link EXCEPT ![a] = m] EXCEPT ![a] = l] = [bp.link EXCEPT ![a] = l]
          OBVIOUS
        <5> QED
          BY <5>1, <5>3, <5>4
      <4> HIDE DEF e, l, ends
      <4>3. /\ DOMAIN z = Fields /\ z.op = e.op \cup {Op("disc", a)}
            /\ \A f \in Fields \ {"op"} : z[f] = e[f]
        BY <4>1, <4>2 DEF Ask, Fields
      <4> QED
        BY <4>2, <4>3 DEF Fields
    <3>2. CASE ~ends
      <4>1. z = d /\ l = m
        BY <2>1, <2>3, <2>5, <2>7, <3>2
      <4> QED
        BY <2>4, <2>6, <2>7, <3>2, <4>1
    <3> QED
      BY <3>1, <3>2
  <2>11. k.drop => l.drop \/ Op("disc", a) \in z.op
    BY <2>8, <2>10
  <2>12. ~(Single /\ l.drop)
    BY <2>8, <2>9
  <2> HIDE DEF e, l, ends, k
  <2>13. /\ DOMAIN z.link = Addrs /\ z.link[a] = l /\ bp.link[a] = k
         /\ \A x \in Addrs : x # a => z.link[x] = bp.link[x]
    BY <1>1, <2>10 DEF k
  <2>14. /\ \A x \in bp.op : x # o => x \in z.op
         /\ \A x \in z.op : x[1] = "sdp" => x \in bp.op
    BY <1>4, <2>4, <2>6, <2>10, OpParts
  <2>15. \A f \in Fields \ {"link", "op"} : z[f] = bp[f]
    BY <1>3, <2>4, <2>6, <2>10
  <2>16. Goes(bp, z)
    BY <1>1, <2>8, <2>10, <2>11, <2>12, <2>13, <2>14, <2>15, ProfGone DEF o
  <2> QED
    BY <2>2, <2>16
<1> QED
  BY <1>5, <1>6

-----------------------------------------------------------------------------
(* What phones do.                                                         *)

LEMMA PhoneGoes ==
    ASSUME Ready(bp), Quick(bp), NEW a \in Addrs, Phone(a)
    PROVE  /\ Quick(bp')
           /\ "roles" \notin Features \/ (\A x, y \in Addrs : x = y) => Goes(bp, bp')
<1>1. Formed(bp) /\ Goes(bp, bp)
  BY GoodFormed, HoldsRefl, GoesOn DEF Ready
<1>2. CASE Incoming(a)
  <2> DEFINE i == [bp EXCEPT !.ind = @ \cup {a}]
  <2>1. bp' = bp \/ bp' = Ask(bp, Op("in", a)) \/ bp' = Ask(i, Op("in", a))
    BY <1>2, Zenon DEF Incoming, Becomes, ConnInd
  <2>2. DOMAIN i = Fields /\ \A f \in Fields \ {"ind"} : i[f] = bp[f]
    BY <1>1 DEF Formed, Fits
  <2> HIDE DEF i
  <2>3. Beside(bp, i)
    BY <2>2 DEF Beside, Fields, KeepsFlag, Is
  <2>4. Goes(bp, i) /\ Formed(i)
    BY <1>1, <2>3, KeepsBeside, GoesOn
  <2>5. Goes(bp, bp')
    BY <1>1, <2>1, <2>4, AskGoes, OpParts
  <2> QED
    BY <2>5 DEF Goes
<1>3. CASE RoleSwitched(a)
  <2> DEFINE c == [bp EXCEPT !.link[a].master = FALSE]
  <2>1. PICK starts, notCheck : bp' = RoleSlave(bp, a, starts, notCheck)
    BY <1>3 DEF RoleSwitched, Becomes
  <2>2. \A p, u : Keeps(bp, c) /\ c.active = bp.active
    BY <1>1, LinkFieldKeeps
  <2>3. Keeps(bp, c) /\ c.active = bp.active
    BY <2>2
  <2> HIDE DEF c
  <2>4. Goes(bp, c) /\ Formed(c) /\ Quick(c)
    BY <1>1, <2>3, GoesOn DEF Goes
  <2> DEFINE known == notCheck \/ IsCurrent(c, a)
             z == SdpCmpl(c, a, "ok", starts, known)
  <2>5. bp' = IF c.active.pending THEN z ELSE c
    BY <2>1 DEF RoleSlave, c
  <2>6. Quick(z) /\ ((known => c.active.node.addr = a) => Goes(c, z))
    <3> HIDE DEF known
    <3> QED
      BY <2>4, SdpCmplGoes
  <2>7. ASSUME "roles" \notin Features \/ \A x, y \in Addrs : x = y PROVE Goes(bp, bp')
    <3>1. "roles" \in Features
      BY <1>3 DEF RoleSwitched, Quick, LinksFine, Roles
    <3>2. CASE c.active.valid
      <4>1. c.active.node.addr = a
        BY <2>3, <2>7, <3>1, <3>2 DEF Ready, Good, ActiveOK
      <4> HIDE DEF known, z
      <4> QED
        BY <1>1, <2>3, <2>4, <2>5, <2>6, <4>1, GoesOn
    <3>3. CASE ~c.active.valid
      <4>1. Goes(bp, z)
        BY <2>3, <2>6, <3>3 DEF Goes, Skips
      <4> QED
        BY <2>4, <2>5, <4>1
    <3> QED
      BY <3>2, <3>3
  <2> HIDE DEF z, known
  <2>8. Quick(bp')
    BY <2>4, <2>5, <2>6
  <2> QED
    BY <2>7, <2>8
<1>4. CASE \E p \in Profs : RemoteConn(a, p)
  <2>1. PICK p : bp' = ProfConnSuc(bp, a, p)
    BY <1>4 DEF RemoteConn, Becomes
  <2>2. Goes(bp, bp')
    BY <1>1, <2>1, ProfConnSucGoes
  <2> QED
    BY <2>2 DEF Goes
<1> QED
  BY <1>2, <1>3, <1>4 DEF Phone

-----------------------------------------------------------------------------
(* Shutting down and the timers.                                           *)

\* Where the headset shuts down, links may be too many.
LEMMA ShutDownStepGoes ==
    ASSUME NEW b, Base(b), Roles(b), Leads(b), b.cur = "SHUTDOWN_STEP"
    PROVE  Goes(b, ShutDownStep(b)) /\ ShutDownStep(b).active = b.active
<1> DEFINE waited == b.cnt + 1
           next   == CASE b.step = "START_PROFILE" -> "WAIT_PROFILE"
                       [] b.step = "WAIT_PROFILE"  -> IF waited >= 4 THEN "START_LINK" ELSE b.step
                       [] b.step = "START_LINK"    -> "WAIT_LINK"
                       [] b.step = "WAIT_LINK"     -> IF IsEmpty(b) \/ waited >= 4 THEN "END" ELSE b.step
                       [] b.step = "END"           -> "END"
           asked  == CASE b.step = "START_PROFILE"
                            -> {Op("disc", a) : a \in {x \in UsedLinks(b) : b.link[x].profs = {}}}
                               \cup {o \in {"pdisc"} \X Addrs \X Profs : o[3] \in b.link[o[2]].profs}
                       [] b.step = "START_LINK" -> {Op("disc", a) : a \in UsedLinks(b)}
                       [] OTHER -> {}
           wait   == IF b.step \in {"WAIT_PROFILE", "WAIT_LINK"} THEN waited
                     ELSE IF b.step = "END" THEN b.cnt ELSE 0
           links  == IF b.step # "START_PROFILE" THEN b.link
                     ELSE [a \in Addrs |-> [b.link[a] EXCEPT !.drop = FALSE]]
           c      == [b EXCEPT !.step = next, !.op = @ \cup asked, !.cnt = wait, !.link = links]
           e      == EnterState(c, "SHUTDOWN", "IDLE", FALSE)
           t      == Start(c, "shutdown")
           z      == ShutDownStep(b)
<1> SUFFICES Goes(b, z) /\ z.active = b.active
  OBVIOUS
<1>0. Formed(b) /\ DOMAIN b = Fields /\ DOMAIN b.link = Addrs /\ \A a \in Addrs : DOMAIN b.link[a] = LinkFields
  BY DEF Base, Formed, Fits
<1>1. z = IF next = "END" THEN e ELSE t
  BY DEF ShutDownStep
<1> HIDE DEF next, asked, wait, z
<1>2. /\ DOMAIN c = Fields /\ c.op = b.op \cup asked /\ c.link = links
      /\ \A f \in Fields \ {"step", "op", "cnt", "link"} : c[f] = b[f]
  BY <1>0 DEF Fields
<1> HIDE DEF c
<1>3. /\ DOMAIN c.link = Addrs
      /\ \A a \in Addrs : /\ DOMAIN c.link[a] = LinkFields /\ c.link[a].used = b.link[a].used
                          /\ c.link[a].auth = b.link[a].auth /\ c.link[a].master = b.link[a].master
                          /\ c.link[a].profs = b.link[a].profs
                          /\ c.link[a].drop => b.link[a].drop
  <2>1. CASE b.step # "START_PROFILE"
    BY <1>0, <1>2, <2>1
  <2>2. CASE b.step = "START_PROFILE"
    <3>1. c.link = [a \in Addrs |-> [b.link[a] EXCEPT !.drop = FALSE]]
      BY <1>2, <2>2
    <3> QED
      BY <1>0, <3>1 DEF LinkFields
  <2> QED
    BY <2>1, <2>2
<1>4. /\ c.cur = b.cur /\ c.radio = b.radio /\ c.num = b.num /\ c.active = b.active
      /\ c.timer = b.timer /\ c.flag = b.flag /\ c.run = b.run
  BY <1>2 DEF Fields
<1>5. Authed(c) = Authed(b) /\ UsedLinks(c) = UsedLinks(b)
  BY <1>3 DEF Authed, UsedLinks
<1>6. Base(c) /\ Roles(c)
  BY <1>0, <1>2, <1>3, <1>4, <1>5 DEF Base, Formed, Fits, Counted, Known, Roles, Spare, Is
<1>7. Leads(c)
  BY <1>2, <1>3 DEF Leads, Led
<1>8. ASSUME NEW d, KeepsLinks(c, d), d.active = c.active, d.cur \in {"SHUTDOWN_STEP", "SHUTDOWN"},
             Spare(d)
      PROVE  Goes(b, d) /\ d.active = b.active
  <2>1. LinksFine(c)
    BY <1>4, <1>6, <1>7 DEF LinksFine, Base, Marked, Over
  <2>2. LinksFine(d)
    BY <1>8, <2>1, LinksKept DEF Over
  <2>3. Shut(d) /\ CallFine(d)
    BY <1>8, NotCalling
  <2> QED
    BY <1>4, <1>8, <2>2, <2>3 DEF Goes, Quick, Skips
<1>9. Goes(b, e) /\ e.active = b.active
  <2>1. \A w : LET s == EnterState(c, "SHUTDOWN", "IDLE", w) IN Settles(c, s) /\ s.cur = "SHUTDOWN"
    BY <1>6, EnterSettles
  <2>2. Settles(c, e) /\ e.cur = "SHUTDOWN"
    BY <2>1, Zenon
  <2> HIDE DEF e
  <2> QED
    BY <1>8, <2>2 DEF Settles
<1>10. Goes(b, t) /\ t.active = b.active
  <2>1. Keeps(c, t) /\ t.active = c.active
    BY <1>2, <1>6, KeepsSmall DEF Base, Start, Fields
  <2> HIDE DEF t
  <2>2. Apart(c, t)
    BY <2>1, ApartTrans
  <2>3. KeepsLinks(c, t) /\ t.cur = c.cur /\ KeepsFlag(c, t)
    BY <2>2 DEF Apart
  <2>4. Authed(t) = Authed(c)
    BY <2>3 DEF KeepsLinks, Authed
  <2>5. Spare(t)
    BY <1>6, <2>3, <2>4 DEF Base, Spare, KeepsFlag
  <2> QED
    BY <1>4, <1>8, <2>1, <2>3, <2>5
<1> QED
  BY <1>1, <1>9, <1>10

LEMMA TimerGoes ==
    ASSUME Ready(bp), Begun(bp), Counted(bp), Quick(bp), Timer PROVE Goes(bp, bp')
<1>1. Formed(bp) /\ Goes(bp, bp) /\ Base(bp) /\ LinksFine(bp) /\ Shut(bp) /\ Good(bp)
  BY GoodFormed, HoldsRefl, GoesOn, QuickEnough DEF Ready, Quick
<1>2. CASE TimerLinkback
  BY <1>1, <1>2, LinkbackTimeoutQuick DEF TimerLinkback, Becomes, Goes, Good, ActiveOK
<1>3. CASE TimerDelay
  BY <1>1, <1>3, DelayOverQuick DEF TimerDelay, Becomes, Goes
<1>4. ASSUME NEW x, x \in {"pairing", "discoverable", "shutdown"}
      PROVE  LET b == Stop(bp, {x})
             IN  /\ Formed(b) /\ Goes(bp, b) /\ Base(b) /\ LinksFine(b) /\ Quick(b)
                 /\ b.active = bp.active /\ b.cur = bp.cur
  <2> DEFINE b == Stop(bp, {x})
  <2>1. {x} \cap {"linkback", "delay"} = {}
    BY <1>4
  <2>2. Keeps(bp, b)
    BY <1>1, <2>1, KeepsSmall
  <2>3. b.active = bp.active /\ b.cur = bp.cur
    BY <1>1 DEF Stop, Formed, Fits, Fields
  <2> HIDE DEF b
  <2>4. Formed(b) /\ Goes(bp, b) /\ Base(b) /\ LinksFine(b) /\ Quick(b)
    BY <1>1, <2>2, GoesOn, KeepsBase DEF Goes
  <2> QED
    BY <2>3, <2>4 DEF b
<1>5. CASE TimerPairing
  <2> DEFINE b == Stop(bp, {"pairing"})
             s == StableNotPairing(b, TRUE)
  <2>1. bp' = s /\ bp.cur = "PAIRING"
    BY <1>5 DEF TimerPairing, Becomes, Begun
  <2>2. Base(b) /\ LinksFine(b) /\ b.active = bp.active /\ b.cur = "PAIRING"
    BY <1>4, <2>1
  <2> HIDE DEF b
  <2>3. \A w : Settles(b, StableNotPairing(b, w)) /\ StableNotPairing(b, w).cur \in Stable
    BY <2>2, StableSettles DEF Stable
  <2>4. Settles(b, s) /\ s.cur \in Stable
    BY <2>3, Zenon
  <2> HIDE DEF s
  <2>5. Goes(b, s)
    BY <2>2, <2>4, SettlesGoes DEF Stable
  <2> QED
    BY <1>1, <2>1, <2>2, <2>5, GoesOn DEF Goes
<1>6. CASE TimerDiscoverable
  <2> DEFINE b == Stop(bp, {"discoverable"})
             s == StableAgain(b, "DISCOVERABLE_TIMEOUT")
  <2>1. bp' = IF b.cur \in Stable THEN s ELSE b
    BY <1>6 DEF TimerDiscoverable, Becomes
  <2>2. Goes(bp, b) /\ Base(b) /\ LinksFine(b) /\ b.active = bp.active
    BY <1>4
  <2> HIDE DEF b
  <2>3. Settles(b, s) /\ s.cur \in Stable
    BY <2>2, StableSettles
  <2> HIDE DEF s
  <2>4. b.cur \in Stable => Goes(b, s)
    BY <2>2, <2>3, SettlesGoes DEF Stable
  <2> QED
    BY <1>1, <2>1, <2>2, <2>4, GoesOn DEF Goes
<1>7. CASE TimerShutdown
  <2> DEFINE b == Stop(bp, {"shutdown"})
  <2>1. bp' = IF bp.cur = "SHUTDOWN_STEP" THEN ShutDownStep(b) ELSE b
    BY <1>7 DEF TimerShutdown, Becomes
  <2>2. Goes(bp, b) /\ Base(b) /\ LinksFine(b) /\ b.active = bp.active /\ b.cur = bp.cur
    BY <1>4
  <2> HIDE DEF b
  <2>3. bp.cur = "SHUTDOWN_STEP" => Goes(b, ShutDownStep(b))
    BY <2>2, ShutDownStepGoes DEF LinksFine
  <2> QED
    BY <1>1, <2>1, <2>2, <2>3, GoesOn DEF Goes
<1>8. ASSUME NEW a \in Addrs, IndTimeout(a) PROVE Goes(bp, bp')
  <2> DEFINE i == [bp EXCEPT !.ind = @ \ {a}]
  <2>1. bp' = i
    BY <1>8 DEF IndTimeout, Becomes
  <2>2. DOMAIN i = Fields /\ \A f \in Fields \ {"ind"} : i[f] = bp[f]
    BY <1>1 DEF Formed, Fits
  <2> HIDE DEF i
  <2>3. Beside(bp, i)
    BY <2>2 DEF Beside, Fields, KeepsFlag, Is
  <2> QED
    BY <1>1, <2>1, <2>3, KeepsBeside, GoesOn DEF Goes
<1>9. ASSUME NEW a \in Addrs, AvrcpTimeout(a) PROVE Goes(bp, bp')
  <2> DEFINE c == [bp EXCEPT !.link[a].later = FALSE]
             o == <<"conn", a, "AVRCP">>
  <2>1. \/ bp' = c \/ bp' = Ask(c, o)
        \/ bp' = DedicatedConnect(c, a, {"AVRCP"}) /\ c.cur \notin Stable
    BY <1>9, Zenon DEF AvrcpTimeout, Becomes, LaterAvrcp
  <2>2. \A p, u : Keeps(bp, [bp EXCEPT !.link[a].later = u])
    BY <1>1, <1>9, LinkFieldKeeps
  <2>3. Keeps(bp, c)
    BY <2>2, Zenon
  <2> HIDE DEF c
  <2>4. Goes(bp, c) /\ Formed(c)
    BY <1>1, <2>3, GoesOn DEF Goes
  <2>5. o[1] = "conn"
    OBVIOUS
  <2> HIDE DEF o
  <2>6. Goes(bp, Ask(c, o))
    BY <2>4, <2>5, AskGoes
  <2>7. c.cur \notin Stable => Goes(bp, DedicatedConnect(c, a, {"AVRCP"}))
    BY <1>1, <2>3, <2>4, ConnectKeeps, KeepsTrans, GoesOn DEF Goes
  <2> QED
    BY <2>1, <2>4, <2>6, <2>7
<1> QED
  BY <1>2, <1>3, <1>5, <1>6, <1>7, <1>8, <1>9 DEF Timer

-----------------------------------------------------------------------------
(* The user, and power.                                                    *)

LEMMA AuthenticateGoes ==
    ASSUME Ready(bp), Counted(bp), Quick(bp), NEW a \in Addrs, Authenticate(a) PROVE Goes(bp, bp')
<1>1. Good(bp) /\ Calm(bp) /\ ~bp.run /\ Formed(bp) /\ bp.link[a].used
  BY GoodFormed DEF Ready, Authenticate, Linked
<1> QED
  BY <1>1, AuthSucGoes, AuthFailGoes DEF Authenticate, Becomes

\* The user asks for a phone: linkback begins where it was not going on.
LEMMA UserConnectGoes ==
    ASSUME Ready(bp), Counted(bp), Quick(bp), "pairing" \notin Features,
           NEW a \in Addrs, UserConnect(a)
    PROVE  Goes(bp, bp')
<1>0. Formed(bp) /\ Base(bp) /\ LinksFine(bp) /\ Good(bp)
  BY QuickEnough, GoodFormed DEF Ready
<1>1. PICK profs : bp' = DedicatedConnect(bp, a, profs)
  BY DEF UserConnect, Becomes
<1>2. CASE bp.cur \notin Stable \/ profs = {"DID"}
  BY <1>0, <1>1, <1>2, ConnectKeeps, GoesOn
<1>3. CASE bp.cur \in Stable /\ profs # {"DID"}
  <2> DEFINE c == CallFirst(bp, a, profs)
             d == EnterState(c, "LINKBACK", "CONNECTABLE", FALSE)
  <2>1. bp.cur # "LINKBACK" /\ bp.cur \notin {"SHUTDOWN_STEP", "SHUTDOWN"}
    BY <1>3 DEF Stable
  <2>2. bp' = d
    BY <1>1, <1>3, <2>1, Zenon DEF DedicatedConnect
  <2>3. Keeps(bp, c) /\ c.active = bp.active /\ c.cur = bp.cur
    BY <1>0, QueueKeeps DEF CallFirst, Fields
  <2> HIDE DEF c
  <2>4. Base(c) /\ LinksFine(c)
    BY <1>0, <2>3, KeepsBase
  <2>5. Settles(c, d) /\ d.cur = "LINKBACK" /\ d.run
    BY <2>1, <2>3, <2>4, CallsSettle
  <2> HIDE DEF d
  <2>6. ~d.active.valid
    BY <1>0, <2>1, <2>3, <2>5 DEF Good, Fit, Released, Settles
  <2>7. Goes(c, d)
    BY <2>1, <2>3, <2>4, <2>5, <2>6, SettlesGoes, NotCalling
  <2> QED
    BY <2>2, <2>3, <2>7, GoesOn
<1> QED
  BY <1>2, <1>3

\* The user parts with a phone, or with all.
LEMMA UserDisconnectGoes ==
    ASSUME Ready(bp), Counted(bp), Quick(bp),
           UserDisconnectAll \/ \E a \in Addrs : UserDisconnect(a)
    PROVE  Goes(bp, bp')
<1>0. Formed(bp) /\ Good(bp) /\ LinksFine(bp) /\ Spare(bp) /\ Shut(bp) /\ CallFine(bp)
  BY GoodFormed DEF Ready, Quick
<1>1. ASSUME NEW a \in Addrs, UserDisconnect(a) PROVE Goes(bp, bp')
  <2>1. PICK profs \in {Profs} \cup {{p} : p \in Profs} : bp' = DedicatedDisconnect(bp, a, profs)
    BY <1>1 DEF UserDisconnect, Becomes
  <2>2. "disconnect" \in Features
    BY <1>1 DEF UserDisconnect, Own
  <2>3. bp.link[a].profs \subseteq Profs
    BY <1>0 DEF Good, LinksOK, Link
  <2>4. Few => bp.link[a].profs \subseteq profs
    BY <2>2, <2>3 DEF Few, Single
  <2> QED
    BY <1>0, <2>1, <2>4, QuickDisconnect DEF Goes, LinksFine
<1>2. CASE UserDisconnectAll
  <2> DEFINE s == bp.op \cup {Op("disc", a) : a \in UsedLinks(bp)}
  <2>1. bp' = [bp EXCEPT !.op = s]
    BY <1>2 DEF UserDisconnectAll, Becomes
  <2>2. (\A o \in bp.op : o \in s) /\ \A o \in s : o \in bp.op \/ \E a : o = Op("disc", a)
    OBVIOUS
  <2> HIDE DEF s
  <2>3. \A o \in s : o[1] = "sdp" => o \in bp.op
    BY <2>2, OpParts
  <2> QED
    BY <1>0, <2>1, <2>2, <2>3, OpsKeep, GoesOn
<1> QED
  BY <1>1, <1>2

\* A call comes and goes, and ends pairing.
LEMMA CallGoes ==
    ASSUME Ready(bp), Counted(bp), Quick(bp), Call PROVE Goes(bp, bp')
<1>0. Formed(bp) /\ Base(bp) /\ LinksFine(bp) /\ DOMAIN bp = Fields
  BY QuickEnough, GoodFormed DEF Ready, Formed, Fits
<1>1. ASSUME NEW u, bp' = [bp EXCEPT !.call = u] PROVE Goes(bp, bp')
  <2>1. DOMAIN bp' = Fields /\ \A f \in Fields \ {"call"} : bp'[f] = bp[f]
    BY <1>0, <1>1
  <2>2. Beside(bp, bp')
    BY <2>1 DEF Beside, Fields, KeepsFlag, Is
  <2> QED
    BY <1>0, <2>2, KeepsBeside, GoesOn
<1>2. ASSUME bp' = ExitPairing(bp) PROVE Goes(bp, bp')
  <2> DEFINE c == Clear(bp, {"dedicated"})
             s == StableNotPairing(c, FALSE)
  <2>1. bp' = IF c.cur \in Stable THEN s ELSE c
    BY <1>2, Zenon DEF ExitPairing
  <2>2. "after_stop_sdp" \notin {"dedicated"}
    OBVIOUS
  <2>3. Keeps(bp, c) /\ c.active = bp.active
    BY <1>0, <2>2, KeepsSmall DEF Clear, Fields
  <2> HIDE DEF c
  <2>4. Base(c) /\ LinksFine(c) /\ Goes(bp, c)
    BY <1>0, <2>3, KeepsBase, GoesOn
  <2>5. c.cur \in Stable => \A w : Settles(c, StableNotPairing(c, w)) /\ StableNotPairing(c, w).cur \in Stable
    BY <2>4, StableSettles
  <2>6. c.cur \in Stable => Settles(c, s) /\ s.cur \in Stable
    BY <2>5, Zenon
  <2> HIDE DEF s
  <2>7. c.cur \in Stable => Goes(c, s)
    BY <2>4, <2>6, SettlesGoes DEF Stable
  <2> QED
    BY <2>1, <2>3, <2>4, <2>7, GoesOn
<1> QED
  BY <1>1, <1>2, Zenon DEF Call, Becomes

\* What goes on is stopped, and the phone being called is put back.
LEMMA StopAllApart ==
    ASSUME NEW b, Formed(b), NEW used
    PROVE  Apart(b, StopAll(b, used)) /\ ~StopAll(b, used).active.valid
<1> DEFINE c == Stop(b, {"pairing", "discoverable", "linkback", "delay"})
           d == Clear(c, {"after_stop_sdp"})
           e == StopSearch(d, c.active.node.addr)
           q == [e EXCEPT !.queue = Q!UseLeftTime(e.queue, e.active.node, used, FALSE, FALSE)]
           z == StopAll(b, used)
<1> SUFFICES Apart(b, z) /\ ~z.active.valid
  OBVIOUS
<1>0. DOMAIN b = Fields
  BY DEF Formed, Fits
<1>1. z = IF c.active.valid THEN Invalid(q) ELSE c
  BY Zenon DEF StopAll, PutBack
<1>2. DOMAIN c = Fields /\ \A f \in Fields \ {"timer"} : c[f] = b[f]
  BY <1>0 DEF Stop, Fields
<1> HIDE DEF z, c
<1>3. DOMAIN d = Fields /\ d.flag \subseteq c.flag /\ \A f \in Fields \ {"flag"} : d[f] = c[f]
  BY <1>2 DEF Clear, Fields
<1> HIDE DEF d
<1>4. Apart(b, c)
  BY <1>2, ApartFields DEF Formed, Fields
<1>5. Apart(c, d)
  <2>1. /\ d.cur = c.cur /\ d.radio = c.radio /\ d.num = c.num /\ d.link = c.link /\ d.active = c.active
        /\ d.op = c.op
    BY <1>3 DEF Fields
  <2> QED
    BY <1>3, <1>4, <2>1 DEF Apart, Formed, Fits, KeepsLinks, KeepsFlag, Is
<1>6. Keeps(d, e)
  BY <1>5, StopSearchKeeps DEF Apart
<1> HIDE DEF e
<1>7. Formed(e)
  BY <1>6 DEF Keeps, Holds
<1>8. Keeps(e, q)
  BY <1>7, QueueKeeps
<1> HIDE DEF q
<1>9. Formed(q)
  BY <1>8 DEF Keeps, Holds
<1>10. Apart(q, Invalid(q)) /\ ~Invalid(q).active.valid
  <2> DEFINE i == Invalid(q)
  <2>1. Formed(i) /\ ~i.active.valid /\ \A f \in Fields \ {"active"} : i[f] = q[f]
    BY <1>9, GivenUpHolds
  <2> HIDE DEF i
  <2>2. Apart(q, i)
    BY <1>9, <2>1, ApartFields DEF Formed, Fits
  <2> QED
    BY <2>1, <2>2 DEF i
<1>11. Apart(b, Invalid(q))
  BY <1>4, <1>5, <1>6, <1>8, <1>10, ApartTrans
<1> QED
  BY <1>1, <1>4, <1>10, <1>11

\* Into the charging box, or off.
LEMMA StopGoes ==
    ASSUME Ready(bp), Counted(bp), Quick(bp), PowerOff \/ IntoBox PROVE Goes(bp, bp')
<1>0. Formed(bp) /\ Base(bp) /\ LinksFine(bp)
  BY QuickEnough, GoodFormed DEF Ready
<1>1. bp.cur \notin {"SHUTDOWN_STEP", "SHUTDOWN"}
  BY DEF PowerOff, IntoBox
<1>2. PICK used : bp' = ShutDown(bp, used) \/ bp' = StopPolicy(bp, used)
  BY DEF PowerOff, IntoBox, Becomes
<1> DEFINE s == StopAll(bp, used)
           p == EnterState(s, "STOP", "IDLE", FALSE)
           y == EnterState(s, "SHUTDOWN_STEP", "IDLE", FALSE)
           c == [y EXCEPT !.step = IF IsEmpty(y) THEN "END" ELSE "START_PROFILE",
                          !.op = @ \ {Op("off", NoAddr)}]
           z == ShutDownStep(c)
<1>3. bp' = z \/ bp' = p
  BY <1>2, Zenon DEF ShutDown, StopPolicy
<1>4. Apart(bp, s) /\ ~s.active.valid
  BY <1>0, StopAllApart
<1> HIDE DEF s
<1>5. Base(s) /\ LinksFine(s) /\ s.cur = bp.cur
  BY <1>0, <1>4, ApartFine DEF Apart
<1>6. \A w : /\ Settles(s, EnterState(s, "STOP", "IDLE", w)) /\ EnterState(s, "STOP", "IDLE", w).cur = "STOP"
             /\ Settles(s, EnterState(s, "SHUTDOWN_STEP", "IDLE", w))
             /\ EnterState(s, "SHUTDOWN_STEP", "IDLE", w).cur = "SHUTDOWN_STEP"
  BY <1>5, EnterSettles
<1>7. Settles(s, p) /\ p.cur = "STOP" /\ Settles(s, y) /\ y.cur = "SHUTDOWN_STEP"
  BY <1>6, Zenon
<1> HIDE DEF p, y
<1>8. Goes(bp, p)
  <2>1. Goes(s, p)
    BY <1>1, <1>5, <1>7, SettlesGoes
  <2> QED
    BY <1>4, <1>7, <2>1 DEF Goes, Skips, Settles
<1>9. Goes(bp, z)
  <2>1. DOMAIN c = Fields /\ c.op = y.op \ {Op("off", NoAddr)} /\ \A f \in Fields \ {"step", "op"} : c[f] = y[f]
    BY <1>7 DEF Settles, Formed, Fits, Fields
  <2> HIDE DEF c
  <2>2. /\ c.cur = y.cur /\ c.num = y.num /\ c.link = y.link /\ c.active = y.active /\ c.flag = y.flag
    BY <2>1 DEF Fields
  <2>3. KeepsLinks(y, c)
    BY <2>1, <2>2, OpParts DEF KeepsLinks
  <2>4. KeepsLinks(s, c)
    BY <1>7, <2>2, <2>3, OpParts DEF KeepsLinks, Settles
  <2>5. LinksFine(c) /\ Authed(c) = Authed(y) /\ c.num = s.num /\ UsedLinks(c) = UsedLinks(s)
    <3>1. LinksFine(c) /\ Authed(c) = Authed(s)
      BY <1>5, <1>7, <2>2, <2>4, LinksKept DEF Over
    <3> QED
      BY <2>2, <2>4, <3>1 DEF KeepsLinks, UsedLinks, Authed
  <2>6. Base(c)
    BY <1>5, <1>7, <2>1, <2>2, <2>5 DEF Base, Settles, Formed, Fits, Counted, LinksFine, Spare, Is
  <2>7. Goes(c, z) /\ z.active = c.active
    BY <1>7, <2>2, <2>5, <2>6, ShutDownStepGoes DEF LinksFine
  <2> HIDE DEF z
  <2> QED
    BY <1>4, <1>7, <2>2, <2>7 DEF Goes, Skips, Settles
<1> QED
  BY <1>3, <1>8, <1>9

\* linkback_sched, where nobody is called and no pairing is due.
LEMMA SchedGoes ==
    ASSUME NEW b, Base(b), LinksFine(b), b.cur \in {"STARTUP", "STOP"}, "dedicated" \notin b.flag,
           ~b.active.valid, NEW bonds, NEW victim
    PROVE  Goes(b, LinkbackSched(b, bonds, victim))
<1> DEFINE c == Clear(b, {"linkback", "dedicated"})
           k == [c EXCEPT !.queue = Q!LoadBondList(bonds, LinkbackTime, [i \in 1 .. ItemNum |-> FALSE])]
           d == IF On("enable_power_on_linkback") /\ c.flag \cap {"startup_done", "bond_loaded"} = {}
                THEN Set(k, "bond_loaded") ELSE c
           l == EnterState(d, "LINKBACK", "CONNECTABLE", FALSE)
           n == StableNormal(d)
           z == LinkbackSched(b, bonds, victim)
<1> SUFFICES Goes(b, z)
  OBVIOUS
<1>0. Formed(b) /\ DOMAIN b = Fields /\ Quick(b)
  BY NotCalling DEF Base, Formed, Fits, Quick
<1>1. z = l \/ z = n
  BY Zenon DEF LinkbackSched, Is
<1>2. Keeps(b, c) /\ c.active = b.active
  BY <1>0, KeepsSmall DEF Clear, Fields
<1> HIDE DEF c
<1>3. Formed(c)
  BY <1>2 DEF Keeps, Holds
<1>4. Keeps(c, k) /\ k.active = c.active
  BY <1>3, QueueKeeps DEF Fields
<1> HIDE DEF k
<1>5. Formed(k)
  BY <1>4 DEF Keeps, Holds
<1>6. Keeps(k, Set(k, "bond_loaded")) /\ Set(k, "bond_loaded").active = k.active
  BY <1>5, KeepsSmall DEF Set, Formed, Fits, Fields
<1>7. Keeps(b, d) /\ d.active = b.active
  BY <1>2, <1>4, <1>6, KeepsTrans
<1> HIDE DEF d
<1>8. Base(d) /\ LinksFine(d) /\ d.cur = b.cur
  BY <1>7, KeepsBase DEF Keeps, Holds
<1>9. Settles(d, l) /\ l.run
  BY <1>8, CallsSettle
<1>10. Settles(d, n) /\ n.cur \in Stable
  <2>1. \A x : Settles(d, StableNormal(d)) /\ StableNormal(d).cur \in Stable
    BY <1>8, StableSettles
  <2> QED
    BY <2>1
<1> HIDE DEF l, n, z
<1>11. Goes(d, l)
  BY <1>7, <1>8, <1>9, SettlesGoes, NotCalling DEF Settles
<1>12. Goes(d, n)
  BY <1>8, <1>10, SettlesGoes DEF Stable
<1> QED
  BY <1>0, <1>1, <1>7, <1>11, <1>12, GoesOn

\* On, and out of the box.
LEMMA StartGoes ==
    ASSUME Ready(bp), Counted(bp), Quick(bp), "pairing" \notin Features, PowerOn \/ OutOfBox
    PROVE  Goes(bp, bp')
<1>0. Formed(bp) /\ Base(bp) /\ LinksFine(bp) /\ Good(bp) /\ DOMAIN bp = Fields
  BY QuickEnough, GoodFormed DEF Ready, Formed, Fits
<1>1. ~bp.active.valid /\ "dedicated" \notin bp.flag
  BY <1>0 DEF PowerOn, OutOfBox, Good, Fit, Released, PairingFlags
<1>2. \A z : Quick(z) => Goes(bp, z)
  BY <1>1 DEF Goes, Skips
<1>3. DOMAIN NoActive = ActiveFields /\ DOMAIN NoActive.node = NodeFields /\ NoActive.cnt = 0 /\ ~NoActive.valid
  BY DEF NoActive, NoNode, ActiveFields, NodeFields
<1>4. CASE OutOfBox
  <2> DEFINE c == Clear(bp, {"startup_done", "bond_loaded"})
             e == [c EXCEPT !.queue = << >>, !.active = NoActive]
  <2>1. PICK bonds, victim : bp' = LinkbackSched(e, bonds, victim)
    BY <1>4, Zenon DEF OutOfBox, Becomes, Restored
  <2>2. Keeps(bp, c) /\ c.flag \subseteq bp.flag
    BY <1>0, KeepsSmall DEF Clear, Fields
  <2> HIDE DEF c
  <2>3. Formed(c)
    BY <2>2 DEF Keeps, Holds
  <2>4. DOMAIN e = Fields /\ e.active = NoActive /\ \A f \in Fields \ {"queue", "active"} : e[f] = c[f]
    BY <2>3 DEF Formed, Fits, Fields
  <2> HIDE DEF e
  <2>5. Apart(c, e)
    BY <1>3, <2>3, <2>4, ApartFields
  <2>6. Apart(bp, e)
    BY <2>2, <2>5, ApartTrans
  <2>7. Base(e) /\ LinksFine(e) /\ e.cur = "STOP"
    BY <1>0, <1>4, <2>6, ApartFine DEF Apart, OutOfBox
  <2>8. "dedicated" \notin e.flag
    BY <1>1, <2>2, <2>4 DEF Fields
  <2> QED
    BY <1>2, <1>3, <2>1, <2>4, <2>7, <2>8, SchedGoes DEF Goes
<1>5. CASE PowerOn
  <2> DEFINE c == [bp EXCEPT !.flag = @ \cap {"visible", "force"}, !.timer = {}, !.ind = {}]
             y == EnterState(c, "STARTUP", "IDLE", FALSE)
             e == [y EXCEPT !.num = 0, !.queue = << >>, !.active = NoActive]
  <2>1. PICK bonds : bp' = e \/ bp' = LinkbackSched(e, bonds, NoAddr)
    BY <1>5, Zenon DEF PowerOn, Becomes, StartUp
  <2>2. /\ DOMAIN c = Fields /\ c.flag \subseteq {"visible", "force"}
        /\ \A f \in Fields \ {"flag", "timer", "ind"} : c[f] = bp[f]
    BY <1>0 DEF Fields
  <2> HIDE DEF c
  <2>3. /\ c.num = bp.num /\ c.link = bp.link /\ c.active = bp.active /\ c.op = bp.op
    BY <2>2 DEF Fields
  <2>4. Base(c)
    BY <1>0, <2>2, <2>3 DEF Base, Formed, Fits, Counted, UsedLinks, Known, Spare, Is
  <2>5. \A w : /\ Settles(c, EnterState(c, "STARTUP", "IDLE", w)) /\ EnterState(c, "STARTUP", "IDLE", w).cur = "STARTUP"
               /\ \A f \in Fields \ {"cur", "radio", "timer", "flag", "run"} : EnterState(c, "STARTUP", "IDLE", w)[f] = c[f]
               /\ EnterState(c, "STARTUP", "IDLE", w).flag \subseteq c.flag
    BY <2>4, EnterSettles
  <2>6. /\ Settles(c, y) /\ y.cur = "STARTUP" /\ y.flag \subseteq c.flag
        /\ \A f \in Fields \ {"cur", "radio", "timer", "flag", "run"} : y[f] = c[f]
    BY <2>5, Zenon
  <2> HIDE DEF y
  <2>7. /\ DOMAIN e = Fields /\ e.num = 0 /\ e.active = NoActive
        /\ \A f \in Fields \ {"num", "queue", "active"} : e[f] = y[f]
    BY <2>6 DEF Settles, Formed, Fits, Fields
  <2> HIDE DEF e
  <2>8. /\ e.cur = "STARTUP" /\ e.flag \subseteq {"visible", "force"}
        /\ e.link = bp.link /\ e.op = bp.op
    BY <2>2, <2>3, <2>6, <2>7 DEF Fields
  <2>9. UsedLinks(e) = {}
    BY <1>5, <2>8 DEF PowerOn, UsedLinks
  <2>10. Base(e)
    BY <1>0, <1>3, <2>7, <2>8, <2>9, FS_EmptySet DEF Base, Formed, Fits, Counted, Known, Spare, Is
  <2>11. LinksFine(e)
    <3>1. ~Over(e)
      BY <2>7, BtPolicyAssumption DEF Over, BtPolicyAssumption
    <3> QED
      BY <1>0, <2>8, <3>1 DEF LinksFine, Known, Roles, Marked, Leads, Led
  <2>12. Quick(e)
    BY <2>8, <2>10, <2>11, NotCalling DEF Base, Quick
  <2>13. Goes(e, LinkbackSched(e, bonds, NoAddr))
    BY <1>3, <2>7, <2>8, <2>10, <2>11, SchedGoes
  <2> QED
    BY <1>2, <2>1, <2>12, <2>13 DEF Goes
<1> QED
  BY <1>4, <1>5

-----------------------------------------------------------------------------
(* The theorems.  The user does not ask for pairing in any of them.        *)

LEMMA InitQuick == Init => Quick(bp)
<1> SUFFICES ASSUME Init PROVE Quick(bp)
  OBVIOUS
<1>1. bp.cur = "SHUTDOWN" /\ bp.flag = {} /\ bp.num = 0 /\ \A a \in Addrs : bp.link[a] = NoLink
  BY DEF Init
<1>2. Known(bp) /\ Roles(bp) /\ Leads(bp)
  BY <1>1 DEF Known, Roles, Leads, NoLink
<1>3. Marked(bp) /\ Spare(bp)
  BY <1>1 DEF Marked, Over, Spare, Is
<1> QED
  BY <1>1, <1>2, <1>3, NotCalling DEF Quick, LinksFine

\* Where phones do not switch roles, or there is one phone only, an answer is never
\* taken for that of another phone.
OneCaller == "roles" \notin Features \/ \A x, y \in Addrs : x = y

LEMMA StepQuick ==
    ASSUME "pairing" \notin Features, Steady(bp), Begun(bp), Counted(bp), Quick(bp), [Next]_vars
    PROVE  Quick(bp') /\ (OneCaller => Skips(bp, bp'))
<1>1. CASE LinkbackRun
  BY <1>1, RoundQuick DEF LinkbackRun, Steady
<1>2. CASE UNCHANGED vars
  <2>1. bp' = bp
    BY <1>2 DEF vars
  <2> QED
    BY <2>1 DEF Skips
<1>3. ASSUME Timer \/ User \/ \E a \in Addrs : Stack(a) \/ Phone(a) PROVE Ready(bp)
  BY <1>3, EventWaits DEF Steady, Ready
<1>4. ASSUME NEW a \in Addrs, Stack(a) PROVE Goes(bp, bp')
  BY <1>3, <1>4, ConnSucGoes, ConnFailGoes, AuthenticateGoes, DisconnectedGoes, SearchAttrGoes,
     SearchCmplGoes, SearchStopGoes, ConnCmplGoes, DisconnCmplGoes DEF Stack
<1>5. ASSUME NEW a \in Addrs, Phone(a) PROVE Quick(bp') /\ (OneCaller => Goes(bp, bp'))
  BY <1>3, <1>5, PhoneGoes DEF OneCaller
<1>6. Timer => Goes(bp, bp')
  BY <1>3, TimerGoes
<1>7. User => Goes(bp, bp')
  <2>1. ~UserPairing
    BY DEF UserPairing, Own
  <2> QED
    BY <1>3, <2>1, UserConnectGoes, UserDisconnectGoes, CallGoes, StopGoes, StartGoes DEF User
<1> QED
  BY <1>1, <1>2, <1>4, <1>5, <1>6, <1>7 DEF Next, Goes

\* The inductive invariant: the links in use are known and, one too many, marked to
\* go; the radio mode suits them; the phone being called is pursued.
THEOREM PolicyStaysQuick ==
    ASSUME "pairing" \notin Features PROVE Spec => [](Steady(bp) /\ Counted(bp) /\ Quick(bp))
<1>1. Init => Quick(bp)
  BY InitQuick
<1>2. Steady(bp) /\ Begun(bp) /\ Sound(bp, {}, {}) /\ Quick(bp) /\ [Next]_vars => Quick(bp')
  BY StepQuick DEF Sound
<1>3. Quick(bp)' <=> Quick(bp')
  OBVIOUS
<1>4. Sound(bp, {}, {}) => Counted(bp)
  BY DEF Sound
<1> QED
  BY <1>1, <1>2, <1>3, <1>4, PolicyStaysGood, PolicyIsSound, PTL DEF Spec

\* Linkback never waits for nothing: whichever answers come late, for another phone or
\* not at all, the timer of the phone being called runs, or the end of the stopped
\* search will call the next.
THEOREM LinkbackStaysAlive == ASSUME "pairing" \notin Features PROVE Spec => []LinkbackAlive
<1>1. Steady(bp) /\ Quick(bp) => LinkbackAlive
  <2> SUFFICES ASSUME Steady(bp), Pursued(bp), Halted(bp), ~bp.run, bp.cur = "LINKBACK"
               PROVE  /\ bp.active.valid => "linkback" \in bp.timer \/ Stranded
                      /\ ~bp.active.valid =>
                            Is(bp, "after_stop_sdp") /\ \E a \in Addrs : Owed(Op("stop", a))
    BY DEF Quick, CallFine, LinkbackAlive, Idle
  <2>1. bp.active.valid => ~bp.active.exit
    BY DEF Steady, Calm
  <2> QED
    BY <2>1 DEF Pursued, Halted, Stranded, Calling, Owed
<1> QED
  BY <1>1, PolicyStaysQuick, PTL

\* A full house of known phones is closed, and nobody is called on top of it: enter_state
\* closes it as it is entered, and what opens it, a phone that leaves, enters it anew.
\* With one place only the switches that make a headset with one phone visible must
\* be off.
THEOREM FullHouseIsQuiet ==
    ASSUME "pairing" \notin Features, Roomy PROVE Spec => []FullHouseQuiet
<1>1. Counted(bp) /\ Quick(bp) => FullHouseQuiet
  <2> SUFFICES ASSUME Counted(bp), Quick(bp) PROVE ClosedWhenFull /\ NoCallOnFull
    BY DEF FullHouseQuiet
  <2>1. IsFull(bp) /\ (\A a \in UsedLinks(bp) : bp.link[a].auth) => Full(bp)
    <3>1. ASSUME \A a \in UsedLinks(bp) : bp.link[a].auth PROVE Authed(bp) = UsedLinks(bp)
      BY <3>1 DEF Authed, UsedLinks, Quick, LinksFine, Known
    <3> QED
      BY <3>1 DEF Full, IsFull, Counted
  <2>2. ClosedWhenFull
    BY <2>1, Roomy DEF ClosedWhenFull, Quick, Shut
  <2>3. NoCallOnFull
    BY <2>1 DEF NoCallOnFull, Quick, CallFine, Called, Idle, Calling, Owed
  <2> QED
    BY <2>2, <2>3
<1> QED
  BY <1>1, PolicyStaysQuick, PTL

\* With one phone too many at most and phones of one profile, a link too many is about
\* to go, whatever order the links come up, are asked for and are lost in.
THEOREM OneTooManyGoes ==
    ASSUME "pairing" \notin Features, Single, Cardinality(Addrs) <= NumMax + 1
    PROVE  Spec => []Shedding
<1>1. Quick(bp) => Shedding
  <2> SUFFICES ASSUME Quick(bp), Over(bp) PROVE \E a \in UsedLinks(bp) : Leaving(a)
    BY DEF Shedding, Over
  <2>1. PICK a \in Addrs : bp.link[a].used /\ ToGo(bp, a)
    BY Single DEF Few, Quick, LinksFine, Marked
  <2>2. Led(bp, a)
    BY <2>1, Single DEF Quick, LinksFine, Leads, ToGo, Led
  <2>3. ASSUME NEW o \in bp.op, o[1] \in {"disc", "pdisc"}, o[2] = a PROVE Leaving(a)
    BY <2>3 DEF Leaving
  <2>4. Op("disc", a)[1] = "disc" /\ Op("disc", a)[2] = a
    BY OpParts
  <2>5. \A p : <<"pdisc", a, p>>[1] = "pdisc" /\ <<"pdisc", a, p>>[2] = a
    OBVIOUS
  <2>6. Leaving(a)
    BY <2>2, <2>3, <2>4, <2>5 DEF Led
  <2> QED
    BY <2>1, <2>6 DEF UsedLinks
<1> QED
  BY <1>1, PolicyStaysQuick, PTL

\* With several profiles, where the user leaves connected phones alone: of one link too
\* many one is marked to go with its last profile, or asked to go.  (A profile that the
\* phone connects again keeps it, so Shedding is not to be had.)
THEOREM OneTooManyIsMarked ==
    ASSUME "pairing" \notin Features, "disconnect" \notin Features,
           Cardinality(Addrs) <= NumMax + 1
    PROVE  Spec => [](Over(bp) => \E a \in UsedLinks(bp) : ToGo(bp, a))
<1>1. Quick(bp) => (Over(bp) => \E a \in UsedLinks(bp) : ToGo(bp, a))
  BY DEF Quick, LinksFine, Marked, Few, UsedLinks
<1> QED
  BY <1>1, PolicyStaysQuick, PTL

\* A profile of the phone being called is left out only when the phone has it or it
\* failed for the third time, in each step: answers for other phones and profiles,
\* late ones and those of the phone's own connections do not end the step.
THEOREM NoProfileIsSkipped ==
    ASSUME "pairing" \notin Features, OneCaller PROVE Spec => NothingSkipped
<1> DEFINE Left == \A p \in bp.active.remain \ bp'.active.remain :
                       /\ bp.active.valid /\ bp'.active.valid
                       /\ bp'.active.node.addr = Calling
                       /\ p \in bp'.active.node.plan
                       => \/ p \in bp'.link[Calling].profs \cup {"DID", "PBAP"}
                          \/ bp.active.cnt = 2
<1>1. Steady(bp) /\ Begun(bp) /\ Counted(bp) /\ Quick(bp) /\ [Next]_vars => Left
  <2> SUFFICES ASSUME Steady(bp), Skips(bp, bp') PROVE Left
    BY StepQuick, OneCaller
  <2>1. bp.active.valid => bp.active.node.addr \in Addrs
    BY DEF Steady, Good, ActiveOK
  <2> QED
    BY <2>1 DEF Skips, Calling
<1>2. NothingSkipped <=> [][Left]_vars
  BY DEF NothingSkipped
<1> HIDE DEF Left
<1>3. Steady(bp) /\ Begun(bp) /\ Counted(bp) /\ Quick(bp) /\ [Next]_vars => [Left]_vars
  BY <1>1
<1> QED
  BY <1>2, <1>3, PolicyStaysQuick, PolicyStaysGood, PTL DEF Spec

=============================================================================
