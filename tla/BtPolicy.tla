------------------------------ MODULE BtPolicy ------------------------------
(***************************************************************************)
(* The link policy of a headset without a second bud (bud_role SINGLE):    *)
(* which phones are called back, when the headset is visible and           *)
(* connectable, and how it is shut down (app_bt_policy.c with the active   *)
(* node and the profile steps of app_linkback.c).                          *)
(*                                                                         *)
(* All of its state is one record, bp, and a handler of the code is an     *)
(* operator from that record to the next.  Every event is delivered by one *)
(* task, so a handler runs to its end: an event is one action.  The only   *)
(* loop, linkback_run, is always called last; it is the action LinkbackRun,*)
(* one round at a time, and no event is delivered while bp.run is TRUE.    *)
(*                                                                         *)
(* The Bluetooth stack is external: bp.op holds what it was asked to do    *)
(* and still owes an answer for, and its actions answer in any order.      *)
(* Only requests with check_bond_flag FALSE are modelled here; what a      *)
(* stale flag does to the queue is LinkbackQueue's subject.                *)
(***************************************************************************)
EXTENDS Integers, Sequences, FiniteSets

CONSTANTS
    Addrs,          \* addresses of the phones
    NoAddr,         \* the zero address
    Profs,          \* supported_profile_mask: the profiles phones can have
    NumMax,         \* b2s_connected.num_max
    ItemNum,        \* LINKBACK_NODE_ITEM_NUM
    MaxLoad,        \* maximum_linkback_number
    MaxTime,        \* bound on the times of the queue
    LinkbackTime,   \* timer_linkback_timeout, in units of a failed call
    LossTime,       \* timer_link_back_loss, likewise
    Scenario,       \* link_scenario
    Config,         \* the switches of app_cfg_const that are on
    Bonded,         \* the bond flags of each phone at the start
    Features,       \* what phones and user do of their own accord in a run
    MaxEvents       \* bound on how often they do

\* get_profs_by_bond_flag plans AVRCP wherever it plans A2DP, and an opened
\* A2DP stream asks for DID, whatever supported_profile_mask says.
ASSUME BtPolicyAssumption ==
    /\ NoAddr \notin Addrs
    /\ IsFiniteSet(Addrs)
    /\ "A2DP" \in Profs => {"AVRCP", "DID"} \subseteq Profs
    /\ NumMax \in Nat \ {0}
    /\ ItemNum \in Nat \ {0}
    /\ MaxLoad \in Nat \ {0}
    /\ MaxTime \in Nat \ {0}
    /\ LinkbackTime \in Nat \ {0} /\ 2 * LinkbackTime <= MaxTime
    /\ LossTime \in 1 .. MaxTime
    /\ Bonded \in [Addrs -> SUBSET (Profs \cap {"A2DP", "HFP", "HSP", "SPP", "IAP"})]
    /\ MaxEvents \in Nat

VARIABLES
    bp,     \* the policy's state, described by Policy below
    left    \* how many more events of their own accord will come

vars == <<bp, left>>

NoProf == "none"

\* prof_arr: the order in which the profiles of a phone are connected.
prof_arr == <<"A2DP", "AVRCP", "HFP", "HSP", "DID", "SPP", "IAP", "PBAP">>

\* prof_relation: what is given up together with a profile.
prof_relation == {<<"A2DP", "AVRCP">>, <<"HFP", "PBAP">>, <<"HSP", "PBAP">>}

Stable == {"CONNECTED", "PAIRING", "STANDBY"}
States == Stable \cup {"STARTUP", "LINKBACK", "SHUTDOWN_STEP", "SHUTDOWN", "STOP"}
Modes  == {"IDLE", "CONNECTABLE", "DISCOVERABLE"}
Timers == {"linkback", "delay", "pairing", "discoverable", "shutdown"}
Flags  == {"linkback", "startup_done", "bond_loaded", "after_stop_sdp", "dedicated",
           "disconnect_for_pairing", "force", "visible", "one_link", "power_on_done"}
Steps  == {"START_PROFILE", "WAIT_PROFILE", "START_LINK", "WAIT_LINK", "END"}

Q == INSTANCE TodoQueue WITH queue <- bp.queue, CheckValues <- {FALSE}

NoNode == [addr |-> NoAddr, plan |-> {}, retry |-> 0, group |-> FALSE,
           first |-> FALSE, force |-> FALSE, check |-> FALSE]
NoLink == [used |-> FALSE, profs |-> {}, auth |-> FALSE, later |-> FALSE,
           drop |-> FALSE, master |-> FALSE]
NoActive == [valid |-> FALSE, exit |-> FALSE, node |-> NoNode, remain |-> {},
             doing |-> NoProf, sdp_ok |-> FALSE, cnt |-> 0, pending |-> FALSE]

Link == [used   : BOOLEAN,          \* the slot of br_link is in use
         profs  : SUBSET Profs,     \* connected_profile
         auth   : BOOLEAN,          \* auth_flag
         later  : BOOLEAN,          \* timer_handle_later_avrcp runs
         drop   : BOOLEAN,          \* disconn_acl_flg
         master : BOOLEAN]          \* acl_link_role is master

Active == [valid   : BOOLEAN,               \* is_valid
           exit    : BOOLEAN,               \* is_exit
           node    : [addr  : Addrs \cup {NoAddr}, plan  : SUBSET Profs,
                      retry : 0 .. MaxTime, group : BOOLEAN, first : BOOLEAN,
                      force : BOOLEAN, check : BOOLEAN],
           remain  : SUBSET Profs,          \* remain_profs
           doing   : Profs \cup {NoProf},   \* doing_prof
           sdp_ok  : BOOLEAN,               \* is_sdp_ok
           cnt     : 0 .. 2,                \* prof_retry_cnt
           pending : BOOLEAN]               \* sdp_cmpl_pending_flag

\* What the stack can owe: the end of a search (which pages the phone first),
\* of a page left over from a stopped search, of an incoming connection, of
\* the stop of a search, of a link; a profile connected or disconnected; and
\* the power-off asked of the user interface.
Op(kind, a) == <<kind, a, NoProf>>
Kinds       == {"sdp", "page", "in", "stop", "disc"}
Ops         == {Op(kind, a) : kind \in Kinds, a \in Addrs} \cup {Op("off", NoAddr)}
                  \cup {"conn", "pdisc"} \X Addrs \X (Profs \cup {NoProf})

Policy == [cur    : States,                 \* cur_state
           radio  : Modes,                  \* radio_mode
           queue  : Seq(Q!Node),            \* linkback_todo_queue
           active : Active,                 \* linkback_active_node
           link   : [Addrs -> Link],        \* app_db.br_link
           bond   : [Addrs -> SUBSET Profs],
           num    : Nat,                    \* b2s_connected.num
           ind    : SUBSET Addrs,           \* src_conn_ind
           timer  : SUBSET Timers,          \* timer handles that run
           flag   : SUBSET Flags,
           step   : Steps,                  \* shutdown_step
           cnt    : 0 .. 4,                 \* shutdown_step_retry_cnt
           call   : BOOLEAN,                \* app_hfp_get_call_status is not IDLE
           op     : SUBSET Ops,             \* what the stack still owes
           run    : BOOLEAN]                \* inside linkback_run

-----------------------------------------------------------------------------
(* Small helpers.                                                          *)

Start(b, t) == [b EXCEPT !.timer = @ \cup {t}]
Stop(b, ts) == [b EXCEPT !.timer = @ \ ts]
Set(b, f)   == [b EXCEPT !.flag = @ \cup {f}]
Clear(b, f) == [b EXCEPT !.flag = @ \ f]
Ask(b, o)   == [b EXCEPT !.op = @ \cup {o}]
Done(b, o)  == [b EXCEPT !.op = @ \ {o}]
Run(b)      == [b EXCEPT !.run = TRUE]
On(switch)  == switch \in Config
Is(b, f)    == f \in b.flag

\* b2s_connected_find_node, b2s_connected_is_empty and _is_full.
Linked(b, a) == a \in Addrs /\ b.link[a].used
IsEmpty(b)   == b.num = 0
IsFull(b)    == b.num >= NumMax

UsedLinks(b) == {a \in Addrs : b.link[a].used}

\* b2s_connected_add_node: app_alloc_br_link finds a slot, the addresses are
\* no more than MAX_BR_LINK_NUM.  BT_LINK_ROLE_MASTER is 0, so a zeroed slot is
\* master; without the feature "roles" the switch to slave is over at once.
AddNode(b, a) ==
    IF Linked(b, a) THEN b
    ELSE [b EXCEPT !.link[a] = [NoLink EXCEPT !.used = TRUE, !.master = "roles" \in Features],
                   !.num = @ + 1]

\* Mutant: the slot is freed without counting it.
DelNodeKeepsNum(b, a) == [b EXCEPT !.link[a] = NoLink]

\* b2s_connected_del_node: the slot is zeroed, its timers are stopped.  What
\* the stack owed for the link is off, but for the stop of a search.
DelNode(b, a) ==
    IF ~Linked(b, a) THEN b
    ELSE [b EXCEPT !.link[a] = NoLink, !.num = IF @ > 0 THEN @ - 1 ELSE 0]

\* get_profs_by_bond_flag.
ProfsOfBond(flags) ==
    LET mask(p) == {p} \cap Profs
        voice   == IF "HFP" \in flags THEN {"HFP"} \cup mask("PBAP")
                   ELSE IF "HSP" \in flags THEN {"HSP"} \cup mask("PBAP") ELSE {}
        music   == IF "A2DP" \in flags THEN {"A2DP", "AVRCP"} ELSE {}
        serial  == IF "SPP" \in flags THEN mask("SPP")
                   ELSE IF "IAP" \in flags THEN mask("IAP") ELSE {}
    IN  CASE Scenario = "HFP_BASE"  -> voice \cup serial
          [] Scenario = "A2DP_BASE" -> music
          [] Scenario = "SPP_BASE"  -> serial
          [] OTHER                  -> voice \cup music \cup serial

\* A phone bonded for audio or calls is called back.
CalledBack(b, a) == b.bond[a] \cap {"A2DP", "HFP", "HSP"} # {}

-----------------------------------------------------------------------------
(* enter_state and stable_sched: the state, the radio mode and the timers  *)
(* of being visible.                                                       *)

\* Mutant: the timers of being visible are left as they are.
EnterStateKeepsTimer(b, s, m, user) ==
    LET timers == IF s \in Stable THEN b.timer ELSE b.timer \ {"discoverable"}
    IN  [b EXCEPT !.cur = s, !.timer = timers, !.radio = m,
                  !.run = (s = "LINKBACK" /\ (b.cur # s \/ user))]

\* Mutant: the timer of being visible is started, the radio mode forgotten.
EnterStateTimerOnly(b, s, m, user) ==
    Start(EnterStateKeepsTimer(b, s, m, user), IF Is(b, "one_link") THEN "discoverable" ELSE "pairing")

\* enter_state: user is is_user_action_pairing_mode, which makes the state
\* entered anew.  linkback_run follows where LINKBACK is entered.
EnterState(b, s, m, user) ==
    LET moved    == b.cur # s \/ user
        always   == b.num = 1 /\ On("enable_multi_link") /\ On("enable_always_discoverable")
        forced   == \/ s = "LINKBACK" /\ ~On("enable_not_discoverable_when_linkback")
                    \/ s = "STANDBY" /\ On("enable_discoverable_in_standby_mode")
                    \/ always
        mode     == IF forced THEN "DISCOVERABLE" ELSE m
        stable   == s \in Stable
        one_link == stable /\ Is(b, "one_link")
        inviting == one_link /\ mode # "DISCOVERABLE" /\ ~b.call
        easy     == stable /\ ~one_link /\ On("easy_connection_switch") /\ mode # "DISCOVERABLE"
        visible  == /\ stable /\ ~b.call /\ ~IsFull(b)
                    /\ inviting \/ "discoverable" \in b.timer
        ended    == (IF s = "LINKBACK" THEN {} ELSE {"delay"}) \cup {"discoverable"}
                        \cup (IF moved /\ On("timer_pairing_timeout") THEN {"pairing"} ELSE {})
        begun    == (IF visible THEN {"discoverable"} ELSE {})
                        \cup (IF moved /\ On("timer_pairing_timeout") /\ s = "PAIRING"
                              THEN {"pairing"} ELSE {})
    IN  [b EXCEPT !.cur   = s,
                  !.radio = IF visible \/ inviting THEN "DISCOVERABLE"
                            ELSE IF easy THEN "CONNECTABLE" ELSE mode,
                  !.timer = (@ \ ended) \cup begun,
                  !.flag  = IF stable THEN @ \ {"one_link"} ELSE @,
                  !.run   = moved /\ s = "LINKBACK"]

Pair(b, user)    == EnterState(b, "PAIRING", "DISCOVERABLE", user)
Standby(b, user) == EnterState(b, "STANDBY", "CONNECTABLE", user)

\* Not connectable when full.
Connected(b)     == EnterState(b, "CONNECTED", IF IsFull(b) THEN "IDLE" ELSE "CONNECTABLE", FALSE)

\* stable_sched before and after its switch on the mode.
Settle(b)  == Set(Stop(b, {"linkback"}), "startup_done")
Settled(b) == Set(b, "power_on_done")

\* STABLE_ENTER_MODE_NORMAL: linkback is over.  After power-on a headset that
\* had nobody to call, or may, becomes visible.
StableNormal(b) ==
    LET c     == Settle(b)
        pairs == /\ ~Is(c, "linkback") \/ On("enable_power_on_linkback_fail_enter_pairing")
                 /\ ~c.call
                 /\ ~Is(c, "power_on_done")
    IN  Settled(Clear(CASE ~IsEmpty(c) -> Connected(c)
                        [] IsEmpty(c) /\ pairs  -> Pair(c, FALSE)
                        [] IsEmpty(c) /\ ~pairs -> Standby(c, FALSE), {"linkback"}))

\* enable_b2s_disconnect_enter_pairing; the charging box, ANC tools, OTA and a
\* switch between phones (disconnect_inactive_link_actively), which forbid it
\* too, are not modelled.
DisconnectPairs(b) ==
    /\ On("rws_disconnect_enter_pairing")
    /\ IsEmpty(b) \/ On("enter_pairing_while_only_one_device_connected")
    /\ Is(b, "power_on_done")

\* STABLE_ENTER_MODE_AGAIN: a link came or went, event is cur_event.
StableAgain(b, event) ==
    LET c      == Settle(b)
        normal == event = "SRC_DISCONN_NORMAL"
        again  == normal /\ DisconnectPairs(c)
        stays  == c.cur = "PAIRING" /\ (IsEmpty(c) \/ event # "SRC_AUTH_SUC")
    IN  Settled(IF (stays \/ again) /\ ~c.call
                THEN Pair(c, IF IsEmpty(c) THEN again ELSE normal)
                ELSE IF IsEmpty(c) THEN Standby(c, FALSE) ELSE Connected(c))

\* STABLE_ENTER_MODE_DEDICATED_PAIRING: the user asked for it.
StableDedicated(b) ==
    LET c == Settle(b) IN Settled(IF Is(c, "visible") THEN Pair(c, TRUE) ELSE Standby(c, TRUE))

\* STABLE_ENTER_MODE_NOT_PAIRING: pairing is over; when its timer ran out and
\* no phone was ever bonded (au_ever_link_information) the headset may ask to be
\* switched off instead.
StableNotPairing(b, timeout) ==
    LET c    == Settle(b)
        asks == /\ timeout /\ On("enable_pairing_timeout_to_power_off")
                /\ \A a \in Addrs : c.bond[a] = {}
    IN  Settled(CASE ~IsEmpty(c) -> Connected(c)
                  [] IsEmpty(c) /\ asks  -> Ask(c, Op("off", NoAddr))
                  [] IsEmpty(c) /\ ~asks -> Standby(c, FALSE))

\* STABLE_ENTER_MODE_DIRECT_PAIRING.
StableDirect(b) == Settled(Pair(Settle(b), FALSE))

-----------------------------------------------------------------------------
(* The active node and its profile steps.                                  *)

\* judge_cur_conn_addr and judge_cur_conn_prof.
IsCurrent(b, a)         == b.active.valid /\ b.active.node.addr = a
IsCurrentProf(b, a, p) == IsCurrent(b, a) /\ b.active.doing = p /\ b.active.sdp_ok

\* is_valid = FALSE.  Of what else the node holds, its address and the pending
\* flag are still read.
Invalid(b) == [b EXCEPT !.active = [NoActive EXCEPT !.node.addr = b.active.node.addr,
                                                    !.pending   = b.active.pending]]

\* load_doing_prof: the first profile of prof_arr that remains.
DoingProf(remain) ==
    LET places == {i \in DOMAIN prof_arr : prof_arr[i] \in remain}
    IN  IF places = {} THEN NoProf ELSE prof_arr[Q!Least(places)]

\* linkback_active_node_load; a node without plan leaves nothing valid.
Load(b, n) ==
    [b EXCEPT !.active = IF n.plan = {} THEN NoActive
                         ELSE [NoActive EXCEPT !.valid = TRUE, !.node = n, !.remain = n.plan,
                                               !.doing = DoingProf(n.plan)]]

\* step_suc_adjust_remain_profs: the profile is done, on to the next.
StepSuc(b) ==
    LET rest == b.active.remain \ {b.active.doing}
    IN  [b EXCEPT !.active.remain = rest, !.active.doing = DoingProf(rest),
                  !.active.sdp_ok = FALSE, !.active.cnt = 0]

\* Mutant: a profile that failed three times is left out, but not let go.
StepFailForever(b) == [b EXCEPT !.active.sdp_ok = FALSE, !.active.cnt = (@ + 1) % 3]

\* Mutant: one more failure is allowed than is counted for.
StepFailOnceMore(b) ==
    IF b.active.cnt < 3 THEN [b EXCEPT !.active.sdp_ok = FALSE, !.active.cnt = @ + 1] ELSE StepSuc(b)

\* step_fail_adjust_remain_profs: the third failure gives the profile up, and
\* what is given up together with it.
StepFail(b) ==
    LET gone == {p \in Profs : p = b.active.doing \/ <<b.active.doing, p>> \in prof_relation}
        rest == b.active.remain \ gone
    IN  IF b.active.cnt < 2
        THEN [b EXCEPT !.active.sdp_ok = FALSE, !.active.cnt = @ + 1]
        ELSE [b EXCEPT !.active.sdp_ok = FALSE, !.active.cnt = 0,
                       !.active.remain = rest, !.active.doing = DoingProf(rest)]

\* src_conn_fail_adjust_remain_profs: the phone is called anew from the start.
CallAnew(b) ==
    [b EXCEPT !.active.remain = b.active.node.plan, !.active.doing = DoingProf(b.active.node.plan),
              !.active.sdp_ok = FALSE, !.active.cnt = 0]

\* remain_profs_add: the user wants more of the phone being called.
RemainAdd(b, profs) ==
    [b EXCEPT !.active.node.plan = @ \cup profs, !.active.remain = @ \cup profs,
              !.active.node.retry = LinkbackTime, !.active.node.group = FALSE,
              !.active.node.check = FALSE]

\* remain_profs_sub; doing_prof keeps what it was.
RemainSub(b, profs) ==
    [b EXCEPT !.active.node.plan = @ \ profs, !.active.remain = @ \ profs]

\* legacy_stop_sdp_discov, and legacy_send_acl_disconn_req where the phone is
\* not connected: the search stops, its page may still come to an end first.
StopSearch(b, a) ==
    LET paged == ~Linked(b, a) /\ Op("sdp", a) \in b.op
    IN  [b EXCEPT !.op = (@ \ {Op("sdp", a)}) \cup {Op("stop", a)}
                            \cup (IF paged THEN {Op("page", a)} ELSE {})]

\* use_left_time_insert_to_queue_again, then is_valid = FALSE.
PutBack(b, used, isNormal) ==
    Invalid([b EXCEPT !.queue = Q!UseLeftTime(b.queue, b.active.node, used, isNormal, FALSE)])

-----------------------------------------------------------------------------
(* linkback_sched and the user's requests.                                 *)

\* A node as dedicated_connect and SRC_DISCONN_LOST put it in the queue.
Request(a, plan, time) ==
    [addr |-> a, plan |-> plan, retry |-> time, group |-> FALSE,
     first |-> TRUE, force |-> FALSE, check |-> FALSE]

\* Mutant: the queue is not searched for the phone first.
CallFirstAgain(b, a, profs) ==
    [b EXCEPT !.queue = <<Request(a, profs, LinkbackTime)>> \o @]

\* The phone comes first, the others' times stay.
CallFirst(b, a, profs) ==
    [b EXCEPT !.queue = Q!InsertForce(@, Request(a, profs, LinkbackTime))]

\* dedicated_connect_event_handle (app_bt_policy_default_connect): the phone
\* being called is asked for more, any other phone comes first in the queue.
DedicatedConnect(b, a, profs) ==
    IF b.cur = "LINKBACK"
    THEN IF IsCurrent(b, a) THEN Start(RemainAdd(b, profs), "linkback")
                            ELSE CallFirst(b, a, profs)
    ELSE IF b.cur \notin Stable THEN b
    ELSE IF profs = {"DID"}
    THEN IF Linked(b, a) THEN Ask(b, Op("sdp", a)) ELSE b
    ELSE EnterState(CallFirst(b, a, profs), "LINKBACK", "CONNECTABLE", FALSE)

\* Mutant: a link without profiles is not disconnected.
DisconnectProfsOnly(b, a, profs) == [b EXCEPT !.op = @ \cup {"pdisc"} \X {a} \X profs]

\* linkback_profile_disconnect_start.
DisconnectProfs(b, a, profs) ==
    [b EXCEPT !.op = @ \cup IF profs = {} THEN {Op("disc", a)} ELSE {"pdisc"} \X {a} \X profs]

\* dedicated_disconnect_event_handle (app_bt_policy_disconnect): the profiles
\* are neither called nor kept; with the last of them goes the link.
DedicatedDisconnect(b, a, profs) ==
    LET c    == IF IsCurrent(b, a) THEN RemainSub(b, profs) ELSE b
        d    == [c EXCEPT !.queue = Q!RemovePlan(@, a, profs)]
        plan == profs \cap b.link[a].profs
    IN  IF ~Linked(b, a) THEN d
        ELSE DisconnectProfs([d EXCEPT !.link[a].drop = (plan = b.link[a].profs)], a, plan)

\* judge_dedicated_enter_pairing_mode.
MayPair(b) == Is(b, "force") \/ ~IsFull(b)

\* prepare_for_dedicated_enter_pairing_mode: a full house first loses a link,
\* the one that does not play or that was connected first; victim is NoAddr
\* where no link is such.
PreparePairing(b, victim) ==
    LET c == Clear(b, {"disconnect_for_pairing"})
    IN  Clear(IF ~IsFull(c) THEN StableDedicated(c)
              ELSE IF Is(c, "force") /\ victim # NoAddr
              THEN Set(DedicatedDisconnect(c, victim, Profs), "disconnect_for_pairing")
              ELSE c, {"force"})

\* dedicated_enter_pairing_mode_event_handle.
EnterPairing(b, visible, force, victim) ==
    LET c == [b EXCEPT !.flag = (@ \ {"visible", "force"})
                                \cup (IF visible THEN {"visible"} ELSE {})
                                \cup (IF force THEN {"force"} ELSE {})]
        a == c.active.node.addr
        d == Stop(c, {"linkback"})
        e == IF d.active.valid
             THEN StopSearch(Clear(d, {"after_stop_sdp"}), a) ELSE d
    IN  CASE c.cur = "STARTUP" -> StableDirect(c)
          [] c.cur = "LINKBACK" /\ ~MayPair(c) -> c
          [] c.cur = "LINKBACK" /\ MayPair(c) /\ ~Linked(c, a)
               -> PreparePairing([e EXCEPT !.queue = << >>, !.active = NoActive], victim)
          [] c.cur \in Stable -> IF MayPair(c) THEN PreparePairing(c, victim) ELSE c
          [] OTHER -> Set(c, "dedicated")

\* dedicated_exit_pairing_mode_event_handle.
ExitPairing(b) ==
    LET c == Clear(b, {"dedicated"})
    IN  IF c.cur \in Stable THEN StableNotPairing(c, FALSE) ELSE c

\* The orders in which the bond list can hold the phones to call back.
BondLists(b) ==
    LET S == {a \in Addrs : CalledBack(b, a)}
        N == 1 .. Cardinality(S)
    IN  {[i \in N |-> [addr |-> order[i], plan |-> ProfsOfBond(b.bond[order[i]])]] :
            order \in {o \in [N -> S] : \A i, j \in N : o[i] = o[j] => i = j}}

\* linkback_sched: what was asked for before comes first, then the phones of
\* the bond list, once after power-on.
LinkbackSched(b, bonds, victim) ==
    LET c == Clear(b, {"linkback", "dedicated"})
        d == IF On("enable_power_on_linkback") /\ c.flag \cap {"startup_done", "bond_loaded"} = {}
             THEN Set([c EXCEPT !.queue = Q!LoadBondList(bonds, LinkbackTime, [i \in 1 .. ItemNum |-> FALSE])],
                      "bond_loaded")
             ELSE c
    IN  IF Is(b, "dedicated") /\ MayPair(c) THEN PreparePairing(c, victim)
        ELSE IF d.queue # << >> \/ d.active.valid
        THEN EnterState(d, "LINKBACK", "CONNECTABLE", FALSE)
        ELSE StableNormal(d)

-----------------------------------------------------------------------------
(* Starting, stopping and shutting down.                                   *)

\* startup_event_handle.
StartUp(b, atOnce, bonds) ==
    LET c == [EnterState([b EXCEPT !.flag = @ \cap {"visible", "force"}, !.timer = {}, !.ind = {}],
                         "STARTUP", "IDLE", FALSE)
                 EXCEPT !.num = 0, !.queue = << >>, !.active = NoActive]
    IN  IF atOnce THEN LinkbackSched(c, bonds, NoAddr) ELSE c

\* Mutant: the phone being called goes on being called.
StopAllKeepsActive(b, used) == Stop(b, {"pairing", "discoverable", "linkback", "delay"})

\* stop_all_active_action: the phone being called goes back to the head.
StopAll(b, used) ==
    LET c == Stop(b, {"pairing", "discoverable", "linkback", "delay"})
    IN  IF c.active.valid
        THEN PutBack(StopSearch(Clear(c, {"after_stop_sdp"}), c.active.node.addr), used, FALSE)
        ELSE c

\* Mutant: only the profiles are disconnected, and each wait is the first.
ShutDownStepForever(b) ==
    LET next == CASE b.step = "START_PROFILE" -> "WAIT_PROFILE"
                  [] b.step = "WAIT_PROFILE"  -> IF \A a \in UsedLinks(b) : b.link[a].profs = {}
                                                 THEN "WAIT_LINK" ELSE b.step
                  [] OTHER -> IF IsEmpty(b) THEN "END" ELSE b.step
        c    == [b EXCEPT !.step = next,
                          !.op = @ \cup {o \in {"pdisc"} \X Addrs \X Profs : o[3] \in b.link[o[2]].profs}]
    IN  IF next = "END" THEN EnterState(c, "SHUTDOWN", "IDLE", FALSE) ELSE Start(c, "shutdown")

\* shutdown_step_handle: the profiles, then the links, each with four waits.
ShutDownStep(b) ==
    LET waited == b.cnt + 1
        next   == CASE b.step = "START_PROFILE" -> "WAIT_PROFILE"
                    [] b.step = "WAIT_PROFILE"  -> IF waited >= 4 THEN "START_LINK" ELSE b.step
                    [] b.step = "START_LINK"    -> "WAIT_LINK"
                    [] b.step = "WAIT_LINK"     -> IF IsEmpty(b) \/ waited >= 4 THEN "END" ELSE b.step
                    [] b.step = "END"           -> "END"
        asked  == CASE b.step = "START_PROFILE"
                         -> {Op("disc", a) : a \in {x \in UsedLinks(b) : b.link[x].profs = {}}}
                            \cup {o \in {"pdisc"} \X Addrs \X Profs : o[3] \in b.link[o[2]].profs}
                    [] b.step = "START_LINK" -> {Op("disc", a) : a \in UsedLinks(b)}
                    [] OTHER -> {}
        c      == [b EXCEPT !.step = next, !.op = @ \cup asked,
                            !.cnt = IF b.step \in {"WAIT_PROFILE", "WAIT_LINK"} THEN waited
                                    ELSE IF b.step = "END" THEN @ ELSE 0,
                            !.link = IF b.step # "START_PROFILE" THEN @
                                     ELSE [a \in Addrs |-> [@[a] EXCEPT !.drop = FALSE]]]
    IN  IF next = "END" THEN EnterState(c, "SHUTDOWN", "IDLE", FALSE) ELSE Start(c, "shutdown")

\* shutdown_event_handle.
ShutDown(b, used) ==
    LET c == EnterState(StopAll(b, used), "SHUTDOWN_STEP", "IDLE", FALSE)
    IN  ShutDownStep([c EXCEPT !.step = IF IsEmpty(c) THEN "END" ELSE "START_PROFILE",
                               !.op = @ \ {Op("off", NoAddr)}])

\* Mutant: phones can still connect.
StopPolicyOpen(b, used) == EnterState(StopAll(b, used), "STOP", "CONNECTABLE", FALSE)

\* stop_event_handle.
StopPolicy(b, used) == EnterState(StopAll(b, used), "STOP", "IDLE", FALSE)

\* restore_event_handle.
Restored(b, bonds, victim) ==
    IF b.cur # "STOP" THEN b
    ELSE LinkbackSched([Clear(b, {"startup_done", "bond_loaded"}) EXCEPT !.queue = << >>,
                                                                       !.active = NoActive],
                       bonds, victim)

-----------------------------------------------------------------------------
(* linkback_run, one round: guards on run, and leaves it TRUE to go on.    *)

Waits(b) == [b EXCEPT !.run = FALSE]

\* The next phone is loaded and its timer started; with none linkback is over.
NextPhone(b) ==
    LET c == Load([b EXCEPT !.queue = Tail(@)], Head(b.queue))
    IN  CASE b.queue = << >> -> StableNormal(Waits(b))
          [] b.queue # << >> /\ ~c.active.valid -> StableNormal(Waits(c))
          [] OTHER -> Start(c, "linkback")

\* The label LINKBACK: the search for the profile starts, or it failed.  The
\* stack refuses a second search with the same phone.
CallPhone(b, starts) ==
    LET a == b.active.node.addr
        c == Set(b, "linkback")
    IN  IF \/ b.active.node.check /\ b.active.doing \notin ProfsOfBond(b.bond[a])
           \/ ~starts
           \/ Op("sdp", a) \in b.op
        THEN StepFail(c)
        ELSE Waits(Ask(c, Op("sdp", a)))

LinkbackRound(b, starts) ==
    LET n == b.active
        a == n.node.addr
    IN  CASE ~n.valid                      -> NextPhone(b)
          [] n.valid /\ (n.exit \/ n.remain = {}) -> Invalid(b)
          [] n.valid /\ ~n.exit /\ n.remain # {} ->
               CASE a \in b.ind            -> Waits(Start(b, "delay"))
                 [] a \notin b.ind /\ Linked(b, a) ->
                      IF n.doing \in b.link[a].profs THEN StepSuc(b) ELSE CallPhone(b, starts)
                 [] a \notin b.ind /\ ~Linked(b, a) ->
                      IF IsFull(b) /\ ~n.node.force THEN Invalid(b) ELSE CallPhone(b, starts)

-----------------------------------------------------------------------------
(* What the stack reports, and the timers: bt_event_pre_handle,            *)
(* bt_event_handle and the handler of the state, in this order.            *)

\* Mutant: linkback goes on by itself when the search has stopped.
CallTimedOutAlone(b) ==
    IF b.active.valid THEN StopSearch(Invalid(b), b.active.node.addr) ELSE Run(b)

\* state_afe_linkback on EVENT_SRC_CONN_TIMEOUT: the search is stopped, and goes
\* on with the next phone once it is; a phone that is connected keeps its step.
CallTimedOut(b) ==
    LET a == b.active.node.addr
    IN  CASE ~b.active.valid -> Run(b)
          [] b.active.valid /\ Linked(b, a) -> [b EXCEPT !.active.node.plan = {}]
          [] OTHER -> Set(StopSearch(Invalid(b), a), "after_stop_sdp")

\* EVENT_SRC_CONN_TIMEOUT.
LinkbackTimeout(b) ==
    LET c == IF b.active.valid /\ b.active.node.group
             THEN [b EXCEPT !.queue = Q!DeleteGroup(@)] ELSE b
        d == Stop(IF b.cur = "LINKBACK" THEN c ELSE Invalid(c), {"linkback", "delay"})
    IN  IF d.cur = "LINKBACK" THEN CallTimedOut(d) ELSE d

\* EVENT_SRC_CONN_SUC: the link takes a slot; one too many costs a link, and a
\* headset that should not be found does not keep it.
LinkUp(b, a, victim) ==
    LET c == AddNode(b, a)
        d == IF c.num > NumMax THEN DedicatedDisconnect(c, victim, Profs) ELSE c
    IN  IF d.radio = "IDLE" THEN Ask(d, Op("disc", a)) ELSE d

\* EVENT_SRC_CONN_FAIL, _ACL_EXIST and _CONTROLLER_BUSY.
LinkFail(b, a, cause, used) ==
    CASE b.cur # "LINKBACK" \/ ~IsCurrent(b, a) -> b
      [] b.cur = "LINKBACK" /\ IsCurrent(b, a) /\ cause # "fail" -> Start(b, "delay")
      [] OTHER -> Run(IF b.queue = << >> THEN CallAnew(b)
                      ELSE PutBack(Stop(b, {"linkback"}), used, TRUE))

\* EVENT_LINKBACK_DELAY_TIMEOUT.
DelayOver(b) ==
    LET c == Stop(b, {"delay"}) IN IF c.cur = "LINKBACK" THEN Run(CallAnew(c)) ELSE c

\* Mutant: a phone that takes the last place leaves linkback alone.
PlaceTakenUnseen(b, a) == b

\* state_afe_linkback on EVENT_SRC_AUTH_SUC: the phone may have taken the last
\* place from the phone being called, whose time is up then.
PlaceTaken(b, a) ==
    IF /\ IsFull(b) /\ b.active.valid /\ b.active.node.addr # a
       /\ ~Linked(b, b.active.node.addr)
       /\ "linkback" \in b.timer
    THEN LinkbackTimeout(b) ELSE b

\* EVENT_SRC_AUTH_SUC: the phone is known.
AuthSuc(b, a) ==
    LET one == On("enter_pairing_while_only_one_device_connected") /\ b.num = 1
        c   == [b EXCEPT !.flag = (@ \ {"one_link"}) \cup (IF one THEN {"one_link"} ELSE {}),
                         !.link[a].auth = TRUE]
    IN  CASE c.cur = "LINKBACK" -> PlaceTaken(c, a)
          [] c.cur \in Stable   -> StableAgain(c, "SRC_AUTH_SUC")
          [] OTHER              -> c

\* EVENT_SRC_AUTH_FAIL with AUTHEN_FAIL or KEY_MISSING: the bond is deleted.
AuthFail(b, a) == [Ask(b, Op("disc", a)) EXCEPT !.bond[a] = {}]

\* Mutant: a phone that is gone is called on.
CalledGoneOn(b, a) == IF IsCurrent(b, a) THEN Run(b) ELSE b

\* state_afe_linkback on EVENT_SRC_DISCONN_LOST and _NORMAL.
CalledGone(b, a) == IF IsCurrent(b, a) THEN Run([b EXCEPT !.active.exit = TRUE]) ELSE b

\* EVENT_SRC_DISCONN_LOST: a phone that is called back waits in the queue.
DisconnLost(b, a) ==
    LET c == DelNode(b, a)
        d == IF CalledBack(b, a)
             THEN [c EXCEPT !.queue = Q!InsertNormal(@, Request(a, ProfsOfBond(b.bond[a]), LossTime))]
             ELSE c
    IN  CASE d.cur = "LINKBACK"  -> CalledGone(d, a)
          [] d.cur \in Stable    -> EnterState(d, "LINKBACK", "CONNECTABLE", FALSE)
          [] OTHER               -> d

\* Mutant: a link that was never authenticated leaves no trace.
StableGoneKnown(b, authed) == IF authed THEN StableAgain(b, "SRC_DISCONN_NORMAL") ELSE b

\* state_afe_stable on EVENT_SRC_DISCONN_NORMAL.
StableGone(b, authed) ==
    IF authed \/ (b.cur = "CONNECTED" /\ IsEmpty(b)) THEN StableAgain(b, "SRC_DISCONN_NORMAL") ELSE b

\* EVENT_SRC_DISCONN_NORMAL: the place the user wanted for pairing is free in
\* every state; else the phone is not called back.
DisconnNormal(b, a) ==
    LET c == DelNode(b, a)
    IN  CASE Is(c, "disconnect_for_pairing") -> StableDedicated(Clear(c, {"disconnect_for_pairing"}))
          [] ~Is(c, "disconnect_for_pairing") /\ c.cur = "LINKBACK" -> CalledGone(c, a)
          [] ~Is(c, "disconnect_for_pairing") /\ c.cur \in Stable   -> StableGone(c, b.link[a].auth)
          [] OTHER -> c

\* EVENT_PROFILE_SDP_ATTR_INFO and _DID_ATTR_INFO.
SdpAttr(b, a) ==
    IF b.cur = "LINKBACK" /\ IsCurrent(b, a) THEN [b EXCEPT !.active.sdp_ok = TRUE] ELSE b

\* The connection of the searched profile is asked for, or refused.
ConnectProf(b, starts) ==
    LET p == b.active.doing
        c == Ask(b, <<"conn", b.active.node.addr, p>>)
    IN  CASE ~starts -> Run(StepFail(b))
          [] starts /\ p = "PBAP" -> Run(StepSuc(c))
          [] OTHER -> c

\* EVENT_PROFILE_SDP_DISCOV_CMPL.  The pending flag waits for the phone to be
\* master; known: the address is that of the phone being called, or not checked.
SdpCmpl(b, a, cause, starts, known) ==
    LET c == IF cause = "ok" THEN [b EXCEPT !.active.pending = FALSE] ELSE b
    IN  CASE b.cur # "LINKBACK" \/ ~known -> b
          [] b.cur = "LINKBACK" /\ known /\ cause = "ok" /\ Linked(b, a) /\ b.link[a].master
               -> [b EXCEPT !.active.pending = TRUE]
          [] b.cur = "LINKBACK" /\ known /\ (~Linked(b, a) \/ cause = "hci") -> c
          [] OTHER -> IF ~c.active.sdp_ok THEN Run(StepFail(c))
                      ELSE IF c.active.doing \in {"DID"} \cup c.link[a].profs THEN Run(StepSuc(c))
                      ELSE ConnectProf(c, starts)

\* EVENT_PROFILE_SDP_DISCOV_STOP.
SdpStop(b) ==
    IF b.cur = "LINKBACK" /\ Is(b, "after_stop_sdp") THEN Run(Clear(b, {"after_stop_sdp"})) ELSE b

\* b2s_connected_add_prof: what is connected is remembered in the bond.
Bond(b, a, p) ==
    [b EXCEPT !.link[a].profs = @ \cup {p},
              !.bond[a] = CASE p = "HFP" -> (@ \ {"HSP"}) \cup {"HFP"}
                            [] p = "HSP" -> (@ \ {"HFP"}) \cup {"HSP"}
                            [] p \in {"A2DP", "SPP", "IAP"} -> @ \cup {p}
                            [] OTHER -> @]

\* Mutant: any profile of the phone ends the step.
StepDoneAny(b, a, p) == IF IsCurrent(b, a) THEN Run(StepSuc(b)) ELSE b

\* state_afe_linkback on EVENT_PROFILE_CONN_SUC.
StepDone(b, a, p) == IF IsCurrentProf(b, a, p) THEN Run(StepSuc(b)) ELSE b

\* EVENT_PROFILE_CONN_SUC.  An A2DP stream asks for DID first, and for AVRCP
\* after a while where it is missing.
ProfConnSuc(b, a, p) ==
    LET c == IF p = "A2DP" THEN DedicatedConnect(b, a, {"DID"}) ELSE b
        d == Bond(c, a, p)
        e == [d EXCEPT !.link[a].later = CASE p = "A2DP" -> @ \/ "AVRCP" \notin d.link[a].profs
                                           [] p = "AVRCP" -> FALSE
                                           [] OTHER -> @]
    IN  IF e.cur = "LINKBACK" THEN StepDone(e, a, p) ELSE e

\* EVENT_PROFILE_CONN_FAIL.
ProfConnFail(b, a, p, cause) ==
    CASE b.cur # "LINKBACK" \/ ~IsCurrent(b, a) -> b
      [] b.cur = "LINKBACK" /\ IsCurrent(b, a) /\ cause = "hci"            -> b
      [] b.cur = "LINKBACK" /\ IsCurrent(b, a) /\ cause = "security_block" -> Ask(b, Op("disc", a))
      [] b.cur = "LINKBACK" /\ IsCurrent(b, a) /\ cause = "no_resource"    -> Start(b, "delay")
      [] OTHER -> IF IsCurrentProf(b, a, p) THEN Run(StepFail(b)) ELSE b

\* EVENT_PROFILE_DISCONN (that NO_RESOURCE is the cause changes nothing): AVRCP
\* goes with A2DP, the link with the last profile where that was the wish.
ProfDisconn(b, a, p) ==
    LET c == [b EXCEPT !.link[a].profs = @ \ {p}]
        d == IF p = "A2DP" /\ "AVRCP" \in c.link[a].profs THEN Ask(c, <<"pdisc", a, "AVRCP">>) ELSE c
    IN  IF d.link[a].profs = {} /\ d.link[a].drop
        THEN Ask([d EXCEPT !.link[a].drop = FALSE], Op("disc", a)) ELSE d

\* BT_EVENT_ACL_CONN_IND, src_conn_ind_add: two addresses are remembered; an
\* address that is connected is rejected, and every other when no place is free.
ConnInd(b, a) ==
    IF IsFull(b) /\ ~On("easy_connection_switch") THEN b
    ELSE Ask(IF Cardinality(b.ind) < 2 THEN [b EXCEPT !.ind = @ \cup {a}] ELSE b, Op("in", a))

\* TIMER_ID_LATER_AVRCP.
LaterAvrcp(b, a) ==
    LET c == [b EXCEPT !.link[a].later = FALSE]
    IN  IF c.cur \in Stable
        THEN IF "AVRCP" \in c.link[a].profs THEN c ELSE Ask(c, <<"conn", a, "AVRCP">>)
        ELSE DedicatedConnect(c, a, {"AVRCP"})

\* EVENT_ROLE_SLAVE: the phone is master at last, a search that waited for it
\* is complete.  not_check_addr_flag of the event is not initialised.
RoleSlave(b, a, starts, notCheck) ==
    LET c == [b EXCEPT !.link[a].master = FALSE]
    IN  IF c.active.pending THEN SdpCmpl(c, a, "ok", starts, notCheck \/ IsCurrent(c, a)) ELSE c

-----------------------------------------------------------------------------
(* The actions.  What phones and user do of their own accord must be among *)
(* the features of the run, and left counts it down.                       *)

Own(feature) == feature \in Features /\ left > 0 /\ left' = left - 1

\* The stack takes a request, or refuses it.
Taken(starts) == IF starts THEN UNCHANGED left ELSE Own("refuse")

Becomes(b) == ~bp.run /\ bp' = b

Free == UNCHANGED left

Owed(o) == o \in bp.op

LinkbackRun ==
    \E starts \in BOOLEAN : /\ bp.run /\ Taken(starts)
                            /\ bp' = LinkbackRound(bp, starts)

\* The stack: connections.  A search goes on over the link that came up.
Paging(a) == {o \in bp.op : o[1] \in {"sdp", "page", "in"} /\ o[2] = a}

ConnSuc(a) ==
    /\ ~Linked(bp, a) /\ Paging(a) # {}
    /\ LET b == [bp EXCEPT !.op = @ \ {Op("page", a), Op("in", a)}]
       IN  \E victim \in UsedLinks(b) \cup {a} : Becomes(LinkUp(b, a, victim)) /\ Free

ConnFail(a) ==
    /\ ~Linked(bp, a)
    /\ \E o \in Paging(a), used \in 1 .. MaxTime, cause \in {"fail", "exist", "busy"} :
        /\ cause = "exist" => Cardinality(Paging(a)) > 1
        /\ IF cause = "busy" THEN Own("busy") ELSE Free
        /\ Becomes(LinkFail(Done(bp, o), a, cause, used))

Authenticate(a) ==
    /\ Linked(bp, a) /\ ~bp.link[a].auth /\ ~Owed(Op("disc", a))
    /\ \/ Becomes(AuthSuc(bp, a)) /\ Free
       \/ Becomes(AuthFail(bp, a)) /\ Own("auth_fail")

\* The link goes down: what was owed on it is off, but for a search's stop.
Down(b, a) == [b EXCEPT !.op = {o \in @ : o[2] # a \/ o[1] = "stop"}]

Disconnected(a) ==
    /\ Linked(bp, a)
    /\ \/ Owed(Op("disc", a)) /\ Becomes(DisconnNormal(Down(bp, a), a)) /\ Free
       \/ Becomes(DisconnNormal(Down(bp, a), a)) /\ Own("leave")
       \/ Becomes(DisconnLost(Down(bp, a), a)) /\ Own("lost")

\* The stack: searches.
SearchAttr(a) ==
    Linked(bp, a) /\ Owed(Op("sdp", a)) /\ Becomes(SdpAttr(bp, a)) /\ Free

SearchCmpl(a) ==
    /\ Linked(bp, a) /\ Owed(Op("sdp", a))
    /\ LET b == Done(bp, Op("sdp", a))
       IN  \/ \E starts \in BOOLEAN, cause \in {"ok", "other"} :
                Becomes(SdpCmpl(b, a, cause, starts, IsCurrent(b, a))) /\ Taken(starts)
           \/ Becomes(Ask(SdpCmpl(b, a, "hci", TRUE, IsCurrent(b, a)), Op("disc", a))) /\ Own("hci")

SearchStop(a) == Owed(Op("stop", a)) /\ Becomes(SdpStop(Done(bp, Op("stop", a)))) /\ Free

\* The stack: profiles.  DID has no connection.
ConnCmpl(a, p) ==
    /\ Linked(bp, a) /\ bp.link[a].auth /\ Owed(<<"conn", a, p>>)
    /\ LET b == Done(bp, <<"conn", a, p>>)
       IN  \/ Becomes(ProfConnSuc(b, a, p)) /\ Free
           \/ Becomes(ProfConnFail(b, a, p, "other")) /\ Free
           \/ Becomes(Ask(ProfConnFail(b, a, p, "hci"), Op("disc", a))) /\ Own("hci")
           \/ Becomes(ProfConnFail(b, a, p, "security_block")) /\ Own("block")
           \/ Becomes(ProfConnFail(b, a, p, "no_resource")) /\ Own("block")

DisconnCmpl(a, p) ==
    /\ Linked(bp, a)
    /\ LET b == Done(bp, <<"pdisc", a, p>>)
       IN  IF p \in bp.link[a].profs
           THEN Becomes(ProfDisconn(b, a, p))
                    /\ (IF Owed(<<"pdisc", a, p>>) THEN Free ELSE Own("remote_profiles"))
           ELSE Owed(<<"pdisc", a, p>>) /\ Becomes(b) /\ Free

RemoteConn(a, p) ==
    /\ Linked(bp, a) /\ bp.link[a].auth /\ p \notin bp.link[a].profs \cup {"DID"}
    /\ Becomes(ProfConnSuc(bp, a, p)) /\ Own("remote_profiles")

Incoming(a) ==
    /\ ~Linked(bp, a) /\ ~Owed(Op("in", a)) /\ bp.cur # "SHUTDOWN"
    /\ Becomes(ConnInd(bp, a)) /\ Own("incoming")

RoleSwitched(a) ==
    /\ bp.link[a].master
    /\ \E starts, notCheck \in BOOLEAN : Becomes(RoleSlave(bp, a, starts, notCheck)) /\ Taken(starts)

\* The timers.
IndTimeout(a)   == a \in bp.ind /\ Becomes([bp EXCEPT !.ind = @ \ {a}]) /\ Free
AvrcpTimeout(a) == bp.link[a].later /\ Becomes(LaterAvrcp(bp, a)) /\ Free

TimerLinkback == "linkback" \in bp.timer /\ Becomes(LinkbackTimeout(bp)) /\ Free
TimerDelay    == "delay" \in bp.timer /\ Becomes(DelayOver(bp)) /\ Free
TimerPairing  == "pairing" \in bp.timer /\ Becomes(StableNotPairing(Stop(bp, {"pairing"}), TRUE)) /\ Free
TimerShutdown ==
    "shutdown" \in bp.timer /\ Free
        /\ Becomes(IF bp.cur = "SHUTDOWN_STEP" THEN ShutDownStep(Stop(bp, {"shutdown"}))
                                               ELSE Stop(bp, {"shutdown"}))
TimerDiscoverable ==
    "discoverable" \in bp.timer /\ Free
        /\ LET b == Stop(bp, {"discoverable"})
           IN  Becomes(IF b.cur \in Stable THEN StableAgain(b, "DISCOVERABLE_TIMEOUT") ELSE b)

\* A call comes and goes; its SCO link ends pairing.
Call ==
    \/ /\ ~bp.call /\ \E a \in Addrs : bp.link[a].profs \cap {"HFP", "HSP"} # {}
       /\ Becomes([bp EXCEPT !.call = TRUE]) /\ Own("call")
    \/ bp.call /\ Becomes([bp EXCEPT !.call = FALSE]) /\ Free
    \/ bp.call /\ bp.radio = "DISCOVERABLE" /\ Becomes(ExitPairing(bp)) /\ Free

\* The user, and the rest of the application.
UserConnect(a) ==
    \E profs \in SUBSET ProfsOfBond(bp.bond[a]) \ {{}} :
        Becomes(DedicatedConnect(bp, a, profs)) /\ Own("connect")

UserDisconnect(a) ==
    \E profs \in {Profs} \cup {{p} : p \in Profs} :
        Becomes(DedicatedDisconnect(bp, a, profs)) /\ Own("disconnect")

UserDisconnectAll ==
    Becomes([bp EXCEPT !.op = @ \cup {Op("disc", a) : a \in UsedLinks(bp)}]) /\ Own("disconnect")

UserPairing ==
    /\ \/ \E visible, force \in BOOLEAN, victim \in UsedLinks(bp) \cup {NoAddr} :
            Becomes(EnterPairing(bp, visible, force, victim))
       \/ Becomes(ExitPairing(bp))
    /\ Own("pairing")

PowerOn ==
    /\ bp.cur = "SHUTDOWN" /\ UsedLinks(bp) = {} /\ bp.op = {}
    /\ \E atOnce \in BOOLEAN, bonds \in BondLists(bp) : Becomes(StartUp(bp, atOnce, bonds)) /\ Free

PowerOff ==
    /\ bp.cur \notin {"SHUTDOWN", "SHUTDOWN_STEP"}
    /\ \E used \in 0 .. MaxTime : Becomes(ShutDown(bp, used))
    /\ IF Owed(Op("off", NoAddr)) THEN Free ELSE Own("shutdown")

IntoBox ==
    /\ bp.cur \notin {"SHUTDOWN", "SHUTDOWN_STEP", "STOP"}
    /\ \E used \in 0 .. MaxTime : Becomes(StopPolicy(bp, used)) /\ Own("box")

OutOfBox ==
    /\ bp.cur = "STOP" /\ Free
    /\ \E bonds \in BondLists(bp), victim \in UsedLinks(bp) \cup {NoAddr} :
            Becomes(Restored(bp, bonds, victim))

Init ==
    /\ bp = [cur |-> "SHUTDOWN", radio |-> "IDLE", queue |-> << >>, active |-> NoActive,
             link |-> [a \in Addrs |-> NoLink], bond |-> Bonded, num |-> 0, ind |-> {},
             timer |-> {}, flag |-> {}, step |-> "START_PROFILE", cnt |-> 0, call |-> FALSE,
             op |-> {}, run |-> FALSE]
    /\ left = MaxEvents

\* What the stack does with a phone.
Stack(a) ==
    \/ ConnSuc(a) \/ ConnFail(a) \/ Authenticate(a) \/ Disconnected(a)
    \/ SearchAttr(a) \/ SearchCmpl(a) \/ SearchStop(a)
    \/ \E p \in Profs \cup {NoProf} : ConnCmpl(a, p) \/ DisconnCmpl(a, p)

Phone(a) ==
    \/ Incoming(a) \/ RoleSwitched(a) \/ \E p \in Profs : RemoteConn(a, p)

Timer ==
    \/ TimerLinkback \/ TimerDelay \/ TimerPairing \/ TimerShutdown \/ TimerDiscoverable
    \/ \E a \in Addrs : IndTimeout(a) \/ AvrcpTimeout(a)

User ==
    \/ \E a \in Addrs : UserConnect(a) \/ UserDisconnect(a)
    \/ UserDisconnectAll \/ UserPairing \/ PowerOn \/ PowerOff \/ IntoBox \/ OutOfBox \/ Call

Next == LinkbackRun \/ (\E a \in Addrs : Stack(a) \/ Phone(a)) \/ Timer \/ User

Spec == Init /\ [][Next]_vars

\* The task of the application runs, the stack answers what it was asked, and
\* timers fire.  What is due while linkback_run goes round waits in the task's
\* queue, so fairness is strong: an event that is due again and again between
\* two rounds is handled.  Nothing is assumed of phones and user.
Fairness ==
    /\ WF_vars(LinkbackRun)
    /\ \A a \in Addrs : SF_vars(Stack(a)) /\ SF_vars(IndTimeout(a))
    /\ SF_vars(TimerLinkback) /\ SF_vars(TimerDelay) /\ SF_vars(TimerPairing)
    /\ SF_vars(TimerShutdown)

FairSpec == Spec /\ Fairness

-----------------------------------------------------------------------------
(* What the policy promises.  Idle: between two events.                    *)

Idle == ~bp.run

\* The state is that of Policy: the counters of failures and waits keep to their
\* limits, queue and active node have times in range and known profiles
\* only.
TypeOK == bp \in Policy /\ left \in 0 .. MaxEvents

\* b2s_connected.num, which decides whether the headset is full, empty or over
\* its limit, counts the slots of app_db.br_link that are in use: it is changed
\* in add_node and del_node only, and reset at power-on.
NumMatchesLinks == bp.num = Cardinality(UsedLinks(bp))

Calling == bp.active.node.addr

\* The phone being called ran out of time while connected: EVENT_SRC_CONN_TIMEOUT
\* stops the delay timer as well and leaves plan_profs 0.
Stranded == bp.active.valid /\ Linked(bp, Calling) /\ bp.active.node.plan = {}

\* Nothing polls in STATE_AFE_LINKBACK: only an event makes linkback_run go on, and
\* the answers of the stack may get lost with a link.  So the timer of the phone
\* being called runs all the time, and with nobody called the end of a stopped
\* search is to come, which goes on with the next phone.  A phone that ran out of
\* time while connected is the exception.
LinkbackAlive ==
    Idle /\ bp.cur = "LINKBACK" =>
        IF bp.active.valid THEN "linkback" \in bp.timer \/ Stranded
        ELSE Is(bp, "after_stop_sdp") /\ \E a \in Addrs : Owed(Op("stop", a))

\* Outside STATE_AFE_LINKBACK no phone is being called: whatever ends linkback
\* (the last phone, shutdown, the charging box) gives the active node up first.
NoZombie == Idle /\ bp.active.valid => bp.cur = "LINKBACK"

\* A phone is not called and waiting to be called at once, also when it is lost
\* or asked for while it is called: SRC_DISCONN_LOST and dedicated_connect put
\* nodes in the queue without a look at the active node of the same address.
NoDoubleCall == Idle /\ bp.active.valid => ~Q!Waiting(bp.queue, Calling)

\* The phones of the bond list share one time, the one being called included:
\* EVENT_SRC_CONN_TIMEOUT deletes the whole group on its behalf.
GroupWithActive ==
    bp.active.valid /\ bp.active.node.group =>
        \A i \in DOMAIN bp.queue : bp.queue[i].group => bp.queue[i].retry = bp.active.node.retry

\* Both: the phone being called and those that wait fit together, through losses,
\* requests and time-outs that come in the middle of a call.
ActiveFitsQueue == NoDoubleCall /\ GroupWithActive

\* While the discoverable timer runs the headset can be found: enter_state sets
\* the radio mode and the timer in separate branches.
VisibleWhileTimerRuns ==
    "discoverable" \in bp.timer => bp.cur \in Stable /\ bp.radio = "DISCOVERABLE"

\* Pairing is over when its timer runs out, and no timer ends a pairing that is
\* over: enter_state stops and starts timer_handle_pairing_mode whichever way
\* pairing is entered and left.  A headset that asked to be switched off waits.
PairingIsTimed ==
    On("timer_pairing_timeout") =>
        /\ "pairing" \in bp.timer => bp.cur = "PAIRING"
        /\ bp.cur = "PAIRING" /\ ~Owed(Op("off", NoAddr)) => "pairing" \in bp.timer

\* A headset that is off, stopped or on its way there cannot be found or
\* connected, whatever timers and links were still there when it stopped.
SilentWhenOff ==
    bp.cur \notin Stable \cup {"LINKBACK"} => bp.radio = "IDLE"

\* A headset nobody is connected to can be connected: a full house closes it,
\* and each way the last link can go, authenticated or not, opens it again.
Reachable == Idle /\ bp.cur \in Stable /\ IsEmpty(bp) => bp.radio # "IDLE"

\* With as many phones as it can serve, all authenticated, the headset does not
\* take another, unless it may switch phones.
ClosedWhenFull ==
    /\ Idle /\ bp.cur = "CONNECTED" /\ IsFull(bp)
    /\ \A a \in UsedLinks(bp) : bp.link[a].auth
    => bp.radio = IF On("easy_connection_switch") THEN "CONNECTABLE" ELSE "IDLE"

Leaving(a) == \E o \in bp.op : o[1] \in {"disc", "pdisc"} /\ o[2] = a

\* One link too many does not last: EVENT_SRC_CONN_SUC picks a link, and as long
\* as there are too many one is about to go, profile by profile.  Shutting down
\* has its own way to end all links (NoLinkKept).
Shedding ==
    bp.num > NumMax /\ bp.cur \notin {"SHUTDOWN_STEP", "SHUTDOWN"} =>
        \E a \in UsedLinks(bp) : Leaving(a)

\* Once the last place is taken by a phone that is known, no other is called,
\* also when it was called before (judged by linkback_run at the start of a call
\* and by EVENT_SRC_AUTH_SUC during it).
NoCallOnFull ==
    /\ Idle /\ bp.cur = "LINKBACK" /\ bp.active.valid /\ ~bp.active.node.force
    /\ ~Linked(bp, Calling) /\ Owed(Op("sdp", Calling)) /\ "delay" \notin bp.timer /\ IsFull(bp)
    => \E a \in UsedLinks(bp) : ~bp.link[a].auth

\* Both: a full house neither asks anybody in nor lets anybody in, in whichever
\* order the last phones got there.
FullHouseQuiet == ClosedWhenFull /\ NoCallOnFull

\* Shutting down leaves no link unasked: after the waits each link that is still
\* there was asked to go, also one that came up after its profiles were counted.
NoLinkKept ==
    bp.cur = "SHUTDOWN" \/ (bp.cur = "SHUTDOWN_STEP" /\ bp.step = "WAIT_LINK") =>
        \A a \in UsedLinks(bp) : Owed(Op("disc", a))

\* While a phone is called, a planned profile is left out only when the phone
\* has it or it failed three times: answers that come late, from the phone's own
\* connections or for another profile, do not end the step.  DID has nothing to
\* connect, PBAP is not waited for.
NothingSkipped ==
    [][\A p \in bp.active.remain \ bp'.active.remain :
           /\ bp.active.valid /\ bp'.active.valid
           /\ bp'.active.node.addr = Calling
           /\ p \in bp'.active.node.plan
           => \/ p \in bp'.link[Calling].profs \cup {"DID", "PBAP"}
              \/ bp.active.cnt = 2]_vars

\* Calling back comes to an end: there is a time for each phone, a third failure
\* for each profile, and a phone that goes back in the queue has less time left.
LinkbackEnds == bp.cur = "LINKBACK" ~> bp.cur # "LINKBACK" \/ Stranded

\* Shutting down comes to an end whatever the links do: the waits are counted.
ShutdownCompletes == bp.cur = "SHUTDOWN_STEP" ~> bp.cur # "SHUTDOWN_STEP"

\* Pairing comes to an end, or to asking for power-off.
PairingEnds == bp.cur = "PAIRING" ~> bp.cur # "PAIRING" \/ Owed(Op("off", NoAddr))

\* The policy changes its queue only by the operations of TodoQueue, one at a
\* time, so what is proved of that module holds of this one.
QueueRefinement == Q!Spec

=============================================================================
