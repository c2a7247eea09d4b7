--------------------------- MODULE GenieProvision ---------------------------
(***************************************************************************)
(* The life of a node: unprovisioned, being provisioned, running, reset.   *)
(* genie_event.c turns what happens into state changes, genie_provision.c, *)
(* genie_mesh.c and genie_reset.c hold the state and five timers, and the  *)
(* credentials that make the node survive a power cycle are records of the *)
(* key-value store, written one by one.                                    *)
(*                                                                         *)
(* Two tasks act: the Bluetooth task ("bt": provisioning PDUs,             *)
(* configuration messages, boot) and the kernel timer task ("tt"), which   *)
(* has the higher priority: an expired timer interrupts the Bluetooth task *)
(* between any two steps.  The timer task gives way only where a callback  *)
(* waits for the controller.  Power may be lost at any time.               *)
(***************************************************************************)
EXTENDS Integers, FiniteSets

CONSTANTS
    Off,          \* a timer that is not running
    PbadvT,       \* p_context->prov_timeout: how long the node advertises
    ProvT,        \* MESH_PROVISIONING_TIMEOUT
    AppkeyT,      \* GENIE_MESH_INIT_PHARSE_II_CHECK_APPKEY_TIMEOUT
    ReadyT,       \* GENIE_MESH_INIT_PHARSE_II_DELAY_START
    DoneT,        \* GENIE_MESH_INIT_PROVISIONED_DELAY_START
    HwResetT,     \* GENIE_MESH_INIT_PHARSE_II_HW_RESET_DELAY
    DelayT,       \* GENIE_RESET_WAIT_TIMEOUT
    RepeatT,      \* GENIE_RESET_BY_REPEAT_TIMEOUT
    RepeatCount,  \* GENIE_RESET_BY_REPEAT_COUNTER
    MaxSessions,  \* bound: provisioning links opened in all
    MaxBoots,     \* bound: times the node is switched on
    MaxButton,    \* bound: resets asked for at the device
    Ais,          \* the AIS service is in use: its connections end at any time
    Fails         \* aos_kv_set may fail

ASSUME ProvisionAssumption ==
    /\ Off \notin Int
    /\ {ReadyT, DoneT, HwResetT, DelayT, RepeatT, AppkeyT, ProvT, PbadvT} \subseteq Nat \ {0}
    /\ DelayT < AppkeyT /\ AppkeyT < ProvT /\ ProvT < PbadvT
    /\ ReadyT <= AppkeyT /\ DoneT <= AppkeyT /\ HwResetT <= AppkeyT /\ RepeatT <= PbadvT
    /\ RepeatCount \in Nat \ {0}
    /\ {MaxSessions, MaxBoots, MaxButton} \subseteq Nat
    /\ Ais \in BOOLEAN /\ Fails \in BOOLEAN

VARIABLES
    provision_state,    \* "UNPROV", "START" or "SUCCESS"
    provisioned,        \* bt_mesh_is_provisioned()
    creds,              \* the credentials in bt_mesh: the session each is of
    s_mesh_init_state,  \* 0, "PROVISION", "HW_RESET" or "NORMAL_BOOT"
    hw_reset_flag,
    adv,                \* unprovisioned advertising: "off", "on" or "silent"
    link,               \* the session of the active provisioning link, or 0
    expect,             \* what slink expects: "none", "exchange" or "data"
    t,                  \* the timers: ticks to go, or Off
    stale,              \* running mesh-ready timers whose handle is lost
    report,             \* a device-reset report waits for its confirmation
    pc,                 \* where each task is
    copy,               \* the keys _genie_event_handle_appkey_add has copied
    reboot,             \* the timer task's reset ends in aos_reboot
    kv,                 \* the stored records: the session each is of, or 0
    count,              \* the stored count of quick power cycles
    \* bounds and history
    sessions, boots, button,
    removed,            \* sessions whose Node Reset was answered
    lapses              \* what the code does not promise to survive

ram    == <<provision_state, provisioned, creds, s_mesh_init_state, hw_reset_flag,
            adv, link, expect, t, stale, report, copy, reboot>>
store  == <<kv, count>>
bounds == <<sessions, boots, button>>
hist   == <<removed, lapses>>
vars   == <<ram, pc, store, bounds, hist>>

Records == {"addr", "seq", "devkey", "netkey", "appkey"}
Tasks   == {"bt", "tt"}
Timers  == {"pbadv", "prov", "ready", "delay", "repeat"}
None    == [r \in Records |-> 0]
Stopped == [x \in Timers |-> Off]

\* RAM as the program starts.
RamInit ==
    /\ provision_state = "UNPROV" /\ provisioned = FALSE /\ creds = None
    /\ s_mesh_init_state = "0" /\ hw_reset_flag = FALSE
    /\ adv = "off" /\ link = 0 /\ expect = "none"
    /\ t = Stopped /\ stale = {} /\ report = FALSE
    /\ copy = None /\ reboot = FALSE

Init ==
    /\ RamInit
    /\ pc = [p \in Tasks |-> IF p = "bt" THEN "off" ELSE "idle"]
    /\ kv = None /\ count = 0
    /\ sessions = 0 /\ boots = 0 /\ button = 0
    /\ removed = {} /\ lapses = {}
-----------------------------------------------------------------------------
\* An expired timer runs before the Bluetooth task; a callback lets the
\* Bluetooth task run only where it waits for the controller.
On == pc["bt"] # "off"
Expired == 0 \in stale \/ \E x \in Timers : t[x] = 0
BtRuns == \/ pc["tt"] = "idle" /\ ~Expired
          \/ pc["tt"] \in {"gap", "stop", "enable"}
Runs(p) == On /\ (p = "bt" => BtRuns)

At(p, from, to) ==
    /\ Runs(p) /\ pc[p] = from
    /\ pc' = [pc EXCEPT ![p] = to]

\* Halfway through storing what provisioning brought.
Storing == pc["bt"] \in {"data", "appkey", "devkey", "netkey", "last", "done", "restart"}
-----------------------------------------------------------------------------
\* The power goes.  A wipe cut short leaves some of the records.
HalfWiped ==
    /\ \E p \in Tasks : pc[p] = "wipe"
    /\ \E r \in Records : kv[r] # 0

\* A reset is under way: its timer runs or its callback, or the boot began one.
ResetPending == t["delay"] # Off \/ reboot \/ s_mesh_init_state = "HW_RESET"

Restarted ==
    /\ provision_state' = "UNPROV" /\ provisioned' = FALSE /\ creds' = None
    /\ s_mesh_init_state' = "0" /\ hw_reset_flag' = FALSE
    /\ adv' = "off" /\ link' = 0 /\ expect' = "none"
    /\ t' = Stopped /\ stale' = {} /\ report' = FALSE
    /\ copy' = None /\ reboot' = FALSE
    /\ pc' = [p \in Tasks |-> IF p = "bt" THEN "off" ELSE "idle"]

PowerLoss ==
    /\ On /\ boots < MaxBoots
    /\ Restarted
    /\ lapses' = lapses \cup (IF HalfWiped THEN {"wipe"} ELSE {})
                        \cup (IF ResetPending THEN {"reset"} ELSE {})
    /\ UNCHANGED <<store, bounds, removed>>

\* genie_reset_init: quick power cycles are counted in the store.
NextCount_OffByOne(c) == c + 1
NextCount(c) == IF c < RepeatCount THEN c + 1 ELSE count

SwitchOn ==
    /\ pc["bt"] = "off"
    /\ boots' = boots + 1
    /\ pc' = [pc EXCEPT !["bt"] = "init"]
    /\ LET c == IF count > RepeatCount THEN 0 ELSE count IN
       /\ count' = NextCount(c)
       /\ hw_reset_flag' = (c = RepeatCount)
    /\ t' = [t EXCEPT !["repeat"] = RepeatT]
    /\ UNCHANGED <<provision_state, provisioned, creds, s_mesh_init_state, adv, link, expect,
                   stale, report, copy, reboot, kv, sessions, button, hist>>

RepeatCb ==
    /\ On /\ pc["tt"] = "idle" /\ t["repeat"] = 0
    /\ count' = 0
    /\ t' = [t EXCEPT !["repeat"] = Off]
    /\ UNCHANGED <<provision_state, provisioned, creds, s_mesh_init_state, hw_reset_flag, adv, link,
                   expect, stale, report, copy, reboot, pc, kv, bounds, hist>>

\* mesh_provision_complete: how long until the node is ready.  A timer that
\* still runs from an earlier session is not stopped, only forgotten.
Forgotten == IF t["ready"] = Off THEN stale ELSE stale \cup {t["ready"]}

Complete ==
    /\ stale' = Forgotten
    /\ \/ /\ provision_state # "UNPROV"
          /\ s_mesh_init_state' = "PROVISION"
          /\ t' = [t EXCEPT !["ready"] = AppkeyT]
       \/ /\ provision_state = "UNPROV" /\ hw_reset_flag
          /\ s_mesh_init_state' = "HW_RESET"
          /\ t' = [t EXCEPT !["ready"] = HwResetT]
       \/ /\ provision_state = "UNPROV" /\ ~hw_reset_flag
          /\ t' = [t EXCEPT !["ready"] = ReadyT]
          /\ UNCHANGED s_mesh_init_state

\* GENIE_EVT_BT_READY: a node with saved data (genie_provision_get_saved_data
\* fails when one of the records is missing) starts as provisioned, any other
\* starts to advertise.
SavedData == \A r \in Records : kv[r] # 0

MeshInit ==
    /\ At("bt", "init", "idle")
    /\ IF SavedData
       THEN /\ provisioned' = TRUE /\ creds' = kv
            /\ Complete
            /\ UNCHANGED <<adv, lapses>>
       ELSE /\ adv' = "on"
            /\ t' = [t EXCEPT !["pbadv"] = PbadvT]
            /\ lapses' = lapses \cup (IF hw_reset_flag THEN {"flag"} ELSE {})
            /\ UNCHANGED <<provisioned, creds, s_mesh_init_state, stale>>
    /\ UNCHANGED <<provision_state, hw_reset_flag, link, expect, report, copy, reboot, store,
                   bounds, removed>>
-----------------------------------------------------------------------------
\* link_open, and GENIE_EVT_SDK_MESH_PROV_START: the timers as an attempt begins.
Begun_NoTimeout == [t EXCEPT !["pbadv"] = Off]
Begun == [t EXCEPT !["pbadv"] = Off, !["prov"] = ProvT]

LinkOpen ==
    /\ At("bt", "idle", "idle")
    /\ link = 0 /\ ~provisioned /\ adv # "off" /\ sessions < MaxSessions
    /\ sessions' = sessions + 1
    /\ link' = sessions + 1 /\ expect' = "exchange"
    /\ IF provision_state = "UNPROV"
       THEN /\ provision_state' = "START"
            /\ t' = Begun
       ELSE UNCHANGED <<provision_state, t>>
    /\ UNCHANGED <<provisioned, creds, s_mesh_init_state, hw_reset_flag, adv, stale, report, copy,
                   reboot, store, boots, button, hist>>

\* The other side closes the link, or reset_link gives up a transaction.
LinkClose ==
    /\ At("bt", "idle", "idle")
    /\ link # 0
    /\ link' = 0 /\ expect' = "none"
    /\ UNCHANGED <<provision_state, provisioned, creds, s_mesh_init_state, hw_reset_flag, adv, t, stale,
                   report, copy, reboot, store, bounds, hist>>

\* A record is written; the result is not looked at.
Write(r, val, lapse) ==
    \/ kv' = [kv EXCEPT ![r] = val] /\ lapses' = lapses \cup lapse
    \/ Fails /\ lapses' = lapses \cup {"save"} /\ UNCHANGED kv

\* prov_data: the address is stored first (a link opened after a Node Reset and
\* before its wipe overwrites the old one) ...
ProvData ==
    /\ At("bt", "idle", "data")
    /\ expect = "data"
    /\ Write("addr", link, IF SavedData THEN {"overwrite"} ELSE {})
    /\ copy' = [r \in Records |-> IF r = "appkey" THEN 0 ELSE link]
    /\ UNCHANGED <<provision_state, provisioned, creds, s_mesh_init_state, hw_reset_flag, adv, link,
                   expect, t, stale, report, reboot, count, bounds, removed>>

\* ... then bt_mesh_provision makes the node a node.
Provision ==
    /\ At("bt", "data", "idle")
    /\ expect' = "none"
    /\ provisioned' = TRUE
    /\ creds' = copy /\ copy' = None
    /\ Complete
    /\ UNCHANGED <<provision_state, hw_reset_flag, adv, link, report, reboot, store, bounds,
                   removed, lapses>>
-----------------------------------------------------------------------------
\* genie_reset_provision, after provision_state is set back: RAM (a node that is
\* provisioned also stops scanning and waits for the controller) ...
Reset(p) ==
    /\ provision_state' = "UNPROV" /\ provisioned' = FALSE /\ creds' = None
    /\ adv' = IF provisioned THEN "off" ELSE adv
    /\ pc' = [pc EXCEPT ![p] = IF provisioned THEN "gap" ELSE "link"]

\* ... the link ...
ResetLink(p) ==
    /\ At(p, "gap", "stop") \/ At(p, "link", "stop")
    /\ link' = 0 /\ expect' = "none"
    /\ UNCHANGED <<provision_state, provisioned, creds, s_mesh_init_state, hw_reset_flag, adv, t, stale,
                   report, copy, reboot, store, bounds, hist>>

AdvStop_NoWipe(p) ==
    /\ At(p, "stop", "enable")
    /\ UNCHANGED <<ram, store, bounds, hist>>

AdvStop(p) ==
    /\ At(p, "stop", "wipe")
    /\ UNCHANGED <<ram, store, bounds, hist>>

\* ... and the store, item by item.
Wipe(p, r) ==
    /\ At(p, "wipe", "wipe")
    /\ kv[r] # 0
    /\ kv' = [kv EXCEPT ![r] = 0]
    /\ UNCHANGED <<ram, count, bounds, hist>>

Wiped(p) ==
    /\ At(p, "wipe", "enable")
    /\ kv = None
    /\ count' = 0
    /\ UNCHANGED <<ram, kv, bounds, hist>>

\* The node advertises again after a failure (PBADV_START) ...
Reopened_Not == adv
Reopened == IF provisioned THEN adv ELSE "on"

Enable(p) ==
    /\ At(p, "enable", "idle")
    /\ ~(p = "tt" /\ reboot)
    /\ adv' = Reopened
    /\ t' = [t EXCEPT !["pbadv"] = PbadvT]
    /\ UNCHANGED <<provision_state, provisioned, creds, s_mesh_init_state, hw_reset_flag, link, expect,
                   stale, report, copy, reboot, store, bounds, hist>>

\* ... and restarts after a reset.
Reboot ==
    /\ pc["tt"] = "enable" /\ reboot
    /\ Restarted
    /\ UNCHANGED <<store, bounds, hist>>
-----------------------------------------------------------------------------
\* app_key_add.  The reply is one of the first PDUs of the session, so its
\* sequence number is saved; then GENIE_EVT_SDK_APPKEY_ADD: the state is
\* tested, the timer stopped, the keys copied, and the copies stored.
AppKeyAdd(ok) ==
    /\ At("bt", "idle", IF provision_state # "START" THEN "idle" ELSE IF ok THEN "appkey" ELSE "nokey")
    /\ provisioned
    /\ creds' = IF ok THEN [creds EXCEPT !["appkey"] = creds["devkey"]] ELSE creds
    /\ IF provision_state = "START" THEN Write("seq", creds["seq"], {}) ELSE UNCHANGED <<kv, lapses>>
    /\ UNCHANGED <<provision_state, provisioned, s_mesh_init_state, hw_reset_flag, adv, link, expect, t,
                   stale, report, copy, reboot, count, bounds, removed>>

AppKeyCopy_EarlySuccess ==
    /\ At("bt", "appkey", "devkey")
    /\ t' = [t EXCEPT !["prov"] = Off]
    /\ copy' = creds
    /\ provision_state' = "SUCCESS"
    /\ UNCHANGED <<provisioned, creds, s_mesh_init_state, hw_reset_flag, adv, link,
                   expect, stale, report, reboot, store, bounds, hist>>

AppKeyCopy ==
    /\ At("bt", "appkey", "devkey")
    /\ t' = [t EXCEPT !["prov"] = Off]
    /\ copy' = creds
    /\ UNCHANGED <<provision_state, provisioned, creds, s_mesh_init_state, hw_reset_flag, adv, link,
                   expect, stale, report, reboot, store, bounds, hist>>

\* The key could not be added: the attempt has failed.
AppKeyFails ==
    /\ Runs("bt") /\ pc["bt"] = "nokey"
    /\ Reset("bt")
    /\ t' = [t EXCEPT !["prov"] = Off]
    /\ UNCHANGED <<s_mesh_init_state, hw_reset_flag, link, expect, stale, report, copy, reboot, store,
                   bounds, hist>>

StoreKey(from, r, to) ==
    /\ At("bt", from, to)
    /\ Write(r, copy[r], {})
    /\ UNCHANGED <<ram, count, bounds, removed>>

StoreKeys ==
    \/ StoreKey("devkey", "devkey", "netkey")
    \/ StoreKey("netkey", "netkey", "last")
    \/ StoreKey("last", "appkey", "done")

Success ==
    /\ At("bt", "done", "restart")
    /\ provision_state' = "SUCCESS"
    /\ UNCHANGED <<provisioned, creds, s_mesh_init_state, hw_reset_flag, adv, link, expect, t, stale,
                   report, copy, reboot, store, bounds, hist>>

\* genie_mesh_ready_checktimer_restart, and GENIE_EVT_SDK_MESH_PROV_SUCCESS.
CheckTimerRestart ==
    /\ At("bt", "restart", "idle")
    /\ t' = [t EXCEPT !["ready"] = DoneT, !["pbadv"] = Off]
    /\ copy' = None
    /\ UNCHANGED <<provision_state, provisioned, creds, s_mesh_init_state, hw_reset_flag, adv, link,
                   expect, stale, report, reboot, store, bounds, hist>>
-----------------------------------------------------------------------------
\* The timers' callbacks.  GENIE_EVT_SDK_MESH_PROV_TIMEOUT leads to PROV_FAIL.
Callback == On /\ pc["tt"] = "idle"

\* A callback that takes the node out of the network preempts the handler that
\* stores the keys, which then goes on.
Raced == lapses \cup (IF Storing THEN {"race"} ELSE {})

ProvFail ==
    /\ Reset("tt")
    /\ lapses' = Raced
    /\ UNCHANGED <<s_mesh_init_state, hw_reset_flag, link, expect, report, copy, reboot, store, bounds,
                   removed>>

ProvCb ==
    /\ Callback /\ t["prov"] = 0
    /\ t' = [t EXCEPT !["prov"] = Off]
    /\ ProvFail
    /\ UNCHANGED stale

\* _genie_event_handle_pbadv_timeout, then silent advertising.
PbadvCb ==
    /\ Callback /\ t["pbadv"] = 0
    /\ t' = [t EXCEPT !["pbadv"] = Off]
    /\ adv' = IF provisioned THEN adv ELSE "silent"
    /\ UNCHANGED <<provision_state, provisioned, creds, s_mesh_init_state, hw_reset_flag, link, expect,
                   stale, report, copy, reboot, pc, store, bounds, hist>>

\* do_mesh_ready_timer_cb, of the current timer or of a forgotten one.
ReadyFires(delay) ==
    \/ t["ready"] = 0 /\ t' = [t EXCEPT !["ready"] = Off, !["delay"] = delay] /\ UNCHANGED stale
    \/ 0 \in stale /\ stale' = stale \ {0} /\ t' = [t EXCEPT !["delay"] = delay]

NoAppKey ==
    /\ Callback
    /\ s_mesh_init_state = "PROVISION" /\ provision_state # "SUCCESS"
    /\ ReadyFires(t["delay"])
    /\ ProvFail

HwResetDelay == DelayT

HwReset ==
    /\ Callback
    /\ s_mesh_init_state = "HW_RESET"
    /\ ReadyFires(HwResetDelay)
    /\ report' = (report \/ provisioned)
    /\ UNCHANGED <<provision_state, provisioned, creds, s_mesh_init_state, hw_reset_flag, adv, link,
                   expect, copy, reboot, pc, store, bounds, hist>>

MeshReady ==
    /\ Callback
    /\ s_mesh_init_state # "HW_RESET"
    /\ s_mesh_init_state = "PROVISION" => provision_state = "SUCCESS"
    /\ ReadyFires(t["delay"])
    /\ s_mesh_init_state' = "NORMAL_BOOT"
    /\ UNCHANGED <<provision_state, provisioned, creds, hw_reset_flag, adv, link, expect, report, copy,
                   reboot, pc, store, bounds, hist>>

\* delay_reset_timer_cb.
DelayCb ==
    /\ Callback /\ t["delay"] = 0
    /\ t' = [t EXCEPT !["delay"] = Off]
    /\ Reset("tt")
    /\ reboot' = TRUE
    /\ lapses' = Raced
    /\ UNCHANGED <<s_mesh_init_state, hw_reset_flag, link, expect, stale, report, copy, store, bounds,
                   removed>>
-----------------------------------------------------------------------------
\* node_reset: the answer is sent; with hw_reset_flag set nothing follows.
SwReset_Lost == t
SwReset == [t EXCEPT !["delay"] = DelayT]

NodeReset ==
    /\ At("bt", "idle", "idle")
    /\ provisioned
    /\ removed' = removed \cup {creds["devkey"]}
    /\ IF hw_reset_flag
       THEN UNCHANGED <<provisioned, creds, adv, t>>
       ELSE /\ provisioned' = FALSE /\ creds' = None /\ adv' = "off"
            /\ t' = SwReset
    /\ UNCHANGED <<provision_state, s_mesh_init_state, hw_reset_flag, link, expect, stale, report, copy,
                   reboot, store, bounds, lapses>>

\* GENIE_EVT_HW_RESET_START from the application, a command or a button.  The
\* report is sent only by a provisioned node.
Button ==
    /\ On /\ BtRuns /\ pc["bt"] # "init" /\ button < MaxButton
    /\ button' = button + 1
    /\ report' = (report \/ provisioned)
    /\ t' = SwReset
    /\ UNCHANGED <<provision_state, provisioned, creds, s_mesh_init_state, hw_reset_flag, adv, link,
                   expect, stale, copy, reboot, pc, store, sessions, boots, hist>>

\* reset_report_result_cb.
ReportOk ==
    /\ At("bt", "idle", "idle")
    /\ provisioned /\ report
    /\ report' = FALSE /\ hw_reset_flag' = FALSE
    /\ UNCHANGED <<provision_state, provisioned, creds, s_mesh_init_state, adv, link, expect, t, stale,
                   copy, reboot, store, bounds, hist>>

\* GENIE_EVT_SDK_AIS_DISCON.
AisDiscon ==
    /\ Ais
    /\ At("bt", "idle", "idle")
    /\ ~provisioned
    /\ adv' = "on"
    /\ t' = [t EXCEPT !["pbadv"] = PbadvT]
    /\ UNCHANGED <<provision_state, provisioned, creds, s_mesh_init_state, hw_reset_flag, link, expect,
                   stale, report, copy, reboot, store, bounds, hist>>

\* A second passes.  A provisioning exchange takes at least one.
Sooner(n) == IF n = Off THEN Off ELSE n - 1

Tick ==
    /\ Callback /\ ~Expired
    /\ t' = [x \in Timers |-> Sooner(t[x])]
    /\ stale' = {n - 1 : n \in stale}
    /\ expect' = IF expect = "exchange" THEN "data" ELSE expect
    /\ UNCHANGED <<provision_state, provisioned, creds, s_mesh_init_state, hw_reset_flag, adv, link,
                   report, copy, reboot, pc, store, bounds, removed, lapses>>
-----------------------------------------------------------------------------
Failing(p) ==
    \/ ResetLink(p) \/ AdvStop(p) \/ Wiped(p) \/ Enable(p)
    \/ \E r \in Records : Wipe(p, r)

BtStep == \/ MeshInit \/ Provision \/ AppKeyCopy \/ AppKeyFails \/ StoreKeys \/ Success
          \/ CheckTimerRestart \/ Failing("bt")

TimerStep == \/ RepeatCb \/ PbadvCb \/ ProvCb \/ NoAppKey \/ HwReset \/ MeshReady \/ DelayCb
             \/ Failing("tt") \/ Reboot

Environment == \/ PowerLoss \/ LinkOpen \/ LinkClose \/ ProvData
               \/ AppKeyAdd(TRUE) \/ AppKeyAdd(FALSE)
               \/ NodeReset \/ Button \/ ReportOk \/ AisDiscon

Next == BtStep \/ TimerStep \/ Environment \/ SwitchOn \/ Tick

Spec == Init /\ [][Next]_vars

\* Both tasks run when they can, time passes, and the node is switched on
\* again after a power loss.
FairSpec == Spec /\ WF_vars(BtStep) /\ WF_vars(TimerStep) /\ WF_vars(Tick) /\ WF_vars(SwitchOn)
-----------------------------------------------------------------------------
Sessions == 0 .. MaxSessions

TypeOK ==
    /\ provision_state \in {"UNPROV", "START", "SUCCESS"}
    /\ {provisioned, hw_reset_flag, report, reboot} \subseteq BOOLEAN
    /\ {creds, kv, copy} \subseteq [Records -> Sessions]
    /\ s_mesh_init_state \in {"0", "PROVISION", "HW_RESET", "NORMAL_BOOT"}
    /\ adv \in {"off", "on", "silent"}
    /\ link \in Sessions /\ expect \in {"none", "exchange", "data"}
    /\ t \in [Timers -> 0 .. PbadvT \cup {Off}] /\ stale \subseteq 0 .. AppkeyT
    /\ pc["bt"] \in {"off", "init", "idle", "data", "appkey", "nokey", "devkey", "netkey", "last", "done",
                     "restart", "gap", "link", "stop", "wipe", "enable"}
    /\ pc["tt"] \in {"idle", "gap", "link", "stop", "wipe", "enable"}
    /\ count \in 0 .. RepeatCount
    /\ {sessions, boots, button} \subseteq Nat
    /\ removed \subseteq Sessions
    /\ lapses \subseteq {"wipe", "reset", "flag", "race", "save", "overwrite"}

\* A node that is past provisioning survives a power cycle: whatever it runs
\* with is in the store, all of it from one session.  (Not promised: after a
\* wipe cut short, a failed write, a callback that hits the handler while it
\* stores the keys, or a node provisioned anew before its old credentials are
\* wiped.)
Durable ==
    lapses \cap {"wipe", "save", "race", "overwrite"} = {} =>
        (provisioned /\ provision_state # "START" =>
            kv = creds /\ \A r \in Records : kv[r] = kv["addr"])

\* A node that has answered a Node Reset is out of the network, or on its way
\* out.  (Not promised after a power loss before the store is wiped, nor when
\* quick power cycles were counted without saved data to wipe.)
NodeResetAlways == provisioned /\ creds["devkey"] \in removed => ResetPending
NodeResetDone == lapses \cap {"reset", "flag"} = {} => NodeResetAlways

\* An unprovisioned node can be provisioned: unless a reset is under way, it
\* advertises.
Reachable ==
    pc["bt"] = "idle" /\ pc["tt"] = "idle" /\ ~provisioned /\ t["delay"] = Off => adv # "off"

\* Every provisioning attempt comes to an end.
Decided == provision_state = "START" ~> provision_state # "START"

\* A hardware reset that the boot has begun leaves no credentials: its report,
\* its delay and its reboot do not end before the store is empty, unless the
\* power is lost on the way.
HwResetDone == s_mesh_init_state = "HW_RESET" ~> (kv = None \/ "reset" \in lapses)
=============================================================================
