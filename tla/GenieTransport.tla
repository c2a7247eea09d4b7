--------------------------- MODULE GenieTransport ---------------------------
(***************************************************************************)
(* Reliable sending of vendor messages (genie_transport.c).  Every task    *)
(* may call genie_transport_send_model; a message that wants a             *)
(* confirmation is copied into send_list, and one shared one-shot timer,   *)
(* retransmit_timer, resends what nobody has confirmed.  A confirmation    *)
(* (genie_transport_ack, from the vendor model's receive handlers) takes   *)
(* the message off the list again.                                         *)
(*                                                                         *)
(* The list is guarded by transport_mutex, but the tests before the lock   *)
(* (is it full, is it empty, is the tid there) and the timer test after it *)
(* are not.  The kernel timer task has the highest priority of all tasks   *)
(* that use the list (5; the application has 17, the Bluetooth tasks 16    *)
(* and lower): its callback interrupts a sender anywhere and is itself     *)
(* delayed only by the mutex.                                              *)
(***************************************************************************)
EXTENDS Integers, Sequences, FiniteSets, SequencesExt

CONSTANTS
    Tasks,       \* tasks that send; one of them, BtTask, receives
    BtTask,
    None,        \* nobody holds the mutex
    Off,         \* the kernel timer is not running
    DevTids,     \* the tids the device hands out, 0x80 .. 0xBF
    AppTids,     \* what callers pass as tid; 0 asks for a generated one
    Ops,         \* opcodes sent: "INDICATE", "SET_ACK", "STATUS"
    Periods,     \* retry periods, in ticks of 600 ms; 0 asks for no retries
    Retries,     \* what callers pass as retry; the field is a uint8_t
    MaxRetry,    \* VENDOR_MODEL_MSG_MAX_RETRY_TIMES
    MaxMsgs,     \* CONFIG_VENDOR_SEND_MSG_MAX
    MaxSends,    \* bound: how many messages are sent in all
    MaxLate,     \* bound: how long the model counts a message as overdue
    Oom          \* hal_malloc may fail

ASSUME TransportAssumption ==
    /\ IsFiniteSet(Tasks) /\ BtTask \in Tasks /\ None \notin Tasks
    /\ Off \notin Int
    /\ DevTids \subseteq Nat \ {0} /\ DevTids # {} /\ AppTids \subseteq Nat
    /\ Periods \subseteq Nat /\ Retries \subseteq Int
    /\ MaxRetry \in Nat /\ MaxMsgs \in Nat \ {0} /\ MaxSends \in Nat /\ MaxLate \in Nat
    /\ Oom \in BOOLEAN

VARIABLES
    list,     \* send_list
    owner,    \* who holds transport_mutex ...
    nest,     \* ... and how often: the mutex is recursive
    started,  \* k_timer_is_started(&retransmit_timer)
    tmr,      \* ticks until the kernel timer expires, or Off
    cb,       \* the expired timer's callback has begun, or waits for the mutex
    pc,       \* where each task is in its call
    msg,      \* the message each task is sending (or the tid it confirms)
    tid,      \* the generator's last tid
    sends,    \* messages sent so far: they are numbered
    asked,    \* history: the retry count asked for each message
    air,      \* history: tids that have been on the air
    tx,       \* history: how often each message was handed to the network layer
    result    \* history: what became of each message

timer == <<started, tmr, cb>>
hist  == <<tid, sends, asked, air, tx, result>>
vars  == <<list, owner, nest, timer, pc, msg, hist>>

Ids  == 1 .. MaxSends
Tids == DevTids \cup AppTids
Msgs == [id : Ids, op : Ops, tid : Tids, period : Periods, retry : 0 .. 255]
NoMsg == [tid |-> 0]

Init ==
    /\ list = <<>> /\ owner = None /\ nest = 0
    /\ started = FALSE /\ tmr = Off /\ cb = FALSE
    /\ pc = [t \in Tasks |-> "idle"]
    /\ msg = [t \in Tasks |-> NoMsg]
    /\ tid \in DevTids
    /\ sends = 0
    /\ asked = [m \in Ids |-> 0] /\ air = {}
    /\ tx = [m \in Ids |-> 0]
    /\ result = [m \in Ids |-> "none"]
-----------------------------------------------------------------------------
\* The callback runs before any other task whenever the mutex lets it.
TimerRuns == cb /\ owner = None

Step(t, from, to) ==
    /\ pc[t] = from /\ ~TimerRuns
    /\ pc' = [pc EXCEPT ![t] = to]

\* krhino_mutex_lock and krhino_mutex_unlock, for a task.
Lock(t) ==
    /\ owner \in {None, t}
    /\ owner' = t /\ nest' = nest + 1

Unlock ==
    /\ nest' = nest - 1
    /\ owner' = IF nest = 1 THEN None ELSE owner

\* k_timer_start and k_timer_stop.
TimerStart(period) == started' = TRUE /\ tmr' = period
TimerStop == started' = FALSE /\ tmr' = Off

\* The list positions that hold a message with tid x, and the list without
\* the first of them.
WithTid(x) == {i \in DOMAIN list : list[i].tid = x}
FirstWith(x) == Min(WithTid(x))
Dropped(x) == RemoveAt(list, FirstWith(x))

\* genie_transport_gen_tid: the next device tid, cyclically.
GenTid == IF \E x \in DevTids : x > tid
          THEN Min({x \in DevTids : x > tid})
          ELSE Min(DevTids)

\* retry is stored in a uint8_t and cut to the maximum by
\* genie_transport_msg_node_generate.
RetryCount_Unclamped(r) == r % 256
RetryCount(r) == IF r % 256 > MaxRetry THEN MaxRetry ELSE r % 256
-----------------------------------------------------------------------------
\* genie_transport_send_model.  A message with an indication opcode and a tid
\* outside the device's range is dropped at once.
Send(t, op, x, period, retry) ==
    /\ sends < MaxSends
    /\ Step(t, "idle", "find")
    /\ LET id == IF x = 0 THEN GenTid ELSE x IN
       /\ op = "INDICATE" => id \in DevTids
       /\ msg' = [msg EXCEPT ![t] = [id |-> sends + 1, op |-> op, tid |-> id,
                                     period |-> period, retry |-> retry % 256]]
       /\ tid' = IF x = 0 THEN id ELSE tid
    /\ sends' = sends + 1
    /\ asked' = [asked EXCEPT ![sends + 1] = retry]
    /\ UNCHANGED <<list, owner, nest, timer, air, tx, result>>

\* Only a message that is to be confirmed, with a retry period, is appended.
Kept(m) == m.op # "STATUS" /\ m.period > 0
AfterFind(t) == IF Kept(msg[t]) THEN "full" ELSE "xmit"

\* genie_transport_find_by_tid, without the lock.
Find(t) ==
    /\ Step(t, "find", IF WithTid(msg[t].tid) # {} THEN "empty" ELSE AfterFind(t))
    /\ UNCHANGED <<list, owner, nest, timer, msg, hist>>

\* transport_remove_by_tid: the test before the lock ...
RemoveEmpty(t) ==
    /\ Step(t, "empty", IF list = <<>> THEN AfterFind(t) ELSE "rmlock")
    /\ UNCHANGED <<list, owner, nest, timer, msg, hist>>

RemoveLock(t) ==
    /\ Step(t, "rmlock", "remove")
    /\ Lock(t)
    /\ UNCHANGED <<list, timer, msg, hist>>

\* ... and the removal, which returns without unlocking.
RemoveOld(t) ==
    /\ Step(t, "remove", AfterFind(t))
    /\ IF WithTid(msg[t].tid) # {}
       THEN /\ list' = Dropped(msg[t].tid)
            /\ result' = [result EXCEPT ![list[FirstWith(msg[t].tid)].id] = "replaced"]
            /\ UNCHANGED <<owner, nest>>
       ELSE Unlock /\ UNCHANGED <<list, result>>
    /\ UNCHANGED <<timer, msg, tid, sends, asked, air, tx>>

\* genie_transport_append_mesg: is the list full?
IsFull_Off(n) == n > MaxMsgs
IsFull(n) == n >= MaxMsgs

Full(t) ==
    /\ Step(t, "full", IF IsFull(Len(list)) THEN "xmit" ELSE "lock")
    /\ UNCHANGED <<list, owner, nest, timer, msg, hist>>

AppendLock(t) ==
    /\ Step(t, "lock", "append")
    /\ Lock(t)
    /\ UNCHANGED <<list, timer, msg, hist>>

Node(m) == [id |-> m.id, tid |-> m.tid, period |-> m.period,
            left |-> RetryCount(m.retry), due |-> m.period]

Append_(t) ==
    /\ Step(t, "append", "check")
    /\ list' = Append(list, Node(msg[t]))
    /\ Unlock
    /\ UNCHANGED <<timer, msg, hist>>

\* The copy cannot be allocated: the function returns with the mutex held.
AppendFails(t) ==
    /\ Oom
    /\ Step(t, "append", "xmit")
    /\ UNCHANGED <<list, owner, nest, timer, msg, hist>>

\* After the unlock: start the timer unless it is already started.
CheckTimer_Skip(t) ==
    /\ Step(t, "check", "xmit")
    /\ UNCHANGED <<list, owner, nest, timer, msg, hist>>

CheckTimer(t) ==
    /\ Step(t, "check", IF started THEN "xmit" ELSE "start")
    /\ UNCHANGED <<list, owner, nest, timer, msg, hist>>

StartTimer(t) ==
    /\ Step(t, "start", "xmit")
    /\ TimerStart(msg[t].period)
    /\ UNCHANGED <<list, owner, nest, cb, msg, hist>>

\* genie_transport_model_send: bt_mesh_model_send puts some of the messages
\* on the air and fails for the others (no buffer, no model, ...); a failure
\* is logged, and nothing but the next retry makes up for it.
OnAir(tids) == \E out \in SUBSET tids : air' = air \cup out

\* The first transmission.
Xmit(t) ==
    /\ Step(t, "xmit", "idle")
    /\ tx' = [tx EXCEPT ![msg[t].id] = @ + 1]
    /\ OnAir({msg[t].tid})
    /\ msg' = [msg EXCEPT ![t] = NoMsg]
    /\ UNCHANGED <<list, owner, nest, timer, tid, sends, asked, result>>
-----------------------------------------------------------------------------
\* genie_transport_ack: a confirmation arrives, possibly late or again, for
\* some message that has been on the air.
Ack(x) ==
    /\ x \in air /\ list # <<>>
    /\ Step(BtTask, "idle", "acklock")
    /\ msg' = [msg EXCEPT ![BtTask] = [tid |-> x]]
    /\ UNCHANGED <<list, owner, nest, timer, hist>>

AckLock ==
    /\ Step(BtTask, "acklock", "ack")
    /\ Lock(BtTask)
    /\ UNCHANGED <<list, timer, msg, hist>>

AckApply_KeepsNode(x) ==
    IF WithTid(x) # {}
    THEN /\ result' = [result EXCEPT ![list[FirstWith(x)].id] = "success"]
         /\ UNCHANGED list
    ELSE UNCHANGED <<list, result>>

AckApply(x) ==
    IF WithTid(x) # {}
    THEN /\ result' = [result EXCEPT ![list[FirstWith(x)].id] = "success"]
         /\ list' = Dropped(x)
    ELSE UNCHANGED <<list, result>>

AckDo ==
    /\ Step(BtTask, "ack", "idle")
    /\ AckApply(msg[BtTask].tid)
    /\ Unlock
    /\ msg' = [msg EXCEPT ![BtTask] = NoMsg]
    /\ UNCHANGED <<timer, tid, sends, asked, air, tx>>
-----------------------------------------------------------------------------
\* The kernel timer expires: its callback begins.
Expire ==
    /\ tmr = 0 /\ ~cb
    /\ cb' = TRUE /\ tmr' = Off
    /\ UNCHANGED <<list, owner, nest, started, pc, msg, hist>>

\* retransmit_timer_cb.  The loop over the list resends what is due and ends
\* at the first message with no retry left, which is reported and removed.
Spent_PreDecrement == {i \in DOMAIN list : list[i].due <= 0 /\ list[i].left <= 1}
Spent == {i \in DOMAIN list : list[i].due <= 0 /\ list[i].left = 0}
LastVisited == IF Spent = {} THEN Len(list) ELSE Min(Spent)
Resent == {i \in 1 .. LastVisited : list[i].due <= 0} \ Spent
Visited == [i \in DOMAIN list |->
                IF i \in Resent
                THEN [list[i] EXCEPT !.left = @ - 1, !.due = list[i].period]
                ELSE list[i]]
Survivors_Kept == Visited
Survivors == IF Spent = {} THEN Visited ELSE RemoveAt(Visited, LastVisited)

Reported_Silent == result
Reported == IF Spent = {} THEN result
            ELSE [result EXCEPT ![list[LastVisited].id] = "timeout"]

\* The next timeout: nearest is overwritten for every message visited (the
\* absolute time it is then compared with is never smaller than a period).
Nearest_Total == list[LastVisited].period * Len(list)
Nearest == list[LastVisited].period

TimerCallback ==
    /\ TimerRuns
    /\ cb' = FALSE
    /\ list' = Survivors
    /\ tx' = [m \in Ids |-> IF \E i \in Resent : list[i].id = m THEN tx[m] + 1 ELSE tx[m]]
    /\ OnAir({list[i].tid : i \in Resent})
    /\ result' = Reported
    /\ IF Survivors # <<>> THEN TimerStart(Nearest) ELSE TimerStop
    /\ UNCHANGED <<owner, nest, pc, msg, tid, sends, asked>>

\* Time passes when nobody can run: calls are short against a tick.
Blocked(t) == pc[t] \in {"rmlock", "lock", "acklock"} /\ owner \notin {None, t}
Overdue(d) == IF d < -MaxLate THEN -MaxLate ELSE d

Tick ==
    /\ tmr # 0 /\ ~TimerRuns
    /\ \A t \in Tasks : pc[t] = "idle" \/ Blocked(t)
    /\ tmr' = IF tmr = Off THEN Off ELSE tmr - 1
    /\ list' = [i \in DOMAIN list |-> [list[i] EXCEPT !.due = Overdue(@ - 1)]]
    /\ UNCHANGED <<owner, nest, started, cb, pc, msg, hist>>
-----------------------------------------------------------------------------
TaskStep(t) ==
    \/ Find(t) \/ RemoveEmpty(t) \/ RemoveLock(t) \/ RemoveOld(t)
    \/ Full(t) \/ AppendLock(t) \/ Append_(t) \/ AppendFails(t)
    \/ CheckTimer(t) \/ StartTimer(t) \/ Xmit(t)

Next ==
    \/ \E t \in Tasks :
          \/ TaskStep(t)
          \/ \E op \in Ops, x \in AppTids, p \in Periods, r \in Retries : Send(t, op, x, p, r)
    \/ \E x \in air : Ack(x)
    \/ AckLock \/ AckDo
    \/ Expire \/ TimerCallback \/ Tick

Spec == Init /\ [][Next]_vars

\* The kernel runs every ready task and hands the mutex to a task that waits
\* for it, and the clock advances however many calls and confirmations come;
\* whether any come is up to the environment.
Fairness ==
    /\ \A t \in Tasks : SF_vars(TaskStep(t))
    /\ WF_vars(AckLock) /\ WF_vars(AckDo)
    /\ WF_vars(Expire) /\ WF_vars(TimerCallback) /\ SF_vars(Tick)

FairSpec == Spec /\ Fairness
-----------------------------------------------------------------------------
Nodes == [id : Ids, tid : Tids, period : Periods \ {0}, left : 0 .. MaxRetry, due : Int]

TypeOK ==
    /\ list \in Seq(Nodes)
    /\ owner \in Tasks \cup {None} /\ nest \in Nat
    /\ started \in BOOLEAN /\ tmr \in Nat \cup {Off} /\ cb \in BOOLEAN
    /\ pc \in [Tasks -> {"idle", "find", "empty", "rmlock", "remove", "full", "lock",
                         "append", "check", "start", "xmit", "acklock", "ack"}]
    /\ \A t \in Tasks :
          msg[t] \in IF pc[t] = "idle" THEN {NoMsg}
                     ELSE IF pc[t] \in {"acklock", "ack"} THEN [tid : Tids] ELSE Msgs
    /\ tid \in DevTids /\ sends \in 0 .. MaxSends
    /\ asked \in [Ids -> Int] /\ air \subseteq Tids
    /\ tx \in [Ids -> Nat]
    /\ result \in [Ids -> {"none", "success", "timeout", "replaced"}]

\* No message is left behind: as long as send_list holds one, the
\* retransmission timer is running or in its callback, or the task that
\* appended a message has yet to reach its timer check.
NoOrphan ==
    list # <<>> => \/ started /\ (tmr # Off \/ cb)
                   \/ \E t \in Tasks : pc[t] \in {"check", "start"}

\* The unlocked fullness test may be passed by several tasks at once, but
\* never lets the list exceed its limit by more than the other senders.
ListBounded == Len(list) <= MaxMsgs + Cardinality(Tasks) - 1

\* The application hears of a message once: after result_cb has reported a
\* confirmation or a timeout, the message is off the list, and no repeated
\* confirmation and no late timer callback reaches it again.
OneOutcome ==
    [][\A m \in Ids : result[m] # "none" =>
          /\ result'[m] = result[m]
          /\ \A i \in DOMAIN list' : list'[i].id # m]_vars

\* A message is reported as timed out only after its first transmission and
\* all its retries have been tried ("Total three times" for the default count
\* of 2), whether or not the network layer took them.
TimeoutAfterAll ==
    \A m \in Ids : result[m] = "timeout" => tx[m] = RetryCount(asked[m]) + 1

\* A listed message is never overdue for longer than it takes the callback to
\* clear the list in front of it, at one spent message a period.
LateBounded ==
    \A i \in DOMAIN list : list[i].due >= -(Max(Periods) * (MaxMsgs + Cardinality(Tasks) - 1))

\* A confirmed message is never handed to the network layer again.
NoResendAfterConfirm ==
    [][\A m \in Ids : result[m] = "success" => tx'[m] = tx[m]]_vars

\* Every listed message is eventually confirmed, replaced or reported as
\* timed out: the callback goes through the list and resends "the no
\* responsed messages" until it has.
EveryMessageResolved ==
    \A m \in Ids : (\E i \in DOMAIN list : list[i].id = m) ~> result[m] # "none"

\* The same, promised unless a task has left a critical section with the mutex
\* still locked (a replaced tid, a failed allocation).
Leaked == owner # None /\ pc[owner] \notin {"remove", "append", "ack"}

ResolvedUnlessLeaked ==
    \A m \in Ids : (\E i \in DOMAIN list : list[i].id = m) ~> (result[m] # "none" \/ Leaked)
=============================================================================
