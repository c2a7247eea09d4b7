----------------------------- MODULE GenieDedup -----------------------------
(***************************************************************************)
(* Filtering of repeated messages (genie_transport_check_tid).  A Genie    *)
(* repeats a message until it is confirmed, and the mesh may deliver every *)
(* copy; the receive handlers of the vendor model and of the SIG models    *)
(* act on a message only if its source, tid and element are not among the  *)
(* last few accepted within GENIE_TRANSPORT_DEDUPLICATE_DURATION.          *)
(***************************************************************************)
EXTENDS Integers, FiniteSets

CONSTANTS
    Sources,    \* source addresses
    Genies,     \* the addresses 0x0001 .. 0x0010, held to be one source
    GenieAddr,  \* TMALL_GENIE_UADDR_START
    GenieGroup, \* BT_MESH_ADDR_TMALL_GENIE
    MsgTids,    \* tids
    Elems,      \* element ids
    QueueSize,  \* RECV_MSG_TID_QUEUE_SIZE (5)
    Window,     \* GENIE_TRANSPORT_DEDUPLICATE_DURATION (6000 ms)
    TimeMod,    \* cur_time is a uint32_t: 2^32 ms
    MaxTime,    \* bound on the uptime
    MaxAccepts  \* bound on the number of messages accepted

ASSUME DedupAssumption ==
    /\ Sources \subseteq Nat \ {0} /\ Genies \subseteq Sources /\ GenieAddr \in Nat \ {0}
    /\ MsgTids \subseteq Nat /\ Elems \subseteq Nat
    /\ QueueSize \in Nat \ {0} /\ Window \in Nat \ {0}
    /\ TimeMod \in Nat /\ TimeMod > Window
    /\ MaxTime \in Nat /\ MaxAccepts \in Nat

VARIABLES
    tid_queue,     \* the ring
    cur_index,     \* where the next entry goes
    last_src_addr, \* where replies go
    clock,         \* k_uptime_get()
    accepts,       \* history: messages accepted so far
    acceptedAt,    \* history: key -> uptime of its last acceptance, or -1
    acceptNo,      \* history: key -> number of that acceptance
    verdict        \* history: what was decided about the last message

queue == <<tid_queue, cur_index>>
vars == <<queue, last_src_addr, clock, accepts, acceptedAt, acceptNo, verdict>>

Keys == ((Sources \ Genies) \cup {GenieAddr}) \X MsgTids \X Elems

\* The key of a message: all Genies count as the first one.
Key(src, tid, elem) == <<IF src \in Genies THEN GenieAddr ELSE src, tid, elem>>

Slots == 0 .. QueueSize - 1
Entry(k, time) == [key |-> k, time |-> time]
Zero == Entry(<<0, 0, 0>>, 0)
NoVerdict == [repeat |-> FALSE, key |-> <<0, 0, 0>>, gap |-> -1, behind |-> 0]

Init ==
    /\ tid_queue = [i \in Slots |-> Zero] /\ cur_index = 0
    /\ last_src_addr = GenieGroup
    /\ clock = 0
    /\ accepts = 0
    /\ acceptedAt = [k \in Keys |-> -1] /\ acceptNo = [k \in Keys |-> 0]
    /\ verdict = NoVerdict

\* cur_time < end_time, both uint32_t.
Recent_Inclusive(e) == clock % TimeMod <= (e.time + Window) % TimeMod
Recent(e) == clock % TimeMod < (e.time + Window) % TimeMod

\* The search visits every slot once, from cur_index on.
Known_NewestOnly(k) == LET i == (cur_index + QueueSize - 1) % QueueSize IN
    tid_queue[i].key = k /\ Recent(tid_queue[i])
Known(k) == \E i \in Slots : tid_queue[i].key = k /\ Recent(tid_queue[i])

NextSlot_NoWrap(i) == i + 1
NextSlot(i) == (i + 1) % QueueSize

Accept(k, src) ==
    /\ tid_queue' = [tid_queue EXCEPT ![cur_index] = Entry(k, clock % TimeMod)]
    /\ cur_index' = NextSlot(cur_index)
    /\ last_src_addr' = src
    /\ accepts' = accepts + 1
    /\ acceptedAt' = [acceptedAt EXCEPT ![k] = clock]
    /\ acceptNo' = [acceptNo EXCEPT ![k] = accepts]

\* A message arrives: genie_model_analyze (the SIG models' set handlers do
\* the same) drops a repeat and acts on anything else.
Receive(src, tid, elem) ==
    LET k == Key(src, tid, elem) IN
    /\ accepts < MaxAccepts
    /\ verdict' = [repeat |-> Known(k), key |-> k,
                   gap |-> IF acceptedAt[k] = -1 THEN -1 ELSE clock - acceptedAt[k],
                   behind |-> accepts - acceptNo[k]]
    /\ IF Known(k)
       THEN UNCHANGED <<queue, last_src_addr, accepts, acceptedAt, acceptNo>>
       ELSE Accept(k, src)
    /\ UNCHANGED clock

Tick ==
    /\ clock < MaxTime
    /\ clock' = clock + 1
    /\ UNCHANGED <<queue, last_src_addr, accepts, acceptedAt, acceptNo, verdict>>

Next ==
    \/ \E src \in Sources, tid \in MsgTids, elem \in Elems : Receive(src, tid, elem)
    \/ Tick

Spec == Init /\ [][Next]_vars
-----------------------------------------------------------------------------
TypeOK ==
    /\ tid_queue \in [Slots -> [key : Keys \cup {<<0, 0, 0>>}, time : 0 .. TimeMod - 1]]
    /\ cur_index \in Slots
    /\ last_src_addr \in Sources \cup {GenieGroup}
    /\ clock \in Nat /\ accepts \in Nat
    /\ acceptedAt \in [Keys -> Int] /\ acceptNo \in [Keys -> Nat]

\* The uptime in milliseconds has not come near the end of its 32 bits.
NoWrap == clock + Window < TimeMod

\* Whatever the order in which copies arrive, a message is acted on a second
\* time within the window only if QueueSize others were accepted since: "check
\* whether there is this tid in record, and record it if not"
\* (genie_transport_check_tid, genie_transport.h).
ActedOnOnce ==
    NoWrap /\ ~verdict.repeat /\ verdict.gap \in 0 .. Window - 1 => verdict.behind > QueueSize

\* Only repeats are dropped: a dropped message was accepted less than a window
\* before.
OnlyRepeatsDropped == NoWrap /\ verdict.repeat => verdict.gap \in 0 .. Window - 1
=============================================================================
