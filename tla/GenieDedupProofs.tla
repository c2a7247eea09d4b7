-------------------------- MODULE GenieDedupProofs --------------------------
(***************************************************************************)
(* GenieDedup for every ring size, window, clock width and set of sources: *)
(* a repeat is let through within the window only when a whole ring of     *)
(* other messages has been accepted since, and only repeats are dropped.   *)
(***************************************************************************)
EXTENDS GenieDedup, ModArith

\* The message accepted last with a key is in the slot of its number, until
\* QueueSize others have been accepted.
RingInv ==
    /\ cur_index = accepts % QueueSize
    /\ \A k \in Keys : acceptedAt[k] # -1 =>
          /\ acceptedAt[k] \in 0 .. clock /\ acceptNo[k] < accepts
          /\ accepts - acceptNo[k] <= QueueSize =>
                tid_queue[acceptNo[k] % QueueSize] = Entry(k, acceptedAt[k] % TimeMod)

\* Every entry is of a message that was accepted, and not later than the last
\* one with its key.
EntryInv ==
    NoWrap => \A i \in Slots, k \in Keys :
        tid_queue[i].key = k => acceptedAt[k] # -1 /\ tid_queue[i].time <= acceptedAt[k]

DedupInv ==
    /\ TypeOK /\ RingInv /\ EntryInv
    /\ verdict.gap \in Int /\ verdict.behind \in Int
    /\ ActedOnOnce /\ OnlyRepeatsDropped
-----------------------------------------------------------------------------
\* The constants, as the proofs use them.
LEMMA Sizes ==
    /\ QueueSize \in Nat \ {0} /\ Window \in Nat \ {0}
    /\ TimeMod \in Nat \ {0} /\ TimeMod > Window
BY DedupAssumption

\* An untouched slot of tid_queue is no message's.
LEMMA ZeroIsNoKey == <<0, 0, 0>> \notin Keys
BY DedupAssumption DEF Keys

\* All Genies count as the first one.
LEMMA KeyInKeys ==
    ASSUME NEW src \in Sources, NEW tid \in MsgTids, NEW elem \in Elems
    PROVE  Key(src, tid, elem) \in Keys
BY DEF Key, Keys

\* Before the clock wraps, an entry is recent for the length of the window.
LEMMA RecentMeans ==
    ASSUME clock \in Nat, NoWrap, NEW e, e.time \in Nat, e.time <= clock
    PROVE  Recent(e) <=> clock < e.time + Window
<1>1. clock < TimeMod /\ e.time + Window < TimeMod /\ e.time + Window \in Nat
  BY Sizes DEF NoWrap
<1>2. clock % TimeMod = clock
  BY <1>1, Sizes, ModRange, Zenon
<1>3. (e.time + Window) % TimeMod = e.time + Window
  BY <1>1, Sizes, ModRange, Zenon
<1> QED BY <1>2, <1>3 DEF Recent
-----------------------------------------------------------------------------
\* A message that arrives is dropped only if it is a repeat, and accepted
\* within the window only if its entry has left the ring.
LEMMA Verdict ==
    ASSUME DedupInv, NEW k \in Keys, NoWrap,
           acceptedAt[k] # -1 \/ Known(k)
    PROVE  /\ Known(k) => acceptedAt[k] # -1 /\ clock - acceptedAt[k] \in 0 .. Window - 1
           /\ ~Known(k) /\ clock - acceptedAt[k] \in 0 .. Window - 1
                 => accepts - acceptNo[k] > QueueSize
<1> USE Sizes
<1>t. /\ clock \in Nat /\ accepts \in Nat
      /\ acceptedAt[k] \in Int /\ acceptNo[k] \in Nat
      /\ \A i \in Slots : tid_queue[i].time \in Nat
  BY DEF DedupInv, TypeOK
<1>1. ASSUME Known(k)
      PROVE  acceptedAt[k] # -1 /\ clock - acceptedAt[k] \in 0 .. Window - 1
  <2>1. PICK i \in Slots : tid_queue[i].key = k /\ Recent(tid_queue[i])
    BY <1>1 DEF Known
  <2>2. acceptedAt[k] # -1 /\ tid_queue[i].time <= acceptedAt[k]
    BY <2>1 DEF DedupInv, EntryInv
  <2>3. acceptedAt[k] \in 0 .. clock
    BY <2>2 DEF DedupInv, RingInv
  <2>4. tid_queue[i].time \in Nat /\ tid_queue[i].time <= clock
    BY <2>2, <2>3, <1>t
  <2>5. clock < tid_queue[i].time + Window
    BY <2>1, <2>4, <1>t, RecentMeans
  <2> QED BY <2>2, <2>3, <2>4, <2>5, <1>t
<1>2. ASSUME acceptedAt[k] # -1, clock - acceptedAt[k] \in 0 .. Window - 1,
             accepts - acceptNo[k] <= QueueSize
      PROVE  Known(k)
  <2> DEFINE i == acceptNo[k] % QueueSize
  <2>1. i \in Slots
    BY <1>t, ModRange, Zenon DEF Slots
  <2>2. acceptedAt[k] \in 0 .. clock
    BY <1>2 DEF DedupInv, RingInv
  <2>3. acceptedAt[k] \in Nat /\ acceptedAt[k] < TimeMod
    BY <2>2, <1>t DEF NoWrap
  <2>4. acceptedAt[k] % TimeMod = acceptedAt[k]
    BY <2>3, ModRange
  <2>5. tid_queue[i] = Entry(k, acceptedAt[k])
    BY <1>2, <2>4 DEF DedupInv, RingInv
  <2>6. tid_queue[i].key = k /\ tid_queue[i].time = acceptedAt[k]
    BY <2>5 DEF Entry
  <2>7. Recent(tid_queue[i])
    <3>1. clock < tid_queue[i].time + Window
      BY <2>6, <1>2, <1>t
    <3> HIDE DEF i
    <3> QED BY <3>1, <2>6, <2>2, <2>3, <1>t, RecentMeans
  <2> QED BY <2>1, <2>6, <2>7 DEF Known
<1>3. accepts - acceptNo[k] \in Int
  BY <1>t
<1> QED BY <1>1, <1>2, <1>3, <1>t

\* An accepted message goes into the slot of its number; of the entries that
\* RingInv speaks of none is overwritten.
LEMMA AcceptKeeps ==
    ASSUME DedupInv, NEW k \in Keys, NEW src \in Sources, Accept(k, src), UNCHANGED clock
    PROVE  TypeOK' /\ RingInv' /\ EntryInv'
<1> USE Sizes
<1>t. /\ clock \in Nat /\ accepts \in Nat /\ cur_index \in Slots
      /\ tid_queue \in [Slots -> [key : Keys \cup {<<0, 0, 0>>}, time : 0 .. TimeMod - 1]]
      /\ acceptedAt \in [Keys -> Int] /\ acceptNo \in [Keys -> Nat]
      /\ cur_index = accepts % QueueSize
  BY DEF DedupInv, TypeOK, RingInv
<1>1. /\ tid_queue' = [tid_queue EXCEPT ![cur_index] = Entry(k, clock % TimeMod)]
      /\ cur_index' = NextSlot(cur_index) /\ accepts' = accepts + 1
      /\ acceptedAt' = [acceptedAt EXCEPT ![k] = clock]
      /\ acceptNo' = [acceptNo EXCEPT ![k] = accepts]
      /\ last_src_addr' = src /\ clock' = clock
  BY DEF Accept
<1>2. clock % TimeMod \in 0 .. TimeMod - 1
  BY <1>t, ModRange
<1>3. cur_index' = accepts' % QueueSize
  BY <1>1, <1>t, ModNext, Zenon DEF NextSlot
<1>4. cur_index' \in Slots
  BY <1>1, <1>3, <1>t, ModRange DEF Slots
<1>5. TypeOK'
  <2>1. Entry(k, clock % TimeMod) \in [key : Keys \cup {<<0, 0, 0>>}, time : 0 .. TimeMod - 1]
    BY <1>2 DEF Entry
  <2>2. tid_queue' \in [Slots -> [key : Keys \cup {<<0, 0, 0>>}, time : 0 .. TimeMod - 1]]
    BY <2>1, <1>1, <1>t
  <2>3. acceptedAt' \in [Keys -> Int] /\ acceptNo' \in [Keys -> Nat]
    BY <1>1, <1>t
  <2> QED BY <2>2, <2>3, <1>1, <1>4, <1>t DEF TypeOK
<1>6. RingInv'
  <2> SUFFICES ASSUME NEW j \in Keys, acceptedAt'[j] # -1
               PROVE  /\ acceptedAt'[j] \in 0 .. clock' /\ acceptNo'[j] < accepts'
                      /\ accepts' - acceptNo'[j] <= QueueSize =>
                            tid_queue'[acceptNo'[j] % QueueSize] = Entry(j, acceptedAt'[j] % TimeMod)
    BY <1>3 DEF RingInv, Entry
  <2>1. CASE j = k
    <3>1. acceptedAt'[j] = clock /\ acceptNo'[j] = accepts
      BY <2>1, <1>1, <1>t
    <3>2. tid_queue'[accepts % QueueSize] = Entry(k, clock % TimeMod)
      BY <1>1, <1>t
    <3> QED BY <3>1, <3>2, <2>1, <1>1, <1>t
  <2>2. CASE j # k
    <3>1. acceptedAt'[j] = acceptedAt[j] /\ acceptNo'[j] = acceptNo[j]
      BY <2>2, <1>1, <1>t
    <3>2. acceptedAt[j] \in 0 .. clock /\ acceptNo[j] < accepts /\ acceptNo[j] \in Nat
      BY <3>1, <1>t DEF DedupInv, RingInv
    <3>3. ASSUME accepts + 1 - acceptNo[j] <= QueueSize
          PROVE  tid_queue'[acceptNo[j] % QueueSize] = Entry(j, acceptedAt[j] % TimeMod)
      <4>1. accepts - acceptNo[j] <= QueueSize /\ accepts < acceptNo[j] + QueueSize
        BY <3>2, <3>3, <1>t
      <4>2. tid_queue[acceptNo[j] % QueueSize] = Entry(j, acceptedAt[j] % TimeMod)
        BY <4>1, <3>1 DEF DedupInv, RingInv
      <4>3. acceptNo[j] % QueueSize # cur_index
        BY <4>1, <3>2, <1>t, ModDistinct
      <4>4. acceptNo[j] % QueueSize \in Slots
        BY <3>2, ModRange DEF Slots
      <4> QED BY <4>2, <4>3, <4>4, <1>1, <1>t
    <3> QED BY <3>1, <3>2, <3>3, <1>1, <1>t
  <2> QED BY <2>1, <2>2
<1>7. EntryInv'
  <2> SUFFICES ASSUME NoWrap, NEW i \in Slots, NEW j \in Keys, tid_queue'[i].key = j
               PROVE  acceptedAt'[j] # -1 /\ tid_queue'[i].time <= acceptedAt'[j]
    BY <1>1 DEF EntryInv, NoWrap
  <2>1. CASE i = cur_index
    <3>1. tid_queue'[i] = Entry(k, clock % TimeMod)
      BY <2>1, <1>1, <1>t
    <3>2. j = k /\ tid_queue'[i].time = clock % TimeMod
      BY <3>1 DEF Entry
    <3>3. clock % TimeMod = clock
      <4>1. clock < TimeMod
        BY <1>t DEF NoWrap
      <4> QED BY <4>1, <1>t, ModRange, Zenon
    <3> QED BY <3>2, <3>3, <1>1, <1>t
  <2>2. CASE i # cur_index
    <3>1. tid_queue'[i] = tid_queue[i]
      BY <2>2, <1>1, <1>t
    <3>2. acceptedAt[j] # -1 /\ tid_queue[i].time <= acceptedAt[j] /\ tid_queue[i].time \in Nat
      BY <3>1, <1>t DEF DedupInv, EntryInv
    <3>3. CASE j = k
      <4>1. acceptedAt[j] \in 0 .. clock
        BY <3>2 DEF DedupInv, RingInv
      <4> QED BY <4>1, <3>1, <3>2, <3>3, <1>1, <1>t
    <3>4. CASE j # k
      BY <3>1, <3>2, <3>4, <1>1, <1>t
    <3> QED BY <3>3, <3>4
  <2> QED BY <2>1, <2>2
<1> QED BY <1>5, <1>6, <1>7
-----------------------------------------------------------------------------
LEMMA DedupStep == DedupInv /\ [Next]_vars => DedupInv'
<1> SUFFICES ASSUME DedupInv, [Next]_vars PROVE DedupInv'
  OBVIOUS
<1> USE Sizes
<1>1. ASSUME NEW src \in Sources, NEW tid \in MsgTids, NEW elem \in Elems, Receive(src, tid, elem)
      PROVE  DedupInv'
  <2> DEFINE k == Key(src, tid, elem)
  <2>1. k \in Keys
    BY KeyInKeys
  <2> HIDE DEF k
  <2>2. /\ verdict'.repeat = Known(k)
        /\ verdict'.gap = IF acceptedAt[k] = -1 THEN -1 ELSE clock - acceptedAt[k]
        /\ verdict'.behind = accepts - acceptNo[k]
        /\ clock' = clock
    BY <1>1 DEF Receive, k
  <2>3. clock \in Nat /\ accepts \in Nat /\ acceptedAt[k] \in Int /\ acceptNo[k] \in Nat
    BY <2>1 DEF DedupInv, TypeOK
  <2>4. verdict'.gap \in Int /\ verdict'.behind \in Int
    BY <2>2, <2>3
  <2>5. ActedOnOnce' /\ OnlyRepeatsDropped'
    <3> SUFFICES ASSUME NoWrap
                 PROVE  /\ ~Known(k) /\ verdict'.gap \in 0 .. Window - 1 => verdict'.behind > QueueSize
                        /\ Known(k) => verdict'.gap \in 0 .. Window - 1
      BY <2>2 DEF ActedOnOnce, OnlyRepeatsDropped, NoWrap
    <3>1. CASE acceptedAt[k] # -1 \/ Known(k)
      BY <3>1, <2>1, <2>2, Verdict
    <3>2. CASE ~(acceptedAt[k] # -1 \/ Known(k))
      BY <3>2, <2>2
    <3> QED BY <3>1, <3>2
  <2>6. TypeOK' /\ RingInv' /\ EntryInv'
    <3>1. CASE Known(k)
      <4>1. UNCHANGED <<tid_queue, cur_index, last_src_addr, accepts, acceptedAt, acceptNo, clock>>
        BY <3>1, <1>1 DEF Receive, k, queue
      <4> QED BY <4>1 DEF DedupInv, TypeOK, RingInv, EntryInv, NoWrap, Entry
    <3>2. CASE ~Known(k)
      <4>1. Accept(k, src) /\ UNCHANGED clock
        BY <3>2, <1>1 DEF Receive, k
      <4> QED BY <4>1, <2>1, AcceptKeeps
    <3> QED BY <3>1, <3>2
  <2> QED BY <2>4, <2>5, <2>6 DEF DedupInv
<1>2. CASE Tick
  <2>1. /\ clock' = clock + 1 /\ clock \in Nat /\ clock' \in Nat
        /\ UNCHANGED <<tid_queue, cur_index, last_src_addr, accepts, acceptedAt, acceptNo, verdict>>
    BY <1>2 DEF Tick, queue, DedupInv, TypeOK
  <2>2. NoWrap' => NoWrap
    BY <2>1 DEF NoWrap
  <2>3. TypeOK'
    BY <2>1 DEF DedupInv, TypeOK
  <2>4. RingInv'
    BY <2>1 DEF DedupInv, RingInv, Entry
  <2>5. EntryInv' /\ ActedOnOnce' /\ OnlyRepeatsDropped'
    BY <2>1, <2>2 DEF DedupInv, EntryInv, ActedOnOnce, OnlyRepeatsDropped
  <2> QED BY <2>1, <2>3, <2>4, <2>5 DEF DedupInv
<1>3. CASE UNCHANGED vars
  BY <1>3 DEF vars, queue, DedupInv, TypeOK, RingInv, EntryInv, NoWrap, Entry, ActedOnOnce,
              OnlyRepeatsDropped
<1> QED BY <1>1, <1>2, <1>3 DEF Next

LEMMA DedupInit == Init => DedupInv
<1> SUFFICES ASSUME Init PROVE DedupInv
  OBVIOUS
<1> USE Sizes
<1>1. Zero.key = <<0, 0, 0>> /\ Zero.time = 0
  BY DEF Zero, Entry
<1>2. TypeOK
  <2>1. Zero \in [key : Keys \cup {<<0, 0, 0>>}, time : 0 .. TimeMod - 1]
    BY DEF Zero, Entry
  <2>2. cur_index \in Slots
    BY DEF Init, Slots
  <2> QED BY <2>1, <2>2 DEF Init, TypeOK
<1>3. RingInv
  <2>1. 0 % QueueSize = 0
    BY ModRange
  <2> QED BY <2>1 DEF Init, RingInv
<1>4. EntryInv
  BY <1>1, ZeroIsNoKey DEF Init, EntryInv
<1>5. ActedOnOnce /\ OnlyRepeatsDropped /\ verdict.gap \in Int /\ verdict.behind \in Int
  BY DEF Init, NoVerdict, ActedOnOnce, OnlyRepeatsDropped
<1> QED BY <1>2, <1>3, <1>4, <1>5 DEF DedupInv

\* genie_transport_check_tid, for every ring size, window, clock width and set
\* of sources: until the 32-bit uptime nears its end, a message is acted on
\* again within the window only after QueueSize others, and only repeats are
\* dropped.
THEOREM DedupSafe == Spec => [](TypeOK /\ ActedOnOnce /\ OnlyRepeatsDropped)
<1>1. DedupInv => TypeOK /\ ActedOnOnce /\ OnlyRepeatsDropped
  BY DEF DedupInv
<1> QED BY <1>1, DedupInit, DedupStep, PTL DEF Spec
=============================================================================
