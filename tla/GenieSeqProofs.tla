--------------------------- MODULE GenieSeqProofs ---------------------------
(***************************************************************************)
(* GenieSeq for every set of sending tasks, save interval, counter width   *)
(* and IV range: a node never transmits a nonce twice, across any number   *)
(* of power losses, until one of the lapses happens.                       *)
(***************************************************************************)
EXTENDS GenieSeq, ModArith

\* No task has stamped or restarted the number under another's feet, and it
\* has not wrapped: failed saves and a lost IV Index leave the counter alone.
Orderly == lapses \subseteq {"save", "iv"}

\* How far the saved record has to reach: a number whose save is pending is
\* on the air only after SEQ_UPDATE has run.
Base == IF \E t \in Tasks : SavePending(t) THEN seq - 1 ELSE seq

\* The counter and the PDUs being built agree: at most one task is between
\* load and store, every number handed out is below the counter, no two PDUs
\* have the same, and a pending save is of the counter's present value.
TasksInv ==
    \A t \in Tasks :
        /\ pc[t] = "loaded" => stamp[t] = seq
        /\ pc[t] \in {"stamped", "saved"} => stamp[t] < seq
        /\ SavePending(t) => stamp[t] + 1 = seq
        /\ \A u \in Tasks \ {t} :
              /\ pc[t] = "loaded" => ~Unfinished(u)
              /\ pc[t] # "idle" /\ pc[u] # "idle" => stamp[t] # stamp[u]

\* The running node: the IV Index is not negative, and without a network
\* nothing is being sent.
RunInv ==
    /\ ivu => iv > 0
    /\ power # "prov" => iv = 0 /\ ~ivu /\ ~aged
    /\ Orderly => TasksInv /\ (power # "prov" => \A t \in Tasks : pc[t] = "idle")

\* Everything sent lies below the nonce to be used next, and no PDU being
\* built has a number that is on the air under the current IV Index.
BelowInv ==
    lapses = {} /\ power = "prov" =>
        \A p \in sent :
            \/ p[1] < IviTx
            \/ /\ p[1] = IviTx /\ p[2] < seq
               /\ \A t \in Tasks : pc[t] # "idle" => p[2] # stamp[t]

\* Under the stored IV Index the record trails the counter by less than a
\* save point; a network that has sent nothing may have a stale record.
TrackInv ==
    lapses = {} /\ power = "prov" /\ IviTx = 0 =>
        \/ Base = 0 /\ sent = {}
        \/ kvSeq # None /\ \A m \in (kvSeq + 1) .. Base : m % Interval # 0

\* Without power (or waiting for a provisioner) the record covers all of it.
OffInv ==
    lapses = {} /\ power # "prov" /\ kvNode = "full" =>
        \A p \in sent : p[1] = 0 /\ kvSeq # None /\ p[2] < kvSeq + Interval

SentNat == \A p \in sent : p[1] >= 0

SeqInv ==
    /\ TypeOK /\ RunInv /\ BelowInv /\ TrackInv /\ OffInv /\ SentNat
    /\ NonceFresh
-----------------------------------------------------------------------------
\* A number without a save point since the record is less than an interval
\* away from it.
LEMMA Covered ==
    ASSUME TypeOK, kvSeq # None, NEW b \in Nat,
           \A m \in (kvSeq + 1) .. b : m % Interval # 0
    PROVE  b < kvSeq + Interval
<1>1. kvSeq \in Nat /\ Interval \in Nat \ {0}
  BY SeqAssumption DEF TypeOK, Seqs
<1>2. ASSUME kvSeq + Interval <= b PROVE FALSE
  <2>1. \E m \in (kvSeq + 1) .. b : m % Interval = 0
    BY <1>1, <1>2, SavePointInGap, Zenon
  <2> QED BY <2>1
<1> QED BY <1>1, <1>2
-----------------------------------------------------------------------------
\* Counter values stay in the 24-bit field.
LEMMA RecordInField ==
    ASSUME NEW s \in Nat
    PROVE  Record(s) \in Seqs /\ (s < SeqMod => Record(s) = s)
<1>1. SeqMod \in Nat \ {0}
  BY SeqAssumption
<1>2. s % SeqMod \in 0 .. SeqMod - 1
  BY <1>1
<1>3. s < SeqMod => s % SeqMod = s
  BY <1>1
<1> QED BY <1>2, <1>3 DEF Record, Seqs

\* A restarted number is recorded as a lapse or nothing.
LEMMA RestartType ==
    ASSUME NEW t \in Tasks
    PROVE  Restart(t) \subseteq Lapses
BY DEF Restart, Lapses

LEMMA ZeroInField == 0 \in Seqs /\ 0 \in Ivs
BY SeqAssumption DEF Seqs, Ivs

LEMMA IvUpdateType ==
    ASSUME TypeOK, NEW i \in Ivs, NEW u \in BOOLEAN, NEW busy \in BOOLEAN,
           IvUpdate(i, u, busy)
    PROVE  seq' \in Seqs /\ iv' \in Ivs /\ ivu' \in BOOLEAN /\ aged' \in BOOLEAN
<1>1. CASE UNCHANGED mesh
  BY <1>1 DEF TypeOK, mesh
<1>2. CASE /\ iv' = i /\ ivu' = u /\ aged' = FALSE
           /\ seq' = IF IvEnter(i, u) THEN seq ELSE 0
  <2>1. 0 \in Seqs /\ seq \in Seqs
    BY SeqAssumption DEF Seqs, TypeOK
  <2> QED BY <1>2, <2>1, Zenon
<1> QED BY <1>1, <1>2, Zenon DEF IvUpdate

\* Type correctness is preserved by every step.
LEMMA TypeStep ==
    TypeOK /\ [Next]_vars => TypeOK'
<1> SUFFICES ASSUME TypeOK, [Next]_vars PROVE TypeOK'
  OBVIOUS
<1> USE SeqAssumption
<1>1. CASE Boot
  <2>1. kvSeq # None => BootSeq(kvSeq) \in Nat
    BY DEF TypeOK, BootSeq, Seqs
  <2>2. kvSeq # None => Record(BootSeq(kvSeq)) \in Seqs
    BY <2>1, RecordInField
  <2>3. seq' \in Seqs /\ power' \in {"off", "unprov", "prov"}
    BY <1>1, <2>2 DEF Boot, Seqs
  <2>4. kvSeq' \in Seqs \cup {None} /\ lapses' \subseteq Lapses
    BY <1>1, <2>2, Zenon DEF TypeOK, Boot, ReadSeq, Lapses
  <2> QED BY <1>1, <2>3, <2>4 DEF TypeOK, Boot
<1>2. CASE PowerLoss
  <2>1. seq' \in Seqs /\ iv' \in Ivs /\ ivu' \in BOOLEAN /\ aged' \in BOOLEAN
    BY <1>2, ZeroInField, Zenon DEF PowerLoss
  <2>2. /\ pc' \in [Tasks -> {"idle", "loaded", "stamped", "saved"}]
        /\ stamp' \in [Tasks -> Seqs]
    BY <1>2, ZeroInField DEF PowerLoss
  <2>3. lapses' \subseteq Lapses
    BY <1>2 DEF TypeOK, PowerLoss, Lapses
  <2> QED BY <1>2, <2>1, <2>2, <2>3 DEF TypeOK, PowerLoss
<1>3. CASE Age
  BY <1>3 DEF TypeOK, Age
<1>4. ASSUME NEW t \in Tasks, StoreKeys(t) PROVE TypeOK'
  BY <1>4 DEF TypeOK, StoreKeys, mesh
<1>5. ASSUME NEW t \in Tasks, Reset(t) PROVE TypeOK'
  <2>1. lapses' \subseteq Lapses
    BY <1>5, RestartType, Zenon DEF TypeOK, Reset
  <2> QED BY <1>5, <2>1, ZeroInField, Zenon DEF TypeOK, Reset
<1>6. ASSUME NEW t \in Tasks, IvuComplete(t) PROVE TypeOK'
  <2>1. iv \in Ivs
    BY DEF TypeOK
  <2>2. seq' \in Seqs /\ iv' \in Ivs /\ ivu' \in BOOLEAN /\ aged' \in BOOLEAN
    BY <1>6, <2>1, IvUpdateType, Zenon DEF IvuComplete
  <2>3. lapses' \subseteq Lapses
    BY <1>6, RestartType, Zenon DEF TypeOK, IvuComplete
  <2> QED BY <1>6, <2>2, <2>3 DEF TypeOK, IvuComplete
<1>7. ASSUME NEW t \in Tasks, Stamp(t) PROVE TypeOK'
  <2>1. lapses' \subseteq Lapses
    BY <1>7, Zenon DEF TypeOK, Stamp, Lapses
  <2> QED BY <1>7, <2>1 DEF TypeOK, Stamp, mesh
<1>8. ASSUME NEW t \in Tasks, Increment(t) PROVE TypeOK'
  <2>1. stamp[t] + 1 \in Nat
    BY DEF TypeOK, Seqs
  <2>2. (stamp[t] + 1) % SeqMod \in Seqs
    BY <2>1, RecordInField DEF Record
  <2> QED BY <1>8, <2>2 DEF TypeOK, Increment, Lapses
<1>9. ASSUME NEW t \in Tasks, SeqUpdate(t) PROVE TypeOK'
  <2>1. Record(seq) \in Seqs
    BY RecordInField DEF TypeOK, Seqs
  <2> QED BY <1>9, <2>1, Zenon DEF TypeOK, SeqUpdate, mesh, Lapses
<1>10. ASSUME NEW t \in Tasks, NEW i \in Ivs, NEW u \in BOOLEAN, Provision(t, i, u)
       PROVE TypeOK'
  <2>1. lapses' \subseteq Lapses
    BY <1>10, RestartType, Zenon DEF Provision
  <2> QED BY <1>10, <2>1, ZeroInField, Zenon DEF TypeOK, Provision
<1>11. ASSUME NEW t \in Tasks, NEW i \in Ivs, NEW u \in BOOLEAN, SecureBeacon(t, i, u)
       PROVE TypeOK'
  <2>1. seq' \in Seqs /\ iv' \in Ivs /\ ivu' \in BOOLEAN /\ aged' \in BOOLEAN
    BY <1>11, IvUpdateType DEF SecureBeacon
  <2>2. lapses' \subseteq Lapses
    BY <1>11, RestartType, Zenon DEF TypeOK, SecureBeacon
  <2> QED BY <1>11, <2>1, <2>2 DEF TypeOK, SecureBeacon
<1>12. ASSUME NEW t \in Tasks, NEW resend \in BOOLEAN, Transmit(t, resend)
       PROVE TypeOK'
  <2>1. iv < MaxIv => iv + 1 \in Ivs
    BY DEF TypeOK, Ivs
  <2>2. seq' \in Seqs /\ iv' \in Ivs /\ ivu' \in BOOLEAN /\ aged' \in BOOLEAN
    <3>1. CASE UNCHANGED mesh
      BY <3>1 DEF TypeOK, mesh
    <3>2. CASE iv < MaxIv /\ IvUpdate(iv + 1, TRUE, FALSE)
      BY <3>2, <2>1, IvUpdateType, Zenon
    <3> QED BY <1>12, <3>1, <3>2, Zenon DEF Transmit
  <2>3. IviTx \in Int /\ stamp[t] \in Seqs
    BY DEF TypeOK, IviTx, Ivs
  <2> QED BY <1>12, <2>2, <2>3 DEF TypeOK, Transmit
<1>13. CASE UNCHANGED vars
  BY <1>13 DEF TypeOK, vars
<1> QED
  BY <1>1, <1>2, <1>3, <1>4, <1>5, <1>6, <1>7, <1>8, <1>9, <1>10, <1>11, <1>12, <1>13
  DEF Next

\* The variables of GenieSeq stay in their types: in particular the counter
\* and its record stay 24-bit numbers through boot, increment and IV update.
THEOREM TypeCorrect == Spec => []TypeOK
<1>1. Init => TypeOK
  BY ZeroInField, Zenon DEF Init, TypeOK, Lapses
<1> QED BY <1>1, TypeStep, PTL DEF Spec
-----------------------------------------------------------------------------
\* An IV update keeps the nonce epoch or moves it up, so it never makes an
\* old nonce current again.
LEMMA IvStep ==
    ASSUME TypeOK, ivu => iv > 0,
           NEW i \in Ivs, NEW u \in BOOLEAN, NEW busy \in BOOLEAN,
           u => i > 0, IvUpdate(i, u, busy)
    PROVE  /\ ivu' => iv' > 0
           /\ \/ IviTx' = IviTx /\ seq' = seq
              \/ IviTx' > IviTx
<1>0. iv \in Nat /\ i \in Nat /\ ivu \in BOOLEAN
  BY SeqAssumption DEF TypeOK, Ivs
<1>1. CASE UNCHANGED mesh
  BY <1>1 DEF mesh, IviTx
<1>2. CASE /\ IvEnter(i, u)
           /\ iv' = i /\ ivu' = u /\ seq' = seq
  BY <1>0, <1>2 DEF IvEnter, IviTx
<1>3. CASE /\ IvRecovery(i, u)
           /\ iv' = i /\ ivu' = u
  BY <1>0, <1>3 DEF IvRecovery, IviTx
<1>4. CASE /\ IvLeave(i, u, busy)
           /\ iv' = i /\ ivu' = u
  BY <1>0, <1>4 DEF IvLeave, IviTx
<1> QED BY <1>1, <1>2, <1>3, <1>4 DEF IvUpdate

\* A step that leaves the nonce, the PDUs, the records and the history alone.
LEMMA StutterStep ==
    ASSUME SeqInv, TypeOK', UNCHANGED <<power, seq, iv, ivu, kvSeq, pc, stamp, sent, reused, lapses>>,
           UNCHANGED <<aged, kvNode>> \/ power = "prov"
    PROVE  SeqInv'
<1>1. UNCHANGED <<IviTx, Base>> /\ TasksInv' = TasksInv /\ Orderly' = Orderly
  BY DEF IviTx, Base, SavePending, TasksInv, Unfinished, Orderly
<1> HIDE DEF IviTx, Base, TasksInv, Orderly
<1>2. RunInv' /\ BelowInv' /\ TrackInv'
  BY <1>1 DEF SeqInv, RunInv, BelowInv, TrackInv
<1>3. OffInv' /\ SentNat' /\ NonceFresh'
  BY DEF SeqInv, OffInv, SentNat, NonceFresh
<1> QED BY <1>2, <1>3 DEF SeqInv

\* With every task idle nothing is pending.
LEMMA AllIdle ==
    ASSUME \A t \in Tasks : pc[t] = "idle"
    PROVE  TasksInv /\ Base = seq
BY DEF TasksInv, Base, SavePending, Unfinished

\* Restarting the number without a lapse finds every task idle.
LEMMA RestartIdle ==
    ASSUME NEW t \in Tasks, pc[t] = "idle", Restart(t) = {}
    PROVE  \A u \in Tasks : pc[u] = "idle"
BY DEF Restart

\* A step of an idle task that leaves the records alone, and either keeps
\* nonce and counter or moves to a higher transmit IV Index, keeps the
\* invariant.
LEMMA IvMoves ==
    ASSUME SeqInv, TypeOK', NEW t \in Tasks, pc[t] = "idle",
           power = "prov", ivu' => iv' > 0,
           \/ IviTx' = IviTx /\ seq' = seq
           \/ IviTx' > IviTx,
           lapses' = IF IviTx' = IviTx THEN lapses ELSE lapses \cup Restart(t),
           UNCHANGED <<power, kvSeq, kvNode, pc, stamp, sent, reused>>
    PROVE  SeqInv'
<1>1. IviTx \in Nat /\ IviTx' \in Int /\ seq \in Nat /\ seq' \in Nat
  BY SeqAssumption DEF SeqInv, TypeOK, RunInv, IviTx, Ivs, Seqs
<1>2. CASE IviTx' = IviTx
  <2>1. seq' = seq /\ lapses' = lapses
    BY <1>1, <1>2
  <2>2. Base' = Base /\ TasksInv' = TasksInv /\ Orderly' = Orderly
    BY <2>1 DEF Base, SavePending, TasksInv, Unfinished, Orderly
  <2> HIDE DEF IviTx, Base, TasksInv, Orderly
  <2>3. RunInv' /\ BelowInv' /\ TrackInv'
    BY <1>2, <2>1, <2>2 DEF SeqInv, RunInv, BelowInv, TrackInv
  <2>4. OffInv' /\ SentNat' /\ NonceFresh'
    BY <2>1 DEF SeqInv, OffInv, SentNat, NonceFresh
  <2> QED BY <2>3, <2>4 DEF SeqInv
<1>3. CASE IviTx' > IviTx
  <2>1. lapses' = lapses \cup Restart(t)
    BY <1>1, <1>3
  <2>2. ASSUME Orderly' PROVE \A u \in Tasks : pc'[u] = "idle"
    <3>1. Restart(t) = {}
      BY <2>1, <2>2 DEF Orderly, Restart
    <3> QED BY <3>1, RestartIdle
  <2>3. RunInv'
    <3>1. Orderly' => TasksInv'
      BY <2>2 DEF TasksInv, SavePending, Unfinished
    <3> HIDE DEF TasksInv, Orderly
    <3> QED BY <3>1 DEF SeqInv, RunInv
  <2> HIDE DEF IviTx
  <2>4. BelowInv'
    <3> SUFFICES ASSUME lapses' = {}, NEW p \in sent PROVE p[1] < IviTx'
      BY DEF BelowInv
    <3>1. p[1] \in Int /\ p[1] <= IviTx
      BY <1>1, <2>1 DEF SeqInv, TypeOK, BelowInv
    <3> QED BY <1>1, <1>3, <3>1
  <2>5. TrackInv'
    <3>1. IviTx' # 0
      BY <1>1, <1>3
    <3> QED BY <3>1 DEF TrackInv
  <2>6. OffInv' /\ SentNat' /\ NonceFresh'
    BY <2>1 DEF SeqInv, OffInv, SentNat, NonceFresh
  <2> QED BY <2>3, <2>4, <2>5, <2>6 DEF SeqInv
<1> QED BY <1>2, <1>3

\* While the node sends under the stored IV Index, its record covers every
\* number it has used.
LEMMA RunningCovered ==
    ASSUME SeqInv, lapses = {}, power = "prov", IviTx = 0, NEW p \in sent
    PROVE  p[1] = 0 /\ kvSeq # None /\ p[2] < kvSeq + Interval
<1>t. /\ seq \in Nat /\ p[1] \in Int /\ p[2] \in Nat
      /\ \A t \in Tasks : stamp[t] \in Nat
  BY SeqAssumption DEF SeqInv, TypeOK, Seqs
<1>0. TasksInv
  BY DEF SeqInv, RunInv, Orderly
<1>1. p[1] = 0 /\ p[2] < Base /\ Base \in Nat
  <2>1. p[1] = 0 /\ p[2] < seq /\ \A t \in Tasks : pc[t] # "idle" => p[2] # stamp[t]
    BY <1>t DEF SeqInv, BelowInv, SentNat
  <2>2. ASSUME NEW v \in Tasks, SavePending(v)
        PROVE  p[2] # stamp[v] /\ stamp[v] = seq - 1
    <3>1. pc[v] # "idle"
      BY <2>2 DEF SavePending
    <3>2. stamp[v] + 1 = seq
      BY <1>0, <2>2 DEF TasksInv
    <3> QED BY <1>t, <2>1, <3>1, <3>2
  <2> QED BY <1>t, <2>1, <2>2 DEF Base
<1>2. kvSeq # None /\ \A m \in (kvSeq + 1) .. Base : m % Interval # 0
  BY DEF SeqInv, TrackInv
<1>3. Base < kvSeq + Interval
  BY <1>1, <1>2, Covered DEF SeqInv
<1>4. kvSeq \in Nat
  BY <1>2, SeqAssumption DEF SeqInv, TypeOK, Seqs
<1> HIDE DEF Base
<1> QED BY <1>t, <1>1, <1>2, <1>3, <1>4, SeqAssumption
-----------------------------------------------------------------------------
\* Booting skips the interval the record may lag behind.
LEMMA BootStep ==
    ASSUME SeqInv, TypeOK', Boot
    PROVE  SeqInv'
<1>0. TypeOK /\ RunInv
  BY DEF SeqInv
<1>1. lapses' = {} => lapses = {}
  BY DEF Boot, ReadSeq
<1>2. Orderly' => Orderly
  BY DEF Boot, ReadSeq, Orderly
<1>3. Orderly' => \A t \in Tasks : pc'[t] = "idle"
  BY <1>0, <1>2 DEF Boot, RunInv
<1>4. RunInv'
  <2>1. Orderly' => TasksInv'
    BY <1>3 DEF TasksInv, SavePending, Unfinished
  <2> HIDE DEF Orderly, TasksInv
  <2> QED BY <1>0, <1>3, <2>1 DEF RunInv, Boot
<1>5. CASE kvNode = "full" /\ kvSeq # None
  <2>1. power' = "prov" /\ seq' = Record(BootSeq(kvSeq)) /\ IviTx' = 0
    BY <1>0, <1>5 DEF Boot, RunInv, IviTx
  <2>2. kvSeq \in Nat /\ BootSeq(kvSeq) \in Nat
    BY <1>0, <1>5, SeqAssumption DEF TypeOK, Seqs, BootSeq
  <2>3. lapses' = {} => seq' = kvSeq + Interval /\ kvSeq' = seq'
    <3>1. lapses' = {} => BootSeq(kvSeq) < SeqMod /\ kvSeq' = Record(BootSeq(kvSeq))
      BY <1>5, <2>2, SeqAssumption DEF Boot, ReadSeq
    <3> QED BY <2>1, <2>2, <3>1, RecordInField DEF BootSeq
  <2>4. lapses' = {} => Orderly'
    BY DEF Orderly
  <2>5. BelowInv'
    <3> SUFFICES ASSUME lapses' = {}, NEW p \in sent
                 PROVE  p[1] = 0 /\ p[2] < seq'
      BY <1>3, <2>1, <2>4 DEF BelowInv, Boot
    <3> QED BY <1>1, <1>5, <2>3 DEF SeqInv, OffInv, Boot
  <2>6. TrackInv'
    <3> SUFFICES ASSUME lapses' = {} PROVE TrackInv'
      BY DEF TrackInv
    <3>1. Base' = seq'
      BY <1>3, <2>4 DEF Base, SavePending
    <3>2. kvSeq' \in Nat /\ kvSeq' # None
      BY <2>2, <2>3, SeqAssumption
    <3> HIDE DEF Base
    <3> QED BY <2>3, <3>1, <3>2 DEF TrackInv
  <2>7. OffInv' /\ SentNat' /\ NonceFresh'
    BY <1>1, <2>1 DEF SeqInv, OffInv, SentNat, NonceFresh, Boot
  <2> QED BY <1>4, <2>5, <2>6, <2>7 DEF SeqInv
<1>6. CASE ~(kvNode = "full" /\ kvSeq # None)
  <2>1. power' = "unprov" /\ UNCHANGED <<kvNode, sent, reused>>
    BY <1>6 DEF Boot
  <2>2. OffInv'
    <3>1. kvNode = "full" /\ lapses = {} => sent = {}
      BY <1>6 DEF SeqInv, OffInv, Boot
    <3> QED BY <1>1, <2>1, <3>1 DEF OffInv
  <2>3. BelowInv' /\ TrackInv' /\ SentNat' /\ NonceFresh'
    BY <1>1, <2>1 DEF SeqInv, BelowInv, TrackInv, SentNat, NonceFresh
  <2> QED BY <1>4, <2>2, <2>3 DEF SeqInv
<1> QED BY <1>5, <1>6

\* The record a power loss leaves behind covers what has been sent.
LEMMA PowerLossStep ==
    ASSUME SeqInv, TypeOK', PowerLoss
    PROVE  SeqInv'
<1>1. \A t \in Tasks : pc'[t] = "idle"
  BY DEF PowerLoss
<1>2. RunInv'
  <2>1. TasksInv'
    BY <1>1 DEF TasksInv, SavePending, Unfinished
  <2> QED BY <1>1, <2>1 DEF RunInv, PowerLoss
<1>3. lapses' = {} => lapses = {} /\ (power = "prov" => IviTx = 0)
  BY DEF PowerLoss
<1>4. BelowInv' /\ TrackInv' /\ SentNat' /\ NonceFresh'
  BY <1>3 DEF PowerLoss, SeqInv, BelowInv, TrackInv, SentNat, NonceFresh
<1>5. OffInv'
  <2> SUFFICES ASSUME lapses' = {}, kvNode = "full", NEW p \in sent
               PROVE  p[1] = 0 /\ kvSeq # None /\ p[2] < kvSeq + Interval
    BY DEF OffInv, PowerLoss
  <2>1. CASE power # "prov"
    BY <1>3, <2>1 DEF SeqInv, OffInv
  <2>2. CASE power = "prov"
    BY <1>3, <2>2, RunningCovered
  <2> QED BY <2>1, <2>2
<1> QED BY <1>2, <1>4, <1>5 DEF SeqInv

\* A reset leaves no network record behind.
LEMMA ResetStep ==
    ASSUME SeqInv, TypeOK', NEW t \in Tasks, Reset(t)
    PROVE  SeqInv'
<1>1. ASSUME Orderly' PROVE \A u \in Tasks : pc'[u] = "idle"
  <2>1. Restart(t) = {}
    BY <1>1 DEF Reset, Orderly, Restart
  <2> QED BY <2>1, RestartIdle DEF Reset
<1>2. RunInv'
  <2>1. Orderly' => TasksInv'
    BY <1>1 DEF TasksInv, SavePending, Unfinished
  <2> HIDE DEF Orderly, TasksInv
  <2> QED BY <1>1, <2>1 DEF Reset, RunInv
<1>3. lapses' = {} => lapses = {}
  BY DEF Reset
<1>4. BelowInv' /\ TrackInv' /\ OffInv' /\ SentNat' /\ NonceFresh'
  BY <1>3 DEF Reset, SeqInv, BelowInv, TrackInv, OffInv, SentNat, NonceFresh
<1> QED BY <1>2, <1>4 DEF SeqInv

\* A new network starts with nothing sent.
LEMMA ProvisionStep ==
    ASSUME SeqInv, TypeOK', NEW t \in Tasks, NEW i \in Ivs, NEW u \in BOOLEAN,
           Provision(t, i, u)
    PROVE  SeqInv'
<1>1. /\ power' = "prov" /\ seq' = 0 /\ sent' = {} /\ reused' = FALSE
      /\ (ivu' => iv' > 0) /\ lapses' = Restart(t)
  BY DEF Provision
<1>2. ASSUME Orderly' PROVE \A v \in Tasks : pc'[v] = "idle"
  <2>1. Restart(t) = {}
    BY <1>1, <1>2 DEF Orderly, Restart
  <2> QED BY <2>1, RestartIdle DEF Provision
<1>3. RunInv'
  <2>1. Orderly' => TasksInv'
    BY <1>2 DEF TasksInv, SavePending, Unfinished
  <2> HIDE DEF Orderly, TasksInv
  <2> QED BY <1>1, <2>1 DEF RunInv
<1>4. TrackInv'
  <2> SUFFICES ASSUME lapses' = {} PROVE TrackInv'
    BY DEF TrackInv
  <2>1. Orderly'
    BY DEF Orderly
  <2>2. Base' = 0
    BY <1>1, <1>2, <2>1 DEF Base, SavePending
  <2> HIDE DEF Base
  <2> QED BY <1>1, <2>2 DEF TrackInv
<1>5. BelowInv' /\ OffInv' /\ SentNat' /\ NonceFresh'
  BY <1>1 DEF BelowInv, OffInv, SentNat, NonceFresh
<1> QED BY <1>3, <1>4, <1>5 DEF SeqInv
-----------------------------------------------------------------------------
\* The numbers a step works with.
LEMMA Numbers ==
    ASSUME SeqInv
    PROVE  /\ iv \in Nat /\ seq \in Nat /\ IviTx \in Nat
           /\ \A t \in Tasks : stamp[t] \in Nat
           /\ \A p \in sent : p[1] \in Int /\ p[2] \in Nat
BY SeqAssumption DEF SeqInv, TypeOK, RunInv, IviTx, Ivs, Seqs

\* Stamping with nobody unfinished takes a number nobody has.
LEMMA StampStep ==
    ASSUME SeqInv, TypeOK', NEW t \in Tasks, Stamp(t)
    PROVE  SeqInv'
<1>0. /\ power = "prov" /\ power' = "prov" /\ pc[t] = "idle"
      /\ pc' = [pc EXCEPT ![t] = "loaded"] /\ stamp' = [stamp EXCEPT ![t] = seq]
      /\ UNCHANGED <<seq, iv, ivu, aged, kvSeq, kvNode, sent, reused>>
  BY DEF Stamp, mesh
<1>t. TypeOK /\ RunInv
  BY DEF SeqInv
<1>1. /\ pc'[t] = "loaded" /\ stamp'[t] = seq
      /\ \A u \in Tasks \ {t} : pc'[u] = pc[u] /\ stamp'[u] = stamp[u]
  BY <1>0, <1>t DEF TypeOK
<1>2. \A u \in Tasks : SavePending(u)' = SavePending(u)
  BY <1>0, <1>1 DEF SavePending
<1>3. IviTx' = IviTx /\ Base' = Base
  BY <1>0, <1>2 DEF IviTx, Base
<1>4. lapses' = {} => lapses = {}
  BY DEF Stamp
<1>5. Orderly' => Orderly /\ \A u \in Tasks \ {t} : ~Unfinished(u)
  BY DEF Stamp, Orderly
<1>6. ASSUME Orderly' PROVE TasksInv'
  <2>1. TasksInv
    BY <1>5, <1>6, <1>t DEF RunInv
  <2>2. \A u \in Tasks \ {t} : ~Unfinished(u)' /\ pc[u] # "loaded" /\ ~SavePending(u)
    BY <1>1, <1>2, <1>5, <1>6 DEF Unfinished
  <2>3. \A u \in Tasks \ {t} : pc[u] # "idle" => stamp[u] < seq
    BY <1>t, <2>1, <2>2 DEF TasksInv, TypeOK
  <2>4. \A u \in Tasks : stamp[u] \in Nat /\ seq \in Nat
    BY Numbers
  <2>5. ~SavePending(t)'
    BY <1>1 DEF SavePending
  <2> SUFFICES ASSUME NEW v \in Tasks
               PROVE /\ pc'[v] = "loaded" => stamp'[v] = seq'
                     /\ pc'[v] \in {"stamped", "saved"} => stamp'[v] < seq'
                     /\ SavePending(v)' => stamp'[v] + 1 = seq'
                     /\ \A u \in Tasks \ {v} :
                         /\ pc'[v] = "loaded" => ~Unfinished(u)'
                         /\ pc'[v] # "idle" /\ pc'[u] # "idle" => stamp'[v] # stamp'[u]
    BY DEF TasksInv
  <2>6. CASE v = t
    BY <1>0, <1>1, <2>2, <2>3, <2>4, <2>5, <2>6
  <2>7. CASE v # t
    <3>1. pc'[v] = pc[v] /\ stamp'[v] = stamp[v] /\ pc[v] # "loaded"
      BY <1>1, <2>2, <2>7
    <3>2. \A u \in Tasks \ {v} : pc'[v] # "idle" /\ pc'[u] # "idle" => stamp'[v] # stamp'[u]
      BY <1>1, <2>1, <2>3, <2>4, <2>7, <3>1 DEF TasksInv
    <3> QED BY <1>0, <2>1, <2>2, <2>3, <2>7, <3>1, <3>2 DEF TasksInv, SavePending
  <2> QED BY <2>6, <2>7
<1> HIDE DEF IviTx, Base, Orderly, TasksInv
<1>7. RunInv'
  BY <1>0, <1>6, <1>t DEF RunInv
<1>8. BelowInv'
  <2> SUFFICES ASSUME lapses' = {}, NEW p \in sent
               PROVE  \/ p[1] < IviTx
                      \/ /\ p[1] = IviTx /\ p[2] < seq
                         /\ \A u \in Tasks : pc'[u] # "idle" => p[2] # stamp'[u]
    BY <1>0, <1>3 DEF BelowInv
  <2>1. \/ p[1] < IviTx
        \/ p[1] = IviTx /\ p[2] < seq /\ \A u \in Tasks : pc[u] # "idle" => p[2] # stamp[u]
    BY <1>0, <1>4 DEF SeqInv, BelowInv
  <2>2. p[2] \in Nat /\ seq \in Nat
    BY Numbers
  <2> QED BY <1>1, <2>1, <2>2
<1>9. TrackInv'
  BY <1>0, <1>3, <1>4 DEF SeqInv, TrackInv
<1>10. OffInv' /\ SentNat' /\ NonceFresh'
  BY <1>0, <1>4 DEF SeqInv, OffInv, SentNat, NonceFresh
<1> QED BY <1>7, <1>8, <1>9, <1>10 DEF SeqInv

\* Storing the increment moves the counter past the number just handed out,
\* and either the new value has to be saved or it is no save point.
LEMMA IncrementStep ==
    ASSUME SeqInv, TypeOK', NEW t \in Tasks, Increment(t)
    PROVE  SeqInv'
<1>0. /\ pc[t] = "loaded" /\ pc' = [pc EXCEPT ![t] = "stamped"]
      /\ UNCHANGED <<power, iv, ivu, aged, kvSeq, kvNode, stamp, sent, reused>>
  BY DEF Increment
<1>t. TypeOK /\ RunInv
  BY DEF SeqInv
<1>n. /\ seq \in Nat /\ IviTx \in Nat /\ \A u \in Tasks : stamp[u] \in Nat
      /\ \A p \in sent : p[1] \in Int /\ p[2] \in Nat
  BY Numbers
<1>1. pc'[t] = "stamped" /\ \A u \in Tasks \ {t} : pc'[u] = pc[u]
  BY <1>0, <1>t DEF TypeOK
<1>2. lapses' = {} => lapses = {}
  BY DEF Increment
<1>3. ASSUME Orderly'
      PROVE  Orderly /\ TasksInv /\ power = "prov" /\ stamp[t] = seq /\ seq' = seq + 1
  <2>1. Orderly /\ stamp[t] + 1 # SeqMod
    BY <1>3 DEF Increment, Orderly
  <2>2. TasksInv /\ power = "prov"
    BY <1>0, <1>t, <2>1 DEF RunInv
  <2>3. stamp[t] = seq
    BY <1>0, <2>2 DEF TasksInv
  <2>4. stamp[t] + 1 < SeqMod
    BY <1>t, <2>1, SeqAssumption DEF TypeOK, Seqs
  <2>5. seq' = stamp[t] + 1
    BY <1>n, <2>4, RecordInField DEF Increment, Record
  <2> QED BY <2>1, <2>2, <2>3, <2>5
<1>4. ASSUME Orderly' PROVE \A u \in Tasks \ {t} : pc[u] # "loaded" /\ ~SavePending(u) /\ ~SavePending(u)'
  <2>1. \A u \in Tasks \ {t} : ~Unfinished(u)
    BY <1>0, <1>3, <1>4 DEF TasksInv
  <2> QED BY <1>0, <1>1, <2>1 DEF Unfinished, SavePending
<1>5. SavePending(t)' = SaveDue(stamp[t] + 1)
  BY <1>0, <1>1 DEF SavePending, SaveDue
<1>6. ASSUME Orderly' PROVE TasksInv'
  <2>1. \A u, v \in Tasks : u # v /\ pc[u] # "idle" /\ pc[v] # "idle" => stamp[u] # stamp[v]
    BY <1>3, <1>6 DEF TasksInv
  <2>2. \A u, v \in Tasks : u # v /\ pc'[u] # "idle" /\ pc'[v] # "idle" => stamp[u] # stamp[v]
    BY <1>0, <1>1, <2>1
  <2>3. \A u \in Tasks : pc'[u] # "loaded"
    BY <1>1, <1>4, <1>6
  <2>4. \A u \in Tasks : pc'[u] \in {"stamped", "saved"} => stamp[u] < seq'
    <3>1. \A u \in Tasks \ {t} : pc[u] \in {"stamped", "saved"} => stamp[u] < seq
      BY <1>3, <1>6 DEF TasksInv
    <3> QED BY <1>1, <1>3, <1>6, <1>n, <3>1
  <2>5. \A u \in Tasks : SavePending(u)' => stamp[u] + 1 = seq'
    BY <1>3, <1>4, <1>6
  <2> QED BY <1>0, <2>2, <2>3, <2>4, <2>5 DEF TasksInv
<1>7. RunInv'
  <2> HIDE DEF Orderly, TasksInv
  <2> QED BY <1>0, <1>3, <1>6, <1>t DEF RunInv
<1>8. lapses' = {} => Orderly'
  BY DEF Orderly
<1>9. IviTx' = IviTx
  BY <1>0 DEF IviTx
<1> HIDE DEF IviTx, Orderly, TasksInv
<1>10. BelowInv'
  <2> SUFFICES ASSUME lapses' = {}, NEW p \in sent
               PROVE  \/ p[1] < IviTx
                      \/ /\ p[1] = IviTx /\ p[2] < seq'
                         /\ \A u \in Tasks : pc'[u] # "idle" => p[2] # stamp[u]
    BY <1>0, <1>9 DEF BelowInv
  <2>1. \/ p[1] < IviTx
        \/ p[1] = IviTx /\ p[2] < seq /\ \A u \in Tasks : pc[u] # "idle" => p[2] # stamp[u]
    BY <1>2, <1>3, <1>8 DEF SeqInv, BelowInv
  <2>2. seq' = seq + 1
    BY <1>3, <1>8
  <2> QED BY <1>0, <1>1, <1>n, <2>1, <2>2
<1>11. TrackInv'
  <2> SUFFICES ASSUME lapses' = {}, IviTx = 0 PROVE TrackInv'
    BY <1>9 DEF TrackInv
  <2>1. stamp[t] = seq /\ seq' = seq + 1 /\ power = "prov"
    BY <1>3, <1>8
  <2>2. ~SavePending(t)
    BY <1>0 DEF SavePending
  <2>3. Base = seq /\ Base' = IF SaveDue(seq + 1) THEN seq ELSE seq + 1
    BY <1>4, <1>5, <1>8, <1>n, <2>1, <2>2 DEF Base
  <2> HIDE DEF Base
  <2>4. \/ seq = 0 /\ sent = {}
        \/ kvSeq # None /\ \A m \in (kvSeq + 1) .. seq : m % Interval # 0
    BY <1>2, <2>1, <2>3 DEF SeqInv, TrackInv
  <2>5. CASE SaveDue(seq + 1)
    BY <1>0, <2>3, <2>4, <2>5 DEF TrackInv
  <2>6. CASE ~SaveDue(seq + 1)
    <3>1. seq # 0 /\ (seq + 1) % Interval # 0
      BY <1>n, <2>6, SeqAssumption DEF SaveDue
    <3>2. kvSeq # None /\ \A m \in (kvSeq + 1) .. seq : m % Interval # 0
      BY <2>4, <3>1
    <3>3. kvSeq \in Nat
      BY <1>t, <3>2, SeqAssumption DEF TypeOK, Seqs
    <3>4. \A m \in (kvSeq + 1) .. (seq + 1) : m \in (kvSeq + 1) .. seq \/ m = seq + 1
      BY <1>n, <3>3
    <3>5. \A m \in (kvSeq + 1) .. (seq + 1) : m % Interval # 0
      BY <3>1, <3>2, <3>4
    <3> QED BY <1>0, <2>3, <2>6, <3>2, <3>5 DEF TrackInv
  <2> QED BY <2>5, <2>6
<1>12. OffInv' /\ SentNat' /\ NonceFresh'
  BY <1>0, <1>2 DEF SeqInv, OffInv, SentNat, NonceFresh
<1> QED BY <1>7, <1>10, <1>11, <1>12 DEF SeqInv

\* A due save brings the record up to the counter; skipping one that is not
\* due leaves nothing pending.
LEMMA SeqUpdateStep ==
    ASSUME SeqInv, TypeOK', NEW t \in Tasks, SeqUpdate(t)
    PROVE  SeqInv'
<1>0. /\ pc[t] = "stamped" /\ pc' = [pc EXCEPT ![t] = "saved"]
      /\ UNCHANGED <<power, seq, iv, ivu, aged, kvNode, stamp, sent, reused>>
  BY DEF SeqUpdate, mesh
<1>t. TypeOK /\ RunInv
  BY DEF SeqInv
<1>n. seq \in Nat /\ IviTx \in Nat /\ \A u \in Tasks : stamp[u] \in Nat
  BY Numbers
<1>1. pc'[t] = "saved" /\ \A u \in Tasks \ {t} : pc'[u] = pc[u]
  BY <1>0, <1>t DEF TypeOK
<1>2. (lapses' = {} => lapses = {}) /\ (Orderly' => Orderly)
  BY DEF SeqUpdate, Orderly
<1>3. ~SavePending(t)' /\ \A u \in Tasks \ {t} : SavePending(u)' = SavePending(u)
  BY <1>0, <1>1 DEF SavePending
<1>4. \A u \in Tasks : Unfinished(u)' => Unfinished(u)
  BY <1>1, <1>3 DEF Unfinished
<1>5. ASSUME Orderly' PROVE TasksInv /\ TasksInv' /\ power = "prov"
  <2>1. TasksInv /\ power = "prov"
    BY <1>0, <1>2, <1>5, <1>t DEF RunInv
  <2>2. \A u, v \in Tasks : u # v /\ pc'[u] # "idle" /\ pc'[v] # "idle" => stamp[u] # stamp[v]
    BY <1>0, <1>1, <2>1 DEF TasksInv
  <2>3. \A u \in Tasks : /\ pc'[u] = "loaded" => pc[u] = "loaded"
                         /\ pc'[u] \in {"stamped", "saved"} => pc[u] \in {"stamped", "saved"}
                         /\ SavePending(u)' => SavePending(u)
    BY <1>0, <1>1, <1>3
  <2> QED BY <1>0, <1>4, <2>1, <2>2, <2>3 DEF TasksInv
<1>6. IviTx' = IviTx
  BY <1>0 DEF IviTx
<1>7. RunInv'
  <2> HIDE DEF Orderly, TasksInv
  <2> QED BY <1>0, <1>5, <1>t DEF RunInv
<1>8. lapses' = {} => Orderly'
  BY DEF Orderly
<1> HIDE DEF IviTx, Orderly
<1>9. BelowInv'
  <2>1. \A u \in Tasks : pc'[u] # "idle" => pc[u] # "idle"
    BY <1>0, <1>1
  <2> QED BY <1>0, <1>2, <1>6, <2>1 DEF SeqInv, BelowInv
<1>10. TrackInv'
  <2> SUFFICES ASSUME lapses' = {}, IviTx = 0 PROVE TrackInv'
    BY <1>6 DEF TrackInv
  <2>1. CASE SaveDue(seq)
    <3>1. kvSeq' = Record(seq)
      BY <2>1 DEF SeqUpdate
    <3>2. seq < SeqMod
      BY <1>t, SeqAssumption DEF TypeOK, Seqs
    <3>3. kvSeq' = seq /\ kvSeq' # None
      BY <1>n, <3>1, <3>2, RecordInField, SeqAssumption
    <3>4. Base' \in Int /\ Base' <= seq
      BY <1>0, <1>n DEF Base
    <3> HIDE DEF Base
    <3>5. \A m \in (kvSeq' + 1) .. Base' : FALSE
      BY <1>n, <3>3, <3>4
    <3> QED BY <3>3, <3>5 DEF TrackInv
  <2>2. CASE ~SaveDue(seq)
    <3>1. kvSeq' = kvSeq /\ sent' = sent /\ lapses = {}
      BY <1>2, <2>2 DEF SeqUpdate
    <3>2. ~SavePending(t)
      <4>1. SavePending(t) => stamp[t] + 1 = seq
        BY <1>5, <1>8 DEF TasksInv
      <4> QED BY <2>2, <4>1 DEF SavePending
    <3>3. Base' = Base
      BY <1>0, <1>3, <3>2 DEF Base
    <3> HIDE DEF Base
    <3>4. power = "prov"
      BY <1>5, <1>8
    <3> QED BY <3>1, <3>3, <3>4 DEF SeqInv, TrackInv
  <2> QED BY <2>1, <2>2
<1>11. OffInv' /\ SentNat' /\ NonceFresh'
  <2>1. lapses' = {} => power = "prov"
    BY <1>5, <1>8
  <2> QED BY <1>0, <1>2, <2>1 DEF SeqInv, OffInv, SentNat, NonceFresh
<1> QED BY <1>7, <1>9, <1>10, <1>11 DEF SeqInv

\* The PDU that goes out has a number no PDU of this IV Index has had.
LEMMA TransmitStep ==
    ASSUME SeqInv, TypeOK', NEW t \in Tasks, NEW resend \in BOOLEAN, Transmit(t, resend)
    PROVE  SeqInv'
<1> DEFINE n == <<IviTx, stamp[t]>>
<1>0. /\ pc[t] = "saved" /\ pc' = [pc EXCEPT ![t] = "idle"] /\ sent' = sent \cup {n}
      /\ reused' = (reused \/ n \in sent)
      /\ UNCHANGED <<power, kvSeq, kvNode, stamp, lapses>>
  BY DEF Transmit
<1>t. TypeOK /\ RunInv
  BY DEF SeqInv
<1>n. /\ iv \in Nat /\ seq \in Nat /\ IviTx \in Nat /\ \A u \in Tasks : stamp[u] \in Nat
      /\ \A p \in sent : p[1] \in Int /\ p[2] \in Nat
  BY Numbers
<1>1. pc'[t] = "idle" /\ \A u \in Tasks \ {t} : pc'[u] = pc[u]
  BY <1>0, <1>t DEF TypeOK
<1>2. /\ ivu' => iv' > 0
      /\ power # "prov" => iv' = 0 /\ ~ivu' /\ ~aged'
      /\ IviTx' = IviTx /\ seq' = seq
  <2>1. CASE UNCHANGED mesh
    BY <1>t, <2>1 DEF mesh, IviTx, RunInv
  <2>2. CASE ~ivu /\ IvUpdate(iv + 1, TRUE, FALSE)
    <3>1. ~IvRecovery(iv + 1, TRUE) /\ ~IvLeave(iv + 1, TRUE, FALSE)
      BY <1>n DEF IvRecovery, IvLeave
    <3>2. CASE IvEnter(iv + 1, TRUE) /\ iv' = iv + 1 /\ ivu' = TRUE /\ seq' = seq
      BY <1>n, <1>t, <2>2, <3>2 DEF IviTx, IvEnter, RunInv
    <3> QED BY <2>1, <2>2, <3>1, <3>2 DEF IvUpdate
  <2> QED BY <2>1, <2>2, Zenon DEF Transmit
<1>3. \A u \in Tasks : SavePending(u)' = SavePending(u) /\ (Unfinished(u)' => Unfinished(u))
  BY <1>0, <1>1 DEF SavePending, Unfinished
<1>4. Base' = Base /\ Orderly' = Orderly
  BY <1>0, <1>2, <1>3 DEF Base, Orderly
<1>5. TasksInv => TasksInv'
  <2> SUFFICES ASSUME TasksInv PROVE TasksInv'
    OBVIOUS
  <2>1. \A u \in Tasks : pc'[u] # "idle" => pc'[u] = pc[u]
    BY <1>1
  <2> QED BY <1>0, <1>2, <1>3, <2>1 DEF TasksInv
<1>6. lapses = {} => Orderly
  BY DEF Orderly
<1>7. n[1] = IviTx /\ n[2] = stamp[t]
  OBVIOUS
<1> HIDE DEF n, IviTx, Orderly
<1>8. ASSUME lapses = {}
      PROVE  /\ TasksInv /\ power = "prov" /\ stamp[t] < seq
             /\ \A u \in Tasks \ {t} : pc[u] # "idle" => stamp[u] # stamp[t]
  <2>1. TasksInv /\ power = "prov"
    BY <1>0, <1>6, <1>8, <1>t DEF RunInv
  <2> QED BY <1>0, <2>1 DEF TasksInv
<1>9. RunInv'
  <2>1. ASSUME Orderly, power # "prov" PROVE \A u \in Tasks : pc'[u] = "idle"
    BY <1>1, <1>t, <2>1 DEF RunInv
  <2> HIDE DEF TasksInv
  <2> QED BY <1>0, <1>2, <1>4, <1>5, <1>t, <2>1 DEF RunInv
<1>10. BelowInv'
  <2> SUFFICES ASSUME lapses = {}, NEW p \in sent'
               PROVE  \/ p[1] < IviTx
                      \/ /\ p[1] = IviTx /\ p[2] < seq
                         /\ \A u \in Tasks : pc'[u] # "idle" => p[2] # stamp[u]
    BY <1>0, <1>2 DEF BelowInv
  <2>1. CASE p \in sent
    BY <1>1, <1>8, <2>1 DEF SeqInv, BelowInv
  <2>2. CASE p = n
    BY <1>1, <1>7, <1>8, <2>2
  <2> QED BY <1>0, <2>1, <2>2
<1>11. TrackInv'
  <2> SUFFICES ASSUME lapses = {}, IviTx = 0 PROVE TrackInv'
    BY <1>0, <1>2 DEF TrackInv
  <2>1. Base # 0
    <3>1. CASE \E u \in Tasks : SavePending(u)
      <4>1. PICK u \in Tasks : SavePending(u)
        BY <3>1
      <4>2. pc[u] = "stamped" /\ u # t
        BY <1>0, <4>1 DEF SavePending
      <4>3. stamp[u] + 1 = seq /\ stamp[u] # stamp[t]
        BY <1>8, <4>1, <4>2 DEF TasksInv
      <4>4. seq - 1 # 0
        BY <1>8, <1>n, <4>3
      <4> QED BY <3>1, <4>4 DEF Base
    <3>2. CASE ~ \E u \in Tasks : SavePending(u)
      BY <1>8, <1>n, <3>2 DEF Base
    <3> QED BY <3>1, <3>2
  <2> HIDE DEF Base
  <2> QED BY <1>0, <1>4, <1>8, <2>1 DEF SeqInv, TrackInv
<1>12. NonceFresh'
  <2> SUFFICES ASSUME lapses = {}, n \in sent PROVE FALSE
    BY <1>0, Zenon DEF SeqInv, NonceFresh
  <2>1. n[1] < IviTx \/ n[2] # stamp[t]
    BY <1>0, <1>8 DEF SeqInv, BelowInv
  <2> QED BY <1>7, <1>n, <2>1
<1>13. OffInv' /\ SentNat'
  BY <1>0, <1>7, <1>8, <1>n DEF SeqInv, OffInv, SentNat
<1> QED BY <1>9, <1>10, <1>11, <1>12, <1>13 DEF SeqInv

\* No step of any task moves a nonce back, whatever the power losses.
LEMMA SeqStep ==
    ASSUME SeqInv, [Next]_vars
    PROVE  SeqInv'
<1>0. TypeOK /\ TypeOK' /\ (ivu => iv > 0)
  BY TypeStep DEF SeqInv, RunInv
<1>1. CASE Boot
  BY <1>0, <1>1, BootStep
<1>2. CASE PowerLoss
  BY <1>0, <1>2, PowerLossStep
<1>3. CASE Age
  BY <1>0, <1>3, StutterStep DEF Age
<1>4. ASSUME NEW t \in Tasks, StoreKeys(t) PROVE SeqInv'
  BY <1>0, <1>4, StutterStep DEF StoreKeys, mesh
<1>5. ASSUME NEW t \in Tasks, Reset(t) PROVE SeqInv'
  BY <1>0, <1>5, ResetStep
<1>6. ASSUME NEW t \in Tasks, IvuComplete(t) PROVE SeqInv'
  <2>1. PICK busy \in BOOLEAN : IvUpdate(iv, FALSE, busy)
    BY <1>6, Zenon DEF IvuComplete
  <2>2. iv \in Ivs
    BY <1>0 DEF TypeOK
  <2>3. /\ ivu' => iv' > 0
        /\ \/ IviTx' = IviTx /\ seq' = seq
           \/ IviTx' > IviTx
    BY <1>0, <2>1, <2>2, IvStep, Zenon
  <2> HIDE DEF IviTx
  <2> QED BY <1>0, <1>6, <2>3, IvMoves DEF IvuComplete
<1>7. ASSUME NEW t \in Tasks, Stamp(t) PROVE SeqInv'
  BY <1>0, <1>7, StampStep
<1>8. ASSUME NEW t \in Tasks, Increment(t) PROVE SeqInv'
  BY <1>0, <1>8, IncrementStep
<1>9. ASSUME NEW t \in Tasks, SeqUpdate(t) PROVE SeqInv'
  BY <1>0, <1>9, SeqUpdateStep
<1>10. ASSUME NEW t \in Tasks, NEW i \in Ivs, NEW u \in BOOLEAN, Provision(t, i, u)
       PROVE SeqInv'
  BY <1>0, <1>10, ProvisionStep
<1>11. ASSUME NEW t \in Tasks, NEW i \in Ivs, NEW u \in BOOLEAN, SecureBeacon(t, i, u)
       PROVE SeqInv'
  <2>1. PICK busy \in BOOLEAN : IvUpdate(i, u, busy)
    BY <1>11 DEF SecureBeacon
  <2>2. u => i > 0
    BY <1>11 DEF SecureBeacon
  <2>3. /\ ivu' => iv' > 0
        /\ \/ IviTx' = IviTx /\ seq' = seq
           \/ IviTx' > IviTx
    BY <1>0, <2>1, <2>2, IvStep
  <2> HIDE DEF IviTx
  <2> QED BY <1>0, <1>11, <2>3, IvMoves DEF SecureBeacon
<1>12. ASSUME NEW t \in Tasks, NEW resend \in BOOLEAN, Transmit(t, resend)
       PROVE SeqInv'
  BY <1>0, <1>12, TransmitStep
<1>13. CASE UNCHANGED vars
  BY <1>0, <1>13, StutterStep DEF vars
<1> QED
  BY <1>1, <1>2, <1>3, <1>4, <1>5, <1>6, <1>7, <1>8, <1>9, <1>10, <1>11, <1>12, <1>13
  DEF Next

\* The counter starts in order.
LEMMA SeqInit == Init => SeqInv
<1> SUFFICES ASSUME Init PROVE SeqInv
  OBVIOUS
<1>1. TypeOK
  BY ZeroInField, Zenon DEF Init, TypeOK, Lapses
<1>2. \A t \in Tasks : pc[t] = "idle"
  BY DEF Init
<1>3. RunInv
  BY <1>2, AllIdle DEF Init, RunInv
<1>4. BelowInv /\ TrackInv /\ OffInv /\ SentNat /\ NonceFresh
  BY DEF Init, BelowInv, TrackInv, OffInv, SentNat, NonceFresh
<1> QED BY <1>1, <1>3, <1>4 DEF SeqInv

\* No nonce twice: with any set of sending tasks in any interleaving, whatever
\* the power losses, resets, provisionings and IV updates, and for every save
\* interval and counter width, bt_mesh_net_encode never reuses a sequence
\* number under an IV Index until one of the lapses happens (the counter wraps,
\* a save fails, the IV Index is lost at power-off, or a task stamps or
\* restarts the number while another is unfinished); and until then the
\* record is always close enough for genie_storage_read_seq to resume above
\* every number used.
THEOREM NonceFreshSafe == Spec => [](NonceFresh /\ ResumesAbove)
<1>1. SeqInv /\ [Next]_vars => SeqInv'
  BY SeqStep
<1>2. SeqInv => NonceFresh /\ ResumesAbove
  <2> SUFFICES ASSUME SeqInv, lapses = {}, kvNode = "full", power = "prov" => IviTx = 0,
                      NEW p \in sent, p[1] = 0
               PROVE  kvSeq # None /\ p[2] < kvSeq + Interval
    BY DEF SeqInv, ResumesAbove
  <2>1. CASE power # "prov"
    BY <2>1 DEF SeqInv, OffInv
  <2>2. CASE power = "prov"
    BY <2>2, RunningCovered
  <2> QED BY <2>1, <2>2
<1> QED BY <1>1, <1>2, SeqInit, PTL DEF Spec
-----------------------------------------------------------------------------
\* One step of a running node in which no lapse but a failed save or a lost
\* IV Index has happened: the transmit IV Index grows, or it stays and so
\* does the counter or it grows.
LEMMA MonotoneStep ==
    ASSUME SeqInv, Next, power = "prov", power' = "prov", Orderly'
    PROVE  IviTx' > IviTx \/ (IviTx' = IviTx /\ seq' >= seq)
<1>0. TypeOK /\ (ivu => iv > 0) /\ seq \in Nat /\ iv \in Ivs
  BY Numbers DEF SeqInv, RunInv, TypeOK
<1>1. ASSUME UNCHANGED <<seq, iv, ivu>>
      PROVE  IviTx' > IviTx \/ (IviTx' = IviTx /\ seq' >= seq)
  BY <1>0, <1>1 DEF IviTx
<1>2. ASSUME IviTx' > IviTx \/ (IviTx' = IviTx /\ seq' = seq)
      PROVE  IviTx' > IviTx \/ (IviTx' = IviTx /\ seq' >= seq)
  BY <1>0, <1>2
<1>3. CASE Boot \/ PowerLoss
  BY <1>3 DEF Boot, PowerLoss
<1>4. CASE Age
  BY <1>1, <1>4 DEF Age
<1>5. ASSUME NEW t \in Tasks, StoreKeys(t) \/ Stamp(t) \/ SeqUpdate(t)
      PROVE  IviTx' > IviTx \/ (IviTx' = IviTx /\ seq' >= seq)
  <2>1. UNCHANGED <<seq, iv, ivu>>
    BY <1>5 DEF StoreKeys, Stamp, SeqUpdate, mesh
  <2> QED BY <1>1, <2>1
<1>6. ASSUME NEW t \in Tasks, Reset(t) PROVE FALSE
  BY <1>6 DEF Reset
<1>7. ASSUME NEW t \in Tasks, IvuComplete(t)
      PROVE  IviTx' > IviTx \/ (IviTx' = IviTx /\ seq' = seq)
  <2>1. PICK busy \in BOOLEAN : IvUpdate(iv, FALSE, busy)
    BY <1>7, Zenon DEF IvuComplete
  <2> QED BY <1>0, <2>1, IvStep, Zenon
<1>8. ASSUME NEW t \in Tasks, Increment(t)
      PROVE  IviTx' = IviTx /\ seq' >= seq
  <2>1. Orderly /\ stamp[t] + 1 # SeqMod
    BY <1>8 DEF Increment, Orderly
  <2>2. stamp[t] = seq
    BY <1>8, <2>1 DEF SeqInv, RunInv, TasksInv, Increment
  <2>3. seq + 1 < SeqMod
    BY <1>0, <2>1, <2>2, SeqAssumption DEF TypeOK, Seqs
  <2>4. seq' = seq + 1
    BY <1>0, <1>8, <2>2, <2>3, RecordInField DEF Increment, Record
  <2>5. IviTx' = IviTx
    BY <1>8 DEF Increment, IviTx
  <2> QED BY <1>0, <2>4, <2>5
<1>9. ASSUME NEW t \in Tasks, NEW i \in Ivs, NEW u \in BOOLEAN, Provision(t, i, u)
      PROVE  FALSE
  BY <1>9 DEF Provision
<1>10. ASSUME NEW t \in Tasks, NEW i \in Ivs, NEW u \in BOOLEAN, SecureBeacon(t, i, u)
       PROVE  IviTx' > IviTx \/ (IviTx' = IviTx /\ seq' = seq)
  <2>1. PICK busy \in BOOLEAN : IvUpdate(i, u, busy)
    BY <1>10 DEF SecureBeacon
  <2>2. u => i > 0
    BY <1>10 DEF SecureBeacon
  <2> QED BY <1>0, <2>1, <2>2, IvStep
<1>11. ASSUME NEW t \in Tasks, NEW resend \in BOOLEAN, Transmit(t, resend)
       PROVE  IviTx' > IviTx \/ (IviTx' = IviTx /\ seq' = seq)
  <2>1. CASE UNCHANGED mesh
    BY <2>1 DEF mesh, IviTx
  <2>2. CASE iv < MaxIv /\ IvUpdate(iv + 1, TRUE, FALSE)
    <3>1. iv + 1 \in Ivs /\ iv + 1 > 0
      BY <1>0, <2>2, SeqAssumption DEF Ivs
    <3> QED BY <1>0, <2>2, <3>1, IvStep, Zenon
  <2> QED BY <1>11, <2>1, <2>2, Zenon DEF Transmit
<1> HIDE DEF IviTx
<1> QED
  BY <1>2, <1>3, <1>4, <1>5, <1>6, <1>7, <1>8, <1>9, <1>10, <1>11 DEF Next

\* A running node never goes back to an older nonce: bt_mesh_net_encode's
\* increments and bt_mesh_net_iv_update's resets of the number only ever move
\* (IV Index, number) up, for any set of tasks, until the number wraps or two
\* senders overlap.
THEOREM NonceNeverBack == Spec => NonceMonotone
<1>1. SeqInv /\ [Next]_vars => SeqInv'
  BY SeqStep
<1>2. SeqInv /\ [Next]_vars =>
        [power = "prov" /\ power' = "prov" /\ lapses' \subseteq {"save", "iv"}
            => \/ IviTx' > IviTx
               \/ IviTx' = IviTx /\ seq' >= seq]_vars
  BY MonotoneStep DEF Orderly
<1> QED BY <1>1, <1>2, SeqInit, PTL DEF Spec, NonceMonotone
=============================================================================
