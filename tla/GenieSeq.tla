------------------------------ MODULE GenieSeq ------------------------------
(***************************************************************************)
(* The mesh sequence number across power cycles.  bt_mesh/src/net.c stamps *)
(* every outgoing network PDU with bt_mesh.seq and the IV Index; the pair  *)
(* is the nonce of the PDU.  genie_event.c/genie_storage.c save the number *)
(* to the KV store only at 1, 2, 3 and at multiples of the save interval,  *)
(* and genie_storage_read_seq skips a whole interval at boot.  The IV      *)
(* Index itself is stored as 0 (genie_event.c clears the netkey record)    *)
(* and never updated, because no code raises GENIE_EVT_SDK_IVI_UPDATE.     *)
(*                                                                         *)
(* Several tasks send: the Bluetooth work queue (replies), the kernel      *)
(* timer task (retransmissions) and the application.  bt_mesh.seq++ in     *)
(* bt_mesh_net_encode takes no lock, so its load and store are two steps,  *)
(* and the save and the encryption that follow are steps of their own.     *)
(***************************************************************************)
EXTENDS Integers, FiniteSets

CONSTANTS
    Tasks,      \* tasks that call bt_mesh_net_send / bt_mesh_net_resend
    Interval,   \* GENIE_SEQ_SAVE_INTERVAL (100)
    EarlySave,  \* numbers up to this one are saved too (0x03)
    SeqMod,     \* size of the 24-bit field bt_mesh.seq
    SeqLimit,   \* IV_UPDATE_SEQ_LIMIT
    MaxIv,      \* bound: the largest IV Index the network reaches
    None        \* the KV store holds no record

ASSUME SeqAssumption ==
    /\ Interval \in Nat \ {0}
    /\ EarlySave \in Nat \ {0}
    /\ SeqMod \in Nat /\ SeqMod > EarlySave + 1
    /\ SeqLimit \in Nat
    /\ MaxIv \in Nat
    /\ None \notin Nat

VARIABLES
    power,   \* "off", "unprov" (running, no network) or "prov"
    seq,     \* bt_mesh.seq
    iv,      \* bt_mesh.iv_index
    ivu,     \* bt_mesh.iv_update
    aged,    \* 96 hours have passed since bt_mesh.last_update
    kvSeq,   \* the GENIE_KV_SEQ_KEY record
    kvNode,  \* which network records are stored: "none", "addr" or "full"
    pc,      \* where each task is in bt_mesh_net_encode
    stamp,   \* the sequence number it wrote into its PDU
    sent,    \* history: nonces transmitted in this network
    reused,  \* history: a nonce was transmitted twice
    lapses   \* history: which assumption of the scheme has been broken

mesh == <<seq, iv, ivu, aged>>
vars == <<power, seq, iv, ivu, aged, kvSeq, kvNode, pc, stamp, sent, reused, lapses>>

Seqs == 0 .. SeqMod - 1
Ivs  == 0 .. MaxIv

\* The ways the scheme can lose track: the 24-bit number wrapped around,
\* aos_kv_set failed (no caller looks at its result), power was lost while
\* the node was sending under an IV Index other than the stored 0, a task
\* stamped a PDU before another had stored its increment or made a save that
\* was due ("race"), or the number started again from 0 while another task
\* had a PDU half built ("restart").
Lapses == {"wrap", "save", "iv", "race", "restart"}

\* BT_MESH_NET_IVI_TX
IviTx == IF ivu THEN iv - 1 ELSE iv

Init ==
    /\ power = "off"
    /\ seq = 0 /\ iv = 0 /\ ivu = FALSE /\ aged = FALSE
    /\ kvSeq = None /\ kvNode = "none"
    /\ pc = [t \in Tasks |-> "idle"]
    /\ stamp = [t \in Tasks |-> 0]
    /\ sent = {} /\ reused = FALSE /\ lapses = {}
-----------------------------------------------------------------------------
\* What genie_storage_write_seq leaves in the record: the low 24 bits.
Record_NoMask(s) == s
Record(s) == s % SeqMod

\* genie_storage_write_seq without force skips most numbers; the event
\* handler forces the write of 0.
SaveDue_NoInterval(s) == s <= EarlySave
SaveDue(s) == s <= EarlySave \/ s % Interval = 0

\* Boot: genie_provision_get_saved_data reads the address first, then the
\* sequence number, which genie_storage_read_seq advances by an interval and
\* writes back (nothing looks at whether that succeeds), then the keys.  With
\* all of them bt_mesh_provision resumes from the stored IV Index 0; otherwise
\* the node waits for a provisioner.
\* A missing number leaves seq_read uninitialized: when its top byte happens
\* to be the magic number, 24 bits of rubbish are written back.
BootSeq_NoSkip(s) == s
BootSeq(s) == s + Interval

ReadSeq ==
    IF kvNode = "none" THEN UNCHANGED <<kvSeq, lapses>>
    ELSE IF kvSeq = None THEN kvSeq' \in Seqs \cup {None} /\ UNCHANGED lapses
    ELSE \/ /\ kvSeq' = Record(BootSeq(kvSeq))
            /\ lapses' = IF BootSeq(kvSeq) >= SeqMod THEN lapses \cup {"wrap"} ELSE lapses
         \/ /\ UNCHANGED kvSeq
            /\ lapses' = lapses \cup {"save"}

Boot ==
    /\ power = "off"
    /\ ReadSeq
    /\ IF kvNode = "full" /\ kvSeq # None
       THEN power' = "prov" /\ seq' = Record(BootSeq(kvSeq))
       ELSE power' = "unprov" /\ seq' = 0
    /\ UNCHANGED <<iv, ivu, aged, kvNode, pc, stamp, sent, reused>>

\* Power loss: RAM is gone, and so are the PDUs that were being built.
PowerLoss ==
    /\ power # "off"
    /\ power' = "off"
    /\ seq' = 0 /\ iv' = 0 /\ ivu' = FALSE /\ aged' = FALSE
    /\ pc' = [t \in Tasks |-> "idle"]
    /\ stamp' = [t \in Tasks |-> 0]
    /\ lapses' = IF power = "prov" /\ IviTx # 0 THEN lapses \cup {"iv"} ELSE lapses
    /\ UNCHANGED <<kvSeq, kvNode, sent, reused>>

\* The number starts again: a PDU another task has stamped but not encrypted
\* goes out under an IV Index its number was not counted for.
Restart(t) == IF \E u \in Tasks \ {t} : pc[u] # "idle" THEN {"restart"} ELSE {}

\* prov_data: a provisioner hands over the address, the IV Index and flags of
\* its network.  The address is stored and bt_mesh_provision starts at number
\* 0.  The network has new keys, so none of its nonces has been used.
Provision(t, i, u) ==
    /\ power = "unprov" /\ pc[t] = "idle"
    /\ u => i > 0
    /\ power' = "prov"
    /\ seq' = 0 /\ iv' = i /\ ivu' = u /\ aged' = FALSE
    /\ sent' = {} /\ reused' = FALSE /\ lapses' = Restart(t)
    /\ kvNode' = IF kvNode = "none" THEN "addr" ELSE kvNode
    /\ UNCHANGED <<kvSeq, pc, stamp>>

\* _genie_event_handle_appkey_add stores the keys (with IV Index 0).
StoreKeys(t) ==
    /\ power = "prov" /\ pc[t] = "idle" /\ kvNode = "addr"
    /\ kvNode' = "full"
    /\ UNCHANGED <<power, mesh, kvSeq, pc, stamp, sent, reused, lapses>>

\* genie_reset_provision: bt_mesh_reset (nothing to do on a node without a
\* network) and genie_storage_reset_system.
Reset(t) ==
    /\ power # "off" /\ pc[t] = "idle"
    /\ power' = "unprov"
    /\ seq' = 0 /\ iv' = 0 /\ ivu' = FALSE /\ aged' = FALSE
    /\ kvSeq' = None /\ kvNode' = "none"
    /\ lapses' = lapses \cup Restart(t)
    /\ UNCHANGED <<pc, stamp, sent, reused>>
-----------------------------------------------------------------------------
\* bt_mesh_net_iv_update(i, u): the four ways it ends.  busy is
\* bt_mesh_tx_in_progress().
IvRecovery(i, u) == ~ivu /\ i <= iv + 42 /\ (i > iv + 1 \/ (i = iv + 1 /\ ~u))
IvEnter(i, u)    == ~ivu /\ i = iv + 1 /\ u /\ aged
IvLeave(i, u, busy) == ivu /\ i = iv /\ ~u /\ aged /\ ~busy

IvUpdate_ResetOnEnter(i, u, busy) ==
    IF IvRecovery(i, u) \/ IvEnter(i, u) \/ IvLeave(i, u, busy)
    THEN iv' = i /\ ivu' = u /\ aged' = FALSE /\ seq' = 0
    ELSE UNCHANGED mesh

IvUpdate(i, u, busy) ==
    IF IvRecovery(i, u) \/ IvEnter(i, u) \/ IvLeave(i, u, busy)
    THEN /\ iv' = i /\ ivu' = u /\ aged' = FALSE
         /\ seq' = IF IvEnter(i, u) THEN seq ELSE 0
    ELSE UNCHANGED mesh

\* secure_beacon_recv: an authenticated Secure Network beacon arrives.
SecureBeacon(t, i, u) ==
    /\ power = "prov" /\ pc[t] = "idle"
    /\ u => i > 0
    /\ \E busy \in BOOLEAN : IvUpdate(i, u, busy)
    /\ lapses' = IF IviTx' = IviTx THEN lapses ELSE lapses \cup Restart(t)
    /\ UNCHANGED <<power, kvSeq, kvNode, pc, stamp, sent, reused>>

\* The ivu_complete work, or the update seg_tx_reset had to defer.
IvuComplete(t) ==
    /\ power = "prov" /\ pc[t] = "idle" /\ ivu /\ aged
    /\ \E busy \in BOOLEAN : IvUpdate(iv, FALSE, busy)
    /\ lapses' = IF IviTx' = IviTx THEN lapses ELSE lapses \cup Restart(t)
    /\ UNCHANGED <<power, kvSeq, kvNode, pc, stamp, sent, reused>>

\* 96 hours pass.
Age ==
    /\ power = "prov" /\ ~aged
    /\ aged' = TRUE
    /\ UNCHANGED <<power, seq, iv, ivu, kvSeq, kvNode, pc, stamp, sent, reused, lapses>>
-----------------------------------------------------------------------------
\* A task that has yet to save a number that is due, or to store its increment.
SavePending(t) == pc[t] = "stamped" /\ SaveDue(stamp[t] + 1)
Unfinished(t)  == pc[t] = "loaded" \/ SavePending(t)

\* bt_mesh_net_encode, first half: the PDU's three sequence bytes are read
\* from bt_mesh.seq.
Stamp(t) ==
    /\ power = "prov" /\ pc[t] = "idle"
    /\ pc' = [pc EXCEPT ![t] = "loaded"]
    /\ stamp' = [stamp EXCEPT ![t] = seq]
    /\ lapses' = IF \E u \in Tasks \ {t} : Unfinished(u) THEN lapses \cup {"race"} ELSE lapses
    /\ UNCHANGED <<power, mesh, kvSeq, kvNode, sent, reused>>

\* ... and the incremented value is stored back into the 24-bit field.
Increment(t) ==
    /\ power # "off" /\ pc[t] = "loaded"
    /\ pc' = [pc EXCEPT ![t] = "stamped"]
    /\ seq' = (stamp[t] + 1) % SeqMod
    /\ lapses' = IF stamp[t] + 1 = SeqMod THEN lapses \cup {"wrap"} ELSE lapses
    /\ UNCHANGED <<power, iv, ivu, aged, kvSeq, kvNode, stamp, sent, reused>>

\* GENIE_EVT_SDK_SEQ_UPDATE: the number is saved when it is due.  The result
\* of aos_kv_set is not looked at.
SeqUpdate(t) ==
    /\ power # "off" /\ pc[t] = "stamped"
    /\ pc' = [pc EXCEPT ![t] = "saved"]
    /\ \/ /\ SaveDue(seq)
          /\ kvSeq' = Record(seq)
          /\ UNCHANGED lapses
       \/ /\ SaveDue(seq)
          /\ lapses' = lapses \cup {"save"}
          /\ UNCHANGED kvSeq
       \/ /\ ~SaveDue(seq)
          /\ UNCHANGED <<kvSeq, lapses>>
    /\ UNCHANGED <<power, mesh, kvNode, stamp, sent, reused>>

\* The PDU is encrypted under the current IV Index and goes out.
\* bt_mesh_net_resend then starts an IV update when the numbers run low.
Transmit(t, resend) ==
    /\ power # "off" /\ pc[t] = "saved"
    /\ pc' = [pc EXCEPT ![t] = "idle"]
    /\ sent' = sent \cup {<<IviTx, stamp[t]>>}
    /\ reused' = (reused \/ <<IviTx, stamp[t]>> \in sent)
    /\ IF resend /\ ~ivu /\ seq > SeqLimit /\ iv < MaxIv
       THEN IvUpdate(iv + 1, TRUE, FALSE)
       ELSE UNCHANGED mesh
    /\ UNCHANGED <<power, kvSeq, kvNode, stamp, lapses>>

Next ==
    \/ Boot \/ PowerLoss \/ Age
    \/ \E t \in Tasks :
          \/ StoreKeys(t) \/ Reset(t) \/ IvuComplete(t)
          \/ Stamp(t) \/ Increment(t) \/ SeqUpdate(t)
          \/ \E i \in Ivs, u \in BOOLEAN : Provision(t, i, u) \/ SecureBeacon(t, i, u)
          \/ \E resend \in BOOLEAN : Transmit(t, resend)

Spec == Init /\ [][Next]_vars
-----------------------------------------------------------------------------
TypeOK ==
    /\ power \in {"off", "unprov", "prov"}
    /\ seq \in Seqs /\ iv \in Ivs /\ ivu \in BOOLEAN /\ aged \in BOOLEAN
    /\ kvSeq \in Seqs \cup {None} /\ kvNode \in {"none", "addr", "full"}
    /\ pc \in [Tasks -> {"idle", "loaded", "stamped", "saved"}]
    /\ stamp \in [Tasks -> Seqs]
    /\ sent \subseteq Int \X Seqs
    /\ reused \in BOOLEAN
    /\ lapses \subseteq Lapses

\* No nonce is transmitted twice in one network, whatever the power losses and
\* however many tasks send: saving every Interval-th number and skipping an
\* interval at boot is enough, as long as none of the lapses has happened.
\* Of all interleavings of the senders only two kinds are excluded: stamping
\* before another task has stored or saved what is due (net.c:924), and
\* restarting the number under another task's half-built PDU (net.c:961).
NonceFresh == lapses = {} => ~reused

\* What the boot path relies on: while the node sends under the stored IV
\* Index, or is off, a power cycle now would resume above every number
\* already used under that IV Index.
ResumesAbove ==
    lapses = {} /\ kvNode = "full" /\ (power = "prov" => IviTx = 0) =>
        \A p \in sent : p[1] = 0 => kvSeq # None /\ p[2] < kvSeq + Interval

\* While it runs, a node never goes back to an older nonce: either the
\* transmit IV Index grows, or it stays and the number does not shrink.
\* (Only a reset, a power loss, a wrap-around or an overlap of two senders
\* ends the epoch; a failed save or a lost IV Index does not.)
NonceMonotone ==
    [][power = "prov" /\ power' = "prov" /\ lapses' \subseteq {"save", "iv"}
        => \/ IviTx' > IviTx
           \/ IviTx' = IviTx /\ seq' >= seq]_vars
=============================================================================
