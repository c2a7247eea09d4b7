# TLA+ models of the Genie Bluetooth mesh SDK

The code is `genie-bt-mesh-sdk-rel_1.3.4`: an SDK in C for devices (lamps, switches, …) that join the
Bluetooth mesh of a Tmall Genie speaker. It consists of the Genie service (`genie_service/`), a
Bluetooth mesh stack derived from Zephyr's (`network/bluetooth/bt_mesh`), a Bluetooth host, the AliOS
kernel *rhino* with a key-value store in flash (`kernel/rhino`), and example applications. The models
here state what these parts owe each other and their users: no nonce is used twice, no message is
forgotten, no repeat is acted on, a node that was provisioned stays so over a power cycle, what was
written to flash is there afterwards. Where the code cannot keep such a promise the model names the
event (a *lapse*) after which it is void. TLC checks the models on small instances; TLAPS proves the
first promise (until a lapse, for any set of sending tasks) and the third (until the clock wraps) for
every value of the constants.

In the tables below, paths are relative to `src/genie-bt-mesh-sdk-rel_1.3.4/`; `core/` stands for
`genie_service/core/src/` and `mesh/` for `network/bluetooth/bt_mesh/src/`.

## 1. Inventory

What runs concurrently: rhino is a preemptive kernel with fixed priorities on one core. The kernel
timer task (priority 5) runs all timer callbacks; the application (17), the Bluetooth advertising
(16), HCI and receive tasks (20, 21), the garbage collector of the key-value store (32) and the work
queue (41) come after it. Timer callbacks therefore interrupt everything else, and stop only at a
mutex, a semaphore or a wait for the controller. Power can be lost at any time, and switching the
power off and on quickly is even a user interface (it asks for a reset).

| Component | Code | State and operations | What is hard | Modelled by |
|---|---|---|---|---|
| Sequence number, IV Index | `mesh/net.c`, `mesh/beacon.c`, `core/genie_storage.c`, `core/genie_event.c` | 24-bit counter, IV Index and update flag, records in flash; stamp, increment, save, transmit, boot, IV update | saved only now and then; power loss; unlocked increment; IV Index not saved | `GenieSeq`, proofs in `GenieSeqProofs` |
| Vendor message transport | `core/genie_transport.c` | list of unconfirmed messages, mutex, one shared timer; send, confirm, resend | tests outside the lock; callback between any two steps; early returns with the lock held | `GenieTransport` |
| Duplicate filter | `core/genie_transport.c`, `core/genie_vendor_model.c` | ring of five accepted messages with time stamps | ring too short, clock wraps | `GenieDedup`, proofs in `GenieDedupProofs` |
| Node life cycle | `core/genie_event.c`, `genie_provision.c`, `genie_mesh.c`, `genie_reset.c`, `mesh/main.c` | provisioning state, five timers, stored credentials; link, keys, timeouts, resets, boot | timers of earlier sessions; power loss between writes; preemption of a handler | `GenieProvision` |
| Provisioning protocol | `mesh/prov.c` | link, expected PDU | (cryptographic exchange not modelled) | `GenieProvision`, in part |
| Configuration server | `mesh/cfg_srv.c` | application keys, Node Reset | order of answer and effect | `GenieProvision`, in part |
| Key-value store | `kernel/rhino/fs/kv/kvmgr.c` | two flash blocks, block states in RAM, collector task, semaphore | power loss at every write, recovery, lost wake-ups | `KvMgr`, promise in `KvStore` |
| Kernel timers, mutexes, semaphores | `kernel/rhino/core/k_timer.c`, `k_mutex.c`, `k_sem.c`, `bt_common/port/aos_port.c` | one-shot timers, recursive mutex, wake-all | timer stop and restart against a callback that waits | as their users see them, in the modules above |
| Genie time and timers | `core/genie_time.c` | local time, 40 timers | wrap and roll-over, loss at boot | planned |
| AIS connection, OTA | `core/genie_ais.c`, `genie_ota.c` | authentication state, firmware transfer | disconnection at any point | planned (only that a connection ends is modelled) |
| Low power | `core/genie_lpm.c` | sleep and wake-up timers | timer against message | planned |
| SIG models | `core/sig_models/*.c` | state, delay and transition of OnOff, Lightness, CTL, Scene | new command during a transition | planned |
| Lower transport, network layer | `mesh/transport.c`, `mesh/net.c`, `mesh/access.c` | segmentation, replay protection, message cache | lost, repeated and reordered segments | planned (what touches the sequence number is in `GenieSeq`) |
| Friend, low power node | `mesh/friend.c`, `mesh/lpn.c` | queue, polling | lost polls | planned |
| Proxy, advertising | `mesh/proxy.c`, `mesh/adv.c` | filter, reassembly | – | advertising is one variable of `GenieProvision` |

Cryptography, the Bluetooth host, drivers, consoles, identity and the example applications are not
modelled; `PROJECT.json` lists every part with the reason.

How the modelled parts meet: `GenieProvision` decides when the records that `GenieSeq` boots from are
written and wiped; both take one record as written atomically, which is what `KvStore` promises for one pair and
what `KvMgr` is shown to implement. The retransmissions of `GenieTransport` are among the tasks of `GenieSeq`
that stamp sequence numbers. `GenieDedup` is the receiving end of what another node's transport repeats.

## 2. Modules

**GenieSeq.** `seq`, `iv`, `ivu`, `aged` are the fields of `bt_mesh`; `kvSeq` and `kvNode` the records in
flash. Sending a PDU is four steps of a task (`Stamp`, `Increment`, `SeqUpdate`, `Transmit`), because
the code takes no lock and saves between them. `Boot` reads the record, adds an interval and writes it
back, which may fail like any other save; `SecureBeacon`, `IvuComplete` and a resend near the end of the range go through `IvUpdate`. `sent`
and `reused` record nonces. `lapses` names the events after which the code cannot keep its promise:

* "wrap": the 24 bits wrap;
* "save": a save fails (no caller looks at the result);
* "iv": power is lost while the node sends under an IV Index other than the stored 0;
* "race": a task reads the number while another one is between reading and storing it, or has yet to
  make a save that is due (`Unfinished`);
* "restart": the number is restarted, by an IV update, a reset or provisioning, while another task has a PDU half built.

All other interleavings of the senders are covered by the promises.

**GenieTransport.** `list` is `send_list`; `owner` and `nest` the recursive mutex; `started`, `tmr`, `cb` the
timer as `k_timer_is_started` sees it, as the kernel sees it, and its callback. A call of
`genie_transport_send_model` goes through up to ten steps per task (find, remove an old message of the same tid,
test for room, lock, append, test and start the timer, transmit), each interruptible by the callback. The
callback is one step because nothing that uses the list can run before it ends. The two returns that
keep the mutex locked (`RemoveOld`, `AppendFails`) are as in the code. A transmission may fail (`OnAir`):
the code only logs it, so a retry counts whether or not it went on the air. A message without a retry period, or one that is not to be confirmed, is not kept.

**GenieDedup.** `Receive` is `genie_transport_check_tid` and its use: a message is dropped if its source, tid and
element are in the ring and younger than the window. `clock` runs modulo `TimeMod` where the code
compares it.

**GenieProvision.** Two tasks, "bt" and "tt" (the timer task), with a program counter each; `kv` gives for
every stored record (address, first sequence number, device, network and app key) the session it is of, `creds` the same for RAM. A session is a provisioning link. The failure path
(`Reset`, `ResetLink`, `AdvStop`, `Wipe`, `Wiped`, `Enable`) is shared by both tasks, as in the code; between two deletions the power may be lost,
and where it waits for the controller the other task may run. `stale` holds timers that still run though
their handle was overwritten. `lapses` again names what the code does not survive: a wipe cut short,
a power loss before a pending reset, a reset flag left over from counting power cycles, a timeout that hits the handler
while it stores keys, a failed write, a node provisioned anew before its old records are wiped ("overwrite").
A reset is reported to the network only by a node that is in one.

**KvStore** is what the calls of `aos/kv.h` amount to: a call asks for pairs to hold, they take effect one by one (deleting everything is
not atomic), a call that returns success has established them and vouches for them until the next call on the same key,
one that returns an error has changed nothing, a call cut short
by power loss may take effect until the next start is complete, and nothing else changes the contents.
**KvMgr** is `kvmgr.c`: per block a header state and a sequence of items, each with key, value, state and
the place of the item it replaced. Every write that changes the flash is a step of its own, the mark on an item and the mark on its block, an erase and the new header included;
so power can be lost between any two, and in the middle of
an item (its CRC then fails). `kv_init` is a sequence of steps too: power may be lost during recovery. Callers
wait for the collector through `gc_trigger`, `gc_waiter` and `gc_sem` as in the code; the test of `gc_waiter` and the wake-up are two steps (`GcTest`, `GcGive`).
Who runs before whom follows the priorities: tasks outside `Low` come before the collector (32), those in `Low`, such as the work queue (41), after it, except
that the holder of the mutex runs when the collector waits for it (`krhino_mutex_lock` inherits priorities). `acked` is what the return code of the last call on a key has vouched for. `Store_` instantiates `KvStore`
with `val <- Stored`, what a start from the present flash would find, `op <- arg` and `told <- acked`. **MCKvMgr** adds symmetry.

**MCGenieProvision** adds a state constraint, **MCGenieSeq** another one, the symmetry of the senders and the property of the violation run. **GenieSeqProofs** and **GenieDedupProofs** hold the proofs, **ModArith** the facts about remainders that both use.

## 3. Runs

| Run | Checks | Shows |
|---|---|---|
| `seq_nonce` | `TypeOK`, `NonceFresh`, `ResumesAbove`, `NonceMonotone` | two sending tasks: saving every interval-th number and skipping an interval at boot never reuses a nonce unless a lapse happens |
| `seq_lost_iv_index` | `NonceFreshIv` | **violated**: the IV Index is stored as 0; after a reboot the node recovers the index and counts from 0 under it again |
| `transport_resend` | `LateBounded`, `TimeoutAfterAll`, `NoResendAfterConfirm` | generated tids, transmissions that may fail: every retry is tried before a timeout is reported, nothing confirmed is resent, delays are bounded by the list |
| `transport_list` | `TypeOK`, `NoOrphan`, `ListBounded`, `OneOutcome`, `ResolvedUnlessLeaked` | caller-chosen tids and failing allocations: no message without a timer, one outcome is reported for a message and then it is off the list, the list exceeds its limit at most by the other senders, and every listed message is resolved unless the mutex was left locked |
| `transport_reused_tid` | `EveryMessageResolved` | **violated**: a tid still in the list is sent again, the mutex stays locked and the timer task waits for ever |
| `dedup_window` | `TypeOK`, `ActedOnOnce`, `OnlyRepeatsDropped` | a copy is acted on again within the window only after a whole ring of others, and only copies are dropped |
| `provision_durable` | `Durable`, `NodeResetDone` | two sessions, three boots, failing writes, AIS connections that end: a node past provisioning has in flash exactly what it runs with; after a Node Reset it is out or on its way out |
| `provision_live` | `TypeOK`, `Reachable`, `Decided`, `HwResetDone` | two links, a button reset: an unprovisioned node advertises again, every attempt ends, a hardware reset removes the credentials |
| `provision_stale_flag` | `NodeResetAlways` | **violated**: quick power cycles of an unprovisioned device set `hw_reset_flag`; provisioned in that boot, it answers Node Reset and stays |
| `kv_store` | `TypeOK`, `ReadsBack`, `Acknowledged`, `NobodyStranded`, `Implements` | callers above and below the collector: the flash store implements `KvStore` under two power losses, also during recovery |
| `kv_gc_power_loss` | `Acknowledged` | **violated**: power loss during a collection that copies an item whose `origin_off` is its own place; recovery deletes the original and formats the copy |
| `kv_lost_wakeup` | `CallReturns` | **violated**: a new collection sets `gc_waiter` to 0 before the previous one has woken its waiters |

`PROJECT.json` quotes, for each violated property, the comment it is taken from, and names for every
property of the other runs a change to the code (a mutant) that breaks it.

### Bounds

* `seq_nonce`: two senders; a counter of 9 values with interval 3, so that a number saved early (1), the save points (3, 6), the wrap
  and the limit that starts an IV update all occur; IV Indexes 0 to 2 give two updates. After a lapse the
  search stops (`NoLapse`). A counter of 12 with interval 4 was checked too, with the same result.
* `transport_*`: two tasks besides the timer task, three messages. `transport_resend` has as many tids as messages, so
  that none is reused (the code has 64), and periods of 1 and 2; `transport_list` has two and lets callers choose, with a list of one, so that it overflows by one. Its retry count is 255, what
  -1 becomes. `MaxLate` only cuts how far overdue is counted and lies beyond what `LateBounded` allows where that is checked.
* `dedup_window`: a ring of two, three sources of which two count as one, and two tids: five acceptances go around the ring more than twice.
* `provision_*`: time-outs keep the order of the code's (1 s to 10 min scaled to 1 to 4 ticks). `provision_durable` has two
  sessions because mixing them is the danger, and three boots, and stops where lapses have voided both of its properties (`Promised`); `provision_live` checks liveness with two links, two boots and a button reset, without AIS. One quick power cycle counts as a
  reset request (`RepeatCount`).
* `kv_store`: two places to a block, two keys, two values, two callers above the collector and one below, four calls, two power losses. A block fills after two writes, so that several
  collections happen; the second loss can hit recovery from the first. Five calls were checked too, with the same result.
  `kv_gc_power_loss` uses three places: the item must come back to its own place.

### Fairness

Only four properties need it. `GenieTransport`: the kernel runs every ready task and hands a released mutex to a waiting one
(`krhino_mutex_unlock`), hence strong fairness of a task that may be passed by others; the clock advances; whether calls and confirmations come is up to the environment.
`GenieProvision`: both tasks run when they can, time passes, a node that is off is switched on again; no fairness of the
provisioner or the user. `KvMgr`: callers, collector and `kv_init` run when they can.

Deadlock is checked except in `GenieDedup`, where only bounds end the model, and in `KvMgr`, where the store rests between calls.

### Met on the way

The models also show the following, which no run of its own records:

* `bt_mesh.seq++` (`mesh/net.c:924`) is a load and a store without a lock, and the save that follows reads the number again: two senders that overlap there
  use the same number twice or skip a save (lapse "race").
* `bt_mesh_net_encode` reads the IV Index after the number was stamped: an IV update in between sends an old number under the new index (lapse "restart").
* A failed allocation in `genie_transport_append_mesg` (`core/genie_transport.c:194`) returns with the mutex held, with the same end as `transport_reused_tid`.
* A negative retry count, documented as "retransmission is not necessary" (`genie_transport.h:48`), is 255 in a `uint8_t` and cut to the maximum.
* In the last 6 s before the 32-bit millisecond clock wraps, `cur_time < end_time` fails for fresh entries and repeats are acted on.
* A mesh-ready timer of a failed session is forgotten, not stopped, and can end the next one before it has waited for its app key.
* A timeout of provisioning that hits the handler of the app key while it stores keys wipes the store, and the handler then stores the rest: a node that is no longer
  provisioned ends as SUCCESS (lapse "race" of `GenieProvision`).
* Power lost in the second between the answer to a Node Reset and the wipe brings the node back as a member.

## 4. Proofs

### The sequence number

`GenieSeqProofs` proves, with `SeqAssumption` (a positive interval, a counter with more values than are saved early) and nothing else about the constants:

* `TypeCorrect`: `Spec => []TypeOK`.
* `NonceFreshSafe`: `NonceFresh` and `ResumesAbove` always hold: no nonce is used twice before a lapse.
* `NonceNeverBack`: `NonceMonotone`: while it runs, the node never goes back to an older nonce before the number wraps or senders overlap.

All three hold for any set of sending tasks and any interleaving of their steps; an overlap of the two kinds named above is a lapse, not an assumption.

`NonceFresh` is not inductive: nothing in it says that what was sent lies below what will be sent. The invariant `SeqInv` adds

1. `RunInv`: as long as nothing but a save or the IV Index was lost (`Orderly`), the PDUs being built and the counter agree (`TasksInv`): at most one task is between load and
   store, every number handed out is below the counter, no two tasks hold the same, and a pending save is of the present value;
2. `BelowInv`: every nonce sent is below the next one, by IV Index and then by number, and differs from those still to be sent;
3. `TrackInv`: under the stored IV Index no save point lies between the record and the counter, apart from a PDU whose save is still to come (`Base`);
4. `OffInv`: without power, every number sent is below the record plus one interval.

The step from 3 to 4 is arithmetic: between two numbers an interval or more apart lies a multiple of the interval (`SavePointInGap`), so a counter
that has met no save point since the record is less than an interval ahead (`Covered`). A boot turns 4 into 2. The proof has one lemma per
action, with the IV updates in lemmas of their own (`IvStep`, `IvMoves`). TLC checked `SeqInv` first.

### The duplicate filter

`GenieDedupProofs` proves `DedupSafe`: `TypeOK`, `ActedOnOnce` and `OnlyRepeatsDropped` always hold, from `DedupAssumption` (addresses are not 0, a window shorter
than the range of the clock). Both properties speak of the last verdict, so the invariant `DedupInv` has to say what the ring holds:

1. `RingInv`: `cur_index` is the number of acceptances modulo the size, and the last message accepted with a key sits in the slot of its number until a whole ring of others has been accepted;
2. `EntryInv`: before the clock wraps, an entry is not younger than the last acceptance of its key, and untouched slots match no message.

By 1 a repeat within the window finds its entry, by 2 whatever is found is a repeat (`Verdict`). That an acceptance overwrites no entry that 1 speaks of
(`AcceptKeeps`) rests on two facts about remainders: consecutive numbers have consecutive slots, and numbers less than a ring apart have different ones.

### Only model-checked

Everything about the other modules, all liveness, and the refinement of `KvStore`. Liveness is out of
reach of the prover; the others are planned.

## 5. Abstractions

* `GenieSeq`: the lower transport's own readings of the number (SeqAuth, application nonce) and the friend's stamping are left out.
* Payloads, attributes, addresses and keys are numbers or model values; cryptography is perfect.
* `GenieTransport`: the walk of `genie_transport_find_by_tid` without the lock is one step; memory freed under it is not modelled.
* `GenieProvision`: the exchange between link opening and provisioning data is one delay; events for the application are left out.
* `KvMgr`: items of one size; two blocks, as built (`KV_TOTAL_SIZE`, `BLK_BITS`), so the parts for more blocks are not compiled; an erase is atomic; a torn item never has a matching CRC;
  no flash errors and no failed allocations; one core, and no caller with the very priority of the collector. `kv_init` starts from an erased partition.
  In `kv_store` power is not lost while a copy names its own original (`LossInGc`); that is what `kv_gc_power_loss` is about.

## 6. Plan

1. Done: `GenieSeq` and `GenieDedup` with proofs, `GenieTransport`, `GenieProvision`, `KvMgr`/`KvStore`.
2. `GenieTime` (roll-over, ordering and expiry of the 40 timers), then AIS/OTA: abstract specification "a firmware is used only if it is whole", refined by the
   transfer under disconnection and restart.
3. SIG models with transitions; lower transport (segmentation, replay protection, cache) as a protocol between two nodes over a lossy
   channel, composed with `GenieSeq`.
4. Friend and low power node; low power mode.
5. Proofs: `TypeOK`, `NoOrphan` and `ListBounded` of `GenieTransport`; `Durable` of `GenieProvision`; the refinement of
   `KvStore` by `KvMgr`.
