-------------------------------- MODULE KvMgr --------------------------------
(***************************************************************************)
(* The key-value store of kernel/rhino/fs/kv: two flash blocks, of which   *)
(* one holds the items and one is kept clean.  Items are only appended; a  *)
(* changed value is a new item that names the place of the old one, which  *)
(* is then marked deleted.  When the block fills up, a garbage collection  *)
(* task copies the items that are left into the clean block and erases the *)
(* full one.  Power may be lost between any two writes to the flash and in *)
(* the middle of an item; kv_init repairs what it finds.                   *)
(*                                                                         *)
(* All items are of one size, so a block has Cap places.  The tasks in Low *)
(* have a lower priority than the collector (KV_TASK_PRI), the others a    *)
(* higher one.  The mutex inherits priorities.                             *)
(***************************************************************************)
EXTENDS Integers, Sequences, FiniteSetsExt

CONSTANTS
    Tasks,      \* the callers
    Low,        \* those the collector runs before, such as the Bluetooth work queue
    Keys, Vals,
    None,       \* no value, no holder of the mutex
    Cap,        \* items a block holds
    GcRoom,     \* ITEM_MAX_LEN: with less room left, collection is due
    LossInGc,   \* power may be lost also while a copy names its own original
    MaxCalls,   \* bound: calls in all
    MaxLosses   \* bound: power losses

ASSUME KvAssumption ==
    /\ Low \subseteq Tasks /\ None \notin Vals \cup Tasks
    /\ Cap \in Nat \ {0} /\ GcRoom \in 1 .. Cap
    /\ LossInGc \in BOOLEAN /\ {MaxCalls, MaxLosses} \subseteq Nat

VARIABLES
    flash,      \* per block: the state in its header and its items
    info,       \* g_kv_mgr.block_info[].state
    wblk,       \* the block of g_kv_mgr.write_pos
    gc_trigger, gc_waiter,
    gc_sem,     \* its count
    mutex,      \* its holder
    pc, arg,    \* per task: where it is, and the pairs its call is to establish
    gc,         \* where the collector is
    next,       \* the next place it copies
    leaving,    \* collectors that have yet to look at gc_waiter
    giving,     \* collectors that have, and will wake who waits
    boot,       \* where kv_init is; "on" when it is done
    bi, bx,     \* the block and place it looks at
    calls, losses,
    cut,        \* the pairs of calls that power loss cut short
    acked       \* what the last call on a key has reported, or "any"

ram  == <<info, wblk, gc_trigger, gc_waiter, gc_sem, mutex, gc, next, leaving, giving>>
init == <<boot, bi, bx>>
hist == <<calls, losses, cut, acked>>
vars == <<flash, ram, pc, arg, init, hist>>

Blocks == {0, 1}
Other(b) == 1 - b
Place(b, i) == b * Cap + i

Empty(state) == [state |-> state, items |-> <<>>]
Items(b) == flash[b].items
Free(b) == Cap - Len(Items(b))

\* The live items of a block, and those of some keys.
Normal(b) == {i \in DOMAIN Items(b) : Items(b)[i].state = "NORMAL"}
NormalOf(b, keys) == {i \in Normal(b) : Items(b)[i].key \in keys}

\* BLK_STATE_CLEAN in block_info, and what clean_blk_nums counts in kv_init.
Clean == {b \in Blocks : info[b] = "CLEAN"}
Unclean == {b \in Clean : Items(b) # <<>>}

RamInit ==
    /\ info = [b \in Blocks |-> "0"] /\ wblk = 0
    /\ gc_trigger = FALSE /\ gc_waiter = 0 /\ gc_sem = 0 /\ mutex = None
    /\ gc = "none" /\ next = 1 /\ leaving = 0 /\ giving = 0

Init ==
    /\ RamInit
    /\ flash = [b \in Blocks |-> Empty("bad")]
    /\ pc = [t \in Tasks |-> "idle"] /\ arg = [t \in Tasks |-> {}]
    /\ boot = "head" /\ bi = 0 /\ bx = 1
    /\ calls = 0 /\ losses = 0 /\ cut = {}
    /\ acked = [k \in Keys |-> None]
-----------------------------------------------------------------------------
\* The callers that are not in Low run before the collector, unless they wait
\* for it.
Ready(t) == pc[t] \notin {"idle", "wait"} /\ (pc[t] = "lock" => mutex = None)
GcRuns == boot = "on" /\ \A t \in Tasks \ Low : ~Ready(t)

\* One in Low runs while there is no collector, or as the holder of the mutex
\* that the collector waits for.
Runs(t) ==
    /\ boot = "on"
    /\ t \in Low => leaving + giving = 0 /\ (gc = "none" \/ (gc = "start" /\ mutex = t))

Step(t, from, to) ==
    /\ Runs(t) /\ pc[t] = from
    /\ pc' = [pc EXCEPT ![t] = to]

\* kv_trigger_gc.
Trigger(due) ==
    IF due /\ ~gc_trigger
    THEN gc_trigger' = TRUE /\ gc_waiter' = 0 /\ gc' = "start"
    ELSE UNCHANGED <<gc_trigger, gc_waiter, gc>>

\* kv_item_get.
Holding(keys) == {b \in Blocks : info[b] # "CLEAN" /\ NormalOf(b, keys) # {}}
Found(keys) == LET b == Min(Holding(keys)) IN <<b, Min(NormalOf(b, keys))>>
Get(k) == IF Holding({k}) = {} THEN None
          ELSE LET p == Found({k}) IN Items(p[1])[p[2]].val

KeysOf(t) == {p[1] : p \in arg[t]}
-----------------------------------------------------------------------------
\* aos_kv_set, aos_kv_del and aos_kv_del_all are called.  Only aos_kv_set looks
\* whether collection is under way.
Call(t, pairs, first) ==
    /\ Step(t, "idle", first)
    /\ calls < MaxCalls /\ calls' = calls + 1
    /\ arg' = [arg EXCEPT ![t] = pairs]
    /\ acked' = [k \in Keys |-> IF \E p \in pairs : p[1] = k THEN "any" ELSE acked[k]]
    /\ UNCHANGED <<flash, ram, init, losses, cut>>

Set(t, k, v) == Call(t, {<<k, v>>}, IF gc_trigger THEN "count" ELSE "lock")
Del(t, k) == Call(t, {<<k, None>>}, "lock")
DelAll(t) == Call(t, Keys \X {None}, "lock")

CountWaiter(t) ==
    /\ Step(t, "count", "take")
    /\ gc_waiter' = gc_waiter + 1
    /\ UNCHANGED <<flash, info, wblk, gc_trigger, gc_sem, mutex, gc, next, leaving, giving, arg, init, hist>>

\* krhino_sem_take.
SemTake(t) ==
    /\ Step(t, "take", IF gc_sem > 0 THEN "lock" ELSE "wait")
    /\ gc_sem' = IF gc_sem > 0 THEN gc_sem - 1 ELSE 0
    /\ UNCHANGED <<flash, info, wblk, gc_trigger, gc_waiter, mutex, gc, next, leaving, giving, arg, init, hist>>

\* The call is over.  With RES_OK it vouches for its pairs, unless another call
\* on the same key is under way; with an error it says nothing.
Alone(t, k) == \A u \in Tasks \ {t} : k \notin KeysOf(u)
Vouches(t, k, v) == <<k, v>> \in arg[t] /\ Alone(t, k)

Return(t, ok) ==
    /\ pc' = [pc EXCEPT ![t] = "idle"]
    /\ arg' = [arg EXCEPT ![t] = {}]
    /\ mutex' = None
    /\ acked' = [k \in Keys |-> IF ok /\ \E v \in Vals \cup {None} : Vouches(t, k, v)
                                THEN CHOOSE v \in Vals \cup {None} : Vouches(t, k, v)
                                ELSE acked[k]]

\* The mutex is taken, the item looked up, and for a new value a place found
\* (kv_calc_position).  The call is over at once when the value is there
\* already (RES_OK), when there is nothing to delete (RES_ITEM_NOT_FOUND, but
\* RES_OK from aos_kv_del_all), or when there is no room (RES_NO_SPACE).
Deletes(t) == \A p \in arg[t] : p[2] = None
DeletesAll(t) == Cardinality(arg[t]) > 1
Nothing(t) == IF Deletes(t) THEN Holding(KeysOf(t)) = {} ELSE \E p \in arg[t] : Get(p[1]) = p[2]

\* The room must exceed the length of the item.
HasRoom_OffByOne == Free(wblk) >= 0
HasRoom == Free(wblk) > 0

Lock(t) ==
    /\ Runs(t) /\ pc[t] = "lock" /\ mutex = None
    /\ UNCHANGED <<flash, info, wblk, gc_sem, next, leaving, giving, init, calls, losses, cut>>
    /\ IF Nothing(t) \/ (~Deletes(t) /\ ~HasRoom)
       THEN Return(t, Nothing(t) /\ (Deletes(t) => DeletesAll(t)))
       ELSE /\ mutex' = t
            /\ pc' = [pc EXCEPT ![t] = IF Deletes(t) THEN "remove" ELSE "write"]
            /\ UNCHANGED <<arg, acked>>
    /\ Trigger(~Nothing(t) /\ ~Deletes(t) /\ Free(wblk) - 1 < GcRoom)

\* kv_item_store, and kv_item_update unless it is a new key: the item is
\* written behind the last one and names the place of the one it replaces.
Origin(k) == IF Holding({k}) = {} THEN 0 ELSE LET p == Found({k}) IN Place(p[1], p[2])

NewItem(p) == [key |-> p[1], val |-> p[2], state |-> "NORMAL", origin |-> Origin(p[1])]

Append_(b, item) == [flash EXCEPT ![b].items = Append(@, item)]

Store(t) ==
    /\ Runs(t) /\ pc[t] = "write"
    /\ UNCHANGED <<info, wblk, gc_trigger, gc_waiter, gc_sem, gc, next, leaving, giving, init, calls, losses, cut>>
    /\ \E p \in arg[t] :
          /\ flash' = Append_(wblk, NewItem(p))
          /\ IF Origin(p[1]) = 0
             THEN Return(t, TRUE)
             ELSE /\ pc' = [pc EXCEPT ![t] = "remove"]
                  /\ UNCHANGED <<mutex, arg, acked>>

\* kv_item_del: the item is marked first, then, if it was not yet, its block.
Marked(b, i, state) == [flash EXCEPT ![b].items[i].state = state]

\* aos_kv_del_all goes on to the next item.
Finish(t) ==
    IF DeletesAll(t) /\ Holding(Keys)' # {}
    THEN pc' = [pc EXCEPT ![t] = "remove"] /\ UNCHANGED <<arg, mutex, acked>>
    ELSE Return(t, TRUE)

Remove(t) ==
    /\ Runs(t) /\ pc[t] = "remove"
    /\ UNCHANGED <<info, wblk, gc_trigger, gc_waiter, gc_sem, gc, next, leaving, giving, init, calls, losses, cut>>
    /\ LET p == Found(KeysOf(t)) IN
       /\ flash' = Marked(p[1], p[2], "DELETE")
       /\ IF info[p[1]] = "USED"
          THEN pc' = [pc EXCEPT ![t] = "dirty"] /\ UNCHANGED <<arg, mutex, acked>>
          ELSE Finish(t)

Dirty(t) ==
    /\ Runs(t) /\ pc[t] = "dirty"
    /\ flash' = [flash EXCEPT ![wblk].state = "DIRTY"]
    /\ info' = [info EXCEPT ![wblk] = "DIRTY"]
    /\ Finish(t)
    /\ UNCHANGED <<wblk, gc_trigger, gc_waiter, gc_sem, gc, next, leaving, giving, init, calls, losses, cut>>
-----------------------------------------------------------------------------
\* kv_gc_task.  Without a clean block to copy to and a dirty one to copy from
\* there is nothing to do.
Leave_Silent == gc_trigger' = FALSE /\ gc' = "none" /\ mutex' = None /\ UNCHANGED leaving
Leave == gc_trigger' = FALSE /\ gc' = "none" /\ leaving' = leaving + 1 /\ mutex' = None

GcStart ==
    /\ GcRuns /\ gc = "start" /\ mutex = None
    /\ IF Clean # {} /\ \E b \in Blocks : info[b] = "DIRTY"
       THEN /\ gc' = "copy" /\ next' = 1 /\ mutex' = "gc"
            /\ wblk' = Min(Clean)
            /\ UNCHANGED <<gc_trigger, leaving>>
       ELSE Leave /\ UNCHANGED <<next, wblk>>
    /\ UNCHANGED <<flash, info, gc_waiter, gc_sem, giving, pc, arg, init, hist>>

\* __item_gc_cb: an item is copied as it is, its origin_off included.
ToCopy == {i \in Normal(Other(wblk)) : i >= next}
Copied == Items(Other(wblk))[Min(ToCopy)]

GcCopy ==
    /\ GcRuns /\ gc = "copy" /\ ToCopy # {}
    /\ flash' = Append_(wblk, Copied)
    /\ next' = Min(ToCopy) + 1
    /\ UNCHANGED <<info, wblk, gc_trigger, gc_waiter, gc_sem, mutex, gc, leaving, giving, pc, arg, init, hist>>

\* kv_block_format: the block is erased, then it gets its header ...
GcErase ==
    /\ GcRuns /\ gc = "copy" /\ ToCopy = {}
    /\ flash' = [flash EXCEPT ![Other(wblk)] = Empty("bad")]
    /\ gc' = "header"
    /\ UNCHANGED <<info, wblk, gc_trigger, gc_waiter, gc_sem, mutex, next, leaving, giving, pc, arg, init, hist>>

GcHeader ==
    /\ GcRuns /\ gc = "header"
    /\ flash' = [flash EXCEPT ![Other(wblk)].state = "CLEAN"]
    /\ info' = [info EXCEPT ![Other(wblk)] = "CLEAN"]
    /\ gc' = "used"
    /\ UNCHANGED <<wblk, gc_trigger, gc_waiter, gc_sem, mutex, next, leaving, giving, pc, arg, init, hist>>

\* ... and the copy is made the block in use.
InUse_FlashOnly == info
InUse == [info EXCEPT ![wblk] = "USED"]

GcUsed ==
    /\ GcRuns /\ gc = "used"
    /\ flash' = [flash EXCEPT ![wblk].state = "USED"]
    /\ info' = InUse
    /\ Leave
    /\ UNCHANGED <<wblk, gc_waiter, gc_sem, next, giving, pc, arg, init, hist>>

\* gc_waiter is looked at, and if anyone was counted, krhino_sem_give_all wakes
\* all who wait; if nobody does yet, it leaves a count.
GcTest ==
    /\ GcRuns /\ leaving > 0
    /\ leaving' = leaving - 1
    /\ giving' = IF gc_waiter > 0 THEN giving + 1 ELSE giving
    /\ UNCHANGED <<flash, info, wblk, gc_trigger, gc_waiter, gc_sem, mutex, gc, next, pc, arg, init, hist>>

Waiting == {t \in Tasks : pc[t] = "wait"}

GcGive ==
    /\ GcRuns /\ giving > 0
    /\ giving' = giving - 1
    /\ pc' = [t \in Tasks |-> IF t \in Waiting THEN "lock" ELSE pc[t]]
    /\ gc_sem' = IF Waiting = {} THEN gc_sem + 1 ELSE gc_sem
    /\ UNCHANGED <<flash, info, wblk, gc_trigger, gc_waiter, mutex, gc, next, leaving, arg, init, hist>>
-----------------------------------------------------------------------------
\* The power goes, and may leave half an item where one was being written: its
\* CRC does not match (the value None).
Torn(item) == [item EXCEPT !.val = None]
Writing == IF gc = "copy" THEN {Copied : i \in ToCopy}
           ELSE UNION {{NewItem(p) : p \in arg[t]} : t \in {u \in Tasks : pc[u] = "write"}}

\* A copy names, as the place of the item it once replaced, the place it has
\* just been copied from.
SelfNamed(b, i) ==
    /\ i \in Normal(b) /\ Items(b)[i].val # None
    /\ \E j \in Normal(Other(b)) : /\ Items(b)[i].origin = Place(Other(b), j)
                                   /\ Items(b)[i].key = Items(Other(b))[j].key
Exposed == gc = "copy" /\ \E i \in DOMAIN Items(wblk) : SelfNamed(wblk, i)

PowerLoss ==
    /\ losses < MaxLosses /\ losses' = losses + 1
    /\ Exposed => LossInGc
    /\ \/ UNCHANGED flash
       \/ \E item \in Writing : flash' = Append_(wblk, Torn(item))
    /\ info' = [b \in Blocks |-> "0"] /\ wblk' = 0
    /\ gc_trigger' = FALSE /\ gc_waiter' = 0 /\ gc_sem' = 0 /\ mutex' = None
    /\ gc' = "none" /\ next' = 1 /\ leaving' = 0 /\ giving' = 0
    /\ pc' = [t \in Tasks |-> "idle"] /\ arg' = [t \in Tasks |-> {}]
    /\ boot' = "head" /\ bi' = 0 /\ bx' = 1
    /\ cut' = cut \cup UNION {arg[t] : t \in Tasks}
    /\ UNCHANGED <<calls, acked>>

\* kv_init, block by block: the header (kv_block_format if there is none; such a
\* block is empty, so that erasing it changes nothing) ...
NextBlock ==
    /\ bx' = 1
    /\ IF bi = 0 THEN bi' = 1 /\ boot' = "head" ELSE bi' = 0 /\ boot' = "sort"

BootHead ==
    /\ boot = "head"
    /\ IF flash[bi].state = "bad"
       THEN /\ flash' = [flash EXCEPT ![bi] = Empty("CLEAN")]
            /\ info' = [info EXCEPT ![bi] = "CLEAN"]
            /\ NextBlock
       ELSE /\ info' = [info EXCEPT ![bi] = flash[bi].state]
            /\ boot' = "scan"
            /\ UNCHANGED <<flash, bi, bx>>
    /\ UNCHANGED <<wblk, gc_trigger, gc_waiter, gc_sem, mutex, gc, next, leaving, giving, pc, arg, hist>>

\* ... then the items (__item_recovery_cb).  Half an item is marked deleted, and
\* an item that replaced another has that one deleted.
Replaced(item) ==
    {p \in Blocks \X (1 .. Cap) :
        /\ p[2] \in Normal(p[1])
        /\ Place(p[1], p[2]) = item.origin
        /\ Items(p[1])[p[2]].key = item.key}

Repaired_NoCrc(item) ==
    IF item.state = "NORMAL" /\ item.origin # Place(bi, bx) THEN Replaced(item) ELSE {}

Repaired(item) ==
    IF item.state # "NORMAL" THEN {}
    ELSE IF item.val = None THEN {<<bi, bx>>}
    ELSE IF item.origin # Place(bi, bx) THEN Replaced(item) ELSE {}

\* The block of the item that is deleted, or was before.
Touched(item) ==
    IF item.state = "NORMAL" /\ item.val # None THEN (item.origin - 1) \div Cap ELSE bi

BootItem ==
    /\ boot = "scan" /\ bx \in DOMAIN Items(bi)
    /\ LET item == Items(bi)[bx]
           gone == Repaired(item)
       IN /\ flash' = [b \in Blocks |-> [flash[b] EXCEPT !.items =
                         [i \in DOMAIN @ |-> IF <<b, i>> \in gone THEN [@[i] EXCEPT !.state = "DELETE"]
                                             ELSE @[i]]]]
          /\ IF (gone # {} \/ item.state = "DELETE") /\ info[Touched(item)] = "USED"
             THEN boot' = "dirty" /\ UNCHANGED bx
             ELSE bx' = bx + 1 /\ UNCHANGED boot
    /\ UNCHANGED <<ram, pc, arg, bi, hist>>

\* The mark on the block is a write of its own.
BootDirty ==
    /\ boot = "dirty"
    /\ LET b == Touched(Items(bi)[bx])
       IN /\ flash' = [flash EXCEPT ![b].state = "DIRTY"]
          /\ info' = [info EXCEPT ![b] = "DIRTY"]
    /\ bx' = bx + 1 /\ boot' = "scan"
    /\ UNCHANGED <<wblk, gc_trigger, gc_waiter, gc_sem, mutex, gc, next, leaving, giving, pc, arg, bi, hist>>

BootNext ==
    /\ boot = "scan" /\ bx \notin DOMAIN Items(bi)
    /\ NextBlock
    /\ UNCHANGED <<flash, ram, pc, arg, hist>>

\* A block that calls itself clean but is not was being copied into.  It is kept
\* if the other one is gone, and formatted otherwise.
Kept_Never == FALSE
Kept == Clean \ Unclean # {}

BootKeep ==
    /\ boot = "sort" /\ Unclean # {} /\ Kept
    /\ flash' = [flash EXCEPT ![Max(Unclean)].state = "DIRTY"]
    /\ info' = [info EXCEPT ![Max(Unclean)] = "DIRTY"]
    /\ UNCHANGED <<wblk, gc_trigger, gc_waiter, gc_sem, mutex, gc, next, leaving, giving, pc, arg, init, hist>>

BootErase ==
    /\ boot = "sort" /\ ~Kept
    /\ bi' = IF Unclean # {} THEN Max(Unclean) ELSE 0
    /\ flash' = [flash EXCEPT ![bi'] = Empty("bad")]
    /\ boot' = "header"
    /\ UNCHANGED <<ram, bx, pc, arg, hist>>

BootHeader ==
    /\ boot = "header"
    /\ flash' = [flash EXCEPT ![bi].state = "CLEAN"]
    /\ info' = [info EXCEPT ![bi] = "CLEAN"]
    /\ boot' = "sort"
    /\ UNCHANGED <<wblk, gc_trigger, gc_waiter, gc_sem, mutex, gc, next, leaving, giving, pc, arg, bi, bx, hist>>

\* The block to write to is chosen, and collection started if it is due.
BootDone ==
    /\ boot = "sort" /\ Unclean = {} /\ Clean # {}
    /\ IF Clean = Blocks
       THEN /\ wblk' = 0
            /\ flash' = [flash EXCEPT ![0].state = "USED"]
            /\ info' = [info EXCEPT ![0] = "USED"]
       ELSE wblk' = Min(Blocks \ Clean) /\ UNCHANGED <<flash, info>>
    /\ Trigger(Free(wblk)' < GcRoom)
    /\ boot' = "on" /\ cut' = {}
    /\ UNCHANGED <<gc_sem, mutex, next, leaving, giving, pc, arg, bi, bx, calls, losses, acked>>
-----------------------------------------------------------------------------
Calls == \E t \in Tasks : \/ \E k \in Keys : Del(t, k) \/ \E v \in Vals : Set(t, k, v)
                          \/ DelAll(t)

Works(t) == CountWaiter(t) \/ SemTake(t) \/ Lock(t) \/ Store(t) \/ Remove(t) \/ Dirty(t)

Collects == GcStart \/ GcCopy \/ GcErase \/ GcHeader \/ GcUsed \/ GcTest \/ GcGive

Boots == BootHead \/ BootItem \/ BootDirty \/ BootNext \/ BootKeep \/ BootErase \/ BootHeader \/ BootDone

Next == Calls \/ PowerLoss \/ Collects \/ Boots \/ \E t \in Tasks : Works(t)

Spec == Init /\ [][Next]_vars

\* The kernel runs every task that can run, and hands the mutex to a waiting one.
FairSpec == Spec /\ WF_vars(Boots) /\ WF_vars(Collects) /\ \A t \in Tasks : WF_vars(Works(t))
-----------------------------------------------------------------------------
Item == [key : Keys, val : Vals \cup {None}, state : {"NORMAL", "DELETE"},
         origin : 0 .. 2 * Cap]

TypeOK ==
    /\ \A b \in Blocks : /\ flash[b].state \in {"bad", "CLEAN", "USED", "DIRTY"}
                         /\ Len(Items(b)) <= Cap
                         /\ \A i \in DOMAIN Items(b) : Items(b)[i] \in Item
    /\ info \in [Blocks -> {"0", "CLEAN", "USED", "DIRTY"}] /\ wblk \in Blocks
    /\ gc_trigger \in BOOLEAN /\ gc_waiter \in 0 .. 255 /\ gc_sem \in Nat
    /\ mutex \in Tasks \cup {"gc", None}
    /\ pc \in [Tasks -> {"idle", "count", "take", "wait", "lock", "write", "remove", "dirty"}]
    /\ \A t \in Tasks : arg[t] \subseteq Keys \X (Vals \cup {None})
    /\ gc \in {"none", "start", "copy", "header", "used"} /\ next \in 1 .. Cap + 1 /\ {leaving, giving} \subseteq Nat
    /\ boot \in {"head", "scan", "dirty", "sort", "header", "on"} /\ bi \in Blocks /\ bx \in 1 .. Cap + 1
    /\ cut \subseteq Keys \X (Vals \cup {None})
    /\ acked \in [Keys -> Vals \cup {None, "any"}]

\* What is stored, wherever the program is: the block that a start would keep,
\* and in it the first whole item of a key.
Live == LET data == {b \in Blocks : flash[b].state \in {"USED", "DIRTY"}}
            copy == {b \in Blocks : flash[b].state = "CLEAN" /\ Items(b) # <<>>}
        IN IF data # {} THEN Min(data) ELSE IF copy # {} THEN Min(copy) ELSE 0

Whole(items, k) ==
    {i \in DOMAIN items : items[i].state = "NORMAL" /\ items[i].key = k /\ items[i].val # None}

Stored ==
    LET items == Items(Live)
    IN [k \in Keys |-> LET w == Whole(items, k) IN IF w = {} THEN None ELSE items[Min(w)].val]

\* The store does what KvStore says: a pair takes effect whole or not at all, a
\* call that returns RES_OK has had its effect and one that returns an error
\* none, and neither collection nor power loss nor kv_init changes what is
\* stored.
Store_ == INSTANCE KvStore WITH val <- Stored, op <- arg, told <- acked
Implements == Store_!Spec

\* Whenever the mutex is free, aos_kv_get finds what is stored.
ReadsBack == boot = "on" /\ mutex = None => \A k \in Keys : Get(k) = Stored[k]

\* aos_kv_set: "save the KV pair to flash right now".  What a call has reported
\* as done stays so until the next call on that key.
Acknowledged == \A k \in Keys : acked[k] # "any" => Stored[k] = acked[k]

\* Every call returns, unless the power goes: a task that waits for the
\* collector ("gc_waiter: numbers of the task wait for GC finished") goes on
\* when that has finished.
CallReturns == \A t \in Tasks : pc[t] # "idle" ~> (pc[t] = "idle" \/ boot # "on")

\* A task that waits for the collector has one to wait for, unless a new
\* collection has set gc_waiter to 0 under it.
NobodyStranded == Waiting # {} => gc_waiter = 0 \/ gc_trigger \/ leaving + giving > 0
=============================================================================
