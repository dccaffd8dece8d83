------------------------------- MODULE KvStore -------------------------------
(***************************************************************************)
(* The key-value store (kvmgr.c): a log of items over N flash blocks, with *)
(* a garbage collector that runs as a task of its own, and recovery after  *)
(* a loss of power.  One step makes at most one write that survives it.    *)
(*                                                                         *)
(* Items have the maximum length and S of them fit into a block, so a      *)
(* position is <<block, slot>>, the space of a block is what its items     *)
(* leave of S, and write_pos is the end of the items of write_blk.         *)
(* block_info[].state is the state in the header, once recovery read it.   *)
(***************************************************************************)
EXTENDS Integers, Sequences, FiniteSets, SequencesExt

CONSTANTS
    Task,      \* the tasks that use the store
    Gc,        \* identities for kv-gc tasks: bounds those alive at once
    Key, Val,
    KeyGroups,  \* the sets of keys that share a prefix given to aos_kv_del_by_prefix
    N,         \* BLK_NUMS
    S,         \* items that fit into a block
    GcUnits,   \* bounds the units gc_sem keeps: the next ones are dropped
    Loss,      \* when power may be lost: "never", at "any" time, or "spared": any but while
               \* an item is moved that names its own position as its origin
    None

ASSUME StoreAssumption ==
    /\ N \in Nat /\ N >= 2     \* aos_kv_init refuses BLK_NUMS <= KV_GC_RESERVED
    /\ S \in Nat \ {0}
    /\ KeyGroups \subseteq SUBSET Key
    /\ GcUnits \in Nat
    /\ Loss \in {"never", "spared", "any"}
    /\ None \notin Task \cup Gc \cup Key \cup Val

KV_GC_RESERVED == 1

Block == 0 .. N - 1
NoOrigin == <<0, 0>>           \* origin_off = 0
Position == Block \X (1 .. S)

Normal(key, val, origin) == [state |-> "normal", key |-> key, val |-> val, origin |-> origin]

\* What is left of an item with ITEM_STATE_DELETE, and of one whose write was cut short
\* (its CRC is wrong).
Deleted == [state |-> "deleted", key |-> None, val |-> None, origin |-> NoOrigin]
Torn    == [Deleted EXCEPT !.state = "torn"]

VARIABLES
    flash,           \* flash[b]: state of the header ("erased": no valid header), items
    clean_blk_nums, write_blk, gc_triggered, gc_waiter,    \* g_kv_mgr
    gc_sem,          \* units of gc_sem
    kv_mutex,        \* the task that has the mutex, or None
    pc, call,        \* where each task is, with the keys and the value of its call
    gc,              \* where each kv-gc task is
    boot,            \* where kv_init is; "up" when the store is initialised
    unclean,         \* unclean[] of kv_init
    at,              \* the position kv_init or the owner of the mutex works on
    dirtying,        \* the block kv_item_del is about to mark BLK_STATE_DIRTY, or None
    allowed          \* history: what a read of a key may give

tasks   == <<pc, call>>
gcVars  == <<gc_triggered, gc_waiter, gc>>
ramVars == <<clean_blk_nums, write_blk, gc_triggered, gc_waiter, gc_sem, kv_mutex,
             pc, call, gc, boot, unclean, at, dirtying>>
vars    == <<flash, ramVars, allowed>>

-----------------------------------------------------------------------------
(* Blocks and items *)

Clean(f) == {b \in Block : f[b].state = "clean"}
Full(b) == Len(flash[b].items) = S

ItemAt(f, p) == f[p[1]].items[p[2]]
Positions(f) == {p \in Position : p[2] <= Len(f[p[1]].items)}
NormalItems(f) == {p \in Positions(f) : ItemAt(f, p).state = "normal"}

Before(p, q) == p[1] < q[1] \/ (p[1] = q[1] /\ p[2] < q[2])
FirstPos(ps) == CHOOSE p \in ps : \A q \in ps \ {p} : Before(p, q)

\* kv_item_get: the first item of the key in the order of the blocks; CLEAN ones are skipped.
Found(f, key) ==
    {p \in NormalItems(f) : ItemAt(f, p).key = key /\ f[p[1]].state # "clean"}
kv_item_get(key) ==
    IF Found(flash, key) = {} THEN NoOrigin ELSE FirstPos(Found(flash, key))

\* What aos_kv_get returns; None stands for RES_ITEM_NOT_FOUND.
aos_kv_get(key) ==
    IF kv_item_get(key) = NoOrigin THEN None ELSE ItemAt(flash, kv_item_get(key)).val

\* Blocks of set bs, in the order of a search from block b + 1 round to b.
FirstFrom(b, bs) ==
    LET dist(c) == (c - b - 1) % N IN
    CHOOSE c \in bs : \A d \in bs \ {c} : dist(c) < dist(d)

\* kv_item_del writes the state of the item, then that of a USED block.  known: the
\* blocks whose state is in block_info.
kv_item_del(p, known) ==
    /\ flash' = [flash EXCEPT ![p[1]].items[p[2]] = Deleted]
    /\ dirtying' = IF p[1] \in known /\ flash[p[1]].state = "used" THEN p[1] ELSE None

kv_state_dirty ==
    /\ dirtying # None
    /\ flash' = [flash EXCEPT ![dirtying].state = "dirty"]
    /\ dirtying' = None
    /\ UNCHANGED <<clean_blk_nums, write_blk, gcVars, gc_sem, kv_mutex, tasks, boot,
                   unclean, at, allowed>>

Formatted(f, b) == [f EXCEPT ![b] = [state |-> "clean", items |-> <<>>]]
Appended(f, b, item) == [f EXCEPT ![b].items = Append(@, item)]

\* The new task competes with the others from now on.
trigger_gc ==
    IF gc_triggered THEN UNCHANGED gcVars
    ELSE /\ gc_triggered' = TRUE
         /\ gc_waiter' = 0
         /\ \E g \in Gc : gc[g] = "none" /\ gc' = [gc EXCEPT ![g] = "start"]

-----------------------------------------------------------------------------
(* aos_kv_set *)

\* The wait for a garbage collection in progress is decided without the mutex.
aos_kv_set(t, key, val) ==
    /\ boot = "up" /\ pc[t] = "idle"
    /\ call' = [call EXCEPT ![t] = [keys |-> {key}, val |-> val]]
    /\ pc' = [pc EXCEPT ![t] = IF gc_triggered THEN "count" ELSE "lock"]
    /\ UNCHANGED <<flash, clean_blk_nums, write_blk, gcVars, gc_sem, kv_mutex, boot,
                   unclean, at, dirtying, allowed>>

gc_waiter_inc(t) ==
    /\ pc[t] = "count"
    /\ gc_waiter' = gc_waiter + 1
    /\ pc' = [pc EXCEPT ![t] = "wait"]
    /\ UNCHANGED <<flash, clean_blk_nums, write_blk, gc_triggered, gc, gc_sem, kv_mutex,
                   call, boot, unclean, at, dirtying, allowed>>

gc_sem_wait(t) ==
    /\ pc[t] = "wait"
    /\ IF gc_sem > 0
       THEN /\ gc_sem' = gc_sem - 1
            /\ pc' = [pc EXCEPT ![t] = "lock"]
       ELSE /\ gc_sem' = gc_sem
            /\ pc' = [pc EXCEPT ![t] = "blocked"]
    /\ UNCHANGED <<flash, clean_blk_nums, write_blk, gcVars, kv_mutex, call, boot, unclean,
                   at, dirtying, allowed>>

\* The key that call[t] sets.
KeyOf(t) == CHOOSE key \in call[t].keys : TRUE

\* aos_kv_set holds the mutex from here on.
set_goes(t, where) ==
    /\ kv_mutex' = t
    /\ pc' = [pc EXCEPT ![t] = where]
    /\ at' = kv_item_get(KeyOf(t))

\* kv_item_update: the value is stored already.
set_same(t) ==
    /\ aos_kv_get(KeyOf(t)) = call[t].val
    /\ allowed' = [allowed EXCEPT ![KeyOf(t)] = {call[t].val}]
    /\ pc' = [pc EXCEPT ![t] = "idle"]
    /\ UNCHANGED <<flash, clean_blk_nums, write_blk, gcVars, kv_mutex, at>>

\* kv_item_calc_pos: the item fits into the current block; it triggers garbage
\* collection when no other item will.
set_here(t) ==
    /\ aos_kv_get(KeyOf(t)) # call[t].val
    /\ ~Full(write_blk)
    /\ IF Len(flash[write_blk].items) = S - 1 /\ clean_blk_nums <= KV_GC_RESERVED
       THEN trigger_gc ELSE UNCHANGED gcVars
    /\ set_goes(t, "write")
    /\ UNCHANGED <<flash, clean_blk_nums, write_blk, allowed>>

\* The loop is compiled only for BLK_NUMS > KV_GC_RESERVED + 1.  Other blocks are tried from
\* the next one on, the CLEAN ones like the rest.
OtherSpace == IF N > KV_GC_RESERVED + 1 THEN {b \in Block : ~Full(b)} ELSE {}

set_elsewhere(t) ==
    /\ aos_kv_get(KeyOf(t)) # call[t].val
    /\ Full(write_blk)
    /\ OtherSpace # {}
    /\ LET b == FirstFrom(write_blk, OtherSpace) IN
       /\ write_blk' = b
       /\ flash' = [flash EXCEPT ![b].state = IF @ = "clean" THEN "used" ELSE @]
       /\ clean_blk_nums' = clean_blk_nums - (IF flash[b].state = "clean" THEN 1 ELSE 0)
    /\ set_goes(t, "write")
    /\ UNCHANGED <<gcVars, allowed>>

\* No block has space.  The loop runs while i # blk_index, and never compares an i it has
\* just set to 0: from block 0 it does not end.
set_no_space(t) ==
    /\ aos_kv_get(KeyOf(t)) # call[t].val
    /\ Full(write_blk)
    /\ OtherSpace = {}
    /\ IF N > KV_GC_RESERVED + 1 /\ write_blk = 0
       THEN set_goes(t, "spin") /\ UNCHANGED gcVars
       ELSE /\ trigger_gc
            /\ pc' = [pc EXCEPT ![t] = "idle"]
            /\ UNCHANGED <<kv_mutex, at>>
    /\ UNCHANGED <<flash, clean_blk_nums, write_blk, allowed>>

kv_set_lock(t) ==
    /\ pc[t] = "lock" /\ kv_mutex = None
    /\ \/ set_same(t) \/ set_here(t) \/ set_elsewhere(t) \/ set_no_space(t)
    /\ UNCHANGED <<gc_sem, call, boot, unclean, dirtying>>

\* Mutant: the new item does not say which one it replaces.
kv_item_store_no_origin(t) ==
    /\ pc[t] = "write"
    /\ flash' = Appended(flash, write_blk, Normal(KeyOf(t), call[t].val, NoOrigin))
    /\ allowed' = [allowed EXCEPT ![KeyOf(t)] = @ \cup {call[t].val}]
    /\ pc' = [pc EXCEPT ![t] = IF at = NoOrigin THEN "return" ELSE "delete"]
    /\ UNCHANGED <<clean_blk_nums, write_blk, gcVars, gc_sem, kv_mutex, call, boot, unclean,
                   at, dirtying>>

kv_item_store(t) ==
    /\ pc[t] = "write"
    /\ flash' = Appended(flash, write_blk, Normal(KeyOf(t), call[t].val, at))
    /\ allowed' = [allowed EXCEPT ![KeyOf(t)] = @ \cup {call[t].val}]
    /\ pc' = [pc EXCEPT ![t] = IF at = NoOrigin THEN "return" ELSE "delete"]
    /\ UNCHANGED <<clean_blk_nums, write_blk, gcVars, gc_sem, kv_mutex, call, boot, unclean,
                   at, dirtying>>

\* The item that was replaced, or the one of aos_kv_del.
kv_item_remove(t) ==
    /\ pc[t] = "delete"
    /\ kv_item_del(at, Block)
    /\ pc' = [pc EXCEPT ![t] = "return"]
    /\ UNCHANGED <<clean_blk_nums, write_blk, gcVars, gc_sem, kv_mutex, call, boot, unclean,
                   at, allowed>>

\* The call returns 0 and unlocks: a read gives its value from now on.
kv_return(t) ==
    /\ pc[t] = "return" /\ dirtying = None
    /\ allowed' = [key \in Key |-> IF key \in call[t].keys THEN {call[t].val} ELSE allowed[key]]
    /\ pc' = [pc EXCEPT ![t] = "idle"]
    /\ kv_mutex' = None
    /\ UNCHANGED <<flash, clean_blk_nums, write_blk, gcVars, gc_sem, call, boot, unclean,
                   at, dirtying>>

-----------------------------------------------------------------------------
(* aos_kv_del, aos_kv_del_by_prefix and aos_kv_del_all.  They do not wait for garbage *)
(* collection; an item that is not found is an error return.                          *)

aos_kv_del(t, key) ==
    /\ boot = "up" /\ pc[t] = "idle" /\ kv_mutex = None
    /\ kv_item_get(key) # NoOrigin
    /\ kv_mutex' = t
    /\ at' = kv_item_get(key)
    /\ call' = [call EXCEPT ![t] = [keys |-> {key}, val |-> None]]
    /\ pc' = [pc EXCEPT ![t] = "delete"]
    /\ allowed' = [allowed EXCEPT ![key] = @ \cup {None}]
    /\ UNCHANGED <<flash, clean_blk_nums, write_blk, gcVars, gc_sem, boot, unclean, dirtying>>

aos_kv_del_by_prefix(t, keys) ==
    /\ boot = "up" /\ pc[t] = "idle" /\ kv_mutex = None
    /\ kv_mutex' = t
    /\ call' = [call EXCEPT ![t] = [keys |-> keys, val |-> None]]
    /\ pc' = [pc EXCEPT ![t] = "sweep"]
    /\ UNCHANGED <<flash, clean_blk_nums, write_blk, gcVars, gc_sem, boot, unclean, at,
                   dirtying, allowed>>

\* The blocks are traversed one by one, whatever their state.
del_sweep(t) ==
    /\ pc[t] = "sweep" /\ dirtying = None
    /\ LET hits == {p \in NormalItems(flash) : ItemAt(flash, p).key \in call[t].keys} IN
       IF hits = {}
       THEN /\ pc' = [pc EXCEPT ![t] = "return"]
            /\ UNCHANGED <<flash, dirtying, allowed>>
       ELSE /\ kv_item_del(FirstPos(hits), Block)
            /\ allowed' = [allowed EXCEPT ![ItemAt(flash, FirstPos(hits)).key] = @ \cup {None}]
            /\ pc' = pc
    /\ UNCHANGED <<clean_blk_nums, write_blk, gcVars, gc_sem, kv_mutex, call, boot, unclean, at>>

-----------------------------------------------------------------------------
(* aos_kv_gc *)

Dirty == {b \in Block : flash[b].state = "dirty"}

gc_ends(g) ==
    /\ gc_triggered' = FALSE
    /\ kv_mutex' = None
    /\ gc' = [gc EXCEPT ![g] = "signal"]

\* The items go from the first DIRTY block behind the current one to the first CLEAN one.
gc_start(g) ==
    /\ gc[g] = "start" /\ kv_mutex = None
    /\ IF clean_blk_nums = 0 \/ Clean(flash) = {} \/ Dirty = {}
       THEN gc_ends(g) /\ UNCHANGED <<at, write_blk>>
       ELSE /\ kv_mutex' = g
            /\ at' = <<FirstFrom(write_blk, Dirty), 1>>
            /\ write_blk' = CHOOSE b \in Clean(flash) : \A c \in Clean(flash) : b <= c
            /\ gc' = [gc EXCEPT ![g] = "copy"]
            /\ UNCHANGED gc_triggered
    /\ UNCHANGED <<flash, clean_blk_nums, gc_waiter, gc_sem, tasks, boot, unclean, dirtying,
                   allowed>>

\* The items of the victim that are still to be copied.
ToCopy == {p \in NormalItems(flash) : p[1] = at[1] /\ p[2] >= at[2]}

gc_copy(g) ==
    /\ gc[g] = "copy"
    /\ ToCopy # {}
    /\ LET p == FirstPos(ToCopy) IN
       /\ flash' = Appended(flash, write_blk, ItemAt(flash, p))
       /\ at' = <<p[1], p[2] + 1>>
    /\ UNCHANGED <<clean_blk_nums, write_blk, gcVars, gc_sem, kv_mutex, tasks, boot, unclean,
                   dirtying, allowed>>

gc_erase(g) ==
    /\ gc[g] = "copy"
    /\ ToCopy = {}
    /\ flash' = [flash EXCEPT ![at[1]] = [state |-> "erased", items |-> <<>>]]
    /\ gc' = [gc EXCEPT ![g] = "header"]
    /\ UNCHANGED <<clean_blk_nums, write_blk, gc_triggered, gc_waiter, gc_sem, kv_mutex, tasks,
                   boot, unclean, at, dirtying, allowed>>

gc_header(g) ==
    /\ gc[g] = "header"
    /\ flash' = Formatted(flash, at[1])
    /\ clean_blk_nums' = clean_blk_nums + 1
    /\ gc' = [gc EXCEPT ![g] = "used"]
    /\ UNCHANGED <<write_blk, gc_triggered, gc_waiter, gc_sem, kv_mutex, tasks, boot, unclean,
                   at, dirtying, allowed>>

gc_used(g) ==
    /\ gc[g] = "used"
    /\ flash' = [flash EXCEPT ![write_blk].state = "used"]
    /\ clean_blk_nums' = clean_blk_nums - 1
    /\ gc_ends(g)
    /\ UNCHANGED <<write_blk, gc_waiter, gc_sem, tasks, boot, unclean, at, dirtying, allowed>>

\* krhino_sem_give_all: every waiting task goes on, or the semaphore gets one unit.
gc_signal(g) ==
    LET blocked == {t \in Task : pc[t] = "blocked"} IN
    /\ gc[g] = "signal"
    /\ gc' = [gc EXCEPT ![g] = "none"]
    /\ IF gc_waiter = 0 THEN UNCHANGED <<pc, gc_sem>>
       ELSE /\ pc' = [t \in Task |-> IF t \in blocked THEN "lock" ELSE pc[t]]
            /\ gc_sem' = IF blocked = {} /\ gc_sem < GcUnits THEN gc_sem + 1 ELSE gc_sem
    /\ UNCHANGED <<flash, clean_blk_nums, write_blk, gc_triggered, gc_waiter, kv_mutex, call,
                   boot, unclean, at, dirtying, allowed>>

-----------------------------------------------------------------------------
(* Loss of power and kv_init *)

\* The memory of a device that starts: g_kv_mgr is zero and kv_init is at its first block.
NoCall == [keys |-> {}, val |-> None]

\* An item is being written.
Writing == (\E t \in Task : pc[t] = "write")
           \/ (\E g \in Gc : gc[g] = "copy" /\ ToCopy # {})

\* kv-gc copies an item that is back at the position of the item it once replaced.
MovesOwnOrigin ==
    /\ \E g \in Gc : gc[g] = "copy"
    /\ \E p \in NormalItems(flash) : p[1] = at[1] /\ ItemAt(flash, p).origin = p

\* Power is lost between two writes, or in the middle of the write of an item.
PowerLoss ==
    /\ Loss = "any" \/ (Loss = "spared" /\ ~MovesOwnOrigin)
    /\ flash' \in {flash} \cup (IF Writing THEN {Appended(flash, write_blk, Torn)} ELSE {})
    /\ clean_blk_nums' = 0 /\ write_blk' = 0
    /\ gc_triggered' = FALSE /\ gc_waiter' = 0 /\ gc_sem' = 0
    /\ kv_mutex' = None
    /\ pc' = [t \in Task |-> "idle"] /\ call' = [t \in Task |-> NoCall]
    /\ gc' = [g \in Gc |-> "none"]
    /\ boot' = "scan" /\ unclean' = <<>> /\ at' = <<0, 1>> /\ dirtying' = None
    /\ UNCHANGED allowed

\* The scan goes on with position p.
ScanGoes(p) ==
    /\ at' = IF p[1] < N THEN p ELSE NoOrigin
    /\ boot' = IF p[1] < N THEN "scan" ELSE "unclean"

\* A block without a valid header.
kv_init_format ==
    /\ boot = "scan" /\ dirtying = None
    /\ flash[at[1]].state = "erased"
    /\ flash' = Formatted(flash, at[1])
    /\ clean_blk_nums' = clean_blk_nums + 1
    /\ ScanGoes(<<at[1] + 1, 1>>)
    /\ UNCHANGED <<write_blk, gcVars, gc_sem, kv_mutex, tasks, unclean, dirtying, allowed>>

\* The item at p names one of its key as the one it replaced.  An item whose write was cut
\* short is still ITEM_STATE_NORMAL, and passes if its key was written.
Replaced(p, written) ==
    LET o == ItemAt(flash, p).origin IN
    /\ o \in Positions(flash) \ {p}
    /\ \/ ItemAt(flash, o).state = "normal" /\ ItemAt(flash, o).key = ItemAt(flash, p).key
       \/ ItemAt(flash, o).state = "torn" /\ written

\* An item with a wrong CRC is deleted, one that was replaced as well, and a USED block with
\* a deleted item is marked DIRTY.
__item_recovery_cb ==
  \E written \in BOOLEAN :
    CASE ItemAt(flash, at).state = "torn" -> kv_item_del(at, 0 .. at[1])
      [] ItemAt(flash, at).state = "deleted" ->
            /\ dirtying' = IF flash[at[1]].state = "used" THEN at[1] ELSE None
            /\ UNCHANGED flash
      [] Replaced(at, written) -> kv_item_del(ItemAt(flash, at).origin, 0 .. at[1])
      [] OTHER -> UNCHANGED <<flash, dirtying>>

kv_init_item ==
    /\ boot = "scan" /\ dirtying = None
    /\ flash[at[1]].state # "erased"
    /\ at \in Positions(flash)
    /\ __item_recovery_cb
    /\ at' = <<at[1], at[2] + 1>>
    /\ UNCHANGED <<clean_blk_nums, write_blk, gcVars, gc_sem, kv_mutex, tasks, boot, unclean,
                   allowed>>

\* The end of a block: a CLEAN one with items is put aside.
kv_init_block ==
    LET b == at[1] IN
    /\ boot = "scan" /\ dirtying = None
    /\ flash[b].state # "erased"
    /\ at[2] > Len(flash[b].items)
    /\ clean_blk_nums' = clean_blk_nums + (IF flash[b].state = "clean" /\ at[2] = 1 THEN 1 ELSE 0)
    /\ unclean' = IF flash[b].state = "clean" /\ at[2] > 1 THEN Append(unclean, b) ELSE unclean
    /\ ScanGoes(<<b + 1, 1>>)
    /\ UNCHANGED <<flash, write_blk, gcVars, gc_sem, kv_mutex, tasks, dirtying, allowed>>

\* Mutant: a CLEAN block with items is always erased.
kv_init_unclean_erase ==
    /\ boot = "unclean" /\ unclean # <<>>
    /\ flash' = Formatted(flash, Last(unclean))
    /\ clean_blk_nums' = clean_blk_nums + 1
    /\ unclean' = Front(unclean)
    /\ UNCHANGED <<write_blk, gcVars, gc_sem, kv_mutex, tasks, boot, at, dirtying, allowed>>

\* It is kept when there is another block to collect garbage into.
kv_init_unclean ==
    LET b == Last(unclean) IN
    /\ boot = "unclean" /\ unclean # <<>>
    /\ IF clean_blk_nums >= KV_GC_RESERVED
       THEN /\ flash' = [flash EXCEPT ![b].state = "dirty"]
            /\ clean_blk_nums' = clean_blk_nums
       ELSE /\ flash' = Formatted(flash, b)
            /\ clean_blk_nums' = clean_blk_nums + 1
    /\ unclean' = Front(unclean)
    /\ UNCHANGED <<write_blk, gcVars, gc_sem, kv_mutex, tasks, boot, at, dirtying, allowed>>

\* The blocks that end the log: the next one is CLEAN.
LogEnds(f) == {b \in Block \ Clean(f) : (b + 1) % N \in Clean(f)}

\* The rest of kv_init and aos_kv_init: with no clean block, block 0 is formatted.
kv_init_end ==
    LET f == IF clean_blk_nums = 0 THEN Formatted(flash, 0) ELSE flash
        n == IF clean_blk_nums = 0 THEN 1 ELSE clean_blk_nums
        all == n = N
        b == IF all THEN 0 ELSE CHOOSE c \in LogEnds(f) : \A d \in LogEnds(f) : c <= d
        left == n - (IF all THEN 1 ELSE 0)
    IN
    /\ boot = "unclean" /\ unclean = <<>>
    /\ flash' = IF all THEN [f EXCEPT ![0].state = "used"] ELSE f
    /\ clean_blk_nums' = left
    /\ write_blk' = b
    /\ IF Len(f[b].items) = S /\ left < KV_GC_RESERVED + 1
       THEN trigger_gc ELSE UNCHANGED gcVars
    /\ boot' = "up"
    /\ UNCHANGED <<gc_sem, kv_mutex, tasks, unclean, at, dirtying>>
    \* What a read gives now, it gives from now on.
    /\ allowed' = [key \in Key |->
            LET now == IF Found(flash', key) = {} THEN None
                       ELSE ItemAt(flash', FirstPos(Found(flash', key))).val
            IN IF now \in allowed[key] THEN {now} ELSE allowed[key]]

-----------------------------------------------------------------------------
\* A new partition: kv_init finds no header at all.
KvInit ==
    /\ flash = [b \in Block |-> [state |-> "erased", items |-> <<>>]]
    /\ allowed = [key \in Key |-> {None}]
    /\ clean_blk_nums = 0 /\ write_blk = 0
    /\ gc_triggered = FALSE /\ gc_waiter = 0 /\ gc_sem = 0
    /\ kv_mutex = None
    /\ pc = [t \in Task |-> "idle"] /\ call = [t \in Task |-> NoCall]
    /\ gc = [g \in Gc |-> "none"]
    /\ boot = "scan" /\ unclean = <<>> /\ at = <<0, 1>> /\ dirtying = None

TaskStep(t) ==
    \/ gc_waiter_inc(t) \/ gc_sem_wait(t) \/ kv_set_lock(t)
    \/ kv_item_store(t) \/ kv_item_remove(t) \/ del_sweep(t) \/ kv_return(t)

TaskCalls(t) ==
    \/ \E key \in Key, val \in Val : aos_kv_set(t, key, val)
    \/ \E key \in Key : aos_kv_del(t, key)
    \/ \E keys \in KeyGroups : aos_kv_del_by_prefix(t, keys)

GcStep(g) == gc_start(g) \/ gc_copy(g) \/ gc_erase(g) \/ gc_header(g) \/ gc_used(g) \/ gc_signal(g)

BootStep == kv_init_format \/ kv_init_item \/ kv_init_block \/ kv_init_unclean \/ kv_init_end

KvNext ==
    \/ \E t \in Task : TaskCalls(t) \/ TaskStep(t)
    \/ \E g \in Gc : GcStep(g)
    \/ BootStep \/ kv_state_dirty
    \/ PowerLoss

KvSpec == KvInit /\ [][KvNext]_vars

-----------------------------------------------------------------------------
(* Properties *)

\* Nothing is in the middle of a change.
Stable == boot = "up" /\ kv_mutex = None

\* A value that was set and acknowledged is read until the key is set or deleted, through
\* garbage collection and any loss of power; a call that was cut short took place or did not.
Durable == Stable => \A key \in Key : aos_kv_get(key) \in allowed[key]

\* A key has one item, so a deleted value never reappears, and a USED block has no garbage.
OneItemPerKey ==
    Stable =>
        /\ \A p, q \in NormalItems(flash) : ItemAt(flash, p).key = ItemAt(flash, q).key => p = q
        /\ \A p \in Positions(flash) \ NormalItems(flash) : flash[p[1]].state = "dirty"

\* A block is kept for garbage collection ("The reserved block for garbage collection").
\* With more than two blocks a store may take it.
ReserveKept == Stable => clean_blk_nums >= KV_GC_RESERVED

\* A store without space says so: kv_item_calc_pos returns.  With two blocks it does; with
\* more it may go round and round from block 0.
CalcPosReturns == \A t \in Task : pc[t] # "spin"

\* Tasks that wait for garbage collection are counted in gc_waiter and woken at its end: when
\* no kv-gc task is left, nobody waits for one.  A task that counts itself late is left.
NoWaiterLeft == (\A g \in Gc : gc[g] = "none") => \A t \in Task : pc[t] # "blocked"
=============================================================================
