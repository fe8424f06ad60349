----------------------------- MODULE BufferCache -----------------------------
(***************************************************************************)
(* The buffer cache (fs/buffer.c): buffer headers on a master list (no     *)
(* memory) or on the free list (memory and a block, in least recently used *)
(* order), or in the hands of a process.  buf_get(), buf_read(),           *)
(* buf_write(), buf_release(), buf_flush(), buf_shrink() and               *)
(* buf_sync_device(), and what b_free() does to a buffer.                  *)
(*                                                                         *)
(* The kernel is not preempted: `cpu` is the process that is between two   *)
(* scheduling points, and nobody else takes a step then.  The scheduling   *)
(* points are the sleeps, the driver's transfers (drv_read, drv_write) and *)
(* the reschedule() of buf_get().  The walk of buf_flush() over the free   *)
(* list takes one step per buffer.                                         *)
(*                                                                         *)
(* pc[p], where p is (or where it wakes up, when chan[p] is not Awake):    *)
(*   idle    outside                  get    the loop of buf_get()         *)
(*   mem     its loop for memory      read   in drv_read()                 *)
(*   hold    has the buffer           walk   the loop of buf_flush()       *)
(*   write   in drv_write()           unlock the loop that follows it      *)
(*   shrink  the loop of buf_shrink() sync   after down_sync_mutex()       *)
(*   synced  before up_sync_mutex()                                        *)
(***************************************************************************)
EXTENDS Integers, Sequences, FiniteSets, SequencesExt, TLC

CONSTANTS Procs,
          Syncers,     \* processes that call buf_shrink(), buf_sync_device()
          NBuf,        \* buffer headers (MAX_BUFFERS - 2)
          Blocks,      \* disk blocks <<device, number>>
          Freeable,    \* those b_free() may be called for (a bound: all)
          Values,      \* contents of a block
          Zero,        \* the contents of a freshly allocated block
          FlushBatch,  \* buffers written by a buf_get() (16)
          ShrinkBatch, \* buffers removed by buf_shrink(), buf_get() (32)
          WriteErrors, \* may a disk write fail?
          Pressure,    \* may memory get short?
          Nobody, NoBlock

ASSUME BufferCacheAssumption ==
  /\ NBuf \in Nat \ {0} /\ FlushBatch \in Nat \ {0} /\ ShrinkBatch \in Nat \ {0}
  /\ Blocks \subseteq (Nat \ {0}) \X Nat
  /\ Freeable \subseteq Blocks
  /\ Zero \in Values /\ WriteErrors \in BOOLEAN /\ Pressure \in BOOLEAN
  /\ Syncers \subseteq Procs /\ Nobody \notin Procs /\ NoBlock \notin Blocks

Bufs == 1..NBuf
Devices == {b[1] : b \in Blocks}
AnyDevice == 0

VARIABLES cpu,    \* the process that runs in the kernel, or Nobody
          pc, chan,
          arg,    \* locals of the call, see Frames
          buf,    \* buf_vect[]: the fields of a buffer_t, and its memory
          free,   \* the free list, from its head
          master, \* the master list
          disk,
          memory, \* is there memory for a buffer?
          mutex,  \* sync_mutex of each device
          freed   \* blocks between b_free() and the memset() of b_alloc()

vars == <<cpu, pc, chan, arg, buf, free, master, disk, memory, mutex, freed>>
cacheVars == <<buf, free, master, disk, memory, mutex, freed>>

Buffers == [blk : Blocks \union {NoBlock}, busy : BOOLEAN, demand : BOOLEAN,
            dirty : BOOLEAN, valid : BOOLEAN, data : Values]

\* blk, fill: the block p asks for, and whether it comes from b_alloc() and is
\* not read; n: buf_no.  The rest is the frame of buf_flush(): dev, count,
\* remove, its buffers in the current request and the next one of the walk
\* (0 at the end); asked: `requested`; back: its caller.
Frames == [blk : Blocks \union {NoBlock}, fill : BOOLEAN, n : 0..NBuf,
           dev : Devices \union {AnyDevice}, count : Nat, asked : Nat,
           remove : BOOLEAN, req : Seq(Bufs), next : 0..NBuf,
           back : {"", "get", "mem", "shrink", "synced"}]
NoFrame == [blk |-> NoBlock, fill |-> FALSE, n |-> 0, dev |-> AnyDevice,
            count |-> 0, asked |-> 0, remove |-> FALSE, req |-> <<>>,
            next |-> 0, back |-> ""]

\* Sleep addresses: &buf_vect[n], &buf_get, a device's sync_mutex.
OnBuffer(n) == <<"buffer", n>>
OnAny == <<"buf_get", 0>>
OnMutex(d) == <<"mutex", d>>
Awake == <<"awake", 0>>
Channels == {OnBuffer(n) : n \in Bufs} \union {OnMutex(d) : d \in Devices}
              \union {OnAny, Awake}

\* memory.pages: free_pages > HIGH_PAGES_LIMIT; memory.own: buf_free_pages > 0.
Init ==
  /\ cpu = Nobody
  /\ pc = [p \in Procs |-> "idle"] /\ chan = [p \in Procs |-> Awake]
  /\ arg = [p \in Procs |-> NoFrame]
  /\ buf = [n \in Bufs |-> [blk |-> NoBlock, busy |-> FALSE, demand |-> FALSE,
                            dirty |-> FALSE, valid |-> FALSE, data |-> Zero]]
  /\ free = <<>> /\ master = [n \in Bufs |-> n]
  /\ disk = [b \in Blocks |-> Zero]
  /\ memory = [pages |-> TRUE, own |-> TRUE]
  /\ mutex = [d \in Devices |-> 1]
  /\ freed = {}
-----------------------------------------------------------------------------
At(p, label) == cpu \in {Nobody, p} /\ chan[p] = Awake /\ pc[p] = label

\* p goes on at label without / after a scheduling point.
Runs(p, label) == pc' = [pc EXCEPT ![p] = label] /\ cpu' = p
Yields(p, label) == pc' = [pc EXCEPT ![p] = label] /\ cpu' = Nobody
Woken(addresses) == [p \in Procs |-> IF chan[p] \in addresses THEN Awake
                                     ELSE chan[p]]
SleepsOn(p, address) == /\ chan' = [chan EXCEPT ![p] = address]
                        /\ cpu' = Nobody /\ UNCHANGED pc

\* Mutant: the search passes over the busy buffers.
Cached_NotBusy(b) == {n \in Bufs : buf[n].blk = b /\ ~buf[n].busy}

\* buf_hash_search()
Cached(b) == {n \in Bufs : buf[n].blk = b}

\* vm_alloc() may take the last memory, vm_free() may give some back.
MemoryTaken == IF Pressure
               THEN memory' \in [pages : {FALSE, memory.pages}, own : {FALSE, memory.own}]
               ELSE UNCHANGED memory
MemoryGiven == memory' \in [pages : {TRUE, memory.pages}, own : {TRUE, memory.own}]

\* The free list: buf_vect[1].lnext, 0 for its end; the place of a buffer in it, and
\* the list without that buffer, which buf_list_delete() leaves.
First       == IF free = <<>> THEN 0 ELSE Head(free)
Place(n)    == CHOOSE i \in DOMAIN free : free[i] = n
Unlisted(n) == RemoveAt(free, Place(n))

\* A call of buf_flush() by p from `back`.
Walk(p, dev, count, remove, back) ==
  /\ arg' = [arg EXCEPT ![p] = [@ EXCEPT !.dev = dev, !.count = count, !.asked = count, !.remove = remove,
                                         !.req = <<>>, !.back = back, !.next = First]]
  /\ Runs(p, "walk")
  /\ UNCHANGED <<chan, cacheVars>>
-----------------------------------------------------------------------------
(* buf_get(), called by buf_read() or by b_alloc()                         *)

\* A device is removed when it is not mounted and its last descriptor is
\* closed: nobody then asks for its blocks.
InUse(d) == \E p \in Procs : arg[p].blk # NoBlock /\ arg[p].blk[1] = d
Removed(d) == \E p \in Procs : arg[p].dev = d /\ arg[p].remove
                               /\ (pc[p] = "sync" \/ arg[p].back = "synced")

Call(p, b, fill) ==
  /\ At(p, "idle") /\ ~Removed(b[1])
  /\ fill => b \in freed /\ \A q \in Procs : ~(arg[q].fill /\ arg[q].blk = b)
  /\ arg' = [arg EXCEPT ![p] = [NoFrame EXCEPT !.blk = b, !.fill = fill]]
  /\ Runs(p, "get")
  /\ UNCHANGED <<chan, cacheVars>>

\* The block is there, but busy.  (Also: so is the head of the free list.)
WaitFor(p, n) ==
  /\ buf[n].busy
  /\ buf' = [buf EXCEPT ![n].demand = TRUE]
  /\ SleepsOn(p, OnBuffer(n))
  /\ UNCHANGED <<arg, free, master, disk, memory, mutex, freed>>

\* buf_get() returns n: b_alloc() fills it, buf_read() reads it unless valid.
Return(p, n, c) ==
  /\ arg' = [arg EXCEPT ![p].n = n]
  /\ \/ /\ arg[p].fill
        /\ buf' = [c EXCEPT ![n].data = Zero, ![n].valid = TRUE]
        /\ freed' = freed \ {arg[p].blk}
        /\ Yields(p, "hold")
     \/ /\ ~arg[p].fill
        /\ buf' = c
        /\ Yields(p, IF c[n].valid THEN "hold" ELSE "read")
        /\ UNCHANGED freed
  /\ UNCHANGED <<chan, disk, mutex>>

GetCached(p) ==
  /\ At(p, "get")
  /\ \E n \in Cached(arg[p].blk) :
       \/ WaitFor(p, n)
       \/ /\ ~buf[n].busy
          /\ free' = Unlisted(n)
          /\ Return(p, n, [buf EXCEPT ![n].busy = TRUE])
          /\ UNCHANGED <<master, memory>>

\* Mutant: a reallocated buffer still counts as read.
BufUpdate_KeepsValid(n, b) ==
  [buf EXCEPT ![n].blk = b, ![n].busy = TRUE, ![n].valid = buf[n].blk # NoBlock]

\* buf_update() of a buffer that is on no list any more.
BufUpdate(n, b) == [buf EXCEPT ![n].blk = b, ![n].busy = TRUE,
                               ![n].valid = FALSE, ![n].data = Zero]

Missed(p) == At(p, "get") /\ Cached(arg[p].blk) = {}
HasMemory == memory.pages \/ memory.own

GetFromMaster(p) ==
  /\ Missed(p) /\ HasMemory
  /\ master # <<>>
  /\ master' = Tail(master)
  /\ MemoryTaken
  /\ Return(p, Head(master), BufUpdate(Head(master), arg[p].blk))
  /\ UNCHANGED free

\* The least recently used buffer is taken over, unless it must be waited for
\* or written first.
GetFromFree(p) ==
  /\ Missed(p) /\ HasMemory
  /\ master = <<>> /\ free # <<>>
  /\ LET n == Head(free) IN
     \/ WaitFor(p, n)
     \/ /\ ~buf[n].busy /\ ~buf[n].dirty
        /\ free' = Tail(free)
        /\ Return(p, n, BufUpdate(n, arg[p].blk))
        /\ UNCHANGED <<master, memory>>
     \/ /\ ~buf[n].busy /\ buf[n].dirty
        /\ Walk(p, AnyDevice, FlushBatch, FALSE, "get")

GetNothing(p) ==
  /\ Missed(p) /\ HasMemory
  /\ master = <<>> /\ free = <<>>
  /\ SleepsOn(p, OnAny)
  /\ UNCHANGED <<arg, cacheVars>>

GetPostponed(p) ==
  /\ Missed(p) /\ ~HasMemory
  /\ Runs(p, "mem")
  /\ UNCHANGED <<chan, arg, cacheVars>>

\* while (buf_free_pages == 0) if (buf_flush(0, 32, 1) == 0) reschedule();
GetMemory(p) ==
  /\ At(p, "mem")
  /\ \/ memory.own /\ Runs(p, "get") /\ UNCHANGED <<chan, arg, cacheVars>>
     \/ ~memory.own /\ Walk(p, AnyDevice, ShrinkBatch, TRUE, "mem")
-----------------------------------------------------------------------------
(* What a caller does with its buffer: drv_read(), buf_write(),            *)
(* buf_release().                                                          *)

\* Mutant: in_demand is cleared before it is tested.
BufRelease_DemandFirst(p, c) ==
  LET n == arg[p].n IN
  /\ buf' = [c EXCEPT ![n].busy = FALSE, ![n].demand = FALSE]
  /\ free' = IF c[n].valid THEN Append(free, n) ELSE <<n>> \o free
  /\ chan' = Woken({OnAny})
  /\ arg' = [arg EXCEPT ![p] = NoFrame]
  /\ Yields(p, "idle")

\* buf_release(); c is buf_vect[] at the call.
BufRelease(p, c) ==
  LET n == arg[p].n IN
  /\ buf' = [c EXCEPT ![n].busy = FALSE, ![n].demand = FALSE]
  /\ free' = IF c[n].valid THEN Append(free, n) ELSE <<n>> \o free
  /\ chan' = Woken({OnAny} \union IF c[n].demand THEN {OnBuffer(n)} ELSE {})
  /\ arg' = [arg EXCEPT ![p] = NoFrame]
  /\ Yields(p, "idle")

\* drv_read() returns; an error ends buf_read().
ReadDone(p) ==
  /\ At(p, "read")
  /\ LET n == arg[p].n IN
     \/ /\ buf' = [buf EXCEPT ![n].data = disk[arg[p].blk], ![n].valid = TRUE]
        /\ Yields(p, "hold")
        /\ UNCHANGED <<chan, arg, free>>
     \/ BufRelease(p, [buf EXCEPT ![n].valid = FALSE, ![n].dirty = FALSE])
  /\ UNCHANGED <<master, disk, memory, mutex, freed>>

\* Mutant: the buffer is not marked.
BufWrite_Unmarked(p, v) ==
  /\ At(p, "hold") /\ arg[p].blk \notin freed
  /\ BufRelease(p, [buf EXCEPT ![arg[p].n].data = v, ![arg[p].n].valid = TRUE])
  /\ UNCHANGED <<master, disk, memory, mutex, freed>>

\* The holder changes the contents and calls buf_write().  Nobody writes to a
\* block that the file system has freed.
BufWrite(p, v) ==
  /\ At(p, "hold") /\ arg[p].blk \notin freed
  /\ BufRelease(p, [buf EXCEPT ![arg[p].n].data = v, ![arg[p].n].valid = TRUE,
                               ![arg[p].n].dirty = TRUE])
  /\ UNCHANGED <<master, disk, memory, mutex, freed>>

\* It only read.
Release(p) ==
  /\ At(p, "hold") /\ ~arg[p].fill
  /\ BufRelease(p, buf)
  /\ UNCHANGED <<master, disk, memory, mutex, freed>>

\* b_free() does not lock the buffer, nor ask whether it is busy.  The owner
\* of the file frees a block nobody is allocating or about to write.
BFree(b) ==
  /\ cpu = Nobody
  /\ b \in Freeable \ freed
  /\ \A p \in Procs : ~(arg[p].blk = b /\ arg[p].fill)
  /\ freed' = freed \union {b}
  /\ buf' = [n \in Bufs |-> IF n \in Cached(b)
                           THEN [buf[n] EXCEPT !.valid = FALSE, !.dirty = FALSE,
                                               !.data = Zero]
                           ELSE buf[n]]
  /\ UNCHANGED <<cpu, pc, chan, arg, free, master, disk, memory, mutex>>
-----------------------------------------------------------------------------
(* buf_flush(): the walk over the free list, and the write it ends in.     *)

\* buf_remove(): the memory of the buffer is freed.  c is buf_vect[] at the call.
BufRemove(n, c) ==
  /\ buf' = [c EXCEPT ![n] = [c[n] EXCEPT !.blk = NoBlock, !.valid = FALSE, !.data = Zero]]
  /\ free' = Unlisted(n) /\ master' = Append(master, n)
  /\ MemoryGiven

Walking(p) == At(p, "walk") /\ arg[p].next # 0 /\ arg[p].count > 0

\* lnext of n, 0 for the end of the list.
After(n) == IF Place(n) = Len(free) THEN 0 ELSE free[Place(n) + 1]

\* Does block b join the request of frame f?
Joins(f, b) == IF f.req = <<>> THEN f.dev \in {AnyDevice, b[1]}
               ELSE b = <<f.dev, buf[Last(f.req)].blk[2] + 1>>

WalkTake(p) ==
  /\ Walking(p)
  /\ LET f == arg[p] n == f.next b == buf[n].blk IN
     /\ buf[n].dirty /\ Joins(f, b)
     /\ buf' = [buf EXCEPT ![n].busy = TRUE, ![n].dirty = FALSE]
     /\ arg' = [arg EXCEPT ![p] = [f EXCEPT !.dev = b[1], !.req = Append(f.req, n),
                                            !.count = f.count - 1, !.next = After(n)]]
  /\ UNCHANGED <<cpu, pc, chan, free, master, disk, memory, mutex, freed>>

WalkSkip(p) ==
  /\ Walking(p)
  /\ LET f == arg[p] n == f.next IN
     /\ IF buf[n].dirty THEN f.req = <<>> /\ ~Joins(f, buf[n].blk)
                        ELSE ~f.remove \/ buf[n].busy
     /\ arg' = [arg EXCEPT ![p].next = After(n)]
  /\ UNCHANGED <<cpu, pc, chan, cacheVars>>

WalkRemove(p) ==
  /\ Walking(p)
  /\ LET f == arg[p] n == f.next IN
     /\ ~buf[n].dirty /\ f.remove /\ ~buf[n].busy
     /\ BufRemove(n, buf)
     /\ arg' = [arg EXCEPT ![p] = [f EXCEPT !.count = f.count - 1, !.next = After(n)]]
  /\ chan' = Woken({OnAny})
  /\ UNCHANGED <<cpu, pc, disk, mutex, freed>>

\* The request ends at a block that does not follow, at the end of the list,
\* or with the count; without a request buf_flush() returns.
WalkWrite(p) ==
  /\ At(p, "walk") /\ arg[p].req # <<>>
  /\ Walking(p) =>
       buf[arg[p].next].dirty /\ ~Joins(arg[p], buf[arg[p].next].blk)
  /\ Yields(p, "write")
  /\ UNCHANGED <<chan, arg, cacheVars>>

WalkEnd(p) ==
  /\ At(p, "walk") /\ ~Walking(p) /\ arg[p].req = <<>>
  /\ arg' = [arg EXCEPT ![p] = [NoFrame EXCEPT !.blk = arg[p].blk,
                               !.fill = arg[p].fill, !.dev = arg[p].dev]]
  /\ LET nothing == arg[p].asked = arg[p].count back == arg[p].back IN
     \/ back = "mem" /\ nothing /\ Yields(p, "mem")
     \/ back = "shrink" /\ nothing /\ Yields(p, "idle")
     \/ ~(back \in {"mem", "shrink"} /\ nothing) /\ Runs(p, back)
  /\ UNCHANGED <<chan, cacheVars>>

\* drv_write() returns, its result is not looked at.  A transfer that fails has
\* written the first k blocks.
WriteDone(p) ==
  /\ At(p, "write")
  /\ LET req == arg[p].req IN
     \E k \in 0..Len(req) :
        /\ ~WriteErrors => k = Len(req)
        /\ disk' = [b \in Blocks |->
                      IF \E i \in 1..k : buf[req[i]].blk = b
                      THEN buf[req[CHOOSE i \in 1..k : buf[req[i]].blk = b]].data
                      ELSE disk[b]]
  /\ Runs(p, "unlock")
  /\ UNCHANGED <<chan, arg, buf, free, master, memory, mutex, freed>>

\* The buffers of the request are unlocked, and removed, one after the other...
Unlock(p) ==
  /\ At(p, "unlock") /\ arg[p].req # <<>>
  /\ LET f == arg[p] n == Head(f.req) c == [buf EXCEPT ![n].busy = FALSE] IN
     /\ \/ /\ f.remove /\ BufRemove(n, c)
           /\ chan' = Woken({OnAny, OnBuffer(n)})
        \/ /\ ~f.remove /\ buf' = c
           /\ chan' = Woken({OnBuffer(n)})
           /\ UNCHANGED <<free, master, memory>>
     /\ arg' = [arg EXCEPT ![p].req = Tail(f.req)]
  /\ UNCHANGED <<cpu, pc, disk, mutex, freed>>

\* ... and the walk starts again from the head.
Restart(p) ==
  /\ At(p, "unlock") /\ arg[p].req = <<>>
  /\ arg' = [arg EXCEPT ![p].next = First]
  /\ Runs(p, "walk")
  /\ UNCHANGED <<chan, cacheVars>>
-----------------------------------------------------------------------------
(* buf_shrink(), buf_sync_device(), and the rest of the kernel's memory.   *)

CallShrink(p) ==
  /\ At(p, "idle") /\ p \in Syncers
  /\ Runs(p, "shrink")
  /\ UNCHANGED <<chan, arg, cacheVars>>

Shrink(p) ==
  /\ At(p, "shrink")
  /\ \/ memory.pages /\ Yields(p, "idle") /\ UNCHANGED <<chan, arg, cacheVars>>
     \/ ~memory.pages /\ Walk(p, AnyDevice, ShrinkBatch, TRUE, "shrink")

\* down(): who has to sleep is handed the semaphore by up().
Down(p, d) ==
  \/ /\ mutex[d] > 0
     /\ mutex' = [mutex EXCEPT ![d] = @ - 1]
     /\ cpu' = p /\ UNCHANGED chan
  \/ /\ mutex[d] = 0
     /\ chan' = [chan EXCEPT ![p] = OnMutex(d)]
     /\ cpu' = Nobody /\ UNCHANGED mutex

\* up(): one sleeper gets the semaphore, or its value rises.
Up(d) ==
  \/ \E q \in Procs : /\ mutex[d] = 0 /\ chan[q] = OnMutex(d)
                      /\ chan' = [chan EXCEPT ![q] = Awake]
                      /\ UNCHANGED mutex
  \/ /\ mutex[d] > 0 \/ \A q \in Procs : chan[q] # OnMutex(d)
     /\ mutex' = [mutex EXCEPT ![d] = @ + 1]
     /\ UNCHANGED chan

\* buf_sync_device() up to down_sync_mutex().
CallSync(p, d, remove) ==
  /\ At(p, "idle") /\ p \in Syncers
  /\ remove => ~InUse(d)
  /\ arg' = [arg EXCEPT ![p].dev = d, ![p].remove = remove]
  /\ pc' = [pc EXCEPT ![p] = "sync"]
  /\ Down(p, d)
  /\ UNCHANGED <<buf, free, master, disk, memory, freed>>

DelayedWrites == Cardinality({i \in DOMAIN free : buf[free[i]].dirty})

\* As many buffers as wait to be written, whatever their device; all of them
\* (FLUSH_ALL_BUFFERS) to remove the device.
Sync(p) ==
  /\ At(p, "sync")
  /\ LET f == arg[p]
     IN Walk(p, f.dev, IF f.remove THEN 2 * NBuf ELSE DelayedWrites, f.remove, "synced")

\* up_sync_mutex() and the return.
Synced(p) ==
  /\ At(p, "synced")
  /\ Up(arg[p].dev)
  /\ arg' = [arg EXCEPT ![p] = NoFrame]
  /\ Yields(p, "idle")
  /\ UNCHANGED <<buf, free, master, disk, memory, freed>>

\* Other parts of the kernel take and release pages.
Pages ==
  /\ cpu = Nobody /\ Pressure
  /\ memory' = [memory EXCEPT !.pages = ~@]
  /\ UNCHANGED <<cpu, pc, chan, arg, buf, free, master, disk, mutex, freed>>

Next ==
  \/ \E p \in Procs :
       \/ \E b \in Blocks, fill \in BOOLEAN : Call(p, b, fill)
       \/ GetCached(p) \/ GetFromMaster(p) \/ GetFromFree(p) \/ GetNothing(p)
       \/ GetPostponed(p) \/ GetMemory(p)
       \/ ReadDone(p) \/ Release(p)
       \/ \E v \in Values : BufWrite(p, v)
       \/ WalkTake(p) \/ WalkSkip(p) \/ WalkRemove(p) \/ WalkWrite(p) \/ WalkEnd(p)
       \/ WriteDone(p) \/ Unlock(p) \/ Restart(p)
       \/ CallShrink(p) \/ Shrink(p)
       \/ \E d \in Devices, remove \in BOOLEAN : CallSync(p, d, remove)
       \/ Sync(p) \/ Synced(p)
  \/ \E b \in Blocks : BFree(b)
  \/ Pages

Spec == Init /\ [][Next]_vars
-----------------------------------------------------------------------------
\* Every variable has its type; a count never becomes negative.
TypeOK ==
  /\ cpu \in Procs \union {Nobody}
  /\ pc \in [Procs -> {"idle", "get", "mem", "read", "hold", "walk", "write", "unlock",
                       "shrink", "sync", "synced"}]
  /\ chan \in [Procs -> Channels]
  /\ arg \in [Procs -> Frames]
  /\ buf \in [Bufs -> Buffers]
  /\ free \in Seq(Bufs) /\ master \in Seq(Bufs)
  /\ disk \in [Blocks -> Values]
  /\ memory \in [pages : BOOLEAN, own : BOOLEAN]
  /\ mutex \in [Devices -> Nat]
  /\ freed \subseteq Blocks

\* A block is in one buffer at most.
UniqueBuffer ==
  \A m, n \in Bufs : buf[m].blk = buf[n].blk /\ buf[m].blk # NoBlock => m = n

Holds(p, n) == pc[p] \in {"read", "hold"} /\ arg[p].n = n
Sends(p, n) == \E i \in DOMAIN arg[p].req : arg[p].req[i] = n
Times(s, n) == Cardinality({i \in DOMAIN s : s[i] = n})

\* A buffer is once on the master list (without a block), once on the free
\* list, or with one process.  It is busy exactly when a process holds it or
\* writes it to the disk: nobody else then has it, and it is not taken over.
OnePlace ==
  \A n \in Bufs :
    LET holders == {p \in Procs : Holds(p, n)}
        senders == {p \in Procs : Sends(p, n)}
    IN /\ Times(free, n) + Times(master, n) + Cardinality(holders) = 1
       /\ Cardinality(senders) <= Times(free, n)
       /\ buf[n].busy <=> holders \union senders # {}
       /\ buf[n].blk = NoBlock <=> Times(master, n) = 1
       /\ buf[n].dirty => buf[n].valid /\ senders = {}

\* Who sleeps waits for something that will be followed by a wakeup: a busy
\* buffer, any buffer when there is none, a mutex that someone has.
NoLostWakeup ==
  \A p \in Procs :
    /\ \A n \in Bufs : chan[p] = OnBuffer(n) => buf[n].busy /\ buf[n].demand
    /\ chan[p] = OnAny => free = <<>> /\ master = <<>>
    /\ \A d \in Devices : chan[p] = OnMutex(d) => mutex[d] = 0

HasMutex(p, d) == /\ arg[p].dev = d /\ chan[p] # OnMutex(d)
                  /\ \/ pc[p] \in {"sync", "synced"}
                     \/ pc[p] \in {"walk", "write", "unlock"} /\ arg[p].back = "synced"

\* Two synchronizations of a device never overlap, and its mutex is taken
\* exactly while there is one.
SyncExclusive ==
  \A d \in Devices :
    mutex[d] + Cardinality({p \in Procs : HasMutex(p, d)}) = 1

\* All together: every block in one buffer, every buffer in one place, and one
\* synchronization of a device at a time, however buf_get(), buf_flush(), buf_shrink()
\* and buf_sync_device() sleep in between (fs/buffer.c).
BuffersSound == TypeOK /\ UniqueBuffer /\ OnePlace /\ SyncExclusive

\* What is in each block, and who has its buffer.
Contents == [b \in Blocks |->
               IF b \in freed THEN NoBlock
               ELSE IF \E n \in Cached(b) : buf[n].valid
               THEN buf[CHOOSE n \in Cached(b) : buf[n].valid].data
               ELSE disk[b]]
Holder == [b \in Blocks |->
             IF \E p \in Procs : pc[p] = "hold" /\ arg[p].blk = b
             THEN CHOOSE p \in Procs : pc[p] = "hold" /\ arg[p].blk = b
             ELSE Nobody]

\* A process with the buffer sees what the last buf_write() of the block left,
\* whatever was evicted, written, reread or freed in between.
Store == INSTANCE BlockStore WITH Unknown <- NoBlock, store <- Contents, holder <- Holder

ImplementsStore == Store!Spec

\* A step that takes a buffer from its block leaves its contents on the disk.
Written == \A n \in Bufs :
  /\ buf[n].blk # buf'[n].blk /\ buf[n].blk # NoBlock
  /\ buf[n].valid /\ buf[n].blk \notin freed
  => disk'[buf[n].blk] = buf[n].data

\* buf_write(): "the process receiving this buffer will write this buffer to
\* disk before using it".
WrittenBeforeReuse == [][Written]_vars

(***************************************************************************)
(* Constants of the instances TLC checks.                                  *)
(***************************************************************************)
\* Two consecutive blocks, and one that does not follow them.
ThreeBlocks == {<<1, 1>>, <<1, 2>>, <<2, 1>>}
FirstBlock == {<<1, 1>>}
Perms == Permutations(Procs \ Syncers) \union Permutations(Syncers)
=============================================================================
