-------------------------------- MODULE Pipe --------------------------------
(***************************************************************************)
(* One pipe (fs/pipe.c) with its readers and writers: made by sys_pipe()   *)
(* and inherited, or a FIFO that is opened and closed again and again.     *)
(* pipe_open(), pipe_close(), pipe_read(), pipe_write(), the lock of its   *)
(* inode, and what sys_open() and sys_close() do around them.              *)
(*                                                                         *)
(* The kernel is not preempted: `cpu` is the process between two           *)
(* scheduling points.  These are the sleeps and the mapping of a block     *)
(* (rbmap, wbmap), which may wait for the disk.                            *)
(*                                                                         *)
(* pc[p], where p is, or where it wakes up:                                *)
(*   closed, idle  outside, without and with the pipe open                 *)
(*   get           in i_get()              open    pipe_open(), locked     *)
(*   owait         waits for the others    opened  the end of sys_open()   *)
(*   fail          its error return        close   i_lock() of sys_close() *)
(*   closing       pipe_close()            rid     i_lock() of i_release() *)
(*   ridding       i_release()             rlock, relock  the i_lock()s    *)
(*   rloop, rempty the loops of pipe_read()        rcopy  after rbmap()    *)
(*   roomlock, fulllock  the i_lock()s of pipe_write()                     *)
(*   wroom, wloop  its loops               wcopy   after wbmap()           *)
(***************************************************************************)
EXTENDS Integers, Sequences, FiniteSets, FiniteSetsExt, TLC

CONSTANTS Readers, Writers,
          NonBlocking, \* values O_NONBLOCK may have; readers change it at
                       \* any time (fcntl), writers have it from open()
          PipeBuf,     \* PIPE_BUF
          BlkSz,       \* the block size of the file system
          ReadCounts, WriteCounts, \* sizes of requests (a bound: any)
          Bytes,
          Kinds,       \* may it be a FIFO? may it be an unnamed pipe?
          Openers,     \* a bound: readers, and writers, of a FIFO at a time
          MaxCount,    \* a bound of i_pipercnt and i_pipewcnt: interrupted
                       \* opens raise them for ever
          Nobody

ASSUME PipeAssumption ==
  /\ PipeBuf \in Nat \ {0} /\ BlkSz \in Nat \ {0} /\ PipeBuf % BlkSz = 0 /\ MaxCount \in Nat
  /\ ReadCounts \union WriteCounts \subseteq Nat \ {0} /\ Kinds \subseteq BOOLEAN
  /\ Readers \intersect Writers = {} /\ Nobody \notin Readers \union Writers
  /\ NonBlocking \subseteq BOOLEAN /\ Openers \in Nat

Procs == Readers \union Writers

VARIABLES cpu, pc, chan,
          fifo, \* is it opened by sys_open()?
          lock, \* busy and in_demand of the inode
          pipe, \* i_pipesize, i_piperoff, i_pipewoff, i_pipercnt, i_pipewcnt
          file, \* the contents of its blocks
          req   \* locals of read and write: count, rcount/wcount, the offset
                \* that was mapped and bcount

vars == <<cpu, pc, chan, fifo, lock, pipe, file, req>>

NoReq == [count |-> 0, done |-> 0, off |-> 0, n |-> 0]

\* Sleep addresses: the inode, and its fields.
OnInode == "inode"
OnReaders == "readers"
OnWriters == "writers"
OnRoff == "roff"
OnWoff == "woff"
Awake == "awake"

\* sys_pipe(): both ends open; mknod(): nobody has it.
Init ==
  /\ cpu = Nobody
  /\ fifo \in Kinds
  /\ pc = [p \in Procs |-> IF fifo THEN "closed" ELSE "idle"]
  /\ chan = [p \in Procs |-> Awake]
  /\ lock = [busy |-> FALSE, demand |-> FALSE]
  /\ pipe = [size |-> 0, roff |-> 0, woff |-> 0,
             readers |-> IF fifo THEN 0 ELSE 1, writers |-> IF fifo THEN 0 ELSE 1]
  /\ \E b \in Bytes : file = [i \in 0..PipeBuf-1 |-> b]
  /\ req = [p \in Procs |-> NoReq]
-----------------------------------------------------------------------------
At(p, label) == cpu \in {Nobody, p} /\ chan[p] = Awake /\ pc[p] = label
Runs(p, label) == pc' = [pc EXCEPT ![p] = label] /\ cpu' = p
Yields(p, label) == pc' = [pc EXCEPT ![p] = label] /\ cpu' = Nobody
Woken(addresses) == [p \in Procs |-> IF chan[p] \in addresses THEN Awake ELSE chan[p]]

\* Where the callers of i_lock() and i_get() go on with the lock.
Locking == [get |-> "open", close |-> "closing", rid |-> "ridding",
            rlock |-> "rloop", relock |-> "rempty",
            roomlock |-> "wroom", fulllock |-> "wloop"]

Lock(p) ==
  /\ pc[p] \in DOMAIN Locking /\ At(p, pc[p])
  /\ \/ /\ ~lock.busy
        /\ lock' = [lock EXCEPT !.busy = TRUE]
        /\ Runs(p, Locking[pc[p]])
        /\ UNCHANGED chan
     \/ /\ lock.busy
        /\ lock' = [lock EXCEPT !.demand = TRUE]
        /\ chan' = [chan EXCEPT ![p] = OnInode]
        /\ cpu' = Nobody
        /\ UNCHANGED pc
  /\ UNCHANGED <<pipe, file, req>>

\* i_unlock() and wakeups of other addresses.
Unlock(addresses) ==
  /\ lock' = [busy |-> FALSE, demand |-> FALSE]
  /\ chan' = Woken(addresses \union IF lock.demand THEN {OnInode} ELSE {})

\* The same, and p goes to sleep.
UnlockAndSleep(p, addresses, address, label) ==
  /\ lock' = [busy |-> FALSE, demand |-> FALSE]
  /\ chan' = [Woken(addresses \union IF lock.demand THEN {OnInode} ELSE {})
                EXCEPT ![p] = address]
  /\ Yields(p, label)

Side(p) == IF p \in Readers THEN Readers ELSE Writers
Same(p) == IF p \in Readers THEN pipe.readers ELSE pipe.writers
Other(p) == IF p \in Readers THEN pipe.writers ELSE pipe.readers
-----------------------------------------------------------------------------
(* sys_open() of a FIFO, pipe_open().                                      *)

Open(p) ==
  /\ At(p, "closed") /\ fifo
  /\ Cardinality({q \in Side(p) : pc[q] # "closed"}) < Openers /\ Same(p) < MaxCount
  /\ Runs(p, "get")
  /\ UNCHANGED <<chan, lock, pipe, file, req>>

Counted(p) == IF p \in Readers THEN [pipe EXCEPT !.readers = @ + 1]
                               ELSE [pipe EXCEPT !.writers = @ + 1]
OnSame(p) == IF p \in Readers THEN OnReaders ELSE OnWriters
OnOther(p) == IF p \in Readers THEN OnWriters ELSE OnReaders

\* pipe_open() unlocks the inode.  (A signal that came before ends sleep() at
\* once.)
PipeOpen(p) ==
  /\ At(p, "open")
  /\ pipe' = Counted(p)
  /\ \/ /\ Other(p) > 0 \/ TRUE \in NonBlocking
        /\ Unlock({OnSame(p)}) /\ Runs(p, "opened")
     \/ /\ Other(p) = 0 /\ FALSE \in NonBlocking
        /\ \/ UnlockAndSleep(p, {OnSame(p)}, OnOther(p), "owait")
           \/ Unlock({OnSame(p)}) /\ Runs(p, "fail")
  /\ UNCHANGED <<file, req>>

OpenWait(p) ==
  /\ At(p, "owait")
  /\ \/ Other(p) > 0 /\ Runs(p, "opened") /\ UNCHANGED chan
     \/ /\ Other(p) = 0
        /\ chan' = [chan EXCEPT ![p] = OnOther(p)]
        /\ cpu' = Nobody /\ UNCHANGED pc
  /\ UNCHANGED <<lock, pipe, file, req>>

\* sys_open() unlocks the inode (again); i_get_rid_of() after an error.
Opened(p) ==
  /\ \/ At(p, "opened") /\ Yields(p, "idle")
     \/ At(p, "fail") /\ Runs(p, "rid")
  /\ Unlock({})
  /\ UNCHANGED <<pipe, file, req>>
-----------------------------------------------------------------------------
(* sys_close(), pipe_close().                                              *)

\* The processes that inherited one end share its descriptor.
Shared(p) == /\ ~fifo
             /\ \E q \in Side(p) \ {p} : pc[q] \notin {"closed", "close", "closing", "rid", "ridding"}

Close(p) ==
  /\ At(p, "idle")
  /\ IF Shared(p) THEN Yields(p, "closed") ELSE Runs(p, "close")
  /\ UNCHANGED <<chan, lock, pipe, file, req>>

\* The last one wakes the other side (wakeup_and_kill(): the writers).
PipeClose(p) ==
  /\ At(p, "closing")
  /\ pipe' = IF p \in Readers THEN [pipe EXCEPT !.readers = @ - 1]
                              ELSE [pipe EXCEPT !.writers = @ - 1]
  /\ Unlock(IF Same(p) > 1 THEN {} ELSE IF p \in Readers THEN {OnWoff} ELSE {OnRoff})
  /\ Runs(p, "rid")
  /\ UNCHANGED <<file, req>>

\* i_release()
Release(p) ==
  /\ At(p, "ridding")
  /\ Unlock({})
  /\ Yields(p, "closed")
  /\ UNCHANGED <<pipe, file, req>>
-----------------------------------------------------------------------------
(* pipe_read()                                                             *)

Read(p, n) ==
  /\ p \in Readers /\ At(p, "idle")
  /\ req' = [req EXCEPT ![p] = [NoReq EXCEPT !.count = n]]
  /\ Runs(p, "rlock")
  /\ UNCHANGED <<chan, lock, pipe, file>>

Returns(p) == Yields(p, "idle") /\ req' = [req EXCEPT ![p] = NoReq]

\* Mutant: the room that was made is not announced.
ReadExit_NoWakeup(p) == Unlock({}) /\ Returns(p) /\ UNCHANGED <<pipe, file>>

\* pipe_read_exit
ReadExit(p) == Unlock({OnWoff}) /\ Returns(p) /\ UNCHANGED <<pipe, file>>

ReadBreak(p) ==
  /\ At(p, "rloop")
  /\ \/ req[p].count = 0
     \/ pipe.size = 0 /\ (req[p].done > 0 \/ TRUE \in NonBlocking)
  /\ ReadExit(p)

\* pipe_check_writers()
ReadEof(p) ==
  /\ \/ At(p, "rloop") /\ pipe.size = 0 /\ req[p].count > 0
        /\ req[p].done = 0 /\ FALSE \in NonBlocking
     \/ At(p, "rempty")
  /\ pipe.writers = 0
  /\ ReadExit(p)

ReadSleep(p) ==
  /\ \/ At(p, "rloop") /\ req[p].count > 0 /\ req[p].done = 0 /\ FALSE \in NonBlocking
     \/ At(p, "rempty")
  /\ pipe.size = 0 /\ pipe.writers > 0
  /\ \/ UnlockAndSleep(p, {OnWoff}, OnRoff, "relock") /\ UNCHANGED req
     \/ Unlock({OnWoff}) /\ Returns(p)
  /\ UNCHANGED <<pipe, file>>

Wrapped(offset) == IF offset >= PipeBuf THEN 0 ELSE offset
InBlock(offset) == BlkSz - (offset % BlkSz)
Min3(a, b, c) == Min({a, b, c})

\* The offset wraps, bcount is computed, then rbmap() may sleep.
ReadMap(p) ==
  /\ \/ At(p, "rloop") /\ req[p].count > 0
     \/ At(p, "rempty") /\ pipe.writers > 0
  /\ pipe.size > 0
  /\ LET off == Wrapped(pipe.roff) IN
     /\ pipe' = [pipe EXCEPT !.roff = off]
     /\ req' = [req EXCEPT ![p].off = off,
                           ![p].n = Min3(req[p].count, InBlock(off), pipe.size)]
  /\ Yields(p, "rcopy")
  /\ UNCHANGED <<chan, lock, file>>

ReadCopy(p) ==
  /\ At(p, "rcopy")
  /\ LET n == req[p].n IN
     /\ pipe' = [pipe EXCEPT !.roff = @ + n, !.size = @ - n]
     /\ req' = [req EXCEPT ![p] = [NoReq EXCEPT !.count = req[p].count - n,
                                                !.done = req[p].done + n]]
  /\ Runs(p, "rloop")
  /\ UNCHANGED <<chan, lock, file>>
-----------------------------------------------------------------------------
(* pipe_write()                                                            *)

\* Mutant: a small write does not wait until there is room for all of it.
Write_NoRoom(p, n) ==
  /\ p \in Writers /\ At(p, "idle")
  /\ req' = [req EXCEPT ![p] = [NoReq EXCEPT !.count = n]]
  /\ Runs(p, "fulllock")
  /\ UNCHANGED <<chan, lock, pipe, file>>

Write(p, n) ==
  /\ p \in Writers /\ At(p, "idle")
  /\ req' = [req EXCEPT ![p] = [NoReq EXCEPT !.count = n]]
  /\ Runs(p, IF n <= PipeBuf THEN "roomlock" ELSE "fulllock")
  /\ UNCHANGED <<chan, lock, pipe, file>>

\* pipe_check_readers(): SIGPIPE.
WriteBroken(p) ==
  /\ \/ At(p, "wroom") /\ req[p].count > PipeBuf - pipe.size
     \/ At(p, "wloop") /\ req[p].count > 0
  /\ pipe.readers = 0
  /\ Unlock({}) /\ Returns(p)
  /\ UNCHANGED <<pipe, file>>

\* A write of PIPE_BUF bytes or less waits until there is room for all of it.
WriteRoom(p) ==
  /\ At(p, "wroom")
  /\ \/ /\ req[p].count <= PipeBuf - pipe.size
        /\ Runs(p, "wloop") /\ UNCHANGED <<chan, lock, req>>
     \/ /\ req[p].count > PipeBuf - pipe.size /\ pipe.readers > 0
        /\ \/ UnlockAndSleep(p, {}, OnWoff, "roomlock") /\ UNCHANGED req
           \/ Unlock({}) /\ Returns(p)
  /\ UNCHANGED <<pipe, file>>

WriteFull(p) ==
  /\ At(p, "wloop") /\ req[p].count > 0
  /\ pipe.size = PipeBuf /\ pipe.readers > 0
  /\ \/ UnlockAndSleep(p, {OnRoff}, OnWoff, "fulllock") /\ UNCHANGED req
     \/ Unlock({OnRoff}) /\ Returns(p)
  /\ UNCHANGED <<pipe, file>>

\* wbmap() may sleep; without a block the write ends.
WriteMap(p) ==
  /\ At(p, "wloop") /\ req[p].count > 0
  /\ pipe.size # PipeBuf /\ pipe.readers > 0
  /\ LET off == Wrapped(pipe.woff) IN
     /\ pipe' = [pipe EXCEPT !.woff = off]
     /\ req' = [req EXCEPT ![p].off = off,
                           ![p].n = Min3(req[p].count, InBlock(off), PipeBuf - pipe.size)]
  /\ Yields(p, "wcopy")
  /\ UNCHANGED <<chan, lock, file>>

\* Mutant: the offset does not move.
WriteCopy_SameOffset(p, b) ==
  /\ At(p, "wcopy")
  /\ LET off == req[p].off n == req[p].n IN
     /\ file' = [i \in DOMAIN file |-> IF i \in off..off+n-1 THEN b ELSE file[i]]
     /\ pipe' = [pipe EXCEPT !.woff = off + 1, !.size = @ + n]
     /\ req' = [req EXCEPT ![p] = [NoReq EXCEPT !.count = req[p].count - n,
                                                !.done = req[p].done + n]]
  /\ Runs(p, "wloop")
  /\ UNCHANGED <<chan, lock>>

WriteCopy(p, b) ==
  /\ At(p, "wcopy")
  /\ LET off == req[p].off n == req[p].n IN
     /\ file' = [i \in DOMAIN file |-> IF i \in off..off+n-1 THEN b ELSE file[i]]
     /\ pipe' = [pipe EXCEPT !.woff = @ + n, !.size = @ + n]
     /\ req' = [req EXCEPT ![p] = [NoReq EXCEPT !.count = req[p].count - n,
                                                !.done = req[p].done + n]]
  /\ Runs(p, "wloop")
  /\ UNCHANGED <<chan, lock>>

\* The end, or wbmap() found no free block on the device.
WriteExit(p) ==
  /\ \/ At(p, "wloop") /\ req[p].count = 0
     \/ At(p, "wcopy")
  /\ Unlock({OnRoff}) /\ Returns(p)
  /\ UNCHANGED <<pipe, file>>

\* A signal ends an interruptible sleep.
Signal(p) ==
  /\ cpu = Nobody
  /\ chan[p] \in {OnReaders, OnWriters, OnRoff, OnWoff}
  /\ chan' = [chan EXCEPT ![p] = Awake]
  /\ IF pc[p] = "owait" THEN Yields(p, "fail") /\ UNCHANGED req ELSE Returns(p)
  /\ UNCHANGED <<lock, pipe, file>>

Next ==
  UNCHANGED fifo /\ \E p \in Procs :
    \/ Lock(p) \/ Open(p) \/ PipeOpen(p) \/ OpenWait(p) \/ Opened(p)
    \/ Close(p) \/ PipeClose(p) \/ Release(p)
    \/ (\E n \in ReadCounts : Read(p, n)) \/ \E n \in WriteCounts : Write(p, n)
    \/ ReadBreak(p) \/ ReadEof(p) \/ ReadSleep(p) \/ ReadMap(p) \/ ReadCopy(p)
    \/ WriteBroken(p) \/ WriteRoom(p) \/ WriteFull(p) \/ WriteMap(p)
    \/ \E b \in Bytes : WriteCopy(p, b)
    \/ WriteExit(p) \/ Signal(p)

Spec == Init /\ [][Next]_vars

\* For TLC: it does not matter which process, or which byte.
Symmetry == Permutations(Readers) \union Permutations(Writers) \union Permutations(Bytes)
-----------------------------------------------------------------------------
Inside(p) == pc[p] \in {"open", "closing", "ridding", "rloop", "rempty", "rcopy",
                        "wroom", "wloop", "wcopy"}

\* Every variable has its type; no offset leaves the pipe, no size underflows.
TypeOK ==
  /\ cpu \in Procs \union {Nobody} /\ fifo \in BOOLEAN
  /\ pc \in [Procs -> DOMAIN Locking \union {Locking[l] : l \in DOMAIN Locking}
               \union {"closed", "idle", "owait", "opened", "fail", "rcopy", "wcopy"}]
  /\ chan \in [Procs -> {OnInode, OnReaders, OnWriters, OnRoff, OnWoff, Awake}]
  /\ lock \in [busy : BOOLEAN, demand : BOOLEAN]
  /\ pipe \in [size : 0..PipeBuf, roff : 0..PipeBuf, woff : 0..PipeBuf,
               readers : Nat, writers : Nat]
  /\ file \in [0..PipeBuf-1 -> Bytes]
  /\ req \in [Procs -> [count : Nat, done : Nat,
                        off : 0..PipeBuf-1, n : 0..BlkSz]]

\* The pipe is a queue of bytes: nothing is lost, repeated, reordered or
\* overwritten, whoever reads and writes, is interrupted, or closes.
Stream == INSTANCE ByteStream WITH
  Capacity <- PipeBuf,
  queue <- [i \in 1..pipe.size |-> file[(pipe.roff + i - 1) % PipeBuf]]

ImplementsStream == Stream!Spec

\* sys_read(): "we want pipe read/writes to be atomic if <= PIPE_BUF": between
\* the pieces of such a write nobody else writes, and it does not wait for room.
Amid(p) == /\ p \in Writers /\ req[p].done > 0 /\ req[p].count > 0
           /\ req[p].done + req[p].count <= PipeBuf

AtomicWrites ==
  [][\A p \in Procs : Amid(p) =>
       /\ (pipe'.woff - pipe.woff) % PipeBuf # 0 => req'[p].done # req[p].done
       /\ pc'[p] \notin {"roomlock", "fulllock"}]_vars

\* Who sleeps has a reason, or somebody inside who will wake it: a reader
\* sleeps on an empty pipe that has a writer, a writer on a pipe too full for
\* it that has a reader.
NoLostWakeup ==
  \A p \in Procs :
    /\ chan[p] = OnInode => lock.busy /\ lock.demand
    /\ chan[p] = OnRoff => \/ pipe.size = 0 /\ pipe.writers > 0
                           \/ \E q \in Writers : Inside(q)
    /\ chan[p] = OnWoff => \/ /\ pipe.readers > 0
                              /\ pipe.size > 0
                              /\ pc[p] = "roomlock" => req[p].count > PipeBuf - pipe.size
                           \/ \E q \in Readers : Inside(q)

\* pipe_read() and pipe_write() (fs/pipe.c) keep size and offsets within the pipe and
\* let nobody sleep for nothing.
PipeSound == TypeOK /\ NoLostWakeup

\* read() says end of file (0 bytes) only when no byte is left.
EofOnlyAtEnd ==
  [][\A p \in Readers : ReadEof(p) => pipe.size = 0]_vars
=============================================================================
