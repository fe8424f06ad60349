------------------------------ MODULE FsProofs ------------------------------
(***************************************************************************)
(* An unnamed pipe is sound for any number of readers and writers and any  *)
(* sizes: the lock of its inode keeps them apart, offsets and sizes stay   *)
(* within the pipe, nobody sleeps for nothing, small writes are atomic,    *)
(* and what is in it is a queue of bytes.  (A FIFO is not: its second      *)
(* unlock at the end of sys_open() opens the lock for two.)                *)
(* And an inode or a block is free or has one owner, for any file system,  *)
(* processes and calls, as long as sync() has mixed no bitmaps.            *)
(***************************************************************************)
EXTENDS Pipe, Clusters, Lists, SequenceTheorems, FiniteSetTheorems, TLAPS

(***************************************************************************)
(* The invariant.                                                          *)
(***************************************************************************)
Locked == {"open", "closing", "ridding", "rloop", "rempty", "rcopy", "wroom", "wloop", "wcopy"}

\* sys_pipe() has opened it.
Unnamed == ~fifo /\ \A p \in Procs : pc[p] \notin {"get", "open", "owait", "opened", "fail"}

Exclusive == \A p \in Procs : pc[p] \in Locked => lock.busy /\ \A q \in Procs \ {p} : pc[q] \notin Locked

Sides == \A p \in Procs :
    /\ pc[p] \in {"rlock", "relock", "rloop", "rempty", "rcopy"} => p \in Readers
    /\ pc[p] \in {"roomlock", "fulllock", "wroom", "wloop", "wcopy"} => p \in Writers

Asleep == \A p \in Procs :
    /\ chan[p] = OnInode => pc[p] \in DOMAIN Locking /\ lock.busy /\ lock.demand
    /\ chan[p] = OnRoff => pc[p] = "relock"
    /\ chan[p] = OnWoff => pc[p] \in {"roomlock", "fulllock"}
    /\ chan[p] \notin {OnReaders, OnWriters}

\* One descriptor for the readers, one for the writers; who closes it is the last.
EndsCounted ==
    /\ pipe.readers \in {0, 1} /\ pipe.writers \in {0, 1}
    /\ \A p \in Procs : pc[p] \notin {"closed", "rid", "ridding"} => Same(p) = 1
    /\ \A p \in Procs : pc[p] \in {"close", "closing", "rid", "ridding"} =>
          \A q \in Side(p) \ {p} : pc[q] = "closed"

\* The piece that is copied fits, and is where the offset is.
Piece(p, offset, room) ==
    /\ req[p].off = offset /\ offset + req[p].n <= PipeBuf
    /\ req[p].n \in 1..room /\ req[p].n <= req[p].count

Requests == \A p \in Procs :
    /\ pc[p] \in {"closed", "idle", "close", "closing", "rid", "ridding"} => req[p] = NoReq
    /\ pc[p] \in {"relock", "rempty"} => req[p].count > 0
    /\ pc[p] = "rcopy" => Piece(p, pipe.roff, pipe.size)
    /\ pc[p] = "wcopy" => Piece(p, pipe.woff, PipeBuf - pipe.size)
    /\ pc[p] \in {"roomlock", "wroom"} => req[p].done = 0 /\ req[p].count <= PipeBuf
    /\ pc[p] = "fulllock" => req[p].done + req[p].count > PipeBuf
    /\ pc[p] \in {"wloop", "wcopy"} => \/ req[p].done + req[p].count > PipeBuf
                                       \/ req[p].count <= PipeBuf - pipe.size

\* Who sleeps has a reason that only one inside who wakes it can end.
ReaderWaits(p) == chan[p] = OnRoff => \/ pipe.size = 0 /\ pipe.writers > 0
                                      \/ \E q \in Procs : pc[q] \in {"wloop", "wcopy"}
WriterWaits(p) == chan[p] = OnWoff => \/ /\ pipe.readers > 0 /\ pipe.size > 0
                                         /\ pc[p] = "roomlock" => req[p].count > PipeBuf - pipe.size
                                      \/ \E q \in Procs : pc[q] \in {"rloop", "rempty", "rcopy"}
Reasons == \A p \in Procs : ReaderWaits(p) /\ WriterWaits(p)

\* The offsets of the ends are as far apart as the bytes between them, around
\* the end of the pipe, where either may stand before it wraps.
Offsets ==
    \/ pipe.woff = pipe.roff + pipe.size
    \/ pipe.woff = pipe.roff + pipe.size - PipeBuf
    \/ pipe.woff = pipe.roff + pipe.size - 2 * PipeBuf
    \/ pipe.woff = pipe.roff + pipe.size + PipeBuf

PipeInv == TypeOK /\ Unnamed /\ Exclusive /\ Sides /\ Asleep /\ EndsCounted
           /\ Offsets /\ Requests /\ Reasons

(***************************************************************************)
(* Arithmetic.                                                             *)
(***************************************************************************)
LEMMA Around ==
  ASSUME NEW m \in Nat \ {0}, NEW n \in Nat, n < 2 * m
  PROVE  n % m = IF n < m THEN n ELSE n - m
OBVIOUS

LEMMA Quotient ==
  ASSUME NEW n \in Nat, NEW b \in Nat \ {0}
  PROVE  n % b \in 0..b-1 /\ \E q \in Nat : n = q * b + (n % b)
<1>1. n % b \in 0..b-1  OBVIOUS
<1>2. n = (n \div b) * b + (n % b) /\ n \div b \in Nat  OBVIOUS
<1>3. QED BY <1>1, <1>2

\* What is left of a block ends within the pipe.
LEMMA BlockFits ==
  ASSUME NEW off \in 0..PipeBuf-1
  PROVE  InBlock(off) \in 1..BlkSz /\ off + InBlock(off) <= PipeBuf
<1> DEFINE r == off % BlkSz
<1>1. PipeBuf \in Nat \ {0} /\ BlkSz \in Nat \ {0} /\ PipeBuf % BlkSz = 0 /\ off \in Nat /\ off < PipeBuf
  BY PipeAssumption
<1>2. PICK q \in Nat : off = q * BlkSz + r
  BY <1>1, Quotient
<1>3. r \in 0..BlkSz-1
  BY <1>1, Quotient
<1>4. PICK k \in Nat : PipeBuf = k * BlkSz + (PipeBuf % BlkSz)
  BY <1>1, Quotient
<1> HIDE DEF r
<1>5. PipeBuf = k * BlkSz /\ k * BlkSz > q * BlkSz
  BY <1>1, <1>2, <1>3, <1>4
<1>6. q < k
  BY <1>1, <1>5
<1>7. k - q - 1 \in Nat
  BY <1>6
<1>8. (k - q - 1) * BlkSz >= 0
  BY <1>1, <1>7
<1>9. (k - q - 1) * BlkSz = k * BlkSz - q * BlkSz - BlkSz
  BY <1>1
<1>10. InBlock(off) = BlkSz - r
  BY DEF InBlock, r
<1>11. QED BY <1>1, <1>2, <1>3, <1>5, <1>8, <1>9, <1>10

LEMMA LeastOfThree ==
  ASSUME NEW a \in Int, NEW b \in Int, NEW c \in Int
  PROVE  Min3(a, b, c) \in {a, b, c} /\ Min3(a, b, c) <= a /\ Min3(a, b, c) <= b /\ Min3(a, b, c) <= c
<1>1. \E x \in {a, b, c} : \A y \in {a, b, c} : x <= y
  <2>1. CASE a <= b /\ a <= c  BY <2>1
  <2>2. CASE b <= a /\ b <= c  BY <2>2
  <2>3. CASE c <= a /\ c <= b  BY <2>3
  <2>4. QED BY <2>1, <2>2, <2>3
<1>2. QED BY <1>1 DEF Min3, Min

(***************************************************************************)
(* Where a process may be, and what the unlocking of the inode does.       *)
(***************************************************************************)
Labels == {"closed", "idle", "get", "open", "owait", "opened", "fail", "close", "closing", "rid", "ridding",
           "rlock", "relock", "rloop", "rempty", "rcopy", "roomlock", "fulllock", "wroom", "wloop", "wcopy"}
Addresses == {OnInode, OnReaders, OnWriters, OnRoff, OnWoff, Awake}
Unlocking == {"get", "close", "rid", "rlock", "relock", "roomlock", "fulllock"}

LEMMA AllLabels ==
  /\ DOMAIN Locking = Unlocking
  /\ DOMAIN Locking \union {Locking[l] : l \in DOMAIN Locking}
       \union {"closed", "idle", "owait", "opened", "fail", "rcopy", "wcopy"} = Labels
  /\ Locking["close"] = "closing" /\ Locking["rid"] = "ridding" /\ Locking["rlock"] = "rloop"
  /\ Locking["relock"] = "rempty" /\ Locking["roomlock"] = "wroom" /\ Locking["fulllock"] = "wloop"
<1>1. DOMAIN Locking = Unlocking
  BY DEF Locking, Unlocking
<1>2. {Locking[l] : l \in DOMAIN Locking} = {"open", "closing", "ridding", "rloop", "rempty", "wroom", "wloop"}
  BY <1>1 DEF Locking, Unlocking
<1>3. QED BY <1>1, <1>2 DEF Locking, Labels, Unlocking

PipeType  == [size : 0..PipeBuf, roff : 0..PipeBuf, woff : 0..PipeBuf, readers : Nat, writers : Nat]
ReqType   == [count : Nat, done : Nat, off : 0..PipeBuf-1, n : 0..BlkSz]

LEMMA TypeNow ==
  ASSUME TypeOK
  PROVE  /\ cpu \in Procs \union {Nobody} /\ fifo \in BOOLEAN /\ pc \in [Procs -> Labels]
         /\ chan \in [Procs -> Addresses] /\ lock \in [busy : BOOLEAN, demand : BOOLEAN]
         /\ pipe \in PipeType /\ file \in [0..PipeBuf-1 -> Bytes] /\ req \in [Procs -> ReqType]
BY AllLabels DEF TypeOK, PipeType, ReqType, Addresses

LEMMA TypeNext ==
  ASSUME cpu' \in Procs \union {Nobody}, fifo' \in BOOLEAN, pc' \in [Procs -> Labels],
         chan' \in [Procs -> Addresses], lock' \in [busy : BOOLEAN, demand : BOOLEAN],
         pipe' \in PipeType, file' \in [0..PipeBuf-1 -> Bytes], req' \in [Procs -> ReqType]
  PROVE  TypeOK'
BY AllLabels DEF TypeOK, PipeType, ReqType, Addresses

LEMMA NoReqTyped == NoReq \in ReqType
BY PipeAssumption DEF NoReq, ReqType

\* A piece of the request is noted.
LEMMA Mapped ==
  ASSUME req \in [Procs -> ReqType], NEW p \in Procs, NEW off \in 0..PipeBuf-1, NEW n \in 0..BlkSz,
         req' = [req EXCEPT ![p].off = off, ![p].n = n]
  PROVE  /\ req' \in [Procs -> ReqType] /\ req'[p].off = off /\ req'[p].n = n
         /\ req'[p].count = req[p].count /\ req'[p].done = req[p].done
         /\ \A q \in Procs \ {p} : req'[q] = req[q]
<1>1. req'[p] = [req[p] EXCEPT !.off = off, !.n = n] /\ \A q \in Procs \ {p} : req'[q] = req[q]
  OBVIOUS
<1>2. req[p] \in ReqType
  OBVIOUS
<1>3. req'[p] \in ReqType /\ req'[p].off = off /\ req'[p].n = n
      /\ req'[p].count = req[p].count /\ req'[p].done = req[p].done
  BY <1>1, <1>2 DEF ReqType
<1>4. req' \in [Procs -> ReqType]
  BY <1>1, <1>3
<1>5. QED BY <1>1, <1>3, <1>4

\* i_unlock() wakes who waits for the inode, and the others their sleepers.
LEMMA UnlockFacts ==
  ASSUME TypeOK, Asleep, NEW W, Unlock(W)
  PROVE  /\ lock' \in [busy : BOOLEAN, demand : BOOLEAN] /\ ~lock'.busy
         /\ chan' \in [Procs -> Addresses]
         /\ \A q \in Procs : \/ chan'[q] = Awake
                             \/ chan'[q] = chan[q] /\ chan[q] \notin W /\ chan[q] # OnInode
<1>1. chan \in [Procs -> Addresses] /\ Awake \in Addresses
  BY TypeNow DEF Addresses
<1>2. QED BY <1>1 DEF Unlock, Woken, Asleep

LEMMA SleepFacts ==
  ASSUME TypeOK, Asleep, NEW W, NEW p \in Procs, NEW a \in Addresses, NEW l, UnlockAndSleep(p, W, a, l)
  PROVE  /\ lock' \in [busy : BOOLEAN, demand : BOOLEAN] /\ ~lock'.busy
         /\ chan' \in [Procs -> Addresses] /\ chan'[p] = a
         /\ \A q \in Procs \ {p} : \/ chan'[q] = Awake
                                   \/ chan'[q] = chan[q] /\ chan[q] \notin W /\ chan[q] # OnInode
         /\ pc' = [pc EXCEPT ![p] = l] /\ cpu' = Nobody
<1>1. chan \in [Procs -> Addresses] /\ Awake \in Addresses
  BY TypeNow DEF Addresses
<1>2. QED BY <1>1 DEF UnlockAndSleep, Woken, Asleep, Yields

\* A process goes from one place to another, perhaps takes or gives back the lock.
LEMMA Moves ==
  ASSUME PipeInv, fifo' = fifo, NEW p \in Procs,
         NEW l \in Labels \ {"get", "open", "owait", "opened", "fail"}, pc' = [pc EXCEPT ![p] = l],
         l \in Locked => lock'.busy /\ (pc[p] \in Locked \/ ~lock.busy),
         lock'.busy = lock.busy \/ lock'.busy \/ pc[p] \in Locked,
         l \in {"rlock", "relock", "rloop", "rempty", "rcopy"} => p \in Readers,
         l \in {"roomlock", "fulllock", "wroom", "wloop", "wcopy"} => p \in Writers
  PROVE  /\ pc' \in [Procs -> Labels] /\ pc'[p] = l /\ \A q \in Procs \ {p} : pc'[q] = pc[q]
         /\ Unnamed' /\ Exclusive' /\ Sides'
<1>1. pc \in [Procs -> Labels] /\ TypeOK
  BY TypeNow DEF PipeInv
<1>2. pc' \in [Procs -> Labels] /\ pc'[p] = l /\ \A q \in Procs \ {p} : pc'[q] = pc[q]
  BY <1>1
<1>3. Unnamed'
  BY <1>2 DEF Unnamed, PipeInv
<1>4. Sides'
  BY <1>2 DEF Sides, PipeInv
<1>5. \A q \in Procs : pc'[q] \in Locked => lock'.busy /\ \A r \in Procs \ {q} : pc'[r] \notin Locked
  <2> TAKE q \in Procs
  <2> HAVE pc'[q] \in Locked
  <2>1. CASE q = p
    BY <1>2, <2>1 DEF Exclusive, PipeInv
  <2>2. CASE q # p
    <3>1. pc[q] \in Locked /\ pc[p] \notin Locked /\ lock.busy
      BY <1>2, <2>2 DEF Exclusive, PipeInv
    <3>2. l \notin Locked /\ lock'.busy
      BY <3>1
    <3>3. QED BY <1>2, <2>2, <3>1, <3>2 DEF Exclusive, PipeInv
  <2>3. QED BY <2>1, <2>2
<1>6. QED BY <1>2, <1>3, <1>4, <1>5 DEF Exclusive

\* A process that has an end keeps it, and the other ends are what they were.
LEMMA EndsKept ==
  ASSUME EndsCounted, NEW p \in Procs, pc[p] # "closed", pc'[p] # "closed",
         \A q \in Procs \ {p} : pc'[q] = pc[q],
         pipe'.readers = pipe.readers, pipe'.writers = pipe.writers,
         pc[p] \in {"rid", "ridding"} => pc'[p] \in {"rid", "ridding"},
         pc'[p] \in {"close", "closing", "rid", "ridding"} => pc[p] \in {"close", "closing", "rid", "ridding"}
  PROVE  EndsCounted'
<1>1. ASSUME NEW q \in Procs, pc'[q] \notin {"closed", "rid", "ridding"} PROVE Same(q)' = 1
  <2>1. pc[q] \notin {"closed", "rid", "ridding"}
    BY <1>1
  <2>2. QED BY <2>1 DEF EndsCounted, Same
<1>2. ASSUME NEW q \in Procs, pc'[q] \in {"close", "closing", "rid", "ridding"}
      PROVE  \A r \in Side(q) \ {q} : pc'[r] = "closed"
  <2>1. pc[q] \in {"close", "closing", "rid", "ridding"}
    BY <1>2
  <2>2. \A r \in Side(q) \ {q} : pc[r] = "closed" /\ r # p
    BY <2>1 DEF EndsCounted
  <2>3. QED BY <2>2 DEF Side, Procs
<1>3. QED BY <1>1, <1>2 DEF EndsCounted, Side

(***************************************************************************)
(* The end of a read or write, also by a signal: its side wakes the other. *)
(***************************************************************************)
LEMMA Exits ==
  ASSUME PipeInv, fifo' = fifo, NEW p \in Procs, NEW W,
         pc[p] \in {"rloop", "rempty", "wroom", "wloop", "wcopy"}, chan[p] = Awake,
         Unlock(W), Returns(p), UNCHANGED <<pipe, file>>,
         p \in Readers => OnWoff \in W,
         pc[p] \in {"wloop", "wcopy"} => OnRoff \in W \/ pipe.readers = 0
  PROVE  PipeInv'
<1>1. TypeOK /\ Asleep /\ Unnamed /\ Sides /\ EndsCounted /\ Offsets /\ Requests /\ Reasons
  BY DEF PipeInv
<1>2. /\ pc' = [pc EXCEPT ![p] = "idle"] /\ cpu' = Nobody /\ req' = [req EXCEPT ![p] = NoReq]
      /\ pipe' = pipe /\ file' = file /\ pc[p] \in Locked
  BY DEF Returns, Yields, Locked
<1>3. /\ lock' \in [busy : BOOLEAN, demand : BOOLEAN] /\ ~lock'.busy
      /\ chan' \in [Procs -> Addresses]
      /\ \A q \in Procs : \/ chan'[q] = Awake
                          \/ chan'[q] = chan[q] /\ chan[q] \notin W /\ chan[q] # OnInode
  BY <1>1, UnlockFacts
<1>4. /\ pc' \in [Procs -> Labels] /\ pc'[p] = "idle" /\ \A q \in Procs \ {p} : pc'[q] = pc[q]
      /\ Unnamed' /\ Exclusive' /\ Sides'
  BY <1>2, Moves DEF Labels, Locked
<1>5. /\ req' \in [Procs -> ReqType] /\ req'[p] = NoReq /\ \A q \in Procs \ {p} : req'[q] = req[q]
  BY <1>1, <1>2, TypeNow, NoReqTyped
<1>6. TypeOK'
  BY <1>1, <1>2, <1>3, <1>4, <1>5, TypeNow, TypeNext
<1>7. chan'[p] = Awake
  BY <1>3
<1>8. Asleep'
  BY <1>1, <1>3, <1>4, <1>7 DEF Asleep, OnInode, OnRoff, OnWoff, OnReaders, OnWriters, Awake
<1>9. EndsCounted'
  BY <1>1, <1>2, <1>4, EndsKept
<1>10. Offsets'
  BY <1>1, <1>2 DEF Offsets
<1>11. Requests'
  BY <1>1, <1>2, <1>4, <1>5 DEF Requests, Piece
<1>12. ASSUME NEW q \in Procs PROVE ReaderWaits(q)' /\ WriterWaits(q)'
  <2>1. CASE chan'[q] = OnRoff
    <3>1. q # p /\ chan[q] = OnRoff /\ OnRoff \notin W
      BY <1>3, <1>7, <2>1 DEF OnRoff, Awake
    <3>2. pc[q] = "relock" /\ pipe.readers = 1
      BY <1>1, <3>1 DEF Asleep, Sides, EndsCounted, Same
    <3>3. pc[p] \notin {"wloop", "wcopy"}
      BY <3>1, <3>2
    <3>4. QED BY <1>1, <1>2, <1>4, <2>1, <3>1, <3>3 DEF Reasons, ReaderWaits, WriterWaits, OnRoff, OnWoff
  <2>2. CASE chan'[q] = OnWoff
    <3>1. q # p /\ chan[q] = OnWoff /\ OnWoff \notin W
      BY <1>3, <1>7, <2>2 DEF OnWoff, Awake
    <3>2. pc[p] \notin {"rloop", "rempty", "rcopy"}
      BY <1>1, <3>1 DEF Sides
    <3>3. QED BY <1>1, <1>2, <1>4, <1>5, <2>2, <3>1, <3>2 DEF Reasons, ReaderWaits, WriterWaits, OnRoff, OnWoff
  <2>3. QED BY <2>1, <2>2 DEF ReaderWaits, WriterWaits
<1>13. QED BY <1>4, <1>6, <1>8, <1>9, <1>10, <1>11, <1>12 DEF PipeInv, Reasons

(***************************************************************************)
(* A sleep: with a reason, after the other side has been woken.            *)
(***************************************************************************)
LEMMA Sleeps ==
  ASSUME PipeInv, fifo' = fifo, NEW p \in Procs, NEW W, NEW a, NEW l,
         pc[p] \in {"rloop", "rempty", "wroom", "wloop"},
         UnlockAndSleep(p, W, a, l), UNCHANGED <<pipe, file, req>>,
         p \in Readers => OnWoff \in W,
         pc[p] = "wloop" => OnRoff \in W,
         \/ /\ l = "relock" /\ a = OnRoff /\ p \in Readers
            /\ pipe.size = 0 /\ pipe.writers > 0 /\ req[p].count > 0
         \/ /\ l \in {"roomlock", "fulllock"} /\ a = OnWoff /\ p \in Writers
            /\ pipe.readers > 0 /\ pipe.size > 0
            /\ l = "roomlock" => pc[p] = "wroom" /\ req[p].count > PipeBuf - pipe.size
            /\ l = "fulllock" => req[p].done + req[p].count > PipeBuf
  PROVE  PipeInv'
<1>1. TypeOK /\ Asleep /\ Unnamed /\ Sides /\ EndsCounted /\ Offsets /\ Requests /\ Reasons
  BY DEF PipeInv
<1>2. /\ a \in Addresses /\ a # OnInode /\ a # Awake /\ l \in {"relock", "roomlock", "fulllock"}
      /\ pc[p] \in Locked /\ req' = req /\ pipe' = pipe /\ file' = file
  BY DEF Addresses, OnRoff, OnWoff, OnInode, Awake, Locked
<1>3. /\ lock' \in [busy : BOOLEAN, demand : BOOLEAN] /\ ~lock'.busy
      /\ chan' \in [Procs -> Addresses] /\ chan'[p] = a
      /\ \A q \in Procs \ {p} : \/ chan'[q] = Awake
                                \/ chan'[q] = chan[q] /\ chan[q] \notin W /\ chan[q] # OnInode
      /\ pc' = [pc EXCEPT ![p] = l] /\ cpu' = Nobody
  BY <1>1, <1>2, SleepFacts
<1>4. /\ pc' \in [Procs -> Labels] /\ pc'[p] = l /\ \A q \in Procs \ {p} : pc'[q] = pc[q]
      /\ Unnamed' /\ Exclusive' /\ Sides'
  <2>1. l \in Labels \ {"get", "open", "owait", "opened", "fail"} /\ l \notin Locked
    BY <1>2 DEF Labels, Locked
  <2>2. QED BY <1>2, <1>3, <2>1, Moves
<1>5. TypeOK'
  BY <1>1, <1>2, <1>3, <1>4, TypeNow, TypeNext
<1>6. Asleep'
  BY <1>1, <1>2, <1>3, <1>4 DEF Asleep, OnInode, OnRoff, OnWoff, OnReaders, OnWriters, Awake
<1>7. EndsCounted'
  BY <1>1, <1>2, <1>4, EndsKept
<1>8. Offsets'
  BY <1>1, <1>2 DEF Offsets
<1>9. Requests'
  BY <1>1, <1>2, <1>4 DEF Requests, Piece
<1>10. ASSUME NEW q \in Procs PROVE ReaderWaits(q)' /\ WriterWaits(q)'
  <2>1. CASE q = p
    BY <1>2, <1>3, <1>4, <2>1 DEF ReaderWaits, WriterWaits, OnRoff, OnWoff
  <2>2. CASE q # p /\ chan'[q] = OnRoff
    <3>1. chan[q] = OnRoff /\ OnRoff \notin W
      BY <1>3, <2>2 DEF OnRoff, Awake
    <3>2. pc[p] \notin {"wloop", "wcopy"}
      BY <3>1
    <3>3. QED BY <1>1, <1>2, <1>4, <2>2, <3>1, <3>2 DEF Reasons, ReaderWaits, WriterWaits, OnRoff, OnWoff
  <2>3. CASE q # p /\ chan'[q] = OnWoff
    <3>1. chan[q] = OnWoff /\ OnWoff \notin W
      BY <1>3, <2>3 DEF OnWoff, Awake
    <3>2. pc[p] \notin {"rloop", "rempty", "rcopy"}
      BY <1>1, <3>1 DEF Sides
    <3>3. QED BY <1>1, <1>2, <1>4, <2>3, <3>1, <3>2 DEF Reasons, ReaderWaits, WriterWaits, OnRoff, OnWoff
  <2>4. QED BY <2>1, <2>2, <2>3 DEF ReaderWaits, WriterWaits
<1>11. QED BY <1>4, <1>5, <1>6, <1>7, <1>8, <1>9, <1>10 DEF PipeInv, Reasons

(***************************************************************************)
(* i_lock(): the lock is taken, or asked for.                              *)
(***************************************************************************)
LEMMA LockKeeps ==
  ASSUME PipeInv, fifo' = fifo, NEW p \in Procs, Lock(p)
  PROVE  PipeInv'
<1>1. TypeOK /\ Asleep /\ Unnamed /\ Exclusive /\ Sides /\ EndsCounted /\ Offsets /\ Requests /\ Reasons
  BY DEF PipeInv
<1>2. /\ pc[p] \in Unlocking \ {"get"} /\ chan[p] = Awake
      /\ pipe' = pipe /\ file' = file /\ req' = req
  BY <1>1, AllLabels DEF Lock, At, Unnamed
<1>3. /\ cpu \in Procs \union {Nobody} /\ fifo \in BOOLEAN /\ pc \in [Procs -> Labels]
      /\ chan \in [Procs -> Addresses] /\ lock \in [busy : BOOLEAN, demand : BOOLEAN]
      /\ pipe \in PipeType /\ file \in [0..PipeBuf-1 -> Bytes] /\ req \in [Procs -> ReqType]
  BY <1>1, TypeNow
<1>4. CASE ~lock.busy /\ lock' = [lock EXCEPT !.busy = TRUE] /\ Runs(p, Locking[pc[p]]) /\ UNCHANGED chan
  <2> DEFINE l == Locking[pc[p]]
  <2>1. /\ l \in {"closing", "ridding", "rloop", "rempty", "wroom", "wloop"}
        /\ pc[p] = "close" <=> l = "closing"
        /\ pc[p] = "rid" <=> l = "ridding"
        /\ pc[p] = "rlock" <=> l = "rloop"
        /\ pc[p] = "relock" <=> l = "rempty"
        /\ pc[p] = "roomlock" <=> l = "wroom"
        /\ pc[p] = "fulllock" <=> l = "wloop"
    BY <1>2, AllLabels DEF Unlocking
  <2>2. pc' = [pc EXCEPT ![p] = l] /\ cpu' = p /\ chan' = chan
    BY <1>4 DEF Runs
  <2>3. lock' \in [busy : BOOLEAN, demand : BOOLEAN] /\ lock'.busy
    BY <1>3, <1>4
  <2> HIDE DEF l
  <2>4. l \in Labels \ {"get", "open", "owait", "opened", "fail"} /\ l \in Locked
        /\ (l \in {"rlock", "relock", "rloop", "rempty", "rcopy"} => p \in Readers)
        /\ (l \in {"roomlock", "fulllock", "wroom", "wloop", "wcopy"} => p \in Writers)
    BY <1>1, <1>2, <2>1 DEF Labels, Locked, Sides
  <2>5. /\ pc' \in [Procs -> Labels] /\ pc'[p] = l /\ \A q \in Procs \ {p} : pc'[q] = pc[q]
        /\ Unnamed' /\ Exclusive' /\ Sides'
    BY <1>4, <2>2, <2>3, <2>4, Moves
  <2>6. TypeOK'
    BY <1>2, <1>3, <2>2, <2>3, <2>5, TypeNext
  <2>7. Asleep'
    BY <1>1, <1>2, <1>4, <2>2, <2>5 DEF Asleep, Awake, OnInode, OnRoff, OnWoff
  <2>8. EndsCounted'
    BY <1>1, <1>2, <2>1, <2>5, EndsKept DEF Unlocking
  <2>9. Offsets'
    BY <1>1, <1>2 DEF Offsets
  <2>10. Requests'
    BY <1>1, <1>2, <2>1, <2>5 DEF Requests, Piece
  <2>11. Reasons'
    BY <1>1, <1>2, <2>1, <2>2, <2>5 DEF Reasons, ReaderWaits, WriterWaits, Awake, OnRoff, OnWoff, Unlocking
  <2>12. QED BY <2>5, <2>6, <2>7, <2>8, <2>9, <2>10, <2>11 DEF PipeInv
<1>5. CASE /\ lock.busy /\ lock' = [lock EXCEPT !.demand = TRUE] /\ chan' = [chan EXCEPT ![p] = OnInode]
           /\ cpu' = Nobody /\ UNCHANGED pc
  <2>1. /\ lock' \in [busy : BOOLEAN, demand : BOOLEAN] /\ lock'.busy /\ lock'.demand /\ pc' = pc
        /\ chan' \in [Procs -> Addresses] /\ chan'[p] = OnInode /\ \A q \in Procs \ {p} : chan'[q] = chan[q]
    BY <1>3, <1>5 DEF Addresses
  <2>2. TypeOK'
    BY <1>2, <1>3, <1>5, <2>1, TypeNext
  <2>3. Unnamed' /\ Exclusive' /\ Sides' /\ EndsCounted' /\ Offsets' /\ Requests'
    BY <1>1, <1>2, <2>1 DEF Unnamed, Exclusive, Sides, EndsCounted, Same, Side, Offsets, Requests, Piece
  <2>4. Asleep'
    BY <1>1, <1>2, <2>1, AllLabels DEF Asleep, OnInode, OnRoff, OnWoff, OnReaders, OnWriters
  <2>5. Reasons'
    BY <1>1, <1>2, <2>1 DEF Reasons, ReaderWaits, WriterWaits, OnInode, OnRoff, OnWoff
  <2>6. QED BY <2>2, <2>3, <2>4, <2>5 DEF PipeInv
<1>6. QED BY <1>4, <1>5 DEF Lock

(***************************************************************************)
(* sys_close(), pipe_close(), i_release().                                 *)
(***************************************************************************)
LEMMA CloseKeeps ==
  ASSUME PipeInv, fifo' = fifo, NEW p \in Procs, Close(p)
  PROVE  PipeInv'
<1>1. TypeOK /\ Asleep /\ Unnamed /\ Exclusive /\ Sides /\ EndsCounted /\ Offsets /\ Requests /\ Reasons
  BY DEF PipeInv
<1> DEFINE l == IF Shared(p) THEN "closed" ELSE "close"
<1>2. /\ pc[p] = "idle" /\ chan[p] = Awake /\ pc' = [pc EXCEPT ![p] = l] /\ cpu' \in Procs \union {Nobody}
      /\ pipe' = pipe /\ file' = file /\ req' = req /\ lock' = lock /\ chan' = chan
  BY DEF Close, At, Yields, Runs
<1>3. /\ pc' \in [Procs -> Labels] /\ pc'[p] = l /\ \A q \in Procs \ {p} : pc'[q] = pc[q]
      /\ Unnamed' /\ Exclusive' /\ Sides'
  BY <1>2, Moves DEF Labels, Locked
<1>4. Shared(p) => \E q \in Side(p) \ {p} : pc[q] \notin {"closed", "close", "closing", "rid", "ridding"}
  BY DEF Shared
<1>5. ~Shared(p) => \A q \in Side(p) \ {p} : pc[q] \in {"closed", "close", "closing", "rid", "ridding"}
  BY <1>1 DEF Shared, Unnamed
<1>6. l \in {"closed", "close"} /\ (l = "close" <=> ~Shared(p))
  OBVIOUS
<1> HIDE DEF l
<1>7. TypeOK'
  BY <1>1, <1>2, <1>3, TypeNow, TypeNext
<1>8. Asleep' /\ Offsets' /\ Requests'
  BY <1>1, <1>2, <1>3, <1>6 DEF Asleep, Offsets, Requests, Piece, Awake, OnInode, OnRoff, OnWoff
<1>9. Reasons'
  BY <1>1, <1>2, <1>3, <1>6 DEF Reasons, ReaderWaits, WriterWaits, Awake, OnRoff, OnWoff
<1>10. ASSUME NEW q \in Procs, pc'[q] \notin {"closed", "rid", "ridding"} PROVE Same(q)' = 1
  <2>1. pc[q] \notin {"closed", "rid", "ridding"}
    BY <1>2, <1>3, <1>10
  <2>2. QED BY <1>1, <1>2, <2>1 DEF EndsCounted, Same
<1>11. ASSUME NEW q \in Procs, pc'[q] \in {"close", "closing", "rid", "ridding"}
       PROVE  \A r \in Side(q) \ {q} : pc'[r] = "closed"
  <2>1. CASE q = p
    <3>1. ~Shared(p)
      BY <1>3, <1>6, <1>11, <2>1
    <3>2. ASSUME NEW r \in Side(p) \ {p}, pc[r] # "closed" PROVE FALSE
      <4>1. pc[r] \in {"close", "closing", "rid", "ridding"} /\ r \in Procs /\ p \in Side(r) \ {r}
        BY <1>5, <3>1, <3>2, PipeAssumption DEF Side, Procs
      <4>2. QED BY <1>1, <1>2, <4>1 DEF EndsCounted
    <3>3. QED BY <1>3, <2>1, <3>2 DEF Side, Procs
  <2>2. CASE q # p
    <3>1. pc[q] \in {"close", "closing", "rid", "ridding"}
      BY <1>3, <1>11, <2>2
    <3>2. \A r \in Side(q) \ {q} : pc[r] = "closed" /\ r # p
      BY <1>1, <1>2, <3>1 DEF EndsCounted
    <3>3. QED BY <1>3, <3>2 DEF Side, Procs
  <2>3. QED BY <2>1, <2>2
<1>12. EndsCounted'
  BY <1>1, <1>2, <1>10, <1>11 DEF EndsCounted, Side
<1>13. QED BY <1>3, <1>7, <1>8, <1>9, <1>12 DEF PipeInv

LEMMA PipeCloseKeeps ==
  ASSUME PipeInv, fifo' = fifo, NEW p \in Procs, PipeClose(p)
  PROVE  PipeInv'
<1>1. TypeOK /\ Asleep /\ Unnamed /\ Exclusive /\ Sides /\ EndsCounted /\ Offsets /\ Requests /\ Reasons
  BY DEF PipeInv
<1>2. /\ pc[p] = "closing" /\ chan[p] = Awake /\ pc' = [pc EXCEPT ![p] = "rid"] /\ cpu' = p
      /\ file' = file /\ req' = req
  BY DEF PipeClose, At, Runs
<1> DEFINE W == IF p \in Readers THEN {OnWoff} ELSE {OnRoff}
<1>3. Same(p) = 1 /\ Unlock(W)
  BY <1>1, <1>2 DEF PipeClose, EndsCounted
<1>4. pipe \in PipeType
  BY <1>1, TypeNow
<1>5. /\ pipe' \in PipeType /\ pipe'.size = pipe.size /\ pipe'.roff = pipe.roff /\ pipe'.woff = pipe.woff
      /\ IF p \in Readers THEN pipe'.readers = 0 /\ pipe'.writers = pipe.writers
                          ELSE pipe'.writers = 0 /\ pipe'.readers = pipe.readers
  BY <1>3, <1>4 DEF PipeClose, PipeType, Same
<1>6. /\ lock' \in [busy : BOOLEAN, demand : BOOLEAN] /\ ~lock'.busy
      /\ chan' \in [Procs -> Addresses]
      /\ \A q \in Procs : \/ chan'[q] = Awake
                          \/ chan'[q] = chan[q] /\ chan[q] \notin W /\ chan[q] # OnInode
  BY <1>1, <1>3, UnlockFacts
<1> HIDE DEF W
<1>7. /\ pc' \in [Procs -> Labels] /\ pc'[p] = "rid" /\ \A q \in Procs \ {p} : pc'[q] = pc[q]
      /\ Unnamed' /\ Exclusive' /\ Sides'
  BY <1>2, Moves DEF Labels, Locked
<1>8. TypeOK'
  BY <1>1, <1>2, <1>5, <1>6, <1>7, TypeNow, TypeNext
<1>9. chan'[p] = Awake
  BY <1>2, <1>6
<1>10. Asleep'
  BY <1>1, <1>6, <1>7, <1>9 DEF Asleep, OnInode, OnRoff, OnWoff, OnReaders, OnWriters, Awake
<1>11. Offsets' /\ Requests'
  BY <1>1, <1>2, <1>5, <1>7 DEF Offsets, Requests, Piece
<1>12. \A q \in Side(p) \ {p} : pc[q] = "closed"
  BY <1>1, <1>2 DEF EndsCounted
<1>13. ASSUME NEW q \in Procs, pc'[q] \notin {"closed", "rid", "ridding"} PROVE Same(q)' = 1
  <2>1. q # p /\ pc[q] \notin {"closed", "rid", "ridding"}
    BY <1>7, <1>13
  <2>2. Same(q) = 1 /\ q \notin Side(p)
    BY <1>1, <1>12, <2>1 DEF EndsCounted
  <2>3. QED BY <1>5, <2>2 DEF Same, Side, Procs
<1>14. ASSUME NEW q \in Procs, pc'[q] \in {"close", "closing", "rid", "ridding"}
       PROVE  \A r \in Side(q) \ {q} : pc'[r] = "closed"
  <2>1. pc[q] \in {"close", "closing", "rid", "ridding"}
    BY <1>2, <1>7, <1>14
  <2>2. \A r \in Side(q) \ {q} : pc[r] = "closed" /\ r # p
    BY <1>1, <1>2, <2>1 DEF EndsCounted
  <2>3. QED BY <1>7, <2>2 DEF Side, Procs
<1>15. EndsCounted'
  BY <1>1, <1>5, <1>13, <1>14 DEF EndsCounted, Side
<1>16. ASSUME NEW q \in Procs PROVE ReaderWaits(q)' /\ WriterWaits(q)'
  <2>1. CASE chan'[q] = OnRoff
    <3>1. chan[q] = OnRoff /\ OnRoff \notin W
      BY <1>6, <2>1 DEF OnRoff, Awake
    <3>2. p \in Readers
      BY <3>1 DEF W
    <3>3. QED BY <1>1, <1>2, <1>5, <1>7, <2>1, <3>1, <3>2 DEF Reasons, ReaderWaits, WriterWaits, OnRoff, OnWoff
  <2>2. CASE chan'[q] = OnWoff
    <3>1. chan[q] = OnWoff /\ OnWoff \notin W
      BY <1>6, <2>2 DEF OnWoff, Awake
    <3>2. p \notin Readers
      BY <3>1 DEF W
    <3>3. QED BY <1>1, <1>2, <1>5, <1>7, <2>2, <3>1, <3>2 DEF Reasons, ReaderWaits, WriterWaits, OnRoff, OnWoff
  <2>3. QED BY <2>1, <2>2 DEF ReaderWaits, WriterWaits
<1>17. QED BY <1>7, <1>8, <1>10, <1>11, <1>15, <1>16 DEF PipeInv, Reasons

LEMMA ReleaseKeeps ==
  ASSUME PipeInv, fifo' = fifo, NEW p \in Procs, Release(p)
  PROVE  PipeInv'
<1>1. TypeOK /\ Asleep /\ Unnamed /\ Exclusive /\ Sides /\ EndsCounted /\ Offsets /\ Requests /\ Reasons
  BY DEF PipeInv
<1>2. /\ pc[p] = "ridding" /\ chan[p] = Awake /\ pc' = [pc EXCEPT ![p] = "closed"] /\ cpu' = Nobody
      /\ pipe' = pipe /\ file' = file /\ req' = req /\ Unlock({})
  BY DEF Release, At, Yields
<1>3. /\ lock' \in [busy : BOOLEAN, demand : BOOLEAN] /\ ~lock'.busy
      /\ chan' \in [Procs -> Addresses]
      /\ \A q \in Procs : \/ chan'[q] = Awake
                          \/ chan'[q] = chan[q] /\ chan[q] # OnInode
  BY <1>1, <1>2, UnlockFacts
<1>4. /\ pc' \in [Procs -> Labels] /\ pc'[p] = "closed" /\ \A q \in Procs \ {p} : pc'[q] = pc[q]
      /\ Unnamed' /\ Exclusive' /\ Sides'
  BY <1>2, Moves DEF Labels, Locked
<1>5. TypeOK'
  BY <1>1, <1>2, <1>3, <1>4, TypeNow, TypeNext
<1>6. chan'[p] = Awake
  BY <1>2, <1>3
<1>7. Asleep'
  BY <1>1, <1>3, <1>4, <1>6 DEF Asleep, OnInode, OnRoff, OnWoff, OnReaders, OnWriters, Awake
<1>8. Offsets' /\ Requests'
  BY <1>1, <1>2, <1>4 DEF Offsets, Requests, Piece
<1>9. EndsCounted'
  BY <1>1, <1>2, <1>4 DEF EndsCounted, Same, Side, Procs
<1>10. ASSUME NEW q \in Procs PROVE ReaderWaits(q)' /\ WriterWaits(q)'
  BY <1>1, <1>2, <1>3, <1>4, <1>6 DEF Reasons, ReaderWaits, WriterWaits, OnRoff, OnWoff, Awake
<1>11. QED BY <1>4, <1>5, <1>7, <1>8, <1>9, <1>10 DEF PipeInv, Reasons

(***************************************************************************)
(* The calls of pipe_read() and pipe_write(), and signals.                 *)
(***************************************************************************)
LEMMA BeginKeeps ==
  ASSUME PipeInv, fifo' = fifo, NEW p \in Procs,
         (\E n \in ReadCounts : Read(p, n)) \/ (\E n \in WriteCounts : Write(p, n))
  PROVE  PipeInv'
<1>1. TypeOK /\ Asleep /\ Unnamed /\ Exclusive /\ Sides /\ EndsCounted /\ Offsets /\ Requests /\ Reasons
  BY DEF PipeInv
<1>2. PICK n \in ReadCounts \union WriteCounts : Read(p, n) \/ Write(p, n)
  OBVIOUS
<1> DEFINE l == IF Read(p, n) THEN "rlock" ELSE IF n <= PipeBuf THEN "roomlock" ELSE "fulllock"
<1>3. /\ pc[p] = "idle" /\ chan[p] = Awake /\ pc' = [pc EXCEPT ![p] = l] /\ cpu' = p
      /\ pipe' = pipe /\ file' = file /\ lock' = lock /\ chan' = chan
      /\ req' = [req EXCEPT ![p] = [NoReq EXCEPT !.count = n]]
  BY <1>2 DEF Read, Write, At, Runs
<1>4. /\ l \in {"rlock", "roomlock", "fulllock"}
      /\ l = "rlock" => p \in Readers
      /\ l # "rlock" => p \in Writers
      /\ l = "roomlock" => n <= PipeBuf
      /\ l = "fulllock" => n > PipeBuf
  BY <1>2, PipeAssumption DEF Read, Write
<1> HIDE DEF l
<1>5. /\ pc' \in [Procs -> Labels] /\ pc'[p] = l /\ \A q \in Procs \ {p} : pc'[q] = pc[q]
      /\ Unnamed' /\ Exclusive' /\ Sides'
  <2>1. l \in Labels \ {"get", "open", "owait", "opened", "fail"} /\ l \notin Locked
    BY <1>4 DEF Labels, Locked
  <2>2. QED BY <1>3, <1>4, <2>1, Moves
<1>6. /\ req' \in [Procs -> ReqType] /\ req'[p].count = n /\ req'[p].done = 0
      /\ \A q \in Procs \ {p} : req'[q] = req[q]
  <2>1. n \in Nat
    BY PipeAssumption
  <2>2. [NoReq EXCEPT !.count = n] \in ReqType
    BY <2>1, NoReqTyped DEF ReqType
  <2>3. req \in [Procs -> ReqType]
    BY <1>1, TypeNow
  <2>4. QED BY <1>3, <2>2, <2>3 DEF NoReq
<1>7. TypeOK'
  BY <1>1, <1>3, <1>5, <1>6, TypeNow, TypeNext
<1>8. Asleep' /\ Offsets'
  BY <1>1, <1>3, <1>4, <1>5 DEF Asleep, Offsets, Awake, OnInode, OnRoff, OnWoff
<1>9. EndsCounted'
  BY <1>1, <1>3, <1>4, <1>5, EndsKept
<1>10. Requests'
  <2>1. n \in Nat /\ PipeBuf \in Nat
    BY PipeAssumption
  <2>2. QED BY <1>1, <1>3, <1>4, <1>5, <1>6, <2>1 DEF Requests, Piece
<1>11. Reasons'
  BY <1>1, <1>3, <1>4, <1>5, <1>6 DEF Reasons, ReaderWaits, WriterWaits, Awake, OnRoff, OnWoff
<1>12. QED BY <1>5, <1>7, <1>8, <1>9, <1>10, <1>11 DEF PipeInv

LEMMA SignalKeeps ==
  ASSUME PipeInv, fifo' = fifo, NEW p \in Procs, Signal(p)
  PROVE  PipeInv'
<1>1. TypeOK /\ Asleep /\ Unnamed /\ Exclusive /\ Sides /\ EndsCounted /\ Offsets /\ Requests /\ Reasons
  BY DEF PipeInv
<1>2. pc[p] \in {"relock", "roomlock", "fulllock"}
  BY <1>1 DEF Signal, Asleep, OnRoff, OnWoff, OnReaders, OnWriters
<1>3. /\ pc' = [pc EXCEPT ![p] = "idle"] /\ cpu' = Nobody /\ req' = [req EXCEPT ![p] = NoReq]
      /\ pipe' = pipe /\ file' = file /\ lock' = lock /\ chan' = [chan EXCEPT ![p] = Awake]
  BY <1>2 DEF Signal, Returns, Yields
<1>4. /\ pc' \in [Procs -> Labels] /\ pc'[p] = "idle" /\ \A q \in Procs \ {p} : pc'[q] = pc[q]
      /\ Unnamed' /\ Exclusive' /\ Sides'
  BY <1>3, Moves DEF Labels, Locked
<1>5. /\ req' \in [Procs -> ReqType] /\ req'[p] = NoReq /\ \A q \in Procs \ {p} : req'[q] = req[q]
      /\ chan' \in [Procs -> Addresses] /\ chan'[p] = Awake /\ \A q \in Procs \ {p} : chan'[q] = chan[q]
  BY <1>1, <1>3, TypeNow, NoReqTyped DEF Addresses
<1>6. TypeOK'
  BY <1>1, <1>3, <1>4, <1>5, TypeNow, TypeNext
<1>7. Asleep' /\ Offsets'
  BY <1>1, <1>3, <1>4, <1>5 DEF Asleep, Offsets, Awake, OnInode, OnRoff, OnWoff, OnReaders, OnWriters
<1>8. EndsCounted'
  BY <1>1, <1>2, <1>3, <1>4, EndsKept
<1>9. Requests'
  BY <1>1, <1>3, <1>4, <1>5 DEF Requests, Piece
<1>10. Reasons'
  BY <1>1, <1>2, <1>3, <1>4, <1>5 DEF Reasons, ReaderWaits, WriterWaits, Awake, OnRoff, OnWoff
<1>11. QED BY <1>4, <1>6, <1>7, <1>8, <1>9, <1>10 DEF PipeInv

(***************************************************************************)
(* pipe_read() maps a block, and copies a piece of it.                     *)
(***************************************************************************)
LEMMA ReadMapKeeps ==
  ASSUME PipeInv, fifo' = fifo, NEW p \in Procs, ReadMap(p)
  PROVE  PipeInv'
<1>1. TypeOK /\ Asleep /\ Unnamed /\ Exclusive /\ Sides /\ EndsCounted /\ Offsets /\ Requests /\ Reasons
  BY DEF PipeInv
<1> DEFINE off == Wrapped(pipe.roff)
           n   == Min3(req[p].count, InBlock(off), pipe.size)
<1>2. /\ pc[p] \in {"rloop", "rempty"} /\ chan[p] = Awake /\ pc' = [pc EXCEPT ![p] = "rcopy"] /\ cpu' = Nobody
      /\ pipe' = [pipe EXCEPT !.roff = off]
      /\ req' = [req EXCEPT ![p].off = off, ![p].n = n]
      /\ file' = file /\ lock' = lock /\ chan' = chan /\ pipe.size > 0
  BY DEF ReadMap, At, Yields
<1>3. pipe \in PipeType /\ req \in [Procs -> ReqType] /\ PipeBuf \in Nat \ {0} /\ BlkSz \in Nat \ {0}
  BY <1>1, TypeNow, PipeAssumption
<1>4. req[p].count > 0
  BY <1>1 DEF ReadMap, Requests, At
<1>5. off \in 0..PipeBuf-1 /\ (off = pipe.roff \/ (off = 0 /\ pipe.roff = PipeBuf))
  <2>1. pipe.roff \in 0..PipeBuf
    BY <1>3 DEF PipeType
  <2>2. QED BY <1>3, <2>1 DEF Wrapped
<1> HIDE DEF off
<1>6. InBlock(off) \in 1..BlkSz /\ off + InBlock(off) <= PipeBuf
  BY <1>5, BlockFits
<1>7. n \in 1..BlkSz /\ n <= req[p].count /\ n <= pipe.size /\ off + n <= PipeBuf
  BY <1>2, <1>3, <1>4, <1>5, <1>6, LeastOfThree DEF PipeType, ReqType
<1> HIDE DEF n
<1>8. /\ pc' \in [Procs -> Labels] /\ pc'[p] = "rcopy" /\ \A q \in Procs \ {p} : pc'[q] = pc[q]
      /\ Unnamed' /\ Exclusive' /\ Sides'
  <2>1. p \in Readers /\ lock.busy /\ pc[p] \in Locked
    BY <1>1, <1>2 DEF Sides, Exclusive, Locked
  <2>2. QED BY <1>2, <2>1, Moves DEF Labels, Locked
<1>9. /\ pipe' \in PipeType /\ pipe'.size = pipe.size /\ pipe'.roff = off /\ pipe'.woff = pipe.woff
      /\ pipe'.readers = pipe.readers /\ pipe'.writers = pipe.writers
  BY <1>2, <1>3, <1>5 DEF PipeType
<1>10. /\ req' \in [Procs -> ReqType] /\ req'[p].off = off /\ req'[p].n = n
       /\ req'[p].count = req[p].count /\ req'[p].done = req[p].done
       /\ \A q \in Procs \ {p} : req'[q] = req[q]
  <2>1. n \in 0..BlkSz
    BY <1>3, <1>7
  <2>2. QED BY <1>2, <1>3, <1>5, <2>1, Mapped
<1>11. TypeOK'
  BY <1>1, <1>2, <1>8, <1>9, <1>10, TypeNow, TypeNext
<1>12. Asleep'
  BY <1>1, <1>2, <1>8 DEF Asleep, Awake, OnInode, OnRoff, OnWoff
<1>13. EndsCounted'
  BY <1>1, <1>2, <1>8, <1>9, EndsKept
<1>14. Offsets'
  BY <1>1, <1>3, <1>5, <1>9 DEF Offsets, PipeType
<1>15. Requests'
  <2>1. \A q \in Procs \ {p} : pc[q] \notin {"rcopy", "wcopy"}
    BY <1>1, <1>2 DEF Exclusive, Locked
  <2>2. QED BY <1>1, <1>2, <1>7, <1>8, <1>9, <1>10, <2>1 DEF Requests, Piece
<1>16. Reasons'
  BY <1>1, <1>2, <1>8, <1>9, <1>10 DEF Reasons, ReaderWaits, WriterWaits, Awake, OnRoff, OnWoff
<1>17. QED BY <1>8, <1>11, <1>12, <1>13, <1>14, <1>15, <1>16 DEF PipeInv

LEMMA ReadCopyKeeps ==
  ASSUME PipeInv, fifo' = fifo, NEW p \in Procs, ReadCopy(p)
  PROVE  PipeInv'
<1>1. TypeOK /\ Asleep /\ Unnamed /\ Exclusive /\ Sides /\ EndsCounted /\ Offsets /\ Requests /\ Reasons
  BY DEF PipeInv
<1> DEFINE n == req[p].n
           r == [NoReq EXCEPT !.count = req[p].count - n, !.done = req[p].done + n]
<1>2. /\ pc[p] = "rcopy" /\ chan[p] = Awake /\ pc' = [pc EXCEPT ![p] = "rloop"] /\ cpu' = p
      /\ pipe' = [pipe EXCEPT !.roff = @ + n, !.size = @ - n]
      /\ req' = [req EXCEPT ![p] = r]
      /\ file' = file /\ lock' = lock /\ chan' = chan
  BY DEF ReadCopy, At, Runs
<1>3. pipe \in PipeType /\ req \in [Procs -> ReqType] /\ PipeBuf \in Nat \ {0} /\ BlkSz \in Nat \ {0}
  BY <1>1, TypeNow, PipeAssumption
<1>4. n \in 1..pipe.size /\ n <= req[p].count /\ pipe.roff + n <= PipeBuf
  BY <1>1, <1>2 DEF Requests, Piece
<1>5. r \in ReqType
  <2>1. req[p].count \in Nat /\ req[p].done \in Nat /\ n \in Nat
    BY <1>3, <1>4 DEF ReqType, PipeType
  <2>2. req[p].count - n \in Nat /\ req[p].done + n \in Nat
    BY <1>4, <2>1
  <2>3. QED BY <2>2, NoReqTyped DEF ReqType
<1> HIDE DEF n, r
<1>6. /\ pc' \in [Procs -> Labels] /\ pc'[p] = "rloop" /\ \A q \in Procs \ {p} : pc'[q] = pc[q]
      /\ Unnamed' /\ Exclusive' /\ Sides'
  <2>1. p \in Readers /\ lock.busy /\ pc[p] \in Locked
    BY <1>1, <1>2 DEF Sides, Exclusive, Locked
  <2>2. QED BY <1>2, <2>1, Moves DEF Labels, Locked
<1>7. /\ pipe' \in PipeType /\ pipe'.size = pipe.size - n /\ pipe'.roff = pipe.roff + n /\ pipe'.woff = pipe.woff
      /\ pipe'.readers = pipe.readers /\ pipe'.writers = pipe.writers
  <2>1. pipe.size - n \in 0..PipeBuf /\ pipe.roff + n \in 0..PipeBuf
    BY <1>3, <1>4 DEF PipeType
  <2>2. QED BY <1>2, <1>3, <2>1 DEF PipeType
<1>8. req' \in [Procs -> ReqType] /\ \A q \in Procs \ {p} : req'[q] = req[q]
  BY <1>2, <1>3, <1>5
<1>9. TypeOK'
  BY <1>1, <1>2, <1>6, <1>7, <1>8, TypeNow, TypeNext
<1>10. Asleep'
  BY <1>1, <1>2, <1>6 DEF Asleep, Awake, OnInode, OnRoff, OnWoff
<1>11. EndsCounted'
  BY <1>1, <1>2, <1>6, <1>7, EndsKept
<1>12. Offsets'
  BY <1>1, <1>3, <1>4, <1>7 DEF Offsets, PipeType
<1>13. Requests'
  <2>1. \A q \in Procs \ {p} : pc[q] \notin {"rcopy", "wcopy", "wloop"}
    BY <1>1, <1>2 DEF Exclusive, Locked
  <2>2. QED BY <1>1, <1>2, <1>6, <1>8, <2>1 DEF Requests, Piece
<1>14. Reasons'
  <2>1. \A q \in Procs : chan[q] = OnRoff =>
          (pipe.size = 0 /\ pipe.writers > 0) \/ \E s \in Procs : pc[s] \in {"wloop", "wcopy"}
    BY <1>1 DEF Reasons, ReaderWaits
  <2>2. pipe.size # 0 /\ ~\E s \in Procs : pc[s] \in {"wloop", "wcopy"}
    BY <1>1, <1>2, <1>3, <1>4 DEF Exclusive, Locked, PipeType
  <2>3. QED BY <1>2, <1>6, <2>1, <2>2 DEF Reasons, ReaderWaits, WriterWaits
<1>15. QED BY <1>6, <1>9, <1>10, <1>11, <1>12, <1>13, <1>14 DEF PipeInv

(***************************************************************************)
(* pipe_write() finds room, maps a block, and fills a piece of it.         *)
(***************************************************************************)
LEMMA RoomKeeps ==
  ASSUME PipeInv, fifo' = fifo, NEW p \in Procs, At(p, "wroom"), req[p].count <= PipeBuf - pipe.size,
         Runs(p, "wloop"), UNCHANGED <<chan, lock, req, pipe, file>>
  PROVE  PipeInv'
<1>1. TypeOK /\ Asleep /\ Unnamed /\ Exclusive /\ Sides /\ EndsCounted /\ Offsets /\ Requests /\ Reasons
  BY DEF PipeInv
<1>2. /\ pc[p] = "wroom" /\ chan[p] = Awake /\ pc' = [pc EXCEPT ![p] = "wloop"] /\ cpu' = p
      /\ pipe' = pipe /\ file' = file /\ lock' = lock /\ chan' = chan /\ req' = req
  BY DEF At, Runs
<1>3. /\ pc' \in [Procs -> Labels] /\ pc'[p] = "wloop" /\ \A q \in Procs \ {p} : pc'[q] = pc[q]
      /\ Unnamed' /\ Exclusive' /\ Sides'
  <2>1. p \in Writers /\ lock.busy /\ pc[p] \in Locked
    BY <1>1, <1>2 DEF Sides, Exclusive, Locked
  <2>2. QED BY <1>2, <2>1, Moves DEF Labels, Locked
<1>4. TypeOK'
  BY <1>1, <1>2, <1>3, TypeNow, TypeNext
<1>5. Asleep' /\ Offsets'
  BY <1>1, <1>2, <1>3 DEF Asleep, Offsets, Awake, OnInode, OnRoff, OnWoff
<1>6. EndsCounted'
  BY <1>1, <1>2, <1>3, EndsKept
<1>7. Requests'
  BY <1>1, <1>2, <1>3 DEF Requests, Piece
<1>8. Reasons'
  BY <1>1, <1>2, <1>3 DEF Reasons, ReaderWaits, WriterWaits, Awake, OnRoff, OnWoff
<1>9. QED BY <1>3, <1>4, <1>5, <1>6, <1>7, <1>8 DEF PipeInv

LEMMA WriteMapKeeps ==
  ASSUME PipeInv, fifo' = fifo, NEW p \in Procs, WriteMap(p)
  PROVE  PipeInv'
<1>1. TypeOK /\ Asleep /\ Unnamed /\ Exclusive /\ Sides /\ EndsCounted /\ Offsets /\ Requests /\ Reasons
  BY DEF PipeInv
<1> DEFINE off == Wrapped(pipe.woff)
           n   == Min3(req[p].count, InBlock(off), PipeBuf - pipe.size)
<1>2. /\ pc[p] = "wloop" /\ chan[p] = Awake /\ pc' = [pc EXCEPT ![p] = "wcopy"] /\ cpu' = Nobody
      /\ pipe' = [pipe EXCEPT !.woff = off]
      /\ req' = [req EXCEPT ![p].off = off, ![p].n = n]
      /\ file' = file /\ lock' = lock /\ chan' = chan
      /\ pipe.size # PipeBuf /\ req[p].count > 0
  BY DEF WriteMap, At, Yields
<1>3. pipe \in PipeType /\ req \in [Procs -> ReqType] /\ PipeBuf \in Nat \ {0} /\ BlkSz \in Nat \ {0}
  BY <1>1, TypeNow, PipeAssumption
<1>4. off \in 0..PipeBuf-1 /\ (off = pipe.woff \/ (off = 0 /\ pipe.woff = PipeBuf))
  <2>1. pipe.woff \in 0..PipeBuf
    BY <1>3 DEF PipeType
  <2>2. QED BY <1>3, <2>1 DEF Wrapped
<1> HIDE DEF off
<1>5. InBlock(off) \in 1..BlkSz /\ off + InBlock(off) <= PipeBuf
  BY <1>4, BlockFits
<1>6. n \in 1..BlkSz /\ n <= req[p].count /\ n <= PipeBuf - pipe.size /\ off + n <= PipeBuf
  <2>1. PipeBuf - pipe.size \in Nat \ {0} /\ req[p].count \in Nat \ {0}
    BY <1>2, <1>3 DEF PipeType, ReqType
  <2>2. req[p].count \in Int /\ PipeBuf - pipe.size \in Int /\ InBlock(off) \in Int
    BY <1>3, <1>5, <2>1
  <2>3. /\ n \in {req[p].count, PipeBuf - pipe.size, InBlock(off)}
        /\ n <= req[p].count /\ n <= PipeBuf - pipe.size /\ n <= InBlock(off)
    BY <2>2, LeastOfThree
  <2> HIDE DEF n
  <2>4. n \in 1..BlkSz
    BY <1>3, <1>5, <2>1, <2>3
  <2>5. off + n <= PipeBuf
    BY <1>3, <1>4, <1>5, <2>3, <2>4
  <2>6. QED BY <2>3, <2>4, <2>5
<1> HIDE DEF n
<1>7. /\ pc' \in [Procs -> Labels] /\ pc'[p] = "wcopy" /\ \A q \in Procs \ {p} : pc'[q] = pc[q]
      /\ Unnamed' /\ Exclusive' /\ Sides'
  <2>1. p \in Writers /\ lock.busy /\ pc[p] \in Locked
    BY <1>1, <1>2 DEF Sides, Exclusive, Locked
  <2>2. QED BY <1>2, <2>1, Moves DEF Labels, Locked
<1>8. /\ pipe' \in PipeType /\ pipe'.size = pipe.size /\ pipe'.roff = pipe.roff /\ pipe'.woff = off
      /\ pipe'.readers = pipe.readers /\ pipe'.writers = pipe.writers
  BY <1>2, <1>3, <1>4 DEF PipeType
<1>9. /\ req' \in [Procs -> ReqType] /\ req'[p].off = off /\ req'[p].n = n
      /\ req'[p].count = req[p].count /\ req'[p].done = req[p].done
      /\ \A q \in Procs \ {p} : req'[q] = req[q]
  <2>1. n \in 0..BlkSz
    BY <1>3, <1>6
  <2>2. QED BY <1>2, <1>3, <1>4, <2>1, Mapped
<1>10. TypeOK'
  BY <1>1, <1>2, <1>7, <1>8, <1>9, TypeNow, TypeNext
<1>11. Asleep'
  BY <1>1, <1>2, <1>7 DEF Asleep, Awake, OnInode, OnRoff, OnWoff
<1>12. EndsCounted'
  BY <1>1, <1>2, <1>7, <1>8, EndsKept
<1>13. Offsets'
  BY <1>1, <1>2, <1>3, <1>4, <1>8 DEF Offsets, PipeType
<1>14. Requests'
  <2>1. \A q \in Procs \ {p} : pc[q] \notin {"rcopy", "wcopy"}
    BY <1>1, <1>2 DEF Exclusive, Locked
  <2>2. QED BY <1>1, <1>2, <1>6, <1>7, <1>8, <1>9, <2>1 DEF Requests, Piece
<1>15. Reasons'
  BY <1>1, <1>2, <1>7, <1>8, <1>9 DEF Reasons, ReaderWaits, WriterWaits, Awake, OnRoff, OnWoff
<1>16. QED BY <1>7, <1>10, <1>11, <1>12, <1>13, <1>14, <1>15 DEF PipeInv

LEMMA WriteCopyKeeps ==
  ASSUME PipeInv, fifo' = fifo, NEW p \in Procs, NEW b \in Bytes, WriteCopy(p, b)
  PROVE  PipeInv'
<1>1. TypeOK /\ Asleep /\ Unnamed /\ Exclusive /\ Sides /\ EndsCounted /\ Offsets /\ Requests /\ Reasons
  BY DEF PipeInv
<1> DEFINE n == req[p].n
           r == [NoReq EXCEPT !.count = req[p].count - n, !.done = req[p].done + n]
<1>2. /\ pc[p] = "wcopy" /\ chan[p] = Awake /\ pc' = [pc EXCEPT ![p] = "wloop"] /\ cpu' = p
      /\ pipe' = [pipe EXCEPT !.woff = @ + n, !.size = @ + n]
      /\ req' = [req EXCEPT ![p] = r]
      /\ file' = [i \in DOMAIN file |-> IF i \in req[p].off..req[p].off+n-1 THEN b ELSE file[i]]
      /\ lock' = lock /\ chan' = chan
  BY DEF WriteCopy, At, Runs
<1>3. pipe \in PipeType /\ req \in [Procs -> ReqType] /\ PipeBuf \in Nat \ {0} /\ BlkSz \in Nat \ {0}
  BY <1>1, TypeNow, PipeAssumption
<1>4. /\ n \in 1..PipeBuf-pipe.size /\ n <= req[p].count /\ pipe.woff + n <= PipeBuf
      /\ req[p].done + req[p].count > PipeBuf \/ req[p].count <= PipeBuf - pipe.size
  BY <1>1, <1>2 DEF Requests, Piece
<1>5. r \in ReqType /\ r.count = req[p].count - n /\ r.done = req[p].done + n
  <2>1. req[p].count \in Nat /\ req[p].done \in Nat /\ n \in Nat
    BY <1>3, <1>4 DEF ReqType, PipeType
  <2>2. req[p].count - n \in Nat /\ req[p].done + n \in Nat
    BY <1>4, <2>1
  <2>3. QED BY <2>2, NoReqTyped DEF ReqType
<1> HIDE DEF n, r
<1>6. /\ pc' \in [Procs -> Labels] /\ pc'[p] = "wloop" /\ \A q \in Procs \ {p} : pc'[q] = pc[q]
      /\ Unnamed' /\ Exclusive' /\ Sides'
  <2>1. p \in Writers /\ lock.busy /\ pc[p] \in Locked
    BY <1>1, <1>2 DEF Sides, Exclusive, Locked
  <2>2. QED BY <1>2, <2>1, Moves DEF Labels, Locked
<1>7. /\ pipe' \in PipeType /\ pipe'.size = pipe.size + n /\ pipe'.roff = pipe.roff /\ pipe'.woff = pipe.woff + n
      /\ pipe'.readers = pipe.readers /\ pipe'.writers = pipe.writers
  <2>1. pipe.size + n \in 0..PipeBuf /\ pipe.woff + n \in 0..PipeBuf
    BY <1>3, <1>4 DEF PipeType
  <2>2. QED BY <1>2, <1>3, <2>1 DEF PipeType
<1>8. req' \in [Procs -> ReqType] /\ req'[p] = r /\ \A q \in Procs \ {p} : req'[q] = req[q]
  BY <1>2, <1>3, <1>5
<1>9. file' \in [0..PipeBuf-1 -> Bytes]
  BY <1>1, <1>2, TypeNow
<1>10. TypeOK'
  BY <1>1, <1>2, <1>6, <1>7, <1>8, <1>9, TypeNow, TypeNext
<1>11. Asleep'
  BY <1>1, <1>2, <1>6 DEF Asleep, Awake, OnInode, OnRoff, OnWoff
<1>12. EndsCounted'
  BY <1>1, <1>2, <1>6, <1>7, EndsKept
<1>13. Offsets'
  BY <1>1, <1>3, <1>4, <1>7 DEF Offsets, PipeType
<1>14. Requests'
  <2>1. \A q \in Procs \ {p} : pc[q] \notin {"rcopy", "wcopy", "wloop"}
    BY <1>1, <1>2 DEF Exclusive, Locked
  <2>2. r.done + r.count > PipeBuf \/ r.count <= PipeBuf - pipe'.size
    BY <1>3, <1>4, <1>5, <1>7 DEF PipeType, ReqType
  <2>3. QED BY <1>1, <1>2, <1>6, <1>8, <2>1, <2>2 DEF Requests, Piece
<1>15. ASSUME NEW q \in Procs PROVE ReaderWaits(q)' /\ WriterWaits(q)'
  <2>1. ReaderWaits(q)'
    BY <1>6 DEF ReaderWaits
  <2>2. CASE chan[q] = OnWoff
    <3>1. q # p /\ ~\E s \in Procs : pc[s] \in {"rloop", "rempty", "rcopy"}
      BY <1>1, <1>2, <2>2 DEF Exclusive, Locked, OnWoff, Awake
    <3>2. pipe.readers > 0 /\ pipe.size > 0 /\ (pc[q] = "roomlock" => req[q].count > PipeBuf - pipe.size)
      BY <1>1, <2>2, <3>1 DEF Reasons, WriterWaits
    <3>3. req[q].count \in Nat /\ pipe.size \in Nat /\ n \in Nat
      BY <1>3, <1>4 DEF PipeType, ReqType
    <3>4. pipe'.readers > 0 /\ pipe'.size > 0 /\ (pc'[q] = "roomlock" => req'[q].count > PipeBuf - pipe'.size)
      BY <1>3, <1>6, <1>7, <1>8, <3>1, <3>2, <3>3
    <3>5. QED BY <2>1, <3>4 DEF WriterWaits
  <2>3. QED BY <1>2, <2>1, <2>2 DEF WriterWaits
<1>16. QED BY <1>6, <1>10, <1>11, <1>12, <1>13, <1>14, <1>15 DEF PipeInv, Reasons

(***************************************************************************)
(* Every step, and the theorem.                                            *)
(***************************************************************************)
LEMMA NextKeeps ==
  ASSUME PipeInv, Next
  PROVE  PipeInv'
<1>1. PICK p \in Procs :
        \/ Lock(p) \/ Open(p) \/ PipeOpen(p) \/ OpenWait(p) \/ Opened(p)
        \/ Close(p) \/ PipeClose(p) \/ Release(p)
        \/ (\E n \in ReadCounts : Read(p, n)) \/ (\E n \in WriteCounts : Write(p, n))
        \/ ReadBreak(p) \/ ReadEof(p) \/ ReadSleep(p) \/ ReadMap(p) \/ ReadCopy(p)
        \/ WriteBroken(p) \/ WriteRoom(p) \/ WriteFull(p) \/ WriteMap(p)
        \/ (\E b \in Bytes : WriteCopy(p, b))
        \/ WriteExit(p) \/ Signal(p)
  BY DEF Next
<1>2. fifo' = fifo /\ Unnamed /\ Sides /\ Requests /\ TypeOK
  BY DEF Next, PipeInv
<1>3. ~Open(p) /\ ~PipeOpen(p) /\ ~OpenWait(p) /\ ~Opened(p)
  BY <1>2 DEF Open, PipeOpen, OpenWait, Opened, At, Unnamed
<1>4. CASE Lock(p)  BY <1>2, <1>4, LockKeeps
<1>5. CASE Close(p)  BY <1>2, <1>5, CloseKeeps
<1>6. CASE PipeClose(p)  BY <1>2, <1>6, PipeCloseKeeps
<1>7. CASE Release(p)  BY <1>2, <1>7, ReleaseKeeps
<1>8. CASE (\E n \in ReadCounts : Read(p, n)) \/ (\E n \in WriteCounts : Write(p, n))
  BY <1>2, <1>8, BeginKeeps
<1>9. CASE ReadBreak(p) \/ ReadEof(p)
  <2>1. pc[p] \in {"rloop", "rempty"} /\ chan[p] = Awake /\ ReadExit(p)
    BY <1>9 DEF ReadBreak, ReadEof, At
  <2>2. QED BY <1>2, <2>1, Exits DEF ReadExit
<1>10. CASE ReadSleep(p)
  <2>1. /\ pc[p] \in {"rloop", "rempty"} /\ chan[p] = Awake /\ p \in Readers
        /\ req[p].count > 0 /\ pipe.size = 0 /\ pipe.writers > 0 /\ UNCHANGED <<pipe, file>>
    BY <1>2, <1>10 DEF ReadSleep, At, Requests, Sides
  <2>2. CASE Unlock({OnWoff}) /\ Returns(p)
    BY <1>2, <2>1, <2>2, Exits
  <2>3. CASE UnlockAndSleep(p, {OnWoff}, OnRoff, "relock") /\ UNCHANGED req
    BY <1>2, <2>1, <2>3, Sleeps
  <2>4. QED BY <1>10, <2>2, <2>3 DEF ReadSleep
<1>11. CASE ReadMap(p)  BY <1>2, <1>11, ReadMapKeeps
<1>12. CASE ReadCopy(p)  BY <1>2, <1>12, ReadCopyKeeps
<1>13. CASE WriteBroken(p)
  <2>1. pc[p] \in {"wroom", "wloop"} /\ chan[p] = Awake /\ p \notin Readers /\ pipe.readers = 0
    BY <1>2, <1>13, PipeAssumption DEF WriteBroken, At, Sides
  <2>2. Unlock({}) /\ Returns(p) /\ UNCHANGED <<pipe, file>>
    BY <1>13 DEF WriteBroken
  <2>3. QED BY <1>2, <2>1, <2>2, Exits
<1>14. CASE WriteRoom(p)
  <2>1. pc[p] = "wroom" /\ chan[p] = Awake /\ p \in Writers /\ p \notin Readers
    BY <1>2, <1>14, PipeAssumption DEF WriteRoom, At, Sides
  <2>2. CASE req[p].count <= PipeBuf - pipe.size
    BY <1>2, <1>14, <2>2, RoomKeeps, TypeNow, PipeAssumption DEF WriteRoom, PipeType, ReqType
  <2>3. CASE req[p].count > PipeBuf - pipe.size /\ pipe.readers > 0 /\ Unlock({}) /\ Returns(p)
    BY <1>2, <1>14, <2>1, <2>3, Exits DEF WriteRoom
  <2>4. CASE /\ req[p].count > PipeBuf - pipe.size /\ pipe.readers > 0
             /\ UnlockAndSleep(p, {}, OnWoff, "roomlock") /\ UNCHANGED req
    <3>1. req[p].count <= PipeBuf /\ pipe.size \in Nat /\ req[p].count \in Nat /\ PipeBuf \in Nat
      BY <1>2, <2>1, TypeNow, PipeAssumption DEF Requests, PipeType, ReqType
    <3>2. pipe.size > 0
      BY <2>4, <3>1
    <3>3. UNCHANGED <<pipe, file, req>>
      BY <1>14, <2>4 DEF WriteRoom
    <3>4. QED BY <1>2, <2>1, <2>4, <3>2, <3>3, Sleeps
  <2>5. QED BY <1>14, <2>2, <2>3, <2>4 DEF WriteRoom
<1>15. CASE WriteFull(p)
  <2>1. /\ pc[p] = "wloop" /\ chan[p] = Awake /\ p \in Writers /\ p \notin Readers
        /\ req[p].count > 0 /\ pipe.size = PipeBuf /\ pipe.readers > 0 /\ UNCHANGED <<pipe, file>>
    BY <1>2, <1>15, PipeAssumption DEF WriteFull, At, Sides
  <2>2. CASE Unlock({OnRoff}) /\ Returns(p)
    BY <1>2, <2>1, <2>2, Exits
  <2>3. CASE UnlockAndSleep(p, {OnRoff}, OnWoff, "fulllock") /\ UNCHANGED req
    <3>1. req[p].done + req[p].count > PipeBuf /\ pipe.size > 0
      BY <1>2, <2>1, TypeNow, PipeAssumption DEF Requests, ReqType
    <3>2. QED BY <1>2, <2>1, <2>3, <3>1, Sleeps
  <2>4. QED BY <1>15, <2>2, <2>3 DEF WriteFull
<1>16. CASE WriteMap(p)  BY <1>2, <1>16, WriteMapKeeps
<1>17. CASE \E b \in Bytes : WriteCopy(p, b)  BY <1>2, <1>17, WriteCopyKeeps
<1>18. CASE WriteExit(p)
  <2>1. pc[p] \in {"wloop", "wcopy"} /\ chan[p] = Awake /\ p \notin Readers
    BY <1>2, <1>18, PipeAssumption DEF WriteExit, At, Sides
  <2>2. Unlock({OnRoff}) /\ Returns(p) /\ UNCHANGED <<pipe, file>>
    BY <1>18 DEF WriteExit
  <2>3. QED BY <1>2, <2>1, <2>2, Exits
<1>19. CASE Signal(p)  BY <1>2, <1>19, SignalKeeps
<1>20. QED
  BY <1>1, <1>3, <1>4, <1>5, <1>6, <1>7, <1>8, <1>9, <1>10, <1>11, <1>12, <1>13, <1>14, <1>15,
     <1>16, <1>17, <1>18, <1>19

LEMMA InitHolds ==
  ASSUME Init, ~fifo
  PROVE  PipeInv
<1>1. /\ cpu = Nobody /\ pc = [p \in Procs |-> "idle"] /\ chan = [p \in Procs |-> Awake]
      /\ lock = [busy |-> FALSE, demand |-> FALSE] /\ req = [p \in Procs |-> NoReq]
      /\ pipe = [size |-> 0, roff |-> 0, woff |-> 0, readers |-> 1, writers |-> 1]
  BY DEF Init
<1>2. TypeOK
  <2>1. pc \in [Procs -> Labels] /\ chan \in [Procs -> Addresses] /\ req \in [Procs -> ReqType]
    BY <1>1, NoReqTyped DEF Labels, Addresses
  <2>2. pipe \in PipeType /\ lock \in [busy : BOOLEAN, demand : BOOLEAN]
    BY <1>1, PipeAssumption DEF PipeType
  <2>3. fifo \in BOOLEAN /\ file \in [0..PipeBuf-1 -> Bytes] /\ cpu \in Procs \union {Nobody}
    BY PipeAssumption DEF Init
  <2>4. QED BY <2>1, <2>2, <2>3, AllLabels DEF TypeOK, PipeType, ReqType, Addresses
<1>3. Unnamed /\ Exclusive /\ Sides /\ Asleep /\ EndsCounted
  BY <1>1 DEF Unnamed, Exclusive, Sides, Asleep, EndsCounted, Same, Locked, Awake, OnInode, OnRoff, OnWoff,
              OnReaders, OnWriters
<1>4. Offsets
  BY <1>1 DEF Offsets
<1>5. Requests /\ Reasons
  BY <1>1 DEF Requests, Reasons, ReaderWaits, WriterWaits, Awake, OnRoff, OnWoff
<1>6. QED BY <1>2, <1>3, <1>4, <1>5 DEF PipeInv

\* Who is in the loops of pipe_read() reads, in those of pipe_write() writes.
LEMMA InvImpliesSound ==
  ASSUME PipeInv
  PROVE  PipeSound
<1>1. TypeOK /\ Asleep /\ Sides /\ Reasons
  BY DEF PipeInv
<1>2. ASSUME NEW p \in Procs, chan[p] = OnRoff
      PROVE  (pipe.size = 0 /\ pipe.writers > 0) \/ \E q \in Writers : Inside(q)
  BY <1>1, <1>2 DEF Reasons, ReaderWaits, Inside, Sides
<1>3. ASSUME NEW p \in Procs, chan[p] = OnWoff
      PROVE  \/ /\ pipe.readers > 0 /\ pipe.size > 0
                /\ pc[p] = "roomlock" => req[p].count > PipeBuf - pipe.size
             \/ \E q \in Readers : Inside(q)
  BY <1>1, <1>3 DEF Reasons, WriterWaits, Inside, Sides
<1>4. QED BY <1>1, <1>2, <1>3 DEF PipeSound, NoLostWakeup, Asleep

LEMMA InvAlways == Spec /\ ~fifo => []PipeInv
<1>1. Init /\ ~fifo => PipeInv
  BY InitHolds
<1>2. PipeInv /\ [Next]_vars => PipeInv'
  <2> SUFFICES ASSUME PipeInv, [Next]_vars PROVE PipeInv'
    OBVIOUS
  <2>1. CASE Next
    BY <2>1, NextKeeps
  <2>2. CASE UNCHANGED vars
    BY <2>2 DEF vars, PipeInv, TypeOK, Unnamed, Exclusive, Sides, Asleep, EndsCounted, Same, Side, Offsets,
                Requests, Piece, Reasons, ReaderWaits, WriterWaits
  <2>3. QED BY <2>1, <2>2
<1>3. QED BY <1>1, <1>2, PTL DEF Spec

\* An unnamed pipe, for any processes that inherit its ends, requests and sizes:
\* offsets and size stay within it, and nobody sleeps without a reason or
\* somebody inside pipe_read() or pipe_write() who will wake it.
THEOREM UnnamedPipeSound == Spec /\ ~fifo => []PipeSound
<1>1. PipeInv => PipeSound
  BY InvImpliesSound
<1>2. QED BY <1>1, InvAlways, PTL

(***************************************************************************)
(* Small writes are atomic: between its pieces the writer has the lock, so *)
(* no other process moves the offset, and there is room for the rest.      *)
(***************************************************************************)
LEMMA NoBytesAround ==
  ASSUME NEW m \in Nat \ {0}
  PROVE  0 % m = 0 /\ (0 - m) % m = 0
<1>1. 0 % m = 0
  BY Around
<1>2. (0 - m) % m \in 0..m-1 /\ 0 - m = m * ((0 - m) \div m) + ((0 - m) % m)
  OBVIOUS
<1> DEFINE d == (0 - m) \div m
           r == (0 - m) % m
<1>3. d \in Int
  OBVIOUS
<1> HIDE DEF d, r
<1>4. r = m * (0 - 1 - d) /\ r \in 0..m-1
  BY <1>2, <1>3 DEF d, r
<1>5. 0 - 1 - d <= 0
  <2>1. SUFFICES ASSUME 0 - 1 - d >= 1 PROVE FALSE
    BY <1>3
  <2>2. m * (0 - 1 - d) >= m * 1
    BY <1>3, <2>1
  <2>3. QED BY <1>4, <2>2
<1>6. r <= 0
  BY <1>3, <1>4, <1>5
<1>7. QED BY <1>1, <1>4, <1>6 DEF r

LEMMA AmidInLoop ==
  ASSUME PipeInv, NEW p \in Procs, Amid(p)
  PROVE  pc[p] \in {"wloop", "wcopy"} /\ p \notin Readers
<1>1. p \notin Readers /\ req[p].done > 0 /\ req[p].count > 0 /\ req[p].done + req[p].count <= PipeBuf
  BY PipeAssumption DEF Amid
<1>2. req[p] # NoReq /\ req[p].done # 0 /\ ~(req[p].done + req[p].count > PipeBuf)
  <2>1. req[p].done \in Nat /\ req[p].count \in Nat /\ PipeBuf \in Nat
    BY TypeNow, PipeAssumption DEF PipeInv, ReqType
  <2>2. QED BY <1>1, <2>1 DEF NoReq
<1>3. pc[p] \in Labels
  BY TypeNow DEF PipeInv
<1>4. pc[p] \notin {"closed", "idle", "close", "closing", "rid", "ridding", "roomlock", "wroom", "fulllock"}
  BY <1>2 DEF PipeInv, Requests
<1>5. pc[p] \notin {"get", "open", "owait", "opened", "fail"}
  BY DEF PipeInv, Unnamed
<1>6. pc[p] \notin {"rlock", "relock", "rloop", "rempty", "rcopy"}
  BY <1>1 DEF PipeInv, Sides
<1>7. QED BY <1>1, <1>3, <1>4, <1>5, <1>6 DEF Labels

\* Only mapping and filling a piece move the offset of the writers.
LEMMA OnlyWritersMove ==
  ASSUME PipeInv, Next
  PROVE  \/ pipe'.woff = pipe.woff
         \/ \E q \in Procs : WriteMap(q) \/ \E b \in Bytes : WriteCopy(q, b)
<1>1. pipe \in PipeType
  BY TypeNow DEF PipeInv
<1>2. SUFFICES ASSUME NEW q \in Procs, ~(WriteMap(q) \/ \E b \in Bytes : WriteCopy(q, b)),
        \/ Lock(q) \/ Open(q) \/ PipeOpen(q) \/ OpenWait(q) \/ Opened(q)
        \/ Close(q) \/ PipeClose(q) \/ Release(q)
        \/ (\E n \in ReadCounts : Read(q, n)) \/ (\E n \in WriteCounts : Write(q, n))
        \/ ReadBreak(q) \/ ReadEof(q) \/ ReadSleep(q) \/ ReadMap(q) \/ ReadCopy(q)
        \/ WriteBroken(q) \/ WriteRoom(q) \/ WriteFull(q) \/ WriteExit(q) \/ Signal(q)
      PROVE pipe'.woff = pipe.woff
  BY DEF Next
<1>3. CASE \/ Lock(q) \/ Open(q) \/ OpenWait(q) \/ Opened(q) \/ Close(q) \/ Release(q)
           \/ (\E n \in ReadCounts : Read(q, n)) \/ (\E n \in WriteCounts : Write(q, n))
           \/ ReadBreak(q) \/ ReadEof(q) \/ ReadSleep(q)
           \/ WriteBroken(q) \/ WriteRoom(q) \/ WriteFull(q) \/ WriteExit(q) \/ Signal(q)
  <2>1. pipe' = pipe
    BY <1>3 DEF Lock, Open, OpenWait, Opened, Close, Release, Read, Write, ReadBreak, ReadEof, ReadSleep, ReadExit,
                WriteBroken, WriteRoom, WriteFull, WriteExit, Signal
  <2>2. QED BY <2>1
<1>4. CASE PipeOpen(q)
  BY <1>1, <1>4 DEF PipeOpen, Counted, PipeType
<1>5. CASE PipeClose(q)
  BY <1>1, <1>5 DEF PipeClose, PipeType
<1>6. CASE ReadMap(q)
  BY <1>1, <1>6 DEF ReadMap, PipeType
<1>7. CASE ReadCopy(q)
  BY <1>1, <1>7 DEF ReadCopy, PipeType
<1>8. QED BY <1>2, <1>3, <1>4, <1>5, <1>6, <1>7

LEMMA InLoopSteps ==
  ASSUME PipeInv, Next, NEW p \in Procs, pc[p] \in {"wloop", "wcopy"}, p \notin Readers
  PROVE  \/ pc'[p] = pc[p]
         \/ WriteBroken(p) \/ WriteFull(p) \/ WriteMap(p) \/ (\E b \in Bytes : WriteCopy(p, b)) \/ WriteExit(p)
<1>1. PICK q \in Procs :
        \/ Lock(q) \/ Open(q) \/ PipeOpen(q) \/ OpenWait(q) \/ Opened(q)
        \/ Close(q) \/ PipeClose(q) \/ Release(q)
        \/ (\E n \in ReadCounts : Read(q, n)) \/ (\E n \in WriteCounts : Write(q, n))
        \/ ReadBreak(q) \/ ReadEof(q) \/ ReadSleep(q) \/ ReadMap(q) \/ ReadCopy(q)
        \/ WriteBroken(q) \/ WriteRoom(q) \/ WriteFull(q) \/ WriteMap(q)
        \/ (\E b \in Bytes : WriteCopy(q, b))
        \/ WriteExit(q) \/ Signal(q)
  BY DEF Next
<1>2. pc \in [Procs -> Labels] /\ Asleep
  BY TypeNow DEF PipeInv
<1>3. CASE q # p
  <2>1. pc' = pc \/ \E l : pc' = [pc EXCEPT ![q] = l]
    <3>1. CASE Lock(q) \/ Open(q) \/ PipeOpen(q) \/ OpenWait(q) \/ Opened(q)
      BY <3>1 DEF Lock, Open, PipeOpen, OpenWait, Opened, Runs, Yields, UnlockAndSleep
    <3>2. CASE Close(q) \/ PipeClose(q) \/ Release(q)
      BY <3>2 DEF Close, PipeClose, Release, Runs, Yields
    <3>3. CASE \/ (\E n \in ReadCounts : Read(q, n)) \/ (\E n \in WriteCounts : Write(q, n))
               \/ ReadBreak(q) \/ ReadEof(q) \/ ReadSleep(q) \/ ReadMap(q) \/ ReadCopy(q)
      BY <3>3 DEF Read, Write, ReadBreak, ReadEof, ReadExit, ReadSleep, ReadMap, ReadCopy, Returns, Runs, Yields,
                  UnlockAndSleep
    <3>4. CASE \/ WriteBroken(q) \/ WriteRoom(q) \/ WriteFull(q) \/ WriteMap(q)
               \/ (\E b \in Bytes : WriteCopy(q, b)) \/ WriteExit(q) \/ Signal(q)
      BY <3>4 DEF WriteBroken, WriteRoom, WriteFull, WriteMap, WriteCopy, WriteExit, Signal, Returns, Runs, Yields,
                  UnlockAndSleep
    <3>5. QED BY <1>1, <3>1, <3>2, <3>3, <3>4
  <2>2. QED BY <1>2, <1>3, <2>1
<1>4. CASE q = p
  <2>1. ~Lock(p) /\ ~Open(p) /\ ~PipeOpen(p) /\ ~OpenWait(p) /\ ~Opened(p)
    BY AllLabels DEF Lock, Open, PipeOpen, OpenWait, Opened, At, Unlocking
  <2>2. ~Close(p) /\ ~PipeClose(p) /\ ~Release(p)
    BY DEF Close, PipeClose, Release, At
  <2>3. /\ ~\E n \in ReadCounts : Read(p, n)
        /\ ~\E n \in WriteCounts : Write(p, n)
        /\ ~ReadBreak(p) /\ ~ReadEof(p) /\ ~ReadSleep(p) /\ ~ReadMap(p) /\ ~ReadCopy(p) /\ ~WriteRoom(p)
    BY DEF Read, Write, ReadBreak, ReadEof, ReadSleep, ReadMap, ReadCopy, WriteRoom, At
  <2>4. ~Signal(p)
    BY <1>2 DEF Signal, Asleep, OnRoff, OnWoff, OnReaders, OnWriters
  <2>5. QED BY <1>1, <1>4, <2>1, <2>2, <2>3, <2>4
<1>5. QED BY <1>3, <1>4

LEMMA AtomicStep ==
  ASSUME PipeInv, Next, NEW p \in Procs, Amid(p)
  PROVE  /\ (pipe'.woff - pipe.woff) % PipeBuf # 0 => req'[p].done # req[p].done
         /\ pc'[p] \notin {"roomlock", "fulllock"}
<1>1. pc[p] \in {"wloop", "wcopy"} /\ p \notin Readers
  BY AmidInLoop
<1>2. /\ pipe \in PipeType /\ req \in [Procs -> ReqType] /\ pc \in [Procs -> Labels] /\ PipeBuf \in Nat \ {0}
      /\ Requests /\ Exclusive
  BY TypeNow, PipeAssumption DEF PipeInv
<1>3. req[p].done \in Nat /\ req[p].count \in Nat /\ pipe.size \in 0..PipeBuf /\ pipe.woff \in 0..PipeBuf
  BY <1>2 DEF PipeType, ReqType
<1>4. /\ req[p].count <= PipeBuf - pipe.size
      /\ req[p].count > 0 /\ pipe.size # PipeBuf
  BY <1>1, <1>2, <1>3 DEF Requests, Amid
<1>5. pc'[p] \notin {"roomlock", "fulllock"}
  <2>1. CASE WriteBroken(p) \/ WriteExit(p)
    BY <1>2, <2>1 DEF WriteBroken, WriteExit, Returns, Yields
  <2>2. CASE WriteMap(p) \/ (\E b \in Bytes : WriteCopy(p, b))
    BY <1>2, <2>2 DEF WriteMap, WriteCopy, Runs, Yields
  <2>3. ~WriteFull(p)
    BY <1>4 DEF WriteFull
  <2>4. QED BY <1>1, <2>1, <2>2, <2>3, InLoopSteps
<1>6. ASSUME (pipe'.woff - pipe.woff) % PipeBuf # 0 PROVE req'[p].done # req[p].done
  <2>1. pipe'.woff # pipe.woff
    BY <1>2, <1>3, <1>6, NoBytesAround
  <2>2. PICK q \in Procs : WriteMap(q) \/ \E b \in Bytes : WriteCopy(q, b)
    BY <2>1, OnlyWritersMove
  <2>3. q = p
    BY <1>1, <1>2, <2>2 DEF WriteMap, WriteCopy, At, Exclusive, Locked
  <2>4. ~WriteMap(p)
    <3>1. SUFFICES ASSUME WriteMap(p) PROVE FALSE
      OBVIOUS
    <3>2. pipe'.woff = Wrapped(pipe.woff)
      BY <1>2, <3>1 DEF WriteMap, PipeType
    <3>3. pipe.woff = PipeBuf /\ pipe'.woff = 0
      BY <1>2, <1>3, <2>1, <3>2 DEF Wrapped
    <3>4. pipe'.woff - pipe.woff = 0 - PipeBuf
      BY <3>3
    <3>5. QED BY <1>2, <1>6, <3>4, NoBytesAround
  <2>5. PICK b \in Bytes : WriteCopy(p, b)
    BY <2>2, <2>3, <2>4
  <2>6. req[p].n \in Nat \ {0}
    BY <1>2, <2>5 DEF WriteCopy, At, Requests, Piece, ReqType
  <2>7. req'[p].done = req[p].done + req[p].n
    BY <1>2, <2>5 DEF WriteCopy, NoReq
  <2>8. QED BY <1>3, <2>6, <2>7
<1>7. QED BY <1>5, <1>6

\* A write of PIPE_BUF bytes or less to an unnamed pipe is atomic, whoever else writes.
THEOREM UnnamedWritesAtomic == Spec /\ ~fifo => AtomicWrites
<1> DEFINE Whole == \A p \in Procs : Amid(p) =>
                      /\ (pipe'.woff - pipe.woff) % PipeBuf # 0 => req'[p].done # req[p].done
                      /\ pc'[p] \notin {"roomlock", "fulllock"}
<1>1. PipeInv /\ [Next]_vars => [Whole]_vars
  BY AtomicStep
<1>2. QED BY <1>1, InvAlways, PTL DEF Spec, AtomicWrites

(***************************************************************************)
(* What is in the pipe is a queue of bytes: a read takes from its front    *)
(* and a write puts at its back what it says it copied.                    *)
(***************************************************************************)
Spot(off, i)  == (off + i - 1) % PipeBuf
Queue(pp, ff) == [i \in 1..pp.size |-> ff[Spot(pp.roff, i)]]

LEMMA SpotFacts ==
  ASSUME NEW off \in 0..PipeBuf, NEW i \in 1..PipeBuf
  PROVE  /\ Spot(off, i) \in 0..PipeBuf-1
         /\ off + i - 1 < PipeBuf => Spot(off, i) = off + i - 1
         /\ off + i - 1 >= PipeBuf => Spot(off, i) = off + i - 1 - PipeBuf
<1>1. PipeBuf \in Nat \ {0}
  BY PipeAssumption
<1> DEFINE n == off + i - 1
<1>2. n \in Nat /\ n < 2 * PipeBuf
  BY <1>1
<1> HIDE DEF n
<1>3. n % PipeBuf = IF n < PipeBuf THEN n ELSE n - PipeBuf
  BY <1>1, <1>2, Around
<1>4. /\ n % PipeBuf \in 0..PipeBuf-1
      /\ n < PipeBuf => n % PipeBuf = n
      /\ n >= PipeBuf => n % PipeBuf = n - PipeBuf
  BY <1>1, <1>2, <1>3
<1>5. n = off + i - 1 /\ Spot(off, i) = n % PipeBuf
  BY DEF Spot, n
<1>6. QED BY <1>1, <1>2, <1>4, <1>5

LEMMA QueueFacts ==
  ASSUME NEW pp \in PipeType, NEW ff \in [0..PipeBuf-1 -> Bytes]
  PROVE  /\ Queue(pp, ff) \in Seq(Bytes) /\ Len(Queue(pp, ff)) = pp.size
         /\ \A i \in 1..pp.size : Queue(pp, ff)[i] = ff[Spot(pp.roff, i)]
<1>1. pp.size \in 0..PipeBuf /\ pp.roff \in 0..PipeBuf /\ PipeBuf \in Nat \ {0}
  BY PipeAssumption DEF PipeType
<1>2. ASSUME NEW i \in 1..pp.size PROVE Spot(pp.roff, i) \in 0..PipeBuf-1
  <2>1. i \in 1..PipeBuf
    BY <1>1
  <2>2. QED BY <1>1, <2>1, SpotFacts
<1>3. Queue(pp, ff) \in [1..pp.size -> Bytes]
  BY <1>2 DEF Queue
<1>4. Queue(pp, ff) \in Seq(Bytes) /\ Len(Queue(pp, ff)) = pp.size
  BY <1>1, <1>3
<1>5. QED BY <1>4 DEF Queue

\* The byte i, of those that wait and the n that are written at wo, is in its place.
LEMMA Behind ==
  ASSUME NEW ro \in 0..PipeBuf, NEW wo \in 0..PipeBuf, NEW sz \in 0..PipeBuf, NEW n \in 1..PipeBuf-sz,
         wo + n <= PipeBuf, NEW i \in 1..sz+n, NEW sp \in 0..PipeBuf-1,
         ro + i - 1 < PipeBuf => sp = ro + i - 1,
         ro + i - 1 >= PipeBuf => sp = ro + i - 1 - PipeBuf,
         \/ wo = ro + sz
         \/ wo = ro + sz - PipeBuf
         \/ wo = ro + sz - 2 * PipeBuf
         \/ wo = ro + sz + PipeBuf
  PROVE  /\ i <= sz => sp \notin wo..wo+n-1
         /\ i > sz => sp \in wo..wo+n-1
BY PipeAssumption

LEMMA TakeStep ==
  ASSUME PipeInv, PipeInv', NEW p \in Procs, ReadCopy(p)
  PROVE  /\ req[p].n \in 1..PipeBuf /\ req[p].n <= Len(Queue(pipe, file))
         /\ Queue(pipe, file)' = SubSeq(Queue(pipe, file), req[p].n + 1, Len(Queue(pipe, file)))
<1> DEFINE n == req[p].n
           s == Queue(pipe, file)
           t == Queue(pipe', file')
<1>1. /\ pipe \in PipeType /\ pipe' \in PipeType /\ file \in [0..PipeBuf-1 -> Bytes] /\ file' = file
      /\ PipeBuf \in Nat \ {0}
  <2>1. TypeOK' => pipe' \in PipeType
    BY DEF TypeOK, PipeType
  <2>2. QED BY <2>1, TypeNow, PipeAssumption DEF PipeInv, ReadCopy
<1>2. n \in 1..pipe.size /\ pipe.roff + n <= PipeBuf /\ pipe.roff \in 0..PipeBuf /\ pipe.size \in 0..PipeBuf
  BY <1>1 DEF PipeInv, Requests, Piece, ReadCopy, At, PipeType
<1>3. pipe'.size = pipe.size - n /\ pipe'.roff = pipe.roff + n
  BY <1>1 DEF ReadCopy, PipeType
<1>4. /\ s \in Seq(Bytes) /\ Len(s) = pipe.size
      /\ \A i \in 1..pipe.size : s[i] = file[Spot(pipe.roff, i)]
  BY <1>1, QueueFacts
<1>5. /\ t \in Seq(Bytes) /\ Len(t) = pipe'.size
      /\ \A i \in 1..pipe'.size : t[i] = file[Spot(pipe'.roff, i)]
  BY <1>1, QueueFacts
<1> HIDE DEF s, t, n
<1>6. /\ SubSeq(s, n + 1, pipe.size) \in Seq(Bytes)
      /\ Len(SubSeq(s, n + 1, pipe.size)) = pipe.size - n
      /\ \A i \in 1..pipe.size-n : SubSeq(s, n + 1, pipe.size)[i] = s[n + i]
  <2>1. n + 1 \in Int /\ pipe.size \in Int /\ \A i \in (n + 1)..pipe.size : s[i] \in Bytes
    BY <1>2, <1>4, ElementOfSeq
  <2>2. /\ SubSeq(s, n + 1, pipe.size) \in Seq(Bytes)
        /\ Len(SubSeq(s, n + 1, pipe.size)) = IF n + 1 <= pipe.size THEN pipe.size - (n + 1) + 1 ELSE 0
        /\ \A i \in 1..pipe.size-(n+1)+1 : SubSeq(s, n + 1, pipe.size)[i] = s[n + 1 + i - 1]
    BY ONLY <2>1, SubSeqProperties
  <2>3. pipe.size - (n + 1) + 1 = pipe.size - n /\ \A i \in Int : n + 1 + i - 1 = n + i
    BY <1>2
  <2>4. QED BY <1>2, <2>2, <2>3
<1>7. ASSUME NEW i \in 1..pipe'.size PROVE t[i] = SubSeq(s, n + 1, pipe.size)[i]
  <2>1. i \in 1..pipe.size-n /\ n + i \in 1..pipe.size
    BY <1>2, <1>3
  <2>2. Spot(pipe'.roff, i) = Spot(pipe.roff, n + i)
    <3>1. pipe'.roff + i - 1 = pipe.roff + (n + i) - 1
      BY <1>2, <1>3
    <3>2. QED BY <3>1 DEF Spot
  <2>3. t[i] = file[Spot(pipe.roff, n + i)]
    BY <1>5, <2>2
  <2>4. QED BY <1>4, <1>6, <2>1, <2>3
<1>8. t = SubSeq(s, n + 1, Len(s))
  <2>1. PICK w : w = SubSeq(s, n + 1, pipe.size)
    OBVIOUS
  <2>2. w \in Seq(Bytes) /\ Len(w) = Len(t)
    BY <1>3, <1>5, <1>6, <2>1
  <2>3. t \in Seq(Bytes) /\ \A i \in 1..Len(t) : t[i] = w[i]
    BY <1>5, <1>7, <2>1
  <2>4. t = w
    BY ONLY <2>2, <2>3, SeqEqual
  <2>5. QED BY <1>4, <2>1, <2>4
<1>9. Queue(pipe, file)' = t /\ Queue(pipe, file) = s /\ req[p].n = n
  BY DEF n, s, t, Queue
<1>10. QED
  BY <1>1, <1>2, <1>4, <1>8, <1>9

\* The piece that is filled lies behind the bytes that wait, around the end of the pipe.
LEMMA PutStep ==
  ASSUME PipeInv, PipeInv', NEW p \in Procs, NEW b \in Bytes, WriteCopy(p, b)
  PROVE  /\ req[p].n \in 1..PipeBuf /\ Len(Queue(pipe, file)) + req[p].n <= PipeBuf
         /\ Queue(pipe, file)' = Queue(pipe, file) \o [i \in 1..req[p].n |-> b]
<1> DEFINE n == req[p].n
           s == Queue(pipe, file)
           t == Queue(pipe', file')
           w == [i \in 1..n |-> b]
<1>1. /\ pipe \in PipeType /\ pipe' \in PipeType /\ PipeBuf \in Nat \ {0} /\ Offsets
      /\ file \in [0..PipeBuf-1 -> Bytes] /\ file' \in [0..PipeBuf-1 -> Bytes]
  <2>1. TypeOK' => pipe' \in PipeType /\ file' \in [0..PipeBuf-1 -> Bytes]
    BY DEF TypeOK, PipeType
  <2>2. QED BY <2>1, TypeNow, PipeAssumption DEF PipeInv
<1>2. /\ n \in 1..PipeBuf-pipe.size /\ req[p].off = pipe.woff /\ pipe.woff + n <= PipeBuf
      /\ pipe.roff \in 0..PipeBuf /\ pipe.woff \in 0..PipeBuf /\ pipe.size \in 0..PipeBuf
  BY <1>1 DEF PipeInv, Requests, Piece, WriteCopy, At, PipeType
<1>3. /\ pipe'.size = pipe.size + n /\ pipe'.roff = pipe.roff
      /\ \A i \in 0..PipeBuf-1 : file'[i] = IF i \in pipe.woff..pipe.woff+n-1 THEN b ELSE file[i]
  BY <1>1, <1>2 DEF WriteCopy, PipeType
<1>4. /\ s \in Seq(Bytes) /\ Len(s) = pipe.size
      /\ \A i \in 1..pipe.size : s[i] = file[Spot(pipe.roff, i)]
  BY <1>1, QueueFacts
<1>5. /\ t \in Seq(Bytes) /\ Len(t) = pipe'.size
      /\ \A i \in 1..pipe'.size : t[i] = file'[Spot(pipe'.roff, i)]
  BY <1>1, QueueFacts
<1> HIDE DEF s, t, n
<1>6. w \in Seq(Bytes) /\ Len(w) = n /\ \A i \in 1..n : w[i] = b
  <2>1. n \in Nat /\ w \in [1..n -> Bytes]
    BY <1>2
  <2>2. QED BY <2>1
<1> HIDE DEF w
<1>7. /\ s \o w \in Seq(Bytes) /\ Len(s \o w) = pipe.size + n
      /\ \A i \in 1..pipe.size+n : (s \o w)[i] = IF i <= pipe.size THEN s[i] ELSE w[i - pipe.size]
  <2>1. /\ s \o w \in Seq(Bytes) /\ Len(s \o w) = Len(s) + Len(w)
        /\ \A i \in 1..Len(s)+Len(w) : (s \o w)[i] = IF i <= Len(s) THEN s[i] ELSE w[i - Len(s)]
    BY ONLY <1>4, <1>6, ConcatProperties
  <2>2. QED BY <1>4, <1>6, <2>1
<1>8. ASSUME NEW i \in 1..pipe'.size PROVE t[i] = (s \o w)[i]
  <2> DEFINE spot == Spot(pipe.roff, i)
  <2>1. i \in 1..pipe.size+n /\ i \in 1..PipeBuf /\ t[i] = file'[spot]
    BY <1>1, <1>2, <1>3, <1>5
  <2>2. i <= pipe.size => s[i] = file[spot]
    BY <1>2, <1>4, <2>1
  <2>3. /\ spot \in 0..PipeBuf-1
        /\ pipe.roff + i - 1 < PipeBuf => spot = pipe.roff + i - 1
        /\ pipe.roff + i - 1 >= PipeBuf => spot = pipe.roff + i - 1 - PipeBuf
    BY <1>2, <2>1, SpotFacts
  <2> HIDE DEF spot
  <2>4. /\ i <= pipe.size => spot \notin pipe.woff..pipe.woff+n-1
        /\ i > pipe.size => spot \in pipe.woff..pipe.woff+n-1
    BY <1>1, <1>2, <2>1, <2>3, Behind DEF Offsets
  <2>5. CASE i <= pipe.size
    <3>1. (s \o w)[i] = s[i] /\ i \in 1..pipe.size
      BY <1>7, <2>1, <2>5
    <3>2. QED BY <1>3, <2>1, <2>2, <2>3, <2>4, <2>5, <3>1
  <2>6. CASE i > pipe.size
    <3>1. i - pipe.size \in 1..n /\ ~(i <= pipe.size)
      BY <1>2, <2>1, <2>6
    <3>2. t[i] = b
      BY <1>3, <2>1, <2>3, <2>4, <2>6
    <3>3. (s \o w)[i] = w[i - pipe.size]
      BY <1>7, <2>1, <3>1
    <3>4. QED BY <1>6, <3>1, <3>2, <3>3
  <2>7. i <= pipe.size \/ i > pipe.size
    BY <1>2, <2>1
  <2>8. QED BY <2>5, <2>6, <2>7
<1>9. t = s \o w
  BY <1>3, <1>5, <1>7, <1>8, SeqEqual
<1>10. Queue(pipe, file)' = t /\ Queue(pipe, file) = s /\ req[p].n = n /\ w = [i \in 1..n |-> b]
  BY DEF n, s, t, w, Queue
<1>11. QED
  BY <1>1, <1>2, <1>4, <1>9, <1>10

LEMMA QueueUnmoved ==
  ASSUME PipeInv, Next, ~\E p \in Procs : ReadCopy(p) \/ \E b \in Bytes : WriteCopy(p, b)
  PROVE  Queue(pipe, file)' = Queue(pipe, file)
<1>1. PICK q \in Procs :
        \/ Lock(q) \/ Open(q) \/ PipeOpen(q) \/ OpenWait(q) \/ Opened(q)
        \/ Close(q) \/ PipeClose(q) \/ Release(q)
        \/ (\E n \in ReadCounts : Read(q, n)) \/ (\E n \in WriteCounts : Write(q, n))
        \/ ReadBreak(q) \/ ReadEof(q) \/ ReadSleep(q) \/ ReadMap(q)
        \/ WriteBroken(q) \/ WriteRoom(q) \/ WriteFull(q) \/ WriteMap(q) \/ WriteExit(q) \/ Signal(q)
  BY DEF Next
<1>2. pipe \in PipeType /\ PipeBuf \in Nat \ {0}
  BY TypeNow, PipeAssumption DEF PipeInv
<1>3. CASE \/ Lock(q) \/ Open(q) \/ OpenWait(q) \/ Opened(q) \/ Close(q) \/ Release(q)
           \/ (\E n \in ReadCounts : Read(q, n)) \/ (\E n \in WriteCounts : Write(q, n))
           \/ ReadBreak(q) \/ ReadEof(q) \/ ReadSleep(q)
           \/ WriteBroken(q) \/ WriteRoom(q) \/ WriteFull(q) \/ WriteExit(q) \/ Signal(q)
  <2>1. pipe' = pipe /\ file' = file
    BY <1>3 DEF Lock, Open, OpenWait, Opened, Close, Release, Read, Write, ReadBreak, ReadEof, ReadSleep, ReadExit,
                WriteBroken, WriteRoom, WriteFull, WriteExit, Signal
  <2>2. QED BY <2>1 DEF Queue
<1>4. CASE PipeOpen(q) \/ PipeClose(q) \/ WriteMap(q)
  <2>1. pipe'.size = pipe.size /\ pipe'.roff = pipe.roff /\ file' = file
    BY <1>2, <1>4 DEF PipeOpen, Counted, PipeClose, WriteMap, PipeType
  <2>2. QED BY <2>1 DEF Queue
<1>5. CASE ReadMap(q)
  <2>1. pipe'.size = pipe.size /\ pipe'.roff = Wrapped(pipe.roff) /\ file' = file
    BY <1>2, <1>5 DEF ReadMap, PipeType
  <2>2. pipe.size \in 0..PipeBuf /\ pipe.roff \in 0..PipeBuf
    BY <1>2 DEF PipeType
  <2>3. ASSUME NEW i \in 1..pipe.size PROVE Spot(pipe'.roff, i) = Spot(pipe.roff, i)
    <3>1. pipe'.roff = pipe.roff \/ (pipe'.roff = 0 /\ pipe.roff = PipeBuf)
      BY <1>2, <2>1, <2>2 DEF Wrapped
    <3>2. CASE pipe'.roff = 0 /\ pipe.roff = PipeBuf
      <4>1. i \in 1..PipeBuf /\ 0 \in 0..PipeBuf /\ PipeBuf \in 0..PipeBuf
        BY <1>2, <2>2
      <4>2. Spot(0, i) = 0 + i - 1
        <5>1. 0 + i - 1 < PipeBuf
          BY <1>2, <4>1
        <5>2. QED BY <4>1, <5>1, SpotFacts
      <4>3. Spot(PipeBuf, i) = PipeBuf + i - 1 - PipeBuf
        <5>1. PipeBuf + i - 1 >= PipeBuf
          BY <1>2, <4>1
        <5>2. QED BY <4>1, <5>1, SpotFacts
      <4>4. QED BY <1>2, <3>2, <4>1, <4>2, <4>3
    <3>3. QED BY <3>1, <3>2
  <2>4. QED BY <2>1, <2>3 DEF Queue
<1>6. QED BY <1>1, <1>3, <1>4, <1>5

LEMMA StreamStep ==
  ASSUME PipeInv, PipeInv', Next
  PROVE  Stream!Next \/ Queue(pipe, file)' = Queue(pipe, file)
<1>1. CASE \E p \in Procs : ReadCopy(p)
  <2>1. PICK p \in Procs : ReadCopy(p)
    BY <1>1
  <2>2. /\ req[p].n \in 1..PipeBuf /\ req[p].n <= Len(Queue(pipe, file))
        /\ Queue(pipe, file)' = SubSeq(Queue(pipe, file), req[p].n + 1, Len(Queue(pipe, file)))
    BY <2>1, TakeStep
  <2>3. Stream!Take(req[p].n)
    BY <2>2 DEF Stream!Take, Queue, Spot
  <2>4. QED BY <2>2, <2>3 DEF Stream!Next, Stream!Take
<1>2. CASE \E p \in Procs : \E b \in Bytes : WriteCopy(p, b)
  <2>1. PICK p \in Procs, b \in Bytes : WriteCopy(p, b)
    BY <1>2
  <2>2. /\ req[p].n \in 1..PipeBuf /\ Len(Queue(pipe, file)) + req[p].n <= PipeBuf
        /\ Queue(pipe, file)' = Queue(pipe, file) \o [i \in 1..req[p].n |-> b]
    BY <2>1, PutStep
  <2>3. [i \in 1..req[p].n |-> b] \in [1..req[p].n -> Bytes]
    OBVIOUS
  <2>4. \E s \in [1..req[p].n -> Bytes] : Queue(pipe, file)' = Queue(pipe, file) \o s
    BY <2>2, <2>3
  <2>5. Stream!Put(req[p].n)
    BY <2>2, <2>4 DEF Stream!Put, Queue, Spot
  <2>6. QED BY <2>2, <2>5 DEF Stream!Next, Stream!Put
<1>3. QED BY <1>1, <1>2, QueueUnmoved

\* An unnamed pipe is a queue of PIPE_BUF bytes: nothing is lost, repeated or
\* reordered, whoever reads, writes, is interrupted or closes.
THEOREM UnnamedPipeIsStream == Spec /\ ~fifo => ImplementsStream
<1>1. Init => Stream!Init
  <2>1. SUFFICES ASSUME Init PROVE [i \in 1..pipe.size |-> file[(pipe.roff + i - 1) % PipeBuf]] = <<>>
    BY DEF Stream!Init
  <2>2. pipe.size = 0
    BY <2>1 DEF Init
  <2>3. 1..0 = {}
    OBVIOUS
  <2>4. QED BY <2>2, <2>3
<1>2. PipeInv /\ PipeInv' /\ [Next]_vars => [Stream!Next]_[i \in 1..pipe.size |-> file[(pipe.roff + i - 1) % PipeBuf]]
  <2>1. SUFFICES ASSUME PipeInv, PipeInv', [Next]_vars
                 PROVE  Stream!Next \/ Queue(pipe, file)' = Queue(pipe, file)
    BY DEF Queue, Spot
  <2>2. CASE Next
    BY <2>1, <2>2, StreamStep
  <2>3. CASE UNCHANGED vars
    BY <2>3 DEF vars, Queue
  <2>4. QED BY <2>1, <2>2, <2>3
<1>3. QED BY <1>1, <1>2, InvAlways, PTL DEF Spec, ImplementsStream, Stream!Spec

(***************************************************************************)
(* Inodes and blocks: the numbers of clusters.                             *)
(***************************************************************************)
LEMMA Geometry ==
  /\ s_clusters \in Nat /\ s_clusters >= 1 /\ s_icluster \in Nat /\ s_icluster >= 1
  /\ s_bcluster \in Nat /\ s_bcluster >= 1 /\ s_blcluster \in Nat /\ s_blcluster >= 1 /\ s_blcluster <= s_bcluster
  /\ HEAD \in Nat /\ RESERVED \in Nat /\ RESERVED >= 3
  /\ s_bpcluster \in Nat /\ s_bpcluster = RESERVED + s_bcluster
  /\ 0 \notin Users /\ ClusterNos = 0..s_clusters - 1
BY GeometryAssumption DEF RESERVED, s_bpcluster, ClusterNos

\* A quotient and a remainder are the only ones.
LEMMA Quotients ==
  ASSUME NEW d \in Nat, NEW c \in Int, NEW b \in 0..d - 1
  PROVE  (c * d + b) \div d = c /\ (c * d + b) % d = b
<1> DEFINE n == c * d + b
<1>1. d > 0 /\ n \in Int
  OBVIOUS
<1>2. n \div d \in Int /\ n % d \in 0..d - 1 /\ n = (n \div d) * d + (n % d)
  BY <1>1
<1>3. PICK q \in Int, r \in 0..d - 1 : q = n \div d /\ r = n % d
  BY <1>2
<1>4. c * d + b = q * d + r
  BY <1>2, <1>3
<1>5. q = c
  <2>1. (q - c) * d = b - r
    BY <1>4
  <2>2. CASE q - c >= 1
    <3>1. (q - c) * d >= d
      BY <1>1, <2>2
    <3>2. QED BY <2>1, <3>1
  <2>3. CASE q - c <= 0 - 1
    <3>1. (q - c) * d <= 0 - d
      BY <1>1, <2>3
    <3>2. QED BY <2>1, <3>1
  <2>4. QED BY <2>2, <2>3
<1>6. r = b
  BY <1>4, <1>5
<1>7. QED BY <1>3, <1>5, <1>6

LEMMA Multiples ==
  ASSUME NEW d \in Nat, NEW c \in Nat, NEW e \in Nat, c < e
  PROVE  c * d \in Nat /\ c * d + d <= e * d /\ e * d \in Nat
<1>1. (e - c - 1) * d >= 0
  OBVIOUS
<1>2. (e - c - 1) * d = e * d - c * d - d
  OBVIOUS
<1>3. QED BY <1>1, <1>2

\* The bits of a bitmap.
LEMMA BitsAreNumbers ==
  ASSUME NEW t \in Types, NEW c \in ClusterNos
  PROVE  Bits(t, c) \subseteq 0..(IF t = INODES THEN s_icluster ELSE s_bcluster) - 1 /\ Bits(t, c) \subseteq Nat
BY Geometry DEF Bits, cluster_data_blocks

\* A number names one cluster and one bit.
LEMMA NumberIsOne ==
  ASSUME NEW t \in Types, NEW c \in ClusterNos, NEW b \in Bits(t, c)
  PROVE  /\ Number(t, c, b) \in Nat
         /\ Cluster(t, Number(t, c, b)) = c /\ Bit(t, Number(t, c, b)) = b
<1>1. c \in Nat /\ b \in Nat /\ b \in 0..(IF t = INODES THEN s_icluster ELSE s_bcluster) - 1
  BY Geometry, BitsAreNumbers
<1>2. CASE t = INODES
  <2>1. PICK n : n = c * s_icluster + b
    OBVIOUS
  <2>2. n \in Nat
    BY <1>1, <2>1, Geometry
  <2>3. n \div s_icluster = c /\ n % s_icluster = b
    <3>1. s_icluster \in Nat /\ c \in Int /\ b \in 0..s_icluster - 1
      BY <1>1, <1>2, Geometry
    <3>2. (c * s_icluster + b) \div s_icluster = c /\ (c * s_icluster + b) % s_icluster = b
      BY <3>1, Quotients
    <3>3. QED BY <2>1, <3>2
  <2>4. QED BY <1>2, <2>1, <2>2, <2>3 DEF Number, Cluster, Bit
<1>3. CASE t = BLOCKS
  <2>1. t # INODES
    BY <1>3 DEF INODES, BLOCKS
  <2>2. PICK n : n = HEAD + c * s_bpcluster + RESERVED + b
    OBVIOUS
  <2>3. PICK k : k = RESERVED + b
    OBVIOUS
  <2>4. k \in 0..s_bpcluster - 1
    BY <1>1, <2>1, <2>3, Geometry
  <2>5. (c * s_bpcluster + k) \div s_bpcluster = c /\ (c * s_bpcluster + k) % s_bpcluster = k
    <3>1. s_bpcluster \in Nat /\ c \in Int
      BY <1>1, Geometry
    <3>2. QED BY <2>4, <3>1, Quotients
  <2>6. c * s_bpcluster \in Nat
    BY <1>1, Geometry
  <2>7. n \in Nat /\ n - HEAD = c * s_bpcluster + k
    BY <1>1, <2>2, <2>3, <2>6, Geometry
  <2>8. k - RESERVED = b
    BY <1>1, <2>3, Geometry
  <2>9. QED BY <2>1, <2>2, <2>5, <2>7, <2>8 DEF Number, Cluster, Bit, cluster2fs, ClusterOf, fs2cluster
<1>4. QED BY <1>2, <1>3 DEF Types

LEMMA NumbersApart ==
  ASSUME NEW t \in Types, NEW c \in ClusterNos, NEW b \in Bits(t, c), NEW e \in ClusterNos, NEW k \in Bits(t, e),
         Number(t, c, b) = Number(t, e, k)
  PROVE  c = e /\ b = k
BY NumberIsOne

LEMMA NumberOfAll ==
  ASSUME NEW t \in Types, NEW n
  PROVE  /\ n \in All(t) => /\ Cluster(t, n) \in ClusterNos /\ Bit(t, n) \in Bits(t, Cluster(t, n))
                            /\ n = Number(t, Cluster(t, n), Bit(t, n))
         /\ \A c \in ClusterNos : \A b \in Bits(t, c) : Number(t, c, b) \in All(t)
<1>1. ASSUME n \in All(t)
      PROVE  /\ Cluster(t, n) \in ClusterNos /\ Bit(t, n) \in Bits(t, Cluster(t, n))
             /\ n = Number(t, Cluster(t, n), Bit(t, n))
  <2>1. PICK c \in ClusterNos : \E b \in Bits(t, c) : n = Number(t, c, b)
    BY <1>1 DEF All
  <2>2. PICK b \in Bits(t, c) : n = Number(t, c, b)
    BY <2>1
  <2>3. Cluster(t, n) = c /\ Bit(t, n) = b
    BY <2>2, NumberIsOne
  <2>4. QED BY <2>2, <2>3
<1>2. ASSUME NEW c \in ClusterNos, NEW b \in Bits(t, c)
      PROVE  Number(t, c, b) \in All(t)
  BY DEF All
<1>3. QED BY <1>1, <1>2

\* There are only so many.
LEMMA AllIsFinite ==
  ASSUME NEW t \in Types
  PROVE  IsFiniteSet(All(t)) /\ All(t) \subseteq Nat
<1> DEFINE d == IF t = INODES THEN s_icluster ELSE s_bpcluster
           m == HEAD + s_clusters * d + s_bpcluster
<1>1. d \in Nat /\ s_clusters * d \in Nat /\ m \in Nat
  BY Geometry
<1>2. ASSUME NEW n \in All(t)
      PROVE  n \in 0..m
  <2>1. PICK c \in ClusterNos : \E b \in Bits(t, c) : n = Number(t, c, b)
    BY <1>2 DEF All
  <2>2. PICK b \in Bits(t, c) : n = Number(t, c, b)
    BY <2>1
  <2>3. c \in Nat /\ c < s_clusters /\ b \in Nat /\ b \in 0..(IF t = INODES THEN s_icluster ELSE s_bcluster) - 1
    BY Geometry, BitsAreNumbers
  <2>4. PICK x : x = c * d
    OBVIOUS
  <2>5. PICK y : y = s_clusters * d
    OBVIOUS
  <2>6. x \in Nat /\ y \in Nat /\ x + d <= y
    BY <1>1, <2>3, <2>4, <2>5, Geometry, Multiples
  <2>7. CASE t = INODES
    <3>1. n = x + b
      BY <2>2, <2>4, <2>7 DEF Number
    <3>2. m = HEAD + y + s_bpcluster /\ d = s_icluster
      BY <2>5, <2>7
    <3> HIDE DEF m, d
    <3>3. QED BY <2>3, <2>6, <2>7, <3>1, <3>2, Geometry
  <2>8. CASE t # INODES
    <3>1. n = HEAD + x + RESERVED + b
      BY <2>2, <2>4, <2>8 DEF Number, cluster2fs
    <3>2. m = HEAD + y + s_bpcluster /\ d = s_bpcluster
      BY <2>5, <2>8
    <3> HIDE DEF m, d
    <3>3. QED BY <2>3, <2>6, <2>8, <3>1, <3>2, Geometry
  <2>9. QED BY <2>7, <2>8
<1> HIDE DEF m, d
<1>3. 0 \in Int /\ m \in Int /\ 0..m \subseteq Nat
  BY <1>1
<1>4. IsFiniteSet(0..m)
  BY <1>3, FS_Interval
<1>5. All(t) \subseteq 0..m
  BY <1>2
<1>6. QED BY <1>3, <1>4, <1>5, FS_Subset

LEMMA BitsAreFinite ==
  ASSUME NEW t \in Types, NEW c \in ClusterNos
  PROVE  IsFiniteSet(Bits(t, c))
<1>1. PICK n : n = (IF t = INODES THEN s_icluster ELSE cluster_data_blocks(c)) - 1
  OBVIOUS
<1>2. n \in Int /\ 0 \in Int
  BY <1>1, Geometry DEF cluster_data_blocks
<1>3. QED BY <1>1, <1>2, FS_Interval DEF Bits

\* A bitmap block is that of one type and one cluster.
LEMMA BitmapIsOne ==
  ASSUME NEW t \in Types, NEW c \in Int
  PROVE  (BitmapOf(t, c) - HEAD) % s_bpcluster = t /\ ClusterOf(BitmapOf(t, c)) = c
<1>1. t \in 0..s_bpcluster - 1
  BY Geometry DEF Types, INODES, BLOCKS
<1>2. (c * s_bpcluster + t) \div s_bpcluster = c /\ (c * s_bpcluster + t) % s_bpcluster = t
  BY <1>1, Geometry, Quotients
<1>3. c * s_bpcluster \in Int
  BY Geometry
<1>4. BitmapOf(t, c) - HEAD = c * s_bpcluster + t
  BY <1>1, <1>3, Geometry DEF BitmapOf, cluster_reserved2fs
<1>5. QED BY <1>2, <1>4 DEF ClusterOf

LEMMA BitmapsApart ==
  ASSUME NEW t \in Types, NEW c \in Int, NEW s \in Types, NEW e \in Int, BitmapOf(t, c) = BitmapOf(s, e)
  PROVE  t = s /\ c = e
BY BitmapIsOne

(***************************************************************************)
(* Inodes and blocks: the locks of the superblock.                         *)
(***************************************************************************)
ClPlaces == {"idle", "lock", "alloc", "free", "switch", "switch2", "switch3", "flush", "panic",
             "update", "updated", "sync_inodes", "sync_blocks", "synced"}
LockPlaces    == {"alloc", "free", "switch", "switch2", "switch3", "flush", "panic"}
AllocFree == {"alloc", "free"}

LocFields == {"op", "type", "n", "cluster", "force", "wrapped", "first", "fblock", "back", "got"}
LocOf(l) ==
  /\ DOMAIN l = LocFields
  /\ l.op \in {"none", "alloc", "free", "sync"} /\ l.type \in Types
  /\ l.back \in {"idle", "switch3", "sync_blocks", "synced"}
  /\ \A r \in l.got : r[1] \in Types

SbSet == [lock : [Types -> BOOLEAN], demand : [Types -> BOOLEAN], free : [Types -> Int], dropped : BOOLEAN]

LockTypes ==
  /\ sb \in SbSet
  /\ waits \in [Users -> {"none", "s_ilock", "s_flock", "sb"}]
  /\ at \in [Users -> ClPlaces]
  /\ loc = [p \in Users |-> loc[p]] /\ \A p \in Users : LocOf(loc[p])

\* Which call is where, and who sleeps on what.
UserPlaced(p) ==
  /\ at[p] \in {"lock", "alloc", "free", "switch", "switch2", "switch3", "panic"} => loc[p].op \in AllocFree
  /\ at[p] \in AllocFree => at[p] = loc[p].op
  /\ at[p] \in {"update", "updated", "sync_inodes", "sync_blocks", "synced"} => loc[p].op = "sync"
  /\ at[p] = "flush" => IF loc[p].op \in AllocFree THEN loc[p].back = "switch3"
                        ELSE loc[p].op = "sync" /\ loc[p].back \in {"sync_blocks", "synced"}
  /\ waits[p] \in {"s_ilock", "s_flock"} => at[p] = "lock" /\ waits[p] = Channel(loc[p].type)
  /\ waits[p] = "sb" => at[p] = "update"

\* p has the lock of type t.
HasLock(p, t) == at[p] = "updated" \/ (loc[p].op \in AllocFree /\ loc[p].type = t /\ at[p] \in LockPlaces)

LocksApart ==
  /\ \A p \in Users, t \in Types : HasLock(p, t) => sb.lock[t]
  /\ \A p, q \in Users, t \in Types : HasLock(p, t) /\ HasLock(q, t) => p = q
WaitsSeen == ~sb.dropped => \A p \in Users, t \in Types : waits[p] = Channel(t) => sb.lock[t] /\ sb.demand[t]

LockInv == LockTypes /\ (\A p \in Users : UserPlaced(p)) /\ LocksApart /\ WaitsSeen

\* A step of p alone.
Alone(p) ==
  /\ at' \in [Users -> ClPlaces] /\ loc' = [q \in Users |-> loc'[q]]
  /\ \A q \in Users \ {p} : at'[q] = at[q] /\ loc'[q] = loc[q]
  /\ LocOf(loc'[p])

LEMMA AloneStep ==
  ASSUME LockTypes, NEW p \in Users, NEW x \in ClPlaces, at' = [at EXCEPT ![p] = x],
         NEW l, LocOf(l), loc' = [loc EXCEPT ![p] = l]
  PROVE  Alone(p) /\ at'[p] = x /\ loc'[p] = l
BY DEF LockTypes, Alone

LEMMA StayStep ==
  ASSUME LockTypes, NEW p \in Users, NEW x \in ClPlaces, at' = [at EXCEPT ![p] = x], loc' = loc
  PROVE  Alone(p) /\ at'[p] = x /\ loc'[p] = loc[p]
BY DEF LockTypes, Alone

LEMMA AloneTypes ==
  ASSUME LockTypes, NEW p \in Users, Alone(p),
         sb' \in SbSet,
         waits' \in [Users -> {"none", "s_ilock", "s_flock", "sb"}]
  PROVE  LockTypes'
BY DEF LockTypes, Alone

\* Whoever does not move stays placed, awake or not.
LEMMA OtherPlaced ==
  ASSUME NEW p \in Users, Alone(p), NEW q \in Users \ {p}, UserPlaced(q), waits'[q] \in {waits[q], "none"}
  PROVE  UserPlaced(q)'
BY DEF UserPlaced, Alone

LEMMA OtherLock ==
  ASSUME NEW p \in Users, Alone(p), NEW q \in Users \ {p}, NEW t
  PROVE  HasLock(q, t)' <=> HasLock(q, t)
BY DEF HasLock, Alone

\* A step between taking a lock and letting it go, or far from either.
LEMMA InnerStep ==
  ASSUME LockInv, NEW p \in Users, Alone(p), UNCHANGED <<sb, waits>>, UserPlaced(p)',
         \A t \in Types : HasLock(p, t)' => HasLock(p, t)
  PROVE  LockInv'
<1>1. LockTypes /\ LockTypes'
  <2>1. LockTypes
    BY DEF LockInv
  <2>2. /\ sb' \in SbSet
        /\ waits' \in [Users -> {"none", "s_ilock", "s_flock", "sb"}]
    BY <2>1 DEF LockTypes
  <2>3. QED BY <2>1, <2>2, AloneTypes
<1>2. ASSUME NEW q \in Users PROVE UserPlaced(q)'
  <2>1. CASE q # p
    BY <2>1, OtherPlaced DEF LockInv
  <2>2. QED BY <2>1
<1>3. \A q \in Users, t \in Types : HasLock(q, t)' => HasLock(q, t)
  BY OtherLock
<1>4. LocksApart'
  BY <1>3 DEF LockInv, LocksApart
<1>5. WaitsSeen'
  BY DEF LockInv, WaitsSeen
<1>6. QED BY <1>1, <1>2, <1>4, <1>5 DEF LockInv

LEMMA HereNow ==
  ASSUME LockInv, NEW p \in Users, NEW l, Ready(p, l)
  PROVE  /\ at[p] = l /\ waits[p] = "none" /\ LocOf(loc[p]) /\ UserPlaced(p) /\ LockTypes
         /\ loc[p].type \in Types /\ sb.lock \in [Types -> BOOLEAN]
BY DEF LockInv, LockTypes, Ready, LocOf, SbSet

\* The variables of a process after each of their assignments.
CalledVars(l, o, t, n) == [Idle EXCEPT !.op = o, !.type = t, !.n = n, !.got = l.got]

LEMMA CallVars ==
  ASSUME NEW l, LocOf(l), NEW o \in {"alloc", "free", "sync"}, NEW t \in Types, NEW n,
         NEW m, m = CalledVars(l, o, t, n)
  PROVE  LocOf(m) /\ m.op = o /\ m.type = t /\ m.n = n /\ m.got = l.got /\ m.back = "idle"
<1>1. DOMAIN Idle = LocFields /\ Idle.back = "idle"
  BY DEF Idle, LocFields
<1> HIDE DEF Idle
<1>2. DOMAIN m = LocFields /\ m.op = o /\ m.type = t /\ m.n = n /\ m.got = l.got /\ m.back = "idle"
  BY <1>1 DEF LocFields, CalledVars
<1>3. QED BY <1>2 DEF LocOf

LEMMA IdleVars ==
  ASSUME NEW g, \A r \in g : r[1] \in Types, NEW m, m = [Idle EXCEPT !.got = g]
  PROVE  LocOf(m) /\ m.op = "none" /\ m.got = g
<1>1. DOMAIN Idle = LocFields /\ Idle.back = "idle" /\ Idle.op = "none" /\ Idle.type \in Types
  BY DEF Idle, LocFields, Types
<1> HIDE DEF Idle
<1>2. DOMAIN m = LocFields /\ m.op = "none" /\ m.type = Idle.type /\ m.back = "idle" /\ m.got = g
  BY <1>1 DEF LocFields
<1>3. QED BY <1>1, <1>2 DEF LocOf

LEMMA SyncVars ==
  ASSUME NEW l, LocOf(l), NEW m, m = [Idle EXCEPT !.op = "sync", !.got = l.got]
  PROVE  LocOf(m) /\ m.op = "sync" /\ m.got = l.got
<1>1. DOMAIN Idle = LocFields /\ Idle.back = "idle" /\ Idle.type \in Types
  BY DEF Idle, LocFields, Types
<1> HIDE DEF Idle
<1>2. DOMAIN m = LocFields /\ m.op = "sync" /\ m.type = Idle.type /\ m.back = "idle" /\ m.got = l.got
  BY <1>1 DEF LocFields
<1>3. QED BY <1>1, <1>2 DEF LocOf

\* m is l but for the fields of D.
SameBut(m, l, D) == LocOf(m) /\ \A f \in LocFields \ D : m[f] = l[f]

SearchedVars(l, c, f) == [l EXCEPT !.cluster = c, !.first = f, !.force = FALSE, !.wrapped = FALSE]

LEMMA SearchVars ==
  ASSUME NEW l, LocOf(l), NEW c, NEW f, NEW m,
         m = SearchedVars(l, c, f)
  PROVE  /\ SameBut(m, l, {"cluster", "first", "force", "wrapped"})
         /\ m.cluster = c /\ m.first = f /\ ~m.force /\ ~m.wrapped
<1>1. DOMAIN l = LocFields
  BY DEF LocOf
<1>2. /\ DOMAIN m = LocFields /\ \A f1 \in LocFields \ {"cluster", "first", "force", "wrapped"} : m[f1] = l[f1]
      /\ m.cluster = c /\ m.first = f /\ ~m.force /\ ~m.wrapped
      /\ m.op = l.op /\ m.type = l.type /\ m.back = l.back /\ m.got = l.got
  BY <1>1 DEF LocFields, SearchedVars
<1>3. QED BY <1>2 DEF SameBut, LocOf

ForcedVars(l, c) == [l EXCEPT !.cluster = c, !.force = TRUE]

LEMMA ForceVars ==
  ASSUME NEW l, LocOf(l), NEW c, NEW m, m = ForcedVars(l, c)
  PROVE  SameBut(m, l, {"cluster", "force"}) /\ m.cluster = c /\ m.force
<1>1. DOMAIN l = LocFields
  BY DEF LocOf
<1>2. /\ DOMAIN m = LocFields /\ \A f1 \in LocFields \ {"cluster", "force"} : m[f1] = l[f1]
      /\ m.cluster = c /\ m.force /\ m.op = l.op /\ m.type = l.type /\ m.back = l.back /\ m.got = l.got
  BY <1>1 DEF LocFields, ForcedVars
<1>3. QED BY <1>2 DEF SameBut, LocOf

LEMMA NextVars ==
  ASSUME NEW l, LocOf(l), NEW c, NEW m, m = [l EXCEPT !.cluster = c]
  PROVE  SameBut(m, l, {"cluster"}) /\ m.cluster = c
<1>1. DOMAIN l = LocFields
  BY DEF LocOf
<1>2. /\ DOMAIN m = LocFields /\ \A f1 \in LocFields \ {"cluster"} : m[f1] = l[f1]
      /\ m.cluster = c /\ m.op = l.op /\ m.type = l.type /\ m.back = l.back /\ m.got = l.got
  BY <1>1 DEF LocFields
<1>3. QED BY <1>2 DEF SameBut, LocOf

WrappedVars(l, c) == [l EXCEPT !.cluster = c, !.wrapped = TRUE]

LEMMA WrapVars ==
  ASSUME NEW l, LocOf(l), NEW c, NEW m, m = WrappedVars(l, c)
  PROVE  SameBut(m, l, {"cluster", "wrapped"}) /\ m.cluster = c /\ m.wrapped
<1>1. DOMAIN l = LocFields
  BY DEF LocOf
<1>2. /\ DOMAIN m = LocFields /\ \A f1 \in LocFields \ {"cluster", "wrapped"} : m[f1] = l[f1]
      /\ m.cluster = c /\ m.wrapped /\ m.op = l.op /\ m.type = l.type /\ m.back = l.back /\ m.got = l.got
  BY <1>1 DEF LocFields, WrappedVars
<1>3. QED BY <1>2 DEF SameBut, LocOf

FlushedVars(l, t, f, b) == [l EXCEPT !.type = t, !.fblock = f, !.back = b]

LEMMA FlushVars ==
  ASSUME NEW l, LocOf(l), NEW t \in Types, NEW f, NEW b \in {"sync_blocks", "synced"}, NEW m,
         m = FlushedVars(l, t, f, b)
  PROVE  SameBut(m, l, {"type", "fblock", "back"}) /\ m.type = t /\ m.fblock = f /\ m.back = b
<1>1. DOMAIN l = LocFields
  BY DEF LocOf
<1>2. /\ DOMAIN m = LocFields /\ \A f1 \in LocFields \ {"type", "fblock", "back"} : m[f1] = l[f1]
      /\ m.type = t /\ m.fblock = f /\ m.back = b /\ m.op = l.op /\ m.got = l.got
  BY <1>1 DEF LocFields, FlushedVars
<1>3. QED BY <1>2 DEF SameBut, LocOf

BackedVars(l, f) == [l EXCEPT !.fblock = f, !.back = "switch3"]

LEMMA BackVars ==
  ASSUME NEW l, LocOf(l), NEW f, NEW m, m = BackedVars(l, f)
  PROVE  SameBut(m, l, {"fblock", "back"}) /\ m.fblock = f /\ m.back = "switch3"
<1>1. DOMAIN l = LocFields
  BY DEF LocOf
<1>2. /\ DOMAIN m = LocFields /\ \A f1 \in LocFields \ {"fblock", "back"} : m[f1] = l[f1]
      /\ m.fblock = f /\ m.back = "switch3" /\ m.op = l.op /\ m.type = l.type /\ m.got = l.got
  BY <1>1 DEF LocFields, BackedVars
<1>3. QED BY <1>2 DEF SameBut, LocOf

LEMMA SameVars ==
  ASSUME NEW m, NEW l, NEW D, SameBut(m, l, D), D \cap {"op", "got"} = {}
  PROVE  LocOf(m) /\ m.op = l.op /\ m.got = l.got /\ ("type" \notin D => m.type = l.type)
BY DEF SameBut, LocFields

\* A step of a process that has the lock of its type, and goes on with it.
LEMMA InsideStep ==
  ASSUME LockInv, NEW p \in Users, waits[p] = "none", at[p] \in LockPlaces, loc[p].op \in AllocFree, UNCHANGED <<sb, waits>>,
         NEW x \in LockPlaces \cup {"idle"}, at' = [at EXCEPT ![p] = x],
         x \in AllocFree => loc[p].op = x,
         NEW m, LocOf(m), m.op = loc[p].op, m.type = loc[p].type, x = "flush" => m.back = "switch3",
         loc' = [loc EXCEPT ![p] = m]
  PROVE  LockInv' /\ Alone(p) /\ at'[p] = x /\ loc'[p] = m
<1>1. LockTypes /\ x \in ClPlaces
  BY DEF LockInv, LockPlaces, ClPlaces
<1>2. Alone(p) /\ at'[p] = x /\ loc'[p] = m
  BY <1>1, AloneStep
<1>3. waits'[p] = "none"
  OBVIOUS
<1>4. UserPlaced(p)'
  BY <1>2, <1>3 DEF UserPlaced, LockPlaces, AllocFree
<1>5. ASSUME NEW t \in Types, HasLock(p, t)' PROVE HasLock(p, t)
  BY <1>2, <1>5 DEF HasLock, LockPlaces, AllocFree
<1>6. QED BY <1>2, <1>4, <1>5, InnerStep

LEMMA ToSwitch ==
  ASSUME LockInv, NEW p \in Users, waits[p] = "none", at[p] \in LockPlaces, loc[p].op \in AllocFree, UNCHANGED <<sb, waits>>,
         at' = [at EXCEPT ![p] = "switch"], NEW m, LocOf(m), m.op = loc[p].op, m.type = loc[p].type,
         loc' = [loc EXCEPT ![p] = m]
  PROVE  LockInv' /\ Alone(p) /\ at'[p] = "switch" /\ loc'[p] = m
<1>1. "switch" \in LockPlaces \cup {"idle"} /\ "switch" \notin AllocFree /\ "switch" # "flush"
  BY DEF LockPlaces, AllocFree
<1>2. QED BY <1>1, InsideStep

\* The same of one that keeps its variables.
LEMMA InsideStay ==
  ASSUME LockInv, NEW p \in Users, waits[p] = "none", at[p] \in LockPlaces, loc[p].op \in AllocFree, UNCHANGED <<sb, waits, loc>>,
         NEW x \in LockPlaces \cup {"idle"}, at' = [at EXCEPT ![p] = x],
         x \in AllocFree => loc[p].op = x, x = "flush" => loc[p].back = "switch3"
  PROVE  LockInv' /\ Alone(p) /\ at'[p] = x /\ loc'[p] = loc[p]
<1>1. LockTypes /\ x \in ClPlaces
  BY DEF LockInv, LockPlaces, ClPlaces
<1>2. Alone(p) /\ at'[p] = x /\ loc'[p] = loc[p]
  BY <1>1, StayStep
<1>3. waits'[p] = "none"
  OBVIOUS
<1>4. UserPlaced(p)'
  BY <1>2, <1>3 DEF UserPlaced, LockPlaces, AllocFree
<1>5. ASSUME NEW t \in Types, HasLock(p, t)' PROVE HasLock(p, t)
  BY <1>2, <1>5 DEF HasLock, LockPlaces, AllocFree
<1>6. QED BY <1>2, <1>4, <1>5, InnerStep

\* A step of a process that has no lock, and takes none.
LEMMA OutsideStep ==
  ASSUME LockInv, NEW p \in Users, waits[p] = "none", UNCHANGED <<sb, waits>>,
         NEW x \in {"idle", "lock", "update", "sync_inodes", "sync_blocks", "synced", "flush"},
         at' = [at EXCEPT ![p] = x], NEW m, LocOf(m), loc' = [loc EXCEPT ![p] = m],
         x = "lock" => m.op \in AllocFree, x \notin {"lock", "idle"} => m.op = "sync",
         x = "flush" => m.back \in {"sync_blocks", "synced"}
  PROVE  LockInv' /\ Alone(p) /\ at'[p] = x /\ loc'[p] = m
<1>1. LockTypes /\ x \in ClPlaces
  BY DEF LockInv, ClPlaces
<1>2. Alone(p) /\ at'[p] = x /\ loc'[p] = m
  BY <1>1, AloneStep
<1>3. waits'[p] = "none"
  OBVIOUS
<1>4. UserPlaced(p)'
  BY <1>2, <1>3 DEF UserPlaced, AllocFree
<1>5. ASSUME NEW t \in Types PROVE ~HasLock(p, t)'
  BY <1>2 DEF HasLock, LockPlaces, AllocFree
<1>6. QED BY <1>2, <1>4, <1>5, InnerStep

LEMMA CallLock ==
  ASSUME LockInv, NEW p \in Users, NEW o \in AllocFree, NEW t \in Types, NEW n, Call(p, o, t, n)
  PROVE  /\ LockInv' /\ Alone(p) /\ at'[p] = "lock"
         /\ loc'[p].op = o /\ loc'[p].type = t /\ loc'[p].n = n /\ loc'[p].got = loc[p].got
<1>1. PICK m : m = [Idle EXCEPT !.op = o, !.type = t, !.n = n, !.got = loc[p].got]
  OBVIOUS
<1>2. LocOf(loc[p]) /\ waits[p] = "none"
  BY HereNow DEF Call
<1>3. PICK l : l = loc[p]
  OBVIOUS
<1>4. LocOf(m) /\ m.op = o /\ m.type = t /\ m.n = n /\ m.got = loc[p].got
  <2>1. o \in {"alloc", "free", "sync"}
    BY DEF AllocFree
  <2>2. LocOf(l) /\ m = CalledVars(l, o, t, n)
    BY <1>1, <1>2, <1>3 DEF CalledVars
  <2>3. LocOf(m) /\ m.op = o /\ m.type = t /\ m.n = n /\ m.got = l.got
    BY <2>1, <2>2, CallVars
  <2>4. QED BY <1>3, <2>3
<1>5. at' = [at EXCEPT ![p] = "lock"] /\ loc' = [loc EXCEPT ![p] = m] /\ UNCHANGED <<sb, waits>>
  BY <1>1 DEF Call, Set, Jump
<1>6. LockInv' /\ Alone(p) /\ at'[p] = "lock" /\ loc'[p] = m
  BY <1>2, <1>4, <1>5, OutsideStep
<1>7. QED BY <1>4, <1>6

LEMMA SyncCallLock ==
  ASSUME LockInv, NEW p \in Users, SyncCall(p), sync_mutex # 0
  PROVE  LockInv' /\ Alone(p) /\ at'[p] = "update" /\ loc'[p].op = "sync" /\ loc'[p].got = loc[p].got
<1>1. PICK m : m = [Idle EXCEPT !.op = "sync", !.got = loc[p].got]
  OBVIOUS
<1>2. LocOf(loc[p]) /\ waits[p] = "none"
  BY HereNow DEF SyncCall
<1>3. LocOf(m) /\ m.op = "sync" /\ m.got = loc[p].got
  BY <1>1, <1>2, SyncVars
<1>4. at' = [at EXCEPT ![p] = "update"] /\ loc' = [loc EXCEPT ![p] = m] /\ UNCHANGED <<sb, waits>>
  BY <1>1 DEF SyncCall, Set, Jump
<1>5. LockInv' /\ Alone(p) /\ at'[p] = "update" /\ loc'[p] = m
  BY <1>2, <1>3, <1>4, OutsideStep
<1>6. QED BY <1>3, <1>5

LEMMA SyncFlushLock ==
  ASSUME LockInv, NEW p \in Users, NEW t \in Types, NEW b \in {"sync_blocks", "synced"},
         NEW l \in {"sync_inodes", "sync_blocks"}, SyncFlush(p, l, t, b)
  PROVE  /\ LockInv' /\ Alone(p) /\ loc'[p].op = "sync" /\ loc'[p].got = loc[p].got
         /\ at'[p] \in {b, "flush"} /\ (at'[p] = "flush" => loc'[p].back = b)
<1>1. LocOf(loc[p]) /\ waits[p] = "none" /\ LockTypes /\ loc[p].op = "sync"
  BY HereNow DEF SyncFlush, UserPlaced
<1>2. CASE mpt_copy[t].cluster = -1
  <2>1. PICK m : m = loc[p]
    OBVIOUS
  <2>2. at' = [at EXCEPT ![p] = b] /\ loc' = [loc EXCEPT ![p] = m] /\ UNCHANGED <<sb, waits>>
    BY <1>1, <1>2, <2>1 DEF SyncFlush, Jump, LockTypes
  <2>3. LockInv' /\ Alone(p) /\ at'[p] = b /\ loc'[p] = m
    BY <1>1, <2>1, <2>2, OutsideStep
  <2>4. QED BY <1>1, <2>1, <2>3
<1>3. CASE mpt_copy[t].cluster # -1
  <2>1. PICK f : f = BitmapOf(t, mpt_copy[t].cluster)
    OBVIOUS
  <2>2. PICK m : m = [loc[p] EXCEPT !.type = t, !.fblock = f, !.back = b]
    OBVIOUS
  <2>3. SameBut(m, loc[p], {"type", "fblock", "back"}) /\ m.back = b
    <3>1. PICK k : k = loc[p]
      OBVIOUS
    <3>2. LocOf(k) /\ m = FlushedVars(k, t, f, b)
      BY <1>1, <2>2, <3>1 DEF FlushedVars
    <3>3. SameBut(m, k, {"type", "fblock", "back"}) /\ m.back = b
      BY <3>2, FlushVars
    <3>4. QED BY <3>1, <3>3
  <2>4. LocOf(m) /\ m.op = "sync" /\ m.got = loc[p].got
    BY <1>1, <2>3, SameVars
  <2>5. at' = [at EXCEPT ![p] = "flush"] /\ loc' = [loc EXCEPT ![p] = m] /\ UNCHANGED <<sb, waits>>
    BY <1>3, <2>1, <2>2 DEF SyncFlush, Jump, Set
  <2>6. LockInv' /\ Alone(p) /\ at'[p] = "flush" /\ loc'[p] = m
    BY <1>1, <2>3, <2>4, <2>5, OutsideStep
  <2>7. QED BY <2>3, <2>4, <2>6
<1>4. QED BY <1>2, <1>3

LEMMA SyncEndLock ==
  ASSUME LockInv, NEW p \in Users, SyncEnd(p)
  PROVE  LockInv' /\ Alone(p) /\ at'[p] = "idle" /\ loc'[p].op = "none" /\ loc'[p].got = loc[p].got
<1>1. PICK m : m = [Idle EXCEPT !.got = loc[p].got]
  OBVIOUS
<1>2. LocOf(loc[p]) /\ waits[p] = "none"
  BY HereNow DEF SyncEnd
<1>3. LocOf(m) /\ m.op = "none" /\ m.got = loc[p].got
  <2>1. \A r \in loc[p].got : r[1] \in Types
    BY <1>2 DEF LocOf
  <2>2. QED BY ONLY <1>1, <2>1, IdleVars
<1>4. at' = [at EXCEPT ![p] = "idle"] /\ loc' = [loc EXCEPT ![p] = m] /\ UNCHANGED <<sb, waits>>
  BY <1>1 DEF SyncEnd, Set, Jump
<1>5. LockInv' /\ Alone(p) /\ at'[p] = "idle" /\ loc'[p] = m
  BY <1>2, <1>3, <1>4, OutsideStep
<1>6. QED BY <1>3, <1>5

LEMMA SearchLock ==
  ASSUME LockInv, NEW p \in Users, Search(p)
  PROVE  /\ LockInv' /\ Alone(p) /\ at[p] = "alloc" /\ at'[p] = "switch" /\ loc[p].op = "alloc" /\ loc'[p].op = "alloc"
         /\ loc'[p].type = loc[p].type /\ loc'[p].got = loc[p].got
         /\ LET old == mpt_copy[loc[p].type].cluster
            IN  /\ loc'[p].cluster = IF old # -1 /\ old + 1 = s_clusters THEN 0 ELSE old + 1
                /\ (loc'[p].first <=> old = -1) /\ ~loc'[p].force /\ ~loc'[p].wrapped
<1>1. /\ at[p] = "alloc" /\ waits[p] = "none" /\ LocOf(loc[p]) /\ loc[p].op = "alloc"
  BY HereNow DEF Search, UserPlaced, AllocFree
<1>2. PICK k : k = loc[p]
  OBVIOUS
<1>3. PICK old : old = mpt_copy[loc[p].type].cluster
  OBVIOUS
<1>4. PICK c : c = IF old # -1 /\ old + 1 = s_clusters THEN 0 ELSE old + 1
  OBVIOUS
<1>5. PICK f : f = (old = -1)
  OBVIOUS
<1>6. PICK m : m = SearchedVars(k, c, f)
  OBVIOUS
<1>7. SearchFrom(p) = m
  BY <1>2, <1>3, <1>4, <1>5, <1>6 DEF SearchFrom, SearchedVars
<1>8. /\ SameBut(m, k, {"cluster", "first", "force", "wrapped"})
      /\ m.cluster = c /\ m.first = f /\ ~m.force /\ ~m.wrapped
  <2>1. LocOf(k)
    BY <1>1, <1>2
  <2>2. QED BY <1>6, <2>1, SearchVars
<1>9. LocOf(m) /\ m.op = "alloc" /\ m.got = loc[p].got /\ m.type = loc[p].type
  BY <1>1, <1>2, <1>8, SameVars
<1>10. at' = [at EXCEPT ![p] = "switch"] /\ loc' = [loc EXCEPT ![p] = m] /\ UNCHANGED <<sb, waits>>
  BY <1>7 DEF Search, Jump, Set
<1>11. LockInv' /\ Alone(p) /\ at'[p] = "switch" /\ loc'[p] = m
  <2>1. waits[p] = "none" /\ at[p] \in LockPlaces /\ loc[p].op \in AllocFree
    BY <1>1 DEF LockPlaces, AllocFree
  <2>2. LocOf(m) /\ m.op = loc[p].op /\ m.type = loc[p].type
    BY <1>1, <1>9
  <2>3. QED BY <1>10, <2>1, <2>2, ToSwitch
<1>12. QED BY <1>1, <1>3, <1>4, <1>5, <1>8, <1>9, <1>11

LEMMA ElsewhereLock ==
  ASSUME LockInv, NEW p \in Users, FreeElsewhere(p)
  PROVE  /\ LockInv' /\ Alone(p) /\ at[p] = "free" /\ at'[p] = "switch" /\ loc[p].op = "free" /\ loc'[p].op = "free"
         /\ loc'[p].type = loc[p].type /\ loc'[p].got = loc[p].got /\ loc'[p].n = loc[p].n
         /\ loc'[p].cluster = Cluster(loc[p].type, loc[p].n) /\ loc'[p].force
<1>1. /\ at[p] = "free" /\ waits[p] = "none" /\ LocOf(loc[p]) /\ loc[p].op = "free"
  BY HereNow DEF FreeElsewhere, UserPlaced, AllocFree
<1>2. PICK k : k = loc[p]
  OBVIOUS
<1>3. PICK c : c = Cluster(loc[p].type, loc[p].n)
  OBVIOUS
<1>4. PICK m : m = ForcedVars(k, c)
  OBVIOUS
<1>5. SameBut(m, k, {"cluster", "force"}) /\ m.cluster = c /\ m.force
  <2>1. LocOf(k)
    BY <1>1, <1>2
  <2>2. QED BY <1>4, <2>1, ForceVars
<1>6. LocOf(m) /\ m.op = "free" /\ m.got = loc[p].got /\ m.type = loc[p].type /\ m.n = loc[p].n
  BY <1>1, <1>2, <1>5, SameVars DEF SameBut, LocFields
<1>7. at' = [at EXCEPT ![p] = "switch"] /\ loc' = [loc EXCEPT ![p] = m] /\ UNCHANGED <<sb, waits>>
  BY <1>2, <1>3, <1>4 DEF FreeElsewhere, Jump, Set, ForcedVars
<1>8. LockInv' /\ Alone(p) /\ at'[p] = "switch" /\ loc'[p] = m
  <2>1. waits[p] = "none" /\ at[p] \in LockPlaces /\ loc[p].op \in AllocFree
    BY <1>1 DEF LockPlaces, AllocFree
  <2>2. LocOf(m) /\ m.op = loc[p].op /\ m.type = loc[p].type
    BY <1>1, <1>6
  <2>3. QED BY <1>7, <2>1, <2>2, ToSwitch
<1>9. QED BY <1>1, <1>3, <1>5, <1>6, <1>8

\* The search goes on to another cluster, or panics.
LEMMA NextLock ==
  ASSUME LockInv, NEW p \in Users, waits[p] = "none", at[p] \in {"switch", "switch2"}, UNCHANGED <<sb, waits>>, NextCluster(p)
  PROVE  /\ LockInv' /\ Alone(p) /\ at'[p] \in {"switch", "panic"}
         /\ loc'[p].op = loc[p].op /\ loc'[p].type = loc[p].type /\ loc'[p].got = loc[p].got
         /\ SameBut(loc'[p], loc[p], {"cluster", "wrapped"})
         /\ LET l == loc[p]
                old == mpt_copy[l.type].cluster
                last == IF l.wrapped THEN old - 1 ELSE s_clusters - 1
            IN  IF l.cluster < last
                THEN at'[p] = "switch" /\ loc'[p].cluster = l.cluster + 1 /\ loc'[p].wrapped = l.wrapped
                ELSE IF ~l.wrapped /\ ~l.first /\ old > 0
                THEN at'[p] = "switch" /\ loc'[p].cluster = 0 /\ loc'[p].wrapped
                ELSE at'[p] = "panic" /\ loc'[p] = loc[p]
<1>1. LocOf(loc[p]) /\ loc[p].op \in AllocFree /\ LockTypes /\ at[p] \in LockPlaces
  BY DEF LockInv, LockTypes, UserPlaced, LockPlaces
<1>2. PICK k : k = loc[p]
  OBVIOUS
<1>3. PICK old : old = mpt_copy[k.type].cluster
  OBVIOUS
<1>4. PICK last : last = IF k.wrapped THEN old - 1 ELSE s_clusters - 1
  OBVIOUS
<1>5. SameBut(k, k, {"cluster", "wrapped"})
  BY <1>1, <1>2 DEF SameBut
<1>6. CASE k.cluster < last
  <2>1. PICK c : c = k.cluster + 1
    OBVIOUS
  <2>2. PICK m : m = [k EXCEPT !.cluster = c]
    OBVIOUS
  <2>3. SameBut(m, k, {"cluster"}) /\ m.cluster = c
    BY <1>1, <1>2, <2>2, NextVars
  <2>4. /\ LocOf(m) /\ m.op = k.op /\ m.got = k.got /\ m.type = k.type /\ m.wrapped = k.wrapped
        /\ SameBut(m, k, {"cluster", "wrapped"})
    BY <2>3, SameVars DEF SameBut, LocFields
  <2>5. at' = [at EXCEPT ![p] = "switch"] /\ loc' = [loc EXCEPT ![p] = m]
    <3>1. m = [loc[p] EXCEPT !.cluster = @ + 1]
      BY <1>2, <2>1, <2>2
    <3>2. loc[p].cluster < IF loc[p].wrapped THEN mpt_copy[loc[p].type].cluster - 1 ELSE s_clusters - 1
      BY <1>2, <1>3, <1>4, <1>6
    <3>3. QED BY <3>1, <3>2 DEF NextCluster, Set, Jump
  <2>6. LockInv' /\ Alone(p) /\ at'[p] = "switch" /\ loc'[p] = m
    <3>1. LocOf(m) /\ m.op = loc[p].op /\ m.type = loc[p].type
      BY <1>2, <2>4
    <3>2. QED BY <1>1, <2>5, <3>1, ToSwitch
  <2>7. QED BY <1>2, <1>3, <1>4, <1>6, <2>1, <2>3, <2>4, <2>6
<1>7. CASE ~(k.cluster < last) /\ ~k.wrapped /\ ~k.first /\ old > 0
  <2>1. PICK m : m = WrappedVars(k, 0)
    OBVIOUS
  <2>2. SameBut(m, k, {"cluster", "wrapped"}) /\ m.cluster = 0 /\ m.wrapped
    <3>1. LocOf(k)
      BY <1>1, <1>2
    <3>2. QED BY <2>1, <3>1, WrapVars
  <2>3. LocOf(m) /\ m.op = k.op /\ m.got = k.got /\ m.type = k.type
    BY <2>2, SameVars
  <2>4. at' = [at EXCEPT ![p] = "switch"] /\ loc' = [loc EXCEPT ![p] = m]
    BY <1>2, <1>3, <1>4, <1>7, <2>1 DEF NextCluster, Set, Jump, WrappedVars
  <2>5. LockInv' /\ Alone(p) /\ at'[p] = "switch" /\ loc'[p] = m
    <3>1. LocOf(m) /\ m.op = loc[p].op /\ m.type = loc[p].type
      BY <1>2, <2>3
    <3>2. QED BY <1>1, <2>4, <3>1, ToSwitch
  <2>6. QED BY <1>2, <1>3, <1>4, <1>7, <2>2, <2>3, <2>5
<1>8. CASE ~(k.cluster < last) /\ ~(~k.wrapped /\ ~k.first /\ old > 0)
  <2>1. at' = [at EXCEPT ![p] = "panic"] /\ loc' = loc
    BY <1>2, <1>3, <1>4, <1>8 DEF NextCluster, Jump
  <2>2. LockInv' /\ Alone(p) /\ at'[p] = "panic" /\ loc'[p] = loc[p]
    BY <1>1, <2>1, InsideStay DEF LockPlaces, AllocFree
  <2>3. QED BY <1>2, <1>3, <1>4, <1>5, <1>8, <2>2
<1>9. QED BY <1>6, <1>7, <1>8

\* The superblock after each assignment to it.
DemandedSb(s, t)    == [s EXCEPT !.demand[t] = TRUE]
LockedSb(s, t)      == [s EXCEPT !.lock[t] = TRUE]
UnlockedSb(s, t, f) == [s EXCEPT !.lock[t] = FALSE, !.demand[t] = FALSE, !.free[t] = f]
AllLockedSb(s)      == [s EXCEPT !.lock = [t \in Types |-> TRUE]]
DroppedSb(s)        == [s EXCEPT !.lock = [t \in Types |-> FALSE], !.dropped = @ \/ \E t \in Types : s.demand[t]]

LEMMA SbDemanded ==
  ASSUME NEW s \in SbSet, NEW t \in Types
  PROVE  /\ DemandedSb(s, t) \in SbSet /\ DemandedSb(s, t).lock = s.lock /\ DemandedSb(s, t).free = s.free
         /\ DemandedSb(s, t).demand = [s.demand EXCEPT ![t] = TRUE] /\ (DemandedSb(s, t).dropped <=> s.dropped)
BY DEF DemandedSb, SbSet

LEMMA SbLocked ==
  ASSUME NEW s \in SbSet, NEW t \in Types
  PROVE  /\ LockedSb(s, t) \in SbSet /\ LockedSb(s, t).demand = s.demand /\ LockedSb(s, t).free = s.free
         /\ LockedSb(s, t).lock = [s.lock EXCEPT ![t] = TRUE] /\ (LockedSb(s, t).dropped <=> s.dropped)
BY DEF LockedSb, SbSet

LEMMA SbUnlocked ==
  ASSUME NEW s \in SbSet, NEW t \in Types, NEW f \in Int
  PROVE  /\ UnlockedSb(s, t, f) \in SbSet /\ UnlockedSb(s, t, f).lock = [s.lock EXCEPT ![t] = FALSE]
         /\ UnlockedSb(s, t, f).demand = [s.demand EXCEPT ![t] = FALSE]
         /\ UnlockedSb(s, t, f).free = [s.free EXCEPT ![t] = f] /\ (UnlockedSb(s, t, f).dropped <=> s.dropped)
<1>1. UnlockedSb(s, t, f) \in SbSet
  BY DEF UnlockedSb, SbSet
<1>2. /\ UnlockedSb(s, t, f).lock = [s.lock EXCEPT ![t] = FALSE]
      /\ UnlockedSb(s, t, f).demand = [s.demand EXCEPT ![t] = FALSE]
      /\ UnlockedSb(s, t, f).free = [s.free EXCEPT ![t] = f] /\ (UnlockedSb(s, t, f).dropped <=> s.dropped)
  BY DEF UnlockedSb, SbSet
<1>3. QED BY <1>1, <1>2

LEMMA SbAllLocked ==
  ASSUME NEW s \in SbSet
  PROVE  /\ AllLockedSb(s) \in SbSet /\ AllLockedSb(s).demand = s.demand /\ AllLockedSb(s).free = s.free
         /\ AllLockedSb(s).lock = [u \in Types |-> TRUE] /\ (AllLockedSb(s).dropped <=> s.dropped)
BY DEF AllLockedSb, SbSet

LEMMA SbDropped ==
  ASSUME NEW s \in SbSet
  PROVE  /\ DroppedSb(s) \in SbSet /\ DroppedSb(s).demand = s.demand /\ DroppedSb(s).free = s.free
         /\ DroppedSb(s).lock = [u \in Types |-> FALSE]
         /\ (DroppedSb(s).dropped <=> s.dropped \/ \E u \in Types : s.demand[u])
<1>1. DroppedSb(s) \in SbSet
  BY DEF DroppedSb, SbSet
<1>2. /\ DroppedSb(s).demand = s.demand /\ DroppedSb(s).free = s.free
      /\ DroppedSb(s).lock = [u \in Types |-> FALSE]
      /\ (DroppedSb(s).dropped <=> s.dropped \/ \E u \in Types : s.demand[u])
  BY DEF DroppedSb, SbSet
<1>3. QED BY <1>1, <1>2

LEMMA ChannelsApart ==
  /\ \A t \in Types : Channel(t) \in {"s_ilock", "s_flock"}
  /\ \A t, u \in Types : Channel(t) = Channel(u) => t = u
BY DEF Types, Channel, INODES, BLOCKS

LEMMA WaitLock ==
  ASSUME LockInv, NEW p \in Users, LockWait(p)
  PROVE  LockInv' /\ Alone(p) /\ sb'.free = sb.free
<1>1. PICK t : t = loc[p].type
  OBVIOUS
<1>2. PICK s : s = sb
  OBVIOUS
<1>3. /\ at[p] = "lock" /\ waits[p] = "none" /\ LockTypes /\ t \in Types /\ UserPlaced(p) /\ s \in SbSet
  BY <1>1, <1>2, HereNow DEF LockWait, LockTypes
<1>4. sb.lock[t] /\ sb' = DemandedSb(s, t) /\ waits' = [waits EXCEPT ![p] = Channel(t)] /\ at' = at /\ loc' = loc
  BY <1>1, <1>2 DEF LockWait, sb_wait, DemandedSb
<1>5. /\ sb' \in SbSet /\ sb'.lock = sb.lock /\ sb'.free = sb.free
      /\ sb'.demand = [sb.demand EXCEPT ![t] = TRUE] /\ (sb'.dropped <=> sb.dropped)
  BY <1>2, <1>3, <1>4, SbDemanded
<1>6. Alone(p)
  BY <1>3, <1>4 DEF Alone, LockTypes
<1>7. waits \in [Users -> {"none", "s_ilock", "s_flock", "sb"}] /\ waits' \in [Users -> {"none", "s_ilock", "s_flock", "sb"}]
  BY <1>3, <1>4, ChannelsApart DEF LockTypes
<1>8. LockTypes'
  BY <1>3, <1>5, <1>6, <1>7, AloneTypes
<1>9. ASSUME NEW q \in Users PROVE UserPlaced(q)'
  <2>1. CASE q # p
    <3>1. waits'[q] = waits[q]
      BY <1>4, <1>7, <2>1
    <3>2. QED BY <1>6, <2>1, <3>1, OtherPlaced DEF LockInv
  <2>2. CASE q = p
    <3>1. waits'[p] = Channel(t) /\ at'[p] = "lock" /\ loc'[p] = loc[p]
      BY <1>3, <1>4, <1>7
    <3>2. QED BY <1>1, <1>3, <2>2, <3>1, ChannelsApart DEF UserPlaced
  <2>3. QED BY <2>1, <2>2
<1>10. LocksApart'
  BY <1>4, <1>5 DEF LockInv, LocksApart, HasLock
<1>11. ASSUME ~sb'.dropped, NEW q \in Users, NEW u \in Types, waits'[q] = Channel(u)
       PROVE  sb'.lock[u] /\ sb'.demand[u]
  <2>1. sb.demand \in [Types -> BOOLEAN]
    BY <1>2, <1>3 DEF SbSet
  <2>2. CASE q = p
    <3>1. u = t
      BY <1>3, <1>4, <1>7, <1>11, <2>2, ChannelsApart
    <3>2. QED BY <1>3, <1>4, <1>5, <2>1, <3>1
  <2>3. CASE q # p
    <3>1. waits[q] = Channel(u)
      BY <1>4, <1>7, <1>11, <2>3
    <3>2. sb.lock[u] /\ sb.demand[u]
      BY <1>5, <1>11, <3>1 DEF LockInv, WaitsSeen
    <3>3. QED BY <1>3, <1>5, <2>1, <3>2
  <2>4. QED BY <2>2, <2>3
<1>12. WaitsSeen'
  BY <1>11 DEF WaitsSeen
<1>13. QED BY <1>5, <1>6, <1>8, <1>9, <1>10, <1>12 DEF LockInv

LEMMA TakenLock ==
  ASSUME LockInv, NEW p \in Users, LockTaken(p)
  PROVE  LockInv' /\ Alone(p) /\ sb'.free = sb.free /\ at'[p] \in AllocFree /\ loc'[p] = loc[p]
<1>1. PICK t : t = loc[p].type
  OBVIOUS
<1>2. PICK s : s = sb
  OBVIOUS
<1>3. /\ at[p] = "lock" /\ waits[p] = "none" /\ LockTypes /\ t \in Types /\ UserPlaced(p) /\ s \in SbSet
      /\ loc[p].op \in AllocFree
  BY <1>1, <1>2, HereNow DEF LockTaken, LockTypes, UserPlaced
<1>4. PICK x : x = IF loc[p].op = "alloc" THEN "alloc" ELSE "free"
  OBVIOUS
<1>5. x \in AllocFree /\ x = loc[p].op /\ x \in ClPlaces
  BY <1>3, <1>4 DEF AllocFree, ClPlaces
<1>6. ~sb.lock[t] /\ sb' = LockedSb(s, t) /\ waits' = waits /\ at' = [at EXCEPT ![p] = x] /\ loc' = loc
  BY <1>1, <1>2, <1>4 DEF LockTaken, LockedSb, Jump
<1>7. /\ sb' \in SbSet /\ sb'.demand = sb.demand /\ sb'.free = sb.free
      /\ sb'.lock = [sb.lock EXCEPT ![t] = TRUE] /\ (sb'.dropped <=> sb.dropped)
  BY <1>2, <1>3, <1>6, SbLocked
<1>8. Alone(p) /\ at'[p] = x /\ loc'[p] = loc[p]
  BY <1>3, <1>5, <1>6, StayStep
<1>9. LockTypes'
  <2>1. waits' \in [Users -> {"none", "s_ilock", "s_flock", "sb"}]
    BY <1>3, <1>6 DEF LockTypes
  <2>2. QED BY <1>3, <1>7, <1>8, <2>1, AloneTypes
<1>10. ASSUME NEW q \in Users PROVE UserPlaced(q)'
  <2>1. CASE q # p
    BY <1>6, <1>8, <2>1, OtherPlaced DEF LockInv
  <2>2. CASE q = p
    BY <1>3, <1>5, <1>6, <1>8, <2>2 DEF UserPlaced, AllocFree
  <2>3. QED BY <2>1, <2>2
<1>11. sb.lock \in [Types -> BOOLEAN]
  BY <1>2, <1>3 DEF SbSet
<1>12. ASSUME NEW q \in Users, NEW u \in Types, HasLock(q, u)'
       PROVE  (q = p /\ u = t) \/ (q # p /\ u # t /\ HasLock(q, u) /\ sb.lock[u])
  <2>1. CASE q = p
    BY <1>1, <1>5, <1>8, <1>12, <2>1 DEF HasLock, AllocFree
  <2>2. CASE q # p
    <3>1. HasLock(q, u)
      BY <1>8, <1>12, <2>2, OtherLock
    <3>2. sb.lock[u]
      BY <3>1 DEF LockInv, LocksApart
    <3>3. QED BY <1>6, <2>2, <3>1, <3>2
  <2>3. QED BY <2>1, <2>2
<1>13. LocksApart'
  <2>1. ASSUME NEW q \in Users, NEW u \in Types, HasLock(q, u)' PROVE sb'.lock[u]
    BY <1>3, <1>7, <1>11, <1>12, <2>1
  <2>2. ASSUME NEW q \in Users, NEW r \in Users, NEW u \in Types, HasLock(q, u)', HasLock(r, u)' PROVE q = r
    BY <1>12, <2>2 DEF LockInv, LocksApart
  <2>3. QED BY <2>1, <2>2 DEF LocksApart
<1>14. WaitsSeen'
  BY <1>3, <1>6, <1>7, <1>11 DEF LockInv, WaitsSeen
<1>15. QED BY <1>5, <1>7, <1>8, <1>9, <1>10, <1>13, <1>14 DEF LockInv

\* A lock is let go, and whoever asked for it woken.
LetsGo(p, t, f, m) ==
  /\ waits[p] = "none" /\ at[p] \in LockPlaces /\ loc[p].op \in AllocFree /\ t = loc[p].type
  /\ sb_unlock(t, f) /\ at' = [at EXCEPT ![p] = "idle"] /\ loc' = [loc EXCEPT ![p] = m]

LEMMA UnlockStep ==
  ASSUME LockInv, NEW p \in Users, NEW t \in Types, NEW f, f \in Int, NEW m, LocOf(m), LetsGo(p, t, f, m)
  PROVE  /\ LockInv' /\ Alone(p) /\ at'[p] = "idle" /\ loc'[p] = m /\ sb'.free = [sb.free EXCEPT ![t] = f]
<1>1. PICK s : s = sb
  OBVIOUS
<1>2. LockTypes /\ s \in SbSet /\ sb.lock \in [Types -> BOOLEAN] /\ sb.demand \in [Types -> BOOLEAN]
  BY <1>1 DEF LockInv, LockTypes, SbSet
<1>3. sb' = UnlockedSb(s, t, f) /\ IF sb.demand[t] THEN WakeAll({Channel(t)}) ELSE waits' = waits
  BY <1>1 DEF sb_unlock, UnlockedSb, LetsGo
<1>4. /\ sb' \in SbSet /\ sb'.lock = [sb.lock EXCEPT ![t] = FALSE] /\ sb'.demand = [sb.demand EXCEPT ![t] = FALSE]
      /\ sb'.free = [sb.free EXCEPT ![t] = f] /\ (sb'.dropped <=> sb.dropped)
  BY <1>1, <1>2, <1>3, SbUnlocked
<1>5. Alone(p) /\ at'[p] = "idle" /\ loc'[p] = m
  <2>1. at' = [at EXCEPT ![p] = "idle"] /\ loc' = [loc EXCEPT ![p] = m]
    BY DEF LetsGo
  <2>2. QED BY <1>2, <2>1, AloneStep DEF ClPlaces
<1>6. /\ waits \in [Users -> {"none", "s_ilock", "s_flock", "sb"}] /\ waits' \in [Users -> {"none", "s_ilock", "s_flock", "sb"}]
      /\ \A q \in Users : waits'[q] \in {waits[q], "none"}
      /\ sb.demand[t] => \A q \in Users : waits'[q] # Channel(t)
  <2>1. waits \in [Users -> {"none", "s_ilock", "s_flock", "sb"}]
    BY <1>2 DEF LockTypes
  <2>2. CASE sb.demand[t]
    <3>1. waits' = [q \in Users |-> IF waits[q] \in {Channel(t)} THEN "none" ELSE waits[q]]
      BY <1>3, <2>2 DEF WakeAll
    <3>2. QED BY <2>1, <3>1, ChannelsApart
  <2>3. CASE ~sb.demand[t]
    BY <1>3, <2>1, <2>3
  <2>4. QED BY <2>2, <2>3
<1>7. LockTypes'
  BY <1>2, <1>4, <1>5, <1>6, AloneTypes
<1>8. ASSUME NEW q \in Users PROVE UserPlaced(q)'
  <2>1. CASE q # p
    BY <1>5, <1>6, <2>1, OtherPlaced DEF LockInv
  <2>2. CASE q = p
    BY <1>5, <1>6, <2>2 DEF UserPlaced, AllocFree, LetsGo
  <2>3. QED BY <2>1, <2>2
<1>9. HasLock(p, t)
  BY DEF HasLock, LetsGo
<1>10. ASSUME NEW q \in Users, NEW u \in Types, HasLock(q, u)'
       PROVE  q # p /\ u # t /\ HasLock(q, u) /\ sb.lock[u]
  <2>1. q # p
    BY <1>5, <1>10 DEF HasLock, LockPlaces
  <2>2. HasLock(q, u)
    BY <1>5, <1>10, <2>1, OtherLock
  <2>3. QED BY <1>9, <2>1, <2>2 DEF LockInv, LocksApart
<1>11. LocksApart'
  <2>1. ASSUME NEW q \in Users, NEW u \in Types, HasLock(q, u)' PROVE sb'.lock[u]
    BY <1>2, <1>4, <1>10, <2>1
  <2>2. ASSUME NEW q \in Users, NEW r \in Users, NEW u \in Types, HasLock(q, u)', HasLock(r, u)' PROVE q = r
    BY <1>10, <2>2 DEF LockInv, LocksApart
  <2>3. QED BY <2>1, <2>2 DEF LocksApart
<1>12. ASSUME ~sb'.dropped, NEW q \in Users, NEW u \in Types, waits'[q] = Channel(u)
       PROVE  sb'.lock[u] /\ sb'.demand[u]
  <2>1. waits[q] = Channel(u)
    BY <1>6, <1>12, ChannelsApart
  <2>2. sb.lock[u] /\ sb.demand[u]
    BY <1>4, <1>12, <2>1 DEF LockInv, WaitsSeen
  <2>3. u # t
    BY <1>6, <1>12, <2>2
  <2>4. QED BY <1>2, <1>4, <2>2, <2>3
<1>13. WaitsSeen'
  BY <1>12 DEF WaitsSeen
<1>14. QED BY <1>4, <1>5, <1>7, <1>8, <1>11, <1>13 DEF LockInv

LEMMA UpdateWaitLock ==
  ASSUME LockInv, NEW p \in Users, UpdateWait(p)
  PROVE  LockInv' /\ Alone(p)
<1>1. /\ at[p] = "update" /\ waits[p] = "none" /\ LockTypes /\ UserPlaced(p)
  BY HereNow DEF UpdateWait
<1>2. sb' = sb /\ waits' = [waits EXCEPT ![p] = "sb"] /\ at' = at /\ loc' = loc
  BY DEF UpdateWait
<1>3. Alone(p)
  BY <1>1, <1>2 DEF Alone, LockTypes
<1>4. waits \in [Users -> {"none", "s_ilock", "s_flock", "sb"}] /\ waits' \in [Users -> {"none", "s_ilock", "s_flock", "sb"}]
  BY <1>1, <1>2 DEF LockTypes
<1>5. LockTypes'
  BY <1>1, <1>2, <1>3, <1>4, AloneTypes DEF LockTypes
<1>6. ASSUME NEW q \in Users PROVE UserPlaced(q)'
  <2>1. CASE q # p
    <3>1. waits'[q] = waits[q]
      BY <1>2, <1>4, <2>1
    <3>2. QED BY <1>3, <2>1, <3>1, OtherPlaced DEF LockInv
  <2>2. CASE q = p
    <3>1. waits'[p] = "sb" /\ at'[p] = "update" /\ loc'[p] = loc[p]
      BY <1>1, <1>2, <1>4
    <3>2. QED BY <1>1, <2>2, <3>1 DEF UserPlaced, AllocFree
  <2>3. QED BY <2>1, <2>2
<1>7. LocksApart'
  BY <1>2 DEF LockInv, LocksApart, HasLock
<1>8. ASSUME ~sb'.dropped, NEW q \in Users, NEW u \in Types, waits'[q] = Channel(u)
      PROVE  sb'.lock[u] /\ sb'.demand[u]
  <2>1. waits[q] = Channel(u)
    BY <1>2, <1>4, <1>8, ChannelsApart
  <2>2. QED BY <1>2, <1>8, <2>1 DEF LockInv, WaitsSeen
<1>9. WaitsSeen'
  BY <1>8 DEF WaitsSeen
<1>10. QED BY <1>3, <1>5, <1>6, <1>7, <1>9 DEF LockInv

LEMMA UpdateLockLock ==
  ASSUME LockInv, NEW p \in Users, UpdateLock(p)
  PROVE  LockInv' /\ Alone(p) /\ sb'.free = sb.free /\ at'[p] = "updated" /\ loc'[p] = loc[p]
<1>1. PICK s : s = sb
  OBVIOUS
<1>2. /\ at[p] = "update" /\ waits[p] = "none" /\ LockTypes /\ UserPlaced(p) /\ s \in SbSet /\ loc[p].op = "sync"
  BY <1>1, HereNow DEF UpdateLock, LockTypes, UserPlaced
<1>3. /\ \A t \in Types : ~sb.lock[t]
      /\ sb' = AllLockedSb(s) /\ waits' = waits /\ at' = [at EXCEPT ![p] = "updated"] /\ loc' = loc
  BY <1>1 DEF UpdateLock, AllLockedSb, Jump
<1>4. /\ sb' \in SbSet /\ sb'.demand = sb.demand /\ sb'.free = sb.free
      /\ sb'.lock = [u \in Types |-> TRUE] /\ (sb'.dropped <=> sb.dropped)
  BY <1>1, <1>2, <1>3, SbAllLocked
<1>5. Alone(p) /\ at'[p] = "updated" /\ loc'[p] = loc[p]
  BY <1>2, <1>3, StayStep DEF ClPlaces
<1>6. LockTypes'
  <2>1. waits' \in [Users -> {"none", "s_ilock", "s_flock", "sb"}]
    BY <1>2, <1>3 DEF LockTypes
  <2>2. QED BY <1>2, <1>4, <1>5, <2>1, AloneTypes
<1>7. ASSUME NEW q \in Users PROVE UserPlaced(q)'
  <2>1. CASE q # p
    BY <1>3, <1>5, <2>1, OtherPlaced DEF LockInv
  <2>2. CASE q = p
    BY <1>2, <1>3, <1>5, <2>2 DEF UserPlaced, AllocFree
  <2>3. QED BY <2>1, <2>2
<1>8. ASSUME NEW q \in Users, NEW u \in Types, HasLock(q, u)' PROVE q = p
  <2>1. CASE q # p
    BY <1>3, <1>5, <1>8, <2>1, OtherLock DEF LockInv, LocksApart
  <2>2. QED BY <2>1
<1>9. LocksApart'
  BY <1>4, <1>8 DEF LocksApart
<1>10. WaitsSeen'
  BY <1>3, <1>4 DEF LockInv, WaitsSeen
<1>11. QED BY <1>4, <1>5, <1>6, <1>7, <1>9, <1>10 DEF LockInv

LEMMA UpdatedLock ==
  ASSUME LockInv, NEW p \in Users, Updated(p)
  PROVE  LockInv' /\ Alone(p) /\ sb'.free = sb.free /\ at'[p] = "sync_inodes" /\ loc'[p] = loc[p]
<1>1. PICK s : s = sb
  OBVIOUS
<1>2. /\ at[p] = "updated" /\ waits[p] = "none" /\ LockTypes /\ UserPlaced(p) /\ s \in SbSet /\ loc[p].op = "sync"
  BY <1>1, HereNow DEF Updated, LockTypes, UserPlaced
<1>3. /\ waits' = [q \in Users |-> IF waits[q] \in {"sb"} THEN "none" ELSE waits[q]]
      /\ sb' = DroppedSb(s) /\ at' = [at EXCEPT ![p] = "sync_inodes"] /\ loc' = loc
  BY <1>1 DEF Updated, DroppedSb, Jump, WakeAll
<1>4. /\ sb' \in SbSet /\ sb'.demand = sb.demand /\ sb'.free = sb.free
      /\ sb'.lock = [u \in Types |-> FALSE] /\ (sb'.dropped <=> sb.dropped \/ \E u \in Types : sb.demand[u])
  BY <1>1, <1>2, <1>3, SbDropped
<1>5. Alone(p) /\ at'[p] = "sync_inodes" /\ loc'[p] = loc[p]
  BY <1>2, <1>3, StayStep DEF ClPlaces
<1>6. /\ waits' \in [Users -> {"none", "s_ilock", "s_flock", "sb"}]
      /\ \A q \in Users : waits'[q] \in {waits[q], "none"}
  BY <1>2, <1>3 DEF LockTypes
<1>7. LockTypes'
  BY <1>2, <1>4, <1>5, <1>6, AloneTypes
<1>8. ASSUME NEW q \in Users PROVE UserPlaced(q)'
  <2>1. CASE q # p
    BY <1>5, <1>6, <2>1, OtherPlaced DEF LockInv
  <2>2. CASE q = p
    BY <1>2, <1>5, <1>6, <2>2 DEF UserPlaced, AllocFree
  <2>3. QED BY <2>1, <2>2
<1>9. ASSUME NEW q \in Users, NEW u \in Types PROVE ~HasLock(q, u)'
  <2>1. CASE q # p
    <3>1. HasLock(p, u)
      BY <1>2 DEF HasLock
    <3>2. QED BY <1>5, <2>1, <3>1, OtherLock DEF LockInv, LocksApart
  <2>2. CASE q = p
    BY <1>2, <1>5, <2>2 DEF HasLock, LockPlaces, AllocFree
  <2>3. QED BY <2>1, <2>2
<1>10. LocksApart'
  BY <1>9 DEF LocksApart
<1>11. WaitsSeen'
  BY <1>4, <1>6, ChannelsApart DEF LockInv, WaitsSeen
<1>12. QED BY <1>4, <1>5, <1>7, <1>8, <1>10, <1>11 DEF LockInv

(***************************************************************************)
(* Inodes and blocks: bitmaps, counts and owners.                          *)
(***************************************************************************)
BitmapBlocks == {BitmapOf(t, c) : t \in Types, c \in ClusterNos}

\* p keeps the bitmap of the cluster that it switches to.
Switching(a, l) == a \in {"switch2", "switch3"} \/ (a = "flush" /\ l.back = "switch3")

\* The bits of cluster c that have no owner, and those that are shown for it.
FreeBits(t, c)  == {k \in Bits(t, c) : Number(t, c, k) \notin used[t]}
ShownBits(t, c) == IF c = mpt_copy[t].cluster THEN mpt_copy[t].bitmap ELSE bitmap[BitmapOf(t, c)]

DataTypes ==
  /\ mpt_copy \in [Types -> [cluster : ClusterNos \cup {-1}, count : Int, bitmap : SUBSET Int]]
  /\ bitmap \in [BitmapBlocks -> SUBSET Int] /\ held \in [BitmapBlocks -> Users \cup {0}]
  /\ used \in [Types -> SUBSET Int] /\ errors \in Nat

CopyExact(t) ==
  /\ \A c \in ClusterNos : ShownBits(t, c) = FreeBits(t, c)
  /\ mpt_copy[t].cluster = -1 => mpt_copy[t].bitmap = {}
  /\ mpt_copy[t].count = Cardinality(mpt_copy[t].bitmap)
  /\ sb.free[t] = Cardinality(All(t) \ used[t])

HeldExact == \A p \in Users, b \in BitmapBlocks :
    held[b] = p <=> Switching(at[p], loc[p]) /\ b = BitmapOf(loc[p].type, loc[p].cluster)

\* Who frees a resource has allocated it, and no one else has.
OwnsGot(p) ==
  /\ \A r \in loc[p].got : r \in Types \X Int /\ r[2] \in used[r[1]] /\ r[2] \in All(r[1])
  /\ loc[p].op = "free" => <<loc[p].type, loc[p].n>> \in loc[p].got
GotApart == \A p, q \in Users : p # q => loc[p].got \cap loc[q].got = {}

\* The clusters that a search has left behind, and what it relies on: m is the copy of the
\* current cluster, avail what the superblock counts, e the errors and bm the bitmaps.
SeenClusters(l, old) ==
  {c \in ClusterNos : IF l.wrapped THEN c > old \/ c < l.cluster ELSE (c > old \/ old + 1 = s_clusters) /\ c < l.cluster}
Searching(l, m, avail, e, bm) ==
  /\ ~l.force /\ m.count = 0 /\ avail # 0
  /\ l.first <=> m.cluster = -1
  /\ l.wrapped => m.cluster > 0 /\ l.cluster < m.cluster
  /\ ~l.wrapped => m.cluster + 1 = s_clusters \/ l.cluster > m.cluster
  /\ e = 0 => \A c \in SeenClusters(l, m.cluster) : bm[BitmapOf(l.type, c)] = {}

\* A process at `a` with the variables l.
SwitchOk(a, l, m, avail, e, bm) ==
  /\ a = "switch" \/ Switching(a, l) =>
        l.cluster \in ClusterNos /\ (e = 0 \/ l.op = "free" \/ a = "switch3" => l.cluster # m.cluster)
  /\ a \in {"switch", "switch2"} => IF l.op = "free" THEN l.force ELSE Searching(l, m, avail, e, bm)
  /\ a = "flush" /\ l.back = "switch3" => m.cluster # -1 /\ l.fblock = BitmapOf(l.type, m.cluster)
  /\ a = "switch3" /\ m.cluster # -1 => bm[BitmapOf(l.type, m.cluster)] = m.bitmap
  /\ e = 0 => a # "panic"
SwitchExact(p) == SwitchOk(at[p], loc[p], mpt_copy[loc[p].type], sb.free[loc[p].type], errors, bitmap)

DataInv ==
  /\ DataTypes /\ HeldExact /\ GotApart
  /\ \A t \in Types : CopyExact(t)
  /\ \A p \in Users : OwnsGot(p) /\ SwitchExact(p)

\* More errors, or the current bitmap written, take nothing from it.
LEMMA SwitchKept ==
  ASSUME NEW a, NEW l, l.type \in Types, NEW m, m.cluster \in ClusterNos \cup {-1}, NEW avail, NEW e, NEW bm,
         SwitchOk(a, l, m, avail, e, bm), NEW f, f = 0 => e = 0, NEW bn,
         \A c \in ClusterNos \ {m.cluster} : bn[BitmapOf(l.type, c)] = bm[BitmapOf(l.type, c)],
         m.cluster # -1 => bn[BitmapOf(l.type, m.cluster)] \in {bm[BitmapOf(l.type, m.cluster)], m.bitmap}
  PROVE  SwitchOk(a, l, m, avail, f, bn)
<1>1. ASSUME f = 0, a \in {"switch", "switch2"}, l.op # "free", NEW c \in SeenClusters(l, m.cluster)
      PROVE  bn[BitmapOf(l.type, c)] = {}
  <2>1. Searching(l, m, avail, e, bm) /\ e = 0 /\ l.cluster # m.cluster /\ l.cluster \in ClusterNos
    BY <1>1 DEF SwitchOk, Switching
  <2>2. c \in ClusterNos /\ bm[BitmapOf(l.type, c)] = {}
    BY <1>1, <2>1 DEF Searching, SeenClusters
  <2>3. c # m.cluster
    BY <1>1, <2>1, Geometry DEF Searching, SeenClusters
  <2>4. QED BY <2>2, <2>3
<1>2. a \in {"switch", "switch2"} => IF l.op = "free" THEN l.force ELSE Searching(l, m, avail, f, bn)
  BY <1>1 DEF SwitchOk, Searching
<1>3. /\ a = "switch" \/ Switching(a, l) =>
         l.cluster \in ClusterNos /\ (f = 0 \/ l.op = "free" \/ a = "switch3" => l.cluster # m.cluster)
      /\ a = "flush" /\ l.back = "switch3" => m.cluster # -1 /\ l.fblock = BitmapOf(l.type, m.cluster)
      /\ a = "switch3" /\ m.cluster # -1 => bn[BitmapOf(l.type, m.cluster)] = m.bitmap
      /\ f = 0 => a # "panic"
  BY DEF SwitchOk
<1>4. QED BY <1>2, <1>3 DEF SwitchOk

\* Whoever does not switch relies on nothing.
LEMMA SwitchFar ==
  ASSUME NEW a, NEW l, a \notin {"switch", "panic"}, ~Switching(a, l), NEW m, NEW avail, NEW e, NEW bm
  PROVE  SwitchOk(a, l, m, avail, e, bm)
BY DEF SwitchOk, Switching

\* Whoever switches has the lock.
LEMMA SwitchHasLock ==
  ASSUME LockInv, NEW p \in Users, at[p] \in {"switch", "panic"} \/ Switching(at[p], loc[p])
  PROVE  HasLock(p, loc[p].type) /\ loc[p].op \in AllocFree
<1>1. UserPlaced(p)
  BY DEF LockInv
<1>2. at[p] = "flush" /\ loc[p].back = "switch3" => loc[p].op \in AllocFree
  BY <1>1 DEF UserPlaced
<1>3. QED BY <1>1, <1>2 DEF UserPlaced, HasLock, LockPlaces, Switching

LEMMA HeldSame ==
  ASSUME LockTypes, HeldExact, NEW p \in Users, Alone(p), held' = held,
         Switching(at'[p], loc'[p]) <=> Switching(at[p], loc[p]),
         Switching(at[p], loc[p]) => loc'[p].type = loc[p].type /\ loc'[p].cluster = loc[p].cluster
  PROVE  HeldExact'
<1>1. ASSUME NEW q \in Users, NEW b \in BitmapBlocks
      PROVE  held'[b] = q <=> Switching(at'[q], loc'[q]) /\ b = BitmapOf(loc'[q].type, loc'[q].cluster)
  <2>1. held[b] = q <=> Switching(at[q], loc[q]) /\ b = BitmapOf(loc[q].type, loc[q].cluster)
    BY DEF HeldExact
  <2>2. CASE q = p
    BY <2>1, <2>2
  <2>3. CASE q # p
    <3>1. at'[q] = at[q] /\ loc'[q] = loc[q]
      BY <2>3 DEF Alone
    <3>2. QED BY <2>1, <3>1
  <2>4. QED BY <2>2, <2>3
<1>2. QED BY <1>1 DEF HeldExact

LEMMA TheirsKept ==
  ASSUME GotApart, NEW p \in Users, Alone(p), loc'[p].got \subseteq loc[p].got
  PROVE  GotApart'
<1>1. ASSUME NEW q \in Users PROVE loc'[q].got \subseteq loc[q].got
  BY DEF Alone
<1>2. QED BY <1>1 DEF GotApart

\* A step that leaves bitmaps, copies, counts and owners alone.
LEMMA QuietStep ==
  ASSUME LockTypes, DataInv, NEW p \in Users, Alone(p), UNCHANGED <<mpt_copy, bitmap, used>>, sb'.free = sb.free,
         errors' \in Nat, errors' = 0 => errors = 0, held' \in [BitmapBlocks -> Users \cup {0}], HeldExact',
         loc'[p].got = loc[p].got,
         loc'[p].op = "free" => \/ loc[p].op = "free" /\ loc'[p].type = loc[p].type /\ loc'[p].n = loc[p].n
                                \/ <<loc'[p].type, loc'[p].n>> \in loc[p].got,
         SwitchExact(p)'
  PROVE  DataInv'
<1>1. DataTypes'
  BY DEF DataInv, DataTypes
<1>2. GotApart'
  BY TheirsKept DEF DataInv
<1>3. \A t \in Types : CopyExact(t)'
  BY DEF DataInv, CopyExact, ShownBits, FreeBits
<1>4. ASSUME NEW q \in Users PROVE OwnsGot(q)'
  <2>1. CASE q = p
    BY <2>1 DEF DataInv, OwnsGot
  <2>2. CASE q # p
    BY <2>2 DEF DataInv, OwnsGot, Alone
  <2>3. QED BY <2>1, <2>2
<1>5. ASSUME NEW q \in Users PROVE SwitchExact(q)'
  <2>1. CASE q # p
    <3>1. at'[q] = at[q] /\ loc'[q] = loc[q] /\ loc[q].type \in Types
      BY <2>1 DEF Alone, LockTypes, LocOf
    <3>2. PICK m : m = mpt_copy[loc[q].type]
      OBVIOUS
    <3>3. m.cluster \in ClusterNos \cup {-1}
      BY <3>1, <3>2 DEF DataInv, DataTypes
    <3>4. SwitchOk(at[q], loc[q], m, sb.free[loc[q].type], errors, bitmap)
      BY <3>2 DEF DataInv, SwitchExact
    <3>5. SwitchOk(at[q], loc[q], m, sb.free[loc[q].type], errors', bitmap)
      BY <3>1, <3>3, <3>4, SwitchKept
    <3>6. QED BY <3>1, <3>2, <3>5 DEF SwitchExact
  <2>2. QED BY <2>1
<1>6. QED BY <1>1, <1>2, <1>3, <1>4, <1>5 DEF DataInv

\* The same of a step that does not touch the buffers either, and switches nothing.
LEMMA FarStep ==
  ASSUME LockTypes, DataInv, NEW p \in Users, Alone(p), UNCHANGED <<mpt_copy, bitmap, used, held, errors>>, sb'.free = sb.free,
         loc'[p].got = loc[p].got,
         loc'[p].op = "free" => \/ loc[p].op = "free" /\ loc'[p].type = loc[p].type /\ loc'[p].n = loc[p].n
                                \/ <<loc'[p].type, loc'[p].n>> \in loc[p].got,
         ~Switching(at[p], loc[p]), ~Switching(at'[p], loc'[p]), at'[p] \notin {"switch", "panic"}
  PROVE  DataInv'
<1>1. HeldExact'
  BY HeldSame DEF DataInv
<1>2. SwitchExact(p)'
  BY SwitchFar DEF SwitchExact
<1>3. /\ errors' \in Nat /\ (errors' = 0 => errors = 0) /\ held' \in [BitmapBlocks -> Users \cup {0}]
  BY DEF DataInv, DataTypes
<1>4. QED BY <1>1, <1>2, <1>3, QuietStep

LEMMA CallData ==
  ASSUME LockInv, DataInv, NEW p \in Users, NEW o \in AllocFree, NEW t \in Types, NEW n, Call(p, o, t, n),
         o = "free" => <<t, n>> \in loc[p].got
  PROVE  DataInv'
<1>1. /\ Alone(p) /\ at'[p] = "lock"
      /\ loc'[p].op = o /\ loc'[p].type = t /\ loc'[p].n = n /\ loc'[p].got = loc[p].got
  BY CallLock
<1>2. at[p] = "idle" /\ UNCHANGED <<sb, mpt_copy, bitmap, used, held, errors>> /\ LockTypes
  BY DEF Call, Ready, LockInv
<1>3. QED BY <1>1, <1>2, FarStep DEF Switching

LEMMA SyncData ==
  ASSUME LockInv, DataInv, NEW p \in Users,
         (SyncCall(p) /\ sync_mutex # 0) \/ UpdateWait(p) \/ UpdateLock(p) \/ Updated(p) \/ SyncEnd(p)
         \/ SyncFlush(p, "sync_inodes", INODES, "sync_blocks") \/ SyncFlush(p, "sync_blocks", BLOCKS, "synced")
  PROVE  DataInv'
<1>1. LockTypes /\ UserPlaced(p)
  BY DEF LockInv
<1>2. /\ at[p] \in {"idle", "update", "updated", "sync_inodes", "sync_blocks", "synced"}
      /\ UNCHANGED <<mpt_copy, bitmap, used, held, errors>>
  BY DEF SyncCall, UpdateWait, UpdateLock, Updated, SyncEnd, SyncFlush, Ready
<1>3. ~Switching(at[p], loc[p])
  BY <1>2 DEF Switching
<1>4. /\ Alone(p) /\ sb'.free = sb.free /\ loc'[p].got = loc[p].got /\ loc'[p].op # "free"
      /\ at'[p] \in {"idle", "update", "updated", "sync_inodes", "sync_blocks", "synced", "flush"}
      /\ at'[p] = "flush" => loc'[p].back # "switch3"
  <2>1. CASE SyncCall(p) /\ sync_mutex # 0
    <3>1. sb' = sb
      BY <2>1 DEF SyncCall
    <3>2. QED BY <2>1, <3>1, SyncCallLock
  <2>2. CASE UpdateWait(p)
    <3>1. at' = at /\ loc' = loc /\ sb' = sb /\ at[p] = "update"
      BY <2>2 DEF UpdateWait, Ready
    <3>2. loc[p].op = "sync"
      BY <1>1, <3>1 DEF UserPlaced
    <3>3. QED BY <2>2, <3>1, <3>2, UpdateWaitLock
  <2>3. CASE UpdateLock(p)
    <3>1. loc[p].op = "sync"
      BY <1>1, <2>3 DEF UserPlaced, UpdateLock, Ready
    <3>2. QED BY <2>3, <3>1, UpdateLockLock
  <2>4. CASE Updated(p)
    <3>1. loc[p].op = "sync"
      BY <1>1, <2>4 DEF UserPlaced, Updated, Ready
    <3>2. QED BY <2>4, <3>1, UpdatedLock
  <2>5. CASE SyncEnd(p)
    <3>1. sb' = sb
      BY <2>5 DEF SyncEnd
    <3>2. QED BY <2>5, <3>1, SyncEndLock
  <2>6. CASE SyncFlush(p, "sync_inodes", INODES, "sync_blocks")
    <3>1. sb' = sb /\ INODES \in Types
      BY <2>6 DEF SyncFlush, Types
    <3>2. QED BY <2>6, <3>1, SyncFlushLock
  <2>7. CASE SyncFlush(p, "sync_blocks", BLOCKS, "synced")
    <3>1. sb' = sb /\ BLOCKS \in Types
      BY <2>7 DEF SyncFlush, Types
    <3>2. QED BY <2>7, <3>1, SyncFlushLock
  <2>8. QED BY <2>1, <2>2, <2>3, <2>4, <2>5, <2>6, <2>7
<1>5. ~Switching(at'[p], loc'[p]) /\ at'[p] \notin {"switch", "panic"}
  BY <1>4 DEF Switching
<1>6. QED BY <1>1, <1>2, <1>3, <1>4, <1>5, FarStep

LEMMA LockData ==
  ASSUME LockInv, DataInv, NEW p \in Users, LockWait(p) \/ LockTaken(p)
  PROVE  DataInv'
<1>1. LockTypes
  BY DEF LockInv
<1>2. /\ at[p] = "lock" /\ UNCHANGED <<mpt_copy, bitmap, used, held, errors>>
      /\ loc' = loc /\ at'[p] \in {"lock", "alloc", "free"} /\ Alone(p) /\ sb'.free = sb.free
  <2>1. CASE LockWait(p)
    BY <2>1, WaitLock DEF LockWait, Ready
  <2>2. CASE LockTaken(p)
    BY <2>2, TakenLock DEF LockTaken, Ready, AllocFree
  <2>3. QED BY <2>1, <2>2
<1>3. QED BY <1>1, <1>2, FarStep DEF Switching

LEMMA NoneFreeData ==
  ASSUME LockInv, NEW p \in Users, NoneFree(p)
  PROVE  LockInv' /\ (DataInv => DataInv')
<1>1. PICK t \in Types : t = loc[p].type
  BY HereNow DEF NoneFree
<1>2. PICK m : m = loc[p]
  OBVIOUS
<1>3. PICK f \in Int : f = sb.free[t]
  BY DEF LockInv, LockTypes, SbSet
<1>4. /\ at[p] = "alloc" /\ waits[p] = "none" /\ LocOf(m) /\ LockTypes /\ loc[p].op \in AllocFree
      /\ sb.free \in [Types -> Int]
  BY <1>2, HereNow DEF NoneFree, UserPlaced, AllocFree, LockTypes, SbSet
<1>5. /\ sb_unlock(t, f) /\ at' = [at EXCEPT ![p] = "idle"] /\ loc' = [loc EXCEPT ![p] = m]
      /\ UNCHANGED <<mpt_copy, bitmap, held, used, errors>>
  BY <1>1, <1>2, <1>3, <1>4 DEF NoneFree, Jump, LockTypes
<1>6. LockInv' /\ Alone(p) /\ at'[p] = "idle" /\ loc'[p] = m /\ sb'.free = [sb.free EXCEPT ![t] = f]
  <2>1. at[p] \in LockPlaces
    BY <1>4 DEF LockPlaces
  <2>2. LetsGo(p, t, f, m)
    BY <1>1, <1>4, <1>5, <2>1 DEF LetsGo
  <2>3. QED BY <1>4, <2>2, UnlockStep
<1>7. sb'.free = sb.free
  BY <1>3, <1>4, <1>6
<1>8. ASSUME DataInv PROVE DataInv'
  <2>1. ~Switching(at[p], loc[p]) /\ ~Switching(at'[p], loc'[p]) /\ at'[p] \notin {"switch", "panic"}
    BY <1>4, <1>6 DEF Switching
  <2>2. loc'[p] = loc[p]
    BY <1>2, <1>6
  <2>3. QED BY <1>4, <1>5, <1>6, <1>7, <1>8, <2>1, <2>2, FarStep
<1>9. QED BY <1>6, <1>8

\* Bitmaps without a bit: the superblock counts none.
LEMMA AllEmpty ==
  ASSUME NEW t \in Types, CopyExact(t), mpt_copy[t].count = 0, mpt_copy[t].bitmap \subseteq Int,
         \A c \in ClusterNos \ {mpt_copy[t].cluster} : bitmap[BitmapOf(t, c)] = {},
         mpt_copy[t].cluster \in ClusterNos \cup {-1}
  PROVE  sb.free[t] = 0
<1>1. PICK m : m = mpt_copy[t]
  OBVIOUS
<1>2. m.bitmap = {}
  <2>1. CASE m.cluster = -1
    BY <1>1, <2>1 DEF CopyExact
  <2>2. CASE m.cluster # -1
    <3>1. m.cluster \in ClusterNos /\ m.bitmap = FreeBits(t, m.cluster)
      BY <1>1, <2>2 DEF CopyExact, ShownBits
    <3>2. IsFiniteSet(m.bitmap)
      <4>1. m.bitmap \subseteq Bits(t, m.cluster)
        BY <3>1 DEF FreeBits
      <4>2. IsFiniteSet(Bits(t, m.cluster))
        BY <3>1, BitsAreFinite
      <4>3. QED BY <4>1, <4>2, FS_Subset
    <3>3. Cardinality(m.bitmap) = 0
      BY <1>1 DEF CopyExact
    <3>4. QED BY <3>2, <3>3, FS_EmptySet
  <2>3. QED BY <2>1, <2>2
<1>3. ASSUME NEW c \in ClusterNos PROVE FreeBits(t, c) = {}
  BY <1>1, <1>2 DEF CopyExact, ShownBits
<1>4. All(t) \ used[t] = {}
  BY <1>3, NumberOfAll DEF FreeBits
<1>5. QED BY <1>4, FS_EmptySet DEF CopyExact

LEMMA SearchData ==
  ASSUME LockInv, DataInv, NEW p \in Users, Search(p)
  PROVE  DataInv'
<1>1. PICK t : t = loc[p].type
  OBVIOUS
<1>2. PICK m : m = mpt_copy[t]
  OBVIOUS
<1>3. PICK l : l = loc'[p]
  OBVIOUS
<1>4. /\ Alone(p) /\ at[p] = "alloc" /\ at'[p] = "switch" /\ l.op = "alloc" /\ l.type = t /\ l.got = loc[p].got
      /\ l.cluster = (IF m.cluster # -1 /\ m.cluster + 1 = s_clusters THEN 0 ELSE m.cluster + 1)
      /\ (l.first <=> m.cluster = -1) /\ ~l.force /\ ~l.wrapped
  BY <1>1, <1>2, <1>3, SearchLock
<1>5. LockTypes /\ t \in Types
  BY <1>1 DEF LockInv, LockTypes, LocOf
<1>6. /\ m.count = 0 /\ sb.free[t] # 0 /\ UNCHANGED <<sb, mpt_copy, bitmap, used, held, errors>>
      /\ m.cluster \in ClusterNos \cup {-1} /\ m.bitmap \subseteq Int
  BY <1>1, <1>2, <1>5 DEF Search, DataInv, DataTypes
<1>7. l.cluster \in ClusterNos /\ SeenClusters(l, m.cluster) = {}
  BY <1>4, <1>6, Geometry DEF SeenClusters
<1>8. errors = 0 => l.cluster # m.cluster
  <2>1. SUFFICES ASSUME l.cluster = m.cluster PROVE FALSE
    OBVIOUS
  <2>2. m.cluster = 0 /\ ClusterNos = {0}
    BY <1>4, <1>6, <1>7, <2>1, Geometry
  <2>3. \A c \in ClusterNos \ {m.cluster} : bitmap[BitmapOf(t, c)] = {}
    BY <2>2
  <2>4. CopyExact(t)
    BY <1>5 DEF DataInv
  <2>5. sb.free[t] = 0
    BY <1>2, <1>5, <1>6, <2>3, <2>4, AllEmpty
  <2>6. QED BY <1>6, <2>5
<1>9. SwitchOk("switch", l, m, sb.free[t], errors, bitmap)
  <2>1. Searching(l, m, sb.free[t], errors, bitmap)
    <3>1. l.cluster > m.cluster \/ m.cluster + 1 = s_clusters
      BY <1>4, <1>6, Geometry
    <3>2. QED BY <1>4, <1>6, <1>7, <3>1 DEF Searching
  <2>2. QED BY <1>4, <1>7, <1>8, <2>1 DEF SwitchOk, Switching
<1>10. SwitchExact(p)'
  BY <1>2, <1>3, <1>4, <1>6, <1>9 DEF SwitchExact
<1>11. HeldExact'
  BY <1>4, <1>5, <1>6, HeldSame DEF DataInv, Switching
<1>12. /\ errors' \in Nat /\ (errors' = 0 => errors = 0) /\ held' \in [BitmapBlocks -> Users \cup {0}]
  BY <1>6 DEF DataInv, DataTypes
<1>13. /\ UNCHANGED <<mpt_copy, bitmap, used>> /\ sb'.free = sb.free /\ loc'[p].got = loc[p].got /\ loc'[p].op # "free"
  BY <1>3, <1>4, <1>6
<1>14. QED BY <1>4, <1>5, <1>10, <1>11, <1>12, <1>13, QuietStep

LEMMA ElsewhereData ==
  ASSUME LockInv, DataInv, NEW p \in Users, FreeElsewhere(p)
  PROVE  DataInv'
<1>1. PICK t : t = loc[p].type
  OBVIOUS
<1>2. PICK l : l = loc'[p]
  OBVIOUS
<1>3. /\ Alone(p) /\ at[p] = "free" /\ at'[p] = "switch" /\ loc[p].op = "free" /\ l.op = "free" /\ l.type = t
      /\ l.got = loc[p].got /\ l.n = loc[p].n /\ l.cluster = Cluster(t, loc[p].n) /\ l.force
  BY <1>1, <1>2, ElsewhereLock
<1>4. LockTypes /\ t \in Types
  BY <1>1 DEF LockInv, LockTypes, LocOf
<1>5. l.cluster # mpt_copy[t].cluster /\ UNCHANGED <<sb, mpt_copy, bitmap, used, held, errors>>
  BY <1>1, <1>3 DEF FreeElsewhere
<1>6. l.cluster \in ClusterNos
  <2>1. loc[p].n \in All(t)
    BY <1>1, <1>3 DEF DataInv, OwnsGot
  <2>2. QED BY <1>3, <1>4, <2>1, NumberOfAll
<1>7. SwitchOk("switch", l, mpt_copy[t], sb.free[t], errors, bitmap)
  BY <1>3, <1>5, <1>6 DEF SwitchOk, Switching
<1>8. SwitchExact(p)'
  BY <1>2, <1>3, <1>5, <1>7 DEF SwitchExact
<1>9. HeldExact'
  BY <1>3, <1>4, <1>5, HeldSame DEF DataInv, Switching
<1>10. /\ errors' \in Nat /\ (errors' = 0 => errors = 0) /\ held' \in [BitmapBlocks -> Users \cup {0}]
  BY <1>5 DEF DataInv, DataTypes
<1>11. /\ UNCHANGED <<mpt_copy, bitmap, used>> /\ sb'.free = sb.free /\ loc'[p].got = loc[p].got
       /\ loc[p].op = "free" /\ loc'[p].type = loc[p].type /\ loc'[p].n = loc[p].n
  BY <1>1, <1>2, <1>3, <1>5
<1>12. QED BY <1>3, <1>4, <1>8, <1>9, <1>10, <1>11, QuietStep

\* What a search relies on, one cluster further: k are its variables then.
LEMMA NextSearch ==
  ASSUME NEW l, NEW m, m.cluster \in ClusterNos \cup {-1}, NEW avail, NEW e, NEW bm, l.cluster \in ClusterNos, l.type \in Types,
         Searching(l, m, avail, e, bm), e = 0 => l.cluster # m.cluster,
         e = 0 => bm[BitmapOf(l.type, l.cluster)] = {},
         e = 0 => \E c \in ClusterNos \ {m.cluster} : bm[BitmapOf(l.type, c)] # {},
         NEW k, ~k.force, k.type = l.type, k.first <=> l.first,
         NEW last, last = IF l.wrapped THEN m.cluster - 1 ELSE s_clusters - 1
  PROVE  /\ l.cluster < last /\ k.cluster = l.cluster + 1 /\ (k.wrapped <=> l.wrapped) =>
               /\ k.cluster \in ClusterNos /\ (e = 0 => k.cluster # m.cluster) /\ Searching(k, m, avail, e, bm)
         /\ ~(l.cluster < last) /\ ~l.wrapped /\ ~l.first /\ m.cluster > 0 /\ k.cluster = 0 /\ k.wrapped =>
               /\ k.cluster \in ClusterNos /\ (e = 0 => k.cluster # m.cluster) /\ Searching(k, m, avail, e, bm)
         /\ ~(l.cluster < last) /\ ~(~l.wrapped /\ ~l.first /\ m.cluster > 0) => e # 0
<1>1. PICK old \in Int : old = m.cluster /\ (old = -1 \/ old \in 0..s_clusters - 1)
  BY Geometry
<1>2. PICK x \in Int : x = l.cluster /\ x \in 0..s_clusters - 1
  BY Geometry
<1>3. last \in Int /\ last = IF l.wrapped THEN old - 1 ELSE s_clusters - 1
  BY <1>1, Geometry
<1>4. /\ m.count = 0 /\ avail # 0 /\ (l.first <=> old = -1) /\ (l.wrapped => old > 0 /\ x < old)
      /\ ~l.wrapped => old + 1 = s_clusters \/ x > old
  BY <1>1, <1>2 DEF Searching
<1>5. ASSUME e = 0
      PROVE  /\ \A c \in ClusterNos : (IF l.wrapped THEN c > old \/ c < x ELSE (c > old \/ old + 1 = s_clusters) /\ c < x)
                   => bm[BitmapOf(l.type, c)] = {}
             /\ bm[BitmapOf(l.type, x)] = {} /\ x # old
             /\ \E c \in ClusterNos : c # old /\ bm[BitmapOf(l.type, c)] # {}
  BY <1>1, <1>2, <1>5 DEF Searching, SeenClusters
<1>6. ASSUME e = 0
      PROVE  \E c \in 0..s_clusters - 1 : /\ c # old /\ c # x
                   /\ ~(IF l.wrapped THEN c > old \/ c < x ELSE (c > old \/ old + 1 = s_clusters) /\ c < x)
  BY <1>5, <1>6, Geometry
<1>7. ASSUME l.cluster < last, k.cluster = l.cluster + 1, k.wrapped <=> l.wrapped
      PROVE  k.cluster \in ClusterNos /\ (e = 0 => k.cluster # m.cluster) /\ Searching(k, m, avail, e, bm)
  <2>1. k.cluster = x + 1 /\ x < last
    BY <1>2, <1>7
  <2>2. x + 1 \in 0..s_clusters - 1
    <3>1. last <= s_clusters - 1
      BY <1>1, <1>3, <1>4, Geometry
    <3>2. QED BY <1>2, <1>3, <2>1, <3>1, Geometry
  <2>3. ASSUME e = 0 PROVE x + 1 # old
    <3>1. PICK c \in 0..s_clusters - 1 : /\ c # old /\ c # x
                   /\ ~(IF l.wrapped THEN c > old \/ c < x ELSE (c > old \/ old + 1 = s_clusters) /\ c < x)
      BY <1>6, <2>3
    <3>2. CASE l.wrapped
      BY <1>1, <1>2, <1>3, <2>1, <3>2
    <3>3. CASE ~l.wrapped
      BY <1>1, <1>2, <1>3, <1>4, <2>1, <3>1, <3>3, Geometry
    <3>4. QED BY <3>2, <3>3
  <2>4. /\ k.wrapped => old > 0 /\ x + 1 < old
        /\ ~k.wrapped => old + 1 = s_clusters \/ x + 1 > old
    BY <1>1, <1>2, <1>3, <1>4, <1>7, <2>1, Geometry
  <2>5. ASSUME e = 0, NEW c \in SeenClusters(k, m.cluster)
        PROVE  bm[BitmapOf(k.type, c)] = {}
    <3>1. c \in ClusterNos /\ c \in Int
          /\ IF l.wrapped THEN c > old \/ c < x + 1 ELSE (c > old \/ old + 1 = s_clusters) /\ c < x + 1
      BY <1>1, <1>7, <2>1, <2>5, Geometry DEF SeenClusters
    <3>2. c = x \/ (IF l.wrapped THEN c > old \/ c < x ELSE (c > old \/ old + 1 = s_clusters) /\ c < x)
      BY <1>2, <3>1
    <3>3. QED BY <1>5, <2>5, <3>1, <3>2
  <2>6. Searching(k, m, avail, e, bm)
    BY <1>1, <1>4, <2>1, <2>4, <2>5 DEF Searching
  <2>7. QED BY <1>1, <2>1, <2>2, <2>3, <2>6, Geometry
<1>8. ASSUME ~(l.cluster < last), ~l.wrapped, ~l.first, m.cluster > 0, k.cluster = 0, k.wrapped
      PROVE  k.cluster \in ClusterNos /\ (e = 0 => k.cluster # m.cluster) /\ Searching(k, m, avail, e, bm)
  <2>1. x = s_clusters - 1 /\ old > 0
    BY <1>1, <1>2, <1>3, <1>8, Geometry
  <2>2. ASSUME e = 0, NEW c \in SeenClusters(k, m.cluster)
        PROVE  bm[BitmapOf(k.type, c)] = {}
    <3>1. c \in ClusterNos /\ c \in 0..s_clusters - 1 /\ c > old
      BY <1>1, <1>8, <2>1, <2>2, Geometry DEF SeenClusters
    <3>2. c = x \/ (c > old /\ c < x)
      BY <1>2, <2>1, <3>1, Geometry
    <3>3. QED BY <1>5, <1>8, <2>2, <3>1, <3>2
  <2>3. Searching(k, m, avail, e, bm)
    BY <1>1, <1>4, <1>8, <2>1, <2>2 DEF Searching
  <2>4. QED BY <1>8, <2>3, Geometry
<1>9. ASSUME ~(l.cluster < last), ~(~l.wrapped /\ ~l.first /\ m.cluster > 0), e = 0
      PROVE  FALSE
  <2>1. PICK c \in 0..s_clusters - 1 : /\ c # old /\ c # x
                   /\ ~(IF l.wrapped THEN c > old \/ c < x ELSE (c > old \/ old + 1 = s_clusters) /\ c < x)
    BY <1>6, <1>9
  <2>2. x # old
    BY <1>5, <1>9
  <2>3. CASE l.wrapped
    <3>1. last = old - 1 /\ x < old /\ ~(x < last) /\ s_clusters \in Int
      BY <1>2, <1>3, <1>4, <1>9, <2>3, Geometry
    <3>2. c # old /\ c # x /\ ~(c > old) /\ ~(c < x)
      BY <2>1, <2>3
    <3>3. QED BY ONLY <1>1, <1>2, <2>1, <3>1, <3>2
  <2>4. CASE ~l.wrapped
    <3>1. x = s_clusters - 1 /\ (old = -1 \/ old = 0)
      BY <1>1, <1>2, <1>3, <1>4, <1>9, <2>4, Geometry
    <3>2. QED BY <1>2, <1>4, <2>1, <2>2, <2>4, <3>1, Geometry
  <2>5. QED BY <2>3, <2>4
<1>10. QED BY <1>7, <1>8, <1>9

\* The block of the cluster that is switched to is kept, or let go.
LEMMA HeldTaken ==
  ASSUME LockTypes, HeldExact, NEW p \in Users, Alone(p), held \in [BitmapBlocks -> Users \cup {0}],
         NEW b, b = BitmapOf(loc'[p].type, loc'[p].cluster), held[b] = 0, held' = [held EXCEPT ![b] = p],
         ~Switching(at[p], loc[p]), Switching(at'[p], loc'[p])
  PROVE  HeldExact' /\ held' \in [BitmapBlocks -> Users \cup {0}]
<1>1. 0 \notin Users
  BY Geometry
<1>2. ASSUME NEW q \in Users, NEW d \in BitmapBlocks
      PROVE  held'[d] = q <=> Switching(at'[q], loc'[q]) /\ d = BitmapOf(loc'[q].type, loc'[q].cluster)
  <2>1. held[d] = q <=> Switching(at[q], loc[q]) /\ d = BitmapOf(loc[q].type, loc[q].cluster)
    BY DEF HeldExact
  <2>2. held'[d] = IF d = b THEN p ELSE held[d]
    OBVIOUS
  <2>3. CASE q = p
    BY <2>1, <2>2, <2>3
  <2>4. CASE q # p
    <3>1. at'[q] = at[q] /\ loc'[q] = loc[q]
      BY <2>4 DEF Alone
    <3>2. held'[d] = q <=> held[d] = q
      BY <1>1, <2>2, <2>4
    <3>3. QED BY <2>1, <3>1, <3>2
  <2>5. QED BY <2>3, <2>4
<1>3. HeldExact'
  BY <1>2 DEF HeldExact
<1>4. QED BY <1>3

LEMMA HeldGone ==
  ASSUME LockTypes, HeldExact, NEW p \in Users, Alone(p), held \in [BitmapBlocks -> Users \cup {0}],
         NEW b, b = BitmapOf(loc[p].type, loc[p].cluster), held' = [held EXCEPT ![b] = 0],
         Switching(at[p], loc[p]), ~Switching(at'[p], loc'[p])
  PROVE  HeldExact' /\ held' \in [BitmapBlocks -> Users \cup {0}]
<1>1. 0 \notin Users
  BY Geometry
<1>2. ASSUME NEW q \in Users, NEW d \in BitmapBlocks
      PROVE  held'[d] = q <=> Switching(at'[q], loc'[q]) /\ d = BitmapOf(loc'[q].type, loc'[q].cluster)
  <2>1. /\ held[d] = q <=> Switching(at[q], loc[q]) /\ d = BitmapOf(loc[q].type, loc[q].cluster)
        /\ held[d] = p <=> d = b
    BY DEF HeldExact
  <2>2. held'[d] = IF d = b THEN 0 ELSE held[d]
    OBVIOUS
  <2>3. CASE q = p
    BY <1>1, <2>1, <2>2, <2>3
  <2>4. CASE q # p
    <3>1. at'[q] = at[q] /\ loc'[q] = loc[q]
      BY <2>4 DEF Alone
    <3>2. held'[d] = q <=> held[d] = q
      BY <1>1, <2>1, <2>2, <2>4
    <3>3. QED BY <2>1, <3>1, <3>2
  <2>5. QED BY <2>3, <2>4
<1>3. HeldExact'
  BY <1>2 DEF HeldExact
<1>4. QED BY <1>3

LEMMA ReadData ==
  ASSUME LockInv, NEW p \in Users, SwitchRead(p)
  PROVE  LockInv' /\ (DataInv => DataInv')
<1>1. PICK b : b = BitmapOf(loc[p].type, loc[p].cluster)
  OBVIOUS
<1>2. at[p] = "switch" /\ waits[p] = "none" /\ UserPlaced(p) /\ loc[p].op \in AllocFree /\ LockTypes
  BY HereNow DEF SwitchRead, UserPlaced
<1>3. /\ held[b] = 0 /\ held' = [held EXCEPT ![b] = p] /\ at' = [at EXCEPT ![p] = "switch2"]
      /\ UNCHANGED <<sb, mpt_copy, bitmap, waits, loc, used, errors>>
  BY <1>1 DEF SwitchRead, Jump
<1>4. LockInv' /\ Alone(p) /\ at'[p] = "switch2" /\ loc'[p] = loc[p]
  <2>1. at[p] \in LockPlaces /\ "switch2" \in LockPlaces \cup {"idle"} /\ "switch2" \notin AllocFree
    BY <1>2 DEF LockPlaces, AllocFree
  <2>2. QED BY <1>2, <1>3, <2>1, InsideStay
<1>5. ASSUME DataInv PROVE DataInv'
  <2>1. ~Switching(at[p], loc[p]) /\ Switching(at'[p], loc'[p])
    BY <1>2, <1>4 DEF Switching
  <2>2. HeldExact' /\ held' \in [BitmapBlocks -> Users \cup {0}]
    <3>1. b = BitmapOf(loc'[p].type, loc'[p].cluster) /\ held[b] = 0 /\ held' = [held EXCEPT ![b] = p]
      BY <1>1, <1>3, <1>4
    <3>2. HeldExact /\ held \in [BitmapBlocks -> Users \cup {0}]
      BY <1>5 DEF DataInv, DataTypes
    <3>3. QED BY <1>2, <1>4, <2>1, <3>1, <3>2, HeldTaken
  <2>3. SwitchExact(p)'
    BY <1>2, <1>3, <1>4, <1>5 DEF DataInv, SwitchExact, SwitchOk, Switching
  <2>4. errors' \in Nat /\ (errors' = 0 => errors = 0) /\ UNCHANGED <<mpt_copy, bitmap, used>> /\ sb'.free = sb.free
    BY <1>3, <1>5 DEF DataInv, DataTypes
  <2>5. QED BY <1>2, <1>4, <1>5, <2>2, <2>3, <2>4, QuietStep
<1>6. QED BY <1>4, <1>5

LEMMA NextExact ==
  ASSUME LockInv, DataInv, NEW p \in Users, waits[p] = "none", at[p] \in {"switch", "switch2"},
         UNCHANGED <<sb, waits, mpt_copy, bitmap>>, NextCluster(p), ~loc[p].force, errors' \in Nat,
         errors' = 0 => errors = 0 /\ bitmap[BitmapOf(loc[p].type, loc[p].cluster)] = {}
  PROVE  SwitchExact(p)'
<1>1. PICK l : l = loc[p]
  OBVIOUS
<1>2. PICK k : k = loc'[p]
  OBVIOUS
<1>3. PICK t \in Types : t = l.type
  BY <1>1 DEF LockInv, LockTypes, LocOf
<1>4. PICK m : m = mpt_copy[t]
  OBVIOUS
<1>5. PICK avail : avail = sb.free[t]
  OBVIOUS
<1>6. PICK e \in Nat : e = errors'
  OBVIOUS
<1>7. PICK last : last = IF l.wrapped THEN m.cluster - 1 ELSE s_clusters - 1
  OBVIOUS
<1>8. /\ at'[p] \in {"switch", "panic"} /\ k.op = l.op /\ k.type = l.type /\ SameBut(k, l, {"cluster", "wrapped"})
      /\ IF l.cluster < last
         THEN at'[p] = "switch" /\ k.cluster = l.cluster + 1 /\ k.wrapped = l.wrapped
         ELSE IF ~l.wrapped /\ ~l.first /\ m.cluster > 0
         THEN at'[p] = "switch" /\ k.cluster = 0 /\ k.wrapped
         ELSE at'[p] = "panic" /\ k = l
  BY <1>1, <1>2, <1>3, <1>4, <1>7, NextLock
<1>9. SwitchOk(at[p], l, m, avail, errors, bitmap)
  BY <1>1, <1>3, <1>4, <1>5 DEF DataInv, SwitchExact
<1>10. l.cluster \in ClusterNos /\ (errors = 0 => l.cluster # m.cluster) /\ l.op # "free"
       /\ Searching(l, m, avail, errors, bitmap)
  BY <1>1, <1>9 DEF SwitchOk, Switching
<1>11. m.cluster \in ClusterNos \cup {-1} /\ m.bitmap \subseteq Int /\ CopyExact(t)
  BY <1>4 DEF DataInv, DataTypes
<1>12. Searching(l, m, avail, e, bitmap) /\ (e = 0 => l.cluster # m.cluster /\ bitmap[BitmapOf(t, l.cluster)] = {})
  BY <1>1, <1>3, <1>6, <1>10 DEF Searching
<1>13. \E c \in ClusterNos \ {m.cluster} : bitmap[BitmapOf(t, c)] # {}
  <2>1. SUFFICES ASSUME \A c \in ClusterNos \ {m.cluster} : bitmap[BitmapOf(t, c)] = {} PROVE FALSE
    OBVIOUS
  <2>2. mpt_copy[t].count = 0 /\ avail # 0
    BY <1>4, <1>10 DEF Searching
  <2>3. sb.free[t] = 0
    BY <1>4, <1>11, <2>1, <2>2, AllEmpty
  <2>4. QED BY <1>5, <2>2, <2>3
<1>14. ~k.force /\ (k.first <=> l.first)
  <2>1. ~l.force
    BY <1>1
  <2>2. QED BY <1>8, <2>1 DEF SameBut, LocFields
<1>15. /\ l.cluster < last /\ k.cluster = l.cluster + 1 /\ (k.wrapped <=> l.wrapped) =>
               /\ k.cluster \in ClusterNos /\ (e = 0 => k.cluster # m.cluster) /\ Searching(k, m, avail, e, bitmap)
       /\ ~(l.cluster < last) /\ ~l.wrapped /\ ~l.first /\ m.cluster > 0 /\ k.cluster = 0 /\ k.wrapped =>
               /\ k.cluster \in ClusterNos /\ (e = 0 => k.cluster # m.cluster) /\ Searching(k, m, avail, e, bitmap)
       /\ ~(l.cluster < last) /\ ~(~l.wrapped /\ ~l.first /\ m.cluster > 0) => e # 0
  <2>1. PICK bm : bm = bitmap
    OBVIOUS
  <2>2. /\ m.cluster \in ClusterNos \cup {-1} /\ l.cluster \in ClusterNos /\ l.type \in Types
        /\ Searching(l, m, avail, e, bm) /\ (e = 0 => l.cluster # m.cluster)
        /\ (e = 0 => bm[BitmapOf(l.type, l.cluster)] = {})
        /\ (e = 0 => \E c \in ClusterNos \ {m.cluster} : bm[BitmapOf(l.type, c)] # {})
    BY <1>3, <1>10, <1>11, <1>12, <1>13, <2>1
  <2>3. ~k.force /\ k.type = l.type /\ (k.first <=> l.first) /\ last = IF l.wrapped THEN m.cluster - 1 ELSE s_clusters - 1
    BY <1>7, <1>8, <1>14
  <2>4. /\ l.cluster < last /\ k.cluster = l.cluster + 1 /\ (k.wrapped <=> l.wrapped) =>
               /\ k.cluster \in ClusterNos /\ (e = 0 => k.cluster # m.cluster) /\ Searching(k, m, avail, e, bm)
        /\ ~(l.cluster < last) /\ ~l.wrapped /\ ~l.first /\ m.cluster > 0 /\ k.cluster = 0 /\ k.wrapped =>
               /\ k.cluster \in ClusterNos /\ (e = 0 => k.cluster # m.cluster) /\ Searching(k, m, avail, e, bm)
        /\ ~(l.cluster < last) /\ ~(~l.wrapped /\ ~l.first /\ m.cluster > 0) => e # 0
    BY <2>2, <2>3, NextSearch
  <2>5. QED BY <2>1, <2>4
<1>16. SwitchOk(at'[p], k, m, avail, e, bitmap)
  <2>1. CASE at'[p] = "switch"
    <3>1. k.cluster \in ClusterNos /\ (e = 0 => k.cluster # m.cluster) /\ Searching(k, m, avail, e, bitmap) /\ k.op # "free"
      BY <1>8, <1>10, <1>15, <2>1
    <3>2. QED BY <2>1, <3>1 DEF SwitchOk, Switching
  <2>2. CASE at'[p] = "panic"
    <3>1. e # 0
      BY <1>8, <1>15, <2>2
    <3>2. QED BY <2>2, <3>1 DEF SwitchOk, Switching
  <2>3. QED BY <1>8, <2>1, <2>2
<1>17. QED BY <1>2, <1>3, <1>4, <1>5, <1>6, <1>8, <1>16 DEF SwitchExact

LEMMA ErrorData ==
  ASSUME LockInv, NEW p \in Users, SwitchError(p)
  PROVE  LockInv' /\ (DataInv => DataInv')
<1>1. at[p] = "switch" /\ waits[p] = "none" /\ UserPlaced(p) /\ loc[p].op \in AllocFree /\ LockTypes
  BY HereNow DEF SwitchError, UserPlaced
<1>2. errors' = errors + 1 /\ UNCHANGED <<sb, mpt_copy, bitmap, held, waits, used>>
  BY DEF SwitchError
<1>3. CASE loc[p].force
  <2>1. at' = [at EXCEPT ![p] = "panic"] /\ loc' = loc
    BY <1>3 DEF SwitchError, Jump
  <2>2. LockInv' /\ Alone(p) /\ at'[p] = "panic" /\ loc'[p] = loc[p]
    <3>1. at[p] \in LockPlaces /\ "panic" \in LockPlaces \cup {"idle"} /\ "panic" \notin AllocFree
      BY <1>1 DEF LockPlaces, AllocFree
    <3>2. QED BY <1>1, <1>2, <2>1, <3>1, InsideStay
  <2>3. ASSUME DataInv PROVE DataInv'
    <3>1. ~Switching(at[p], loc[p]) /\ ~Switching(at'[p], loc'[p])
      BY <1>1, <2>2 DEF Switching
    <3>2. HeldExact'
      BY <1>1, <1>2, <2>2, <2>3, <3>1, HeldSame DEF DataInv
    <3>3. errors' \in Nat /\ errors' # 0 /\ held' \in [BitmapBlocks -> Users \cup {0}]
      BY <1>2, <2>3 DEF DataInv, DataTypes
    <3>4. SwitchExact(p)'
      BY <2>2, <3>1, <3>3 DEF SwitchExact, SwitchOk, Switching
    <3>5. QED BY <1>1, <1>2, <2>2, <2>3, <3>2, <3>3, <3>4, QuietStep
  <2>4. QED BY <2>2, <2>3
<1>4. CASE ~loc[p].force
  <2>1. NextCluster(p)
    BY <1>4 DEF SwitchError
  <2>2. LockInv' /\ Alone(p) /\ at'[p] \in {"switch", "panic"} /\ loc'[p].op = loc[p].op /\ loc'[p].type = loc[p].type
        /\ loc'[p].got = loc[p].got /\ SameBut(loc'[p], loc[p], {"cluster", "wrapped"})
    BY <1>1, <1>2, <2>1, NextLock
  <2>3. ASSUME DataInv PROVE DataInv'
    <3>1. ~Switching(at[p], loc[p]) /\ ~Switching(at'[p], loc'[p])
      BY <1>1, <2>2 DEF Switching
    <3>2. HeldExact'
      BY <1>1, <1>2, <2>2, <2>3, <3>1, HeldSame DEF DataInv
    <3>3. errors' \in Nat /\ errors' # 0 /\ held' \in [BitmapBlocks -> Users \cup {0}]
      BY <1>2, <2>3 DEF DataInv, DataTypes
    <3>4. SwitchExact(p)'
      BY <1>1, <1>2, <1>4, <2>1, <2>3, <3>3, NextExact
    <3>5. loc'[p].n = loc[p].n
      BY <2>2 DEF SameBut, LocFields
    <3>6. QED BY <1>1, <1>2, <2>2, <2>3, <3>2, <3>3, <3>4, <3>5, QuietStep
  <2>4. QED BY <2>2, <2>3
<1>5. QED BY <1>3, <1>4

LEMMA FullData ==
  ASSUME LockInv, NEW p \in Users, SwitchFull(p)
  PROVE  LockInv' /\ (DataInv => DataInv')
<1>1. PICK b : b = BitmapOf(loc[p].type, loc[p].cluster)
  OBVIOUS
<1>2. at[p] = "switch2" /\ waits[p] = "none" /\ UserPlaced(p) /\ loc[p].op \in AllocFree /\ LockTypes
  BY HereNow DEF SwitchFull, UserPlaced
<1>3. /\ ~loc[p].force /\ bitmap[b] = {} /\ held' = [held EXCEPT ![b] = 0] /\ NextCluster(p)
      /\ UNCHANGED <<sb, mpt_copy, bitmap, waits, used, errors>>
  BY <1>1 DEF SwitchFull
<1>4. LockInv' /\ Alone(p) /\ at'[p] \in {"switch", "panic"} /\ loc'[p].op = loc[p].op /\ loc'[p].type = loc[p].type
      /\ loc'[p].got = loc[p].got /\ SameBut(loc'[p], loc[p], {"cluster", "wrapped"})
  BY <1>2, <1>3, NextLock
<1>5. ASSUME DataInv PROVE DataInv'
  <2>1. Switching(at[p], loc[p]) /\ ~Switching(at'[p], loc'[p])
    BY <1>2, <1>4 DEF Switching
  <2>2. HeldExact' /\ held' \in [BitmapBlocks -> Users \cup {0}]
    <3>1. HeldExact /\ held \in [BitmapBlocks -> Users \cup {0}]
      BY <1>5 DEF DataInv, DataTypes
    <3>2. QED BY <1>1, <1>2, <1>3, <1>4, <2>1, <3>1, HeldGone
  <2>3. errors' \in Nat /\ errors' = errors
    BY <1>3, <1>5 DEF DataInv, DataTypes
  <2>4. SwitchExact(p)'
    BY <1>1, <1>2, <1>3, <1>5, <2>3, NextExact
  <2>5. loc'[p].n = loc[p].n
    BY <1>4 DEF SameBut, LocFields
  <2>6. QED BY <1>2, <1>3, <1>4, <1>5, <2>2, <2>3, <2>4, <2>5, QuietStep
<1>6. QED BY <1>4, <1>5

LEMMA SwitchFlushData ==
  ASSUME LockInv, NEW p \in Users, SwitchFlush(p)
  PROVE  LockInv' /\ (DataInv => DataInv')
<1>1. at[p] = "switch2" /\ waits[p] = "none" /\ UserPlaced(p) /\ loc[p].op \in AllocFree /\ LockTypes /\ LocOf(loc[p])
  BY HereNow DEF SwitchFlush, UserPlaced
<1>2. PICK l : l = loc[p]
  OBVIOUS
<1>3. PICK t \in Types : t = l.type
  BY <1>1, <1>2 DEF LocOf
<1>4. PICK c : c = mpt_copy[t].cluster
  OBVIOUS
<1>5. PICK f : f = IF c = -1 THEN 0 ELSE BitmapOf(t, c)
  OBVIOUS
<1>6. PICK k : k = BackedVars(l, f)
  OBVIOUS
<1>7. PICK x : x = IF c = -1 THEN "switch3" ELSE "flush"
  OBVIOUS
<1>8. SameBut(k, l, {"fblock", "back"}) /\ k.fblock = f /\ k.back = "switch3"
  <2>1. LocOf(l)
    BY <1>1, <1>2
  <2>2. QED BY <1>6, <2>1, BackVars
<1>9. /\ LocOf(k) /\ k.op = l.op /\ k.got = l.got /\ k.type = l.type /\ k.cluster = l.cluster /\ k.n = l.n
  BY <1>8, SameVars DEF SameBut, LocFields
<1>10. /\ at' = [at EXCEPT ![p] = x] /\ loc' = [loc EXCEPT ![p] = k]
       /\ UNCHANGED <<sb, mpt_copy, bitmap, held, waits, used, errors>>
  BY <1>2, <1>3, <1>4, <1>5, <1>6, <1>7 DEF SwitchFlush, Set, Jump, BackedVars
<1>11. LockInv' /\ Alone(p) /\ at'[p] = x /\ loc'[p] = k
  <2>1. at[p] \in LockPlaces /\ x \in LockPlaces \cup {"idle"} /\ x \notin AllocFree
    BY <1>1, <1>7 DEF LockPlaces, AllocFree
  <2>2. LocOf(k) /\ k.op = loc[p].op /\ k.type = loc[p].type /\ k.back = "switch3"
    BY <1>2, <1>8, <1>9
  <2>3. QED BY <1>1, <1>10, <2>1, <2>2, InsideStep
<1>12. ASSUME DataInv PROVE DataInv'
  <2>1. Switching(at[p], loc[p]) /\ Switching(at'[p], loc'[p])
    BY <1>1, <1>7, <1>8, <1>11 DEF Switching
  <2>2. HeldExact'
    BY <1>1, <1>2, <1>9, <1>10, <1>11, <1>12, <2>1, HeldSame DEF DataInv
  <2>3. /\ errors' \in Nat /\ errors' = errors /\ held' \in [BitmapBlocks -> Users \cup {0}]
        /\ UNCHANGED <<mpt_copy, bitmap, used>> /\ sb'.free = sb.free
    BY <1>10, <1>12 DEF DataInv, DataTypes
  <2>4. /\ l.cluster \in ClusterNos /\ (errors = 0 \/ l.op = "free" => l.cluster # c)
    BY <1>1, <1>2, <1>3, <1>4, <1>12 DEF DataInv, SwitchExact, SwitchOk, Switching
  <2>5. c = -1 => l.cluster # c
    BY <2>4, Geometry
  <2>6. SwitchOk(x, k, mpt_copy[t], sb.free[t], errors, bitmap)
    <3>1. CASE c = -1
      BY <1>4, <1>7, <1>9, <2>4, <2>5, <3>1 DEF SwitchOk, Switching
    <3>2. CASE c # -1
      BY <1>3, <1>4, <1>5, <1>7, <1>8, <1>9, <2>4, <3>2 DEF SwitchOk, Switching
    <3>3. QED BY <3>1, <3>2
  <2>7. SwitchExact(p)'
    BY <1>3, <1>9, <1>10, <1>11, <2>6 DEF SwitchExact
  <2>8. /\ loc'[p].got = loc[p].got /\ loc'[p].op = loc[p].op /\ loc'[p].type = loc[p].type /\ loc'[p].n = loc[p].n
    BY <1>2, <1>9, <1>11
  <2>9. QED BY <1>1, <1>11, <1>12, <2>2, <2>3, <2>7, <2>8, QuietStep
<1>13. QED BY <1>11, <1>12

\* A step of the one that has the lock of type t, which changes its copy and count only: no other relies on them.
LEMMA SwitchOthers ==
  ASSUME LockInv, DataInv, NEW p \in Users, NEW t \in Types, HasLock(p, t), Alone(p), UNCHANGED <<errors, bitmap>>,
         \A u \in Types \ {t} : mpt_copy'[u] = mpt_copy[u] /\ sb'.free[u] = sb.free[u],
         NEW q \in Users \ {p}
  PROVE  SwitchExact(q)'
<1>1. at'[q] = at[q] /\ loc'[q] = loc[q] /\ loc[q].type \in Types
  BY DEF Alone, LockInv, LockTypes, LocOf
<1>2. CASE at[q] \in {"switch", "panic"} \/ Switching(at[q], loc[q])
  <2>1. loc[q].type # t
    BY <1>2, SwitchHasLock DEF LockInv, LocksApart
  <2>2. SwitchExact(q)
    BY DEF DataInv
  <2>3. QED BY <1>1, <2>1, <2>2 DEF SwitchExact
<1>3. CASE ~(at[q] \in {"switch", "panic"} \/ Switching(at[q], loc[q]))
  BY <1>1, <1>3, SwitchFar DEF SwitchExact
<1>4. QED BY <1>2, <1>3

LEMMA OwnsKept ==
  ASSUME NEW p \in Users, Alone(p), NEW q \in Users \ {p}, OwnsGot(q),
         \A r \in loc[q].got : r \in Types \X Int /\ r[2] \in used[r[1]] => r[2] \in used'[r[1]]
  PROVE  OwnsGot(q)'
BY DEF OwnsGot, Alone

LEMMA CopyKept ==
  ASSUME NEW t, CopyExact(t), mpt_copy'[t] = mpt_copy[t], sb'.free[t] = sb.free[t], used'[t] = used[t], bitmap' = bitmap
  PROVE  CopyExact(t)'
BY DEF CopyExact, ShownBits, FreeBits

LEMMA SwitchedData ==
  ASSUME LockInv, NEW p \in Users, Switched(p)
  PROVE  LockInv' /\ (DataInv => DataInv')
<1>1. at[p] = "switch3" /\ waits[p] = "none" /\ UserPlaced(p) /\ loc[p].op \in AllocFree /\ LockTypes /\ LocOf(loc[p])
  BY HereNow DEF Switched, UserPlaced
<1>2. PICK c : c = loc[p].cluster
  OBVIOUS
<1>3. PICK t \in Types : t = loc[p].type
  BY <1>1 DEF LocOf
<1>4. PICK b : b = BitmapOf(t, c)
  OBVIOUS
<1>5. PICK m : m = SwitchedCopy(t, c, bitmap[b])
  OBVIOUS
<1>6. PICK x : x = loc[p].op
  OBVIOUS
<1>7. /\ mpt_copy' = [mpt_copy EXCEPT ![t] = m] /\ held' = [held EXCEPT ![b] = 0] /\ at' = [at EXCEPT ![p] = x]
      /\ UNCHANGED <<sb, bitmap, waits, loc, used, errors>>
  BY <1>2, <1>3, <1>4, <1>5, <1>6 DEF Switched, Jump
<1>8. LockInv' /\ Alone(p) /\ at'[p] = x /\ loc'[p] = loc[p]
  <2>1. at[p] \in LockPlaces /\ x \in LockPlaces \cup {"idle"} /\ x # "flush"
    BY <1>1, <1>6 DEF LockPlaces, AllocFree
  <2>2. QED BY <1>1, <1>6, <1>7, <2>1, InsideStay
<1>9. HasLock(p, t)
  BY <1>1, <1>3 DEF HasLock, LockPlaces
<1>10. ASSUME DataInv PROVE DataInv'
  <2>1. Switching(at[p], loc[p]) /\ ~Switching(at'[p], loc'[p]) /\ at'[p] \notin {"switch", "panic"}
    BY <1>1, <1>6, <1>8 DEF Switching, AllocFree
  <2>2. HeldExact' /\ held' \in [BitmapBlocks -> Users \cup {0}]
    <3>1. HeldExact /\ held \in [BitmapBlocks -> Users \cup {0}] /\ b = BitmapOf(loc[p].type, loc[p].cluster)
      BY <1>2, <1>3, <1>4, <1>10 DEF DataInv, DataTypes
    <3>2. QED BY <1>1, <1>7, <1>8, <2>1, <3>1, HeldGone
  <2>3. PICK o : o = mpt_copy[t]
    OBVIOUS
  <2>4. /\ c \in ClusterNos /\ c # o.cluster /\ (o.cluster # -1 => bitmap[BitmapOf(t, o.cluster)] = o.bitmap)
    BY <1>1, <1>2, <1>3, <1>10, <2>3 DEF DataInv, SwitchExact, SwitchOk, Switching
  <2>5. bitmap[b] \in SUBSET Int
    <3>1. b \in BitmapBlocks
      BY <1>4, <2>4 DEF BitmapBlocks
    <3>2. QED BY <1>10, <3>1 DEF DataInv, DataTypes
  <2>6. m.cluster = c /\ m.bitmap = bitmap[b] /\ m.count = Cardinality(m.bitmap)
    BY <1>5 DEF SwitchedCopy
  <2>7. CopyExact(t)
    BY <1>10 DEF DataInv
  <2>8. IsFiniteSet(m.bitmap)
    <3>1. m.bitmap = FreeBits(t, c)
      BY <1>4, <2>3, <2>4, <2>6, <2>7 DEF CopyExact, ShownBits
    <3>2. m.bitmap \subseteq Bits(t, c) /\ IsFiniteSet(Bits(t, c))
      BY <2>4, <3>1, BitsAreFinite DEF FreeBits
    <3>3. QED BY <3>2, FS_Subset
  <2>9. m \in [cluster : ClusterNos \cup {-1}, count : Int, bitmap : SUBSET Int]
    <3>1. m.count \in Int
      BY <2>6, <2>8, FS_CardinalityType
    <3>2. m = [cluster |-> c, count |-> m.count, bitmap |-> m.bitmap]
      BY <1>5, <2>6 DEF SwitchedCopy
    <3>3. QED BY <2>4, <2>5, <2>6, <3>1, <3>2
  <2>10. mpt_copy'[t] = m /\ \A u \in Types \ {t} : mpt_copy'[u] = mpt_copy[u]
    BY <1>7, <1>10 DEF DataInv, DataTypes
  <2>11. DataTypes'
    BY <1>7, <1>10, <2>2, <2>9 DEF DataInv, DataTypes
  <2>12. CopyExact(t)'
    <3>1. ASSUME NEW e \in ClusterNos PROVE ShownBits(t, e)' = FreeBits(t, e)'
      <4>1. FreeBits(t, e)' = FreeBits(t, e) /\ FreeBits(t, e) = ShownBits(t, e)
        BY <1>7, <2>7 DEF CopyExact, FreeBits
      <4>2. CASE e = c
        BY <1>4, <2>3, <2>4, <2>6, <2>10, <4>1, <4>2 DEF ShownBits
      <4>3. CASE e # c
        <5>1. ShownBits(t, e)' = bitmap[BitmapOf(t, e)]
          BY <1>7, <2>6, <2>10, <4>3 DEF ShownBits
        <5>2. e = o.cluster => bitmap[BitmapOf(t, e)] = o.bitmap
          BY <2>4, Geometry
        <5>3. QED BY <2>3, <4>1, <5>1, <5>2 DEF ShownBits
      <4>4. QED BY <4>2, <4>3
    <3>2. mpt_copy'[t].cluster # -1
      BY <2>4, <2>6, <2>10, Geometry
    <3>3. mpt_copy'[t].count = Cardinality(mpt_copy'[t].bitmap)
      BY <2>6, <2>10
    <3>4. sb'.free[t] = Cardinality(All(t) \ used'[t])
      BY <1>7, <2>7 DEF CopyExact
    <3>5. QED BY <3>1, <3>2, <3>3, <3>4 DEF CopyExact
  <2>13. ASSUME NEW u \in Types PROVE CopyExact(u)'
    <3>1. CASE u # t
      BY <1>7, <1>10, <2>10, <3>1, CopyKept DEF DataInv
    <3>2. QED BY <2>12, <3>1
  <2>14. GotApart' /\ \A q \in Users : OwnsGot(q)'
    BY <1>7, <1>10 DEF DataInv, GotApart, OwnsGot
  <2>15. ASSUME NEW q \in Users PROVE SwitchExact(q)'
    <3>1. CASE q = p
      BY <2>1, <3>1, SwitchFar DEF SwitchExact
    <3>2. CASE q # p
      BY <1>7, <1>8, <1>9, <1>10, <2>10, <3>2, SwitchOthers
    <3>3. QED BY <3>1, <3>2
  <2>16. QED BY <2>2, <2>11, <2>13, <2>14, <2>15 DEF DataInv
<1>11. QED BY <1>8, <1>10

\* flush_cluster() writes the copy of the current cluster over its bitmap, unless that is another one by now.
LEMMA FlushData ==
  ASSUME LockInv, NEW p \in Users, Flush(p)
  PROVE  LockInv' /\ (~mixed' => ~mixed) /\ (DataInv /\ ~mixed' => DataInv')
<1>1. at[p] = "flush" /\ waits[p] = "none" /\ UserPlaced(p) /\ LockTypes /\ LocOf(loc[p])
  BY HereNow DEF Flush
<1>2. PICK t \in Types : t = loc[p].type
  BY <1>1 DEF LocOf
<1>3. PICK b : b = loc[p].fblock
  OBVIOUS
<1>4. PICK m : m = mpt_copy[t]
  OBVIOUS
<1>5. PICK x : x = loc[p].back
  OBVIOUS
<1>6. /\ held[b] = 0 /\ bitmap' = [bitmap EXCEPT ![b] = m.bitmap] /\ at' = [at EXCEPT ![p] = x]
      /\ mixed' = (mixed \/ b # BitmapOf(t, m.cluster))
      /\ UNCHANGED <<sb, mpt_copy, held, waits, loc, used, errors>>
  BY <1>2, <1>3, <1>4, <1>5 DEF Flush, Jump
<1>7. \/ loc[p].op \in AllocFree /\ x = "switch3"
      \/ loc[p].op = "sync" /\ x \in {"sync_blocks", "synced"}
  BY <1>1, <1>5 DEF UserPlaced
<1>8. LockInv' /\ Alone(p) /\ at'[p] = x /\ loc'[p] = loc[p]
  <2>1. CASE loc[p].op \in AllocFree /\ x = "switch3"
    <3>1. at[p] \in LockPlaces /\ x \in LockPlaces \cup {"idle"} /\ x \notin AllocFree /\ x # "flush"
      BY <1>1, <2>1 DEF LockPlaces, AllocFree
    <3>2. QED BY <1>1, <1>6, <2>1, <3>1, InsideStay
  <2>2. CASE loc[p].op = "sync" /\ x \in {"sync_blocks", "synced"}
    <3>1. PICK l : l = loc[p]
      OBVIOUS
    <3>2. loc' = [loc EXCEPT ![p] = l]
      BY <1>1, <1>6, <3>1 DEF LockTypes
    <3>3. /\ x \in {"idle", "lock", "update", "sync_inodes", "sync_blocks", "synced", "flush"} /\ LocOf(l)
          /\ (x = "lock" => l.op \in AllocFree) /\ (x \notin {"lock", "idle"} => l.op = "sync")
          /\ (x = "flush" => l.back \in {"sync_blocks", "synced"})
      BY <1>1, <2>2, <3>1
    <3>4. waits[p] = "none" /\ UNCHANGED <<sb, waits>> /\ at' = [at EXCEPT ![p] = x]
      BY <1>1, <1>6
    <3>5. LockInv' /\ Alone(p) /\ at'[p] = x /\ loc'[p] = l
      BY <3>2, <3>3, <3>4, OutsideStep
    <3>6. QED BY <3>1, <3>5
  <2>3. QED BY <1>7, <2>1, <2>2
<1>9. ASSUME DataInv, ~mixed' PROVE DataInv'
  <2>1. b = BitmapOf(t, m.cluster)
    BY <1>6, <1>9
  <2>2. m.cluster \in ClusterNos \cup {-1} /\ m.bitmap \in SUBSET Int /\ m.cluster \in Int
    BY <1>4, <1>9, Geometry DEF DataInv, DataTypes
  <2>3. \A d \in BitmapBlocks : bitmap'[d] = IF d = b THEN m.bitmap ELSE bitmap[d]
    BY <1>6, <1>9 DEF DataInv, DataTypes
  <2>4. ASSUME NEW u \in Types, NEW c \in ClusterNos, u # t \/ c # m.cluster
        PROVE  bitmap'[BitmapOf(u, c)] = bitmap[BitmapOf(u, c)]
    <3>1. BitmapOf(u, c) # b
      <4>1. c \in Int
        BY Geometry
      <4>2. QED BY <2>1, <2>2, <2>4, <4>1, BitmapsApart
    <3>2. QED BY <2>3, <3>1 DEF BitmapBlocks
  <2>5. m.cluster # -1 => bitmap'[BitmapOf(t, m.cluster)] = m.bitmap
    BY <2>1, <2>2, <2>3 DEF BitmapBlocks
  <2>6. DataTypes'
    BY <1>6, <1>9, <2>2 DEF DataInv, DataTypes
  <2>7. Switching(at'[p], loc'[p]) <=> Switching(at[p], loc[p])
    BY <1>1, <1>5, <1>7, <1>8 DEF Switching
  <2>8. HeldExact'
    BY <1>1, <1>6, <1>8, <1>9, <2>7, HeldSame DEF DataInv
  <2>9. ASSUME NEW u \in Types PROVE CopyExact(u)'
    <3>1. CopyExact(u)
      BY <1>9 DEF DataInv
    <3>2. ASSUME NEW c \in ClusterNos PROVE ShownBits(u, c)' = ShownBits(u, c)
      BY <1>4, <1>6, <2>4 DEF ShownBits
    <3>3. ASSUME NEW c \in ClusterNos PROVE FreeBits(u, c)' = FreeBits(u, c)
      BY <1>6 DEF FreeBits
    <3>4. QED BY <1>6, <3>1, <3>2, <3>3 DEF CopyExact
  <2>10. GotApart' /\ \A q \in Users : OwnsGot(q)'
    BY <1>6, <1>9 DEF DataInv, GotApart, OwnsGot
  <2>11. ASSUME NEW q \in Users, NEW a,
                SwitchOk(a, loc[q], mpt_copy[loc[q].type], sb.free[loc[q].type], errors, bitmap)
         PROVE  SwitchOk(a, loc[q], mpt_copy[loc[q].type], sb.free[loc[q].type], errors, bitmap')
    <3>1. PICK u \in Types : u = loc[q].type
      BY <1>1 DEF LockTypes, LocOf
    <3>2. PICK o : o = mpt_copy[u]
      OBVIOUS
    <3>3. PICK l : l = loc[q]
      OBVIOUS
    <3>4. PICK bm : bm = bitmap
      OBVIOUS
    <3>5. PICK bn : bn = bitmap'
      OBVIOUS
    <3>6. PICK avail : avail = sb.free[u]
      OBVIOUS
    <3>7. o.cluster \in ClusterNos \cup {-1} /\ l.type \in Types /\ SwitchOk(a, l, o, avail, errors, bm)
      BY <1>9, <2>11, <3>1, <3>2, <3>3, <3>4, <3>6 DEF DataInv, DataTypes
    <3>8. \A c \in ClusterNos \ {o.cluster} : bn[BitmapOf(l.type, c)] = bm[BitmapOf(l.type, c)]
      BY <1>4, <2>4, <3>1, <3>2, <3>3, <3>4, <3>5
    <3>9. o.cluster # -1 => bn[BitmapOf(l.type, o.cluster)] \in {bm[BitmapOf(l.type, o.cluster)], o.bitmap}
      <4>1. CASE u = t
        BY <1>4, <2>5, <3>1, <3>2, <3>3, <3>5, <4>1
      <4>2. CASE u # t
        BY <2>4, <3>1, <3>3, <3>4, <3>5, <3>7, <4>2
      <4>3. QED BY <4>1, <4>2
    <3>10. SwitchOk(a, l, o, avail, errors, bn)
      BY <3>7, <3>8, <3>9, SwitchKept
    <3>11. QED BY <3>1, <3>2, <3>3, <3>5, <3>6, <3>10
  <2>12. SwitchExact(p)'
    <3>1. CASE x # "switch3"
      BY <1>7, <1>8, <3>1, SwitchFar DEF SwitchExact, Switching
    <3>2. CASE x = "switch3"
      <4>1. PICK l : l = loc[p]
        OBVIOUS
      <4>2. Switching(at[p], l) /\ l.back = "switch3"
        BY <1>1, <1>5, <3>2, <4>1 DEF Switching
      <4>3. SwitchOk("flush", l, m, sb.free[t], errors, bitmap)
        BY <1>1, <1>2, <1>4, <1>9, <4>1 DEF DataInv, SwitchExact
      <4>4. l.cluster \in ClusterNos /\ m.cluster # -1
        BY <4>2, <4>3 DEF SwitchOk, Switching
      <4>5. l.cluster # m.cluster
        <5>1. BitmapOf(t, l.cluster) \in BitmapBlocks
          BY <4>4 DEF BitmapBlocks
        <5>2. held[BitmapOf(t, l.cluster)] = p
          BY <1>2, <1>9, <4>1, <4>2, <5>1 DEF DataInv, HeldExact
        <5>3. QED BY <1>6, <2>1, <5>2, Geometry
      <4>6. SwitchOk("switch3", l, m, sb.free[t], errors, bitmap')
        BY <1>2, <2>5, <4>1, <4>4, <4>5 DEF SwitchOk, Switching
      <4>7. QED BY <1>2, <1>4, <1>6, <1>8, <3>2, <4>1, <4>6 DEF SwitchExact
    <3>3. QED BY <3>1, <3>2
  <2>13. ASSUME NEW q \in Users PROVE SwitchExact(q)'
    <3>1. CASE q # p
      <4>1. at'[q] = at[q] /\ loc'[q] = loc[q]
        BY <1>8, <3>1 DEF Alone
      <4>2. SwitchExact(q)
        BY <1>9 DEF DataInv
      <4>3. QED BY <1>6, <2>11, <4>1, <4>2 DEF SwitchExact
    <3>2. QED BY <2>12, <3>1
  <2>14. QED BY <2>6, <2>8, <2>9, <2>10, <2>13 DEF DataInv
<1>10. QED BY <1>6, <1>8, <1>9

\* A step of the one that has the lock of type t, which gives or takes resources of that type, and lets the lock go.
CopySet == [cluster : ClusterNos \cup {-1}, count : Int, bitmap : SUBSET Int]

Hands(p, t, m, U, f) ==
  /\ HasLock(p, t) /\ Alone(p) /\ ~Switching(at[p], loc[p]) /\ at'[p] = "idle" /\ loc'[p].op = "none"
  /\ m \in CopySet /\ U \in SUBSET Int
  /\ mpt_copy' = [mpt_copy EXCEPT ![t] = m] /\ used' = [used EXCEPT ![t] = U]
  /\ sb'.free = [sb.free EXCEPT ![t] = f] /\ UNCHANGED <<bitmap, held, errors>>
  /\ CopyExact(t)' /\ GotApart'
  /\ \A r \in loc'[p].got : r \in Types \X Int /\ r[2] \in used'[r[1]] /\ r[2] \in All(r[1])
  /\ \A q \in Users \ {p} : \A r \in loc[q].got : r[1] = t => r[2] \in U

LEMMA HandStep ==
  ASSUME LockInv, DataInv, NEW p \in Users, NEW t \in Types, NEW m, NEW U, NEW f, Hands(p, t, m, U, f)
  PROVE  DataInv'
<1> USE DEF Hands
<1>1. /\ mpt_copy'[t] = m /\ used'[t] = U
      /\ \A u \in Types \ {t} : mpt_copy'[u] = mpt_copy[u] /\ used'[u] = used[u] /\ sb'.free[u] = sb.free[u]
  BY DEF DataInv, DataTypes, LockInv, LockTypes, SbSet
<1>2. DataTypes'
  BY DEF DataInv, DataTypes, CopySet
<1>3. HeldExact'
  BY HeldSame DEF DataInv, LockInv, Switching
<1>4. ASSUME NEW u \in Types PROVE CopyExact(u)'
  <2>1. CASE u # t
    BY <1>1, <2>1, CopyKept DEF DataInv
  <2>2. QED BY <2>1
<1>5. ASSUME NEW q \in Users PROVE OwnsGot(q)'
  <2>1. CASE q = p
    BY <2>1 DEF OwnsGot
  <2>2. CASE q # p
    <3>1. ASSUME NEW r \in loc[q].got, r \in Types \X Int, r[2] \in used[r[1]] PROVE r[2] \in used'[r[1]]
      BY <1>1, <2>2, <3>1
    <3>2. OwnsGot(q)
      BY DEF DataInv
    <3>3. QED BY <2>2, <3>1, <3>2, OwnsKept
  <2>3. QED BY <2>1, <2>2
<1>6. ASSUME NEW q \in Users PROVE SwitchExact(q)'
  <2>1. CASE q = p
    BY <2>1, SwitchFar DEF SwitchExact, Switching
  <2>2. CASE q # p
    BY <1>1, <2>2, SwitchOthers
  <2>3. QED BY <2>1, <2>2
<1>7. QED BY <1>2, <1>3, <1>4, <1>5, <1>6 DEF DataInv

LEMMA TakeLock ==
  ASSUME LockInv, NEW p \in Users, Take(p), NEW t \in Types, t = loc[p].type,
         NEW n, n = Number(t, mpt_copy[t].cluster, Min(mpt_copy[t].bitmap)), NEW f, f = sb.free[t] - 1
  PROVE  /\ LockInv' /\ Alone(p) /\ at[p] = "alloc" /\ at'[p] = "idle" /\ loc'[p].op = "none" /\ HasLock(p, t)
         /\ loc'[p].got = loc[p].got \cup {<<t, n>>} /\ sb'.free = [sb.free EXCEPT ![t] = f]
<1>1. /\ at[p] = "alloc" /\ waits[p] = "none" /\ LocOf(loc[p]) /\ loc[p].op \in AllocFree /\ sb.free[t] \in Int
  BY HereNow DEF Take, UserPlaced, AllocFree, LockTypes, SbSet
<1>2. PICK g : g = loc[p].got \cup {<<t, n>>}
  OBVIOUS
<1>3. PICK m : m = [Idle EXCEPT !.got = g]
  OBVIOUS
<1>4. LocOf(m) /\ m.op = "none" /\ m.got = g
  <2>1. \A r \in g : r[1] \in Types
    BY <1>1, <1>2 DEF LocOf
  <2>2. QED BY <1>3, <2>1, IdleVars
<1>5. sb_unlock(t, f) /\ at' = [at EXCEPT ![p] = "idle"] /\ loc' = [loc EXCEPT ![p] = m]
  BY <1>2, <1>3 DEF Take, Set, Jump
<1>6. f \in Int /\ at[p] \in LockPlaces
  BY <1>1 DEF LockPlaces
<1>7. LetsGo(p, t, f, m)
  BY <1>1, <1>5, <1>6 DEF LetsGo
<1>8. /\ LockInv' /\ Alone(p) /\ at'[p] = "idle" /\ loc'[p] = m /\ sb'.free = [sb.free EXCEPT ![t] = f]
  BY <1>4, <1>6, <1>7, UnlockStep
<1>9. QED BY <1>1, <1>2, <1>4, <1>6, <1>8 DEF HasLock

LEMMA TakeData ==
  ASSUME LockInv, NEW p \in Users, Take(p)
  PROVE  LockInv' /\ (DataInv => DataInv')
<1>1. PICK t \in Types : t = loc[p].type
  BY HereNow DEF Take
<1>2. PICK m : m = mpt_copy[t]
  OBVIOUS
<1>3. PICK k : k = Min(m.bitmap)
  OBVIOUS
<1>4. PICK n : n = Number(t, m.cluster, k)
  OBVIOUS
<1>5. PICK f : f = sb.free[t] - 1
  OBVIOUS
<1>6. /\ LockInv' /\ Alone(p) /\ at[p] = "alloc" /\ at'[p] = "idle" /\ loc'[p].op = "none" /\ HasLock(p, t)
      /\ loc'[p].got = loc[p].got \cup {<<t, n>>} /\ sb'.free = [sb.free EXCEPT ![t] = f]
  BY <1>1, <1>2, <1>3, <1>4, <1>5, TakeLock
<1>7. PICK c : c = get_bitmap_resource(m)
  OBVIOUS
<1>8. PICK U : U = used[t] \cup {n}
  OBVIOUS
<1>9. /\ m.bitmap # {} /\ mpt_copy' = [mpt_copy EXCEPT ![t] = c] /\ used' = [used EXCEPT ![t] = U]
      /\ UNCHANGED <<bitmap, held, errors>>
  BY <1>1, <1>2, <1>3, <1>4, <1>7, <1>8 DEF Take
<1>10. ASSUME DataInv PROVE DataInv'
  <2>1. /\ m \in CopySet /\ used[t] \in SUBSET Int /\ CopyExact(t)
    BY <1>2, <1>10 DEF DataInv, DataTypes, CopySet
  <2>2. m.cluster \in ClusterNos /\ m.bitmap = FreeBits(t, m.cluster)
    BY <1>2, <1>9, <2>1 DEF CopyExact, CopySet, ShownBits
  <2>3. m.bitmap \subseteq Bits(t, m.cluster) /\ m.bitmap \subseteq Nat /\ IsFiniteSet(m.bitmap)
    BY <2>2, BitsAreNumbers, BitsAreFinite, FS_Subset DEF FreeBits
  <2>4. k \in m.bitmap
    <3>1. m.bitmap \in SUBSET Nat
      BY <2>3
    <3>2. QED BY <1>3, <1>9, <3>1, LowestOf
  <2>5. k \in Bits(t, m.cluster) /\ n \notin used[t]
    BY <1>4, <2>2, <2>4 DEF FreeBits
  <2>6. n \in All(t) /\ n \in Nat
    BY <1>4, <2>2, <2>5, NumberOfAll, NumberIsOne
  <2>7. c.cluster = m.cluster /\ c.bitmap = m.bitmap \ {k} /\ c.count = m.count - 1 /\ c \in CopySet
    <3>1. c = [cluster |-> m.cluster, count |-> m.count - 1, bitmap |-> m.bitmap \ {k}]
      BY <1>3, <1>7, <2>1 DEF get_bitmap_resource, CopySet
    <3>2. m.cluster \in ClusterNos \cup {-1} /\ m.count - 1 \in Int /\ m.bitmap \ {k} \in SUBSET Int
      BY <2>1 DEF CopySet
    <3>3. QED BY <3>1, <3>2 DEF CopySet
  <2>8. U \in SUBSET Int
    BY <1>8, <2>1, <2>6
  <2>9. /\ mpt_copy'[t] = c /\ used'[t] = U /\ sb'.free[t] = f /\ bitmap' = bitmap
    BY <1>6, <1>9, <1>10 DEF DataInv, DataTypes, LockInv, LockTypes, SbSet
  <2>10. CopyExact(t)'
    <3>1. ASSUME NEW e \in ClusterNos PROVE ShownBits(t, e)' = FreeBits(t, e)'
      <4>1. FreeBits(t, e) = ShownBits(t, e)
        BY <2>1 DEF CopyExact
      <4>2. FreeBits(t, e)' = {b \in Bits(t, e) : Number(t, e, b) \notin U}
        BY <2>9 DEF FreeBits
      <4>3. CASE e = m.cluster
        <5>1. \A b \in Bits(t, e) : Number(t, e, b) = n <=> b = k
          BY <1>4, <2>2, <2>5, <4>3, NumbersApart
        <5>2. ShownBits(t, e)' = FreeBits(t, e) \ {k}
          BY <2>2, <2>7, <2>9, <4>3 DEF ShownBits
        <5>3. QED BY <1>8, <4>2, <5>1, <5>2 DEF FreeBits
      <4>4. CASE e # m.cluster
        <5>1. \A b \in Bits(t, e) : Number(t, e, b) # n
          BY <1>4, <2>2, <2>5, <4>4, NumbersApart
        <5>2. ShownBits(t, e)' = FreeBits(t, e)
          BY <1>2, <2>7, <2>9, <4>1, <4>4 DEF ShownBits
        <5>3. QED BY <1>8, <4>2, <5>1, <5>2 DEF FreeBits
      <4>5. QED BY <4>3, <4>4
    <3>2. mpt_copy'[t].cluster # -1
      BY <2>2, <2>7, <2>9, Geometry
    <3>3. mpt_copy'[t].count = Cardinality(mpt_copy'[t].bitmap)
      <4>1. m.count = Cardinality(m.bitmap)
        BY <1>2, <2>1 DEF CopyExact
      <4>2. QED BY <2>3, <2>4, <2>7, <2>9, <4>1, FS_RemoveElement
    <3>4. sb'.free[t] = Cardinality(All(t) \ used'[t])
      <4>1. IsFiniteSet(All(t) \ used[t])
        BY AllIsFinite, FS_Subset
      <4>2. All(t) \ U = (All(t) \ used[t]) \ {n} /\ n \in All(t) \ used[t]
        BY <1>8, <2>5, <2>6
      <4>3. sb.free[t] = Cardinality(All(t) \ used[t])
        BY <2>1 DEF CopyExact
      <4>4. QED
        <5>1. PICK A : A = All(t) \ used[t]
          OBVIOUS
        <5>2. IsFiniteSet(A) /\ n \in A
          BY <4>1, <4>2, <5>1
        <5>3. Cardinality(A \ {n}) = Cardinality(A) - 1
          BY ONLY <5>2, FS_RemoveElement
        <5>4. QED BY <1>5, <2>9, <4>2, <4>3, <5>1, <5>3
    <3>5. QED BY <3>1, <3>2, <3>3, <3>4 DEF CopyExact
  <2>11. ASSUME NEW q \in Users, NEW r \in loc[q].got
         PROVE  r \in Types \X Int /\ r[2] \in used[r[1]] /\ r[2] \in All(r[1]) /\ (r[1] = t => r[2] \in U) /\ r # <<t, n>>
    <3>1. r \in Types \X Int /\ r[2] \in used[r[1]] /\ r[2] \in All(r[1])
      BY <1>10 DEF DataInv, OwnsGot
    <3>2. r = <<t, n>> => r[1] = t /\ r[2] = n
      OBVIOUS
    <3>3. QED BY <1>8, <2>5, <3>1, <3>2
  <2>12. GotApart'
    <3>1. GotApart /\ \A q \in Users \ {p} : loc'[q] = loc[q]
      BY <1>6, <1>10 DEF DataInv, Alone
    <3>2. QED BY <1>6, <2>11, <3>1 DEF GotApart
  <2>13. ASSUME NEW r \in loc'[p].got PROVE r \in Types \X Int /\ r[2] \in used'[r[1]] /\ r[2] \in All(r[1])
    <3>1. CASE r \in loc[p].got
      <4>1. used'[r[1]] = IF r[1] = t THEN U ELSE used[r[1]]
        BY <1>9, <1>10, <2>11, <3>1 DEF DataInv, DataTypes
      <4>2. QED BY <2>11, <3>1, <4>1
    <3>2. CASE r = <<t, n>>
      BY <1>8, <2>6, <2>9, <3>2
    <3>3. QED BY <1>6, <2>13, <3>1, <3>2
  <2>14. ~Switching(at[p], loc[p])
    BY <1>6 DEF Switching
  <2>15. \A q \in Users \ {p} : \A r \in loc[q].got : r[1] = t => r[2] \in U
    BY <2>11
  <2>16. /\ c \in CopySet /\ mpt_copy' = [mpt_copy EXCEPT ![t] = c] /\ U \in SUBSET Int
         /\ used' = [used EXCEPT ![t] = U] /\ sb'.free = [sb.free EXCEPT ![t] = f] /\ UNCHANGED <<bitmap, held, errors>>
    BY <1>6, <1>9, <2>7, <2>8
  <2>17. HasLock(p, t) /\ Alone(p) /\ at'[p] = "idle" /\ loc'[p].op = "none"
    BY <1>6
  <2>18. Hands(p, t, c, U, f)
    BY <2>10, <2>12, <2>13, <2>14, <2>15, <2>16, <2>17 DEF Hands
  <2>19. QED BY <1>10, <2>18, HandStep
<1>11. QED BY <1>6, <1>10

LEMMA FreeHereLock ==
  ASSUME LockInv, NEW p \in Users, FreeHere(p), NEW t \in Types, t = loc[p].type,
         NEW n, n = loc[p].n, NEW f, f = sb.free[t] + 1
  PROVE  /\ LockInv' /\ Alone(p) /\ at[p] = "free" /\ loc[p].op = "free" /\ at'[p] = "idle" /\ loc'[p].op = "none"
         /\ HasLock(p, t) /\ loc'[p].got = loc[p].got \ {<<t, n>>} /\ sb'.free = [sb.free EXCEPT ![t] = f]
<1>1. /\ at[p] = "free" /\ waits[p] = "none" /\ LocOf(loc[p]) /\ loc[p].op = "free" /\ sb.free[t] \in Int
  BY HereNow DEF FreeHere, UserPlaced, AllocFree, LockTypes, SbSet
<1>2. PICK g : g = loc[p].got \ {<<t, n>>}
  OBVIOUS
<1>3. PICK m : m = [Idle EXCEPT !.got = g]
  OBVIOUS
<1>4. LocOf(m) /\ m.op = "none" /\ m.got = g
  <2>1. \A r \in g : r[1] \in Types
    BY <1>1, <1>2 DEF LocOf
  <2>2. QED BY <1>3, <2>1, IdleVars
<1>5. sb_unlock(t, f) /\ at' = [at EXCEPT ![p] = "idle"] /\ loc' = [loc EXCEPT ![p] = m]
  BY <1>2, <1>3 DEF FreeHere, Set, Jump
<1>6. f \in Int /\ at[p] \in LockPlaces /\ loc[p].op \in AllocFree
  BY <1>1 DEF LockPlaces, AllocFree
<1>7. LetsGo(p, t, f, m)
  BY <1>1, <1>5, <1>6 DEF LetsGo
<1>8. /\ LockInv' /\ Alone(p) /\ at'[p] = "idle" /\ loc'[p] = m /\ sb'.free = [sb.free EXCEPT ![t] = f]
  BY <1>4, <1>6, <1>7, UnlockStep
<1>9. QED BY <1>1, <1>2, <1>4, <1>6, <1>8 DEF HasLock

LEMMA FreeHereData ==
  ASSUME LockInv, NEW p \in Users, FreeHere(p)
  PROVE  LockInv' /\ (DataInv => DataInv')
<1>1. PICK t \in Types : t = loc[p].type
  BY HereNow DEF FreeHere
<1>2. PICK m : m = mpt_copy[t]
  OBVIOUS
<1>3. PICK n : n = loc[p].n
  OBVIOUS
<1>4. PICK k : k = Bit(t, n)
  OBVIOUS
<1>5. PICK f : f = sb.free[t] + 1
  OBVIOUS
<1>6. /\ LockInv' /\ Alone(p) /\ at[p] = "free" /\ loc[p].op = "free" /\ at'[p] = "idle" /\ loc'[p].op = "none"
      /\ HasLock(p, t) /\ loc'[p].got = loc[p].got \ {<<t, n>>} /\ sb'.free = [sb.free EXCEPT ![t] = f]
  BY <1>1, <1>3, <1>5, FreeHereLock
<1>7. PICK c : c = release_bitmap_resource(m, k)
  OBVIOUS
<1>8. PICK U : U = used[t] \ {n}
  OBVIOUS
<1>9. /\ Cluster(t, n) = m.cluster /\ mpt_copy' = [mpt_copy EXCEPT ![t] = c] /\ used' = [used EXCEPT ![t] = U]
      /\ UNCHANGED <<bitmap, held, errors>>
  BY <1>1, <1>2, <1>3, <1>4, <1>7, <1>8 DEF FreeHere
<1>10. ASSUME DataInv PROVE DataInv'
  <2>1. /\ m \in CopySet /\ used[t] \in SUBSET Int /\ CopyExact(t)
    BY <1>2, <1>10 DEF DataInv, DataTypes, CopySet
  <2>2. <<t, n>> \in loc[p].got /\ n \in used[t] /\ n \in All(t)
    BY <1>1, <1>3, <1>6, <1>10 DEF DataInv, OwnsGot
  <2>3. m.cluster \in ClusterNos /\ k \in Bits(t, m.cluster) /\ n = Number(t, m.cluster, k)
    BY <1>4, <1>9, <2>2, NumberOfAll
  <2>4. m.bitmap = FreeBits(t, m.cluster)
    BY <1>2, <2>1, <2>3 DEF CopyExact, ShownBits
  <2>5. m.bitmap \subseteq Bits(t, m.cluster) /\ IsFiniteSet(m.bitmap) /\ k \notin m.bitmap /\ k \in Int
    BY <2>2, <2>3, <2>4, BitsAreNumbers, BitsAreFinite, FS_Subset DEF FreeBits
  <2>6. c.cluster = m.cluster /\ c.bitmap = m.bitmap \cup {k} /\ c.count = m.count + 1 /\ c \in CopySet
    <3>1. c = [cluster |-> m.cluster, count |-> m.count + 1, bitmap |-> m.bitmap \cup {k}]
      BY <1>7, <2>1 DEF release_bitmap_resource, CopySet
    <3>2. m.cluster \in ClusterNos \cup {-1} /\ m.count + 1 \in Int /\ m.bitmap \cup {k} \in SUBSET Int
      BY <2>1, <2>5 DEF CopySet
    <3>3. QED BY <3>1, <3>2 DEF CopySet
  <2>7. U \in SUBSET Int
    BY <1>8, <2>1
  <2>8. /\ mpt_copy'[t] = c /\ used'[t] = U /\ sb'.free[t] = f /\ bitmap' = bitmap
    BY <1>6, <1>9, <1>10 DEF DataInv, DataTypes, LockInv, LockTypes, SbSet
  <2>9. CopyExact(t)'
    <3>1. ASSUME NEW e \in ClusterNos PROVE ShownBits(t, e)' = FreeBits(t, e)'
      <4>1. FreeBits(t, e) = ShownBits(t, e)
        BY <2>1 DEF CopyExact
      <4>2. FreeBits(t, e)' = {b \in Bits(t, e) : Number(t, e, b) \notin U}
        BY <2>8 DEF FreeBits
      <4>3. CASE e = m.cluster
        <5>1. \A b \in Bits(t, e) : Number(t, e, b) = n <=> b = k
          BY <2>3, <4>3, NumbersApart
        <5>2. ShownBits(t, e)' = FreeBits(t, e) \cup {k}
          BY <2>4, <2>6, <2>8, <4>3 DEF ShownBits
        <5>3. QED BY <1>8, <2>3, <4>2, <4>3, <5>1, <5>2 DEF FreeBits
      <4>4. CASE e # m.cluster
        <5>1. \A b \in Bits(t, e) : Number(t, e, b) # n
          BY <2>3, <4>4, NumbersApart
        <5>2. ShownBits(t, e)' = FreeBits(t, e)
          BY <1>2, <2>6, <2>8, <4>1, <4>4 DEF ShownBits
        <5>3. QED BY <1>8, <4>2, <5>1, <5>2 DEF FreeBits
      <4>5. QED BY <4>3, <4>4
    <3>2. mpt_copy'[t].cluster # -1
      BY <2>3, <2>6, <2>8, Geometry
    <3>3. mpt_copy'[t].count = Cardinality(mpt_copy'[t].bitmap)
      <4>1. m.count = Cardinality(m.bitmap)
        BY <1>2, <2>1 DEF CopyExact
      <4>2. QED BY <2>5, <2>6, <2>8, <4>1, FS_AddElement
    <3>4. sb'.free[t] = Cardinality(All(t) \ used'[t])
      <4>1. IsFiniteSet(All(t) \ used[t])
        BY AllIsFinite, FS_Subset
      <4>2. All(t) \ U = (All(t) \ used[t]) \cup {n} /\ n \notin All(t) \ used[t]
        BY <1>8, <2>2
      <4>3. sb.free[t] = Cardinality(All(t) \ used[t])
        BY <2>1 DEF CopyExact
      <4>4. QED
        <5>1. Cardinality(All(t) \ U) = Cardinality(All(t) \ used[t]) + 1
          BY ONLY <4>1, <4>2, FS_AddElement
        <5>2. QED BY <1>5, <2>8, <4>3, <5>1
    <3>5. QED BY <3>1, <3>2, <3>3, <3>4 DEF CopyExact
  <2>10. GotApart'
    <3>1. loc'[p].got \subseteq loc[p].got
      BY <1>6
    <3>2. QED BY <1>6, <1>10, <3>1, TheirsKept DEF DataInv
  <2>11. ASSUME NEW q \in Users, NEW r \in loc[q].got
         PROVE  r \in Types \X Int /\ r[2] \in used[r[1]] /\ r[2] \in All(r[1])
    BY <1>10 DEF DataInv, OwnsGot
  <2>12. ASSUME NEW r \in loc'[p].got PROVE r \in Types \X Int /\ r[2] \in used'[r[1]] /\ r[2] \in All(r[1])
    <3>1. r \in loc[p].got /\ r # <<t, n>>
      BY <1>6, <2>12
    <3>2. r \in Types \X Int /\ r[2] \in used[r[1]] /\ r[2] \in All(r[1])
      BY <2>11, <3>1
    <3>3. r[1] = t => r[2] # n
      BY <3>1, <3>2
    <3>4. used'[r[1]] = IF r[1] = t THEN U ELSE used[r[1]]
      BY <1>9, <1>10, <3>2 DEF DataInv, DataTypes
    <3>5. QED BY <1>8, <3>2, <3>3, <3>4
  <2>13. ASSUME NEW q \in Users \ {p}, NEW r \in loc[q].got, r[1] = t PROVE r[2] \in U
    <3>1. r # <<t, n>>
      BY <1>10, <2>2, <2>13 DEF DataInv, GotApart
    <3>2. r \in Types \X Int /\ r[2] \in used[t]
      BY <2>11, <2>13
    <3>3. r[2] # n
      BY <2>13, <3>1, <3>2
    <3>4. QED BY <1>8, <3>2, <3>3
  <2>14. ~Switching(at[p], loc[p])
    BY <1>6 DEF Switching
  <2>15. /\ c \in CopySet /\ mpt_copy' = [mpt_copy EXCEPT ![t] = c] /\ U \in SUBSET Int
         /\ used' = [used EXCEPT ![t] = U] /\ sb'.free = [sb.free EXCEPT ![t] = f] /\ UNCHANGED <<bitmap, held, errors>>
    BY <1>6, <1>9, <2>6, <2>7
  <2>16. HasLock(p, t) /\ Alone(p) /\ at'[p] = "idle" /\ loc'[p].op = "none"
    BY <1>6
  <2>17. Hands(p, t, c, U, f)
    BY <2>9, <2>10, <2>12, <2>13, <2>14, <2>15, <2>16 DEF Hands
  <2>18. QED BY <1>10, <2>17, HandStep
<1>11. QED BY <1>6, <1>10

(***************************************************************************)
(* Inodes and blocks: all together.                                        *)
(***************************************************************************)
\* A flush writes to a bitmap block.
Flushing == \A p \in Users : at[p] = "flush" => loc[p].fblock \in BitmapBlocks

\* The locks always, the data until sync() has written a bitmap over another's.
ClInv == LockInv /\ (~mixed => DataInv /\ Flushing)

LEMMA FlushingKept ==
  ASSUME LockTypes, Flushing, NEW p \in Users, NEW x, at' = [at EXCEPT ![p] = x],
         \A q \in Users \ {p} : loc'[q] = loc[q], x = "flush" => loc'[p].fblock \in BitmapBlocks
  PROVE  Flushing'
<1>1. ASSUME NEW q \in Users, at'[q] = "flush" PROVE loc'[q].fblock \in BitmapBlocks
  <2>1. CASE q = p
    BY <1>1, <2>1 DEF LockTypes
  <2>2. CASE q # p
    BY <1>1, <2>2 DEF LockTypes, Flushing
  <2>3. QED BY <2>1, <2>2
<1>2. QED BY <1>1 DEF Flushing

LEMMA SetOthers ==
  ASSUME LockTypes, NEW p \in Users, NEW r, Set(p, r)
  PROVE  \A q \in Users \ {p} : loc'[q] = loc[q]
BY DEF Set, LockTypes

LEMMA NextOthers ==
  ASSUME LockTypes, NEW p \in Users, NextCluster(p)
  PROVE  \E x \in {"switch", "panic"} : at' = [at EXCEPT ![p] = x] /\ \A q \in Users \ {p} : loc'[q] = loc[q]
<1>1. PICK l : l = loc[p]
  OBVIOUS
<1>2. PICK last : last = IF l.wrapped THEN mpt_copy[l.type].cluster - 1 ELSE s_clusters - 1
  OBVIOUS
<1>3. CASE l.cluster < last
  <2>1. Jump(p, "switch") /\ Set(p, [l EXCEPT !.cluster = @ + 1])
    BY <1>1, <1>2, <1>3 DEF NextCluster
  <2>2. \A q \in Users \ {p} : loc'[q] = loc[q]
    BY <2>1, SetOthers
  <2>3. QED BY <2>1, <2>2 DEF Jump
<1>4. CASE ~(l.cluster < last) /\ ~l.wrapped /\ ~l.first /\ mpt_copy[l.type].cluster > 0
  <2>1. Jump(p, "switch") /\ Set(p, [l EXCEPT !.cluster = 0, !.wrapped = TRUE])
    BY <1>1, <1>2, <1>4 DEF NextCluster
  <2>2. \A q \in Users \ {p} : loc'[q] = loc[q]
    BY <2>1, SetOthers
  <2>3. QED BY <2>1, <2>2 DEF Jump
<1>5. CASE ~(l.cluster < last) /\ ~(~l.wrapped /\ ~l.first /\ mpt_copy[l.type].cluster > 0)
  <2>1. Jump(p, "panic") /\ loc' = loc
    BY <1>1, <1>2, <1>5 DEF NextCluster
  <2>2. QED BY <2>1 DEF Jump
<1>6. QED BY <1>3, <1>4, <1>5

\* The block that flush_cluster() computes is a bitmap block.
LEMMA BlockOfCopy ==
  ASSUME DataInv, NEW t \in Types, mpt_copy[t].cluster # -1
  PROVE  BitmapOf(t, mpt_copy[t].cluster) \in BitmapBlocks
<1>1. mpt_copy[t].cluster \in ClusterNos
  BY DEF DataInv, DataTypes
<1>2. QED BY <1>1 DEF BitmapBlocks

LEMMA SyncFlushing ==
  ASSUME LockInv, DataInv, Flushing, NEW p \in Users, NEW l, NEW t \in Types, NEW back, back # "flush",
         SyncFlush(p, l, t, back)
  PROVE  Flushing'
<1>1. LockTypes /\ LocOf(loc[p])
  BY HereNow DEF SyncFlush
<1>2. CASE mpt_copy[t].cluster = -1
  BY <1>1, <1>2, FlushingKept DEF SyncFlush, Jump
<1>3. CASE mpt_copy[t].cluster # -1
  <2>1. PICK f : f = BitmapOf(t, mpt_copy[t].cluster)
    OBVIOUS
  <2>2. PICK k : k = loc[p]
    OBVIOUS
  <2>3. PICK m : m = FlushedVars(k, t, f, back)
    OBVIOUS
  <2>4. at' = [at EXCEPT ![p] = "flush"] /\ Set(p, m)
    BY <1>3, <2>1, <2>2, <2>3 DEF SyncFlush, Jump, FlushedVars
  <2>5. \A q \in Users \ {p} : loc'[q] = loc[q]
    BY <1>1, <2>4, SetOthers
  <2>6. loc'[p] = m
    BY <1>1, <2>4 DEF Set, LockTypes
  <2>7. m.fblock = f
    BY <1>1, <2>2, <2>3 DEF FlushedVars, LocOf, LocFields
  <2>8. f \in BitmapBlocks
    BY <1>3, <2>1, BlockOfCopy
  <2>9. QED BY <1>1, <2>4, <2>5, <2>6, <2>7, <2>8, FlushingKept
<1>4. QED BY <1>2, <1>3

LEMMA SwitchFlushing ==
  ASSUME LockInv, DataInv, Flushing, NEW p \in Users, SwitchFlush(p)
  PROVE  Flushing'
<1>1. LockTypes /\ LocOf(loc[p])
  BY HereNow DEF SwitchFlush
<1>2. PICK k : k = loc[p]
  OBVIOUS
<1>3. PICK t \in Types : t = k.type
  BY <1>1, <1>2 DEF LocOf
<1>4. PICK c : c = mpt_copy[t].cluster
  OBVIOUS
<1>5. PICK f : f = IF c = -1 THEN 0 ELSE BitmapOf(t, c)
  OBVIOUS
<1>6. PICK m : m = BackedVars(k, f)
  OBVIOUS
<1>7. PICK x : x = IF c = -1 THEN "switch3" ELSE "flush"
  OBVIOUS
<1>8. at' = [at EXCEPT ![p] = x] /\ Set(p, m)
  BY <1>2, <1>3, <1>4, <1>5, <1>6, <1>7 DEF SwitchFlush, Jump, BackedVars
<1>9. \A q \in Users \ {p} : loc'[q] = loc[q]
  BY <1>1, <1>8, SetOthers
<1>10. loc'[p] = m
  BY <1>1, <1>8 DEF Set, LockTypes
<1>11. m.fblock = f
  BY <1>1, <1>2, <1>6 DEF BackedVars, LocOf, LocFields
<1>12. c # -1 => f \in BitmapBlocks
  BY <1>4, <1>5, BlockOfCopy
<1>13. x = "flush" => loc'[p].fblock \in BitmapBlocks
  BY <1>7, <1>10, <1>11, <1>12
<1>14. QED BY <1>1, <1>8, <1>9, <1>13, FlushingKept

\* A step of p that is no call.
LEMMA StepFlushing ==
  ASSUME LockInv, DataInv, Flushing, NEW p \in Users, allocator(p) \/ SyncStep(p)
  PROVE  Flushing'
<1>1. LockTypes /\ LocOf(loc[p])
  BY DEF LockInv, LockTypes
<1>2. CASE LockWait(p) \/ UpdateWait(p)
  BY <1>2 DEF LockWait, UpdateWait, Flushing
<1>3. CASE LockTaken(p) \/ NoneFree(p) \/ SwitchRead(p) \/ Switched(p) \/ Flush(p) \/ UpdateLock(p) \/ Updated(p)
  <2>1. \E x : x # "flush" /\ at' = [at EXCEPT ![p] = x] /\ loc' = loc
    <3>1. loc[p].back # "flush" /\ loc[p].op # "flush"
      BY <1>1 DEF LocOf
    <3>2. QED BY <1>3, <3>1 DEF LockTaken, NoneFree, SwitchRead, Switched, Flush, UpdateLock, Updated, Jump
  <2>2. PICK x : x # "flush" /\ at' = [at EXCEPT ![p] = x] /\ loc' = loc
    BY <2>1
  <2>3. QED BY <1>1, <2>2, FlushingKept
<1>4. CASE Search(p) \/ Take(p) \/ FreeElsewhere(p) \/ FreeHere(p) \/ SyncEnd(p)
  <2>1. \E x \in {"switch", "idle"} : \E r : at' = [at EXCEPT ![p] = x] /\ Set(p, r)
    <3>1. CASE Search(p)
      BY <3>1 DEF Search, Jump
    <3>2. CASE Take(p)
      BY <3>2 DEF Take, Jump
    <3>3. CASE FreeElsewhere(p)
      BY <3>3 DEF FreeElsewhere, Jump
    <3>4. CASE FreeHere(p)
      BY <3>4 DEF FreeHere, Jump
    <3>5. CASE SyncEnd(p)
      BY <3>5 DEF SyncEnd, Jump
    <3>6. QED BY <1>4, <3>1, <3>2, <3>3, <3>4, <3>5
  <2>2. PICK x \in {"switch", "idle"} : \E r : at' = [at EXCEPT ![p] = x] /\ Set(p, r)
    BY <2>1
  <2>3. PICK r : at' = [at EXCEPT ![p] = x] /\ Set(p, r)
    BY <2>2
  <2>4. \A q \in Users \ {p} : loc'[q] = loc[q]
    BY <1>1, <2>3, SetOthers
  <2>5. QED BY <1>1, <2>3, <2>4, FlushingKept
<1>5. CASE SwitchError(p) \/ SwitchFull(p)
  <2>1. \E x \in {"switch", "panic"} : at' = [at EXCEPT ![p] = x] /\ \A q \in Users \ {p} : loc'[q] = loc[q]
    <3>1. CASE NextCluster(p)
      BY <1>1, <3>1, NextOthers
    <3>2. CASE ~NextCluster(p)
      BY <1>5, <3>2 DEF SwitchError, SwitchFull, Jump
    <3>3. QED BY <3>1, <3>2
  <2>2. PICK x \in {"switch", "panic"} : at' = [at EXCEPT ![p] = x] /\ \A q \in Users \ {p} : loc'[q] = loc[q]
    BY <2>1
  <2>3. QED BY <1>1, <2>2, FlushingKept
<1>6. CASE SwitchFlush(p)
  BY <1>6, SwitchFlushing
<1>7. CASE SyncFlush(p, "sync_inodes", INODES, "sync_blocks")
  BY <1>7, SyncFlushing DEF Types
<1>8. CASE SyncFlush(p, "sync_blocks", BLOCKS, "synced")
  BY <1>8, SyncFlushing DEF Types
<1>9. QED BY <1>2, <1>3, <1>4, <1>5, <1>6, <1>7, <1>8 DEF allocator, SyncStep

\* i_alloc(), b_alloc(), i_free() and b_free() are called.
LEMMA CallStep ==
  ASSUME ClInv, NEW p \in Users, NEW o \in AllocFree, NEW t \in Types, NEW n, Call(p, o, t, n),
         o = "free" => <<t, n>> \in loc[p].got
  PROVE  ClInv'
<1>1. LockInv /\ LockInv' /\ mixed' = mixed /\ LockTypes
  BY CallLock DEF ClInv, Call, LockInv
<1>2. ASSUME ~mixed' PROVE DataInv' /\ Flushing'
  <2>1. DataInv /\ Flushing
    BY <1>1, <1>2 DEF ClInv
  <2>2. DataInv'
    BY <1>1, <2>1, CallData
  <2>3. PICK r : Set(p, r)
    BY DEF Call
  <2>4. \A q \in Users \ {p} : loc'[q] = loc[q]
    BY <1>1, <2>3, SetOthers
  <2>5. at' = [at EXCEPT ![p] = "lock"]
    BY DEF Call, Jump
  <2>6. QED BY <1>1, <2>1, <2>2, <2>4, <2>5, FlushingKept
<1>3. QED BY <1>1, <1>2 DEF ClInv

LEMMA ClStutter ==
  ASSUME ClInv, UNCHANGED <<sb, mpt_copy, bitmap, held, sync_mutex, waits, at, loc, used, errors, mixed>>
  PROVE  ClInv'
<1>1. LockInv'
  BY DEF ClInv, LockInv, LockTypes, UserPlaced, LocksApart, HasLock, WaitsSeen
<1>2. ASSUME DataInv PROVE DataInv'
  <2>1. DataTypes' /\ HeldExact' /\ GotApart'
    BY <1>2 DEF DataInv, DataTypes, HeldExact, GotApart
  <2>2. \A t \in Types : CopyExact(t)'
    BY <1>2 DEF DataInv, CopyExact, ShownBits, FreeBits
  <2>3. \A p \in Users : OwnsGot(p)'
    BY <1>2 DEF DataInv, OwnsGot
  <2>4. \A p \in Users : SwitchExact(p)'
    BY <1>2 DEF DataInv, SwitchExact
  <2>5. QED BY <2>1, <2>2, <2>3, <2>4 DEF DataInv
<1>3. Flushing => Flushing'
  BY DEF Flushing
<1>4. QED BY <1>1, <1>2, <1>3 DEF ClInv

\* sync() is called, or nothing happens.
LEMMA SyncCallStep ==
  ASSUME ClInv, NEW p \in Users, SyncCall(p)
  PROVE  ClInv'
<1>1. CASE sync_mutex # 0
  <2>1. LockInv /\ LockInv' /\ mixed' = mixed /\ LockTypes
    BY <1>1, SyncCallLock DEF ClInv, SyncCall, LockInv
  <2>2. ASSUME ~mixed' PROVE DataInv' /\ Flushing'
    <3>1. DataInv /\ Flushing
      BY <2>1, <2>2 DEF ClInv
    <3>2. DataInv'
      BY <1>1, <2>1, <3>1, SyncData
    <3>3. PICK r : Set(p, r)
      BY <1>1 DEF SyncCall
    <3>4. \A q \in Users \ {p} : loc'[q] = loc[q]
      BY <2>1, <3>3, SetOthers
    <3>5. at' = [at EXCEPT ![p] = "update"]
      BY <1>1 DEF SyncCall, Jump
    <3>6. QED BY <2>1, <3>1, <3>2, <3>4, <3>5, FlushingKept
  <2>3. QED BY <2>1, <2>2 DEF ClInv
<1>2. CASE sync_mutex = 0
  BY <1>2, ClStutter DEF SyncCall
<1>3. QED BY <1>1, <1>2

\* The steps of the calls.
LEMMA InnerSteps ==
  ASSUME ClInv, NEW p \in Users, allocator(p) \/ SyncStep(p)
  PROVE  ClInv'
<1>1. LockInv
  BY DEF ClInv
<1>2. LockInv' /\ (~mixed' => ~mixed) /\ (DataInv /\ ~mixed' => DataInv')
  <2>1. CASE LockWait(p) \/ LockTaken(p)
    BY <1>1, <2>1, WaitLock, TakenLock, LockData DEF LockWait, LockTaken
  <2>2. CASE NoneFree(p)
    BY <1>1, <2>2, NoneFreeData DEF NoneFree
  <2>3. CASE Search(p)
    BY <1>1, <2>3, SearchLock, SearchData DEF Search
  <2>4. CASE Take(p)
    BY <1>1, <2>4, TakeData DEF Take
  <2>5. CASE FreeElsewhere(p)
    BY <1>1, <2>5, ElsewhereLock, ElsewhereData DEF FreeElsewhere
  <2>6. CASE FreeHere(p)
    BY <1>1, <2>6, FreeHereData DEF FreeHere
  <2>7. CASE SwitchRead(p)
    BY <1>1, <2>7, ReadData DEF SwitchRead
  <2>8. CASE SwitchError(p)
    BY <1>1, <2>8, ErrorData DEF SwitchError
  <2>9. CASE SwitchFull(p)
    BY <1>1, <2>9, FullData DEF SwitchFull
  <2>10. CASE SwitchFlush(p)
    BY <1>1, <2>10, SwitchFlushData DEF SwitchFlush
  <2>11. CASE Switched(p)
    BY <1>1, <2>11, SwitchedData DEF Switched
  <2>12. CASE Flush(p)
    BY <1>1, <2>12, FlushData
  <2>13. CASE UpdateWait(p) \/ UpdateLock(p) \/ Updated(p) \/ SyncEnd(p)
    <3>1. mixed' = mixed
      BY <2>13 DEF UpdateWait, UpdateLock, Updated, SyncEnd
    <3>2. LockInv'
      BY <1>1, <2>13, UpdateWaitLock, UpdateLockLock, UpdatedLock, SyncEndLock
    <3>3. QED BY <1>1, <2>13, <3>1, <3>2, SyncData
  <2>14. CASE SyncFlush(p, "sync_inodes", INODES, "sync_blocks")
    <3>1. mixed' = mixed /\ INODES \in Types
      BY <2>14 DEF SyncFlush, Types
    <3>2. LockInv'
      BY <1>1, <2>14, <3>1, SyncFlushLock
    <3>3. QED BY <1>1, <2>14, <3>1, <3>2, SyncData
  <2>15. CASE SyncFlush(p, "sync_blocks", BLOCKS, "synced")
    <3>1. mixed' = mixed /\ BLOCKS \in Types
      BY <2>15 DEF SyncFlush, Types
    <3>2. LockInv'
      BY <1>1, <2>15, <3>1, SyncFlushLock
    <3>3. QED BY <1>1, <2>15, <3>1, <3>2, SyncData
  <2>16. QED
    BY <2>1, <2>2, <2>3, <2>4, <2>5, <2>6, <2>7, <2>8, <2>9, <2>10, <2>11, <2>12, <2>13, <2>14, <2>15
       DEF allocator, SyncStep
<1>3. QED BY <1>1, <1>2, StepFlushing DEF ClInv

LEMMA ClStep ==
  ASSUME ClInv, [ClNext]_clVars
  PROVE  ClInv'
<1>1. CASE UNCHANGED clVars
  BY <1>1, ClStutter DEF clVars
<1>2. ASSUME NEW p \in Users, NEW t \in Types, alloc(p, t) PROVE ClInv'
  BY <1>2, CallStep DEF alloc, AllocFree
<1>3. ASSUME NEW p \in Users, free(p) PROVE ClInv'
  <2>1. PICK r \in loc[p].got : Call(p, "free", r[1], r[2])
    BY <1>3 DEF free
  <2>2. LocOf(loc[p]) /\ r[1] \in Types /\ mixed' = mixed
    BY <2>1 DEF ClInv, LockInv, LockTypes, LocOf, Call
  <2>3. CASE mixed
    BY <2>1, <2>2, <2>3, CallLock DEF ClInv, AllocFree
  <2>4. CASE ~mixed
    <3>1. r \in Types \X Int
      BY <2>4 DEF ClInv, DataInv, OwnsGot
    <3>2. <<r[1], r[2]>> \in loc[p].got
      BY <3>1
    <3>3. QED BY <2>1, <2>2, <3>2, CallStep DEF AllocFree
  <2>5. QED BY <2>3, <2>4
<1>4. QED BY <1>1, <1>2, <1>3, SyncCallStep, InnerSteps DEF ClNext

\* The file system is mounted.
LEMMA ClStart ==
  ASSUME NEW taken \in [Types -> SUBSET Int], ClInit(taken)
  PROVE  ClInv
<1>1. /\ used = taken /\ mpt_copy = [t \in Types |-> NoCopy] /\ errors = 0
      /\ waits = [p \in Users |-> "none"] /\ at = [p \in Users |-> "idle"] /\ loc = [p \in Users |-> Idle]
      /\ sb = [lock |-> [t \in Types |-> FALSE], demand |-> [t \in Types |-> FALSE],
               free |-> [t \in Types |-> Cardinality(All(t) \ taken[t])], dropped |-> FALSE]
  BY DEF ClInit
<1>2. LocOf(Idle) /\ Idle.got = {} /\ Idle.op = "none"
  BY DEF Idle, LocOf, LocFields, Types
<1>3. ASSUME NEW t \in Types PROVE Cardinality(All(t) \ taken[t]) \in Int
  <2>1. IsFiniteSet(All(t) \ taken[t])
    BY AllIsFinite, FS_Subset
  <2>2. QED BY <2>1, FS_CardinalityType
<1>4. LockTypes
  <2>1. sb \in SbSet
    BY <1>1, <1>3 DEF SbSet
  <2>2. QED BY <1>1, <1>2, <2>1 DEF LockTypes, ClPlaces
<1>5. LockInv
  <2>1. \A p \in Users : UserPlaced(p)
    BY <1>1, <1>2 DEF UserPlaced, AllocFree
  <2>2. \A p \in Users, t \in Types : ~HasLock(p, t)
    BY <1>1 DEF HasLock, LockPlaces
  <2>3. WaitsSeen
    BY <1>1 DEF WaitsSeen, Channel
  <2>4. QED BY <1>4, <2>1, <2>2, <2>3 DEF LockInv, LocksApart
<1>6. DOMAIN bitmap = BitmapBlocks /\ held = [b \in BitmapBlocks |-> 0]
  BY DEF ClInit, BitmapBlocks
<1>7. bitmap = [b \in BitmapBlocks |-> bitmap[b]]
  BY DEF ClInit, BitmapBlocks
<1>8. ASSUME NEW t \in Types, NEW c \in ClusterNos PROVE bitmap[BitmapOf(t, c)] = FreeBits(t, c)
  <2>1. PICK b : b = BitmapOf(t, c)
    OBVIOUS
  <2>2. b \in {BitmapOf(u, e) : u \in Types, e \in ClusterNos}
    BY <2>1
  <2>3. (b - HEAD) % s_bpcluster = t /\ ClusterOf(b) = c
    <3>1. c \in Int
      BY Geometry
    <3>2. QED BY <2>1, <3>1, BitmapIsOne
  <2>4. bitmap[b] = {k \in Bits(t, c) : Number(t, c, k) \notin taken[t]}
    BY <2>2, <2>3 DEF ClInit
  <2>5. QED BY <1>1, <2>1, <2>4 DEF FreeBits
<1>9. bitmap \in [BitmapBlocks -> SUBSET Int]
  <2>1. ASSUME NEW b \in BitmapBlocks PROVE bitmap[b] \in SUBSET Int
    <3>1. PICK t \in Types, c \in ClusterNos : b = BitmapOf(t, c)
      BY DEF BitmapBlocks
    <3>2. bitmap[b] \subseteq Bits(t, c) /\ Bits(t, c) \subseteq Nat
      BY <1>8, <3>1, BitsAreNumbers DEF FreeBits
    <3>3. QED BY <3>2
  <2>2. QED BY <1>7, <2>1
<1>10. DataTypes
  <2>1. NoCopy \in [cluster : ClusterNos \cup {-1}, count : Int, bitmap : SUBSET Int]
    BY DEF NoCopy
  <2>2. held \in [BitmapBlocks -> Users \cup {0}]
    BY <1>6
  <2>3. QED BY <1>1, <1>9, <2>1, <2>2 DEF DataTypes
<1>11. ASSUME NEW t \in Types PROVE CopyExact(t)
  <2>1. mpt_copy[t].cluster = -1 /\ mpt_copy[t].count = 0 /\ mpt_copy[t].bitmap = {}
    BY <1>1 DEF NoCopy
  <2>2. \A c \in ClusterNos : c # -1
    BY Geometry
  <2>3. sb.free[t] = Cardinality(All(t) \ used[t])
    BY <1>1
  <2>4. QED BY <1>8, <2>1, <2>2, <2>3, FS_EmptySet DEF CopyExact, ShownBits
<1>12. HeldExact
  BY <1>1, <1>6, Geometry DEF HeldExact, Switching
<1>13. GotApart
  BY <1>1, <1>2 DEF GotApart
<1>14. ASSUME NEW p \in Users PROVE OwnsGot(p) /\ SwitchExact(p)
  <2>1. at[p] \notin {"switch", "panic"} /\ ~Switching(at[p], loc[p])
    BY <1>1 DEF Switching
  <2>2. SwitchExact(p)
    BY <2>1, SwitchFar DEF SwitchExact
  <2>3. QED BY <1>1, <1>2, <2>2 DEF OwnsGot
<1>15. Flushing
  BY <1>1 DEF Flushing
<1>16. QED BY <1>5, <1>10, <1>11, <1>12, <1>13, <1>14, <1>15 DEF ClInv, DataInv

\* What the copy and the bitmaps show is what has no owner.
LEMMA ShownIsFree ==
  ASSUME NEW t \in Types, CopyExact(t), mpt_copy[t].cluster \in ClusterNos \cup {-1}
  PROVE  ShownFree(t) = All(t) \ used[t]
<1>1. ASSUME NEW n, n \in ShownFree(t) PROVE n \in All(t) \ used[t]
  <2>1. PICK c \in ClusterNos : \E b \in ShownBits(t, c) : n = Number(t, c, b)
    <3>1. CASE \E c \in {mpt_copy[t].cluster} \ {-1}, b \in mpt_copy[t].bitmap : n = Number(t, c, b)
      BY <3>1 DEF ShownBits
    <3>2. CASE \E c \in ClusterNos \ {mpt_copy[t].cluster} : \E b \in bitmap[BitmapOf(t, c)] : n = Number(t, c, b)
      BY <3>2 DEF ShownBits
    <3>3. QED BY <1>1, <3>1, <3>2 DEF ShownFree
  <2>2. PICK b \in FreeBits(t, c) : n = Number(t, c, b)
    BY <2>1 DEF CopyExact
  <2>3. QED BY <2>2, NumberOfAll DEF FreeBits
<1>2. ASSUME NEW n, n \in All(t) \ used[t] PROVE n \in ShownFree(t)
  <2>1. PICK c \in ClusterNos : \E b \in Bits(t, c) : n = Number(t, c, b)
    BY <1>2 DEF All
  <2>2. PICK b \in Bits(t, c) : n = Number(t, c, b)
    BY <2>1
  <2>3. b \in ShownBits(t, c)
    BY <1>2, <2>2 DEF CopyExact, FreeBits
  <2>4. CASE c = mpt_copy[t].cluster
    <3>1. c \in {mpt_copy[t].cluster} \ {-1} /\ b \in mpt_copy[t].bitmap
      BY <2>3, <2>4, Geometry DEF ShownBits
    <3>2. QED BY <2>2, <3>1 DEF ShownFree
  <2>5. CASE c # mpt_copy[t].cluster
    <3>1. c \in ClusterNos \ {mpt_copy[t].cluster} /\ b \in bitmap[BitmapOf(t, c)]
      BY <2>3, <2>5 DEF ShownBits
    <3>2. QED BY <2>2, <3>1 DEF ShownFree
  <2>6. QED BY <2>4, <2>5
<1>3. QED BY <1>1, <1>2

\* No one panics, or waits for its own buffer.
LEMMA NoneStops ==
  ASSUME LockInv, DataInv, Flushing, errors = 0, NEW p \in Users
  PROVE  ~Stops(p)
<1>1. PICK l : l = loc[p]
  OBVIOUS
<1>2. PICK t \in Types : t = l.type
  BY <1>1 DEF LockInv, LockTypes, LocOf
<1>3. PICK m : m = mpt_copy[t]
  OBVIOUS
<1>4. SwitchOk(at[p], l, m, sb.free[t], errors, bitmap)
  BY <1>1, <1>2, <1>3 DEF DataInv, SwitchExact
<1>5. at[p] # "panic"
  BY <1>4 DEF SwitchOk
<1>6. ASSUME at[p] = "flush", held[l.fblock] = p PROVE FALSE
  <2>1. l.fblock \in BitmapBlocks
    BY <1>1, <1>6 DEF Flushing
  <2>2. Switching(at[p], l) /\ l.fblock = BitmapOf(t, l.cluster)
    BY <1>1, <1>2, <1>6, <2>1 DEF DataInv, HeldExact
  <2>3. l.back = "switch3"
    BY <1>6, <2>2 DEF Switching
  <2>4. l.cluster \in ClusterNos /\ l.cluster # m.cluster /\ m.cluster # -1 /\ l.fblock = BitmapOf(t, m.cluster)
    BY <1>2, <1>4, <1>6, <2>2, <2>3 DEF SwitchOk
  <2>5. l.cluster \in Int /\ m.cluster \in Int
    BY <1>3, <2>4, Geometry DEF DataInv, DataTypes
  <2>6. QED BY <2>2, <2>4, <2>5, BitmapsApart
<1>7. QED BY <1>1, <1>5, <1>6 DEF Stops

LEMMA ClSound ==
  ASSUME ClInv
  PROVE  AllocationSound
<1>1. ASSUME ~mixed, NEW t \in Types
      PROVE  /\ ShownFree(t) = All(t) \ used[t]
             /\ mpt_copy[t].count = Cardinality(mpt_copy[t].bitmap)
             /\ sb.free[t] = Cardinality(All(t) \ used[t])
  <2>1. CopyExact(t) /\ mpt_copy[t].cluster \in ClusterNos \cup {-1}
    BY <1>1 DEF ClInv, DataInv, DataTypes
  <2>2. QED BY <2>1, ShownIsFree DEF CopyExact
<1>2. ASSUME ~mixed, errors = 0, NEW p \in Users PROVE ~Stops(p)
  BY <1>2, NoneStops DEF ClInv
<1>3. FreeExact
  BY <1>1, <1>2 DEF FreeExact
<1>4. LocksHandedOn
  BY DEF ClInv, LockInv, WaitsSeen, LocksHandedOn
<1>5. QED BY <1>3, <1>4 DEF AllocationSound

\* i_alloc(), b_alloc(), i_free() and b_free() over search_cluster() and switch_cluster() (fs/inode.c, fs/block.c,
\* fs/cluster.c): whatever the calls, the processes and the file system, each inode and block is free or has one
\* owner, the counts agree with the bits, none of those calls panics or waits for a buffer that it holds, as long
\* as sync() has not written a bitmap over another's; and no one sleeps for a lock that no one has.
THEOREM AllocationAlwaysSound ==
  ASSUME NEW taken \in [Types -> SUBSET Int]
  PROVE  ClSpec(taken) => []AllocationSound
<1>1. ClInit(taken) => ClInv
  BY ClStart
<1>2. ClInv /\ [ClNext]_clVars => ClInv'
  BY ClStep
<1>3. ClInv => AllocationSound
  BY ClSound
<1>4. QED BY <1>1, <1>2, <1>3, PTL DEF ClSpec
=============================================================================
