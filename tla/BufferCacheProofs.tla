-------------------------- MODULE BufferCacheProofs --------------------------
(***************************************************************************)
(* The buffer cache is sound for any number of processes, buffers, blocks  *)
(* and devices: every block in one buffer, every buffer in one place,      *)
(* every sleeper to be woken; and without disk errors what is in a buffer  *)
(* is on the disk before the buffer is used for another block, so that the *)
(* cache is a store of blocks.                                             *)
(***************************************************************************)
EXTENDS BufferCache, Lists, FiniteSetTheorems, TLAPS

(***************************************************************************)
(* The invariant.                                                          *)
(***************************************************************************)
Labels == {"idle", "get", "mem", "read", "hold", "walk", "write", "unlock", "shrink", "sync", "synced"}
InCall   == {"get", "mem", "read", "hold"}
Flushing == {"walk", "write", "unlock"}

Calling(p) == pc[p] \in InCall \/ (pc[p] \in Flushing /\ arg[p].back \in {"get", "mem"})
Syncing(p) == pc[p] \in {"sync", "synced"} \/ (pc[p] \in Flushing /\ arg[p].back = "synced")

\* A process inside a call has what the call needs, and it runs while it walks the list.
FrameOK(p) ==
    /\ Calling(p) => arg[p].blk \in Blocks
    /\ Syncing(p) => arg[p].dev \in Devices
    /\ pc[p] \in {"read", "hold"} => arg[p].n \in Bufs /\ buf[arg[p].n].blk = arg[p].blk
    /\ IF pc[p] \in Flushing THEN arg[p].back # "" ELSE arg[p].req = <<>>
    /\ IsInjective(arg[p].req)
    /\ pc[p] \in {"walk", "unlock"} => cpu = p
    /\ pc[p] = "walk" /\ arg[p].next # 0 => arg[p].next \in Range(free)
    /\ \/ chan[p] = Awake
       \/ pc[p] = "get" /\ \A d \in Devices : chan[p] # OnMutex(d)
       \/ pc[p] = "sync" /\ chan[p] = OnMutex(arg[p].dev)

\* A buffer is in one place, and busy for a reason.
PlaceOK(n) ==
    /\ n \in Range(free) => n \notin Range(master)
    /\ n \in Range(free) \cup Range(master) \/ \E p \in Procs : Holds(p, n)
    /\ \A p, q \in Procs : Holds(p, n) => /\ n \notin Range(free) \cup Range(master)
                                          /\ Holds(q, n) => p = q
    /\ \A p, q \in Procs : Sends(p, n) => n \in Range(free) /\ (Sends(q, n) => p = q)
    /\ buf[n].busy <=> \E p \in Procs : Holds(p, n) \/ Sends(p, n)
    /\ buf[n].blk = NoBlock <=> n \in Range(master)
    /\ n \in Range(master) => ~buf[n].dirty
    /\ buf[n].dirty => buf[n].valid /\ \A p \in Procs : ~Sends(p, n)

\* A mutex is free, or one process has it.
MutexOK(d) ==
    \/ mutex[d] = 1 /\ \A p \in Procs : ~HasMutex(p, d)
    \/ mutex[d] = 0 /\ \E p \in Procs : HasMutex(p, d) /\ \A q \in Procs \ {p} : ~HasMutex(q, d)

CacheInv ==
    /\ TypeOK
    /\ \A p \in Procs : FrameOK(p)
    /\ IsInjective(free) /\ IsInjective(master)
    /\ \A n \in Bufs : PlaceOK(n)
    /\ UniqueBuffer
    /\ NoLostWakeup
    /\ \A d \in Devices : MutexOK(d)

(***************************************************************************)
(* Types.                                                                  *)
(***************************************************************************)
LEMMA TypeNow ==
  ASSUME TypeOK
  PROVE  /\ cpu \in Procs \union {Nobody} /\ pc \in [Procs -> Labels]
         /\ chan \in [Procs -> Channels] /\ arg \in [Procs -> Frames] /\ buf \in [Bufs -> Buffers]
         /\ free \in Seq(Bufs) /\ master \in Seq(Bufs) /\ disk \in [Blocks -> Values]
         /\ memory \in [pages : BOOLEAN, own : BOOLEAN] /\ mutex \in [Devices -> Nat] /\ freed \subseteq Blocks
BY DEF TypeOK, Labels

LEMMA TypeNext ==
  ASSUME cpu' \in Procs \union {Nobody}, pc' \in [Procs -> Labels],
         chan' \in [Procs -> Channels], arg' \in [Procs -> Frames], buf' \in [Bufs -> Buffers],
         free' \in Seq(Bufs), master' \in Seq(Bufs), disk' \in [Blocks -> Values],
         memory' \in [pages : BOOLEAN, own : BOOLEAN], mutex' \in [Devices -> Nat], freed' \subseteq Blocks
  PROVE  TypeOK'
BY DEF TypeOK, Labels

\* Sleep addresses differ.
LEMMA ChannelsDiffer ==
  /\ OnAny \in Channels /\ Awake \in Channels /\ OnAny # Awake
  /\ \A n \in Bufs : /\ OnBuffer(n) \in Channels /\ OnBuffer(n) \notin {OnAny, Awake}
                      /\ \A m \in Bufs : OnBuffer(m) = OnBuffer(n) => m = n
                      /\ \A d \in Devices : OnBuffer(n) # OnMutex(d)
  /\ \A d \in Devices : /\ OnMutex(d) \in Channels /\ OnMutex(d) \notin {OnAny, Awake}
                         /\ \A e \in Devices : OnMutex(e) = OnMutex(d) => d = e
BY DEF Channels, OnAny, Awake, OnBuffer, OnMutex

LEMMA DevicesAreNumbers ==
  /\ \A b \in Blocks : b[1] \in Devices
  /\ AnyDevice \notin Devices
BY BufferCacheAssumption DEF Devices, AnyDevice

LEMMA NoFrameTyped == NoFrame \in Frames /\ NoFrame.req = <<>> /\ IsInjective(NoFrame.req)
<1>1. IsInjective(<<>>)
  BY DEF IsInjective
<1>2. <<>> \in Seq(Bufs) /\ 0 \in 0..NBuf
  BY BufferCacheAssumption
<1>3. QED BY <1>1, <1>2 DEF NoFrame, Frames

(***************************************************************************)
(* The free list.                                                          *)
(***************************************************************************)
LEMMA UnlistedFacts ==
  ASSUME free \in Seq(Bufs), IsInjective(free), NEW n \in Range(free)
  PROVE  /\ Unlisted(n) \in Seq(Bufs) /\ IsInjective(Unlisted(n)) /\ Range(Unlisted(n)) = Range(free) \ {n}
<1>1. Place(n) \in DOMAIN free /\ free[Place(n)] = n
  BY DEF Place, Range
<1>2. QED BY <1>1, ListWithoutPlace DEF Unlisted

LEMMA AfterFacts ==
  ASSUME free \in Seq(Bufs), IsInjective(free), NEW n \in Range(free)
  PROVE  After(n) \in 0..NBuf /\ (After(n) # 0 => After(n) \in Range(free) \ {n})
<1>1. Place(n) \in DOMAIN free /\ free[Place(n)] = n
  BY DEF Place, Range
<1>2. DOMAIN free = 1..Len(free) /\ Len(free) \in Nat /\ \A i \in DOMAIN free : free[i] \in Bufs
  OBVIOUS
<1>3. CASE Place(n) = Len(free)
  BY <1>3, BufferCacheAssumption DEF After
<1>4. CASE Place(n) # Len(free)
  <2>1. Place(n) + 1 \in DOMAIN free /\ Place(n) + 1 # Place(n)
    BY <1>1, <1>2, <1>4
  <2>2. After(n) = free[Place(n) + 1]
    BY <1>4 DEF After
  <2>3. After(n) \in Range(free) /\ After(n) \in 1..NBuf
    <3>1. free[Place(n) + 1] \in Bufs
      BY <1>2, <2>1
    <3>2. QED BY <2>1, <2>2, <3>1 DEF Range, Bufs
  <2>4. After(n) # n
    BY <1>1, <2>1, <2>2 DEF IsInjective
  <2>5. QED BY <2>3, <2>4
<1>5. QED BY <1>3, <1>4

LEMMA FirstFacts ==
  ASSUME free \in Seq(Bufs)
  PROVE  First \in 0..NBuf /\ (First # 0 => First \in Range(free))
<1>1. CASE free = <<>>
  BY <1>1, BufferCacheAssumption DEF First
<1>2. CASE free # <<>>
  <2>1. 1 \in DOMAIN free /\ Head(free) = free[1] /\ free[1] \in Bufs
    BY <1>2
  <2>2. First = free[1] /\ 0..NBuf = Bufs \cup {0}
    BY <1>2, <2>1, BufferCacheAssumption DEF First, Bufs
  <2>3. QED BY <2>1, <2>2 DEF Range
<1>3. QED BY <1>1, <1>2

(***************************************************************************)
(* What does not change.                                                   *)
(***************************************************************************)
LEMMA PlaceKept ==
  ASSUME NEW n \in Bufs, PlaceOK(n),
         n \in Range(free') <=> n \in Range(free), n \in Range(master') <=> n \in Range(master),
         \A q \in Procs : (Holds(q, n)' <=> Holds(q, n)) /\ (Sends(q, n)' <=> Sends(q, n)),
         buf'[n].busy = buf[n].busy, buf'[n].blk = buf[n].blk,
         buf'[n].dirty => buf[n].dirty /\ buf'[n].valid
  PROVE  PlaceOK(n)'
BY DEF PlaceOK

LEMMA MutexKept ==
  ASSUME NEW d \in Devices, MutexOK(d), mutex'[d] = mutex[d],
         \A q \in Procs : HasMutex(q, d)' <=> HasMutex(q, d)
  PROVE  MutexOK(d)'
BY DEF MutexOK

\* Who does not run stays as it is, but may be woken.
LEMMA OtherFrame ==
  ASSUME NEW p \in Procs, cpu \in {Nobody, p}, NEW q \in Procs \ {p}, FrameOK(q),
         pc'[q] = pc[q], arg'[q] = arg[q], chan'[q] \in {Awake, chan[q]},
         pc[q] \in {"read", "hold"} => buf'[arg[q].n].blk = buf[arg[q].n].blk
  PROVE  FrameOK(q)'
<1>1. pc[q] \notin {"walk", "unlock"}
  BY BufferCacheAssumption DEF FrameOK
<1>2. QED BY <1>1 DEF FrameOK, Calling, Syncing

LEMMA OtherHas ==
  ASSUME NEW q \in Procs, pc'[q] = pc[q], arg'[q] = arg[q]
  PROVE  /\ \A n : Holds(q, n)' <=> Holds(q, n)
         /\ \A n : Sends(q, n)' <=> Sends(q, n)
         /\ \A d : (chan'[q] = OnMutex(d) <=> chan[q] = OnMutex(d)) => (HasMutex(q, d)' <=> HasMutex(q, d))
BY DEF Holds, Sends, HasMutex

(***************************************************************************)
(* A process goes on, or to sleep, with its buffers.                       *)
(***************************************************************************)
\* p takes a step, and nobody else does.
Turn(p) ==
    /\ At(p, pc[p]) /\ cpu' \in {p, Nobody}
    /\ pc' \in [Procs -> Labels] /\ arg' \in [Procs -> Frames]
    /\ \A q \in Procs \ {p} : pc'[q] = pc[q] /\ arg'[q] = arg[q]

\* The buffers stay where they are.
BufsKept ==
    /\ buf' \in [Bufs -> Buffers]
    /\ \A n \in Bufs : /\ buf'[n].busy = buf[n].busy /\ buf'[n].blk = buf[n].blk
                       /\ buf'[n].demand = buf[n].demand \/ buf'[n].demand
                       /\ buf'[n].dirty => buf[n].dirty /\ buf'[n].valid
    /\ UNCHANGED <<free, master, mutex, freed>>
    /\ disk' \in [Blocks -> Values] /\ memory' \in [pages : BOOLEAN, own : BOOLEAN]

\* p keeps the buffers and the mutex it has.
Keeps(p) ==
    /\ arg'[p].req = arg[p].req
    /\ pc'[p] \in {"read", "hold"} <=> pc[p] \in {"read", "hold"}
    /\ pc'[p] \in {"read", "hold"} => arg'[p].n = arg[p].n
    /\ \A d \in Devices : HasMutex(p, d)' <=> HasMutex(p, d)

\* If p sleeps, somebody is going to wake it.
Sleeps(p) ==
    /\ chan' \in [Procs -> Channels] /\ \A q \in Procs \ {p} : chan'[q] = chan[q]
    /\ \A n \in Bufs : chan'[p] = OnBuffer(n) => buf[n].busy /\ buf'[n].demand
    /\ chan'[p] = OnAny => free = <<>> /\ master = <<>>
    /\ \A d \in Devices : chan'[p] # OnMutex(d)

LEMMA Moves ==
  ASSUME CacheInv, NEW p \in Procs, Turn(p), BufsKept, Keeps(p), Sleeps(p), FrameOK(p)'
  PROVE  CacheInv'
<1>1. /\ TypeOK /\ \A q \in Procs : FrameOK(q)
      /\ IsInjective(free) /\ IsInjective(master) /\ UniqueBuffer /\ NoLostWakeup
      /\ \A n \in Bufs : PlaceOK(n)
      /\ \A d \in Devices : MutexOK(d)
  BY DEF CacheInv
<1>2. /\ cpu \in {Nobody, p} /\ chan[p] = Awake
      /\ \A q \in Procs \ {p} : pc'[q] = pc[q] /\ arg'[q] = arg[q] /\ chan'[q] = chan[q]
  BY DEF At, Turn, Sleeps
<1>3. TypeOK'
  <2>1. /\ cpu' \in Procs \union {Nobody} /\ pc' \in [Procs -> Labels]
        /\ chan' \in [Procs -> Channels] /\ arg' \in [Procs -> Frames]
    BY <1>1, TypeNow DEF Turn, Sleeps
  <2>2. QED BY <1>1, <2>1, TypeNow, TypeNext DEF BufsKept
<1>4. ASSUME NEW q \in Procs PROVE FrameOK(q)'
  <2>1. CASE q = p
    BY <2>1
  <2>2. CASE q # p
    <3>1. pc[q] \in {"read", "hold"} => arg[q].n \in Bufs
      BY <1>1 DEF FrameOK
    <3>2. QED BY <1>1, <1>2, <2>2, <3>1, OtherFrame DEF BufsKept
  <2>3. QED BY <2>1, <2>2
<1>5. ASSUME NEW q \in Procs PROVE \A n \in Bufs : (Holds(q, n)' <=> Holds(q, n)) /\ (Sends(q, n)' <=> Sends(q, n))
  <2>1. CASE q = p
    BY <2>1 DEF Holds, Sends, Keeps
  <2>2. CASE q # p
    BY <1>2, <2>2, OtherHas
  <2>3. QED BY <2>1, <2>2
<1>6. \A n \in Bufs : PlaceOK(n)'
  BY <1>1, <1>5, PlaceKept DEF BufsKept
<1>7. UniqueBuffer'
  BY <1>1 DEF UniqueBuffer, BufsKept
<1>8. NoLostWakeup'
  <2>1. ASSUME NEW q \in Procs
        PROVE  /\ \A n \in Bufs : chan'[q] = OnBuffer(n) => buf'[n].busy /\ buf'[n].demand
               /\ chan'[q] = OnAny => free' = <<>> /\ master' = <<>>
               /\ \A d \in Devices : chan'[q] = OnMutex(d) => mutex'[d] = 0
    <3>1. CASE q = p
      BY <3>1 DEF Sleeps, BufsKept
    <3>2. CASE q # p
      <4>1. /\ \A n \in Bufs : chan[q] = OnBuffer(n) => buf[n].busy /\ buf[n].demand
            /\ chan[q] = OnAny => free = <<>> /\ master = <<>>
            /\ \A d \in Devices : chan[q] = OnMutex(d) => mutex[d] = 0
        BY <1>1 DEF NoLostWakeup
      <4>2. chan'[q] = chan[q]
        BY <1>2, <3>2
      <4>3. QED BY <4>1, <4>2 DEF BufsKept
    <3>3. QED BY <3>1, <3>2
  <2>2. QED BY <2>1 DEF NoLostWakeup, OnBuffer, OnAny, OnMutex
<1>9. \A d \in Devices : MutexOK(d)'
  <2>1. ASSUME NEW d \in Devices, NEW q \in Procs PROVE HasMutex(q, d)' <=> HasMutex(q, d)
    BY <1>2, OtherHas DEF Keeps
  <2>2. QED BY <1>1, <2>1, MutexKept DEF BufsKept
<1>10. QED BY <1>1, <1>3, <1>4, <1>6, <1>7, <1>8, <1>9 DEF CacheInv, BufsKept


LEMMA Turns ==
  ASSUME CacheInv, NEW p \in Procs, NEW l0, At(p, l0), cpu' \in {p, Nobody},
         NEW l \in Labels, pc' = [pc EXCEPT ![p] = l],
         NEW f \in Frames, arg' = [arg EXCEPT ![p] = f]
  PROVE  /\ Turn(p) /\ pc[p] = l0 /\ pc'[p] = l /\ arg'[p] = f
         /\ FrameOK(p) /\ TypeOK /\ arg[p] \in Frames /\ chan[p] = Awake
         /\ l0 \notin Flushing => arg[p].req = <<>>
BY TypeNow DEF Turn, At, CacheInv, FrameOK

LEMMA Unmoved ==
  ASSUME CacheInv, UNCHANGED <<buf, free, master, mutex, freed, memory>>, disk' \in [Blocks -> Values]
  PROVE  BufsKept
BY TypeNow DEF BufsKept, CacheInv, PlaceOK

LEMMA StaysAwake ==
  ASSUME CacheInv, NEW p \in Procs, chan' = chan, chan[p] = Awake
  PROVE  Sleeps(p)
BY TypeNow, ChannelsDiffer DEF Sleeps, CacheInv

\* The same when nothing happens to the buffers.
LEMMA Goes ==
  ASSUME CacheInv, NEW p \in Procs, Turn(p), Keeps(p), FrameOK(p)',
         UNCHANGED <<chan, cacheVars>>
  PROVE  CacheInv'
<1>1. BufsKept
  BY Unmoved, TypeNow DEF cacheVars, CacheInv
<1>2. Sleeps(p)
  BY StaysAwake DEF Turn, At
<1>3. QED BY <1>1, <1>2, Moves

\* A process calls, or goes from one loop of buf_get() to the other.
LEMMA CallStep ==
  ASSUME CacheInv, NEW p \in Procs, NEW b \in Blocks, NEW fill \in BOOLEAN, Call(p, b, fill)
  PROVE  CacheInv'
<1> DEFINE f == [NoFrame EXCEPT !.blk = b, !.fill = fill]
<1>1. /\ At(p, "idle") /\ pc' = [pc EXCEPT ![p] = "get"] /\ cpu' = p
      /\ arg' = [arg EXCEPT ![p] = f] /\ UNCHANGED <<chan, cacheVars>>
  BY DEF Call, Runs
<1>2. f \in Frames /\ f.req = <<>> /\ f.blk = b /\ "get" \in Labels
  BY NoFrameTyped DEF Frames, Labels
<1> HIDE DEF f
<1>3. /\ Turn(p) /\ pc[p] = "idle" /\ pc'[p] = "get" /\ arg'[p] = f /\ chan[p] = Awake
      /\ "idle" \notin Flushing => arg[p].req = <<>>
  BY ONLY <1>1, <1>2, Turns, CacheInv
<1>4. FrameOK(p)'
  BY <1>1, <1>2, <1>3, NoFrameTyped DEF FrameOK, Calling, Syncing, Flushing, InCall
<1>5. Keeps(p)
  BY <1>2, <1>3 DEF HasMutex, Keeps, Flushing
<1>6. QED BY <1>1, <1>3, <1>4, <1>5, Goes

LEMMA PostponedStep ==
  ASSUME CacheInv, NEW p \in Procs, NEW l1 \in {"get", "mem"}, NEW l \in {"get", "mem"},
         At(p, l1), Runs(p, l), UNCHANGED <<chan, arg, cacheVars>>
  PROVE  CacheInv'
<1>1. arg' = [arg EXCEPT ![p] = arg[p]] /\ arg[p] \in Frames /\ l \in Labels
  BY TypeNow DEF CacheInv, Labels
<1>2. pc' = [pc EXCEPT ![p] = l] /\ cpu' = p
  BY DEF Runs
<1>3. /\ Turn(p) /\ pc[p] = l1 /\ pc'[p] = l /\ chan[p] = Awake /\ arg[p].req = <<>> /\ FrameOK(p)
  <2>1. cpu' \in {p, Nobody} /\ l1 \notin Flushing
    BY <1>2 DEF Flushing
  <2>2. QED BY ONLY <1>1, <1>2, <2>1, Turns, CacheInv, At(p, l1)
<1>4. FrameOK(p)'
  BY <1>3 DEF FrameOK, Calling, Syncing, Flushing, InCall
<1>5. Keeps(p)
  BY <1>3 DEF HasMutex, Keeps
<1>6. QED BY <1>3, <1>4, <1>5, Goes

\* A process sleeps in buf_get(): on a busy buffer, or when there is none.
LEMMA WaitStep ==
  ASSUME CacheInv, NEW p \in Procs, At(p, "get"), NEW n \in Bufs, WaitFor(p, n)
  PROVE  CacheInv'
<1>1. arg' = [arg EXCEPT ![p] = arg[p]] /\ pc' = [pc EXCEPT ![p] = "get"] /\ cpu' = Nobody /\ "get" \in Labels
  BY TypeNow DEF CacheInv, Labels, WaitFor, SleepsOn, At
<1>2. /\ Turn(p) /\ pc[p] = "get" /\ pc'[p] = "get" /\ arg'[p] = arg[p] /\ FrameOK(p) /\ TypeOK
  BY <1>1, Turns, TypeNow DEF CacheInv
<1>3. /\ buf[n].busy /\ buf' = [buf EXCEPT ![n].demand = TRUE]
      /\ chan' = [chan EXCEPT ![p] = OnBuffer(n)] /\ UNCHANGED <<free, master, disk, memory, mutex, freed>>
  BY DEF WaitFor, SleepsOn
<1>4. BufsKept /\ buf'[n].demand
  <2>1. buf' = [buf EXCEPT ![n] = [buf[n] EXCEPT !.demand = TRUE]] /\ [buf[n] EXCEPT !.demand = TRUE] \in Buffers
    BY <1>2, <1>3, TypeNow DEF Buffers
  <2>2. \A m \in Bufs : buf[m].dirty => buf[m].valid
    BY DEF CacheInv, PlaceOK
  <2>3. buf'[n].demand /\ buf' \in [Bufs -> Buffers]
    BY <1>2, <2>1, TypeNow DEF Buffers
  <2>4. ASSUME NEW m \in Bufs
        PROVE  /\ buf'[m].busy = buf[m].busy /\ buf'[m].blk = buf[m].blk
               /\ buf'[m].demand = buf[m].demand \/ buf'[m].demand
               /\ buf'[m].dirty => buf[m].dirty /\ buf'[m].valid
    BY <1>2, <2>1, <2>2, TypeNow DEF Buffers
  <2>5. QED BY <1>2, <1>3, <2>3, <2>4, TypeNow DEF BufsKept
<1>5. Sleeps(p) /\ chan'[p] = OnBuffer(n)
  BY <1>2, <1>3, <1>4, TypeNow, ChannelsDiffer DEF Sleeps
<1>6. FrameOK(p)'
  BY <1>2, <1>3, <1>5, ChannelsDiffer DEF FrameOK, Calling, Syncing, Flushing, InCall
<1>7. Keeps(p)
  BY <1>2 DEF HasMutex, Keeps
<1>8. QED BY <1>2, <1>4, <1>5, <1>6, <1>7, Moves

LEMMA NothingStep ==
  ASSUME CacheInv, NEW p \in Procs, GetNothing(p)
  PROVE  CacheInv'
<1>1. /\ arg' = [arg EXCEPT ![p] = arg[p]] /\ pc' = [pc EXCEPT ![p] = "get"] /\ cpu' = Nobody /\ "get" \in Labels
      /\ At(p, "get")
  BY TypeNow DEF CacheInv, Labels, GetNothing, Missed, SleepsOn, At, cacheVars
<1>2. /\ Turn(p) /\ pc[p] = "get" /\ pc'[p] = "get" /\ arg'[p] = arg[p] /\ FrameOK(p) /\ TypeOK
  BY <1>1, Turns, TypeNow DEF CacheInv
<1>3. free = <<>> /\ master = <<>> /\ chan' = [chan EXCEPT ![p] = OnAny] /\ UNCHANGED cacheVars
  BY DEF GetNothing, SleepsOn
<1>4. BufsKept
  BY <1>2, <1>3, Unmoved, TypeNow DEF cacheVars
<1>5. Sleeps(p) /\ chan'[p] = OnAny
  BY <1>2, <1>3, TypeNow, ChannelsDiffer DEF Sleeps
<1>6. FrameOK(p)'
  BY <1>2, <1>3, <1>5, ChannelsDiffer DEF FrameOK, Calling, Syncing, Flushing, InCall, cacheVars
<1>7. Keeps(p)
  BY <1>2 DEF HasMutex, Keeps
<1>8. QED BY <1>2, <1>4, <1>5, <1>6, <1>7, Moves

\* buf_flush() begins.
LEMMA WalkStep ==
  ASSUME CacheInv, NEW p \in Procs, NEW l \in {"get", "mem", "shrink", "sync"}, At(p, l),
         NEW dev \in Devices \union {AnyDevice}, NEW count \in Nat, NEW remove \in BOOLEAN,
         NEW back \in {"get", "mem", "shrink", "synced"}, Walk(p, dev, count, remove, back),
         back \in {"get", "mem"} => l \in {"get", "mem"},
         back = "synced" <=> l = "sync", l = "sync" => dev = arg[p].dev
  PROVE  CacheInv'
<1> DEFINE f == [arg[p] EXCEPT !.dev = dev, !.count = count, !.asked = count, !.remove = remove,
                               !.req = <<>>, !.back = back, !.next = First]
<1>1. /\ pc' = [pc EXCEPT ![p] = "walk"] /\ cpu' = p /\ arg' = [arg EXCEPT ![p] = f]
      /\ UNCHANGED <<chan, cacheVars>>
  BY DEF Walk, Runs
<1>2. First \in 0..NBuf /\ (First # 0 => First \in Range(free)) /\ TypeOK /\ arg[p] \in Frames
  BY FirstFacts, TypeNow DEF CacheInv
<1>3. /\ f \in Frames /\ f.req = <<>> /\ f.blk = arg[p].blk /\ f.dev = dev /\ f.back = back /\ f.next = First
      /\ "walk" \in Labels /\ IsInjective(f.req)
  BY <1>2, NoFrameTyped DEF Frames, Labels, NoFrame
<1> HIDE DEF f
<1>4. /\ Turn(p) /\ pc[p] = l /\ pc'[p] = "walk" /\ arg'[p] = f /\ chan[p] = Awake /\ FrameOK(p)
      /\ l \notin Flushing => arg[p].req = <<>>
  <2>1. cpu' \in {p, Nobody} /\ "walk" \in Labels /\ pc' = [pc EXCEPT ![p] = "walk"]
    BY <1>1, <1>3
  <2>2. f \in Frames /\ arg' = [arg EXCEPT ![p] = f]
    BY <1>1, <1>3
  <2>3. QED BY ONLY <2>1, <2>2, Turns, CacheInv, At(p, l)
<1>5. FrameOK(p)'
  BY <1>1, <1>2, <1>3, <1>4 DEF FrameOK, Calling, Syncing, Flushing, InCall, cacheVars
<1>6. Keeps(p)
  BY <1>1, <1>3, <1>4 DEF HasMutex, Keeps, Flushing
<1>7. QED BY <1>1, <1>4, <1>5, <1>6, Goes

\* buf_flush() passes over a buffer.
LEMMA SkipStep ==
  ASSUME CacheInv, NEW p \in Procs, WalkSkip(p)
  PROVE  CacheInv'
<1> DEFINE f == [arg[p] EXCEPT !.next = After(arg[p].next)]
<1>1. /\ At(p, "walk") /\ arg[p].next # 0 /\ TypeOK /\ FrameOK(p) /\ IsInjective(free) /\ pc[p] = "walk"
      /\ arg[p] \in Frames
  BY TypeNow DEF CacheInv, WalkSkip, Walking, At
<1>2. arg[p].next \in Range(free) /\ cpu = p
  BY <1>1 DEF FrameOK
<1>3. /\ pc' = [pc EXCEPT ![p] = "walk"] /\ cpu' = p /\ arg' = [arg EXCEPT ![p] = f]
      /\ UNCHANGED <<chan, cacheVars>>
  BY <1>1, <1>2, TypeNow DEF WalkSkip
<1>4. After(arg[p].next) \in 0..NBuf /\ (After(arg[p].next) # 0 => After(arg[p].next) \in Range(free))
  BY <1>1, <1>2, AfterFacts, TypeNow
<1>5. /\ f \in Frames /\ f.req = arg[p].req /\ f.blk = arg[p].blk /\ f.dev = arg[p].dev /\ f.back = arg[p].back
      /\ f.next = After(arg[p].next) /\ "walk" \in Labels
  BY <1>1, <1>4 DEF Frames, Labels
<1> HIDE DEF f
<1>6. Turn(p) /\ pc'[p] = "walk" /\ arg'[p] = f /\ chan[p] = Awake
  <2>1. At(p, "walk") /\ cpu' \in {p, Nobody} /\ "walk" \in Labels /\ pc' = [pc EXCEPT ![p] = "walk"]
    BY <1>1, <1>3, <1>5
  <2>2. f \in Frames /\ arg' = [arg EXCEPT ![p] = f]
    BY <1>3, <1>5
  <2>3. QED BY ONLY <2>1, <2>2, Turns, CacheInv
<1>7. FrameOK(p)'
  BY <1>1, <1>3, <1>4, <1>5, <1>6 DEF FrameOK, Calling, Syncing, Flushing, InCall, cacheVars
<1>8. Keeps(p)
  BY <1>1, <1>3, <1>5, <1>6 DEF HasMutex, Keeps
<1>9. QED BY <1>3, <1>6, <1>7, <1>8, Goes

\* The request is sent; when it is done, its buffers are unlocked.
LEMMA SendStep ==
  ASSUME CacheInv, NEW p \in Procs, WalkWrite(p)
  PROVE  CacheInv'
<1>1. /\ At(p, "walk") /\ arg' = [arg EXCEPT ![p] = arg[p]] /\ arg[p] \in Frames /\ "write" \in Labels
      /\ pc' = [pc EXCEPT ![p] = "write"] /\ cpu' = Nobody /\ UNCHANGED <<chan, cacheVars>>
  BY TypeNow DEF CacheInv, Labels, WalkWrite, Yields
<1>2. Turn(p) /\ pc[p] = "walk" /\ pc'[p] = "write" /\ arg'[p] = arg[p] /\ chan[p] = Awake /\ FrameOK(p)
  BY <1>1, Turns
<1>3. FrameOK(p)'
  BY <1>1, <1>2 DEF FrameOK, Calling, Syncing, Flushing, InCall
<1>4. Keeps(p)
  BY <1>1, <1>2 DEF HasMutex, Keeps
<1>5. QED BY <1>1, <1>2, <1>3, <1>4, Goes

LEMMA DoneStep ==
  ASSUME CacheInv, NEW p \in Procs, WriteDone(p)
  PROVE  CacheInv'
<1>1. /\ At(p, "write") /\ arg' = [arg EXCEPT ![p] = arg[p]] /\ arg[p] \in Frames /\ "unlock" \in Labels
      /\ pc' = [pc EXCEPT ![p] = "unlock"] /\ cpu' = p
      /\ UNCHANGED <<chan, arg, buf, free, master, memory, mutex, freed>>
  BY TypeNow DEF CacheInv, Labels, WriteDone, Runs
<1>2. Turn(p) /\ pc[p] = "write" /\ pc'[p] = "unlock" /\ arg'[p] = arg[p] /\ chan[p] = Awake /\ FrameOK(p)
  BY <1>1, Turns
<1>3. disk' \in [Blocks -> Values]
  <2>1. PICK k \in 0..Len(arg[p].req) :
          disk' = [b \in Blocks |-> IF \E i \in 1..k : buf[arg[p].req[i]].blk = b
                                    THEN buf[arg[p].req[CHOOSE i \in 1..k : buf[arg[p].req[i]].blk = b]].data
                                    ELSE disk[b]]
    BY DEF WriteDone
  <2>2. \A i \in 1..k : arg[p].req[i] \in Bufs
    <3>1. arg[p].req \in Seq(Bufs)
      BY <1>1 DEF Frames
    <3>2. k \in Nat /\ Len(arg[p].req) \in Nat /\ k <= Len(arg[p].req)
      BY <3>1
    <3>3. QED BY <3>1, <3>2
  <2>3. ASSUME NEW b \in Blocks PROVE disk'[b] \in Values
    <3>1. CASE \E i \in 1..k : buf[arg[p].req[i]].blk = b
      <4> DEFINE i == CHOOSE i \in 1..k : buf[arg[p].req[i]].blk = b
      <4>1. i \in 1..k /\ disk'[b] = buf[arg[p].req[i]].data
        BY <2>1, <3>1
      <4>2. arg[p].req[i] \in Bufs
        BY <2>2, <4>1
      <4>3. QED BY <4>1, <4>2, TypeNow DEF CacheInv, Buffers
    <3>2. CASE ~\E i \in 1..k : buf[arg[p].req[i]].blk = b
      BY <2>1, <3>2, TypeNow DEF CacheInv
    <3>3. QED BY <3>1, <3>2
  <2>4. disk' = [b \in Blocks |-> disk'[b]]
    BY <2>1
  <2>5. QED BY <2>3, <2>4
<1>4. BufsKept /\ Sleeps(p)
  BY <1>1, <1>2, <1>3, Unmoved, StaysAwake
<1>5. FrameOK(p)'
  BY <1>1, <1>2 DEF FrameOK, Calling, Syncing, Flushing, InCall
<1>6. Keeps(p)
  BY <1>1, <1>2 DEF HasMutex, Keeps
<1>7. QED BY <1>2, <1>4, <1>5, <1>6, Moves

LEMMA RestartStep ==
  ASSUME CacheInv, NEW p \in Procs, Restart(p)
  PROVE  CacheInv'
<1> DEFINE f == [arg[p] EXCEPT !.next = First]
<1>1. /\ At(p, "unlock") /\ pc' = [pc EXCEPT ![p] = "walk"] /\ cpu' = p /\ arg' = [arg EXCEPT ![p] = f]
      /\ arg[p] \in Frames /\ TypeOK /\ UNCHANGED <<chan, cacheVars>>
  BY TypeNow DEF Restart, CacheInv, Runs
<1>2. First \in 0..NBuf /\ (First # 0 => First \in Range(free))
  BY <1>1, FirstFacts, TypeNow
<1>3. /\ f \in Frames /\ f.req = arg[p].req /\ f.blk = arg[p].blk /\ f.dev = arg[p].dev /\ f.back = arg[p].back
      /\ f.next = First /\ "walk" \in Labels
  BY <1>1, <1>2 DEF Frames, Labels
<1> HIDE DEF f
<1>4. Turn(p) /\ pc[p] = "unlock" /\ pc'[p] = "walk" /\ arg'[p] = f /\ chan[p] = Awake /\ FrameOK(p)
  <2>1. At(p, "unlock") /\ cpu' \in {p, Nobody} /\ "walk" \in Labels /\ pc' = [pc EXCEPT ![p] = "walk"]
    BY <1>1, <1>3
  <2>2. f \in Frames /\ arg' = [arg EXCEPT ![p] = f]
    BY <1>1, <1>3
  <2>3. QED BY ONLY <2>1, <2>2, Turns, CacheInv
<1>5. FrameOK(p)'
  BY <1>1, <1>2, <1>3, <1>4 DEF FrameOK, Calling, Syncing, Flushing, InCall, cacheVars
<1>6. Keeps(p)
  BY <1>1, <1>3, <1>4 DEF HasMutex, Keeps
<1>7. QED BY <1>1, <1>4, <1>5, <1>6, Goes

\* buf_flush() returns.
LEMMA EndStep ==
  ASSUME CacheInv, NEW p \in Procs, WalkEnd(p)
  PROVE  CacheInv'
<1> DEFINE f == [NoFrame EXCEPT !.blk = arg[p].blk, !.fill = arg[p].fill, !.dev = arg[p].dev]
<1>1. /\ At(p, "walk") /\ arg[p].req = <<>> /\ arg' = [arg EXCEPT ![p] = f] /\ UNCHANGED <<chan, cacheVars>>
      /\ arg[p] \in Frames /\ FrameOK(p) /\ pc[p] = "walk"
  BY TypeNow DEF WalkEnd, CacheInv, At
<1>2. arg[p].back \in {"get", "mem", "shrink", "synced"}
  BY <1>1 DEF FrameOK, Frames, Flushing
<1>3. PICK l \in Labels : /\ pc' = [pc EXCEPT ![p] = l] /\ cpu' \in {p, Nobody}
                          /\ l = arg[p].back \/ (l = "idle" /\ arg[p].back = "shrink")
  BY <1>2 DEF WalkEnd, Runs, Yields, Labels
<1>4. f \in Frames /\ f.req = <<>> /\ f.blk = arg[p].blk /\ f.dev = arg[p].dev
  BY <1>1, NoFrameTyped DEF Frames
<1> HIDE DEF f
<1>5. Turn(p) /\ pc'[p] = l /\ arg'[p] = f /\ chan[p] = Awake
  BY ONLY <1>1, <1>3, <1>4, Turns, CacheInv
<1>6. FrameOK(p)'
  BY <1>1, <1>2, <1>3, <1>4, <1>5, NoFrameTyped DEF FrameOK, Calling, Syncing, Flushing, InCall
<1>7. Keeps(p)
  BY <1>1, <1>2, <1>3, <1>4, <1>5 DEF HasMutex, Keeps
<1>8. QED BY <1>1, <1>5, <1>6, <1>7, Goes

LEMMA ShrinkStep ==
  ASSUME CacheInv, NEW p \in Procs, NEW l \in {"idle", "shrink"}, NEW l1 \in {"idle", "shrink"}, At(p, l1),
         pc' = [pc EXCEPT ![p] = l], cpu' \in {p, Nobody}, UNCHANGED <<chan, arg, cacheVars>>
  PROVE  CacheInv'
<1>1. arg' = [arg EXCEPT ![p] = arg[p]] /\ arg[p] \in Frames /\ l \in Labels
  BY TypeNow DEF CacheInv, Labels
<1>2. /\ Turn(p) /\ pc[p] = l1 /\ pc'[p] = l /\ chan[p] = Awake /\ arg[p].req = <<>> /\ FrameOK(p)
  <2>1. l1 \notin Flushing
    BY DEF Flushing
  <2>2. QED BY ONLY <1>1, <2>1, Turns, CacheInv, At(p, l1), pc' = [pc EXCEPT ![p] = l], cpu' \in {p, Nobody}
<1>3. FrameOK(p)'
  BY <1>2 DEF FrameOK, Calling, Syncing, Flushing, InCall
<1>4. Keeps(p)
  BY <1>2 DEF HasMutex, Keeps
<1>5. QED BY <1>2, <1>3, <1>4, Goes

\* drv_read() has filled the buffer.
LEMMA ReadStep ==
  ASSUME CacheInv, NEW p \in Procs, At(p, "read"), Yields(p, "hold"), NEW v \in Values,
         buf' = [buf EXCEPT ![arg[p].n].data = v, ![arg[p].n].valid = TRUE],
         UNCHANGED <<chan, arg, free, master, disk, memory, mutex, freed>>
  PROVE  CacheInv'
<1>1. /\ arg' = [arg EXCEPT ![p] = arg[p]] /\ arg[p] \in Frames /\ "hold" \in Labels
      /\ pc' = [pc EXCEPT ![p] = "hold"] /\ cpu' = Nobody
  BY TypeNow DEF CacheInv, Labels, Yields
<1>2. /\ Turn(p) /\ pc[p] = "read" /\ pc'[p] = "hold" /\ chan[p] = Awake /\ FrameOK(p) /\ TypeOK /\ arg'[p] = arg[p]
  BY ONLY <1>1, Turns, CacheInv, At(p, "read")
<1> DEFINE n == arg[p].n
           c == [buf[n] EXCEPT !.data = v, !.valid = TRUE]
<1>3. n \in Bufs
  BY <1>2 DEF FrameOK
<1>4. buf' = [buf EXCEPT ![n] = c] /\ c \in Buffers /\ c.blk = buf[n].blk /\ c.busy = buf[n].busy
      /\ c.demand = buf[n].demand /\ c.dirty = buf[n].dirty /\ c.valid
  <2>1. buf[n] \in Buffers
    BY <1>2, <1>3, TypeNow
  <2>2. buf' = [buf EXCEPT ![n] = c]
    OBVIOUS
  <2>3. QED BY <2>1, <2>2 DEF Buffers
<1> HIDE DEF c, n
<1>5. BufsKept
  <2>1. buf' \in [Bufs -> Buffers]
    BY <1>2, <1>3, <1>4, TypeNow
  <2>2. ASSUME NEW m \in Bufs
        PROVE  /\ buf'[m].busy = buf[m].busy /\ buf'[m].blk = buf[m].blk
               /\ buf'[m].demand = buf[m].demand \/ buf'[m].demand
               /\ buf'[m].dirty => buf[m].dirty /\ buf'[m].valid
    <3>1. buf[m].dirty => buf[m].valid
      BY DEF CacheInv, PlaceOK
    <3>2. CASE m = n
      BY <1>2, <1>4, <3>2, TypeNow
    <3>3. CASE m # n
      BY <1>2, <1>4, <3>1, <3>3, TypeNow
    <3>4. QED BY <3>2, <3>3
  <2>3. QED BY <1>2, <2>1, <2>2, TypeNow DEF BufsKept
<1>6. Sleeps(p)
  BY <1>2, StaysAwake
<1>7. buf'[n].blk = buf[n].blk
  BY <1>3, <1>5 DEF BufsKept
<1>8. FrameOK(p)'
  BY <1>2, <1>7 DEF FrameOK, Calling, Syncing, Flushing, InCall, n
<1>9. Keeps(p)
  BY <1>2 DEF HasMutex, Keeps
<1>10. QED BY <1>2, <1>5, <1>6, <1>8, <1>9, Moves

(***************************************************************************)
(* A buffer changes hands.                                                 *)
(***************************************************************************)
\* Only buffer m, and what p has of it, changes.
Around(p, m) ==
    /\ \A n \in Bufs \ {m} : /\ buf'[n] = buf[n]
                             /\ n \in Range(free') <=> n \in Range(free)
                             /\ n \in Range(master') <=> n \in Range(master)
                             /\ Holds(p, n)' <=> Holds(p, n)
                             /\ Sends(p, n)' <=> Sends(p, n)
    /\ free' \in Seq(Bufs) /\ master' \in Seq(Bufs) /\ IsInjective(free') /\ IsInjective(master')
    /\ buf' \in [Bufs -> Buffers]
    /\ disk' = disk /\ mutex' = mutex /\ memory' \in [pages : BOOLEAN, own : BOOLEAN] /\ freed' \subseteq Blocks

\* Who sleeps on another buffer than m goes on to sleep, the others as long as they must.
Wakes(m) ==
    /\ chan' \in [Procs -> Channels] /\ \A q \in Procs : chan'[q] \in {Awake, chan[q]}
    /\ \A q \in Procs : \A d \in Devices : chan[q] = OnMutex(d) => chan'[q] = chan[q]
    /\ \A q \in Procs : chan'[q] = OnBuffer(m) => buf'[m].busy /\ buf'[m].demand
    /\ \A q \in Procs : chan'[q] = OnAny => free' = <<>> /\ master' = <<>>

LEMMA Changes ==
  ASSUME CacheInv, NEW p \in Procs, Turn(p), NEW m \in Bufs, Around(p, m), Wakes(m),
         PlaceOK(m)', FrameOK(p)',
         \A q \in Procs \ {p} : pc[q] \in {"read", "hold"} /\ arg[q].n = m => buf'[m].blk = buf[m].blk,
         \A n \in Bufs \ {m} : buf'[m].blk = buf[n].blk => buf[n].blk = NoBlock,
         \A d \in Devices : HasMutex(p, d)' <=> HasMutex(p, d)
  PROVE  CacheInv'
<1>1. /\ TypeOK /\ \A q \in Procs : FrameOK(q)
      /\ UniqueBuffer /\ NoLostWakeup
      /\ \A n \in Bufs : PlaceOK(n)
      /\ \A d \in Devices : MutexOK(d)
  BY DEF CacheInv
<1>2. /\ cpu \in {Nobody, p} /\ chan[p] = Awake
      /\ \A q \in Procs \ {p} : pc'[q] = pc[q] /\ arg'[q] = arg[q]
      /\ \A q \in Procs : \A d \in Devices : chan'[q] = OnMutex(d) <=> chan[q] = OnMutex(d)
  BY ChannelsDiffer DEF At, Turn, Wakes
<1>3. TypeOK'
  <2>1. /\ cpu' \in Procs \union {Nobody} /\ pc' \in [Procs -> Labels]
        /\ chan' \in [Procs -> Channels] /\ arg' \in [Procs -> Frames]
    BY <1>1, TypeNow DEF Turn, Wakes
  <2>2. QED BY <1>1, <2>1, TypeNow, TypeNext DEF Around
<1>4. ASSUME NEW q \in Procs PROVE FrameOK(q)'
  <2>1. CASE q = p
    BY <2>1
  <2>2. CASE q # p
    <3>1. pc[q] \in {"read", "hold"} => arg[q].n \in Bufs
      BY <1>1 DEF FrameOK
    <3>2. pc[q] \in {"read", "hold"} => buf'[arg[q].n].blk = buf[arg[q].n].blk
      BY <2>2, <3>1 DEF Around
    <3>3. chan'[q] \in {Awake, chan[q]}
      BY DEF Wakes
    <3>4. QED BY <1>1, <1>2, <2>2, <3>2, <3>3, OtherFrame
  <2>3. QED BY <2>1, <2>2
<1>5. \A n \in Bufs : PlaceOK(n)'
  <2>1. ASSUME NEW n \in Bufs, n # m PROVE PlaceOK(n)'
    <3>1. \A q \in Procs : (Holds(q, n)' <=> Holds(q, n)) /\ (Sends(q, n)' <=> Sends(q, n))
      BY <1>2, <2>1, OtherHas DEF Around
    <3>2. /\ buf'[n].busy = buf[n].busy /\ buf'[n].blk = buf[n].blk
          /\ buf'[n].dirty => buf[n].dirty /\ buf'[n].valid
      BY <1>1, <2>1 DEF Around, PlaceOK
    <3>3. QED BY <1>1, <2>1, <3>1, <3>2, PlaceKept DEF Around
  <2>2. QED BY <2>1
<1>6. UniqueBuffer'
  <2>1. ASSUME NEW n1 \in Bufs, NEW n2 \in Bufs, buf'[n1].blk = buf'[n2].blk, buf'[n1].blk # NoBlock PROVE n1 = n2
    BY <1>1, <2>1 DEF UniqueBuffer, Around
  <2>2. QED BY <2>1 DEF UniqueBuffer
<1>7. NoLostWakeup'
  <2>1. ASSUME NEW q \in Procs
        PROVE  /\ \A n \in Bufs : chan'[q] = OnBuffer(n) => buf'[n].busy /\ buf'[n].demand
               /\ chan'[q] = OnAny => free' = <<>> /\ master' = <<>>
               /\ \A d \in Devices : chan'[q] = OnMutex(d) => mutex'[d] = 0
    <3>1. /\ \A n \in Bufs : chan[q] = OnBuffer(n) => buf[n].busy /\ buf[n].demand
          /\ \A d \in Devices : chan[q] = OnMutex(d) => mutex[d] = 0
      BY <1>1 DEF NoLostWakeup
    <3>2. /\ chan'[q] \in {Awake, chan[q]} /\ mutex' = mutex
          /\ chan'[q] = OnBuffer(m) => buf'[m].busy /\ buf'[m].demand
          /\ chan'[q] = OnAny => free' = <<>> /\ master' = <<>>
      BY DEF Wakes, Around
    <3>3. ASSUME NEW n \in Bufs, chan'[q] = OnBuffer(n) PROVE buf'[n].busy /\ buf'[n].demand
      <4>1. CASE n = m
        BY <3>2, <3>3, <4>1
      <4>2. CASE n # m
        BY <3>1, <3>2, <3>3, <4>2, ChannelsDiffer DEF Around
      <4>3. QED BY <4>1, <4>2
    <3>4. QED BY <1>2, <3>1, <3>2, <3>3
  <2>2. QED BY <2>1 DEF NoLostWakeup, OnBuffer, OnAny, OnMutex
<1>8. \A d \in Devices : MutexOK(d)'
  <2>1. ASSUME NEW d \in Devices, NEW q \in Procs PROVE HasMutex(q, d)' <=> HasMutex(q, d)
    BY <1>2, OtherHas
  <2>2. QED BY <1>1, <2>1, MutexKept DEF Around
<1>9. IsInjective(free') /\ IsInjective(master')
  BY DEF Around
<1>10. QED BY <1>3, <1>4, <1>5, <1>6, <1>7, <1>8, <1>9 DEF CacheInv

\* buf_get() returns a buffer that was on a list.
LEMMA TakeStep ==
  ASSUME CacheInv, NEW p \in Procs, At(p, "get"), NEW n \in Bufs, ~buf[n].busy,
         free' \in Seq(Bufs), IsInjective(free'), Range(free') = Range(free) \ {n},
         master' \in Seq(Bufs), IsInjective(master'), Range(master') = Range(master) \ {n},
         memory' \in [pages : BOOLEAN, own : BOOLEAN],
         NEW c \in [Bufs -> Buffers], Return(p, n, c),
         \A m \in Bufs \ {n} : c[m] = buf[m] /\ buf[m].blk # arg[p].blk,
         c[n].busy, c[n].blk = arg[p].blk, c[n].demand = buf[n].demand, c[n].dirty => c[n].valid
  PROVE  CacheInv'
<1> DEFINE f == [arg[p] EXCEPT !.n = n]
<1>1. /\ TypeOK /\ PlaceOK(n) /\ NoLostWakeup /\ arg[p] \in Frames
      /\ disk' = disk /\ mutex' = mutex /\ chan' = chan /\ freed' \subseteq Blocks
  BY TypeNow DEF CacheInv, Return
<1>2. /\ f \in Frames /\ f.req = arg[p].req /\ f.n = n /\ f.blk = arg[p].blk /\ arg' = [arg EXCEPT ![p] = f]
  <2>1. n \in 0..NBuf
    BY BufferCacheAssumption DEF Bufs
  <2>2. f \in Frames /\ f.req = arg[p].req /\ f.n = n /\ f.blk = arg[p].blk
    BY <1>1, <2>1 DEF Frames
  <2>3. QED BY <2>2 DEF Return
<1>3. PICK l \in {"read", "hold"} : pc' = [pc EXCEPT ![p] = l] /\ cpu' = Nobody
  BY DEF Return, Yields
<1>4. l \in Labels /\ cpu' \in {p, Nobody}
  BY <1>3 DEF Labels
<1> HIDE DEF f
<1>5. /\ Turn(p) /\ pc[p] = "get" /\ pc'[p] = l /\ arg'[p] = f /\ chan[p] = Awake /\ FrameOK(p)
      /\ "get" \notin Flushing => arg[p].req = <<>>
  BY ONLY <1>2, <1>3, <1>4, Turns, CacheInv, At(p, "get")
<1>6. arg[p].req = <<>> /\ arg[p].blk \in Blocks /\ "get" \notin {"walk", "write", "unlock"}
  BY <1>5 DEF Flushing, FrameOK, Calling, InCall
<1>7. /\ buf' \in [Bufs -> Buffers] /\ \A m \in Bufs \ {n} : buf'[m] = buf[m]
      /\ buf'[n].busy /\ buf'[n].blk = arg[p].blk /\ (buf'[n].dirty => buf'[n].valid)
  <2>1. CASE buf' = c
    BY <2>1
  <2>2. CASE buf' = [c EXCEPT ![n].data = Zero, ![n].valid = TRUE]
    <3>1. /\ [c[n] EXCEPT !.data = Zero, !.valid = TRUE] \in Buffers
          /\ buf' = [c EXCEPT ![n] = [c[n] EXCEPT !.data = Zero, !.valid = TRUE]]
      <4>1. c[n] \in Buffers /\ Zero \in Values
        BY BufferCacheAssumption
      <4>2. buf' = [c EXCEPT ![n] = [c[n] EXCEPT !.data = Zero, !.valid = TRUE]]
        BY <2>2
      <4>3. QED BY <4>1, <4>2 DEF Buffers
    <3>2. QED BY <3>1 DEF Buffers
  <2>3. QED BY <2>1, <2>2 DEF Return
<1>8. /\ \A q \in Procs : ~Holds(q, n) /\ ~Sends(q, n)
      /\ n \in Range(free) \cup Range(master)
  BY <1>1 DEF PlaceOK
<1>9. /\ \A q \in Procs : Holds(q, n)' <=> q = p
      /\ \A q \in Procs : ~Sends(q, n)'
  <2>1. ASSUME NEW q \in Procs PROVE (Holds(q, n)' <=> q = p) /\ ~Sends(q, n)'
    <3>1. CASE q = p
      BY <1>2, <1>5, <1>6, <3>1 DEF Holds, Sends
    <3>2. CASE q # p
      BY <1>5, <1>8, <3>2, OtherHas DEF Turn
    <3>3. QED BY <3>1, <3>2
  <2>2. QED BY <2>1
<1>10. PlaceOK(n)'
  BY <1>6, <1>7, <1>9, BufferCacheAssumption DEF PlaceOK
<1>11. Around(p, n)
  <2>1. ASSUME NEW m \in Bufs \ {n} PROVE (Holds(p, m)' <=> Holds(p, m)) /\ (Sends(p, m)' <=> Sends(p, m))
    BY <1>2, <1>5, <1>6 DEF Holds, Sends
  <2>2. QED BY <1>1, <1>7, <2>1 DEF Around
<1>12. Wakes(n)
  <2>1. free # <<>> \/ master # <<>>
    BY <1>8 DEF Range
  <2>2. QED BY <1>1, <2>1, TypeNow DEF Wakes, NoLostWakeup
<1>13. FrameOK(p)'
  <2>1. arg'[p] = f /\ f.req = <<>> /\ f.blk = arg[p].blk /\ f.n = n /\ arg[p].blk \in Blocks
        /\ pc'[p] \in {"read", "hold"} /\ chan'[p] = Awake
    BY <1>1, <1>2, <1>3, <1>5, <1>6
  <2>2. IsInjective(f.req)
    BY <2>1, NoFrameTyped DEF NoFrame
  <2>3. buf'[n].busy /\ buf'[n].blk = arg[p].blk
    BY <1>7
  <2>4. QED BY <2>1, <2>2, <2>3 DEF FrameOK, Calling, Syncing, Flushing, InCall
<1>14. \A d \in Devices : HasMutex(p, d)' <=> HasMutex(p, d)
  BY <1>5 DEF HasMutex
<1>15. \A q \in Procs \ {p} : ~(pc[q] \in {"read", "hold"} /\ arg[q].n = n)
  BY <1>8 DEF Holds
<1>16. QED BY <1>5, <1>7, <1>10, <1>11, <1>12, <1>13, <1>14, <1>15, Changes

\* buf_release().
LEMMA ReleaseStep ==
  ASSUME CacheInv, NEW p \in Procs, NEW l \in {"read", "hold"}, At(p, l),
         NEW c \in [Bufs -> Buffers], BufRelease(p, c), UNCHANGED <<master, disk, memory, mutex, freed>>,
         \A m \in Bufs \ {arg[p].n} : c[m] = buf[m],
         c[arg[p].n].blk = buf[arg[p].n].blk, c[arg[p].n].demand = buf[arg[p].n].demand,
         c[arg[p].n].dirty => c[arg[p].n].valid
  PROVE  CacheInv'
<1>0. PICK n \in Bufs : n = arg[p].n
  BY DEF CacheInv, FrameOK, At
<1>1. /\ arg' = [arg EXCEPT ![p] = NoFrame] /\ pc' = [pc EXCEPT ![p] = "idle"] /\ cpu' = Nobody
      /\ chan' = Woken({OnAny} \union IF c[n].demand THEN {OnBuffer(n)} ELSE {})
      /\ buf' = [c EXCEPT ![n].busy = FALSE, ![n].demand = FALSE]
      /\ free' = Append(free, n) \/ free' = <<n>> \o free
  BY <1>0 DEF BufRelease, Yields
<1>2. NoFrame \in Frames /\ "idle" \in Labels /\ cpu' \in {p, Nobody}
  BY <1>1, NoFrameTyped DEF Labels
<1>3. /\ Turn(p) /\ pc[p] = l /\ pc'[p] = "idle" /\ arg'[p] = NoFrame /\ chan[p] = Awake /\ FrameOK(p) /\ TypeOK
      /\ l \notin Flushing => arg[p].req = <<>>
  BY ONLY <1>1, <1>2, Turns, CacheInv, At(p, l)
<1>4. n \in Bufs /\ arg[p].req = <<>> /\ Holds(p, n) /\ PlaceOK(n) /\ NoLostWakeup
      /\ IsInjective(free) /\ IsInjective(master)
  BY <1>0, <1>3 DEF FrameOK, Flushing, CacheInv, Holds
<1>5. /\ n \notin Range(free) /\ n \notin Range(master) /\ buf[n].blk # NoBlock
      /\ \A q \in Procs \ {p} : ~Holds(q, n)
      /\ \A q \in Procs : ~Sends(q, n)
  BY <1>4 DEF PlaceOK
<1>6. free' \in Seq(Bufs) /\ IsInjective(free') /\ Range(free') = Range(free) \cup {n}
  <2>1. free \in Seq(Bufs)
    BY <1>3, TypeNow
  <2>2. CASE free' = Append(free, n)
    BY <1>4, <1>5, <2>1, <2>2, ListWithLast
  <2>3. CASE free' = <<n>> \o free
    BY <1>4, <1>5, <2>1, <2>3, ListWithHead
  <2>4. QED BY <1>1, <2>2, <2>3
<1>7. /\ buf' \in [Bufs -> Buffers] /\ \A m \in Bufs \ {n} : buf'[m] = buf[m]
      /\ ~buf'[n].busy /\ buf'[n].blk = buf[n].blk /\ (buf'[n].dirty => buf'[n].valid)
  <2>1. /\ [c[n] EXCEPT !.busy = FALSE, !.demand = FALSE] \in Buffers
        /\ buf' = [c EXCEPT ![n] = [c[n] EXCEPT !.busy = FALSE, !.demand = FALSE]]
    <3>1. c[n] \in Buffers
      BY <1>4
    <3>2. buf' = [c EXCEPT ![n] = [c[n] EXCEPT !.busy = FALSE, !.demand = FALSE]]
      BY <1>1
    <3>3. QED BY <3>1, <3>2 DEF Buffers
  <2>2. QED BY <1>0, <1>4, <2>1 DEF Buffers
<1>8. \A q \in Procs : ~Holds(q, n)' /\ ~Sends(q, n)'
  <2>1. ASSUME NEW q \in Procs PROVE ~Holds(q, n)' /\ ~Sends(q, n)'
    <3>1. CASE q = p
      BY <1>3, <3>1, NoFrameTyped DEF Holds, Sends
    <3>2. CASE q # p
      <4>1. pc'[q] = pc[q] /\ arg'[q] = arg[q]
        BY <1>3, <3>2 DEF Turn
      <4>2. QED BY <1>5, <3>2, <4>1 DEF Holds, Sends
    <3>3. QED BY <3>1, <3>2
  <2>2. QED BY <2>1
<1>9. PlaceOK(n)'
  <2>1. n \in Range(free') /\ n \notin Range(master') /\ buf'[n].blk # NoBlock
    BY <1>5, <1>6, <1>7
  <2>2. QED BY <1>7, <1>8, <2>1 DEF PlaceOK
<1>10. Around(p, n)
  <2>1. ASSUME NEW m \in Bufs \ {n} PROVE (Holds(p, m)' <=> Holds(p, m)) /\ (Sends(p, m)' <=> Sends(p, m))
    BY <1>0, <1>3, <1>4, NoFrameTyped DEF Holds, Sends
  <2>2. QED BY <1>3, <1>4, <1>6, <1>7, <2>1, TypeNow DEF Around
<1>11. Wakes(n)
  <2>1. \A q \in Procs : chan[q] = OnBuffer(n) => c[n].demand
    BY <1>0, <1>4 DEF NoLostWakeup
  <2>2. \A q \in Procs : chan'[q] = IF chan[q] = OnAny \/ (c[n].demand /\ chan[q] = OnBuffer(n)) THEN Awake ELSE chan[q]
    BY <1>1 DEF Woken
  <2>3. chan' \in [Procs -> Channels]
    BY <1>1, <1>3, TypeNow, ChannelsDiffer DEF Woken
  <2>4. QED BY <1>4, <2>1, <2>2, <2>3, ChannelsDiffer DEF Wakes
<1>12. FrameOK(p)'
  <2>1. chan'[p] = Awake
    BY <1>3, <1>11 DEF Wakes
  <2>2. QED BY <1>3, <2>1, NoFrameTyped DEF FrameOK, Calling, Syncing, Flushing, InCall
<1>13. \A d \in Devices : HasMutex(p, d)' <=> HasMutex(p, d)
  BY <1>3 DEF HasMutex
<1>14. \A m \in Bufs \ {n} : buf'[n].blk = buf[m].blk => buf[m].blk = NoBlock
  <2>1. buf'[n].blk = buf[n].blk /\ buf[n].blk # NoBlock
    BY <1>5, <1>7
  <2>2. \A m \in Bufs \ {n} : buf[n].blk = buf[m].blk => buf[m].blk = NoBlock
    BY <1>4 DEF CacheInv, UniqueBuffer
  <2>3. QED BY <2>1, <2>2
<1>15. \A q \in Procs \ {p} : pc[q] \in {"read", "hold"} /\ arg[q].n = n => buf'[n].blk = buf[n].blk
  BY <1>7
<1>16. QED BY ONLY <1>3, <1>4, <1>9, <1>10, <1>11, <1>12, <1>13, <1>14, <1>15, Changes, CacheInv

\* The uses of these two.
LEMMA GetCachedStep ==
  ASSUME CacheInv, NEW p \in Procs, GetCached(p)
  PROVE  CacheInv'
<1>1. TypeOK /\ FrameOK(p) /\ At(p, "get") /\ UniqueBuffer /\ arg[p].blk \in Blocks
  BY DEF CacheInv, GetCached, At, FrameOK, Calling, InCall
<1>2. PICK n \in Bufs : /\ buf[n].blk = arg[p].blk
                        /\ \/ WaitFor(p, n)
                           \/ /\ ~buf[n].busy /\ free' = Unlisted(n)
                              /\ Return(p, n, [buf EXCEPT ![n].busy = TRUE])
                              /\ UNCHANGED <<master, memory>>
  BY DEF GetCached, Cached
<1>3. CASE WaitFor(p, n)
  BY <1>1, <1>3, WaitStep
<1>4. CASE ~WaitFor(p, n)
  <2> DEFINE c == [buf EXCEPT ![n].busy = TRUE]
  <2>1. /\ ~buf[n].busy /\ free' = Unlisted(n) /\ Return(p, n, c) /\ master' = master /\ memory' = memory
    BY <1>2, <1>4
  <2>2. PlaceOK(n) /\ buf[n].blk # NoBlock /\ IsInjective(free) /\ IsInjective(master)
        /\ free \in Seq(Bufs) /\ master \in Seq(Bufs) /\ memory \in [pages : BOOLEAN, own : BOOLEAN]
        /\ buf \in [Bufs -> Buffers]
    BY <1>1, <1>2, TypeNow, BufferCacheAssumption DEF CacheInv
  <2>3. n \notin Range(master) /\ n \in Range(free)
    BY <2>1, <2>2 DEF PlaceOK
  <2>4. free' \in Seq(Bufs) /\ IsInjective(free') /\ Range(free') = Range(free) \ {n}
    BY <2>1, <2>2, <2>3, UnlistedFacts
  <2>5. Range(master) = Range(master) \ {n}
    BY <2>3
  <2>6. /\ c \in [Bufs -> Buffers] /\ \A m \in Bufs \ {n} : c[m] = buf[m]
        /\ c[n].busy /\ c[n].blk = arg[p].blk /\ c[n].demand = buf[n].demand
        /\ c[n].dirty = buf[n].dirty /\ c[n].valid = buf[n].valid
    <3>1. [buf[n] EXCEPT !.busy = TRUE] \in Buffers /\ c = [buf EXCEPT ![n] = [buf[n] EXCEPT !.busy = TRUE]]
      BY <2>2 DEF Buffers
    <3>2. QED BY <1>2, <2>2, <3>1 DEF Buffers
  <2> HIDE DEF c
  <2>7. \A m \in Bufs \ {n} : c[m] = buf[m] /\ buf[m].blk # arg[p].blk
    BY <1>1, <1>2, <2>2, <2>6 DEF UniqueBuffer
  <2>8. c[n].dirty => c[n].valid
    BY <2>2, <2>6 DEF PlaceOK
  <2>9. master' \in Seq(Bufs) /\ IsInjective(master') /\ Range(master') = Range(master) \ {n}
        /\ memory' \in [pages : BOOLEAN, own : BOOLEAN]
    BY <2>1, <2>2, <2>5
  <2>10. QED BY ONLY <1>1, <2>1, <2>4, <2>6, <2>7, <2>8, <2>9, TakeStep, CacheInv
<1>5. QED BY <1>3, <1>4

\* A buffer that is on no list any more gets another block.
LEMMA UpdateFacts ==
  ASSUME TypeOK, NEW n \in Bufs, ~buf[n].dirty, NEW b \in Blocks
  PROVE  /\ BufUpdate(n, b) \in [Bufs -> Buffers] /\ \A m \in Bufs \ {n} : BufUpdate(n, b)[m] = buf[m]
         /\ BufUpdate(n, b)[n].busy /\ BufUpdate(n, b)[n].blk = b /\ BufUpdate(n, b)[n].demand = buf[n].demand
         /\ ~BufUpdate(n, b)[n].dirty /\ ~BufUpdate(n, b)[n].valid
<1> DEFINE x == [buf[n] EXCEPT !.blk = b, !.busy = TRUE, !.valid = FALSE, !.data = Zero]
<1>1. BufUpdate(n, b) = [buf EXCEPT ![n] = x] /\ buf \in [Bufs -> Buffers]
  BY TypeNow DEF BufUpdate
<1>2. x \in Buffers /\ x.busy /\ x.blk = b /\ x.demand = buf[n].demand /\ ~x.dirty /\ ~x.valid
  <2>1. buf[n] \in Buffers /\ Zero \in Values
    BY <1>1, BufferCacheAssumption
  <2>2. QED BY <2>1 DEF Buffers
<1> HIDE DEF x
<1>3. QED BY <1>1, <1>2

LEMMA ReuseStep ==
  ASSUME CacheInv, NEW p \in Procs, Missed(p), NEW n \in Bufs, ~buf[n].busy, ~buf[n].dirty,
         free' \in Seq(Bufs), IsInjective(free'), Range(free') = Range(free) \ {n},
         master' \in Seq(Bufs), IsInjective(master'), Range(master') = Range(master) \ {n},
         memory' \in [pages : BOOLEAN, own : BOOLEAN],
         Return(p, n, BufUpdate(n, arg[p].blk))
  PROVE  CacheInv'
<1>1. TypeOK /\ At(p, "get") /\ arg[p].blk \in Blocks /\ \A m \in Bufs : buf[m].blk # arg[p].blk
  BY DEF CacheInv, Missed, At, FrameOK, Calling, InCall, Cached
<1> DEFINE c == BufUpdate(n, arg[p].blk)
<1>2. /\ c \in [Bufs -> Buffers] /\ \A m \in Bufs \ {n} : c[m] = buf[m]
      /\ c[n].busy /\ c[n].blk = arg[p].blk /\ c[n].demand = buf[n].demand /\ ~c[n].dirty
      /\ Return(p, n, c)
  BY <1>1, UpdateFacts
<1> HIDE DEF c
<1>3. \A m \in Bufs \ {n} : c[m] = buf[m] /\ buf[m].blk # arg[p].blk
  BY <1>1, <1>2
<1>4. QED BY <1>1, <1>2, <1>3, TakeStep

LEMMA GetFromMasterStep ==
  ASSUME CacheInv, NEW p \in Procs, GetFromMaster(p)
  PROVE  CacheInv'
<1>1. /\ TypeOK /\ free \in Seq(Bufs) /\ master \in Seq(Bufs) /\ memory \in [pages : BOOLEAN, own : BOOLEAN]
      /\ IsInjective(free) /\ IsInjective(master)
  BY TypeNow DEF CacheInv
<1>2. /\ Missed(p) /\ master # <<>> /\ master' = Tail(master) /\ free' = free /\ MemoryTaken
      /\ Return(p, Head(master), BufUpdate(Head(master), arg[p].blk))
  BY DEF GetFromMaster
<1>3. PICK n \in Bufs : n = Head(master)
  BY <1>1, <1>2
<1>4. /\ Tail(master) \in Seq(Bufs) /\ IsInjective(Tail(master))
      /\ n \in Range(master) /\ Range(Tail(master)) = Range(master) \ {n}
  BY <1>1, <1>2, <1>3, TailOfList
<1>5. PlaceOK(n)
  BY DEF CacheInv
<1>6. n \notin Range(free) /\ ~buf[n].busy /\ ~buf[n].dirty
  BY <1>4, <1>5 DEF PlaceOK
<1>7. memory' \in [pages : BOOLEAN, own : BOOLEAN]
  BY <1>1, <1>2 DEF MemoryTaken
<1>8. Range(free') = Range(free) \ {n} /\ free' \in Seq(Bufs) /\ IsInjective(free')
  BY <1>1, <1>2, <1>6
<1>9. Return(p, n, BufUpdate(n, arg[p].blk))
  BY <1>2, <1>3
<1>10. master' \in Seq(Bufs) /\ IsInjective(master') /\ Range(master') = Range(master) \ {n}
  BY <1>2, <1>4
<1>11. QED BY ONLY <1>2, <1>6, <1>7, <1>8, <1>9, <1>10, ReuseStep, CacheInv

LEMMA GetFromFreeStep ==
  ASSUME CacheInv, NEW p \in Procs, GetFromFree(p)
  PROVE  CacheInv'
<1>1. /\ TypeOK /\ free \in Seq(Bufs) /\ master \in Seq(Bufs) /\ memory \in [pages : BOOLEAN, own : BOOLEAN]
      /\ IsInjective(free) /\ IsInjective(master)
  BY TypeNow DEF CacheInv
<1>2. Missed(p) /\ free # <<>> /\ At(p, "get") /\ master = <<>>
  BY DEF GetFromFree, Missed
<1>3. PICK n \in Bufs : n = Head(free)
  BY <1>1, <1>2
<1>4. CASE WaitFor(p, n)
  BY <1>2, <1>4, WaitStep
<1>5. CASE Walk(p, AnyDevice, FlushBatch, FALSE, "get")
  BY <1>2, <1>5, WalkStep, BufferCacheAssumption
<1>6. CASE /\ ~buf[n].busy /\ ~buf[n].dirty /\ free' = Tail(free)
           /\ Return(p, n, BufUpdate(n, arg[p].blk)) /\ UNCHANGED <<master, memory>>
  <2>1. /\ Tail(free) \in Seq(Bufs) /\ IsInjective(Tail(free))
        /\ n \in Range(free) /\ Range(Tail(free)) = Range(free) \ {n}
    BY <1>1, <1>2, <1>3, TailOfList
  <2>2. free' \in Seq(Bufs) /\ IsInjective(free') /\ Range(free') = Range(free) \ {n}
    BY <1>6, <2>1
  <2>3. Range(master) = {}
    BY <1>2 DEF Range
  <2>4. /\ master' \in Seq(Bufs) /\ IsInjective(master') /\ Range(master') = Range(master) \ {n}
        /\ memory' \in [pages : BOOLEAN, own : BOOLEAN]
    BY <1>1, <1>6, <2>3
  <2>5. QED BY ONLY <1>2, <1>6, <2>2, <2>4, ReuseStep, CacheInv
<1>7. QED BY <1>3, <1>4, <1>5, <1>6 DEF GetFromFree

\* drv_read() returns, with the block or with an error.
LEMMA ReadDoneStep ==
  ASSUME CacheInv, NEW p \in Procs, ReadDone(p)
  PROVE  CacheInv'
<1>1. /\ TypeOK /\ buf \in [Bufs -> Buffers] /\ At(p, "read") /\ disk \in [Blocks -> Values]
      /\ arg[p].n \in Bufs /\ arg[p].blk \in Blocks
      /\ UNCHANGED <<master, disk, memory, mutex, freed>>
  BY TypeNow DEF CacheInv, ReadDone, At, FrameOK, Calling, InCall
<1>2. CASE /\ buf' = [buf EXCEPT ![arg[p].n].data = disk[arg[p].blk], ![arg[p].n].valid = TRUE]
           /\ Yields(p, "hold") /\ UNCHANGED <<chan, arg, free>>
  BY <1>1, <1>2, ReadStep
<1>3. CASE BufRelease(p, [buf EXCEPT ![arg[p].n].valid = FALSE, ![arg[p].n].dirty = FALSE])
  <2> DEFINE x == [buf[arg[p].n] EXCEPT !.valid = FALSE, !.dirty = FALSE]
             c == [buf EXCEPT ![arg[p].n] = x]
  <2>1. x \in Buffers /\ x.blk = buf[arg[p].n].blk /\ x.demand = buf[arg[p].n].demand /\ ~x.dirty
    BY <1>1 DEF Buffers
  <2>2. BufRelease(p, c)
    BY <1>1, <1>3
  <2> HIDE DEF x
  <2>3. /\ c \in [Bufs -> Buffers] /\ \A m \in Bufs \ {arg[p].n} : c[m] = buf[m]
        /\ c[arg[p].n] = x
    BY <1>1, <2>1
  <2> HIDE DEF c
  <2>4. QED BY <1>1, <2>1, <2>2, <2>3, ReleaseStep
<1>4. QED BY <1>2, <1>3 DEF ReadDone

LEMMA BufWriteStep ==
  ASSUME CacheInv, NEW p \in Procs, NEW v \in Values, BufWrite(p, v)
  PROVE  CacheInv'
<1>1. /\ TypeOK /\ buf \in [Bufs -> Buffers] /\ At(p, "hold") /\ arg[p].n \in Bufs
      /\ UNCHANGED <<master, disk, memory, mutex, freed>>
  BY TypeNow DEF CacheInv, BufWrite, At, FrameOK
<1> DEFINE x == [buf[arg[p].n] EXCEPT !.data = v, !.valid = TRUE, !.dirty = TRUE]
           c == [buf EXCEPT ![arg[p].n] = x]
<1>2. x \in Buffers /\ x.blk = buf[arg[p].n].blk /\ x.demand = buf[arg[p].n].demand /\ x.valid
  <2>1. buf[arg[p].n] \in Buffers
    BY <1>1
  <2>2. QED BY <2>1 DEF Buffers
<1>3. BufRelease(p, c)
  BY <1>1 DEF BufWrite
<1> HIDE DEF x
<1>4. /\ c \in [Bufs -> Buffers] /\ \A m \in Bufs \ {arg[p].n} : c[m] = buf[m]
      /\ c[arg[p].n] = x
  BY <1>1, <1>2
<1> HIDE DEF c
<1>5. QED BY <1>1, <1>2, <1>3, <1>4, ReleaseStep

LEMMA OnlyReadStep ==
  ASSUME CacheInv, NEW p \in Procs, Release(p)
  PROVE  CacheInv'
<1>1. /\ TypeOK /\ buf \in [Bufs -> Buffers] /\ At(p, "hold") /\ arg[p].n \in Bufs
      /\ UNCHANGED <<master, disk, memory, mutex, freed>> /\ BufRelease(p, buf)
  BY TypeNow DEF CacheInv, Release, At, FrameOK
<1>2. buf[arg[p].n].dirty => buf[arg[p].n].valid
  BY <1>1 DEF CacheInv, PlaceOK
<1>3. QED BY <1>1, <1>2, ReleaseStep

\* buf_flush() takes a buffer to write.
LEMMA WalkTakeStep ==
  ASSUME CacheInv, NEW p \in Procs, WalkTake(p)
  PROVE  CacheInv'
<1>1. /\ TypeOK /\ FrameOK(p) /\ IsInjective(free) /\ IsInjective(master) /\ arg[p] \in Frames /\ free \in Seq(Bufs)
      /\ At(p, "walk") /\ pc[p] = "walk" /\ cpu = p /\ chan[p] = Awake /\ NoLostWakeup
      /\ buf \in [Bufs -> Buffers]
  BY TypeNow DEF CacheInv, WalkTake, Walking, At, FrameOK
<1>2. PICK n \in Bufs : n = arg[p].next /\ n \in Range(free)
  <2>1. arg[p].next \in Range(free)
    BY <1>1 DEF FrameOK, WalkTake, Walking
  <2>2. \A x \in Range(free) : x \in Bufs
    BY <1>1 DEF Range
  <2>3. QED BY <2>1, <2>2
<1> DEFINE b == buf[n].blk
           f == [arg[p] EXCEPT !.dev = b[1], !.req = Append(arg[p].req, n), !.count = arg[p].count - 1, !.next = After(n)]
<1>3. /\ buf[n].dirty /\ Joins(arg[p], b) /\ buf' = [buf EXCEPT ![n].busy = TRUE, ![n].dirty = FALSE]
      /\ arg' = [arg EXCEPT ![p] = f] /\ UNCHANGED <<cpu, pc, chan, free, master, disk, memory, mutex, freed>>
  BY <1>2 DEF WalkTake
<1>4. PlaceOK(n) /\ \A q \in Procs : ~Holds(q, n) /\ ~Sends(q, n)
  BY <1>2, <1>3 DEF CacheInv, PlaceOK
<1>5. b \in Blocks /\ b # NoBlock /\ n \notin Range(master) /\ buf[n].valid /\ b[1] \in Devices
  BY <1>1, <1>2, <1>3, <1>4, DevicesAreNumbers DEF PlaceOK, Buffers
<1>6. /\ Append(arg[p].req, n) \in Seq(Bufs) /\ IsInjective(Append(arg[p].req, n))
      /\ Range(Append(arg[p].req, n)) = Range(arg[p].req) \cup {n}
  <2>1. n \notin Range(arg[p].req)
    BY <1>4 DEF Sends, Range
  <2>2. arg[p].req \in Seq(Bufs) /\ IsInjective(arg[p].req)
    BY <1>1 DEF Frames, FrameOK
  <2>3. QED BY <2>1, <2>2, ListWithLast
<1>7. After(n) \in 0..NBuf /\ (After(n) # 0 => After(n) \in Range(free))
  BY <1>1, <1>2, AfterFacts
<1>8. arg[p].count - 1 \in Nat
  <2>1. arg[p].count \in Nat /\ arg[p].count > 0
    BY <1>1 DEF Frames, WalkTake, Walking
  <2>2. QED BY <2>1
<1>9. /\ f \in Frames /\ f.req = Append(arg[p].req, n) /\ f.blk = arg[p].blk /\ f.dev = b[1] /\ f.back = arg[p].back
      /\ f.next = After(n) /\ "walk" \in Labels /\ pc' = [pc EXCEPT ![p] = "walk"] /\ cpu' = p
  <2>1. "walk" \in Labels /\ pc' = [pc EXCEPT ![p] = "walk"] /\ cpu' = p
    BY <1>1, <1>3, TypeNow DEF Labels
  <2>2. arg[p] \in Frames /\ b[1] \in Devices /\ After(n) \in 0..NBuf
        /\ arg[p].count - 1 \in Nat /\ Append(arg[p].req, n) \in Seq(Bufs)
    BY <1>1, <1>5, <1>6, <1>7, <1>8
  <2> HIDE DEF b
  <2>3. QED BY ONLY <2>1, <2>2 DEF f, Frames
<1> HIDE DEF f
<1>10. Turn(p) /\ pc'[p] = "walk" /\ arg'[p] = f
  <2>1. At(p, "walk") /\ arg' = [arg EXCEPT ![p] = f] /\ cpu' \in {p, Nobody}
    BY <1>1, <1>3, <1>9
  <2>2. "walk" \in Labels /\ f \in Frames /\ pc' = [pc EXCEPT ![p] = "walk"]
    BY <1>9
  <2>3. QED BY ONLY <2>1, <2>2, Turns, CacheInv
<1>11. /\ buf' \in [Bufs -> Buffers] /\ \A m \in Bufs \ {n} : buf'[m] = buf[m]
       /\ buf'[n].busy /\ ~buf'[n].dirty /\ buf'[n].blk = b /\ buf'[n].demand = buf[n].demand
  <2>1. /\ [buf[n] EXCEPT !.busy = TRUE, !.dirty = FALSE] \in Buffers
        /\ buf' = [buf EXCEPT ![n] = [buf[n] EXCEPT !.busy = TRUE, !.dirty = FALSE]]
    BY <1>1, <1>3 DEF Buffers
  <2>2. QED BY <1>1, <2>1 DEF Buffers
<1> HIDE DEF b
<1>12. /\ \A m \in Bufs \ {n} : (Holds(p, m)' <=> Holds(p, m)) /\ (Sends(p, m)' <=> Sends(p, m))
       /\ \A q \in Procs : ~Holds(q, n)' /\ (Sends(q, n)' <=> q = p)
  <2>1. \A m : Sends(p, m) <=> m \in Range(arg[p].req)
    BY DEF Sends, Range
  <2>2. \A m : Sends(p, m)' <=> m \in Range(f.req)
    BY <1>10 DEF Sends, Range
  <2>3. \A m : ~Holds(p, m) /\ ~Holds(p, m)'
    BY <1>1, <1>10 DEF Holds
  <2>4. \A q \in Procs \ {p} : ~Holds(q, n)' /\ ~Sends(q, n)'
    BY <1>4, <1>10, OtherHas DEF Turn
  <2>5. QED BY <1>6, <1>9, <2>1, <2>2, <2>3, <2>4
<1>13. PlaceOK(n)'
  BY <1>2, <1>3, <1>5, <1>11, <1>12 DEF PlaceOK
<1>14. Around(p, n)
  BY <1>1, <1>3, <1>11, <1>12, TypeNow DEF Around
<1>15. Wakes(n)
  BY <1>1, <1>2, <1>3, <1>11, TypeNow, ChannelsDiffer DEF Wakes, NoLostWakeup
<1>16. FrameOK(p)'
  BY <1>1, <1>3, <1>5, <1>6, <1>7, <1>9, <1>10 DEF FrameOK, Calling, Syncing, Flushing, InCall
<1>17. \A m \in Bufs \ {n} : buf'[n].blk = buf[m].blk => buf[m].blk = NoBlock
  BY <1>5, <1>11 DEF b, CacheInv, UniqueBuffer
<1>18. \A q \in Procs \ {p} : pc[q] \in {"read", "hold"} /\ arg[q].n = n => buf'[n].blk = buf[n].blk
  BY <1>11 DEF b
<1>19. \A d \in Devices : HasMutex(p, d)' <=> HasMutex(p, d)
  <2>1. arg[p].back = "synced" => arg[p].dev = b[1]
    BY <1>1, <1>3, <1>5, DevicesAreNumbers DEF FrameOK, Syncing, Flushing, Joins
  <2>2. QED BY <1>1, <1>3, <1>9, <1>10, <2>1 DEF HasMutex
<1>20. QED BY ONLY <1>10, <1>13, <1>14, <1>15, <1>16, <1>17, <1>18, <1>19, Changes, CacheInv

\* buf_remove() of a buffer on the free list.
LEMMA RemoveFacts ==
  ASSUME CacheInv, NEW n \in Range(free), NEW c \in [Bufs -> Buffers], BufRemove(n, c),
         \A m \in Bufs \ {n} : c[m] = buf[m]
  PROVE  /\ n \in Bufs
         /\ free' \in Seq(Bufs) /\ IsInjective(free') /\ Range(free') = Range(free) \ {n}
         /\ master' \in Seq(Bufs) /\ IsInjective(master') /\ Range(master') = Range(master) \cup {n}
         /\ memory' \in [pages : BOOLEAN, own : BOOLEAN]
         /\ buf' \in [Bufs -> Buffers] /\ \A m \in Bufs \ {n} : buf'[m] = buf[m]
         /\ buf'[n].blk = NoBlock /\ buf'[n].busy = c[n].busy /\ buf'[n].demand = c[n].demand
         /\ buf'[n].dirty = c[n].dirty
<1>1. /\ TypeOK /\ free \in Seq(Bufs) /\ master \in Seq(Bufs) /\ memory \in [pages : BOOLEAN, own : BOOLEAN]
      /\ IsInjective(free) /\ IsInjective(master)
  BY TypeNow DEF CacheInv
<1>2. n \in Bufs
  BY <1>1 DEF Range
<1>3. PlaceOK(n)
  BY <1>2 DEF CacheInv
<1>4. n \notin Range(master)
  BY <1>3 DEF PlaceOK
<1>5. free' \in Seq(Bufs) /\ IsInjective(free') /\ Range(free') = Range(free) \ {n}
  BY <1>1, UnlistedFacts DEF BufRemove
<1>6. master' \in Seq(Bufs) /\ IsInjective(master') /\ Range(master') = Range(master) \cup {n}
  BY <1>1, <1>2, <1>4, ListWithLast DEF BufRemove
<1>7. memory' \in [pages : BOOLEAN, own : BOOLEAN]
  BY <1>1 DEF BufRemove, MemoryGiven
<1> DEFINE x == [c[n] EXCEPT !.blk = NoBlock, !.valid = FALSE, !.data = Zero]
<1>8. buf' = [c EXCEPT ![n] = x]
  BY DEF BufRemove
<1>9. x \in Buffers /\ x.blk = NoBlock /\ x.busy = c[n].busy /\ x.demand = c[n].demand /\ x.dirty = c[n].dirty
  <2>1. c[n] \in Buffers /\ Zero \in Values
    BY <1>2, BufferCacheAssumption
  <2>2. QED BY <2>1 DEF Buffers
<1> HIDE DEF x
<1>10. QED BY <1>2, <1>5, <1>6, <1>7, <1>8, <1>9

\* buf_flush() takes the memory of a buffer.
LEMMA WalkRemoveStep ==
  ASSUME CacheInv, NEW p \in Procs, WalkRemove(p)
  PROVE  CacheInv'
<1>1. /\ TypeOK /\ FrameOK(p) /\ IsInjective(free) /\ arg[p] \in Frames /\ free \in Seq(Bufs)
      /\ At(p, "walk") /\ pc[p] = "walk" /\ cpu = p /\ chan[p] = Awake /\ NoLostWakeup
      /\ buf \in [Bufs -> Buffers] /\ UNCHANGED <<cpu, pc, disk, mutex, freed>> /\ chan' = Woken({OnAny})
  BY TypeNow DEF CacheInv, WalkRemove, Walking, At, FrameOK
<1>2. PICK n \in Range(free) : n = arg[p].next
  BY <1>1 DEF FrameOK, WalkRemove, Walking
<1> DEFINE f == [arg[p] EXCEPT !.count = arg[p].count - 1, !.next = After(n)]
<1>3. ~buf[n].dirty /\ ~buf[n].busy /\ BufRemove(n, buf) /\ arg' = [arg EXCEPT ![p] = f]
  BY <1>2 DEF WalkRemove
<1>4. /\ n \in Bufs
      /\ free' \in Seq(Bufs) /\ IsInjective(free') /\ Range(free') = Range(free) \ {n}
      /\ master' \in Seq(Bufs) /\ IsInjective(master') /\ Range(master') = Range(master) \cup {n}
      /\ memory' \in [pages : BOOLEAN, own : BOOLEAN]
      /\ buf' \in [Bufs -> Buffers] /\ \A m \in Bufs \ {n} : buf'[m] = buf[m]
      /\ buf'[n].blk = NoBlock /\ ~buf'[n].busy /\ ~buf'[n].dirty
  BY <1>1, <1>3, RemoveFacts
<1>5. \A q \in Procs : ~Holds(q, n) /\ ~Sends(q, n)
  BY <1>3, <1>4 DEF CacheInv, PlaceOK
<1>6. After(n) \in 0..NBuf /\ (After(n) # 0 => After(n) \in Range(free) \ {n})
  BY <1>1, <1>2, AfterFacts
<1>7. arg[p].count - 1 \in Nat
  <2>1. arg[p].count \in Nat /\ arg[p].count > 0
    BY <1>1 DEF Frames, WalkRemove, Walking
  <2>2. QED BY <2>1
<1>8. /\ f \in Frames /\ f.req = arg[p].req /\ f.blk = arg[p].blk /\ f.dev = arg[p].dev /\ f.back = arg[p].back
      /\ f.next = After(n) /\ "walk" \in Labels /\ pc' = [pc EXCEPT ![p] = "walk"] /\ cpu' \in {p, Nobody}
  BY <1>1, <1>6, <1>7, TypeNow DEF Frames, Labels
<1> HIDE DEF f
<1>9. Turn(p) /\ pc'[p] = "walk" /\ arg'[p] = f
  <2>1. At(p, "walk") /\ arg' = [arg EXCEPT ![p] = f]
    BY <1>1, <1>3
  <2>2. f \in Frames /\ "walk" \in Labels /\ pc' = [pc EXCEPT ![p] = "walk"] /\ cpu' \in {p, Nobody}
    BY <1>8
  <2>3. QED BY ONLY <2>1, <2>2, Turns, CacheInv
<1>10. /\ \A m \in Bufs : (Holds(p, m)' <=> Holds(p, m)) /\ (Sends(p, m)' <=> Sends(p, m))
       /\ \A q \in Procs : ~Holds(q, n)' /\ ~Sends(q, n)'
  <2>1. \A m \in Bufs : (Holds(p, m)' <=> Holds(p, m)) /\ (Sends(p, m)' <=> Sends(p, m))
    BY <1>1, <1>8, <1>9 DEF Holds, Sends
  <2>2. \A q \in Procs \ {p} : ~Holds(q, n)' /\ ~Sends(q, n)'
    BY <1>5, <1>9, OtherHas DEF Turn
  <2>3. QED BY <1>4, <1>5, <2>1, <2>2
<1>11. PlaceOK(n)'
  BY <1>4, <1>10 DEF PlaceOK
<1>12. Around(p, n)
  BY <1>1, <1>4, <1>10, TypeNow DEF Around
<1>13. Wakes(n)
  <2>1. \A q \in Procs : chan'[q] = IF chan[q] = OnAny THEN Awake ELSE chan[q]
    BY <1>1 DEF Woken
  <2>2. chan' \in [Procs -> Channels]
    BY <1>1, TypeNow, ChannelsDiffer DEF Woken
  <2>3. QED BY <1>1, <1>3, <1>4, <2>1, <2>2, ChannelsDiffer DEF Wakes, NoLostWakeup
<1>14. FrameOK(p)'
  <2>1. chan'[p] = Awake
    BY <1>1, <1>13 DEF Wakes
  <2>2. cpu' = p
    BY <1>1
  <2>3. QED BY <1>1, <1>4, <1>6, <1>8, <1>9, <2>1, <2>2 DEF FrameOK, Calling, Syncing, Flushing, InCall
<1>15. \A m \in Bufs \ {n} : buf'[n].blk = buf[m].blk => buf[m].blk = NoBlock
  BY <1>4
<1>16. \A q \in Procs \ {p} : pc[q] \in {"read", "hold"} /\ arg[q].n = n => buf'[n].blk = buf[n].blk
  BY <1>5 DEF Holds
<1>17. \A d \in Devices : HasMutex(p, d)' <=> HasMutex(p, d)
  <2>1. chan'[p] = chan[p]
    BY <1>1, <1>13 DEF Wakes
  <2>2. QED BY <1>1, <1>8, <1>9, <2>1 DEF HasMutex
<1>18. QED BY ONLY <1>4, <1>9, <1>11, <1>12, <1>13, <1>14, <1>15, <1>16, <1>17, Changes, CacheInv

\* A buffer of the request is unlocked.
LEMMA UnlockStep ==
  ASSUME CacheInv, NEW p \in Procs, Unlock(p)
  PROVE  CacheInv'
<1>1. /\ TypeOK /\ FrameOK(p) /\ IsInjective(free) /\ IsInjective(master) /\ arg[p] \in Frames /\ free \in Seq(Bufs)
      /\ master \in Seq(Bufs) /\ memory \in [pages : BOOLEAN, own : BOOLEAN]
      /\ At(p, "unlock") /\ pc[p] = "unlock" /\ cpu = p /\ chan[p] = Awake /\ NoLostWakeup
      /\ buf \in [Bufs -> Buffers] /\ UNCHANGED <<cpu, pc, disk, mutex, freed>>
  BY TypeNow DEF CacheInv, Unlock, At, FrameOK
<1>2. arg[p].req \in Seq(Bufs) /\ IsInjective(arg[p].req) /\ arg[p].req # <<>>
  BY <1>1 DEF Frames, FrameOK, Unlock
<1>3. PICK n \in Bufs : n = Head(arg[p].req)
  BY <1>2
<1>4. /\ Tail(arg[p].req) \in Seq(Bufs) /\ IsInjective(Tail(arg[p].req))
      /\ n \in Range(arg[p].req) /\ Range(Tail(arg[p].req)) = Range(arg[p].req) \ {n}
  BY <1>2, <1>3, TailOfList
<1> DEFINE f == [arg[p] EXCEPT !.req = Tail(arg[p].req)]
           c == [buf EXCEPT ![n].busy = FALSE]
<1>5. /\ arg' = [arg EXCEPT ![p] = f]
      /\ \/ BufRemove(n, c) /\ chan' = Woken({OnAny, OnBuffer(n)})
         \/ buf' = c /\ chan' = Woken({OnBuffer(n)}) /\ UNCHANGED <<free, master, memory>>
  BY <1>3 DEF Unlock
<1>6. PlaceOK(n) /\ Sends(p, n) /\ n \in Range(free)
  BY <1>4 DEF CacheInv, PlaceOK, Sends, Range
<1>7. /\ \A q \in Procs : ~Holds(q, n)
      /\ \A q \in Procs \ {p} : ~Sends(q, n)
      /\ n \notin Range(master) /\ ~buf[n].dirty /\ buf[n].blk # NoBlock
  BY <1>6 DEF PlaceOK
<1>8. c \in [Bufs -> Buffers] /\ (\A m \in Bufs \ {n} : c[m] = buf[m])
      /\ ~c[n].busy /\ ~c[n].dirty /\ c[n].blk = buf[n].blk
  <2>1. [buf[n] EXCEPT !.busy = FALSE] \in Buffers /\ c = [buf EXCEPT ![n] = [buf[n] EXCEPT !.busy = FALSE]]
    BY <1>1 DEF Buffers
  <2>2. QED BY <1>1, <1>7, <2>1 DEF Buffers
<1> HIDE DEF c
<1>9. /\ buf' \in [Bufs -> Buffers] /\ \A m \in Bufs \ {n} : buf'[m] = buf[m]
      /\ ~buf'[n].busy /\ ~buf'[n].dirty
      /\ free' \in Seq(Bufs) /\ IsInjective(free') /\ master' \in Seq(Bufs) /\ IsInjective(master')
      /\ memory' \in [pages : BOOLEAN, own : BOOLEAN]
      /\ \A m \in Bufs \ {n} : (m \in Range(free') <=> m \in Range(free)) /\ (m \in Range(master') <=> m \in Range(master))
      /\ \/ /\ buf'[n].blk = NoBlock /\ n \in Range(master') /\ n \notin Range(free')
            /\ \A q \in Procs : chan'[q] # OnAny
         \/ buf'[n].blk = buf[n].blk /\ n \notin Range(master') /\ n \in Range(free') /\ UNCHANGED <<free, master>>
  <2>1. CASE BufRemove(n, c) /\ chan' = Woken({OnAny, OnBuffer(n)})
    <3>1. \A q \in Procs : chan'[q] # OnAny
      BY <2>1, ChannelsDiffer DEF Woken
    <3>2. QED BY <1>1, <1>6, <1>8, <2>1, <3>1, RemoveFacts
  <2>2. CASE buf' = c /\ UNCHANGED <<free, master, memory>>
    BY <1>1, <1>6, <1>7, <1>8, <2>2
  <2>3. QED BY <1>5, <2>1, <2>2
<1>10. /\ f \in Frames /\ f.req = Tail(arg[p].req) /\ f.blk = arg[p].blk /\ f.dev = arg[p].dev /\ f.back = arg[p].back
       /\ "unlock" \in Labels /\ pc' = [pc EXCEPT ![p] = "unlock"] /\ cpu' \in {p, Nobody}
  BY <1>1, <1>4, TypeNow DEF Frames, Labels
<1> HIDE DEF f
<1>11. Turn(p) /\ pc'[p] = "unlock" /\ arg'[p] = f
  <2>1. At(p, "unlock") /\ arg' = [arg EXCEPT ![p] = f]
    BY <1>1, <1>5
  <2>2. QED BY ONLY <1>10, <2>1, Turns, CacheInv
<1>12. /\ \A m \in Bufs \ {n} : (Holds(p, m)' <=> Holds(p, m)) /\ (Sends(p, m)' <=> Sends(p, m))
       /\ \A q \in Procs : ~Holds(q, n)' /\ ~Sends(q, n)'
  <2>1. \A m : Sends(p, m) <=> m \in Range(arg[p].req)
    BY DEF Sends, Range
  <2>2. \A m : Sends(p, m)' <=> m \in Range(f.req)
    BY <1>11 DEF Sends, Range
  <2>3. \A m : ~Holds(p, m) /\ ~Holds(p, m)'
    BY <1>1, <1>11 DEF Holds
  <2>4. \A q \in Procs \ {p} : ~Holds(q, n)' /\ ~Sends(q, n)'
    BY <1>7, <1>11, OtherHas DEF Turn
  <2>5. QED BY <1>4, <1>10, <2>1, <2>2, <2>3, <2>4
<1>13. PlaceOK(n)'
  BY <1>7, <1>9, <1>12 DEF PlaceOK
<1>14. Around(p, n)
  BY <1>1, <1>9, <1>12, TypeNow DEF Around
<1>15. Wakes(n)
  <2>1. \A q \in Procs : chan'[q] \in {Awake, chan[q]} /\ chan'[q] # OnBuffer(n)
    BY <1>5, ChannelsDiffer DEF Woken
  <2>2. chan' \in [Procs -> Channels]
    BY <1>1, <1>5, TypeNow, ChannelsDiffer DEF Woken
  <2>3. \A q \in Procs : \A d \in Devices : chan[q] = OnMutex(d) => chan'[q] = chan[q]
    BY <1>5, ChannelsDiffer DEF Woken
  <2>4. \A q \in Procs : chan'[q] = OnAny => free' = <<>> /\ master' = <<>>
    BY <1>1, <1>9, <2>1, ChannelsDiffer DEF NoLostWakeup
  <2>5. QED BY <2>1, <2>2, <2>3, <2>4 DEF Wakes
<1>16. chan'[p] = Awake /\ cpu' = p
  BY <1>1, <1>15 DEF Wakes
<1>17. FrameOK(p)'
  BY <1>1, <1>4, <1>10, <1>11, <1>16 DEF FrameOK, Calling, Syncing, Flushing, InCall
<1>18. \A m \in Bufs \ {n} : buf'[n].blk = buf[m].blk => buf[m].blk = NoBlock
  BY <1>9 DEF CacheInv, UniqueBuffer
<1>19. \A q \in Procs \ {p} : pc[q] \in {"read", "hold"} /\ arg[q].n = n => buf'[n].blk = buf[n].blk
  BY <1>7 DEF Holds
<1>20. \A d \in Devices : HasMutex(p, d)' <=> HasMutex(p, d)
  BY <1>1, <1>10, <1>11, <1>16 DEF HasMutex
<1>21. QED BY ONLY <1>11, <1>13, <1>14, <1>15, <1>17, <1>18, <1>19, <1>20, Changes, CacheInv

(***************************************************************************)
(* The mutex of a device, and what does not concern the processes.         *)
(***************************************************************************)
\* The buffers stay with who has them, and so does every mutex but that of d.
MutexMoves(p, d) ==
    /\ arg[p].req = <<>> /\ arg'[p].req = <<>>
    /\ pc[p] \notin {"read", "hold"} /\ pc'[p] \notin {"read", "hold"}
    /\ UNCHANGED <<buf, free, master, disk, memory, freed>>
    /\ mutex' \in [Devices -> Nat] /\ \A e \in Devices \ {d} : mutex'[e] = mutex[e]
    /\ chan' \in [Procs -> Channels]
    /\ \A q \in Procs : chan'[q] = chan[q] \/ {chan[q], chan'[q]} = {Awake, OnMutex(d)}
    /\ \A q \in Procs : chan'[q] = OnMutex(d) => mutex'[d] = 0
    /\ \A e \in Devices \ {d} : ~HasMutex(p, e) /\ ~HasMutex(p, e)'

LEMMA MutexStep ==
  ASSUME CacheInv, NEW p \in Procs, Turn(p), NEW d \in Devices, MutexMoves(p, d),
         \A q \in Procs : FrameOK(q)', MutexOK(d)'
  PROVE  CacheInv'
<1> USE DEF MutexMoves
<1>1. /\ TypeOK /\ IsInjective(free) /\ IsInjective(master) /\ UniqueBuffer /\ NoLostWakeup
      /\ \A n \in Bufs : PlaceOK(n)
      /\ \A e \in Devices : MutexOK(e)
  BY DEF CacheInv
<1>2. \A q \in Procs \ {p} : pc'[q] = pc[q] /\ arg'[q] = arg[q]
  BY DEF Turn
<1>3. TypeOK'
  <2>1. cpu' \in Procs \union {Nobody} /\ pc' \in [Procs -> Labels] /\ arg' \in [Procs -> Frames]
    BY <1>1, TypeNow DEF Turn
  <2>2. QED BY <1>1, <2>1, TypeNow, TypeNext
<1>4. \A n \in Bufs : PlaceOK(n)'
  <2>1. ASSUME NEW n \in Bufs PROVE PlaceOK(n)'
    <3>1. ASSUME NEW q \in Procs PROVE (Holds(q, n)' <=> Holds(q, n)) /\ (Sends(q, n)' <=> Sends(q, n))
      <4>1. CASE q = p
        BY <4>1 DEF Holds, Sends
      <4>2. CASE q # p
        BY <1>2, <4>2, OtherHas
      <4>3. QED BY <4>1, <4>2
    <3>2. buf[n].dirty => buf[n].valid
      BY <1>1 DEF PlaceOK
    <3>3. QED BY <1>1, <3>1, <3>2, PlaceKept
  <2>2. QED BY <2>1
<1>5. UniqueBuffer'
  BY <1>1 DEF UniqueBuffer
<1>6. NoLostWakeup'
  <2>1. ASSUME NEW q \in Procs
        PROVE  /\ \A n \in Bufs : chan'[q] = OnBuffer(n) => buf'[n].busy /\ buf'[n].demand
               /\ chan'[q] = OnAny => free' = <<>> /\ master' = <<>>
               /\ \A e \in Devices : chan'[q] = OnMutex(e) => mutex'[e] = 0
    <3>1. CASE chan'[q] = chan[q]
      BY <1>1, <3>1, ChannelsDiffer DEF NoLostWakeup
    <3>2. CASE chan'[q] \in {Awake, OnMutex(d)}
      BY <3>2, ChannelsDiffer
    <3>3. QED BY <3>1, <3>2
  <2>2. QED BY <2>1 DEF NoLostWakeup, OnBuffer, OnAny, OnMutex
<1>7. ASSUME NEW e \in Devices PROVE MutexOK(e)'
  <2>1. CASE e = d
    BY <2>1
  <2>2. CASE e # d
    <3>1. ASSUME NEW q \in Procs PROVE HasMutex(q, e)' <=> HasMutex(q, e)
      <4>1. CASE q = p
        BY <2>2, <4>1
      <4>2. CASE q # p
        <5>1. chan'[q] = OnMutex(e) <=> chan[q] = OnMutex(e)
          BY <2>2, ChannelsDiffer
        <5>2. QED BY <1>2, <4>2, <5>1, OtherHas
      <4>3. QED BY <4>1, <4>2
    <3>2. QED BY <1>1, <2>2, <3>1, MutexKept
  <2>3. QED BY <2>1, <2>2
<1>8. QED BY <1>1, <1>3, <1>4, <1>5, <1>6, <1>7 DEF CacheInv

\* buf_sync_device() up to the mutex.
LEMMA CallSyncStep ==
  ASSUME CacheInv, NEW p \in Procs, NEW d \in Devices, NEW remove \in BOOLEAN, CallSync(p, d, remove)
  PROVE  CacheInv'
<1> DEFINE f == [arg[p] EXCEPT !.dev = d, !.remove = remove]
<1>1. /\ At(p, "idle") /\ pc' = [pc EXCEPT ![p] = "sync"] /\ cpu' \in {p, Nobody} /\ arg' = [arg EXCEPT ![p] = f]
      /\ arg[p] \in Frames /\ TypeOK /\ UNCHANGED <<buf, free, master, disk, memory, freed>>
  BY TypeNow DEF CallSync, CacheInv, Down
<1>2. f \in Frames /\ f.req = arg[p].req /\ f.dev = d /\ "sync" \in Labels
  BY <1>1 DEF Frames, Labels
<1> HIDE DEF f
<1>3. /\ Turn(p) /\ pc[p] = "idle" /\ pc'[p] = "sync" /\ arg'[p] = f /\ chan[p] = Awake /\ FrameOK(p)
      /\ "idle" \notin Flushing => arg[p].req = <<>>
  BY ONLY <1>1, <1>2, Turns, CacheInv
<1>4. arg[p].req = <<>>
  BY <1>3 DEF Flushing
<1>5. MutexOK(d) /\ \A q \in Procs : FrameOK(q)
  BY DEF CacheInv
<1>6. /\ mutex \in [Devices -> Nat] /\ chan \in [Procs -> Channels] /\ mutex[d] \in {0, 1}
      /\ ~HasMutex(p, d)
  BY <1>1, <1>3, <1>5, TypeNow DEF MutexOK, HasMutex
<1>7. ASSUME chan' \in [Procs -> Channels], chan'[p] \in {Awake, OnMutex(d)}, \A q \in Procs \ {p} : chan'[q] = chan[q]
      PROVE  \A q \in Procs : FrameOK(q)'
  <2>1. FrameOK(p)'
    BY <1>2, <1>3, <1>4, <1>7 DEF FrameOK, Calling, Syncing, Flushing, InCall
  <2>2. ASSUME NEW q \in Procs \ {p} PROVE FrameOK(q)'
    BY <1>1, <1>3, <1>5, <1>7, OtherFrame DEF Turn, At
  <2>3. QED BY <2>1, <2>2
<1>8. \A e \in Devices \ {d} : ~HasMutex(p, e) /\ ~HasMutex(p, e)'
  BY <1>2, <1>3 DEF HasMutex
<1>9. CASE mutex[d] > 0 /\ mutex' = [mutex EXCEPT ![d] = @ - 1] /\ UNCHANGED chan
  <2>1. mutex[d] = 1 /\ mutex' \in [Devices -> Nat] /\ mutex'[d] = 0 /\ \A e \in Devices \ {d} : mutex'[e] = mutex[e]
    <3>1. mutex[d] = 1 /\ mutex[d] - 1 = 0
      BY <1>6, <1>9
    <3>2. QED BY <1>6, <1>9, <3>1
  <2>2. \A q \in Procs : ~HasMutex(q, d)
    BY <1>5, <2>1 DEF MutexOK
  <2>3. \A q \in Procs \ {p} : ~HasMutex(q, d)'
    BY <1>3, <1>9, <2>2, OtherHas DEF Turn
  <2>4. HasMutex(p, d)'
    BY <1>2, <1>3, <1>9, ChannelsDiffer DEF HasMutex
  <2>5. MutexOK(d)'
    BY <2>1, <2>3, <2>4 DEF MutexOK
  <2>6. \A q \in Procs : FrameOK(q)'
    BY <1>3, <1>6, <1>7, <1>9
  <2>7. MutexMoves(p, d)
    BY <1>1, <1>2, <1>3, <1>4, <1>6, <1>8, <1>9, <2>1 DEF MutexMoves
  <2>8. QED BY ONLY <1>3, <2>5, <2>6, <2>7, MutexStep, CacheInv
<1>10. CASE mutex[d] = 0 /\ chan' = [chan EXCEPT ![p] = OnMutex(d)] /\ UNCHANGED mutex
  <2>1. chan' \in [Procs -> Channels] /\ chan'[p] = OnMutex(d) /\ \A q \in Procs \ {p} : chan'[q] = chan[q]
    BY <1>6, <1>10, ChannelsDiffer
  <2>2. ~HasMutex(p, d)'
    BY <2>1 DEF HasMutex
  <2>3. \A q \in Procs \ {p} : HasMutex(q, d)' <=> HasMutex(q, d)
    BY <1>3, <2>1, OtherHas DEF Turn
  <2>4. MutexOK(d)'
    BY <1>5, <1>6, <1>10, <2>2, <2>3 DEF MutexOK
  <2>5. \A q \in Procs : FrameOK(q)'
    BY <1>7, <2>1
  <2>6. MutexMoves(p, d)
    BY <1>1, <1>2, <1>3, <1>4, <1>6, <1>8, <1>10, <2>1 DEF MutexMoves
  <2>7. QED BY ONLY <1>3, <2>4, <2>5, <2>6, MutexStep, CacheInv
<1>11. QED BY <1>9, <1>10 DEF CallSync, Down

\* buf_sync_device() returns.
LEMMA SyncedStep ==
  ASSUME CacheInv, NEW p \in Procs, Synced(p)
  PROVE  CacheInv'
<1>1. /\ At(p, "synced") /\ pc' = [pc EXCEPT ![p] = "idle"] /\ cpu' \in {p, Nobody}
      /\ arg' = [arg EXCEPT ![p] = NoFrame] /\ NoFrame \in Frames /\ "idle" \in Labels
      /\ TypeOK /\ UNCHANGED <<buf, free, master, disk, memory, freed>>
  BY NoFrameTyped DEF Synced, CacheInv, Yields, Labels
<1>2. /\ Turn(p) /\ pc[p] = "synced" /\ pc'[p] = "idle" /\ arg'[p] = NoFrame /\ chan[p] = Awake /\ FrameOK(p)
      /\ "synced" \notin Flushing => arg[p].req = <<>>
  BY ONLY <1>1, Turns, CacheInv
<1>3. arg[p].req = <<>> /\ arg'[p].req = <<>>
  BY <1>2, NoFrameTyped DEF Flushing
<1>4. PICK d \in Devices : d = arg[p].dev
  BY <1>2 DEF FrameOK, Syncing
<1>5. MutexOK(d) /\ HasMutex(p, d) /\ \A q \in Procs : FrameOK(q)
  BY <1>2, <1>4, ChannelsDiffer DEF CacheInv, HasMutex
<1>6. /\ mutex \in [Devices -> Nat] /\ chan \in [Procs -> Channels] /\ mutex[d] = 0
      /\ \A q \in Procs \ {p} : ~HasMutex(q, d)
  BY <1>1, <1>5, TypeNow DEF MutexOK
<1>7. \A e \in Devices : ~HasMutex(p, e)'
  BY <1>2 DEF HasMutex
<1>8. \A e \in Devices \ {d} : ~HasMutex(p, e)
  BY <1>4 DEF HasMutex
<1>9. ASSUME chan' \in [Procs -> Channels], \A q \in Procs : chan'[q] \in {Awake, chan[q]}
      PROVE  \A q \in Procs : FrameOK(q)'
  <2>1. FrameOK(p)'
    BY <1>2, <1>9, NoFrameTyped DEF FrameOK, Calling, Syncing, Flushing, InCall
  <2>2. ASSUME NEW q \in Procs \ {p} PROVE FrameOK(q)'
    BY <1>1, <1>2, <1>5, <1>9, OtherFrame DEF Turn, At
  <2>3. QED BY <2>1, <2>2
<1>10. ASSUME NEW q \in Procs, chan[q] = OnMutex(d), chan' = [chan EXCEPT ![q] = Awake], UNCHANGED mutex
       PROVE  CacheInv'
  <2>1. chan' \in [Procs -> Channels] /\ chan'[q] = Awake /\ \A r \in Procs \ {q} : chan'[r] = chan[r]
    BY <1>6, <1>10, ChannelsDiffer
  <2>2. q # p /\ pc[q] = "sync" /\ arg[q].dev = d
    <3>1. FrameOK(q) /\ q # p /\ chan[q] # Awake
      BY <1>2, <1>5, <1>10, ChannelsDiffer
    <3>2. pc[q] = "sync" /\ chan[q] = OnMutex(arg[q].dev)
      BY <1>10, <3>1 DEF FrameOK
    <3>3. arg[q].dev \in Devices
      BY <3>1, <3>2 DEF FrameOK, Syncing
    <3>4. QED BY <1>10, <3>1, <3>2, <3>3, ChannelsDiffer
  <2>3. HasMutex(q, d)'
    BY <1>2, <2>1, <2>2, ChannelsDiffer DEF HasMutex, Turn
  <2>4. \A r \in Procs \ {q} : ~HasMutex(r, d)'
    <3>1. ASSUME NEW r \in Procs \ {q, p} PROVE ~HasMutex(r, d)'
      BY <1>2, <1>6, <2>1, <3>1, OtherHas DEF Turn
    <3>2. QED BY <1>7, <3>1
  <2>5. MutexOK(d)'
    BY <1>6, <1>10, <2>3, <2>4 DEF MutexOK
  <2>6. \A r \in Procs : FrameOK(r)'
    BY <1>9, <2>1
  <2>7. \A r \in Procs : chan'[r] = OnMutex(d) => mutex'[d] = 0
    BY <1>6, <1>10
  <2>8. MutexMoves(p, d)
    BY <1>1, <1>2, <1>3, <1>6, <1>7, <1>8, <1>10, <2>1, <2>7 DEF MutexMoves
  <2>9. QED BY ONLY <1>2, <2>5, <2>6, <2>8, MutexStep, CacheInv
<1>11. CASE (\A q \in Procs : chan[q] # OnMutex(d)) /\ mutex' = [mutex EXCEPT ![d] = @ + 1] /\ UNCHANGED chan
  <2>1. mutex' \in [Devices -> Nat] /\ mutex'[d] = 1 /\ \A e \in Devices \ {d} : mutex'[e] = mutex[e]
    BY <1>6, <1>11
  <2>2. \A q \in Procs : ~HasMutex(q, d)'
    <3>1. ASSUME NEW q \in Procs \ {p} PROVE ~HasMutex(q, d)'
      BY <1>2, <1>6, <1>11, <3>1, OtherHas DEF Turn
    <3>2. QED BY <1>7, <3>1
  <2>3. MutexOK(d)'
    BY <2>1, <2>2 DEF MutexOK
  <2>4. \A q \in Procs : FrameOK(q)'
    BY <1>6, <1>9, <1>11
  <2>5. MutexMoves(p, d)
    BY <1>1, <1>2, <1>3, <1>6, <1>7, <1>8, <1>11, <2>1 DEF MutexMoves
  <2>6. QED BY ONLY <1>2, <2>3, <2>4, <2>5, MutexStep, CacheInv
<1>12. QED BY <1>4, <1>6, <1>10, <1>11 DEF Synced, Up

LEMMA SyncStep ==
  ASSUME CacheInv, NEW p \in Procs, Sync(p)
  PROVE  CacheInv'
<1>1. At(p, "sync") /\ arg[p] \in Frames /\ arg[p].dev \in Devices /\ free \in Seq(Bufs)
  BY TypeNow DEF CacheInv, Sync, At, FrameOK, Syncing
<1>2. DelayedWrites \in Nat
  <2>1. DOMAIN free = 1..Len(free) /\ Len(free) \in Nat
    BY <1>1
  <2>2. IsFiniteSet(DOMAIN free)
    BY <2>1, FS_Interval
  <2>3. IsFiniteSet({i \in DOMAIN free : buf[free[i]].dirty})
    BY <2>2, FS_Subset
  <2>4. QED BY <2>3, FS_CardinalityType DEF DelayedWrites
<1> DEFINE count == IF arg[p].remove THEN 2 * NBuf ELSE DelayedWrites
<1>3. count \in Nat
  BY <1>2, BufferCacheAssumption
<1>4. arg[p].remove \in BOOLEAN
  BY <1>1 DEF Frames
<1>5. Walk(p, arg[p].dev, count, arg[p].remove, "synced")
  BY DEF Sync
<1> HIDE DEF count
<1>6. QED BY ONLY <1>1, <1>3, <1>4, <1>5, WalkStep, CacheInv

\* b_free(), and the rest of the kernel's memory: the processes stay where they are.
LEMMA StillStep ==
  ASSUME CacheInv, UNCHANGED <<cpu, pc, chan, arg, free, master, disk, mutex>>,
         memory' \in [pages : BOOLEAN, own : BOOLEAN], freed' \subseteq Blocks, buf' \in [Bufs -> Buffers],
         \A n \in Bufs : /\ buf'[n].busy = buf[n].busy /\ buf'[n].blk = buf[n].blk
                         /\ buf'[n].demand = buf[n].demand
                         /\ buf'[n].dirty => buf[n].dirty /\ buf'[n].valid
  PROVE  CacheInv'
<1>1. /\ TypeOK /\ IsInjective(free) /\ IsInjective(master) /\ UniqueBuffer /\ NoLostWakeup
      /\ \A n \in Bufs : PlaceOK(n)
      /\ \A d \in Devices : MutexOK(d)
      /\ \A q \in Procs : FrameOK(q)
  BY DEF CacheInv
<1>2. TypeOK'
  BY <1>1, TypeNow, TypeNext
<1>3. \A q \in Procs : FrameOK(q)'
  <2>1. ASSUME NEW q \in Procs PROVE FrameOK(q)'
    <3>1. FrameOK(q)
      BY <1>1
    <3>2. QED BY <3>1 DEF FrameOK, Calling, Syncing
  <2>2. QED BY <2>1
<1>4. \A n \in Bufs : PlaceOK(n)'
  <2>1. ASSUME NEW n \in Bufs PROVE PlaceOK(n)'
    <3>1. \A q \in Procs : (Holds(q, n)' <=> Holds(q, n)) /\ (Sends(q, n)' <=> Sends(q, n))
      BY OtherHas
    <3>2. QED BY <1>1, <3>1, PlaceKept
  <2>2. QED BY <2>1
<1>5. UniqueBuffer' /\ NoLostWakeup'
  BY <1>1 DEF UniqueBuffer, NoLostWakeup, OnBuffer, OnAny, OnMutex
<1>6. \A d \in Devices : MutexOK(d)'
  <2>1. ASSUME NEW d \in Devices PROVE MutexOK(d)'
    <3>1. \A q \in Procs : HasMutex(q, d)' <=> HasMutex(q, d)
      BY OtherHas
    <3>2. QED BY <1>1, <3>1, MutexKept
  <2>2. QED BY <2>1
<1>7. QED BY <1>1, <1>2, <1>3, <1>4, <1>5, <1>6 DEF CacheInv

LEMMA FreeStep ==
  ASSUME CacheInv, NEW b \in Blocks, BFree(b)
  PROVE  CacheInv'
<1>1. /\ buf \in [Bufs -> Buffers] /\ freed \subseteq Blocks /\ memory \in [pages : BOOLEAN, own : BOOLEAN]
      /\ UNCHANGED <<cpu, pc, chan, arg, free, master, disk, memory, mutex>> /\ freed' = freed \union {b}
  BY TypeNow DEF CacheInv, BFree
<1>2. ASSUME NEW n \in Bufs
      PROVE  /\ buf'[n] \in Buffers /\ buf'[n].busy = buf[n].busy /\ buf'[n].blk = buf[n].blk
             /\ buf'[n].demand = buf[n].demand
             /\ buf'[n].dirty => buf[n].dirty /\ buf'[n].valid
  <2>1. buf'[n] = IF n \in Cached(b) THEN [buf[n] EXCEPT !.valid = FALSE, !.dirty = FALSE, !.data = Zero] ELSE buf[n]
    BY DEF BFree
  <2>2. buf[n] \in Buffers /\ Zero \in Values /\ (buf[n].dirty => buf[n].valid)
    BY <1>1, BufferCacheAssumption DEF CacheInv, PlaceOK
  <2>3. CASE n \in Cached(b)
    <3>1. buf'[n] = [buf[n] EXCEPT !.valid = FALSE, !.dirty = FALSE, !.data = Zero]
      BY <2>1, <2>3
    <3>2. QED BY <2>2, <3>1 DEF Buffers
  <2>4. CASE n \notin Cached(b)
    BY <2>1, <2>2, <2>4
  <2>5. QED BY <2>3, <2>4
<1>3. buf' \in [Bufs -> Buffers]
  BY <1>2 DEF BFree
<1>4. QED BY <1>1, <1>2, <1>3, StillStep

LEMMA PagesStep ==
  ASSUME CacheInv, Pages \/ UNCHANGED vars
  PROVE  CacheInv'
<1>1. buf \in [Bufs -> Buffers] /\ freed \subseteq Blocks /\ memory \in [pages : BOOLEAN, own : BOOLEAN]
  BY TypeNow DEF CacheInv
<1>2. UNCHANGED <<cpu, pc, chan, arg, buf, free, master, disk, mutex, freed>>
  BY DEF Pages, vars
<1>3. memory' \in [pages : BOOLEAN, own : BOOLEAN]
  BY <1>1 DEF Pages, vars
<1>4. \A n \in Bufs : buf[n].dirty => buf[n].valid
  BY DEF CacheInv, PlaceOK
<1>5. QED BY <1>1, <1>2, <1>3, <1>4, StillStep

(***************************************************************************)
(* The theorems about the state of the cache.                              *)
(***************************************************************************)
LEMMA CacheInvInit == Init => CacheInv
<1>1. SUFFICES ASSUME Init PROVE CacheInv
  OBVIOUS
<1>2. TypeOK
  <2>1. [n \in Bufs |-> n] \in Seq(Bufs) /\ <<>> \in Seq(Bufs)
    <3>1. NBuf \in Nat /\ Bufs = 1..NBuf
      BY BufferCacheAssumption DEF Bufs
    <3>2. QED BY <3>1
  <2>2. buf \in [Bufs -> Buffers] /\ disk \in [Blocks -> Values] /\ freed \subseteq Blocks
        /\ memory \in [pages : BOOLEAN, own : BOOLEAN] /\ mutex \in [Devices -> Nat]
    BY <1>1, BufferCacheAssumption DEF Init, Buffers
  <2>3. pc \in [Procs -> Labels] /\ chan \in [Procs -> Channels] /\ arg \in [Procs -> Frames]
    BY <1>1, NoFrameTyped, ChannelsDiffer DEF Init, Labels
  <2>4. QED BY <1>1, <2>1, <2>2, <2>3 DEF Init, TypeOK, Labels
<1>3. \A p \in Procs : FrameOK(p)
  BY <1>1, NoFrameTyped DEF Init, FrameOK, Calling, Syncing, InCall, Flushing
<1>4. Range(free) = {} /\ Range(master) = Bufs /\ IsInjective(free) /\ IsInjective(master)
  BY <1>1 DEF Init, Range, IsInjective
<1>5. \A p \in Procs : (\A n \in Bufs : ~Holds(p, n) /\ ~Sends(p, n)) /\ (\A d \in Devices : ~HasMutex(p, d))
  BY <1>1, NoFrameTyped DEF Init, Holds, Sends, HasMutex
<1>6. \A n \in Bufs : PlaceOK(n)
  BY <1>1, <1>4, <1>5 DEF Init, PlaceOK
<1>7. UniqueBuffer /\ NoLostWakeup
  BY <1>1, ChannelsDiffer DEF Init, UniqueBuffer, NoLostWakeup
<1>8. \A d \in Devices : MutexOK(d)
  BY <1>1, <1>5 DEF Init, MutexOK
<1>9. QED BY <1>2, <1>3, <1>4, <1>6, <1>7, <1>8 DEF CacheInv

LEMMA CacheInvStep == CacheInv /\ [Next]_vars => CacheInv'
<1> SUFFICES ASSUME CacheInv, [Next]_vars PROVE CacheInv'
  OBVIOUS
<1>1. ASSUME NEW p \in Procs, NEW b \in Blocks, NEW fill \in BOOLEAN, Call(p, b, fill) PROVE CacheInv'
  BY <1>1, CallStep
<1>2. ASSUME NEW p \in Procs, GetCached(p) \/ GetFromMaster(p) \/ GetFromFree(p) \/ GetNothing(p) PROVE CacheInv'
  BY <1>2, GetCachedStep, GetFromMasterStep, GetFromFreeStep, NothingStep
<1>3. ASSUME NEW p \in Procs, GetPostponed(p) PROVE CacheInv'
  BY <1>3, PostponedStep DEF GetPostponed, Missed
<1>4. ASSUME NEW p \in Procs, GetMemory(p) PROVE CacheInv'
  <2>1. CASE Runs(p, "get") /\ UNCHANGED <<chan, arg, cacheVars>>
    BY <1>4, <2>1, PostponedStep DEF GetMemory
  <2>2. CASE Walk(p, AnyDevice, ShrinkBatch, TRUE, "mem")
    BY <1>4, <2>2, WalkStep, BufferCacheAssumption DEF GetMemory
  <2>3. QED BY <1>4, <2>1, <2>2 DEF GetMemory
<1>5. ASSUME NEW p \in Procs, ReadDone(p) \/ Release(p) PROVE CacheInv'
  BY <1>5, ReadDoneStep, OnlyReadStep
<1>6. ASSUME NEW p \in Procs, NEW v \in Values, BufWrite(p, v) PROVE CacheInv'
  BY <1>6, BufWriteStep
<1>7. ASSUME NEW p \in Procs, WalkTake(p) \/ WalkSkip(p) \/ WalkRemove(p) PROVE CacheInv'
  BY <1>7, WalkTakeStep, SkipStep, WalkRemoveStep
<1>8. ASSUME NEW p \in Procs, WalkWrite(p) \/ WalkEnd(p) PROVE CacheInv'
  BY <1>8, SendStep, EndStep
<1>9. ASSUME NEW p \in Procs, WriteDone(p) \/ Unlock(p) \/ Restart(p) PROVE CacheInv'
  BY <1>9, DoneStep, UnlockStep, RestartStep
<1>10. ASSUME NEW p \in Procs, CallShrink(p) PROVE CacheInv'
  BY <1>10, ShrinkStep DEF CallShrink, Runs
<1>11. ASSUME NEW p \in Procs, Shrink(p) PROVE CacheInv'
  <2>1. CASE Yields(p, "idle") /\ UNCHANGED <<chan, arg, cacheVars>>
    BY <1>11, <2>1, ShrinkStep DEF Shrink, Yields
  <2>2. CASE Walk(p, AnyDevice, ShrinkBatch, TRUE, "shrink")
    BY <1>11, <2>2, WalkStep, BufferCacheAssumption DEF Shrink
  <2>3. QED BY <1>11, <2>1, <2>2 DEF Shrink
<1>12. ASSUME NEW p \in Procs, NEW d \in Devices, NEW remove \in BOOLEAN, CallSync(p, d, remove) PROVE CacheInv'
  BY <1>12, CallSyncStep
<1>13. ASSUME NEW p \in Procs, Sync(p) \/ Synced(p) PROVE CacheInv'
  BY <1>13, SyncStep, SyncedStep
<1>14. ASSUME NEW b \in Blocks, BFree(b) PROVE CacheInv'
  BY <1>14, FreeStep
<1>15. CASE Pages \/ UNCHANGED vars
  BY <1>15, PagesStep
<1>16. QED
  BY <1>1, <1>2, <1>3, <1>4, <1>5, <1>6, <1>7, <1>8, <1>9, <1>10, <1>11, <1>12, <1>13, <1>14, <1>15 DEF Next

\* How often a buffer is on a list on which nothing is twice.
LEMMA TimesOnList ==
  ASSUME NEW s \in Seq(Bufs), IsInjective(s), NEW n
  PROVE  Times(s, n) = IF n \in Range(s) THEN 1 ELSE 0
<1>1. CASE n \in Range(s)
  <2>1. PICK i \in DOMAIN s : s[i] = n
    BY <1>1 DEF Range
  <2>2. {j \in DOMAIN s : s[j] = n} = {i}
    BY <2>1 DEF IsInjective
  <2>3. QED BY <1>1, <2>2, FS_Singleton DEF Times
<1>2. CASE n \notin Range(s)
  <2>1. {j \in DOMAIN s : s[j] = n} = {}
    BY <1>2 DEF Range
  <2>2. QED BY <1>2, <2>1, FS_EmptySet DEF Times
<1>3. QED BY <1>1, <1>2

\* One process, or none, is a set of one element, or of none.
LEMMA OneOrNone ==
  ASSUME NEW S, \A x, y \in S : x = y
  PROVE  Cardinality(S) = IF S = {} THEN 0 ELSE 1
<1>1. CASE S = {}
  BY <1>1, FS_EmptySet
<1>2. CASE S # {}
  <2>1. PICK x : x \in S
    BY <1>2
  <2>2. S = {x}
    BY <2>1
  <2>3. QED BY <1>2, <2>2, FS_Singleton
<1>3. QED BY <1>1, <1>2

LEMMA CacheInvSound == CacheInv => BuffersSound
<1> SUFFICES ASSUME CacheInv PROVE BuffersSound
  OBVIOUS
<1>1. /\ TypeOK /\ free \in Seq(Bufs) /\ master \in Seq(Bufs)
      /\ IsInjective(free) /\ IsInjective(master) /\ UniqueBuffer
  BY TypeNow DEF CacheInv
<1>2. OnePlace
  <2>1. SUFFICES ASSUME NEW n \in Bufs
                 PROVE  LET holders == {p \in Procs : Holds(p, n)}
                            senders == {p \in Procs : Sends(p, n)}
                        IN /\ Times(free, n) + Times(master, n) + Cardinality(holders) = 1
                           /\ Cardinality(senders) <= Times(free, n)
                           /\ buf[n].busy <=> holders \union senders # {}
                           /\ buf[n].blk = NoBlock <=> Times(master, n) = 1
                           /\ buf[n].dirty => buf[n].valid /\ senders = {}
    BY DEF OnePlace
  <2> DEFINE holders == {p \in Procs : Holds(p, n)}
             senders == {p \in Procs : Sends(p, n)}
  <2>2. PlaceOK(n)
    BY DEF CacheInv
  <2>3. /\ Times(free, n) = IF n \in Range(free) THEN 1 ELSE 0
        /\ Times(master, n) = IF n \in Range(master) THEN 1 ELSE 0
    BY <1>1, TimesOnList
  <2>4. /\ \A p, q \in holders : p = q
        /\ \A p, q \in senders : p = q
    BY <2>2 DEF PlaceOK
  <2>5. /\ Cardinality(holders) = IF holders = {} THEN 0 ELSE 1
        /\ Cardinality(senders) = IF senders = {} THEN 0 ELSE 1
    <3> HIDE DEF holders, senders
    <3>1. QED BY <2>4, OneOrNone
  <2>6. /\ holders # {} <=> n \notin Range(free) /\ n \notin Range(master)
        /\ senders # {} => n \in Range(free)
        /\ buf[n].busy <=> holders \union senders # {}
        /\ buf[n].dirty => buf[n].valid /\ senders = {}
        /\ n \in Range(free) => n \notin Range(master)
        /\ buf[n].blk = NoBlock <=> n \in Range(master)
    BY <2>2 DEF PlaceOK
  <2> HIDE DEF holders, senders
  <2>7. /\ Times(free, n) + Times(master, n) + Cardinality(holders) = 1
        /\ Cardinality(senders) <= Times(free, n)
        /\ buf[n].blk = NoBlock <=> Times(master, n) = 1
    BY <2>3, <2>5, <2>6
  <2>8. QED BY <2>6, <2>7 DEF holders, senders
<1>3. SyncExclusive
  <2>1. SUFFICES ASSUME NEW d \in Devices PROVE mutex[d] + Cardinality({p \in Procs : HasMutex(p, d)}) = 1
    BY DEF SyncExclusive
  <2>2. MutexOK(d)
    BY DEF CacheInv
  <2> DEFINE H == {p \in Procs : HasMutex(p, d)}
  <2>3. \A p, q \in H : p = q
    BY <2>2 DEF MutexOK
  <2>4. (mutex[d] = 1 /\ H = {}) \/ (mutex[d] = 0 /\ H # {})
    BY <2>2 DEF MutexOK
  <2> HIDE DEF H
  <2>5. Cardinality(H) = IF H = {} THEN 0 ELSE 1
    BY <2>3, OneOrNone
  <2>6. mutex[d] + Cardinality(H) = 1
    BY <2>4, <2>5
  <2>7. QED BY <2>6 DEF H
<1>4. QED BY <1>1, <1>2, <1>3 DEF BuffersSound

LEMMA CacheInvariant == Spec => []CacheInv
<1>1. Init => CacheInv
  BY CacheInvInit
<1>2. CacheInv /\ [Next]_vars => CacheInv'
  BY CacheInvStep
<1>3. QED BY <1>1, <1>2, PTL DEF Spec

\* However buf_get(), buf_flush(), buf_shrink() and buf_sync_device() (fs/buffer.c) sleep
\* in between, a block is in one buffer, a buffer is in one place and busy exactly when a
\* process has it, and a device is synchronized by one process at a time.
THEOREM BuffersAlwaysSound == Spec => []BuffersSound
<1>1. CacheInv => BuffersSound
  BY CacheInvSound
<1>2. QED BY <1>1, CacheInvariant, PTL

\* Who sleeps in buf_get() or on the mutex of a device (fs/buffer.c) sleeps only while
\* what it waits for is taken, and whoever has it knows that it must wake a sleeper.
THEOREM NoWakeupLost == Spec => []NoLostWakeup
<1>1. CacheInv => NoLostWakeup
  BY DEF CacheInv
<1>2. QED BY <1>1, CacheInvariant, PTL

(***************************************************************************)
(* The data, when no write to the disk fails.                              *)
(***************************************************************************)
\* What p has yet to send to the disk, and what it is about to fill.
UnsentBy(p, n)  == pc[p] \in {"walk", "write"} /\ Sends(p, n)
FillingBy(p, n) == pc[p] = "hold" /\ arg[p].n = n /\ arg[p].fill
Unsent(n)  == \E p \in Procs : UnsentBy(p, n)
Filling(n) == \E p \in Procs : FillingBy(p, n)

\* A clean buffer is on the disk, unless its block is being written or filled.
CleanOK(n) == buf[n].valid /\ ~buf[n].dirty /\ buf[n].blk \in Blocks \ freed /\ ~Unsent(n) /\ ~Filling(n) =>
                  disk[buf[n].blk] = buf[n].data

\* Only a block that was freed since is written from a buffer without contents.
SendOK(n) == Unsent(n) => buf[n].valid \/ buf[n].blk \in freed

\* One process fills a block; who reads one or has one finds what it expects.
FillOK(p) ==
    /\ pc[p] = "read" => ~arg[p].fill /\ ~buf[arg[p].n].valid
    /\ arg[p].fill => /\ Calling(p)
                      /\ \A q \in Procs : arg[q].fill /\ arg[q].blk = arg[p].blk => p = q
                      /\ IF pc[p] = "hold" THEN arg[p].blk \notin freed /\ buf[arg[p].n].valid ELSE arg[p].blk \in freed
    /\ pc[p] = "hold" => arg[p].blk \in freed \/ buf[arg[p].n].valid

DataInv ==
    /\ \A n \in Bufs : CleanOK(n) /\ SendOK(n)
    /\ \A p \in Procs : FillOK(p)

\* What is proved of every step.
Faithful == DataInv' /\ Written /\ [Store!Next]_(Store!vars)

(***************************************************************************)
(* The contents of a block, and who has it.                                *)
(***************************************************************************)
\* What buffer n says of block b, or else the disk.
InBuffer(n, b) == IF buf[n].blk = b /\ buf[n].valid THEN buf[n].data ELSE disk[b]

\* Only n can have the block.
Only(n, b) == \A k \in Bufs : buf[k].blk = b => k = n

LEMMA ContentsOf ==
  \A b \in Blocks : /\ b \in freed => Contents[b] = NoBlock
                    /\ b \notin freed => \A n \in Bufs : Only(n, b) => Contents[b] = InBuffer(n, b)
<1>1. ASSUME NEW b \in Blocks, b \in freed PROVE Contents[b] = NoBlock
  BY <1>1 DEF Contents
<1>2. ASSUME NEW b \in Blocks, b \notin freed, NEW n \in Bufs, Only(n, b) PROVE Contents[b] = InBuffer(n, b)
  <2>1. CASE buf[n].blk = b /\ buf[n].valid
    <3>1. \A k \in Cached(b) : buf[k].valid => k = n
      BY <1>2 DEF Cached, Only
    <3>2. n \in Cached(b)
      BY <2>1 DEF Cached
    <3>3. (CHOOSE k \in Cached(b) : buf[k].valid) = n
      BY <2>1, <3>1, <3>2
    <3>4. QED BY <1>2, <2>1, <3>2, <3>3 DEF Contents, InBuffer
  <2>2. CASE ~(buf[n].blk = b /\ buf[n].valid)
    <3>1. ~\E k \in Cached(b) : buf[k].valid
      BY <1>2, <2>2 DEF Cached, Only
    <3>2. QED BY <1>2, <2>2, <3>1 DEF Contents, InBuffer
  <2>3. QED BY <2>1, <2>2
<1>3. QED BY <1>1, <1>2

LEMMA ContentsNext ==
  \A b \in Blocks : /\ b \in freed' => Contents'[b] = NoBlock
                    /\ b \notin freed' => \A n \in Bufs : Only(n, b)' => Contents'[b] = InBuffer(n, b)'
<1>1. (\A b \in Blocks : /\ b \in freed => Contents[b] = NoBlock
                         /\ b \notin freed => \A n \in Bufs : Only(n, b) => Contents[b] = InBuffer(n, b))'
  BY ContentsOf, PTL
<1>2. QED BY <1>1

LEMMA HolderOf ==
  ASSUME CacheInv, NEW b \in Blocks
  PROVE  /\ \A p \in Procs : pc[p] = "hold" /\ arg[p].blk = b =>
              Holder[b] = p /\ \A q \in Procs : pc[q] = "hold" /\ arg[q].blk = b => p = q
         /\ (\A p \in Procs : ~(pc[p] = "hold" /\ arg[p].blk = b)) => Holder[b] = Nobody
<1>1. ASSUME NEW p \in Procs, NEW q \in Procs, pc[p] = "hold", arg[p].blk = b, pc[q] = "hold", arg[q].blk = b
      PROVE  p = q
  <2>1. /\ arg[p].n \in Bufs /\ buf[arg[p].n].blk = b
        /\ arg[q].n \in Bufs /\ buf[arg[q].n].blk = b /\ b # NoBlock
    BY <1>1, BufferCacheAssumption DEF CacheInv, FrameOK
  <2>2. arg[p].n = arg[q].n
    BY <2>1 DEF CacheInv, UniqueBuffer
  <2>3. PICK n \in Bufs : n = arg[p].n
    BY <2>1
  <2>4. Holds(p, n) /\ Holds(q, n) /\ PlaceOK(n)
    BY <1>1, <2>2, <2>3 DEF Holds, CacheInv
  <2>5. QED BY <2>4 DEF PlaceOK
<1>2. ASSUME NEW p \in Procs, pc[p] = "hold", arg[p].blk = b PROVE Holder[b] = p
  <2>1. (CHOOSE q \in Procs : pc[q] = "hold" /\ arg[q].blk = b) = p
    BY <1>1, <1>2
  <2>2. QED BY <1>2, <2>1 DEF Holder
<1>3. ASSUME \A p \in Procs : ~(pc[p] = "hold" /\ arg[p].blk = b) PROVE Holder[b] = Nobody
  BY <1>3 DEF Holder
<1>4. QED BY <1>1, <1>2, <1>3

LEMMA HolderNext ==
  CacheInv' => \A b \in Blocks :
    /\ \A p \in Procs : pc'[p] = "hold" /\ arg'[p].blk = b =>
         Holder'[b] = p /\ \A q \in Procs : pc'[q] = "hold" /\ arg'[q].blk = b => p = q
    /\ (\A p \in Procs : ~(pc'[p] = "hold" /\ arg'[p].blk = b)) => Holder'[b] = Nobody
<1>1. CacheInv => \A b \in Blocks :
        /\ \A p \in Procs : pc[p] = "hold" /\ arg[p].blk = b =>
             Holder[b] = p /\ \A q \in Procs : pc[q] = "hold" /\ arg[q].blk = b => p = q
        /\ (\A p \in Procs : ~(pc[p] = "hold" /\ arg[p].blk = b)) => Holder[b] = Nobody
  BY HolderOf
<1>2. (CacheInv => \A b \in Blocks :
        /\ \A p \in Procs : pc[p] = "hold" /\ arg[p].blk = b =>
             Holder[b] = p /\ \A q \in Procs : pc[q] = "hold" /\ arg[q].blk = b => p = q
        /\ (\A p \in Procs : ~(pc[p] = "hold" /\ arg[p].blk = b)) => Holder[b] = Nobody)'
  BY <1>1, PTL
<1>3. QED BY <1>2

\* p takes a step, and nobody else does.
Alone(p) == \A q \in Procs \ {p} : pc'[q] = pc[q] /\ arg'[q] = arg[q]

LEMMA HolderKept ==
  ASSUME CacheInv, CacheInv', NEW p \in Procs, Alone(p), pc[p] # "hold", pc'[p] # "hold"
  PROVE  Holder' = Holder
<1>1. ASSUME NEW b \in Blocks PROVE Holder'[b] = Holder[b]
  <2>1. \A q \in Procs : pc'[q] = "hold" /\ arg'[q].blk = b <=> pc[q] = "hold" /\ arg[q].blk = b
    BY DEF Alone
  <2>2. CASE \E q \in Procs : pc[q] = "hold" /\ arg[q].blk = b
    BY <2>1, <2>2, HolderOf, HolderNext
  <2>3. CASE \A q \in Procs : ~(pc[q] = "hold" /\ arg[q].blk = b)
    BY <2>1, <2>3, HolderOf, HolderNext
  <2>4. QED BY <2>2, <2>3
<1>2. Holder = [b \in Blocks |-> Holder[b]] /\ Holder' = [b \in Blocks |-> Holder'[b]]
  BY DEF Holder
<1>3. QED BY <1>1, <1>2

LEMMA HolderGets ==
  ASSUME CacheInv, CacheInv', NEW p \in Procs, Alone(p), pc[p] # "hold", pc'[p] = "hold",
         NEW b \in Blocks, arg'[p].blk = b
  PROVE  Holder[b] = Nobody /\ Holder' = [Holder EXCEPT ![b] = p]
<1>1. Holder'[b] = p /\ \A q \in Procs : pc'[q] = "hold" /\ arg'[q].blk = b => p = q
  BY HolderNext
<1>2. Holder[b] = Nobody
  <2>1. \A q \in Procs : ~(pc[q] = "hold" /\ arg[q].blk = b)
    BY <1>1 DEF Alone
  <2>2. QED BY <2>1, HolderOf
<1>3. ASSUME NEW c \in Blocks \ {b} PROVE Holder'[c] = Holder[c]
  <2>1. \A q \in Procs : pc'[q] = "hold" /\ arg'[q].blk = c <=> pc[q] = "hold" /\ arg[q].blk = c
    BY DEF Alone
  <2>2. CASE \E q \in Procs : pc[q] = "hold" /\ arg[q].blk = c
    BY <2>1, <2>2, HolderOf, HolderNext
  <2>3. CASE \A q \in Procs : ~(pc[q] = "hold" /\ arg[q].blk = c)
    BY <2>1, <2>3, HolderOf, HolderNext
  <2>4. QED BY <2>2, <2>3
<1>4. Holder = [c \in Blocks |-> Holder[c]] /\ Holder' = [c \in Blocks |-> Holder'[c]]
  BY DEF Holder
<1>5. QED BY <1>1, <1>2, <1>3, <1>4

LEMMA HolderLoses ==
  ASSUME CacheInv, CacheInv', NEW p \in Procs, Alone(p), pc[p] = "hold", pc'[p] # "hold",
         NEW b \in Blocks, arg[p].blk = b
  PROVE  Holder[b] = p /\ Holder' = [Holder EXCEPT ![b] = Nobody]
<1>1. Holder[b] = p /\ \A q \in Procs : pc[q] = "hold" /\ arg[q].blk = b => p = q
  BY HolderOf
<1>2. Holder'[b] = Nobody
  <2>1. \A q \in Procs : ~(pc'[q] = "hold" /\ arg'[q].blk = b)
    BY <1>1 DEF Alone
  <2>2. QED BY <2>1, HolderNext
<1>3. ASSUME NEW c \in Blocks \ {b} PROVE Holder'[c] = Holder[c]
  <2>1. \A q \in Procs : pc'[q] = "hold" /\ arg'[q].blk = c <=> pc[q] = "hold" /\ arg[q].blk = c
    BY DEF Alone
  <2>2. CASE \E q \in Procs : pc[q] = "hold" /\ arg[q].blk = c
    BY <2>1, <2>2, HolderOf, HolderNext
  <2>3. CASE \A q \in Procs : ~(pc[q] = "hold" /\ arg[q].blk = c)
    BY <2>1, <2>3, HolderOf, HolderNext
  <2>4. QED BY <2>2, <2>3
<1>4. Holder = [c \in Blocks |-> Holder[c]] /\ Holder' = [c \in Blocks |-> Holder'[c]]
  BY DEF Holder
<1>5. QED BY <1>1, <1>2, <1>3, <1>4

(***************************************************************************)
(* A step that concerns the data of one buffer, and not the disk.          *)
(***************************************************************************)
SameData(n) == /\ buf'[n].blk = buf[n].blk /\ buf'[n].valid = buf[n].valid
               /\ buf'[n].dirty = buf[n].dirty /\ buf'[n].data = buf[n].data

OneBuffer(p, m) ==
    /\ Alone(p) /\ disk' = disk
    /\ \A n \in Bufs \ {m} : /\ SameData(n)
                             /\ UnsentBy(p, n)' <=> UnsentBy(p, n)
                             /\ FillingBy(p, n)' <=> FillingBy(p, n)
                             /\ buf[n].blk \in freed' <=> buf[n].blk \in freed

\* What p does leaves what the others expect.
Others(p, m) ==
    \A q \in Procs \ {p} :
      /\ arg'[p].fill /\ arg[q].fill => arg'[p].blk # arg[q].blk
      /\ arg[q].fill => (arg[q].blk \in freed' <=> arg[q].blk \in freed)
      /\ pc[q] \in {"read", "hold"} /\ arg[q].n = m =>
           /\ buf'[m].valid = buf[m].valid
           /\ arg[q].blk \in freed' <=> arg[q].blk \in freed

LEMMA DataKept ==
  ASSUME CacheInv, DataInv, NEW p \in Procs, NEW m \in Bufs, OneBuffer(p, m), Others(p, m),
         CleanOK(m)', SendOK(m)', FillOK(p)'
  PROVE  DataInv'
<1>1. ASSUME NEW n \in Bufs PROVE CleanOK(n)' /\ SendOK(n)'
  <2>1. CASE n = m
    BY <2>1
  <2>2. CASE n # m
    <3>1. \A q \in Procs : (UnsentBy(q, n)' <=> UnsentBy(q, n)) /\ (FillingBy(q, n)' <=> FillingBy(q, n))
      <4>1. ASSUME NEW q \in Procs \ {p}
            PROVE  (UnsentBy(q, n)' <=> UnsentBy(q, n)) /\ (FillingBy(q, n)' <=> FillingBy(q, n))
        BY DEF OneBuffer, Alone, UnsentBy, FillingBy, Sends
      <4>2. QED BY <2>2, <4>1 DEF OneBuffer
    <3>2. (Unsent(n)' <=> Unsent(n)) /\ (Filling(n)' <=> Filling(n))
      BY <3>1 DEF Unsent, Filling
    <3>3. SameData(n) /\ disk' = disk /\ (buf[n].blk \in freed' <=> buf[n].blk \in freed)
      BY <2>2 DEF OneBuffer
    <3>4. CleanOK(n) /\ SendOK(n)
      BY DEF DataInv
    <3>5. QED BY <3>2, <3>3, <3>4 DEF CleanOK, SendOK, SameData
  <2>3. QED BY <2>1, <2>2
<1>2. ASSUME NEW q \in Procs \ {p} PROVE FillOK(q)'
  <2>1. /\ FillOK(q) /\ pc'[q] = pc[q] /\ arg'[q] = arg[q] /\ \A r \in Procs \ {p} : arg'[r] = arg[r]
    BY DEF DataInv, OneBuffer, Alone
  <2>2. Calling(q) => Calling(q)'
    BY <2>1 DEF Calling
  <2>3. arg[q].fill => \A r \in Procs : arg'[r].fill /\ arg'[r].blk = arg[q].blk => q = r
    BY <2>1 DEF FillOK, Others
  <2>4. pc[q] \in {"read", "hold"} => /\ buf'[arg[q].n].valid = buf[arg[q].n].valid
                                      /\ arg[q].blk \in freed' <=> arg[q].blk \in freed
    <3>1. pc[q] \in {"read", "hold"} => arg[q].n \in Bufs /\ buf[arg[q].n].blk = arg[q].blk
      BY DEF CacheInv, FrameOK
    <3>2. CASE arg[q].n = m
      BY <3>2 DEF Others
    <3>3. CASE arg[q].n # m
      BY <3>1, <3>3 DEF OneBuffer, SameData
    <3>4. QED BY <3>2, <3>3
  <2>5. arg[q].fill => (arg[q].blk \in freed' <=> arg[q].blk \in freed)
    BY DEF Others
  <2>6. QED BY <2>1, <2>2, <2>3, <2>4, <2>5 DEF FillOK
<1>3. QED BY <1>1, <1>2 DEF DataInv

LEMMA ContentsKept ==
  ASSUME CacheInv, CacheInv', NEW p \in Procs, NEW m \in Bufs, OneBuffer(p, m),
         NEW b \in Blocks, b \notin freed, b \notin freed', InBuffer(m, b)' = InBuffer(m, b)
  PROVE  Contents'[b] = Contents[b]
<1>1. /\ UniqueBuffer /\ UniqueBuffer' /\ b # NoBlock /\ disk' = disk
      /\ \A n \in Bufs \ {m} : SameData(n)
  BY BufferCacheAssumption DEF CacheInv, OneBuffer
<1>2. CASE \E n \in Bufs \ {m} : buf[n].blk = b
  <2>1. PICK n \in Bufs \ {m} : buf[n].blk = b
    BY <1>2
  <2>2. Only(n, b) /\ Only(n, b)'
    BY <1>1, <2>1 DEF Only, UniqueBuffer, SameData
  <2>3. InBuffer(n, b)' = InBuffer(n, b)
    BY <1>1, <2>1 DEF InBuffer, SameData
  <2>4. QED BY <2>2, <2>3, ContentsOf, ContentsNext
<1>3. CASE \A n \in Bufs \ {m} : buf[n].blk # b
  <2>1. Only(m, b) /\ Only(m, b)'
    BY <1>1, <1>3 DEF Only, SameData
  <2>2. QED BY <2>1, ContentsOf, ContentsNext
<1>4. QED BY <1>2, <1>3

LEMMA ContentsSame ==
  ASSUME CacheInv, CacheInv', NEW p \in Procs, NEW m \in Bufs, OneBuffer(p, m), freed' = freed,
         \A b \in Blocks \ freed : InBuffer(m, b)' = InBuffer(m, b)
  PROVE  Contents' = Contents
<1>1. ASSUME NEW b \in Blocks PROVE Contents'[b] = Contents[b]
  <2>1. CASE b \in freed
    BY <2>1, ContentsOf, ContentsNext
  <2>2. CASE b \notin freed
    BY <2>2, ContentsKept
  <2>3. QED BY <2>1, <2>2
<1>2. Contents = [b \in Blocks |-> Contents[b]] /\ Contents' = [b \in Blocks |-> Contents'[b]]
  BY DEF Contents
<1>3. QED BY <1>1, <1>2

LEMMA WrittenKept ==
  ASSUME NEW p \in Procs, NEW m \in Bufs, OneBuffer(p, m),
         buf'[m].blk = buf[m].blk \/ buf[m].blk = NoBlock \/
           (buf[m].valid /\ buf[m].blk \notin freed => disk[buf[m].blk] = buf[m].data)
  PROVE  Written
BY DEF Written, OneBuffer, SameData

\* A clean buffer that nobody has is on the disk.
LEMMA CleanOnDisk ==
  ASSUME CacheInv, DataInv, NEW n \in Bufs, ~buf[n].dirty, ~Unsent(n), ~Filling(n)
  PROVE  /\ buf[n].blk # NoBlock /\ buf[n].valid /\ buf[n].blk \notin freed => disk[buf[n].blk] = buf[n].data
         /\ \A b \in Blocks \ freed : InBuffer(n, b) = disk[b]
<1>1. CleanOK(n) /\ buf[n].blk \in Blocks \union {NoBlock}
  BY TypeNow DEF CacheInv, DataInv, Buffers
<1>2. QED BY <1>1 DEF CleanOK, InBuffer

(***************************************************************************)
(* A process goes on, and the data stays, or leaves a buffer.              *)
(***************************************************************************)
Passes(p) ==
    /\ Alone(p) /\ UNCHANGED <<disk, freed>>
    /\ pc[p] \notin {"read", "hold"} /\ pc'[p] \notin {"read", "hold"}
    /\ arg'[p].fill => /\ Calling(p)' /\ arg'[p].blk \in freed
                       /\ \A q \in Procs \ {p} : arg[q].fill => arg'[p].blk # arg[q].blk
    /\ \A n \in Bufs : UnsentBy(p, n)' <=> UnsentBy(p, n)

LEMMA PassesFill ==
  ASSUME CacheInv, DataInv, NEW p \in Procs, Passes(p)
  PROVE  /\ FillOK(p)' /\ \A m \in Bufs : ~FillingBy(p, m) /\ ~FillingBy(p, m)'
         /\ \A q \in Procs \ {p} : /\ arg'[p].fill /\ arg[q].fill => arg'[p].blk # arg[q].blk
                                   /\ arg[q].blk \in freed' <=> arg[q].blk \in freed
<1>1. \A m \in Bufs : ~FillingBy(p, m) /\ ~FillingBy(p, m)'
  BY DEF FillingBy, Passes
<1>2. \A q \in Procs \ {p} : /\ arg'[p].fill /\ arg[q].fill => arg'[p].blk # arg[q].blk
                             /\ arg[q].blk \in freed' <=> arg[q].blk \in freed
  BY DEF Passes
<1>3. FillOK(p)'
  BY <1>2 DEF FillOK, Passes, Alone
<1>4. QED BY <1>1, <1>2, <1>3

LEMMA Stutters ==
  ASSUME Contents' = Contents, Holder' = Holder
  PROVE  [Store!Next]_(Store!vars)
BY DEF Store!vars

LEMMA Quiet ==
  ASSUME CacheInv, CacheInv', DataInv, NEW p \in Procs, Passes(p), \A n \in Bufs : SameData(n)
  PROVE  Faithful
<1>1. PICK m \in Bufs : m = 1
  BY BufferCacheAssumption DEF Bufs
<1>2. OneBuffer(p, m)
  BY PassesFill DEF Passes, OneBuffer
<1>3. Others(p, m) /\ FillOK(p)'
  BY PassesFill DEF Others, SameData
<1>4. /\ CleanOK(m) /\ SendOK(m) /\ SameData(m) /\ UNCHANGED <<disk, freed>>
  BY DEF DataInv, Passes
<1>5. (Unsent(m)' <=> Unsent(m)) /\ (Filling(m)' <=> Filling(m))
  <2>1. ASSUME NEW q \in Procs \ {p}
        PROVE  (UnsentBy(q, m)' <=> UnsentBy(q, m)) /\ (FillingBy(q, m)' <=> FillingBy(q, m))
    BY DEF Passes, Alone, UnsentBy, FillingBy, Sends
  <2>2. (UnsentBy(p, m)' <=> UnsentBy(p, m)) /\ (FillingBy(p, m)' <=> FillingBy(p, m))
    BY PassesFill DEF Passes
  <2>3. QED BY <2>1, <2>2 DEF Unsent, Filling
<1>6. CleanOK(m)' /\ SendOK(m)'
  BY <1>4, <1>5 DEF CleanOK, SendOK, SameData
<1>7. DataInv'
  BY <1>2, <1>3, <1>6, DataKept
<1>8. Written
  BY <1>2, <1>4, WrittenKept DEF SameData
<1>9. Contents' = Contents
  <2>1. \A b \in Blocks \ freed : InBuffer(m, b)' = InBuffer(m, b)
    BY <1>4 DEF InBuffer, SameData
  <2>2. QED BY <1>2, <1>4, <2>1, ContentsSame
<1>10. Holder' = Holder
  BY HolderKept DEF Passes
<1>11. QED BY <1>7, <1>8, <1>9, <1>10, Stutters DEF Faithful

LEMMA Evicted ==
  ASSUME CacheInv, CacheInv', DataInv, NEW p \in Procs, Passes(p), NEW m \in Bufs,
         \A n \in Bufs \ {m} : buf'[n] = buf[n], buf'[m].blk = NoBlock,
         ~buf[m].dirty, ~Unsent(m), ~Filling(m)
  PROVE  Faithful
<1>1. OneBuffer(p, m)
  BY PassesFill DEF Passes, OneBuffer, SameData
<1>2. Others(p, m) /\ FillOK(p)'
  <2>1. \A q \in Procs \ {p} : ~(pc[q] \in {"read", "hold"} /\ arg[q].n = m)
    <3>1. ASSUME NEW q \in Procs \ {p}, pc[q] \in {"read", "hold"}, arg[q].n = m PROVE FALSE
      <4>1. FrameOK(q)' /\ pc'[q] = pc[q] /\ arg'[q] = arg[q] /\ FrameOK(q)
        BY DEF CacheInv, Passes, Alone
      <4>2. arg[q].blk = NoBlock /\ arg[q].blk \in Blocks
        BY <3>1, <4>1 DEF FrameOK, Calling, InCall
      <4>3. QED BY <4>2, BufferCacheAssumption
    <3>2. QED BY <3>1
  <2>2. QED BY <2>1, PassesFill DEF Others
<1>3. /\ UNCHANGED <<disk, freed>> /\ Alone(p) /\ NoBlock \notin Blocks
      /\ \A n \in Bufs : UnsentBy(p, n)' <=> UnsentBy(p, n)
  BY BufferCacheAssumption DEF Passes
<1>4. CleanOK(m)' /\ SendOK(m)'
  <2>1. ~Unsent(m)'
    BY <1>3 DEF Unsent, UnsentBy, Sends, Alone
  <2>2. QED BY <1>3, <2>1 DEF CleanOK, SendOK
<1>5. DataInv'
  BY <1>1, <1>2, <1>4, DataKept
<1>6. /\ buf[m].blk # NoBlock /\ buf[m].valid /\ buf[m].blk \notin freed => disk[buf[m].blk] = buf[m].data
      /\ \A b \in Blocks \ freed : InBuffer(m, b) = disk[b]
  BY CleanOnDisk
<1>7. Written
  BY <1>1, <1>6, WrittenKept
<1>8. Contents' = Contents
  <2>1. \A b \in Blocks \ freed : InBuffer(m, b)' = InBuffer(m, b)
    BY <1>3, <1>6 DEF InBuffer
  <2>2. QED BY <1>1, <1>3, <2>1, ContentsSame
<1>9. Holder' = Holder
  BY HolderKept DEF Passes
<1>10. QED BY <1>5, <1>7, <1>8, <1>9, Stutters DEF Faithful

\* p stays where it is, or goes on with its frame.
LEMMA StayQuiet ==
  ASSUME CacheInv, CacheInv', DataInv, NEW p \in Procs, NEW l0, NEW l \in Labels, pc[p] = l0,
         pc' = [pc EXCEPT ![p] = l], UNCHANGED <<arg, disk, freed>>, \A n \in Bufs : SameData(n),
         <<l0, l>> \in {<<"get", "get">>, <<"get", "mem">>, <<"mem", "get">>, <<"walk", "write">>,
                        <<"idle", "shrink">>, <<"shrink", "idle">>}
  PROVE  Faithful
<1>1. pc'[p] = l /\ Alone(p) /\ FillOK(p)
  BY TypeNow DEF CacheInv, Alone, DataInv
<1>2. Calling(p) => Calling(p)'
  BY <1>1 DEF Calling, InCall, Flushing
<1>3. \A n \in Bufs : UnsentBy(p, n)' <=> UnsentBy(p, n)
  BY <1>1 DEF UnsentBy, Sends
<1>4. Passes(p)
  BY <1>1, <1>2, <1>3 DEF Passes, FillOK
<1>5. QED BY <1>4, Quiet

LEMMA WalkQuiet ==
  ASSUME CacheInv, CacheInv', DataInv, NEW p \in Procs, NEW l \in {"get", "mem", "shrink", "sync"}, At(p, l),
         NEW dev, NEW count, NEW remove,
         NEW back \in {"get", "mem", "shrink", "synced"}, Walk(p, dev, count, remove, back),
         l \in {"get", "mem"} => back \in {"get", "mem"}
  PROVE  Faithful
<1> DEFINE f == [arg[p] EXCEPT !.dev = dev, !.count = count, !.asked = count, !.remove = remove,
                               !.req = <<>>, !.back = back, !.next = First]
<1>1. /\ pc[p] = l /\ pc' = [pc EXCEPT ![p] = "walk"] /\ arg' = [arg EXCEPT ![p] = f]
      /\ UNCHANGED cacheVars /\ arg[p] \in Frames
  BY TypeNow DEF Walk, Runs, At, CacheInv
<1>2. f.req = <<>> /\ f.blk = arg[p].blk /\ f.fill = arg[p].fill /\ f.back = back
  BY <1>1 DEF Frames
<1> HIDE DEF f
<1>3. pc'[p] = "walk" /\ arg'[p] = f /\ Alone(p) /\ FillOK(p)
  BY <1>1, TypeNow DEF CacheInv, Alone, DataInv
<1>4. Calling(p) => Calling(p)'
  BY <1>1, <1>2, <1>3 DEF Calling, InCall, Flushing
<1>5. \A n \in Bufs : ~UnsentBy(p, n)' /\ ~UnsentBy(p, n)
  BY <1>1, <1>2, <1>3 DEF UnsentBy, Sends
<1>6. Passes(p) /\ \A n \in Bufs : SameData(n)
  BY <1>1, <1>2, <1>3, <1>4, <1>5 DEF Passes, FillOK, SameData, cacheVars
<1>7. QED BY <1>6, Quiet

LEMMA QuietSteps ==
  ASSUME CacheInv, CacheInv', DataInv, NEW p \in Procs,
         GetPostponed(p) \/ GetMemory(p) \/ GetNothing(p) \/ WalkWrite(p) \/ CallShrink(p) \/ Shrink(p) \/ Sync(p)
  PROVE  Faithful
<1>1. pc \in [Procs -> Labels]
  BY TypeNow DEF CacheInv
<1>2. ASSUME UNCHANGED cacheVars PROVE UNCHANGED <<disk, freed>> /\ \A n \in Bufs : SameData(n)
  BY <1>2 DEF cacheVars, SameData
<1>3. CASE GetPostponed(p)
  BY <1>2, <1>3, StayQuiet DEF GetPostponed, Missed, At, Runs, Labels
<1>4. CASE GetMemory(p)
  <2>1. CASE Runs(p, "get") /\ UNCHANGED <<chan, arg, cacheVars>>
    BY <1>2, <1>4, <2>1, StayQuiet DEF GetMemory, At, Runs, Labels
  <2>2. CASE Walk(p, AnyDevice, ShrinkBatch, TRUE, "mem")
    BY <1>4, <2>2, WalkQuiet DEF GetMemory
  <2>3. QED BY <1>4, <2>1, <2>2 DEF GetMemory
<1>5. CASE GetNothing(p)
  <2>1. pc' = [pc EXCEPT ![p] = "get"] /\ pc[p] = "get" /\ arg' = arg /\ UNCHANGED cacheVars
    BY <1>1, <1>5 DEF GetNothing, Missed, At, SleepsOn, cacheVars
  <2>2. QED BY <1>2, <2>1, StayQuiet DEF Labels
<1>6. CASE WalkWrite(p)
  BY <1>2, <1>6, StayQuiet DEF WalkWrite, At, Yields, Labels
<1>7. CASE CallShrink(p)
  BY <1>2, <1>7, StayQuiet DEF CallShrink, At, Runs, Labels
<1>8. CASE Shrink(p)
  <2>1. CASE Yields(p, "idle") /\ UNCHANGED <<chan, arg, cacheVars>>
    BY <1>2, <1>8, <2>1, StayQuiet DEF Shrink, At, Yields, Labels
  <2>2. CASE Walk(p, AnyDevice, ShrinkBatch, TRUE, "shrink")
    BY <1>8, <2>2, WalkQuiet DEF Shrink
  <2>3. QED BY <1>8, <2>1, <2>2 DEF Shrink
<1>9. CASE Sync(p)
  <2>1. At(p, "sync") /\ Walk(p, arg[p].dev, IF arg[p].remove THEN 2 * NBuf ELSE DelayedWrites, arg[p].remove, "synced")
    BY <1>9 DEF Sync
  <2>2. QED BY <2>1, WalkQuiet
<1>10. QED BY <1>3, <1>4, <1>5, <1>6, <1>7, <1>8, <1>9

LEMMA WaitQuiet ==
  ASSUME CacheInv, CacheInv', DataInv, NEW p \in Procs, At(p, "get"), NEW n \in Bufs, WaitFor(p, n)
  PROVE  Faithful
<1>1. pc \in [Procs -> Labels] /\ buf \in [Bufs -> Buffers]
  BY TypeNow DEF CacheInv
<1>2. pc[p] = "get" /\ pc' = [pc EXCEPT ![p] = "get"] /\ UNCHANGED <<arg, disk, freed>>
      /\ buf' = [buf EXCEPT ![n].demand = TRUE]
  BY <1>1 DEF WaitFor, SleepsOn, At
<1>3. \A m \in Bufs : SameData(m)
  BY <1>1, <1>2 DEF Buffers, SameData
<1>4. QED BY <1>2, <1>3, StayQuiet DEF Labels

LEMMA SkipQuiet ==
  ASSUME CacheInv, CacheInv', DataInv, NEW p \in Procs, WalkSkip(p)
  PROVE  Faithful
<1> DEFINE f == [arg[p] EXCEPT !.next = After(arg[p].next)]
<1>1. pc[p] = "walk" /\ pc' = pc /\ arg' = [arg EXCEPT ![p] = f] /\ UNCHANGED cacheVars /\ arg[p] \in Frames
  BY TypeNow DEF WalkSkip, Walking, At, CacheInv
<1>2. f.req = arg[p].req /\ f.blk = arg[p].blk /\ f.fill = arg[p].fill /\ f.back = arg[p].back
  BY <1>1 DEF Frames
<1> HIDE DEF f
<1>3. arg'[p] = f /\ Alone(p) /\ FillOK(p)
  BY <1>1, TypeNow DEF CacheInv, Alone, DataInv
<1>4. (Calling(p) => Calling(p)') /\ \A n \in Bufs : UnsentBy(p, n)' <=> UnsentBy(p, n)
  BY <1>1, <1>2, <1>3 DEF Calling, InCall, Flushing, UnsentBy, Sends
<1>5. Passes(p) /\ \A n \in Bufs : SameData(n)
  BY <1>1, <1>2, <1>3, <1>4 DEF Passes, FillOK, SameData, cacheVars
<1>6. QED BY <1>5, Quiet

LEMMA RestartQuiet ==
  ASSUME CacheInv, CacheInv', DataInv, NEW p \in Procs, Restart(p)
  PROVE  Faithful
<1> DEFINE f == [arg[p] EXCEPT !.next = First]
<1>1. /\ pc[p] = "unlock" /\ pc' = [pc EXCEPT ![p] = "walk"] /\ arg' = [arg EXCEPT ![p] = f]
      /\ UNCHANGED cacheVars /\ arg[p] \in Frames /\ arg[p].req = <<>>
  BY TypeNow DEF Restart, Runs, At, CacheInv
<1>2. f.req = <<>> /\ f.blk = arg[p].blk /\ f.fill = arg[p].fill /\ f.back = arg[p].back
  BY <1>1 DEF Frames
<1> HIDE DEF f
<1>3. arg'[p] = f /\ pc'[p] = "walk" /\ Alone(p) /\ FillOK(p)
  BY <1>1, TypeNow DEF CacheInv, Alone, DataInv
<1>4. (Calling(p) => Calling(p)') /\ \A n \in Bufs : ~UnsentBy(p, n)' /\ ~UnsentBy(p, n)
  BY <1>1, <1>2, <1>3 DEF Calling, InCall, Flushing, UnsentBy, Sends
<1>5. Passes(p) /\ \A n \in Bufs : SameData(n)
  BY <1>1, <1>2, <1>3, <1>4 DEF Passes, FillOK, SameData, cacheVars
<1>6. QED BY <1>5, Quiet

LEMMA EndQuiet ==
  ASSUME CacheInv, CacheInv', DataInv, NEW p \in Procs, WalkEnd(p)
  PROVE  Faithful
<1> DEFINE f == [NoFrame EXCEPT !.blk = arg[p].blk, !.fill = arg[p].fill, !.dev = arg[p].dev]
<1>1. /\ pc[p] = "walk" /\ arg' = [arg EXCEPT ![p] = f] /\ UNCHANGED cacheVars /\ arg[p] \in Frames
      /\ arg[p].req = <<>> /\ arg[p].back \in {"get", "mem", "shrink", "synced"}
  BY TypeNow DEF WalkEnd, At, CacheInv, FrameOK, Frames, Flushing
<1>2. PICK l \in {"get", "mem", "shrink", "synced", "idle"} :
        /\ pc' = [pc EXCEPT ![p] = l]
        /\ arg[p].back \in {"get", "mem"} => l \in {"get", "mem"}
  BY <1>1 DEF WalkEnd, Runs, Yields
<1>3. f.req = <<>> /\ f.blk = arg[p].blk /\ f.fill = arg[p].fill
  BY <1>1, NoFrameTyped DEF Frames
<1> HIDE DEF f
<1>4. arg'[p] = f /\ pc'[p] = l /\ Alone(p) /\ FillOK(p)
  BY <1>1, <1>2, TypeNow DEF CacheInv, Alone, DataInv
<1>5. (Calling(p) => Calling(p)') /\ \A n \in Bufs : ~UnsentBy(p, n)' /\ ~UnsentBy(p, n)
  BY <1>1, <1>2, <1>3, <1>4 DEF Calling, InCall, Flushing, UnsentBy, Sends
<1>6. Passes(p) /\ \A n \in Bufs : SameData(n)
  BY <1>1, <1>2, <1>3, <1>4, <1>5 DEF Passes, FillOK, SameData, cacheVars
<1>7. QED BY <1>6, Quiet

\* p has no buffer to fill, and nothing to send.
LEMMA OutsideQuiet ==
  ASSUME CacheInv, CacheInv', DataInv, NEW p \in Procs,
         Synced(p) \/ \E d \in Devices, remove \in BOOLEAN : CallSync(p, d, remove)
  PROVE  Faithful
<1>1. /\ pc[p] \in {"idle", "synced"} /\ pc \in [Procs -> Labels] /\ arg \in [Procs -> Frames]
      /\ UNCHANGED <<buf, disk, freed>>
  BY TypeNow DEF CallSync, Synced, At, CacheInv
<1>2. PICK l \in {"idle", "sync"} : pc' = [pc EXCEPT ![p] = l]
  BY DEF CallSync, Synced, Yields
<1>3. ~arg[p].fill
  BY <1>1 DEF DataInv, FillOK, Calling, InCall, Flushing
<1>4. ~arg'[p].fill /\ Alone(p)
  <2>1. CASE Synced(p)
    BY <1>1, <1>2, <2>1, NoFrameTyped DEF Synced, NoFrame, Alone
  <2>2. ASSUME NEW d \in Devices, NEW remove \in BOOLEAN, CallSync(p, d, remove) PROVE ~arg'[p].fill /\ Alone(p)
    <3> DEFINE f == [arg[p] EXCEPT !.dev = d, !.remove = remove]
    <3>1. arg' = [arg EXCEPT ![p] = f]
      BY <2>2 DEF CallSync
    <3>2. f.fill = arg[p].fill
      BY <1>1 DEF Frames
    <3> HIDE DEF f
    <3>3. QED BY <1>1, <1>2, <1>3, <3>1, <3>2 DEF Alone
  <2>3. QED BY <2>1, <2>2
<1>5. \A n \in Bufs : ~UnsentBy(p, n)' /\ ~UnsentBy(p, n)
  BY <1>1, <1>2 DEF UnsentBy
<1>6. Passes(p) /\ \A n \in Bufs : SameData(n)
  BY <1>1, <1>2, <1>4, <1>5 DEF Passes, SameData
<1>7. QED BY <1>6, Quiet

LEMMA CallQuiet ==
  ASSUME CacheInv, CacheInv', DataInv, NEW p \in Procs, NEW b \in Blocks, NEW fill \in BOOLEAN, Call(p, b, fill)
  PROVE  Faithful
<1> DEFINE f == [NoFrame EXCEPT !.blk = b, !.fill = fill]
<1>1. /\ pc[p] = "idle" /\ pc' = [pc EXCEPT ![p] = "get"] /\ arg' = [arg EXCEPT ![p] = f] /\ UNCHANGED cacheVars
      /\ fill => b \in freed /\ \A q \in Procs : ~(arg[q].fill /\ arg[q].blk = b)
  BY DEF Call, Runs, At
<1>2. f.req = <<>> /\ f.blk = b /\ f.fill = fill
  BY NoFrameTyped DEF Frames
<1> HIDE DEF f
<1>3. arg'[p] = f /\ pc'[p] = "get" /\ Alone(p)
  BY <1>1, TypeNow DEF CacheInv, Alone
<1>4. Calling(p)' /\ \A n \in Bufs : ~UnsentBy(p, n)' /\ ~UnsentBy(p, n)
  BY <1>1, <1>3 DEF Calling, InCall, UnsentBy
<1>5. Passes(p) /\ \A n \in Bufs : SameData(n)
  BY <1>1, <1>2, <1>3, <1>4 DEF Passes, SameData, cacheVars
<1>6. QED BY <1>5, Quiet

\* buf_flush() takes the memory of a buffer.
LEMMA RemoveEvicts ==
  ASSUME CacheInv, CacheInv', DataInv, NEW p \in Procs, WalkRemove(p)
  PROVE  Faithful
<1>1. /\ FrameOK(p) /\ arg[p] \in Frames /\ free \in Seq(Bufs) /\ pc[p] = "walk" /\ pc' = pc
      /\ buf \in [Bufs -> Buffers] /\ UNCHANGED <<disk, freed>>
  BY TypeNow DEF CacheInv, WalkRemove, Walking, At
<1>2. PICK n \in Range(free) : n = arg[p].next
  BY <1>1 DEF FrameOK, WalkRemove, Walking
<1> DEFINE f == [arg[p] EXCEPT !.count = arg[p].count - 1, !.next = After(n)]
<1>3. ~buf[n].dirty /\ ~buf[n].busy /\ BufRemove(n, buf) /\ arg' = [arg EXCEPT ![p] = f]
  BY <1>2 DEF WalkRemove
<1>4. n \in Bufs /\ (\A m \in Bufs \ {n} : buf'[m] = buf[m]) /\ buf'[n].blk = NoBlock
  BY <1>1, <1>3, RemoveFacts
<1>5. ~Unsent(n) /\ ~Filling(n)
  BY <1>3, <1>4 DEF CacheInv, PlaceOK, Unsent, UnsentBy, Filling, FillingBy, Holds
<1>6. f.req = arg[p].req /\ f.blk = arg[p].blk /\ f.fill = arg[p].fill /\ f.back = arg[p].back
  BY <1>1 DEF Frames
<1> HIDE DEF f
<1>7. arg'[p] = f /\ Alone(p) /\ FillOK(p)
  BY <1>1, <1>3, TypeNow DEF CacheInv, Alone, DataInv
<1>8. (Calling(p) => Calling(p)') /\ \A m \in Bufs : UnsentBy(p, m)' <=> UnsentBy(p, m)
  BY <1>1, <1>6, <1>7 DEF Calling, InCall, Flushing, UnsentBy, Sends
<1>9. Passes(p)
  BY <1>1, <1>6, <1>7, <1>8 DEF Passes, FillOK
<1>10. QED BY <1>3, <1>4, <1>5, <1>9, Evicted

\* A buffer that is written is unlocked, and its memory perhaps taken.
LEMMA UnlockFaithful ==
  ASSUME CacheInv, CacheInv', DataInv, NEW p \in Procs, Unlock(p)
  PROVE  Faithful
<1>1. /\ arg[p] \in Frames /\ pc[p] = "unlock" /\ pc' = pc
      /\ buf \in [Bufs -> Buffers] /\ UNCHANGED <<disk, freed>> /\ arg[p].req # <<>>
  BY TypeNow DEF CacheInv, Unlock, At
<1>2. arg[p].req \in Seq(Bufs)
  BY <1>1 DEF Frames
<1>3. PICK n \in Bufs : n = Head(arg[p].req) /\ Sends(p, n)
  <2>1. Head(arg[p].req) \in Bufs /\ Head(arg[p].req) = arg[p].req[1] /\ 1 \in DOMAIN arg[p].req
    BY <1>1, <1>2
  <2>2. QED BY <2>1 DEF Sends
<1> DEFINE f == [arg[p] EXCEPT !.req = Tail(arg[p].req)]
           c == [buf EXCEPT ![n].busy = FALSE]
<1>4. arg' = [arg EXCEPT ![p] = f] /\ (BufRemove(n, c) \/ buf' = c)
  BY <1>3 DEF Unlock
<1>5. f.blk = arg[p].blk /\ f.fill = arg[p].fill /\ f.back = arg[p].back
  BY <1>1 DEF Frames
<1> HIDE DEF f
<1>6. arg'[p] = f /\ Alone(p) /\ FillOK(p)
  BY <1>1, <1>4, TypeNow DEF CacheInv, Alone, DataInv
<1>7. (Calling(p) => Calling(p)') /\ \A m \in Bufs : ~UnsentBy(p, m)' /\ ~UnsentBy(p, m)
  BY <1>1, <1>5, <1>6 DEF Calling, InCall, Flushing, UnsentBy
<1>8. Passes(p)
  BY <1>1, <1>5, <1>6, <1>7 DEF Passes, FillOK
<1>9. c \in [Bufs -> Buffers] /\ (\A m \in Bufs \ {n} : c[m] = buf[m])
      /\ c[n].dirty = buf[n].dirty /\ c[n].blk = buf[n].blk /\ c[n].valid = buf[n].valid /\ c[n].data = buf[n].data
  <2>1. [buf[n] EXCEPT !.busy = FALSE] \in Buffers /\ c = [buf EXCEPT ![n] = [buf[n] EXCEPT !.busy = FALSE]]
    BY <1>1 DEF Buffers
  <2>2. QED BY <1>1, <2>1 DEF Buffers
<1> HIDE DEF c
<1>10. CASE buf' = c
  BY <1>8, <1>9, <1>10, Quiet DEF SameData
<1>11. CASE BufRemove(n, c)
  <2>1. PlaceOK(n)
    BY DEF CacheInv
  <2>2. n \in Range(free) /\ ~buf[n].dirty /\ ~Unsent(n) /\ ~Filling(n)
    BY <1>1, <1>3, <2>1 DEF PlaceOK, Unsent, UnsentBy, Filling, FillingBy, Holds
  <2>3. (\A m \in Bufs \ {n} : buf'[m] = buf[m]) /\ buf'[n].blk = NoBlock
    BY <1>9, <1>11, <2>2, RemoveFacts
  <2>4. QED BY <1>8, <2>2, <2>3, Evicted
<1>12. QED BY <1>4, <1>10, <1>11

(***************************************************************************)
(* A process gets a buffer, or gives it back.                              *)
(***************************************************************************)
\* p, which gets, has or gives back m, does nothing to the other buffers.
Handles(p, m) ==
    /\ Alone(p) /\ disk' = disk /\ pc[p] \notin Flushing /\ pc'[p] \notin Flushing
    /\ \A n \in Bufs \ {m} : buf'[n] = buf[n]
    /\ pc[p] \in {"read", "hold"} => arg[p].n = m
    /\ pc'[p] \in {"read", "hold"} => arg'[p].n = m
    /\ \A q \in Procs \ {p} : ~Holds(q, m) /\ ~Sends(q, m)
    /\ \A n \in Bufs \ {m} : buf[n].blk \in freed' <=> buf[n].blk \in freed
    /\ \A q \in Procs \ {p} : /\ arg'[p].fill /\ arg[q].fill => arg'[p].blk # arg[q].blk
                              /\ arg[q].fill => (arg[q].blk \in freed' <=> arg[q].blk \in freed)

LEMMA HandlesFacts ==
  ASSUME CacheInv, DataInv, NEW p \in Procs, NEW m \in Bufs, Handles(p, m)
  PROVE  /\ OneBuffer(p, m) /\ Others(p, m) /\ SendOK(m)' /\ ~Unsent(m) /\ ~Unsent(m)'
         /\ Filling(m) => FillingBy(p, m)
         /\ FillingBy(p, m)' => Filling(m)'
<1>1. /\ \A q \in Procs \ {p} : pc'[q] = pc[q] /\ arg'[q] = arg[q]
      /\ pc[p] \notin {"walk", "write"} /\ pc'[p] \notin {"walk", "write"}
  BY DEF Handles, Alone, Flushing
<1>2. OneBuffer(p, m)
  BY <1>1 DEF OneBuffer, Handles, SameData, UnsentBy, FillingBy
<1>3. Others(p, m)
  BY DEF Others, Handles, Holds
<1>4. ~Unsent(m) /\ ~Unsent(m)'
  BY <1>1 DEF Unsent, UnsentBy, Sends, Handles
<1>5. (Filling(m) => FillingBy(p, m)) /\ (FillingBy(p, m)' => Filling(m)')
  BY DEF Filling, FillingBy, Handles, Holds
<1>6. QED BY <1>2, <1>3, <1>4, <1>5 DEF SendOK

LEMMA GivesBack ==
  ASSUME CacheInv, DataInv, NEW p \in Procs, NEW l \in {"read", "hold"}, At(p, l), NEW n \in Bufs, n = arg[p].n,
         NEW c \in [Bufs -> Buffers], BufRelease(p, c), UNCHANGED <<disk, freed>>,
         \A m \in Bufs \ {n} : c[m] = buf[m]
  PROVE  /\ Handles(p, n) /\ FillOK(p)' /\ pc[p] = l /\ pc'[p] = "idle" /\ ~FillingBy(p, n)'
         /\ buf'[n].blk = c[n].blk /\ buf'[n].valid = c[n].valid /\ buf'[n].dirty = c[n].dirty /\ buf'[n].data = c[n].data
         /\ arg[p].blk \in Blocks /\ buf[n].blk = arg[p].blk
<1>1. /\ pc \in [Procs -> Labels] /\ arg \in [Procs -> Frames] /\ pc[p] = l /\ FrameOK(p) /\ PlaceOK(n)
  BY TypeNow DEF CacheInv, At
<1>2. /\ pc' = [pc EXCEPT ![p] = "idle"] /\ arg' = [arg EXCEPT ![p] = NoFrame]
      /\ buf' = [c EXCEPT ![n].busy = FALSE, ![n].demand = FALSE]
  BY DEF BufRelease, Yields
<1>3. pc'[p] = "idle" /\ arg'[p] = NoFrame /\ ~NoFrame.fill /\ Alone(p)
  BY <1>1, <1>2 DEF Alone, NoFrame
<1>4. /\ \A m \in Bufs \ {n} : buf'[m] = buf[m]
      /\ buf'[n].blk = c[n].blk /\ buf'[n].valid = c[n].valid /\ buf'[n].dirty = c[n].dirty /\ buf'[n].data = c[n].data
  <2>1. buf' = [c EXCEPT ![n] = [c[n] EXCEPT !.busy = FALSE, !.demand = FALSE]]
    BY <1>2
  <2>2. QED BY <2>1 DEF Buffers
<1>5. \A q \in Procs \ {p} : ~Holds(q, n) /\ ~Sends(q, n)
  <2>1. Holds(p, n)
    BY <1>1 DEF Holds
  <2>2. QED BY <1>1, <2>1 DEF PlaceOK
<1>6. Handles(p, n)
  BY <1>1, <1>3, <1>4, <1>5 DEF Handles, Flushing
<1>7. FillOK(p)' /\ ~FillingBy(p, n)'
  BY <1>3 DEF FillOK, FillingBy
<1>8. arg[p].blk \in Blocks /\ buf[n].blk = arg[p].blk
  BY <1>1 DEF FrameOK, Calling, InCall
<1>9. QED BY <1>1, <1>3, <1>4, <1>6, <1>7, <1>8

\* drv_read() fails.
LEMMA ErrorFaithful ==
  ASSUME CacheInv, CacheInv', DataInv, NEW p \in Procs, At(p, "read"), NEW n \in Bufs, n = arg[p].n,
         NEW c \in [Bufs -> Buffers], BufRelease(p, c), UNCHANGED <<disk, freed>>,
         \A m \in Bufs \ {n} : c[m] = buf[m], c[n].blk = buf[n].blk, ~c[n].valid
  PROVE  Faithful
<1>1. /\ Handles(p, n) /\ FillOK(p)' /\ pc[p] = "read" /\ pc'[p] = "idle"
      /\ buf'[n].blk = c[n].blk /\ ~buf'[n].valid
  BY GivesBack
<1>2. OneBuffer(p, n) /\ Others(p, n) /\ SendOK(n)'
  BY <1>1, HandlesFacts
<1>3. ~buf[n].valid
  BY <1>1 DEF DataInv, FillOK
<1>4. CleanOK(n)'
  BY <1>1 DEF CleanOK
<1>5. DataInv'
  BY <1>1, <1>2, <1>4, DataKept
<1>6. Written
  BY <1>1, <1>2, WrittenKept
<1>7. Contents' = Contents
  BY <1>1, <1>2, <1>3, ContentsSame DEF InBuffer
<1>8. Holder' = Holder
  BY <1>1, HolderKept DEF Handles
<1>9. QED BY <1>5, <1>6, <1>7, <1>8, Stutters DEF Faithful

LEMMA ReleaseFaithful ==
  ASSUME CacheInv, CacheInv', DataInv, NEW p \in Procs, Release(p)
  PROVE  Faithful
<1>1. /\ buf \in [Bufs -> Buffers] /\ At(p, "hold") /\ ~arg[p].fill /\ arg[p].n \in Bufs
      /\ UNCHANGED <<disk, freed>> /\ BufRelease(p, buf)
  BY TypeNow DEF CacheInv, Release, At, FrameOK
<1>2. PICK n \in Bufs : n = arg[p].n
  BY <1>1
<1>3. /\ Handles(p, n) /\ FillOK(p)' /\ pc[p] = "hold" /\ pc'[p] = "idle" /\ SameData(n)
      /\ arg[p].blk \in Blocks /\ buf[n].blk = arg[p].blk
  BY <1>1, <1>2, GivesBack DEF SameData
<1>4. OneBuffer(p, n) /\ Others(p, n) /\ SendOK(n)' /\ ~Unsent(n) /\ (Filling(n) => FillingBy(p, n))
  BY <1>3, HandlesFacts
<1>5. CleanOK(n)'
  <2>1. CleanOK(n) /\ ~Filling(n)
    BY <1>1, <1>4 DEF DataInv, FillingBy
  <2>2. QED BY <1>1, <1>3, <1>4, <2>1 DEF CleanOK, SameData
<1>6. DataInv'
  BY <1>3, <1>4, <1>5, DataKept
<1>7. Written
  BY <1>3, <1>4, WrittenKept DEF SameData
<1>8. Contents' = Contents
  BY <1>1, <1>3, <1>4, ContentsSame DEF InBuffer, SameData
<1>9. PICK b \in Blocks : b = arg[p].blk
  BY <1>3
<1>10. Holder[b] = p /\ Holder' = [Holder EXCEPT ![b] = Nobody]
  BY <1>3, <1>9, HolderLoses DEF Handles
<1>11. Store!Release(p, b)
  BY <1>8, <1>10 DEF Store!Release
<1>12. Store!Next
  BY <1>11 DEF Store!Next
<1>13. QED BY <1>6, <1>7, <1>12 DEF Faithful

LEMMA BufWriteFaithful ==
  ASSUME CacheInv, CacheInv', DataInv, NEW p \in Procs, NEW v \in Values, BufWrite(p, v)
  PROVE  Faithful
<1>1. /\ buf \in [Bufs -> Buffers] /\ At(p, "hold") /\ arg[p].blk \notin freed /\ arg[p].n \in Bufs
      /\ UNCHANGED <<disk, freed>>
  BY TypeNow DEF CacheInv, BufWrite, At, FrameOK
<1>2. PICK n \in Bufs : n = arg[p].n
  BY <1>1
<1> DEFINE x == [buf[n] EXCEPT !.data = v, !.valid = TRUE, !.dirty = TRUE]
           c == [buf EXCEPT ![n] = x]
<1>3. x \in Buffers /\ x.blk = buf[n].blk /\ x.valid /\ x.dirty /\ x.data = v
  BY <1>1 DEF Buffers
<1>4. BufRelease(p, c)
  BY <1>1, <1>2 DEF BufWrite
<1> HIDE DEF x
<1>5. c \in [Bufs -> Buffers] /\ (\A m \in Bufs \ {n} : c[m] = buf[m]) /\ c[n] = x
  BY <1>1, <1>3
<1> HIDE DEF c
<1>6. /\ Handles(p, n) /\ FillOK(p)' /\ pc[p] = "hold" /\ pc'[p] = "idle"
      /\ buf'[n].blk = c[n].blk /\ buf'[n].valid = c[n].valid /\ buf'[n].dirty = c[n].dirty /\ buf'[n].data = c[n].data
      /\ arg[p].blk \in Blocks /\ buf[n].blk = arg[p].blk
  BY <1>1, <1>2, <1>4, <1>5, GivesBack
<1>7. PICK b \in Blocks : b = arg[p].blk
  BY <1>6
<1>8. buf'[n].blk = b /\ buf[n].blk = b /\ buf'[n].valid /\ buf'[n].dirty /\ buf'[n].data = v
  BY <1>3, <1>5, <1>6, <1>7
<1>9. OneBuffer(p, n) /\ Others(p, n) /\ SendOK(n)'
  BY <1>6, HandlesFacts
<1>10. CleanOK(n)'
  BY <1>8 DEF CleanOK
<1>11. DataInv'
  BY <1>6, <1>9, <1>10, DataKept
<1>12. Written
  BY <1>8, <1>9, WrittenKept
<1>13. Contents' = [Contents EXCEPT ![b] = v]
  <2>1. Contents'[b] = v
    <3>1. Only(n, b)'
      BY <1>8, BufferCacheAssumption DEF CacheInv, UniqueBuffer, Only
    <3>2. InBuffer(n, b)' = v
      BY <1>8 DEF InBuffer
    <3>3. QED BY <1>1, <1>7, <3>1, <3>2, ContentsNext
  <2>2. ASSUME NEW d \in Blocks \ {b} PROVE Contents'[d] = Contents[d]
    <3>1. CASE d \in freed
      BY <1>1, <3>1, ContentsOf, ContentsNext
    <3>2. CASE d \notin freed
      <4>1. InBuffer(n, d)' = InBuffer(n, d)
        BY <1>1, <1>8, <2>2 DEF InBuffer
      <4>2. QED BY <1>1, <1>9, <3>2, <4>1, ContentsKept
    <3>3. QED BY <3>1, <3>2
  <2>3. Contents = [d \in Blocks |-> Contents[d]] /\ Contents' = [d \in Blocks |-> Contents'[d]]
    BY DEF Contents
  <2>4. QED BY <2>1, <2>2, <2>3
<1>14. Holder[b] = p /\ Holder' = [Holder EXCEPT ![b] = Nobody]
  BY <1>6, <1>7, HolderLoses DEF Handles
<1>15. Store!Write(p, b, v)
  BY <1>13, <1>14 DEF Store!Write
<1>16. Store!Next
  BY <1>15 DEF Store!Next
<1>17. QED BY <1>11, <1>12, <1>16 DEF Faithful

\* drv_read() has filled the buffer, or has failed.
LEMMA ReadFaithful ==
  ASSUME CacheInv, CacheInv', DataInv, NEW p \in Procs, ReadDone(p)
  PROVE  Faithful
<1>1. /\ buf \in [Bufs -> Buffers] /\ pc \in [Procs -> Labels] /\ At(p, "read") /\ pc[p] = "read"
      /\ disk \in [Blocks -> Values] /\ arg[p].n \in Bufs /\ arg[p].blk \in Blocks
      /\ UNCHANGED <<disk, freed>> /\ FrameOK(p) /\ FillOK(p)
  BY TypeNow DEF CacheInv, ReadDone, At, FrameOK, Calling, InCall, DataInv
<1>2. PICK n \in Bufs : n = arg[p].n
  BY <1>1
<1>3. CASE /\ buf' = [buf EXCEPT ![n].data = disk[arg[p].blk], ![n].valid = TRUE]
           /\ Yields(p, "hold") /\ UNCHANGED <<chan, arg, free>>
  <2>1. PICK b \in Blocks : b = arg[p].blk
    BY <1>1
  <2>2. /\ \A m \in Bufs \ {n} : buf'[m] = buf[m]
        /\ buf'[n].data = disk[b] /\ buf'[n].valid /\ buf'[n].dirty = buf[n].dirty /\ buf'[n].blk = buf[n].blk
    <3>1. buf' = [buf EXCEPT ![n] = [buf[n] EXCEPT !.data = disk[b], !.valid = TRUE]]
      BY <1>3, <2>1
    <3>2. QED BY <1>1, <3>1 DEF Buffers
  <2>3. buf[n].blk = b /\ ~buf[n].valid /\ ~arg[p].fill
    BY <1>1, <1>2, <2>1 DEF FrameOK, FillOK
  <2>4. pc'[p] = "hold" /\ arg' = arg /\ Alone(p)
    BY <1>1, <1>3 DEF Yields, Alone
  <2>5. Handles(p, n)
    <3>1. Holds(p, n) /\ PlaceOK(n)
      BY <1>1, <1>2 DEF Holds, CacheInv
    <3>2. QED BY <1>1, <1>2, <2>2, <2>3, <2>4, <3>1 DEF Handles, Flushing, PlaceOK
  <2>6. OneBuffer(p, n) /\ Others(p, n) /\ SendOK(n)'
    BY <2>5, HandlesFacts
  <2>7. FillOK(p)'
    BY <1>2, <2>2, <2>3, <2>4 DEF FillOK
  <2>8. CleanOK(n)'
    BY <1>1, <2>2, <2>3 DEF CleanOK
  <2>9. DataInv'
    BY <2>6, <2>7, <2>8, DataKept
  <2>10. Written
    BY <2>2, <2>6, WrittenKept
  <2>11. Contents' = Contents
    BY <1>1, <2>2, <2>3, <2>6, ContentsSame DEF InBuffer
  <2>12. Holder[b] = Nobody /\ Holder' = [Holder EXCEPT ![b] = p]
    BY <1>1, <2>1, <2>4, HolderGets
  <2>13. Store!Acquire(p, b)
    BY <2>11, <2>12 DEF Store!Acquire
  <2>14. Store!Next
    BY <2>13 DEF Store!Next
  <2>15. QED BY <2>9, <2>10, <2>14 DEF Faithful
<1>4. CASE BufRelease(p, [buf EXCEPT ![n].valid = FALSE, ![n].dirty = FALSE])
  <2> DEFINE x == [buf[n] EXCEPT !.valid = FALSE, !.dirty = FALSE]
             c == [buf EXCEPT ![n] = x]
  <2>1. x \in Buffers /\ x.blk = buf[n].blk /\ ~x.valid
    <3>1. buf[n] \in Buffers
      BY <1>1
    <3>2. QED BY <3>1 DEF Buffers
  <2>2. BufRelease(p, c)
    BY <1>4
  <2> HIDE DEF x
  <2>3. c \in [Bufs -> Buffers] /\ (\A m \in Bufs \ {n} : c[m] = buf[m]) /\ c[n] = x
    BY <1>1, <2>1
  <2> HIDE DEF c
  <2>4. QED BY <1>1, <1>2, <2>1, <2>2, <2>3, ErrorFaithful
<1>5. QED BY <1>2, <1>3, <1>4 DEF ReadDone

\* buf_get() returns buffer n, which nobody has: it has the block, or was taken over.
LEMMA TakeFaithful ==
  ASSUME CacheInv, CacheInv', DataInv, NEW p \in Procs, At(p, "get"), NEW n \in Bufs, ~buf[n].busy,
         NEW c \in [Bufs -> Buffers], Return(p, n, c),
         \A m \in Bufs \ {n} : c[m] = buf[m] /\ buf[m].blk # arg[p].blk, c[n].blk = arg[p].blk,
         \/ /\ buf[n].blk = arg[p].blk /\ c[n].valid = buf[n].valid
            /\ c[n].dirty = buf[n].dirty /\ c[n].data = buf[n].data
         \/ buf[n].blk # arg[p].blk /\ ~buf[n].dirty /\ ~c[n].valid
  PROVE  Faithful
<1>1. /\ pc \in [Procs -> Labels] /\ arg \in [Procs -> Frames] /\ pc[p] = "get" /\ FillOK(p)
      /\ buf \in [Bufs -> Buffers] /\ disk' = disk /\ arg[p].blk \in Blocks
  BY TypeNow DEF CacheInv, At, Return, FrameOK, Calling, InCall, DataInv
<1>2. PICK b \in Blocks : b = arg[p].blk
  BY <1>1
<1> DEFINE f == [arg[p] EXCEPT !.n = n]
<1>3. arg' = [arg EXCEPT ![p] = f]
  BY DEF Return
<1>4. f.n = n /\ f.blk = b /\ f.fill = arg[p].fill
  BY <1>1, <1>2 DEF Frames
<1> HIDE DEF f
<1>5. PICK l \in {"read", "hold"} : /\ pc' = [pc EXCEPT ![p] = l]
                                    /\ \/ arg[p].fill /\ l = "hold"
                                       \/ ~arg[p].fill /\ l = IF c[n].valid THEN "hold" ELSE "read"
  BY DEF Return, Yields
<1>6. pc'[p] = l /\ arg'[p] = f /\ Alone(p)
  BY <1>1, <1>3, <1>5 DEF Alone
<1>7. \A q \in Procs : ~Holds(q, n) /\ ~Sends(q, n)
  BY DEF CacheInv, PlaceOK
<1>8. /\ \A m \in Bufs \ {n} : buf'[m] = buf[m]
      /\ buf'[n].blk = b /\ buf'[n].dirty = c[n].dirty
      /\ IF arg[p].fill THEN buf'[n].valid /\ buf'[n].data = Zero /\ freed' = freed \ {b}
                        ELSE buf'[n].valid = c[n].valid /\ buf'[n].data = c[n].data /\ freed' = freed
  <2>1. CASE arg[p].fill
    <3>1. /\ buf' = [c EXCEPT ![n] = [c[n] EXCEPT !.data = Zero, !.valid = TRUE]] /\ freed' = freed \ {b}
      BY <1>2, <2>1 DEF Return
    <3>2. QED BY <1>2, <2>1, <3>1 DEF Buffers
  <2>2. CASE ~arg[p].fill
    BY <1>2, <2>2 DEF Return
  <2>3. QED BY <2>1, <2>2
<1>9. Handles(p, n)
  <2>1. \A q \in Procs \ {p} : /\ arg'[p].fill /\ arg[q].fill => arg'[p].blk # arg[q].blk
                               /\ arg[q].fill => (arg[q].blk \in freed' <=> arg[q].blk \in freed)
    BY <1>1, <1>2, <1>4, <1>6, <1>8 DEF FillOK
  <2>2. \A m \in Bufs \ {n} : buf[m].blk \in freed' <=> buf[m].blk \in freed
    BY <1>2, <1>8
  <2>3. QED BY <1>1, <1>4, <1>5, <1>6, <1>7, <1>8, <2>1, <2>2 DEF Handles, Flushing
<1>10. /\ OneBuffer(p, n) /\ Others(p, n) /\ SendOK(n)' /\ ~Unsent(n) /\ ~Unsent(n)'
       /\ Filling(n) => FillingBy(p, n)
       /\ FillingBy(p, n)' => Filling(n)'
  BY <1>9, HandlesFacts
<1>11. ~Filling(n)
  BY <1>1, <1>10 DEF FillingBy
<1>12. CleanOK(n)'
  <2>1. CASE arg[p].fill
    BY <1>4, <1>5, <1>6, <1>10, <2>1 DEF FillingBy, CleanOK
  <2>2. CASE ~arg[p].fill /\ buf[n].blk = arg[p].blk
    <3>1. CleanOK(n)
      BY DEF DataInv
    <3>2. QED BY <1>1, <1>2, <1>8, <1>10, <1>11, <2>2, <3>1 DEF CleanOK
  <2>3. CASE ~arg[p].fill /\ buf[n].blk # arg[p].blk
    BY <1>8, <2>3 DEF CleanOK
  <2>4. QED BY <2>1, <2>2, <2>3
<1>13. FillOK(p)'
  <2>1. arg[p].fill => \A q \in Procs : arg'[q].fill /\ arg'[q].blk = b => p = q
    BY <1>1, <1>2, <1>6 DEF FillOK, Alone
  <2>2. Calling(p)'
    BY <1>6 DEF Calling, InCall
  <2>3. QED BY <1>4, <1>5, <1>6, <1>8, <2>1, <2>2 DEF FillOK
<1>14. DataInv'
  BY <1>10, <1>12, <1>13, DataKept
<1>15. buf[n].blk # b => /\ buf[n].blk # NoBlock /\ buf[n].valid /\ buf[n].blk \notin freed => disk[buf[n].blk] = buf[n].data
                         /\ \A d \in Blocks \ freed : InBuffer(n, d) = disk[d]
  BY <1>2, <1>10, <1>11, CleanOnDisk
<1>16. Written
  <2>1. \/ buf'[n].blk = buf[n].blk \/ buf[n].blk = NoBlock
        \/ buf[n].valid /\ buf[n].blk \notin freed => disk[buf[n].blk] = buf[n].data
    BY <1>8, <1>15
  <2>2. QED BY <1>10, <2>1, WrittenKept
<1>17. CASE arg[p].fill
  <2>1. Holder[b] = Nobody /\ Holder' = [Holder EXCEPT ![b] = p]
    BY <1>1, <1>4, <1>5, <1>6, <1>17, HolderGets
  <2>2. b \in freed /\ Contents[b] = NoBlock
    BY <1>1, <1>2, <1>17, ContentsOf DEF FillOK
  <2>3. Contents' = [Contents EXCEPT ![b] = Zero]
    <3>1. Contents'[b] = Zero
      <4>1. Only(n, b)'
        BY <1>2, <1>8 DEF Only
      <4>2. InBuffer(n, b)' = Zero
        BY <1>8, <1>17 DEF InBuffer
      <4>3. QED BY <1>8, <1>17, <4>1, <4>2, ContentsNext
    <3>2. ASSUME NEW d \in Blocks \ {b} PROVE Contents'[d] = Contents[d]
      <4>1. CASE d \in freed
        BY <1>8, <1>17, <3>2, <4>1, ContentsOf, ContentsNext
      <4>2. CASE d \notin freed
        <5>1. InBuffer(n, d)' = disk[d]
          BY <1>1, <1>8, <3>2 DEF InBuffer
        <5>2. InBuffer(n, d) = disk[d]
          <6>1. CASE buf[n].blk = b
            BY <3>2, <6>1 DEF InBuffer
          <6>2. CASE buf[n].blk # b
            BY <1>15, <4>2, <6>2
          <6>3. QED BY <6>1, <6>2
        <5>3. d \notin freed'
          BY <1>8, <1>17, <4>2
        <5>4. QED BY <1>10, <4>2, <5>1, <5>2, <5>3, ContentsKept
      <4>3. QED BY <4>1, <4>2
    <3>3. Contents = [d \in Blocks |-> Contents[d]] /\ Contents' = [d \in Blocks |-> Contents'[d]]
      BY DEF Contents
    <3>4. QED BY <3>1, <3>2, <3>3
  <2>4. Store!Fill(p, b, Zero)
    BY <2>1, <2>2, <2>3 DEF Store!Fill
  <2>5. Store!Next
    BY <2>4, BufferCacheAssumption DEF Store!Next
  <2>6. QED BY <1>14, <1>16, <2>5 DEF Faithful
<1>18. CASE ~arg[p].fill
  <2>1. ASSUME NEW d \in Blocks \ freed PROVE InBuffer(n, d)' = InBuffer(n, d)
    <3>1. CASE buf[n].blk = b
      BY <1>1, <1>2, <1>8, <1>18, <3>1 DEF InBuffer
    <3>2. CASE buf[n].blk # b
      <4>1. ~buf'[n].valid
        BY <1>2, <1>8, <1>18, <3>2
      <4>2. QED BY <1>1, <1>15, <3>2, <4>1 DEF InBuffer
    <3>3. QED BY <3>1, <3>2
  <2>2. Contents' = Contents
    BY <1>8, <1>10, <1>18, <2>1, ContentsSame
  <2>3. CASE l = "hold"
    <3>1. Holder[b] = Nobody /\ Holder' = [Holder EXCEPT ![b] = p]
      BY <1>1, <1>4, <1>6, <2>3, HolderGets
    <3>2. Store!Acquire(p, b)
      BY <2>2, <3>1 DEF Store!Acquire
    <3>3. Store!Next
      BY <3>2 DEF Store!Next
    <3>4. QED BY <1>14, <1>16, <3>3 DEF Faithful
  <2>4. CASE l = "read"
    <3>1. Holder' = Holder
      BY <1>1, <1>6, <2>4, HolderKept
    <3>2. QED BY <1>14, <1>16, <2>2, <3>1, Stutters DEF Faithful
  <2>5. QED BY <2>3, <2>4
<1>19. QED BY <1>17, <1>18

(***************************************************************************)
(* The disk.                                                               *)
(***************************************************************************)
\* buf_flush() takes a buffer to write.
LEMMA WalkTakeFaithful ==
  ASSUME CacheInv, CacheInv', DataInv, NEW p \in Procs, WalkTake(p)
  PROVE  Faithful
<1>1. /\ FrameOK(p) /\ arg[p] \in Frames /\ free \in Seq(Bufs) /\ pc[p] = "walk" /\ pc' = pc
      /\ buf \in [Bufs -> Buffers] /\ UNCHANGED <<disk, freed>> /\ FillOK(p)
  BY TypeNow DEF CacheInv, WalkTake, Walking, At, DataInv
<1>2. PICK n \in Bufs : n = arg[p].next
  <2>1. arg[p].next \in Range(free)
    BY <1>1 DEF FrameOK, WalkTake, Walking
  <2>2. QED BY <1>1, <2>1 DEF Range
<1> DEFINE f == [arg[p] EXCEPT !.dev = buf[n].blk[1], !.req = Append(arg[p].req, n), !.count = arg[p].count - 1, !.next = After(n)]
<1>3. buf[n].dirty /\ buf' = [buf EXCEPT ![n].busy = TRUE, ![n].dirty = FALSE] /\ arg' = [arg EXCEPT ![p] = f]
  BY <1>2 DEF WalkTake
<1>4. f.req = Append(arg[p].req, n) /\ f.blk = arg[p].blk /\ f.fill = arg[p].fill /\ f.back = arg[p].back
  BY <1>1 DEF Frames
<1> HIDE DEF f
<1>5. arg'[p] = f /\ Alone(p)
  BY <1>1, <1>3, TypeNow DEF CacheInv, Alone
<1>6. arg[p].req \in Seq(Bufs) /\ Len(arg[p].req) \in Nat
  <2>1. arg[p].req \in Seq(Bufs)
    BY <1>1 DEF Frames
  <2>2. QED BY <2>1
<1>7. \A m \in Bufs : Sends(p, m)' <=> Sends(p, m) \/ m = n
  <2>1. /\ DOMAIN f.req = DOMAIN arg[p].req \cup {Len(arg[p].req) + 1} /\ f.req[Len(arg[p].req) + 1] = n
        /\ \A i \in DOMAIN arg[p].req : f.req[i] = arg[p].req[i]
    BY <1>4, <1>6
  <2>2. QED BY <1>5, <2>1 DEF Sends
<1>8. /\ \A m \in Bufs \ {n} : buf'[m] = buf[m]
      /\ buf'[n].blk = buf[n].blk /\ buf'[n].valid = buf[n].valid /\ buf'[n].data = buf[n].data
  <2>1. buf' = [buf EXCEPT ![n] = [buf[n] EXCEPT !.busy = TRUE, !.dirty = FALSE]]
    BY <1>1, <1>3
  <2>2. QED BY <1>1, <2>1 DEF Buffers
<1>9. OneBuffer(p, n)
  BY <1>1, <1>5, <1>7, <1>8 DEF OneBuffer, SameData, UnsentBy, FillingBy
<1>10. Others(p, n)
  BY <1>1, <1>4, <1>5, <1>8 DEF Others, FillOK
<1>11. FillOK(p)'
  <2>1. Calling(p) => Calling(p)'
    BY <1>1, <1>4, <1>5 DEF Calling, InCall, Flushing
  <2>2. QED BY <1>1, <1>4, <1>5, <2>1 DEF FillOK, Alone
<1>12. Unsent(n)' /\ buf'[n].valid
  <2>1. UnsentBy(p, n)'
    BY <1>1, <1>7 DEF UnsentBy
  <2>2. QED BY <1>3, <1>8, <2>1 DEF Unsent, CacheInv, PlaceOK
<1>13. DataInv'
  <2>1. CleanOK(n)' /\ SendOK(n)'
    BY <1>12 DEF CleanOK, SendOK
  <2>2. QED BY <1>9, <1>10, <1>11, <2>1, DataKept
<1>14. Written
  BY <1>8, <1>9, WrittenKept
<1>15. Contents' = Contents
  BY <1>1, <1>8, <1>9, ContentsSame DEF InBuffer
<1>16. Holder' = Holder
  BY <1>1, <1>5, HolderKept
<1>17. QED BY <1>13, <1>14, <1>15, <1>16, Stutters DEF Faithful

\* drv_write() has written the request.
LEMMA WriteFaithful ==
  ASSUME ~WriteErrors, CacheInv, CacheInv', DataInv, NEW p \in Procs, WriteDone(p)
  PROVE  Faithful
<1>1. /\ pc \in [Procs -> Labels] /\ pc[p] = "write" /\ pc' = [pc EXCEPT ![p] = "unlock"] /\ arg[p] \in Frames
      /\ UNCHANGED <<arg, buf, freed>> /\ UniqueBuffer
  BY TypeNow DEF CacheInv, WriteDone, Runs, At
<1>2. arg[p].req \in Seq(Bufs) /\ Len(arg[p].req) \in Nat /\ DOMAIN arg[p].req = 1..Len(arg[p].req)
  <2>1. arg[p].req \in Seq(Bufs)
    BY <1>1 DEF Frames
  <2>2. QED BY <2>1
<1>3. disk' = [b \in Blocks |-> IF \E i \in DOMAIN arg[p].req : buf[arg[p].req[i]].blk = b
                                THEN buf[arg[p].req[CHOOSE i \in DOMAIN arg[p].req : buf[arg[p].req[i]].blk = b]].data
                                ELSE disk[b]]
  BY <1>2 DEF WriteDone
<1>4. ASSUME NEW n \in Bufs, Sends(p, n), buf[n].blk \in Blocks PROVE disk'[buf[n].blk] = buf[n].data
  <2>1. PICK b \in Blocks : b = buf[n].blk
    BY <1>4
  <2>2. \E i \in DOMAIN arg[p].req : buf[arg[p].req[i]].blk = b
    BY <1>4, <2>1 DEF Sends
  <2> DEFINE i == CHOOSE i \in DOMAIN arg[p].req : buf[arg[p].req[i]].blk = b
  <2>3. i \in DOMAIN arg[p].req /\ buf[arg[p].req[i]].blk = b
    BY <2>2
  <2>4. disk'[b] = buf[arg[p].req[i]].data
    BY <1>3, <2>2
  <2> HIDE DEF i
  <2>5. arg[p].req[i] \in Bufs /\ b # NoBlock
    BY <1>2, <2>3, BufferCacheAssumption
  <2>6. arg[p].req[i] = n
    BY <1>1, <2>1, <2>3, <2>5 DEF UniqueBuffer
  <2>7. QED BY <2>1, <2>4, <2>6
<1>5. ASSUME NEW b \in Blocks, \A n \in Bufs : buf[n].blk = b => ~Sends(p, n) PROVE disk'[b] = disk[b]
  <2>1. ~\E i \in DOMAIN arg[p].req : buf[arg[p].req[i]].blk = b
    BY <1>2, <1>5 DEF Sends
  <2>2. QED BY <1>3, <2>1
<1>6. ASSUME NEW n \in Bufs, ~Sends(p, n), buf[n].blk \in Blocks PROVE disk'[buf[n].blk] = disk[buf[n].blk]
  <2>1. \A m \in Bufs : buf[m].blk = buf[n].blk => m = n
    BY <1>1, <1>6, BufferCacheAssumption DEF UniqueBuffer
  <2>2. QED BY <1>5, <1>6, <2>1
<1>7. pc'[p] = "unlock" /\ \A q \in Procs \ {p} : pc'[q] = pc[q]
  BY <1>1
<1>8. DataInv'
  <2>1. ASSUME NEW n \in Bufs PROVE CleanOK(n)' /\ SendOK(n)'
    <3>1. /\ Unsent(n)' => Unsent(n)
          /\ ~Unsent(n)' /\ ~Sends(p, n) => ~Unsent(n)
          /\ Filling(n)' <=> Filling(n)
      BY <1>1, <1>7 DEF Unsent, UnsentBy, Filling, FillingBy, Sends
    <3>2. CleanOK(n) /\ SendOK(n)
      BY DEF DataInv
    <3>3. CASE Sends(p, n)
      BY <1>1, <1>4, <3>1, <3>2, <3>3 DEF CleanOK, SendOK
    <3>4. CASE ~Sends(p, n)
      BY <1>1, <1>6, <3>1, <3>2, <3>4 DEF CleanOK, SendOK
    <3>5. QED BY <3>3, <3>4
  <2>2. ASSUME NEW q \in Procs PROVE FillOK(q)'
    <3>1. /\ FillOK(q)
          /\ pc'[q] = "hold" <=> pc[q] = "hold"
          /\ pc'[q] = "read" <=> pc[q] = "read"
      BY <1>1, <1>7 DEF DataInv
    <3>2. Calling(q) => Calling(q)'
      BY <1>1, <1>7 DEF Calling, InCall, Flushing
    <3>3. QED BY <1>1, <3>1, <3>2 DEF FillOK
  <2>3. QED BY <2>1, <2>2 DEF DataInv
<1>9. Written
  BY <1>1 DEF Written
<1>10. Contents' = Contents
  <2>1. ASSUME NEW b \in Blocks PROVE Contents'[b] = Contents[b]
    <3>1. CASE b \in freed
      BY <1>1, <3>1, ContentsOf, ContentsNext
    <3>2. CASE b \notin freed /\ \E n \in Bufs : buf[n].blk = b
      <4>1. PICK n \in Bufs : buf[n].blk = b
        BY <3>2
      <4>2. Only(n, b) /\ Only(n, b)'
        BY <1>1, <4>1, BufferCacheAssumption DEF Only, UniqueBuffer
      <4>3. InBuffer(n, b)' = InBuffer(n, b)
        <5>1. CASE buf[n].valid
          BY <1>1, <4>1, <5>1 DEF InBuffer
        <5>2. CASE ~buf[n].valid
          <6>1. ~Sends(p, n)
            BY <1>1, <3>2, <4>1, <5>2 DEF DataInv, SendOK, Unsent, UnsentBy
          <6>2. QED BY <1>1, <1>6, <4>1, <5>2, <6>1 DEF InBuffer
        <5>3. QED BY <5>1, <5>2
      <4>4. QED BY <1>1, <3>2, <4>2, <4>3, ContentsOf, ContentsNext
    <3>3. CASE b \notin freed /\ \A n \in Bufs : buf[n].blk # b
      <4>1. PICK n \in Bufs : n = 1
        BY BufferCacheAssumption DEF Bufs
      <4>2. Only(n, b) /\ Only(n, b)' /\ InBuffer(n, b)' = InBuffer(n, b)
        BY <1>1, <1>5, <3>3 DEF Only, InBuffer
      <4>3. QED BY <1>1, <3>3, <4>2, ContentsOf, ContentsNext
    <3>4. QED BY <3>1, <3>2, <3>3
  <2>2. Contents = [b \in Blocks |-> Contents[b]] /\ Contents' = [b \in Blocks |-> Contents'[b]]
    BY DEF Contents
  <2>3. QED BY <2>1, <2>2
<1>11. Holder' = Holder
  BY <1>1, <1>7, HolderKept DEF Alone
<1>12. QED BY <1>8, <1>9, <1>10, <1>11, Stutters DEF Faithful

\* b_free().
LEMMA FreeFaithful ==
  ASSUME CacheInv, CacheInv', DataInv, NEW b \in Blocks, BFree(b)
  PROVE  Faithful
<1>1. /\ UNCHANGED <<pc, arg, disk>> /\ freed' = freed \union {b} /\ UniqueBuffer /\ b # NoBlock
      /\ buf \in [Bufs -> Buffers]
      /\ \A p \in Procs : ~(arg[p].blk = b /\ arg[p].fill)
  BY TypeNow, BufferCacheAssumption DEF CacheInv, BFree
<1>2. \A n \in Bufs : IF buf[n].blk = b THEN buf'[n].blk = b /\ ~buf'[n].valid ELSE buf'[n] = buf[n]
  BY <1>1 DEF BFree, Cached, Buffers
<1>3. DataInv'
  <2>1. ASSUME NEW n \in Bufs PROVE CleanOK(n)' /\ SendOK(n)'
    <3>1. (Unsent(n)' <=> Unsent(n)) /\ (Filling(n)' <=> Filling(n))
      BY <1>1 DEF Unsent, UnsentBy, Filling, FillingBy, Sends
    <3>2. CleanOK(n) /\ SendOK(n)
      BY DEF DataInv
    <3>3. CASE buf[n].blk = b
      BY <1>1, <1>2, <3>3 DEF CleanOK, SendOK
    <3>4. CASE buf[n].blk # b
      BY <1>1, <1>2, <3>1, <3>2, <3>4 DEF CleanOK, SendOK
    <3>5. QED BY <3>3, <3>4
  <2>2. ASSUME NEW q \in Procs PROVE FillOK(q)'
    <3>1. /\ FillOK(q)
          /\ pc[q] \in {"read", "hold"} => arg[q].n \in Bufs /\ buf[arg[q].n].blk = arg[q].blk
          /\ Calling(q) => Calling(q)'
      BY <1>1 DEF DataInv, CacheInv, FrameOK, Calling
    <3>2. QED BY <1>1, <1>2, <3>1 DEF FillOK
  <2>3. QED BY <2>1, <2>2 DEF DataInv
<1>4. Written
  BY <1>2 DEF Written
<1>5. Holder' = Holder
  BY <1>1 DEF Holder
<1>6. Contents' = [Contents EXCEPT ![b] = NoBlock]
  <2>1. Contents'[b] = NoBlock
    BY <1>1, ContentsNext
  <2>2. ASSUME NEW d \in Blocks \ {b} PROVE Contents'[d] = Contents[d]
    <3>1. CASE d \in freed
      BY <1>1, <3>1, ContentsOf, ContentsNext
    <3>2. CASE d \notin freed /\ \E n \in Bufs : buf[n].blk = d
      <4>1. PICK n \in Bufs : buf[n].blk = d
        BY <3>2
      <4>2. Only(n, d) /\ Only(n, d)'
        BY <1>1, <1>2, <2>2, <4>1, BufferCacheAssumption DEF Only, UniqueBuffer
      <4>3. InBuffer(n, d)' = InBuffer(n, d)
        BY <1>1, <1>2, <2>2, <4>1 DEF InBuffer
      <4>4. QED BY <1>1, <2>2, <3>2, <4>2, <4>3, ContentsOf, ContentsNext
    <3>3. CASE d \notin freed /\ \A n \in Bufs : buf[n].blk # d
      <4>1. PICK n \in Bufs : n = 1
        BY BufferCacheAssumption DEF Bufs
      <4>2. Only(n, d) /\ Only(n, d)' /\ InBuffer(n, d)' = InBuffer(n, d)
        BY <1>1, <1>2, <2>2, <3>3 DEF Only, InBuffer
      <4>3. QED BY <1>1, <2>2, <3>3, <4>2, ContentsOf, ContentsNext
    <3>4. QED BY <3>1, <3>2, <3>3
  <2>3. Contents = [d \in Blocks |-> Contents[d]] /\ Contents' = [d \in Blocks |-> Contents'[d]]
    BY DEF Contents
  <2>4. QED BY <2>1, <2>2, <2>3
<1>7. Store!Free(b)
  BY <1>5, <1>6 DEF Store!Free
<1>8. Store!Next
  BY <1>7 DEF Store!Next
<1>9. QED BY <1>3, <1>4, <1>8 DEF Faithful

LEMMA PagesFaithful ==
  ASSUME DataInv, Pages \/ UNCHANGED vars
  PROVE  Faithful
<1>1. UNCHANGED <<pc, arg, buf, disk, freed>>
  BY DEF Pages, vars
<1>2. DataInv'
  BY <1>1 DEF DataInv, CleanOK, SendOK, FillOK, Calling, Unsent, UnsentBy, Filling, FillingBy, Sends
<1>3. Written /\ Contents' = Contents /\ Holder' = Holder
  BY <1>1 DEF Written, Contents, Cached, Holder
<1>4. QED BY <1>2, <1>3, Stutters DEF Faithful

(***************************************************************************)
(* The theorems about the data.                                            *)
(***************************************************************************)
LEMMA DataInit == Init => DataInv /\ Store!Init
<1> SUFFICES ASSUME Init PROVE DataInv /\ Store!Init
  OBVIOUS
<1>1. DataInv
  BY DEF Init, DataInv, CleanOK, SendOK, FillOK, Unsent, UnsentBy, NoFrame
<1>2. Contents = [b \in Blocks |-> Zero]
  BY DEF Init, Contents, Cached
<1>3. Holder = [b \in Blocks |-> Nobody]
  BY DEF Init, Holder
<1>4. Store!Init
  BY <1>2, <1>3, BufferCacheAssumption DEF Store!Init
<1>5. QED BY <1>1, <1>4

LEMMA EveryStepFaithful ==
  ASSUME ~WriteErrors, CacheInv, DataInv, [Next]_vars
  PROVE  Faithful
<1>1. CacheInv'
  BY CacheInvStep
<1>2. ASSUME NEW p \in Procs, NEW b \in Blocks, NEW fill \in BOOLEAN, Call(p, b, fill) PROVE Faithful
  BY <1>1, <1>2, CallQuiet
<1>3. ASSUME NEW p \in Procs, GetCached(p) PROVE Faithful
  <2>1. /\ At(p, "get") /\ UniqueBuffer /\ arg[p].blk \in Blocks /\ buf \in [Bufs -> Buffers]
    BY <1>3, TypeNow DEF CacheInv, GetCached, At, FrameOK, Calling, InCall
  <2>2. PICK n \in Bufs : /\ buf[n].blk = arg[p].blk
                          /\ \/ WaitFor(p, n)
                             \/ ~buf[n].busy /\ Return(p, n, [buf EXCEPT ![n].busy = TRUE])
    BY <1>3 DEF GetCached, Cached
  <2>3. CASE WaitFor(p, n)
    BY <1>1, <2>1, <2>3, WaitQuiet
  <2>4. CASE ~buf[n].busy /\ Return(p, n, [buf EXCEPT ![n].busy = TRUE])
    <3> DEFINE c == [buf EXCEPT ![n].busy = TRUE]
    <3>1. /\ c \in [Bufs -> Buffers] /\ \A m \in Bufs \ {n} : c[m] = buf[m]
          /\ c[n].blk = buf[n].blk /\ c[n].valid = buf[n].valid /\ c[n].dirty = buf[n].dirty /\ c[n].data = buf[n].data
      <4>1. [buf[n] EXCEPT !.busy = TRUE] \in Buffers /\ c = [buf EXCEPT ![n] = [buf[n] EXCEPT !.busy = TRUE]]
        BY <2>1 DEF Buffers
      <4>2. QED BY <2>1, <4>1 DEF Buffers
    <3>2. Return(p, n, c)
      BY <2>4
    <3> HIDE DEF c
    <3>3. \A m \in Bufs \ {n} : c[m] = buf[m] /\ buf[m].blk # arg[p].blk
      BY <2>1, <2>2, <3>1, BufferCacheAssumption DEF UniqueBuffer
    <3>4. QED BY <1>1, <2>1, <2>2, <2>4, <3>1, <3>2, <3>3, TakeFaithful
  <2>5. QED BY <2>2, <2>3, <2>4
<1>4. ASSUME NEW p \in Procs, Missed(p), NEW n \in Bufs, ~buf[n].busy, ~buf[n].dirty,
             Return(p, n, BufUpdate(n, arg[p].blk))
      PROVE  Faithful
  <2>1. /\ TypeOK /\ At(p, "get") /\ arg[p].blk \in Blocks
        /\ \A m \in Bufs : buf[m].blk # arg[p].blk
    BY <1>4 DEF CacheInv, Missed, At, FrameOK, Calling, InCall, Cached
  <2> DEFINE c == BufUpdate(n, arg[p].blk)
  <2>2. /\ c \in [Bufs -> Buffers] /\ \A m \in Bufs \ {n} : c[m] = buf[m]
        /\ c[n].blk = arg[p].blk /\ ~c[n].valid /\ Return(p, n, c)
    BY <1>4, <2>1, UpdateFacts
  <2> HIDE DEF c
  <2>3. QED BY <1>1, <1>4, <2>1, <2>2, TakeFaithful
<1>5. ASSUME NEW p \in Procs, GetFromMaster(p) PROVE Faithful
  <2>1. PICK n \in Bufs : n = Head(master) /\ n \in Range(master)
    <3>1. master \in Seq(Bufs) /\ master # <<>>
      BY <1>5, TypeNow DEF CacheInv, GetFromMaster
    <3>2. Head(master) \in Bufs /\ Head(master) = master[1] /\ 1 \in DOMAIN master
      BY <3>1
    <3>3. QED BY <3>2 DEF Range
  <2>2. PlaceOK(n)
    BY DEF CacheInv
  <2>3. ~buf[n].busy /\ ~buf[n].dirty
    BY <2>1, <2>2 DEF PlaceOK
  <2>4. QED BY <1>4, <1>5, <2>1, <2>3 DEF GetFromMaster
<1>6. ASSUME NEW p \in Procs, GetFromFree(p) PROVE Faithful
  <2>1. PICK n \in Bufs : n = Head(free)
    <3>1. free \in Seq(Bufs) /\ free # <<>>
      BY <1>6, TypeNow DEF CacheInv, GetFromFree
    <3>2. QED BY <3>1
  <2>2. At(p, "get") /\ Missed(p)
    BY <1>6 DEF GetFromFree, Missed
  <2>3. CASE WaitFor(p, n)
    BY <1>1, <2>2, <2>3, WaitQuiet
  <2>4. CASE Walk(p, AnyDevice, FlushBatch, FALSE, "get")
    BY <1>1, <2>2, <2>4, WalkQuiet
  <2>5. CASE ~buf[n].busy /\ ~buf[n].dirty /\ Return(p, n, BufUpdate(n, arg[p].blk))
    BY <1>4, <2>2, <2>5
  <2>6. QED BY <1>6, <2>1, <2>3, <2>4, <2>5 DEF GetFromFree
<1>7. ASSUME NEW p \in Procs, GetPostponed(p) \/ GetMemory(p) \/ GetNothing(p) \/ CallShrink(p) \/ Shrink(p) \/ Sync(p)
      PROVE  Faithful
  BY <1>1, <1>7, QuietSteps
<1>8. ASSUME NEW p \in Procs, ReadDone(p) \/ Release(p) PROVE Faithful
  BY <1>1, <1>8, ReadFaithful, ReleaseFaithful
<1>9. ASSUME NEW p \in Procs, NEW v \in Values, BufWrite(p, v) PROVE Faithful
  BY <1>1, <1>9, BufWriteFaithful
<1>10. ASSUME NEW p \in Procs, WalkTake(p) \/ WalkSkip(p) \/ WalkRemove(p) PROVE Faithful
  BY <1>1, <1>10, WalkTakeFaithful, SkipQuiet, RemoveEvicts
<1>11. ASSUME NEW p \in Procs, WalkWrite(p) \/ WalkEnd(p) PROVE Faithful
  BY <1>1, <1>11, QuietSteps, EndQuiet
<1>12. ASSUME NEW p \in Procs, WriteDone(p) \/ Unlock(p) \/ Restart(p) PROVE Faithful
  BY <1>1, <1>12, WriteFaithful, UnlockFaithful, RestartQuiet
<1>13. ASSUME NEW p \in Procs, Synced(p) \/ \E d \in Devices, remove \in BOOLEAN : CallSync(p, d, remove) PROVE Faithful
  BY <1>1, <1>13, OutsideQuiet
<1>14. ASSUME NEW b \in Blocks, BFree(b) PROVE Faithful
  BY <1>1, <1>14, FreeFaithful
<1>15. CASE Pages \/ UNCHANGED vars
  BY <1>15, PagesFaithful
<1>16. QED
  BY <1>2, <1>3, <1>5, <1>6, <1>7, <1>8, <1>9, <1>10, <1>11, <1>12, <1>13, <1>14, <1>15 DEF Next

LEMMA DataInvariant ==
  ASSUME ~WriteErrors
  PROVE  Spec => [](CacheInv /\ DataInv)
<1>1. Init => CacheInv /\ DataInv
  BY CacheInvInit, DataInit
<1>2. CacheInv /\ DataInv /\ [Next]_vars => (CacheInv /\ DataInv)'
  BY CacheInvStep, EveryStepFaithful DEF Faithful
<1>3. QED BY <1>1, <1>2, PTL DEF Spec

\* Unless a write to the disk fails, what a buffer holds is on the disk when buf_get() or
\* buf_remove() (fs/buffer.c) use the buffer for something else, wherever the contents came
\* from, and however buf_flush() was interrupted.
THEOREM AlwaysWrittenBeforeReuse ==
  ASSUME ~WriteErrors
  PROVE  Spec => WrittenBeforeReuse
<1>1. CacheInv /\ DataInv /\ [Next]_vars => [Written]_vars
  BY EveryStepFaithful DEF Faithful
<1>2. QED BY <1>1, DataInvariant, PTL DEF Spec, WrittenBeforeReuse

\* Unless a write to the disk fails, the cache is an array of blocks: who gets a buffer
\* finds what the last buf_write() (fs/buffer.c) of the block left or b_alloc() filled in, and
\* nobody else has it meanwhile.
THEOREM CacheIsStore ==
  ASSUME ~WriteErrors
  PROVE  Spec => ImplementsStore
<1>1. Init => Store!Init
  BY DataInit
<1>2. CacheInv /\ DataInv /\ [Next]_vars => [Store!Next]_(Store!vars)
  BY EveryStepFaithful DEF Faithful
<1>3. QED BY <1>1, <1>2, DataInvariant, PTL DEF Spec, ImplementsStore, Store!Spec
=============================================================================
