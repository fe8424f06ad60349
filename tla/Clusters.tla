------------------------------ MODULE Clusters ------------------------------
(***************************************************************************)
(* Allocation of disk inodes and file system blocks: fs/cluster.c,         *)
(* fs/block.c, i_alloc() and i_free() of fs/inode.c, and sync() with       *)
(* update_superblock() of fs/mount.c, on one mounted file system.          *)
(*                                                                         *)
(* A cluster of the file system has a bitmap block for its inodes and one  *)
(* for its data blocks.  The mount table keeps a copy of one bitmap of     *)
(* each type, that of the current cluster; to use another cluster the copy *)
(* is written back and the other bitmap is read.  A lock of the superblock *)
(* per type keeps allocations apart.  A step is the code between two calls *)
(* that may sleep; the block buffer of a bitmap is busy while held[b] is   *)
(* not 0, and what the buffer cache holds is bitmap[b], on disk or not.    *)
(***************************************************************************)
EXTENDS Integers, FiniteSets, FiniteSetsExt

CONSTANTS Users,        \* processes, 1..n
          s_clusters,   \* clusters of the file system
          s_icluster,   \* inodes in a cluster
          s_bcluster,   \* data blocks in a cluster
          s_blcluster,  \* data blocks in the last cluster
          HEAD,         \* blocks before the first cluster
          ITABLE,       \* blocks of a cluster's inodes
          ReadErrors    \* bound: bitmap blocks that cannot be read

ASSUME GeometryAssumption ==
    /\ Users \subseteq Nat \ {0}
    /\ {s_clusters, s_icluster, s_bcluster, s_blcluster, HEAD} \subseteq Nat \ {0}
    /\ s_blcluster <= s_bcluster /\ {ITABLE, ReadErrors} \subseteq Nat

INODES == 1     \* TFS_INODES_BITMAP
BLOCKS == 2     \* TFS_BLOCKS_BITMAP
Types  == {INODES, BLOCKS}

VARIABLES sb,           \* the superblock in memory: locks, demands, free counts; and
                        \* (dropped) that a lock that was asked for has been let go
          mpt_copy,     \* the current cluster of each type: number, count and copy
          bitmap,       \* the bitmap blocks: the free resources they show
          held,         \* who has the buffer of a bitmap block
          sync_mutex,
          waits,        \* waits[p]: the channel p sleeps on
          at, loc,      \* where each process is, and its variables
          used,         \* the inodes and blocks that have an owner
          errors,       \* bitmap blocks that could not be read so far
          mixed         \* a bitmap was written over that of another cluster

clVars == <<sb, mpt_copy, bitmap, held, sync_mutex, waits, at, loc, used, errors, mixed>>

(***************************************************************************)
(* Numbers.                                                                *)
(***************************************************************************)
RESERVED    == 1 + 1 + 1 + ITABLE
s_bpcluster == RESERVED + s_bcluster
ClusterNos  == 0..s_clusters - 1

cluster_data_blocks(c)      == IF c = s_clusters - 1 THEN s_blcluster ELSE s_bcluster
cluster_reserved2fs(c, t)   == HEAD + c * s_bpcluster + t
cluster2fs(c, b)            == HEAD + c * s_bpcluster + RESERVED + b
fs2cluster(block)           == ((block - HEAD) % s_bpcluster) - RESERVED
ClusterOf(block)            == (block - HEAD) \div s_bpcluster

\* The resources of cluster c, as their numbers in its bitmap.
Bits(t, c) == 0..(IF t = INODES THEN s_icluster ELSE cluster_data_blocks(c)) - 1

\* The number of a resource in the file system, and back.
Number(t, c, b) == IF t = INODES THEN c * s_icluster + b ELSE cluster2fs(c, b)
Cluster(t, n)   == IF t = INODES THEN n \div s_icluster ELSE ClusterOf(n)
Bit(t, n)       == IF t = INODES THEN n % s_icluster ELSE fs2cluster(n)
BitmapOf(t, c)  == cluster_reserved2fs(c, t)
All(t)          == UNION {{Number(t, c, b) : b \in Bits(t, c)} : c \in ClusterNos}

(***************************************************************************)
(* State.  taken[t] is what was allocated before the file system was       *)
(* mounted; inode 0 never is free.                                         *)
(***************************************************************************)
Idle     == [op |-> "none", type |-> BLOCKS, n |-> 0, cluster |-> 0, force |-> FALSE,
             wrapped |-> FALSE, first |-> FALSE, fblock |-> 0, back |-> "idle", got |-> {}]
NoCopy   == [cluster |-> -1, count |-> 0, bitmap |-> {}]

ClInit(taken) ==
    /\ used = taken
    /\ sb = [lock |-> [t \in Types |-> FALSE], demand |-> [t \in Types |-> FALSE],
             free |-> [t \in Types |-> Cardinality(All(t) \ taken[t])], dropped |-> FALSE]
    /\ mpt_copy = [t \in Types |-> NoCopy]
    /\ bitmap = [b \in {BitmapOf(t, c) : t \in Types, c \in ClusterNos} |->
                   LET t == (b - HEAD) % s_bpcluster
                       c == ClusterOf(b)
                   IN  {k \in Bits(t, c) : Number(t, c, k) \notin taken[t]}]
    /\ held = [b \in DOMAIN bitmap |-> 0]
    /\ sync_mutex = 1
    /\ waits = [p \in Users |-> "none"]
    /\ at = [p \in Users |-> "idle"]
    /\ loc = [p \in Users |-> Idle]
    /\ errors = 0 /\ mixed = FALSE

Ready(p, l) == at[p] = l /\ waits[p] = "none"
Jump(p, l)  == at' = [at EXCEPT ![p] = l]
Set(p, r)   == loc' = [loc EXCEPT ![p] = r]
WakeAll(channels) == waits' = [p \in Users |-> IF waits[p] \in channels THEN "none" ELSE waits[p]]
Channel(t)  == IF t = INODES THEN "s_ilock" ELSE "s_flock"

(***************************************************************************)
(* sb_f_lock() and sb_i_lock(), sb_f_unlock() and sb_i_unlock().           *)
(***************************************************************************)
sb_wait(p, t) == /\ sb.lock[t]
                 /\ sb' = [sb EXCEPT !.demand[t] = TRUE]
                 /\ waits' = [waits EXCEPT ![p] = Channel(t)]

\* The lock is given back, with the count of what is free.
sb_unlock(t, free) ==
    /\ sb' = [sb EXCEPT !.lock[t] = FALSE, !.demand[t] = FALSE, !.free[t] = free]
    /\ IF sb.demand[t] THEN WakeAll({Channel(t)}) ELSE UNCHANGED waits

(***************************************************************************)
(* i_alloc() and b_alloc().                                                *)
(***************************************************************************)
Call(p, op, t, n) ==
    /\ Ready(p, "idle")
    /\ Set(p, [Idle EXCEPT !.op = op, !.type = t, !.n = n, !.got = loc[p].got])
    /\ Jump(p, "lock")
    /\ UNCHANGED <<sb, mpt_copy, bitmap, held, sync_mutex, waits, used, errors, mixed>>

LockWait(p) == /\ Ready(p, "lock") /\ sb_wait(p, loc[p].type)
               /\ UNCHANGED <<mpt_copy, bitmap, held, sync_mutex, at, loc, used, errors, mixed>>

LockTaken(p) ==
    LET t == loc[p].type
    IN  /\ Ready(p, "lock") /\ ~sb.lock[t]
        /\ sb' = [sb EXCEPT !.lock[t] = TRUE]
        /\ Jump(p, IF loc[p].op = "alloc" THEN "alloc" ELSE "free")
        /\ UNCHANGED <<mpt_copy, bitmap, held, sync_mutex, waits, loc, used, errors, mixed>>

\* search_cluster(): from the cluster after the current one to the last, then
\* from the first to the current one.
SearchFrom(p) ==
    LET old  == mpt_copy[loc[p].type].cluster
        next == IF old # -1 /\ old + 1 = s_clusters THEN 0 ELSE old + 1
    IN  [loc[p] EXCEPT !.cluster = next, !.first = old = -1, !.force = FALSE, !.wrapped = FALSE]

NoneFree(p) ==
    LET t == loc[p].type
    IN  /\ Ready(p, "alloc") /\ mpt_copy[t].count = 0 /\ sb.free[t] = 0
        /\ sb_unlock(t, sb.free[t])
        /\ Jump(p, "idle")
        /\ UNCHANGED <<mpt_copy, bitmap, held, sync_mutex, loc, used, errors, mixed>>

Search(p) ==
    LET t == loc[p].type
    IN  /\ Ready(p, "alloc") /\ mpt_copy[t].count = 0 /\ sb.free[t] # 0
        /\ Set(p, SearchFrom(p))
        /\ Jump(p, "switch")
        /\ UNCHANGED <<sb, mpt_copy, bitmap, held, sync_mutex, waits, used, errors, mixed>>

\* get_bitmap_resource(): the first bit that is set.
get_bitmap_resource(m) == [m EXCEPT !.count = @ - 1, !.bitmap = @ \ {Min(@)}]

\* A count with no bit set would be a panic.
Take(p) ==
    LET t == loc[p].type
        n == Number(t, mpt_copy[t].cluster, Min(mpt_copy[t].bitmap))
    IN  /\ Ready(p, "alloc") /\ mpt_copy[t].count # 0 /\ mpt_copy[t].bitmap # {}
        /\ mpt_copy' = [mpt_copy EXCEPT ![t] = get_bitmap_resource(@)]
        /\ sb_unlock(t, sb.free[t] - 1)
        /\ used' = [used EXCEPT ![t] = @ \cup {n}]
        /\ Set(p, [Idle EXCEPT !.got = loc[p].got \cup {<<t, n>>}])
        /\ Jump(p, "idle")
        /\ UNCHANGED <<bitmap, held, sync_mutex, errors, mixed>>

(***************************************************************************)
(* i_free() and b_free().                                                  *)
(***************************************************************************)
FreeElsewhere(p) ==
    LET t == loc[p].type
        c == Cluster(t, loc[p].n)
    IN  /\ Ready(p, "free") /\ c # mpt_copy[t].cluster
        /\ Set(p, [loc[p] EXCEPT !.cluster = c, !.force = TRUE])
        /\ Jump(p, "switch")
        /\ UNCHANGED <<sb, mpt_copy, bitmap, held, sync_mutex, waits, used, errors, mixed>>

\* Mutant: the count of the copy is left alone.
release_bitmap_resource_NoCount(m, b) == [m EXCEPT !.bitmap = @ \cup {b}]

release_bitmap_resource(m, b) == [m EXCEPT !.bitmap = @ \cup {b}, !.count = @ + 1]

FreeHere(p) ==
    LET t == loc[p].type
        n == loc[p].n
    IN  /\ Ready(p, "free") /\ Cluster(t, n) = mpt_copy[t].cluster
        /\ mpt_copy' = [mpt_copy EXCEPT ![t] = release_bitmap_resource(@, Bit(t, n))]
        /\ sb_unlock(t, sb.free[t] + 1)
        /\ used' = [used EXCEPT ![t] = @ \ {n}]
        /\ Set(p, [Idle EXCEPT !.got = loc[p].got \ {<<t, n>>}])
        /\ Jump(p, "idle")
        /\ UNCHANGED <<bitmap, held, sync_mutex, errors, mixed>>

(***************************************************************************)
(* switch_cluster(): the buffer of the other bitmap is kept while          *)
(* flush_cluster() writes the current one back.                            *)
(***************************************************************************)
\* search_cluster() goes on, or panics when no cluster is left.
NextCluster(p) ==
    LET l    == loc[p]
        last == IF l.wrapped THEN mpt_copy[l.type].cluster - 1 ELSE s_clusters - 1
    IN  IF l.cluster < last THEN Set(p, [l EXCEPT !.cluster = @ + 1]) /\ Jump(p, "switch")
        ELSE IF ~l.wrapped /\ ~l.first /\ mpt_copy[l.type].cluster > 0
             THEN Set(p, [l EXCEPT !.cluster = 0, !.wrapped = TRUE]) /\ Jump(p, "switch")
             ELSE Jump(p, "panic") /\ UNCHANGED loc

SwitchRead(p) ==
    LET b == BitmapOf(loc[p].type, loc[p].cluster)
    IN  /\ Ready(p, "switch") /\ held[b] = 0
        /\ held' = [held EXCEPT ![b] = p]
        /\ Jump(p, "switch2")
        /\ UNCHANGED <<sb, mpt_copy, bitmap, sync_mutex, waits, loc, used, errors, mixed>>

\* The block cannot be read: a cluster that has to be switched to is a panic,
\* another one counts as full.
SwitchError(p) ==
    /\ Ready(p, "switch") /\ held[BitmapOf(loc[p].type, loc[p].cluster)] = 0
    /\ errors < ReadErrors /\ errors' = errors + 1
    /\ IF loc[p].force THEN Jump(p, "panic") /\ UNCHANGED loc ELSE NextCluster(p)
    /\ UNCHANGED <<sb, mpt_copy, bitmap, held, sync_mutex, waits, used, mixed>>

SwitchFull(p) ==
    LET b == BitmapOf(loc[p].type, loc[p].cluster)
    IN  /\ Ready(p, "switch2") /\ ~loc[p].force /\ bitmap[b] = {}
        /\ held' = [held EXCEPT ![b] = 0]
        /\ NextCluster(p)
        /\ UNCHANGED <<sb, mpt_copy, bitmap, sync_mutex, waits, used, errors, mixed>>

SwitchFlush(p) ==
    LET t == loc[p].type
        c == mpt_copy[t].cluster
    IN  /\ Ready(p, "switch2") /\ (loc[p].force \/ bitmap[BitmapOf(t, loc[p].cluster)] # {})
        /\ Set(p, [loc[p] EXCEPT !.fblock = IF c = -1 THEN 0 ELSE BitmapOf(t, c), !.back = "switch3"])
        /\ Jump(p, IF c = -1 THEN "switch3" ELSE "flush")
        /\ UNCHANGED <<sb, mpt_copy, bitmap, held, sync_mutex, waits, used, errors, mixed>>

SwitchedCopy(t, c, bits) == [cluster |-> c, count |-> Cardinality(bits), bitmap |-> bits]

Switched(p) ==
    LET t == loc[p].type
        b == BitmapOf(t, loc[p].cluster)
    IN  /\ Ready(p, "switch3")
        /\ mpt_copy' = [mpt_copy EXCEPT ![t] = SwitchedCopy(t, loc[p].cluster, bitmap[b])]
        /\ held' = [held EXCEPT ![b] = 0]
        /\ Jump(p, loc[p].op)
        /\ UNCHANGED <<sb, bitmap, sync_mutex, waits, loc, used, errors, mixed>>

(***************************************************************************)
(* flush_cluster(): the block is computed, its buffer waited for, and the  *)
(* copy of that moment written.                                            *)
(***************************************************************************)
Flush(p) ==
    LET t == loc[p].type
        b == loc[p].fblock
    IN  /\ Ready(p, "flush") /\ held[b] = 0
        /\ bitmap' = [bitmap EXCEPT ![b] = mpt_copy[t].bitmap]
        /\ mixed' = (mixed \/ b # BitmapOf(t, mpt_copy[t].cluster))
        /\ Jump(p, loc[p].back)
        /\ UNCHANGED <<sb, mpt_copy, held, sync_mutex, waits, loc, used, errors>>

(***************************************************************************)
(* sys_sync(): at once back when another one runs.  update_superblock()    *)
(* takes both locks together; it sleeps on the superblock, and wakes those *)
(* who do, not those who sleep on one of the locks.                        *)
(***************************************************************************)
SyncCall(p) ==
    /\ Ready(p, "idle")
    /\ IF sync_mutex = 0 THEN UNCHANGED <<sync_mutex, at, loc>>
       ELSE /\ sync_mutex' = 0
            /\ Set(p, [Idle EXCEPT !.op = "sync", !.got = loc[p].got])
            /\ Jump(p, "update")
    /\ UNCHANGED <<sb, mpt_copy, bitmap, held, waits, used, errors, mixed>>

UpdateWait(p) == /\ Ready(p, "update") /\ \E t \in Types : sb.lock[t]
                 /\ waits' = [waits EXCEPT ![p] = "sb"]
                 /\ UNCHANGED <<sb, mpt_copy, bitmap, held, sync_mutex, at, loc, used, errors, mixed>>

UpdateLock(p) == /\ Ready(p, "update") /\ ~ \E t \in Types : sb.lock[t]
                 /\ sb' = [sb EXCEPT !.lock = [t \in Types |-> TRUE]]
                 /\ Jump(p, "updated")
                 /\ UNCHANGED <<mpt_copy, bitmap, held, sync_mutex, waits, loc, used, errors, mixed>>

\* The superblock and its copies are written: the next flush is that of the inodes.
Updated(p) == /\ Ready(p, "updated")
              /\ sb' = [sb EXCEPT !.lock = [t \in Types |-> FALSE], !.dropped = @ \/ \E t \in Types : sb.demand[t]]
              /\ WakeAll({"sb"})
              /\ Jump(p, "sync_inodes")
              /\ UNCHANGED <<mpt_copy, bitmap, held, sync_mutex, loc, used, errors, mixed>>

\* flush_cluster() of one type, then the place after it; no lock is taken.
SyncFlush(p, l, t, back) ==
    /\ Ready(p, l)
    /\ IF mpt_copy[t].cluster = -1 THEN Jump(p, back) /\ UNCHANGED loc
       ELSE /\ Set(p, [loc[p] EXCEPT !.type = t, !.fblock = BitmapOf(t, mpt_copy[t].cluster), !.back = back])
            /\ Jump(p, "flush")
    /\ UNCHANGED <<sb, mpt_copy, bitmap, held, sync_mutex, waits, used, errors, mixed>>

SyncEnd(p) == /\ Ready(p, "synced")
              /\ sync_mutex' = 1
              /\ Set(p, [Idle EXCEPT !.got = loc[p].got])
              /\ Jump(p, "idle")
              /\ UNCHANGED <<sb, mpt_copy, bitmap, held, waits, used, errors, mixed>>

\* sys_sync() after SyncCall.
SyncStep(p) == \/ UpdateWait(p) \/ UpdateLock(p) \/ Updated(p)
               \/ SyncFlush(p, "sync_inodes", INODES, "sync_blocks")
               \/ SyncFlush(p, "sync_blocks", BLOCKS, "synced")
               \/ SyncEnd(p)

\* A process frees what it has allocated.
alloc(p, t) == Call(p, "alloc", t, 0)
free(p)     == \E r \in loc[p].got : Call(p, "free", r[1], r[2])

allocator(p) == \/ LockWait(p) \/ LockTaken(p) \/ NoneFree(p) \/ Search(p) \/ Take(p)
                \/ FreeElsewhere(p) \/ FreeHere(p)
                \/ SwitchRead(p) \/ SwitchError(p) \/ SwitchFull(p) \/ SwitchFlush(p) \/ Switched(p)
                \/ Flush(p)

\* All calls of all processes, on a file system of which taken[t] was allocated before.
ClNext        == \E p \in Users : \/ (\E t \in Types : alloc(p, t)) \/ free(p) \/ SyncCall(p)
                                  \/ allocator(p) \/ SyncStep(p)
ClSpec(taken) == ClInit(taken) /\ [][ClNext]_clVars

(***************************************************************************)
(* Properties.                                                             *)
(***************************************************************************)
\* What the copy of the current cluster and the bitmaps of the others show.
ShownFree(t) == {Number(t, c, b) : c \in {mpt_copy[t].cluster} \ {-1}, b \in mpt_copy[t].bitmap} \cup
    UNION {{Number(t, c, b) : b \in bitmap[BitmapOf(t, c)]} : c \in ClusterNos \ {mpt_copy[t].cluster}}

Stops(p) == at[p] = "panic" \/ (at[p] = "flush" /\ held[loc[p].fblock] = p)

\* b_alloc(), i_alloc(), b_free(), i_free() (fs/block.c, fs/inode.c) over
\* switch_cluster() and search_cluster() (fs/cluster.c): an inode or block is free
\* or has one owner, never both, whichever cluster is current; the counts of the
\* copy and of the superblock agree with the bits; and no one panics or waits for
\* a buffer that it holds itself.  As long as sync() has not written a bitmap over
\* another cluster's, and bitmaps can be read.
FreeExact ==
    ~mixed => \A t \in Types :
        /\ ShownFree(t) = All(t) \ used[t]
        /\ mpt_copy[t].count = Cardinality(mpt_copy[t].bitmap)
        /\ sb.free[t] = Cardinality(All(t) \ used[t])
        /\ errors = 0 => \A p \in Users : ~Stops(p)

\* sb_f_unlock() and sb_i_unlock() wake every process that asked for the lock
\* (fs/block.c, fs/inode.c): as long as update_superblock() has not let go of a lock
\* that was asked for, whoever sleeps for a lock sleeps because someone has it.
LocksHandedOn == ~sb.dropped => \A p \in Users, t \in Types : waits[p] = Channel(t) => sb.lock[t]

\* Both: free or owned, and no sleep for a lock that nobody has (fs/cluster.c).
AllocationSound == FreeExact /\ LocksHandedOn
=============================================================================
