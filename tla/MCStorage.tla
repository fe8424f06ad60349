------------------------------ MODULE MCStorage ------------------------------
(***************************************************************************)
(* Properties and small instances of what is below the files: allocation,  *)
(* the blocks of a file, requests to the driver, the mount table, the      *)
(* tools that make and check a file system, and its superblock.  A         *)
(* behaviour is about one of the six, chosen at the start with the calls   *)
(* it draws from, so that the state spaces add up.                         *)
(***************************************************************************)
EXTENDS Clusters, BlockMap, BlockRead, Mounts, Superblock

(***************************************************************************)
(* File systems for Fsck to check, and what is right of one.  Two clusters *)
(* of blocks are named by number: with the constants of this module, 5 and *)
(* 6 are the data blocks of cluster 0, 10 and 11 those of cluster 1, 15    *)
(* and 16 those of cluster 2; inodes 1 to 5 are in clusters 0, 1, 1, 2, 2. *)
(***************************************************************************)

(***************************************************************************)
(* File systems: as mktfs leaves it; a tree of two directories, a file     *)
(* with a hole and an index, and a file with two names; and a file with    *)
(* three levels of indexes.                                                *)
(***************************************************************************)
Made == mktfs(32)

File(mode, links, size, blocks, addr) ==
    [di_mode |-> mode, di_nlinks |-> links, di_size |-> size, di_blocks |-> blocks,
     di_addr |-> [a \in Addresses |-> IF a \in DOMAIN addr THEN addr[a] ELSE 0]]

Tree == [Made EXCEPT
    !.di[1].di_size = 4, !.di[1].di_nlinks = 3,
    !.di[2] = File("reg", 1, 6, 2, SINGLE_INDIRECT_BLOCK :> 10),
    !.di[3] = File("dir", 2, 4, 1, 0 :> 15),
    !.di[4] = File("reg", 2, 2, 1, 0 :> 16),
    !.index[10] = <<11, 0>>,
    !.entries[5] = [@ EXCEPT ![2] = Dirent("a", 2), ![3] = Dirent("d", 3)],
    !.entries[15] = [@ EXCEPT ![0] = Dirent(".", 3), ![1] = Dirent("..", 1),
                              ![2] = Dirent("e", 4), ![3] = Dirent("f", 4)],
    !.imap = {5}, !.bmap = {6}, !.s_bfree = 1, !.s_ifree = 1]

Deep == [Made EXCEPT
    !.di[1].di_size = 3,
    !.di[2] = File("reg", 1, 30, 4, TRIPLE_INDIRECT_BLOCK :> 6),
    !.index[6] = <<10, 0>>, !.index[10] = <<11, 0>>, !.index[11] = <<15, 0>>,
    !.entries[5] = [@ EXCEPT ![2] = Dirent("a", 2)],
    !.imap = {3, 4, 5}, !.bmap = {16}, !.s_bfree = 1, !.s_ifree = 3]

\* A file system with one thing in it gone wrong.
Damaged(d, inodes, pointers) ==
    {[d EXCEPT !.bmap = SymDiff(@, {b})] : b \in DataBlocks}
    \cup {[d EXCEPT !.imap = SymDiff(@, {i})] : i \in inodes}
    \cup {[d EXCEPT !.s_bfree = @ + k] : k \in {-1, 1}}
    \cup {[d EXCEPT !.s_ifree = @ + k] : k \in {-1, 1}}
    \cup {[d EXCEPT !.di[i].di_nlinks = k] : i \in inodes, k \in 0..3}
    \cup {[d EXCEPT !.di[i].di_mode = k] : i \in inodes, k \in Modes \cup {"none", "bad"}}
    \cup {[d EXCEPT !.di[i].di_blocks = k] : i \in inodes, k \in 0..2}
    \cup {[d EXCEPT !.di[i].di_size = k] : i \in inodes, k \in {0, 1, 4, 5, 9}}
    \cup {[d EXCEPT !.di[i].di_addr[a] = b] : i \in inodes, a \in Addresses, b \in pointers}
    \cup {[d EXCEPT !.index[x][k] = b] : x \in {6, 10, 11}, k \in 1..2, b \in pointers}
    \cup {[d EXCEPT !.entries[x][k].inode = n] : x \in {5, 15}, k \in 0..DIRENTS - 1, n \in 0..NInodes + 1}
    \cup {[d EXCEPT !.entries[x][k].name = "?"] : x \in {5, 15}, k \in {0, 1}}
Once(d)  == Damaged(d, Inodes, DataBlocks \cup {0, 1, 99})
Twice(d) == UNION {Damaged(x, {2, 4}, {15, 99}) : x \in Damaged(d, {1, 2}, {11, 16})}

(***************************************************************************)
(* What is right: the blocks that an inode claims, each with the slot of   *)
(* the file it begins and its level.                                       *)
(***************************************************************************)
RECURSIVE Positions(_, _, _, _)
Positions(d, b, l, f) ==
    IF b = 0 THEN <<>>
    ELSE <<[block |-> b, slot |-> f, level |-> l]>> \o
         (IF l = 0 \/ b \notin DataBlocks THEN <<>>
          ELSE FlattenSeq([k \in 1..B |-> Positions(d, d.index[b][k], l - 1, f + (k - 1) * B^(l - 1))]))

FirstSlot(a) == CASE a <= DIRECT_BLOCKS          -> a
                  [] a = DOUBLE_INDIRECT_BLOCK   -> DIRECT_BLOCKS + B
                  [] OTHER                       -> DIRECT_BLOCKS + B + B * B
Placed(d, i) == FlattenSeq([a \in 1..TRIPLE_INDIRECT_BLOCK + 1 |->
                    Positions(d, d.di[i].di_addr[a - 1], Max({0, a - DIRECT_BLOCKS}), FirstSlot(a - 1))])
Claims(d, i) == LET p == Placed(d, i) IN [k \in 1..Len(p) |-> p[k].block]

InSize(d, i) == \A x \in Range(Placed(d, i)) : x.slot < BlocksIn(d.di[i].di_size)
\* There is a block behind a part of the file that has no index block.
Skips(d, i) == LET p == Range(Placed(d, i))
                   met == 0..DIRECT_BLOCKS - 1 \cup UNION {x.slot..x.slot + B - 1 : x \in {y \in p : y.level = 1}}
               IN  \E x \in p : \E f \in 0..x.slot - 1 : f \notin met

Uses(d) == Inodes \ d.imap
RightInode(d, i) == /\ d.di[i].di_mode \in Modes
                    /\ LET c == Claims(d, i) IN Range(c) \subseteq DataBlocks /\ IsInjective(c)

(***************************************************************************)
(* The tree.                                                               *)
(***************************************************************************)
WithSubDirs(d, dirs1) == dirs1 \cup UNION {{directory_read(d, i, k).inode : k \in SubDirs(d, i)} : i \in dirs1}
ReachedDirs(d, within) ==
    FoldLeft(LAMBDA r, k : WithSubDirs(d, r) \cap within, {1}, [k \in Inodes |-> k])
Links(d) == UNION {{<<i, k, directory_read(d, i, k).inode>> : k \in Linking(d, i)} : i \in ReachedDirs(d, Inodes)}

TreeShaped(d) ==
    /\ \A i \in Inodes : i = 1 \/ d.di[i].di_mode = "dir" => ~Overruns(d, i)
    /\ LET links == Links(d)
       IN  \A i \in Inodes : d.di[i].di_mode = "dir" =>
              Cardinality({x \in links : x[2] > 1 /\ x[3] = i}) <= IF i = 1 THEN 0 ELSE 1

\* No block has two owners, bitmaps and counts say what the inodes and the tree say.
Consistent(d) ==
    /\ d.s_bfree = Cardinality(d.bmap) /\ d.s_ifree = Cardinality(d.imap)
    /\ \A i \in d.imap : d.di[i].di_mode = "none"
    /\ LET links == Links(d)
       IN  \A i \in Inodes : LET n == Cardinality({x \in links : x[3] = i})
                             IN  d.di[i].di_nlinks = n /\ (i \in d.imap <=> n = 0)
    /\ LET claims == [i \in Uses(d) |-> Claims(d, i)]
       IN  /\ \A i \in Uses(d) : /\ RightInode(d, i) /\ d.di[i].di_blocks = Len(claims[i])
                                 /\ InSize(d, i) \/ Skips(d, i)
           /\ \A i, j \in Uses(d) : i # j => Range(claims[i]) \cap Range(claims[j]) = {}
           /\ d.bmap = DataBlocks \ UNION {Range(claims[i]) : i \in Uses(d)}

\* The inodes in use with nothing wrong in them, whose blocks no other claims, and
\* that have a name in directories of which that is true too.
Good(d) ==
    LET claims == [i \in Uses(d) |-> Range(Claims(d, i))]
        alone  == {i \in Uses(d) : /\ RightInode(d, i) /\ InSize(d, i)
                                   /\ \A j \in Uses(d) \ {i} : claims[i] \cap claims[j] = {}}
    IN  IF 1 \notin alone \/ d.di[1].di_mode # "dir" THEN {}
        ELSE alone \cap UNION {{directory_read(d, i, k).inode : k \in Linking(d, i)} : i \in ReachedDirs(d, alone)}
Content(d, i) == [mode |-> d.di[i].di_mode, size |-> d.di[i].di_size, addr |-> d.di[i].di_addr]

(***************************************************************************)
(* Runs of tfsck.                                                          *)
(***************************************************************************)
Check(options) ==
    \E o \in options : tfsck(o, IF TreeShaped(disk) THEN [i \in Good(disk) |-> Content(disk, i)] ELSE <<>>,
                             TreeShaped(disk) /\ Consistent(disk) /\ \A i \in Uses(disk) : InSize(disk, i))

\* A run to the end that finds nothing wrong leaves a file system with nothing wrong
\* in it, when every directory has one name (tfsck.c).
QuietIsConsistent == ck.code = "0" /\ ck.quiet /\ ~ck.odd /\ TreeShaped(disk) => Consistent(disk)

\* Nothing is found wrong in a file system with nothing wrong in it, and nothing done to it.
NoFalseAlarm == ck.sane => ck.quiet /\ (ck.pc = "idle" => Consistent(disk))

\* Whatever is repaired, and wherever the run ends, a file or directory that had
\* nothing wrong in it at its start is as it was.
GoodKept == ck.pc = "idle" => \A i \in DOMAIN ck.good : i \notin disk.imap /\ Content(disk, i) = ck.good[i]

\* After MaxRuns runs with -a there is nothing wrong any more, as far as tfsck sees.
MaxRuns == 4
Settles == ck.pc = "idle" /\ ck.autos > MaxRuns => ck.quiet

(***************************************************************************)
(* The instances.                                                          *)
(***************************************************************************)
VARIABLE ctl    \* the part, what it draws its calls from, and how many are left

Menu(part, n, ops, types, free_nos) ==
    [part |-> part, left |-> n, ops |-> ops, types |-> types, avail |-> free_nos,
     offsets |-> {}, lengths |-> {}, cuts |-> {}]

\* Allocation: the resources that are free at the start, counted over the clusters.
Scattered == Menu("clusters", 5, {"alloc", "free"}, {BLOCKS}, {1, 4, 5})
Syncing   == Menu("clusters", 4, {"alloc", "free", "sync"}, {BLOCKS}, {1, 5})
Both      == Menu("clusters", 4, {"alloc", "sync"}, Types, {2, 4})

\* The blocks of a file.  Dense files are written at their end and cut anywhere
\* that i_truncate() cuts whole; sparse ones are written anywhere and cut
\* between blocks.
Calls(offsets, lengths, cuts) ==
    [Menu("map", 4, {}, {}, {}) EXCEPT !.offsets = offsets, !.lengths = lengths, !.cuts = cuts]
Dense  == Calls({}, {1, 5, 12, 17}, {0, 2, 3, 4, 6, 7, 10, 14, 15})
Sparse == Calls({0, 3, 5, 8, 13, 16, 24}, {1, 3}, {0, 2, 4, 6, 10, 14})

Reading   == Menu("read", 0, {}, {}, {})
Mounting  == Menu("mount", 7, {"mount", "umount", "file"}, {}, {})
Special   == Menu("mount", 6, {"mount", "umount", "special"}, {}, {})
Swapping  == Menu("mount", 7, {"mount", "file", "swapon"}, {}, {})

\* Checking: with -a what is damaged once or twice, with signals, and with questions.
Repairing == Menu("fsck", MaxRuns + 2, {"-a"}, {1, 2}, {})
Stopped   == Menu("fsck", 3, {"-a", "signal"}, {1}, {})
Asking    == Menu("fsck", 2, {"-a", "-r", ""}, {1}, {})
DamagedBy(m) == IF m.part # "fsck" THEN {Made}
                ELSE Once(Tree) \cup
                     (IF 2 \in m.types THEN {mktfs(64)} \cup Once(Deep) \cup Once(Made) \cup Twice(Tree) ELSE {})

\* Superblocks: cluster sizes and devices at the edges of a cluster, each option that
\* mktfs tests; and what may be wrong in one field.
Superblocks == Menu("superblock", 0, {}, {}, {})
Option(fsize, icluster, direntsz, loader, bad) ==
    [s_fsize |-> fsize, s_blksz |-> 1024, s_icluster |-> icluster, s_direntsz |-> direntsz,
     s_ssbldsz |-> loader, bad |-> bad]
Edges(icluster, head) ==
    LET r == cluster_reserved(1024, icluster)
    IN  {head + n * (r + 8192) + x : n \in 0..2, x \in {0, r - 1, r, r + 31, r + 32, r + 33}}
Options ==
    UNION {{Option(f, i, 32, k, b * 256) : f \in Edges(RoundUp(i, 32), 2 + k + b)} :
             i \in {1, 1000, 8192}, k \in {0, 7}, b \in {0, 4}}
    \cup {Option(1440, i, e, 0, b) : i \in {0, 1024, 8193}, e \in {16, 48, 256}, b \in {-1, 0, 1, 1025}}
Numbers == {"s_fsize", "s_ssbldsz", "s_bblsz", "s_clusters", "s_icluster", "s_bcluster", "s_bpcluster", "s_lcflag",
            "s_blcluster", "s_ublocks", "s_bfree", "s_ifree", "s_flock", "s_ilock", "s_fmod"}
Changes(s) == {<<f, s[f] + k>> : f \in Numbers, k \in {-1, 1, 32}} \cup {<<f, 0>> : f \in Numbers}
    \cup {<<"s_magic", "other">>, <<"s_state", "other">>}
    \cup {<<"s_blksz", n>> : n \in {512, 1000, 2048}} \cup {<<"s_direntsz", n>> : n \in {0, 64}}

Nth(t, k) == IF t = INODES THEN k ELSE cluster2fs(k \div s_bcluster, k % s_bcluster)
Taken(free_nos) == [t \in Types |-> All(t) \ {Nth(t, k) : k \in free_nos}]

\* Two files each with some of its blocks missing, or a file and the device.
FirstFiles  == {<<Run(0, <<1, 2, 0, 3>>), Run(7, <<4, 5, 6>>)>>, <<Run(0, <<3, 1, 2>>)>>,
                <<Run(8, <<1, 0, 2, 4, 5>>)>>}
SecondFiles == {<<Run(0, <<5, 6>>)>>, <<Run(4, <<5, 7>>)>>}
Device      == <<Run(0, <<3, 4, 5, 6, 7>>)>>
ReadBlocks  == 1..8
Pairs == {<<Reader(FALSE, f), Reader(g = Device, g)>> : f \in FirstFiles, g \in SecondFiles \cup {Device}}

Init ==
    /\ ctl \in {Scattered, Syncing, Both, Dense, Sparse, Reading, Mounting, Special, Swapping,
               Repairing, Stopped, Asking, Superblocks}
    /\ ClInit(Taken(ctl.avail))
    /\ file = NewFile /\ text = <<>>
    /\ rd \in (IF ctl.part = "read" THEN Pairs ELSE {<<>>})
    /\ valid \in (IF ctl.part = "read" THEN SUBSET {1, 2, 4, 6} ELSE {{}})
    /\ busy = [b \in ReadBlocks |-> 0]
    /\ MountInit
    /\ disk \in DamagedBy(ctl) /\ ck = CkIdle
    /\ SbInit

\* A cut that leaves no part of an indirect block further in.
Whole(length) == LET f == (length + s_blksz - 1) \div s_blksz
                     k == fblock(f)
                 IN  level(f) < 2 \/ (level(f) = 2 /\ k % B = 0) \/ (level(f) = 3 /\ k = 0)

CallLeft == ctl.left > 0 /\ ctl' = [ctl EXCEPT !.left = @ - 1]

NextClusters ==
    \E p \in Users :
       \/ CallLeft /\ \/ "alloc" \in ctl.ops /\ \E t \in ctl.types : alloc(p, t)
                      \/ "free" \in ctl.ops /\ free(p)
                      \/ "sync" \in ctl.ops /\ SyncCall(p)
       \/ UNCHANGED ctl /\ (allocator(p) \/ SyncStep(p))

NextMap ==
    /\ CallLeft
    /\ \/ \E o \in IF ctl.offsets = {} THEN {file.i_size} ELSE ctl.offsets, n \in ctl.lengths :
             o + n <= Capacity * s_blksz /\ write(o, n, ctl.left)
       \/ \E c \in ctl.cuts : Whole(c) /\ (ctl.offsets = {} => c <= file.i_size) /\ truncate(c)

NextRead  == UNCHANGED ctl /\ ((\E p \in Readers : ReaderStep(p)) \/ Evict)
NextMount == \E p \in Admins : \/ CallLeft /\ MountCall(p, ctl.ops)
                               \/ UNCHANGED ctl /\ MountStep(p)

NextFsck  == \/ CallLeft /\ Check(ctl.ops \ {"signal"})
             \/ UNCHANGED ctl /\ (FsckStep \/ ("signal" \in ctl.ops /\ Interrupted))

Next == \/ ctl.part = "clusters" /\ NextClusters /\ UNCHANGED <<fileVars, rdVars, mVars, ckVars, sbVars>>
        \/ ctl.part = "map"      /\ NextMap      /\ UNCHANGED <<clVars, rdVars, mVars, ckVars, sbVars>>
        \/ ctl.part = "read"     /\ NextRead     /\ UNCHANGED <<clVars, fileVars, mVars, ckVars, sbVars>>
        \/ ctl.part = "mount"    /\ NextMount    /\ UNCHANGED <<clVars, fileVars, rdVars, ckVars, sbVars>>
        \/ ctl.part = "fsck"     /\ NextFsck     /\ UNCHANGED <<clVars, fileVars, rdVars, mVars, sbVars>>
        \/ /\ ctl.part = "superblock" /\ SbNext(Options, Changes)
           /\ UNCHANGED <<ctl, clVars, fileVars, rdVars, mVars, ckVars>>

Spec == Init /\ [][Next]_<<clVars, fileVars, rdVars, mVars, ckVars, sbVars, ctl>>

(***************************************************************************)
(* The blocks of a file.                                                   *)
(***************************************************************************)
\* The blocks reached from an address through l levels of indirect blocks.
Below(b, l) == LET D[k \in 0..3, x \in Blocks \cup {0}] ==
                      IF x = 0 THEN <<>> ELSE IF k = 0 THEN <<x>>
                      ELSE <<x>> \o FlattenSeq([i \in 1..B |-> D[k - 1, file.index[x][i - 1]]])
               IN  D[l, b]
InUse == FlattenSeq([a \in 1..TRIPLE_INDIRECT_BLOCK + 1 |->
            Below(file.i_addr[a - 1], IF a <= DIRECT_BLOCKS THEN 0 ELSE a - DIRECT_BLOCKS)])

\* wbmap() and i_truncate() (fs/inode.c): every block is free or in the file once,
\* i_blocks counts those in the file, i_size is where the text ends and no block of
\* data lies past it, also when the file system is full.  As long as no index has left an indirect block and no cut
\* has gone through one of a doubly indirect file.
BlocksOnce ==
    ctl.part = "map" /\ ~file.wild =>
        /\ IsInjective(InUse)
        /\ file.free = Blocks \ Range(InUse)
        /\ file.i_blocks = Len(InUse)
        /\ file.i_size = Len(text)
        /\ \A f \in 0..Capacity - 1 :
              f * s_blksz >= file.i_size => bmap(file, f) = <<>> \/ Head(bmap(file, f)) = 0

\* regular_read() over bmap() (fs/regular.c, fs/inode.c) returns what was written,
\* and zeros where nothing was: any read of a file without holes, and in a sparse
\* file any read within a block, when it comes to an end at all.
ReadsBack ==
    ~file.wild =>
    \A o \in 0..Len(text) - 1 :
    \A n \in 1..(IF ctl.offsets = {} THEN Len(text) - o ELSE s_blksz - (o % s_blksz)) :
        LET r == regular_read(file, o, n)
        IN  r # Stuck => r = SubSeq(text, o + 1, Min({o + n, Len(text)}))

\* Both: what regular_write() and i_truncate() leave, on the disk and to a reader.
FilesExact == BlocksOnce /\ ReadsBack

(***************************************************************************)
(* Requests.                                                               *)
(***************************************************************************)
WholeOf(p) == FoldLeft(LAMBDA s, k : s \o k.blocks, <<>>, rd[p].runs)

\* regular_read(), a_out_read() and blk_read() put each block where it belongs in
\* what they return, however holes, valid buffers and gaps cut the requests, and
\* keep no buffer when they are done (fs/regular.c, fs/device.c).
RequestsExact ==
    \A p \in DOMAIN rd : rd[p].pc = "done" => rd[p].out = WholeOf(p) /\ Holds(p) = {}

(***************************************************************************)
(* Checking and repairing.                                                 *)
(***************************************************************************)
\* What the runs of tfsck.c promise, one after the other, ended by signals or not,
\* on file systems with one or two things gone wrong: a run that finds nothing
\* leaves nothing wrong, one that has nothing to find finds nothing, no repair harms
\* what was right, and repairing with -a comes to an end.
FsckSound == ctl.part = "fsck" => QuietIsConsistent /\ NoFalseAlarm /\ GoodKept /\ Settles

\* hdc_close() (driver/block/hdc.c): "It should never enter on the 'true' branch of
\* this 'if'", that a device is closed that is not in use.
NeverClosedUnused == "unused" \notin mishaps

=============================================================================
