-------------------------------- MODULE Fsck --------------------------------
(***************************************************************************)
(* The file system tools: mktfs.c, which makes a file system, and tfsck.c, *)
(* which checks and repairs one (tfs-0.2.1).                               *)
(*                                                                         *)
(* tfsck goes through the inodes, marking their blocks in a bitmap of its  *)
(* own; compares that bitmap with the clusters'; compares the counts of    *)
(* the superblock; and, when no error is left, goes through the tree of    *)
(* directories counting links, which it compares with the inodes and their *)
(* bitmap.  Everything it repairs it writes at once, and a signal ends it  *)
(* between any two of these steps.  With -a it repairs everything, with -r *)
(* what the user confirms, otherwise nothing.                              *)
(*                                                                         *)
(* The geometry is that of Clusters, the addresses of an inode are those   *)
(* of BlockMap.  A data block is an index, a piece of a directory, or      *)
(* neither, and tfsck writes none of them.  Sizes are counted in directory *)
(* entries, DIRENTS to a block.                                            *)
(***************************************************************************)
EXTENDS Clusters, BlockMap

CONSTANT DIRENTS    \* s_blksz / s_direntsz

ASSUME DirentsAssumption == DIRENTS \in Nat \ {0, 1}

VARIABLES disk,     \* the file system on the disk
          ck        \* the check: where it is and what it has found

ckVars == <<disk, ck>>

s_fsize    == HEAD + s_clusters * s_bpcluster
NInodes    == s_clusters * s_icluster
Inodes     == 1..NInodes - 1
DataBlocks == All(BLOCKS)
Modes      == {"reg", "dir"}    \* those of a valid inode; "none" is 0, "bad" any other

NoInode == [di_mode |-> "none", di_nlinks |-> 0, di_size |-> 0, di_blocks |-> 0,
            di_addr |-> [a \in Addresses |-> 0]]
Dirent(name, inode) == [name |-> name, inode |-> inode]
NoDirents  == [k \in 0..DIRENTS - 1 |-> Dirent("", 0)]
BlocksIn(size) == (size + DIRENTS - 1) \div DIRENTS

(***************************************************************************)
(* mktfs.                                                                  *)
(***************************************************************************)
\* The clusters that mktfs lays out on fsize blocks, head of them before the
\* first cluster, in clusters of bcluster data blocks after reserved others; a
\* bitmap is compared and searched by words of w bits.
Geometry(fsize, head, reserved, bcluster, w) ==
    LET rest  == fsize - head
        part  == rest % (reserved + bcluster)
        whole == rest \div (reserved + bcluster)
        last  == part >= reserved
        n     == IF last THEN whole + 1 ELSE whole
        lastn == IF last THEN ((part - reserved) \div w) * w ELSE 0
    IN  [s_clusters |-> n, s_lcflag |-> last, s_blcluster |-> lastn,
         s_ublocks |-> fsize - (head + reserved * n + bcluster * (n - 1) + (IF last THEN lastn ELSE bcluster)),
         s_bfree |-> (n - 1) * bcluster + (IF last THEN lastn ELSE bcluster) - 1]

\* A file system with nothing but the root directory, for entries of direntsz
\* bytes: the number of ".." is put at byte 0x20, its name at the second entry.
mktfs(direntsz) ==
    LET first == cluster2fs(0, 0)
        root1 == [NoInode EXCEPT !.di_mode = "dir", !.di_nlinks = 2, !.di_size = 2, !.di_blocks = 1,
                                 !.di_addr[0] = first]
        dots  == [NoDirents EXCEPT ![0] = Dirent(".", 1), ![1] = Dirent("..", IF direntsz = 32 THEN 1 ELSE 0)]
    IN  [di      |-> [i \in 0..NInodes - 1 |-> IF i = 1 THEN root1 ELSE NoInode],
         index   |-> [b \in DataBlocks |-> [k \in 1..B |-> 0]],
         entries |-> [b \in DataBlocks |-> IF b = first THEN dots ELSE NoDirents],
         imap    |-> Inodes \ {1}, bmap |-> DataBlocks \ {first},
         s_ifree |-> NInodes - 2, s_bfree |-> Geometry(s_fsize, HEAD, RESERVED, s_bcluster, 1).s_bfree]

(***************************************************************************)
(* A run of tfsck.  sb is its copy of the counts of the superblock, which  *)
(* update_superblock() writes; marked are the blocks found in use;         *)
(* fs_errors what is wrong and not repaired; quiet says that nothing was   *)
(* wrong, odd that there was a message about something not counted as an   *)
(* error.  good and sane are what the properties remember of the start,    *)
(* autos how many runs with -a have ended one after the other.             *)
(***************************************************************************)
CkIdle == [pc |-> "idle", option |-> "", n |-> 0, fs_errors |-> 0, quiet |-> FALSE, odd |-> FALSE,
           marked |-> {}, total_free_blocks |-> 0, i_nlinks |-> [i \in 0..NInodes - 1 |-> 0], todo |-> <<>>,
           sb |-> [s_bfree |-> 0, s_ifree |-> 0], code |-> "none", good |-> <<>>, sane |-> FALSE, autos |-> 0]

repair_confirmation == CASE ck.option = "-a" -> {TRUE}
                         [] ck.option = "-r" -> BOOLEAN
                         [] OTHER            -> {FALSE}
Asked(wrong) == IF wrong THEN repair_confirmation ELSE {FALSE}

\* An error is counted, and no longer counted when it is repaired.
Count(c, wrong, repaired) ==
    IF wrong THEN [c EXCEPT !.fs_errors = IF repaired THEN @ ELSE @ + 1, !.quiet = FALSE] ELSE c

\* main() up to the end of check_superblock(); a free count that is too large
\* is a message, and corrected only when the blocks and inodes are counted.
tfsck(option, good, sane) ==
    /\ ck.pc = "idle"
    /\ ck' = [CkIdle EXCEPT !.pc = "inodes", !.n = 1, !.option = option, !.quiet = TRUE,
                            !.sb = [s_bfree |-> disk.s_bfree, s_ifree |-> disk.s_ifree],
                            !.odd = disk.s_ifree > NInodes \/ disk.s_bfree > Cardinality(DataBlocks),
                            !.good = good, !.sane = sane, !.autos = ck.autos]
    /\ UNCHANGED disk

\* do_exit() or the end of main(): a run of tfsck is over.
Exit(c, code) ==
    [CkIdle EXCEPT !.code = code, !.option = c.option, !.quiet = c.quiet, !.odd = c.odd, !.good = c.good,
                   !.sane = c.sane, !.autos = IF c.option = "-a" /\ code # "signal" THEN c.autos + 1 ELSE 0]

\* do_exit() as the handler of SIGINT, SIGQUIT and SIGTERM.
Interrupted ==
    /\ ck.pc \notin {"idle", "lost"}
    /\ ck' = Exit(ck, "signal") /\ UNCHANGED disk

(***************************************************************************)
(* Stage 2: inodes and blocks.                                             *)
(***************************************************************************)
reserved_block(b) == b < HEAD \/ (b - HEAD) % s_bpcluster < RESERVED
BadBlock(b) == b >= s_fsize \/ reserved_block(b)

\* Mutant: a block that is marked already is marked again.
insert_block_Again(s, b) ==
    IF b = 0 THEN s
    ELSE IF BadBlock(b) THEN [s EXCEPT !.errors = @ + 1]
    ELSE IF s.left <= 0 THEN [s EXCEPT !.total = @ + 1, !.errors = @ + 1]
    ELSE [s EXCEPT !.total = @ + 1, !.marked = @ \cup {b}]

\* left is the size of the file in blocks, less what has been passed of it.
insert_block(s, b) ==
    IF b = 0 THEN s
    ELSE IF BadBlock(b) THEN [s EXCEPT !.errors = @ + 1]
    ELSE IF s.left <= 0 \/ b \in s.marked THEN [s EXCEPT !.total = @ + 1, !.errors = @ + 1]
    ELSE [s EXCEPT !.total = @ + 1, !.marked = @ \cup {b}]

data_block(s, b) == [insert_block(s, b) EXCEPT !.left = @ - 1]

\* An index block and what is below it; a hole is passed without a look at the size.
Indirect(s, b, Inner(_, _)) ==
    IF b = 0 \/ BadBlock(b) THEN insert_block(s, b)
    ELSE FoldLeft(Inner, insert_block(s, b), disk.index[b])

single_indirect_block_insert(s, b) == Indirect(s, b, data_block)
double_indirect_block_insert(s, b) == Indirect(s, b, single_indirect_block_insert)
triple_indirect_block_insert(s, b) == Indirect(s, b, double_indirect_block_insert)

BlocksOfInode(d) ==
    LET start  == [left |-> BlocksIn(d.di_size), marked |-> ck.marked, total |-> 0, errors |-> 0]
        direct == FoldLeft(data_block, start, [k \in 1..DIRECT_BLOCKS |-> d.di_addr[k - 1]])
        single == single_indirect_block_insert(direct, d.di_addr[SINGLE_INDIRECT_BLOCK])
        double == double_indirect_block_insert(single, d.di_addr[DOUBLE_INDIRECT_BLOCK])
    IN  triple_indirect_block_insert(double, d.di_addr[TRIPLE_INDIRECT_BLOCK])

\* On to the next inode, then to the bitmaps.
InodeDone(c) == IF c.n = NInodes - 1 THEN [c EXCEPT !.pc = "bitmaps", !.n = 0] ELSE [c EXCEPT !.n = @ + 1]

\* An inode that is free in the bitmap loses its mode; its blocks are not looked at.
FreeInode ==
    /\ ck.pc = "inodes" /\ ck.n \in disk.imap
    /\ LET d == disk.di[ck.n]
           wrong == d.di_mode # "none"
       IN  \E yes \in Asked(wrong) :
              /\ disk' = IF yes THEN [disk EXCEPT !.di[ck.n].di_mode = "none"] ELSE disk
              /\ ck' = InodeDone([Count(ck, wrong, yes) EXCEPT !.odd = @ \/ d.di_nlinks # 0])

BadMode(d) == d.di_mode \notin Modes

ModeLeft ==
    /\ ck.pc = "inodes" /\ ck.n \notin disk.imap
    /\ BadMode(disk.di[ck.n]) /\ FALSE \in repair_confirmation
    /\ ck' = InodeDone(Count(ck, TRUE, FALSE)) /\ UNCHANGED disk

\* An inode in use becomes a regular file if its mode is none, is wiped out if
\* one of its blocks is wrong, and then gets the number of blocks counted.
UsedInode ==
    /\ ck.pc = "inodes" /\ ck.n \notin disk.imap
    /\ BadMode(disk.di[ck.n]) => TRUE \in repair_confirmation
    /\ LET d == disk.di[ck.n]
           s == BlocksOfInode(d)
           moded == IF BadMode(d) THEN [d EXCEPT !.di_mode = "reg"] ELSE d
       IN  \E wipe \in Asked(s.errors > 0) :
           LET kept  == IF wipe THEN NoInode ELSE moded
               wrong == s.total # kept.di_blocks
           IN  \E yes \in Asked(wrong) :
                  /\ disk' = [disk EXCEPT !.di[ck.n] = IF yes THEN [kept EXCEPT !.di_blocks = s.total] ELSE kept]
                  /\ ck' = InodeDone([Count(Count(ck, BadMode(d), TRUE), wrong, yes) EXCEPT
                                        !.fs_errors = @ + s.errors, !.quiet = @ /\ s.errors = 0,
                                        !.marked = s.marked, !.odd = @ \/ d.di_nlinks = 0])

BitsOf(c) == {cluster2fs(c, b) : b \in Bits(BLOCKS, c)}

\* One cluster's bitmap of blocks is made what the inodes say, bit by bit.
check_cluster_blocks ==
    /\ ck.pc = "bitmaps"
    /\ LET cbitmap == BitsOf(ck.n) \ ck.marked
           bbitmap == BitsOf(ck.n) \cap disk.bmap
           differ  == SymDiff(cbitmap, bbitmap)
       IN  \E fix \in {f \in SUBSET differ : \A b \in differ : (b \in f) \in repair_confirmation} :
           LET now   == SymDiff(bbitmap, fix)
               bfree == ck.sb.s_bfree + Cardinality(now) - Cardinality(bbitmap)
               next  == [Count(ck, differ # {}, fix = differ) EXCEPT
                            !.sb.s_bfree = bfree, !.total_free_blocks = @ + Cardinality(now)]
           IN  /\ disk' = IF fix = {} THEN disk
                          ELSE [disk EXCEPT !.bmap = SymDiff(@, fix),
                                            !.s_bfree = bfree, !.s_ifree = ck.sb.s_ifree]
               /\ ck' = IF ck.n = s_clusters - 1 THEN [next EXCEPT !.pc = "counts"] ELSE [next EXCEPT !.n = @ + 1]

\* The counts of the superblock, and the end of the run if anything is wrong still.
check_counts ==
    /\ ck.pc = "counts"
    /\ LET bwrong == ck.total_free_blocks # ck.sb.s_bfree
           iwrong == Cardinality(disk.imap) # ck.sb.s_ifree
       IN  \E byes \in Asked(bwrong), iyes \in Asked(iwrong) :
           LET sbnow == [s_bfree |-> IF byes THEN ck.total_free_blocks ELSE ck.sb.s_bfree,
                         s_ifree |-> IF iyes THEN Cardinality(disk.imap) ELSE ck.sb.s_ifree]
               next == [Count(Count(ck, bwrong, byes), iwrong, iyes) EXCEPT !.sb = sbnow]
           IN  /\ disk' = IF byes \/ iyes THEN [disk EXCEPT !.s_bfree = sbnow.s_bfree, !.s_ifree = sbnow.s_ifree]
                          ELSE disk
               /\ ck' = IF next.fs_errors > 0 THEN Exit(next, "errors")
                        ELSE [next EXCEPT !.pc = "tree", !.todo = <<[dir |-> 1, parent |-> 1, path |-> {1}]>>]

(***************************************************************************)
(* Stages 3 and 4: the tree of directories, and the links.                 *)
(***************************************************************************)
\* directory_read(): what is in a block that holds no directory is not known.
Garbage == Dirent("?", NInodes + 1)
directory_read(d, i, k) ==
    LET a == k \div DIRENTS
        b == d.di[i].di_addr[a]
    IN  IF a \in Addresses /\ b \in DataBlocks THEN d.entries[b][k % DIRENTS] ELSE Garbage

\* The entries of a directory that parse_tfs_tree() counts as links: the first
\* two if they have the names they should, and those after them.
Linking(d, i) ==
    {k \in {0, 1} \cup 2..d.di[i].di_size - 1 :
        LET e == directory_read(d, i, k)
        IN  /\ e.inode <= NInodes
            /\ (k = 0 => e.name = ".") /\ (k = 1 => e.name = "..") /\ (k > 1 => e.inode # 0)}
Overruns(d, i) == \E k \in Linking(d, i) : directory_read(d, i, k).inode = NInodes
SubDirs(d, i) ==
    {k \in Linking(d, i) : LET e == directory_read(d, i, k)
                           IN  k > 1 /\ e.name \notin {".", ".."} /\ d.di[e.inode].di_mode = "dir"}

\* What is reported of a directory and not repaired.
Odd(d, i, parent) ==
    LET e(k) == directory_read(d, i, k)
    IN  \/ d.di[i].di_size < 2 \/ {0, 1} \ Linking(d, i) # {}
        \/ e(0).inode # i \/ e(1).inode # parent
        \/ \E k \in 0..d.di[i].di_size - 1 : e(k).inode > NInodes
        \/ \E k \in Linking(d, i) : IF k < 2 THEN d.di[e(k).inode].di_mode # "dir"
                                             ELSE d.di[e(k).inode].di_nlinks = 0

\* One directory: its links are counted, and the directories in it come next.
\* i_nlinks has no place for inode NInodes, and a directory that is below itself
\* is gone through until the stack is full.
parse_tfs_tree ==
    /\ ck.pc = "tree" /\ ck.todo # <<>>
    /\ UNCHANGED disk
    /\ LET this == Head(ck.todo)
           link(k) == directory_read(disk, this.dir, k).inode
           dirs1 == IF Overruns(disk, this.dir) THEN {} ELSE SubDirs(disk, this.dir)
       IN  IF Overruns(disk, this.dir) \/ \E k \in dirs1 : link(k) \in this.path
           THEN ck' = [ck EXCEPT !.pc = "lost", !.todo = <<>>]
           ELSE ck' = [ck EXCEPT
                    !.i_nlinks = [i \in DOMAIN @ |-> @[i] + Cardinality({k \in Linking(disk, this.dir) : link(k) = i})],
                    !.todo = Tail(@) \o [k \in 1..Cardinality(dirs1) |->
                                LET e == link(SetToSortSeq(dirs1, <)[k])
                                IN  [dir |-> e, parent |-> this.dir, path |-> this.path \cup {e}]],
                    !.odd = @ \/ Odd(disk, this.dir, this.parent)]

TreeDone ==
    /\ ck.pc = "tree" /\ ck.todo = <<>>
    /\ ck' = [ck EXCEPT !.pc = "links", !.n = 1] /\ UNCHANGED disk

\* check_nlinks(): an inode has the links that were counted.
check_nlinks ==
    /\ ck.pc = "links"
    /\ LET links == ck.i_nlinks[ck.n]
           wrong == disk.di[ck.n].di_nlinks # links
       IN  \E yes \in Asked(wrong) :
              /\ disk' = IF yes THEN [disk EXCEPT !.di[ck.n].di_nlinks = links] ELSE disk
              /\ ck' = [Count(ck, wrong, yes) EXCEPT
                           !.pc = IF ck.n % s_icluster = s_icluster - 1 THEN "imap" ELSE @,
                           !.n = IF ck.n % s_icluster = s_icluster - 1 THEN @ ELSE @ + 1]

\* Then a cluster's bitmap of inodes: free are those without a link.  The count
\* of free inodes in the superblock stays.  The end of main() returns 0.
check_ibitmap ==
    /\ ck.pc = "imap"
    /\ LET mine   == {i \in Inodes : i \div s_icluster = ck.n \div s_icluster}
           nolink == {i \in mine : ck.i_nlinks[i] = 0}
           wrong  == mine \cap disk.imap # nolink
       IN  \E yes \in Asked(wrong) :
           LET next == Count(ck, wrong, yes)
               map1 == IF yes THEN (disk.imap \ mine) \cup nolink ELSE disk.imap
           IN  IF ck.n < NInodes - 1
               THEN /\ disk' = [disk EXCEPT !.imap = map1]
                    /\ ck' = [next EXCEPT !.pc = "links", !.n = @ + 1]
               ELSE /\ disk' = [disk EXCEPT !.imap = map1, !.s_bfree = ck.sb.s_bfree, !.s_ifree = ck.sb.s_ifree]
                    /\ ck' = Exit(next, "0")

FsckStep == \/ FreeInode \/ ModeLeft \/ UsedInode \/ check_cluster_blocks \/ check_counts
            \/ parse_tfs_tree \/ TreeDone \/ check_nlinks \/ check_ibitmap

=============================================================================
