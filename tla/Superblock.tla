----------------------------- MODULE Superblock ------------------------------
(***************************************************************************)
(* The superblock, in the hands of three programs: mktfs computes it from  *)
(* its options, tfsck checks it before anything else and writes it back,   *)
(* and the kernel checks it at a mount (check_superblock() of fs/mount.c). *)
(* The numbers are those of real disks of 1 Kb blocks.                     *)
(***************************************************************************)
EXTENDS Fsck

VARIABLES volume,   \* the device: its size and its superblock
          chk       \* what is going on with it, and what was found

sbVars == <<volume, chk>>

DINODE         == 128       \* sizeof(dinode_t)
MAX_BAD_BLOCKS == 1024
BOOT_BLKSZ     == 1024      \* what the boot block says: mktfs knows no other size
DirentSizes    == {16, 32, 64, 128, 256}
RoundUp(n, k)  == ((n + k - 1) \div k) * k

\* Unsigned numbers of 32 bits: those below 0 are the large ones.
Above(a, b) == IF (a < 0) = (b < 0) THEN a > b ELSE a < 0

(***************************************************************************)
(* mktfs.                                                                  *)
(***************************************************************************)
OptionsRefused(o) ==
    \/ o.s_blksz # 1024 \/ o.s_icluster > o.s_blksz * 8 \/ o.s_icluster = 0
    \/ o.bad \notin 0..MAX_BAD_BLOCKS \/ o.s_direntsz \notin DirentSizes

cluster_reserved(blksz, icluster) == 1 + 1 + 1 + (icluster * DINODE) \div blksz

made(o) ==
    LET icluster == RoundUp(o.s_icluster, 32)
        bblsz    == RoundUp(o.bad * 4, o.s_blksz) \div o.s_blksz
        bcluster == o.s_blksz * 8
        reserved == cluster_reserved(o.s_blksz, icluster)
        g == Geometry(o.s_fsize, 1 + 1 + bblsz + o.s_ssbldsz, reserved, bcluster, 32)
    IN  [s_fsize |-> o.s_fsize, s_blksz |-> o.s_blksz, s_direntsz |-> o.s_direntsz, s_ssbldsz |-> o.s_ssbldsz,
         s_bblsz |-> bblsz, s_clusters |-> g.s_clusters, s_icluster |-> icluster, s_bcluster |-> bcluster,
         s_bpcluster |-> reserved + bcluster, s_lcflag |-> IF g.s_lcflag THEN 1 ELSE 0,
         s_blcluster |-> g.s_blcluster, s_ublocks |-> g.s_ublocks, s_bfree |-> g.s_bfree,
         s_ifree |-> g.s_clusters * icluster - 2, s_flock |-> 1, s_ilock |-> 1, s_fmod |-> 0,
         s_state |-> "TFS_OK", s_magic |-> "TFS_MAGIC_V02", s_checksum |-> "right"]

(***************************************************************************)
(* Both checks: the first is that of tfsck, the second that of the kernel. *)
(* What each finds: what makes it refuse, and what it has a message about. *)
(***************************************************************************)
last_cluster(s) == IF s.s_lcflag # 0 THEN s.s_blcluster ELSE s.s_bcluster
total_inodes(s) == s.s_clusters * s.s_icluster
total_blocks(s) == (s.s_clusters - 1) * s.s_bcluster + last_cluster(s)

\* Mutant: the blocks after the last cluster are not counted.
total_fs_blocks_NoUnused(s) ==
    1 + 1 + s.s_ssbldsz + s.s_bblsz + cluster_reserved(s.s_blksz, s.s_icluster) * s.s_clusters + total_blocks(s)

total_fs_blocks(s) ==
    1 + 1 + s.s_ssbldsz + s.s_bblsz + cluster_reserved(s.s_blksz, s.s_icluster) * s.s_clusters
        + total_blocks(s) + s.s_ublocks

FreeCounts(s) == {f \in {"s_ifree", "s_bfree"} :
                     Above(s[f], IF f = "s_ifree" THEN total_inodes(s) ELSE total_blocks(s))}
Oversized(s) == s.s_bblsz > (MAX_BAD_BLOCKS * 4) \div s.s_blksz
Unlocked(s)  == s.s_flock = 0 \/ s.s_ilock = 0

tfsck_refuses(s, size) ==
    \/ s.s_magic # "TFS_MAGIC_V02" \/ s.s_checksum # "right"
    \/ s.s_blksz # BOOT_BLKSZ \/ s.s_direntsz \notin DirentSizes \/ Oversized(s)
    \/ s.s_fsize # size \/ total_fs_blocks(s) # size
tfsck_errors(s) == FreeCounts(s) \cup {e \in {"unlocked", "s_fmod"} :
                                          IF e = "s_fmod" THEN s.s_fmod # 0 ELSE Unlocked(s)}

\* (That the locks are not set is only mentioned.)
kernel_refuses(s) ==
    \/ s.s_checksum # "right" \/ s.s_magic # "TFS_MAGIC_V02"
    \/ s.s_blksz \notin {512, 1024, 2048} \/ s.s_direntsz \notin DirentSizes
kernel_warnings(s) ==
    FreeCounts(s) \cup {w \in {"s_bblsz", "structure", "shutdown"} :
        CASE w = "s_bblsz"   -> Oversized(s)
          [] w = "structure" -> total_fs_blocks(s) # s.s_fsize
          [] w = "shutdown"  -> s.s_fmod # 0 \/ s.s_state # "TFS_MAGIC_V02"}

(***************************************************************************)
(* What happens to a device.                                               *)
(***************************************************************************)
NoSuperblock == [none |-> TRUE]
SbInit == /\ volume = [size |-> 0, sb |-> NoSuperblock, was |-> NoSuperblock]
          /\ chk = [pc |-> "blank", sb |-> NoSuperblock]

mktfs_superblock(o) ==
    /\ chk.pc = "blank" /\ ~OptionsRefused(o)
    /\ volume' = [size |-> o.s_fsize, sb |-> made(o), was |-> made(o)]
    /\ chk' = [chk EXCEPT !.pc = "made"]

\* One field goes wrong, in the memory of whoever writes the superblock, or on the
\* disk: then the checksum is wrong too.
Damage(field, value) ==
    /\ chk.pc = "made"
    /\ \E sum \in {"right", "wrong"} : volume' = [volume EXCEPT !.sb[field] = value, !.sb.s_checksum = sum]
    /\ chk' = [chk EXCEPT !.pc = "damaged"]

\* tfsck with -a: stage 1.  It works on its copy, in which an unfinished shutdown is
\* no longer recorded, and the locks neither.
CheckSuperblock ==
    /\ chk.pc \in {"made", "damaged"}
    /\ UNCHANGED volume
    /\ LET s == volume.sb
       IN  chk' = IF tfsck_refuses(s, volume.size) THEN [chk EXCEPT !.pc = "refused"]
                  ELSE [pc |-> "counting",
                        sb |-> IF s.s_fmod = 0 THEN s ELSE [s EXCEPT !.s_flock = 0, !.s_ilock = 0, !.s_fmod = 0]]

\* Stage 2: the counts are those of the bitmaps, which mktfs wrote.  (Another number
\* of inodes in as many blocks passes both checks; what tfsck makes of the inodes
\* then is left out.)
update_superblock(s) == volume' = [volume EXCEPT !.sb = [s EXCEPT !.s_checksum = "right"]]
CountFree ==
    LET s == [chk.sb EXCEPT !.s_bfree = volume.was.s_bfree, !.s_ifree = volume.was.s_ifree]
    IN  /\ chk.pc = "counting" /\ s.s_icluster = volume.was.s_icluster
        /\ IF s = chk.sb THEN UNCHANGED volume ELSE update_superblock(s)
        /\ chk' = [pc |-> "linking", sb |-> s]

\* The end of stage 4.
LinksDone ==
    /\ chk.pc = "linking"
    /\ update_superblock([chk.sb EXCEPT !.s_state = "TFS_MAGIC_V02"])
    /\ chk' = [chk EXCEPT !.pc = "checked"]

SbNext(options, changes(_)) ==
    \/ \E o \in options : mktfs_superblock(o)
    \/ volume.sb # NoSuperblock /\ \E c \in changes(volume.sb) : Damage(c[1], c[2])
    \/ CheckSuperblock \/ CountFree \/ LinksDone

(***************************************************************************)
(* Properties.                                                             *)
(***************************************************************************)
\* Whole clusters and a last one fit on the device, with no room for another cluster
\* or for another word of a bitmap; and a cluster's bitmaps have a block each.
LaidOut(s) ==
    /\ total_fs_blocks(s) = s.s_fsize
    /\ s.s_ublocks \in 0..(IF s.s_lcflag = 1 THEN 31 ELSE s.s_bpcluster - s.s_bcluster - 1)
    /\ s.s_icluster <= 8 * s.s_blksz /\ s.s_icluster % 32 = 0 /\ s.s_bcluster <= 8 * s.s_blksz
    /\ (s.s_icluster * DINODE) % s.s_blksz = 0
    /\ s.s_bfree = total_blocks(s) - 1 /\ s.s_ifree = total_inodes(s) - 2

\* mktfs does not refuse a device with no block for the root directory.
HasRoot(s) == s.s_clusters > 0 /\ total_blocks(s) > 0

\* mktfs.c, check_superblock() of tfsck.c and of fs/mount.c: what mktfs makes fits the
\* device, and both checks let it through, the kernel with a warning until tfsck has
\* been through; whatever field is then wrong, what the kernel mounts without a word
\* tfsck does not refuse, what tfsck does not refuse the kernel mounts with no other
\* complaint than tfsck's, and after tfsck with none.
SuperblocksAgree ==
    chk.pc # "blank" /\ HasRoot(volume.was) =>
        LET s == volume.sb
            warned == kernel_warnings(s)
            refused == tfsck_refuses(s, volume.size)
        IN  /\ chk.pc = "made" => /\ LaidOut(s)
                                  /\ ~refused /\ tfsck_errors(s) = {}
                                  /\ ~kernel_refuses(s) /\ warned = {"shutdown"}
            /\ chk.pc = "damaged" =>
                  /\ ~kernel_refuses(s) /\ warned \subseteq {"shutdown"} => ~refused
                  /\ ~refused => /\ ~kernel_refuses(s)
                                 /\ warned \ {"shutdown"} = tfsck_errors(s) \ {"unlocked", "s_fmod"}
            /\ chk.pc = "checked" => ~kernel_refuses(s) /\ warned = {} /\ ~refused
=============================================================================
