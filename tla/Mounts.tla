------------------------------- MODULE Mounts -------------------------------
(***************************************************************************)
(* The mount table of fs/mount.c, the table of devices of the memory       *)
(* manager (vm/vmdev.c) and the opening and closing of block devices       *)
(* (fs/device.c, fs/driver.c, driver/block/hdc.c).                         *)
(*                                                                         *)
(* in_use of a device is a flag, not a count: whoever decides that the     *)
(* device is needed no more closes it for all.  Of the in-core inodes the  *)
(* module keeps the references to the directories mounted on, to the root  *)
(* of each mounted file system and to its other files.  A step is the code *)
(* between two calls that may sleep.                                       *)
(***************************************************************************)
EXTENDS Naturals, FiniteSets, FiniteSetsExt

CONSTANTS Admins,       \* processes
          Devices,      \* block devices with a special file each
          SwapDevice,   \* the one that sys_swapon() accepts, or 0
          Dirs,         \* directories of the root file system
          MaxMounts,    \* SYSTEM_MOUNT_MAX - 2: entries beside that of the root
          VmDevs        \* entries of vmdevt, 0..n

ASSUME MountsAssumption ==
    /\ Devices \subseteq Nat \ {0} /\ Admins \subseteq Nat \ {0} /\ Dirs \subseteq Nat \ {0}
    /\ VmDevs \subseteq Nat /\ MaxMounts \in Nat \ {0}

VARIABLES mpt,          \* the mount table
          minor,        \* minor_info of each device: in_use, mp
          vmdevt,       \* the devices of the memory manager
          dirs,         \* the in-core inodes of the directories
          root,         \* references to the root inode of each file system
          files,        \* references to other files of each file system
          special,      \* descriptors open on each special file
          mount_mutex,
          pc, arg,      \* where each process is, and its arguments
          mishaps       \* what went wrong, by name (nothing in the code)

mVars == <<mpt, minor, vmdevt, dirs, root, files, special, mount_mutex, pc, arg, mishaps>>

Mps     == 1..MaxMounts
NoMount == [sb |-> "none", device |-> 0, vmdev |-> 0, dir |-> 0]
NoVmDev == [in_use |-> FALSE, device |-> 0]
AnInode == [nref |-> 0, mount_point |-> FALSE, busy |-> 0]
NoArg   == [device |-> 0, dir |-> 0, mp |-> 0]

MountInit ==
    /\ mpt = [m \in Mps |-> NoMount]
    /\ minor = [d \in Devices |-> [in_use |-> FALSE, mp |-> 0]]
    /\ vmdevt = [v \in VmDevs |-> NoVmDev]
    /\ dirs = [i \in Dirs |-> AnInode]
    /\ root = [d \in Devices |-> 0] /\ files = [d \in Devices |-> 0] /\ special = [d \in Devices |-> 0]
    /\ mount_mutex = 1
    /\ pc = [p \in Admins |-> "idle"] /\ arg = [p \in Admins |-> NoArg]
    /\ mishaps = {}

Goto(p, l) == pc' = [pc EXCEPT ![p] = l]
End(p)     == Goto(p, "idle") /\ arg' = [arg EXCEPT ![p] = NoArg]

(***************************************************************************)
(* Tables.                                                                 *)
(***************************************************************************)
\* Mutant: a device that is being mounted is not seen.
get_mp_Loaded(d) ==
    LET free == {m \in Mps : mpt[m].sb = "none"}
    IN  IF free = {} \/ \E m \in Mps : mpt[m].sb = "loaded" /\ mpt[m].device = d THEN 0 ELSE Min(free)

\* get_mp(): the entry that is claimed, 0 when there is none or the device is there.
get_mp(d) ==
    LET free == {m \in Mps : mpt[m].sb = "none"}
    IN  IF free = {} \/ \E m \in Mps : mpt[m].sb # "none" /\ mpt[m].device = d THEN 0 ELSE Min(free)

\* mounted(): minor.mp is never reset, so the entry may be that of another device.
mounted(d) == minor[d].in_use /\ minor[d].mp # 0 /\ mpt[minor[d].mp].sb # "none"

\* get_vmdev(): looks for the device only as far as the first entry that is free.
get_vmdev(d) ==
    LET free == {v \in VmDevs : ~vmdevt[v].in_use}
    IN  IF free = {} \/ \E v \in 0..Min(free) - 1 : vmdevt[v].device = d THEN {} ELSE {Min(free)}

TakeVmDev(v, d) == vmdevt' = [vmdevt EXCEPT ![v] = [in_use |-> TRUE, device |-> d]]
release_vmdev(v) == vmdevt' = [vmdevt EXCEPT ![v].in_use = FALSE]

\* fs_in_use(): more than the reference of the mount to the root.
fs_in_use(d) == files[d] > 0 \/ root[d] > 1

can_close(d) == special[d] = 0

hdc_open(r)  == [r EXCEPT !.in_use = TRUE]
hdc_close(r) == [r EXCEPT !.in_use = FALSE]

\* hdc_close() of a device that is not in use: "should never" happen.
Closed(d, more) == mishaps' = mishaps \cup more \cup (IF minor[d].in_use THEN {} ELSE {"unused"})

\* What a mount, or an open special file, still needs of a device.
Needed(d) == special[d] > 0 \/ \E m \in Mps : mpt[m].sb # "none" /\ mpt[m].device = d

(***************************************************************************)
(* sys_mount().                                                            *)
(***************************************************************************)
\* namei_with_dir() locks the directory.  One that is mounted on leads to the
\* root of the file system mounted, which has more than one reference then.
MountBusy(p, d, i) == /\ pc[p] = "idle" /\ dirs[i].busy = 0
                      /\ (dirs[i].nref > 0 \/ dirs[i].mount_point)
                      /\ UNCHANGED mVars

\* Refused: the device is closed again, whoever uses it.
MountRefused(p, d, i) ==
    /\ pc[p] = "idle" /\ dirs[i].busy = 0 /\ dirs[i].nref = 0
    /\ get_mp(d) = 0
    /\ minor' = [minor EXCEPT ![d] = hdc_close(hdc_open(@))]
    /\ mishaps' = mishaps \cup IF Needed(d) THEN {"closed"} ELSE {}
    /\ UNCHANGED <<mpt, vmdevt, dirs, root, files, special, mount_mutex, pc, arg>>

MountClaim(p, d, i) ==
    LET m == get_mp(d)
    IN  /\ pc[p] = "idle" /\ dirs[i].busy = 0 /\ dirs[i].nref = 0
        /\ m # 0
        /\ mpt' = [mpt EXCEPT ![m] = [NoMount EXCEPT !.sb = "claimed", !.device = d]]
        /\ minor' = [minor EXCEPT ![d] = [hdc_open(@) EXCEPT !.mp = m]]
        /\ dirs' = [dirs EXCEPT ![i].nref = 1, ![i].busy = p]
        /\ arg' = [arg EXCEPT ![p] = [device |-> d, dir |-> i, mp |-> m]]
        /\ Goto(p, "m_read")
        /\ UNCHANGED <<vmdevt, root, files, special, mount_mutex, mishaps>>

Unclaimed(m) == [mpt[m] EXCEPT !.sb = "none"]

\* No superblock, or no entry of vmdevt for the device.
MountFails(p) ==
    LET d == arg[p].device
        i == arg[p].dir
    IN  /\ mpt' = [mpt EXCEPT ![arg[p].mp] = Unclaimed(arg[p].mp)]
        /\ minor' = [minor EXCEPT ![d] = hdc_close(@)]
        /\ dirs' = [dirs EXCEPT ![i].nref = 0, ![i].busy = 0]
        /\ mishaps' = mishaps \cup IF special[d] > 0 THEN {"closed"} ELSE {}
        /\ End(p)
        /\ UNCHANGED <<vmdevt, root, files, special, mount_mutex>>

MountUnread(p) == pc[p] = "m_read" /\ MountFails(p)

MountNoVmDev(p) == pc[p] = "m_read" /\ get_vmdev(arg[p].device) = {} /\ MountFails(p)

MountRead(p) ==
    LET d == arg[p].device
    IN  /\ pc[p] = "m_read"
        /\ \E v \in get_vmdev(d) :
              /\ TakeVmDev(v, d)
              /\ mpt' = [mpt EXCEPT ![arg[p].mp].sb = "loaded", ![arg[p].mp].vmdev = v]
        /\ Goto(p, "m_mutex")
        /\ UNCHANGED <<minor, dirs, root, files, special, mount_mutex, arg, mishaps>>

MountMutex(p) == /\ pc[p] = "m_mutex" /\ mount_mutex = 1
                 /\ mount_mutex' = 0
                 /\ Goto(p, "m_root")
                 /\ UNCHANGED <<mpt, minor, vmdevt, dirs, root, files, special, arg, mishaps>>

Mounted(p) ==
    LET a == arg[p]
    IN  /\ pc[p] = "m_root"
        /\ root' = [root EXCEPT ![a.device] = @ + 1]
        /\ mpt' = [mpt EXCEPT ![a.mp].dir = a.dir]
        /\ dirs' = [dirs EXCEPT ![a.dir].mount_point = TRUE, ![a.dir].busy = 0]
        /\ mount_mutex' = 1
        /\ End(p)
        /\ UNCHANGED <<minor, vmdevt, files, special, mishaps>>

(***************************************************************************)
(* sys_umount(): what is checked is checked before mount_mutex is waited   *)
(* for.  The inodes are unlocked, although they were not locked.           *)
(***************************************************************************)
CanUmount(d) == minor[d].in_use /\ mounted(d) /\ ~fs_in_use(d)

UmountCall(p, d) ==
    /\ pc[p] = "idle" /\ CanUmount(d)
    /\ arg' = [arg EXCEPT ![p] = [NoArg EXCEPT !.device = d, !.mp = minor[d].mp]]
    /\ Goto(p, "u_mutex")
    /\ UNCHANGED <<mpt, minor, vmdevt, dirs, root, files, special, mount_mutex, mishaps>>

\* The entry is another device's, or no longer what was checked: another
\* mount() or umount() came first, or a file was opened.
Wrong(p) == LET a == arg[p]
                m == mpt[a.mp]
            IN  m.sb # "loaded" \/ m.device # a.device \/ m.dir = 0 \/ fs_in_use(a.device)

UmountMutex(p) ==
    LET a == arg[p]
        m == mpt[a.mp]
    IN  /\ pc[p] = "u_mutex" /\ mount_mutex = 1 /\ ~Wrong(p)
        /\ mount_mutex' = 0
        /\ dirs' = [dirs EXCEPT ![m.dir].mount_point = FALSE, ![m.dir].nref = @ - 1, ![m.dir].busy = 0]
        /\ release_vmdev(m.vmdev)
        /\ root' = [root EXCEPT ![a.device] = @ - 1]
        /\ Goto(p, "u_flush")
        /\ UNCHANGED <<mpt, minor, files, special, arg, mishaps>>

\* What follows is left open.
UmountWrong(p) == /\ pc[p] = "u_mutex" /\ mount_mutex = 1 /\ Wrong(p)
                  /\ mishaps' = mishaps \cup {"wrong"}
                  /\ End(p)
                  /\ UNCHANGED <<mpt, minor, vmdevt, dirs, root, files, special, mount_mutex>>

\* The bitmaps and the superblock are written; release_mp().
UmountFlush(p) ==
    LET a == arg[p]
    IN  /\ pc[p] = "u_flush"
        /\ mpt' = [mpt EXCEPT ![a.mp].sb = "none"]
        /\ Goto(p, IF can_close(a.device) THEN "u_close" ELSE "u_sync")
        /\ UNCHANGED <<minor, vmdevt, dirs, root, files, special, mount_mutex, arg, mishaps>>

\* buf_sync() sleeps between the test and drv_close().
UmountClose(p) ==
    LET d == arg[p].device
    IN  /\ pc[p] = "u_close"
        /\ minor' = [minor EXCEPT ![d] = hdc_close(@)]
        /\ Closed(d, IF Needed(d) THEN {"closed"} ELSE {})
        /\ mount_mutex' = 1
        /\ End(p)
        /\ UNCHANGED <<mpt, vmdevt, dirs, root, files, special>>

UmountSync(p) == /\ pc[p] = "u_sync"
                 /\ mount_mutex' = 1
                 /\ End(p)
                 /\ UNCHANGED <<mpt, minor, vmdevt, dirs, root, files, special, mishaps>>

(***************************************************************************)
(* Files of a mounted file system, special files, swapon().                *)
(***************************************************************************)
MaxFiles == 1   \* bound on files and on descriptors of a special file

OpenFile(p, i) ==
    \E m \in Mps : /\ pc[p] = "idle" /\ dirs[i].mount_point /\ mpt[m].sb = "loaded" /\ mpt[m].dir = i
                   /\ files[mpt[m].device] < MaxFiles
                   /\ files' = [files EXCEPT ![mpt[m].device] = @ + 1]
                   /\ UNCHANGED <<mpt, minor, vmdevt, dirs, root, special, mount_mutex, pc, arg, mishaps>>

CloseFile(p, d) == /\ pc[p] = "idle" /\ files[d] > 0
                   /\ files' = [files EXCEPT ![d] = @ - 1]
                   /\ UNCHANGED <<mpt, minor, vmdevt, dirs, root, special, mount_mutex, pc, arg, mishaps>>

blk_open(p, d) == /\ pc[p] = "idle" /\ special[d] < MaxFiles
                  /\ special' = [special EXCEPT ![d] = @ + 1]
                  /\ minor' = [minor EXCEPT ![d] = hdc_open(@)]
                  /\ UNCHANGED <<mpt, vmdevt, dirs, root, files, mount_mutex, pc, arg, mishaps>>

MayClose(d) == special[d] = 1 /\ ~mounted(d)

blk_close(p, d) ==
    /\ pc[p] = "idle" /\ special[d] > 0
    /\ special' = [special EXCEPT ![d] = @ - 1]
    /\ IF MayClose(d) THEN Goto(p, "b_close") /\ arg' = [arg EXCEPT ![p].device = d]
       ELSE UNCHANGED <<pc, arg>>
    /\ UNCHANGED <<mpt, minor, vmdevt, dirs, root, files, mount_mutex, mishaps>>

\* buf_sync() is over.
BlkClosed(p) ==
    LET d == arg[p].device
    IN  /\ pc[p] = "b_close"
        /\ minor' = [minor EXCEPT ![d] = hdc_close(@)]
        /\ Closed(d, IF Needed(d) THEN {"closed"} ELSE {})
        /\ End(p)
        /\ UNCHANGED <<mpt, vmdevt, dirs, root, files, special, mount_mutex>>

sys_swapon(p) ==
    LET d == SwapDevice
    IN  /\ pc[p] = "idle" /\ d \in Devices /\ ~mounted(d)
        /\ IF get_vmdev(d) = {}
           THEN minor' = [minor EXCEPT ![d] = hdc_close(hdc_open(@))] /\ UNCHANGED vmdevt
           ELSE minor' = [minor EXCEPT ![d] = hdc_open(@)] /\ \E v \in get_vmdev(d) : TakeVmDev(v, d)
        /\ UNCHANGED <<mpt, dirs, root, files, special, mount_mutex, pc, arg, mishaps>>

sys_mount(p) == \/ MountUnread(p) \/ MountNoVmDev(p) \/ MountRead(p) \/ MountMutex(p) \/ Mounted(p)
sys_umount(p) == \/ UmountMutex(p) \/ UmountWrong(p) \/ UmountFlush(p) \/ UmountClose(p) \/ UmountSync(p)

MountCall(p, ops) ==
    \/ "mount" \in ops /\ \E d \in Devices, i \in Dirs : MountBusy(p, d, i) \/ MountRefused(p, d, i) \/ MountClaim(p, d, i)
    \/ "umount" \in ops /\ \E d \in Devices : UmountCall(p, d)
    \/ "file" \in ops /\ ((\E i \in Dirs : OpenFile(p, i)) \/ \E d \in Devices : CloseFile(p, d))
    \/ "special" \in ops /\ \E d \in Devices : blk_open(p, d) \/ blk_close(p, d)
    \/ "swapon" \in ops /\ sys_swapon(p)

MountStep(p) == sys_mount(p) \/ sys_umount(p) \/ BlkClosed(p)

MountCalls == {"mount", "umount", "file", "special", "swapon"}
MountNext  == \E p \in Admins : MountCall(p, MountCalls) \/ MountStep(p)
MountSpec  == MountInit /\ [][MountNext]_mVars

(***************************************************************************)
(* Properties.                                                             *)
(***************************************************************************)
Settled(m) == mpt[m].sb = "loaded" /\ mpt[m].dir # 0 /\
              \A p \in Admins : pc[p] \in {"u_flush"} => arg[p].mp # m

\* sys_mount() and sys_umount() (fs/mount.c) keep the tables together: the entry of
\* a mounted file system, the directory it is on, the reference to its root and its
\* entry of vmdevt name each other, no device is in two entries, and a file of a
\* file system that is in use keeps it mounted.  As long as no umount() acted on an
\* entry that was not what it had checked.
MountsExact ==
    "wrong" \notin mishaps =>
    /\ \A m \in Mps : Settled(m) => /\ dirs[mpt[m].dir].mount_point /\ dirs[mpt[m].dir].nref = 1
                                    /\ root[mpt[m].device] = 1
                                    /\ vmdevt[mpt[m].vmdev] = [in_use |-> TRUE, device |-> mpt[m].device]
    /\ \A i \in Dirs : dirs[i].mount_point => \E m \in Mps : Settled(m) /\ mpt[m].dir = i
    /\ \A d \in Devices : files[d] > 0 => \E m \in Mps : Settled(m) /\ mpt[m].device = d
    /\ \A m, n \in Mps : m # n /\ mpt[m].sb # "none" /\ mpt[n].sb # "none" => mpt[m].device # mpt[n].device
    /\ \A i \in Dirs : (dirs[i].nref = 1) <=> \E m \in Mps :
          \/ Settled(m) /\ mpt[m].dir = i
          \/ \E p \in Admins : pc[p] \in {"m_read", "m_mutex", "m_root"} /\ arg[p].dir = i
=============================================================================
