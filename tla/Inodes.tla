------------------------------- MODULE Inodes -------------------------------
(***************************************************************************)
(* The table of in-core inodes of fs/inode.c: its free list, its hash      *)
(* table, its reference counts and its locks.                              *)
(*                                                                         *)
(* A process of the kernel gives up the processor only where it sleeps, so *)
(* a step of this module is the code from one call that may sleep to the   *)
(* next.  A system call runs i_get() and i_release() as subroutines: pc    *)
(* holds where the process is, job its local variables, job.back where it  *)
(* returns to when i_get() is done and job.rel the inodes it still has to  *)
(* get rid of (i_get_rid_of()), after which it is at job.next.             *)
(*                                                                         *)
(* Disk inodes hold what the properties need: link count, type and owner.  *)
(* The directory "block" dbuf[d] stands for the buffer of the one block of *)
(* directory d: __namei() keeps it busy while it gets the inode found.     *)
(***************************************************************************)
EXTENDS Naturals, Sequences, FiniteSets, SequencesExt, FiniteSetsExt

CONSTANTS Procs,        \* processes, 1..n
          Slots,        \* in-core inodes: 1..MAX_INODES - 1
          Dinodes       \* disk inodes of the file system: 1..m

ROOT_INODE == 1
NO_INODE   == 0

VARIABLES i_vect,       \* the in-core inodes
          i_list,       \* the list of inodes nobody refers to, oldest first
          i_hash,       \* the hashed inodes, newest first
          disk,         \* the inodes on disk
          ibitmap,      \* the free disk inodes
          asleep,       \* asleep[p]: the in-core inode p waits for, or 0
          pc, job       \* where each system call is, and its variables

iVars == <<i_vect, i_list, i_hash, disk, ibitmap, asleep>>

Kinds == {"none", "reg", "dir", "fifo", "chr", "tty"}
DiskInode == [nlinks : 0..8, kind : Kinds, uid : Nat]
Fresh     == [nlinks |-> 1, kind |-> "none", uid |-> 0]

EmptySlot == [dinode |-> 0, nref |-> 0, busy |-> FALSE, demand |-> FALSE, modified |-> FALSE,
              write_denied |-> FALSE, exec_denied |-> FALSE, di |-> [Fresh EXCEPT !.nlinks = 0]]

\* i_init(): no inode is hashed and all of them are on the list.
i_init == /\ i_vect = [s \in Slots |-> EmptySlot]
          /\ i_list = SetToSortSeq(Slots, <)
          /\ i_hash = <<>>
          /\ asleep = [p \in Procs |-> 0]

nlinks(s) == i_vect[s].di.nlinks
kind(s)   == i_vect[s].di.kind

\* The two lists.  The oldest of i_list is reused first; i_hash keeps the order
\* of its buckets.
Without(list, s) == SelectSeq(list, LAMBDA x : x # s)
i_list_insert(s) == Append(i_list, s)
i_list_delete(s) == Without(i_list, s)
i_hash_insert(s) == <<s>> \o i_hash
i_hash_delete(s) == Without(i_hash, s)

\* i_free(): the bit of a disk inode in the bitmap.
i_free(d) == ibitmap \cup {d}

\* i_hash_search(): i_hash_insert() puts the newest first in its bucket.
i_hash_search(d) ==
    LET found == {k \in DOMAIN i_hash : i_vect[i_hash[k]].dinode = d}
    IN  IF found = {} THEN 0 ELSE i_hash[Min(found)]

\* Mutant: no one is woken.
Woken_None(s) == asleep

\* wakeup(&i_vect[s]).
Woken(s) == [p \in Procs |-> IF asleep[p] = s THEN 0 ELSE asleep[p]]

(***************************************************************************)
(* Locks.  Nothing ties a lock to a process: i_unlock() clears whatever    *)
(* lock is there.                                                          *)
(***************************************************************************)
Sleep(p, s) == /\ i_vect' = [i_vect EXCEPT ![s].demand = TRUE]
               /\ asleep' = [asleep EXCEPT ![p] = s]
               /\ UNCHANGED <<i_list, i_hash, disk, ibitmap, pc, job>>

Unlocked(r) == [r EXCEPT !.busy = FALSE, !.demand = FALSE]

i_lock(p, s) == /\ ~i_vect[s].busy
                /\ i_vect' = [i_vect EXCEPT ![s].busy = TRUE]
                /\ UNCHANGED <<i_list, i_hash, disk, ibitmap, asleep>>

i_unlock(s) == /\ i_vect' = [i_vect EXCEPT ![s] = Unlocked(@)]
               /\ asleep' = Woken(s)
               /\ UNCHANGED <<i_list, i_hash, disk, ibitmap>>

i_duplicate(s) == /\ i_vect' = [i_vect EXCEPT ![s].nref = @ + 1]
                  /\ UNCHANGED <<i_list, i_hash, disk, ibitmap, asleep>>

At(p, l)      == pc[p] = l /\ asleep[p] = 0
Goto(p, l)    == pc' = [pc EXCEPT ![p] = l]
Return(p)     == Goto(p, job[p].back)

(***************************************************************************)
(* i_get(): wants job.want, leaves the in-core inode in job.got.           *)
(***************************************************************************)
\* The call: what to get and where to go on.
CallGet(p, j, d, back) == /\ Goto(p, "i_get")
                          /\ job' = [job EXCEPT ![p] = [j EXCEPT !.want = d, !.back = back]]

GetBusy(p) ==
    LET s == i_hash_search(job[p].want)
    IN  At(p, "i_get") /\ s # 0 /\ i_vect[s].busy /\ Sleep(p, s)

GetHit(p) ==
    LET s == i_hash_search(job[p].want)
    IN  /\ At(p, "i_get") /\ s # 0 /\ ~i_vect[s].busy
        /\ i_vect' = [i_vect EXCEPT ![s].busy = TRUE, ![s].nref = @ + 1]
        /\ i_list' = IF i_vect[s].nref = 0 THEN i_list_delete(s) ELSE i_list
        /\ job' = [job EXCEPT ![p].got = s]
        /\ Return(p)
        /\ UNCHANGED <<i_hash, disk, ibitmap, asleep>>

GetNone(p) == /\ At(p, "i_get") /\ i_hash_search(job[p].want) = 0 /\ i_list = <<>>
              /\ job' = [job EXCEPT ![p].got = 0]
              /\ Return(p)
              /\ UNCHANGED iVars

\* The oldest free inode leaves the list and the hash table and is read.
\* The busy flag that this path sets is that of i_vect[0]: i_no is still 0,
\* what the search returned.  The inode itself stays unlocked.
GetMiss(p) ==
    LET s == Head(i_list)
    IN  /\ At(p, "i_get") /\ i_hash_search(job[p].want) = 0 /\ i_list # <<>>
        /\ i_list' = i_list_delete(s)
        /\ i_hash' = i_hash_delete(s)
        /\ i_vect' = [i_vect EXCEPT ![s].dinode = job[p].want]
        /\ job' = [job EXCEPT ![p].got = s]
        /\ Goto(p, "i_read")
        /\ UNCHANGED <<disk, ibitmap, asleep>>

\* i_read() returns; only now is the inode hashed and counted.
GetRead(p) ==
    LET s == job[p].got
    IN  /\ At(p, "i_read")
        /\ i_vect' = [i_vect EXCEPT ![s].di = disk[job[p].want], ![s].nref = 1,
                                    ![s].write_denied = FALSE, ![s].exec_denied = FALSE]
        /\ i_hash' = i_hash_insert(s)
        /\ Return(p)
        /\ UNCHANGED <<i_list, disk, ibitmap, asleep, job>>

i_get(p) == GetBusy(p) \/ GetHit(p) \/ GetNone(p) \/ GetMiss(p) \/ GetRead(p)

(***************************************************************************)
(* i_release() and i_get_rid_of(): job.rel is the sequence of inodes still *)
(* to be released.  An entry says whether i_unlock() comes first, so that  *)
(* the i_lock() of i_release() cannot have to wait.                        *)
(***************************************************************************)
RidOf(s)   == [slot |-> s, unlock |-> TRUE]
JustRel(s) == [slot |-> s, unlock |-> FALSE]

\* The call: get rid of a sequence of inodes, then go on at next.
CallRelease(p, j, rel, next) ==
    /\ Goto(p, IF rel = <<>> THEN next ELSE "i_rel")
    /\ job' = [job EXCEPT ![p] = [j EXCEPT !.rel = rel, !.next = next]]

Released(p) == LET rest == Tail(job[p].rel)
               IN  /\ job' = [job EXCEPT ![p].rel = rest]
                   /\ Goto(p, IF rest = <<>> THEN job[p].next ELSE "i_rel")

ReleaseBusy(p) ==
    LET e == Head(job[p].rel)
    IN  At(p, "i_rel") /\ ~e.unlock /\ i_vect[e.slot].busy /\ Sleep(p, e.slot)

CanRelease(p) == At(p, "i_rel") /\ LET e == Head(job[p].rel)
                                   IN  e.unlock \/ ~i_vect[e.slot].busy

\* The last reference to an inode that is to be truncated or written goes:
\* these sleep, with the inode locked, uncounted and not yet on the list.
MustDrop(s) == i_vect[s].nref = 1 /\ (nlinks(s) = 0 \/ i_vect[s].modified)

ReleaseKeep(p) ==
    LET s == Head(job[p].rel).slot
    IN  /\ CanRelease(p) /\ ~MustDrop(s)
        /\ i_vect' = [i_vect EXCEPT ![s] = [Unlocked(@) EXCEPT !.nref = @ - 1]]
        /\ asleep' = Woken(s)
        /\ i_list' = IF i_vect[s].nref = 1 THEN i_list_insert(s) ELSE i_list
        /\ Released(p)
        /\ UNCHANGED <<i_hash, disk, ibitmap>>

ReleaseDrop(p) ==
    LET s == Head(job[p].rel).slot
    IN  /\ CanRelease(p) /\ MustDrop(s)
        /\ i_vect' = [i_vect EXCEPT ![s].nref = 0, ![s].busy = TRUE, ![s].demand = FALSE]
        /\ asleep' = Woken(s)
        /\ Goto(p, "i_drop")
        /\ UNCHANGED <<i_list, i_hash, disk, ibitmap, job>>

\* i_truncate(), i_free() when no link is left, i_write(), i_list_insert().
ReleaseDropped(p) ==
    LET s == Head(job[p].rel).slot
        d == i_vect[s].dinode
        gone == nlinks(s) = 0
    IN  /\ At(p, "i_drop")
        /\ disk' = [disk EXCEPT ![d] = [i_vect[s].di EXCEPT !.kind = IF gone THEN "none" ELSE @]]
        /\ ibitmap' = IF gone THEN i_free(d) ELSE ibitmap
        /\ i_vect' = [i_vect EXCEPT ![s] = [Unlocked(@) EXCEPT !.modified = FALSE,
                                            !.di.kind = IF gone THEN "none" ELSE @]]
        /\ asleep' = Woken(s)
        /\ i_list' = i_list_insert(s)
        /\ Released(p)
        /\ UNCHANGED i_hash

i_release(p) == \/ ReleaseBusy(p) \/ ReleaseKeep(p) \/ ReleaseDrop(p) \/ ReleaseDropped(p)

(***************************************************************************)
(* i_alloc(): the lowest free disk inode, got with i_get() and written     *)
(* back with one link.  When no in-core inode is left the disk inode stays *)
(* allocated and the caller is told that there is none.                    *)
(***************************************************************************)
CallAlloc(p, j, back) ==
    IF ibitmap = {}
    THEN /\ Goto(p, back)
         /\ job' = [job EXCEPT ![p] = [j EXCEPT !.got = NO_INODE]]
         /\ UNCHANGED iVars
    ELSE /\ ibitmap' = ibitmap \ {Min(ibitmap)}
         /\ Goto(p, "i_get")
         /\ job' = [job EXCEPT ![p] = [j EXCEPT !.want = Min(ibitmap), !.back = "i_new",
                                                !.next = back]]
         /\ UNCHANGED <<i_vect, i_list, i_hash, disk, asleep>>

AllocInit(p) ==
    LET s == job[p].got
    IN  /\ At(p, "i_new")
        /\ IF s = 0 THEN UNCHANGED <<i_vect, disk>>
           ELSE /\ i_vect' = [i_vect EXCEPT ![s].di = Fresh, ![s].modified = FALSE]
                /\ disk' = [disk EXCEPT ![job[p].want] = Fresh]
        /\ Goto(p, job[p].next)
        /\ UNCHANGED <<i_list, i_hash, ibitmap, asleep, job>>

i_sub(p) == i_get(p) \/ i_release(p) \/ AllocInit(p)

=============================================================================
