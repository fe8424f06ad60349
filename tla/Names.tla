-------------------------------- MODULE Names --------------------------------
(***************************************************************************)
(* The name space: __namei() of fs/inode.c and the system calls of         *)
(* fs/dir.c, fs/generic.c and fs/device.c that look a name up, make one or *)
(* take one away.                                                          *)
(*                                                                         *)
(* A path is absolute or relative and a sequence of names, as clear_path() *)
(* leaves it: no "." and no empty element.  A directory is a sequence of   *)
(* entries, its first two "." and ".."; an entry whose ino is 0 is free.   *)
(* All entries of a directory are in one block (DirMax of them), so one    *)
(* buffer guards them: dbuf.                                               *)
(*                                                                         *)
(* The starting directory of a lookup is counted (i_duplicate()) and not   *)
(* locked, and i_get() leaves an inode it had to read unlocked; i_unlock() *)
(* follows in each case.  So the lock of a directory excludes no one by    *)
(* itself, and two processes can be in one directory at once.              *)
(***************************************************************************)
EXTENDS Inodes, Integers

CONSTANTS Uid,          \* the effective user id of each process, 0: superuser
          OthersMay,    \* what a user who is not the owner may do
          DirMax        \* the entries a directory can hold

ASSUME NamesAssumption == /\ Uid \in [Procs -> Nat]
                          /\ OthersMay \subseteq {"r", "w", "x"}
                          /\ DirMax \in Nat

VARIABLES dent,         \* dent[d]: the entries of directory d
          dbuf,         \* dbuf[d]: who keeps the block of d busy, or 0
          cwd,          \* the current directory of each process
          panicked,     \* the kernel called PANIC()
          calls         \* bound: system calls still to be started

nVars   == <<dent, dbuf, cwd, panicked, calls>>

root_inode == CHOOSE s \in Slots : s = 1

NoJob == [op |-> "", path |-> <<>>, path2 |-> <<>>, cur |-> 0, dir |-> 0, i |-> 0, f |-> 0,
          name |-> "", off |-> 0, empty |-> 0, got |-> 0, want |-> 0, back |-> "", rel |-> <<>>,
          next |-> "", fd |-> 0, ufd |-> 0, flags |-> {}, denied |-> FALSE, after |-> ""]

ENOENT == -2

\* permitted(): the owner has every right, the others those of OthersMay.
permitted(p, s, req) ==
    Uid[p] = 0 \/ req \subseteq IF Uid[p] = i_vect[s].di.uid THEN {"r", "w", "x"} ELSE OthersMay

Entry(n, d) == [name |-> n, ino |-> d]
d_of(s)     == i_vect[s].dinode
Done(p)  == job' = [job EXCEPT ![p] = NoJob] /\ Goto(p, "idle")
Finish(p, rel) == CallRelease(p, [job[p] EXCEPT !.cur = 0], rel, "done")
Rids(j)  == (IF j.dir > 0 THEN <<RidOf(j.dir)>> ELSE <<>>) \o
            (IF j.i > 0 THEN <<RidOf(j.i)>> ELSE <<>>)

End(p) == At(p, "done") /\ Done(p) /\ UNCHANGED <<iVars, nVars>>

(***************************************************************************)
(* __namei().  It leaves the inode in job.i (0: no such entry, negative:   *)
(* an error), the directory in job.dir, the entry's place in job.off and   *)
(* the first free place in job.empty.  The caller goes on at "named", or   *)
(* at "named2" when this was the second path of link().                    *)
(***************************************************************************)
Caller(j)  == IF j.f = 0 THEN "named" ELSE "named2"
Named(p, j, i) == /\ job' = [job EXCEPT ![p] = [j EXCEPT !.i = i, !.cur = 0]]
                  /\ Goto(p, Caller(j))

\* The start of a lookup: the root or the current directory, counted.
StartLookup(p, j, path) ==
    LET s == IF path.abs THEN root_inode ELSE cwd[p]
        k == [j EXCEPT !.path = path.names, !.dir = 0, !.off = 0, !.empty = 0]
    IN  IF ~path.abs /\ nlinks(s) = 0
        THEN /\ Named(p, k, ENOENT)
             /\ UNCHANGED <<iVars, dent, dbuf, cwd, panicked>>
        ELSE /\ i_duplicate(s)
             /\ IF path.names = <<>>
                THEN Named(p, k, s)
                ELSE Goto(p, "n_scan") /\ job' = [job EXCEPT ![p] = [k EXCEPT !.cur = s]]
             /\ UNCHANGED <<dent, dbuf, cwd, panicked>>

IsLast(j) == Len(j.path) = 1

\* ENOTDIR and EACCES.
ScanRefused(p) ==
    LET j == job[p] s == j.cur
    IN  /\ At(p, "n_scan")
        /\ ~(kind(s) = "dir" /\ permitted(p, s, {"x"}))
        /\ CallRelease(p, [j EXCEPT !.i = ENOENT, !.cur = 0], <<RidOf(s)>>, Caller(j))
        /\ UNCHANGED <<iVars, nVars>>

\* ".." in the root of the file system is the root itself.
ScanRootParent(p) ==
    LET j == job[p]
    IN  /\ At(p, "n_scan") /\ kind(j.cur) = "dir" /\ permitted(p, j.cur, {"x"})
        /\ j.cur = root_inode /\ Head(j.path) = ".."
        /\ IF IsLast(j) THEN Named(p, j, j.cur)
           ELSE job' = [job EXCEPT ![p].path = Tail(@)] /\ UNCHANGED pc
        /\ UNCHANGED <<iVars, nVars>>

Scannable(p) == /\ At(p, "n_scan") /\ kind(job[p].cur) = "dir"
                /\ permitted(p, job[p].cur, {"x"})
                /\ ~(job[p].cur = root_inode /\ Head(job[p].path) = "..")
                /\ dbuf[d_of(job[p].cur)] = 0

Places(d, n) == {k \in DOMAIN dent[d] : dent[d][k].ino # 0 /\ dent[d][k].name = n}
Holes(d)     == {k \in DOMAIN dent[d] : dent[d][k].ino = 0}

\* The name is there: its inode is got while the directory's block stays busy.
ScanFound(p) ==
    LET j == job[p] s == j.cur d == d_of(s)
        k == Min(Places(d, Head(j.path)))
        jj == [j EXCEPT !.want = dent[d][k].ino, !.back = "n_got", !.name = Head(j.path),
                        !.off = IF IsLast(j) THEN k ELSE 0, !.dir = IF IsLast(j) THEN s ELSE 0]
    IN  /\ Scannable(p) /\ Places(d, Head(j.path)) # {}
        /\ dbuf' = [dbuf EXCEPT ![d] = p]
        /\ IF IsLast(j) THEN CallGet(p, jj, jj.want, "n_got")
                      ELSE CallRelease(p, jj, <<RidOf(s)>>, "i_get")
        /\ UNCHANGED <<iVars, dent, cwd, panicked, calls>>

ScanMissing(p) ==
    LET j == job[p] s == j.cur d == d_of(s)
    IN  /\ Scannable(p) /\ Places(d, Head(j.path)) = {}
        /\ IF IsLast(j)
           THEN Named(p, [j EXCEPT !.dir = s, !.name = Head(j.path),
                                   !.empty = IF Holes(d) = {} THEN 0 ELSE Min(Holes(d))], 0)
           ELSE CallRelease(p, [j EXCEPT !.i = ENOENT, !.cur = 0], <<RidOf(s)>>, Caller(j))
        /\ UNCHANGED <<iVars, nVars>>

DropBuffer(p) == dbuf' = [d \in Dinodes |-> IF dbuf[d] = p THEN 0 ELSE dbuf[d]]

\* i_get() is done.  Without an in-core inode the kernel releases inode 0
\* and panics; an inode without links was removed while this one waited.
LookupGot(p) ==
    LET j == job[p] s == j.got
    IN  /\ At(p, "n_got") /\ DropBuffer(p)
        /\ IF s = 0
           THEN panicked' = TRUE /\ Done(p)
           ELSE /\ UNCHANGED panicked
                /\ IF nlinks(s) = 0
                   THEN CallRelease(p, [j EXCEPT !.i = ENOENT, !.cur = 0], <<RidOf(s)>>, Caller(j))
                   ELSE IF IsLast(j)
                   THEN Named(p, j, s)
                   ELSE job' = [job EXCEPT ![p].cur = s, ![p].path = Tail(@)] /\ Goto(p, "n_scan")
        /\ UNCHANGED <<iVars, dent, cwd, calls>>

__namei(p) == \/ ScanRefused(p) \/ ScanRootParent(p) \/ ScanFound(p) \/ ScanMissing(p)
              \/ LookupGot(p)

(***************************************************************************)
(* The system calls.  Each starts with a lookup.                           *)
(***************************************************************************)
CallOps == {"stat", "chmod", "chown", "truncate", "chdir", "mkdir", "mknod", "rmdir", "unlink", "link"}

Start(p, op, path, path2) ==
    /\ pc[p] = "idle" /\ calls > 0 /\ calls' = calls - 1
    /\ StartLookup(p, [NoJob EXCEPT !.op = op, !.path2 = path2], path)

AtOp(p, l, ops) == At(p, l) /\ job[p].op \in ops

\* namei(): the directory is not kept.
NameiCalls == {"stat", "chmod", "chown", "truncate", "chdir", "link", "exec"}
namei(p) == /\ AtOp(p, "named", NameiCalls)
            /\ LET j == [job[p] EXCEPT !.i = IF @ = 0 THEN ENOENT ELSE @, !.dir = 0]
               IN  CallRelease(p, j, IF job[p].dir > 0 THEN <<RidOf(job[p].dir)>> ELSE <<>>,
                                  IF j.i < 0 THEN "done" ELSE "do")
            /\ UNCHANGED <<iVars, nVars>>

\* stat(), access(), statfs(): the inode is only looked at.
sys_stat(p) == /\ AtOp(p, "do", {"stat"})
               /\ Finish(p, <<RidOf(job[p].i)>>)
               /\ UNCHANGED <<iVars, nVars>>

\* chmod(), utime(): the owner's business.  chown(): the superuser's, unless nothing
\* is changed.  truncate(): not of an image; the size is left out.
MayChange(p, s) == Uid[p] \in {0, i_vect[s].di.uid}
Changed(s)      == [i_vect EXCEPT ![s].modified = TRUE]
Owned(s, owner) == [Changed(s) EXCEPT ![s].di.uid = owner]
MayChown(p, s, owner) == Uid[p] = 0 \/ (i_vect[s].di.uid = Uid[p] /\ owner = Uid[p])

do_chmod(p) == LET s == job[p].i
               IN  /\ AtOp(p, "do", {"chmod"})
                   /\ i_vect' = IF MayChange(p, s) THEN Changed(s) ELSE i_vect
                   /\ Finish(p, <<RidOf(s)>>)
                   /\ UNCHANGED <<i_list, i_hash, disk, ibitmap, asleep, nVars>>
do_chown(p) == LET s == job[p].i
               IN  /\ AtOp(p, "do", {"chown"})
                   /\ \E owner \in Range(Uid) :
                         i_vect' = IF MayChown(p, s, owner) THEN Owned(s, owner) ELSE i_vect
                   /\ Finish(p, <<RidOf(s)>>)
                   /\ UNCHANGED <<i_list, i_hash, disk, ibitmap, asleep, nVars>>
sys_truncate(p) == LET s == job[p].i
                   IN  /\ AtOp(p, "do", {"truncate"})
                       /\ i_vect' = IF kind(s) = "reg" /\ ~i_vect[s].write_denied THEN Changed(s) ELSE i_vect
                       /\ Finish(p, <<RidOf(s)>>)
                       /\ UNCHANGED <<i_list, i_hash, disk, ibitmap, asleep, nVars>>

\* chdir(): the old directory is released, not got rid of.
sys_chdir(p) ==
    LET s == job[p].i
    IN  /\ AtOp(p, "do", {"chdir"})
        /\ IF kind(s) # "dir"
           THEN Finish(p, <<RidOf(s)>>) /\ UNCHANGED iVars
           ELSE i_unlock(s) /\ CallRelease(p, job[p], <<JustRel(cwd[p])>>, "chdir2")
        /\ UNCHANGED nVars
sys_chdir2(p) == /\ At(p, "chdir2")
                 /\ cwd' = [cwd EXCEPT ![p] = job[p].i]
                 /\ Done(p)
                 /\ UNCHANGED <<iVars, dent, dbuf, panicked, calls>>

(***************************************************************************)
(* Making an entry: mkdir(), mknod(), link() and open() with O_CREAT.      *)
(***************************************************************************)
Creators == {"mkdir", "mknod"}

\* Otherwise the name exists, the lookup failed, or the directory may not be
\* written.
MayCreate(p) == job[p].i = 0 /\ permitted(p, job[p].dir, {"w", "x"})

CreateRefused(p) == /\ AtOp(p, "named", Creators) /\ ~MayCreate(p)
                    /\ Finish(p, Rids(job[p]))
                    /\ UNCHANGED <<iVars, nVars>>

CreateAlloc(p) == /\ AtOp(p, "named", Creators) /\ MayCreate(p)
                  /\ CallAlloc(p, job[p], "c_new")
                  /\ UNCHANGED nVars

\* find_empty_dir_slot(): from the hole the lookup saw, or from the start.
find_empty_dir_slot(d, from) ==
    LET free == {k \in Holes(d) : k >= from} IN IF free = {} THEN Len(dent[d]) + 1 ELSE Min(free)

FindSlot(p, s, next) ==
    /\ dbuf[d_of(s)] = 0
    /\ job' = [job EXCEPT ![p].off = find_empty_dir_slot(d_of(s), job[p].empty),
                          ![p].i = IF job[p].f = 0 THEN job[p].got ELSE 0]
    /\ Goto(p, next)
    /\ UNCHANGED <<iVars, nVars>>

CreateSlot(p) == /\ At(p, "c_new") /\ job[p].got # 0 /\ FindSlot(p, job[p].dir, "c_enter")
CreateNoInode(p) == /\ At(p, "c_new") /\ job[p].got = 0
                    /\ Finish(p, <<RidOf(job[p].dir)>>)
                    /\ UNCHANGED <<iVars, nVars>>

\* setup_directory_entry(): the block is there or can be added.
CanEnter(d, off) == dbuf[d] = 0 /\ off <= DirMax
Put(s, off, e) == IF off <= Len(s) THEN [s EXCEPT ![off] = e] ELSE Append(s, e)
setup_directory_entry(d, off, e) == dent' = [dent EXCEPT ![d] = Put(@, off, e)]

\* No room in the directory: the new inode loses its only link.
CreateNoRoom(p) ==
    LET j == job[p]
    IN  /\ AtOp(p, "c_enter", Creators) /\ dbuf[d_of(j.dir)] = 0 /\ j.off > DirMax
        /\ i_vect' = [i_vect EXCEPT ![j.i].di.nlinks = @ - 1]
        /\ Finish(p, Rids(j))
        /\ UNCHANGED <<i_list, i_hash, disk, ibitmap, asleep, nVars>>

NewInode(p, k) == [nlinks |-> IF k = "dir" THEN 2 ELSE 1, kind |-> k, uid |-> Uid[p]]

CreateEntry(p, k) ==
    LET j == job[p] d == d_of(j.dir)
    IN  /\ At(p, "c_enter") /\ CanEnter(d, j.off)
        /\ dent' = [dent EXCEPT ![d_of(j.i)] = IF k = "dir" THEN <<Entry(".", d_of(j.i)), Entry("..", d)>>
                                              ELSE <<>>,
                                ![d] = Put(@, j.off, Entry(j.name, d_of(j.i)))]
        /\ i_vect' = [i_vect EXCEPT ![j.i].di = NewInode(p, k), ![j.i].modified = (k # "reg" \/ @),
                                    ![j.dir].modified = TRUE,
                                    ![j.dir].di.nlinks = IF k = "dir" THEN @ + 1 ELSE @]
        /\ UNCHANGED <<i_list, i_hash, disk, ibitmap, asleep, dbuf, cwd, panicked, calls>>

sys_mkdir(p) == job[p].op = "mkdir" /\ CreateEntry(p, "dir") /\ Finish(p, Rids(job[p]))
sys_mknod(p) == job[p].op = "mknod" /\ CreateEntry(p, "fifo") /\ Finish(p, Rids(job[p]))

\* The first half of link(): the link is counted before it is made, and the
\* file is not kept locked.
sys_link(p) ==
    LET s == job[p].i
    IN  /\ AtOp(p, "do", {"link"})
        /\ IF kind(s) = "dir"
           THEN Finish(p, <<RidOf(s)>>) /\ UNCHANGED iVars
           ELSE /\ i_vect' = [i_vect EXCEPT ![s] = [Unlocked(@) EXCEPT !.di.nlinks = @ + 1]]
                /\ asleep' = Woken(s)
                /\ Goto(p, "link2") /\ job' = [job EXCEPT ![p].f = s, ![p].i = 0]
                /\ UNCHANGED <<i_list, i_hash, disk, ibitmap>>
        /\ UNCHANGED nVars
sys_link2(p) == /\ At(p, "link2") /\ StartLookup(p, job[p], job[p].path2) /\ UNCHANGED calls

\* The second name is taken, or bad, or its directory may not be written.
LinkRefused(p) ==
    LET j == job[p]
        back == IF j.i = 0 THEN <<RidOf(j.f), RidOf(j.dir)>> ELSE <<RidOf(j.f)>> \o Rids(j)
    IN  /\ At(p, "named2") /\ ~MayCreate(p)
        /\ i_vect' = [i_vect EXCEPT ![j.f].di.nlinks = @ - 1]
        /\ Finish(p, back)
        /\ UNCHANGED <<i_list, i_hash, disk, ibitmap, asleep, nVars>>

LinkSlot(p) == /\ At(p, "named2") /\ MayCreate(p)
               /\ FindSlot(p, job[p].dir, "l_enter")

LinkEntry(p) ==
    LET j == job[p] d == d_of(j.dir)
    IN  /\ At(p, "l_enter") /\ dbuf[d] = 0
        /\ IF j.off > DirMax
           THEN i_vect' = [i_vect EXCEPT ![j.f].di.nlinks = @ - 1] /\ UNCHANGED dent
           ELSE /\ setup_directory_entry(d, j.off, Entry(j.name, d_of(j.f)))
                /\ i_vect' = [i_vect EXCEPT ![j.f].modified = TRUE, ![j.dir].modified = TRUE]
        /\ Finish(p, <<RidOf(j.f), RidOf(j.dir)>>)
        /\ UNCHANGED <<i_list, i_hash, disk, ibitmap, asleep, dbuf, cwd, panicked, calls>>

(***************************************************************************)
(* Taking an entry away: unlink() and rmdir().                             *)
(***************************************************************************)
Removers == {"unlink", "rmdir"}

\* unlink() wants a file, rmdir() a directory that is neither "." nor "..".
MayRemove(p) ==
    LET j == job[p]
    IN  /\ j.i > 0 /\ j.dir > 0 /\ permitted(p, j.dir, {"w", "x"})
        /\ (j.op = "unlink") # (kind(j.i) = "dir")
        /\ j.op = "rmdir" => j.off > 2

RemoveRefused(p) == /\ AtOp(p, "named", Removers) /\ ~MayRemove(p)
                    /\ Finish(p, Rids(job[p]))
                    /\ UNCHANGED <<iVars, nVars>>

RemoveGoes(p) == /\ AtOp(p, "named", Removers) /\ MayRemove(p)
                 /\ Goto(p, IF job[p].op = "rmdir" THEN "r_empty" ELSE "r_clear")
                 /\ UNCHANGED <<iVars, nVars, job>>

\* Mutant: the first entry after ".." is not looked at.
is_dir_empty_Third(d) == \A k \in DOMAIN dent[d] : k > 3 => dent[d][k].ino = 0

\* is_dir_empty(): nothing after "." and "..".
is_dir_empty(d) == \A k \in DOMAIN dent[d] : k > 2 => dent[d][k].ino = 0

RemoveEmpty(p) ==
    LET j == job[p]
    IN  /\ At(p, "r_empty") /\ dbuf[d_of(j.i)] = 0
        /\ IF is_dir_empty(d_of(j.i)) THEN Goto(p, "r_clear") /\ UNCHANGED job
                                      ELSE Finish(p, Rids(j))
        /\ UNCHANGED <<iVars, nVars>>

sys_unlink(p) ==
    LET j == job[p] d == d_of(j.dir)
    IN  /\ At(p, "r_clear") /\ dbuf[d] = 0
        /\ setup_directory_entry(d, j.off, Entry("", 0))
        /\ i_vect' = [i_vect EXCEPT ![j.i].modified = TRUE, ![j.dir].modified = TRUE,
                                    ![j.i].di.nlinks = IF j.op = "rmdir" THEN @ - 2 ELSE @ - 1,
                                    ![j.dir].di.nlinks = IF j.op = "rmdir" THEN @ - 1 ELSE @]
        /\ Finish(p, Rids(j))
        /\ UNCHANGED <<i_list, i_hash, disk, ibitmap, asleep, dbuf, cwd, panicked, calls>>

=============================================================================
