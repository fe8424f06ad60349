-------------------------------- MODULE Files --------------------------------
(***************************************************************************)
(* Files and descriptors: fs/generic.c, with the opening and closing parts *)
(* of fs/regular.c and fs/device.c, and what exec(), fork() and exit() do  *)
(* to files.  Name lookups are those of Names, inodes those of Inodes.     *)
(*                                                                         *)
(* A user descriptor is free (0), promised to an open() that is under way  *)
(* (RESERVED) or the number of an entry of the system's table fdt.  Entry  *)
(* 0 of that table is never allocated; dup2(u, u) can still count it.      *)
(*                                                                         *)
(* What the code loses is kept in the history variable hist, so that the   *)
(* properties can say what holds of the rest: hist.refs[s] are references  *)
(* to inode s that no one will ever release, hist.fds entries of fdt no    *)
(* one will ever give back, hist.torn tells that an entry was given away   *)
(* while a close() still worked on it, hist.bad are the images that        *)
(* writers were let in to while someone ran them, hist.overlap tells that  *)
(* two processes were in one directory at once or had two in-core copies   *)
(* of one inode.                                                           *)
(***************************************************************************)
EXTENDS Names

CONSTANTS Fds,          \* entries of fdt but the first: 1..SYSTEM_OPEN_MAX - 1
          Ufds,         \* 0..OPEN_MAX - 1
          Menus         \* bound: the calls of a behaviour, their number, paths and flags

RESERVED == 65535

VARIABLES fdt,          \* the open files
          ff_fd,        \* where get_fd() starts to look
          ufdt, ff_ufd, \* the same of each process
          close_on_exec,
          a_out,        \* the image each process executes, or 0
          hist,         \* history: what went wrong
          menu          \* bound: the calls and paths of this behaviour

fdVars == <<fdt, ff_fd, ufdt, ff_ufd, close_on_exec>>
fVars  == <<fdVars, a_out>>
vars   == <<pc, job, iVars, nVars, fVars, hist, menu>>

NoFile      == [inode |-> 0, flags |-> {}, count |-> 0]
MinOf(a, b) == IF a < b THEN a ELSE b
Writing(fl) == fl \cap {"w", "rw", "trunc"} # {}

(***************************************************************************)
(* The two descriptor tables.                                              *)
(***************************************************************************)
FreeFds       == {fd \in Fds : fd >= ff_fd /\ fdt[fd].count = 0}
FreeUfds(p, first) == {u \in Ufds : u >= first /\ u >= ff_ufd[p] /\ ufdt[p][u] = 0}

get_fd(fd)       == fd = Min(FreeFds)
get_ufd(p, f, u) == u = Min(FreeUfds(p, f))

\* Mutant: the entry of fdt stays taken.
ReleaseBoth_KeepsFd(p) ==
    /\ ufdt' = [ufdt EXCEPT ![p][job[p].ufd] = 0]
    /\ ff_ufd' = [ff_ufd EXCEPT ![p] = MinOf(@, job[p].ufd)]
    /\ UNCHANGED <<fdt, ff_fd, close_on_exec>>

\* release_fd() and release_ufd() of an open() that fails.
ReleaseBoth(p) ==
    /\ fdt' = [fdt EXCEPT ![job[p].fd].count = 0]
    /\ ff_fd' = MinOf(ff_fd, job[p].fd)
    /\ ufdt' = [ufdt EXCEPT ![p][job[p].ufd] = 0]
    /\ ff_ufd' = [ff_ufd EXCEPT ![p] = MinOf(@, job[p].ufd)]
    /\ UNCHANGED close_on_exec

(***************************************************************************)
(* open().                                                                 *)
(***************************************************************************)
Calling(p) == pc[p] = "idle" /\ calls > 0

OpenStart(p, path, fl) ==
    /\ Calling(p) /\ calls' = calls - 1
    /\ UNCHANGED <<close_on_exec, a_out>>
    /\ IF FreeFds = {}
       THEN UNCHANGED <<pc, job, iVars, dent, dbuf, cwd, panicked, fdt, ff_fd, ufdt, ff_ufd>>
       ELSE \E fd \in FreeFds :
              /\ get_fd(fd) /\ ff_fd' = fd
              /\ IF FreeUfds(p, 0) = {}
                 THEN UNCHANGED <<pc, job, iVars, dent, dbuf, cwd, panicked, fdt, ufdt, ff_ufd>>
                 ELSE \E u \in FreeUfds(p, 0) :
                        /\ get_ufd(p, 0, u)
                        /\ fdt' = [fdt EXCEPT ![fd].count = 1]
                        /\ ufdt' = [ufdt EXCEPT ![p][u] = RESERVED]
                        /\ ff_ufd' = [ff_ufd EXCEPT ![p] = u]
                        /\ StartLookup(p, [NoJob EXCEPT !.op = "open", !.fd = fd, !.ufd = u, !.flags = fl],
                                       path)

OpenFails(p, rel) == ReleaseBoth(p) /\ Finish(p, rel) /\ UNCHANGED <<a_out, nVars>>

\* No such file and none to be made, a bad path, a directory not writable.
OpenMissing(p) ==
    LET j == job[p]
    IN  /\ AtOp(p, "named", {"open"}) /\ j.i <= 0
        /\ ~("creat" \in j.flags /\ MayCreate(p))
        /\ OpenFails(p, Rids(j))
        /\ UNCHANGED iVars

OpenCreate(p) ==
    LET j == job[p]
    IN  /\ AtOp(p, "named", {"open"}) /\ "creat" \in j.flags /\ MayCreate(p)
        /\ CallAlloc(p, j, "o_new")
        /\ UNCHANGED <<nVars, fVars>>
OpenNoInode(p) == /\ At(p, "o_new") /\ job[p].got = 0
                  /\ OpenFails(p, <<RidOf(job[p].dir)>>) /\ UNCHANGED iVars
OpenSlot(p)    == /\ At(p, "o_new") /\ job[p].got # 0
                  /\ FindSlot(p, job[p].dir, "c_enter") /\ UNCHANGED fVars
OpenNoRoom(p)  ==
    LET j == job[p]
    IN  /\ AtOp(p, "c_enter", {"open"}) /\ dbuf[d_of(j.dir)] = 0 /\ j.off > DirMax
        /\ i_vect' = [i_vect EXCEPT ![j.i].di.nlinks = @ - 1]
        /\ OpenFails(p, Rids(j))
        /\ UNCHANGED <<i_list, i_hash, disk, ibitmap, asleep>>
OpenEntry(p) ==
    /\ AtOp(p, "c_enter", {"open"}) /\ CreateEntry(p, "reg")
    /\ CallRelease(p, [job[p] EXCEPT !.dir = 0], <<RidOf(job[p].dir)>>, "o_type")
    /\ UNCHANGED fVars

\* The file exists.
Wanted(fl) == IF "rw" \in fl THEN {"r", "w"} ELSE IF "w" \in fl THEN {"w"} ELSE {"r"}
IsOpened(p) == AtOp(p, "named", {"open"}) /\ job[p].i > 0

\* EISDIR returns before anything is given back: both descriptors stay
\* taken, the directory's and its parent's inodes stay locked and counted.
OpenDirectory(p) ==
    LET j == job[p]
    IN  /\ IsOpened(p) /\ kind(j.i) = "dir" /\ Writing(j.flags)
        /\ Done(p)
        /\ UNCHANGED <<iVars, nVars, fVars>>

OpenAllowed(p) ==
    LET j == job[p]
    IN  /\ permitted(p, j.i, Wanted(j.flags))
        /\ ~({"creat", "excl"} \subseteq j.flags)
        /\ Writing(j.flags) => ~i_vect[j.i].write_denied

\* O_CREAT with O_EXCL fails with EEXIST, and exec_denied is set all the same.
OpenRefused(p) ==
    LET j == job[p]
    IN  /\ IsOpened(p) /\ ~(kind(j.i) = "dir" /\ Writing(j.flags)) /\ ~OpenAllowed(p)
        /\ i_vect' = [i_vect EXCEPT ![j.i].exec_denied =
                        @ \/ /\ permitted(p, j.i, Wanted(j.flags)) /\ Writing(j.flags)
                             /\ ~i_vect[j.i].write_denied]
        /\ OpenFails(p, Rids(j))
        /\ UNCHANGED <<i_list, i_hash, disk, ibitmap, asleep>>

OpenGranted(p) ==
    LET j == job[p]
    IN  /\ IsOpened(p) /\ ~(kind(j.i) = "dir" /\ Writing(j.flags)) /\ OpenAllowed(p)
        /\ i_vect' = [i_vect EXCEPT ![j.i].exec_denied = @ \/ Writing(j.flags)]
        /\ CallRelease(p, [j EXCEPT !.denied = i_vect[j.i].exec_denied, !.dir = 0],
                       IF j.dir > 0 THEN <<RidOf(j.dir)>> ELSE <<>>, "o_type")
        /\ UNCHANGED <<i_list, i_hash, disk, ibitmap, asleep, nVars, fVars>>

\* The entry of the table is filled in and the open() of the type is called:
\* the indirect terminal exchanges its inode for a new one without a name.
OpenType(p) ==
    LET j == job[p]
    IN  /\ At(p, "o_type")
        /\ fdt' = [fdt EXCEPT ![j.fd].inode = j.i, ![j.fd].flags = j.flags]
        /\ IF kind(j.i) = "chr" THEN CallRelease(p, j, <<RidOf(j.i)>>, "o_tty")
                                ELSE Goto(p, "o_opened") /\ UNCHANGED job
        /\ UNCHANGED <<iVars, nVars, ff_fd, ufdt, ff_ufd, close_on_exec, a_out>>
chr_open(p) == At(p, "o_tty") /\ CallAlloc(p, job[p], "o_tty2") /\ UNCHANGED <<nVars, fVars>>
\* No test of what i_alloc() returns: inode 0 is written over.
chr_open2(p) ==
    LET j == job[p]
    IN  /\ At(p, "o_tty2")
        /\ fdt' = [fdt EXCEPT ![j.fd].inode = j.got]
        /\ panicked' = (j.got = 0)
        /\ i_vect' = IF j.got = 0 THEN i_vect
                     ELSE [i_vect EXCEPT ![j.got].di.nlinks = 0, ![j.got].di.kind = "tty"]
        /\ Goto(p, "o_opened") /\ job' = [job EXCEPT ![p].i = j.got]
        /\ UNCHANGED <<i_list, i_hash, disk, ibitmap, asleep, dent, dbuf, cwd, calls,
                       ff_fd, ufdt, ff_ufd, close_on_exec, a_out>>

\* The type's open() returns: regular files and directories always open.
OpenDone(p) ==
    LET j == job[p]
    IN  /\ At(p, "o_opened") /\ ~panicked
        /\ ufdt' = [ufdt EXCEPT ![p][j.ufd] = j.fd]
        /\ i_vect' = [i_vect EXCEPT ![j.i] = [Unlocked(@) EXCEPT !.modified = TRUE]]
        /\ asleep' = Woken(j.i)
        /\ Done(p)
        /\ UNCHANGED <<i_list, i_hash, disk, ibitmap, nVars, fdt, ff_fd, ff_ufd, close_on_exec,
                       a_out>>
OpenUndone(p) ==
    LET j == job[p]
    IN  /\ At(p, "o_opened") /\ ~panicked /\ kind(j.i) \in {"fifo", "tty"}
        /\ i_vect' = [i_vect EXCEPT ![j.i].exec_denied = j.denied]
        /\ OpenFails(p, <<RidOf(j.i)>>)
        /\ UNCHANGED <<i_list, i_hash, disk, ibitmap, asleep>>

sys_open(p) ==
    \/ OpenMissing(p) \/ OpenCreate(p) \/ OpenNoInode(p) \/ OpenSlot(p) \/ OpenNoRoom(p)
    \/ OpenEntry(p) \/ OpenDirectory(p) \/ OpenRefused(p) \/ OpenGranted(p) \/ OpenType(p)
    \/ chr_open(p) \/ chr_open2(p) \/ OpenDone(p) \/ OpenUndone(p)

(***************************************************************************)
(* close().  job.after is where its caller goes on.                        *)
(***************************************************************************)
\* check_ufd() accepts a promised descriptor, whose number is no entry of
\* fdt: close() counts down a word outside the table.
CallClose(p, j, u, after) ==
    LET fd == ufdt[p][u]
    IN  /\ ufdt' = [ufdt EXCEPT ![p][u] = 0]
        /\ ff_ufd' = [ff_ufd EXCEPT ![p] = MinOf(@, u)]
        /\ UNCHANGED <<ff_fd, close_on_exec, iVars, dent, dbuf, cwd, a_out>>
        /\ IF fd = RESERVED \/ fdt[fd].count = 0
           THEN panicked' = TRUE /\ UNCHANGED fdt /\ Done(p)
           ELSE /\ UNCHANGED panicked
                /\ fdt' = [fdt EXCEPT ![fd].count = @ - 1]
                /\ IF fdt[fd].count > 1
                   THEN Goto(p, after) /\ job' = [job EXCEPT ![p] = j]
                   ELSE /\ Goto(p, "c_lock")
                        /\ job' = [job EXCEPT ![p] = [j EXCEPT !.fd = fd, !.i = fdt[fd].inode, !.after = after]]

CloseBusy(p) == At(p, "c_lock") /\ i_vect[job[p].i].busy /\ Sleep(p, job[p].i) /\ UNCHANGED <<nVars, fVars>>
CloseLock(p) == /\ At(p, "c_lock") /\ i_lock(p, job[p].i)
                /\ Goto(p, "c_type") /\ UNCHANGED <<job, nVars, fVars>>

currently_opened_for_write(s) ==
    /\ i_vect[s].nref # 1
    /\ \E fd \in DOMAIN fdt : fdt[fd].count > 0 /\ fdt[fd].inode = s /\ Writing(fdt[fd].flags)

\* regular_close(), then release_fd(), whoever has the entry by now.
CloseType(p) ==
    LET j == job[p] s == fdt[j.fd].inode
        quiet == kind(j.i) = "reg" /\ Writing(fdt[j.fd].flags) /\ ~currently_opened_for_write(s)
    IN  /\ At(p, "c_type")
        /\ i_vect' = IF quiet THEN [i_vect EXCEPT ![s].exec_denied = FALSE] ELSE i_vect
        /\ fdt' = [fdt EXCEPT ![j.fd].count = 0]
        /\ ff_fd' = MinOf(ff_fd, j.fd)
        /\ CallRelease(p, j, <<RidOf(j.i)>>, j.after)
        /\ UNCHANGED <<i_list, i_hash, disk, ibitmap, asleep, nVars, ufdt, ff_ufd, close_on_exec, a_out>>

Opened(p) == {u \in Ufds : ufdt[p][u] # 0}

sys_close(p, u) == /\ Calling(p) /\ u \in Opened(p) /\ calls' = calls - 1
                   /\ CallClose(p, [NoJob EXCEPT !.op = "close"], u, "done")

(***************************************************************************)
(* dup(), dup2(), fcntl().                                                 *)
(***************************************************************************)
Quiet(p) == /\ Calling(p) /\ calls' = calls - 1
            /\ UNCHANGED <<pc, job, iVars, dent, dbuf, cwd, panicked, a_out>>
Sane(p, u) == u \in Opened(p) /\ ufdt[p][u] # RESERVED

\* dup() asks for a descriptor from 0 on, fcntl(F_DUPFD) from its argument.
sys_dup(p, u, first) ==
    /\ Quiet(p) /\ Sane(p, u)
    /\ \E v \in FreeUfds(p, first) :
         /\ get_ufd(p, first, v)
         /\ ufdt' = [ufdt EXCEPT ![p][v] = ufdt[p][u]]
         /\ ff_ufd' = [ff_ufd EXCEPT ![p] = v]
         /\ fdt' = [fdt EXCEPT ![ufdt[p][u]].count = @ + 1]
    /\ UNCHANGED <<ff_fd, close_on_exec>>

\* dup2() closes its second descriptor first, be it the same one.
Duplicate2(p, u, v) ==
    /\ ufdt' = [ufdt EXCEPT ![p][v] = ufdt[p][u]]
    /\ fdt' = [fdt EXCEPT ![ufdt[p][u]].count = @ + 1]
    /\ UNCHANGED <<ff_fd, ff_ufd, close_on_exec>>
sys_dup2(p, u, v) ==
    /\ Calling(p) /\ Sane(p, u) /\ calls' = calls - 1
    /\ IF ufdt[p][v] = 0
       THEN /\ Duplicate2(p, u, v)
            /\ UNCHANGED <<pc, job, iVars, dent, dbuf, cwd, panicked, a_out>>
       ELSE CallClose(p, [NoJob EXCEPT !.op = "dup2", !.off = u, !.ufd = v], v, "dup2")
Dup2Closed(p) == /\ At(p, "dup2") /\ Duplicate2(p, job[p].off, job[p].ufd) /\ Done(p)
                 /\ UNCHANGED <<iVars, nVars, a_out>>

\* F_SETFL replaces the access mode as well; F_SETFD sets close on exec.
sys_fcntl(p, u) ==
    /\ Quiet(p) /\ Sane(p, u)
    /\ \/ fdt' = [fdt EXCEPT ![ufdt[p][u]].flags = {}] /\ UNCHANGED close_on_exec
       \/ close_on_exec' = [close_on_exec EXCEPT ![p] = @ \cup {u}] /\ UNCHANGED fdt
    /\ UNCHANGED <<ff_fd, ufdt, ff_ufd>>

\* fchmod(), fchown(), ftruncate(): the inode is not locked.
sys_fchmod(p, s)    == i_vect' = IF MayChange(p, s) THEN Changed(s) ELSE i_vect
sys_fchown(p, s)    == \E owner \in Range(Uid) :
                          i_vect' = IF MayChown(p, s, owner) THEN Owned(s, owner) ELSE i_vect
sys_ftruncate(p, s) == i_vect' = IF kind(s) = "reg" /\ ~i_vect[s].write_denied THEN Changed(s) ELSE i_vect
sys_fchange(p, u) ==
    LET s == fdt[ufdt[p][u]].inode
    IN  /\ Calling(p) /\ calls' = calls - 1 /\ Sane(p, u)
        /\ sys_fchmod(p, s) \/ sys_fchown(p, s) \/ sys_ftruncate(p, s)
        /\ UNCHANGED <<pc, job, i_list, i_hash, disk, ibitmap, asleep, dent, dbuf, cwd, panicked, fVars>>

(***************************************************************************)
(* read() and write() of a regular file: under the lock of its inode.      *)
(***************************************************************************)
sys_read(p, u) ==
    /\ Calling(p) /\ Sane(p, u) /\ calls' = calls - 1
    /\ Goto(p, "io_lock")
    /\ job' = [job EXCEPT ![p] = [NoJob EXCEPT !.op = "io", !.i = fdt[ufdt[p][u]].inode]]
    /\ UNCHANGED <<iVars, dent, dbuf, cwd, panicked, fVars>>
IoBusy(p) == At(p, "io_lock") /\ i_vect[job[p].i].busy /\ Sleep(p, job[p].i) /\ UNCHANGED <<nVars, fVars>>
IoLock(p) == /\ At(p, "io_lock") /\ i_lock(p, job[p].i)
             /\ Goto(p, "io") /\ UNCHANGED <<job, nVars, fVars>>
IoDone(p) == LET s == job[p].i
             IN  /\ At(p, "io") /\ Done(p)
                 /\ i_vect' = [i_vect EXCEPT ![s] = [Unlocked(@) EXCEPT !.modified = TRUE]]
                 /\ asleep' = Woken(s)
                 /\ UNCHANGED <<i_list, i_hash, disk, ibitmap, nVars, fVars>>

(***************************************************************************)
(* exec(), fork() and exit(): what they do to files.                       *)
(***************************************************************************)
\* exec() of a regular file that no one writes: writing is denied from now.
ExecCheck(p) ==
    LET j == job[p] s == j.i ok == kind(s) = "reg" /\ permitted(p, s, {"x"}) /\ ~i_vect[s].exec_denied
    IN  /\ AtOp(p, "do", {"exec"})
        /\ i_vect' = IF ok THEN [i_vect EXCEPT ![s] = [Unlocked(@) EXCEPT !.write_denied = TRUE]] ELSE i_vect
        /\ asleep' = IF ok THEN Woken(s) ELSE asleep
        /\ IF ok THEN Goto(p, "x_read") /\ UNCHANGED job ELSE Finish(p, <<RidOf(s)>>)
        /\ UNCHANGED <<i_list, i_hash, disk, ibitmap, nVars, fVars>>

\* read_header(): the lock is let go for the read and taken again.
ExecBusy(p) == At(p, "x_read") /\ i_vect[job[p].i].busy /\ Sleep(p, job[p].i) /\ UNCHANGED <<nVars, fVars>>
ExecHeader(p) ==
    LET j == job[p]
    IN  /\ At(p, "x_read") /\ i_lock(p, j.i)
        /\ \/ CallRelease(p, j, <<RidOf(j.i)>>, "x_fail")
           \/ IF a_out[p] = j.i THEN Goto(p, "x_args") /\ UNCHANGED job
              ELSE CallRelease(p, j, IF a_out[p] = 0 THEN <<>> ELSE <<JustRel(a_out[p])>>, "x_image")
        /\ UNCHANGED <<nVars, fVars>>
ExecImage(p) == /\ At(p, "x_image") /\ i_duplicate(job[p].i)
                /\ a_out' = [a_out EXCEPT ![p] = job[p].i]
                /\ Goto(p, "x_args") /\ UNCHANGED <<job, nVars, fdVars>>

\* Bad arguments: the process goes on with its old image, the file's writers
\* are let in, and a_out says that it executes this file.
ExecArgs(p) ==
    LET j == job[p]
    IN  /\ At(p, "x_args")
        /\ \/ CallRelease(p, j, <<RidOf(j.i)>>, "x_fail")
           \/ Goto(p, "x_close") /\ job' = [job EXCEPT ![p].f = j.i, ![p].i = 0]
        /\ UNCHANGED <<iVars, nVars, fVars>>
ExecFail(p) == /\ At(p, "x_fail") /\ Done(p)
               /\ i_vect' = [i_vect EXCEPT ![job[p].i].write_denied = FALSE]
               /\ UNCHANGED <<i_list, i_hash, disk, ibitmap, asleep, nVars, fVars>>
ExecClose(p) ==
    LET open == Opened(p) \cap close_on_exec[p] j == job[p]
    IN  /\ At(p, "x_close") /\ UNCHANGED calls
        /\ IF open = {}
           THEN /\ Finish(p, <<RidOf(j.f)>>)
                /\ UNCHANGED <<iVars, dent, dbuf, cwd, panicked, fVars>>
           ELSE CallClose(p, j, Min(open), "x_close")

fork(p, q) ==
    /\ pc[q] = "unborn" /\ Calling(p)
    /\ calls' = calls - 1
    /\ pc' = [pc EXCEPT ![q] = "idle"]
    /\ ufdt' = [ufdt EXCEPT ![q] = ufdt[p]]
    /\ ff_ufd' = [ff_ufd EXCEPT ![p] = 0, ![q] = ff_ufd[p]]
    /\ close_on_exec' = [close_on_exec EXCEPT ![q] = close_on_exec[p]]
    /\ fdt' = [fd \in DOMAIN fdt |-> [fdt[fd] EXCEPT !.count = @ + Cardinality({u \in Ufds : ufdt[p][u] = fd /\ fd # 0})]]
    /\ cwd' = [cwd EXCEPT ![q] = cwd[p]] /\ a_out' = [a_out EXCEPT ![q] = a_out[p]]
    /\ i_vect' = [s \in Slots |-> [i_vect[s] EXCEPT !.nref =
                    @ + (IF s = cwd[p] THEN 1 ELSE 0) + (IF s = a_out[p] THEN 1 ELSE 0)]]
    /\ UNCHANGED <<job, i_list, i_hash, disk, ibitmap, asleep, dent, dbuf, panicked, ff_fd>>

\* Mutant: who exits takes itself for the last that executes the file.
currently_executing_Never(p) == FALSE

currently_executing(p) ==
    i_vect[a_out[p]].nref # 1 /\ \E q \in Procs \ {p} : pc[q] # "unborn" /\ a_out[q] = a_out[p]

\* exit(): every descriptor is closed, then the directory and the image go.
ExitStart(p) == /\ Calling(p) /\ calls' = calls - 1
                /\ Goto(p, "e_close") /\ UNCHANGED <<job, iVars, dent, dbuf, cwd, panicked, fVars>>
ExitClose(p) ==
    LET j == job[p]
    IN  /\ At(p, "e_close") /\ ~panicked /\ UNCHANGED calls
        /\ IF Opened(p) # {}
           THEN CallClose(p, j, Min(Opened(p)), "e_close")
           ELSE /\ i_vect' = IF a_out[p] # 0 /\ ~currently_executing(p)
                             THEN [i_vect EXCEPT ![a_out[p]].write_denied = FALSE] ELSE i_vect
                /\ CallRelease(p, j, <<JustRel(cwd[p])>> \o (IF a_out[p] = 0 THEN <<>> ELSE <<JustRel(a_out[p])>>),
                               "e_end")
                /\ UNCHANGED <<i_list, i_hash, disk, ibitmap, asleep, dent, dbuf, cwd, panicked, fVars>>
ExitEnd(p) == /\ At(p, "e_end") /\ Goto(p, "unborn")
              /\ job' = [job EXCEPT ![p] = NoJob]
              /\ a_out' = [a_out EXCEPT ![p] = 0]
              /\ UNCHANGED <<iVars, nVars, fdVars>>

(***************************************************************************)
(* The specification.                                                      *)
(***************************************************************************)
CONSTANTS Live,         \* the processes there are at first
          FirstDisk,    \* the file system at first: inodes ...
          FirstDent     \* ... and directories

RootSlot == [EmptySlot EXCEPT !.dinode = ROOT_INODE, !.nref = 1 + Cardinality(Live),
                              !.di = FirstDisk[ROOT_INODE]]

Init == /\ i_vect = [s \in Slots |-> IF s = 1 THEN RootSlot ELSE EmptySlot]
        /\ i_list = SetToSortSeq(Slots \ {1}, <)
        /\ i_hash = <<1>>
        /\ asleep = [p \in Procs |-> 0]
        /\ disk = FirstDisk
        /\ ibitmap = {d \in Dinodes : FirstDisk[d].nlinks = 0}
        /\ dent = FirstDent
        /\ dbuf = [d \in Dinodes |-> 0]
        /\ cwd = [p \in Procs |-> 1]
        /\ pc = [p \in Procs |-> IF p \in Live THEN "idle" ELSE "unborn"]
        /\ job = [p \in Procs |-> NoJob]
        /\ panicked = FALSE
        /\ fdt = [fd \in Fds \cup {0} |-> NoFile] /\ ff_fd = 1
        /\ ufdt = [p \in Procs |-> [u \in Ufds |-> 0]]
        /\ ff_ufd = [p \in Procs |-> 0]
        /\ close_on_exec = [p \in Procs |-> {}]
        /\ a_out = [p \in Procs |-> 0]
        /\ hist = [refs |-> [s \in Slots |-> 0], fds |-> {}, torn |-> FALSE, bad |-> {}, overlap |-> FALSE]
        /\ menu \in Menus /\ calls = menu.calls

Starts(p) ==
    \/ \E op \in CallOps \cup {"exec"} : op \in menu.ops /\ \E path \in menu.paths :
          \E to \in IF op = "link" THEN menu.paths ELSE {<<>>} :
             Start(p, op, path, to) /\ UNCHANGED fVars
    \/ "open" \in menu.ops /\ \E path \in menu.paths, fl \in menu.flags : OpenStart(p, path, fl)
    \/ \E u \in Ufds :
          \/ "close" \in menu.ops /\ sys_close(p, u)
          \/ "dup" \in menu.ops /\ \E first \in Ufds : sys_dup(p, u, first)
          \/ "dup2" \in menu.ops /\ \E v \in Ufds : sys_dup2(p, u, v)
          \/ "fcntl" \in menu.ops /\ sys_fcntl(p, u)
          \/ "read" \in menu.ops /\ sys_read(p, u)
          \/ "fchange" \in menu.ops /\ sys_fchange(p, u)
    \/ "exit" \in menu.ops /\ ExitStart(p)
    \/ "fork" \in menu.ops /\ \E q \in Procs : fork(p, q)

Lookups(p) == /\ \/ __namei(p) \/ End(p) \/ namei(p) \/ sys_stat(p) \/ do_chmod(p) \/ do_chown(p) \/ sys_truncate(p)
                 \/ sys_chdir(p)
                 \/ sys_chdir2(p) \/ CreateRefused(p) \/ CreateAlloc(p)
                 \/ CreateSlot(p) \/ CreateNoInode(p) \/ CreateNoRoom(p)
                 \/ sys_mkdir(p) \/ sys_mknod(p) \/ sys_link(p) \/ sys_link2(p) \/ LinkRefused(p)
                 \/ LinkSlot(p) \/ LinkEntry(p) \/ RemoveRefused(p) \/ RemoveGoes(p) \/ RemoveEmpty(p)
                 \/ sys_unlink(p)
              /\ UNCHANGED fVars

Step(p) == \/ Starts(p) \/ Lookups(p)
           \/ i_sub(p) /\ UNCHANGED <<nVars, fVars>>
           \/ sys_open(p)
           \/ CloseBusy(p) \/ CloseLock(p) \/ CloseType(p) \/ Dup2Closed(p)
           \/ IoBusy(p) \/ IoLock(p) \/ IoDone(p)
           \/ ExecCheck(p) \/ ExecBusy(p) \/ ExecHeader(p) \/ ExecImage(p) \/ ExecArgs(p)
           \/ ExecFail(p) \/ ExecClose(p)
           \/ ExitClose(p) \/ ExitEnd(p)

\* The step of p lets writers in to an image although it was not the last:
\* an exec() that fails, an exit() while another exec() has not set a_out yet.
Execing(q, s) == job[q].op = "exec" /\ job[q].i = s
LetsIn(p) ==
    IF At(p, "x_fail") THEN {job[p].i}
    ELSE IF At(p, "e_close") /\ Opened(p) = {} /\ (\E q \in Procs \ {p} : Execing(q, a_out[p]))
    THEN {a_out[p]} ELSE {}

\* What the step of p loses, and whether it brings two processes together.
InDir(p) == ({job[p].cur, job[p].dir} \cup IF job[p].op = "rmdir" THEN {job[p].i} ELSE {}) \ {0}
Together == \/ \E p, q \in Procs : p # q /\ InDir(p) \cap InDir(q) # {}
            \/ \E k, l \in DOMAIN i_hash : k # l /\ i_vect[i_hash[k]].dinode = i_vect[i_hash[l]].dinode

Forgets(p) == IsOpened(p) /\ kind(job[p].i) = "dir" /\ Writing(job[p].flags)
Observed(p) ==
    LET j == job[p]
    IN  [refs |-> IF Forgets(p)
                  THEN [s \in Slots |-> hist.refs[s] + (IF s = j.i THEN 1 ELSE 0) + (IF s = j.dir THEN 1 ELSE 0)]
                  ELSE hist.refs,
         fds |-> IF Forgets(p) THEN hist.fds \cup {j.fd} ELSE hist.fds,
         torn |-> hist.torn \/ (At(p, "c_type") /\ fdt[j.fd].count > 0),
         bad |-> hist.bad \cup LetsIn(p),
         overlap |-> hist.overlap \/ Together']

Next == /\ ~panicked
        /\ \E p \in Procs : Step(p) /\ hist' = Observed(p)
        /\ UNCHANGED menu

Spec == Init /\ [][Next]_vars

=============================================================================
