------------------------------- MODULE MCFiles -------------------------------
(***************************************************************************)
(* Properties and a small instance of Files: two processes (a third to     *)
(* fork), a root directory with a file "a" and a directory "s" with a file *)
(* "b".                                                                    *)
(***************************************************************************)
EXTENDS Files

MCUid == [p \in Procs |-> IF p = 1 THEN 0 ELSE 5]
Abs(n) == [abs |-> TRUE, names |-> n]
Rel(n) == [abs |-> FALSE, names |-> n]

Disk(n, k) == [nlinks |-> n, kind |-> k, uid |-> 0]
MCDisk == [d \in Dinodes |-> CASE d = 1 -> Disk(3, "dir") [] d = 2 -> Disk(1, "reg")
                               [] d = 3 -> Disk(2, "dir") [] d = 4 -> Disk(1, "chr")
                               [] OTHER -> Disk(0, "none")]
MCDent == [d \in Dinodes |-> CASE d = 1 -> <<Entry(".", 1), Entry("..", 1), Entry("a", 2), Entry("s", 3)>>
                               [] d = 3 -> <<Entry(".", 3), Entry("..", 1), Entry("t", 4)>>
                               [] OTHER -> <<>>]

\* Each behaviour draws its calls from one menu, so that the menus' state
\* spaces add up.
Menu(n, ops, paths, flags) == [calls |-> n, ops |-> ops, paths |-> paths, flags |-> flags]
Anew     == {"rw", "creat"}
NotIfNew == {"w", "creat", "excl"}
Tables   == Menu(4, {"open", "close", "dup", "dup2", "fork"}, {Abs(<<"a">>)}, {{}})
Images   == Menu(4, {"open", "exec", "exit"}, {Abs(<<"a">>)}, {{"w"}})
Forks    == Menu(3, {"open", "close", "exec", "exit", "fork", "fcntl"}, {Abs(<<"a">>)}, {{"w"}})
Opening  == Menu(2, {"open"}, {Abs(<<"a">>)}, {{}, NotIfNew})
Dirs     == Menu(2, {"mkdir", "rmdir", "chdir", "open"},
                 {Abs(<<"s">>), Abs(<<"s", "n">>), Rel(<<"..", "n">>)}, {{"w"}, Anew})
Parents  == Menu(2, {"chdir", "mkdir", "rmdir", "open", "stat"}, {Abs(<<"s">>), Rel(<<"..", "s">>)}, {{}})
Links    == Menu(3, {"link", "unlink", "stat"}, {Abs(<<"a">>), Abs(<<"s", "b">>)}, {})
NoLinks  == Menu(2, {"link", "unlink"}, {Abs(<<"a">>), Abs(<<"b">>), Abs(<<"s">>)}, {})
Nodes    == Menu(2, {"mknod", "open", "chmod", "close"},
                 {Abs(<<"s", "t">>), Abs(<<"s", "p">>), Abs(<<"p">>), Abs(<<"a", "x">>)}, {{}, Anew})
Crowd    == Menu(3, {"open", "stat"}, {Abs(<<"a">>), Abs(<<"s", "t">>)}, {{}})
Reads    == Menu(3, {"read", "open", "close"}, {Abs(<<"a">>), Abs(<<>>)}, {{}, {"w"}})
Owners   == Menu(3, {"chown", "truncate", "open", "exec", "fchange"}, {Abs(<<"a">>)}, {{"w"}})
MCMenus   == {Tables, Images, Forks, Opening, Dirs, Parents, Links, NoLinks, Nodes, Crowd, Reads, Owners}
MCImages  == {Images}

\* What a process at each place of its calls holds a reference to.
Fields(l) == CASE l = "n_scan" -> {"cur", "f"}
               [] l \in {"i_get", "i_read"} -> {"dir", "f"}
               [] l \in {"n_got", "i_new"} -> {"dir", "f", "got"}
               [] l \in {"c_new", "o_new", "o_tty2"} -> {"dir", "got"}
               [] l \in {"named", "named2", "do", "link2", "c_enter", "l_enter", "r_empty", "r_clear",
                         "o_type", "o_opened", "c_lock", "c_type", "chdir2", "x_read", "x_image",
                         "x_args", "x_close"} -> {"dir", "i", "f"}
               [] OTHER -> {}
Place(p)  == IF pc[p] \in {"i_rel", "i_drop"} THEN job[p].next ELSE pc[p]
ToRelease(p) == IF pc[p] = "i_drop" THEN Tail(job[p].rel) ELSE IF pc[p] = "i_rel" THEN job[p].rel ELSE <<>>
One(b) == IF b THEN 1 ELSE 0
HeldBy(p, s) ==
    Cardinality({f \in Fields(Place(p)) : job[p][f] = s}) +
    Cardinality({k \in DOMAIN ToRelease(p) : ToRelease(p)[k].slot = s}) +
    One(pc[p] # "unborn" /\ cwd[p] = s /\ Place(p) \notin {"chdir2", "e_end"}) +
    One(pc[p] # "unborn" /\ a_out[p] = s /\ Place(p) \notin {"x_image", "e_end"})
Installed(fd) == \E p \in Procs, u \in Ufds : pc[p] # "unborn" /\ ufdt[p][u] = fd
Refs(s) == One(s = root_inode) + hist.refs[s] + MapThenSumSet(LAMBDA p : HeldBy(p, s), Procs) +
           Cardinality({fd \in Fds : Installed(fd) /\ fdt[fd].inode = s})

\* A slot that is being read into, or emptied, is on no list.
InTransit(s) == \E p \in Procs : \/ pc[p] = "i_read" /\ job[p].got = s
                                 \/ pc[p] = "i_drop" /\ Head(job[p].rel).slot = s
Promised(fd) == \E p \in Procs : job[p].op = "open" /\ job[p].fd = fd /\ Place(p) # "done"

\* The tables hold what their declarations say, and the lists are lists: an
\* in-core inode is on the free list when it is counted by no one and in no
\* one's hands, once, and unlocked.
TypeOK ==
    /\ \A s \in Slots : i_vect[s].nref \in Nat /\ i_vect[s].di \in DiskInode /\ i_vect[s].di.kind \in Kinds
    /\ \A fd \in DOMAIN fdt : fdt[fd].count \in Nat /\ fdt[fd].inode \in Slots \cup {0}
    /\ \A p \in Procs, u \in Ufds : ufdt[p][u] \in Fds \cup {0, RESERVED}
    /\ IsInjective(i_list) /\ IsInjective(i_hash)
    /\ \A s \in Slots : s \in Range(i_list) <=> i_vect[s].nref = 0 /\ ~InTransit(s)
    /\ \A s \in Range(i_list) : ~i_vect[s].busy /\ ~i_vect[s].modified
    /\ ibitmap \subseteq Dinodes

\* Every reference count is the number of references there are: an inode's
\* of the open files, directories, images and system calls that hold it, an
\* open file's of the descriptors that name it.
RefsExact ==
    hist.torn \/ panicked \/
    /\ \A s \in Slots : ~InTransit(s) => i_vect[s].nref = Refs(s)
    /\ \A fd \in Fds : fdt[fd].count = Cardinality({x \in Procs \X Ufds : pc[x[1]] # "unborn" /\ ufdt[x[1]][x[2]] = fd})
                                       + One(Promised(fd) \/ fd \in hist.fds)

\* The tables of descriptors, files and inodes have their shape and their counts
\* (fs/generic.c, fs/inode.c).
TablesExact == TypeOK /\ RefsExact

\* Whoever sleeps on an in-core inode is woken when it is unlocked.
NoSleeperForgotten == \A p \in Procs : asleep[p] # 0 => i_vect[asleep[p]].busy /\ i_vect[asleep[p]].demand

\* The names there are of an inode, and the links it counts: in core, if it
\* is there, else on disk.
InCore(d)   == i_hash_search(d)
NlinksOf(d) == IF InCore(d) # 0 THEN nlinks(InCore(d)) ELSE disk[d].nlinks
Linked(d)   == Cardinality({x \in Dinodes \X (1..DirMax) :
                   x[2] \in DOMAIN dent[x[1]] /\ dent[x[1]][x[2]].ino = d /\ NlinksOf(x[1]) > 0})
AtRest      == \A p \in Procs : pc[p] \in {"idle", "unborn"}

\* Between calls an inode has as many links as names, "." and ".." included,
\* and it is free only when it has none, whatever calls failed half way: as
\* long as no two processes were in one directory at once.
LinksExact ==
    ~hist.overlap /\ ~panicked /\ AtRest =>
        \A d \in Dinodes : NlinksOf(d) = Linked(d) /\ (d \in ibitmap => Linked(d) = 0)

Executes(p, s) == pc[p] # "unborn" /\ a_out[p] = s /\ Place(p) \notin {"e_end", "x_image"}
OpenToWrite(s) == \E fd \in Fds : Installed(fd) /\ fdt[fd].inode = s /\ Writing(fdt[fd].flags)

\* No process can write to a file that another one executes, unless an
\* exec() of it failed before, or was under way when another process that
\* ran it exited.
TextSafe ==
    \/ hist.torn \/ hist.overlap
    \/ \A p \in Procs, s \in Slots \ hist.bad : Executes(p, s) => ~OpenToWrite(s)

\* "Don't allow writings to this file while we are running it."
TextDenied == \A p \in Procs, s \in Slots : Executes(p, s) => i_vect[s].write_denied
\* "exec_denied: set when the file is currently open for writing."
ExecDeniedByWriter ==
    AtRest => \A s \in Slots : i_vect[s].nref > 0 /\ i_vect[s].exec_denied => OpenToWrite(s)
=============================================================================
