------------------------------ MODULE Process -------------------------------
(***************************************************************************)
(* The process table (kernel/kpid.c), process identities                   *)
(* (kernel/process.c), sys_fork(), sys_exit(), release_zombie(),           *)
(* sys_waitpid() and SIGCHLD: who is whose child, who is told of a death,  *)
(* and who removes a zombie.                                               *)
(*                                                                         *)
(* The kernel is not preempted, so an action is what a process does up to  *)
(* its next sleep.  pc[k], where process k is:                             *)
(*   none    not started, or dead      user    outside the kernel          *)
(*   fork    in reserve_pages()        exit    closing its files           *)
(*   asleep  in sleep(&sys_waitpid)    woken   there, made ready again     *)
(*   reap    in the loop of sleep() or issig() that releases all zombies;  *)
(*           it has no sleep, so that nobody else runs then                *)
(***************************************************************************)
EXTENDS Integers, Sequences, FiniteSets, SequencesExt, FiniteSetsExt

CONSTANTS MaxKpid,      \* SYSTEM_PROCESS_MAX - 1
          MaxPid,       \* the largest pid (32767)
          Dispositions, \* of SIGCHLD (a bound: "dfl", "ign", "handler")
          Masks,        \* may SIGCHLD be blocked? (a bound: BOOLEAN)
          MaxChildren,  \* of INIT, which may count too many (a bound)
          Changing      \* the slots whose process changes these, or its
                        \* session (a bound)

INIT == 2
Slots == 3..MaxKpid
Kpids == {INIT} \union Slots

ASSUME ProcessAssumption ==
  /\ MaxKpid \in Nat /\ MaxKpid > INIT
  /\ MaxPid \in Nat /\ MaxPid >= 2 * Cardinality(Slots)
  /\ Dispositions \subseteq {"dfl", "ign", "handler"} /\ Masks \subseteq BOOLEAN
  /\ MaxChildren \in Nat /\ Changing \subseteq Kpids

VARIABLES table,      \* the list of the used slots after INIT, in its order
          u,          \* u_area[]; a free slot keeps the identity of its last
                      \* process (the rest is left out: nothing reads it)
          latest_pid,
          pc,
          frame       \* locals: of sys_fork() child_kpid, of sys_waitpid()
                      \* pid, WNOHANG and `all`

vars == <<table, u, latest_pid, pc, frame>>

AnyChild == 0 - 1
MyGroup == 0
NoFrame == [child |-> 0, who |-> AnyChild, nohang |-> FALSE, all |-> FALSE]

\* The group of a process is always its session: only sys_setsid() and the
\* exit of a leader set it.
NoProcess == [status |-> "unused", pid |-> 0, ppid |-> 0, pkpid |-> 0,
              children |-> 0, session |-> 0, leader |-> FALSE,
              sigchld |-> FALSE, blocked |-> FALSE, handler |-> "dfl"]

Init ==
  /\ table = <<>>
  /\ u = [k \in Kpids |-> IF k = INIT THEN [NoProcess EXCEPT !.status = "alive", !.pid = 1]
                                      ELSE NoProcess]
  /\ latest_pid = 1
  /\ pc = [k \in Kpids |-> IF k = INIT THEN "user" ELSE "none"]
  /\ frame = [k \in Kpids |-> NoFrame]

Exists(k) == u[k].status # "unused"

Goes(k, label) == pc' = [pc EXCEPT ![k] = label]
-----------------------------------------------------------------------------
(* sys_fork()                                                              *)

Free == Slots \ Range(table)

\* get_kpid() takes a slot, then reserve_pages() may sleep.  (That the last
\* slots are kept for the superuser only makes some calls fail.)
Fork(p) ==
  /\ pc[p] = "user" /\ Free # {}
  /\ LET c == Min(Free) IN
     /\ table' = Append(table, c)
     /\ frame' = [frame EXCEPT ![p].child = c]
  /\ Goes(p, "fork")
  /\ UNCHANGED <<u, latest_pid>>

\* ++latest_pid, n times.
After(n) == IF latest_pid + n > MaxPid THEN latest_pid + n - MaxPid + 1 ELSE latest_pid + n

Identities(ks) == {u[k].pid : k \in ks} \union {u[k].session : k \in ks}

\* find_unused_pid(): the slot of the child already is a copy of the parent.
UnusedPid(p) ==
  LET ids == Identities((Range(table) \ {frame[p].child}) \union {p})
  IN After(Min({n \in 1..MaxPid : After(n) \notin ids}))

ForkEnd(p) ==
  /\ pc[p] = "fork"
  /\ LET c == frame[p].child pid == UnusedPid(p) IN
     /\ u' = [u EXCEPT ![p].children = @ + 1,
                       ![c] = [u[p] EXCEPT !.pid = pid, !.ppid = u[p].pid, !.pkpid = p,
                                           !.children = 0, !.leader = FALSE,
                                           !.sigchld = FALSE]]
     /\ latest_pid' = pid
     /\ pc' = [pc EXCEPT ![p] = "user", ![c] = "user"]
  /\ frame' = [frame EXCEPT ![p] = NoFrame]
  /\ UNCHANGED table
-----------------------------------------------------------------------------
(* sys_exit()                                                              *)

\* Called, or forced by a signal, also in waitpid().  The files are closed,
\* which may sleep.
Exit(p) ==
  /\ pc[p] \in {"user", "asleep", "woken"} /\ p # INIT
  /\ Goes(p, "exit")
  /\ frame' = [frame EXCEPT ![p] = NoFrame]
  /\ UNCHANGED <<table, u, latest_pid>>

\* Members of the session that a leader leaves behind.
Dismissed(p, k) == /\ u[p].leader /\ k \in Range(table) \ {p}
                   /\ u[k].status # "zombie" /\ u[k].session = u[p].session

Orphans(p) == {k \in Range(table) : u[k].ppid = u[p].pid}

\* Those kill_kpid() sends SIGCHLD to.
Mourners(p) ==
  {u[p].pkpid} \union IF \E k \in Orphans(p) : u[k].status = "zombie" THEN {INIT} ELSE {}

\* Mutant: the parent's slot is not changed with its pid.
Adopted_NoKpid(p, k) ==
  IF k \in Orphans(p) THEN [u[k] EXCEPT !.ppid = 1]
  ELSE IF k = INIT THEN [u[k] EXCEPT !.children = @ + Cardinality(Orphans(p))]
  ELSE u[k]

\* u_area[k] after INIT has adopted the orphans.
Adopted(p, k) ==
  IF k \in Orphans(p) THEN [u[k] EXCEPT !.ppid = 1, !.pkpid = INIT]
  ELSE IF k = INIT THEN [u[k] EXCEPT !.children = @ + Cardinality(Orphans(p))]
  ELSE u[k]

\* What is read of a zombie.
Dead(p) == [u[p] EXCEPT !.status = "zombie", !.children = 0, !.sigchld = FALSE,
                        !.blocked = FALSE, !.handler = "dfl"]

ExitEnd(p) ==
  /\ pc[p] = "exit" /\ u[INIT].children + Cardinality(Orphans(p)) <= MaxChildren
  /\ u' = [k \in Kpids |->
             IF k = p THEN Dead(p)
             ELSE [Adopted(p, k) EXCEPT !.session = IF Dismissed(p, k) THEN 0 ELSE @,
                                        !.sigchld = @ \/ k \in Mourners(p)]]
  /\ pc' = [k \in Kpids |-> IF k = p THEN "none"
                            ELSE IF k \in Mourners(p) /\ pc[k] = "asleep" THEN "woken"
                            ELSE pc[k]]
  /\ UNCHANGED <<table, latest_pid, frame>>
-----------------------------------------------------------------------------
(* Zombies: pick_zombie(), release_zombie(), sys_waitpid().                *)

\* Mutant: whose child it is, is not asked.
Zombies_Anybodys(p) == {k \in Range(table) : u[k].status = "zombie"}

Zombies(p) == {k \in Range(table) : u[k].status = "zombie" /\ u[k].ppid = u[p].pid}

\* pick_zombie(): the first in the table.
PickZombie(p) == table[Min({i \in DOMAIN table : table[i] \in Zombies(p)})]

Remains(k) == [NoProcess EXCEPT !.pid = u[k].pid, !.ppid = u[k].ppid, !.session = u[k].session]

\* release_zombie() by p
ReleaseZombie(p, k) ==
  /\ table' = RemoveAt(table, CHOOSE i \in DOMAIN table : table[i] = k)
  /\ u' = [u EXCEPT ![k] = Remains(k), ![p].children = @ - 1]

Meant(p, who, k) == \/ who = AnyChild
                    \/ who = u[k].pid
                    \/ who = MyGroup /\ u[k].session = u[p].session
                    \/ who < AnyChild /\ u[k].session = 0 - who

Returns(p) == Goes(p, "user") /\ frame' = [frame EXCEPT ![p] = NoFrame]
Sleeps(p, f) == Goes(p, "asleep") /\ frame' = [frame EXCEPT ![p] = f]
SleepsUnless(p, f) == IF f.nohang THEN Returns(p) ELSE Sleeps(p, f)

Signalled(p) == u[p].sigchld /\ ~u[p].blocked

\* One turn of the loop of sys_waitpid(), up to the next sleep: no child, a
\* zombie, the wrong zombie or none.
WaitTurn(p, f) ==
  \/ /\ u[p].children = 0
     /\ Returns(p) /\ UNCHANGED <<table, u>>
  \/ /\ u[p].children > 0 /\ ~f.all
     /\ Zombies(p) # {} /\ Meant(p, f.who, PickZombie(p))
     /\ ReleaseZombie(p, PickZombie(p))
     /\ Returns(p)
  \/ /\ u[p].children > 0 /\ ~f.all
     /\ Zombies(p) # {} => ~Meant(p, f.who, PickZombie(p))
     /\ u' = [u EXCEPT ![p].sigchld = FALSE]
     /\ SleepsUnless(p, f) /\ UNCHANGED table

\* The same when SIGCHLD is ignored: sleep() releases the zombies.
WaitAll(p, f) ==
  /\ u[p].children > 0 /\ f.all
  /\ IF Signalled(p) /\ ~f.nohang
     THEN Goes(p, "reap") /\ frame' = [frame EXCEPT ![p] = f]
     ELSE SleepsUnless(p, f)
  /\ UNCHANGED <<table, u>>

\* while ((kpid = pick_zombie())) release_zombie(kpid);
Reap(p) ==
  /\ pc[p] = "reap" /\ Zombies(p) # {}
  /\ ReleaseZombie(p, PickZombie(p))
  /\ UNCHANGED <<latest_pid, pc, frame>>

\* The last pick_zombie() takes SIGCHLD back.  waitpid() goes on if there is a child left.
ReapEnd(p) ==
  /\ pc[p] = "reap" /\ Zombies(p) = {}
  /\ u' = [u EXCEPT ![p].sigchld = FALSE]
  /\ IF frame[p].all /\ u[p].children > 0 THEN Sleeps(p, frame[p]) ELSE Returns(p)
  /\ UNCHANGED <<table, latest_pid>>

Wait(p, who, nohang) ==
  /\ pc[p] = "user"
  /\ LET f == [child |-> 0, who |-> who, nohang |-> nohang,
               all |-> u[p].handler = "ign"]
     IN WaitTurn(p, f) \/ WaitAll(p, f)
  /\ UNCHANGED latest_pid

\* sleep() goes on sleeping if the signal is blocked.
Resume(p) ==
  /\ pc[p] = "woken"
  /\ IF Signalled(p)
     THEN WaitTurn(p, frame[p]) \/ WaitAll(p, frame[p])
     ELSE Goes(p, "asleep") /\ UNCHANGED <<table, u, frame>>
  /\ UNCHANGED latest_pid

\* Another signal, with a handler: -EINTR.
Interrupt(p) ==
  /\ pc[p] \in {"asleep", "woken"}
  /\ Returns(p)
  /\ UNCHANGED <<table, u, latest_pid>>
-----------------------------------------------------------------------------
(* SIGCHLD, and the other calls that change an identity.                   *)

\* issig() at the return to the user; a handler runs with the signal blocked.
\* (Another handler may have to run first, so more calls may come before.)
Deliver(p) ==
  /\ pc[p] = "user" /\ Signalled(p)
  /\ \/ /\ u[p].handler = "ign"
        /\ Goes(p, "reap") /\ UNCHANGED u
     \/ /\ u[p].handler = "handler"
        /\ u' = [u EXCEPT ![p].sigchld = FALSE, ![p].blocked = TRUE]
        /\ UNCHANGED pc
  /\ UNCHANGED <<table, latest_pid, frame>>

\* sys_sigprocmask(), sys_sigend()
SetMask(p, blocked) ==
  /\ pc[p] = "user" /\ blocked # u[p].blocked
  /\ blocked => p \in Changing
  /\ u' = [u EXCEPT ![p].blocked = blocked]
  /\ UNCHANGED <<table, latest_pid, pc, frame>>

\* sys_sigaction(SIGCHLD); any zombie of the system counts.
SetAction(p, handler) ==
  /\ pc[p] = "user" /\ p \in Changing
  /\ u' = [u EXCEPT ![p].handler = handler,
                    ![p].sigchld = @ \/ \E k \in Range(table) : u[k].status = "zombie"]
  /\ UNCHANGED <<table, latest_pid, pc, frame>>

SetSid(p) ==
  /\ pc[p] = "user" /\ p \in Changing /\ ~u[p].leader
  /\ u' = [u EXCEPT ![p].leader = TRUE, ![p].session = u[p].pid]
  /\ UNCHANGED <<table, latest_pid, pc, frame>>

\* The calls worth making: for any child, a group, or a child.
Targets(p) ==
  LET own == {k \in Range(table) : Exists(k) /\ u[k].pkpid = p}
  IN {AnyChild, MyGroup} \union {u[k].pid : k \in own}
     \union {0 - u[k].session : k \in {j \in own : u[j].session > 1}}

Alone(p) == \A q \in Kpids \ {p} : pc[q] # "reap"

Next ==
  \E p \in Kpids :
    /\ Alone(p)
    /\ \/ Fork(p) \/ ForkEnd(p) \/ Exit(p) \/ ExitEnd(p)
       \/ \E who \in Targets(p), nohang \in BOOLEAN : Wait(p, who, nohang)
       \/ Resume(p) \/ Interrupt(p) \/ Reap(p) \/ ReapEnd(p)
       \/ Deliver(p)
       \/ \E blocked \in Masks : SetMask(p, blocked)
       \/ \E handler \in Dispositions : SetAction(p, handler)
       \/ SetSid(p)

Spec == Init /\ [][Next]_vars
-----------------------------------------------------------------------------
Areas == [status : {"unused", "alive", "zombie"}, pid : 0..MaxPid, ppid : 0..MaxPid,
          pkpid : Kpids \union {0}, children : Nat, session : 0..MaxPid, leader : BOOLEAN,
          sigchld : BOOLEAN, blocked : BOOLEAN, handler : {"dfl", "ign", "handler"}]
Frames == [child : {0} \union Slots, who : (0 - MaxPid)..MaxPid, nohang : BOOLEAN, all : BOOLEAN]

TypeOK ==
  /\ table \in Seq(Slots) /\ \A i, j \in DOMAIN table : table[i] = table[j] => i = j
  /\ u \in [Kpids -> Areas]
  /\ latest_pid \in 1..MaxPid
  /\ pc \in [Kpids -> {"none", "user", "fork", "exit", "asleep", "woken", "reap"}]
  /\ frame \in [Kpids -> Frames]

\* The parent by pid, which waits, is the parent by slot, which is told of the
\* death; it is alive.
ParentsAgree ==
  \A k \in Slots : Exists(k) => /\ u[u[k].pkpid].status = "alive"
                                /\ u[u[k].pkpid].pid = u[k].ppid

ChildrenOf(p) == {k \in Slots : Exists(k) /\ u[k].ppid = u[p].pid}

\* waitpid() says "no child" (ECHILD) only to a process without children, and
\* to every one but INIT.  (INIT's count may be too high: the slot of a fork
\* that waits for memory may still hold an old ppid when sys_exit() counts.)
ChildrenCounted ==
  \A p \in Kpids :
    u[p].status = "alive" =>
      IF p = INIT THEN u[p].children >= Cardinality(ChildrenOf(p))
                  ELSE u[p].children = Cardinality(ChildrenOf(p))

\* find_unused_pid(): no two processes have the same pid, and nobody gets the
\* pid that names a session it did not found.
IdentitiesUnique ==
  \A k, l \in Kpids :
    /\ Exists(k) /\ Exists(l) /\ u[k].pid = u[l].pid => k = l
    /\ Exists(k) /\ Exists(l) /\ u[l].session = u[k].pid => u[k].leader

\* fork, exit, waitpid and setsid keep pids, parents and counts together
\* (kernel/fork.c, kernel/exit.c, kernel/process.c).
FamilyTies == TypeOK /\ ParentsAgree /\ ChildrenCounted /\ IdentitiesUnique

\* Who sleeps in waitpid() for any child, with SIGCHLD not blocked, has no
\* zombie: it was told of every death since it looked.
WaiterInformed ==
  \A p \in Kpids :
    pc[p] = "asleep" /\ frame[p].who = AnyChild /\ ~u[p].blocked => Zombies(p) = {}

\* Who is alive, the parent by slot, and the children yet to be buried.
Life   == [k \in Kpids |-> IF u[k].status = "unused" THEN "none"
                           ELSE IF u[k].status = "zombie" THEN "dead" ELSE "alive"]
Parent == [k \in Slots |-> IF Exists(k) THEN u[k].pkpid ELSE INIT]
Mourns == [k \in Slots |-> IF u[k].status = "alive" THEN u[k].children ELSE 0]

\* fork, exit and wait keep the promise of Family.
Kin == INSTANCE Family WITH People <- Kpids, Ancestor <- INIT,
                            life <- Life, parent <- Parent, mourns <- Mourns

ImplementsFamily == Kin!Spec
=============================================================================
