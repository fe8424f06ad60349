------------------------------- MODULE Signals -------------------------------
(***************************************************************************)
(* Signals: kernel/signal.c with the loop of sleep() (kernel/sleep.c), the *)
(* end of a system call (proc/i386/syscalls.S), what exec() does to them   *)
(* (kernel/exec.c) and the user ids that kill() asks for                   *)
(* (kernel/process.c).                                                     *)
(*                                                                         *)
(* A process of the kernel is not preempted, so a system call is one step, *)
(* up to the sleep of sys_pause(), and its end issig() is part of it.      *)
(* proc[p].pc is "user", "asleep" in sys_pause(), "awake" there (made      *)
(* ready), "spin" (sys_pause() loops for ever), "zombie" or "gone".        *)
(* frames are the handlers under way, the last one called first.           *)
(*                                                                         *)
(* Four fields are history: own, the mask that the program itself asked    *)
(* for; nested, a handler had not returned when another one, or a new      *)
(* program, began; overslept, the process sleeps over signals that wait    *)
(* behind a SIGCHLD; stale, signals that were pending when they were set   *)
(* to be ignored.                                                          *)
(***************************************************************************)
EXTENDS Integers, Sequences, FiniteSets, SequencesExt, FiniteSetsExt

CONSTANTS SigProcs,     \* processes that get signals; their pids are their numbers
          ParentOf,     \* the parent of each, 0: INIT, whose signals are left out
          Sigs,         \* the signals there are
          SigMenus      \* bound: calls, their number, and their arguments

SIGKILL == 9
SIGCHLD == 18
SIGSTOP == 23
SIG_BLOCKABLE == Sigs \ {SIGKILL, SIGSTOP}

ASSUME SignalsAssumption == /\ SigProcs \subseteq Nat \ {0} /\ ParentOf \in [SigProcs -> SigProcs \cup {0}]
                            /\ Sigs \subseteq 1..31 /\ SIGCHLD \in Sigs
                            /\ SigMenus \subseteq [left : Nat, ops : SUBSET STRING, sigs : SUBSET Sigs,
                                                   sets : SUBSET SUBSET Sigs, ids : SUBSET Nat,
                                                   acts : SUBSET [h : {"dfl", "ign", "handler"}, mask : SUBSET Sigs]]

VARIABLES proc,         \* the u_area[] of each
          sigmenu       \* bound: the calls still to be made

sigVars == <<proc, sigmenu>>

Default == [h |-> "dfl", mask |-> {}]
NewProcess(ids) ==
    [pending |-> {}, blocked |-> {}, oldmask |-> {}, act |-> [s \in Sigs |-> Default], pc |-> "user",
     suspended |-> FALSE, saved |-> {}, ruid |-> ids.uid, euid |-> ids.uid, suid |-> ids.uid, pgrp |-> ids.pgrp,
     frames |-> <<>>, own |-> {}, nested |-> FALSE, overslept |-> FALSE, stale |-> {}]

signals(r) == r.pending \ r.blocked
First(r)   == Min(signals(r))
\* __issig(): the process does not come back from sleep().
Fatal(r)   == \E s \in signals(r) \ {SIGCHLD} : r.act[s].h = "dfl"
Alive(r)   == r.pc \notin {"zombie", "gone"}

\* pick_zombie() until there is none.
Reaped(r) == [r EXCEPT !.pending = @ \ {SIGCHLD}]

(***************************************************************************)
(* issig(): the lowest signal is acted upon, and it alone.  A SIGCHLD that *)
(* no one handles stays pending; a signal set to be ignored while it was   *)
(* pending is "handled" at the address SIG_IGN.                            *)
(***************************************************************************)
\* The mask of the program is kept at one level only.
Handled(r, s) ==
    [r EXCEPT !.pending = @ \ {s}, !.oldmask = r.blocked, !.blocked = @ \cup {s} \cup r.act[s].mask,
              !.frames = <<s>> \o @, !.nested = @ \/ r.frames # <<>>, !.stale = @ \ {s}]

issig(r) ==
    IF signals(r) = {} \/ (First(r) = SIGCHLD /\ r.act[SIGCHLD].h = "dfl") THEN r
    ELSE IF First(r) = SIGCHLD /\ r.act[SIGCHLD].h = "ign" THEN Reaped(r)
    ELSE IF r.act[First(r)].h = "dfl" THEN [r EXCEPT !.pc = "zombie"]
    ELSE Handled(r, First(r))

(***************************************************************************)
(* kill_kpid(), and the death of a process.                                *)
(***************************************************************************)
kill_kpid(r, s) ==
    IF r.act[s].h = "ign" /\ s # SIGCHLD THEN r
    ELSE [r EXCEPT !.pending = @ \cup {s}, !.pc = IF @ = "asleep" THEN "awake" ELSE @]

\* v[p] becomes r: if p died its parent is told, if it ignores SIGCHLD and took
\* one back its dead children are gone.
Becomes(v, p, r) ==
    proc' = [q \in SigProcs |->
            IF q = p THEN r
            ELSE IF r.pc = "zombie" /\ q = ParentOf[p] /\ Alive(v[q]) THEN kill_kpid(v[q], SIGCHLD)
            ELSE IF /\ SIGCHLD \in v[p].pending \ r.pending /\ r.act[SIGCHLD].h = "ign"
                    /\ ParentOf[q] = p /\ v[q].pc = "zombie"
                 THEN [v[q] EXCEPT !.pc = "gone"]
            ELSE v[q]]

\* The end of a system call, or of an interrupt.
SysCallEnd(p, r) == Becomes(proc, p, issig(r))

Call(p, op) == /\ proc[p].pc = "user" /\ op \in sigmenu.ops /\ sigmenu.left > 0
               /\ sigmenu' = [sigmenu EXCEPT !.left = @ - 1]

(***************************************************************************)
(* sys_kill().                                                             *)
(***************************************************************************)
superuser(p)        == proc[p].euid = 0
can_kill_kpid(p, q) == superuser(p) \/ proc[p].euid = proc[q].euid \/ proc[p].ruid = proc[q].ruid

\* kill_pgrp() stops with EPERM at the first member that p may not signal, when
\* those before have been signalled.
kill_pgrp(p, g, kill_the_sender) ==
    LET members == {q \in SigProcs : Alive(proc[q]) /\ proc[q].pgrp = g /\ (q # p \/ kill_the_sender)}
    IN  {q \in members : \A x \in members : x <= q => can_kill_kpid(p, x)}

kill_pid(p, pid) == {q \in SigProcs : q = pid /\ Alive(proc[q]) /\ can_kill_kpid(p, q)}
kill_all(p)      == {q \in SigProcs : Alive(proc[q]) /\ (superuser(p) \/ proc[q].euid = proc[p].euid)}

sys_kill(p, pid, s) ==
    /\ Call(p, "kill")
    /\ LET reached == IF pid > 0 THEN kill_pid(p, pid)
                      ELSE IF pid = 0 THEN kill_pgrp(p, proc[p].pgrp, FALSE)
                      ELSE IF pid = -1 THEN kill_all(p)
                      ELSE kill_pgrp(p, -pid, TRUE)
           v == [q \in SigProcs |-> IF q \in reached THEN kill_kpid(proc[q], s) ELSE proc[q]]
       IN  Becomes(v, p, issig(v[p]))

(***************************************************************************)
(* sys_pause() and sys_sigsuspend().                                       *)
(***************************************************************************)
\* Mutant: the process goes to sleep without a look at its signals.
SleepTurn_Blind(r) == [r EXCEPT !.pc = "asleep"]

\* One turn of the loop of sleep(), and sys_pause() after it.  With a SIGCHLD
\* that has no handler before them, other signals are slept over.
SleepTurn(r) ==
    IF signals(r) = {} THEN [r EXCEPT !.pc = "asleep"]
    ELSE IF Fatal(r) THEN [r EXCEPT !.pc = "zombie"]
    ELSE IF First(r) = SIGCHLD /\ r.act[SIGCHLD].h # "handler"
         THEN [(IF r.act[SIGCHLD].h = "ign" THEN Reaped(r) ELSE r)
                 EXCEPT !.pc = "asleep", !.overslept = signals(r) # {SIGCHLD}]
    ELSE IF r.act[First(r)].h = "ign" THEN [r EXCEPT !.pc = "spin"]
    ELSE issig([r EXCEPT !.pc = "user", !.overslept = FALSE, !.suspended = FALSE, !.saved = {},
                         !.blocked = IF r.suspended THEN r.saved ELSE @])

sys_pause(p) == Call(p, "pause") /\ Becomes(proc, p, SleepTurn(proc[p]))

sys_sigsuspend(p, set) ==
    /\ Call(p, "suspend")
    /\ Becomes(proc, p, SleepTurn([proc[p] EXCEPT !.suspended = TRUE, !.saved = proc[p].blocked,
                                            !.blocked = set \cap SIG_BLOCKABLE]))

WakesUp(p) == proc[p].pc = "awake" /\ Becomes(proc, p, SleepTurn(proc[p])) /\ UNCHANGED sigmenu

(***************************************************************************)
(* Masks, actions and the return of a handler.                             *)
(***************************************************************************)
\* Outside of handlers the mask is the program's own.
Masked(r, mask) == [r EXCEPT !.blocked = mask, !.own = IF r.frames = <<>> THEN mask ELSE @]

sys_sigprocmask(p, how, set) ==
    LET r == proc[p] s == set \cap SIG_BLOCKABLE
    IN  /\ Call(p, "mask")
        /\ SysCallEnd(p, Masked(r, CASE how = "SIG_BLOCK"   -> r.blocked \cup s
                                  [] how = "SIG_UNBLOCK" -> r.blocked \ s
                                  [] how = "SIG_SETMASK" -> s))

\* SIGKILL and SIGSTOP keep their default action.  A zombie anywhere makes a new
\* SIGCHLD of an action for SIGCHLD.
sys_sigaction(p, s, a) ==
    /\ Call(p, "action")
    /\ s \in SIG_BLOCKABLE \/ a.h = "dfl"
    /\ LET r == [proc[p] EXCEPT !.act[s] = a,
                             !.stale = IF a.h = "ign" /\ s \in proc[p].pending THEN @ \cup {s} ELSE @ \ {s}]
       IN  SysCallEnd(p, IF s = SIGCHLD /\ (\E q \in SigProcs : proc[q].pc = "zombie") THEN kill_kpid(r, s) ELSE r)

\* The handler returns: crt0 calls sigend().
sys_sigend(p) ==
    /\ proc[p].pc = "user" /\ proc[p].frames # <<>>
    /\ SysCallEnd(p, [proc[p] EXCEPT !.blocked = proc[p].oldmask, !.frames = Tail(@)])
    /\ UNCHANGED sigmenu

\* waitpid(WNOHANG) by who has no dead child left.
WaitedFor(p) == /\ Call(p, "wait") /\ ~\E q \in SigProcs : ParentOf[q] = p /\ proc[q].pc = "zombie"
                /\ SysCallEnd(p, Reaped(proc[p]))

(***************************************************************************)
(* Identities, exec() and exit().                                          *)
(***************************************************************************)
sys_setuid(p, id) ==
    /\ Call(p, "setuid")
    /\ \/ superuser(p) /\ SysCallEnd(p, [proc[p] EXCEPT !.euid = id, !.ruid = id, !.suid = id])
       \/ /\ ~superuser(p) /\ id \in {proc[p].ruid, proc[p].suid}
          /\ SysCallEnd(p, [proc[p] EXCEPT !.euid = id])

\* A new program, perhaps set-uid to owner: handlers are forgotten, the mask and
\* what is ignored stays.  (The saved id stays too.)
sys_exec(p, owner) ==
    /\ Call(p, "exec")
    /\ SysCallEnd(p, [proc[p] EXCEPT !.euid = IF owner = -1 THEN @ ELSE owner,
                               !.act = [s \in Sigs |-> IF @[s].h = "handler" THEN [@[s] EXCEPT !.h = "dfl"] ELSE @[s]],
                               !.frames = <<>>, !.own = proc[p].blocked, !.nested = @ \/ proc[p].frames # <<>>])

sys_exit(p) == Call(p, "exit") /\ Becomes(proc, p, [proc[p] EXCEPT !.pc = "zombie"])

SigMenu(n, ops, sigs, sets, acts, ids) ==
    [left |-> n, ops |-> ops, sigs |-> sigs, sets |-> sets, acts |-> acts, ids |-> ids]

SigInit(ids) == /\ proc = [p \in SigProcs |-> NewProcess(ids[p])]
                /\ sigmenu \in SigMenus

SigStep(p) ==
    \/ \E pid \in SigProcs \cup {0, -1} \cup {-proc[q].pgrp : q \in SigProcs}, s \in sigmenu.sigs : sys_kill(p, pid, s)
    \/ sys_pause(p) \/ WakesUp(p) \/ sys_sigend(p) \/ WaitedFor(p) \/ sys_exit(p)
    \/ \E set \in sigmenu.sets : \/ sys_sigsuspend(p, set)
                                 \/ \E how \in {"SIG_BLOCK", "SIG_UNBLOCK", "SIG_SETMASK"} : sys_sigprocmask(p, how, set)
    \/ \E s \in sigmenu.sigs, a \in sigmenu.acts : sys_sigaction(p, s, a)
    \/ \E id \in sigmenu.ids : sys_setuid(p, id)
    \/ \E owner \in sigmenu.ids \cup {-1} : sys_exec(p, owner)

SigNext == \E p \in SigProcs : SigStep(p)

(***************************************************************************)
(* Properties.                                                             *)
(***************************************************************************)
\* sleep() and kill_kpid() (kernel/sleep.c, kernel/signal.c): who sleeps in pause()
\* or sigsuspend() has no signal to act upon, whatever came between the look at
\* the signals, the change of the mask and the sleep; but for those that wait
\* behind a SIGCHLD without a handler.
NoSignalSleptOver ==
    \A p \in SigProcs : proc[p].pc = "asleep" /\ ~proc[p].overslept => signals(proc[p]) \subseteq {SIGCHLD}

\* issig(), sys_sigend(), sys_sigsuspend(): a program whose handlers have all
\* returned has the mask it asked for, unless one of them was interrupted.
MaskRestored ==
    \A p \in SigProcs : proc[p].pc = "user" /\ proc[p].frames = <<>> /\ ~proc[p].nested => proc[p].blocked = proc[p].own

\* sys_sigaction(), kill_kpid(): an ignored signal is not pending, so that neither
\* issig() calls it nor sys_pause() turns round for ever, unless it was pending
\* when it was set to be ignored.
IgnoredNotPending ==
    \A p \in SigProcs : Alive(proc[p]) =>
        /\ \A s \in proc[p].pending \ {SIGCHLD} : proc[p].act[s].h = "ign" => s \in proc[p].stale
        /\ proc[p].pc = "spin" => proc[p].stale # {}

\* issig() ors sa_mask in as it is: a handler can hold SIGKILL off, and nothing but
\* a handler that runs, or was interrupted, does; and no one sleeps over it.
KillObeyed ==
    \A p \in SigProcs :
        /\ SIGKILL \in proc[p].blocked => proc[p].frames # <<>> \/ proc[p].nested
        /\ proc[p].pc = "asleep" /\ SIGKILL \in proc[p].pending => SIGKILL \in proc[p].blocked

SignalsKept == NoSignalSleptOver /\ MaskRestored /\ IgnoredNotPending /\ KillObeyed
=============================================================================
