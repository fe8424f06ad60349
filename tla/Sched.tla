------------------------------- MODULE Sched --------------------------------
(***************************************************************************)
(* Processor scheduling, sleep and wakeup: kernel/sched.c, kernel/sleep.c, *)
(* the parts of kernel/signal.c, fork.c and exit.c that move a process in  *)
(* or out of the run lists, and the points of proc/i386/{async,syscalls}.S *)
(* where an interrupt or the end of a system call reaches scheduler().     *)
(*                                                                         *)
(* The kernel runs with interrupts disabled, so a process in it is only    *)
(* ever preempted inside reschedule() ("sti; int $0x31; cli": interrupts   *)
(* are open between the return from the trap and the cli), and the swapper *)
(* between its enable() and disable().                                     *)
(*                                                                         *)
(* kpc is what the processor is doing for the current process:             *)
(*   run      its own code         wake     the loop of a wakeup function  *)
(*   sched    scheduler(), first search     recycle  its second half       *)
(*   kill     kill_kpid() called by wakeup_and_kill()                      *)
(*   panic    PANIC(): the machine loops forever with interrupts off       *)
(***************************************************************************)
EXTENDS RunLists, Sequences, FiniteSets, SequencesExt

CONSTANTS Addrs,        \* sleep addresses
          Buckets,      \* buckets of sleep_hash
          Hash,         \* [Addrs -> Buckets]
          WaitLevel,    \* [Addrs -> 1..MaxLevel]: the wakeup priority used there
          NoAddr,       \* not an address
          PipeAddrs,    \* the addresses pipe_close() passes to wakeup_and_kill()
          IrqAddrs,     \* the addresses interrupt handlers pass to wakeup()
          UserMax,      \* highest user priority (39)
          UThreshold,   \* U_THRESHOLD_PRIORITY (48), also WAIT_PAGE
          InitPriority, \* I_THRESHOLD_PRIORITY >> 1 (20)
          Masked,       \* processes that block the signal of the model
          Signalled     \* processes it is sent to (a bound: all but SWAPPER)

ASSUME SchedAssumption ==
  /\ NProc >= 2
  /\ Hash \in [Addrs -> Buckets]
  /\ UserMax \in 1..MaxLevel /\ UThreshold \in 1..MaxLevel
  /\ UserMax < UThreshold
  /\ InitPriority \in 1..UserMax
  /\ WaitLevel \in [Addrs -> (UserMax + 1)..MaxLevel]
  /\ NoAddr \notin Addrs
  /\ PipeAddrs \subseteq Addrs /\ IrqAddrs \subseteq Addrs
  /\ Masked \subseteq Procs /\ Signalled \subseteq Procs

SWAPPER == 1
INIT == 2

VARIABLES current_kpid,  \* the running process, 0 = IDLE
          sched_touched, \* a process woke up since the last search
          rq,            \* the run lists
          priority,      \* sched_data[].priority
          status,        \* u_area[].status
          chain,         \* sleep_hash[] and sleep_vect[].next
          sleepv,        \* the frame of sleep() and the u_area fields it uses
          sigpending,    \* the signal of the model is in u_area[].sigpending
          mode,          \* where the process is, see Modes
          kpc,
          wk             \* arguments of the wakeup function being run

vars == <<current_kpid, sched_touched, rq, priority, status, chain, sleepv,
          sigpending, mode, kpc, wk>>

\* open: interrupts enabled (user code; the swapper after enable()).
\* closed: kernel code.  sleep, yield: inside the reschedule() of sleep() or
\* of a busy-wait loop, where interrupts are taken once it has been resumed.
Modes == {"open", "closed", "sleep", "yield"}
Statuses == {"UNUSED", "RUNNING", "ASLEEP", "ZOMBIE"}

\* addr: sleep_vect[].address; old: old_cpu_usage; bysig: sleep_address is
\* NULL.  All are dead once sleep() has returned.
Frames == [addr : Addrs \union {NoAddr}, old : Levels, bysig : BOOLEAN]
NoFrame == [addr |-> NoAddr, old |-> 0, bysig |-> FALSE]

NoWake == [addr |-> NoAddr, kind |-> "none", irq |-> FALSE, victim |-> 0]
Wakes == [addr : Addrs \union {NoAddr}, kind : {"none", "all", "one", "kill"},
          irq : BOOLEAN, victim : 0..NProc]

Bucket(k) == Hash[sleepv[k].addr]
Asleep(k) == status[k] = "ASLEEP"
Runnable == {k \in Procs : status[k] = "RUNNING"}

\* signals() of the process: pending and not blocked.
Signals(k) == sigpending[k] /\ k \notin Masked

Interruptible(a) == WaitLevel[a] < UThreshold
-----------------------------------------------------------------------------
\* After scheduler_init(): only the swapper is ready, the boot code is IDLE.
Init ==
  /\ current_kpid = IDLE
  /\ sched_touched = TRUE
  /\ rq = NewSchedulable(EmptyRunQueues, SWAPPER, UThreshold)
  /\ priority = [k \in Procs |-> IF k = SWAPPER THEN UThreshold ELSE 0]
  /\ status = [k \in Procs |-> IF k = SWAPPER THEN "RUNNING" ELSE "UNUSED"]
  /\ chain = [b \in Buckets |-> <<>>]
  /\ sleepv = [k \in Procs |-> NoFrame]
  /\ sigpending = [k \in Procs |-> FALSE]
  /\ mode = [k \in Procs |-> IF k = SWAPPER THEN "closed" ELSE "open"]
  /\ kpc = "run"
  /\ wk = NoWake

-----------------------------------------------------------------------------
(* scheduler(): requeue the caller one level lower, search, dispatch.      *)

Dispatch(k) == current_kpid' = k /\ kpc' = "run"

\* Take the head of the highest non-empty list among levels 1..first.
PickFrom(r, first) ==
  \E p \in 1..first : /\ r.head[p] # 0
                      /\ \A q \in (p+1)..first : r.head[q] = 0
                      /\ Dispatch(r.head[p])

NoneFrom(r, first) == \A p \in 1..first : r.head[p] = 0

Requeued ==
  IF current_kpid = IDLE THEN rq
  ELSE IF Asleep(current_kpid) THEN rq
  ELSE NewSchedulable(DeleteSchedulable(rq, current_kpid), current_kpid,
                      LowerLevel(rq.usage[current_kpid]))

FirstLevel ==
  IF current_kpid = IDLE THEN MaxLevel
  ELSE IF sched_touched THEN MaxLevel ELSE rq.usage[current_kpid]

Scheduler ==
  /\ kpc = "sched"
  /\ sched_touched' = FALSE
  /\ rq' = Requeued
  /\ \/ PickFrom(Requeued, FirstLevel)
     \/ /\ NoneFrom(Requeued, FirstLevel)
        /\ kpc' = "recycle"
        /\ UNCHANGED current_kpid
  /\ UNCHANGED <<priority, status, chain, sleepv, sigpending, mode, wk>>

\* "All the processes have exceeded their time quota": one turn of the loop
\* that puts the processes of level 0 back on their base priority.
Recycle ==
  /\ kpc = "recycle"
  /\ rq.head[0] # 0
  /\ LET k == rq.head[0]
     IN rq' = NewSchedulable(DeleteSchedulable(rq, k), k, priority[k])
  /\ UNCHANGED <<current_kpid, sched_touched, priority, status, chain, sleepv,
                 sigpending, mode, kpc, wk>>

\* The rescan from the highest level; IDLE when there is nothing to run.
Rescan ==
  /\ kpc = "recycle"
  /\ rq.head[0] = 0
  /\ \/ PickFrom(rq, MaxLevel)
     \/ NoneFrom(rq, MaxLevel) /\ Dispatch(IDLE)
  /\ UNCHANGED <<sched_touched, rq, priority, status, chain, sleepv,
                 sigpending, mode, wk>>
-----------------------------------------------------------------------------
(* sleep()                                                                 *)

InKernel == /\ kpc = "run" /\ current_kpid # IDLE
            /\ mode[current_kpid] = "closed"

\* The body of the loop after the signal check; r is the run lists then.
GoToSleep(r, a) ==
  /\ chain' = [chain EXCEPT ![Hash[a]] = <<current_kpid>> \o @]
  /\ sleepv' = [sleepv EXCEPT ![current_kpid] =
                  [addr |-> a, old |-> r.usage[current_kpid], bysig |-> FALSE]]
  /\ status' = [status EXCEPT ![current_kpid] = "ASLEEP"]
  /\ rq' = DeleteSchedulable(r, current_kpid)
  /\ mode' = [mode EXCEPT ![current_kpid] = "sleep"]
  /\ kpc' = "sched"

\* A call of sleep(); it returns at once when a signal is already there.
Sleep(a) ==
  /\ InKernel
  /\ (current_kpid = SWAPPER) => a \notin PipeAddrs
  /\ ~(Interruptible(a) /\ Signals(current_kpid))
  /\ GoToSleep(rq, a)
  /\ UNCHANGED <<current_kpid, sched_touched, priority, sigpending, wk>>

\* reschedule() has returned inside sleep(): leave the list the process was
\* woken on, go back to the level it had, then return or sleep again.
ResumeSleep ==
  /\ kpc = "run" /\ current_kpid # IDLE
  /\ mode[current_kpid] = "sleep"
  /\ LET k == current_kpid
         f == sleepv[k]
         r == RestoreSchedulable(DeleteSchedulable(rq, k), k, f.old)
     IN \/ /\ f.bysig => Interruptible(f.addr) /\ Signals(k)
           /\ rq' = r
           /\ mode' = [mode EXCEPT ![k] = "closed"]
           /\ sleepv' = [sleepv EXCEPT ![k] = NoFrame]
           /\ UNCHANGED <<status, chain, kpc>>
        \/ /\ f.bysig /\ ~(Interruptible(f.addr) /\ Signals(k))
           /\ GoToSleep(r, f.addr)
  /\ UNCHANGED <<current_kpid, sched_touched, priority, sigpending, wk>>

\* reschedule() from a busy-wait loop (buf_get(), lp, vtty, delay()).
Yield ==
  /\ InKernel
  /\ mode' = [mode EXCEPT ![current_kpid] = "yield"]
  /\ kpc' = "sched"
  /\ UNCHANGED <<current_kpid, sched_touched, rq, priority, status, chain,
                 sleepv, sigpending, wk>>

ResumeYield ==
  /\ kpc = "run" /\ current_kpid # IDLE
  /\ mode[current_kpid] = "yield"
  /\ mode' = [mode EXCEPT ![current_kpid] = "closed"]
  /\ UNCHANGED <<current_kpid, sched_touched, rq, priority, status, chain,
                 sleepv, sigpending, kpc, wk>>
-----------------------------------------------------------------------------
(* wakeup(), wakeup_one_process(), wakeup_and_kill(), wakeup_process()     *)

\* Mutant: the process is not marked as running.
Ready_NoStatus(k, bysig) ==
  /\ rq' = NewSchedulable(rq, k, WaitLevel[sleepv[k].addr])
  /\ sched_touched' = TRUE
  /\ sleepv' = [sleepv EXCEPT ![k].bysig = bysig]
  /\ UNCHANGED status

\* Make k ready on the level of the address it sleeps on.
Ready(k, bysig) ==
  /\ status' = [status EXCEPT ![k] = "RUNNING"]
  /\ rq' = NewSchedulable(rq, k, WaitLevel[sleepv[k].addr])
  /\ sched_touched' = TRUE
  /\ sleepv' = [sleepv EXCEPT ![k].bysig = bysig]

\* A wakeup function called by the current process.
Wakeup(a, kind) ==
  /\ InKernel
  /\ kind = "kill" => a \in PipeAddrs
  /\ kpc' = "wake"
  /\ wk' = [addr |-> a, kind |-> kind, irq |-> FALSE, victim |-> 0]
  /\ UNCHANGED <<current_kpid, sched_touched, rq, priority, status, chain,
                 sleepv, sigpending, mode>>

\* Positions of the bucket's chain that hold a sleeper on wk.addr.
Matches == {i \in DOMAIN chain[Hash[wk.addr]] :
              sleepv[chain[Hash[wk.addr]][i]].addr = wk.addr}

\* Mutant: the handler returns to the interrupted code.
AfterWake_NoSwitch(touched) == "run"

\* What follows the wakeup function: its caller, or the end of the handler,
\* which calls scheduler() when sched_touched is set.
AfterWake(touched) == IF wk.irq /\ touched THEN "sched" ELSE "run"

\* One turn of the loop that wakes a process.
WakeOne ==
  /\ kpc = "wake"
  /\ \E i \in Matches :
       LET b == Hash[wk.addr]
           k == chain[b][i]
           rest == RemoveAt(chain[b], i)
       IN /\ \A j \in Matches : i <= j
          /\ Ready(k, FALSE)
          /\ chain' = [chain EXCEPT ![b] = rest]
          /\ \/ wk.kind = "all" /\ UNCHANGED <<kpc, wk>>
             \/ wk.kind = "one" /\ kpc' = AfterWake(TRUE) /\ wk' = NoWake
             \* kill_kpid(*proc, signum), after *proc = sleep_vect[*proc].next
             \/ /\ wk.kind = "kill"
                /\ kpc' = "kill"
                /\ wk' = [wk EXCEPT !.victim =
                            IF i <= Len(rest) THEN rest[i] ELSE IDLE]
  /\ UNCHANGED <<current_kpid, priority, sigpending, mode>>

WakeEnd ==
  /\ kpc = "wake"
  /\ Matches = {}
  /\ kpc' = AfterWake(sched_touched)
  /\ wk' = NoWake
  /\ UNCHANGED <<current_kpid, sched_touched, rq, priority, status, chain,
                 sleepv, sigpending, mode>>

-----------------------------------------------------------------------------
(* kill_kpid()                                                             *)

\* A sleeper that wakeup_process() would have to be able to find.
MustWake(k) == Asleep(k) /\ Interruptible(sleepv[k].addr)
Linked(k) == \E i \in DOMAIN chain[Bucket(k)] : chain[Bucket(k)][i] = k

\* kill_kpid(k): the swapper must not be signalled, and a sleeper must be on
\* its chain (ERR_BADWAKEUP).  IDLE only gets the bit set in its u_area.
Kill(k, then) ==
  \/ /\ k = IDLE
     /\ kpc' = then
     /\ UNCHANGED <<sched_touched, rq, status, chain, sleepv, sigpending>>
  \/ /\ k = SWAPPER
     /\ kpc' = "panic"
     /\ UNCHANGED <<sched_touched, rq, status, chain, sleepv, sigpending>>
  \/ /\ k \in Procs \ {SWAPPER}
     /\ sigpending' = [sigpending EXCEPT ![k] = TRUE]
     /\ \/ /\ ~MustWake(k)
           /\ kpc' = then
           /\ UNCHANGED <<sched_touched, rq, status, chain, sleepv>>
        \/ /\ MustWake(k) /\ Linked(k)
           /\ Ready(k, TRUE)
           /\ \E i \in DOMAIN chain[Bucket(k)] :
                /\ chain[Bucket(k)][i] = k
                /\ chain' = [chain EXCEPT ![Bucket(k)] = RemoveAt(@, i)]
           /\ kpc' = then
        \/ /\ MustWake(k) /\ ~Linked(k)
           /\ kpc' = "panic"
           /\ UNCHANGED <<sched_touched, rq, status, chain, sleepv>>

\* The call made by wakeup_and_kill().
KillNext ==
  /\ kpc = "kill"
  /\ Kill(wk.victim, "wake")
  /\ wk' = [wk EXCEPT !.victim = 0]
  /\ UNCHANGED <<current_kpid, priority, mode>>

\* sys_kill() of a live process other than the swapper (the loops start at
\* INIT), and the SIGCHLD of sys_exit().
SysKill(k) ==
  /\ InKernel
  /\ k \in Signalled \ {SWAPPER} /\ status[k] \in {"RUNNING", "ASLEEP"}
  /\ Kill(k, "run")
  /\ UNCHANGED <<current_kpid, priority, mode, wk>>
-----------------------------------------------------------------------------
(* Interrupts.                                                             *)

InterruptsOn == /\ kpc = "run"
                /\ current_kpid # IDLE => mode[current_kpid] # "closed"

\* A device interrupt: the handler wakes the sleepers on a.
Irq(a) ==
  /\ InterruptsOn
  /\ kpc' = "wake"
  /\ wk' = [addr |-> a, kind |-> "all", irq |-> TRUE, victim |-> 0]
  /\ UNCHANGED <<current_kpid, sched_touched, rq, priority, status, chain,
                 sleepv, sigpending, mode>>

\* The clock interrupt always ends in scheduler().  An interval timer that
\* expires sends SIGALRM to the process k that set it.
Timer ==
  /\ InterruptsOn
  /\ kpc' = "sched"
  /\ UNCHANGED <<current_kpid, sched_touched, rq, priority, status, chain,
                 sleepv, sigpending, mode, wk>>

TimerAlarm(k) ==
  /\ InterruptsOn
  /\ k \in Signalled \ {SWAPPER} /\ status[k] \in {"RUNNING", "ASLEEP"}
  /\ Kill(k, "sched")
  /\ UNCHANGED <<current_kpid, priority, mode, wk>>
-----------------------------------------------------------------------------
(* Entering and leaving the kernel, process creation and termination.      *)

\* int $0x30, or disable() in the swapper.
EnterKernel ==
  /\ kpc = "run" /\ current_kpid # IDLE
  /\ mode[current_kpid] = "open"
  /\ mode' = [mode EXCEPT ![current_kpid] = "closed"]
  /\ UNCHANGED <<current_kpid, sched_touched, rq, priority, status, chain,
                 sleepv, sigpending, kpc, wk>>

\* sys_call_end: a pending signal is handed to its handler by issig(), then
\* the process reschedules if another one woke up.  (A signal with the
\* default action makes issig() call sys_exit(): that is Exit.)
SysReturn ==
  /\ InKernel /\ current_kpid # SWAPPER
  /\ mode' = [mode EXCEPT ![current_kpid] = "open"]
  /\ sigpending' = [sigpending EXCEPT ![current_kpid] =
                      @ /\ current_kpid \in Masked]
  /\ kpc' = IF sched_touched THEN "sched" ELSE "run"
  /\ UNCHANGED <<current_kpid, sched_touched, rq, priority, status, chain,
                 sleepv, wk>>

\* enable() in the swapper.
SwapperEnable ==
  /\ InKernel /\ current_kpid = SWAPPER
  /\ mode' = [mode EXCEPT ![SWAPPER] = "open"]
  /\ UNCHANGED <<current_kpid, sched_touched, rq, priority, status, chain,
                 sleepv, sigpending, kpc, wk>>

\* startinit(): the swapper creates INIT, on a fixed priority.
StartInit ==
  /\ InKernel /\ current_kpid = SWAPPER
  /\ status[INIT] = "UNUSED"
  /\ status' = [status EXCEPT ![INIT] = "RUNNING"]
  /\ priority' = [priority EXCEPT ![INIT] = InitPriority]
  /\ rq' = NewSchedulable(rq, INIT, InitPriority)
  /\ UNCHANGED <<current_kpid, sched_touched, chain, sleepv, sigpending, mode,
                 kpc, wk>>

\* The scheduler's part of sys_fork().
Fork(k) ==
  /\ InKernel /\ current_kpid # SWAPPER
  /\ k \notin {SWAPPER, INIT} /\ status[k] = "UNUSED"
  /\ status' = [status EXCEPT ![k] = "RUNNING"]
  /\ priority' = [priority EXCEPT ![k] = priority[current_kpid]]
  /\ rq' = NewSchedulable(rq, k, priority[current_kpid])
  /\ sigpending' = [sigpending EXCEPT ![k] = FALSE]
  /\ mode' = [mode EXCEPT ![k] = "open"]
  /\ sched_touched' = TRUE
  /\ UNCHANGED <<current_kpid, chain, sleepv, kpc, wk>>

\* The end of sys_exit(): the process leaves its list and IDLE is "running"
\* when scheduler() is entered.
Exit ==
  /\ InKernel /\ current_kpid \notin {SWAPPER, INIT}
  /\ status' = [status EXCEPT ![current_kpid] = "ZOMBIE"]
  /\ rq' = DeleteSchedulable(rq, current_kpid)
  /\ sched_touched' = TRUE
  /\ current_kpid' = IDLE
  /\ kpc' = "sched"
  /\ UNCHANGED <<priority, chain, sleepv, sigpending, mode, wk>>

\* release_zombie().
ReleaseZombie(k) ==
  /\ InKernel /\ status[k] = "ZOMBIE"
  /\ status' = [status EXCEPT ![k] = "UNUSED"]
  /\ UNCHANGED <<current_kpid, sched_touched, rq, priority, chain, sleepv,
                 sigpending, mode, kpc, wk>>

\* sys_setpriority(): the base priority only; the lists are left alone.
SetPriority(k, p) ==
  /\ InKernel /\ current_kpid # SWAPPER
  /\ k # SWAPPER /\ status[k] # "UNUSED" /\ p \in 1..UserMax
  /\ priority' = [priority EXCEPT ![k] = p]
  /\ sched_touched' = TRUE
  /\ UNCHANGED <<current_kpid, rq, status, chain, sleepv, sigpending, mode,
                 kpc, wk>>
-----------------------------------------------------------------------------
Next ==
  \/ Scheduler \/ Recycle \/ Rescan
  \/ \E a \in Addrs : Sleep(a)
  \/ ResumeSleep
  \/ Yield
  \/ ResumeYield
  \/ \E a \in Addrs, kind \in {"all", "one", "kill"} : Wakeup(a, kind)
  \/ WakeOne \/ WakeEnd \/ KillNext
  \/ \E k \in Procs : SysKill(k)
  \/ \E a \in IrqAddrs : Irq(a)
  \/ Timer
  \/ \E k \in Procs : TimerAlarm(k)
  \/ EnterKernel \/ SysReturn \/ SwapperEnable
  \/ StartInit
  \/ \E k \in Procs : Fork(k)
  \/ Exit
  \/ \E k \in Procs : ReleaseZombie(k)
  \/ \E k \in Procs, p \in 1..UserMax : SetPriority(k, p)

Spec == Init /\ [][Next]_vars

\* The code between two scheduling points terminates; a system call of k
\* ends, sleeps or gives the processor up; a clock interrupt raised while
\* interrupts are off is kept by the 8259 and taken when they are on again.
LeaveKernel(k) ==
  /\ current_kpid = k
  /\ \/ \E a \in Addrs : Sleep(a)
     \/ Yield \/ SysReturn \/ SwapperEnable \/ Exit

Fairness ==
  /\ WF_vars(Scheduler) /\ WF_vars(Recycle) /\ WF_vars(Rescan)
  /\ WF_vars(WakeOne) /\ WF_vars(WakeEnd) /\ WF_vars(KillNext)
  /\ WF_vars(ResumeSleep) /\ WF_vars(ResumeYield)
  /\ \A k \in Procs : SF_vars(LeaveKernel(k))
  /\ SF_vars(Timer)

FairSpec == Spec /\ Fairness
-----------------------------------------------------------------------------
\* Every variable has its type: in particular cpu_usage, an unsigned char, is
\* never decremented below 0 nor raised above MAX_PRIORITY_LEVEL.
TypeOK ==
  /\ current_kpid \in 0..NProc
  /\ sched_touched \in BOOLEAN
  /\ rq \in RunQueues
  /\ priority \in [Procs -> 0..MaxLevel]
  /\ status \in [Procs -> Statuses]
  /\ chain \in [Buckets -> Seq(Procs)]
  /\ sleepv \in [Procs -> Frames]
  /\ sigpending \in [Procs -> BOOLEAN]
  /\ mode \in [Procs -> Modes]
  /\ kpc \in {"run", "sched", "recycle", "wake", "kill", "panic"}
  /\ wk \in Wakes

\* sched_head[], sched_tail[] and the next fields always describe well formed
\* lists of the RUNNING processes, each linked once, on its own level.
ListsLinked == WellLinked(rq, Runnable)

\* Followed from sched_head[], the list of a level is exactly the RUNNING
\* processes of that level: none is lost, no link closes a cycle.
ListsExact == \A l \in Levels : OnList(rq, l) = {k \in Runnable : rq.usage[k] = l}

\* delete_schedulable_process() unlinks the head of a list.  The caller of
\* sleep(), sys_exit() and scheduler() is always there, on a level from which
\* --cpu_usage does not wrap.
CurrentIsHead ==
  current_kpid # IDLE =>
    /\ kpc \in {"run", "wake", "kill"} => status[current_kpid] = "RUNNING"
    /\ status[current_kpid] = "RUNNING" /\ kpc # "recycle" =>
         /\ rq.usage[current_kpid] > 0
         /\ rq.head[rq.usage[current_kpid]] = current_kpid

\* A process is ASLEEP exactly while it is in the sleep_hash[] chain of the
\* address it sleeps on, and it is there once: wakeup_process() finds it.
SleepersChained ==
  /\ \A k \in Procs : Asleep(k) => Linked(k)
  /\ \A b \in Buckets : \A i, j \in DOMAIN chain[b] :
       /\ Asleep(chain[b][i]) /\ Bucket(chain[b][i]) = b
       /\ chain[b][i] = chain[b][j] => i = j

\* The priority a sleeper is woken with is used once: in its own code, in
\* the kernel or in a busy-wait loop a process competes on a user level.
BoostIsOneShot ==
  \A k \in Runnable \ {SWAPPER} :
    mode[k] # "sleep" => rq.usage[k] <= UserMax

\* Whenever the processor goes idle, or goes on idling after an interrupt, no
\* process is runnable: no wakeup is left for the next clock tick to notice.
IdleOnlyIfNothingToRun ==
  [][kpc' = "run" /\ current_kpid' = IDLE => Runnable' = {}]_vars

\* The lists and the quota recycling starve nobody: once processes stop
\* sleeping, waking and changing priority, each RUNNING one keeps getting
\* the processor, whatever levels they are on.
NoStarvation ==
  <>[][status' = status /\ priority' = priority]_vars =>
    \A k \in Procs : []<>(status[k] # "RUNNING" \/ current_kpid = k)

\* The kernel never stops in PANIC(): kill_kpid() is not called on the swapper
\* and wakeup_process() finds its process.  (True as long as no pipe shares a
\* bucket of sleep_hash[] with an address the swapper sleeps on.)
NoPanic == kpc # "panic"

-----------------------------------------------------------------------------
(* What comments and the manual say and the code does not do.              *)

\* wakeup_and_kill() "wakes up all the processes waiting on an address and
\* sends them the specified signal": kill_kpid() is called on the process
\* that was just made ready.
KillsWhomItWakes ==
  [][\A k \in Procs : wk.kind = "kill" /\ Asleep(k) /\ status'[k] = "RUNNING"
                        /\ kpc = "wake" => wk'.victim = k]_vars
=============================================================================
