------------------------------- MODULE Alarms -------------------------------
(***************************************************************************)
(* Real interval timers (kernel/sched.c): set_alarm(), reset_alarm(), the  *)
(* end of timer(), sys_setitimer(ITIMER_REAL), and what fork and exit do   *)
(* to a timer.  The timers are a linked list threaded through alarms[];    *)
(* `list` is that list with every pointer the code leaves stale:           *)
(*   head     alarms_head (0 = NULL)     next   alarms[].next              *)
(*   time     alarms[].alarm_time                                          *)
(* All of it runs with interrupts disabled, so a step is a whole call.     *)
(***************************************************************************)
EXTENDS Integers, FiniteSets

CONSTANTS NProc,     \* processes are 1..NProc
          Word,      \* ticks and alarm_time count modulo Word (2^32)
          Values,    \* it_value of a request, in ticks (a bound)
          Periods,   \* it_interval of a request, in ticks (a bound)
          RearmHead, \* may a process set its timer again while it is the head
          MaxTicks,  \* bound on the length of a run
          None

ASSUME AlarmsAssumption ==
  /\ NProc \in Nat \ {0} /\ Word \in Nat \ {0} /\ MaxTicks \in Nat
  /\ Values \subseteq Nat /\ Periods \subseteq Nat /\ RearmHead \in BOOLEAN
  /\ None \notin Nat

Procs == 1..NProc

VARIABLES ticks,    \* clock interrupts since boot
          elapsed,  \* the same, not wrapped (bounds the run)
          list,
          interval, \* u_area[].real.it_interval
          status,   \* u_area[].status
          machine   \* "up", "panic", "spin" (an endless loop over the list)

vars == <<ticks, elapsed, list, interval, status, machine>>

Lists == [head : 0..NProc, next : [Procs -> 0..NProc],
          time : [Procs -> 0..(Word - 1)]]

Init == /\ ticks = 0 /\ elapsed = 0
        /\ list = [head |-> 0, next |-> [k \in Procs |-> 0],
                   time |-> [k \in Procs |-> 0]]
        /\ interval = [k \in Procs |-> 0]
        /\ status = [k \in Procs |-> IF k = 1 THEN "RUNNING" ELSE "UNUSED"]
        /\ machine = "up"
-----------------------------------------------------------------------------
(* The list.  Path(l)[i] is the entry met after i links from the head.     *)

Path(l) == LET at[i \in 0..NProc] ==
                 IF i = 0 THEN l.head
                 ELSE IF at[i-1] = 0 THEN 0 ELSE l.next[at[i-1]]
           IN at

Listed(l) == {Path(l)[i] : i \in 0..NProc} \ {0}
Cyclic(l) == Path(l)[NProc] # 0

\* Positions of the entries whose next is k.
Before(l, k) == {i \in 0..NProc : Path(l)[i] # 0 /\ l.next[Path(l)[i]] = k}

\* Mutant: only the head is ever unlinked.
Reset_OnlyHead(l, k) ==
  IF l.head = k THEN [l EXCEPT !.head = l.next[k], !.time[k] = 0] ELSE l

\* reset_alarm(): alarm_time is left alone when the list is empty.
Reset(l, k) ==
  IF l.head = 0 THEN l
  ELSE IF l.head = k THEN [l EXCEPT !.head = l.next[k], !.time[k] = 0]
  ELSE IF Before(l, k) = {} THEN [l EXCEPT !.time[k] = 0]
  ELSE LET i == CHOOSE i \in Before(l, k) : \A j \in Before(l, k) : i <= j
       IN [l EXCEPT !.next[Path(l)[i]] = l.next[k], !.time[k] = 0]

\* It never finds k on a list that has become a cycle.
ResetSpins(l, k) == l.head # k /\ Before(l, k) = {} /\ Cyclic(l)

\* Mutant: the search stops behind the head.
Skipped_None(l, t) == 0

\* How many entries behind the head the search of set_alarm() passes.
Skipped(l, t) ==
  LET passed(n) == \A i \in 1..n : Path(l)[i] # 0 /\ l.time[Path(l)[i]] <= t
  IN CHOOSE n \in 0..NProc : passed(n) /\ (n < NProc => ~passed(n + 1))

\* set_alarm() after its call of reset_alarm(): k is linked with time t.
\* prev0 is alarms_head as it was before that call.
Insert(l, k, t, prev0) ==
  LET timed == [l EXCEPT !.time[k] = t]
      n == Skipped(timed, t)
      ap == IF n < NProc THEN Path(l)[n + 1] ELSE 0
      prev == IF n = 0 THEN prev0 ELSE Path(l)[n]
  IN IF l.head = 0 THEN [timed EXCEPT !.head = k, !.next[k] = 0]
     \* alarms_head = current; current->next = alarms_head->next
     ELSE IF t < l.time[l.head] THEN [timed EXCEPT !.head = k]
     ELSE [timed EXCEPT !.next = [[@ EXCEPT ![k] = ap] EXCEPT ![prev] = k]]

InsertSpins(l, t) ==
  l.head # 0 /\ t >= l.time[l.head] /\ Skipped(l, t) = NProc

AlarmTime(now, v) == (now + v) % Word

SetAlarm(l, now, k, v) == Insert(Reset(l, k), k, AlarmTime(now, v), l.head)

SetSpins(l, now, k, v) ==
  \/ ResetSpins(l, k)
  \/ InsertSpins([Reset(l, k) EXCEPT !.time[k] = AlarmTime(now, v)],
                 AlarmTime(now, v))
-----------------------------------------------------------------------------
\* sys_setitimer(ITIMER_REAL).  The interval is stored before set_alarm().
SetItimer(k, v, p) ==
  /\ machine = "up" /\ status[k] = "RUNNING"
  /\ RearmHead \/ list.head # k
  /\ interval' = [interval EXCEPT ![k] = p]
  /\ \/ /\ ~SetSpins(list, ticks, k, v)
        /\ list' = SetAlarm(list, ticks, k, v)
        /\ UNCHANGED machine
     \/ /\ SetSpins(list, ticks, k, v)
        /\ machine' = "spin"
        /\ UNCHANGED list
  /\ UNCHANGED <<ticks, elapsed, status>>

\* Mutant: an alarm is late by one tick.
Expired_Late(now) == list.head # 0 /\ list.time[list.head] < now

Expired(now) == list.head # 0 /\ list.time[list.head] <= now

\* Mutant: a periodic timer is not set again.
Rearmed_Never(now, k) == Reset(list, k)

\* The timer that expired is removed, and set again when it is periodic.
Rearmed(now, k) ==
  IF interval[k] = 0 THEN Reset(list, k)
  ELSE SetAlarm(Reset(list, k), now, k, interval[k])

\* timer(): one expired timer at most is handled in a tick.
Timer ==
  /\ machine = "up" /\ elapsed < MaxTicks
  /\ ticks' = (ticks + 1) % Word
  /\ elapsed' = elapsed + 1
  /\ \/ ~Expired(ticks') /\ UNCHANGED <<list, machine>>
     \/ /\ Expired(ticks')
        /\ LET k == list.head IN
           \/ /\ status[k] # "RUNNING"          \* __PARANOIA__
              /\ machine' = "panic"
              /\ UNCHANGED list
           \/ /\ status[k] = "RUNNING"
              /\ interval[k] # 0 =>
                   ~SetSpins(Reset(list, k), ticks', k, interval[k])
              /\ list' = Rearmed(ticks', k)
              /\ UNCHANGED machine
           \/ /\ status[k] = "RUNNING" /\ interval[k] # 0
              /\ SetSpins(Reset(list, k), ticks', k, interval[k])
              /\ machine' = "spin"
              /\ UNCHANGED list
  /\ UNCHANGED <<interval, status>>

\* sys_fork(): the child has no interval; its entry of alarms[] is untouched.
Fork(k) ==
  /\ machine = "up" /\ status[k] = "UNUSED"
  /\ status' = [status EXCEPT ![k] = "RUNNING"]
  /\ interval' = [interval EXCEPT ![k] = 0]
  /\ UNCHANGED <<ticks, elapsed, list, machine>>

\* sys_exit(): reset_alarm(current_kpid).
Exit(k) ==
  /\ machine = "up" /\ status[k] = "RUNNING"
  /\ status' = [status EXCEPT ![k] = "ZOMBIE"]
  /\ \/ ~ResetSpins(list, k) /\ list' = Reset(list, k) /\ UNCHANGED machine
     \/ ResetSpins(list, k) /\ machine' = "spin" /\ UNCHANGED list
  /\ UNCHANGED <<ticks, elapsed, interval>>

\* release_zombie().
Release(k) ==
  /\ machine = "up" /\ status[k] = "ZOMBIE"
  /\ status' = [status EXCEPT ![k] = "UNUSED"]
  /\ UNCHANGED <<ticks, elapsed, list, interval, machine>>

Next == \/ Timer
        \/ \E k \in Procs, v \in Values, p \in Periods : SetItimer(k, v, p)
        \/ \E k \in Procs : Fork(k) \/ Exit(k) \/ Release(k)

Spec == Init /\ [][Next]_vars
-----------------------------------------------------------------------------
\* Every variable has its type; alarm_time is an unsigned number of ticks.
TypeOK == /\ ticks \in 0..(Word - 1) /\ elapsed \in 0..MaxTicks
          /\ list \in Lists
          /\ interval \in [Procs -> Nat]
          /\ status \in [Procs -> {"RUNNING", "ZOMBIE", "UNUSED"}]
          /\ machine \in {"up", "panic", "spin"}

\* The list ends, and its alarm times never decrease along it.
ListSorted ==
  /\ ~Cyclic(list)
  /\ \A k \in Listed(list) :
       list.next[k] # 0 => list.time[k] <= list.time[list.next[k]]

\* No tick finds the timer of a dead process, no call loops over the list.
NeverStops == machine = "up"

\* alarms_head and the next fields are a sorted list that ends, of live processes,
\* whatever is set, reset, expires, ends or is born (kernel/sched.c).
ListSound == TypeOK /\ ListSorted /\ NeverStops

\* Only one timer is handled in a tick, so timers can be late; but the last of
\* those that expire together is handled NProc - 1 ticks later.
NeverLate == \A k \in Listed(list) : ticks < list.time[k] + NProc - 1

\* The list behaves as a set of deadlines: a timer on it leaves it only by
\* expiring, by being set again or with its process, and they expire in order.
Promise == INSTANCE AlarmClock WITH
  now <- ticks, period <- interval,
  live <- [k \in Procs |-> status[k] = "RUNNING"],
  deadline <- [k \in Procs |-> IF k \in Listed(list) THEN list.time[k] ELSE None]

ImplementsClock == Promise!Spec

\* What the manual says: the timers form "linked lists of sorted interval
\* timers, so that the next to expire timer is always in the head of its
\* list" (a timer is running, for sys_getitimer() too, when its alarm_time
\* is still to come).
NextToExpireIsHead ==
  machine = "up" =>
    \A k \in Procs : status[k] = "RUNNING" /\ list.time[k] > ticks =>
      list.head # 0 /\ list.time[list.head] <= list.time[k]
=============================================================================
