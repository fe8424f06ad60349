----------------------------- MODULE AlarmClock -----------------------------
(***************************************************************************)
(* What the real interval timers promise (ITIMER_REAL): every process has  *)
(* at most one deadline; at a clock tick the process whose deadline is     *)
(* the earliest is signalled, once, if that deadline has passed.           *)
(***************************************************************************)
EXTENDS Integers

CONSTANTS Procs,
          None     \* no deadline; not a number

VARIABLES now, deadline, period, live

vars == <<now, deadline, period, live>>

Armed == {k \in Procs : deadline[k] # None}
Due(t) == {k \in Armed : deadline[k] <= t}

Init == /\ now = 0
        /\ deadline = [k \in Procs |-> None]
        /\ period = [k \in Procs |-> 0]
        /\ live \in [Procs -> BOOLEAN]

\* A live process sets its timer, or sets it again.
Set(k) == /\ live[k]
          /\ deadline'[k] # None /\ deadline'[k] >= now
          /\ deadline' = [deadline EXCEPT ![k] = deadline'[k]]
          /\ period' = [period EXCEPT ![k] = period'[k]]
          /\ UNCHANGED <<now, live>>

\* A timer goes with its process; a new process has none.
End(k) == /\ live[k]
          /\ live' = [live EXCEPT ![k] = FALSE]
          /\ deadline' = [deadline EXCEPT ![k] = None]
          /\ UNCHANGED <<now, period>>

Begin(k) == /\ ~live[k]
            /\ live' = [live EXCEPT ![k] = TRUE]
            /\ period' = [period EXCEPT ![k] = 0]
            /\ UNCHANGED <<now, deadline>>

Fire(k) == deadline' = [deadline EXCEPT ![k] =
                          IF period[k] = 0 THEN None ELSE now' + period[k]]

Tick == /\ now' = now + 1
        /\ \/ Due(now') = {} /\ UNCHANGED deadline
           \/ \E k \in Due(now') : /\ \A j \in Due(now') : deadline[k] <= deadline[j]
                                   /\ Fire(k)
        /\ UNCHANGED <<period, live>>

Next == Tick \/ \E k \in Procs : Set(k) \/ End(k) \/ Begin(k)

Spec == Init /\ [][Next]_vars
=============================================================================
