------------------------------ MODULE RunLists ------------------------------
(***************************************************************************)
(* The scheduler's run lists (kernel/sched.c): one singly linked list of   *)
(* kernel processes per priority level, kept in three arrays.  Level 0 is  *)
(* the list of the processes that have used up their quota.  A value of    *)
(* `rq` is the whole data structure:                                       *)
(*   head, tail   sched_head[], sched_tail[]  (0 = empty list)             *)
(*   next, usage  sched_data[].next, sched_data[].cpu_usage                *)
(* The operators return the structure after the call; the caller assigns   *)
(* it.  `next` of a process on no list is stale, as it is in the code.     *)
(***************************************************************************)
EXTENDS Integers

CONSTANTS NProc,      \* kernel process ids are 1..NProc; 0 is IDLE and "none"
          MaxLevel    \* MAX_PRIORITY_LEVEL (55)

ASSUME RunListsAssumption == /\ NProc \in Nat \ {0}
                             /\ MaxLevel \in 1..254

IDLE == 0
Procs == 1..NProc
Levels == 0..MaxLevel

RunQueues == [head  : [Levels -> 0..NProc],
              tail  : [Levels -> 0..NProc],
              next  : [Procs -> 0..NProc],
              usage : [Procs -> Levels]]

\* scheduler_data_init(): every array is filled with zeros.
EmptyRunQueues == [head  |-> [l \in Levels |-> 0],
                   tail  |-> [l \in Levels |-> 0],
                   next  |-> [k \in Procs |-> 0],
                   usage |-> [k \in Procs |-> 0]]

\* Mutant: the level is counted from one.
NewSchedulable_OffByOne(r, k, p) ==
  [head  |-> [r.head EXCEPT ![p] = k], tail |-> [r.tail EXCEPT ![p] = k],
   next  |-> r.next, usage |-> [r.usage EXCEPT ![k] = p + 1]]

\* new_schedulable_process(): append k to the list of level p.
NewSchedulable(r, k, p) ==
  LET cleared == [r.next EXCEPT ![k] = 0]
  IN [head  |-> IF r.head[p] # 0 THEN r.head ELSE [r.head EXCEPT ![p] = k],
      tail  |-> [r.tail EXCEPT ![p] = k],
      next  |-> IF r.head[p] # 0 THEN [cleared EXCEPT ![r.tail[p]] = k]
                                 ELSE cleared,
      usage |-> [r.usage EXCEPT ![k] = p]]

\* Mutant: the tail of a list that becomes empty is kept.
DeleteSchedulable_KeepsTail(r, k) ==
  [r EXCEPT !.head[r.usage[k]] = r.next[k]]

\* delete_schedulable_process(): the head of k's list becomes k's successor,
\* whether or not k was the head ("normally 'kpid' is in the head").
DeleteSchedulable(r, k) ==
  LET p == r.usage[k]
  IN [head  |-> [r.head EXCEPT ![p] = r.next[k]],
      tail  |-> IF r.next[k] = 0 THEN [r.tail EXCEPT ![p] = 0] ELSE r.tail,
      next  |-> r.next,
      usage |-> r.usage]

\* Mutant: the process goes to the end of the list.
RestoreSchedulable_AtTail(r, k, p) == NewSchedulable(r, k, p)

\* Mutant: the process stays on the level it was woken with.
RestoreSchedulable_KeepsLevel(r, k, p) ==
  LET q == r.usage[k]
  IN [r EXCEPT !.head[q] = k, !.next[k] = r.head[q],
               !.tail[q] = IF @ = 0 THEN k ELSE @]

\* restore_schedulable_process(): push k in front of the list of level p.
RestoreSchedulable(r, k, p) ==
  [head  |-> [r.head EXCEPT ![p] = k],
   tail  |-> IF r.tail[p] = 0 THEN [r.tail EXCEPT ![p] = k] ELSE r.tail,
   next  |-> [r.next EXCEPT ![k] = r.head[p]],
   usage |-> [r.usage EXCEPT ![k] = p]]

\* Mutant: a process keeps its level.
LowerLevel_Keeps(u) == u

\* --cpu_usage on an unsigned char.
LowerLevel(u) == (u + 255) % 256

-----------------------------------------------------------------------------
(* The lists of r hold exactly the processes of S, each once and at the    *)
(* level its cpu_usage names.  Every conjunct speaks of one link, so that  *)
(* an update of the arrays can be checked without following a list.        *)

HeadsOK(r, S) ==
  \A l \in Levels : \/ r.head[l] = 0 /\ r.tail[l] = 0
                    \/ /\ r.head[l] \in S /\ r.usage[r.head[l]] = l
                       /\ r.tail[l] \in S /\ r.usage[r.tail[l]] = l

LinksOK(r, S) ==
  \A k \in S : \/ r.next[k] = 0 /\ r.tail[r.usage[k]] = k
               \/ /\ r.next[k] \in S
                  /\ r.usage[r.next[k]] = r.usage[k]
                  /\ r.tail[r.usage[k]] # k

OnePredecessor(r, S) ==
  /\ \A j, k \in S : r.next[j] = r.next[k] /\ r.next[j] # 0 => j = k
  /\ \A k \in S : r.next[k] # 0 => r.head[r.usage[k]] # r.next[k]

Reachable(r, S) ==
  \A k \in S : r.head[r.usage[k]] = k \/ \E j \in S : r.next[j] = k

WellLinked(r, S) ==
  HeadsOK(r, S) /\ LinksOK(r, S) /\ OnePredecessor(r, S) /\ Reachable(r, S)

\* The processes met on the list of level l by following next at most NProc
\* times from the head (for the model checker: a list is never a cycle).
Walk(r, l) ==
  LET at[n \in 0..NProc] == IF n = 0 THEN r.head[l]
                            ELSE IF at[n-1] = 0 THEN 0 ELSE r.next[at[n-1]]
  IN at

OnList(r, l) == {Walk(r, l)[n] : n \in 0..NProc} \ {0}
=============================================================================
