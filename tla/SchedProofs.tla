----------------------------- MODULE SchedProofs -----------------------------
(***************************************************************************)
(* The safety of Sched for any number of processes, levels, addresses and  *)
(* buckets: an inductive invariant and the theorems it gives.              *)
(***************************************************************************)
EXTENDS Sched, TLAPS

(***************************************************************************)
(* What the operations on the run lists preserve, for any number of        *)
(* processes and levels.  S is the set of processes linked before the call. *)
(***************************************************************************)
(* The operations, array by array: n is r after the call.                  *)

Appended(r, k, p, n) ==
  /\ \A l \in Levels :
       /\ n.head[l] = IF l = p /\ r.head[p] = 0 THEN k ELSE r.head[l]
       /\ n.tail[l] = IF l = p THEN k ELSE r.tail[l]
  /\ \A j \in Procs :
       /\ n.usage[j] = IF j = k THEN p ELSE r.usage[j]
       /\ n.next[j] = IF r.head[p] # 0 /\ j = r.tail[p] THEN k
                      ELSE IF j = k THEN 0 ELSE r.next[j]

Unlinked(r, k, n) ==
  /\ n.usage = r.usage /\ n.next = r.next
  /\ \A l \in Levels :
       /\ n.head[l] = IF l = r.usage[k] THEN r.next[k] ELSE r.head[l]
       /\ n.tail[l] = IF l = r.usage[k] /\ r.next[k] = 0 THEN 0 ELSE r.tail[l]

Pushed(r, k, p, n) ==
  /\ \A l \in Levels :
       /\ n.head[l] = IF l = p THEN k ELSE r.head[l]
       /\ n.tail[l] = IF l = p /\ r.tail[p] = 0 THEN k ELSE r.tail[l]
  /\ \A j \in Procs :
       /\ n.usage[j] = IF j = k THEN p ELSE r.usage[j]
       /\ n.next[j] = IF j = k THEN r.head[p] ELSE r.next[j]

\* An update of a function at any argument keeps its domain and range.
LEMMA ExceptType ==
  ASSUME NEW D, NEW R, NEW f \in [D -> R], NEW x, NEW v \in R
  PROVE  [f EXCEPT ![x] = v] \in [D -> R]
OBVIOUS

\* 0 is no process, and the fields of the run lists are functions.
LEMMA Fields ==
  /\ 0 \notin Procs /\ Procs \subseteq 0..NProc /\ 0 \in 0..NProc
  /\ \A r \in RunQueues :
       /\ r.head \in [Levels -> 0..NProc] /\ r.tail \in [Levels -> 0..NProc]
       /\ r.next \in [Procs -> 0..NProc] /\ r.usage \in [Procs -> Levels]
BY RunListsAssumption DEF RunQueues, Procs

\* new_schedulable_process(), array by array.
LEMMA NewPoints ==
  ASSUME NEW r \in RunQueues, NEW k \in Procs, NEW p \in Levels
  PROVE  /\ NewSchedulable(r, k, p) \in RunQueues
         /\ NewSchedulable(r, k, p).usage = [r.usage EXCEPT ![k] = p]
         /\ Appended(r, k, p, NewSchedulable(r, k, p))
<1> DEFINE cleared == [r.next EXCEPT ![k] = 0]
           linked == [cleared EXCEPT ![r.tail[p]] = k]
           n == NewSchedulable(r, k, p)
<1>1. /\ n.head = IF r.head[p] # 0 THEN r.head ELSE [r.head EXCEPT ![p] = k]
      /\ n.tail = [r.tail EXCEPT ![p] = k]
      /\ n.next = IF r.head[p] # 0 THEN linked ELSE cleared
      /\ n.usage = [r.usage EXCEPT ![k] = p]
      /\ n = [head |-> n.head, tail |-> n.tail, next |-> n.next,
              usage |-> n.usage]
  BY DEF NewSchedulable
<1>2. cleared \in [Procs -> 0..NProc] /\ linked \in [Procs -> 0..NProc]
  BY Fields, ExceptType
<1>3. /\ n.head \in [Levels -> 0..NProc] /\ n.tail \in [Levels -> 0..NProc]
      /\ n.usage \in [Procs -> Levels]
  BY <1>1, Fields, ExceptType
<1>4. n \in RunQueues
  BY <1>1, <1>2, <1>3 DEF RunQueues
<1>5. \A j \in Procs :
        n.next[j] = IF r.head[p] # 0 /\ j = r.tail[p] THEN k
                    ELSE IF j = k THEN 0 ELSE r.next[j]
  BY <1>1, <1>2, Fields
<1>6. QED
  BY <1>1, <1>4, <1>5, Fields DEF Appended

\* delete_schedulable_process(), array by array.
LEMMA DeletePoints ==
  ASSUME NEW r \in RunQueues, NEW k \in Procs
  PROVE  /\ DeleteSchedulable(r, k) \in RunQueues
         /\ DeleteSchedulable(r, k).usage = r.usage
         /\ Unlinked(r, k, DeleteSchedulable(r, k))
<1> DEFINE p == r.usage[k]
           n == DeleteSchedulable(r, k)
<1>1. /\ n.head = [r.head EXCEPT ![p] = r.next[k]]
      /\ n.tail = IF r.next[k] = 0 THEN [r.tail EXCEPT ![p] = 0] ELSE r.tail
      /\ n.next = r.next /\ n.usage = r.usage
      /\ n = [head |-> n.head, tail |-> n.tail, next |-> n.next,
              usage |-> n.usage]
  BY DEF DeleteSchedulable
<1>2. p \in Levels /\ r.next[k] \in 0..NProc
  BY Fields
<1>3. n.head \in [Levels -> 0..NProc] /\ n.tail \in [Levels -> 0..NProc]
  BY <1>1, <1>2, Fields, ExceptType
<1>4. n \in RunQueues
  BY <1>1, <1>3, Fields DEF RunQueues
<1>5. QED
  BY <1>1, <1>2, <1>4, Fields DEF Unlinked

\* restore_schedulable_process(), array by array.
LEMMA RestorePoints ==
  ASSUME NEW r \in RunQueues, NEW k \in Procs, NEW p \in Levels
  PROVE  /\ RestoreSchedulable(r, k, p) \in RunQueues
         /\ RestoreSchedulable(r, k, p).usage = [r.usage EXCEPT ![k] = p]
         /\ Pushed(r, k, p, RestoreSchedulable(r, k, p))
<1> DEFINE n == RestoreSchedulable(r, k, p)
<1>1. /\ n.head = [r.head EXCEPT ![p] = k]
      /\ n.tail = IF r.tail[p] = 0 THEN [r.tail EXCEPT ![p] = k] ELSE r.tail
      /\ n.next = [r.next EXCEPT ![k] = r.head[p]]
      /\ n.usage = [r.usage EXCEPT ![k] = p]
      /\ n = [head |-> n.head, tail |-> n.tail, next |-> n.next,
              usage |-> n.usage]
  BY DEF RestoreSchedulable
<1>2. r.head[p] \in 0..NProc
  BY Fields
<1>3. /\ n.head \in [Levels -> 0..NProc] /\ n.tail \in [Levels -> 0..NProc]
      /\ n.next \in [Procs -> 0..NProc] /\ n.usage \in [Procs -> Levels]
  BY <1>1, <1>2, Fields, ExceptType
<1>4. n \in RunQueues
  BY <1>1, <1>3 DEF RunQueues
<1>5. QED
  BY <1>1, <1>2, <1>4, Fields DEF Pushed

\* Appending a process that is on no list keeps the lists well linked.
LEMMA NewLinked ==
  ASSUME NEW r \in RunQueues, NEW S \in SUBSET Procs,
         NEW k \in Procs, k \notin S, NEW p \in Levels,
         WellLinked(r, S)
  PROVE  WellLinked(NewSchedulable(r, k, p), S \union {k})
<1> DEFINE n == NewSchedulable(r, k, p)
           T == S \union {k}
<1>0. /\ k \in Procs /\ 0 \notin Procs /\ S \subseteq Procs /\ T \subseteq Procs
      /\ r.usage \in [Procs -> Levels]
  BY Fields
<1>p. Appended(r, k, p, n)
  BY <1>0, NewPoints
<1>w. HeadsOK(r, S) /\ LinksOK(r, S) /\ OnePredecessor(r, S) /\ Reachable(r, S)
  BY DEF WellLinked
<1> HIDE DEF n
<1>1. HeadsOK(n, T)
  BY <1>0, <1>p, <1>w DEF HeadsOK, LinksOK, OnePredecessor, Reachable, Appended
<1>2. LinksOK(n, T)
  BY <1>0, <1>p, <1>w DEF HeadsOK, LinksOK, OnePredecessor, Reachable, Appended
<1>3. OnePredecessor(n, T)
  BY <1>0, <1>p, <1>w DEF HeadsOK, LinksOK, OnePredecessor, Appended
<1>4. Reachable(n, T)
  <2>1. n.head[n.usage[k]] = k \/ \E i \in T : n.next[i] = k
    BY <1>0, <1>p, <1>w DEF HeadsOK, Appended
  <2>2. ASSUME NEW j \in S
        PROVE  n.head[n.usage[j]] = j \/ \E i \in T : n.next[i] = j
    <3>1. CASE r.head[r.usage[j]] = j
      BY <1>0, <1>p, <2>2, <3>1 DEF Appended
    <3>2. ASSUME NEW i \in S, r.next[i] = j  PROVE n.next[i] = j
      BY <1>0, <1>p, <1>w, <2>2, <3>2 DEF HeadsOK, LinksOK, Appended
    <3>3. QED
      BY <1>w, <2>2, <3>1, <3>2 DEF Reachable
  <2>3. QED
    BY <2>1, <2>2 DEF Reachable
<1>5. QED
  BY <1>1, <1>2, <1>3, <1>4 DEF WellLinked, n

\* Deleting the head of a list unlinks that process and no other.
LEMMA DeleteLinked ==
  ASSUME NEW r \in RunQueues, NEW S \in SUBSET Procs, NEW k \in S,
         r.head[r.usage[k]] = k,
         WellLinked(r, S)
  PROVE  WellLinked(DeleteSchedulable(r, k), S \ {k})
<1> DEFINE n == DeleteSchedulable(r, k)
           T == S \ {k}
<1>0. /\ k \in Procs /\ 0 \notin Procs /\ S \subseteq Procs /\ T \subseteq Procs
      /\ r.usage \in [Procs -> Levels]
  BY Fields
<1>p. Unlinked(r, k, n)
  BY <1>0, DeletePoints
<1>w. HeadsOK(r, S) /\ LinksOK(r, S) /\ OnePredecessor(r, S) /\ Reachable(r, S)
  BY DEF WellLinked
<1> HIDE DEF n
<1>1. HeadsOK(n, T)
  BY <1>0, <1>p, <1>w DEF HeadsOK, LinksOK, OnePredecessor, Reachable, Unlinked
<1>2. LinksOK(n, T)
  BY <1>0, <1>p, <1>w DEF HeadsOK, LinksOK, OnePredecessor, Reachable, Unlinked
<1>3. OnePredecessor(n, T)
  BY <1>0, <1>p, <1>w DEF HeadsOK, LinksOK, OnePredecessor, Unlinked
<1>4. Reachable(n, T)
  BY <1>0, <1>p, <1>w DEF HeadsOK, LinksOK, OnePredecessor, Reachable, Unlinked
<1>5. QED
  BY <1>1, <1>2, <1>3, <1>4 DEF WellLinked, n

\* Pushing a process that is on no list keeps the lists well linked.
LEMMA RestoreLinked ==
  ASSUME NEW r \in RunQueues, NEW S \in SUBSET Procs,
         NEW k \in Procs, k \notin S, NEW p \in Levels,
         WellLinked(r, S)
  PROVE  WellLinked(RestoreSchedulable(r, k, p), S \union {k})
<1> DEFINE n == RestoreSchedulable(r, k, p)
           T == S \union {k}
<1>0. /\ k \in Procs /\ 0 \notin Procs /\ S \subseteq Procs /\ T \subseteq Procs
      /\ r.usage \in [Procs -> Levels]
  BY Fields
<1>p. Pushed(r, k, p, n)
  BY <1>0, RestorePoints
<1>w. HeadsOK(r, S) /\ LinksOK(r, S) /\ OnePredecessor(r, S) /\ Reachable(r, S)
  BY DEF WellLinked
<1> HIDE DEF n
<1>1. HeadsOK(n, T)
  BY <1>0, <1>p, <1>w DEF HeadsOK, LinksOK, OnePredecessor, Reachable, Pushed
<1>2. LinksOK(n, T)
  BY <1>0, <1>p, <1>w DEF HeadsOK, LinksOK, OnePredecessor, Reachable, Pushed
<1>3. OnePredecessor(n, T)
  BY <1>0, <1>p, <1>w DEF HeadsOK, LinksOK, OnePredecessor, Pushed
<1>4. Reachable(n, T)
  <2>1. n.head[n.usage[k]] = k
    BY <1>0, <1>p DEF Pushed
  <2>2. ASSUME NEW j \in S
        PROVE  n.head[n.usage[j]] = j \/ \E i \in T : n.next[i] = j
    <3>1. CASE r.head[r.usage[j]] = j
      BY <1>0, <1>p, <2>2, <3>1 DEF Pushed
    <3>2. ASSUME NEW i \in S, r.next[i] = j  PROVE n.next[i] = j
      BY <1>0, <1>p, <1>w, <2>2, <3>2 DEF Pushed
    <3>3. QED
      BY <1>w, <2>2, <3>1, <3>2 DEF Reachable
  <2>3. QED
    BY <2>1, <2>2 DEF Reachable
<1>5. QED
  BY <1>1, <1>2, <1>3, <1>4 DEF WellLinked, n

-----------------------------------------------------------------------------
\* Some numbering of the processes grows along every link: following next
\* from a process never comes back to it.
Acyclic(r, S) ==
  \E f \in [Procs -> Int] : \A k \in S : r.next[k] # 0 => f[k] < f[r.next[k]]

\* A process appended to a list is numbered after the tail.
LEMMA NewAcyclic ==
  ASSUME NEW r \in RunQueues, NEW S \in SUBSET Procs,
         NEW k \in Procs, k \notin S, NEW p \in Levels,
         WellLinked(r, S), Acyclic(r, S)
  PROVE  Acyclic(NewSchedulable(r, k, p), S \union {k})
<1> DEFINE n == NewSchedulable(r, k, p)
           t == r.tail[p]
<1>0. 0 \notin Procs /\ r.usage \in [Procs -> Levels]
  BY Fields
<1>p. Appended(r, k, p, n)
  BY NewPoints
<1>w. HeadsOK(r, S) /\ LinksOK(r, S)
  BY DEF WellLinked
<1>1. PICK f \in [Procs -> Int] : \A j \in S : r.next[j] # 0 => f[j] < f[r.next[j]]
  BY DEF Acyclic
<1> DEFINE g == [f EXCEPT ![k] = IF t \in S THEN f[t] + 1 ELSE 0]
<1>2. g \in [Procs -> Int] /\ \A j \in S : g[j] = f[j]
  BY <1>1
<1>3. t \in S => g[k] = f[t] + 1
  BY <1>1
<1> HIDE DEF n, g
<1>4. ASSUME NEW j \in S, n.next[j] # 0  PROVE g[j] < g[n.next[j]]
  <2>1. CASE r.head[p] # 0 /\ j = t
    BY <1>0, <1>p, <1>1, <1>2, <1>3, <2>1 DEF Appended
  <2>2. CASE ~(r.head[p] # 0 /\ j = t)
    <3>1. n.next[j] = r.next[j] /\ r.next[j] \in S
      BY <1>0, <1>p, <1>w, <1>4, <2>2 DEF Appended, LinksOK
    <3>2. QED
      BY <1>1, <1>2, <1>4, <3>1
  <2>3. QED
    BY <2>1, <2>2
<1>5. n.next[k] = 0
  BY <1>0, <1>p, <1>w DEF Appended, HeadsOK
<1>6. QED
  BY <1>2, <1>4, <1>5 DEF Acyclic, n

\* A process pushed on a list is numbered before the head.
LEMMA RestoreAcyclic ==
  ASSUME NEW r \in RunQueues, NEW S \in SUBSET Procs,
         NEW k \in Procs, k \notin S, NEW p \in Levels,
         WellLinked(r, S), Acyclic(r, S)
  PROVE  Acyclic(RestoreSchedulable(r, k, p), S \union {k})
<1> DEFINE n == RestoreSchedulable(r, k, p)
           h == r.head[p]
<1>0. 0 \notin Procs /\ r.usage \in [Procs -> Levels]
  BY Fields
<1>p. Pushed(r, k, p, n)
  BY RestorePoints
<1>w. HeadsOK(r, S) /\ LinksOK(r, S)
  BY DEF WellLinked
<1>1. PICK f \in [Procs -> Int] : \A j \in S : r.next[j] # 0 => f[j] < f[r.next[j]]
  BY DEF Acyclic
<1> DEFINE g == [f EXCEPT ![k] = IF h \in S THEN f[h] - 1 ELSE 0]
<1>2. g \in [Procs -> Int] /\ \A j \in S : g[j] = f[j]
  BY <1>1
<1>3. h \in S => g[k] = f[h] - 1
  BY <1>1
<1> HIDE DEF n, g
<1>4. ASSUME NEW j \in S, n.next[j] # 0  PROVE g[j] < g[n.next[j]]
  <2>1. n.next[j] = r.next[j] /\ r.next[j] \in S
    BY <1>0, <1>p, <1>w, <1>4 DEF Pushed, LinksOK
  <2>2. QED
    BY <1>1, <1>2, <1>4, <2>1
<1>5. n.next[k] # 0 => g[k] < g[n.next[k]]
  <2>1. n.next[k] # 0 => h \in S /\ n.next[k] = h
    BY <1>0, <1>p, <1>w DEF Pushed, HeadsOK
  <2>2. h \in S => f[h] \in Int /\ g[h] = f[h]
    BY <1>1, <1>2
  <2>3. QED BY ONLY <1>3, <2>1, <2>2
<1>6. QED
  BY <1>2, <1>4, <1>5 DEF Acyclic, n

\* Deleting keeps every link, and the numbering with it.
LEMMA DeleteAcyclic ==
  ASSUME NEW r \in RunQueues, NEW S \in SUBSET Procs, NEW k \in Procs,
         Acyclic(r, S)
  PROVE  Acyclic(DeleteSchedulable(r, k), S \ {k})
BY DeletePoints DEF Unlinked, Acyclic

(***************************************************************************)
(* The inductive invariant of Sched.                                       *)
(***************************************************************************)

\* The run lists r hold the processes of S.
Lists(r, S) == r \in RunQueues /\ WellLinked(r, S) /\ Acyclic(r, S)

\* A sleeper is inside the reschedule() of sleep(), whose frame holds the
\* level to go back to and an address.
FramesOK ==
  \A k \in Procs : /\ Asleep(k) => mode[k] = "sleep"
                   /\ mode[k] = "sleep" => /\ sleepv[k].old > 0
                                           /\ sleepv[k].addr \in Addrs

\* Every level an ordinary process can come back to is a user level.
UserLevels ==
  \A k \in Procs \ {SWAPPER} :
    /\ priority[k] <= UserMax
    /\ mode[k] = "sleep" => sleepv[k].old <= UserMax

WakeOK == kpc \in {"wake", "kill"} => wk.addr \in Addrs

\* sys_exit() is not "running" any more when scheduler() is entered.
CurrentAlive ==
  current_kpid # IDLE => status[current_kpid] \in {"RUNNING", "ASLEEP"}

IInv == /\ TypeOK
        /\ Lists(rq, Runnable)
        /\ CurrentIsHead
        /\ SleepersChained
        /\ FramesOK
        /\ UserLevels
        /\ BoostIsOneShot
        /\ WakeOK
        /\ CurrentAlive

-----------------------------------------------------------------------------
\* The list operations on whole lists.
LEMMA NewLists ==
  ASSUME NEW r, NEW S \in SUBSET Procs, NEW k \in Procs, k \notin S,
         NEW p \in Levels, Lists(r, S)
  PROVE  /\ Lists(NewSchedulable(r, k, p), S \union {k})
         /\ NewSchedulable(r, k, p).usage = [r.usage EXCEPT ![k] = p]
<1>1. r \in RunQueues /\ WellLinked(r, S) /\ Acyclic(r, S)
  BY DEF Lists
<1> DEFINE n == NewSchedulable(r, k, p)
<1>2. n \in RunQueues /\ n.usage = [r.usage EXCEPT ![k] = p]
  BY <1>1, NewPoints
<1>3. WellLinked(n, S \union {k})
  BY <1>1, NewLinked
<1>4. Acyclic(n, S \union {k})
  BY <1>1, NewAcyclic
<1>5. QED
  BY <1>2, <1>3, <1>4 DEF Lists

LEMMA NewKeepsHead ==
  ASSUME NEW r, NEW S \in SUBSET Procs, NEW k \in Procs, NEW p \in Levels,
         Lists(r, S), NEW l \in Levels, r.head[l] # 0
  PROVE  NewSchedulable(r, k, p).head[l] = r.head[l]
<1>1. Appended(r, k, p, NewSchedulable(r, k, p))
  BY NewPoints DEF Lists
<1>2. QED
  BY <1>1 DEF Appended

LEMMA DeleteLists ==
  ASSUME NEW r, NEW S \in SUBSET Procs, NEW k \in S, Lists(r, S),
         r.head[r.usage[k]] = k
  PROVE  /\ Lists(DeleteSchedulable(r, k), S \ {k})
         /\ DeleteSchedulable(r, k).usage = r.usage
<1>1. k \in Procs
  OBVIOUS
<1>2. QED
  BY <1>1, DeletePoints, DeleteLinked, DeleteAcyclic DEF Lists

LEMMA RestoreLists ==
  ASSUME NEW r, NEW S \in SUBSET Procs, NEW k \in Procs, k \notin S,
         NEW p \in Levels, Lists(r, S)
  PROVE  /\ Lists(RestoreSchedulable(r, k, p), S \union {k})
         /\ RestoreSchedulable(r, k, p).usage = [r.usage EXCEPT ![k] = p]
         /\ RestoreSchedulable(r, k, p).head[p] = k
BY RestorePoints, RestoreLinked, RestoreAcyclic DEF Lists, Pushed

\* A process requeued from the head of its list onto any level.
LEMMA RequeueLists ==
  ASSUME NEW r, NEW S \in SUBSET Procs, NEW k \in S, Lists(r, S),
         r.head[r.usage[k]] = k, NEW p \in Levels
  PROVE  /\ Lists(NewSchedulable(DeleteSchedulable(r, k), k, p), S)
         /\ NewSchedulable(DeleteSchedulable(r, k), k, p).usage =
              [r.usage EXCEPT ![k] = p]
<1> DEFINE d == DeleteSchedulable(r, k)
           T == S \ {k}
<1>0. T \union {k} = S
  OBVIOUS
<1>1. k \in Procs /\ k \notin T /\ T \in SUBSET Procs
  OBVIOUS
<1>2. Lists(d, T) /\ d.usage = r.usage
  BY DeleteLists
<1> HIDE DEF d, T
<1>3. /\ Lists(NewSchedulable(d, k, p), T \union {k})
      /\ NewSchedulable(d, k, p).usage = [d.usage EXCEPT ![k] = p]
  BY <1>1, <1>2, NewLists
<1>4. Lists(NewSchedulable(d, k, p), S)
  BY <1>0, <1>3, Zenon
<1>5. NewSchedulable(d, k, p).usage = [r.usage EXCEPT ![k] = p]
  BY <1>2, <1>3, Zenon
<1>6. QED
  BY <1>4, <1>5 DEF d

\* The head of a non-empty list is one of its processes.
LEMMA HeadOfList ==
  ASSUME NEW r, NEW S \in SUBSET Procs, Lists(r, S),
         NEW l \in Levels, r.head[l] # 0
  PROVE  r.head[l] \in S /\ r.usage[r.head[l]] = l
BY DEF Lists, WellLinked, HeadsOK

\* RemoveAt() of the community modules, element by element.
LEMMA RemoveAtPoints ==
  ASSUME NEW T, NEW s \in Seq(T), NEW i \in DOMAIN s
  PROVE  /\ RemoveAt(s, i) \in Seq(T)
         /\ Len(RemoveAt(s, i)) = Len(s) - 1
         /\ \A j \in 1..(Len(s) - 1) :
              RemoveAt(s, i)[j] = IF j < i THEN s[j] ELSE s[j + 1]
<1>1. i \in 1..Len(s) /\ Len(s) \in Nat
  OBVIOUS
<1>2. /\ SubSeq(s, 1, i - 1) \in Seq(T) /\ Len(SubSeq(s, 1, i - 1)) = i - 1
      /\ \A j \in 1..(i - 1) : SubSeq(s, 1, i - 1)[j] = s[j]
  BY <1>1
<1>3. /\ SubSeq(s, i + 1, Len(s)) \in Seq(T)
      /\ Len(SubSeq(s, i + 1, Len(s))) = Len(s) - i
      /\ \A j \in 1..(Len(s) - i) : SubSeq(s, i + 1, Len(s))[j] = s[i + j]
  BY <1>1
<1> DEFINE a == SubSeq(s, 1, i - 1)
           b == SubSeq(s, i + 1, Len(s))
<1>4. RemoveAt(s, i) = a \o b
  BY DEF RemoveAt
<1> HIDE DEF a, b
<1>5. /\ a \in Seq(T) /\ Len(a) = i - 1 /\ \A j \in 1..(i - 1) : a[j] = s[j]
      /\ b \in Seq(T) /\ Len(b) = Len(s) - i
      /\ \A j \in 1..(Len(s) - i) : b[j] = s[i + j]
  BY <1>2, <1>3 DEF a, b
<1>6. /\ a \o b \in Seq(T) /\ Len(a \o b) = Len(s) - 1
  BY <1>1, <1>5
<1>7. ASSUME NEW j \in 1..(Len(s) - 1)
      PROVE  (a \o b)[j] = IF j < i THEN s[j] ELSE s[j + 1]
  <2>0. j < i \/ j >= i
    BY <1>1
  <2>1. CASE j < i
    BY <1>1, <1>5, <2>1
  <2>2. CASE j >= i
    <3>1. (a \o b)[j] = b[j - (i - 1)]
      BY <1>1, <1>5, <2>2
    <3>2. j - (i - 1) \in 1..(Len(s) - i)
      BY <1>1, <2>2
    <3>3. b[j - (i - 1)] = s[i + (j - (i - 1))]
      BY <1>5, <3>2
    <3>4. i + (j - (i - 1)) = j + 1
      BY <1>1
    <3>5. ~(j < i) /\ (a \o b)[j] = s[j + 1]
      BY ONLY <3>1, <3>3, <3>4, <2>2, <1>1
    <3>6. QED
      BY ONLY <3>5
  <2>3. QED
    BY <2>0, <2>1, <2>2
<1>8. QED
  BY <1>4, <1>6, <1>7

\* t is s without its element i: the same elements, and no new duplicate.
Removed(s, i, t) ==
  /\ \A n \in DOMAIN s : n # i => \E m \in DOMAIN t : t[m] = s[n]
  /\ \A m \in DOMAIN t : \E n \in DOMAIN s : n # i /\ t[m] = s[n]
  /\ (\A x, y \in DOMAIN s : s[x] = s[y] => x = y)
       => \A x, y \in DOMAIN t : t[x] = t[y] => x = y

LEMMA RemoveAtRemoves ==
  ASSUME NEW T, NEW s \in Seq(T), NEW i \in DOMAIN s
  PROVE  RemoveAt(s, i) \in Seq(T) /\ Removed(s, i, RemoveAt(s, i))
<1> DEFINE t == RemoveAt(s, i)
<1>1. t \in Seq(T) /\ Len(t) = Len(s) - 1
  BY RemoveAtPoints
<1>2. \A j \in 1..(Len(s) - 1) : t[j] = IF j < i THEN s[j] ELSE s[j + 1]
  BY RemoveAtPoints
<1>3. /\ Len(s) \in Nat /\ i \in 1..Len(s)
      /\ DOMAIN s = 1..Len(s) /\ DOMAIN t = 1..(Len(s) - 1)
  BY <1>1
<1> HIDE DEF t
<1>4. ASSUME NEW n \in DOMAIN s, n # i  PROVE \E m \in DOMAIN t : t[m] = s[n]
  <2>1. CASE n < i
    BY <1>2, <1>3, <2>1
  <2>2. CASE n > i
    <3>1. n - 1 \in DOMAIN t /\ ~(n - 1 < i) /\ (n - 1) + 1 = n
      BY <1>3, <2>2
    <3>2. t[n - 1] = s[n]
      BY <1>2, <1>3, <3>1
    <3>3. QED
      BY <3>1, <3>2
  <2>3. QED
    BY <1>3, <1>4, <2>1, <2>2
<1>5. ASSUME NEW m \in DOMAIN t
      PROVE  \E n \in DOMAIN s : /\ n # i /\ t[m] = s[n]
                                 /\ n = IF m < i THEN m ELSE m + 1
  BY <1>2, <1>3
<1>6. ASSUME \A x, y \in DOMAIN s : s[x] = s[y] => x = y,
             NEW x \in DOMAIN t, NEW y \in DOMAIN t, t[x] = t[y]
      PROVE  x = y
  <2>1. PICK u \in DOMAIN s : t[x] = s[u] /\ u = IF x < i THEN x ELSE x + 1
    BY <1>5
  <2>2. PICK v \in DOMAIN s : t[y] = s[v] /\ v = IF y < i THEN y ELSE y + 1
    BY <1>5
  <2>3. u = v
    BY <1>6, <2>1, <2>2
  <2>4. QED
    BY <1>3, <2>1, <2>2, <2>3
<1>7. QED
  BY <1>1, <1>4, <1>5, <1>6 DEF Removed, t

\* t is s with k in front.
Prepended(s, k, t) ==
  /\ \E m \in DOMAIN t : t[m] = k
  /\ \A n \in DOMAIN s : \E m \in DOMAIN t : t[m] = s[n]
  /\ \A m \in DOMAIN t : t[m] = k \/ \E n \in DOMAIN s : t[m] = s[n]
  /\ (/\ \A n \in DOMAIN s : s[n] # k
      /\ \A x, y \in DOMAIN s : s[x] = s[y] => x = y)
       => \A x, y \in DOMAIN t : t[x] = t[y] => x = y

LEMMA PrependPrepends ==
  ASSUME NEW T, NEW s \in Seq(T), NEW k \in T
  PROVE  <<k>> \o s \in Seq(T) /\ Prepended(s, k, <<k>> \o s)
<1> DEFINE t == <<k>> \o s
<1>1. t \in Seq(T) /\ Len(t) = Len(s) + 1
  OBVIOUS
<1>2. t[1] = k /\ \A n \in 1..Len(s) : t[n + 1] = s[n]
  OBVIOUS
<1>3. /\ Len(s) \in Nat /\ DOMAIN s = 1..Len(s) /\ DOMAIN t = 1..(Len(s) + 1)
  BY <1>1
<1> HIDE DEF t
<1>4. \E m \in DOMAIN t : t[m] = k
  <2>1. 1 \in DOMAIN t
    BY <1>3
  <2>2. QED
    BY <1>2, <2>1
<1>5. ASSUME NEW n \in DOMAIN s  PROVE \E m \in DOMAIN t : t[m] = s[n]
  <2>1. n + 1 \in DOMAIN t /\ t[n + 1] = s[n]
    BY <1>2, <1>3
  <2>2. QED
    BY <2>1
<1>6. ASSUME NEW m \in DOMAIN t, m # 1  PROVE m - 1 \in DOMAIN s /\ t[m] = s[m - 1]
  <2>1. m - 1 \in 1..Len(s) /\ (m - 1) + 1 = m
    BY <1>3, <1>6
  <2>2. t[(m - 1) + 1] = s[m - 1]
    BY <1>2, <2>1
  <2>3. QED
    BY <1>3, <2>1, <2>2
<1>7. ASSUME NEW m \in DOMAIN t  PROVE t[m] = k \/ \E n \in DOMAIN s : t[m] = s[n]
  <2>1. CASE m = 1
    BY <1>2, <2>1
  <2>2. CASE m # 1
    BY <1>6, <2>2
  <2>3. QED
    BY <2>1, <2>2
<1>8. ASSUME \A n \in DOMAIN s : s[n] # k,
             \A x, y \in DOMAIN s : s[x] = s[y] => x = y,
             NEW x \in DOMAIN t, NEW y \in DOMAIN t, t[x] = t[y]
      PROVE  x = y
  <2>1. CASE x = 1 \/ y = 1
    BY <1>2, <1>6, <1>8, <2>1
  <2>2. CASE x # 1 /\ y # 1
    <3>1. x - 1 = y - 1
      BY <1>6, <1>8, <2>2
    <3>2. QED
      BY <1>3, <3>1
  <2>3. QED
    BY <2>1, <2>2
<1>9. QED
  BY <1>1, <1>4, <1>5, <1>7, <1>8 DEF Prepended, t

-----------------------------------------------------------------------------
\* The constants, without the arithmetic of the assumption.
LEMMA Constants ==
  /\ SWAPPER \in Procs /\ INIT \in Procs /\ SWAPPER # INIT /\ IDLE \notin Procs
  /\ UThreshold \in Levels /\ InitPriority \in Levels /\ InitPriority <= UserMax
  /\ UserMax \in Nat /\ 1..UserMax \subseteq Levels
  /\ \A a \in Addrs : WaitLevel[a] \in Levels /\ Hash[a] \in Buckets
  /\ Levels \subseteq Nat /\ 0 \in Levels /\ MaxLevel \in Levels
  /\ 1..MaxLevel \subseteq Levels
  /\ \A u \in Levels : u > 0 => LowerLevel(u) \in Levels /\ LowerLevel(u) < u
BY RunListsAssumption, SchedAssumption
DEF SWAPPER, INIT, IDLE, Procs, Levels, LowerLevel

\* wakeup_process() and the wakeup loops: a sleeper becomes RUNNING on the
\* level of its address.
LEMMA ReadyInv ==
  ASSUME IInv, NEW k \in Procs, Asleep(k), NEW bysig \in BOOLEAN,
         Ready(k, bysig)
  PROVE  /\ Lists(rq', Runnable')
         /\ status' \in [Procs -> Statuses] /\ sleepv' \in [Procs -> Frames]
         /\ status' = [status EXCEPT ![k] = "RUNNING"]
         /\ \A j \in Procs : sleepv'[j].addr = sleepv[j].addr
                             /\ sleepv'[j].old = sleepv[j].old
         /\ \A j \in Procs : j # k => rq'.usage[j] = rq.usage[j]
         /\ \A l \in Levels : rq.head[l] # 0 => rq'.head[l] = rq.head[l]
<1> DEFINE p == WaitLevel[sleepv[k].addr]
<1>1. /\ status' = [status EXCEPT ![k] = "RUNNING"]
      /\ rq' = NewSchedulable(rq, k, p)
      /\ sleepv' = [sleepv EXCEPT ![k].bysig = bysig]
  BY DEF Ready
<1>2. /\ status \in [Procs -> Statuses] /\ sleepv \in [Procs -> Frames]
      /\ Lists(rq, Runnable) /\ rq \in RunQueues /\ Runnable \in SUBSET Procs
  BY DEF IInv, TypeOK, Runnable
<1>3. p \in Levels
  BY Constants DEF IInv, FramesOK
<1>4. k \notin Runnable
  BY DEF Asleep, Runnable
<1>5. Runnable' = Runnable \union {k}
  BY <1>1, <1>2 DEF Runnable
<1> HIDE DEF p
<1>6. Lists(NewSchedulable(rq, k, p), Runnable \union {k})
  BY <1>2, <1>3, <1>4, NewLists
<1>7. Lists(rq', Runnable')
  BY <1>1, <1>5, <1>6, Zenon
<1>8. /\ status' \in [Procs -> Statuses] /\ sleepv' \in [Procs -> Frames]
      /\ \A j \in Procs : sleepv'[j].addr = sleepv[j].addr
                          /\ sleepv'[j].old = sleepv[j].old
  BY <1>1, <1>2 DEF Statuses, Frames
<1>9. Appended(rq, k, p, rq')
  BY <1>1, <1>2, <1>3, NewPoints
<1>10. QED
  BY <1>1, <1>7, <1>8, <1>9 DEF Appended

\* A process taken out of its chain and made RUNNING: the others stay where
\* they are.
LEMMA UnchainInv ==
  ASSUME IInv, NEW b \in Buckets, NEW i \in DOMAIN chain[b],
         NEW k \in Procs, k = chain[b][i],
         chain' = [chain EXCEPT ![b] = RemoveAt(@, i)],
         status' = [status EXCEPT ![k] = "RUNNING"],
         \A j \in Procs : sleepv'[j].addr = sleepv[j].addr
  PROVE  SleepersChained' /\ chain' \in [Buckets -> Seq(Procs)]
<1>1. /\ chain \in [Buckets -> Seq(Procs)] /\ status \in [Procs -> Statuses]
      /\ SleepersChained
  BY DEF IInv, TypeOK
<1>2. chain[b] \in Seq(Procs)
  BY <1>1
<1>3. /\ RemoveAt(chain[b], i) \in Seq(Procs)
      /\ Removed(chain[b], i, RemoveAt(chain[b], i))
  BY <1>2, RemoveAtRemoves
<1>4. /\ chain' \in [Buckets -> Seq(Procs)]
      /\ Removed(chain[b], i, chain'[b])
      /\ \A c \in Buckets : c # b => chain'[c] = chain[c]
  BY <1>1, <1>3
<1>5. \A j \in Procs : /\ Bucket(j)' = Bucket(j)
                        /\ Asleep(j)' <=> (Asleep(j) /\ j # k)
  BY <1>1 DEF Bucket, Asleep
<1>6. ASSUME NEW j \in Procs, Asleep(j)'  PROVE Linked(j)'
  <2>1. Asleep(j) /\ j # k /\ Bucket(j) \in Buckets
    BY <1>5, <1>6, Constants DEF IInv, FramesOK, Bucket
  <2>0. Linked(j)
    BY <1>1, <2>1 DEF SleepersChained
  <2>2. PICK n \in DOMAIN chain[Bucket(j)] : chain[Bucket(j)][n] = j
    BY <2>0 DEF Linked
  <2>3. \E m \in DOMAIN chain'[Bucket(j)] : chain'[Bucket(j)][m] = j
    <3>1. CASE Bucket(j) # b
      BY <1>4, <2>1, <2>2, <3>1
    <3>2. CASE Bucket(j) = b
      <4>1. n # i /\ n \in DOMAIN chain[b] /\ chain[b][n] = j
        BY <2>1, <2>2, <3>2
      <4>2. QED
        BY <1>4, <3>2, <4>1 DEF Removed
    <3>3. QED
      BY <3>1, <3>2
  <2>4. Bucket(j)' = Bucket(j)
    BY DEF Bucket
  <2>5. QED
    BY <2>3, <2>4 DEF Linked
<1>7. ASSUME NEW c \in Buckets, NEW m \in DOMAIN chain'[c]
      PROVE  /\ status'[chain'[c][m]] = "ASLEEP"
             /\ Hash[sleepv'[chain'[c][m]].addr] = c
  <2>1. PICK n \in DOMAIN chain[c] : chain'[c][m] = chain[c][n] /\ (c = b => n # i)
    <3>1. CASE c # b
      BY <1>4, <3>1
    <3>2. CASE c = b
      BY <1>4, <3>2 DEF Removed
    <3>3. QED
      BY <3>1, <3>2
  <2>2. /\ Asleep(chain[c][n]) /\ Bucket(chain[c][n]) = c
        /\ chain[c][n] # k
    BY <1>1, <2>1 DEF SleepersChained
  <2>3. chain[c][n] \in Procs
    BY <1>1
  <2>4. QED
    BY <1>5, <2>1, <2>2, <2>3 DEF Asleep, Bucket
<1>8. ASSUME NEW c \in Buckets, NEW m \in DOMAIN chain'[c],
             NEW n \in DOMAIN chain'[c], chain'[c][m] = chain'[c][n]
      PROVE  m = n
  BY <1>1, <1>4, <1>8 DEF SleepersChained, Removed
<1>9. SleepersChained'
  <2>1. \A j \in Procs : Asleep(j)' => Linked(j)'
    BY <1>6
  <2>2. \A c \in Buckets : \A m, n \in DOMAIN chain'[c] :
          /\ status'[chain'[c][m]] = "ASLEEP"
          /\ Hash[sleepv'[chain'[c][m]].addr] = c
          /\ chain'[c][m] = chain'[c][n] => m = n
    BY <1>7, <1>8
  <2>3. QED
    BY <2>1, <2>2 DEF SleepersChained, Asleep, Bucket
<1>10. QED
  BY <1>4, <1>9

-----------------------------------------------------------------------------
\* What waking a process, or none, does to the lists and chains: processes
\* leave their chains for the tail of a list, nothing else moves.
Woken ==
  /\ Lists(rq', Runnable') /\ SleepersChained'
  /\ status' \in [Procs -> Statuses] /\ sleepv' \in [Procs -> Frames]
  /\ chain' \in [Buckets -> Seq(Procs)]
  /\ \A j \in Procs :
       /\ sleepv'[j].addr = sleepv[j].addr /\ sleepv'[j].old = sleepv[j].old
       /\ status[j] = "RUNNING" =>
            status'[j] = "RUNNING" /\ rq'.usage[j] = rq.usage[j]
       /\ status'[j] = "ASLEEP" => status[j] = "ASLEEP"
       /\ status'[j] = "RUNNING" /\ status[j] # "RUNNING" => mode[j] = "sleep"
  /\ \A l \in Levels : rq.head[l] # 0 => rq'.head[l] = rq.head[l]

LEMMA WokenNobody ==
  ASSUME IInv, UNCHANGED <<rq, status, chain, sleepv>>
  PROVE  Woken
<1>1. Runnable' = Runnable
  BY DEF Runnable
<1>2. Lists(rq', Runnable')
  BY <1>1, Zenon DEF IInv
<1>3. SleepersChained'
  BY DEF IInv, SleepersChained, Asleep, Linked, Bucket
<1>4. QED
  BY <1>2, <1>3 DEF Woken, IInv, TypeOK

LEMMA WokenOne ==
  ASSUME IInv, NEW b \in Buckets, NEW i \in DOMAIN chain[b],
         NEW k \in Procs, k = chain[b][i], NEW bysig \in BOOLEAN,
         Ready(k, bysig), chain' = [chain EXCEPT ![b] = RemoveAt(@, i)]
  PROVE  Woken
<1>1. Asleep(k)
  BY DEF IInv, SleepersChained
<1>2. /\ Lists(rq', Runnable')
      /\ status' \in [Procs -> Statuses] /\ sleepv' \in [Procs -> Frames]
      /\ status' = [status EXCEPT ![k] = "RUNNING"]
      /\ \A j \in Procs : sleepv'[j].addr = sleepv[j].addr
                          /\ sleepv'[j].old = sleepv[j].old
      /\ \A j \in Procs : j # k => rq'.usage[j] = rq.usage[j]
      /\ \A l \in Levels : rq.head[l] # 0 => rq'.head[l] = rq.head[l]
  BY <1>1, ReadyInv
<1>3. SleepersChained' /\ chain' \in [Buckets -> Seq(Procs)]
  BY <1>2, UnchainInv
<1>4. mode[k] = "sleep" /\ status[k] = "ASLEEP"
  BY <1>1 DEF IInv, FramesOK, Asleep
<1>5. status \in [Procs -> Statuses]
  BY DEF IInv, TypeOK
<1>6. QED
  BY <1>2, <1>3, <1>4, <1>5 DEF Woken

\* The running process is not disturbed by a wakeup.
LEMMA WokenCurrent ==
  ASSUME IInv, Woken, kpc \in {"run", "wake", "kill"},
         UNCHANGED current_kpid
  PROVE  CurrentIsHead' /\ CurrentAlive'
<1>1. CASE current_kpid = IDLE
  BY <1>1 DEF CurrentIsHead, CurrentAlive
<1>2. CASE current_kpid # IDLE
  <2>1. current_kpid \in Procs
    BY <1>2, RunListsAssumption DEF IInv, TypeOK, Procs, IDLE
  <2>2. /\ status[current_kpid] = "RUNNING" /\ rq.usage[current_kpid] > 0
        /\ rq.head[rq.usage[current_kpid]] = current_kpid
    BY <1>2 DEF IInv, CurrentIsHead
  <2>3. rq.usage[current_kpid] \in Levels
    BY <2>1, Fields DEF IInv, Lists
  <2>4. /\ status'[current_kpid] = "RUNNING"
        /\ rq'.usage[current_kpid] = rq.usage[current_kpid]
        /\ rq'.head[rq.usage[current_kpid]] = current_kpid
    BY <2>1, <2>2, <2>3, <1>2 DEF Woken, IDLE
  <2>5. QED
    BY <2>2, <2>4 DEF CurrentIsHead, CurrentAlive
<1>3. QED
  BY <1>1, <1>2

\* Neither are the frames and levels.
LEMMA WokenFrames ==
  ASSUME IInv, Woken, UNCHANGED <<priority, mode>>
  PROVE  FramesOK' /\ UserLevels' /\ BoostIsOneShot'
<1>1. FramesOK'
  BY DEF IInv, Woken, FramesOK, Asleep
<1>2. UserLevels'
  BY DEF IInv, Woken, UserLevels
<1>3. ASSUME NEW k \in Procs \ {SWAPPER}, status'[k] = "RUNNING", mode[k] # "sleep"
      PROVE  rq'.usage[k] <= UserMax
  BY <1>3 DEF IInv, Woken, BoostIsOneShot, Runnable
<1>4. BoostIsOneShot'
  BY <1>3 DEF BoostIsOneShot, Runnable
<1>5. QED
  BY <1>1, <1>2, <1>4

\* kill_kpid() wakes at most its argument, or panics.
LEMMA KillWakes ==
  ASSUME IInv, NEW k \in 0..NProc, NEW then, Kill(k, then)
  PROVE  /\ Woken /\ kpc' \in {then, "panic"}
         /\ sched_touched' \in BOOLEAN /\ sigpending' \in [Procs -> BOOLEAN]
<1>0. /\ sched_touched \in BOOLEAN /\ sigpending \in [Procs -> BOOLEAN]
      /\ chain \in [Buckets -> Seq(Procs)]
  BY DEF IInv, TypeOK
<1>1. CASE UNCHANGED <<sched_touched, rq, status, chain, sleepv>>
  BY <1>0, <1>1, WokenNobody DEF Kill, Ready
<1>2. CASE /\ k \in Procs \ {SWAPPER} /\ MustWake(k) /\ Linked(k)
           /\ Ready(k, TRUE)
           /\ \E i \in DOMAIN chain[Bucket(k)] :
                /\ chain[Bucket(k)][i] = k
                /\ chain' = [chain EXCEPT ![Bucket(k)] = RemoveAt(@, i)]
           /\ kpc' = then
           /\ sigpending' = [sigpending EXCEPT ![k] = TRUE]
  <2>1. Bucket(k) \in Buckets
    BY <1>2, Constants DEF IInv, FramesOK, MustWake, Bucket
  <2>2. Woken
    BY <1>2, <2>1, WokenOne
  <2>3. QED
    BY <1>0, <1>2, <2>2 DEF Ready
<1>3. QED
  BY <1>1, <1>2 DEF Kill

-----------------------------------------------------------------------------
LEMMA InitInv == Init => IInv
<1> SUFFICES ASSUME Init  PROVE IInv
  OBVIOUS
<1> USE DEF Init
<1>1. Lists(EmptyRunQueues, {})
  <2>1. EmptyRunQueues \in RunQueues
    BY Constants, RunListsAssumption DEF EmptyRunQueues, RunQueues, Procs
  <2>2. WellLinked(EmptyRunQueues, {})
    BY DEF EmptyRunQueues, WellLinked, HeadsOK, LinksOK, OnePredecessor, Reachable
  <2>3. Acyclic(EmptyRunQueues, {})
    <3>1. [j \in Procs |-> 0] \in [Procs -> Int]
      OBVIOUS
    <3>2. QED
      BY <3>1 DEF Acyclic
  <2>4. QED
    BY <2>1, <2>2, <2>3 DEF Lists
<1>2. Runnable = {SWAPPER}
  BY Constants DEF Runnable
<1> DEFINE none == {}
<1>3. none \union {SWAPPER} = {SWAPPER} /\ none \in SUBSET Procs /\ SWAPPER \notin none
  OBVIOUS
<1>a. Lists(EmptyRunQueues, none)
  BY <1>1
<1>b. rq = NewSchedulable(EmptyRunQueues, SWAPPER, UThreshold)
  OBVIOUS
<1> HIDE DEF none, Init
<1>4. /\ Lists(rq, none \union {SWAPPER})
      /\ rq.usage = [EmptyRunQueues.usage EXCEPT ![SWAPPER] = UThreshold]
  BY <1>3, <1>a, <1>b, Constants, NewLists
<1> USE DEF Init
<1>5. Lists(rq, Runnable)
  BY <1>2, <1>3, <1>4, Zenon
<1>6. TypeOK
  <2>1. rq \in RunQueues
    BY <1>5 DEF Lists
  <2>2. NoFrame \in Frames /\ NoWake \in Wakes
    BY Constants, RunListsAssumption DEF NoFrame, Frames, NoWake, Wakes
  <2>3. chain \in [Buckets -> Seq(Procs)]
    OBVIOUS
  <2>4. MaxLevel \in Nat /\ UThreshold \in 0..MaxLevel
    BY Constants DEF Levels
  <2>5. QED
    BY <2>1, <2>2, <2>3, <2>4, RunListsAssumption
    DEF TypeOK, Statuses, Modes, IDLE
<1>7. SleepersChained
  <2>1. \A b \in Buckets : chain[b] = <<>> /\ DOMAIN chain[b] = {}
    OBVIOUS
  <2>2. \A k \in Procs : ~Asleep(k)
    BY DEF Asleep
  <2>3. QED
    BY <2>1, <2>2 DEF SleepersChained
<1>8. CurrentIsHead /\ FramesOK /\ WakeOK /\ CurrentAlive
  BY DEF CurrentIsHead, FramesOK, WakeOK, Asleep, CurrentAlive
<1>9. UserLevels /\ BoostIsOneShot
  BY <1>2, Constants DEF UserLevels, BoostIsOneShot
<1>10. QED
  BY <1>5, <1>6, <1>7, <1>8, <1>9 DEF IInv

-----------------------------------------------------------------------------
\* The steps in which no process enters or leaves a list or a chain.
LEMMA CalmInv ==
  ASSUME IInv,
         \/ Yield \/ ResumeYield \/ EnterKernel \/ SysReturn \/ SwapperEnable
         \/ \E a \in Addrs, kind \in {"all", "one", "kill"} : Wakeup(a, kind)
         \/ WakeEnd \/ Timer \/ \E a \in IrqAddrs : Irq(a)
         \/ \E k \in Procs, p \in 1..UserMax : SetPriority(k, p)
  PROVE  IInv'
<1> USE DEF Yield, ResumeYield, EnterKernel, SysReturn, SwapperEnable, Wakeup,
            WakeEnd, Timer, Irq, SetPriority, InKernel, InterruptsOn, AfterWake
<1>1. UNCHANGED <<rq, status, chain, sleepv, current_kpid>> /\ kpc \in {"run", "wake"}
  OBVIOUS
<1>2. Woken
  BY <1>1, WokenNobody
<1>3. CurrentIsHead' /\ CurrentAlive'
  BY <1>1, <1>2, WokenCurrent
<1>4. current_kpid # IDLE => current_kpid \in Procs /\ status[current_kpid] = "RUNNING"
  BY <1>1, RunListsAssumption DEF IInv, TypeOK, CurrentIsHead, Procs, IDLE
<1>5. TypeOK'
  <2>1. /\ sched_touched' \in BOOLEAN /\ sigpending' \in [Procs -> BOOLEAN]
        /\ mode' \in [Procs -> Modes]
    BY DEF IInv, TypeOK, Modes
  <2>2. priority' \in [Procs -> 0..MaxLevel]
    BY Constants DEF IInv, TypeOK, Levels
  <2>3. /\ kpc' \in {"run", "sched", "recycle", "wake", "kill", "panic"}
        /\ wk' \in Wakes
    <3>1. wk \in Wakes /\ 0 \in 0..NProc /\ NoWake \in Wakes /\ IrqAddrs \subseteq Addrs
      BY RunListsAssumption, SchedAssumption DEF IInv, TypeOK, NoWake, Wakes
    <3>2. QED
      <4>1. CASE UNCHANGED wk \/ wk' = NoWake
        BY <3>1, <1>1, <4>1 DEF IInv, TypeOK
      <4>2. CASE \E a \in Addrs, kind \in {"all", "one", "kill"} : Wakeup(a, kind)
        BY <3>1, <4>2 DEF Wakes
      <4>3. CASE \E a \in IrqAddrs : Irq(a)
        BY <3>1, <4>3 DEF Wakes
      <4>4. QED
        BY <4>1, <4>2, <4>3
  <2>4. QED
    BY <1>1, <2>1, <2>2, <2>3 DEF IInv, TypeOK
<1>6. \A k \in Procs : mode'[k] = "sleep" <=> mode[k] = "sleep"
  BY <1>1, <1>4 DEF IInv, TypeOK
<1>7. FramesOK'
  BY <1>1, <1>6 DEF IInv, TypeOK, FramesOK, Asleep
<1>8. UserLevels'
  <2>1. SUFFICES ASSUME NEW j \in Procs \ {SWAPPER}
                 PROVE  priority'[j] <= UserMax /\ (mode'[j] = "sleep" => sleepv'[j].old <= UserMax)
    BY DEF UserLevels
  <2>2. priority \in [Procs -> 0..MaxLevel] /\ priority[j] <= UserMax /\ (mode[j] = "sleep" => sleepv[j].old <= UserMax)
    BY DEF IInv, TypeOK, UserLevels
  <2>3. \/ priority' = priority
        \/ \E k \in Procs, p \in 1..UserMax : priority' = [priority EXCEPT ![k] = p]
    OBVIOUS
  <2>4. UserMax \in Int
    BY Constants
  <2>5. priority'[j] <= UserMax
    BY ONLY <2>2, <2>3, <2>4
  <2>6. QED
    BY <1>1, <1>6, <2>2, <2>5
<1>b. BoostIsOneShot'
  BY <1>1, <1>6 DEF IInv, BoostIsOneShot, Runnable
<1>9. WakeOK'
  BY SchedAssumption DEF IInv, WakeOK
<1>10. QED
  BY <1>2, <1>3, <1>5, <1>7, <1>8, <1>b, <1>9 DEF IInv, Woken

\* The steps that wake at most one process: the wakeup loops and kill_kpid().
LEMMA WakeInv ==
  ASSUME IInv,
         \/ WakeOne \/ KillNext \/ \E k \in Procs : SysKill(k)
         \/ \E k \in Procs : TimerAlarm(k)
  PROVE  IInv'
<1> USE DEF InKernel, InterruptsOn
<1>1. /\ Woken /\ sched_touched' \in BOOLEAN /\ sigpending' \in [Procs -> BOOLEAN]
      /\ kpc \in {"run", "wake", "kill"}
      /\ kpc' \in {"run", "sched", "wake", "kill", "panic"} /\ wk' \in Wakes
      /\ kpc' \in {"wake", "kill"} => wk'.addr \in Addrs
      /\ UNCHANGED <<current_kpid, priority, mode>>
  <2>0. wk \in Wakes /\ 0 \in 0..NProc /\ NoWake \in Wakes /\ Procs \subseteq 0..NProc
    BY RunListsAssumption DEF IInv, TypeOK, NoWake, Wakes, Procs
  <2>1. CASE WakeOne
    <3>1. wk.addr \in Addrs /\ Hash[wk.addr] \in Buckets
      BY <2>1, Constants DEF IInv, WakeOK, WakeOne
    <3> DEFINE b == Hash[wk.addr]
    <3>2. PICK i \in Matches :
            /\ Ready(chain[b][i], FALSE)
            /\ chain' = [chain EXCEPT ![b] = RemoveAt(chain[b], i)]
            /\ \/ wk.kind = "all" /\ UNCHANGED <<kpc, wk>>
               \/ wk.kind = "one" /\ kpc' = AfterWake(TRUE) /\ wk' = NoWake
               \/ /\ wk.kind = "kill" /\ kpc' = "kill"
                  /\ wk' = [wk EXCEPT !.victim =
                              IF i <= Len(RemoveAt(chain[b], i))
                              THEN RemoveAt(chain[b], i)[i] ELSE IDLE]
      BY <2>1 DEF WakeOne
    <3>3. /\ i \in DOMAIN chain[b] /\ chain[b] \in Seq(Procs) /\ b \in Buckets
      BY <3>1 DEF Matches, IInv, TypeOK
    <3>4. chain[b][i] \in Procs
      BY <3>3
    <3>5. Woken
      BY <3>2, <3>3, <3>4, WokenOne
    <3>6. /\ RemoveAt(chain[b], i) \in Seq(Procs)
          /\ i \in Nat \ {0}
      BY <3>3, RemoveAtPoints
    <3> HIDE DEF b
    <3>7. /\ wk' \in Wakes
          /\ kpc' \in {"run", "sched", "wake", "kill"}
          /\ kpc' \in {"wake", "kill"} => wk'.addr \in Addrs
      <4>1. CASE wk.kind = "all" /\ UNCHANGED <<kpc, wk>>
        BY <2>0, <2>1, <3>1, <4>1 DEF Wakes, WakeOne
      <4>2. CASE wk.kind = "one" /\ kpc' = AfterWake(TRUE) /\ wk' = NoWake
        BY <2>0, <4>2 DEF Wakes, AfterWake
      <4>3. CASE /\ wk.kind = "kill" /\ kpc' = "kill"
                 /\ wk' = [wk EXCEPT !.victim =
                             IF i <= Len(RemoveAt(chain[b], i))
                             THEN RemoveAt(chain[b], i)[i] ELSE IDLE]
        <5>1. (IF i <= Len(RemoveAt(chain[b], i))
               THEN RemoveAt(chain[b], i)[i] ELSE IDLE) \in 0..NProc
          <6>1. \A t \in Seq(Procs) : i <= Len(t) => t[i] \in Procs
            BY <3>6
          <6>2. QED
            BY <2>0, <3>6, <6>1 DEF IDLE
        <5>2. QED
          BY <2>0, <3>1, <4>3, <5>1 DEF Wakes
      <4>4. QED
        BY <3>2, <4>1, <4>2, <4>3
    <3>8. /\ sched_touched' = TRUE /\ kpc = "wake"
          /\ UNCHANGED <<current_kpid, priority, mode, sigpending>>
      BY <2>1, <3>2 DEF WakeOne, Ready
    <3>9. sigpending' \in [Procs -> BOOLEAN] /\ sched_touched' \in BOOLEAN
      BY <3>8 DEF IInv, TypeOK
    <3>10. QED
      BY <3>5, <3>7, <3>8, <3>9
  <2>2. CASE KillNext
    <3>1. wk.victim \in 0..NProc /\ wk.addr \in Addrs
      BY <2>0, <2>2 DEF Wakes, KillNext, IInv, WakeOK
    <3>2. /\ Woken /\ kpc' \in {"wake", "panic"}
          /\ sched_touched' \in BOOLEAN /\ sigpending' \in [Procs -> BOOLEAN]
      BY <2>2, <3>1, KillWakes DEF KillNext
    <3>3. wk' \in Wakes /\ wk'.addr = wk.addr
      BY <2>0, <2>2 DEF KillNext, Wakes
    <3>4. QED
      BY <2>2, <3>1, <3>2, <3>3 DEF KillNext
  <2>3. CASE \E k \in Procs : SysKill(k)
    BY <2>0, <2>3, KillWakes DEF SysKill
  <2>4. CASE \E k \in Procs : TimerAlarm(k)
    BY <2>0, <2>4, KillWakes DEF TimerAlarm
  <2>5. QED
    BY <2>1, <2>2, <2>3, <2>4
<1>2. CurrentIsHead' /\ CurrentAlive' /\ FramesOK' /\ UserLevels' /\ BoostIsOneShot'
  BY <1>1, WokenCurrent, WokenFrames
<1>3. TypeOK'
  BY <1>1 DEF IInv, TypeOK, Woken, Lists
<1>4. QED
  BY <1>1, <1>2, <1>3 DEF IInv, Woken, WakeOK

-----------------------------------------------------------------------------
\* scheduler(): a dispatched process is the head of a list of level 1 or more.
LEMMA PickedIsHead ==
  ASSUME NEW r, NEW S \in SUBSET Procs, Lists(r, S),
         NEW first \in Levels, PickFrom(r, first)
  PROVE  /\ current_kpid' \in S /\ kpc' = "run"
         /\ r.usage[current_kpid'] > 0
         /\ r.head[r.usage[current_kpid']] = current_kpid'
<1>1. PICK p \in 1..first : r.head[p] # 0 /\ Dispatch(r.head[p])
  BY DEF PickFrom
<1>2. p \in Levels /\ p > 0
  BY Constants DEF Levels
<1>3. r.head[p] \in S /\ r.usage[r.head[p]] = p
  BY <1>1, <1>2, HeadOfList
<1>4. QED
  BY <1>1, <1>2, <1>3 DEF Dispatch

LEMMA SchedulerInv == ASSUME IInv, Scheduler  PROVE IInv'
<1>0. /\ UNCHANGED <<priority, status, chain, sleepv, sigpending, mode, wk>>
      /\ kpc = "sched" /\ sched_touched' = FALSE /\ rq' = Requeued
  BY DEF Scheduler
<1>1. Lists(rq, Runnable) /\ Runnable \in SUBSET Procs
  BY DEF IInv, Runnable
<1>a. Runnable' = Runnable
  BY <1>0 DEF Runnable
<1>u. rq.usage \in [Procs -> Levels] /\ \A k \in Procs : rq.usage[k] \in Nat
  <2>1. rq.usage \in [Procs -> Levels]
    BY <1>1, Fields DEF Lists
  <2>2. QED
    BY <2>1, Constants
<1>2. /\ Lists(Requeued, Runnable) /\ FirstLevel \in Levels
      /\ \A k \in Procs : Requeued.usage[k] <= rq.usage[k]
  <2>1. CASE current_kpid = IDLE
    <3>1. Requeued = rq /\ FirstLevel = MaxLevel
      BY <2>1 DEF Requeued, FirstLevel
    <3>2. \A k \in Procs : rq.usage[k] <= rq.usage[k]
      BY <1>u
    <3>3. QED
      BY <1>1, <3>1, <3>2, Constants
  <2>2. CASE current_kpid # IDLE
    <3>1. current_kpid \in Procs
      BY <2>2, RunListsAssumption DEF IInv, TypeOK, Procs, IDLE
    <3>2. /\ rq.usage \in [Procs -> Levels] /\ FirstLevel \in Levels
          /\ \A k \in Procs : rq.usage[k] <= rq.usage[k]
      BY <1>u, <2>2, <3>1, Constants DEF FirstLevel
    <3>3. CASE Asleep(current_kpid)
      BY <1>1, <2>2, <3>2, <3>3 DEF Requeued
    <3>4. CASE ~Asleep(current_kpid)
      <4> DEFINE k == current_kpid
                 p == LowerLevel(rq.usage[k])
      <4>1. k \in Runnable /\ rq.usage[k] > 0 /\ rq.head[rq.usage[k]] = k
        BY <1>0, <2>2, <3>1, <3>4
        DEF IInv, CurrentAlive, CurrentIsHead, Asleep, Runnable
      <4>2. p \in Levels /\ p < rq.usage[k]
        BY <3>1, <3>2, <4>1, Constants
      <4>3. Requeued = NewSchedulable(DeleteSchedulable(rq, k), k, p)
        BY <2>2, <3>4 DEF Requeued
      <4> HIDE DEF p, k
      <4>4. /\ Lists(Requeued, Runnable)
            /\ Requeued.usage = [rq.usage EXCEPT ![k] = p]
        BY <1>1, <4>1, <4>2, <4>3, RequeueLists
      <4>5. \A j \in Procs : Requeued.usage[j] <= rq.usage[j]
        <5>1. \A j \in Procs : Requeued.usage[j] = IF j = k THEN p ELSE rq.usage[j]
          BY <3>2, <4>4
        <5>2. p \in Nat /\ rq.usage[k] \in Nat
          BY <3>1, <3>2, <4>2, Constants DEF k
        <5>3. QED
          BY <3>2, <4>2, <5>1, <5>2
      <4>6. QED
        BY <3>2, <4>4, <4>5
    <3>5. QED
      BY <3>3, <3>4
  <2>3. QED
    BY <2>1, <2>2
<1>3. Lists(rq', Runnable')
  BY <1>0, <1>2, <1>a, Zenon
<1>6. /\ CurrentIsHead' /\ CurrentAlive'
      /\ kpc' \in {"run", "recycle"} /\ current_kpid' \in 0..NProc
  <2>1. CASE PickFrom(Requeued, FirstLevel)
    <3>1. /\ current_kpid' \in Runnable /\ kpc' = "run"
          /\ Requeued.usage[current_kpid'] > 0
          /\ Requeued.head[Requeued.usage[current_kpid']] = current_kpid'
      BY <1>1, <1>2, <2>1, PickedIsHead
    <3>2. status'[current_kpid'] = "RUNNING" /\ current_kpid' \in 0..NProc
      BY <1>0, <3>1, Fields DEF Runnable
    <3>3. QED
      BY <1>0, <3>1, <3>2 DEF CurrentIsHead, CurrentAlive
  <2>2. CASE kpc' = "recycle" /\ UNCHANGED current_kpid
    BY <1>0, <2>2 DEF CurrentIsHead, CurrentAlive, IInv, TypeOK
  <2>3. QED
    BY <2>1, <2>2 DEF Scheduler
<1>7. TypeOK'
  BY <1>0, <1>3, <1>6 DEF IInv, TypeOK, Lists
<1>8. SleepersChained' /\ FramesOK' /\ UserLevels' /\ WakeOK'
  BY <1>0, <1>6 DEF IInv, SleepersChained, FramesOK, UserLevels, WakeOK,
                    Asleep, Linked, Bucket
<1>9. BoostIsOneShot'
  <2>1. ASSUME NEW k \in Runnable \ {SWAPPER}, mode[k] # "sleep"
        PROVE  rq'.usage[k] <= UserMax
    <3>1. k \in Procs /\ rq.usage[k] <= UserMax /\ Requeued.usage[k] <= rq.usage[k]
      BY <1>2, <2>1 DEF IInv, BoostIsOneShot, Runnable
    <3>2. rq.usage[k] \in Nat /\ Requeued.usage[k] \in Nat /\ UserMax \in Nat
      BY <1>1, <1>2, <3>1, Constants, Fields DEF Lists
    <3>3. QED
      BY <1>0, <3>1, <3>2
  <2>2. QED
    BY <1>0, <1>a, <2>1 DEF BoostIsOneShot
<1>10. QED
  BY <1>3, <1>6, <1>7, <1>8, <1>9 DEF IInv

\* One turn of the loop that recycles the processes of level 0.
LEMMA RecycleInv == ASSUME IInv, Recycle  PROVE IInv'
<1> DEFINE k == rq.head[0]
           p == priority[k]
<1>0. /\ UNCHANGED <<current_kpid, sched_touched, priority, status, chain,
                     sleepv, sigpending, mode, kpc, wk>>
      /\ kpc = "recycle" /\ k # 0
      /\ rq' = NewSchedulable(DeleteSchedulable(rq, k), k, p)
  BY DEF Recycle
<1>1. Lists(rq, Runnable) /\ Runnable \in SUBSET Procs
  BY DEF IInv, Runnable
<1>a. Runnable' = Runnable
  BY <1>0 DEF Runnable
<1>2. k \in Runnable /\ rq.usage[k] = 0 /\ rq.head[rq.usage[k]] = k
  BY <1>0, <1>1, Constants, HeadOfList
<1>3. p \in Levels
  BY <1>1, <1>2 DEF IInv, TypeOK, Levels
<1> HIDE DEF k, p
<1>4. /\ Lists(rq', Runnable)
      /\ rq'.usage = [rq.usage EXCEPT ![k] = p]
  BY <1>0, <1>1, <1>2, <1>3, RequeueLists
<1>5. Lists(rq', Runnable')
  BY <1>4, <1>a, Zenon
<1>6. TypeOK'
  BY <1>0, <1>5 DEF IInv, TypeOK, Lists
<1>7. /\ SleepersChained' /\ FramesOK' /\ UserLevels' /\ WakeOK' /\ CurrentAlive'
      /\ CurrentIsHead'
  BY <1>0 DEF IInv, SleepersChained, FramesOK, UserLevels, WakeOK, CurrentAlive,
              CurrentIsHead, Asleep, Linked, Bucket
<1>8. BoostIsOneShot'
  <2>1. k \in Procs /\ (k # SWAPPER => p <= UserMax) /\ rq.usage \in [Procs -> Levels]
    BY <1>1, <1>2, Fields DEF IInv, UserLevels, Lists, p
  <2>2. \A j \in Runnable \ {SWAPPER} : mode[j] # "sleep" => rq'.usage[j] <= UserMax
    BY <1>1, <1>4, <2>1 DEF IInv, BoostIsOneShot
  <2>3. QED
    BY <1>0, <1>a, <2>2 DEF BoostIsOneShot
<1>9. QED
  BY <1>5, <1>6, <1>7, <1>8 DEF IInv

\* The second search.
LEMMA RescanInv == ASSUME IInv, Rescan  PROVE IInv'
<1>0. /\ UNCHANGED <<sched_touched, rq, priority, status, chain, sleepv,
                     sigpending, mode, wk>>
      /\ kpc = "recycle"
  BY DEF Rescan
<1>1. Lists(rq, Runnable) /\ Runnable \in SUBSET Procs
  BY DEF IInv, Runnable
<1>2. Lists(rq', Runnable')
  <2>1. Runnable' = Runnable
    BY <1>0 DEF Runnable
  <2>2. QED
    BY <1>0, <1>1, <2>1, Zenon
<1>3. /\ CurrentIsHead' /\ CurrentAlive' /\ kpc' = "run" /\ current_kpid' \in 0..NProc
  <2>1. CASE PickFrom(rq, MaxLevel)
    <3>1. /\ current_kpid' \in Runnable /\ kpc' = "run"
          /\ rq.usage[current_kpid'] > 0
          /\ rq.head[rq.usage[current_kpid']] = current_kpid'
      BY <1>1, <2>1, Constants, PickedIsHead
    <3>2. status'[current_kpid'] = "RUNNING" /\ current_kpid' \in 0..NProc
      BY <1>0, <3>1, Fields DEF Runnable
    <3>3. QED
      BY <1>0, <3>1, <3>2 DEF CurrentIsHead, CurrentAlive
  <2>2. CASE Dispatch(IDLE)
    BY <2>2, Fields DEF Dispatch, IDLE, CurrentIsHead, CurrentAlive
  <2>3. QED
    BY <2>1, <2>2 DEF Rescan
<1>4. TypeOK'
  BY <1>0, <1>2, <1>3 DEF IInv, TypeOK, Lists
<1>5. SleepersChained' /\ FramesOK' /\ UserLevels' /\ WakeOK' /\ BoostIsOneShot'
  BY <1>0, <1>3 DEF IInv, SleepersChained, FramesOK, UserLevels, WakeOK,
                    BoostIsOneShot, Asleep, Linked, Bucket, Runnable
<1>6. QED
  BY <1>2, <1>3, <1>4, <1>5 DEF IInv

-----------------------------------------------------------------------------
\* The body of the loop of sleep(), from run lists r of which the caller is
\* a head.
LEMMA GoToSleepInv ==
  ASSUME IInv, kpc = "run", current_kpid # IDLE,
         NEW r, Lists(r, Runnable), NEW a \in Addrs,
         r.usage[current_kpid] > 0,
         r.head[r.usage[current_kpid]] = current_kpid,
         current_kpid # SWAPPER => r.usage[current_kpid] <= UserMax,
         \A j \in Procs : j # current_kpid => r.usage[j] = rq.usage[j],
         GoToSleep(r, a),
         UNCHANGED <<current_kpid, sched_touched, priority, sigpending, wk>>
  PROVE  IInv'
<1> DEFINE k == current_kpid
<1>0. /\ chain' = [chain EXCEPT ![Hash[a]] = <<k>> \o @]
      /\ sleepv' = [sleepv EXCEPT ![k] = [addr |-> a, old |-> r.usage[k], bysig |-> FALSE]]
      /\ status' = [status EXCEPT ![k] = "ASLEEP"]
      /\ rq' = DeleteSchedulable(r, k)
      /\ mode' = [mode EXCEPT ![k] = "sleep"]
      /\ kpc' = "sched"
  BY DEF GoToSleep
<1>1. /\ k \in Procs /\ status[k] = "RUNNING" /\ k \in Runnable
      /\ Runnable \in SUBSET Procs
  BY RunListsAssumption DEF IInv, TypeOK, CurrentIsHead, Procs, IDLE, Runnable
<1>2. /\ status \in [Procs -> Statuses] /\ sleepv \in [Procs -> Frames]
      /\ mode \in [Procs -> Modes] /\ chain \in [Buckets -> Seq(Procs)]
      /\ r.usage \in [Procs -> Levels] /\ r \in RunQueues
  BY Fields DEF IInv, TypeOK, Lists
<1>3. Lists(DeleteSchedulable(r, k), Runnable \ {k}) /\ rq'.usage = r.usage
  BY <1>0, <1>1, DeleteLists
<1>4. Runnable' = Runnable \ {k}
  BY <1>0, <1>1, <1>2 DEF Runnable
<1>5. Lists(rq', Runnable')
  BY <1>0, <1>3, <1>4, Zenon
<1>6. /\ status' \in [Procs -> Statuses] /\ sleepv' \in [Procs -> Frames]
      /\ mode' \in [Procs -> Modes] /\ chain' \in [Buckets -> Seq(Procs)]
  <2>1. [addr |-> a, old |-> r.usage[k], bysig |-> FALSE] \in Frames
    BY <1>1, <1>2 DEF Frames
  <2>2. sleepv' \in [Procs -> Frames]
    BY <1>0, <1>2, <2>1, ExceptType
  <2>3. Hash[a] \in Buckets /\ <<k>> \o chain[Hash[a]] \in Seq(Procs)
    BY <1>1, <1>2, Constants
  <2>4. chain' \in [Buckets -> Seq(Procs)]
    BY <1>0, <1>2, <2>3
  <2>5. QED
    BY <1>0, <1>2, <2>2, <2>4 DEF Statuses, Modes
<1>7. TypeOK'
  BY <1>0, <1>5, <1>6 DEF IInv, TypeOK, Lists
<1>8. CurrentIsHead' /\ CurrentAlive' /\ WakeOK'
  BY <1>0, <1>1, <1>2 DEF CurrentIsHead, CurrentAlive, WakeOK
<1>9. FramesOK' /\ UserLevels'
  <2>1. /\ sleepv'[k].old = r.usage[k] /\ sleepv'[k].addr = a
        /\ \A j \in Procs : j # k =>
             sleepv'[j] = sleepv[j] /\ mode'[j] = mode[j] /\ status'[j] = status[j]
    BY <1>0, <1>1, <1>2
  <2>2. mode'[k] = "sleep"
    BY <1>0, <1>1, <1>2
  <2>3. QED
    BY <2>1, <2>2 DEF IInv, FramesOK, UserLevels, Asleep
<1>10. BoostIsOneShot'
  BY <1>0, <1>1, <1>2, <1>3, <1>4 DEF IInv, BoostIsOneShot
<1>11. SleepersChained'
  <2> DEFINE b == Hash[a]
  <2>1. b \in Buckets /\ SleepersChained
    BY Constants DEF IInv
  <2>2. Prepended(chain[b], k, <<k>> \o chain[b])
    BY <1>1, <1>2, <2>1, PrependPrepends
  <2>3. Prepended(chain[b], k, chain'[b])
    BY <1>0, <1>2, <2>1, <2>2
  <2>4. \A c \in Buckets : c # b => chain'[c] = chain[c]
    BY <1>0, <1>2
  <2>5. /\ status'[k] = "ASLEEP" /\ Hash[sleepv'[k].addr] = b
        /\ \A j \in Procs : j # k =>
             sleepv'[j].addr = sleepv[j].addr /\ status'[j] = status[j]
    BY <1>0, <1>1, <1>2
  <2>6. \A c \in Buckets : \A n \in DOMAIN chain[c] :
          /\ chain[c][n] # k /\ chain[c][n] \in Procs
          /\ status[chain[c][n]] = "ASLEEP" /\ Hash[sleepv[chain[c][n]].addr] = c
    BY <1>1, <1>2, <2>1 DEF SleepersChained, Asleep, Bucket
  <2> HIDE DEF b, k
  <2>7. ASSUME NEW j \in Procs, status'[j] = "ASLEEP"
        PROVE  \E m \in DOMAIN chain'[Hash[sleepv'[j].addr]] :
                 chain'[Hash[sleepv'[j].addr]][m] = j
    <3>1. CASE j = k
      BY <2>3, <2>5, <3>1 DEF Prepended
    <3>2. CASE j # k
      <4> DEFINE c == Hash[sleepv[j].addr]
      <4>1. Asleep(j) /\ Hash[sleepv'[j].addr] = c
        BY <2>5, <2>7, <3>2 DEF Asleep
      <4>2. Linked(j) /\ c \in Buckets
        BY <2>1, <4>1, Constants DEF SleepersChained, IInv, FramesOK
      <4>3. PICK n \in DOMAIN chain[c] : chain[c][n] = j
        BY <4>2 DEF Linked, Bucket
      <4> HIDE DEF c
      <4>4. \E m \in DOMAIN chain'[c] : chain'[c][m] = j
        <5>1. CASE c = b
          BY <2>3, <4>3, <5>1 DEF Prepended
        <5>2. CASE c # b
          BY <2>4, <4>2, <4>3, <5>2
        <5>3. QED
          BY <5>1, <5>2
      <4>5. QED
        BY <4>1, <4>4
    <3>3. QED
      BY <3>1, <3>2
  <2>8. ASSUME NEW c \in Buckets, NEW m \in DOMAIN chain'[c]
        PROVE  /\ status'[chain'[c][m]] = "ASLEEP"
               /\ Hash[sleepv'[chain'[c][m]].addr] = c
    <3>1. CASE c = b
      BY <2>1, <2>3, <2>5, <2>6, <2>8, <3>1 DEF Prepended
    <3>2. CASE c # b
      BY <2>4, <2>5, <2>6, <2>8, <3>2
    <3>3. QED
      BY <3>1, <3>2
  <2>9. ASSUME NEW c \in Buckets, NEW m \in DOMAIN chain'[c],
               NEW n \in DOMAIN chain'[c], chain'[c][m] = chain'[c][n]
        PROVE  m = n
    <3>1. \A x, y \in DOMAIN chain[c] : chain[c][x] = chain[c][y] => x = y
      BY <2>1 DEF SleepersChained
    <3>2. CASE c = b
      BY <2>1, <2>3, <2>6, <2>9, <3>1, <3>2 DEF Prepended
    <3>3. CASE c # b
      BY <2>4, <2>9, <3>1, <3>3
    <3>4. QED
      BY <3>2, <3>3
  <2>10. QED
    BY <2>7, <2>8, <2>9 DEF SleepersChained, Asleep, Linked, Bucket
<1>12. QED
  BY <1>5, <1>7, <1>8, <1>9, <1>10, <1>11 DEF IInv

LEMMA SleepInv == ASSUME IInv, NEW a \in Addrs, Sleep(a)  PROVE IInv'
<1>1. /\ kpc = "run" /\ current_kpid # IDLE /\ mode[current_kpid] = "closed"
      /\ GoToSleep(rq, a)
      /\ UNCHANGED <<current_kpid, sched_touched, priority, sigpending, wk>>
  BY DEF Sleep, InKernel
<1>2. /\ current_kpid \in Procs /\ status[current_kpid] = "RUNNING"
      /\ rq.usage[current_kpid] > 0
      /\ rq.head[rq.usage[current_kpid]] = current_kpid
      /\ Lists(rq, Runnable)
  BY <1>1, RunListsAssumption DEF IInv, TypeOK, CurrentIsHead, Procs, IDLE
<1>3. current_kpid # SWAPPER => rq.usage[current_kpid] <= UserMax
  BY <1>1, <1>2 DEF IInv, BoostIsOneShot, Runnable
<1>4. \A j \in Procs : j # current_kpid => rq.usage[j] = rq.usage[j]
  OBVIOUS
<1>5. QED
  BY <1>1, <1>2, <1>3, <1>4, GoToSleepInv

LEMMA ResumeSleepInv == ASSUME IInv, ResumeSleep  PROVE IInv'
<1> DEFINE k == current_kpid
           f == sleepv[k]
           d == DeleteSchedulable(rq, k)
           r == RestoreSchedulable(d, k, f.old)
           T == Runnable \ {k}
<1>1. /\ kpc = "run" /\ k # IDLE /\ mode[k] = "sleep"
      /\ UNCHANGED <<current_kpid, sched_touched, priority, sigpending, wk>>
  BY DEF ResumeSleep
<1>2. /\ k \in Procs /\ status[k] = "RUNNING" /\ k \in Runnable
      /\ rq.usage[k] > 0 /\ rq.head[rq.usage[k]] = k
      /\ Lists(rq, Runnable) /\ Runnable \in SUBSET Procs
  BY <1>1, RunListsAssumption
  DEF IInv, TypeOK, CurrentIsHead, Procs, IDLE, Runnable
<1>3. /\ f.old \in Levels /\ f.old > 0 /\ f.addr \in Addrs
      /\ k # SWAPPER => f.old <= UserMax
  BY <1>1, <1>2 DEF IInv, TypeOK, FramesOK, UserLevels, Frames
<1>a. T \union {k} = Runnable
  BY <1>2
<1>b. T \in SUBSET Procs /\ k \notin T
  BY <1>2
<1>c. Lists(d, T) /\ d.usage = rq.usage
  BY <1>2, DeleteLists
<1>o. k \in Procs /\ f.old \in Levels
  BY <1>2, <1>3
<1> HIDE DEF T, d, k, f
<1>d. /\ Lists(r, T \union {k}) /\ r.usage = [d.usage EXCEPT ![k] = f.old]
      /\ r.head[f.old] = k
  BY <1>o, <1>b, <1>c, RestoreLists
<1> USE DEF k, f
<1>4. Lists(r, Runnable)
  BY <1>a, <1>d, Zenon
<1>5. /\ r.usage[k] = f.old /\ r.head[r.usage[k]] = k
      /\ \A j \in Procs : j # k => r.usage[j] = rq.usage[j]
  <2>1. rq.usage \in [Procs -> Levels]
    BY <1>2, Fields DEF Lists
  <2>2. QED
    BY <1>2, <1>c, <1>d, <2>1
<1>r. r = RestoreSchedulable(DeleteSchedulable(rq, current_kpid), current_kpid,
                             sleepv[current_kpid].old)
  BY DEF d
<1> HIDE DEF r
<1>6. CASE GoToSleep(r, f.addr)
  BY <1>1, <1>2, <1>3, <1>4, <1>5, <1>6, GoToSleepInv
<1>7. CASE /\ rq' = r
           /\ mode' = [mode EXCEPT ![k] = "closed"]
           /\ sleepv' = [sleepv EXCEPT ![k] = NoFrame]
           /\ UNCHANGED <<status, chain, kpc>>
  <2>0. /\ sleepv \in [Procs -> Frames] /\ mode \in [Procs -> Modes]
        /\ NoFrame \in Frames /\ chain \in [Buckets -> Seq(Procs)]
    BY Constants DEF IInv, TypeOK, NoFrame, Frames
  <2>1. Runnable' = Runnable
    BY <1>7 DEF Runnable
  <2>2. Lists(rq', Runnable')
    BY <1>4, <1>7, <2>1, Zenon
  <2>3. /\ \A j \in Procs : j # k => sleepv'[j] = sleepv[j] /\ mode'[j] = mode[j]
        /\ mode'[k] = "closed"
    BY <1>2, <1>7, <2>0
  <2>4. TypeOK'
    BY <1>1, <1>7, <2>0, <2>2 DEF IInv, TypeOK, Lists, Modes
  <2>5. CurrentIsHead' /\ CurrentAlive' /\ WakeOK'
    BY <1>1, <1>2, <1>3, <1>5, <1>7 DEF CurrentIsHead, CurrentAlive, WakeOK
  <2>6. FramesOK' /\ UserLevels'
    BY <1>1, <1>2, <1>7, <2>3 DEF IInv, FramesOK, UserLevels, Asleep
  <2>7. BoostIsOneShot'
    BY <1>3, <1>5, <1>7, <2>1, <2>3 DEF IInv, BoostIsOneShot, Runnable
  <2>8. SleepersChained'
    <3>1. \A b \in Buckets : \A i \in DOMAIN chain[b] :
            /\ chain[b][i] # k /\ chain[b][i] \in Procs
            /\ status[chain[b][i]] = "ASLEEP" /\ Hash[sleepv[chain[b][i]].addr] = b
      BY <1>2, <2>0 DEF IInv, SleepersChained, Asleep, Bucket
    <3>2. \A b \in Buckets : \A i \in DOMAIN chain[b] :
            /\ status[chain[b][i]] = "ASLEEP" /\ Hash[sleepv'[chain[b][i]].addr] = b
      BY <2>3, <3>1
    <3>3. \A b \in Buckets : \A i, j \in DOMAIN chain[b] :
            chain[b][i] = chain[b][j] => i = j
      BY DEF IInv, SleepersChained
    <3>4. ASSUME NEW j \in Procs, status[j] = "ASLEEP"
          PROVE  \E i \in DOMAIN chain[Hash[sleepv'[j].addr]] :
                   chain[Hash[sleepv'[j].addr]][i] = j
      <4>1. Linked(j) /\ sleepv'[j] = sleepv[j]
        BY <1>2, <2>3, <3>4 DEF IInv, SleepersChained, Asleep
      <4>2. QED
        BY <4>1 DEF Linked, Bucket
    <3>5. QED
      BY <1>7, <3>2, <3>3, <3>4 DEF SleepersChained, Asleep, Linked, Bucket
  <2>9. QED
    BY <2>2, <2>4, <2>5, <2>6, <2>7, <2>8 DEF IInv
<1>8. QED
  BY <1>r, <1>6, <1>7 DEF ResumeSleep

-----------------------------------------------------------------------------
\* Processes that begin or end do not disturb the sleepers.
LEMMA ChainsKept ==
  ASSUME IInv, UNCHANGED <<chain, sleepv>>,
         \A j \in Procs : status'[j] = "ASLEEP" <=> status[j] = "ASLEEP"
  PROVE  SleepersChained'
<1>1. \A b \in Buckets : \A i \in DOMAIN chain[b] : chain[b][i] \in Procs
  BY DEF IInv, TypeOK
<1>2. QED
  BY <1>1 DEF IInv, SleepersChained, Asleep, Linked, Bucket

\* A process created on a user level: startinit() and sys_fork().
LEMMA CreateInv ==
  ASSUME IInv, kpc = "run", current_kpid # IDLE,
         NEW k \in Procs, k # SWAPPER, status[k] = "UNUSED",
         NEW p \in Levels, p <= UserMax,
         status' = [status EXCEPT ![k] = "RUNNING"],
         priority' = [priority EXCEPT ![k] = p],
         rq' = NewSchedulable(rq, k, p),
         UNCHANGED mode \/ mode' = [mode EXCEPT ![k] = "open"],
         sched_touched' \in BOOLEAN, sigpending' \in [Procs -> BOOLEAN],
         UNCHANGED <<current_kpid, chain, sleepv, kpc, wk>>
  PROVE  IInv'
<1>1. /\ Lists(rq, Runnable) /\ Runnable \in SUBSET Procs /\ k \notin Runnable
      /\ status \in [Procs -> Statuses] /\ priority \in [Procs -> 0..MaxLevel]
      /\ mode \in [Procs -> Modes] /\ rq.usage \in [Procs -> Levels]
  BY Fields DEF IInv, TypeOK, Runnable, Lists
<1>2. Runnable' = Runnable \union {k}
  BY <1>1 DEF Runnable
<1>3. /\ Lists(NewSchedulable(rq, k, p), Runnable \union {k})
      /\ rq'.usage = [rq.usage EXCEPT ![k] = p]
  <2>1. /\ Lists(rq, Runnable) /\ Runnable \in SUBSET Procs
        /\ k \notin Runnable /\ k \in Procs /\ p \in Levels
    BY <1>1
  <2>2. Lists(NewSchedulable(rq, k, p), Runnable \union {k})
    BY <2>1, NewLists
  <2>3. rq'.usage = [rq.usage EXCEPT ![k] = p]
    BY DEF NewSchedulable
  <2>4. QED
    BY <2>2, <2>3, Zenon
<1>4. Lists(rq', Runnable')
  BY <1>2, <1>3, Zenon
<1>5. /\ current_kpid \in Procs /\ status[current_kpid] = "RUNNING"
      /\ rq.usage[current_kpid] > 0
      /\ rq.head[rq.usage[current_kpid]] = current_kpid
  BY RunListsAssumption DEF IInv, TypeOK, CurrentIsHead, Procs, IDLE
<1>6. rq'.head[rq.usage[current_kpid]] = current_kpid
  <2>1. rq.usage[current_kpid] \in Levels /\ current_kpid # 0
    BY <1>1, <1>5 DEF IDLE
  <2>2. QED
    BY <1>1, <1>5, <2>1, NewKeepsHead
<1>7. TypeOK'
  BY <1>1, <1>4 DEF IInv, TypeOK, Lists, Statuses, Modes, Levels
<1>8. CurrentIsHead' /\ CurrentAlive' /\ WakeOK'
  BY <1>1, <1>3, <1>5, <1>6 DEF IInv, CurrentIsHead, CurrentAlive, WakeOK
<1>9. FramesOK' /\ UserLevels'
  BY <1>1 DEF IInv, FramesOK, UserLevels, Asleep
<1>10. BoostIsOneShot'
  BY <1>1, <1>2, <1>3 DEF IInv, BoostIsOneShot
<1>11. SleepersChained'
  BY <1>1, ChainsKept
<1>12. QED
  BY <1>4, <1>7, <1>8, <1>9, <1>10, <1>11 DEF IInv

LEMMA StartInitInv == ASSUME IInv, StartInit  PROVE IInv'
<1>1. sched_touched \in BOOLEAN /\ sigpending \in [Procs -> BOOLEAN]
  BY DEF IInv, TypeOK
<1>2. QED
  BY <1>1, Constants, CreateInv DEF StartInit, InKernel

LEMMA ForkInv == ASSUME IInv, NEW k \in Procs, Fork(k)  PROVE IInv'
<1>1. current_kpid \in Procs \ {SWAPPER} /\ sigpending \in [Procs -> BOOLEAN]
  BY RunListsAssumption DEF Fork, InKernel, IInv, TypeOK, Procs, IDLE
<1>2. priority[current_kpid] \in Levels /\ priority[current_kpid] <= UserMax
  BY <1>1 DEF IInv, TypeOK, UserLevels, Levels
<1>3. QED
  BY <1>1, <1>2, CreateInv DEF Fork, InKernel

\* The end of sys_exit().
LEMMA ExitInv == ASSUME IInv, Exit  PROVE IInv'
<1> DEFINE k == current_kpid
           T == Runnable \ {k}
<1>0. /\ status' = [status EXCEPT ![k] = "ZOMBIE"]
      /\ rq' = DeleteSchedulable(rq, k)
      /\ sched_touched' = TRUE /\ current_kpid' = IDLE /\ kpc' = "sched"
      /\ UNCHANGED <<priority, chain, sleepv, sigpending, mode, wk>>
      /\ kpc = "run" /\ k # IDLE
  BY DEF Exit, InKernel
<1>1. /\ k \in Runnable /\ rq.head[rq.usage[k]] = k /\ status[k] = "RUNNING"
      /\ Lists(rq, Runnable) /\ Runnable \in SUBSET Procs
      /\ status \in [Procs -> Statuses]
  <2>1. k \in Procs
    BY <1>0, RunListsAssumption DEF IInv, TypeOK, Procs, IDLE
  <2>2. /\ status[k] = "RUNNING" /\ rq.head[rq.usage[k]] = k
        /\ Lists(rq, Runnable) /\ status \in [Procs -> Statuses]
    BY <1>0 DEF IInv, TypeOK, CurrentIsHead
  <2>3. QED
    BY <2>1, <2>2 DEF Runnable
<1>2. Lists(rq', T) /\ rq'.usage = rq.usage
  BY <1>0, <1>1, DeleteLists
<1>3. Runnable' = T
  BY <1>0, <1>1 DEF Runnable
<1>4. Lists(rq', Runnable')
  BY <1>2, <1>3, Zenon
<1>5. TypeOK'
  BY <1>0, <1>1, <1>4, Fields DEF IInv, TypeOK, Lists, Statuses, IDLE
<1>6. CurrentIsHead' /\ CurrentAlive' /\ WakeOK' /\ FramesOK' /\ UserLevels'
  BY <1>0, <1>1 DEF IInv, CurrentIsHead, CurrentAlive, WakeOK, FramesOK,
                    UserLevels, Asleep
<1>7. BoostIsOneShot'
  BY <1>0, <1>2, <1>3 DEF IInv, BoostIsOneShot
<1>8. SleepersChained'
  BY <1>0, <1>1, ChainsKept
<1>9. QED
  BY <1>4, <1>5, <1>6, <1>7, <1>8 DEF IInv

LEMMA ReleaseZombieInv == ASSUME IInv, NEW k \in Procs, ReleaseZombie(k)  PROVE IInv'
<1>0. /\ status' = [status EXCEPT ![k] = "UNUSED"] /\ status[k] = "ZOMBIE"
      /\ UNCHANGED <<current_kpid, sched_touched, rq, priority, chain, sleepv,
                     sigpending, mode, kpc, wk>>
      /\ kpc = "run" /\ current_kpid # IDLE
  BY DEF ReleaseZombie, InKernel
<1>1. status \in [Procs -> Statuses] /\ Lists(rq, Runnable)
  BY DEF IInv, TypeOK
<1>2. Runnable' = Runnable
  BY <1>0, <1>1 DEF Runnable
<1>3. Lists(rq', Runnable')
  BY <1>0, <1>1, <1>2, Zenon
<1>4. TypeOK'
  BY <1>0, <1>1 DEF IInv, TypeOK, Statuses
<1>5. CurrentIsHead' /\ CurrentAlive' /\ WakeOK' /\ FramesOK' /\ UserLevels'
  BY <1>0, <1>1 DEF IInv, CurrentIsHead, CurrentAlive, WakeOK, FramesOK,
                    UserLevels, Asleep
<1>6. BoostIsOneShot'
  BY <1>0, <1>2 DEF IInv, BoostIsOneShot
<1>7. SleepersChained'
  BY <1>0, <1>1, ChainsKept
<1>8. QED
  BY <1>3, <1>4, <1>5, <1>6, <1>7 DEF IInv

-----------------------------------------------------------------------------
\* IInv is inductive.
LEMMA NextInv == IInv /\ [Next]_vars => IInv'
<1> SUFFICES ASSUME IInv, [Next]_vars  PROVE IInv'
  OBVIOUS
<1>1. CASE Scheduler
  BY <1>1, SchedulerInv
<1>2. CASE Recycle
  BY <1>2, RecycleInv
<1>3. CASE Rescan
  BY <1>3, RescanInv
<1>4. CASE \E a \in Addrs : Sleep(a)
  BY <1>4, SleepInv
<1>5. CASE ResumeSleep
  BY <1>5, ResumeSleepInv
<1>6. CASE \/ Yield \/ ResumeYield \/ EnterKernel \/ SysReturn \/ SwapperEnable
           \/ \E a \in Addrs, kind \in {"all", "one", "kill"} : Wakeup(a, kind)
           \/ WakeEnd \/ Timer \/ \E a \in IrqAddrs : Irq(a)
           \/ \E k \in Procs, p \in 1..UserMax : SetPriority(k, p)
  BY <1>6, CalmInv
<1>7. CASE \/ WakeOne \/ KillNext \/ \E k \in Procs : SysKill(k)
           \/ \E k \in Procs : TimerAlarm(k)
  BY <1>7, WakeInv
<1>8. CASE StartInit
  BY <1>8, StartInitInv
<1>9. CASE \E k \in Procs : Fork(k)
  BY <1>9, ForkInv
<1>10. CASE Exit
  BY <1>10, ExitInv
<1>11. CASE \E k \in Procs : ReleaseZombie(k)
  BY <1>11, ReleaseZombieInv
<1>12. CASE UNCHANGED vars
  <2>1. UNCHANGED <<rq, status, chain, sleepv, current_kpid, priority, mode, kpc,
                    wk, sched_touched, sigpending>>
    BY <1>12 DEF vars
  <2>2. Runnable' = Runnable
    BY <2>1 DEF Runnable
  <2>3. Lists(rq', Runnable')
    BY <2>1, <2>2, Zenon DEF IInv
  <2>4. QED
    BY <2>1, <2>3 DEF IInv, TypeOK, CurrentIsHead, SleepersChained, FramesOK,
       UserLevels, BoostIsOneShot, WakeOK, CurrentAlive, Asleep, Linked, Bucket,
       Runnable
<1>13. QED
  BY <1>1, <1>2, <1>3, <1>4, <1>5, <1>6, <1>7, <1>8, <1>9, <1>10, <1>11, <1>12
  DEF Next

LEMMA Invariance == Spec => []IInv
<1>1. QED
  BY InitInv, NextInv, PTL DEF Spec

\* Every variable keeps its type; no level leaves 0..MaxLevel.
THEOREM TypeCorrect == Spec => []TypeOK
<1>1. IInv => TypeOK
  BY DEF IInv
<1>2. QED
  BY <1>1, Invariance, PTL

\* The run lists are well linked after every step of every handler.
THEOREM ListsAlwaysLinked == Spec => []ListsLinked
<1>1. IInv => ListsLinked
  BY DEF IInv, Lists, ListsLinked
<1>2. QED
  BY <1>1, Invariance, PTL

\* No list ever closes on itself: the loops over a list end.
THEOREM ListsAlwaysEnd == Spec => []Acyclic(rq, Runnable)
<1>1. IInv => Acyclic(rq, Runnable)
  BY DEF IInv, Lists
<1>2. QED
  BY <1>1, Invariance, PTL

\* delete_schedulable_process() always unlinks the process it is given.
THEOREM CurrentAlwaysHead == Spec => []CurrentIsHead
<1>1. IInv => CurrentIsHead
  BY DEF IInv
<1>2. QED
  BY <1>1, Invariance, PTL

\* A process is ASLEEP exactly while its chain holds it, once.
THEOREM SleepersAlwaysChained == Spec => []SleepersChained
<1>1. IInv => SleepersChained
  BY DEF IInv
<1>2. QED
  BY <1>1, Invariance, PTL

\* The wakeup level of a sleeper is gone once sleep() has returned.
THEOREM BoostAlwaysOneShot == Spec => []BoostIsOneShot
<1>1. IInv => BoostIsOneShot
  BY DEF IInv
<1>2. QED
  BY <1>1, Invariance, PTL
=============================================================================
