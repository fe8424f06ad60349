---------------------------- MODULE ProcessProofs ----------------------------
(***************************************************************************)
(* Pids, parents and counts of children agree, and every process that      *)
(* waits is told of its dead children, for any size of the process table   *)
(* and any range of pids with room for it; and fork, exit and wait keep    *)
(* the promise of Family.  And signals: masks, sleeps and ignored signals, *)
(* for any processes, signals and calls.                                   *)
(***************************************************************************)
EXTENDS MCProcess, Lists, FiniteSetTheorems, TLAPS

(***************************************************************************)
(* The invariant.                                                          *)
(***************************************************************************)
\* A process has its slot, its pc and, inside sys_fork(), a slot that nobody else has.
Placed(k) ==
    /\ u[k].status = "alive" <=> pc[k] # "none"
    /\ pc[k] = "exit" => k # INIT
    /\ k # INIT /\ Exists(k) => k \in Range(table) /\ u[k].pid > 1 /\ u[k].pkpid \in Kpids \ {k}
    /\ frame[k].child # 0 <=> pc[k] = "fork"
    /\ pc[k] = "fork" => frame[k].child \in Range(table) /\ ~Exists(frame[k].child)
    /\ \A l \in Kpids : pc[k] = "fork" /\ frame[k].child = frame[l].child => k = l

InitLives == u[INIT].status = "alive" /\ u[INIT].pid = 1 /\ u[INIT].session \in {0, 1}

\* Whoever ignores SIGCHLD has it pending as long as it has zombies.
Told(p) ==
    /\ u[p].status = "alive" /\ u[p].handler = "ign" /\ Zombies(p) # {} => u[p].sigchld
    /\ pc[p] \in {"asleep", "woken"} => (frame[p].all <=> u[p].handler = "ign")
    /\ pc[p] = "reap" => u[p].handler = "ign"
    /\ pc[p] = "woken" => u[p].sigchld

Ties == InitLives /\ ParentsAgree /\ ChildrenCounted /\ IdentitiesUnique

ProcessInv ==
    /\ TypeOK
    /\ \A k \in Kpids : Placed(k)
    /\ Ties
    /\ \A p \in Kpids : Told(p)
    /\ WaiterInformed

(***************************************************************************)
(* Types.                                                                  *)
(***************************************************************************)
LEMMA SlotsFacts ==
  /\ IsFiniteSet(Slots) /\ IsFiniteSet(Kpids) /\ Cardinality(Slots) \in Nat
  /\ INIT \in Kpids /\ INIT \notin Slots /\ Slots \subseteq Kpids /\ Kpids \subseteq Nat /\ 0 \notin Kpids
  /\ MaxKpid \in Nat /\ MaxPid \in Nat /\ MaxPid >= 2 /\ MaxPid >= 2 * Cardinality(Slots)
<1>1. MaxKpid \in Nat /\ MaxKpid > INIT /\ MaxPid \in Nat /\ MaxPid >= 2 * Cardinality(Slots)
  BY ProcessAssumption
<1>2. IsFiniteSet(Slots) /\ Cardinality(Slots) = MaxKpid - 2
  BY <1>1, FS_Interval DEF Slots, INIT
<1>3. IsFiniteSet(Kpids)
  BY <1>2, FS_Singleton, FS_Union DEF Kpids
<1>4. QED BY <1>1, <1>2, <1>3 DEF Slots, Kpids, INIT

\* The type of the state as facts about single fields.
LEMMA AreaType ==
  ASSUME TypeOK, NEW k \in Kpids
  PROVE  /\ u[k] \in Areas /\ u[k].status \in {"unused", "alive", "zombie"} /\ u[k].pid \in 0..MaxPid
         /\ u[k].ppid \in 0..MaxPid /\ u[k].session \in 0..MaxPid /\ u[k].children \in Nat
         /\ u[k].pkpid \in Kpids \union {0} /\ u[k].leader \in BOOLEAN /\ u[k].sigchld \in BOOLEAN
         /\ u[k].blocked \in BOOLEAN /\ u[k].handler \in {"dfl", "ign", "handler"}
         /\ frame[k] \in Frames /\ frame[k].child \in {0} \union Slots
         /\ pc[k] \in {"none", "user", "fork", "exit", "asleep", "woken", "reap"}
BY DEF TypeOK, Areas, Frames

LEMMA TableType ==
  ASSUME TypeOK
  PROVE  table \in Seq(Slots) /\ IsInjective(table) /\ Range(table) \subseteq Slots
BY DEF TypeOK, IsInjective, Range

\* A type for the next state, from its parts.
LEMMA NextType ==
  ASSUME table' \in Seq(Slots), IsInjective(table'), u' \in [Kpids -> Areas], latest_pid' \in 1..MaxPid,
         pc' \in [Kpids -> {"none", "user", "fork", "exit", "asleep", "woken", "reap"}],
         frame' \in [Kpids -> Frames]
  PROVE  TypeOK'
BY DEF TypeOK, IsInjective

(***************************************************************************)
(* Pids.                                                                   *)
(***************************************************************************)
\* The pids after latest_pid, in the order in which they are tried, are all but 1.
LEMMA AfterFacts ==
  ASSUME TypeOK
  PROVE  /\ \A m \in 2..MaxPid : \E n \in 1..(MaxPid - 1) : After(n) = m
         /\ \A n \in 1..(MaxPid - 1) : After(n) \in 2..MaxPid
<1>1. latest_pid \in 1..MaxPid /\ MaxPid \in Nat
  BY SlotsFacts DEF TypeOK
<1>2. ASSUME NEW m \in 2..MaxPid PROVE \E n \in 1..(MaxPid - 1) : After(n) = m
  <2>1. CASE m > latest_pid
    <3>1. m - latest_pid \in 1..(MaxPid - 1) /\ After(m - latest_pid) = m
      BY <1>1, <2>1 DEF After
    <3>2. QED BY <3>1
  <2>2. CASE ~(m > latest_pid)
    <3>1. m + MaxPid - 1 - latest_pid \in 1..(MaxPid - 1) /\ After(m + MaxPid - 1 - latest_pid) = m
      BY <1>1, <2>2 DEF After
    <3>2. QED BY <3>1
  <2>3. QED BY <2>1, <2>2
<1>3. \A n \in 1..(MaxPid - 1) : After(n) \in 2..MaxPid
  BY <1>1 DEF After
<1>4. QED BY <1>2, <1>3

\* As there are two pids for each slot but one, and one more, some pid is not in use.
LEMMA SomePidUnused ==
  ASSUME TypeOK, InitLives, NEW S, S \subseteq Slots, NEW c \in Slots \ S
  PROVE  \E m \in 2..MaxPid : m \notin Identities(S \cup {INIT})
<1>1. SUFFICES ASSUME \A m \in 2..MaxPid : m \in Identities(S \cup {INIT}) PROVE FALSE
  OBVIOUS
<1> DEFINE Names == S \X {0, 1}
           Name(m) == IF \E k \in S : u[k].pid = m THEN <<CHOOSE k \in S : u[k].pid = m, 0>>
                                                  ELSE <<CHOOSE k \in S : u[k].session = m, 1>>
           name == [m \in 2..MaxPid |-> Name(m)]
<1>2. ASSUME NEW m \in 2..MaxPid PROVE \E k \in S : m \in {u[k].pid, u[k].session}
  BY <1>1 DEF Identities, InitLives
<1>3. ASSUME NEW m \in 2..MaxPid
      PROVE  /\ Name(m) \in Names
             /\ Name(m)[2] = 0 => u[Name(m)[1]].pid = m
             /\ Name(m)[2] = 1 => u[Name(m)[1]].session = m
  <2>1. CASE \E k \in S : u[k].pid = m
    BY <2>1
  <2>2. CASE ~\E k \in S : u[k].pid = m
    <3>1. \E k \in S : u[k].session = m
      BY <1>2, <2>2
    <3>2. QED BY <2>2, <3>1
  <2>3. QED BY <2>1, <2>2
<1>4. name \in [2..MaxPid -> Names]
  BY <1>3
<1>5. IsFiniteSet(S) /\ Cardinality(S) \in Nat /\ Cardinality(S) <= Cardinality(Slots) - 1
  <2>1. IsFiniteSet(Slots \ {c}) /\ Cardinality(Slots \ {c}) = Cardinality(Slots) - 1 /\ S \subseteq Slots \ {c}
    BY SlotsFacts, FS_RemoveElement
  <2>2. QED BY <2>1, FS_Subset, FS_CardinalityType
<1>6. IsFiniteSet({0, 1}) /\ Cardinality({0, 1}) = 2
  <2>1. IsFiniteSet({0}) /\ Cardinality({0}) = 1
    BY ONLY FS_Singleton
  <2>2. {0, 1} = {0} \cup {1} /\ 1 \notin {0}
    OBVIOUS
  <2>3. QED BY <2>1, <2>2, FS_AddElement
<1>7. IsFiniteSet(Names) /\ Cardinality(Names) = Cardinality(S) * 2
  BY <1>5, <1>6, FS_Product
<1>8. IsFiniteSet(2..MaxPid) /\ Cardinality(2..MaxPid) = MaxPid - 1
  BY SlotsFacts, FS_Interval
<1>9. Cardinality(Names) < Cardinality(2..MaxPid)
  BY <1>5, <1>7, <1>8, SlotsFacts
<1>10. PICK x, y \in 2..MaxPid : x # y /\ name[x] = name[y]
  <2> HIDE DEF name, Names
  <2>1. QED BY <1>4, <1>7, <1>8, <1>9, FS_PigeonHole
<1>11. Name(x) = Name(y)
  BY <1>10
<1>12. Name(x)[2] \in {0, 1}
  BY <1>3
<1> HIDE DEF Name
<1>13. QED BY <1>3, <1>10, <1>11, <1>12

\* find_unused_pid() gives a child a pid that no process and no session has.
LEMMA FreshPid ==
  ASSUME ProcessInv, NEW p \in Kpids, pc[p] = "fork"
  PROVE  /\ UnusedPid(p) \in 2..MaxPid
         /\ \A k \in Kpids : Exists(k) => u[k].pid # UnusedPid(p) /\ u[k].session # UnusedPid(p)
<1> DEFINE c == frame[p].child
           S == Range(table) \ {c}
           ids == Identities(S \cup {p})
           free == {n \in 1..MaxPid : After(n) \notin ids}
<1>1. /\ TypeOK /\ InitLives /\ S \subseteq Slots /\ c \in Slots \ S /\ c # p
      /\ p \in S \cup {INIT}
  <2>1. TypeOK /\ InitLives /\ Placed(p) /\ c \in Range(table) /\ ~Exists(c) /\ u[p].status = "alive"
    BY DEF ProcessInv, Ties, Placed
  <2>2. c \in Slots /\ S \subseteq Slots
    BY <2>1, TableType
  <2>3. c # p /\ (p # INIT => p \in Range(table))
    BY <2>1 DEF Placed, Exists
  <2>4. QED BY <2>1, <2>2, <2>3
<1>2. PICK m \in 2..MaxPid : m \notin Identities(S \cup {INIT})
  <2> HIDE DEF c, S
  <2>1. QED BY <1>1, SomePidUnused
<1>3. m \notin ids
  BY <1>1, <1>2 DEF Identities
<1>4. PICK n \in 1..(MaxPid - 1) : After(n) = m
  BY <1>1, AfterFacts
<1>5. n \in free /\ free \in SUBSET Nat
  BY <1>3, <1>4, SlotsFacts
<1>6. Min(free) \in free /\ Min(free) <= n
  <2> HIDE DEF free
  <2>1. QED BY <1>5, LowestOf
<1>7. UnusedPid(p) = After(Min(free))
  BY DEF UnusedPid
<1>8. UnusedPid(p) \in 2..MaxPid /\ UnusedPid(p) \notin ids
  <2>1. Min(free) \in 1..(MaxPid - 1)
    BY <1>6, SlotsFacts
  <2>2. After(Min(free)) \in 2..MaxPid
    BY <1>1, <2>1, AfterFacts
  <2>3. QED BY <1>6, <1>7, <2>2
<1>9. ASSUME NEW k \in Kpids, Exists(k) PROVE u[k].pid # UnusedPid(p) /\ u[k].session # UnusedPid(p)
  <2>1. CASE k = INIT
    BY <1>1, <1>8, <2>1 DEF InitLives
  <2>2. CASE k # INIT
    <3>1. k \in S
      BY <1>9, <2>2 DEF ProcessInv, Placed
    <3>2. QED BY <1>8, <3>1 DEF Identities
  <2>3. QED BY <2>1, <2>2
<1>10. QED BY <1>8, <1>9

(***************************************************************************)
(* Parents and children.                                                   *)
(***************************************************************************)
\* The parent by pid is the parent by slot.
LEMMA SameParent ==
  ASSUME ProcessInv, NEW p \in Kpids, u[p].status = "alive", NEW k \in Slots, Exists(k)
  PROVE  u[k].ppid = u[p].pid <=> u[k].pkpid = p
<1>1. /\ u[k].pkpid \in Kpids /\ u[u[k].pkpid].status = "alive" /\ u[u[k].pkpid].pid = u[k].ppid
  BY SlotsFacts DEF ProcessInv, Placed, Ties, ParentsAgree
<1>2. \A q \in Kpids : u[q].status = "alive" /\ u[q].pid = u[p].pid => q = p
  BY DEF ProcessInv, Ties, IdentitiesUnique, Exists
<1>3. QED BY <1>1, <1>2

LEMMA ChildrenFinite ==
  ASSUME NEW p
  PROVE  IsFiniteSet(ChildrenOf(p)) /\ Cardinality(ChildrenOf(p)) \in Nat
<1>1. ChildrenOf(p) \subseteq Slots
  BY DEF ChildrenOf
<1>2. QED BY <1>1, SlotsFacts, FS_Subset, FS_CardinalityType

\* A zombie that sys_waitpid() finds is a child of its caller.
LEMMA ZombieFacts ==
  ASSUME ProcessInv, NEW p \in Kpids, u[p].status = "alive", NEW k \in Zombies(p)
  PROVE  k \in Slots /\ k # p /\ u[k].status = "zombie" /\ u[k].pkpid = p /\ k \in ChildrenOf(p) /\ k \in Range(table)
<1>1. k \in Slots /\ u[k].status = "zombie" /\ u[k].ppid = u[p].pid /\ Exists(k) /\ k \in Range(table)
  BY TableType DEF ProcessInv, Zombies, Exists
<1>2. QED BY <1>1, SameParent DEF ChildrenOf

\* pick_zombie() finds one if there is one.
LEMMA PickFacts ==
  ASSUME TypeOK, NEW p \in Kpids, Zombies(p) # {}
  PROVE  PickZombie(p) \in Zombies(p)
<1> DEFINE places == {i \in DOMAIN table : table[i] \in Zombies(p)}
<1>1. places # {} /\ places \in SUBSET Nat
  BY TableType DEF Zombies, Range
<1>2. Min(places) \in places
  <2> HIDE DEF places
  <2>1. QED BY <1>1, LowestOf
<1>3. QED BY <1>2 DEF PickZombie

(***************************************************************************)
(* Steps that change no kinship.                                           *)
(***************************************************************************)
\* No process begins, ends, or changes its name, its parent or its count of children.
KinSame == \A k \in Kpids : /\ u'[k].status = u[k].status /\ u'[k].pid = u[k].pid /\ u'[k].ppid = u[k].ppid
                            /\ u'[k].pkpid = u[k].pkpid /\ u'[k].children = u[k].children
                            /\ u'[k].session = u[k].session /\ u'[k].leader = u[k].leader

LEMMA TiesKept ==
  ASSUME ProcessInv, KinSame
  PROVE  Ties'
<1>1. Ties /\ Slots \subseteq Kpids /\ INIT \in Kpids
  BY SlotsFacts DEF ProcessInv
<1>2. InitLives'
  BY <1>1 DEF Ties, InitLives, KinSame
<1>3. \A k \in Kpids : Exists(k)' <=> Exists(k)
  BY DEF Exists, KinSame
<1>4. ParentsAgree'
  <2>1. SUFFICES ASSUME NEW k \in Slots, Exists(k)'
                 PROVE  u'[u'[k].pkpid].status = "alive" /\ u'[u'[k].pkpid].pid = u'[k].ppid
    BY DEF ParentsAgree
  <2>2. Exists(k) /\ k \in Kpids /\ k # INIT
    BY <1>1, <1>3, <2>1, SlotsFacts
  <2>3. u[k].pkpid \in Kpids /\ u[u[k].pkpid].status = "alive" /\ u[u[k].pkpid].pid = u[k].ppid
    BY <1>1, <2>2 DEF ProcessInv, Placed, Ties, ParentsAgree
  <2>4. QED BY <2>2, <2>3 DEF KinSame
<1>5. \A p \in Kpids : ChildrenOf(p)' = ChildrenOf(p)
  BY <1>1, <1>3 DEF ChildrenOf, KinSame
<1>6. ChildrenCounted'
  BY <1>1, <1>5 DEF Ties, ChildrenCounted, KinSame
<1>7. IdentitiesUnique'
  BY <1>1, <1>3 DEF Ties, IdentitiesUnique, KinSame
<1>8. QED BY <1>2, <1>4, <1>6, <1>7 DEF Ties

LEMMA ZombiesKept ==
  ASSUME TypeOK, KinSame, table' = table
  PROVE  \A p \in Kpids : Zombies(p)' = Zombies(p)
<1>1. Range(table) \subseteq Kpids
  BY TableType, SlotsFacts
<1>2. QED BY <1>1 DEF Zombies, KinSame

LEMMA KinStutters ==
  ASSUME TypeOK, KinSame
  PROVE  UNCHANGED Kin!vars
<1>1. Slots \subseteq Kpids
  BY SlotsFacts
<1>2. Life' = Life
  BY DEF Life, KinSame
<1>3. Parent' = Parent
  BY <1>1 DEF Parent, Exists, KinSame
<1>4. Mourns' = Mourns
  BY <1>1 DEF Mourns, KinSame
<1>5. QED BY <1>2, <1>3, <1>4 DEF Kin!vars

\* Who sleeps in waitpid() for any child, with SIGCHLD not blocked.
Informed(p) == pc[p] = "asleep" /\ frame[p].who = AnyChild /\ ~u[p].blocked => Zombies(p) = {}

\* Only p takes a step.
Only(p) == \A q \in Kpids \ {p} : u'[q] = u[q] /\ pc'[q] = pc[q] /\ frame'[q] = frame[q]

\* A step of p that changes no kinship and does not begin or end a fork.
LEMMA Quietly ==
  ASSUME ProcessInv, TypeOK', KinSame, table' = table, NEW p \in Kpids, Only(p),
         frame'[p].child = frame[p].child, pc'[p] = "fork" <=> pc[p] = "fork",
         pc'[p] = "none" <=> pc[p] = "none", pc'[p] = "exit" => p # INIT, Told(p)', Informed(p)'
  PROVE  ProcessInv' /\ UNCHANGED Kin!vars
<1>1. TypeOK /\ \A k \in Kpids : Placed(k) /\ Told(k) /\ Informed(k)
  BY DEF ProcessInv, WaiterInformed, Informed
<1>2. /\ \A k \in Kpids : (Exists(k)' <=> Exists(k)) /\ Zombies(k)' = Zombies(k)
      /\ \A k \in Kpids : frame'[k].child = frame[k].child /\ (pc'[k] = "fork" <=> pc[k] = "fork")
      /\ \A k \in Kpids : pc'[k] = "none" <=> pc[k] = "none"
  BY <1>1, ZombiesKept DEF Exists, KinSame, Only
<1>3. ASSUME NEW k \in Kpids PROVE Placed(k)'
  <2>1. (u'[k].status = "alive" <=> pc'[k] # "none") /\ (pc'[k] = "exit" => k # INIT)
    BY <1>1, <1>2 DEF Placed, KinSame, Only
  <2>2. k # INIT /\ Exists(k)' => k \in Range(table') /\ u'[k].pid > 1 /\ u'[k].pkpid \in Kpids \ {k}
    BY <1>1, <1>2 DEF Placed, KinSame
  <2>3. pc[k] = "fork" => frame[k].child \in Kpids
    BY <1>1, TableType, SlotsFacts DEF Placed
  <2>4. QED BY <1>1, <1>2, <2>1, <2>2, <2>3 DEF Placed
<1>4. ASSUME NEW k \in Kpids PROVE Told(k)' /\ Informed(k)'
  BY <1>1, <1>2, <1>4 DEF Told, Informed, Only
<1>5. Ties'
  BY TiesKept
<1>6. WaiterInformed'
  BY <1>4 DEF WaiterInformed, Informed
<1>7. ProcessInv'
  BY <1>3, <1>4, <1>5, <1>6 DEF ProcessInv
<1>8. QED BY <1>1, <1>7, KinStutters

(***************************************************************************)
(* The actions that change no kinship.                                     *)
(***************************************************************************)
\* What a step of p may do to its SIGCHLD, pc and frame.
LEMMA OwnChange ==
  ASSUME ProcessInv, NEW p \in Kpids, pc[p] \notin {"none", "fork"}, pc'[p] \notin {"none", "fork"},
         table' = table, latest_pid' = latest_pid, frame'[p].child = 0,
         u' \in [Kpids -> Areas], pc' \in [Kpids -> {"none", "user", "fork", "exit", "asleep", "woken", "reap"}],
         frame' \in [Kpids -> Frames], KinSame, Only(p), Told(p)', Informed(p)',
         pc'[p] = "exit" => p # INIT
  PROVE  ProcessInv' /\ UNCHANGED Kin!vars
<1>1. TypeOK /\ Placed(p)
  BY DEF ProcessInv
<1>2. TypeOK'
  BY <1>1, TableType, NextType DEF TypeOK
<1>3. frame'[p].child = frame[p].child
  BY <1>1, AreaType DEF Placed
<1>4. QED BY <1>2, <1>3, Quietly

LEMMA NoFrameTyped == NoFrame \in Frames /\ NoFrame.child = 0 /\ NoFrame.all = FALSE
BY SlotsFacts DEF NoFrame, Frames, AnyChild

\* p goes to `label` with frame f; sigchld and blocked are its new flags.
Flags(p, label, f, sigchld, blocked, handler) ==
  /\ label \in {"user", "exit", "asleep", "woken", "reap"} /\ f \in Frames /\ f.child = 0
  /\ sigchld \in BOOLEAN /\ blocked \in BOOLEAN /\ handler \in {"dfl", "ign", "handler"}
  /\ table' = table /\ latest_pid' = latest_pid
  /\ u' = [u EXCEPT ![p] = [u[p] EXCEPT !.sigchld = sigchld, !.blocked = blocked, !.handler = handler]]
  /\ pc' = [pc EXCEPT ![p] = label] /\ frame' = [frame EXCEPT ![p] = f]
  /\ handler = "ign" /\ Zombies(p) # {} => sigchld
  /\ label \in {"asleep", "woken"} => (f.all <=> handler = "ign")
  /\ label = "reap" => handler = "ign"
  /\ label = "woken" => sigchld
  /\ label = "exit" => p # INIT
  /\ label = "asleep" /\ f.who = AnyChild /\ ~blocked => Zombies(p) = {}

LEMMA FlagStep ==
  ASSUME ProcessInv, NEW p \in Kpids, pc[p] \notin {"none", "fork"},
         NEW label, NEW f, NEW sigchld, NEW blocked, NEW handler,
         Flags(p, label, f, sigchld, blocked, handler)
  PROVE  ProcessInv' /\ UNCHANGED Kin!vars
<1> USE DEF Flags
<1>1. TypeOK
  BY DEF ProcessInv
<1> DEFINE v == [u[p] EXCEPT !.sigchld = sigchld, !.blocked = blocked, !.handler = handler]
<1>2. /\ v \in Areas /\ v.sigchld = sigchld /\ v.blocked = blocked /\ v.handler = handler
      /\ v.status = u[p].status /\ v.pid = u[p].pid /\ v.ppid = u[p].ppid /\ v.pkpid = u[p].pkpid
      /\ v.children = u[p].children /\ v.session = u[p].session /\ v.leader = u[p].leader
  <2>1. u[p] \in Areas
    BY <1>1, AreaType
  <2>2. /\ v \in Areas /\ v.sigchld = sigchld /\ v.blocked = blocked /\ v.handler = handler
    BY <2>1 DEF Areas
  <2>3. /\ v.status = u[p].status /\ v.pid = u[p].pid /\ v.ppid = u[p].ppid /\ v.pkpid = u[p].pkpid
        /\ v.children = u[p].children /\ v.session = u[p].session /\ v.leader = u[p].leader
    BY ONLY <2>1 DEF Areas
  <2>4. QED BY ONLY <2>2, <2>3
<1>3. u' = [u EXCEPT ![p] = v]
  OBVIOUS
<1> HIDE DEF v
<1>4. /\ u' \in [Kpids -> Areas] /\ u'[p] = v /\ \A q \in Kpids \ {p} : u'[q] = u[q]
      /\ pc' \in [Kpids -> {"none", "user", "fork", "exit", "asleep", "woken", "reap"}]
      /\ pc'[p] = label /\ \A q \in Kpids \ {p} : pc'[q] = pc[q]
      /\ frame' \in [Kpids -> Frames] /\ frame'[p] = f /\ \A q \in Kpids \ {p} : frame'[q] = frame[q]
  BY <1>1, <1>2, <1>3 DEF TypeOK
<1>5. KinSame
  <2>1. SUFFICES ASSUME NEW k \in Kpids
                 PROVE /\ u'[k].status = u[k].status /\ u'[k].pid = u[k].pid /\ u'[k].ppid = u[k].ppid
                       /\ u'[k].pkpid = u[k].pkpid /\ u'[k].children = u[k].children
                       /\ u'[k].session = u[k].session /\ u'[k].leader = u[k].leader
    BY DEF KinSame
  <2>2. QED BY <1>2, <1>4
<1>6. Only(p)
  BY <1>4 DEF Only
<1>7. Zombies(p)' = Zombies(p)
  BY <1>1, <1>5, ZombiesKept
<1>8. Told(p)' /\ Informed(p)'
  BY <1>2, <1>4, <1>7 DEF Told, Informed
<1>9. QED BY <1>4, <1>5, <1>6, <1>8, OwnChange

\* The same without a change of the flags.
LEMMA PlainStep ==
  ASSUME ProcessInv, NEW p \in Kpids, pc[p] \notin {"none", "fork"},
         NEW label \in {"user", "exit", "asleep", "reap"}, NEW f \in Frames, f.child = 0,
         table' = table, latest_pid' = latest_pid, u' = u,
         pc' = [pc EXCEPT ![p] = label], frame' = [frame EXCEPT ![p] = f],
         label = "asleep" => (f.all <=> u[p].handler = "ign"),
         label = "reap" => u[p].handler = "ign", label = "exit" => p # INIT,
         label = "asleep" /\ f.who = AnyChild /\ ~u[p].blocked => Zombies(p) = {}
  PROVE  ProcessInv' /\ UNCHANGED Kin!vars
<1> DEFINE a == u[p].sigchld
           b == u[p].blocked
           h == u[p].handler
<1>1. a \in BOOLEAN /\ b \in BOOLEAN /\ h \in {"dfl", "ign", "handler"} /\ u \in [Kpids -> Areas] /\ u[p] \in Areas
  BY AreaType DEF ProcessInv, TypeOK
<1>2. [u[p] EXCEPT !.sigchld = a, !.blocked = b, !.handler = h] = u[p]
  BY <1>1 DEF Areas
<1>3. u' = [u EXCEPT ![p] = [u[p] EXCEPT !.sigchld = a, !.blocked = b, !.handler = h]]
  BY <1>1, <1>2
<1>4. h = "ign" /\ Zombies(p) # {} => a
  BY DEF ProcessInv, Told, Placed
<1> HIDE DEF a, b
<1>5. label \in {"user", "exit", "asleep", "woken", "reap"} /\ label # "woken"
  OBVIOUS
<1>6. label = "asleep" /\ f.who = AnyChild /\ ~b => Zombies(p) = {}
  BY DEF b
<1>7. Flags(p, label, f, a, b, h)
  <2>1. label \in {"asleep", "woken"} => (f.all <=> h = "ign")
    BY <1>5
  <2>2. QED BY <1>1, <1>3, <1>4, <1>5, <1>6, <2>1 DEF Flags
<1>8. QED BY <1>7, FlagStep

LEMMA ExitStep ==
  ASSUME ProcessInv, NEW p \in Kpids, Exit(p)
  PROVE  ProcessInv' /\ UNCHANGED Kin!vars
BY PlainStep, NoFrameTyped DEF Exit, Goes

LEMMA InterruptStep ==
  ASSUME ProcessInv, NEW p \in Kpids, Interrupt(p)
  PROVE  ProcessInv' /\ UNCHANGED Kin!vars
BY PlainStep, NoFrameTyped DEF Interrupt, Returns, Goes

LEMMA DeliverStep ==
  ASSUME ProcessInv, NEW p \in Kpids, Deliver(p)
  PROVE  ProcessInv' /\ UNCHANGED Kin!vars
<1>1. TypeOK /\ frame \in [Kpids -> Frames] /\ pc \in [Kpids -> {"none", "user", "fork", "exit", "asleep", "woken", "reap"}]
  BY DEF ProcessInv, TypeOK
<1>2. frame[p] \in Frames /\ frame[p].child = 0 /\ frame' = [frame EXCEPT ![p] = frame[p]]
  BY <1>1, AreaType DEF Deliver, ProcessInv, Placed
<1>3. CASE u[p].handler = "ign" /\ Goes(p, "reap") /\ UNCHANGED u
  BY <1>2, <1>3, PlainStep DEF Deliver, Goes
<1>4. CASE u[p].handler = "handler" /\ u' = [u EXCEPT ![p].sigchld = FALSE, ![p].blocked = TRUE] /\ UNCHANGED pc
  <2>1. /\ u[p] \in Areas /\ u \in [Kpids -> Areas] /\ u[p].handler \in {"dfl", "ign", "handler"}
    BY <1>1, AreaType DEF TypeOK
  <2>2. [u[p] EXCEPT !.sigchld = FALSE, !.blocked = TRUE, !.handler = u[p].handler]
          = [u[p] EXCEPT !.sigchld = FALSE, !.blocked = TRUE]
    BY <2>1 DEF Areas
  <2>3. u' = [u EXCEPT ![p] = [u[p] EXCEPT !.sigchld = FALSE, !.blocked = TRUE, !.handler = u[p].handler]]
    BY <1>4, <2>1, <2>2
  <2>4. pc[p] = "user" /\ pc' = [pc EXCEPT ![p] = "user"] /\ table' = table /\ latest_pid' = latest_pid
    BY <1>1, <1>4 DEF Deliver
  <2>5. Flags(p, "user", frame[p], FALSE, TRUE, u[p].handler)
    BY <1>2, <1>4, <2>1, <2>3, <2>4 DEF Flags
  <2>6. QED BY <2>4, <2>5, FlagStep
<1>5. QED BY <1>3, <1>4 DEF Deliver

LEMMA SetMaskStep ==
  ASSUME ProcessInv, NEW p \in Kpids, NEW blocked \in Masks, SetMask(p, blocked)
  PROVE  ProcessInv' /\ UNCHANGED Kin!vars
<1>1. TypeOK /\ frame \in [Kpids -> Frames] /\ pc \in [Kpids -> {"none", "user", "fork", "exit", "asleep", "woken", "reap"}]
  BY DEF ProcessInv, TypeOK
<1>2. frame[p] \in Frames /\ frame[p].child = 0 /\ frame' = [frame EXCEPT ![p] = frame[p]]
  BY <1>1, AreaType DEF SetMask, ProcessInv, Placed
<1>3. /\ u[p] \in Areas /\ u \in [Kpids -> Areas] /\ u[p].handler \in {"dfl", "ign", "handler"}
      /\ u[p].sigchld \in BOOLEAN /\ blocked \in BOOLEAN
  BY <1>1, AreaType, ProcessAssumption DEF TypeOK
<1>4. [u[p] EXCEPT !.sigchld = u[p].sigchld, !.blocked = blocked, !.handler = u[p].handler]
        = [u[p] EXCEPT !.blocked = blocked]
  BY <1>3 DEF Areas
<1>5. u' = [u EXCEPT ![p] = [u[p] EXCEPT !.sigchld = u[p].sigchld, !.blocked = blocked, !.handler = u[p].handler]]
  BY <1>3, <1>4 DEF SetMask
<1>6. pc[p] = "user" /\ pc' = [pc EXCEPT ![p] = "user"] /\ table' = table /\ latest_pid' = latest_pid
  BY <1>1 DEF SetMask
<1>7. u[p].handler = "ign" /\ Zombies(p) # {} => u[p].sigchld
  BY <1>6 DEF ProcessInv, Told, Placed
<1>8. Flags(p, "user", frame[p], u[p].sigchld, blocked, u[p].handler)
  BY <1>2, <1>3, <1>5, <1>6, <1>7 DEF Flags
<1>9. QED BY <1>6, <1>8, FlagStep

LEMMA SetActionStep ==
  ASSUME ProcessInv, NEW p \in Kpids, NEW handler \in Dispositions, SetAction(p, handler)
  PROVE  ProcessInv' /\ UNCHANGED Kin!vars
<1> DEFINE some == u[p].sigchld \/ \E k \in Range(table) : u[k].status = "zombie"
<1>1. TypeOK /\ frame \in [Kpids -> Frames] /\ pc \in [Kpids -> {"none", "user", "fork", "exit", "asleep", "woken", "reap"}]
  BY DEF ProcessInv, TypeOK
<1>2. frame[p] \in Frames /\ frame[p].child = 0 /\ frame' = [frame EXCEPT ![p] = frame[p]]
  BY <1>1, AreaType DEF SetAction, ProcessInv, Placed
<1>3. /\ u[p] \in Areas /\ u \in [Kpids -> Areas] /\ handler \in {"dfl", "ign", "handler"}
      /\ u[p].blocked \in BOOLEAN /\ u[p].sigchld \in BOOLEAN
  BY <1>1, AreaType, ProcessAssumption DEF TypeOK
<1>4. some \in BOOLEAN /\ (Zombies(p) # {} => some)
  BY <1>3 DEF Zombies
<1>5. u' = [u EXCEPT ![p].handler = handler, ![p].sigchld = some]
  BY DEF SetAction
<1> HIDE DEF some
<1>6. [u[p] EXCEPT !.sigchld = some, !.blocked = u[p].blocked, !.handler = handler]
        = [u[p] EXCEPT !.handler = handler, !.sigchld = some]
  BY <1>3 DEF Areas
<1>7. u' = [u EXCEPT ![p] = [u[p] EXCEPT !.sigchld = some, !.blocked = u[p].blocked, !.handler = handler]]
  BY <1>3, <1>5, <1>6
<1>8. pc[p] = "user" /\ pc' = [pc EXCEPT ![p] = "user"] /\ table' = table /\ latest_pid' = latest_pid
  BY <1>1 DEF SetAction
<1>9. Flags(p, "user", frame[p], some, u[p].blocked, handler)
  BY <1>2, <1>3, <1>4, <1>7, <1>8 DEF Flags
<1>10. QED BY <1>8, <1>9, FlagStep

(***************************************************************************)
(* A burial.                                                               *)
(***************************************************************************)
LEMMA Descendants == Kin!Descendants = Slots
BY SlotsFacts DEF Kin!Descendants, Kpids

\* The three functions of Family, as functions.
LEMMA LifeFunction ==
  /\ Life = [k \in Kpids |-> Life[k]]
  /\ Life' = [k \in Kpids |-> Life'[k]]
BY DEF Life

LEMMA ParentFunction ==
  /\ Parent = [k \in Slots |-> Parent[k]]
  /\ Parent' = [k \in Slots |-> Parent'[k]]
BY DEF Parent

LEMMA MournsFunction ==
  /\ Mourns = [k \in Slots |-> Mourns[k]]
  /\ Mourns' = [k \in Slots |-> Mourns'[k]]
BY DEF Mourns

\* release_zombie() in a step of p, which goes to `label` with frame f.
Buries(p, k, label, f) ==
    /\ ReleaseZombie(p, k) /\ latest_pid' = latest_pid
    /\ pc' = [pc EXCEPT ![p] = label] /\ frame' = [frame EXCEPT ![p] = f]

LEMMA BurialFacts ==
  ASSUME ProcessInv, NEW p \in Kpids, u[p].status = "alive", pc[p] # "fork", NEW k \in Zombies(p),
         NEW label \in {"user", "reap"}, NEW f \in Frames, f.child = 0, Buries(p, k, label, f)
  PROVE  /\ k \in Slots /\ k # p /\ TypeOK'
         /\ table' \in Seq(Slots) /\ Range(table') = Range(table) \ {k}
         /\ u'[k].status = "unused" /\ u'[k].handler = "dfl" /\ u'[k].session = u[k].session
         /\ u'[p].children = u[p].children - 1 /\ u'[p].children \in Nat
         /\ \A q \in Kpids \ {k, p} : u'[q] = u[q]
         /\ \A q \in Kpids \ {k} :
              /\ u'[q].status = u[q].status /\ u'[q].pid = u[q].pid /\ u'[q].ppid = u[q].ppid
              /\ u'[q].pkpid = u[q].pkpid /\ u'[q].session = u[q].session /\ u'[q].leader = u[q].leader
              /\ u'[q].handler = u[q].handler /\ u'[q].sigchld = u[q].sigchld /\ u'[q].blocked = u[q].blocked
         /\ pc'[p] = label /\ frame'[p] = f
         /\ \A q \in Kpids \ {p} : pc'[q] = pc[q] /\ frame'[q] = frame[q]
<1>1. TypeOK /\ ChildrenCounted
  BY DEF ProcessInv, Ties
<1>2. k \in Slots /\ k # p /\ k \in Kpids /\ u[k].status = "zombie" /\ k \in ChildrenOf(p) /\ k \in Range(table)
  BY ZombieFacts, SlotsFacts
<1>3. u[p].children \in Nat /\ u[p].children - 1 \in Nat
  <2>1. Cardinality(ChildrenOf(p)) # 0
    BY <1>2, ChildrenFinite, FS_EmptySet
  <2>2. u[p].children >= Cardinality(ChildrenOf(p)) /\ u[p].children \in Nat
    BY <1>1, AreaType, ChildrenFinite DEF ChildrenCounted
  <2>3. QED BY <2>1, <2>2, ChildrenFinite
<1> DEFINE v == [u[p] EXCEPT !.children = u[p].children - 1]
           r == Remains(k)
<1>4. /\ v \in Areas /\ v.children = u[p].children - 1
      /\ v.status = u[p].status /\ v.pid = u[p].pid /\ v.ppid = u[p].ppid /\ v.pkpid = u[p].pkpid
      /\ v.session = u[p].session /\ v.leader = u[p].leader
      /\ v.handler = u[p].handler /\ v.sigchld = u[p].sigchld /\ v.blocked = u[p].blocked
  <2>1. u[p] \in Areas
    BY <1>1, AreaType
  <2>2. QED BY <1>3, <2>1 DEF Areas
<1>5. r \in Areas /\ r.status = "unused" /\ r.handler = "dfl" /\ r.session = u[k].session
  <2>1. u[k].pid \in 0..MaxPid /\ u[k].ppid \in 0..MaxPid /\ u[k].session \in 0..MaxPid
    BY <1>1, <1>2, AreaType
  <2>2. QED BY <2>1 DEF Remains, NoProcess, Areas
<1>6. u \in [Kpids -> Areas] /\ u' = [u EXCEPT ![k] = r, ![p].children = @ - 1]
  BY <1>1 DEF TypeOK, Buries, ReleaseZombie
<1>7. u' = [u EXCEPT ![k] = r, ![p] = v]
  BY <1>2, <1>6
<1> HIDE DEF v, r
<1>8. u' \in [Kpids -> Areas] /\ u'[k] = r /\ u'[p] = v /\ \A q \in Kpids \ {k, p} : u'[q] = u[q]
  BY <1>2, <1>4, <1>5, <1>6, <1>7
<1>9. table' \in Seq(Slots) /\ IsInjective(table') /\ Range(table') = Range(table) \ {k}
  <2> DEFINE i == CHOOSE i \in DOMAIN table : table[i] = k
  <2>1. i \in DOMAIN table /\ table[i] = k
    BY <1>2 DEF Range
  <2>2. table' = RemoveAt(table, i)
    BY DEF Buries, ReleaseZombie
  <2> HIDE DEF i
  <2>3. QED BY <1>1, <2>1, <2>2, TableType, ListWithoutPlace
<1>10. /\ pc' \in [Kpids -> {"none", "user", "fork", "exit", "asleep", "woken", "reap"}]
       /\ frame' \in [Kpids -> Frames] /\ latest_pid' \in 1..MaxPid
       /\ pc'[p] = label /\ frame'[p] = f
       /\ \A q \in Kpids \ {p} : pc'[q] = pc[q] /\ frame'[q] = frame[q]
  BY <1>1 DEF TypeOK, Buries
<1>11. TypeOK'
  BY <1>8, <1>9, <1>10, NextType
<1>12. \A q \in Kpids \ {k} :
              /\ u'[q].status = u[q].status /\ u'[q].pid = u[q].pid /\ u'[q].ppid = u[q].ppid
              /\ u'[q].pkpid = u[q].pkpid /\ u'[q].session = u[q].session /\ u'[q].leader = u[q].leader
              /\ u'[q].handler = u[q].handler /\ u'[q].sigchld = u[q].sigchld /\ u'[q].blocked = u[q].blocked
  <2>1. TAKE q \in Kpids \ {k}
  <2>2. CASE q = p
    BY <1>4, <1>8, <2>2
  <2>3. CASE q # p
    BY <1>8, <2>3
  <2>4. QED BY <2>2, <2>3
<1>13. QED BY <1>2, <1>3, <1>4, <1>5, <1>8, <1>9, <1>10, <1>11, <1>12

LEMMA BurialTies ==
  ASSUME ProcessInv, NEW p \in Kpids, u[p].status = "alive", pc[p] # "fork", NEW k \in Zombies(p),
         NEW label \in {"user", "reap"}, NEW f \in Frames, f.child = 0, Buries(p, k, label, f)
  PROVE  Ties'
<1>1. /\ k \in Slots /\ k # p /\ u'[k].status = "unused"
      /\ u'[p].children = u[p].children - 1
      /\ \A q \in Kpids \ {k, p} : u'[q] = u[q]
      /\ \A q \in Kpids \ {k} :
              /\ u'[q].status = u[q].status /\ u'[q].pid = u[q].pid /\ u'[q].ppid = u[q].ppid
              /\ u'[q].pkpid = u[q].pkpid /\ u'[q].session = u[q].session /\ u'[q].leader = u[q].leader
  BY BurialFacts
<1>2. /\ u[k].status = "zombie" /\ u[k].pkpid = p /\ k \in ChildrenOf(p) /\ k # INIT /\ k \in Kpids
      /\ INIT \in Kpids /\ Slots \subseteq Kpids /\ INIT \notin Slots
  BY <1>1, ZombieFacts, SlotsFacts
<1>3. TypeOK /\ InitLives /\ ParentsAgree /\ ChildrenCounted /\ IdentitiesUnique
  BY DEF ProcessInv, Ties
<1>4. \A q \in Kpids : Exists(q)' <=> Exists(q) /\ q # k
  BY <1>1 DEF Exists
<1>5. InitLives'
  BY <1>1, <1>2, <1>3 DEF InitLives
<1>6. ParentsAgree'
  <2>1. SUFFICES ASSUME NEW j \in Slots, Exists(j)'
                 PROVE  u'[u'[j].pkpid].status = "alive" /\ u'[u'[j].pkpid].pid = u'[j].ppid
    BY DEF ParentsAgree
  <2>2. Exists(j) /\ j \in Kpids /\ j # k /\ j # INIT
    BY <1>2, <1>4, <2>1
  <2>3. u[j].pkpid \in Kpids /\ u[u[j].pkpid].status = "alive" /\ u[u[j].pkpid].pid = u[j].ppid
    BY <1>3, <2>2 DEF ProcessInv, Placed, ParentsAgree
  <2>4. u[j].pkpid # k
    BY <1>2, <2>3
  <2>5. u'[j].pkpid = u[j].pkpid /\ u'[j].ppid = u[j].ppid
    BY <1>1, <2>2
  <2>6. QED BY <1>1, <2>3, <2>4, <2>5
<1>7. ASSUME NEW q \in Kpids, u'[q].status = "alive"
      PROVE  IF q = INIT THEN u'[q].children >= Cardinality(ChildrenOf(q)')
                         ELSE u'[q].children = Cardinality(ChildrenOf(q)')
  <2>1. q # k /\ u[q].status = "alive"
    BY <1>1, <1>7
  <2>2. ChildrenOf(q)' = ChildrenOf(q) \ {k}
    <3>1. \A j \in Slots : j \in ChildrenOf(q)' <=> j \in ChildrenOf(q) /\ j # k
      BY <1>1, <1>2, <1>4, <2>1 DEF ChildrenOf
    <3>2. ChildrenOf(q)' \subseteq Slots /\ ChildrenOf(q) \subseteq Slots
      BY DEF ChildrenOf
    <3>3. QED BY <3>1, <3>2
  <2>3. IF q = INIT THEN u[q].children >= Cardinality(ChildrenOf(q)) ELSE u[q].children = Cardinality(ChildrenOf(q))
    BY <1>3, <2>1 DEF ChildrenCounted
  <2>4. Cardinality(ChildrenOf(q) \ {k}) = IF k \in ChildrenOf(q) THEN Cardinality(ChildrenOf(q)) - 1
                                                                  ELSE Cardinality(ChildrenOf(q))
    BY ChildrenFinite, FS_RemoveElement
  <2>5. Cardinality(ChildrenOf(q)) \in Nat /\ u[q].children \in Nat
    BY <1>3, ChildrenFinite, AreaType
  <2>6. CASE q = p
    BY <1>1, <1>2, <2>2, <2>3, <2>4, <2>5, <2>6
  <2>7. CASE q # p
    <3>1. k \notin ChildrenOf(q)
      <4>1. Exists(k)
        BY <1>2 DEF Exists
      <4>2. u[k].ppid = u[q].pid <=> u[k].pkpid = q
        BY <1>1, <2>1, <4>1, SameParent
      <4>3. QED BY <1>2, <2>7, <4>2 DEF ChildrenOf
    <3>2. u'[q].children = u[q].children
      BY <1>1, <2>1, <2>7
    <3>3. QED BY <2>2, <2>3, <2>4, <3>1, <3>2
  <2>8. QED BY <2>6, <2>7
<1>8. ChildrenCounted'
  BY <1>7 DEF ChildrenCounted
<1>9. IdentitiesUnique'
  BY <1>1, <1>3, <1>4 DEF IdentitiesUnique
<1>10. QED BY <1>5, <1>6, <1>8, <1>9 DEF Ties

LEMMA BurialStep ==
  ASSUME ProcessInv, NEW p \in Kpids, u[p].status = "alive", pc[p] \notin {"none", "fork"}, NEW k \in Zombies(p),
         NEW label \in {"user", "reap"}, NEW f \in Frames, f.child = 0, Buries(p, k, label, f),
         label = "reap" => u[p].handler = "ign"
  PROVE  ProcessInv' /\ [Kin!Next]_(Kin!vars)
<1>1. /\ k \in Slots /\ k # p /\ TypeOK' /\ Range(table') = Range(table) \ {k}
      /\ u'[k].status = "unused" /\ u'[k].handler = "dfl"
      /\ u'[p].children = u[p].children - 1
      /\ \A q \in Kpids \ {k, p} : u'[q] = u[q]
      /\ \A q \in Kpids \ {k} :
              /\ u'[q].status = u[q].status /\ u'[q].pid = u[q].pid /\ u'[q].ppid = u[q].ppid
              /\ u'[q].pkpid = u[q].pkpid
              /\ u'[q].handler = u[q].handler /\ u'[q].sigchld = u[q].sigchld /\ u'[q].blocked = u[q].blocked
      /\ pc'[p] = label /\ frame'[p] = f
      /\ \A q \in Kpids \ {p} : pc'[q] = pc[q] /\ frame'[q] = frame[q]
  BY BurialFacts
<1>2. /\ u[k].status = "zombie" /\ u[k].pkpid = p /\ k # INIT /\ k \in Kpids /\ Exists(k)
      /\ INIT \in Kpids /\ Slots \subseteq Kpids /\ INIT \notin Slots /\ Kpids \ {INIT} = Slots
  BY <1>1, ZombieFacts, SlotsFacts DEF Exists, Kpids
<1>3. TypeOK /\ \A q \in Kpids : Placed(q) /\ Told(q) /\ Informed(q)
  BY DEF ProcessInv, WaiterInformed, Informed
<1>4. Ties'
  BY BurialTies
<1>5. \A q \in Kpids : Exists(q)' <=> Exists(q) /\ q # k
  BY <1>1 DEF Exists
<1>6. pc[k] = "none"
  BY <1>2, <1>3 DEF Placed
<1>7. ASSUME NEW q \in Kpids PROVE Placed(q)'
  <2>1. frame'[q].child = frame[q].child /\ \A l \in Kpids : frame'[l].child = frame[l].child
    <3>1. frame[p].child = 0
      BY <1>3 DEF Placed
    <3>2. QED BY <1>1, <3>1
  <2>2. (pc'[q] = "fork" <=> pc[q] = "fork") /\ (pc'[q] = "none" <=> pc[q] = "none")
    BY <1>1
  <2>3. (u'[q].status = "alive" <=> pc'[q] # "none") /\ (pc'[q] = "exit" => q # INIT)
    BY <1>1, <1>3, <1>6, <2>2 DEF Placed
  <2>4. q # INIT /\ Exists(q)' => q \in Range(table') /\ u'[q].pid > 1 /\ u'[q].pkpid \in Kpids \ {q}
    BY <1>1, <1>3, <1>5 DEF Placed
  <2>5. ASSUME pc[q] = "fork" PROVE frame[q].child \in Range(table') /\ ~Exists(frame[q].child)'
    <3>1. frame[q].child \in Range(table) /\ ~Exists(frame[q].child)
      BY <1>3, <2>5 DEF Placed
    <3>2. frame[q].child \in Kpids /\ frame[q].child # k
      BY <1>2, <1>3, <3>1, TableType
    <3>3. QED BY <1>1, <1>5, <2>1, <3>1, <3>2
  <2>6. QED BY <1>3, <2>1, <2>2, <2>3, <2>4, <2>5 DEF Placed
<1>8. \A q \in Kpids \ {k} : Zombies(q)' \subseteq Zombies(q)
  <2>1. Range(table) \subseteq Kpids
    BY <1>2, <1>3, TableType
  <2>2. QED BY <1>1, <2>1 DEF Zombies
<1>9. ASSUME NEW q \in Kpids PROVE Told(q)' /\ Informed(q)'
  <2>1. CASE q = p
    BY <1>1, <1>3, <1>8, <2>1 DEF Told, Informed
  <2>2. CASE q = k
    BY <1>1, <1>6, <2>2 DEF Told, Informed
  <2>3. CASE q \notin {p, k}
    BY <1>1, <1>3, <1>8, <2>3 DEF Told, Informed
  <2>4. QED BY <2>1, <2>2, <2>3
<1>10. ProcessInv'
  BY <1>1, <1>4, <1>7, <1>9 DEF ProcessInv, WaiterInformed, Informed
<1>11. Kin!Burial(p, k)
  <2>1. Life[p] = "alive" /\ Life[k] = "dead"
    BY <1>2 DEF Life
  <2>2. k \in Kin!Children(p)
    <3>1. Parent[k] = p /\ Life[k] # "none"
      BY <1>1, <1>2 DEF Parent, Life
    <3>2. QED BY <1>1, <3>1, Descendants DEF Kin!Children
  <2>3. Life' = [Life EXCEPT ![k] = "none"]
    <3>1. \A q \in Kpids : Life'[q] = IF q = k THEN "none" ELSE Life[q]
      BY <1>1 DEF Life
    <3>2. QED BY <3>1, LifeFunction
  <2>4. Parent' = [Parent EXCEPT ![k] = INIT]
    <3>1. \A q \in Slots : Parent'[q] = IF q = k THEN INIT ELSE Parent[q]
      BY <1>1, <1>2, <1>5 DEF Parent
    <3>2. QED BY <3>1, ParentFunction
  <2>5. Mourns' = [Mourns EXCEPT ![p] = @ - 1]
    <3>1. \A q \in Slots : Mourns'[q] = IF q = p THEN Mourns[q] - 1 ELSE Mourns[q]
      <4>1. TAKE q \in Slots
      <4>2. CASE q = p
        BY <1>1, <1>2, <4>2 DEF Mourns
      <4>3. CASE q = k
        BY <1>1, <1>2, <4>3 DEF Mourns
      <4>4. CASE q \notin {p, k}
        BY <1>1, <1>2, <4>4 DEF Mourns
      <4>5. QED BY <4>2, <4>3, <4>4
    <3>2. QED BY <3>1, MournsFunction
  <2>6. QED BY <2>1, <2>2, <2>3, <2>4, <2>5 DEF Kin!Burial
<1>12. k \in Kin!Descendants
  BY <1>1, Descendants
<1>13. QED BY <1>10, <1>11, <1>12 DEF Kin!Next

(***************************************************************************)
(* sys_waitpid(), and the loops that release all zombies.                  *)
(***************************************************************************)
LEMMA WaitTurnStep ==
  ASSUME ProcessInv, NEW p \in Kpids, pc[p] \in {"user", "woken"}, NEW f \in Frames, f.child = 0,
         f.all <=> u[p].handler = "ign", WaitTurn(p, f), latest_pid' = latest_pid
  PROVE  ProcessInv' /\ [Kin!Next]_(Kin!vars)
<1>1. /\ TypeOK /\ u[p].status = "alive" /\ u[p] \in Areas /\ u \in [Kpids -> Areas]
      /\ u[p].handler \in {"dfl", "ign", "handler"} /\ u[p].blocked \in BOOLEAN
  BY AreaType DEF ProcessInv, Placed, TypeOK
<1>2. CASE u[p].children = 0 /\ Returns(p) /\ UNCHANGED <<table, u>>
  BY <1>2, PlainStep, NoFrameTyped DEF Returns, Goes
<1>3. CASE Zombies(p) # {} /\ ReleaseZombie(p, PickZombie(p)) /\ Returns(p)
  <2>1. PickZombie(p) \in Zombies(p)
    BY <1>1, <1>3, PickFacts
  <2>2. Buries(p, PickZombie(p), "user", NoFrame)
    BY <1>3 DEF Buries, Returns, Goes
  <2>3. QED BY <1>1, <2>1, <2>2, BurialStep, NoFrameTyped
<1>4. CASE /\ u[p].children > 0 /\ ~f.all
           /\ Zombies(p) # {} => ~Meant(p, f.who, PickZombie(p))
           /\ u' = [u EXCEPT ![p].sigchld = FALSE]
           /\ SleepsUnless(p, f) /\ UNCHANGED table
  <2>1. f.who = AnyChild => Zombies(p) = {}
    BY <1>4 DEF Meant
  <2>2. [u[p] EXCEPT !.sigchld = FALSE, !.blocked = u[p].blocked, !.handler = u[p].handler]
          = [u[p] EXCEPT !.sigchld = FALSE]
    BY <1>1 DEF Areas
  <2>3. u' = [u EXCEPT ![p] = [u[p] EXCEPT !.sigchld = FALSE, !.blocked = u[p].blocked, !.handler = u[p].handler]]
    BY <1>1, <1>4, <2>2
  <2>4. \/ pc' = [pc EXCEPT ![p] = "user"] /\ frame' = [frame EXCEPT ![p] = NoFrame]
        \/ pc' = [pc EXCEPT ![p] = "asleep"] /\ frame' = [frame EXCEPT ![p] = f]
    BY <1>4 DEF SleepsUnless, Returns, Sleeps, Goes
  <2>5. table' = table /\ u[p].handler # "ign"
    BY <1>4
  <2>6. CASE pc' = [pc EXCEPT ![p] = "user"] /\ frame' = [frame EXCEPT ![p] = NoFrame]
    <3>1. Flags(p, "user", NoFrame, FALSE, u[p].blocked, u[p].handler)
      BY <1>1, <2>3, <2>5, <2>6, NoFrameTyped DEF Flags
    <3>2. QED BY <1>1, <3>1, FlagStep
  <2>7. CASE pc' = [pc EXCEPT ![p] = "asleep"] /\ frame' = [frame EXCEPT ![p] = f]
    <3>1. Flags(p, "asleep", f, FALSE, u[p].blocked, u[p].handler)
      BY <1>1, <1>4, <2>1, <2>3, <2>5, <2>7 DEF Flags
    <3>2. QED BY <1>1, <3>1, FlagStep
  <2>8. QED BY <2>4, <2>6, <2>7
<1>5. QED BY <1>2, <1>3, <1>4 DEF WaitTurn

LEMMA WaitAllStep ==
  ASSUME ProcessInv, NEW p \in Kpids, pc[p] \in {"user", "woken"}, NEW f \in Frames, f.child = 0,
         f.all <=> u[p].handler = "ign", WaitAll(p, f), latest_pid' = latest_pid
  PROVE  ProcessInv' /\ UNCHANGED Kin!vars
<1>1. u[p].handler = "ign" /\ (Zombies(p) # {} => u[p].sigchld) /\ table' = table /\ u' = u
  BY DEF ProcessInv, Placed, Told, WaitAll
<1>2. CASE Signalled(p) /\ ~f.nohang
  <2>1. pc' = [pc EXCEPT ![p] = "reap"] /\ frame' = [frame EXCEPT ![p] = f]
    BY <1>2 DEF WaitAll, Goes
  <2>2. QED BY <1>1, <2>1, PlainStep
<1>3. CASE f.nohang
  <2>1. pc' = [pc EXCEPT ![p] = "user"] /\ frame' = [frame EXCEPT ![p] = NoFrame]
    BY <1>3 DEF WaitAll, SleepsUnless, Returns, Goes
  <2>2. QED BY <1>1, <2>1, PlainStep, NoFrameTyped
<1>4. CASE ~Signalled(p) /\ ~f.nohang
  <2>1. pc' = [pc EXCEPT ![p] = "asleep"] /\ frame' = [frame EXCEPT ![p] = f]
    BY <1>4 DEF WaitAll, SleepsUnless, Sleeps, Goes
  <2>2. ~u[p].blocked => Zombies(p) = {}
    BY <1>1, <1>4 DEF Signalled
  <2>3. QED BY <1>1, <2>1, <2>2, PlainStep
<1>5. QED BY <1>2, <1>3, <1>4

LEMMA WaitStep ==
  ASSUME ProcessInv, NEW p \in Kpids, NEW who \in Targets(p), NEW nohang \in BOOLEAN, Wait(p, who, nohang)
  PROVE  ProcessInv' /\ [Kin!Next]_(Kin!vars)
<1> DEFINE f == [child |-> 0, who |-> who, nohang |-> nohang, all |-> u[p].handler = "ign"]
<1>1. TypeOK
  BY DEF ProcessInv
<1>2. who \in (0 - MaxPid)..MaxPid
  <2>1. \A k \in Range(table) : u[k].pid \in 0..MaxPid /\ u[k].session \in 0..MaxPid
    BY <1>1, TableType, SlotsFacts, AreaType
  <2>2. QED BY <2>1, SlotsFacts DEF Targets, AnyChild, MyGroup
<1>3. f \in Frames /\ f.child = 0 /\ (f.all <=> u[p].handler = "ign")
  BY <1>2 DEF Frames
<1>4. pc[p] = "user" /\ (WaitTurn(p, f) \/ WaitAll(p, f)) /\ latest_pid' = latest_pid
  BY DEF Wait
<1> HIDE DEF f
<1>5. CASE WaitTurn(p, f)
  BY <1>3, <1>4, <1>5, WaitTurnStep
<1>6. CASE WaitAll(p, f)
  BY <1>3, <1>4, <1>6, WaitAllStep
<1>7. QED BY <1>4, <1>5, <1>6

LEMMA ResumeStep ==
  ASSUME ProcessInv, NEW p \in Kpids, Resume(p)
  PROVE  ProcessInv' /\ [Kin!Next]_(Kin!vars)
<1>1. /\ TypeOK /\ frame[p] \in Frames /\ pc[p] = "woken" /\ latest_pid' = latest_pid /\ frame[p].child = 0
      /\ frame[p].all <=> u[p].handler = "ign"
      /\ u[p].sigchld
  BY AreaType DEF ProcessInv, Placed, Told, Resume
<1>2. CASE Signalled(p) /\ WaitTurn(p, frame[p])
  BY <1>1, <1>2, WaitTurnStep
<1>3. CASE Signalled(p) /\ WaitAll(p, frame[p])
  BY <1>1, <1>3, WaitAllStep
<1>4. CASE ~Signalled(p) /\ Goes(p, "asleep") /\ UNCHANGED <<table, u, frame>>
  <2>1. frame \in [Kpids -> Frames] /\ frame' = [frame EXCEPT ![p] = frame[p]] /\ u[p].blocked
    BY <1>1, <1>4 DEF TypeOK, Signalled
  <2>2. QED BY <1>1, <1>4, <2>1, PlainStep DEF Goes
<1>5. QED BY <1>2, <1>3, <1>4 DEF Resume

LEMMA ReapStep ==
  ASSUME ProcessInv, NEW p \in Kpids, Reap(p)
  PROVE  ProcessInv' /\ [Kin!Next]_(Kin!vars)
<1>1. /\ TypeOK /\ frame[p] \in Frames /\ pc[p] = "reap" /\ frame[p].child = 0
      /\ u[p].status = "alive" /\ u[p].handler = "ign"
  BY AreaType DEF ProcessInv, Placed, Told, Reap
<1>2. PickZombie(p) \in Zombies(p)
  BY <1>1, PickFacts DEF Reap
<1>3. pc' = [pc EXCEPT ![p] = "reap"] /\ frame' = [frame EXCEPT ![p] = frame[p]]
  BY <1>1 DEF Reap, TypeOK
<1>4. Buries(p, PickZombie(p), "reap", frame[p])
  BY <1>3 DEF Buries, Reap
<1>5. QED BY <1>1, <1>2, <1>4, BurialStep

LEMMA ReapEndStep ==
  ASSUME ProcessInv, NEW p \in Kpids, ReapEnd(p)
  PROVE  ProcessInv' /\ UNCHANGED Kin!vars
<1>1. /\ TypeOK /\ frame[p] \in Frames /\ pc[p] = "reap" /\ frame[p].child = 0
      /\ u[p].handler = "ign" /\ u[p] \in Areas /\ u \in [Kpids -> Areas] /\ u[p].blocked \in BOOLEAN
  BY AreaType DEF ProcessInv, Placed, Told, ReapEnd, TypeOK
<1>2. [u[p] EXCEPT !.sigchld = FALSE, !.blocked = u[p].blocked, !.handler = u[p].handler]
        = [u[p] EXCEPT !.sigchld = FALSE]
  BY <1>1 DEF Areas
<1>3. u' = [u EXCEPT ![p] = [u[p] EXCEPT !.sigchld = FALSE, !.blocked = u[p].blocked, !.handler = u[p].handler]]
  BY <1>1, <1>2 DEF ReapEnd
<1>4. \/ pc' = [pc EXCEPT ![p] = "user"] /\ frame' = [frame EXCEPT ![p] = NoFrame]
      \/ pc' = [pc EXCEPT ![p] = "asleep"] /\ frame' = [frame EXCEPT ![p] = frame[p]] /\ frame[p].all
  BY DEF ReapEnd, Returns, Sleeps, Goes
<1>5. Zombies(p) = {} /\ table' = table /\ latest_pid' = latest_pid
  BY DEF ReapEnd
<1>6. CASE pc' = [pc EXCEPT ![p] = "user"] /\ frame' = [frame EXCEPT ![p] = NoFrame]
  <2>1. Flags(p, "user", NoFrame, FALSE, u[p].blocked, u[p].handler)
    BY <1>1, <1>3, <1>5, <1>6, NoFrameTyped DEF Flags
  <2>2. QED BY <1>1, <2>1, FlagStep
<1>7. CASE pc' = [pc EXCEPT ![p] = "asleep"] /\ frame' = [frame EXCEPT ![p] = frame[p]] /\ frame[p].all
  <2>1. Flags(p, "asleep", frame[p], FALSE, u[p].blocked, u[p].handler)
    BY <1>1, <1>3, <1>5, <1>7 DEF Flags
  <2>2. QED BY <1>1, <2>1, FlagStep
<1>8. QED BY <1>4, <1>6, <1>7

(***************************************************************************)
(* A birth.                                                                *)
(***************************************************************************)
LEMMA ForkStep ==
  ASSUME ProcessInv, NEW p \in Kpids, Fork(p)
  PROVE  ProcessInv' /\ UNCHANGED Kin!vars
<1> DEFINE c == Min(Free)
<1>1. /\ TypeOK /\ \A k \in Kpids : Placed(k) /\ Told(k) /\ Informed(k)
      /\ Slots \subseteq Kpids /\ INIT \notin Slots /\ 0 \notin Slots
  BY SlotsFacts DEF ProcessInv, WaiterInformed, Informed
<1>2. c \in Slots /\ c \notin Range(table)
  <2>1. Free # {} /\ Free \in SUBSET Nat
    BY SlotsFacts DEF Fork, Free
  <2>2. Min(Free) \in Free
    BY <2>1, LowestOf
  <2>3. QED BY <2>2 DEF Free
<1>3. ~Exists(c) /\ u[c].status = "unused" /\ \A k \in Kpids : frame[k].child # c
  <2>1. ~Exists(c) /\ u[c].status = "unused"
    BY <1>1, <1>2 DEF Placed, Exists
  <2>2. ASSUME NEW k \in Kpids, frame[k].child = c PROVE FALSE
    <3>1. frame[k].child # 0
      BY <1>1, <1>2, <2>2
    <3>2. QED BY <1>1, <1>2, <2>2, <3>1 DEF Placed
  <2>3. QED BY <2>1, <2>2
<1>4. /\ pc[p] = "user" /\ table' = Append(table, c) /\ frame' = [frame EXCEPT ![p].child = c]
      /\ pc' = [pc EXCEPT ![p] = "fork"] /\ u' = u /\ latest_pid' = latest_pid
  BY DEF Fork, Goes
<1> HIDE DEF c
<1>5. table' \in Seq(Slots) /\ IsInjective(table') /\ Range(table') = Range(table) \cup {c}
  BY <1>1, <1>2, <1>4, TableType, ListWithLast
<1>6. frame' \in [Kpids -> Frames] /\ frame'[p].child = c /\ \A q \in Kpids \ {p} : frame'[q] = frame[q]
  <2>1. frame[p] \in Frames /\ frame \in [Kpids -> Frames]
    BY <1>1, AreaType DEF TypeOK
  <2>2. [frame[p] EXCEPT !.child = c] \in Frames
    BY <1>2, <2>1 DEF Frames
  <2>3. [frame[p] EXCEPT !.child = c].child = c
    BY <2>1 DEF Frames
  <2>4. frame' = [frame EXCEPT ![p] = [frame[p] EXCEPT !.child = c]]
    BY <1>4, <2>1
  <2>5. QED BY <2>1, <2>2, <2>3, <2>4
<1>7. /\ pc' \in [Kpids -> {"none", "user", "fork", "exit", "asleep", "woken", "reap"}]
      /\ pc'[p] = "fork" /\ \A q \in Kpids \ {p} : pc'[q] = pc[q]
  BY <1>1, <1>4 DEF TypeOK
<1>8. TypeOK'
  BY <1>1, <1>4, <1>5, <1>6, <1>7, NextType DEF TypeOK
<1>9. KinSame /\ \A q \in Kpids : Exists(q)' <=> Exists(q)
  BY <1>4 DEF KinSame, Exists
<1>10. \A q \in Kpids : Zombies(q)' = Zombies(q)
  BY <1>3, <1>4, <1>5 DEF Zombies
<1>11. ASSUME NEW q \in Kpids PROVE Placed(q)'
  <2>1. (u'[q].status = "alive" <=> pc'[q] # "none") /\ (pc'[q] = "exit" => q # INIT)
    BY <1>1, <1>4, <1>7 DEF Placed
  <2>2. q # INIT /\ Exists(q)' => q \in Range(table') /\ u'[q].pid > 1 /\ u'[q].pkpid \in Kpids \ {q}
    BY <1>1, <1>4, <1>5, <1>9 DEF Placed
  <2>3. frame'[q].child # 0 <=> pc'[q] = "fork"
    BY <1>1, <1>2, <1>6, <1>7 DEF Placed
  <2>4. pc'[q] = "fork" => frame'[q].child \in Range(table') /\ ~Exists(frame[q].child)'
    <3>1. CASE q = p
      BY <1>1, <1>2, <1>3, <1>5, <1>6, <1>9, <3>1
    <3>2. CASE q # p
      <4>1. frame'[q] = frame[q] /\ pc'[q] = pc[q]
        BY <1>6, <1>7, <3>2
      <4>2. pc[q] = "fork" => frame[q].child \in Range(table) /\ ~Exists(frame[q].child) /\ frame[q].child \in Kpids
        BY <1>1, TableType DEF Placed
      <4>3. QED BY <1>5, <1>9, <4>1, <4>2
    <3>3. QED BY <3>1, <3>2
  <2>5. \A l \in Kpids : pc'[q] = "fork" /\ frame'[q].child = frame'[l].child => q = l
    <3>1. TAKE l \in Kpids
    <3>2. CASE q = p \/ l = p
      BY <1>3, <1>6, <3>2
    <3>3. CASE q # p /\ l # p
      BY <1>1, <1>6, <1>7, <3>3 DEF Placed
    <3>4. QED BY <3>2, <3>3
  <2>6. QED BY <2>1, <2>2, <2>3, <2>4, <2>5 DEF Placed
<1>12. ASSUME NEW q \in Kpids PROVE Told(q)' /\ Informed(q)'
  <2>1. CASE q = p
    BY <1>1, <1>4, <1>7, <1>10, <2>1 DEF Told, Informed
  <2>2. CASE q # p
    BY <1>1, <1>4, <1>6, <1>7, <1>10, <2>2 DEF Told, Informed
  <2>3. QED BY <2>1, <2>2
<1>13. Ties'
  BY <1>9, TiesKept
<1>14. ProcessInv'
  BY <1>8, <1>11, <1>12, <1>13 DEF ProcessInv, WaiterInformed, Informed
<1>15. QED BY <1>1, <1>9, <1>14, KinStutters

\* The end of sys_fork() by p: its child gets slot c and this pid.
Bears(p, c, pid) == ForkEnd(p) /\ c = frame[p].child /\ pid = UnusedPid(p)

\* What that leaves.
Born(p, c, pid) ==
    /\ c \in Slots /\ c # p /\ c \in Range(table) /\ u[c].status = "unused" /\ u[p].status = "alive"
    /\ pc[p] = "fork" /\ pid \in 2..MaxPid
    /\ \A q \in Kpids : Exists(q) => u[q].pid # pid /\ u[q].session # pid
    /\ TypeOK' /\ table' = table
    /\ u'[c].status = "alive" /\ u'[c].pid = pid /\ u'[c].ppid = u[p].pid /\ u'[c].pkpid = p
    /\ u'[c].children = 0 /\ u'[c].session = u[p].session /\ u'[c].leader = FALSE
    /\ u'[p].children = u[p].children + 1
    /\ \A q \in Kpids \ {c, p} : u'[q] = u[q]
    /\ \A q \in Kpids \ {c} :
         /\ u'[q].status = u[q].status /\ u'[q].pid = u[q].pid /\ u'[q].ppid = u[q].ppid
         /\ u'[q].pkpid = u[q].pkpid /\ u'[q].session = u[q].session /\ u'[q].leader = u[q].leader
         /\ u'[q].handler = u[q].handler /\ u'[q].sigchld = u[q].sigchld /\ u'[q].blocked = u[q].blocked
    /\ pc'[p] = "user" /\ pc'[c] = "user" /\ \A q \in Kpids \ {c, p} : pc'[q] = pc[q]
    /\ frame'[p] = NoFrame /\ \A q \in Kpids \ {p} : frame'[q] = frame[q]

LEMMA BirthFacts ==
  ASSUME ProcessInv, NEW p \in Kpids, NEW c, NEW pid, Bears(p, c, pid)
  PROVE  Born(p, c, pid)
<1>1. TypeOK /\ Placed(p) /\ pc[p] = "fork" /\ table' = table /\ u \in [Kpids -> Areas]
  BY DEF ProcessInv, Bears, ForkEnd, TypeOK
<1>2. /\ c \in Slots /\ c # p /\ c \in Range(table) /\ u[c].status = "unused" /\ u[p].status = "alive"
      /\ c \in Kpids
  BY <1>1, TableType, SlotsFacts DEF Placed, Exists, Bears
<1>3. pid \in 2..MaxPid /\ \A q \in Kpids : Exists(q) => u[q].pid # pid /\ u[q].session # pid
  BY <1>1, FreshPid DEF Bears
<1> DEFINE v == [u[p] EXCEPT !.children = u[p].children + 1]
           w == [u[p] EXCEPT !.pid = pid, !.ppid = u[p].pid, !.pkpid = p,
                             !.children = 0, !.leader = FALSE, !.sigchld = FALSE]
<1>4. u[p] \in Areas /\ u[p].children \in Nat /\ u[p].pid \in 0..MaxPid
  BY <1>1, AreaType
<1>5. /\ v \in Areas /\ v.children = u[p].children + 1
      /\ v.status = u[p].status /\ v.pid = u[p].pid /\ v.ppid = u[p].ppid /\ v.pkpid = u[p].pkpid
      /\ v.session = u[p].session /\ v.leader = u[p].leader
      /\ v.handler = u[p].handler /\ v.sigchld = u[p].sigchld /\ v.blocked = u[p].blocked
  BY <1>4 DEF Areas
<1>6. /\ w \in Areas /\ w.status = "alive" /\ w.pid = pid /\ w.ppid = u[p].pid /\ w.pkpid = p
      /\ w.children = 0 /\ w.session = u[p].session /\ w.leader = FALSE
  <2>1. pid \in 0..MaxPid
    BY <1>3
  <2>2. QED BY <1>2, <1>4, <2>1 DEF Areas
<1>7. u' = [u EXCEPT ![p].children = @ + 1, ![c] = w]
  BY DEF Bears, ForkEnd
<1>8. u' = [u EXCEPT ![p] = v, ![c] = w]
  BY <1>1, <1>7
<1> HIDE DEF v, w
<1>9. u' \in [Kpids -> Areas] /\ u'[c] = w /\ u'[p] = v /\ \A q \in Kpids \ {c, p} : u'[q] = u[q]
  BY <1>1, <1>2, <1>5, <1>6, <1>8
<1>10. /\ pc' \in [Kpids -> {"none", "user", "fork", "exit", "asleep", "woken", "reap"}]
       /\ pc'[p] = "user" /\ pc'[c] = "user" /\ \A q \in Kpids \ {c, p} : pc'[q] = pc[q]
  BY <1>1, <1>2 DEF Bears, ForkEnd, TypeOK
<1>11. frame' \in [Kpids -> Frames] /\ frame'[p] = NoFrame /\ \A q \in Kpids \ {p} : frame'[q] = frame[q]
  BY <1>1, NoFrameTyped DEF Bears, ForkEnd, TypeOK
<1>12. latest_pid' \in 1..MaxPid
  BY <1>3 DEF Bears, ForkEnd
<1>13. TypeOK'
  BY <1>1, <1>9, <1>10, <1>11, <1>12, TableType, NextType
<1>14. \A q \in Kpids \ {c} :
              /\ u'[q].status = u[q].status /\ u'[q].pid = u[q].pid /\ u'[q].ppid = u[q].ppid
              /\ u'[q].pkpid = u[q].pkpid /\ u'[q].session = u[q].session /\ u'[q].leader = u[q].leader
              /\ u'[q].handler = u[q].handler /\ u'[q].sigchld = u[q].sigchld /\ u'[q].blocked = u[q].blocked
  <2>1. TAKE q \in Kpids \ {c}
  <2>2. CASE q = p
    BY <1>5, <1>9, <2>2
  <2>3. CASE q # p
    BY <1>9, <2>3
  <2>4. QED BY <2>2, <2>3
<1>15. QED BY <1>1, <1>2, <1>3, <1>5, <1>6, <1>9, <1>10, <1>11, <1>13, <1>14 DEF Born

LEMMA BirthTies ==
  ASSUME ProcessInv, NEW p \in Kpids, NEW c, NEW pid, Bears(p, c, pid)
  PROVE  Ties'
<1>1. /\ c \in Slots /\ c # p /\ u[c].status = "unused" /\ u[p].status = "alive" /\ pid \in 2..MaxPid
      /\ \A q \in Kpids : Exists(q) => u[q].pid # pid /\ u[q].session # pid
      /\ u'[c].status = "alive" /\ u'[c].pid = pid /\ u'[c].ppid = u[p].pid /\ u'[c].pkpid = p
      /\ u'[c].children = 0 /\ u'[c].session = u[p].session /\ u'[c].leader = FALSE
      /\ u'[p].children = u[p].children + 1
      /\ \A q \in Kpids \ {c, p} : u'[q] = u[q]
      /\ \A q \in Kpids \ {c} :
           /\ u'[q].status = u[q].status /\ u'[q].pid = u[q].pid /\ u'[q].ppid = u[q].ppid
           /\ u'[q].pkpid = u[q].pkpid /\ u'[q].session = u[q].session /\ u'[q].leader = u[q].leader
  <2>1. Born(p, c, pid)
    BY BirthFacts
  <2>2. QED BY <2>1 DEF Born
<1>2. INIT \in Kpids /\ Slots \subseteq Kpids /\ INIT \notin Slots /\ c # INIT /\ c \in Kpids
  BY <1>1, SlotsFacts
<1>3. TypeOK /\ InitLives /\ ParentsAgree /\ ChildrenCounted /\ IdentitiesUnique
  BY DEF ProcessInv, Ties
<1>4. (\A q \in Kpids : Exists(q)' <=> Exists(q) \/ q = c) /\ ~Exists(c) /\ Exists(p)
  BY <1>1 DEF Exists
<1>5. InitLives'
  BY <1>1, <1>2, <1>3 DEF InitLives
<1>6. ASSUME NEW j \in Slots, Exists(j)
      PROVE  /\ u[j].pkpid \in Kpids /\ u[u[j].pkpid].status = "alive" /\ u[u[j].pkpid].pid = u[j].ppid
             /\ u[j].pkpid # c /\ u[j].ppid # pid
  <2>1. u[j].pkpid \in Kpids /\ u[u[j].pkpid].status = "alive" /\ u[u[j].pkpid].pid = u[j].ppid
    BY <1>2, <1>3, <1>6 DEF ProcessInv, Placed, ParentsAgree
  <2>2. Exists(u[j].pkpid)
    BY <2>1 DEF Exists
  <2>3. QED BY <1>1, <2>1, <2>2
<1>7. ParentsAgree'
  <2>1. SUFFICES ASSUME NEW j \in Slots, Exists(j)'
                 PROVE  u'[u'[j].pkpid].status = "alive" /\ u'[u'[j].pkpid].pid = u'[j].ppid
    BY DEF ParentsAgree
  <2>2. CASE j = c
    BY <1>1, <2>2
  <2>3. CASE j # c
    <3>1. Exists(j) /\ j \in Kpids
      BY <1>2, <1>4, <2>1, <2>3
    <3>2. u'[j].pkpid = u[j].pkpid /\ u'[j].ppid = u[j].ppid
      BY <1>1, <2>3, <3>1
    <3>3. QED BY <1>1, <1>6, <3>1, <3>2
  <2>4. QED BY <2>2, <2>3
<1>8. ASSUME NEW q \in Kpids, u'[q].status = "alive"
      PROVE  IF q = INIT THEN u'[q].children >= Cardinality(ChildrenOf(q)')
                         ELSE u'[q].children = Cardinality(ChildrenOf(q)')
  <2>1. CASE q = c
    <3>1. ASSUME NEW j \in Slots, Exists(j)' PROVE u'[j].ppid # pid
      <4>1. CASE j = c
        BY <1>1, <1>4, <2>1, <4>1
      <4>2. CASE j # c
        BY <1>1, <1>2, <1>4, <1>6, <3>1, <4>2
      <4>3. QED BY <4>1, <4>2
    <3>2. ChildrenOf(q)' = {}
      BY <1>1, <2>1, <3>1 DEF ChildrenOf
    <3>3. QED BY <1>1, <1>2, <2>1, <3>2, FS_EmptySet
  <2>2. CASE q = p
    <3>1. ChildrenOf(q)' = ChildrenOf(q) \cup {c} /\ c \notin ChildrenOf(q)
      <4>1. \A j \in Slots : j \in ChildrenOf(q)' <=> j \in ChildrenOf(q) \/ j = c
        BY <1>1, <1>2, <1>4, <2>2 DEF ChildrenOf
      <4>2. ChildrenOf(q)' \subseteq Slots /\ ChildrenOf(q) \subseteq Slots /\ c \notin ChildrenOf(q)
        BY <1>4 DEF ChildrenOf
      <4>3. QED BY <1>1, <4>1, <4>2
    <3>2. Cardinality(ChildrenOf(q)') = Cardinality(ChildrenOf(q)) + 1
      BY <3>1, ChildrenFinite, FS_AddElement
    <3>3. IF q = INIT THEN u[q].children >= Cardinality(ChildrenOf(q)) ELSE u[q].children = Cardinality(ChildrenOf(q))
      BY <1>1, <1>3, <2>2 DEF ChildrenCounted
    <3>4. Cardinality(ChildrenOf(q)) \in Nat /\ u[q].children \in Nat
      BY <1>3, ChildrenFinite, AreaType
    <3>5. QED BY <1>1, <2>2, <3>2, <3>3, <3>4
  <2>3. CASE q # c /\ q # p
    <3>1. u'[q] = u[q] /\ u[q].status = "alive" /\ Exists(q)
      BY <1>1, <1>8, <2>3 DEF Exists
    <3>2. u[q].pid # u[p].pid
      BY <1>3, <1>4, <2>3, <3>1 DEF IdentitiesUnique
    <3>3. ChildrenOf(q)' = ChildrenOf(q)
      <4>1. \A j \in Slots : j \in ChildrenOf(q)' <=> j \in ChildrenOf(q)
        BY <1>1, <1>2, <1>4, <3>1, <3>2 DEF ChildrenOf
      <4>2. ChildrenOf(q)' \subseteq Slots /\ ChildrenOf(q) \subseteq Slots
        BY DEF ChildrenOf
      <4>3. QED BY <4>1, <4>2
    <3>4. QED BY <1>3, <3>1, <3>3 DEF ChildrenCounted
  <2>4. QED BY <2>1, <2>2, <2>3
<1>9. ChildrenCounted'
  BY <1>8 DEF ChildrenCounted
<1>10. IdentitiesUnique'
  <2>1. SUFFICES ASSUME NEW k \in Kpids, NEW l \in Kpids, Exists(k)', Exists(l)'
                 PROVE  /\ u'[k].pid = u'[l].pid => k = l
                        /\ u'[l].session = u'[k].pid => u'[k].leader
    BY DEF IdentitiesUnique
  <2>2. ASSUME NEW q \in Kpids, q # c, Exists(q)'
        PROVE  Exists(q) /\ u'[q].pid = u[q].pid /\ u'[q].session = u[q].session /\ u'[q].leader = u[q].leader
    BY <1>1, <1>4, <2>2
  <2>3. CASE k # c /\ l # c
    BY <1>3, <2>1, <2>2, <2>3 DEF IdentitiesUnique
  <2>4. CASE k = c /\ l # c
    BY <1>1, <2>1, <2>2, <2>4
  <2>5. CASE k # c /\ l = c
    <3>1. u'[k].pid # u'[l].pid
      BY <1>1, <2>1, <2>2, <2>5
    <3>2. u[p].session = u[k].pid => u[k].leader
      BY <1>3, <1>4, <2>1, <2>2, <2>5 DEF IdentitiesUnique
    <3>3. QED BY <1>1, <2>1, <2>2, <2>5, <3>1, <3>2
  <2>6. CASE k = c /\ l = c
    BY <1>1, <1>4, <2>6
  <2>7. QED BY <2>3, <2>4, <2>5, <2>6
<1>11. QED BY <1>5, <1>7, <1>9, <1>10 DEF Ties

LEMMA ForkEndStep ==
  ASSUME ProcessInv, NEW p \in Kpids, ForkEnd(p)
  PROVE  ProcessInv' /\ [Kin!Next]_(Kin!vars)
<1>0. PICK c, pid : Bears(p, c, pid)
  BY DEF Bears
<1>1. /\ c \in Slots /\ c # p /\ c \in Range(table) /\ u[c].status = "unused" /\ u[p].status = "alive"
      /\ pc[p] = "fork" /\ pid \in 2..MaxPid
      /\ \A q \in Kpids : Exists(q) => u[q].pid # pid
      /\ TypeOK' /\ table' = table
      /\ u'[c].status = "alive" /\ u'[c].pid = pid /\ u'[c].pkpid = p /\ u'[c].children = 0
      /\ u'[p].children = u[p].children + 1
      /\ \A q \in Kpids \ {c, p} : u'[q] = u[q]
      /\ \A q \in Kpids \ {c} :
           /\ u'[q].status = u[q].status /\ u'[q].pid = u[q].pid /\ u'[q].ppid = u[q].ppid
           /\ u'[q].pkpid = u[q].pkpid
           /\ u'[q].handler = u[q].handler /\ u'[q].sigchld = u[q].sigchld /\ u'[q].blocked = u[q].blocked
      /\ pc'[p] = "user" /\ pc'[c] = "user" /\ \A q \in Kpids \ {c, p} : pc'[q] = pc[q]
      /\ frame'[p] = NoFrame /\ \A q \in Kpids \ {p} : frame'[q] = frame[q]
  <2>1. Born(p, c, pid)
    BY <1>0, BirthFacts
  <2>2. QED BY <2>1 DEF Born
<1>2. Ties'
  BY <1>0, BirthTies
<1>3. /\ TypeOK /\ ParentsAgree /\ (\A q \in Kpids : Placed(q) /\ Told(q) /\ Informed(q))
      /\ INIT \in Kpids /\ Slots \subseteq Kpids /\ INIT \notin Slots /\ c \in Kpids /\ c # INIT
      /\ 0 \notin Slots
  BY <1>1, SlotsFacts DEF ProcessInv, Ties, WaiterInformed, Informed
<1>4. frame[p].child = c
  BY <1>0 DEF Bears
<1>5. (\A q \in Kpids : Exists(q)' <=> Exists(q) \/ q = c) /\ ~Exists(c)
  BY <1>1 DEF Exists
<1>6. frame[c].child = 0 /\ pc[c] = "none"
  BY <1>1, <1>3 DEF Placed
<1>7. ASSUME NEW q \in Kpids PROVE Placed(q)'
  <2>1. (u'[q].status = "alive" <=> pc'[q] # "none") /\ (pc'[q] = "exit" => q # INIT)
    <3>1. CASE q \in {c, p}
      BY <1>1, <3>1
    <3>2. CASE q \notin {c, p}
      BY <1>1, <1>3, <3>2 DEF Placed
    <3>3. QED BY <3>1, <3>2
  <2>2. q # INIT /\ Exists(q)' => q \in Range(table') /\ u'[q].pid > 1 /\ u'[q].pkpid \in Kpids \ {q}
    <3>1. CASE q = c
      BY <1>1, <3>1
    <3>2. CASE q # c
      BY <1>1, <1>3, <1>5, <3>2 DEF Placed
    <3>3. QED BY <3>1, <3>2
  <2>3. ASSUME NEW l \in Kpids
        PROVE  frame'[l].child = (IF l = p THEN 0 ELSE frame[l].child) /\ (pc'[l] = "fork" <=> pc[l] = "fork" /\ l # p)
    BY <1>1, <1>6, NoFrameTyped
  <2>4. frame'[q].child # 0 <=> pc'[q] = "fork"
    BY <1>3, <2>3 DEF Placed
  <2>5. ASSUME pc'[q] = "fork" PROVE frame'[q].child \in Range(table') /\ ~Exists(frame[q].child)'
    <3>1. q # p /\ pc[q] = "fork" /\ frame'[q].child = frame[q].child
      BY <2>3, <2>5
    <3>2. frame[q].child \in Range(table) /\ ~Exists(frame[q].child) /\ frame[q].child \in Kpids /\ frame[q].child # c
      BY <1>3, <1>4, <3>1, TableType DEF Placed
    <3>3. QED BY <1>1, <1>5, <3>1, <3>2
  <2>6. ASSUME NEW l \in Kpids, pc'[q] = "fork", frame'[q].child = frame'[l].child PROVE q = l
    <3>1. q # p /\ pc[q] = "fork" /\ frame[q].child # 0 /\ frame[q].child = frame[l].child
      BY <1>3, <2>3, <2>6 DEF Placed
    <3>2. QED BY <1>3, <3>1 DEF Placed
  <2>7. QED BY <2>1, <2>2, <2>4, <2>5, <2>6 DEF Placed
<1>8. Range(table) \subseteq Slots
  BY <1>3, TableType
<1>9. \A q \in Kpids \ {c} : Zombies(q)' = Zombies(q)
  <2>1. TAKE q \in Kpids \ {c}
  <2>2. \A k \in Slots : /\ u'[k].status = "zombie" <=> u[k].status = "zombie"
                         /\ u[k].status = "zombie" => u'[k].ppid = u[k].ppid
    BY <1>1, <1>3
  <2>3. QED BY <1>1, <1>8, <2>2 DEF Zombies
<1>10. Zombies(c)' = {}
  <2>1. ASSUME NEW k \in Slots, u'[k].status = "zombie" PROVE u'[k].ppid # pid
    <3>1. k # c /\ u[k].status = "zombie" /\ Exists(k) /\ k \in Kpids
      BY <1>1, <1>3, <2>1 DEF Exists
    <3>2. u[k].pkpid \in Kpids /\ u[u[k].pkpid].status = "alive" /\ u[u[k].pkpid].pid = u[k].ppid
      BY <1>3, <3>1 DEF Placed, ParentsAgree
    <3>3. Exists(u[k].pkpid)
      BY <3>2 DEF Exists
    <3>4. QED BY <1>1, <3>1, <3>2, <3>3
  <2>2. QED BY <1>1, <1>8, <2>1 DEF Zombies
<1>11. ASSUME NEW q \in Kpids PROVE Told(q)' /\ Informed(q)'
  <2>1. CASE q = c
    BY <1>1, <1>10, <2>1 DEF Told, Informed
  <2>2. CASE q = p
    BY <1>1, <1>3, <1>9, <2>2 DEF Told, Informed
  <2>3. CASE q \notin {c, p}
    BY <1>1, <1>3, <1>9, <2>3 DEF Told, Informed
  <2>4. QED BY <2>1, <2>2, <2>3
<1>12. ProcessInv'
  BY <1>1, <1>2, <1>7, <1>11 DEF ProcessInv, WaiterInformed, Informed
<1>13. Kin!Birth(p, c)
  <2>1. Life[p] = "alive" /\ Life[c] = "none"
    BY <1>1, <1>3 DEF Life
  <2>2. Life' = [Life EXCEPT ![c] = "alive"]
    <3>1. \A q \in Kpids : Life'[q] = IF q = c THEN "alive" ELSE Life[q]
      BY <1>1 DEF Life
    <3>2. QED BY <3>1, LifeFunction
  <2>3. Parent' = [Parent EXCEPT ![c] = p]
    <3>1. \A q \in Slots : Parent'[q] = IF q = c THEN p ELSE Parent[q]
      BY <1>1, <1>3, <1>5 DEF Parent
    <3>2. QED BY <3>1, ParentFunction
  <2>4. Mourns' = [Mourns EXCEPT ![p] = @ + 1]
    <3>1. \A q \in Slots : Mourns'[q] = IF q = p THEN Mourns[q] + 1 ELSE Mourns[q]
      <4>1. TAKE q \in Slots
      <4>2. CASE q = p
        BY <1>1, <1>3, <4>2 DEF Mourns
      <4>3. CASE q = c
        BY <1>1, <1>3, <4>3 DEF Mourns
      <4>4. CASE q \notin {p, c}
        BY <1>1, <1>3, <4>4 DEF Mourns
      <4>5. QED BY <4>2, <4>3, <4>4
    <3>2. QED BY <3>1, MournsFunction
  <2>5. QED BY <2>1, <2>2, <2>3, <2>4 DEF Kin!Birth
<1>14. c \in Kin!Descendants
  BY <1>1, Descendants
<1>15. QED BY <1>12, <1>13, <1>14 DEF Kin!Next

(***************************************************************************)
(* A death.                                                                *)
(***************************************************************************)
LEMMA OrphansFinite ==
  ASSUME TypeOK, NEW p
  PROVE  IsFiniteSet(Orphans(p)) /\ Cardinality(Orphans(p)) \in Nat /\ Orphans(p) \subseteq Slots
<1>1. Orphans(p) \subseteq Slots
  BY TableType DEF Orphans
<1>2. QED BY <1>1, SlotsFacts, FS_Subset, FS_CardinalityType

\* What the end of sys_exit() leaves.
Died(p) ==
    /\ p # INIT /\ p \in Slots /\ u[p].status = "alive" /\ pc[p] = "exit"
    /\ TypeOK' /\ table' = table /\ frame' = frame
    /\ u'[p].status = "zombie" /\ u'[p].children = 0 /\ u'[p].handler = "dfl"
    /\ u'[p].pid = u[p].pid /\ u'[p].ppid = u[p].ppid /\ u'[p].pkpid = u[p].pkpid
    /\ u'[p].session = u[p].session /\ u'[p].leader = u[p].leader
    /\ u'[INIT].children = u[INIT].children + Cardinality(Orphans(p))
    /\ \A q \in Kpids \ {p} :
         /\ u'[q].status = u[q].status /\ u'[q].pid = u[q].pid /\ u'[q].leader = u[q].leader
         /\ u'[q].handler = u[q].handler /\ u'[q].blocked = u[q].blocked
         /\ u'[q].ppid = (IF q \in Orphans(p) THEN 1 ELSE u[q].ppid)
         /\ u'[q].pkpid = (IF q \in Orphans(p) THEN INIT ELSE u[q].pkpid)
         /\ q # INIT => u'[q].children = u[q].children
         /\ u'[q].session = (IF Dismissed(p, q) THEN 0 ELSE u[q].session)
         /\ u'[q].sigchld <=> (u[q].sigchld \/ q \in Mourners(p))
         /\ pc'[q] = (IF q \in Mourners(p) /\ pc[q] = "asleep" THEN "woken" ELSE pc[q])
    /\ pc'[p] = "none"

LEMMA DeathFacts ==
  ASSUME ProcessInv, NEW p \in Kpids, ExitEnd(p)
  PROVE  Died(p)
<1>1. /\ TypeOK /\ u \in [Kpids -> Areas] /\ pc[p] = "exit" /\ p # INIT /\ p \in Slots /\ u[p].status = "alive"
      /\ INIT \in Kpids /\ INIT \notin Slots /\ Slots \subseteq Kpids /\ 1 \in 0..MaxPid /\ 0 \in 0..MaxPid
      /\ table' = table /\ frame' = frame /\ latest_pid' = latest_pid
  <2>1. pc[p] = "exit" /\ TypeOK /\ Placed(p) /\ u \in [Kpids -> Areas]
    BY DEF ProcessInv, ExitEnd, TypeOK
  <2>2. p # INIT /\ p \in Slots /\ u[p].status = "alive"
    BY <2>1 DEF Placed, Kpids
  <2>3. 1 \in 0..MaxPid /\ 0 \in 0..MaxPid
    BY SlotsFacts
  <2>4. QED BY <2>1, <2>2, <2>3, SlotsFacts DEF ExitEnd
<1>2. INIT \notin Orphans(p) /\ Orphans(p) \subseteq Slots /\ Cardinality(Orphans(p)) \in Nat
  BY <1>1, OrphansFinite
<1> DEFINE After0(k) == [Adopted(p, k) EXCEPT !.session = IF Dismissed(p, k) THEN 0 ELSE @,
                                              !.sigchld = @ \/ k \in Mourners(p)]
<1>3. u' = [k \in Kpids |-> IF k = p THEN Dead(p) ELSE After0(k)]
  BY DEF ExitEnd
<1>4. /\ Dead(p) \in Areas /\ Dead(p).status = "zombie" /\ Dead(p).children = 0 /\ Dead(p).handler = "dfl"
      /\ Dead(p).pid = u[p].pid /\ Dead(p).ppid = u[p].ppid /\ Dead(p).pkpid = u[p].pkpid
      /\ Dead(p).session = u[p].session /\ Dead(p).leader = u[p].leader
  <2>1. u[p] \in Areas
    BY <1>1
  <2>2. QED BY <2>1 DEF Dead, Areas
<1>5. ASSUME NEW q \in Kpids \ {p}
      PROVE  /\ After0(q) \in Areas
             /\ After0(q).status = u[q].status /\ After0(q).pid = u[q].pid /\ After0(q).leader = u[q].leader
             /\ After0(q).handler = u[q].handler /\ After0(q).blocked = u[q].blocked
             /\ After0(q).ppid = (IF q \in Orphans(p) THEN 1 ELSE u[q].ppid)
             /\ After0(q).pkpid = (IF q \in Orphans(p) THEN INIT ELSE u[q].pkpid)
             /\ q # INIT => After0(q).children = u[q].children
             /\ q = INIT => After0(q).children = u[INIT].children + Cardinality(Orphans(p))
             /\ After0(q).session = (IF Dismissed(p, q) THEN 0 ELSE u[q].session)
             /\ After0(q).sigchld <=> (u[q].sigchld \/ q \in Mourners(p))
  <2> DEFINE a == Adopted(p, q)
  <2>1. u[q] \in Areas
    BY <1>1
  <2>2. /\ a \in Areas
        /\ a.status = u[q].status /\ a.pid = u[q].pid /\ a.leader = u[q].leader
        /\ a.handler = u[q].handler /\ a.blocked = u[q].blocked
        /\ a.session = u[q].session /\ a.sigchld = u[q].sigchld
        /\ a.ppid = (IF q \in Orphans(p) THEN 1 ELSE u[q].ppid)
        /\ a.pkpid = (IF q \in Orphans(p) THEN INIT ELSE u[q].pkpid)
        /\ q # INIT => a.children = u[q].children
        /\ q = INIT => a.children = u[INIT].children + Cardinality(Orphans(p))
    <3>1. CASE q \in Orphans(p)
      <4>1. a = [u[q] EXCEPT !.ppid = 1, !.pkpid = INIT] /\ q # INIT
        BY <1>2, <3>1 DEF Adopted
      <4>2. QED BY <1>1, <2>1, <3>1, <4>1 DEF Areas
    <3>2. CASE q = INIT
      <4>1. a = [u[q] EXCEPT !.children = u[q].children + Cardinality(Orphans(p))] /\ q \notin Orphans(p)
        BY <1>2, <3>2 DEF Adopted
      <4>2. QED BY <1>1, <1>2, <2>1, <3>2, <4>1 DEF Areas
    <3>3. CASE q \notin Orphans(p) /\ q # INIT
      BY <2>1, <3>3 DEF Adopted, Areas
    <3>4. QED BY <3>1, <3>2, <3>3
  <2> DEFINE s == IF Dismissed(p, q) THEN 0 ELSE u[q].session
             b == u[q].sigchld \/ q \in Mourners(p)
  <2>3. s \in 0..MaxPid /\ b \in BOOLEAN
    <3>1. u[q].session \in 0..MaxPid
      BY <1>1, AreaType
    <3>2. QED BY <1>1, <3>1
  <2>4. After0(q) = [a EXCEPT !.session = s, !.sigchld = b]
    BY <2>2
  <2> HIDE DEF a, After0
  <2>5. s = (IF Dismissed(p, q) THEN 0 ELSE u[q].session) /\ (b <=> (u[q].sigchld \/ q \in Mourners(p)))
    OBVIOUS
  <2> HIDE DEF s, b
  <2>6. /\ After0(q) \in Areas /\ After0(q).session = s /\ After0(q).sigchld = b
        /\ After0(q).status = a.status /\ After0(q).pid = a.pid /\ After0(q).leader = a.leader
        /\ After0(q).handler = a.handler /\ After0(q).blocked = a.blocked
        /\ After0(q).ppid = a.ppid /\ After0(q).pkpid = a.pkpid /\ After0(q).children = a.children
    <3>1. a \in Areas
      BY <2>2
    <3>2. QED BY <2>3, <2>4, <3>1 DEF Areas
  <2>7. QED BY <2>2, <2>5, <2>6
<1> HIDE DEF After0
<1>6. u' \in [Kpids -> Areas] /\ u'[p] = Dead(p) /\ \A q \in Kpids \ {p} : u'[q] = After0(q)
  BY <1>3, <1>4, <1>5
<1>7. /\ pc' \in [Kpids -> {"none", "user", "fork", "exit", "asleep", "woken", "reap"}] /\ pc'[p] = "none"
      /\ \A q \in Kpids \ {p} : pc'[q] = (IF q \in Mourners(p) /\ pc[q] = "asleep" THEN "woken" ELSE pc[q])
  BY <1>1 DEF ExitEnd, TypeOK
<1>8. TypeOK'
  BY <1>1, <1>6, <1>7, TableType, NextType DEF TypeOK
<1>9. u'[INIT].children = u[INIT].children + Cardinality(Orphans(p))
  BY <1>1, <1>5, <1>6
<1>10. QED BY <1>1, <1>4, <1>5, <1>6, <1>7, <1>8, <1>9 DEF Died

\* An orphan is a child by slot, too.
LEMMA OrphanFacts ==
  ASSUME ProcessInv, NEW p \in Slots, u[p].status = "alive", NEW k \in Slots, Exists(k)
  PROVE  (k \in Orphans(p) <=> u[k].pkpid = p) /\ (k \in Orphans(p) <=> u[k].ppid = u[p].pid)
<1>1. k \in Range(table) /\ p \in Kpids /\ k \in Kpids
  BY SlotsFacts DEF ProcessInv, Placed
<1>2. QED BY <1>1, SameParent DEF Orphans

LEMMA DeathTies ==
  ASSUME ProcessInv, NEW p \in Kpids, Died(p)
  PROVE  Ties'
<1>1. /\ p # INIT /\ p \in Slots /\ u[p].status = "alive"
      /\ u'[p].status = "zombie"
      /\ u'[p].pid = u[p].pid /\ u'[p].ppid = u[p].ppid /\ u'[p].pkpid = u[p].pkpid
      /\ u'[p].session = u[p].session /\ u'[p].leader = u[p].leader
      /\ u'[INIT].children = u[INIT].children + Cardinality(Orphans(p))
      /\ \A q \in Kpids \ {p} :
           /\ u'[q].status = u[q].status /\ u'[q].pid = u[q].pid /\ u'[q].leader = u[q].leader
           /\ u'[q].ppid = (IF q \in Orphans(p) THEN 1 ELSE u[q].ppid)
           /\ u'[q].pkpid = (IF q \in Orphans(p) THEN INIT ELSE u[q].pkpid)
           /\ q # INIT => u'[q].children = u[q].children
           /\ u'[q].session = (IF Dismissed(p, q) THEN 0 ELSE u[q].session)
  BY DEF Died
<1>2. INIT \in Kpids /\ Slots \subseteq Kpids /\ INIT \notin Slots /\ Kpids = {INIT} \cup Slots
  BY <1>1, SlotsFacts DEF Kpids
<1>3. /\ TypeOK /\ InitLives /\ ParentsAgree /\ ChildrenCounted /\ IdentitiesUnique
      /\ \A q \in Kpids : Placed(q)
  BY DEF ProcessInv, Ties
<1>4. (\A q \in Kpids : Exists(q)' <=> Exists(q)) /\ Exists(p)
  BY <1>1 DEF Exists
<1>5. \A q \in Kpids : u'[q].pid = u[q].pid /\ u'[q].leader = u[q].leader
  BY <1>1
<1>6. Orphans(p) \subseteq Slots /\ Range(table) \subseteq Slots
  BY <1>3, OrphansFinite, TableType
<1>7. InitLives'
  <2>1. ~Dismissed(p, INIT)
    BY <1>2, <1>6 DEF Dismissed
  <2>2. QED BY <1>1, <1>2, <1>3, <2>1 DEF InitLives
<1>8. ASSUME NEW j \in Slots, Exists(j)
      PROVE  /\ u[j].pkpid \in Kpids /\ u[u[j].pkpid].status = "alive" /\ u[u[j].pkpid].pid = u[j].ppid
             /\ (j \in Orphans(p) <=> u[j].pkpid = p) /\ (j \in Orphans(p) <=> u[j].ppid = u[p].pid)
             /\ u[j].pkpid # j
  BY <1>1, <1>2, <1>3, <1>8, OrphanFacts DEF Placed, ParentsAgree
<1>9. ASSUME NEW j \in Slots, Exists(j)'
      PROVE  /\ u'[j].ppid = IF j \in Orphans(p) THEN 1 ELSE u[j].ppid
             /\ u'[j].pkpid = IF j \in Orphans(p) THEN INIT ELSE u[j].pkpid
  <2>1. CASE j = p
    <3>1. p \notin Orphans(p)
      BY <1>1, <1>4, <1>8
    <3>2. QED BY <1>1, <2>1, <3>1
  <2>2. CASE j # p
    BY <1>1, <1>2, <2>2
  <2>3. QED BY <2>1, <2>2
<1>10. ParentsAgree'
  <2>1. SUFFICES ASSUME NEW j \in Slots, Exists(j)'
                 PROVE  u'[u'[j].pkpid].status = "alive" /\ u'[u'[j].pkpid].pid = u'[j].ppid
    BY DEF ParentsAgree
  <2>2. Exists(j)
    BY <1>2, <1>4, <2>1
  <2>3. CASE j \in Orphans(p)
    BY <1>1, <1>2, <1>3, <1>9, <2>1, <2>3 DEF InitLives
  <2>4. CASE j \notin Orphans(p)
    <3>1. u'[j].pkpid = u[j].pkpid /\ u'[j].ppid = u[j].ppid /\ u[j].pkpid # p
      BY <1>8, <1>9, <2>1, <2>2, <2>4
    <3>2. QED BY <1>1, <1>8, <2>2, <3>1
  <2>5. QED BY <2>3, <2>4
<1>11. ASSUME NEW q \in Kpids, u'[q].status = "alive"
       PROVE  IF q = INIT THEN u'[q].children >= Cardinality(ChildrenOf(q)')
                          ELSE u'[q].children = Cardinality(ChildrenOf(q)')
  <2>1. q # p /\ u[q].status = "alive" /\ Exists(q) /\ u'[q].pid = u[q].pid
    BY <1>1, <1>11 DEF Exists
  <2>2. u[q].pid # u[p].pid
    BY <1>3, <1>4, <2>1 DEF IdentitiesUnique
  <2>3. ChildrenOf(q)' \subseteq Slots /\ ChildrenOf(q) \subseteq Slots
    BY DEF ChildrenOf
  <2>4. Cardinality(ChildrenOf(q)) \in Nat /\ IsFiniteSet(ChildrenOf(q)) /\ u[q].children \in Nat
    BY <1>3, ChildrenFinite, AreaType
  <2>5. CASE q = INIT
    <3>1. ChildrenOf(q)' \subseteq ChildrenOf(q) \cup Orphans(p)
      <4>1. ASSUME NEW j \in Slots, j \in ChildrenOf(q)' PROVE j \in ChildrenOf(q) \/ j \in Orphans(p)
        <5>1. Exists(j)' /\ Exists(j) /\ u'[j].ppid = u[q].pid
          BY <1>2, <1>4, <2>1, <4>1 DEF ChildrenOf
        <5>2. QED BY <1>9, <5>1 DEF ChildrenOf
      <4>2. QED BY <2>3, <4>1
    <3>2. /\ IsFiniteSet(ChildrenOf(q) \cup Orphans(p))
          /\ Cardinality(ChildrenOf(q) \cup Orphans(p)) <= Cardinality(ChildrenOf(q)) + Cardinality(Orphans(p))
      <4> DEFINE A == ChildrenOf(q)
                 B == Orphans(p)
      <4>1. IsFiniteSet(A) /\ IsFiniteSet(B) /\ Cardinality(A) \in Nat /\ Cardinality(B) \in Nat
        BY <1>3, <2>4, OrphansFinite
      <4> HIDE DEF A, B
      <4>2. /\ IsFiniteSet(A \cup B)
            /\ Cardinality(A \cup B) = Cardinality(A) + Cardinality(B) - Cardinality(A \cap B)
        BY <4>1, FS_Union
      <4>3. Cardinality(A \cap B) \in Nat
        BY <4>1, FS_Intersection, FS_CardinalityType
      <4>4. Cardinality(A \cup B) <= Cardinality(A) + Cardinality(B)
        BY <4>1, <4>2, <4>3
      <4>5. QED BY <4>2, <4>4 DEF A, B
    <3>3. /\ Cardinality(ChildrenOf(q)') <= Cardinality(ChildrenOf(q) \cup Orphans(p))
          /\ Cardinality(ChildrenOf(q)') \in Nat /\ Cardinality(ChildrenOf(q) \cup Orphans(p)) \in Nat
      BY <3>1, <3>2, FS_Subset, FS_CardinalityType
    <3>4. u[q].children >= Cardinality(ChildrenOf(q))
      BY <1>3, <2>1, <2>5 DEF ChildrenCounted
    <3>5. Cardinality(Orphans(p)) \in Nat
      BY <1>3, OrphansFinite
    <3>6. QED BY <1>1, <2>4, <2>5, <3>2, <3>3, <3>4, <3>5
  <2>6. CASE q # INIT
    <3>1. u[q].pid # 1
      BY <1>3, <2>1, <2>6 DEF Placed
    <3>2. ASSUME NEW j \in Slots PROVE j \in ChildrenOf(q)' <=> j \in ChildrenOf(q)
      <4>1. Exists(j)' <=> Exists(j)
        BY <1>2, <1>4
      <4>2. CASE Exists(j)
        <5>1. u'[j].ppid = IF j \in Orphans(p) THEN 1 ELSE u[j].ppid
          BY <1>9, <4>1, <4>2
        <5>2. j \in Orphans(p) <=> u[j].ppid = u[p].pid
          BY <1>8, <4>2
        <5>3. QED BY <2>1, <2>2, <3>1, <4>1, <4>2, <5>1, <5>2 DEF ChildrenOf
      <4>3. CASE ~Exists(j)
        BY <4>1, <4>3 DEF ChildrenOf
      <4>4. QED BY <4>2, <4>3
    <3>3. ChildrenOf(q)' = ChildrenOf(q)
      BY <2>3, <3>2
    <3>4. u'[q].children = u[q].children
      BY <1>1, <2>1, <2>6
    <3>5. QED BY <1>3, <2>1, <2>6, <3>3, <3>4 DEF ChildrenCounted
  <2>7. QED BY <2>5, <2>6
<1>12. ChildrenCounted'
  BY <1>11 DEF ChildrenCounted
<1>13. IdentitiesUnique'
  <2>1. SUFFICES ASSUME NEW k \in Kpids, NEW l \in Kpids, Exists(k)', Exists(l)'
                 PROVE  /\ u'[k].pid = u'[l].pid => k = l
                        /\ u'[l].session = u'[k].pid => u'[k].leader
    BY DEF IdentitiesUnique
  <2>2. Exists(k) /\ Exists(l) /\ u[k].pid # 0
    <3>1. Exists(k) /\ Exists(l)
      BY <1>4, <2>1
    <3>2. QED BY <1>3, <3>1 DEF Placed, InitLives
  <2>3. u'[l].session \in {0, u[l].session}
    <3>1. CASE l = p
      BY <1>1, <3>1
    <3>2. CASE l # p
      BY <1>1, <3>2
    <3>3. QED BY <3>1, <3>2
  <2>4. QED BY <1>3, <1>5, <2>2, <2>3 DEF IdentitiesUnique
<1>14. QED BY <1>7, <1>10, <1>12, <1>13 DEF Ties

\* A zombie that someone has now, and did not have before, is told to him.
LEMMA DeathTold ==
  ASSUME ProcessInv, NEW p \in Kpids, Died(p), NEW q \in Kpids \ {p}, u[q].status = "alive",
         NEW z \in Zombies(q)'
  PROVE  z \in Zombies(q) \/ q \in Mourners(p)
<1>1. /\ p # INIT /\ p \in Slots /\ u[p].status = "alive" /\ table' = table
      /\ u'[p].ppid = u[p].ppid /\ u'[q].pid = u[q].pid
      /\ \A k \in Kpids \ {p} : /\ u'[k].status = u[k].status
                                /\ u'[k].ppid = (IF k \in Orphans(p) THEN 1 ELSE u[k].ppid)
  BY DEF Died
<1>2. TypeOK /\ InitLives /\ IdentitiesUnique
  BY DEF ProcessInv, Ties
<1>3. z \in Range(table) /\ z \in Slots /\ z \in Kpids /\ INIT \in Kpids
  BY <1>1, <1>2, TableType, SlotsFacts DEF Zombies
<1>4. u'[z].status = "zombie" /\ u'[z].ppid = u[q].pid
  BY <1>1 DEF Zombies
<1>5. CASE z = p
  <2>1. u[p].ppid = u[q].pid /\ Exists(p)
    BY <1>1, <1>4, <1>5 DEF Exists
  <2>2. u[p].pkpid = q
    BY <1>1, <2>1, SameParent
  <2>3. QED BY <2>2 DEF Mourners
<1>6. CASE z # p /\ z \in Orphans(p)
  <2>1. u[q].pid = 1 /\ Exists(q) /\ Exists(INIT)
    BY <1>1, <1>2, <1>3, <1>4, <1>6 DEF Exists, InitLives
  <2>2. q = INIT
    BY <1>2, <1>3, <2>1 DEF IdentitiesUnique, InitLives
  <2>3. u[z].status = "zombie"
    BY <1>1, <1>3, <1>4, <1>6
  <2>4. QED BY <1>6, <2>2, <2>3 DEF Mourners
<1>7. CASE z # p /\ z \notin Orphans(p)
  BY <1>1, <1>3, <1>4, <1>7 DEF Zombies
<1>8. QED BY <1>5, <1>6, <1>7

LEMMA ExitEndStep ==
  ASSUME ProcessInv, NEW p \in Kpids, ExitEnd(p)
  PROVE  ProcessInv' /\ [Kin!Next]_(Kin!vars)
<1>1. Died(p)
  BY DeathFacts
<1>2. /\ p # INIT /\ p \in Slots /\ u[p].status = "alive" /\ pc[p] = "exit" /\ TypeOK' /\ table' = table
      /\ frame' = frame /\ pc'[p] = "none" /\ u'[p].handler = "dfl"
      /\ u'[p].status = "zombie" /\ u'[p].pid = u[p].pid /\ u'[p].ppid = u[p].ppid /\ u'[p].pkpid = u[p].pkpid
      /\ \A q \in Kpids \ {p} :
           /\ u'[q].status = u[q].status /\ u'[q].pid = u[q].pid
           /\ u'[q].handler = u[q].handler /\ u'[q].blocked = u[q].blocked
           /\ u'[q].ppid = (IF q \in Orphans(p) THEN 1 ELSE u[q].ppid)
           /\ u'[q].pkpid = (IF q \in Orphans(p) THEN INIT ELSE u[q].pkpid)
           /\ q # INIT => u'[q].children = u[q].children
           /\ u'[q].sigchld <=> (u[q].sigchld \/ q \in Mourners(p))
           /\ pc'[q] = (IF q \in Mourners(p) /\ pc[q] = "asleep" THEN "woken" ELSE pc[q])
  BY <1>1 DEF Died
<1>3. Ties'
  BY <1>1, DeathTies
<1>4. /\ TypeOK /\ ParentsAgree /\ \A q \in Kpids : Placed(q) /\ Told(q) /\ Informed(q)
      /\ INIT \in Kpids /\ INIT \notin Slots /\ Slots \subseteq Kpids /\ Kpids = {INIT} \cup Slots
  BY SlotsFacts DEF ProcessInv, Ties, WaiterInformed, Informed, Kpids
<1>5. (\A q \in Kpids : Exists(q)' <=> Exists(q)) /\ Exists(p)
  BY <1>2 DEF Exists
<1>6. ASSUME NEW q \in Kpids PROVE Placed(q)'
  <2>1. /\ u'[q].status = "alive" <=> pc'[q] # "none"
        /\ pc'[q] = "exit" => q # INIT
        /\ pc'[q] = "fork" <=> (pc[q] = "fork" /\ q # p)
    <3>1. CASE q = p
      BY <1>2, <3>1
    <3>2. CASE q # p
      <4>1. u'[q].status = u[q].status /\ pc'[q] \in {pc[q], "woken"} /\ (pc'[q] # pc[q] => pc[q] = "asleep")
        BY <1>2, <3>2
      <4>2. QED BY <1>4, <3>2, <4>1 DEF Placed
    <3>3. QED BY <3>1, <3>2
  <2>2. q # INIT /\ Exists(q)' => q \in Range(table') /\ u'[q].pid > 1 /\ u'[q].pkpid \in Kpids \ {q}
    <3>1. CASE q = p
      BY <1>2, <1>4, <1>5, <3>1 DEF Placed
    <3>2. CASE q # p
      BY <1>2, <1>4, <1>5, <3>2 DEF Placed
    <3>3. QED BY <3>1, <3>2
  <2>3. frame'[q].child # 0 <=> pc'[q] = "fork"
    BY <1>2, <1>4, <2>1 DEF Placed
  <2>4. pc'[q] = "fork" => frame'[q].child \in Range(table') /\ ~Exists(frame[q].child)'
    <3>1. pc[q] = "fork" => frame[q].child \in Range(table) /\ ~Exists(frame[q].child) /\ frame[q].child \in Kpids
      BY <1>4, TableType DEF Placed
    <3>2. QED BY <1>2, <1>5, <2>1, <3>1
  <2>5. \A l \in Kpids : pc'[q] = "fork" /\ frame'[q].child = frame'[l].child => q = l
    BY <1>2, <1>4, <2>1 DEF Placed
  <2>6. QED BY <2>1, <2>2, <2>3, <2>4, <2>5 DEF Placed
<1>7. ASSUME NEW q \in Kpids PROVE Told(q)' /\ Informed(q)'
  <2>1. CASE q = p
    BY <1>2, <2>1 DEF Told, Informed
  <2>2. CASE q # p
    <3>1. /\ u'[q].status = u[q].status /\ u'[q].handler = u[q].handler /\ u'[q].blocked = u[q].blocked
          /\ u'[q].sigchld <=> (u[q].sigchld \/ q \in Mourners(p))
          /\ pc'[q] = (IF q \in Mourners(p) /\ pc[q] = "asleep" THEN "woken" ELSE pc[q])
          /\ frame'[q] = frame[q]
      BY <1>2, <2>2
    <3>2. Told(q) /\ Informed(q) /\ (u[q].status = "alive" <=> pc[q] # "none")
      BY <1>4 DEF Placed
    <3>3. ASSUME u[q].status = "alive", u[q].handler = "ign", Zombies(q)' # {} PROVE u'[q].sigchld
      <4>1. SUFFICES ASSUME ~u[q].sigchld PROVE q \in Mourners(p)
        BY <3>1
      <4>2. Zombies(q) = {}
        BY <3>2, <3>3, <4>1 DEF Told
      <4>3. PICK z : z \in Zombies(q)'
        BY <3>3
      <4>4. QED BY <1>1, <2>2, <3>3, <4>1, <4>2, <4>3, DeathTold
    <3>4. Told(q)'
      BY <3>1, <3>2, <3>3 DEF Told
    <3>5. ASSUME pc'[q] = "asleep", frame'[q].who = AnyChild, ~u'[q].blocked PROVE Zombies(q)' = {}
      <4>1. pc[q] = "asleep" /\ q \notin Mourners(p) /\ u[q].status = "alive" /\ Zombies(q) = {}
        BY <3>1, <3>2, <3>5 DEF Informed
      <4>2. ASSUME NEW z \in Zombies(q)' PROVE FALSE
        BY <1>1, <2>2, <4>1, DeathTold
      <4>3. QED BY <4>2
    <3>6. QED BY <3>4, <3>5 DEF Informed
  <2>3. QED BY <2>1, <2>2
<1>8. ProcessInv'
  BY <1>2, <1>3, <1>6, <1>7 DEF ProcessInv, WaiterInformed, Informed
<1>9. Kin!Death(p)
  <2>1. Life[p] = "alive" /\ p # INIT
    BY <1>2, <1>4 DEF Life
  <2>2. Life' = [Life EXCEPT ![p] = "dead"]
    <3>1. \A q \in Kpids : Life'[q] = IF q = p THEN "dead" ELSE Life[q]
      BY <1>2 DEF Life
    <3>2. QED BY <3>1, LifeFunction
  <2>3. Parent' = [q \in Kin!Descendants |-> IF q \in Kin!Children(p) THEN INIT ELSE Parent[q]]
    <3>1. ASSUME NEW q \in Slots PROVE Parent'[q] = IF q \in Kin!Children(p) THEN INIT ELSE Parent[q]
      <4>1. q \in Kin!Children(p) <=> (Exists(q) /\ u[q].pkpid = p)
        BY <1>4, Descendants DEF Kin!Children, Parent, Life, Exists
      <4>2. CASE ~Exists(q)
        BY <1>4, <1>5, <4>1, <4>2 DEF Parent
      <4>3. CASE Exists(q)
        <5>1. q \in Orphans(p) <=> u[q].pkpid = p
          BY <1>2, <4>3, OrphanFacts
        <5>2. u'[q].pkpid = IF q \in Orphans(p) THEN INIT ELSE u[q].pkpid
          <6>1. CASE q = p
            BY <1>2, <1>4, <5>1, <6>1, <4>3 DEF Placed
          <6>2. CASE q # p
            BY <1>2, <1>4, <6>2
          <6>3. QED BY <6>1, <6>2
        <5>3. QED BY <1>4, <1>5, <4>1, <4>3, <5>1, <5>2 DEF Parent
      <4>4. QED BY <4>2, <4>3
    <3>2. QED BY <3>1, ParentFunction, Descendants
  <2>4. Mourns' = [Mourns EXCEPT ![p] = 0]
    <3>1. \A q \in Slots : Mourns'[q] = IF q = p THEN 0 ELSE Mourns[q]
      BY <1>2, <1>4 DEF Mourns
    <3>2. QED BY <3>1, MournsFunction
  <2>5. QED BY <2>1, <2>2, <2>3, <2>4 DEF Kin!Death
<1>10. QED BY <1>8, <1>9 DEF Kin!Next

(***************************************************************************)
(* A new session, and the whole.                                           *)
(***************************************************************************)
LEMMA SetSidStep ==
  ASSUME ProcessInv, NEW p \in Kpids, SetSid(p)
  PROVE  ProcessInv' /\ UNCHANGED Kin!vars
<1>1. /\ TypeOK /\ Ties /\ \A q \in Kpids : Placed(q) /\ Told(q) /\ Informed(q)
      /\ INIT \in Kpids /\ Slots \subseteq Kpids
      /\ table' = table /\ latest_pid' = latest_pid /\ pc' = pc /\ frame' = frame
      /\ pc[p] = "user"
  BY SlotsFacts DEF ProcessInv, WaiterInformed, Informed, SetSid
<1> DEFINE v == [u[p] EXCEPT !.leader = TRUE, !.session = u[p].pid]
<1>2. u \in [Kpids -> Areas] /\ u[p] \in Areas /\ u[p].pid \in 0..MaxPid
  BY <1>1, AreaType DEF TypeOK
<1>3. /\ v \in Areas /\ v.leader = TRUE /\ v.session = u[p].pid
      /\ v.status = u[p].status /\ v.pid = u[p].pid /\ v.ppid = u[p].ppid /\ v.pkpid = u[p].pkpid
      /\ v.children = u[p].children /\ v.handler = u[p].handler /\ v.sigchld = u[p].sigchld
      /\ v.blocked = u[p].blocked
  BY <1>2 DEF Areas
<1>4. u' = [u EXCEPT ![p] = v]
  BY <1>2 DEF SetSid
<1> HIDE DEF v
<1>5. u' \in [Kpids -> Areas] /\ u'[p] = v /\ \A q \in Kpids \ {p} : u'[q] = u[q]
  BY <1>2, <1>3, <1>4
<1>6. \A q \in Kpids : /\ u'[q].status = u[q].status /\ u'[q].pid = u[q].pid /\ u'[q].ppid = u[q].ppid
                       /\ u'[q].pkpid = u[q].pkpid /\ u'[q].children = u[q].children
                       /\ u'[q].handler = u[q].handler /\ u'[q].sigchld = u[q].sigchld
                       /\ u'[q].blocked = u[q].blocked
  <2>1. TAKE q \in Kpids
  <2>2. QED BY <1>3, <1>5
<1>7. TypeOK'
  BY <1>1, <1>5, TableType, NextType DEF TypeOK
<1>8. \A q \in Kpids : (Exists(q)' <=> Exists(q))
  BY <1>6 DEF Exists
<1>9. \A q \in Kpids : Zombies(q)' = Zombies(q)
  <2>1. Range(table) \subseteq Kpids
    BY <1>1, TableType
  <2>2. QED BY <1>1, <1>6, <2>1 DEF Zombies
<1>10. ASSUME NEW q \in Kpids PROVE Placed(q)' /\ Told(q)' /\ Informed(q)'
  <2>1. pc[q] = "fork" => frame[q].child \in Kpids
    BY <1>1, TableType DEF Placed
  <2>2. Placed(q)'
    BY <1>1, <1>6, <1>8, <2>1 DEF Placed
  <2>3. Told(q)' /\ Informed(q)'
    BY <1>1, <1>6, <1>9 DEF Told, Informed
  <2>4. QED BY <2>2, <2>3
<1>11. Ties'
  <2>1. InitLives /\ ParentsAgree /\ ChildrenCounted /\ IdentitiesUnique /\ u[p].status = "alive"
    BY <1>1 DEF Ties, Placed
  <2>2. InitLives'
    BY <1>1, <1>3, <1>5, <1>6, <2>1 DEF InitLives
  <2>3. ParentsAgree'
    <3>1. SUFFICES ASSUME NEW j \in Slots, Exists(j)'
                   PROVE  u'[u'[j].pkpid].status = "alive" /\ u'[u'[j].pkpid].pid = u'[j].ppid
      BY DEF ParentsAgree
    <3>2. /\ Exists(j) /\ j \in Kpids /\ j # INIT /\ u[j].pkpid \in Kpids
          /\ u[u[j].pkpid].status = "alive" /\ u[u[j].pkpid].pid = u[j].ppid
      BY <1>1, <1>8, <2>1, <3>1, SlotsFacts DEF Placed, ParentsAgree
    <3>3. QED BY <1>6, <3>2
  <2>4. ChildrenCounted'
    <3>1. \A q \in Kpids : ChildrenOf(q)' = ChildrenOf(q)
      BY <1>1, <1>6, <1>8 DEF ChildrenOf
    <3>2. QED BY <1>6, <2>1, <3>1 DEF ChildrenCounted
  <2>5. IdentitiesUnique'
    <3>1. SUFFICES ASSUME NEW k \in Kpids, NEW l \in Kpids, Exists(k)', Exists(l)'
                   PROVE  /\ u'[k].pid = u'[l].pid => k = l
                          /\ u'[l].session = u'[k].pid => u'[k].leader
      BY DEF IdentitiesUnique
    <3>2. Exists(k) /\ Exists(l) /\ Exists(p)
      BY <1>8, <2>1, <3>1 DEF Exists
    <3>3. u[k].pid = u[l].pid => k = l
      BY <2>1, <3>2 DEF IdentitiesUnique
    <3>4. u[l].session = u[k].pid => u[k].leader
      BY <2>1, <3>2 DEF IdentitiesUnique
    <3>5. u[p].pid = u[k].pid => k = p
      BY <2>1, <3>2 DEF IdentitiesUnique
    <3>6. u'[l].session = IF l = p THEN u[p].pid ELSE u[l].session
      BY <1>3, <1>5
    <3>7. u'[k].leader = IF k = p THEN TRUE ELSE u[k].leader
      BY <1>3, <1>5
    <3>8. QED BY <1>6, <3>3, <3>4, <3>5, <3>6, <3>7
  <2>6. QED BY <2>2, <2>3, <2>4, <2>5 DEF Ties
<1>12. UNCHANGED Kin!vars
  <2>1. Life' = Life
    BY <1>6 DEF Life
  <2>2. Parent' = Parent
    BY <1>1, <1>6 DEF Parent, Exists
  <2>3. Mourns' = Mourns
    BY <1>1, <1>6 DEF Mourns
  <2>4. QED BY <2>1, <2>2, <2>3 DEF Kin!vars
<1>13. QED BY <1>7, <1>10, <1>11, <1>12 DEF ProcessInv, WaiterInformed, Informed

LEMMA ProcessInit == Init => ProcessInv /\ Kin!Init
<1>1. SUFFICES ASSUME Init PROVE ProcessInv /\ Kin!Init
  OBVIOUS
<1>2. /\ INIT \in Kpids /\ INIT \notin Slots /\ Slots \subseteq Kpids /\ Kpids = {INIT} \cup Slots
      /\ 0 \in 0..MaxPid /\ 1 \in 0..MaxPid /\ 1 \in 1..MaxPid
  BY SlotsFacts DEF Kpids
<1> DEFINE first == [NoProcess EXCEPT !.status = "alive", !.pid = 1]
<1>3. /\ first \in Areas /\ first.status = "alive" /\ first.pid = 1 /\ first.session = 0 /\ first.children = 0
      /\ first.handler = "dfl"
  BY <1>2 DEF NoProcess, Areas
<1>4. NoProcess \in Areas /\ NoProcess.status = "unused" /\ NoProcess.handler = "dfl"
  BY <1>2 DEF NoProcess, Areas
<1>5. u = [k \in Kpids |-> IF k = INIT THEN first ELSE NoProcess]
  BY <1>1 DEF Init
<1> HIDE DEF first
<1>6. /\ u[INIT] = first /\ \A k \in Kpids \ {INIT} : u[k] = NoProcess
      /\ pc[INIT] = "user" /\ \A k \in Kpids \ {INIT} : pc[k] = "none"
      /\ \A k \in Kpids : frame[k] = NoFrame
  BY <1>1, <1>2, <1>5 DEF Init
<1>7. TypeOK
  <2>1. u \in [Kpids -> Areas]
    BY <1>3, <1>4, <1>5
  <2>2. /\ table = <<>> /\ latest_pid = 1 /\ frame \in [Kpids -> Frames]
        /\ pc \in [Kpids -> {"none", "user", "fork", "exit", "asleep", "woken", "reap"}]
    BY <1>1, NoFrameTyped DEF Init
  <2>3. QED BY <1>2, <2>1, <2>2 DEF TypeOK
<1>8. \A k \in Kpids : Exists(k) <=> k = INIT
  BY <1>3, <1>4, <1>6 DEF Exists
<1>9. \A k \in Kpids : Zombies(k) = {}
  <2>1. Range(table) = {}
    BY <1>1 DEF Init, Range
  <2>2. QED BY <2>1 DEF Zombies
<1>10. \A k \in Kpids : Placed(k)
  <2>1. TAKE k \in Kpids
  <2>2. u[k].status = "alive" <=> pc[k] # "none"
    BY <1>3, <1>4, <1>6
  <2>3. QED BY <1>6, <1>8, <2>2, NoFrameTyped DEF Placed
<1>11. \A k \in Kpids : Told(k)
  BY <1>6, <1>9 DEF Told
<1>12. WaiterInformed
  BY <1>9 DEF WaiterInformed
<1>13. Ties
  <2>1. InitLives
    BY <1>3, <1>6 DEF InitLives
  <2>2. ParentsAgree
    BY <1>2, <1>8 DEF ParentsAgree
  <2>3. ChildrenCounted
    <3>1. \A p \in Kpids : ChildrenOf(p) = {}
      BY <1>2, <1>8 DEF ChildrenOf
    <3>2. Cardinality({}) = 0
      BY FS_EmptySet
    <3>3. \A p \in Kpids : u[p].status = "alive" => p = INIT
      BY <1>4, <1>6
    <3>4. u[INIT].children = 0
      BY <1>3, <1>6
    <3>5. ASSUME NEW p \in Kpids, u[p].status = "alive"
          PROVE  IF p = INIT THEN u[p].children >= Cardinality(ChildrenOf(p))
                             ELSE u[p].children = Cardinality(ChildrenOf(p))
      BY <3>1, <3>2, <3>3, <3>4, <3>5
    <3>6. QED BY <3>5 DEF ChildrenCounted
  <2>4. IdentitiesUnique
    BY <1>3, <1>6, <1>8 DEF IdentitiesUnique
  <2>5. QED BY <2>1, <2>2, <2>3, <2>4 DEF Ties
<1>14. ProcessInv
  BY <1>7, <1>10, <1>11, <1>12, <1>13 DEF ProcessInv
<1>15. Kin!Init
  <2>1. Life = [k \in Kpids |-> IF k = INIT THEN "alive" ELSE "none"]
    BY <1>2, <1>3, <1>4, <1>6 DEF Life
  <2>2. Parent = [k \in Kin!Descendants |-> INIT]
    BY <1>2, <1>8, Descendants DEF Parent
  <2>3. Mourns = [k \in Kin!Descendants |-> 0]
    BY <1>2, <1>4, <1>6, Descendants DEF Mourns
  <2>4. QED BY <2>1, <2>2, <2>3 DEF Kin!Init
<1>16. QED BY <1>14, <1>15

LEMMA ProcessStep == ProcessInv /\ [Next]_vars => ProcessInv' /\ [Kin!Next]_(Kin!vars)
<1>1. SUFFICES ASSUME ProcessInv, [Next]_vars PROVE ProcessInv' /\ [Kin!Next]_(Kin!vars)
  OBVIOUS
<1>2. CASE UNCHANGED vars
  BY <1>1, <1>2 DEF vars, ProcessInv, TypeOK, Placed, Exists, Ties, InitLives, ParentsAgree, ChildrenCounted,
     ChildrenOf, IdentitiesUnique, Told, Zombies, WaiterInformed, Kin!vars, Life, Parent, Mourns
<1>3. CASE Next
  <2>1. PICK p \in Kpids :
          \/ Fork(p) \/ ForkEnd(p) \/ Exit(p) \/ ExitEnd(p)
          \/ \E who \in Targets(p), nohang \in BOOLEAN : Wait(p, who, nohang)
          \/ Resume(p) \/ Interrupt(p) \/ Reap(p) \/ ReapEnd(p)
          \/ Deliver(p)
          \/ \E blocked \in Masks : SetMask(p, blocked)
          \/ \E handler \in Dispositions : SetAction(p, handler)
          \/ SetSid(p)
    BY <1>3 DEF Next
  <2>2. CASE Fork(p)
    BY <1>1, <2>2, ForkStep
  <2>3. CASE ForkEnd(p)
    BY <1>1, <2>3, ForkEndStep
  <2>4. CASE Exit(p)
    BY <1>1, <2>4, ExitStep
  <2>5. CASE ExitEnd(p)
    BY <1>1, <2>5, ExitEndStep
  <2>6. CASE \E who \in Targets(p), nohang \in BOOLEAN : Wait(p, who, nohang)
    BY <1>1, <2>6, WaitStep
  <2>7. CASE Resume(p)
    BY <1>1, <2>7, ResumeStep
  <2>8. CASE Interrupt(p)
    BY <1>1, <2>8, InterruptStep
  <2>9. CASE Reap(p)
    BY <1>1, <2>9, ReapStep
  <2>10. CASE ReapEnd(p)
    BY <1>1, <2>10, ReapEndStep
  <2>11. CASE Deliver(p)
    BY <1>1, <2>11, DeliverStep
  <2>12. CASE \E blocked \in Masks : SetMask(p, blocked)
    BY <1>1, <2>12, SetMaskStep
  <2>13. CASE \E handler \in Dispositions : SetAction(p, handler)
    BY <1>1, <2>13, SetActionStep
  <2>14. CASE SetSid(p)
    BY <1>1, <2>14, SetSidStep
  <2>15. QED BY <2>1, <2>2, <2>3, <2>4, <2>5, <2>6, <2>7, <2>8, <2>9, <2>10, <2>11, <2>12, <2>13, <2>14
<1>4. QED BY <1>1, <1>2, <1>3

\* Whatever the size of the table and the pids: fork, exit, waitpid, setsid and
\* SIGCHLD keep pids, parents and counts of children together (kernel/fork.c,
\* kernel/exit.c, kernel/process.c).
THEOREM FamilyAlwaysTied == Spec => []FamilyTies
<1>1. ProcessInv => FamilyTies
  BY DEF ProcessInv, Ties, FamilyTies
<1>2. QED BY <1>1, ProcessInit, ProcessStep, PTL DEF Spec

\* A process that sleeps in waitpid() for any child, with SIGCHLD not blocked,
\* has no zombie (kernel/exit.c, kernel/signal.c).
THEOREM WaitersAlwaysInformed == Spec => []WaiterInformed
<1>1. ProcessInv => WaiterInformed
  BY DEF ProcessInv
<1>2. QED BY <1>1, ProcessInit, ProcessStep, PTL DEF Spec

\* Births, deaths and burials are those of Family: every process has one living
\* parent, INIT inherits, and a zombie is buried once, by its parent.
THEOREM ProcessIsFamily == Spec => ImplementsFamily
<1>1. QED BY ProcessInit, ProcessStep, PTL DEF Spec, ImplementsFamily, Kin!Spec

-----------------------------------------------------------------------------
(***************************************************************************)
(* Signals.  What holds of every process, of its own state alone.          *)
(***************************************************************************)
SigActions == [h : {"dfl", "ign", "handler"}, mask : SUBSET Sigs]

SigStates ==
    [pending : SUBSET Sigs, blocked : SUBSET Sigs, oldmask : SUBSET Sigs, act : [Sigs -> SigActions],
     pc : {"user", "asleep", "awake", "spin", "zombie", "gone"}, suspended : BOOLEAN, saved : SUBSET Sigs,
     ruid : Nat, euid : Nat, suid : Nat, pgrp : Nat, frames : Seq(Sigs), own : SUBSET Sigs,
     nested : BOOLEAN, overslept : BOOLEAN, stale : SUBSET Sigs]

\* The mask to be restored by sigsuspend(), and by sigend(), is the program's own.
OwnMask(r) ==
    /\ r.suspended => SIGKILL \notin r.blocked
    /\ ~r.nested =>
         /\ SIGKILL \notin r.own /\ Len(r.frames) <= 1
         /\ r.frames # <<>> => r.oldmask = r.own
         /\ r.frames = <<>> => (IF r.suspended THEN r.saved ELSE r.blocked) = r.own

\* Who sleeps has looked at its signals.
Looked(r) ==
    r.pc = "asleep" => /\ ~r.overslept => signals(r) \subseteq {SIGCHLD}
                       /\ SIGKILL \in r.pending => SIGKILL \in r.blocked

IgnoredAreStale(r) ==
    /\ \A s \in r.pending \ {SIGCHLD} : r.act[s].h = "ign" => s \in r.stale
    /\ r.pc = "spin" => r.stale # {}

KillIsDefault(r) == SIGKILL \in Sigs => r.act[SIGKILL].h = "dfl"

\* A process that runs is not in sigsuspend().
Returned(r) == r.pc = "user" => ~r.suspended

SigOK(r) == r \in SigStates /\ Returned(r) /\ OwnMask(r) /\ Looked(r) /\ IgnoredAreStale(r) /\ KillIsDefault(r)

SigMenuOK == sigmenu \in [left : Int, ops : SUBSET STRING, sigs : SUBSET Sigs, sets : SUBSET SUBSET Sigs,
                          ids : SUBSET Nat, acts : SUBSET SigActions]

SigInv == SigMenuOK /\ proc \in [SigProcs -> SigStates] /\ \A p \in SigProcs : SigOK(proc[p])

LEMMA SigNumbers == /\ SIGCHLD \in Sigs /\ Sigs \subseteq Nat /\ SIGKILL # SIGCHLD /\ SIGKILL \notin SIG_BLOCKABLE
                    /\ SIG_BLOCKABLE \subseteq Sigs
BY SignalsAssumption DEF SIGKILL, SIGCHLD, SIG_BLOCKABLE

\* issig() acts upon a signal that the process has.
LEMMA FirstSignal ==
  ASSUME NEW r \in SigStates, signals(r) # {}
  PROVE  First(r) \in Sigs /\ First(r) \in r.pending /\ First(r) \notin r.blocked
<1>1. signals(r) \in SUBSET Nat
  BY SigNumbers DEF signals, SigStates
<1>2. Min(signals(r)) \in signals(r)
  BY <1>1, LowestOf
<1>3. QED BY <1>2 DEF First, signals, SigStates

LEMMA KillOK ==
  ASSUME NEW r, SigOK(r), NEW s \in Sigs
  PROVE  SigOK(kill_kpid(r, s))
<1> DEFINE y == kill_kpid(r, s)
<1>1. CASE r.act[s].h = "ign" /\ s # SIGCHLD
  BY <1>1 DEF kill_kpid
<1>2. CASE ~(r.act[s].h = "ign" /\ s # SIGCHLD)
  <2>1. y = [r EXCEPT !.pending = @ \cup {s}, !.pc = IF @ = "asleep" THEN "awake" ELSE @]
    BY <1>2 DEF kill_kpid
  <2>2. /\ y.pending = r.pending \cup {s} /\ y.pc = (IF r.pc = "asleep" THEN "awake" ELSE r.pc) /\ y.blocked = r.blocked
        /\ y.oldmask = r.oldmask /\ y.act = r.act /\ y.suspended = r.suspended /\ y.saved = r.saved
        /\ y.frames = r.frames /\ y.own = r.own /\ y.nested = r.nested /\ y.stale = r.stale
    <3>1. r \in SigStates
      BY DEF SigOK
    <3>2. QED BY ONLY <2>1, <3>1 DEF SigStates
  <2>8. y \in SigStates
    <3>1. r \in SigStates /\ r.pending \cup {s} \in SUBSET Sigs
      BY DEF SigOK, SigStates
    <3>2. (IF r.pc = "asleep" THEN "awake" ELSE r.pc) \in {"user", "asleep", "awake", "spin", "zombie", "gone"}
      BY DEF SigOK, SigStates
    <3>3. QED BY ONLY <2>1, <3>1, <3>2 DEF SigStates
  <2> HIDE DEF y
  <2>3. OwnMask(y)
    BY <2>2 DEF SigOK, OwnMask
  <2>4. Looked(y)
    BY <2>2 DEF Looked
  <2>9. Returned(y)
    BY <2>2 DEF SigOK, Returned
  <2>5. IgnoredAreStale(y)
    BY <1>2, <2>2 DEF SigOK, IgnoredAreStale
  <2>6. KillIsDefault(y)
    BY <2>2 DEF SigOK, KillIsDefault
  <2>7. QED BY <2>8, <2>9, <2>3, <2>4, <2>5, <2>6 DEF SigOK, y
<1>3. QED BY <1>1, <1>2

LEMMA ReapedOK ==
  ASSUME NEW r \in SigStates, OwnMask(r), IgnoredAreStale(r), KillIsDefault(r)
  PROVE  /\ Reaped(r) \in SigStates /\ OwnMask(Reaped(r)) /\ IgnoredAreStale(Reaped(r)) /\ KillIsDefault(Reaped(r))
         /\ Reaped(r).pc = r.pc /\ Reaped(r).suspended = r.suspended /\ signals(Reaped(r)) \subseteq signals(r)
         /\ Reaped(r).pending \subseteq r.pending /\ Reaped(r).blocked = r.blocked
<1> DEFINE y == Reaped(r)
<1>1. y = [r EXCEPT !.pending = @ \ {SIGCHLD}]
  BY DEF Reaped
<1>2. /\ y.pending = r.pending \ {SIGCHLD} /\ y.pc = r.pc /\ y.blocked = r.blocked
      /\ y.oldmask = r.oldmask /\ y.act = r.act /\ y.suspended = r.suspended /\ y.saved = r.saved
      /\ y.frames = r.frames /\ y.own = r.own /\ y.nested = r.nested /\ y.stale = r.stale
  BY <1>1 DEF SigStates
<1>3. y \in SigStates
  <2>1. r.pending \ {SIGCHLD} \in SUBSET Sigs
    BY DEF SigStates
  <2>2. QED BY <1>1, <2>1 DEF SigStates
<1> HIDE DEF y
<1>4. OwnMask(y)
  BY <1>2 DEF OwnMask
<1>5. IgnoredAreStale(y)
  BY <1>2 DEF IgnoredAreStale
<1>6. KillIsDefault(y)
  BY <1>2 DEF KillIsDefault
<1>7. signals(y) \subseteq signals(r)
  BY <1>2 DEF signals
<1>8. QED BY <1>2, <1>3, <1>4, <1>5, <1>6, <1>7 DEF y

\* A dead process keeps what the invariant says.
LEMMA DeadOK ==
  ASSUME NEW r \in SigStates, OwnMask(r), IgnoredAreStale(r), KillIsDefault(r), NEW dead \in {"zombie", "gone"}
  PROVE  SigOK([r EXCEPT !.pc = dead])
<1> DEFINE y == [r EXCEPT !.pc = dead]
<1>1. /\ y.pending = r.pending /\ y.pc = dead /\ y.blocked = r.blocked
      /\ y.oldmask = r.oldmask /\ y.act = r.act /\ y.suspended = r.suspended /\ y.saved = r.saved
      /\ y.frames = r.frames /\ y.own = r.own /\ y.nested = r.nested /\ y.stale = r.stale
  BY DEF SigStates
<1>2. y \in SigStates
  BY DEF SigStates
<1> HIDE DEF y
<1>3. Returned(y) /\ Looked(y)
  BY <1>1 DEF Returned, Looked
<1>4. OwnMask(y)
  BY <1>1 DEF OwnMask
<1>5. IgnoredAreStale(y)
  BY <1>1 DEF IgnoredAreStale
<1>6. KillIsDefault(y)
  BY <1>1 DEF KillIsDefault
<1>7. QED BY <1>2, <1>3, <1>4, <1>5, <1>6 DEF SigOK, y

\* A handler is called: the mask is kept for sigend().
LEMMA HandledOK ==
  ASSUME NEW r, SigOK(r), r.pc = "user", NEW s \in Sigs
  PROVE  SigOK(Handled(r, s)) /\ Handled(r, s).pc = "user"
<1> DEFINE y == Handled(r, s)
<1>1. y = [r EXCEPT !.pending = @ \ {s}, !.oldmask = r.blocked, !.blocked = @ \cup {s} \cup r.act[s].mask,
                    !.frames = <<s>> \o @, !.nested = @ \/ r.frames # <<>>, !.stale = @ \ {s}]
  BY DEF Handled
<1>2. r \in SigStates
  BY DEF SigOK
<1>3. /\ y.pending = r.pending \ {s} /\ y.pc = r.pc /\ y.blocked = r.blocked \cup {s} \cup r.act[s].mask
      /\ y.oldmask = r.blocked /\ y.act = r.act /\ y.suspended = r.suspended /\ y.saved = r.saved
      /\ y.frames = <<s>> \o r.frames /\ y.own = r.own /\ y.nested = (r.nested \/ r.frames # <<>>) /\ y.stale = r.stale \ {s}
  BY <1>1, <1>2 DEF SigStates
<1>4. y \in SigStates
  <2>1. r.act[s].mask \in SUBSET Sigs /\ r.pending \ {s} \in SUBSET Sigs /\ r.stale \ {s} \in SUBSET Sigs /\ r.blocked \in SUBSET Sigs
    BY <1>2 DEF SigStates, SigActions
  <2>2. r.blocked \cup {s} \cup r.act[s].mask \in SUBSET Sigs
    BY <2>1
  <2>3. <<s>> \o r.frames \in Seq(Sigs)
    BY <1>2 DEF SigStates
  <2>4. (r.nested \/ r.frames # <<>>) \in BOOLEAN
    OBVIOUS
  <2> DEFINE m == r.blocked \cup {s} \cup r.act[s].mask
             fr == <<s>> \o r.frames
             ne == r.nested \/ r.frames # <<>>
  <2>5. y = [r EXCEPT !.pending = r.pending \ {s}, !.oldmask = r.blocked, !.blocked = m,
                      !.frames = fr, !.nested = ne, !.stale = r.stale \ {s}]
    BY <1>1, <1>2 DEF SigStates
  <2> HIDE DEF m, fr, ne, y
  <2>6. m \in SUBSET Sigs /\ fr \in Seq(Sigs) /\ ne \in BOOLEAN
    BY <2>2, <2>3, <2>4 DEF m, fr, ne
  <2>7. QED BY <1>2, <2>1, <2>5, <2>6 DEF SigStates
<1> HIDE DEF y
<1>5. Returned(y) /\ Looked(y)
  BY <1>3 DEF SigOK, Returned, Looked
<1>6. OwnMask(y)
  <2>1. ~r.suspended
    BY DEF SigOK, Returned
  <2>2. ASSUME ~y.nested PROVE SIGKILL \notin y.own /\ Len(y.frames) <= 1 /\ y.oldmask = y.own /\ y.frames # <<>>
    <3>1. ~r.nested /\ r.frames = <<>>
      BY <1>3, <2>2
    <3>2. SIGKILL \notin r.own /\ r.blocked = r.own
      BY <2>1, <3>1 DEF SigOK, OwnMask
    <3>3. <<s>> \o r.frames = <<s>>
      BY <3>1
    <3>4. QED BY <1>3, <3>2, <3>3
  <2>3. QED BY <1>3, <2>1, <2>2 DEF OwnMask
<1>7. IgnoredAreStale(y)
  BY <1>3 DEF SigOK, IgnoredAreStale
<1>8. KillIsDefault(y)
  BY <1>3 DEF SigOK, KillIsDefault
<1>9. QED BY <1>3, <1>4, <1>5, <1>6, <1>7, <1>8 DEF SigOK, y

LEMMA IssigOK ==
  ASSUME NEW r, SigOK(r), r.pc = "user"
  PROVE  SigOK(issig(r))
<1>0. r \in SigStates /\ OwnMask(r) /\ IgnoredAreStale(r) /\ KillIsDefault(r) /\ Returned(r)
  BY DEF SigOK
<1>1. CASE signals(r) = {} \/ (First(r) = SIGCHLD /\ r.act[SIGCHLD].h = "dfl")
  BY <1>1 DEF issig
<1>2. CASE signals(r) # {} /\ First(r) = SIGCHLD /\ r.act[SIGCHLD].h = "ign"
  <2>1. issig(r) = Reaped(r)
    BY <1>2 DEF issig
  <2> DEFINE y == Reaped(r)
  <2>2. y \in SigStates /\ OwnMask(y) /\ IgnoredAreStale(y) /\ KillIsDefault(y) /\ y.pc = r.pc /\ y.suspended = r.suspended
    BY <1>0, ReapedOK
  <2> HIDE DEF y
  <2>3. Returned(y) /\ Looked(y)
    BY <1>0, <2>2 DEF Returned, Looked
  <2>4. QED BY <2>1, <2>2, <2>3 DEF SigOK, y
<1>3. CASE signals(r) # {} /\ ~(First(r) = SIGCHLD /\ r.act[SIGCHLD].h \in {"dfl", "ign"})
  <2>1. First(r) \in Sigs
    BY <1>0, <1>3, FirstSignal
  <2>2. issig(r) = IF r.act[First(r)].h = "dfl" THEN [r EXCEPT !.pc = "zombie"] ELSE Handled(r, First(r))
    BY <1>3 DEF issig
  <2>3. SigOK([r EXCEPT !.pc = "zombie"])
    BY <1>0, DeadOK
  <2>4. SigOK(Handled(r, First(r)))
    BY <2>1, HandledOK
  <2>5. QED BY <2>2, <2>3, <2>4
<1>4. QED BY <1>1, <1>2, <1>3

\* The loop of sleep(): whoever stays asleep has looked.
LEMMA SleepTurnOK ==
  ASSUME NEW r \in SigStates, OwnMask(r), IgnoredAreStale(r), KillIsDefault(r)
  PROVE  SigOK(SleepTurn(r))
<1> DEFINE y == SleepTurn(r)
<1>1. CASE signals(r) = {}
  <2>1. y = [r EXCEPT !.pc = "asleep"]
    BY <1>1 DEF SleepTurn
  <2>2. /\ y.pending = r.pending /\ y.pc = "asleep" /\ y.blocked = r.blocked
        /\ y.oldmask = r.oldmask /\ y.act = r.act /\ y.suspended = r.suspended /\ y.saved = r.saved
        /\ y.frames = r.frames /\ y.own = r.own /\ y.nested = r.nested /\ y.stale = r.stale
    BY <2>1 DEF SigStates
  <2>3. y \in SigStates
    BY <2>1 DEF SigStates
  <2> HIDE DEF y
  <2>4. Returned(y) /\ Looked(y)
    BY <1>1, <2>2 DEF Returned, Looked, signals
  <2>5. OwnMask(y)
    BY <2>2 DEF OwnMask
  <2>6. IgnoredAreStale(y)
    BY <2>2 DEF IgnoredAreStale
  <2>7. KillIsDefault(y)
    BY <2>2 DEF KillIsDefault
  <2>8. QED BY <2>3, <2>4, <2>5, <2>6, <2>7 DEF SigOK, y
<1>2. CASE signals(r) # {} /\ Fatal(r)
  <2>1. y = [r EXCEPT !.pc = "zombie"]
    BY <1>2 DEF SleepTurn
  <2>2. SigOK([r EXCEPT !.pc = "zombie"])
    BY DeadOK
  <2>3. QED BY <2>1, <2>2
<1>3. CASE signals(r) # {} /\ ~Fatal(r) /\ First(r) = SIGCHLD /\ r.act[SIGCHLD].h # "handler"
  <2> DEFINE x == IF r.act[SIGCHLD].h = "ign" THEN Reaped(r) ELSE r
             slept == signals(r) # {SIGCHLD}
  <2>1. y = [x EXCEPT !.pc = "asleep", !.overslept = slept]
    BY <1>3 DEF SleepTurn
  <2>2. /\ x \in SigStates /\ OwnMask(x) /\ IgnoredAreStale(x) /\ KillIsDefault(x)
        /\ signals(x) \subseteq signals(r) /\ x.pending \subseteq r.pending /\ x.blocked = r.blocked
    BY ReapedOK
  <2> HIDE DEF x
  <2>3. /\ y.pending = x.pending /\ y.pc = "asleep" /\ y.blocked = x.blocked
        /\ y.oldmask = x.oldmask /\ y.act = x.act /\ y.suspended = x.suspended /\ y.saved = x.saved
        /\ y.frames = x.frames /\ y.own = x.own /\ y.nested = x.nested /\ y.stale = x.stale
    BY <2>1, <2>2 DEF SigStates
  <2>4. y.overslept = slept
    BY <2>1, <2>2 DEF SigStates
  <2>5. y \in SigStates
    <3>1. slept \in BOOLEAN
      OBVIOUS
    <3> HIDE DEF slept
    <3>2. QED BY <2>1, <2>2, <3>1 DEF SigStates
  <2> HIDE DEF y
  <2>6. Looked(y)
    <3>1. ~y.overslept => signals(y) \subseteq {SIGCHLD}
      BY <2>2, <2>3, <2>4 DEF signals
    <3>2. SIGKILL \in y.pending => SIGKILL \in y.blocked
      <4>1. ASSUME SIGKILL \in r.pending, SIGKILL \notin r.blocked PROVE FALSE
        <5>1. SIGKILL \in signals(r) \ {SIGCHLD} /\ SIGKILL \in Sigs
          BY <4>1, SigNumbers DEF signals, SigStates
        <5>2. r.act[SIGKILL].h = "dfl"
          BY <5>1 DEF KillIsDefault
        <5>3. QED BY <1>3, <5>1, <5>2 DEF Fatal
      <4>2. QED BY <2>2, <2>3, <4>1
    <3>3. QED BY <3>1, <3>2 DEF Looked
  <2>7. OwnMask(y)
    BY <2>2, <2>3 DEF OwnMask
  <2>8. IgnoredAreStale(y)
    BY <2>2, <2>3 DEF IgnoredAreStale
  <2>9. KillIsDefault(y) /\ Returned(y)
    BY <2>2, <2>3 DEF KillIsDefault, Returned
  <2>10. QED BY <2>5, <2>6, <2>7, <2>8, <2>9 DEF SigOK, y
<1>4. CASE /\ signals(r) # {} /\ ~Fatal(r) /\ ~(First(r) = SIGCHLD /\ r.act[SIGCHLD].h # "handler")
           /\ r.act[First(r)].h = "ign"
  <2>1. y = [r EXCEPT !.pc = "spin"]
    BY <1>4 DEF SleepTurn
  <2>2. First(r) \in r.pending /\ First(r) # SIGCHLD
    BY <1>4, FirstSignal
  <2>3. r.stale # {}
    BY <1>4, <2>2 DEF IgnoredAreStale
  <2>4. /\ y.pending = r.pending /\ y.pc = "spin" /\ y.blocked = r.blocked
        /\ y.oldmask = r.oldmask /\ y.act = r.act /\ y.suspended = r.suspended /\ y.saved = r.saved
        /\ y.frames = r.frames /\ y.own = r.own /\ y.nested = r.nested /\ y.stale = r.stale
    BY <2>1 DEF SigStates
  <2>5. y \in SigStates
    BY <2>1 DEF SigStates
  <2> HIDE DEF y
  <2>6. Returned(y) /\ Looked(y)
    BY <2>4 DEF Returned, Looked
  <2>7. OwnMask(y)
    BY <2>4 DEF OwnMask
  <2>8. IgnoredAreStale(y)
    BY <2>3, <2>4 DEF IgnoredAreStale
  <2>9. KillIsDefault(y)
    BY <2>4 DEF KillIsDefault
  <2>10. QED BY <2>5, <2>6, <2>7, <2>8, <2>9 DEF SigOK, y
<1>5. CASE /\ signals(r) # {} /\ ~Fatal(r) /\ ~(First(r) = SIGCHLD /\ r.act[SIGCHLD].h # "handler")
           /\ r.act[First(r)].h # "ign"
  <2> DEFINE mask == IF r.suspended THEN r.saved ELSE r.blocked
             z == [r EXCEPT !.pc = "user", !.overslept = FALSE, !.suspended = FALSE, !.saved = {}, !.blocked = mask]
  <2>0. y = issig([r EXCEPT !.pc = "user", !.overslept = FALSE, !.suspended = FALSE, !.saved = {},
                            !.blocked = IF r.suspended THEN r.saved ELSE @])
    BY <1>5 DEF SleepTurn
  <2>1. y = issig(z)
    BY <2>0 DEF SigStates
  <2>2. mask \in SUBSET Sigs
    BY DEF SigStates
  <2> HIDE DEF mask, y
  <2>3. /\ z.pending = r.pending /\ z.pc = "user" /\ z.blocked = mask
        /\ z.oldmask = r.oldmask /\ z.act = r.act /\ z.suspended = FALSE /\ z.saved = {}
        /\ z.frames = r.frames /\ z.own = r.own /\ z.nested = r.nested /\ z.stale = r.stale
    BY DEF SigStates
  <2>4. z \in SigStates
    BY <2>2 DEF SigStates
  <2> HIDE DEF z
  <2>5. Returned(z) /\ Looked(z)
    BY <2>3 DEF Returned, Looked
  <2>6. OwnMask(z)
    BY <2>3 DEF OwnMask, mask
  <2>7. IgnoredAreStale(z)
    BY <2>3 DEF IgnoredAreStale
  <2>8. KillIsDefault(z)
    BY <2>3 DEF KillIsDefault
  <2>9. SigOK(z)
    BY <2>4, <2>5, <2>6, <2>7, <2>8 DEF SigOK
  <2>10. SigOK(issig(z))
    BY <2>3, <2>9, IssigOK
  <2>11. QED BY <2>1, <2>10 DEF y
<1>6. QED BY <1>1, <1>2, <1>3, <1>4, <1>5

AllOK(v) == \A q \in SigProcs : SigOK(v[q])

LEMMA BecomesOK ==
  ASSUME NEW v, AllOK(v), NEW p \in SigProcs, NEW r, SigOK(r), Becomes(v, p, r)
  PROVE  proc' \in [SigProcs -> SigStates] /\ AllOK(proc')
<1> DEFINE w(q) == IF q = p THEN r
                   ELSE IF r.pc = "zombie" /\ q = ParentOf[p] /\ Alive(v[q]) THEN kill_kpid(v[q], SIGCHLD)
                   ELSE IF /\ SIGCHLD \in v[p].pending \ r.pending /\ r.act[SIGCHLD].h = "ign"
                           /\ ParentOf[q] = p /\ v[q].pc = "zombie"
                        THEN [v[q] EXCEPT !.pc = "gone"]
                   ELSE v[q]
<1>1. proc' = [q \in SigProcs |-> w(q)]
  BY DEF Becomes
<1>2. ASSUME NEW q \in SigProcs PROVE SigOK(w(q))
  <2>1. SigOK(v[q])
    BY DEF AllOK
  <2>2. SigOK(kill_kpid(v[q], SIGCHLD))
    BY <2>1, SigNumbers, KillOK
  <2>3. SigOK([v[q] EXCEPT !.pc = "gone"])
    <3>1. v[q] \in SigStates /\ OwnMask(v[q]) /\ IgnoredAreStale(v[q]) /\ KillIsDefault(v[q])
      BY <2>1 DEF SigOK
    <3>2. QED BY <3>1, DeadOK
  <2>4. QED BY <2>1, <2>2, <2>3
<1> HIDE DEF w
<1>3. \A q \in SigProcs : proc'[q] = w(q) /\ w(q) \in SigStates
  BY <1>1, <1>2 DEF SigOK
<1>4. QED BY <1>1, <1>2, <1>3 DEF AllOK

\* A process that makes a system call.
LEMMA CallerOK ==
  ASSUME SigInv, NEW p \in SigProcs, proc[p].pc = "user"
  PROVE  /\ proc[p] \in SigStates /\ ~proc[p].suspended /\ OwnMask(proc[p]) /\ IgnoredAreStale(proc[p])
         /\ KillIsDefault(proc[p]) /\ SigOK(proc[p]) /\ AllOK(proc)
BY DEF SigInv, SigOK, Returned, AllOK

LEMMA MenuStays ==
  ASSUME SigMenuOK, NEW p, NEW op, Call(p, op)
  PROVE  SigMenuOK'
<1>1. sigmenu' = [sigmenu EXCEPT !.left = sigmenu.left - 1] /\ sigmenu.left - 1 \in Int
  BY DEF Call, SigMenuOK
<1>2. QED BY <1>1 DEF SigMenuOK

LEMMA EndOK ==
  ASSUME AllOK(proc), NEW p \in SigProcs, NEW r, SigOK(r), r.pc = "user", SysCallEnd(p, r)
  PROVE  proc' \in [SigProcs -> SigStates] /\ AllOK(proc')
<1>1. SigOK(issig(r))
  BY IssigOK
<1>2. Becomes(proc, p, issig(r))
  BY DEF SysCallEnd
<1>3. QED BY <1>1, <1>2, BecomesOK

LEMMA SysKillOK ==
  ASSUME SigInv, NEW p \in SigProcs, NEW pid, NEW s \in sigmenu.sigs, sys_kill(p, pid, s)
  PROVE  SigInv'
<1>1. Call(p, "kill") /\ proc[p].pc = "user" /\ s \in Sigs /\ SigMenuOK
  BY DEF sys_kill, Call, SigInv, SigMenuOK
<1>2. AllOK(proc) /\ ~proc[p].suspended /\ SigOK(proc[p])
  BY <1>1, CallerOK
<1>3. PICK reached : Becomes([q \in SigProcs |-> IF q \in reached THEN kill_kpid(proc[q], s) ELSE proc[q]], p,
                             issig([q \in SigProcs |-> IF q \in reached THEN kill_kpid(proc[q], s) ELSE proc[q]][p]))
  BY DEF sys_kill
<1> DEFINE v == [q \in SigProcs |-> IF q \in reached THEN kill_kpid(proc[q], s) ELSE proc[q]]
<1>4. AllOK(v)
  <2>1. ASSUME NEW q \in SigProcs PROVE SigOK(kill_kpid(proc[q], s)) /\ SigOK(proc[q])
    <3>1. SigOK(proc[q])
      BY <1>2 DEF AllOK
    <3>2. QED BY <1>1, <3>1, KillOK
  <2>2. QED BY <2>1 DEF AllOK
<1>5. SigOK(v[p]) /\ v[p].pc = "user"
  <2>1. SigOK(v[p])
    BY <1>4 DEF AllOK
  <2>2. kill_kpid(proc[p], s).pc = "user"
    BY <1>1, <1>2 DEF kill_kpid, SigOK, SigStates
  <2>3. QED BY <1>1, <2>1, <2>2
<1>6. Becomes(v, p, issig(v[p]))
  BY <1>3
<1> HIDE DEF v
<1>7. SigOK(issig(v[p]))
  BY <1>5, IssigOK
<1>8. proc' \in [SigProcs -> SigStates] /\ AllOK(proc')
  BY <1>4, <1>6, <1>7, BecomesOK
<1>9. QED BY <1>1, <1>8, MenuStays DEF SigInv, AllOK

LEMMA SysPauseOK ==
  ASSUME SigInv, NEW p \in SigProcs, sys_pause(p) \/ WakesUp(p)
  PROVE  SigInv'
<1>1. Becomes(proc, p, SleepTurn(proc[p])) /\ SigMenuOK'
  BY MenuStays DEF sys_pause, WakesUp, SigInv, SigMenuOK
<1>2. proc[p] \in SigStates /\ OwnMask(proc[p]) /\ IgnoredAreStale(proc[p]) /\ KillIsDefault(proc[p]) /\ AllOK(proc)
  BY DEF SigInv, SigOK, AllOK
<1>3. SigOK(SleepTurn(proc[p]))
  BY <1>2, SleepTurnOK
<1>4. proc' \in [SigProcs -> SigStates] /\ AllOK(proc')
  BY <1>1, <1>2, <1>3, BecomesOK
<1>5. QED BY <1>1, <1>4 DEF SigInv, AllOK

LEMMA SysSuspendOK ==
  ASSUME SigInv, NEW p \in SigProcs, NEW set, sys_sigsuspend(p, set)
  PROVE  SigInv'
<1>1. Call(p, "suspend") /\ proc[p].pc = "user" /\ SigMenuOK
  BY DEF sys_sigsuspend, Call, SigInv
<1>2. /\ proc[p] \in SigStates /\ ~proc[p].suspended /\ OwnMask(proc[p]) /\ IgnoredAreStale(proc[p])
      /\ KillIsDefault(proc[p]) /\ AllOK(proc)
  BY <1>1, CallerOK
<1> DEFINE r == proc[p]
           m == set \cap SIG_BLOCKABLE
           y == [r EXCEPT !.suspended = TRUE, !.saved = r.blocked, !.blocked = m]
<1>3. Becomes(proc, p, SleepTurn(y))
  BY DEF sys_sigsuspend
<1>4. m \in SUBSET Sigs /\ SIGKILL \notin m
  BY SigNumbers
<1> HIDE DEF r, m
<1>5. r \in SigStates /\ ~r.suspended /\ OwnMask(r) /\ IgnoredAreStale(r) /\ KillIsDefault(r)
  BY <1>2 DEF r
<1>6. /\ y.pending = r.pending /\ y.pc = r.pc /\ y.blocked = m
      /\ y.oldmask = r.oldmask /\ y.act = r.act /\ y.suspended = TRUE /\ y.saved = r.blocked
      /\ y.frames = r.frames /\ y.own = r.own /\ y.nested = r.nested /\ y.stale = r.stale
  BY <1>5 DEF SigStates
<1>7. y \in SigStates
  BY <1>4, <1>5 DEF SigStates
<1> HIDE DEF y
<1>8. OwnMask(y)
  BY <1>4, <1>5, <1>6 DEF OwnMask
<1>9. IgnoredAreStale(y)
  BY <1>5, <1>6 DEF IgnoredAreStale
<1>10. KillIsDefault(y)
  BY <1>5, <1>6 DEF KillIsDefault
<1>11. SigOK(SleepTurn(y))
  BY <1>7, <1>8, <1>9, <1>10, SleepTurnOK
<1>12. proc' \in [SigProcs -> SigStates] /\ AllOK(proc')
  BY <1>2, <1>3, <1>11, BecomesOK
<1>13. QED BY <1>1, <1>12, MenuStays DEF SigInv, AllOK

LEMMA SysMaskOK ==
  ASSUME SigInv, NEW p \in SigProcs, NEW how \in {"SIG_BLOCK", "SIG_UNBLOCK", "SIG_SETMASK"}, NEW set,
         sys_sigprocmask(p, how, set)
  PROVE  SigInv'
<1>1. Call(p, "mask") /\ proc[p].pc = "user" /\ SigMenuOK
  BY DEF sys_sigprocmask, Call, SigInv
<1>2. /\ proc[p] \in SigStates /\ ~proc[p].suspended /\ OwnMask(proc[p]) /\ IgnoredAreStale(proc[p])
      /\ KillIsDefault(proc[p]) /\ AllOK(proc)
  BY <1>1, CallerOK
<1> DEFINE s == set \cap SIG_BLOCKABLE
<1>3. s \in SUBSET Sigs /\ SIGKILL \notin s
  BY SigNumbers
<1>4. SysCallEnd(p, Masked(proc[p], CASE how = "SIG_BLOCK"   -> proc[p].blocked \cup s
                                      [] how = "SIG_UNBLOCK" -> proc[p].blocked \ s
                                      [] how = "SIG_SETMASK" -> s))
  BY DEF sys_sigprocmask
<1> HIDE DEF s
<1>5. PICK m \in SUBSET Sigs : SysCallEnd(p, Masked(proc[p], m)) /\ (SIGKILL \in m => SIGKILL \in proc[p].blocked)
  <2>1. CASE how = "SIG_BLOCK"
    <3>1. SysCallEnd(p, Masked(proc[p], proc[p].blocked \cup s))
      BY <1>4, <2>1
    <3>2. proc[p].blocked \cup s \in SUBSET Sigs
      BY <1>2, <1>3 DEF SigStates
    <3>3. QED BY <1>3, <3>1, <3>2
  <2>2. CASE how = "SIG_UNBLOCK"
    <3>1. SysCallEnd(p, Masked(proc[p], proc[p].blocked \ s))
      BY <1>4, <2>2
    <3>2. proc[p].blocked \ s \in SUBSET Sigs
      BY <1>2, <1>3 DEF SigStates
    <3>3. QED BY <1>3, <3>1, <3>2
  <2>3. CASE how = "SIG_SETMASK"
    <3>1. SysCallEnd(p, Masked(proc[p], s))
      BY <1>4, <2>3
    <3>2. QED BY <1>3, <3>1
  <2>4. QED BY <2>1, <2>2, <2>3
<1> DEFINE r == proc[p]
           y == Masked(r, m)
<1>6. y = [r EXCEPT !.blocked = m, !.own = IF r.frames = <<>> THEN m ELSE @]
  BY DEF Masked
<1> HIDE DEF r
<1>7. r \in SigStates /\ ~r.suspended /\ OwnMask(r) /\ IgnoredAreStale(r) /\ KillIsDefault(r) /\ r.pc = "user"
  BY <1>1, <1>2 DEF r
<1>8. /\ y.pending = r.pending /\ y.pc = r.pc /\ y.blocked = m
      /\ y.oldmask = r.oldmask /\ y.act = r.act /\ y.suspended = FALSE /\ y.saved = r.saved
      /\ y.frames = r.frames /\ y.own = (IF r.frames = <<>> THEN m ELSE r.own) /\ y.nested = r.nested /\ y.stale = r.stale
  BY ONLY <1>6, <1>7 DEF SigStates
<1>9. y \in SigStates
  <2>1. m \in SUBSET Sigs /\ r \in SigStates /\ (IF r.frames = <<>> THEN m ELSE r.own) \in SUBSET Sigs
    BY <1>7 DEF SigStates
  <2>2. QED BY ONLY <1>6, <2>1 DEF SigStates
<1> HIDE DEF y
<1>10. OwnMask(y)
  <2>1. SIGKILL \in m => SIGKILL \in r.blocked
    BY <1>5 DEF r
  <2>2. QED BY <1>7, <1>8, <2>1 DEF OwnMask
<1>11. IgnoredAreStale(y)
  BY <1>7, <1>8 DEF IgnoredAreStale
<1>12. KillIsDefault(y) /\ Returned(y) /\ Looked(y)
  BY <1>7, <1>8 DEF KillIsDefault, Returned, Looked
<1>13. SigOK(y) /\ y.pc = "user"
  BY <1>7, <1>8, <1>9, <1>10, <1>11, <1>12 DEF SigOK
<1>14. SysCallEnd(p, y)
  BY <1>5 DEF y, r
<1>15. proc' \in [SigProcs -> SigStates] /\ AllOK(proc')
  BY <1>2, <1>13, <1>14, EndOK
<1>16. QED BY <1>1, <1>15, MenuStays DEF SigInv, AllOK

LEMMA SysActionOK ==
  ASSUME SigInv, NEW p \in SigProcs, NEW s \in sigmenu.sigs, NEW a \in sigmenu.acts, sys_sigaction(p, s, a)
  PROVE  SigInv'
<1>1. /\ Call(p, "action") /\ proc[p].pc = "user" /\ SigMenuOK /\ s \in Sigs /\ a \in SigActions
      /\ s \in SIG_BLOCKABLE \/ a.h = "dfl"
  BY DEF sys_sigaction, Call, SigInv, SigMenuOK
<1>2. /\ proc[p] \in SigStates /\ ~proc[p].suspended /\ OwnMask(proc[p]) /\ IgnoredAreStale(proc[p])
      /\ KillIsDefault(proc[p]) /\ AllOK(proc)
  BY <1>1, CallerOK
<1> DEFINE r == proc[p]
           y == [r EXCEPT !.act[s] = a, !.stale = IF a.h = "ign" /\ s \in r.pending THEN @ \cup {s} ELSE @ \ {s}]
<1>3. SysCallEnd(p, y) \/ SysCallEnd(p, kill_kpid(y, s))
  BY DEF sys_sigaction
<1> HIDE DEF r
<1>4. r \in SigStates /\ ~r.suspended /\ OwnMask(r) /\ IgnoredAreStale(r) /\ KillIsDefault(r) /\ r.pc = "user"
  BY <1>1, <1>2 DEF r
<1> DEFINE st == IF a.h = "ign" /\ s \in r.pending THEN r.stale \cup {s} ELSE r.stale \ {s}
           ac == [r.act EXCEPT ![s] = a]
<1>5. st \in SUBSET Sigs /\ ac \in [Sigs -> SigActions] /\ ac[s] = a /\ \A x \in Sigs : x # s => ac[x] = r.act[x]
  BY <1>1, <1>4 DEF SigStates
<1>6. y = [r EXCEPT !.act = ac, !.stale = st]
  BY <1>4 DEF SigStates
<1> HIDE DEF st, ac, y
<1>7. /\ y.pending = r.pending /\ y.pc = r.pc /\ y.blocked = r.blocked
      /\ y.oldmask = r.oldmask /\ y.act = ac /\ y.suspended = FALSE /\ y.saved = r.saved
      /\ y.frames = r.frames /\ y.own = r.own /\ y.nested = r.nested /\ y.stale = st
  BY <1>4, <1>6 DEF SigStates
<1>8. y \in SigStates
  BY <1>4, <1>5, <1>6 DEF SigStates
<1>9. OwnMask(y)
  BY <1>4, <1>7 DEF OwnMask
<1>10. IgnoredAreStale(y)
  <2>1. ASSUME NEW x \in r.pending \ {SIGCHLD}, ac[x].h = "ign" PROVE x \in st
    <3>1. x \in Sigs
      BY <1>4 DEF SigStates
    <3>2. CASE x = s
      BY <1>5, <2>1, <3>2 DEF st
    <3>3. CASE x # s
      BY <1>4, <1>5, <2>1, <3>1, <3>3 DEF st, IgnoredAreStale
    <3>4. QED BY <3>2, <3>3
  <2>2. QED BY <1>4, <1>7, <2>1 DEF IgnoredAreStale
<1>11. KillIsDefault(y)
  <2>1. ASSUME SIGKILL \in Sigs PROVE ac[SIGKILL].h = "dfl"
    <3>1. CASE s = SIGKILL
      BY <1>1, <1>5, <3>1, SigNumbers
    <3>2. CASE s # SIGKILL
      BY <1>4, <1>5, <2>1, <3>2 DEF KillIsDefault
    <3>3. QED BY <3>1, <3>2
  <2>2. QED BY <1>7, <2>1 DEF KillIsDefault
<1>12. Returned(y) /\ Looked(y)
  BY <1>4, <1>7 DEF Returned, Looked
<1>13. SigOK(y) /\ y.pc = "user"
  BY <1>4, <1>7, <1>8, <1>9, <1>10, <1>11, <1>12 DEF SigOK
<1>14. SigOK(kill_kpid(y, s)) /\ kill_kpid(y, s).pc = "user"
  <2>1. SigOK(kill_kpid(y, s))
    BY <1>1, <1>13, KillOK
  <2>2. kill_kpid(y, s).pc = "user"
    BY <1>8, <1>13 DEF kill_kpid, SigStates
  <2>3. QED BY <2>1, <2>2
<1>15. proc' \in [SigProcs -> SigStates] /\ AllOK(proc')
  BY <1>2, <1>3, <1>13, <1>14, EndOK
<1>16. QED BY <1>1, <1>15, MenuStays DEF SigInv, AllOK

LEMMA SigEndOK ==
  ASSUME SigInv, NEW p \in SigProcs, sys_sigend(p)
  PROVE  SigInv'
<1>1. /\ proc[p].pc = "user" /\ proc[p].frames # <<>> /\ UNCHANGED sigmenu /\ SigMenuOK
      /\ SysCallEnd(p, [proc[p] EXCEPT !.blocked = proc[p].oldmask, !.frames = Tail(@)])
  BY DEF sys_sigend, SigInv
<1>2. /\ proc[p] \in SigStates /\ ~proc[p].suspended /\ OwnMask(proc[p]) /\ IgnoredAreStale(proc[p])
      /\ KillIsDefault(proc[p]) /\ AllOK(proc)
  BY <1>1, CallerOK
<1> DEFINE r == proc[p]
           f == Tail(r.frames)
           y == [r EXCEPT !.blocked = r.oldmask, !.frames = f]
<1>3. SysCallEnd(p, y)
  BY <1>1, <1>2 DEF SigStates
<1> HIDE DEF r
<1>4. r \in SigStates /\ ~r.suspended /\ OwnMask(r) /\ IgnoredAreStale(r) /\ KillIsDefault(r) /\ r.pc = "user" /\ r.frames # <<>>
  BY <1>1, <1>2 DEF r
<1>5. f \in Seq(Sigs) /\ Len(f) = Len(r.frames) - 1 /\ (Len(r.frames) <= 1 => f = <<>>)
  BY <1>4 DEF SigStates
<1> HIDE DEF f
<1>6. /\ y.pending = r.pending /\ y.pc = r.pc /\ y.blocked = r.oldmask
      /\ y.oldmask = r.oldmask /\ y.act = r.act /\ y.suspended = FALSE /\ y.saved = r.saved
      /\ y.frames = f /\ y.own = r.own /\ y.nested = r.nested /\ y.stale = r.stale
  BY <1>4 DEF SigStates
<1>7. y \in SigStates
  BY <1>4, <1>5 DEF SigStates
<1> HIDE DEF y
<1>8. OwnMask(y)
  <2>1. ASSUME ~r.nested
        PROVE  SIGKILL \notin r.own /\ f = <<>> /\ Len(f) <= 1 /\ r.oldmask = r.own
    <3>1. SIGKILL \notin r.own /\ Len(r.frames) <= 1 /\ r.oldmask = r.own
      BY <1>4, <2>1 DEF OwnMask
    <3>2. QED BY <1>5, <3>1
  <2>2. QED BY <1>6, <2>1 DEF OwnMask
<1>9. IgnoredAreStale(y)
  BY <1>4, <1>6 DEF IgnoredAreStale
<1>10. KillIsDefault(y) /\ Returned(y) /\ Looked(y)
  BY <1>4, <1>6 DEF KillIsDefault, Returned, Looked
<1>11. SigOK(y) /\ y.pc = "user"
  BY <1>4, <1>6, <1>7, <1>8, <1>9, <1>10 DEF SigOK
<1>12. proc' \in [SigProcs -> SigStates] /\ AllOK(proc')
  BY <1>2, <1>3, <1>11, EndOK
<1>13. QED BY <1>1, <1>12 DEF SigInv, AllOK, SigMenuOK

LEMMA WaitedForOK ==
  ASSUME SigInv, NEW p \in SigProcs, WaitedFor(p)
  PROVE  SigInv'
<1>1. Call(p, "wait") /\ proc[p].pc = "user" /\ SigMenuOK /\ SysCallEnd(p, Reaped(proc[p]))
  BY DEF WaitedFor, Call, SigInv
<1>2. /\ proc[p] \in SigStates /\ ~proc[p].suspended /\ OwnMask(proc[p]) /\ IgnoredAreStale(proc[p])
      /\ KillIsDefault(proc[p]) /\ AllOK(proc)
  BY <1>1, CallerOK
<1> DEFINE y == Reaped(proc[p])
<1>3. y \in SigStates /\ OwnMask(y) /\ IgnoredAreStale(y) /\ KillIsDefault(y) /\ y.pc = "user" /\ ~y.suspended
  BY <1>1, <1>2, ReapedOK
<1>4. SysCallEnd(p, y)
  BY <1>1
<1> HIDE DEF y
<1>5. SigOK(y)
  BY <1>3 DEF SigOK, Returned, Looked
<1>6. proc' \in [SigProcs -> SigStates] /\ AllOK(proc')
  BY <1>2, <1>3, <1>4, <1>5, EndOK
<1>7. QED BY <1>1, <1>6, MenuStays DEF SigInv, AllOK

LEMMA SetUidOK ==
  ASSUME SigInv, NEW p \in SigProcs, NEW id \in sigmenu.ids, sys_setuid(p, id)
  PROVE  SigInv'
<1>1. Call(p, "setuid") /\ proc[p].pc = "user" /\ SigMenuOK /\ id \in Nat
  BY DEF sys_setuid, Call, SigInv, SigMenuOK
<1>2. /\ proc[p] \in SigStates /\ ~proc[p].suspended /\ OwnMask(proc[p]) /\ IgnoredAreStale(proc[p])
      /\ KillIsDefault(proc[p]) /\ AllOK(proc)
  BY <1>1, CallerOK
<1> DEFINE r == proc[p]
<1>3. PICK y \in {[r EXCEPT !.euid = id, !.ruid = id, !.suid = id], [r EXCEPT !.euid = id]} : SysCallEnd(p, y)
  BY DEF sys_setuid
<1> HIDE DEF r
<1>4. r \in SigStates /\ ~r.suspended /\ OwnMask(r) /\ IgnoredAreStale(r) /\ KillIsDefault(r) /\ r.pc = "user"
  BY <1>1, <1>2 DEF r
<1>5. /\ y.pending = r.pending /\ y.pc = r.pc /\ y.blocked = r.blocked
      /\ y.oldmask = r.oldmask /\ y.act = r.act /\ y.suspended = FALSE /\ y.saved = r.saved
      /\ y.frames = r.frames /\ y.own = r.own /\ y.nested = r.nested /\ y.stale = r.stale
  BY <1>3, <1>4 DEF SigStates
<1>6. y \in SigStates
  <2>1. CASE y = [r EXCEPT !.euid = id, !.ruid = id, !.suid = id]
    BY <1>1, <1>4, <2>1 DEF SigStates
  <2>2. CASE y = [r EXCEPT !.euid = id]
    BY <1>1, <1>4, <2>2 DEF SigStates
  <2>3. QED BY <1>3, <2>1, <2>2
<1>7. OwnMask(y)
  BY <1>4, <1>5 DEF OwnMask
<1>8. IgnoredAreStale(y)
  BY <1>4, <1>5 DEF IgnoredAreStale
<1>9. KillIsDefault(y) /\ Returned(y) /\ Looked(y)
  BY <1>4, <1>5 DEF KillIsDefault, Returned, Looked
<1>10. SigOK(y) /\ y.pc = "user"
  BY <1>4, <1>5, <1>6, <1>7, <1>8, <1>9 DEF SigOK
<1>11. proc' \in [SigProcs -> SigStates] /\ AllOK(proc')
  BY <1>2, <1>3, <1>10, EndOK
<1>12. QED BY <1>1, <1>11, MenuStays DEF SigInv, AllOK

LEMMA ExecOK ==
  ASSUME SigInv, NEW p \in SigProcs, NEW owner \in sigmenu.ids \cup {-1}, sys_exec(p, owner)
  PROVE  SigInv'
<1>1. Call(p, "exec") /\ proc[p].pc = "user" /\ SigMenuOK /\ (owner # -1 => owner \in Nat)
  BY DEF sys_exec, Call, SigInv, SigMenuOK
<1>2. /\ proc[p] \in SigStates /\ ~proc[p].suspended /\ OwnMask(proc[p]) /\ IgnoredAreStale(proc[p])
      /\ KillIsDefault(proc[p]) /\ AllOK(proc)
  BY <1>1, CallerOK
<1> DEFINE r == proc[p]
           id == IF owner = -1 THEN r.euid ELSE owner
           ac == [s \in Sigs |-> IF r.act[s].h = "handler" THEN [r.act[s] EXCEPT !.h = "dfl"] ELSE r.act[s]]
           ne == r.nested \/ r.frames # <<>>
           y == [r EXCEPT !.euid = id, !.act = ac, !.frames = <<>>, !.own = r.blocked, !.nested = ne]
<1>3. SysCallEnd(p, y)
  <2>1. SysCallEnd(p, [r EXCEPT !.euid = IF owner = -1 THEN @ ELSE owner,
                                !.act = [s \in Sigs |-> IF @[s].h = "handler" THEN [@[s] EXCEPT !.h = "dfl"] ELSE @[s]],
                                !.frames = <<>>, !.own = r.blocked, !.nested = @ \/ r.frames # <<>>])
    BY DEF sys_exec
  <2>2. r \in SigStates
    BY <1>2
  <2> HIDE DEF r
  <2>3. QED BY <2>1, <2>2 DEF SigStates
<1> HIDE DEF r
<1>4. r \in SigStates /\ ~r.suspended /\ OwnMask(r) /\ IgnoredAreStale(r) /\ KillIsDefault(r) /\ r.pc = "user"
  BY <1>1, <1>2 DEF r
<1>5. /\ ac \in [Sigs -> SigActions] /\ \A s \in Sigs : ac[s].h = IF r.act[s].h = "handler" THEN "dfl" ELSE r.act[s].h
  <2>1. ASSUME NEW s \in Sigs
        PROVE  /\ ac[s] \in SigActions
               /\ ac[s].h = IF r.act[s].h = "handler" THEN "dfl" ELSE r.act[s].h
    <3>1. r.act[s] \in SigActions
      BY <1>4 DEF SigStates
    <3>2. QED BY <3>1 DEF SigActions
  <2> DEFINE g(s) == IF r.act[s].h = "handler" THEN [r.act[s] EXCEPT !.h = "dfl"] ELSE r.act[s]
  <2>2. \A s \in Sigs : g(s) \in SigActions
    BY <2>1
  <2>3. ac = [s \in Sigs |-> g(s)]
    OBVIOUS
  <2> HIDE DEF g, ac
  <2>4. ac \in [Sigs -> SigActions]
    BY <2>2, <2>3
  <2>5. QED BY <2>1, <2>4 DEF ac
<1>6. id \in Nat /\ ne \in BOOLEAN
  BY <1>1, <1>4 DEF SigStates
<1> HIDE DEF id, ac
<1>7. /\ y.pending = r.pending /\ y.pc = r.pc /\ y.blocked = r.blocked
      /\ y.oldmask = r.oldmask /\ y.act = ac /\ y.suspended = FALSE /\ y.saved = r.saved
      /\ y.frames = <<>> /\ y.own = r.blocked /\ y.nested = ne /\ y.stale = r.stale
  BY <1>4 DEF SigStates
<1>8. y \in SigStates
  <2> HIDE DEF ne
  <2>1. <<>> \in Seq(Sigs) /\ r.blocked \in SUBSET Sigs
    BY <1>4 DEF SigStates
  <2>2. QED BY <1>4, <1>5, <1>6, <2>1 DEF SigStates
<1> HIDE DEF y
<1>9. OwnMask(y)
  <2>1. ASSUME ~ne PROVE SIGKILL \notin r.blocked
    BY <1>4, <2>1 DEF OwnMask
  <2>2. Len(<<>>) <= 1
    OBVIOUS
  <2>3. QED BY <1>7, <2>1, <2>2 DEF OwnMask
<1>10. IgnoredAreStale(y)
  <2>1. \A s \in r.pending : s \in Sigs
    BY <1>4 DEF SigStates
  <2>2. QED BY <1>4, <1>5, <1>7, <2>1 DEF IgnoredAreStale
<1>11. KillIsDefault(y) /\ Returned(y) /\ Looked(y)
  BY <1>4, <1>5, <1>7 DEF KillIsDefault, Returned, Looked
<1>12. SigOK(y) /\ y.pc = "user"
  BY <1>4, <1>7, <1>8, <1>9, <1>10, <1>11 DEF SigOK
<1>13. proc' \in [SigProcs -> SigStates] /\ AllOK(proc')
  BY <1>2, <1>3, <1>12, EndOK
<1>14. QED BY <1>1, <1>13, MenuStays DEF SigInv, AllOK

LEMMA ExitOK ==
  ASSUME SigInv, NEW p \in SigProcs, sys_exit(p)
  PROVE  SigInv'
<1>1. Call(p, "exit") /\ proc[p].pc = "user" /\ SigMenuOK /\ Becomes(proc, p, [proc[p] EXCEPT !.pc = "zombie"])
  BY DEF sys_exit, Call, SigInv
<1>2. /\ proc[p] \in SigStates /\ OwnMask(proc[p]) /\ IgnoredAreStale(proc[p])
      /\ KillIsDefault(proc[p]) /\ AllOK(proc)
  BY <1>1, CallerOK
<1>3. SigOK([proc[p] EXCEPT !.pc = "zombie"])
  BY <1>2, DeadOK
<1>4. proc' \in [SigProcs -> SigStates] /\ AllOK(proc')
  BY <1>1, <1>2, <1>3, BecomesOK
<1>5. QED BY <1>1, <1>4, MenuStays DEF SigInv, AllOK

LEMMA SigInitOK ==
  ASSUME NEW ids, \A p \in SigProcs : ids[p].uid \in Nat /\ ids[p].pgrp \in Nat, SigInit(ids)
  PROVE  SigInv
<1>1. SigMenuOK
  BY SignalsAssumption DEF SigInit, SigMenuOK, SigActions
<1>2. ASSUME NEW p \in SigProcs PROVE SigOK(proc[p])
  <2> DEFINE r == proc[p]
             ac == [s \in Sigs |-> Default]
  <2>1. r = NewProcess(ids[p])
    BY DEF SigInit
  <2>2. ac \in [Sigs -> SigActions] /\ \A s \in Sigs : ac[s].h = "dfl"
    BY DEF SigActions, Default
  <2> DEFINE uid == ids[p].uid
             grp == ids[p].pgrp
  <2>3. uid \in Nat /\ grp \in Nat /\ <<>> \in Seq(Sigs) /\ Len(<<>>) <= 1
    OBVIOUS
  <2>4. r = [pending |-> {}, blocked |-> {}, oldmask |-> {}, act |-> ac, pc |-> "user",
             suspended |-> FALSE, saved |-> {}, ruid |-> uid, euid |-> uid, suid |-> uid, pgrp |-> grp,
             frames |-> <<>>, own |-> {}, nested |-> FALSE, overslept |-> FALSE, stale |-> {}]
    BY <2>1 DEF NewProcess
  <2> HIDE DEF r, ac, uid, grp
  <2>5. r \in SigStates
    BY <2>2, <2>3, <2>4 DEF SigStates
  <2>6. OwnMask(r) /\ Returned(r) /\ Looked(r)
    BY <2>3, <2>4 DEF OwnMask, Returned, Looked
  <2>7. IgnoredAreStale(r) /\ KillIsDefault(r)
    BY <2>2, <2>4 DEF IgnoredAreStale, KillIsDefault
  <2>8. QED BY <2>5, <2>6, <2>7 DEF SigOK, r
<1>3. proc \in [SigProcs -> SigStates]
  <2>1. DOMAIN proc = SigProcs /\ proc = [p \in SigProcs |-> proc[p]]
    BY DEF SigInit
  <2>2. \A p \in SigProcs : proc[p] \in SigStates
    BY <1>2 DEF SigOK
  <2>3. QED BY <2>1, <2>2
<1>4. QED BY <1>1, <1>2, <1>3 DEF SigInv

LEMMA SigStepOK ==
  ASSUME SigInv, [SigNext]_sigVars
  PROVE  SigInv'
<1>1. ASSUME NEW p \in SigProcs, SigStep(p) PROVE SigInv'
  BY <1>1, SysKillOK, SysPauseOK, SysSuspendOK, SysMaskOK, SysActionOK, SigEndOK, WaitedForOK, SetUidOK, ExecOK, ExitOK
     DEF SigStep
<1>2. CASE UNCHANGED sigVars
  BY <1>2 DEF sigVars, SigInv, SigMenuOK
<1>3. QED BY <1>1, <1>2 DEF SigNext

LEMMA SigInvKeeps ==
  ASSUME SigInv
  PROVE  SignalsKept
<1>1. \A p \in SigProcs : proc[p] \in SigStates /\ Returned(proc[p]) /\ OwnMask(proc[p]) /\ Looked(proc[p]) /\ IgnoredAreStale(proc[p])
  BY DEF SigInv, SigOK
<1>2. NoSignalSleptOver
  BY <1>1 DEF NoSignalSleptOver, Looked
<1>3. MaskRestored
  BY <1>1 DEF MaskRestored, OwnMask, Returned
<1>4. IgnoredNotPending
  BY <1>1 DEF IgnoredNotPending, IgnoredAreStale
<1>5. KillObeyed
  <2>1. ASSUME NEW p \in SigProcs, SIGKILL \in proc[p].blocked PROVE proc[p].frames # <<>> \/ proc[p].nested
    BY <1>1, <2>1 DEF OwnMask
  <2>2. QED BY <1>1, <2>1 DEF KillObeyed, Looked
<1>6. QED BY <1>2, <1>3, <1>4, <1>5 DEF SignalsKept

\* Nobody sleeps over what it waits for: in waitpid() over the death of a child, in
\* pause() and sigsuspend() over a signal; a mask comes back when its handlers have
\* returned, an ignored signal is not pending, and SIGKILL is held off by handlers
\* only (kernel/exit.c, kernel/signal.c, kernel/sleep.c).
THEOREM SleepersAlwaysInformed == MCSpec => []SleepersInformed
<1>1. ASSUME MCInit PROVE ProcessInv /\ SigInv
  <2>1. ProcessInv
    BY <1>1, ProcessInit DEF MCInit
  <2>2. PICK ids \in MCIds : SigInit(ids)
    BY <1>1 DEF MCInit
  <2>3. \A p \in SigProcs : ids[p].uid \in Nat /\ ids[p].pgrp \in Nat
    BY <2>2 DEF MCIds
  <2>4. QED BY <2>1, <2>2, <2>3, SigInitOK
<1>2. ASSUME ProcessInv, SigInv, [MCNext]_<<vars, sigVars>> PROVE ProcessInv' /\ SigInv'
  <2>1. [Next]_vars /\ [SigNext]_sigVars
    BY <1>2 DEF MCNext
  <2>2. ProcessInv'
    BY <1>2, <2>1, ProcessStep
  <2>3. QED BY <1>2, <2>1, <2>2, SigStepOK
<1>3. ProcessInv /\ SigInv => SleepersInformed
  BY SigInvKeeps DEF ProcessInv, SleepersInformed
<1>4. MCInit => ProcessInv /\ SigInv
  BY <1>1
<1>5. ProcessInv /\ SigInv /\ [MCNext]_<<vars, sigVars>> => ProcessInv' /\ SigInv'
  BY <1>2
<1>6. QED BY <1>3, <1>4, <1>5, PTL DEF MCSpec
=============================================================================
