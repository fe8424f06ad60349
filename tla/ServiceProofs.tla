---------------------------- MODULE ServiceProofs ----------------------------
(***************************************************************************)
(* Chunks in use never overlap and lists and pools are exact, for any      *)
(* number of pages and any part of them dedicated (Chunks); the tables of  *)
(* the device switch always match the registered drivers, and a driver     *)
(* holds open what someone has open, for any number of drivers, devices,   *)
(* processes and entries (Devices); timers that all have one value are     *)
(* called when they are due, for any number of processes (Alarms); and the *)
(* mount table, the directories mounted on and the devices in use name     *)
(* each other, for any of them (Mounts).                                   *)
(***************************************************************************)
EXTENDS Chunks, Devices, Alarms, Mounts, Lists, FiniteSetTheorems, TLAPS

\* vm_alloc_delete() takes out the page it is given and no other.
LEMMA ListWithout ==
  ASSUME NEW S, NEW q \in Seq(S), IsInjective(q), NEW p \in Range(q)
  PROVE  /\ vm_alloc_delete(q, p) \in Seq(S) /\ IsInjective(vm_alloc_delete(q, p))
         /\ Range(vm_alloc_delete(q, p)) = Range(q) \ {p}
<1> DEFINE k == CHOOSE i \in DOMAIN q : q[i] = p
<1>1. k \in DOMAIN q /\ q[k] = p
  BY DEF Range
<1>2. QED BY <1>1, ListWithoutPlace DEF vm_alloc_delete

(***************************************************************************)
(* Units.                                                                  *)
(***************************************************************************)
\* bsf() of a map that is not empty.
LEMMA LowestUnit ==
  ASSUME NEW S \in SUBSET Units, S # {}
  PROVE  Min(S) \in S /\ \A y \in S : Min(S) <= y
<1>1. \E x \in S : \A y \in S : x <= y
  <2>1. S \subseteq 0..7
    BY DEF Units
  <2>2. CASE 0 \in S
    BY <2>1, <2>2
  <2>3. CASE 0 \notin S /\ 1 \in S
    BY <2>1, <2>3
  <2>4. CASE {0, 1} \cap S = {} /\ 2 \in S
    BY <2>1, <2>4
  <2>5. CASE {0, 1, 2} \cap S = {} /\ 3 \in S
    BY <2>1, <2>5
  <2>6. CASE {0, 1, 2, 3} \cap S = {} /\ 4 \in S
    BY <2>1, <2>6
  <2>7. CASE {0, 1, 2, 3, 4} \cap S = {} /\ 5 \in S
    BY <2>1, <2>7
  <2>8. CASE {0, 1, 2, 3, 4, 5} \cap S = {} /\ 6 \in S
    BY <2>1, <2>8
  <2>9. CASE {0, 1, 2, 3, 4, 5, 6} \cap S = {}
    <3>1. \A y \in S : y = 7
      BY <2>1, <2>9
    <3>2. QED BY <3>1
  <2>10. QED BY <2>1, <2>2, <2>3, <2>4, <2>5, <2>6, <2>7, <2>8, <2>9
<1>2. QED BY <1>1 DEF Min

\* Aligned chunks of one size cover the same units or none in common, and the unit
\* before one that begins no chunk is in the same chunk.
LEMMA AlignedChunks ==
  ASSUME NEW s \in Sizes, NEW x \in Units
  PROVE  /\ x % s = 0 => Chunk(x, s) \subseteq Units
         /\ x \in Chunk(x, s)
         /\ \A a \in Units : a % s = 0 /\ x \in Chunk(a, s) /\ x % s = 0 => a = x
         /\ \A a \in Units : a % s = 0 /\ x % s # 0 /\ x - 1 \in Chunk(a, s) => x \in Chunk(a, s)
         /\ \A a, y \in Units : a % s = 0 /\ x % s = 0 /\ y \in Chunk(a, s) /\ y \in Chunk(x, s) => a = x
<1>1. CASE s = 1 BY <1>1 DEF Units, Chunk
<1>2. CASE s = 2 BY <1>2 DEF Units, Chunk
<1>3. CASE s = 4 BY <1>3 DEF Units, Chunk
<1>4. QED BY <1>1, <1>2, <1>3 DEF Sizes

(***************************************************************************)
(* The inductive invariant.                                                *)
(***************************************************************************)
ChTypeOK ==
    /\ pgd \in [ChunkPages -> [map : SUBSET Units, size : Sizes \cup {0}, dedicated : BOOLEAN]]
    /\ m_vect \in [Sizes -> Seq(ChunkPages)]
    /\ pool \in [normal : SUBSET ChunkPages, dedicated : SUBSET ChunkPages]
    /\ chunks \subseteq ChunkPages \X Units \X Sizes

\* A chunk is a block of its page, at a multiple of its size.
WellCut == \A c \in chunks : c[3] = pgd[c[1]].size /\ c[2] % c[3] = 0

Covered(p, x) == \E c \in chunks : c[1] = p /\ x \in Chunk(c[2], c[3])

\* The map of a page that is divided holds the units no chunk covers.
MapsExact == \A p \in ChunkPages : pgd[p].size # 0 => \A x \in Units : x \in pgd[p].map <=> ~Covered(p, x)

\* A page is divided as long as one of its chunks is in use.
DividedIfUsed == \A p \in ChunkPages : pgd[p].size # 0 <=> \E c \in chunks : c[1] = p

\* A list holds the pages of its size that have a free chunk, once each.
OpenListed ==
    /\ \A s \in Sizes : IsInjective(m_vect[s])
    /\ \A s \in Sizes, p \in ChunkPages : p \in Range(m_vect[s]) <=> pgd[p].size = s /\ pgd[p].map # {}

\* A page that is not divided is in the pool it belongs to.
PoolsExact ==
    /\ pool.normal \cap Dedicated = {} /\ pool.dedicated \subseteq Dedicated
    /\ \A p \in ChunkPages : /\ pgd[p].size = 0 <=> p \in pool.normal \cup pool.dedicated
                             /\ pgd[p].size # 0 => (pgd[p].dedicated <=> p \in Dedicated)

ChInv == ChTypeOK /\ WellCut /\ MapsExact /\ DividedIfUsed /\ OpenListed /\ PoolsExact

\* A unit is in one chunk at most.
LEMMA OneChunkPerUnit ==
  ASSUME ChInv, NEW c \in chunks, NEW d \in chunks, c[1] = d[1],
         NEW x \in Units, x \in Chunk(c[2], c[3]), x \in Chunk(d[2], d[3])
  PROVE  c = d
<1>1. c \in ChunkPages \X Units \X Sizes /\ d \in ChunkPages \X Units \X Sizes
  BY DEF ChInv, ChTypeOK
<1>2. c[3] = d[3] /\ c[2] % c[3] = 0 /\ d[2] % c[3] = 0
  BY DEF ChInv, WellCut
<1>3. c[2] = d[2]
  BY <1>1, <1>2, AlignedChunks
<1>4. QED BY <1>1, <1>2, <1>3

\* The lowest free unit begins a free block.
LEMMA LowestBlock ==
  ASSUME ChInv, NEW p \in ChunkPages, pgd[p].size # 0, pgd[p].map # {}
  PROVE  /\ Min(pgd[p].map) \in Units /\ Min(pgd[p].map) % pgd[p].size = 0
         /\ Chunk(Min(pgd[p].map), pgd[p].size) \subseteq pgd[p].map
<1> DEFINE map == pgd[p].map
           s == pgd[p].size
           first == Min(map)
<1>1. map \in SUBSET Units /\ map # {} /\ s \in Sizes
  BY DEF ChInv, ChTypeOK
<1>2. first \in map /\ first \in Units /\ \A y \in map : first <= y
  BY <1>1, LowestUnit
<1>3. \A x \in Units : x \in map <=> \A c \in chunks : c[1] = p => x \notin Chunk(c[2], c[3])
  BY DEF ChInv, MapsExact, Covered
<1>4. \A c \in chunks : c[1] = p => c[2] \in Units /\ c[3] = s /\ c[2] % s = 0
  BY DEF ChInv, ChTypeOK, WellCut
<1> HIDE DEF map, s, first
<1>5. first % s = 0
  <2>1. SUFFICES ASSUME first % s # 0 PROVE FALSE
    OBVIOUS
  <2>2. first # 0 /\ first - 1 \in Units
    BY <1>1, <1>2, <2>1 DEF Units, Sizes
  <2>3. first - 1 \notin map
    BY <1>2, <2>2 DEF Units
  <2>4. PICK c \in chunks : c[1] = p /\ first - 1 \in Chunk(c[2], c[3])
    BY <1>3, <2>2, <2>3
  <2>5. first \in Chunk(c[2], s)
    BY <1>1, <1>2, <1>4, <2>1, <2>4, AlignedChunks
  <2>6. QED BY <1>2, <1>3, <1>4, <2>4, <2>5
<1>6. ASSUME NEW x \in Chunk(first, s) PROVE x \in map
  <2>1. x \in Units
    BY <1>1, <1>2, <1>5, <1>6, AlignedChunks
  <2>2. SUFFICES ASSUME NEW c \in chunks, c[1] = p, x \in Chunk(c[2], c[3]) PROVE FALSE
    BY <1>3, <2>1
  <2>3. c[2] = first
    BY <1>1, <1>2, <1>4, <1>5, <1>6, <2>1, <2>2, AlignedChunks
  <2>4. first \in Chunk(c[2], c[3])
    BY <1>1, <1>2, <1>4, <2>2, <2>3, AlignedChunks
  <2>5. QED BY <1>2, <1>3, <2>2, <2>4
<1>7. QED BY <1>2, <1>5, <1>6 DEF map, s, first

LEMMA ChInitInv == ChunksInit => ChInv
<1> SUFFICES ASSUME ChunksInit PROVE ChInv
  OBVIOUS
<1> USE DEF ChunksInit
<1>1. ChTypeOK
  BY ChunksAssumption DEF ChTypeOK
<1>2. WellCut /\ MapsExact /\ DividedIfUsed
  BY DEF WellCut, MapsExact, DividedIfUsed
<1>3. OpenListed
  BY DEF OpenListed, IsInjective, Range, Sizes
<1>4. PoolsExact
  BY ChunksAssumption DEF PoolsExact
<1>5. QED BY <1>1, <1>2, <1>3, <1>4 DEF ChInv

LEMMA ChInvDisjoint == ChInv => ChunksDisjoint
<1> SUFFICES ASSUME ChInv PROVE ChunksDisjoint
  OBVIOUS
<1> DEFINE mine(p) == {c \in chunks : c[1] = p}
           used(p) == UNION {Chunk(c[2], c[3]) : c \in mine(p)}
<1>1. \A c \in chunks : /\ c[1] \in ChunkPages /\ c[2] \in Units /\ c[3] \in Sizes
                        /\ c[3] = pgd[c[1]].size /\ c[2] % c[3] = 0
                        /\ Chunk(c[2], c[3]) \subseteq Units
  <2>1. \A c \in chunks : /\ c[1] \in ChunkPages /\ c[2] \in Units /\ c[3] \in Sizes
                          /\ c[3] = pgd[c[1]].size /\ c[2] % c[3] = 0
    BY DEF ChInv, ChTypeOK, WellCut
  <2>2. QED BY <2>1, AlignedChunks
<1>2. \A c, d \in chunks : c # d /\ c[1] = d[1] => Chunk(c[2], c[3]) \cap Chunk(d[2], d[3]) = {}
  <2>1. SUFFICES ASSUME NEW c \in chunks, NEW d \in chunks, c[1] = d[1],
                        NEW x, x \in Chunk(c[2], c[3]), x \in Chunk(d[2], d[3])
                 PROVE  c = d
    OBVIOUS
  <2>2. x \in Units
    BY <1>1, <2>1
  <2>3. QED BY <2>1, <2>2, OneChunkPerUnit
<1>3. ASSUME NEW p \in ChunkPages, mine(p) # {}
      PROVE  /\ pgd[p].map = Units \ used(p)
             /\ \A c \in mine(p) : c[3] = pgd[p].size /\ c[2] % c[3] = 0
             /\ p \in Range(m_vect[pgd[p].size]) <=> used(p) # Units
  <2>1. pgd[p].size # 0 /\ pgd[p].size \in Sizes /\ pgd[p].map \subseteq Units
    BY <1>3 DEF ChInv, ChTypeOK, DividedIfUsed
  <2>2. \A x \in Units : x \in pgd[p].map <=> x \notin used(p)
    BY <2>1 DEF ChInv, MapsExact, Covered
  <2>3. used(p) \subseteq Units
    BY <1>1
  <2>4. p \in Range(m_vect[pgd[p].size]) <=> pgd[p].map # {}
    BY <2>1 DEF ChInv, OpenListed
  <2> HIDE DEF used
  <2>5. pgd[p].map = Units \ used(p) /\ (pgd[p].map # {} <=> used(p) # Units)
    BY <2>1, <2>2, <2>3
  <2>6. QED BY <1>1, <2>4, <2>5
<1>4. ASSUME NEW p \in ChunkPages
      PROVE  mine(p) = {} <=> p \in IF p \in Dedicated THEN pool.dedicated ELSE pool.normal
  <2>1. mine(p) = {} <=> pgd[p].size = 0
    BY DEF ChInv, DividedIfUsed
  <2>2. QED BY <2>1 DEF ChInv, PoolsExact
<1>5. \A s \in Sizes : /\ IsInjective(m_vect[s])
                       /\ \A p \in Range(m_vect[s]) : pgd[p].map # {}
  <2>1. \A s \in Sizes : Range(m_vect[s]) \subseteq ChunkPages
    BY DEF ChInv, ChTypeOK, Range
  <2>2. QED BY <2>1 DEF ChInv, OpenListed
<1>6. QED BY <1>2, <1>3, <1>4, <1>5 DEF ChunksDisjoint

\* vm_alloc() from a page that has a free chunk.
LEMMA AllocOpenInv ==
  ASSUME ChInv, NEW s \in Sizes, AllocOpen(s)
  PROVE  ChInv'
<1> DEFINE p == Head(m_vect[s])
           first == Min(pgd[p].map)
           map == pgd[p].map \ Chunk(first, s)
           new == <<p, first, s>>
<1>1. /\ m_vect[s] # <<>> /\ m_vect[s] \in Seq(ChunkPages) /\ IsInjective(m_vect[s])
      /\ p \in Range(m_vect[s]) /\ p \in ChunkPages
  BY TailOfList DEF AllocOpen, ChInv, ChTypeOK, OpenListed, Range
<1>2. pgd[p].size = s /\ pgd[p].map # {} /\ pgd[p].map \subseteq Units
  BY <1>1 DEF ChInv, ChTypeOK, OpenListed
<1>3. first \in Units /\ first % s = 0 /\ Chunk(first, s) \subseteq pgd[p].map
  BY <1>1, <1>2, LowestBlock DEF Sizes
<1>4. /\ pgd' = [pgd EXCEPT ![p].map = map] /\ pool' = pool
      /\ m_vect' = [m_vect EXCEPT ![s] = IF map = {} THEN Tail(@) ELSE @]
      /\ chunks' = chunks \cup {new}
  BY DEF AllocOpen, StillOpen
<1> HIDE DEF p, first, map
<1>5. /\ pgd'[p].map = map /\ \A q \in ChunkPages : q # p => pgd'[q] = pgd[q]
      /\ \A q \in ChunkPages : pgd'[q].size = pgd[q].size /\ pgd'[q].dedicated = pgd[q].dedicated
  BY <1>1, <1>4 DEF ChInv, ChTypeOK
<1>6. IsInjective(m_vect'[s]) /\ Range(m_vect'[s]) = Range(m_vect[s]) \ IF map = {} THEN {p} ELSE {}
  <2>1. m_vect'[s] = IF map = {} THEN Tail(m_vect[s]) ELSE m_vect[s]
    BY <1>4 DEF ChInv, ChTypeOK
  <2>2. IsInjective(Tail(m_vect[s])) /\ Range(Tail(m_vect[s])) = Range(m_vect[s]) \ {p}
    BY <1>1, TailOfList DEF p
  <2>3. QED BY <1>1, <2>1, <2>2
<1>7. ChTypeOK'
  <2>1. map \in SUBSET Units
    BY <1>2 DEF map
  <2>2. Tail(m_vect[s]) \in Seq(ChunkPages)
    BY <1>1
  <2>3. pgd' \in [ChunkPages -> [map : SUBSET Units, size : Sizes \cup {0}, dedicated : BOOLEAN]]
    <3>1. pgd \in [ChunkPages -> [map : SUBSET Units, size : Sizes \cup {0}, dedicated : BOOLEAN]]
      BY DEF ChInv, ChTypeOK
    <3>2. PICK r : r = [pgd[p] EXCEPT !.map = map]
      OBVIOUS
    <3>3. pgd[p] \in [map : SUBSET Units, size : Sizes \cup {0}, dedicated : BOOLEAN]
      BY ONLY <1>1, <3>1
    <3>4. r \in [map : SUBSET Units, size : Sizes \cup {0}, dedicated : BOOLEAN]
      BY ONLY <2>1, <3>2, <3>3
    <3>5. pgd' = [pgd EXCEPT ![p] = r]
      BY ONLY <1>4, <3>2
    <3>6. QED BY ONLY <1>1, <3>1, <3>4, <3>5
  <2>4. m_vect' \in [Sizes -> Seq(ChunkPages)]
    BY <1>1, <1>4, <2>2 DEF ChInv, ChTypeOK
  <2>5. QED BY <1>1, <1>3, <1>4, <2>3, <2>4 DEF ChInv, ChTypeOK
<1>8. WellCut'
  <2>1. SUFFICES ASSUME NEW c \in chunks' PROVE c[3] = pgd'[c[1]].size /\ c[2] % c[3] = 0
    BY DEF WellCut
  <2>2. CASE c \in chunks
    BY <1>5, <2>2 DEF ChInv, ChTypeOK, WellCut
  <2>3. CASE c = new
    BY <1>1, <1>2, <1>3, <1>5, <2>3
  <2>4. QED BY <1>4, <2>1, <2>2, <2>3
<1>9. MapsExact'
  <2>1. SUFFICES ASSUME NEW q \in ChunkPages, pgd'[q].size # 0, NEW x \in Units
                 PROVE  x \in pgd'[q].map <=> ~\E c \in chunks' : c[1] = q /\ x \in Chunk(c[2], c[3])
    BY DEF MapsExact, Covered
  <2>2. x \in pgd[q].map <=> ~\E c \in chunks : c[1] = q /\ x \in Chunk(c[2], c[3])
    BY <1>5, <2>1 DEF ChInv, MapsExact, Covered
  <2>3. CASE q = p
    <3>1. x \in pgd'[q].map <=> x \in pgd[q].map /\ x \notin Chunk(new[2], new[3])
      BY <1>5, <2>3 DEF map
    <3>2. \A c \in chunks' : c \in chunks \/ c = new
      BY <1>4
    <3>3. new \in chunks' /\ new[1] = q /\ chunks \subseteq chunks'
      BY <1>4, <2>3
    <3> HIDE DEF new
    <3>4. QED BY <2>2, <3>1, <3>2, <3>3
  <2>4. CASE q # p
    BY <1>4, <1>5, <2>2, <2>4
  <2>5. QED BY <2>3, <2>4
<1>10. DividedIfUsed'
  <2>1. SUFFICES ASSUME NEW q \in ChunkPages PROVE pgd'[q].size # 0 <=> \E c \in chunks' : c[1] = q
    BY DEF DividedIfUsed
  <2>2. CASE q = p
    <3>1. pgd'[q].size # 0
      BY <1>1, <1>2, <1>5, <2>2 DEF Sizes
    <3>2. new \in chunks' /\ new[1] = q
      BY <1>4, <2>2
    <3>3. QED BY <3>1, <3>2
  <2>3. CASE q # p
    BY <1>4, <1>5, <2>3 DEF ChInv, DividedIfUsed
  <2>4. QED BY <2>2, <2>3
<1>11. OpenListed'
  <2>1. \A t \in Sizes : t # s => m_vect'[t] = m_vect[t]
    BY <1>4 DEF ChInv, ChTypeOK
  <2>2. \A t \in Sizes : IsInjective(m_vect'[t])
    BY <1>6, <2>1 DEF ChInv, OpenListed
  <2>3. ASSUME NEW t \in Sizes, NEW q \in ChunkPages
        PROVE  q \in Range(m_vect'[t]) <=> pgd'[q].size = t /\ pgd'[q].map # {}
    <3>1. q \in Range(m_vect[t]) <=> pgd[q].size = t /\ pgd[q].map # {}
      BY DEF ChInv, OpenListed
    <3>2. CASE q = p
      BY <1>1, <1>2, <1>5, <1>6, <2>1, <3>1, <3>2
    <3>3. CASE q # p
      BY <1>5, <1>6, <2>1, <3>1, <3>3
    <3>4. QED BY <3>2, <3>3
  <2>4. QED BY <2>2, <2>3 DEF OpenListed
<1>12. PoolsExact'
  BY <1>4, <1>5 DEF ChInv, PoolsExact
<1>13. QED BY <1>7, <1>8, <1>9, <1>10, <1>11, <1>12 DEF ChInv

\* vm_alloc() of a new page.
LEMMA AllocNewInv ==
  ASSUME ChInv, NEW s \in Sizes, NEW use_pool \in BOOLEAN, AllocNew(s, use_pool)
  PROVE  ChInv'
<1> DEFINE dedicated == use_pool /\ pool.dedicated # {}
<1>1. PICK p \in IF dedicated THEN pool.dedicated ELSE pool.normal :
          /\ pgd' = [pgd EXCEPT ![p] = [map |-> Units \ Chunk(0, s), size |-> s, dedicated |-> dedicated]]
          /\ m_vect' = [m_vect EXCEPT ![s] = <<p>>]
          /\ chunks' = chunks \cup {<<p, 0, s>>}
          /\ pool' = [normal |-> pool.normal \ {p}, dedicated |-> pool.dedicated \ {p}]
  BY DEF AllocNew
<1>2. m_vect[s] = <<>> /\ dedicated \in BOOLEAN
  BY DEF AllocNew
<1> HIDE DEF dedicated
<1>3. /\ p \in ChunkPages /\ pgd[p].size = 0 /\ (dedicated <=> p \in Dedicated)
      /\ pool.normal \cap Dedicated = {} /\ pool.dedicated \subseteq Dedicated
  <2>1. pool.normal \subseteq ChunkPages /\ pool.dedicated \subseteq ChunkPages
    BY DEF ChInv, ChTypeOK
  <2>2. CASE dedicated
    BY <1>1, <2>1, <2>2 DEF ChInv, PoolsExact
  <2>3. CASE ~dedicated
    BY <1>1, <2>1, <2>3 DEF ChInv, PoolsExact
  <2>4. QED BY <1>2, <2>2, <2>3
<1> DEFINE new == <<p, 0, s>>
           map == Units \ Chunk(0, s)
<1>4. ~\E c \in chunks : c[1] = p
  BY <1>3 DEF ChInv, DividedIfUsed
<1>5. 0 \in Units /\ 0 % s = 0 /\ map # {} /\ s # 0
  <2>1. 7 \in Units /\ 7 \notin Chunk(0, s)
    BY DEF Units, Chunk, Sizes
  <2>2. 0 % s = 0
    BY DEF Sizes
  <2>3. QED BY <2>1, <2>2 DEF Units, Sizes
<1>6. map \in SUBSET Units
  OBVIOUS
<1>7. /\ pgd'[p].map = map /\ pgd'[p].size = s /\ pgd'[p].dedicated = dedicated
      /\ \A q \in ChunkPages : q # p => pgd'[q] = pgd[q]
  BY <1>1, <1>3 DEF ChInv, ChTypeOK
<1>8. m_vect'[s] = <<p>> /\ \A t \in Sizes : t # s => m_vect'[t] = m_vect[t]
  BY <1>1 DEF ChInv, ChTypeOK
<1>9. new \in chunks' /\ chunks \subseteq chunks' /\ \A c \in chunks' : c \in chunks \/ c = new
  BY <1>1
<1>10. new[1] = p /\ new[2] = 0 /\ new[3] = s
  OBVIOUS
<1> HIDE DEF map
<1>11. ChTypeOK'
  <2>1. [map |-> map, size |-> s, dedicated |-> dedicated]
           \in [map : SUBSET Units, size : Sizes \cup {0}, dedicated : BOOLEAN]
    BY <1>2, <1>6
  <2>2. pgd' \in [ChunkPages -> [map : SUBSET Units, size : Sizes \cup {0}, dedicated : BOOLEAN]]
    BY <1>1, <1>3, <2>1 DEF ChInv, ChTypeOK, map
  <2>3. <<p>> \in Seq(ChunkPages)
    BY <1>3
  <2>4. m_vect' \in [Sizes -> Seq(ChunkPages)]
    BY <1>1, <2>3 DEF ChInv, ChTypeOK
  <2>5. pool' \in [normal : SUBSET ChunkPages, dedicated : SUBSET ChunkPages]
    BY <1>1 DEF ChInv, ChTypeOK
  <2>6. chunks' \subseteq ChunkPages \X Units \X Sizes
    BY <1>1, <1>3, <1>5 DEF ChInv, ChTypeOK
  <2>7. QED BY <2>2, <2>4, <2>5, <2>6 DEF ChTypeOK
<1>12. WellCut'
  <2>1. SUFFICES ASSUME NEW c \in chunks' PROVE c[3] = pgd'[c[1]].size /\ c[2] % c[3] = 0
    BY DEF WellCut
  <2>2. CASE c \in chunks
    BY <1>4, <1>7, <2>2 DEF ChInv, ChTypeOK, WellCut
  <2>3. CASE c = new
    BY <1>5, <1>7, <2>3
  <2>4. QED BY <1>9, <2>1, <2>2, <2>3
<1> HIDE DEF new
<1>13. MapsExact'
  <2>1. SUFFICES ASSUME NEW q \in ChunkPages, pgd'[q].size # 0, NEW x \in Units
                 PROVE  x \in pgd'[q].map <=> ~\E c \in chunks' : c[1] = q /\ x \in Chunk(c[2], c[3])
    BY DEF MapsExact, Covered
  <2>2. CASE q = p
    BY <1>4, <1>7, <1>9, <1>10, <2>2 DEF map
  <2>3. CASE q # p
    BY <1>7, <1>9, <1>10, <2>1, <2>3 DEF ChInv, MapsExact, Covered
  <2>4. QED BY <2>2, <2>3
<1>14. DividedIfUsed'
  <2>1. SUFFICES ASSUME NEW q \in ChunkPages PROVE pgd'[q].size # 0 <=> \E c \in chunks' : c[1] = q
    BY DEF DividedIfUsed
  <2>2. CASE q = p
    BY <1>5, <1>7, <1>9, <1>10, <2>2
  <2>3. CASE q # p
    BY <1>7, <1>9, <1>10, <2>3 DEF ChInv, DividedIfUsed
  <2>4. QED BY <2>2, <2>3
<1>15. OpenListed'
  <2>1. IsInjective(<<p>>) /\ Range(<<p>>) = {p}
    BY DEF IsInjective, Range
  <2>2. \A t \in Sizes : IsInjective(m_vect'[t])
    BY <1>8, <2>1 DEF ChInv, OpenListed
  <2>3. ASSUME NEW t \in Sizes, NEW q \in ChunkPages
        PROVE  q \in Range(m_vect'[t]) <=> pgd'[q].size = t /\ pgd'[q].map # {}
    <3>1. q \in Range(m_vect[t]) <=> pgd[q].size = t /\ pgd[q].map # {}
      BY DEF ChInv, OpenListed
    <3>2. Range(m_vect[s]) = {}
      BY <1>2 DEF Range
    <3>3. CASE t = s
      BY <1>5, <1>7, <1>8, <2>1, <3>1, <3>2, <3>3
    <3>4. CASE t # s
      BY <1>3, <1>7, <1>8, <3>1, <3>4 DEF Sizes
    <3>5. QED BY <3>3, <3>4
  <2>4. QED BY <2>2, <2>3 DEF OpenListed
<1>16. PoolsExact'
  <2>1. \A q \in ChunkPages : /\ pgd'[q].size = 0 <=> q \in pool'.normal \cup pool'.dedicated
                              /\ pgd'[q].size # 0 => (pgd'[q].dedicated <=> q \in Dedicated)
    <3>1. TAKE q \in ChunkPages
    <3>2. pool'.normal = pool.normal \ {p} /\ pool'.dedicated = pool.dedicated \ {p}
      BY <1>1
    <3>3. CASE q = p
      BY <1>3, <1>5, <1>7, <3>2, <3>3
    <3>4. CASE q # p
      BY <1>7, <3>2, <3>4 DEF ChInv, PoolsExact
    <3>5. QED BY <3>3, <3>4
  <2>2. QED BY <1>1, <1>3, <2>1 DEF PoolsExact
<1>17. QED BY <1>11, <1>12, <1>13, <1>14, <1>15, <1>16 DEF ChInv

\* vm_free().
LEMMA FreeInv ==
  ASSUME ChInv, NEW c \in chunks, vm_free(c)
  PROVE  ChInv'
<1> DEFINE p == c[1]
           s == pgd[p].size
           map == pgd[p].map \cup Chunk(c[2], s)
           free == [pgd EXCEPT ![p].map = map]
<1>1. /\ p \in ChunkPages /\ c[2] \in Units /\ c[3] = s /\ s \in Sizes /\ c[2] % s = 0
      /\ pgd[p].map \in SUBSET Units /\ s # 0
  <2>1. p \in ChunkPages /\ c[2] \in Units /\ c[3] \in Sizes /\ pgd[p].map \in SUBSET Units
    BY DEF ChInv, ChTypeOK
  <2>2. c[3] = s /\ c[2] % c[3] = 0
    BY DEF ChInv, WellCut
  <2>3. QED BY <2>1, <2>2 DEF Sizes
<1>2. /\ Chunk(c[2], s) \subseteq Units /\ c[2] \in Chunk(c[2], s) /\ Chunk(c[2], s) # Units
      /\ map \in SUBSET Units /\ map # {}
  <2>1. Chunk(c[2], s) \subseteq Units /\ c[2] \in Chunk(c[2], s)
    BY <1>1, AlignedChunks
  <2>2. CASE c[2] = 0
    <3>1. 7 \in Units /\ 7 \notin Chunk(c[2], s)
      BY <1>1, <2>2 DEF Units, Chunk, Sizes
    <3>2. QED BY <1>1, <2>1, <3>1
  <2>3. CASE c[2] # 0
    <3>1. 0 \in Units /\ 0 \notin Chunk(c[2], s)
      BY <1>1, <2>3 DEF Units, Chunk, Sizes
    <3>2. QED BY <1>1, <2>1, <3>1
  <2>4. QED BY <2>2, <2>3
<1>3. chunks' = chunks \ {c}
  BY DEF vm_free
<1>4. /\ m_vect[s] \in Seq(ChunkPages) /\ IsInjective(m_vect[s])
      /\ p \in Range(m_vect[s]) <=> pgd[p].map # {}
  BY <1>1 DEF ChInv, ChTypeOK, OpenListed
\* The page was full; or is partly used before and after; or is now empty.
<1>5. \/ /\ pgd[p].map = {} /\ map # Units
         /\ pgd' = free /\ m_vect' = [m_vect EXCEPT ![s] = <<p>> \o @] /\ pool' = pool
      \/ /\ pgd[p].map # {} /\ map # Units
         /\ pgd' = free /\ m_vect' = m_vect /\ pool' = pool
      \/ /\ pgd[p].map # {} /\ map = Units
         /\ pgd' = [pgd EXCEPT ![p].map = map, ![p].size = 0]
         /\ m_vect' = [m_vect EXCEPT ![s] = vm_alloc_delete(@, p)]
         /\ pool' = IF pgd[p].dedicated THEN [pool EXCEPT !.dedicated = @ \cup {p}]
                                        ELSE [pool EXCEPT !.normal = @ \cup {p}]
  BY <1>2 DEF vm_free
<1> HIDE DEF p, s, map
<1>6. /\ pgd'[p].map = map /\ pgd'[p].size = IF map = Units THEN 0 ELSE s
      /\ pgd'[p].dedicated = pgd[p].dedicated
      /\ \A q \in ChunkPages : q # p => pgd'[q] = pgd[q]
      /\ pgd' \in [ChunkPages -> [map : SUBSET Units, size : Sizes \cup {0}, dedicated : BOOLEAN]]
  <2>1. pgd \in [ChunkPages -> [map : SUBSET Units, size : Sizes \cup {0}, dedicated : BOOLEAN]]
    BY DEF ChInv, ChTypeOK
  <2>2. pgd[p].size = s
    BY DEF s
  <2>3. CASE pgd' = free /\ map # Units
    BY <1>1, <1>2, <2>1, <2>2, <2>3
  <2>4. CASE pgd' = [pgd EXCEPT ![p].map = map, ![p].size = 0] /\ map = Units
    BY <1>1, <1>2, <2>1, <2>2, <2>4
  <2>5. QED BY <1>5, <2>3, <2>4
<1>7. \A x \in Units : x \in map <=> ~\E d \in chunks' : d[1] = p /\ x \in Chunk(d[2], d[3])
  <2>1. TAKE x \in Units
  <2>2. x \in pgd[p].map <=> ~\E d \in chunks : d[1] = p /\ x \in Chunk(d[2], d[3])
    BY <1>1 DEF ChInv, MapsExact, Covered, s
  <2>3. CASE x \in Chunk(c[2], s)
    <3>1. x \in map
      BY <2>3 DEF map
    <3>2. \A d \in chunks : d[1] = p /\ x \in Chunk(d[2], d[3]) => c = d
      BY <1>1, <2>3, OneChunkPerUnit DEF p
    <3>3. QED BY <1>3, <3>1, <3>2
  <2>4. CASE x \notin Chunk(c[2], s)
    <3>1. x \in map <=> x \in pgd[p].map
      BY <2>4 DEF map, s
    <3>2. QED BY <1>1, <1>3, <2>2, <2>4, <3>1
  <2>5. QED BY <2>3, <2>4
<1>8. map = Units <=> ~\E d \in chunks' : d[1] = p
  <2>1. ASSUME NEW d \in chunks', d[1] = p, map = Units PROVE FALSE
    <3>1. d[2] \in Units /\ d[3] \in Sizes
      BY <1>3, <2>1 DEF ChInv, ChTypeOK
    <3>2. d[2] \in Chunk(d[2], d[3])
      BY <3>1, AlignedChunks
    <3>3. QED BY <1>7, <2>1, <3>1, <3>2
  <2>2. ASSUME map # Units PROVE \E d \in chunks' : d[1] = p
    <3>1. PICK x \in Units : x \notin map
      BY <1>2, <2>2
    <3>2. QED BY <1>7, <3>1
  <2>3. QED BY <2>1, <2>2
<1>9. /\ m_vect' \in [Sizes -> Seq(ChunkPages)] /\ \A t \in Sizes : t # s => m_vect'[t] = m_vect[t]
      /\ IsInjective(m_vect'[s])
      /\ Range(m_vect'[s]) = IF map = Units THEN Range(m_vect[s]) \ {p} ELSE Range(m_vect[s]) \cup {p}
  <2>1. m_vect \in [Sizes -> Seq(ChunkPages)]
    BY DEF ChInv, ChTypeOK
  <2>2. CASE pgd[p].map = {} /\ map # Units /\ m_vect' = [m_vect EXCEPT ![s] = <<p>> \o @]
    <3>1. m_vect'[s] = <<p>> \o m_vect[s]
      BY <1>1, <2>1, <2>2
    <3>2. /\ <<p>> \o m_vect[s] \in Seq(ChunkPages) /\ IsInjective(<<p>> \o m_vect[s])
          /\ Range(<<p>> \o m_vect[s]) = Range(m_vect[s]) \cup {p}
      BY <1>1, <1>4, <2>2, ListWithHead
    <3>3. QED BY <1>1, <2>1, <2>2, <3>1, <3>2
  <2>3. CASE pgd[p].map # {} /\ map # Units /\ m_vect' = m_vect
    BY <1>1, <1>4, <2>1, <2>3
  <2>4. CASE pgd[p].map # {} /\ map = Units /\ m_vect' = [m_vect EXCEPT ![s] = vm_alloc_delete(@, p)]
    <3>1. m_vect'[s] = vm_alloc_delete(m_vect[s], p)
      BY <1>1, <2>1, <2>4
    <3>2. /\ vm_alloc_delete(m_vect[s], p) \in Seq(ChunkPages) /\ IsInjective(vm_alloc_delete(m_vect[s], p))
          /\ Range(vm_alloc_delete(m_vect[s], p)) = Range(m_vect[s]) \ {p}
      BY <1>1, <1>4, <2>4, ListWithout
    <3>3. QED BY <1>1, <2>1, <2>4, <3>1, <3>2
  <2>5. QED BY <1>5, <2>2, <2>3, <2>4
<1>10. /\ pool' \in [normal : SUBSET ChunkPages, dedicated : SUBSET ChunkPages]
       /\ pool'.normal = IF map = Units /\ ~pgd[p].dedicated THEN pool.normal \cup {p} ELSE pool.normal
       /\ pool'.dedicated = IF map = Units /\ pgd[p].dedicated THEN pool.dedicated \cup {p} ELSE pool.dedicated
  <2>1. pool \in [normal : SUBSET ChunkPages, dedicated : SUBSET ChunkPages]
    BY DEF ChInv, ChTypeOK
  <2>2. CASE map # Units /\ pool' = pool
    BY <2>1, <2>2
  <2>3. CASE map = Units /\ pgd[p].dedicated /\ pool' = [pool EXCEPT !.dedicated = @ \cup {p}]
    BY <1>1, <2>1, <2>3
  <2>4. CASE map = Units /\ ~pgd[p].dedicated /\ pool' = [pool EXCEPT !.normal = @ \cup {p}]
    BY <1>1, <2>1, <2>4
  <2>5. QED BY <1>5, <2>2, <2>3, <2>4
<1>11. ChTypeOK'
  <2>1. chunks' \subseteq ChunkPages \X Units \X Sizes
    BY <1>3 DEF ChInv, ChTypeOK
  <2>2. QED BY <1>6, <1>9, <1>10, <2>1 DEF ChTypeOK
<1>12. WellCut'
  <2>1. SUFFICES ASSUME NEW d \in chunks' PROVE d[3] = pgd'[d[1]].size /\ d[2] % d[3] = 0
    BY DEF WellCut
  <2>2. d \in chunks /\ d[1] \in ChunkPages /\ d[3] = pgd[d[1]].size /\ d[2] % d[3] = 0
    BY <1>3, <2>1 DEF ChInv, ChTypeOK, WellCut
  <2>3. CASE d[1] = p
    BY <1>6, <1>8, <2>1, <2>2, <2>3 DEF s
  <2>4. CASE d[1] # p
    BY <1>6, <2>2, <2>4
  <2>5. QED BY <2>3, <2>4
<1>13. MapsExact'
  <2>1. SUFFICES ASSUME NEW q \in ChunkPages, pgd'[q].size # 0, NEW x \in Units
                 PROVE  x \in pgd'[q].map <=> ~\E d \in chunks' : d[1] = q /\ x \in Chunk(d[2], d[3])
    BY DEF MapsExact, Covered
  <2>2. CASE q = p
    BY <1>6, <1>7, <2>2
  <2>3. CASE q # p
    <3>1. \A d : d[1] = q => (d \in chunks' <=> d \in chunks)
      BY <1>3, <2>3 DEF p
    <3>2. QED BY <1>6, <2>1, <2>3, <3>1 DEF ChInv, MapsExact, Covered
  <2>4. QED BY <2>2, <2>3
<1>14. DividedIfUsed'
  <2>1. SUFFICES ASSUME NEW q \in ChunkPages PROVE pgd'[q].size # 0 <=> \E d \in chunks' : d[1] = q
    BY DEF DividedIfUsed
  <2>2. CASE q = p
    BY <1>1, <1>6, <1>8, <2>2
  <2>3. CASE q # p
    <3>1. \A d : d[1] = q => (d \in chunks' <=> d \in chunks)
      BY <1>3, <2>3 DEF p
    <3>2. QED BY <1>6, <2>1, <2>3, <3>1 DEF ChInv, DividedIfUsed
  <2>4. QED BY <2>2, <2>3
<1>15. OpenListed'
  <2>1. \A t \in Sizes : IsInjective(m_vect'[t])
    BY <1>9 DEF ChInv, OpenListed
  <2>2. ASSUME NEW t \in Sizes, NEW q \in ChunkPages
        PROVE  q \in Range(m_vect'[t]) <=> pgd'[q].size = t /\ pgd'[q].map # {}
    <3>1. q \in Range(m_vect[t]) <=> pgd[q].size = t /\ pgd[q].map # {}
      BY DEF ChInv, OpenListed
    <3>2. t # 0 /\ pgd[p].size = s
      BY DEF Sizes, s
    <3>3. CASE q = p
      BY <1>2, <1>6, <1>9, <3>1, <3>2, <3>3
    <3>4. CASE q # p
      BY <1>6, <1>9, <3>1, <3>4
    <3>5. QED BY <3>3, <3>4
  <2>3. QED BY <2>1, <2>2 DEF OpenListed
<1>16. PoolsExact'
  <2>1. pgd[p].dedicated <=> p \in Dedicated
    BY <1>1 DEF ChInv, PoolsExact, s
  <2>2. pool'.normal \cap Dedicated = {} /\ pool'.dedicated \subseteq Dedicated
    BY <1>10, <2>1 DEF ChInv, PoolsExact
  <2>3. ASSUME NEW q \in ChunkPages
        PROVE  /\ pgd'[q].size = 0 <=> q \in pool'.normal \cup pool'.dedicated
               /\ pgd'[q].size # 0 => (pgd'[q].dedicated <=> q \in Dedicated)
    <3>1. /\ pgd[q].size = 0 <=> q \in pool.normal \cup pool.dedicated
          /\ pgd[q].size # 0 => (pgd[q].dedicated <=> q \in Dedicated)
      BY DEF ChInv, PoolsExact
    <3>2. CASE q = p
      <4>1. p \notin pool.normal \cup pool.dedicated
        BY <1>1, <3>1, <3>2 DEF s
      <4>2. QED BY <1>1, <1>6, <1>10, <2>1, <3>2, <4>1
    <3>3. CASE q # p
      BY <1>6, <1>10, <3>1, <3>3
    <3>4. QED BY <3>2, <3>3
  <2>4. QED BY <2>2, <2>3 DEF PoolsExact
<1>17. QED BY <1>11, <1>12, <1>13, <1>14, <1>15, <1>16 DEF ChInv

(***************************************************************************)
(* The theorem.                                                            *)
(***************************************************************************)
LEMMA ChNextInv == ChInv /\ [ChNext]_chVars => ChInv'
<1> SUFFICES ASSUME ChInv, [ChNext]_chVars PROVE ChInv'
  OBVIOUS
<1>1. CASE UNCHANGED chVars
  BY <1>1 DEF chVars, ChInv, ChTypeOK, WellCut, MapsExact, Covered, DividedIfUsed, OpenListed, PoolsExact
<1>2. ASSUME NEW s \in Sizes, NEW use_pool \in BOOLEAN, vm_alloc(s, use_pool) PROVE ChInv'
  <2>1. CASE AllocOpen(s)
    BY <2>1, AllocOpenInv
  <2>2. CASE AllocNew(s, use_pool)
    BY <2>2, AllocNewInv
  <2>3. CASE AllocFails(s, use_pool)
    BY <1>1, <2>3 DEF AllocFails
  <2>4. QED BY <1>2, <2>1, <2>2, <2>3 DEF vm_alloc
<1>3. ASSUME NEW c \in chunks, vm_free(c) PROVE ChInv'
  BY <1>3, FreeInv
<1>4. QED BY <1>1, <1>2, <1>3 DEF ChNext

\* vm_alloc() and vm_free() never give two callers the same unit of a page, keep every
\* page with a free chunk on the list of its size, and return an empty page to the pool
\* it came from, for any number of pages and whichever of them are dedicated.
THEOREM ChunksAlwaysDisjoint == ChSpec => []ChunksDisjoint
<1>1. ChunksInit => ChInv
  BY ChInitInv
<1>2. ChInv /\ [ChNext]_chVars => ChInv'
  BY ChNextInv
<1>3. ChInv => ChunksDisjoint
  BY ChInvDisjoint
<1>4. QED BY <1>1, <1>2, <1>3, PTL DEF ChSpec

-----------------------------------------------------------------------------
(***************************************************************************)
(* What a table of drivers says of a device.                               *)
(***************************************************************************)
In(drv, m)      == m \in Majors /\ "open" \in drv[m].fns
FlagOf(drv, d)  == IF drv[d.major].name = "klog" THEN [d EXCEPT !.minor = 0] ELSE d
KeepsIn(drv, d) == In(drv, d.major) /\ drv[d.major].name \in {"vtty", "lp", "klog"}
LogIn(drv, d)   == In(drv, d.major) /\ drv[d.major].name = "klog"

\* A flag shows its driver, and its device unless that is a log.
LEMMA FlagFacts ==
  ASSUME NEW drv, NEW d \in DeviceNos, NEW e \in DeviceNos
  PROVE  /\ FlagOf(drv, d) \in DeviceNos /\ FlagOf(drv, d).major = d.major
         /\ d.major = e.major => (KeepsIn(drv, d) <=> KeepsIn(drv, e)) /\ (LogIn(drv, d) <=> LogIn(drv, e))
         /\ FlagOf(drv, d) = FlagOf(drv, e) => d.major = e.major
         /\ LogIn(drv, d) => KeepsIn(drv, d)
         /\ LogIn(drv, d) /\ d.major = e.major => FlagOf(drv, d) = FlagOf(drv, e)
         /\ KeepsIn(drv, d) /\ ~LogIn(drv, d) /\ FlagOf(drv, d) = FlagOf(drv, e) => d = e
<1>1. /\ FlagOf(drv, d) \in DeviceNos /\ FlagOf(drv, d).major = d.major
      /\ FlagOf(drv, e) \in DeviceNos /\ FlagOf(drv, e).major = e.major
  BY DEF FlagOf, DeviceNos
<1>2. d.major = e.major => (KeepsIn(drv, d) <=> KeepsIn(drv, e)) /\ (LogIn(drv, d) <=> LogIn(drv, e))
  BY DEF KeepsIn, LogIn
<1>3. LogIn(drv, d) => KeepsIn(drv, d)
  BY DEF KeepsIn, LogIn
<1>4. LogIn(drv, d) /\ d.major = e.major => FlagOf(drv, d) = FlagOf(drv, e)
  BY DEF LogIn, FlagOf, DeviceNos
<1>5. KeepsIn(drv, d) /\ ~LogIn(drv, d) /\ FlagOf(drv, d) = FlagOf(drv, e) => d = e
  BY <1>1 DEF KeepsIn, LogIn, FlagOf
<1>6. QED BY <1>1, <1>2, <1>3, <1>4, <1>5

(***************************************************************************)
(* The invariant.  An entry is taken by who has it or is opening it, and   *)
(* held by who has it or is closing it.                                    *)
(***************************************************************************)
TakesIn(dp, p, fd) == fd \in dp[p].has \/ (dp[p].pc \in {"naming", "locked"} /\ dp[p].fd = fd)
HoldsIn(dp, p, fd) == fd \in dp[p].has \/ (dp[p].pc = "closing" /\ dp[p].fd = fd)

Entry == [count : {0, 1}, inode : Nodes \cup {0}, offset : Nat]
Call  == [pc : {"idle", "naming", "locked", "closing"}, fd : DevFds \cup {0}, inode : Nodes \cup {0}, has : SUBSET DevFds]

DevTypeOK ==
    /\ boot \in Seq({gd \in Drivers : gd.major # 0}) /\ driver \in [Majors -> Drivers]
    /\ irq_map \subseteq Nat /\ timer_map \in Seq(Majors)
    /\ in_use \subseteq DeviceNos /\ kept \subseteq DeviceNos
    /\ dfdt \in [DevFds -> Entry] /\ dproc \in [DevProcs -> Call]
    /\ dpanic \in BOOLEAN /\ stolen \in BOOLEAN /\ reached \in Nat

\* While drivers register nobody calls them.
BootQuiet == boot # <<>> => in_use = {} /\ \A p \in DevProcs : dproc[p].pc = "idle" /\ dproc[p].has = {}

CallsKnown == \A p \in DevProcs :
    /\ dproc[p].pc # "idle" => dproc[p].fd \in DevFds
    /\ dproc[p].pc \in {"naming", "locked"} => dproc[p].fd \notin dproc[p].has
    /\ dproc[p].pc = "closing" => dfdt[dproc[p].fd].count = 0 /\ dfdt[dproc[p].fd].inode = dproc[p].inode

EntriesTaken == \A fd \in DevFds : dfdt[fd].count = 1 <=> \E p \in DevProcs : TakesIn(dproc, p, fd)
TakenOnce    == \A p, q \in DevProcs, fd \in DevFds : TakesIn(dproc, p, fd) /\ TakesIn(dproc, q, fd) => p = q
HeldOnce     == \A p, q \in DevProcs, fd \in DevFds : HoldsIn(dproc, p, fd) /\ HoldsIn(dproc, q, fd) => p = q

Served == \A p \in DevProcs : \A fd \in dproc[p].has :
              Rdev[dfdt[fd].inode].major # 0 => In(driver, Rdev[dfdt[fd].inode].major)

\* The log is open once, whatever its minors.
OneLog == \A p, q \in DevProcs, f, g \in DevFds :
              HoldsIn(dproc, p, f) /\ HoldsIn(dproc, q, g) /\ LogIn(driver, Rdev[dfdt[f].inode])
                /\ Rdev[dfdt[f].inode].major = Rdev[dfdt[g].inode].major
              => f = g /\ FlagOf(driver, Rdev[dfdt[f].inode]) \in in_use

OpenFlagged == \A p \in DevProcs, fd \in DevFds :
                  fd \in dproc[p].has /\ KeepsIn(driver, Rdev[dfdt[fd].inode])
                  => FlagOf(driver, Rdev[dfdt[fd].inode]) \in in_use

FlagsHeld == \A d \in in_use : KeepsIn(driver, d) =>
                d \in kept \/ \E p \in DevProcs, fd \in DevFds :
                                 HoldsIn(dproc, p, fd) /\ FlagOf(driver, Rdev[dfdt[fd].inode]) = d

CallInv == BootQuiet /\ CallsKnown /\ EntriesTaken /\ TakenOnce /\ HeldOnce /\ Served /\ OneLog /\ OpenFlagged /\ FlagsHeld

DevInv == DevTypeOK /\ ~In(driver, 0) /\ TablesMatch /\ ~dpanic /\ reached <= MemSize /\ (stolen \/ CallInv)

LEMMA NodeFacts == /\ \A n \in Nodes \cup {0} : Rdev[n] \in DeviceNos
                   /\ MaxDrivers \in Nat /\ MemSize \in Nat
                   /\ DevFds \subseteq Nat \ {0} /\ DevCounts \subseteq Nat /\ Offsets \subseteq Int
  BY DevAssumption

(***************************************************************************)
(* Registration.                                                           *)
(***************************************************************************)
\* Timers of different drivers leave room for that of another one.
LEMMA TimerRoom ==
  ASSUME NEW n \in Nat, NEW s \in Seq(0..n - 1), NEW m \in 0..n - 1,
         \A i, j \in 1..Len(s) : s[i] = s[j] => i = j, \A i \in 1..Len(s) : s[i] # m
  PROVE  Len(s) < n
<1> DEFINE S == (0..n - 1) \ {m}
<1>1. IsFiniteSet(0..n - 1) /\ Cardinality(0..n - 1) = n
  BY FS_Interval
<1>2. IsFiniteSet(S) /\ Cardinality(S) = n - 1
  <2>1. PICK I : I = 0..n - 1
    OBVIOUS
  <2>2. IsFiniteSet(I) /\ Cardinality(I) = n /\ m \in I
    BY <1>1, <2>1
  <2>3. IsFiniteSet(I \ {m}) /\ Cardinality(I \ {m}) = n - 1
    BY ONLY <2>2, FS_RemoveElement
  <2>4. QED BY <2>1, <2>3
<1>3. IsFiniteSet(1..Len(s)) /\ Cardinality(1..Len(s)) = Len(s)
  <2>1. Len(s) \in Nat /\ 1 \in Int /\ Len(s) \in Int
    OBVIOUS
  <2>2. IsFiniteSet(1..Len(s)) /\ Cardinality(1..Len(s)) = IF 1 > Len(s) THEN 0 ELSE Len(s) - 1 + 1
    BY ONLY <2>1, FS_Interval
  <2>3. QED BY <2>1, <2>2
<1>4. s \in [1..Len(s) -> S] /\ \A i, j \in 1..Len(s) : s[i] = s[j] => i = j
  OBVIOUS
<1> HIDE DEF S
<1>5. ~(Cardinality(S) < Cardinality(1..Len(s)))
  <2> DEFINE D == 1..Len(s)
  <2>1. IsFiniteSet(D) /\ IsFiniteSet(S) /\ s \in [D -> S] /\ ~ \E i, j \in D : i # j /\ s[i] = s[j]
    BY <1>2, <1>3, <1>4
  <2> HIDE DEF D
  <2>2. ~(Cardinality(S) < Cardinality(D))
    BY ONLY <2>1, FS_PigeonHole
  <2>3. QED BY <2>2 DEF D
<1>6. QED BY <1>2, <1>3, <1>5

LEMMA RegisterInv ==
  ASSUME DevInv, ~stolen, register_driver
  PROVE  DevInv'
<1> DEFINE gd == Head(boot)
           goes == Acceptable(gd) /\ IrqFree(gd) /\ TimerFree(gd)
<1>1. /\ gd \in Drivers /\ gd.major # 0 /\ boot' \in Seq({g \in Drivers : g.major # 0})
      /\ UNCHANGED <<in_use, dfdt, dproc, reached, kept, stolen>> /\ boot # <<>>
      /\ dpanic' = (Acceptable(gd) /\ IrqFree(gd) /\ ~TimerFree(gd) /\ gd.irq = NOIRQ)
      /\ IF goes THEN irq_register(gd) /\ register_timer(gd) /\ driver' = [driver EXCEPT ![gd.major] = gd]
                 ELSE UNCHANGED <<driver, irq_map, timer_map>>
  BY DEF DevInv, DevTypeOK, register_driver
<1> HIDE DEF gd, goes
<1>2. Acceptable(gd) => /\ gd.major \in Majors /\ gd.major \notin Registered
                        /\ "open" \in gd.fns
  BY DEF Acceptable, Complete, Registered
<1>3. Acceptable(gd) => TimerFree(gd)
  <2>1. HAVE Acceptable(gd)
  <2>2. \A i \in 1..Len(timer_map) : timer_map[i] \in Registered
    BY DEF DevInv, TablesMatch
  <2>3. /\ timer_map \in Seq(0..MaxDrivers - 1) /\ gd.major \in 0..MaxDrivers - 1 /\ MaxDrivers \in Nat
        /\ \A i, j \in 1..Len(timer_map) : timer_map[i] = timer_map[j] => i = j
        /\ \A i \in 1..Len(timer_map) : timer_map[i] # gd.major
    BY <1>2, <2>1, <2>2, NodeFacts DEF DevInv, DevTypeOK, TablesMatch, Majors
  <2>4. Len(timer_map) < MaxDrivers
    BY <2>3, TimerRoom
  <2>5. QED BY <2>4 DEF TimerFree
<1>4. ~dpanic'
  BY <1>1, <1>3
<1>5. DevTypeOK'
  <2>1. CASE goes
    <3>1. driver' \in [Majors -> Drivers]
      BY <1>1, <1>2, <2>1 DEF DevInv, DevTypeOK, goes
    <3>2. irq_map' \subseteq Nat
      <4>1. gd.irq \in Nat /\ irq_map \subseteq Nat
        <5>1. gd \in Drivers
          BY <1>1
        <5>2. gd.irq \in 0..255
          BY ONLY <5>1 DEF Drivers
        <5>3. irq_map \subseteq Nat
          BY DEF DevInv, DevTypeOK
        <5>4. QED BY <5>2, <5>3
      <4>2. irq_map' = irq_map \cup ({gd.irq} \ {NOIRQ})
        BY <1>1, <2>1 DEF irq_register
      <4>3. QED BY <4>1, <4>2
    <3>3. timer_map' \in Seq(Majors)
      <4>1. gd.major \in Majors /\ timer_map \in Seq(Majors)
        BY <1>2, <2>1 DEF goes, DevInv, DevTypeOK
      <4>2. timer_map' = IF gd.timer THEN Append(timer_map, gd.major) ELSE timer_map
        BY <1>1, <2>1 DEF register_timer
      <4>3. CASE gd.timer
        BY <4>1, <4>2, <4>3
      <4>4. CASE ~gd.timer
        BY <4>1, <4>2, <4>4
      <4>5. QED BY <4>3, <4>4
    <3>4. QED BY <1>1, <1>4, <3>1, <3>2, <3>3 DEF DevInv, DevTypeOK
  <2>2. CASE ~goes
    BY <1>1, <1>4, <2>2 DEF DevInv, DevTypeOK
  <2>3. QED BY <2>1, <2>2
<1>6. ~In(driver, 0)' /\ TablesMatch'
  <2>1. CASE ~goes
    BY <1>1, <2>1 DEF DevInv, In, TablesMatch, Registered, registered
  <2>2. CASE goes
    <3>1. /\ driver' = [driver EXCEPT ![gd.major] = gd]
          /\ irq_map' = irq_map \cup ({gd.irq} \ {NOIRQ})
          /\ timer_map' = IF gd.timer THEN Append(timer_map, gd.major) ELSE timer_map
          /\ gd.major \in Majors /\ gd.major \notin Registered /\ "open" \in gd.fns
          /\ driver \in [Majors -> Drivers] /\ timer_map \in Seq(Majors)
      BY <1>1, <1>2, <2>2 DEF goes, irq_register, register_timer, DevInv, DevTypeOK
    <3>2. /\ driver'[gd.major] = gd /\ \A m \in Majors : m # gd.major => driver'[m] = driver[m]
          /\ gd.irq = NOIRQ \/ gd.irq \notin irq_map
      BY <2>2, <3>1 DEF goes, IrqFree
    <3>3. Registered' = Registered \cup {gd.major}
      BY <3>1, <3>2 DEF Registered, registered
    <3>4. ~In(driver, 0)'
      BY <1>1, <3>2 DEF DevInv, In
    <3>5. \A m \in Registered : m \in Majors /\ driver'[m] = driver[m] /\ m # gd.major
      BY <3>1, <3>2 DEF Registered
    <3>6. /\ irq_map = {TIMER_IRQ, CASCADE_IRQ} \cup ({driver[m].irq : m \in Registered} \ {NOIRQ})
          /\ \A m \in Registered : driver[m].irq \notin {TIMER_IRQ, CASCADE_IRQ}
          /\ \A m, o \in Registered : driver[m].irq = driver[o].irq /\ driver[m].irq # NOIRQ => m = o
          /\ {timer_map[i] : i \in 1..Len(timer_map)} = {m \in Registered : driver[m].timer}
          /\ \A i, j \in 1..Len(timer_map) : timer_map[i] = timer_map[j] => i = j
      BY DEF DevInv, TablesMatch
    <3>7. {driver'[m].irq : m \in Registered'} = {driver[m].irq : m \in Registered} \cup {gd.irq}
      BY <3>2, <3>3, <3>5
    <3>8. irq_map' = {TIMER_IRQ, CASCADE_IRQ} \cup ({driver'[m].irq : m \in Registered'} \ {NOIRQ})
      BY <3>1, <3>6, <3>7
    <3>9. gd.irq \notin {TIMER_IRQ, CASCADE_IRQ} /\ \A m \in Registered : driver[m].irq = gd.irq => gd.irq = NOIRQ
      BY <3>2, <3>6 DEF NOIRQ, TIMER_IRQ, CASCADE_IRQ
    <3>10. \A m \in Registered' : driver'[m].irq \notin {TIMER_IRQ, CASCADE_IRQ}
      BY <3>2, <3>3, <3>5, <3>6, <3>9
    <3>11. \A m, o \in Registered' : driver'[m].irq = driver'[o].irq /\ driver'[m].irq # NOIRQ => m = o
      BY <3>2, <3>3, <3>5, <3>6, <3>9
    <3>12. /\ {timer_map'[i] : i \in 1..Len(timer_map')} = {m \in Registered' : driver'[m].timer}
           /\ \A i, j \in 1..Len(timer_map') : timer_map'[i] = timer_map'[j] => i = j
      <4>1. {m \in Registered' : driver'[m].timer} = {m \in Registered : driver[m].timer} \cup IF gd.timer THEN {gd.major} ELSE {}
        BY <3>2, <3>3, <3>5
      <4>2. CASE ~gd.timer
        BY <3>1, <3>6, <4>1, <4>2
      <4>3. CASE gd.timer
        <5>1. /\ Len(timer_map') = Len(timer_map) + 1 /\ Len(timer_map) \in Nat
              /\ timer_map'[Len(timer_map) + 1] = gd.major
              /\ \A i \in 1..Len(timer_map) : timer_map'[i] = timer_map[i]
          BY <3>1, <4>3
        <5>2. \A i \in 1..Len(timer_map) : timer_map[i] # gd.major
          BY <3>5, <3>6
        <5>3. {timer_map'[i] : i \in 1..Len(timer_map')} = {timer_map[i] : i \in 1..Len(timer_map)} \cup {gd.major}
          <6>1. \A i \in 1..Len(timer_map') : i \in 1..Len(timer_map) \/ i = Len(timer_map) + 1
            BY <5>1
          <6>2. 1..Len(timer_map) \subseteq 1..Len(timer_map') /\ Len(timer_map) + 1 \in 1..Len(timer_map')
            BY <5>1
          <6>3. QED BY <5>1, <6>1, <6>2
        <5>4. \A i, j \in 1..Len(timer_map') : timer_map'[i] = timer_map'[j] => i = j
          BY <3>6, <5>1, <5>2
        <5>5. QED BY <3>6, <4>1, <4>3, <5>3, <5>4
      <4>4. QED BY <4>2, <4>3
    <3>13. QED BY <3>4, <3>8, <3>10, <3>11, <3>12 DEF TablesMatch
  <2>3. QED BY <2>1, <2>2
<1>7. CallInv'
  <2>1. /\ in_use = {} /\ \A p \in DevProcs : dproc[p].pc = "idle" /\ dproc[p].has = {}
        /\ in_use' = in_use /\ dproc' = dproc /\ dfdt' = dfdt
    BY <1>1 DEF DevInv, CallInv, BootQuiet
  <2>2. /\ \A p \in DevProcs, fd \in DevFds : ~HoldsIn(dproc, p, fd)
        /\ CallsKnown /\ EntriesTaken /\ TakenOnce /\ HeldOnce
    BY <2>1 DEF DevInv, CallInv, HoldsIn
  <2>3. BootQuiet' /\ Served' /\ OpenFlagged' /\ FlagsHeld'
    BY <2>1 DEF BootQuiet, Served, OpenFlagged, FlagsHeld
  <2>4. OneLog'
    BY <2>1, <2>2 DEF OneLog
  <2>5. CallsKnown' /\ EntriesTaken' /\ TakenOnce' /\ HeldOnce'
    BY <2>1, <2>2 DEF CallsKnown, EntriesTaken, TakenOnce, HeldOnce
  <2>6. QED BY <2>3, <2>4, <2>5 DEF CallInv
<1>8. QED BY <1>1, <1>4, <1>5, <1>6, <1>7 DEF DevInv

\* What no call changes.
LEMMA TablesStay ==
  ASSUME DevInv, Up, UNCHANGED <<boot, driver, irq_map, timer_map>>
  PROVE  /\ ~In(driver, 0)' /\ TablesMatch' /\ BootQuiet'
         /\ boot' \in Seq({gd \in Drivers : gd.major # 0}) /\ driver' \in [Majors -> Drivers]
         /\ irq_map' \subseteq Nat /\ timer_map' \in Seq(Majors)
<1>1. ~In(driver, 0)' /\ BootQuiet'
  BY DEF DevInv, In, Up, Booted, BootQuiet
<1>2. TablesMatch'
  BY DEF DevInv, TablesMatch, Registered, registered
<1>3. QED BY <1>1, <1>2 DEF DevInv, DevTypeOK

(***************************************************************************)
(* Opening.                                                                *)
(***************************************************************************)
LEMMA GetFdInv ==
  ASSUME DevInv, ~stolen, NEW p \in DevProcs, NEW n \in Nodes, get_fd(p, n)
  PROVE  DevInv'
<1> PICK fd \in Free :
       /\ dfdt' = [dfdt EXCEPT ![fd].count = 1]
       /\ dproc' = [dproc EXCEPT ![p].pc = "naming", ![p].fd = fd, ![p].inode = n]
       /\ stolen' = (stolen \/ \E q \in DevProcs : dproc[q].pc = "closing" /\ dproc[q].fd = fd)
  BY DEF get_fd
<1>1. /\ Up /\ dproc[p].pc = "idle" /\ fd \in DevFds /\ dfdt[fd].count = 0
      /\ UNCHANGED <<boot, driver, irq_map, timer_map, in_use, dpanic, reached, kept>>
      /\ dfdt \in [DevFds -> Entry] /\ dproc \in [DevProcs -> Call]
  BY DEF get_fd, Calls, Free, DevInv, DevTypeOK
<1>2. /\ dfdt' \in [DevFds -> Entry] /\ dproc' \in [DevProcs -> Call] /\ stolen' \in BOOLEAN
      /\ dfdt'[fd] = [dfdt[fd] EXCEPT !.count = 1] /\ dfdt'[fd].count = 1
      /\ \A g \in DevFds : dfdt'[g].inode = dfdt[g].inode /\ (g # fd => dfdt'[g] = dfdt[g])
  <2>1. dfdt' \in [DevFds -> Entry] /\ dproc' \in [DevProcs -> Call]
    <3>1. dfdt' \in [DevFds -> Entry]
      BY <1>1 DEF Entry
    <3>2. fd \in DevFds \cup {0} /\ n \in Nodes \cup {0} /\ dproc \in [DevProcs -> Call]
      BY <1>1
    <3>3. dproc' \in [DevProcs -> Call]
      <4>1. PICK r : r = [dproc[p] EXCEPT !.pc = "naming", !.fd = fd, !.inode = n]
        OBVIOUS
      <4>2. dproc[p] \in Call
        BY <3>2
      <4>3. r \in Call
        BY ONLY <3>2, <4>1, <4>2 DEF Call
      <4>4. dproc' = [dproc EXCEPT ![p] = r]
        BY <4>1
      <4>5. QED BY ONLY <3>2, <4>3, <4>4
    <3>4. QED BY <3>1, <3>3
  <2>2. stolen' \in BOOLEAN
    BY DEF DevInv, DevTypeOK
  <2>3. /\ dfdt'[fd] = [dfdt[fd] EXCEPT !.count = 1] /\ dfdt'[fd].count = 1
        /\ \A g \in DevFds : dfdt'[g].inode = dfdt[g].inode /\ (g # fd => dfdt'[g] = dfdt[g])
    BY <1>1 DEF Entry
  <2>4. QED BY <2>1, <2>2, <2>3
<1>3. /\ dproc'[p].pc = "naming" /\ dproc'[p].fd = fd /\ dproc'[p].inode = n /\ dproc'[p].has = dproc[p].has
      /\ \A q \in DevProcs : q # p => dproc'[q] = dproc[q]
  BY <1>1 DEF Call
<1>4. DevTypeOK'
  BY <1>1, <1>2, TablesStay DEF DevInv, DevTypeOK
<1>5. ASSUME ~stolen' PROVE CallInv'
  <2>1. /\ \A q \in DevProcs : dproc[q].pc = "closing" => dproc[q].fd # fd
        /\ CallsKnown /\ EntriesTaken /\ TakenOnce /\ HeldOnce /\ Served /\ OneLog /\ OpenFlagged /\ FlagsHeld
    BY <1>5 DEF DevInv, CallInv
  <2>2. \A q \in DevProcs, g \in DevFds : TakesIn(dproc', q, g) <=> TakesIn(dproc, q, g) \/ (q = p /\ g = fd)
    BY <1>1, <1>3 DEF TakesIn
  <2>3. \A q \in DevProcs, g \in DevFds : HoldsIn(dproc', q, g) <=> HoldsIn(dproc, q, g)
    BY <1>1, <1>3 DEF HoldsIn
  <2>4. \A q \in DevProcs : ~TakesIn(dproc, q, fd)
    BY <1>1, <2>1 DEF EntriesTaken
  <2>5. CallsKnown'
    BY <1>1, <1>2, <1>3, <2>1, <2>4 DEF CallsKnown, TakesIn
  <2>6. EntriesTaken'
    BY <1>1, <1>2, <2>1, <2>2 DEF EntriesTaken
  <2>7. TakenOnce'
    BY <2>1, <2>2, <2>4 DEF TakenOnce
  <2>8. HeldOnce'
    BY <2>1, <2>3 DEF HeldOnce
  <2>9. \A q \in DevProcs : dproc'[q].has = dproc[q].has /\ dproc[q].has \subseteq DevFds
    BY <1>1, <1>3 DEF Call
  <2>10. Served' /\ OpenFlagged'
    BY <1>1, <1>2, <2>1, <2>9 DEF Served, OpenFlagged
  <2>11. OneLog'
    BY <1>1, <1>2, <2>1, <2>3 DEF OneLog
  <2>12. FlagsHeld'
    BY <1>1, <1>2, <2>1, <2>3 DEF FlagsHeld
  <2>13. QED BY <1>1, <2>5, <2>6, <2>7, <2>8, <2>10, <2>11, <2>12, TablesStay DEF CallInv
<1>6. ~dpanic' /\ reached' <= MemSize
  BY <1>1 DEF DevInv
<1>7. QED BY <1>1, <1>2, <1>4, <1>5, <1>6, TablesStay DEF DevInv

LEMMA NamedInv ==
  ASSUME DevInv, ~stolen, NEW p \in DevProcs, Named(p)
  PROVE  DevInv'
<1>1. /\ Up /\ dproc[p].pc = "naming" /\ dproc' = [dproc EXCEPT ![p].pc = "locked"]
      /\ UNCHANGED <<boot, driver, irq_map, timer_map, in_use, dfdt, dpanic, reached, kept, stolen>>
      /\ dproc \in [DevProcs -> Call]
  BY DEF Named, DevInv, DevTypeOK
<1>2. /\ dproc' \in [DevProcs -> Call]
      /\ dproc'[p].pc = "locked"
      /\ \A q \in DevProcs : /\ dproc'[q].fd = dproc[q].fd /\ dproc'[q].inode = dproc[q].inode /\ dproc'[q].has = dproc[q].has
                             /\ q # p => dproc'[q] = dproc[q]
  BY <1>1 DEF Call
<1>3. /\ \A q \in DevProcs, g \in DevFds : TakesIn(dproc', q, g) <=> TakesIn(dproc, q, g)
      /\ \A q \in DevProcs, g \in DevFds : HoldsIn(dproc', q, g) <=> HoldsIn(dproc, q, g)
  BY <1>1, <1>2 DEF TakesIn, HoldsIn
<1>4. CallsKnown /\ EntriesTaken /\ TakenOnce /\ HeldOnce /\ Served /\ OneLog /\ OpenFlagged /\ FlagsHeld
  BY DEF DevInv, CallInv
<1>5. CallsKnown'
  BY <1>1, <1>2, <1>4 DEF CallsKnown
<1>6. EntriesTaken'
  <2>1. dfdt' = dfdt
    BY <1>1
  <2>2. QED BY <1>3, <1>4, <2>1 DEF EntriesTaken
<1>7. TakenOnce'
  BY <1>3, <1>4 DEF TakenOnce
<1>8. HeldOnce'
  BY <1>3, <1>4 DEF HeldOnce
<1>9. Served' /\ OpenFlagged'
  BY <1>1, <1>2, <1>4 DEF Served, OpenFlagged
<1>10. dfdt' = dfdt /\ driver' = driver /\ in_use' = in_use /\ kept' = kept
  BY <1>1
<1>11. OneLog'
  BY <1>3, <1>4, <1>10 DEF OneLog
<1>12. FlagsHeld'
  BY <1>3, <1>4, <1>10 DEF FlagsHeld
<1>13. DevTypeOK'
  BY <1>1, <1>2, TablesStay DEF DevInv, DevTypeOK
<1>14. QED BY <1>1, <1>5, <1>6, <1>7, <1>8, <1>9, <1>11, <1>12, <1>13, TablesStay DEF DevInv, CallInv

LEMMA OpenInv ==
  ASSUME DevInv, ~stolen, NEW p \in DevProcs, NEW wronly \in BOOLEAN, chr_open(p, wronly)
  PROVE  DevInv'
<1> DEFINE fd == dproc[p].fd
           n == dproc[p].inode
           d == Rdev[n]
           opens == d.major = 0 \/ drv_open(d, wronly)
<1>1. /\ Up /\ dproc[p].pc = "locked" /\ stolen' = stolen
      /\ dfdt' = [dfdt EXCEPT ![fd] = [count |-> IF opens THEN 1 ELSE 0, inode |-> n, offset |-> 0]]
      /\ dproc' = [dproc EXCEPT ![p] = [pc |-> "idle", fd |-> 0, inode |-> 0,
                                        has |-> IF opens THEN @.has \cup {fd} ELSE @.has]]
      /\ UNCHANGED <<boot, driver, irq_map, timer_map, dpanic, reached>>
      /\ dfdt \in [DevFds -> Entry] /\ dproc \in [DevProcs -> Call]
  BY DEF chr_open, DevInv, DevTypeOK
<1>2. IF opens /\ KeepsIn(driver, d)
      THEN in_use' = in_use \cup {FlagOf(driver, d)} /\ kept' = kept \ {FlagOf(driver, d)}
      ELSE UNCHANGED <<in_use, kept>>
  BY DEF chr_open, Remembers, registered, Flag, Drv, KeepsIn, In, FlagOf
<1>3. CallsKnown /\ EntriesTaken /\ TakenOnce /\ HeldOnce /\ Served /\ OneLog /\ OpenFlagged /\ FlagsHeld
  BY DEF DevInv, CallInv
<1>4. fd \in DevFds /\ n \in Nodes \cup {0} /\ d \in DeviceNos /\ fd \notin dproc[p].has /\ TakesIn(dproc, p, fd)
  BY <1>1, <1>3, NodeFacts DEF CallsKnown, Call, TakesIn
<1>5. opens => d.major = 0 \/ In(driver, d.major)
  BY DEF drv_open, registered, In
<1>6. opens /\ LogIn(driver, d) => FlagOf(driver, d) \notin in_use
  <2>1. HAVE opens /\ LogIn(driver, d)
  <2>2. drv_open(d, wronly)
    BY <2>1 DEF LogIn, DevInv
  <2>3. QED BY <2>1, <2>2 DEF drv_open, klog_open, Flag, FlagOf, Drv, LogIn
<1> HIDE DEF fd, n, opens
<1>7. /\ dfdt' \in [DevFds -> Entry] /\ dfdt'[fd].count = (IF opens THEN 1 ELSE 0) /\ dfdt'[fd].inode = n
      /\ \A g \in DevFds : g # fd => dfdt'[g] = dfdt[g]
  BY <1>1, <1>4 DEF Entry
<1>8. /\ dproc' \in [DevProcs -> Call] /\ dproc'[p].pc = "idle"
      /\ dproc'[p].has = IF opens THEN dproc[p].has \cup {fd} ELSE dproc[p].has
      /\ \A q \in DevProcs : q # p => dproc'[q] = dproc[q]
  BY <1>1, <1>4 DEF Call
<1>9. \A q \in DevProcs, g \in DevFds :
         /\ TakesIn(dproc', q, g) <=> TakesIn(dproc, q, g) /\ (g = fd /\ q = p => opens)
         /\ HoldsIn(dproc', q, g) <=> HoldsIn(dproc, q, g) \/ (g = fd /\ q = p /\ opens)
  <2>1. TAKE q \in DevProcs, g \in DevFds
  <2>2. CASE q # p
    BY <1>8, <2>2 DEF TakesIn, HoldsIn
  <2>3. CASE q = p
    BY <1>1, <1>4, <1>8, <2>3 DEF TakesIn, HoldsIn, fd
  <2>4. QED BY <2>2, <2>3
<1>10. \A q \in DevProcs : ~HoldsIn(dproc, q, fd)
  <2>1. TAKE q \in DevProcs
  <2>2. dfdt[fd].count = 1
    BY <1>3, <1>4 DEF EntriesTaken
  <2>3. ~(dproc[q].pc = "closing" /\ dproc[q].fd = fd)
    BY <1>3, <2>2 DEF CallsKnown
  <2>4. fd \notin dproc[q].has
    BY <1>3, <1>4 DEF TakenOnce, TakesIn
  <2>5. QED BY <2>3, <2>4 DEF HoldsIn
<1>11. CallsKnown'
  <2>1. SUFFICES ASSUME NEW q \in DevProcs
        PROVE (/\ dproc[q].pc # "idle" => dproc[q].fd \in DevFds
               /\ dproc[q].pc \in {"naming", "locked"} => dproc[q].fd \notin dproc[q].has
               /\ dproc[q].pc = "closing" => dfdt[dproc[q].fd].count = 0 /\ dfdt[dproc[q].fd].inode = dproc[q].inode)'
    BY DEF CallsKnown
  <2>2. CASE q = p
    BY <1>8, <2>2
  <2>3. CASE q # p
    <3>1. dproc[q].pc = "closing" => dproc[q].fd \in DevFds /\ dproc[q].fd # fd
      BY <1>3, <1>10 DEF HoldsIn, CallsKnown
    <3>2. QED BY <1>3, <1>7, <1>8, <2>3, <3>1 DEF CallsKnown
  <2>4. QED BY <2>2, <2>3
<1>12. EntriesTaken'
  <2>1. SUFFICES ASSUME NEW g \in DevFds
        PROVE  dfdt'[g].count = 1 <=> \E q \in DevProcs : TakesIn(dproc', q, g)
    BY DEF EntriesTaken
  <2>2. CASE g = fd
    BY <1>3, <1>4, <1>7, <1>9, <2>2 DEF TakenOnce
  <2>3. CASE g # fd
    BY <1>3, <1>7, <1>9, <2>3 DEF EntriesTaken
  <2>4. QED BY <2>2, <2>3
<1>13. TakenOnce' /\ HeldOnce'
  <2>1. TakenOnce'
    BY <1>3, <1>9 DEF TakenOnce
  <2>2. HeldOnce'
    BY <1>3, <1>9, <1>10 DEF HeldOnce
  <2>3. QED BY <2>1, <2>2
<1>14. Served'
  <2>1. SUFFICES ASSUME NEW q \in DevProcs, NEW g \in dproc'[q].has, Rdev[dfdt'[g].inode].major # 0
        PROVE In(driver, Rdev[dfdt'[g].inode].major)
    BY <1>1 DEF Served, In
  <2>2. CASE g = fd
    <3>1. opens
      BY <1>4, <1>8, <1>10, <2>1, <2>2 DEF HoldsIn
    <3>2. QED BY <1>5, <1>7, <2>1, <2>2, <3>1
  <2>3. CASE g # fd
    <3>1. g \in dproc[q].has /\ g \in DevFds
      BY <1>1, <1>8, <2>1, <2>3 DEF Call
    <3>2. QED BY <1>3, <1>7, <2>1, <2>3, <3>1 DEF Served
  <2>4. QED BY <2>2, <2>3
<1>15. \A g \in DevFds : Rdev[dfdt[g].inode] \in DeviceNos
  BY <1>1, NodeFacts DEF Entry
<1>16. OneLog'
  <2>1. SUFFICES ASSUME NEW q \in DevProcs, NEW r \in DevProcs, NEW f \in DevFds, NEW g \in DevFds,
                        HoldsIn(dproc', q, f), HoldsIn(dproc', r, g), LogIn(driver, Rdev[dfdt'[f].inode]),
                        Rdev[dfdt'[f].inode].major = Rdev[dfdt'[g].inode].major
                 PROVE  f = g /\ FlagOf(driver, Rdev[dfdt'[f].inode]) \in in_use'
    <3>1. driver' = driver
      BY <1>1
    <3>2. QED BY ONLY <2>1, <3>1 DEF OneLog, LogIn, In, FlagOf
  <2>2. CASE f = fd /\ g = fd
    <3>1. opens /\ dfdt'[f].inode = n
      BY <1>7, <1>9, <1>10, <2>1, <2>2
    <3>2. KeepsIn(driver, d)
      BY <1>4, <2>1, <3>1, FlagFacts
    <3>3. QED BY <1>2, <2>2, <3>1, <3>2
  <2>3. CASE f # fd /\ g # fd
    <3>1. HoldsIn(dproc, q, f) /\ HoldsIn(dproc, r, g) /\ dfdt'[f] = dfdt[f] /\ dfdt'[g] = dfdt[g]
      BY <1>7, <1>9, <2>1, <2>3
    <3>2. f = g /\ FlagOf(driver, Rdev[dfdt[f].inode]) \in in_use
      BY <1>3, <2>1, <3>1 DEF OneLog
    <3>3. QED BY <1>2, <3>1, <3>2
  <2>4. CASE f # g /\ (f = fd \/ g = fd)
    <3>1. PICK h \in {f, g}, s \in {q, r} : h # fd /\ HoldsIn(dproc, s, h) /\ dfdt'[h] = dfdt[h]
      BY <1>7, <1>9, <2>1, <2>4
    <3>2. opens /\ dfdt'[fd].inode = n
      BY <1>7, <1>9, <1>10, <2>1, <2>4
    <3>3. Rdev[dfdt[h].inode].major = d.major /\ (LogIn(driver, d) \/ LogIn(driver, Rdev[dfdt[h].inode]))
      BY <2>1, <2>4, <3>1, <3>2
    <3>4. LogIn(driver, d) /\ LogIn(driver, Rdev[dfdt[h].inode]) /\ FlagOf(driver, Rdev[dfdt[h].inode]) = FlagOf(driver, d)
      BY <1>4, <1>15, <3>3, FlagFacts
    <3>5. FlagOf(driver, Rdev[dfdt[h].inode]) \in in_use
      BY <1>3, <3>1, <3>4 DEF OneLog
    <3>6. QED BY <1>6, <3>2, <3>4, <3>5
  <2>5. QED BY <2>2, <2>3, <2>4
<1>17. OpenFlagged'
  <2>1. SUFFICES ASSUME NEW q \in DevProcs, NEW g \in DevFds, g \in dproc'[q].has, KeepsIn(driver, Rdev[dfdt'[g].inode])
                 PROVE  FlagOf(driver, Rdev[dfdt'[g].inode]) \in in_use'
    BY <1>1 DEF OpenFlagged, KeepsIn, In, FlagOf
  <2>2. CASE g = fd
    <3>1. opens /\ dfdt'[g].inode = n
      BY <1>4, <1>7, <1>8, <1>10, <2>1, <2>2 DEF HoldsIn
    <3>2. QED BY <1>2, <2>1, <3>1
  <2>3. CASE g # fd
    <3>1. g \in dproc[q].has
      BY <1>1, <1>8, <2>1, <2>3
    <3>2. FlagOf(driver, Rdev[dfdt[g].inode]) \in in_use
      BY <1>3, <1>7, <2>1, <2>3, <3>1 DEF OpenFlagged
    <3>3. QED BY <1>2, <1>7, <2>3, <3>2
  <2>4. QED BY <2>2, <2>3
<1>18. FlagsHeld'
  <2>1. SUFFICES ASSUME NEW e \in in_use', KeepsIn(driver, e), e \notin kept'
                 PROVE  \E q \in DevProcs, g \in DevFds :
                           HoldsIn(dproc', q, g) /\ FlagOf(driver, Rdev[dfdt'[g].inode]) = e
    BY <1>1 DEF FlagsHeld, KeepsIn, In, FlagOf
  <2>2. CASE opens /\ KeepsIn(driver, d) /\ e = FlagOf(driver, d)
    BY <1>4, <1>7, <1>9, <2>2
  <2>3. CASE ~(opens /\ KeepsIn(driver, d) /\ e = FlagOf(driver, d))
    <3>1. e \in in_use /\ e \notin kept
      BY <1>2, <2>1, <2>3
    <3>2. PICK q \in DevProcs, g \in DevFds : HoldsIn(dproc, q, g) /\ FlagOf(driver, Rdev[dfdt[g].inode]) = e
      BY <1>3, <2>1, <3>1 DEF FlagsHeld
    <3>3. g # fd
      BY <1>10, <3>2
    <3>4. QED BY <1>7, <1>9, <3>2, <3>3
  <2>4. QED BY <2>2, <2>3
<1>19. DevTypeOK'
  <2>1. in_use' \subseteq DeviceNos /\ kept' \subseteq DeviceNos
    BY <1>2, <1>4, FlagFacts DEF DevInv, DevTypeOK
  <2>2. QED BY <1>1, <1>7, <1>8, <2>1, TablesStay DEF DevInv, DevTypeOK
<1>20. QED BY <1>1, <1>11, <1>12, <1>13, <1>14, <1>16, <1>17, <1>18, <1>19, TablesStay DEF DevInv, CallInv

(***************************************************************************)
(* Closing.                                                                *)
(***************************************************************************)
\* Who ends the call that closes an entry, or closes it at once, leaves every other device as it was, and the driver
\* of this one holds it open exactly for those that still have it.
LEMMA CloseEffect ==
  ASSUME DevInv, ~stolen, UNCHANGED driver, DevTypeOK',
         NEW p \in DevProcs, NEW fd \in DevFds, HoldsIn(dproc, p, fd),
         chr_close(Rdev[dfdt[fd].inode], fd),
         \A g \in DevFds : dfdt'[g].inode = dfdt[g].inode,
         \A q \in DevProcs : dproc'[q].has = dproc[q].has \ (IF q = p THEN {fd} ELSE {}),
         \A q \in DevProcs, g \in DevFds : HoldsIn(dproc', q, g) <=> HoldsIn(dproc, q, g) /\ g # fd
  PROVE  OneLog' /\ OpenFlagged' /\ FlagsHeld'
<1> DEFINE d == Rdev[dfdt[fd].inode]
           F(g) == FlagOf(driver, Rdev[dfdt[g].inode])
           Ends == KeepsIn(driver, d) /\ can_close_device(d, fd)
           Keeps == KeepsIn(driver, d) /\ UsedBy(d, fd) # {} /\ UsedBy(d, fd) \subseteq Promised
<1>1. CallsKnown /\ EntriesTaken /\ TakenOnce /\ HeldOnce /\ Served /\ OneLog /\ OpenFlagged /\ FlagsHeld
  BY DEF DevInv, CallInv
<1>2. /\ dfdt \in [DevFds -> Entry] /\ dproc \in [DevProcs -> Call]
      /\ \A g \in DevFds : Rdev[dfdt[g].inode] \in DeviceNos
  BY NodeFacts DEF DevInv, DevTypeOK, Entry
<1>3. /\ Ends => in_use' = in_use \ {F(fd)} /\ kept' = kept \ {F(fd)}
      /\ ~Ends => in_use' = in_use
      /\ ~Ends => kept \subseteq kept' /\ (Keeps => F(fd) \in kept')
  BY DEF chr_close, drv_close, can_close_device, Remembers, registered, Flag, Drv, KeepsIn, In, FlagOf
\* No other entry keeps the device of the one that ends it.
<1>4. ASSUME Ends, NEW q \in DevProcs, NEW g \in DevFds, g \in dproc[q].has, g # fd
      PROVE  F(g) # F(fd)
  <2>1. SUFFICES ASSUME F(g) = F(fd) PROVE FALSE
    OBVIOUS
  <2>2. Rdev[dfdt[g].inode].major = d.major
    BY <1>2, <2>1, FlagFacts
  <2>3. CASE LogIn(driver, d)
    <3>1. HoldsIn(dproc, q, g)
      BY <1>4 DEF HoldsIn
    <3>2. QED BY <1>1, <1>4, <2>2, <2>3, <3>1 DEF OneLog
  <2>4. CASE ~LogIn(driver, d)
    <3>1. Rdev[dfdt[g].inode] = d
      BY <1>2, <1>4, <2>1, <2>4, FlagFacts
    <3>2. dfdt[g].count = 1
      BY <1>1, <1>4 DEF EntriesTaken, TakesIn
    <3>3. g \in UsedBy(d, fd)
      BY <1>4, <3>1, <3>2 DEF UsedBy
    <3>4. QED BY <1>4, <3>3 DEF can_close_device
  <2>5. QED BY <2>3, <2>4
<1> HIDE DEF Ends, Keeps
<1>5. OneLog'
  <2>1. SUFFICES ASSUME NEW q \in DevProcs, NEW r \in DevProcs, NEW f \in DevFds, NEW g \in DevFds,
                        HoldsIn(dproc', q, f), HoldsIn(dproc', r, g), LogIn(driver, Rdev[dfdt'[f].inode]),
                        Rdev[dfdt'[f].inode].major = Rdev[dfdt'[g].inode].major
                 PROVE  f = g /\ FlagOf(driver, Rdev[dfdt'[f].inode]) \in in_use'
    <3>1. driver' = driver
      OBVIOUS
    <3>2. QED BY ONLY <2>1, <3>1 DEF OneLog, LogIn, In, FlagOf
  <2>2. /\ HoldsIn(dproc, q, f) /\ HoldsIn(dproc, r, g) /\ f # fd
        /\ dfdt'[f].inode = dfdt[f].inode /\ dfdt'[g].inode = dfdt[g].inode
    BY <2>1
  <2>3. f = g /\ F(f) \in in_use
    BY <1>1, <2>1, <2>2 DEF OneLog
  <2>4. F(f) # F(fd)
    <3>1. SUFFICES ASSUME F(f) = F(fd) PROVE FALSE
      OBVIOUS
    <3>2. Rdev[dfdt[f].inode].major = d.major
      BY <1>2, <3>1, FlagFacts
    <3>3. QED BY <1>1, <2>1, <2>2, <3>2 DEF OneLog
  <2>5. QED BY <1>3, <2>2, <2>3, <2>4
<1>6. OpenFlagged'
  <2>1. SUFFICES ASSUME NEW q \in DevProcs, NEW g \in DevFds, g \in dproc'[q].has, KeepsIn(driver, Rdev[dfdt'[g].inode])
                 PROVE  FlagOf(driver, Rdev[dfdt'[g].inode]) \in in_use'
    BY DEF OpenFlagged, KeepsIn, In, FlagOf
  <2>2. g \in dproc[q].has /\ dfdt'[g].inode = dfdt[g].inode
    BY <2>1
  <2>3. g # fd
    <3>1. HoldsIn(dproc', q, g)
      BY <2>1 DEF HoldsIn
    <3>2. QED BY <3>1
  <2>4. F(g) \in in_use
    BY <1>1, <2>1, <2>2 DEF OpenFlagged
  <2>5. Ends => F(g) # F(fd)
    BY <1>4, <2>2, <2>3
  <2>6. QED BY <1>3, <2>2, <2>4, <2>5
<1>7. FlagsHeld'
  <2>1. SUFFICES ASSUME NEW e \in in_use', KeepsIn(driver, e), e \notin kept'
                 PROVE  \E q \in DevProcs, g \in DevFds : HoldsIn(dproc', q, g) /\ F(g) = e
    BY DEF FlagsHeld, KeepsIn, In, FlagOf
  <2>2. e \in in_use /\ e \notin kept /\ (Ends => e # F(fd))
    BY <1>3, <2>1
  <2>3. PICK q \in DevProcs, g \in DevFds : HoldsIn(dproc, q, g) /\ F(g) = e
    BY <1>1, <2>1, <2>2 DEF FlagsHeld
  <2>4. CASE g # fd
    BY <2>3, <2>4
  <2>5. CASE g = fd
    <3>1. ~Ends /\ ~Keeps
      BY <1>3, <2>1, <2>2, <2>3, <2>5
    <3>2. e \in DeviceNos
      BY <2>2 DEF DevInv, DevTypeOK
    <3>3. KeepsIn(driver, d)
      BY <1>2, <2>1, <2>3, <2>5, <3>2, FlagFacts
    <3>4. PICK other \in UsedBy(d, fd) : other \notin Promised
      BY <3>1, <3>3 DEF Ends, Keeps, can_close_device
    <3>5. other \in DevFds /\ other # fd /\ dfdt[other].count = 1 /\ Rdev[dfdt[other].inode] = d
      BY <1>2, <3>4 DEF UsedBy, Entry
    <3>6. PICK r \in DevProcs : TakesIn(dproc, r, other)
      BY <1>1, <3>5 DEF EntriesTaken
    <3>7. other \in dproc[r].has
      BY <3>4, <3>6 DEF TakesIn, Promised
    <3>8. HoldsIn(dproc', r, other)
      BY <3>5, <3>7 DEF HoldsIn
    <3>9. F(other) = e
      BY <2>3, <2>5, <3>5
    <3>10. QED BY <3>5, <3>8, <3>9
  <2>6. QED BY <2>4, <2>5
<1>8. QED BY <1>5, <1>6, <1>7

LEMMA SysCloseInv ==
  ASSUME DevInv, ~stolen, NEW p \in DevProcs, NEW fd \in DevFds, sys_close(p, fd)
  PROVE  DevInv'
<1> DEFINE n == dfdt[fd].inode
<1>1. /\ Up /\ dproc[p].pc = "idle" /\ fd \in dproc[p].has
      /\ dfdt' = [dfdt EXCEPT ![fd].count = 0]
      /\ UNCHANGED <<boot, driver, irq_map, timer_map, dpanic, reached, stolen>>
      /\ dfdt \in [DevFds -> Entry] /\ dproc \in [DevProcs -> Call]
  BY DEF sys_close, Calls, DevInv, DevTypeOK
<1>2. \/ /\ dproc' = [dproc EXCEPT ![p] = [pc |-> "closing", fd |-> fd, inode |-> n, has |-> @.has \ {fd}]]
         /\ UNCHANGED <<in_use, kept>>
      \/ dproc' = [dproc EXCEPT ![p].has = @ \ {fd}] /\ chr_close(Rdev[n], fd)
  BY DEF sys_close
<1>3. CallsKnown /\ EntriesTaken /\ TakenOnce /\ HeldOnce /\ Served /\ OneLog /\ OpenFlagged /\ FlagsHeld
  BY DEF DevInv, CallInv
<1>4. n \in Nodes \cup {0} /\ Rdev[n] \in DeviceNos
  BY <1>1, NodeFacts DEF Entry
<1>5. /\ dfdt' \in [DevFds -> Entry] /\ dfdt'[fd].count = 0
      /\ \A g \in DevFds : dfdt'[g].inode = dfdt[g].inode /\ (g # fd => dfdt'[g] = dfdt[g])
  BY <1>1 DEF Entry
<1> HIDE DEF n
<1>6. dproc' \in [DevProcs -> Call]
  BY <1>1, <1>2, <1>4 DEF Call
<1>7. /\ dproc'[p].has = dproc[p].has \ {fd}
      /\ dproc'[p].pc \in {"idle", "closing"} /\ (dproc'[p].pc = "closing" => dproc'[p].fd = fd /\ dproc'[p].inode = n)
      /\ \A q \in DevProcs : q # p => dproc'[q] = dproc[q]
  BY <1>1, <1>2 DEF Call
<1>8. \A q \in DevProcs, g \in DevFds : TakesIn(dproc', q, g) <=> TakesIn(dproc, q, g) /\ ~(q = p /\ g = fd)
  BY <1>1, <1>7 DEF TakesIn
<1>9. in_use' \subseteq DeviceNos /\ kept' \subseteq DeviceNos
  <2>1. Remembers(Rdev[n]) => Flag(Rdev[n]) \in DeviceNos
    BY <1>4 DEF Flag, DeviceNos
  <2>2. in_use \subseteq DeviceNos /\ kept \subseteq DeviceNos
    BY DEF DevInv, DevTypeOK
  <2>3. QED BY <1>2, <2>1, <2>2 DEF chr_close, drv_close
<1>10. DevTypeOK'
  BY <1>1, <1>5, <1>6, <1>9, TablesStay DEF DevInv, DevTypeOK
<1>11. \A q \in DevProcs : /\ TakesIn(dproc, q, fd) => q = p
                           /\ dproc[q].pc = "closing" => dproc[q].fd # fd
                           /\ HoldsIn(dproc, q, fd) => q = p
  <2>1. TakesIn(dproc, p, fd) /\ HoldsIn(dproc, p, fd) /\ dfdt[fd].count = 1
    BY <1>1, <1>3 DEF TakesIn, HoldsIn, EntriesTaken
  <2>2. QED BY <1>3, <2>1 DEF TakenOnce, HeldOnce, CallsKnown
<1>12. CallsKnown'
  <2>1. SUFFICES ASSUME NEW q \in DevProcs
        PROVE (/\ dproc[q].pc # "idle" => dproc[q].fd \in DevFds
               /\ dproc[q].pc \in {"naming", "locked"} => dproc[q].fd \notin dproc[q].has
               /\ dproc[q].pc = "closing" => dfdt[dproc[q].fd].count = 0 /\ dfdt[dproc[q].fd].inode = dproc[q].inode)'
    BY DEF CallsKnown
  <2>2. CASE q = p
    BY <1>5, <1>7, <2>2 DEF n
  <2>3. CASE q # p
    BY <1>3, <1>5, <1>7, <1>11, <2>3 DEF CallsKnown
  <2>4. QED BY <2>2, <2>3
<1>13. EntriesTaken'
  <2>1. SUFFICES ASSUME NEW g \in DevFds
        PROVE  dfdt'[g].count = 1 <=> \E q \in DevProcs : TakesIn(dproc', q, g)
    BY DEF EntriesTaken
  <2>2. CASE g = fd
    BY <1>5, <1>8, <1>11, <2>2
  <2>3. CASE g # fd
    BY <1>3, <1>5, <1>8, <2>3 DEF EntriesTaken
  <2>4. QED BY <2>2, <2>3
<1>14. TakenOnce'
  BY <1>3, <1>8 DEF TakenOnce
<1>15. \A q \in DevProcs : dproc'[q].has \subseteq dproc[q].has /\ dproc[q].has \subseteq DevFds
  BY <1>1, <1>7 DEF Call
<1>16. Served'
  BY <1>1, <1>3, <1>5, <1>15 DEF Served
<1>17. HeldOnce' /\ OneLog' /\ OpenFlagged' /\ FlagsHeld'
  <2>1. CASE /\ dproc' = [dproc EXCEPT ![p] = [pc |-> "closing", fd |-> fd, inode |-> n, has |-> @.has \ {fd}]]
             /\ UNCHANGED <<in_use, kept>>
    <3>1. \A q \in DevProcs, g \in DevFds : HoldsIn(dproc', q, g) <=> HoldsIn(dproc, q, g)
      BY <1>1, <2>1 DEF HoldsIn, Call
    <3>2. HeldOnce'
      BY <1>3, <3>1 DEF HeldOnce
    <3>3. driver' = driver /\ in_use' = in_use /\ kept' = kept
      BY <1>1, <2>1
    <3>4. OneLog'
      BY <1>3, <1>5, <3>1, <3>3 DEF OneLog
    <3>5. OpenFlagged'
      BY <1>3, <1>5, <1>15, <3>3 DEF OpenFlagged
    <3>6. FlagsHeld'
      BY <1>3, <1>5, <3>1, <3>3 DEF FlagsHeld
    <3>7. QED BY <3>2, <3>4, <3>5, <3>6
  <2>2. CASE dproc' = [dproc EXCEPT ![p].has = @ \ {fd}] /\ chr_close(Rdev[n], fd)
    <3>1. \A q \in DevProcs, g \in DevFds : HoldsIn(dproc', q, g) <=> HoldsIn(dproc, q, g) /\ ~(q = p /\ g = fd)
      BY <1>1, <2>2 DEF HoldsIn, Call
    <3>2. \A q \in DevProcs, g \in DevFds : HoldsIn(dproc', q, g) <=> HoldsIn(dproc, q, g) /\ g # fd
      BY <1>11, <3>1
    <3>3. HoldsIn(dproc, p, fd)
      BY <1>1 DEF HoldsIn
    <3>4. \A q \in DevProcs : dproc'[q].has = dproc[q].has \ (IF q = p THEN {fd} ELSE {})
      BY <1>7
    <3>5. UNCHANGED driver /\ chr_close(Rdev[dfdt[fd].inode], fd) /\ \A g \in DevFds : dfdt'[g].inode = dfdt[g].inode
      BY <1>1, <1>5, <2>2 DEF n
    <3>6. OneLog' /\ OpenFlagged' /\ FlagsHeld'
      BY <1>10, <3>2, <3>3, <3>4, <3>5, CloseEffect
    <3>7. HeldOnce'
      BY <1>3, <3>2 DEF HeldOnce
    <3>8. QED BY <3>6, <3>7
  <2>3. QED BY <1>2, <2>1, <2>2
<1>18. QED BY <1>1, <1>10, <1>12, <1>13, <1>14, <1>16, <1>17, TablesStay DEF DevInv, CallInv

LEMMA ClosesInv ==
  ASSUME DevInv, ~stolen, NEW p \in DevProcs, Closes(p)
  PROVE  DevInv'
<1> DEFINE fd == dproc[p].fd
<1>1. /\ Up /\ dproc[p].pc = "closing" /\ chr_close(Rdev[dfdt[fd].inode], fd)
      /\ dfdt' = [dfdt EXCEPT ![fd].count = 0]
      /\ dproc' = [dproc EXCEPT ![p] = [@ EXCEPT !.pc = "idle", !.fd = 0, !.inode = 0]]
      /\ UNCHANGED <<boot, driver, irq_map, timer_map, dpanic, reached, stolen>>
      /\ dfdt \in [DevFds -> Entry] /\ dproc \in [DevProcs -> Call]
  BY DEF Closes, DevInv, DevTypeOK
<1>2. CallsKnown /\ EntriesTaken /\ TakenOnce /\ HeldOnce /\ Served /\ OneLog /\ OpenFlagged /\ FlagsHeld
  BY DEF DevInv, CallInv
<1>3. fd \in DevFds /\ dfdt[fd].count = 0 /\ HoldsIn(dproc, p, fd)
  BY <1>1, <1>2 DEF CallsKnown, HoldsIn
<1>4. Rdev[dfdt[fd].inode] \in DeviceNos
  BY <1>1, <1>3, NodeFacts DEF Entry
<1>5. dfdt' \in [DevFds -> Entry] /\ \A g \in DevFds : dfdt'[g].inode = dfdt[g].inode /\ dfdt'[g].count = dfdt[g].count
  BY <1>1, <1>3 DEF Entry
<1>6. /\ dproc' \in [DevProcs -> Call] /\ dproc'[p].pc = "idle" /\ dproc'[p].has = dproc[p].has
      /\ \A q \in DevProcs : q # p => dproc'[q] = dproc[q]
  BY <1>1 DEF Call
<1>7. \A q \in DevProcs, g \in DevFds : TakesIn(dproc', q, g) <=> TakesIn(dproc, q, g)
  BY <1>1, <1>6 DEF TakesIn
<1>8. \A q \in DevProcs : fd \notin dproc[q].has
  BY <1>2, <1>3 DEF EntriesTaken, TakesIn
<1>9. \A q \in DevProcs, g \in DevFds : HoldsIn(dproc', q, g) <=> HoldsIn(dproc, q, g) /\ g # fd
  <2>1. TAKE q \in DevProcs, g \in DevFds
  <2>2. CASE q = p
    <3>1. HoldsIn(dproc', q, g) <=> g \in dproc[p].has
      BY ONLY <1>6, <2>2 DEF HoldsIn
    <3>2. HoldsIn(dproc, q, g) <=> g \in dproc[p].has \/ g = fd
      BY <1>1, <2>2 DEF HoldsIn
    <3>3. fd \notin dproc[p].has
      BY <1>8
    <3>4. QED BY ONLY <3>1, <3>2, <3>3
  <2>3. CASE q # p
    <3>1. ~HoldsIn(dproc, q, fd)
      BY <1>2, <1>3, <2>3 DEF HeldOnce
    <3>2. QED BY <1>6, <2>3, <3>1 DEF HoldsIn
  <2>4. QED BY <2>2, <2>3
<1> HIDE DEF fd
<1>10. in_use' \subseteq DeviceNos /\ kept' \subseteq DeviceNos
  <2>1. in_use \subseteq DeviceNos /\ kept \subseteq DeviceNos
    BY DEF DevInv, DevTypeOK
  <2>2. PICK d : d = Rdev[dfdt[fd].inode]
    OBVIOUS
  <2>3. Flag(d) \in DeviceNos
    <3>1. d \in DeviceNos
      BY <1>4, <2>2
    <3>2. [d EXCEPT !.minor = 0] \in DeviceNos
      BY ONLY <3>1 DEF DeviceNos
    <3>3. QED BY ONLY <3>1, <3>2 DEF Flag
  <2>4. in_use' \subseteq in_use /\ kept' \subseteq kept \cup {Flag(d)}
    <3>1. chr_close(d, fd)
      BY <1>1, <2>2
    <3>2. QED BY ONLY <3>1 DEF chr_close, drv_close
  <2>5. QED BY ONLY <2>1, <2>3, <2>4
<1>11. DevTypeOK'
  BY <1>1, <1>5, <1>6, <1>10, TablesStay DEF DevInv, DevTypeOK
<1>12. CallsKnown'
  BY <1>2, <1>5, <1>6 DEF CallsKnown
<1>13. EntriesTaken'
  BY <1>2, <1>5, <1>7 DEF EntriesTaken
<1>14. TakenOnce'
  BY <1>2, <1>7 DEF TakenOnce
<1>15. HeldOnce'
  BY <1>2, <1>9 DEF HeldOnce
<1>16. \A q \in DevProcs : dproc'[q].has = dproc[q].has /\ dproc[q].has \subseteq DevFds
  BY <1>1, <1>6 DEF Call
<1>17. Served'
  BY <1>1, <1>2, <1>5, <1>16 DEF Served
<1>18. \A q \in DevProcs : dproc'[q].has = dproc[q].has \ (IF q = p THEN {fd} ELSE {})
  BY <1>8, <1>16
<1>19. \A g \in DevFds : dfdt'[g].inode = dfdt[g].inode
  BY <1>5
<1>20. OneLog' /\ OpenFlagged' /\ FlagsHeld'
  BY <1>1, <1>3, <1>9, <1>11, <1>18, <1>19, CloseEffect
<1>21. QED BY <1>1, <1>11, <1>12, <1>13, <1>14, <1>15, <1>17, <1>20, TablesStay DEF DevInv, CallInv

(***************************************************************************)
(* Use: it moves an offset and what /dev/mem has reached, nothing else.    *)
(***************************************************************************)
LEMMA UseInv ==
  ASSUME DevInv, ~stolen, Up, UNCHANGED <<boot, driver, irq_map, timer_map, in_use, dproc, kept, stolen>>,
         dfdt' \in [DevFds -> Entry],
         \A g \in DevFds : dfdt'[g].inode = dfdt[g].inode /\ dfdt'[g].count = dfdt[g].count,
         ~dpanic', dpanic' \in BOOLEAN, reached' \in Nat, reached' <= MemSize
  PROVE  DevInv'
<1>1. CallsKnown /\ EntriesTaken /\ TakenOnce /\ HeldOnce /\ Served /\ OneLog /\ OpenFlagged /\ FlagsHeld
  BY DEF DevInv, CallInv
<1>2. DevTypeOK'
  BY TablesStay DEF DevInv, DevTypeOK
<1>3. \A q \in DevProcs : dproc[q].has \subseteq DevFds
  BY DEF DevInv, DevTypeOK, Call
<1>4. CallsKnown'
  BY <1>1 DEF CallsKnown
<1>5. EntriesTaken'
  BY <1>1 DEF EntriesTaken
<1>6. TakenOnce' /\ HeldOnce'
  BY <1>1 DEF TakenOnce, HeldOnce
<1>7. Served'
  BY <1>1, <1>3 DEF Served
<1>8. OneLog'
  BY <1>1 DEF OneLog
<1>9. OpenFlagged'
  BY <1>1 DEF OpenFlagged
<1>10. FlagsHeld'
  BY <1>1 DEF FlagsHeld
<1>11. QED BY <1>2, <1>4, <1>5, <1>6, <1>7, <1>8, <1>9, <1>10, TablesStay DEF DevInv, CallInv

\* An open device has a driver.
LEMMA OpenedServed ==
  ASSUME DevInv, ~stolen, NEW p \in DevProcs, NEW fd \in DevFds, Opened(p, fd)
  PROVE  Up /\ registered(Rdev[dfdt[fd].inode].major)
BY DEF DevInv, CallInv, Served, Opened, Calls, In, registered

LEMMA TransferInv ==
  ASSUME DevInv, ~stolen, NEW p \in DevProcs, NEW fd \in DevFds, NEW n \in DevCounts, NEW f, Transfer(p, fd, f, n)
  PROVE  DevInv'
<1> DEFINE offset == dfdt[fd].offset
           moved == IF IsMem(fd) THEN mem_read(offset, n) ELSE n
           end == offset + moved
<1>1. /\ Opened(p, fd) /\ Panics(fd)
      /\ IF Does(fd, f) /\ IsMemory(fd)
         THEN /\ dfdt' = [dfdt EXCEPT ![fd].offset = end]
              /\ reached' = IF IsMem(fd) /\ moved > 0 /\ end > reached THEN end ELSE reached
         ELSE UNCHANGED <<dfdt, reached>>
      /\ UNCHANGED <<boot, driver, irq_map, timer_map, in_use, dproc, kept, stolen>>
  BY DEF Transfer
<1>2. Up /\ ~dpanic' /\ dpanic' \in BOOLEAN
  BY <1>1, OpenedServed DEF Panics
<1>3. /\ offset \in Nat /\ n \in Nat /\ MemSize \in Nat /\ reached \in Nat /\ reached <= MemSize
      /\ dfdt \in [DevFds -> Entry]
  BY NodeFacts DEF DevInv, DevTypeOK, Entry
<1> HIDE DEF offset
<1>4. moved \in Nat /\ end \in Nat /\ (IsMem(fd) /\ moved > 0 => end <= MemSize)
  BY <1>3 DEF mem_read
<1> HIDE DEF moved, end
<1>5. reached' \in Nat /\ reached' <= MemSize
  BY <1>1, <1>3, <1>4
<1>6. /\ dfdt' \in [DevFds -> Entry]
      /\ \A g \in DevFds : dfdt'[g].inode = dfdt[g].inode /\ dfdt'[g].count = dfdt[g].count
  BY <1>1, <1>3, <1>4 DEF Entry
<1>7. QED BY <1>1, <1>2, <1>5, <1>6, UseInv

LEMMA ControlInv ==
  ASSUME DevInv, ~stolen, NEW p \in DevProcs, NEW fd \in DevFds, Control(p, fd)
  PROVE  DevInv'
<1>1. /\ Up /\ ~dpanic' /\ dpanic' \in BOOLEAN
      /\ UNCHANGED <<boot, driver, irq_map, timer_map, in_use, dfdt, dproc, reached, kept, stolen>>
  BY OpenedServed DEF Control, Panics
<1>2. dfdt' \in [DevFds -> Entry] /\ reached' \in Nat /\ reached' <= MemSize
  BY <1>1 DEF DevInv, DevTypeOK
<1>3. QED BY <1>1, <1>2, UseInv

LEMMA SeekInv ==
  ASSUME DevInv, ~stolen, NEW p \in DevProcs, NEW fd \in DevFds, NEW o \in Offsets, NEW current \in BOOLEAN,
         sys_lseek(p, fd, o, current)
  PROVE  DevInv'
<1> DEFINE new == IF current THEN dfdt[fd].offset + o ELSE o
<1>1. /\ Opened(p, fd)
      /\ IF new < 0 THEN UNCHANGED <<dpanic, dfdt>>
         ELSE Panics(fd) /\ dfdt' = IF mem_lseek(fd) THEN [dfdt EXCEPT ![fd].offset = new] ELSE dfdt
      /\ UNCHANGED <<boot, driver, irq_map, timer_map, in_use, dproc, reached, kept, stolen>>
  BY DEF sys_lseek
<1>2. dfdt \in [DevFds -> Entry] /\ reached \in Nat /\ reached <= MemSize /\ ~dpanic /\ dpanic \in BOOLEAN
  BY DEF DevInv, DevTypeOK
<1>3. Up /\ ~dpanic' /\ dpanic' \in BOOLEAN
  BY <1>1, <1>2, OpenedServed DEF Panics
<1>4. new \in Int
  BY <1>2, NodeFacts DEF Entry
<1> HIDE DEF new
<1>5. /\ dfdt' \in [DevFds -> Entry]
      /\ \A g \in DevFds : dfdt'[g].inode = dfdt[g].inode /\ dfdt'[g].count = dfdt[g].count
  <2>1. CASE dfdt' = dfdt
    BY <1>2, <2>1
  <2>2. CASE new >= 0 /\ dfdt' = [dfdt EXCEPT ![fd].offset = new]
    BY <1>2, <1>4, <2>2 DEF Entry
  <2>3. QED BY <1>1, <1>4, <2>1, <2>2
<1>6. reached' \in Nat /\ reached' <= MemSize
  BY <1>1, <1>2
<1>7. QED BY <1>1, <1>3, <1>5, <1>6, UseInv

(***************************************************************************)
(* The theorem.                                                            *)
(***************************************************************************)
LEMMA DevInitInv == DevInit => DevInv
<1> SUFFICES ASSUME DevInit PROVE DevInv
  OBVIOUS
<1>1. boot \in Seq({gd \in Drivers : gd.major # 0})
  BY DevAssumption DEF DevInit
<1>2. NoDriver \in Drivers
  <2>1. 0 \in 0..255 /\ NOIRQ \in 0..255 /\ FALSE \in BOOLEAN /\ {} \in SUBSET Ops
    BY DEF NOIRQ
  <2>2. QED BY <2>1 DEF NoDriver, Drivers, DriverNames
<1>3. /\ driver = [m \in Majors |-> NoDriver]
      /\ irq_map = {TIMER_IRQ, CASCADE_IRQ} /\ timer_map = <<>> /\ in_use = {}
      /\ dfdt = [fd \in DevFds |-> [count |-> 0, inode |-> 0, offset |-> 0]]
      /\ dproc = [p \in DevProcs |-> [pc |-> "idle", fd |-> 0, inode |-> 0, has |-> {}]]
      /\ dpanic = FALSE /\ reached = 0 /\ kept = {} /\ stolen = FALSE
  BY DEF DevInit
<1>4. /\ \A m \in Majors : driver[m].fns = {}
      /\ \A p \in DevProcs : dproc[p].pc = "idle" /\ dproc[p].has = {}
      /\ \A fd \in DevFds : dfdt[fd].count = 0
  BY <1>3 DEF NoDriver
<1>5. DevTypeOK
  <2>1. driver \in [Majors -> Drivers] /\ timer_map \in Seq(Majors)
    BY <1>2, <1>3
  <2>2. irq_map \subseteq Nat /\ in_use \subseteq DeviceNos /\ kept \subseteq DeviceNos
    BY <1>3 DEF TIMER_IRQ, CASCADE_IRQ
  <2>3. dfdt \in [DevFds -> Entry] /\ dproc \in [DevProcs -> Call]
    BY <1>3 DEF Entry, Call
  <2>4. QED BY <1>1, <1>3, <2>1, <2>2, <2>3 DEF DevTypeOK
<1>6. ~In(driver, 0) /\ Registered = {}
  BY <1>4 DEF In, Registered, registered
<1>7. TablesMatch
  BY <1>3, <1>6 DEF TablesMatch
<1>8. \A p \in DevProcs, fd \in DevFds : ~TakesIn(dproc, p, fd) /\ ~HoldsIn(dproc, p, fd)
  BY <1>4 DEF TakesIn, HoldsIn
<1>9. BootQuiet /\ CallsKnown /\ Served /\ OpenFlagged /\ FlagsHeld
  BY <1>3, <1>4 DEF BootQuiet, CallsKnown, Served, OpenFlagged, FlagsHeld
<1>10. EntriesTaken /\ TakenOnce /\ HeldOnce /\ OneLog
  BY <1>4, <1>8 DEF EntriesTaken, TakenOnce, HeldOnce, OneLog
<1>11. reached <= MemSize
  BY <1>3, NodeFacts
<1>12. QED BY <1>3, <1>5, <1>6, <1>7, <1>9, <1>10, <1>11 DEF DevInv, CallInv

LEMMA DevNextInv == DevInv /\ [DevNext]_dVars => DevInv'
<1> SUFFICES ASSUME DevInv, [DevNext]_dVars PROVE DevInv'
  OBVIOUS
<1>1. CASE UNCHANGED dVars
  <2>1. UNCHANGED <<boot, driver, irq_map, timer_map, in_use, dfdt, dproc, dpanic, reached, kept, stolen>>
    BY <1>1 DEF dVars
  <2>2. DevTypeOK' /\ ~In(driver, 0)' /\ ~dpanic' /\ reached' <= MemSize
    BY <2>1 DEF DevInv, DevTypeOK, In
  <2>3. TablesMatch'
    BY <2>1 DEF DevInv, TablesMatch, Registered, registered
  <2>4. stolen' \/ CallInv'
    BY <2>1 DEF DevInv, CallInv, BootQuiet, CallsKnown, EntriesTaken, TakenOnce, HeldOnce, Served, OneLog,
                OpenFlagged, FlagsHeld
  <2>5. QED BY <2>2, <2>3, <2>4 DEF DevInv
<1>2. CASE DevNext
  <2>1. ~stolen
    BY <1>2 DEF DevNext
  <2>2. CASE register_driver
    BY <2>1, <2>2, RegisterInv
  <2>3. ASSUME NEW p \in DevProcs, NEW n \in Nodes, get_fd(p, n) PROVE DevInv'
    BY <2>1, <2>3, GetFdInv
  <2>4. ASSUME NEW p \in DevProcs, Named(p) PROVE DevInv'
    BY <2>1, <2>4, NamedInv
  <2>5. ASSUME NEW p \in DevProcs, Closes(p) PROVE DevInv'
    BY <2>1, <2>5, ClosesInv
  <2>6. ASSUME NEW p \in DevProcs, NEW wronly \in BOOLEAN, chr_open(p, wronly) PROVE DevInv'
    BY <2>1, <2>6, OpenInv
  <2>7. ASSUME NEW p \in DevProcs, NEW fd \in DevFds, sys_close(p, fd) PROVE DevInv'
    BY <2>1, <2>7, SysCloseInv
  <2>8. ASSUME NEW p \in DevProcs, NEW fd \in DevFds, sys_ioctl(p, fd) \/ sys_fcntl(p, fd) PROVE DevInv'
    BY <2>1, <2>8, ControlInv DEF sys_ioctl, sys_fcntl
  <2>9. ASSUME NEW p \in DevProcs, NEW fd \in DevFds, NEW n \in DevCounts, chr_read(p, fd, n) \/ chr_write(p, fd, n)
        PROVE  DevInv'
    BY <2>1, <2>9, TransferInv DEF chr_read, chr_write
  <2>10. ASSUME NEW p \in DevProcs, NEW fd \in DevFds, NEW o \in Offsets, NEW current \in BOOLEAN,
                sys_lseek(p, fd, o, current)
         PROVE  DevInv'
    BY <2>1, <2>10, SeekInv
  <2>11. QED BY <1>2, <2>2, <2>3, <2>4, <2>5, <2>6, <2>7, <2>8, <2>9, <2>10 DEF DevNext
<1>3. QED BY <1>1, <1>2

LEMMA DevInvSound == DevInv => DevicesSound
<1> SUFFICES ASSUME DevInv, ~stolen PROVE OpenExactly
  BY DEF DevInv, DevicesSound
<1>1. CallsKnown /\ OpenFlagged /\ FlagsHeld
  BY DEF DevInv, CallInv
<1>2. /\ dfdt \in [DevFds -> Entry] /\ dproc \in [DevProcs -> Call]
      /\ \A n \in Nodes \cup {0} : Rdev[n] \in DeviceNos
      /\ \A g \in DevFds : Rdev[dfdt[g].inode] \in DeviceNos
  BY NodeFacts DEF DevInv, DevTypeOK, Entry
<1>3. SUFFICES ASSUME NEW n \in Nodes, Remembers(Rdev[n]), NEW d, d = Flag(Rdev[n])
               PROVE  /\ HasOpen(d) => d \in in_use
                      /\ d \in in_use => HasOpen(d) \/ Leaving(d) \/ d \in kept
  BY DEF OpenExactly
<1>4. \A e : Remembers(e) = KeepsIn(driver, e) /\ Flag(e) = FlagOf(driver, e)
  BY DEF Remembers, registered, KeepsIn, In, Drv, Flag, FlagOf
<1>5. KeepsIn(driver, Rdev[n]) /\ d = FlagOf(driver, Rdev[n]) /\ Rdev[n] \in DeviceNos /\ d.major = Rdev[n].major
      /\ d \in DeviceNos
  BY <1>2, <1>3, <1>4, FlagFacts
<1>6. ASSUME HasOpen(d) PROVE d \in in_use
  <2>1. PICK p \in DevProcs : \E fd \in dproc[p].has : Shows(dfdt[fd].inode, d)
    BY <1>6 DEF HasOpen
  <2>2. PICK fd \in dproc[p].has : Shows(dfdt[fd].inode, d)
    BY <2>1
  <2>3. fd \in DevFds
    BY <1>2 DEF Call
  <2>4. Rdev[dfdt[fd].inode].major = Rdev[n].major /\ FlagOf(driver, Rdev[dfdt[fd].inode]) = d
    BY <1>4, <1>5, <2>2 DEF Shows
  <2>5. KeepsIn(driver, Rdev[dfdt[fd].inode])
    BY <1>2, <1>5, <2>3, <2>4, FlagFacts
  <2>6. QED BY <1>1, <2>3, <2>4, <2>5 DEF OpenFlagged
<1>7. ASSUME d \in in_use, d \notin kept PROVE HasOpen(d) \/ Leaving(d)
  <2>1. KeepsIn(driver, d)
    BY <1>5, FlagFacts
  <2>2. PICK p \in DevProcs, fd \in DevFds : HoldsIn(dproc, p, fd) /\ FlagOf(driver, Rdev[dfdt[fd].inode]) = d
    BY <1>1, <1>7, <2>1 DEF FlagsHeld
  <2>3. Shows(dfdt[fd].inode, d)
    BY <1>2, <1>4, <2>2, FlagFacts DEF Shows
  <2>4. CASE fd \in dproc[p].has
    BY <2>3, <2>4 DEF HasOpen
  <2>5. CASE dproc[p].pc = "closing" /\ dproc[p].fd = fd
    BY <1>1, <2>3, <2>5 DEF Leaving, CallsKnown
  <2>6. QED BY <2>2, <2>4, <2>5 DEF HoldsIn
<1>8. QED BY <1>6, <1>7

\* Whatever drivers register, in whatever order, and however processes open, use and close devices: the interrupt and
\* timer tables match the registered drivers (register_driver(), irq_register(), register_timer()), no call finds its
\* driver missing, nothing panics for want of a timer, /dev/mem stays in memory, and the terminals, the printers and
\* the log are open exactly for those that have them open, until a closing entry is given away (chr_open(),
\* chr_close(), can_close_device()).
THEOREM DevicesAlwaysSound == DevSpec => []DevicesSound
<1>1. DevInit => DevInv
  BY DevInitInv
<1>2. DevInv /\ [DevNext]_dVars => DevInv'
  BY DevNextInv
<1>3. DevInv => DevicesSound
  BY DevInvSound
<1>4. QED BY <1>1, <1>2, <1>3, PTL DEF DevSpec

(***************************************************************************)
(* Interval timers (Alarms).  All have one value, and nobody sets the      *)
(* timer at the head again: what set_alarm() does to the list otherwise is *)
(* shown by the runs.                                                      *)
(***************************************************************************)
OneValue(v) ==
  /\ v \in Nat \ {0} /\ Values \subseteq {v} /\ Periods \subseteq {0, v}
  /\ ~RearmHead /\ MaxTicks + v < Word

\* The n entries of s, from the head on, are the list.
Spells(l, n, s) ==
  /\ n \in 0..NProc /\ s \in [1..n -> Procs]
  /\ \A i, j \in 1..n : s[i] = s[j] => i = j
  /\ l.head = IF n = 0 THEN 0 ELSE s[1]
  /\ \A i \in 1..n : l.next[s[i]] = IF i < n THEN s[i + 1] ELSE 0

At(n, s, i) == IF i < n THEN s[i + 1] ELSE 0

-----------------------------------------------------------------------------
(* What Path, and with it the operations on the list, make of such a list. *)

\* Path is the one function with its equation.
LEMMA PathIs ==
  ASSUME NEW l \in Lists, NEW n, NEW s, Spells(l, n, s)
  PROVE  \A i \in 0..NProc : Path(l)[i] = At(n, s, i)
<1> DEFINE g == [i \in 0..NProc |-> At(n, s, i)]
           P == Path(l)
<1>1. NProc \in Nat /\ n \in 0..NProc /\ s \in [1..n -> Procs] /\ 0 \notin Procs
  BY AlarmsAssumption DEF Spells, Procs
<1>2. \A i \in 0..NProc : g[i] = At(n, s, i)
  OBVIOUS
<1>3. g = [i \in 0..NProc |-> IF i = 0 THEN l.head ELSE IF g[i-1] = 0 THEN 0 ELSE l.next[g[i-1]]]
  <2>1. SUFFICES ASSUME NEW i \in 0..NProc
                 PROVE  g[i] = IF i = 0 THEN l.head ELSE IF g[i-1] = 0 THEN 0 ELSE l.next[g[i-1]]
    OBVIOUS
  <2>2. CASE i = 0
    BY <1>1, <2>2 DEF Spells, At
  <2>3. CASE i # 0 /\ i - 1 < n
    <3>1. i - 1 \in 0..NProc /\ i \in 1..n /\ s[i] # 0 /\ g[i-1] = s[i]
      BY <1>1, <2>3 DEF At
    <3>2. l.next[s[i]] = At(n, s, i)
      BY <3>1 DEF Spells, At
    <3>3. QED BY <2>3, <3>1, <3>2
  <2>4. CASE i # 0 /\ ~(i - 1 < n)
    <3>1. i - 1 \in 0..NProc /\ g[i-1] = 0 /\ g[i] = 0
      BY <1>1, <2>4 DEF At
    <3>2. QED BY <2>4, <3>1
  <2>5. QED BY <2>2, <2>3, <2>4
<1> HIDE DEF g
<1>4. P = [i \in 0..NProc |-> IF i = 0 THEN l.head ELSE IF P[i-1] = 0 THEN 0 ELSE l.next[P[i-1]]]
  BY <1>3 DEF Path
<1> HIDE DEF P
<1> DEFINE D == {i \in 0..NProc : P[i] # g[i]}
<1>5. ASSUME D # {} PROVE FALSE
  <2>1. D \in SUBSET Nat
    BY <1>1
  <2>2. PICK i \in D : \A j \in D : i <= j
    BY <1>5, <2>1, LowestOf
  <2>3. i \in 0..NProc /\ P[i] # g[i]
    OBVIOUS
  <2>4. P[i] = IF i = 0 THEN l.head ELSE IF P[i-1] = 0 THEN 0 ELSE l.next[P[i-1]]
    BY <1>4, <2>3
  <2>5. g[i] = IF i = 0 THEN l.head ELSE IF g[i-1] = 0 THEN 0 ELSE l.next[g[i-1]]
    BY <1>3, <2>3
  <2>6. i # 0 /\ i - 1 \in 0..NProc
    BY <1>1, <2>3, <2>4, <2>5
  <2>7. i - 1 \notin D
    BY <1>1, <2>2, <2>6
  <2>8. P[i-1] = g[i-1]
    BY <2>6, <2>7
  <2>9. QED BY <2>3, <2>4, <2>5, <2>8
<1>6. QED BY <1>2, <1>5 DEF P

LEMMA ListEnds ==
  ASSUME NEW l \in Lists, NEW n, NEW s, Spells(l, n, s)
  PROVE  /\ ~Cyclic(l)
         /\ \A q : q \in Listed(l) <=> \E i \in 1..n : q = s[i]
<1>1. NProc \in Nat /\ n \in 0..NProc /\ s \in [1..n -> Procs] /\ 0 \notin Procs
  BY AlarmsAssumption DEF Spells, Procs
<1> DEFINE P == Path(l)
<1>2. \A i \in 0..NProc : P[i] = At(n, s, i)
  BY PathIs
<1> HIDE DEF P
<1>3. P[NProc] = 0
  BY <1>1, <1>2 DEF At
<1>4. ASSUME NEW q PROVE q \in {P[i] : i \in 0..NProc} \ {0} <=> \E i \in 1..n : q = s[i]
  <2>1. ASSUME NEW i \in 0..NProc, q = P[i], q # 0 PROVE \E j \in 1..n : q = s[j]
    <3>1. i < n /\ q = s[i + 1] /\ i + 1 \in 1..n
      BY <1>1, <1>2, <2>1 DEF At
    <3>2. QED BY <3>1
  <2>2. ASSUME NEW i \in 1..n, q = s[i] PROVE q \in {P[j] : j \in 0..NProc} \ {0}
    <3>1. i - 1 \in 0..NProc /\ P[i - 1] = s[(i - 1) + 1] /\ (i - 1) + 1 = i
      BY <1>1, <1>2 DEF At
    <3>2. q # 0 /\ q = P[i - 1]
      BY <1>1, <2>2, <3>1
    <3>3. QED BY <3>1, <3>2
  <2>3. QED BY <2>1, <2>2
<1>5. QED BY <1>3, <1>4 DEF Cyclic, Listed, P

\* The entries of reset_alarm()'s search: who is before k.
LEMMA BeforeIs ==
  ASSUME NEW l \in Lists, NEW n, NEW s, Spells(l, n, s), NEW k \in Procs
  PROVE  \A i : i \in Before(l, k) <=> i \in 0..(n - 2) /\ s[i + 2] = k
<1>1. NProc \in Nat /\ n \in 0..NProc /\ s \in [1..n -> Procs] /\ 0 \notin Procs
  BY AlarmsAssumption DEF Spells, Procs
<1> DEFINE P == Path(l)
<1>2. \A i \in 0..NProc : P[i] = At(n, s, i)
  BY PathIs
<1> HIDE DEF P
<1>3. ASSUME NEW i \in 0..NProc PROVE P[i] # 0 /\ l.next[P[i]] = k <=> i \in 0..(n - 2) /\ s[i + 2] = k
  <2>1. CASE i < n - 1
    <3>1. i + 1 \in 1..n /\ i + 2 \in 1..n /\ P[i] = s[i + 1] /\ i + 1 < n /\ (i + 1) + 1 = i + 2
      BY <1>1, <1>2, <2>1 DEF At
    <3>2. l.next[s[i + 1]] = s[i + 2] /\ s[i + 1] # 0
      BY <1>1, <3>1 DEF Spells
    <3>3. QED BY <1>1, <2>1, <3>1, <3>2
  <2>2. CASE i = n - 1
    <3>1. i + 1 \in 1..n /\ P[i] = s[i + 1] /\ ~(i + 1 < n)
      BY <1>1, <1>2, <2>2 DEF At
    <3>2. l.next[s[i + 1]] = 0
      BY <3>1 DEF Spells
    <3>3. QED BY <1>1, <2>2, <3>1, <3>2
  <2>3. CASE i >= n
    BY <1>1, <1>2, <2>3 DEF At
  <2>4. QED BY <1>1, <2>1, <2>2, <2>3
<1>4. \A i \in 0..(n - 2) : i \in 0..NProc
  BY <1>1
<1>5. QED BY <1>3, <1>4 DEF Before, P

Without(n, s, j) == [i \in 1..(n - 1) |-> IF i < j THEN s[i] ELSE s[i + 1]]

\* reset_alarm() takes an entry off the list, and leaves the rest as it was.
LEMMA ResetListed ==
  ASSUME NEW l \in Lists, NEW n, NEW s, Spells(l, n, s), NEW j \in 1..n
  PROVE  /\ Reset(l, s[j]) \in Lists
         /\ Spells(Reset(l, s[j]), n - 1, Without(n, s, j))
         /\ Reset(l, s[j]).time = [l.time EXCEPT ![s[j]] = 0]
<1>1. NProc \in Nat /\ n \in 0..NProc /\ s \in [1..n -> Procs] /\ 0 \notin Procs /\ n # 0 /\ 0 \in 0..(Word - 1)
  BY AlarmsAssumption DEF Spells, Procs
<1> DEFINE k == s[j]
           r == Reset(l, k)
           w == Without(n, s, j)
<1>2. k \in Procs /\ l.head = s[1] /\ l.head # 0 /\ 1 \in 1..n
  BY <1>1 DEF Spells
<1>3. \A a, b \in 1..n : s[a] = s[b] => a = b
  BY DEF Spells
<1>4. /\ l.head \in 0..NProc /\ l.next \in [Procs -> 0..NProc] /\ l.time \in [Procs -> 0..(Word - 1)]
      /\ l = [head |-> l.head, next |-> l.next, time |-> l.time]
  BY DEF Lists
<1>5. \A i \in 1..n : l.next[s[i]] = IF i < n THEN s[i + 1] ELSE 0
  BY DEF Spells
<1>6. n - 1 \in 0..NProc /\ w \in [1..(n - 1) -> Procs] /\ \A a, b \in 1..(n - 1) : w[a] = w[b] => a = b
  <2>1. \A i \in 1..(n - 1) : i \in 1..n /\ i + 1 \in 1..n /\ w[i] = IF i < j THEN s[i] ELSE s[i + 1]
    BY <1>1 DEF Without
  <2>2. n - 1 \in 0..NProc /\ w \in [1..(n - 1) -> Procs]
    BY <1>1, <2>1 DEF Without
  <2>3. ASSUME NEW a \in 1..(n - 1), NEW b \in 1..(n - 1), w[a] = w[b] PROVE a = b
    BY <1>1, <1>3, <2>1, <2>3
  <2>4. QED BY <2>2, <2>3
<1>7. \A i \in 1..(n - 1) : w[i] = IF i < j THEN s[i] ELSE s[i + 1]
  BY DEF Without
<1>8. CASE j = 1
  <2>1. r = [l EXCEPT !.head = l.next[k], !.time[k] = 0]
    BY <1>2, <1>8 DEF Reset
  <2>2. r.head = l.next[k] /\ r.next = l.next /\ r.time = [l.time EXCEPT ![k] = 0] /\ r \in Lists
    <3> HIDE DEF r, k
    <3>1. r = [head |-> l.next[k], next |-> l.next, time |-> [l.time EXCEPT ![k] = 0]]
      BY <1>4, <2>1
    <3>2. l.next[k] \in 0..NProc /\ [l.time EXCEPT ![k] = 0] \in [Procs -> 0..(Word - 1)]
      BY <1>1, <1>2, <1>4
    <3>3. QED BY <1>4, <3>1, <3>2 DEF Lists
  <2>3. r.head = IF n - 1 = 0 THEN 0 ELSE w[1]
    <3>1. l.next[k] = IF 1 < n THEN s[2] ELSE 0
      BY <1>2, <1>5, <1>8
    <3>2. n - 1 # 0 => w[1] = s[2]
      BY <1>1, <1>7, <1>8
    <3>3. QED BY <1>1, <2>2, <3>1, <3>2
  <2>4. \A i \in 1..(n - 1) : r.next[w[i]] = IF i < n - 1 THEN w[i + 1] ELSE 0
    <3>1. TAKE i \in 1..(n - 1)
    <3>2. w[i] = s[i + 1] /\ i + 1 \in 1..n
      BY <1>1, <1>7, <1>8
    <3>3. l.next[s[i + 1]] = IF i + 1 < n THEN s[(i + 1) + 1] ELSE 0
      BY <1>5, <3>2
    <3>4. i < n - 1 => w[i + 1] = s[(i + 1) + 1]
      BY <1>1, <1>7, <1>8
    <3>5. QED BY <1>1, <2>2, <3>2, <3>3, <3>4
  <2>5. QED BY <1>6, <2>2, <2>3, <2>4 DEF Spells
<1>9. CASE j # 1
  <2>1. s[1] # k
    BY <1>2, <1>3, <1>9
  <2> DEFINE p == s[j - 1]
  <2>2. j - 1 \in 1..n /\ j - 1 < n /\ p \in Procs /\ l.next[p] = k
    BY <1>1, <1>5, <1>9
  <2>3. \A i : i \in Before(l, k) <=> i = j - 2
    <3>1. \A i : i \in Before(l, k) <=> i \in 0..(n - 2) /\ s[i + 2] = k
      BY <1>2, BeforeIs
    <3>2. \A i \in 0..(n - 2) : i + 2 \in 1..n /\ (s[i + 2] = k => i + 2 = j)
      BY <1>1, <1>3
    <3>3. j - 2 \in 0..(n - 2) /\ s[(j - 2) + 2] = k
      BY <1>1, <1>9
    <3>4. QED BY <3>1, <3>2, <3>3
  <2>4. \E i \in Before(l, k) : \A m \in Before(l, k) : i <= m
    BY <1>1, <2>3
  <2>5. (CHOOSE i \in Before(l, k) : \A m \in Before(l, k) : i <= m) = j - 2
    BY <2>3, <2>4
  <2>6. Path(l)[j - 2] = p
    <3>1. j - 2 \in 0..NProc /\ Path(l)[j - 2] = At(n, s, j - 2)
      BY <1>1, <1>9, PathIs
    <3>2. QED BY <1>1, <1>9, <3>1 DEF At
  <2>7. Before(l, k) # {}
    BY <2>4
  <2>8. r = [l EXCEPT !.next[p] = l.next[k], !.time[k] = 0]
    <3>1. l.head # 0 /\ l.head # k
      BY <1>2, <2>1
    <3>2. r = LET i == CHOOSE i \in Before(l, k) : \A m \in Before(l, k) : i <= m
              IN [l EXCEPT !.next[Path(l)[i]] = l.next[k], !.time[k] = 0]
      BY <2>7, <3>1 DEF Reset
    <3> HIDE DEF p, r, k
    <3>3. QED BY <2>5, <2>6, <3>2
  <2>9. r.head = l.head /\ r.next = [l.next EXCEPT ![p] = l.next[k]] /\ r.time = [l.time EXCEPT ![k] = 0] /\ r \in Lists
    <3> HIDE DEF r, k, p
    <3>1. r = [head |-> l.head, next |-> [l.next EXCEPT ![p] = l.next[k]], time |-> [l.time EXCEPT ![k] = 0]]
      BY <1>4, <2>8
    <3>2. [l.next EXCEPT ![p] = l.next[k]] \in [Procs -> 0..NProc] /\ [l.time EXCEPT ![k] = 0] \in [Procs -> 0..(Word - 1)]
      BY <1>1, <1>2, <1>4, <2>2
    <3>3. QED BY <1>4, <3>1, <3>2 DEF Lists
  <2>10. r.head = IF n - 1 = 0 THEN 0 ELSE w[1]
    BY <1>1, <1>2, <1>7, <1>9, <2>9
  <2>11. \A i \in 1..(n - 1) : r.next[w[i]] = IF i < n - 1 THEN w[i + 1] ELSE 0
    <3>1. TAKE i \in 1..(n - 1)
    <3>2. w[i] \in Procs
      BY <1>6
    <3>3. r.next[w[i]] = IF w[i] = p THEN l.next[k] ELSE l.next[w[i]]
      BY <1>4, <2>9, <3>2
    <3>4. CASE i < j - 1
      <4>1. w[i] = s[i] /\ w[i + 1] = s[i + 1] /\ i \in 1..n /\ i < n - 1
        BY <1>1, <1>7, <3>4
      <4>2. w[i] # p /\ l.next[s[i]] = s[i + 1]
        <5>1. i # j - 1 /\ i < n
          BY <1>1, <2>2, <3>4, <4>1
        <5>2. QED BY <1>3, <1>5, <2>2, <4>1, <5>1
      <4>3. QED BY <3>3, <4>1, <4>2
    <3>5. CASE i = j - 1
      <4>1. w[i] = p /\ (i < n - 1 => w[i + 1] = s[j + 1])
        BY <1>1, <1>7, <3>5
      <4>2. l.next[k] = IF j < n THEN s[j + 1] ELSE 0
        BY <1>5
      <4>3. QED BY <1>1, <3>3, <3>5, <4>1, <4>2
    <3>6. CASE i > j - 1
      <4>1. w[i] = s[i + 1] /\ i + 1 \in 1..n /\ (i < n - 1 => w[i + 1] = s[(i + 1) + 1])
        BY <1>1, <1>7, <3>6
      <4>2. w[i] # p /\ l.next[s[i + 1]] = IF i + 1 < n THEN s[(i + 1) + 1] ELSE 0
        BY <1>1, <1>3, <1>5, <2>2, <3>6, <4>1
      <4>3. QED BY <1>1, <3>3, <4>1, <4>2
    <3>7. QED BY <1>1, <3>4, <3>5, <3>6
  <2>12. QED BY <1>6, <2>9, <2>10, <2>11 DEF Spells
<1>10. QED BY <1>8, <1>9

\* reset_alarm() of a process that is not on it leaves the list alone.
LEMMA ResetOther ==
  ASSUME NEW l \in Lists, NEW n, NEW s, Spells(l, n, s), NEW k \in Procs, \A i \in 1..n : s[i] # k
  PROVE  /\ Reset(l, k) \in Lists /\ Spells(Reset(l, k), n, s)
         /\ Reset(l, k).head = l.head
         /\ \A q \in Procs : q # k => Reset(l, k).time[q] = l.time[q]
<1>1. NProc \in Nat /\ n \in 0..NProc /\ s \in [1..n -> Procs] /\ 0 \notin Procs /\ 0 \in 0..(Word - 1)
  BY AlarmsAssumption DEF Spells, Procs
<1>2. /\ l.head \in 0..NProc /\ l.next \in [Procs -> 0..NProc] /\ l.time \in [Procs -> 0..(Word - 1)]
      /\ l = [head |-> l.head, next |-> l.next, time |-> l.time]
  BY DEF Lists
<1>3. l.head # 0 => l.head # k
  BY <1>1 DEF Spells
<1>4. Before(l, k) = {}
  <2>1. \A i : i \in Before(l, k) <=> i \in 0..(n - 2) /\ s[i + 2] = k
    BY BeforeIs
  <2>2. \A i \in 0..(n - 2) : i + 2 \in 1..n
    BY <1>1
  <2>3. QED BY <2>1, <2>2
<1>5. Reset(l, k) = IF l.head = 0 THEN l ELSE [l EXCEPT !.time[k] = 0]
  BY <1>3, <1>4 DEF Reset
<1> DEFINE r == Reset(l, k)
<1>6. r.head = l.head /\ r.next = l.next /\ (r.time = l.time \/ r.time = [l.time EXCEPT ![k] = 0]) /\ r \in Lists
  <2>1. CASE l.head = 0
    BY <1>5, <2>1
  <2>2. CASE l.head # 0
    <3>1. r = [head |-> l.head, next |-> l.next, time |-> [l.time EXCEPT ![k] = 0]]
      BY <1>2, <1>5, <2>2
    <3> HIDE DEF r
    <3>2. [l.time EXCEPT ![k] = 0] \in [Procs -> 0..(Word - 1)]
      BY <1>1, <1>2
    <3>3. QED BY <1>2, <3>1, <3>2 DEF Lists
  <2>3. QED BY <2>1, <2>2
<1> HIDE DEF r
<1>7. Spells(r, n, s)
  BY <1>6 DEF Spells
<1>8. QED BY <1>2, <1>6, <1>7 DEF r

With(n, s, k) == [i \in 1..(n + 1) |-> IF i = n + 1 THEN k ELSE s[i]]

\* There is room for whoever is not on the list.
LEMMA RoomForOne ==
  ASSUME NEW n \in 0..NProc, NEW s \in [1..n -> Procs], \A i, j \in 1..n : s[i] = s[j] => i = j,
         NEW k \in Procs, \A i \in 1..n : s[i] # k
  PROVE  /\ n + 1 \in 0..NProc /\ With(n, s, k) \in [1..(n + 1) -> Procs]
         /\ \A i, j \in 1..(n + 1) : With(n, s, k)[i] = With(n, s, k)[j] => i = j
<1> DEFINE w == With(n, s, k)
<1>1. NProc \in Nat
  BY AlarmsAssumption
<1>2. \A i \in 1..(n + 1) : w[i] = IF i = n + 1 THEN k ELSE s[i]
  BY DEF With
<1>3. \A i \in 1..(n + 1) : i # n + 1 => i \in 1..n
  BY <1>1
<1>4. w \in [1..(n + 1) -> Procs]
  BY <1>3 DEF With
<1>5. \A i, j \in 1..(n + 1) : w[i] = w[j] => i = j
  BY <1>2, <1>3
<1> HIDE DEF w
<1>6. w \in Injection(1..(n + 1), Procs)
  BY <1>4, <1>5 DEF Injection, IsInjective
<1>7. IsFiniteSet(Procs) /\ Cardinality(Procs) = NProc
  BY <1>1, FS_Interval DEF Procs
<1>8. Cardinality(1..(n + 1)) <= Cardinality(Procs)
  BY <1>6, <1>7, FS_Injection
<1>9. Cardinality(1..(n + 1)) = n + 1
  BY <1>1, FS_Interval
<1>10. QED BY <1>1, <1>4, <1>5, <1>7, <1>8, <1>9 DEF w

\* The search of set_alarm() for a time that is not before any other passes all.
LEMMA SkippedIs ==
  ASSUME NEW l \in Lists, NEW n, NEW s, Spells(l, n, s), n # 0,
         NEW t \in 0..(Word - 1), \A i \in 1..n : l.time[s[i]] <= t
  PROVE  Skipped(l, t) = n - 1
<1>1. NProc \in Nat /\ n \in 0..NProc /\ s \in [1..n -> Procs] /\ 0 \notin Procs
  BY AlarmsAssumption DEF Spells, Procs
<1> DEFINE P == Path(l)
           passed(m) == \A i \in 1..m : P[i] # 0 /\ l.time[P[i]] <= t
<1>2. \A i \in 0..NProc : P[i] = At(n, s, i)
  BY PathIs
<1> HIDE DEF P
<1>3. \A i \in 1..NProc : (P[i] # 0 /\ l.time[P[i]] <= t) <=> i <= n - 1
  <2>1. TAKE i \in 1..NProc
  <2>2. CASE i <= n - 1
    <3>1. i + 1 \in 1..n /\ P[i] = s[i + 1]
      BY <1>1, <1>2, <2>2 DEF At
    <3>2. QED BY <1>1, <2>2, <3>1
  <2>3. CASE ~(i <= n - 1)
    BY <1>1, <1>2, <2>3 DEF At
  <2>4. QED BY <2>2, <2>3
<1>4. \A m \in 0..NProc : passed(m) <=> m <= n - 1
  <2>1. TAKE m \in 0..NProc
  <2>2. CASE m = 0
    BY <1>1, <2>2
  <2>3. CASE m # 0
    <3>1. \A i \in 1..m : i \in 1..NProc
      BY <1>1
    <3>2. m \in 1..m /\ \A i \in 1..m : i <= m
      BY <1>1, <2>3
    <3>3. QED BY <1>1, <1>3, <3>1, <3>2
  <2>4. QED BY <2>2, <2>3
<1>5. Skipped(l, t) = CHOOSE m \in 0..NProc : passed(m) /\ (m < NProc => ~passed(m + 1))
  BY DEF Skipped, P
<1> HIDE DEF passed
<1>6. \A m \in 0..NProc : (passed(m) /\ (m < NProc => ~passed(m + 1))) <=> m = n - 1
  <2>1. TAKE m \in 0..NProc
  <2>2. CASE m < NProc
    <3>1. m + 1 \in 0..NProc
      BY <1>1, <2>2
    <3>2. (passed(m) <=> m <= n - 1) /\ (passed(m + 1) <=> m + 1 <= n - 1)
      BY <1>4, <3>1
    <3>3. QED BY <1>1, <2>2, <3>2
  <2>3. CASE ~(m < NProc)
    <3>1. m > n - 1
      BY <1>1, <2>3
    <3>2. QED BY <1>1, <1>4, <3>1
  <2>4. QED BY <2>2, <2>3
<1>7. n - 1 \in 0..NProc
  BY <1>1
<1>8. QED BY <1>5, <1>6, <1>7

\* set_alarm() puts a time that is not before any other at the end.
Latest(l, n, s, k, t, prev0) ==
  /\ Spells(l, n, s) /\ \A i \in 1..n : s[i] # k /\ l.time[s[i]] <= t
  /\ n # 0 => prev0 = l.head

Inserted(l, n, s, k, t, r) ==
  /\ r \in Lists /\ Spells(r, n + 1, With(n, s, k))
  /\ \A q \in Procs : r.time[q] = IF q = k THEN t ELSE l.time[q]

SearchEnds(l, k, t) == ~InsertSpins([l EXCEPT !.time[k] = t], t)

LEMMA InsertIs ==
  ASSUME NEW l \in Lists, NEW n, NEW s, NEW k \in Procs, NEW t \in 0..(Word - 1), NEW prev0,
         Latest(l, n, s, k, t, prev0)
  PROVE  Inserted(l, n, s, k, t, Insert(l, k, t, prev0)) /\ SearchEnds(l, k, t)
<1> DEFINE timed == [l EXCEPT !.time[k] = t]
           w == With(n, s, k)
           r == Insert(l, k, t, prev0)
<1>0. /\ Spells(l, n, s) /\ \A i \in 1..n : s[i] # k /\ l.time[s[i]] <= t
      /\ n # 0 => prev0 = l.head
  BY DEF Latest
<1>1. NProc \in Nat /\ n \in 0..NProc /\ s \in [1..n -> Procs] /\ 0 \notin Procs
  BY <1>0, AlarmsAssumption DEF Spells, Procs
<1>2. /\ l.head \in 0..NProc /\ l.next \in [Procs -> 0..NProc] /\ l.time \in [Procs -> 0..(Word - 1)]
      /\ l = [head |-> l.head, next |-> l.next, time |-> l.time]
  BY DEF Lists
<1>3. timed = [head |-> l.head, next |-> l.next, time |-> [l.time EXCEPT ![k] = t]]
  BY <1>2
<1>4. [l.time EXCEPT ![k] = t] \in [Procs -> 0..(Word - 1)]
  BY <1>2
<1> HIDE DEF timed
<1>5. timed \in Lists
  BY <1>2, <1>3, <1>4 DEF Lists
<1>6. Spells(timed, n, s)
  BY <1>0, <1>3 DEF Spells
<1>7. \A i \in 1..n : timed.time[s[i]] <= t
  BY <1>0, <1>1, <1>2, <1>3
<1>8. /\ n + 1 \in 0..NProc /\ w \in [1..(n + 1) -> Procs] /\ \A i, j \in 1..(n + 1) : w[i] = w[j] => i = j
  <2>1. n \in 0..NProc /\ s \in [1..n -> Procs] /\ \A i, j \in 1..n : s[i] = s[j] => i = j
    BY <1>0 DEF Spells
  <2>2. QED BY <1>0, <2>1, RoomForOne
<1>9. \A i \in 1..(n + 1) : w[i] = IF i = n + 1 THEN k ELSE s[i]
  BY DEF With
<1>10. NProc + 0 = NProc /\ k \in 0..NProc
  BY <1>1 DEF Procs
<1> HIDE DEF w
<1>11. CASE n = 0
  <2>1. l.head = 0
    BY <1>0, <1>11 DEF Spells
  <2>2. r = [timed EXCEPT !.head = k, !.next[k] = 0]
    BY <2>1 DEF Insert, timed
  <2> HIDE DEF r
  <2>3. r = [head |-> k, next |-> [l.next EXCEPT ![k] = 0], time |-> [l.time EXCEPT ![k] = t]]
    BY <1>3, <2>2
  <2>4. [l.next EXCEPT ![k] = 0] \in [Procs -> 0..NProc]
    BY <1>1, <1>2
  <2>5. r \in Lists
    BY <1>4, <1>10, <2>3, <2>4 DEF Lists
  <2>6. w[1] = k /\ r.next[k] = 0 /\ r.head = k
    BY <1>2, <1>9, <1>11, <2>3
  <2>7. Spells(r, n + 1, w)
    BY <1>8, <1>11, <2>6 DEF Spells
  <2>8. ~InsertSpins(timed, t)
    BY <1>3, <2>1 DEF InsertSpins
  <2>9. \A q \in Procs : r.time[q] = IF q = k THEN t ELSE l.time[q]
    BY <1>2, <2>3
  <2>10. QED BY <2>5, <2>7, <2>8, <2>9 DEF r, timed, w, Inserted, SearchEnds
<1>12. CASE n # 0
  <2>1. l.head = s[1] /\ l.head # 0 /\ 1 \in 1..n /\ n \in 1..n /\ prev0 = s[1]
    BY <1>0, <1>1, <1>12 DEF Spells
  <2>2. Skipped(timed, t) = n - 1
    BY <1>5, <1>6, <1>7, <1>12, SkippedIs
  <2>3. ~(t < l.time[l.head])
    BY <1>0, <1>1, <1>2, <2>1
  <2>4. Path(l)[(n - 1) + 1] = 0
    <3>1. n \in 0..NProc /\ Path(l)[n] = At(n, s, n)
      BY <1>0, <1>1, PathIs
    <3>2. (n - 1) + 1 = n
      BY <1>1
    <3>3. QED BY <1>1, <3>1, <3>2 DEF At
  <2>5. (IF n - 1 = 0 THEN prev0 ELSE Path(l)[n - 1]) = s[n]
    <3>1. n - 1 \in 0..NProc /\ Path(l)[n - 1] = At(n, s, n - 1)
      BY <1>0, <1>1, <1>12, PathIs
    <3>2. At(n, s, n - 1) = s[n]
      BY <1>1, <1>12 DEF At
    <3>3. n - 1 = 0 => s[n] = s[1]
      BY <1>1
    <3>4. QED BY <2>1, <3>1, <3>2, <3>3
  <2>6. r = [timed EXCEPT !.next = [[@ EXCEPT ![k] = 0] EXCEPT ![s[n]] = k]]
    <3>1. n - 1 < NProc
      BY <1>1
    <3>2. r = LET tm == [l EXCEPT !.time[k] = t]
                  m == Skipped(tm, t)
                  ap == IF m < NProc THEN Path(l)[m + 1] ELSE 0
                  prev == IF m = 0 THEN prev0 ELSE Path(l)[m]
              IN  IF l.head = 0 THEN [tm EXCEPT !.head = k, !.next[k] = 0]
                  ELSE IF t < l.time[l.head] THEN [tm EXCEPT !.head = k]
                  ELSE [tm EXCEPT !.next = [[@ EXCEPT ![k] = ap] EXCEPT ![prev] = k]]
      BY Zenon DEF Insert
    <3> HIDE DEF r
    <3> DEFINE m == Skipped(timed, t)
               ap == IF m < NProc THEN Path(l)[m + 1] ELSE 0
               prev == IF m = 0 THEN prev0 ELSE Path(l)[m]
    <3>3. r = IF l.head = 0 THEN [timed EXCEPT !.head = k, !.next[k] = 0]
              ELSE IF t < l.time[l.head] THEN [timed EXCEPT !.head = k]
              ELSE [timed EXCEPT !.next = [[@ EXCEPT ![k] = ap] EXCEPT ![prev] = k]]
      BY <3>2, Zenon DEF timed
    <3>4. ap = 0 /\ prev = s[n]
      BY <2>2, <2>4, <2>5, <3>1
    <3> HIDE DEF ap, prev, m, r
    <3>5. QED BY <2>1, <2>3, <3>3, <3>4, Zenon
  <2> DEFINE nx == [[l.next EXCEPT ![k] = 0] EXCEPT ![s[n]] = k]
  <2> HIDE DEF r
  <2>7. r = [head |-> l.head, next |-> nx, time |-> [l.time EXCEPT ![k] = t]]
    BY <1>3, <2>6
  <2>8. nx \in [Procs -> 0..NProc] /\ nx[s[n]] = k /\ nx[k] = 0 /\ \A q \in Procs : q # k /\ q # s[n] => nx[q] = l.next[q]
    <3>1. s[n] \in Procs /\ s[n] # k
      BY <1>0, <1>1, <2>1
    <3> DEFINE ny == [l.next EXCEPT ![k] = 0]
    <3>2. ny \in [Procs -> 0..NProc] /\ ny[k] = 0 /\ \A q \in Procs : q # k => ny[q] = l.next[q]
      BY <1>1, <1>2
    <3> HIDE DEF ny
    <3>3. nx = [ny EXCEPT ![s[n]] = k]
      BY DEF ny
    <3> HIDE DEF nx
    <3>4. QED BY <1>10, <3>1, <3>2, <3>3
  <2> HIDE DEF nx
  <2>9. r \in Lists
    BY <1>2, <1>4, <2>7, <2>8 DEF Lists
  <2>10. r.head = w[1] /\ n + 1 # 0
    BY <1>1, <1>9, <1>12, <2>1, <2>7
  <2>11. \A i \in 1..(n + 1) : r.next[w[i]] = IF i < n + 1 THEN w[i + 1] ELSE 0
    <3>1. TAKE i \in 1..(n + 1)
    <3>2. CASE i = n + 1
      BY <1>1, <1>9, <2>7, <2>8, <3>2
    <3>3. CASE i = n
      <4>1. w[i] = s[n] /\ w[i + 1] = k
        BY <1>1, <1>9, <3>3
      <4>2. QED BY <1>1, <2>7, <2>8, <3>3, <4>1
    <3>4. CASE i < n
      <4>1. i \in 1..n /\ i + 1 \in 1..n /\ w[i] = s[i] /\ w[i + 1] = s[i + 1]
        BY <1>1, <1>9, <3>4
      <4>2. s[i] \in Procs /\ s[i] # k /\ s[i] # s[n] /\ l.next[s[i]] = s[i + 1]
        BY <1>0, <1>1, <2>1, <3>4, <4>1 DEF Spells
      <4>3. QED BY <1>1, <2>7, <2>8, <3>4, <4>1, <4>2
    <3>5. QED BY <1>1, <3>2, <3>3, <3>4
  <2>12. Spells(r, n + 1, w)
    BY <1>8, <2>10, <2>11 DEF Spells
  <2>13. ~InsertSpins(timed, t)
    BY <1>1, <2>2 DEF InsertSpins
  <2>14. \A q \in Procs : r.time[q] = IF q = k THEN t ELSE l.time[q]
    BY <1>2, <2>7
  <2>15. QED BY <2>9, <2>12, <2>13, <2>14 DEF r, timed, w, Inserted, SearchEnds
<1>13. QED BY <1>11, <1>12

-----------------------------------------------------------------------------
(* The list that the timers form at time t, with the value v.              *)

\* Each in its place i is at most NProc - 1 - i ticks late: those before it go first.
InOrder(l, t, v, n, s) ==
  /\ \A i \in 1..n : /\ l.time[s[i]] <= t + v
                     /\ l.time[s[i]] <= t => t - l.time[s[i]] + i <= NProc - 1
  /\ \A i, j \in 1..n : i <= j => l.time[s[i]] <= l.time[s[j]]

GoodList(l, t, v) == \E n \in 0..NProc : \E s \in [1..n -> Procs] : Spells(l, n, s) /\ InOrder(l, t, v, n, s)

AlarmInv(v) ==
  /\ TypeOK /\ machine = "up" /\ ticks = elapsed
  /\ interval \in [Procs -> {0, v}]
  /\ GoodList(list, ticks, v)
  /\ \A k \in Listed(list) : status[k] = "RUNNING"

\* reset_alarm() keeps it, and moves everybody behind forward.
LEMMA GoodReset ==
  ASSUME NEW v \in Nat, NEW t \in Nat, NEW l \in Lists, GoodList(l, t, v), NEW k \in Procs
  PROVE  /\ Reset(l, k) \in Lists /\ GoodList(Reset(l, k), t, v) /\ ~ResetSpins(l, k)
         /\ Listed(Reset(l, k)) = Listed(l) \ {k}
         /\ \A q \in Listed(l) : q # k => Reset(l, k).time[q] = l.time[q]
<1> DEFINE r == Reset(l, k)
<1>1. PICK n \in 0..NProc : \E s \in [1..n -> Procs] : Spells(l, n, s) /\ InOrder(l, t, v, n, s)
  BY DEF GoodList
<1>2. PICK s \in [1..n -> Procs] : Spells(l, n, s) /\ InOrder(l, t, v, n, s)
  BY <1>1
<1>3. NProc \in Nat /\ l.time \in [Procs -> 0..(Word - 1)] /\ \A a, b \in 1..n : s[a] = s[b] => a = b
  BY <1>2, AlarmsAssumption DEF Lists, Spells
<1>4. ~Cyclic(l) /\ \A q : q \in Listed(l) <=> \E i \in 1..n : q = s[i]
  BY <1>2, ListEnds
<1>5. ~ResetSpins(l, k)
  BY <1>4 DEF ResetSpins
<1>6. CASE \E j \in 1..n : s[j] = k
  <2>1. PICK j \in 1..n : s[j] = k
    BY <1>6
  <2> DEFINE w == Without(n, s, j)
  <2>2. r \in Lists /\ Spells(r, n - 1, w) /\ r.time = [l.time EXCEPT ![k] = 0]
    <3>1. Reset(l, s[j]) \in Lists /\ Spells(Reset(l, s[j]), n - 1, w) /\ Reset(l, s[j]).time = [l.time EXCEPT ![s[j]] = 0]
      <4> HIDE DEF r
      <4>1. Spells(l, n, s)
        BY <1>2
      <4> HIDE DEF w
      <4>3. \A j1 \in 1..n : Reset(l, s[j1]) \in Lists
        BY <4>1, ResetListed
      <4>4. \A j1 \in 1..n : Spells(Reset(l, s[j1]), n - 1, Without(n, s, j1))
        BY <4>1, ResetListed
      <4>5. \A j1 \in 1..n : Reset(l, s[j1]).time = [l.time EXCEPT ![s[j1]] = 0]
        BY <4>1, ResetListed
      <4>2. QED BY <4>3, <4>4, <4>5 DEF w
    <3> HIDE DEF w
    <3>2. QED BY <2>1, <3>1
  <2>3. n - 1 \in 0..NProc /\ w \in [1..(n - 1) -> Procs]
    BY <2>2 DEF Spells
  <2>4. ~Cyclic(r) /\ \A q : q \in Listed(r) <=> \E i \in 1..(n - 1) : q = w[i]
    BY <2>2, <2>3, ListEnds
  <2>5. \A i \in 1..(n - 1) : w[i] = IF i < j THEN s[i] ELSE s[i + 1]
    BY DEF Without
  <2> HIDE DEF r, w
  <2>6. \A i \in 1..(n - 1) : /\ i \in 1..n /\ i + 1 \in 1..n /\ w[i] # k /\ r.time[w[i]] = l.time[w[i]]
                              /\ w[i] = s[i] \/ w[i] = s[i + 1]
    <3>1. TAKE i \in 1..(n - 1)
    <3>2. i \in 1..n /\ i + 1 \in 1..n
      OBVIOUS
    <3>3. w[i] # k
      BY <1>3, <2>1, <2>5, <3>2
    <3>4. w[i] = s[i] \/ w[i] = s[i + 1]
      BY <2>5
    <3>5. w[i] \in Procs
      BY <2>3
    <3>6. QED BY <1>3, <2>2, <3>2, <3>3, <3>4, <3>5
  <2>7. Listed(r) = Listed(l) \ {k}
    <3>1. ASSUME NEW i \in 1..n, s[i] # k PROVE \E m \in 1..(n - 1) : s[i] = w[m]
      <4>1. CASE i < j
        <5>1. i \in 1..(n - 1) /\ w[i] = s[i]
          BY <2>5, <4>1
        <5>2. QED BY <5>1
      <4>2. CASE i > j
        <5>1. i - 1 \in 1..(n - 1) /\ w[i - 1] = s[i]
          BY <2>5, <4>2
        <5>2. QED BY <5>1
      <4>3. CASE i = j
        BY <2>1, <3>1, <4>3
      <4>4. QED BY <4>1, <4>2, <4>3
    <3>2. QED BY <1>4, <2>4, <2>6, <3>1
  <2>8. \A q \in Listed(l) : q # k => r.time[q] = l.time[q]
    BY <1>2, <1>3, <1>4, <2>2
  <2>9. InOrder(r, t, v, n - 1, w)
    <3>1. ASSUME NEW i \in 1..(n - 1)
          PROVE  r.time[w[i]] <= t + v /\ (r.time[w[i]] <= t => t - r.time[w[i]] + i <= NProc - 1)
      <4>1. l.time[s[i]] \in Nat /\ l.time[s[i + 1]] \in Nat
        BY <1>3, <2>6
      <4>2. CASE w[i] = s[i]
        BY <1>2, <2>6, <4>2 DEF InOrder
      <4>3. CASE w[i] = s[i + 1]
        <5>1. l.time[s[i + 1]] <= t + v /\ (l.time[s[i + 1]] <= t => t - l.time[s[i + 1]] + (i + 1) <= NProc - 1)
          BY <1>2, <2>6 DEF InOrder
        <5>2. r.time[w[i]] = l.time[s[i + 1]]
          BY <2>6, <4>3
        <5>3. i \in Int /\ NProc \in Int /\ t \in Int
          BY <1>3
        <5>4. QED BY ONLY <4>1, <5>1, <5>2, <5>3
      <4>4. QED BY <2>6, <4>2, <4>3
    <3>2. ASSUME NEW a \in 1..(n - 1), NEW b \in 1..(n - 1), a <= b PROVE r.time[w[a]] <= r.time[w[b]]
      <4> DEFINE x == IF a < j THEN a ELSE a + 1
                 y == IF b < j THEN b ELSE b + 1
      <4>1. x \in 1..n /\ y \in 1..n /\ x <= y /\ w[a] = s[x] /\ w[b] = s[y]
        BY <2>5, <3>2
      <4> HIDE DEF x, y
      <4>2. l.time[s[x]] <= l.time[s[y]]
        BY <1>2, <4>1 DEF InOrder
      <4>3. QED BY <2>6, <4>1, <4>2
    <3>3. QED BY <3>1, <3>2 DEF InOrder
  <2>10. GoodList(r, t, v)
    BY <2>2, <2>3, <2>9 DEF GoodList
  <2>11. QED BY <1>5, <2>2, <2>7, <2>8, <2>10 DEF r
<1>7. CASE \A j \in 1..n : s[j] # k
  <2>1. /\ r \in Lists /\ Spells(r, n, s)
        /\ \A q \in Procs : q # k => r.time[q] = l.time[q]
    BY <1>2, <1>7, ResetOther
  <2>2. \A q : q \in Listed(r) <=> \E i \in 1..n : q = s[i]
    BY <2>1, ListEnds
  <2> HIDE DEF r
  <2>3. \A i \in 1..n : r.time[s[i]] = l.time[s[i]]
    BY <1>7, <2>1
  <2>4. InOrder(r, t, v, n, s)
    BY <1>2, <2>3 DEF InOrder
  <2>5. Listed(r) = Listed(l) \ {k} /\ \A q \in Listed(l) : q # k => r.time[q] = l.time[q]
    BY <1>4, <1>7, <2>2, <2>3
  <2>6. QED BY <1>5, <2>1, <2>4, <2>5 DEF r, GoodList
<1>8. QED BY <1>6, <1>7

LEMMA SmallMod ==
  ASSUME NEW a \in Nat, NEW w \in Nat, a < w
  PROVE  a % w = a
OBVIOUS

\* set_alarm() keeps it, with v ticks from now, for whoever is not at the head.
LEMMA GoodSet ==
  ASSUME NEW v \in Nat \ {0}, NEW t \in Nat, t + v < Word, NEW l \in Lists, GoodList(l, t, v),
         NEW k \in Procs, l.head # k
  PROVE  /\ SetAlarm(l, t, k, v) \in Lists /\ GoodList(SetAlarm(l, t, k, v), t, v) /\ ~SetSpins(l, t, k, v)
         /\ Listed(SetAlarm(l, t, k, v)) = Listed(l) \cup {k}
         /\ SetAlarm(l, t, k, v).time[k] = t + v
         /\ \A q \in Listed(l) : q # k => SetAlarm(l, t, k, v).time[q] = l.time[q]
<1> DEFINE z == Reset(l, k)
           r == SetAlarm(l, t, k, v)
<1>1. /\ z \in Lists /\ GoodList(z, t, v) /\ ~ResetSpins(l, k)
      /\ Listed(z) = Listed(l) \ {k}
      /\ \A q \in Listed(l) : q # k => z.time[q] = l.time[q]
  BY GoodReset
<1>2. z.head = l.head
  BY DEF Reset, Lists
<1> HIDE DEF z
<1>3. PICK n \in 0..NProc : \E s \in [1..n -> Procs] : Spells(z, n, s) /\ InOrder(z, t, v, n, s)
  BY <1>1 DEF GoodList
<1>4. PICK s \in [1..n -> Procs] : Spells(z, n, s) /\ InOrder(z, t, v, n, s)
  BY <1>3
<1>5. NProc \in Nat /\ Word \in Nat /\ z.time \in [Procs -> 0..(Word - 1)]
  BY <1>1, AlarmsAssumption DEF Lists
<1>6. \A q : q \in Listed(z) <=> \E i \in 1..n : q = s[i]
  BY <1>1, <1>4, ListEnds
<1>7. \A i \in 1..n : s[i] # k
  BY <1>1, <1>6
<1>8. AlarmTime(t, v) = t + v /\ t + v \in 0..(Word - 1)
  <2>1. t + v \in Nat /\ t + v < Word
    OBVIOUS
  <2>2. t + v \in 0..(Word - 1)
    BY <1>5, <2>1
  <2>3. (t + v) % Word = t + v
    BY <1>5, <2>1, SmallMod
  <2>4. QED BY <2>2, <2>3 DEF AlarmTime
<1>9. \A i \in 1..n : z.time[s[i]] <= t + v
  BY <1>4 DEF InOrder
<1> DEFINE w == With(n, s, k)
<1>10. r = Insert(z, k, t + v, l.head)
  BY <1>8 DEF SetAlarm, z
<1>11. /\ r \in Lists /\ Spells(r, n + 1, w) /\ \A q \in Procs : r.time[q] = IF q = k THEN t + v ELSE z.time[q]
       /\ ~InsertSpins([z EXCEPT !.time[k] = t + v], t + v)
  <2>1. n # 0 => l.head = z.head
    BY <1>2
  <2> HIDE DEF r
  <2> DEFINE a == t + v
             y == Insert(z, k, a, l.head)
  <2>2. a \in 0..(Word - 1) /\ \A i \in 1..n : z.time[s[i]] <= a
    BY <1>8, <1>9
  <2> HIDE DEF a
  <2>3. /\ y \in Lists /\ Spells(y, n + 1, w) /\ \A q \in Procs : y.time[q] = IF q = k THEN a ELSE z.time[q]
        /\ ~InsertSpins([z EXCEPT !.time[k] = a], a)
    <3>1. Latest(z, n, s, k, a, l.head) /\ z \in Lists
      BY <1>1, <1>4, <1>7, <2>1, <2>2 DEF Latest
    <3>2. Inserted(z, n, s, k, a, Insert(z, k, a, l.head)) /\ SearchEnds(z, k, a)
      BY <2>2, <3>1, InsertIs
    <3>3. QED BY <3>2 DEF Inserted, SearchEnds
  <2> HIDE DEF y, w
  <2>4. r = y
    BY <1>10 DEF y, a
  <2>5. QED BY <2>3, <2>4 DEF a
<1>12. ~SetSpins(l, t, k, v)
  BY <1>1, <1>8, <1>11 DEF SetSpins, z
<1>13. \A q : q \in Listed(r) <=> \E i \in 1..(n + 1) : q = w[i]
  BY <1>11, ListEnds
<1>14. n + 1 \in 0..NProc /\ w \in [1..(n + 1) -> Procs]
  BY <1>11 DEF Spells
<1>15. \A i \in 1..(n + 1) : w[i] = IF i = n + 1 THEN k ELSE s[i]
  BY DEF With
<1> HIDE DEF r, w
<1>16. \A i \in 1..(n + 1) : i # n + 1 => i \in 1..n /\ w[i] = s[i] /\ r.time[w[i]] = z.time[s[i]]
  <2>1. TAKE i \in 1..(n + 1)
  <2>2. HAVE i # n + 1
  <2>3. i \in 1..n /\ w[i] = s[i] /\ s[i] # k /\ s[i] \in Procs
    BY <1>7, <1>15, <2>2
  <2>4. QED BY <1>5, <1>11, <2>3
<1>17. w[n + 1] = k /\ r.time[k] = t + v
  <2>1. n + 1 \in 1..(n + 1)
    OBVIOUS
  <2>2. w[n + 1] = k
    BY <1>15, <2>1
  <2>3. QED BY <1>5, <1>11, <2>2
<1>18. InOrder(r, t, v, n + 1, w)
  <2>1. ASSUME NEW i \in 1..(n + 1)
        PROVE  r.time[w[i]] <= t + v /\ (r.time[w[i]] <= t => t - r.time[w[i]] + i <= NProc - 1)
    <3>1. CASE i = n + 1
      BY <1>5, <1>17, <3>1
    <3>2. CASE i # n + 1
      BY <1>4, <1>16, <3>2 DEF InOrder
    <3>3. QED BY <3>1, <3>2
  <2>2. ASSUME NEW a \in 1..(n + 1), NEW b \in 1..(n + 1), a <= b PROVE r.time[w[a]] <= r.time[w[b]]
    <3>1. CASE b = n + 1
      <4>1. r.time[w[b]] = t + v
        BY <1>17, <3>1
      <4>2. QED BY <2>1, <4>1
    <3>2. CASE b # n + 1
      <4>1. a # n + 1
        BY <2>2, <3>2
      <4>2. QED BY <1>4, <1>16, <2>2, <3>2, <4>1 DEF InOrder
    <3>3. QED BY <3>1, <3>2
  <2>3. QED BY <2>1, <2>2 DEF InOrder
<1>19. Listed(r) = Listed(l) \cup {k}
  <2>1. \A i \in 1..n : i \in 1..(n + 1) /\ w[i] = s[i]
    BY <1>15
  <2>2. n + 1 \in 1..(n + 1)
    OBVIOUS
  <2>3. ASSUME NEW q PROVE q \in Listed(r) <=> q \in Listed(z) \/ q = k
    BY <1>6, <1>13, <1>16, <1>17, <2>1, <2>2
  <2>4. QED BY <1>1, <2>3
<1>20. \A q \in Listed(l) : q # k => r.time[q] = l.time[q]
  <2>1. TAKE q \in Listed(l)
  <2>2. HAVE q # k
  <2>3. PICK i \in 1..n : q = s[i]
    BY <1>1, <1>6, <2>2
  <2>4. q \in Procs /\ z.time[q] = l.time[q]
    BY <1>1, <2>2, <2>3
  <2>5. QED BY <1>5, <1>11, <2>2, <2>4
<1>21. GoodList(r, t, v)
  BY <1>11, <1>14, <1>18 DEF GoodList
<1>22. QED BY <1>11, <1>12, <1>17, <1>19, <1>20, <1>21 DEF r

\* The head, when there is one, has the earliest time; everybody else is not early.
LEMMA GoodFacts ==
  ASSUME NEW v \in Nat, NEW t \in Nat, NEW l \in Lists, GoodList(l, t, v)
  PROVE  /\ Listed(l) \subseteq Procs /\ ~Cyclic(l)
         /\ l.head = 0 => Listed(l) = {}
         /\ l.head # 0 => l.head \in Listed(l) /\ \A q \in Listed(l) : l.time[l.head] <= l.time[q]
         /\ \A q \in Listed(l) : t < l.time[q] + NProc - 1
         /\ \A q \in Listed(l) : l.next[q] # 0 => l.time[q] <= l.time[l.next[q]]
<1>1. PICK n \in 0..NProc : \E s \in [1..n -> Procs] : Spells(l, n, s) /\ InOrder(l, t, v, n, s)
  BY DEF GoodList
<1>2. PICK s \in [1..n -> Procs] : Spells(l, n, s) /\ InOrder(l, t, v, n, s)
  BY <1>1
<1>3. NProc \in Nat \ {0} /\ 0 \notin Procs /\ l.time \in [Procs -> 0..(Word - 1)]
  BY AlarmsAssumption DEF Lists, Procs
<1>4. ~Cyclic(l) /\ \A q : q \in Listed(l) <=> \E i \in 1..n : q = s[i]
  BY <1>2, ListEnds
<1>5. l.head = (IF n = 0 THEN 0 ELSE s[1]) /\ \A i \in 1..n : l.next[s[i]] = IF i < n THEN s[i + 1] ELSE 0
  BY <1>2 DEF Spells
<1>6. \A i \in 1..n : /\ s[i] \in Procs /\ l.time[s[i]] \in Nat
                      /\ l.time[s[i]] <= t => t - l.time[s[i]] + i <= NProc - 1
  BY <1>2, <1>3 DEF InOrder
<1>7. \A i, j \in 1..n : i <= j => l.time[s[i]] <= l.time[s[j]]
  BY <1>2 DEF InOrder
<1>8. Listed(l) \subseteq Procs
  BY <1>4, <1>6
<1>9. l.head = 0 => Listed(l) = {}
  <2>1. ASSUME n # 0 PROVE l.head # 0
    <3>1. 1 \in 1..n
      BY <2>1
    <3>2. QED BY <1>3, <1>5, <1>6, <2>1, <3>1
  <2>2. QED BY <1>4, <2>1
<1>10. l.head # 0 => l.head \in Listed(l) /\ \A q \in Listed(l) : l.time[l.head] <= l.time[q]
  <2>1. HAVE l.head # 0
  <2>2. 1 \in 1..n /\ l.head = s[1] /\ \A i \in 1..n : 1 <= i
    BY <1>5, <2>1
  <2>3. QED BY <1>4, <1>7, <2>2
<1>11. \A q \in Listed(l) : t < l.time[q] + NProc - 1
  <2>1. TAKE q \in Listed(l)
  <2>2. PICK i \in 1..n : q = s[i]
    BY <1>4
  <2> DEFINE x == l.time[q]
  <2>3. x \in Nat /\ (x <= t => t - x + i <= NProc - 1)
    BY <1>6, <2>2
  <2> HIDE DEF x
  <2>4. t < x + NProc - 1
    BY <1>3, <2>3
  <2>5. QED BY <2>4 DEF x
<1>12. \A q \in Listed(l) : l.next[q] # 0 => l.time[q] <= l.time[l.next[q]]
  <2>1. TAKE q \in Listed(l)
  <2>2. HAVE l.next[q] # 0
  <2>3. PICK i \in 1..n : q = s[i]
    BY <1>4
  <2>4. i < n /\ l.next[q] = s[i + 1]
    BY <1>5, <2>2, <2>3
  <2>5. i + 1 \in 1..n /\ i <= i + 1
    BY <2>4
  <2>6. QED BY <1>7, <2>3, <2>4, <2>5
<1>13. QED BY <1>4, <1>8, <1>9, <1>10, <1>11, <1>12

\* A tick at which nobody is due leaves the list good.
LEMMA GoodWait ==
  ASSUME NEW v \in Nat, NEW t \in Nat, NEW l \in Lists, GoodList(l, t, v),
         l.head # 0 => l.time[l.head] > t + 1
  PROVE  GoodList(l, t + 1, v)
<1>1. PICK n \in 0..NProc : \E s \in [1..n -> Procs] : Spells(l, n, s) /\ InOrder(l, t, v, n, s)
  BY DEF GoodList
<1>2. PICK s \in [1..n -> Procs] : Spells(l, n, s) /\ InOrder(l, t, v, n, s)
  BY <1>1
<1>3. NProc \in Nat \ {0} /\ 0 \notin Procs /\ l.time \in [Procs -> 0..(Word - 1)]
  BY AlarmsAssumption DEF Lists, Procs
<1>4. \A i, j \in 1..n : i <= j => l.time[s[i]] <= l.time[s[j]]
  BY <1>2 DEF InOrder
<1>5. \A i \in 1..n : l.time[s[i]] > t + 1 /\ l.time[s[i]] <= t + v /\ l.time[s[i]] \in Nat
  <2>1. TAKE i \in 1..n
  <2>2. 1 \in 1..n /\ 1 <= i
    OBVIOUS
  <2>3. l.head = s[1] /\ l.head # 0
    BY <1>2, <1>3, <2>2 DEF Spells
  <2>4. l.time[s[1]] <= l.time[s[i]]
    BY <1>4, <2>2
  <2>5. l.time[s[1]] \in Nat /\ l.time[s[i]] \in Nat
    BY <1>3, <2>2
  <2>6. l.time[s[i]] > t + 1
    BY <2>3, <2>4, <2>5
  <2>7. QED BY <1>2, <2>5, <2>6 DEF InOrder
<1>6. \A i \in 1..n : l.time[s[i]] <= (t + 1) + v /\ ~(l.time[s[i]] <= t + 1)
  BY <1>5
<1>7. InOrder(l, t + 1, v, n, s)
  BY <1>4, <1>6 DEF InOrder
<1>8. QED BY <1>2, <1>7 DEF GoodList

\* A tick that takes the head off leaves it good: the others have moved one forward.
LEMMA GoodTick ==
  ASSUME NEW v \in Nat, NEW t \in Nat, NEW l \in Lists, GoodList(l, t, v), l.head # 0
  PROVE  GoodList(Reset(l, l.head), t + 1, v)
<1>1. PICK n \in 0..NProc : \E s \in [1..n -> Procs] : Spells(l, n, s) /\ InOrder(l, t, v, n, s)
  BY DEF GoodList
<1>2. PICK s \in [1..n -> Procs] : Spells(l, n, s) /\ InOrder(l, t, v, n, s)
  BY <1>1
<1>3. NProc \in Nat \ {0} /\ 0 \notin Procs /\ l.time \in [Procs -> 0..(Word - 1)]
  BY AlarmsAssumption DEF Lists, Procs
<1>4. n # 0 /\ l.head = s[1] /\ 1 \in 1..n /\ \A a, b \in 1..n : s[a] = s[b] => a = b
  <2>1. l.head = (IF n = 0 THEN 0 ELSE s[1]) /\ \A a, b \in 1..n : s[a] = s[b] => a = b
    BY <1>2 DEF Spells
  <2>2. n # 0
    BY <2>1
  <2>3. QED BY <2>1, <2>2
<1> DEFINE w == Without(n, s, 1)
           r == Reset(l, s[1])
<1>5. Spells(r, n - 1, w) /\ r.time = [l.time EXCEPT ![s[1]] = 0]
  <2> HIDE DEF w, r
  <2>1. Spells(l, n, s)
    BY <1>2
  <2>2. 1 \in 1..n
    BY <1>4
  <2>4. Spells(Reset(l, s[1]), n - 1, Without(n, s, 1))
    BY <2>1, <2>2, ResetListed
  <2>5. Reset(l, s[1]).time = [l.time EXCEPT ![s[1]] = 0]
    BY <2>1, <2>2, ResetListed
  <2>6. QED BY <2>4, <2>5 DEF w, r
<1>6. n - 1 \in 0..NProc /\ w \in [1..(n - 1) -> Procs]
  BY <1>5 DEF Spells
<1>7. \A i \in 1..(n - 1) : w[i] = s[i + 1] /\ i + 1 \in 1..n /\ s[i + 1] # s[1]
  BY <1>4 DEF Without
<1> HIDE DEF w, r
<1>8. \A i \in 1..(n - 1) : r.time[w[i]] = l.time[s[i + 1]] /\ l.time[s[i + 1]] \in Nat
  BY <1>3, <1>4, <1>5, <1>7
<1>9. ASSUME NEW i \in 1..(n - 1)
      PROVE  r.time[w[i]] <= (t + 1) + v /\ (r.time[w[i]] <= t + 1 => (t + 1) - r.time[w[i]] + i <= NProc - 1)
  <2> DEFINE x == l.time[s[i + 1]]
  <2>1. x <= t + v /\ (x <= t => t - x + (i + 1) <= NProc - 1)
    BY <1>2, <1>7 DEF InOrder
  <2>2. x \in Nat /\ r.time[w[i]] = x
    BY <1>8
  <2> HIDE DEF x
  <2>3. i <= NProc - 1
    BY <1>3
  <2>4. x <= (t + 1) + v /\ (x <= t + 1 => (t + 1) - x + i <= NProc - 1)
    BY <1>3, <2>1, <2>2, <2>3
  <2>5. QED BY <2>2, <2>4
<1>10. ASSUME NEW a \in 1..(n - 1), NEW b \in 1..(n - 1), a <= b PROVE r.time[w[a]] <= r.time[w[b]]
  <2>1. l.time[s[a + 1]] <= l.time[s[b + 1]]
    BY <1>2, <1>7, <1>10 DEF InOrder
  <2>2. QED BY <1>8, <2>1
<1>11. InOrder(r, t + 1, v, n - 1, w)
  BY <1>9, <1>10 DEF InOrder
<1>12. GoodList(r, t + 1, v)
  BY <1>5, <1>6, <1>11 DEF GoodList
<1>13. QED BY <1>4, <1>12 DEF r

-----------------------------------------------------------------------------
(* The invariant.                                                          *)

LEMMA AlarmInit ==
  ASSUME NEW v, OneValue(v), Init
  PROVE  AlarmInv(v) /\ Listed(list) = {}
<1>1. /\ NProc \in Nat \ {0} /\ Word \in Nat \ {0} /\ MaxTicks \in Nat /\ 0 \notin Procs /\ 0 \in 0..(Word - 1)
      /\ v \in Nat \ {0}
  BY AlarmsAssumption DEF Procs, OneValue
<1>2. /\ list.head = 0 /\ list.next = [k \in Procs |-> 0] /\ list.time = [k \in Procs |-> 0] /\ list \in Lists
  BY <1>1 DEF Init, Lists
<1> DEFINE s == [i \in 1..0 |-> 1]
<1>3. 0 \in 0..NProc /\ s \in [1..0 -> Procs] /\ \A i \in 1..0 : FALSE
  BY <1>1
<1>4. Spells(list, 0, s)
  BY <1>2, <1>3 DEF Spells
<1>5. InOrder(list, 0, v, 0, s)
  BY <1>3 DEF InOrder
<1>6. GoodList(list, 0, v)
  BY <1>3, <1>4, <1>5 DEF GoodList
<1>7. \A q : q \in Listed(list) <=> \E i \in 1..0 : q = s[i]
  BY <1>2, <1>4, ListEnds
<1>8. Listed(list) = {}
  BY <1>3, <1>7
<1>9. TypeOK
  BY <1>1, <1>2 DEF Init, TypeOK
<1>10. QED BY <1>1, <1>6, <1>8, <1>9 DEF Init, AlarmInv

\* What the invariant says of the numbers.
LEMMA Numbers ==
  ASSUME NEW v, OneValue(v), AlarmInv(v)
  PROVE  /\ v \in Nat \ {0} /\ ticks \in Nat /\ ticks + v < Word /\ elapsed = ticks /\ ticks <= MaxTicks
         /\ Word \in Nat /\ MaxTicks \in Nat /\ NProc \in Nat
         /\ list \in Lists /\ GoodList(list, ticks, v)
         /\ Listed(list) \subseteq Procs
<1>1. v \in Nat \ {0} /\ ticks \in Nat /\ elapsed = ticks /\ ticks <= MaxTicks /\ Word \in Nat /\ MaxTicks \in Nat /\ NProc \in Nat
  BY AlarmsAssumption DEF OneValue, AlarmInv, TypeOK
<1>2. ticks + v < Word
  BY <1>1 DEF OneValue
<1>3. list \in Lists /\ GoodList(list, ticks, v)
  BY DEF AlarmInv, TypeOK
<1>4. Listed(list) \subseteq Procs
  BY <1>1, <1>3, GoodFacts
<1>5. QED BY <1>1, <1>2, <1>3, <1>4

\* What a clock tick does to the timers.
TickDoes(v) ==
  /\ ticks' = ticks + 1 /\ elapsed' = ticks + 1 /\ elapsed' <= MaxTicks /\ machine' = "up" /\ UNCHANGED <<interval, status>>
  /\ list' \in Lists /\ GoodList(list', ticks + 1, v)
  /\ \/ /\ list' = list
        /\ \A q \in Listed(list) : list.time[q] > ticks + 1
     \/ /\ list.head \in Listed(list) /\ list.time[list.head] <= ticks + 1
        /\ \A q \in Listed(list) : list.time[list.head] <= list.time[q]
        /\ Listed(list') = IF interval[list.head] = 0 THEN Listed(list) \ {list.head} ELSE Listed(list)
        /\ interval[list.head] # 0 => list'.time[list.head] = ticks + 1 + interval[list.head]
        /\ \A q \in Listed(list) : q # list.head => list'.time[q] = list.time[q]

LEMMA TimerDoes ==
  ASSUME NEW v, OneValue(v), AlarmInv(v), Timer
  PROVE  TickDoes(v)
<1>1. /\ v \in Nat \ {0} /\ ticks \in Nat /\ elapsed = ticks /\ ticks <= MaxTicks
      /\ Word \in Nat /\ MaxTicks \in Nat /\ list \in Lists /\ GoodList(list, ticks, v)
      /\ Listed(list) \subseteq Procs
  BY Numbers
<1> DEFINE u == ticks + 1
<1>2. u \in Nat /\ u + v < Word /\ u <= MaxTicks /\ u < Word
  BY <1>1 DEF Timer, OneValue
<1>3. ticks' = u /\ elapsed' = u
  BY <1>1, <1>2, SmallMod DEF Timer
<1> HIDE DEF u
<1>4. UNCHANGED <<interval, status>>
  BY DEF Timer
<1>5. /\ list.head = 0 => Listed(list) = {}
      /\ list.head # 0 => list.head \in Listed(list) /\ \A q \in Listed(list) : list.time[list.head] <= list.time[q]
  BY <1>1, GoodFacts
<1>6. list.time \in [Procs -> 0..(Word - 1)] /\ list.head \in 0..NProc
  BY <1>1 DEF Lists
<1>7. CASE ~Expired(u)
  <2>1. list' = list /\ machine' = "up"
    <3>1. ~Expired(ticks')
      BY <1>3, <1>7
    <3>2. UNCHANGED <<list, machine>>
      BY <3>1 DEF Timer
    <3>3. QED BY <3>2 DEF AlarmInv
  <2>2. list.head # 0 => list.time[list.head] > u
    <3>1. HAVE list.head # 0
    <3>2. list.time[list.head] \in Nat
      BY <1>1, <1>5, <1>6, <3>1
    <3>3. QED BY <1>2, <1>7, <3>1, <3>2 DEF Expired
  <2>3. GoodList(list, u, v)
    BY <1>1, <2>2, GoodWait DEF u
  <2>4. \A q \in Listed(list) : list.time[q] > u
    <3>1. TAKE q \in Listed(list)
    <3>2. list.head # 0 /\ list.head \in Listed(list) /\ list.time[list.head] <= list.time[q] /\ list.time[list.head] > u
      BY <1>5, <2>2
    <3>3. list.time[q] \in Nat /\ list.time[list.head] \in Nat
      BY <1>1, <1>6, <3>2
    <3>4. QED BY <1>2, <3>2, <3>3
  <2>5. QED BY <1>1, <1>2, <1>3, <1>4, <2>1, <2>3, <2>4 DEF TickDoes, u
<1>8. CASE Expired(u)
  <2> DEFINE k == list.head
             z == Reset(list, k)
  <2>1. k # 0 /\ list.time[k] <= u /\ k \in Listed(list) /\ k \in Procs /\ status[k] = "RUNNING"
    BY <1>1, <1>5, <1>8 DEF Expired, AlarmInv
  <2>2. \A q \in Listed(list) : list.time[k] <= list.time[q]
    BY <1>5, <2>1
  <2> HIDE DEF k
  <2>3. /\ z \in Lists /\ Listed(z) = Listed(list) \ {k}
        /\ \A q \in Listed(list) : q # k => z.time[q] = list.time[q]
    <3>1. v \in Nat /\ ticks \in Nat /\ GoodList(list, ticks, v) /\ list \in Lists /\ k \in Procs
      BY <1>1, <2>1
    <3>2. QED BY <3>1, GoodReset
  <2>4. GoodList(z, u, v)
    <3>1. v \in Nat /\ ticks \in Nat /\ GoodList(list, ticks, v) /\ list \in Lists /\ list.head # 0
      BY <1>1, <2>1 DEF k
    <3>2. GoodList(Reset(list, list.head), ticks + 1, v)
      BY <3>1, GoodTick
    <3>3. QED BY <3>2 DEF k, u
  <2> DEFINE y == SetAlarm(z, u, k, v)
  <2>5. /\ y \in Lists /\ GoodList(y, u, v) /\ ~SetSpins(z, u, k, v)
        /\ Listed(y) = Listed(z) \cup {k} /\ y.time[k] = u + v
        /\ \A q \in Listed(z) : q # k => y.time[q] = z.time[q]
    <3> HIDE DEF z
    <3>1. z.head = 0 \/ z.head \in Listed(z)
      BY <1>1, <1>2, <2>3, <2>4, GoodFacts
    <3>2. z.head # k
      BY <2>1, <2>3, <3>1
    <3> HIDE DEF y
    <3>3. v \in Nat \ {0} /\ u \in Nat /\ u + v < Word /\ z \in Lists /\ GoodList(z, u, v) /\ k \in Procs
      BY <1>1, <1>2, <2>1, <2>3, <2>4
    <3>4. QED BY <3>2, <3>3, GoodSet DEF y
  <2> HIDE DEF y, z
  <2>6. interval[k] = 0 \/ interval[k] = v
    BY <2>1 DEF AlarmInv
  <2>7. machine' = "up" /\ list' = IF interval[k] = 0 THEN z ELSE y
    <3>1. Expired(ticks')
      BY <1>3, <1>8
    <3>2. interval[k] # 0 => ~SetSpins(z, ticks', k, interval[k])
      BY <1>3, <2>5, <2>6
    <3>3. machine' = machine /\ list' = Rearmed(ticks', k)
      BY <2>1, <3>1, <3>2 DEF Timer, k, z
    <3>4. Rearmed(ticks', k) = IF interval[k] = 0 THEN z ELSE SetAlarm(z, u, k, interval[k])
      BY <1>3 DEF Rearmed, z
    <3>5. QED BY <2>6, <3>3, <3>4 DEF y, AlarmInv
  <2>8. list' \in Lists /\ GoodList(list', u, v)
    BY <2>3, <2>4, <2>5, <2>7
  <2>9. Listed(list') = IF interval[k] = 0 THEN Listed(list) \ {k} ELSE Listed(list)
    <3>1. CASE interval[k] = 0
      BY <2>3, <2>7, <3>1
    <3>2. CASE interval[k] # 0
      <4>1. list' = y /\ Listed(y) = (Listed(list) \ {k}) \cup {k}
        BY <2>3, <2>5, <2>7, <3>2
      <4>2. QED BY <2>1, <3>2, <4>1
    <3>3. QED BY <3>1, <3>2
  <2>10. interval[k] # 0 => list'.time[k] = u + interval[k]
    BY <2>5, <2>6, <2>7
  <2>11. \A q \in Listed(list) : q # k => list'.time[q] = list.time[q]
    BY <2>3, <2>5, <2>7
  <2>12. QED BY <1>1, <1>2, <1>3, <1>4, <2>1, <2>2, <2>7, <2>8, <2>9, <2>10, <2>11 DEF TickDoes, u, k
<1>9. QED BY <1>7, <1>8

\* What setting a timer does, and the end of a process.
SetDoes(v, k, p) ==
  /\ status[k] = "RUNNING" /\ machine' = "up" /\ UNCHANGED <<ticks, elapsed, status>>
  /\ interval' = [interval EXCEPT ![k] = p] /\ p \in {0, v}
  /\ list' \in Lists /\ GoodList(list', ticks, v)
  /\ Listed(list') = Listed(list) \cup {k} /\ list'.time[k] = ticks + v
  /\ \A q \in Listed(list) : q # k => list'.time[q] = list.time[q]

LEMMA SetItimerDoes ==
  ASSUME NEW v, OneValue(v), AlarmInv(v), NEW k \in Procs, NEW val \in Values, NEW p \in Periods, SetItimer(k, val, p)
  PROVE  SetDoes(v, k, p)
<1>1. /\ v \in Nat \ {0} /\ ticks \in Nat /\ ticks + v < Word /\ list \in Lists /\ GoodList(list, ticks, v)
  BY Numbers
<1>2. val = v /\ p \in {0, v} /\ list.head # k
  BY DEF OneValue, SetItimer
<1> DEFINE y == SetAlarm(list, ticks, k, v)
<1>3. /\ y \in Lists /\ GoodList(y, ticks, v) /\ ~SetSpins(list, ticks, k, v)
      /\ Listed(y) = Listed(list) \cup {k} /\ y.time[k] = ticks + v
      /\ \A q \in Listed(list) : q # k => y.time[q] = list.time[q]
  <2> HIDE DEF y
  <2>1. QED BY <1>1, <1>2, GoodSet DEF y
<1>4. list' = y /\ machine' = machine
  BY <1>2, <1>3 DEF SetItimer
<1> HIDE DEF y
<1>5. status[k] = "RUNNING" /\ UNCHANGED <<ticks, elapsed, status>> /\ interval' = [interval EXCEPT ![k] = p]
  BY DEF SetItimer
<1>6. machine' = "up"
  BY <1>4 DEF AlarmInv
<1>7. QED BY <1>2, <1>3, <1>4, <1>5, <1>6 DEF SetDoes

EndDoes(v, k) ==
  /\ status[k] = "RUNNING" /\ machine' = "up" /\ UNCHANGED <<ticks, elapsed, interval>>
  /\ status' = [status EXCEPT ![k] = "ZOMBIE"]
  /\ list' \in Lists /\ GoodList(list', ticks, v)
  /\ Listed(list') = Listed(list) \ {k}
  /\ \A q \in Listed(list) : q # k => list'.time[q] = list.time[q]

LEMMA ExitDoes ==
  ASSUME NEW v, OneValue(v), AlarmInv(v), NEW k \in Procs, Exit(k)
  PROVE  EndDoes(v, k)
<1>1. /\ v \in Nat /\ ticks \in Nat /\ list \in Lists /\ GoodList(list, ticks, v)
  BY Numbers
<1> DEFINE y == Reset(list, k)
<1>2. /\ y \in Lists /\ GoodList(y, ticks, v) /\ ~ResetSpins(list, k)
      /\ Listed(y) = Listed(list) \ {k}
      /\ \A q \in Listed(list) : q # k => y.time[q] = list.time[q]
  <2> HIDE DEF y
  <2>1. QED BY <1>1, GoodReset DEF y
<1>3. list' = y /\ machine' = machine
  BY <1>2 DEF Exit
<1> HIDE DEF y
<1>4. status[k] = "RUNNING" /\ UNCHANGED <<ticks, elapsed, interval>> /\ status' = [status EXCEPT ![k] = "ZOMBIE"]
  BY DEF Exit
<1>5. machine' = "up"
  BY <1>3 DEF AlarmInv
<1>6. QED BY <1>2, <1>3, <1>4, <1>5 DEF EndDoes

LEMMA AlarmStep ==
  ASSUME NEW v, OneValue(v), AlarmInv(v), [Next]_vars
  PROVE  AlarmInv(v)'
<1>1. /\ v \in Nat \ {0} /\ ticks \in Nat /\ ticks + v < Word /\ elapsed = ticks /\ ticks <= MaxTicks
      /\ Word \in Nat /\ MaxTicks \in Nat /\ NProc \in Nat
      /\ list \in Lists /\ GoodList(list, ticks, v)
      /\ Listed(list) \subseteq Procs
  BY Numbers
<1>2. /\ ticks \in 0..(Word - 1) /\ elapsed \in 0..MaxTicks /\ machine = "up"
      /\ interval \in [Procs -> {0, v}] /\ interval \in [Procs -> Nat]
      /\ status \in [Procs -> {"RUNNING", "ZOMBIE", "UNUSED"}]
      /\ \A k \in Listed(list) : status[k] = "RUNNING"
  BY DEF AlarmInv, TypeOK
<1>3. CASE Timer
  <2>1. TickDoes(v)
    BY <1>3, TimerDoes
  <2>2. ticks' \in 0..(Word - 1) /\ elapsed' \in 0..MaxTicks /\ ticks' = elapsed'
    BY <1>1, <2>1 DEF TickDoes, OneValue
  <2>3. list' \in Lists /\ GoodList(list', ticks', v) /\ Listed(list') \subseteq Listed(list)
    BY <2>1 DEF TickDoes
  <2>4. UNCHANGED <<interval, status>> /\ machine' = "up"
    BY <2>1 DEF TickDoes
  <2>5. QED BY <1>2, <2>2, <2>3, <2>4 DEF AlarmInv, TypeOK, Lists, Procs, GoodList, InOrder, Spells, Listed, Path
<1>4. CASE \E k \in Procs, val \in Values, p \in Periods : SetItimer(k, val, p)
  <2>1. PICK k \in Procs, val \in Values, p \in Periods : SetItimer(k, val, p)
    BY <1>4
  <2>2. SetDoes(v, k, p)
    BY <2>1, SetItimerDoes
  <2>3. UNCHANGED <<ticks, elapsed, status>> /\ machine' = "up"
    BY <2>2 DEF SetDoes
  <2>4. interval' \in [Procs -> {0, v}] /\ interval' \in [Procs -> Nat]
    BY <1>1, <1>2, <2>2 DEF SetDoes
  <2>5. list' \in Lists /\ GoodList(list', ticks', v) /\ \A q \in Listed(list') : status[q] = "RUNNING"
    BY <1>2, <2>2 DEF SetDoes
  <2>6. QED BY <1>1, <1>2, <2>3, <2>4, <2>5 DEF AlarmInv, TypeOK
<1>5. ASSUME NEW k \in Procs, Fork(k) PROVE AlarmInv(v)'
  <2>1. UNCHANGED <<ticks, elapsed, list, machine>> /\ interval' \in [Procs -> {0, v}] /\ interval' \in [Procs -> Nat]
    BY <1>2, <1>5 DEF Fork
  <2>2. status' \in [Procs -> {"RUNNING", "ZOMBIE", "UNUSED"}] /\ \A q \in Listed(list) : status'[q] = "RUNNING"
    BY <1>1, <1>2, <1>5 DEF Fork
  <2>3. QED BY <1>1, <1>2, <2>1, <2>2 DEF AlarmInv, TypeOK
<1>6. ASSUME NEW k \in Procs, Exit(k) PROVE AlarmInv(v)'
  <2>1. EndDoes(v, k)
    BY <1>6, ExitDoes
  <2>2. UNCHANGED <<ticks, elapsed, interval>> /\ machine' = "up"
    BY <2>1 DEF EndDoes
  <2>3. status' \in [Procs -> {"RUNNING", "ZOMBIE", "UNUSED"}] /\ \A q \in Procs : q # k => status'[q] = status[q]
    BY <1>2, <2>1 DEF EndDoes
  <2>4. list' \in Lists /\ GoodList(list', ticks', v) /\ \A q \in Listed(list') : status'[q] = "RUNNING"
    BY <1>1, <1>2, <2>1, <2>3 DEF EndDoes
  <2>5. QED BY <1>1, <1>2, <2>2, <2>3, <2>4 DEF AlarmInv, TypeOK
<1>7. ASSUME NEW k \in Procs, Release(k) PROVE AlarmInv(v)'
  <2>1. UNCHANGED <<ticks, elapsed, list, interval, machine>>
    BY <1>7 DEF Release
  <2>2. status' \in [Procs -> {"RUNNING", "ZOMBIE", "UNUSED"}] /\ \A q \in Listed(list) : status'[q] = "RUNNING"
    BY <1>1, <1>2, <1>7 DEF Release
  <2>3. QED BY <1>1, <1>2, <2>1, <2>2 DEF AlarmInv, TypeOK
<1>8. CASE UNCHANGED vars
  BY <1>8 DEF vars, AlarmInv, TypeOK
<1>9. QED BY <1>3, <1>4, <1>5, <1>6, <1>7, <1>8 DEF Next

-----------------------------------------------------------------------------
(* The theorems.                                                           *)

LEMMA InvAlwaysHolds ==
  ASSUME NEW v, OneValue(v)
  PROVE  Spec => []AlarmInv(v)
<1>1. Init => AlarmInv(v)
  BY AlarmInit
<1>2. AlarmInv(v) /\ [Next]_vars => AlarmInv(v)'
  BY AlarmStep
<1>3. QED BY <1>1, <1>2, PTL DEF Spec

\* Whatever live processes set, reset and leave, at any number of processes and any
\* length of a run, the list of kernel/sched.c ends and is sorted, no clock tick meets
\* a dead process on it, and no call of set_alarm() or reset_alarm() loops over it.
THEOREM TimersAlwaysSound ==
  ASSUME NEW v, OneValue(v)
  PROVE  Spec => []ListSound
<1>1. ASSUME AlarmInv(v) PROVE ListSound
  <2>1. /\ v \in Nat /\ ticks \in Nat /\ list \in Lists /\ GoodList(list, ticks, v)
    BY <1>1, Numbers
  <2>2. ~Cyclic(list) /\ \A q \in Listed(list) : list.next[q] # 0 => list.time[q] <= list.time[list.next[q]]
    BY <2>1, GoodFacts
  <2>3. QED BY <1>1, <2>2 DEF AlarmInv, ListSound, ListSorted, NeverStops
<1>2. AlarmInv(v) => ListSound
  BY <1>1
<1>3. QED BY <1>2, InvAlwaysHolds, PTL

\* Though timer() handles one timer a tick, no timer is NProc - 1 ticks late or more:
\* those before it on the list have gone by then.
THEOREM TimersNeverLate ==
  ASSUME NEW v, OneValue(v)
  PROVE  Spec => []NeverLate
<1>1. ASSUME AlarmInv(v) PROVE NeverLate
  <2>1. /\ v \in Nat /\ ticks \in Nat /\ list \in Lists /\ GoodList(list, ticks, v)
    BY <1>1, Numbers
  <2>2. QED BY <2>1, GoodFacts DEF NeverLate
<1>2. AlarmInv(v) => NeverLate
  BY <1>1
<1>3. QED BY <1>2, InvAlwaysHolds, PTL

\* The deadlines that the list stands for.
Deadlines == [k \in Procs |-> IF k \in Listed(list) THEN list.time[k] ELSE None]

LEMMA TickIsTick ==
  ASSUME NEW v, OneValue(v), AlarmInv(v), TickDoes(v)
  PROVE  Promise!Tick
<1>1. /\ ticks \in Nat /\ list \in Lists /\ Listed(list) \subseteq Procs
  BY Numbers
<1>2. None \notin Nat /\ list.time \in [Procs -> 0..(Word - 1)] /\ \A q \in Procs : list.time[q] \in Nat
  BY <1>1, AlarmsAssumption DEF Lists
<1> DEFINE u == ticks + 1
           d == Deadlines
<1>3. u \in Nat /\ ticks' = u /\ UNCHANGED <<interval, status>>
  BY <1>1 DEF TickDoes
<1>4. \A q \in Procs : d[q] = IF q \in Listed(list) THEN list.time[q] ELSE None
  BY DEF Deadlines
<1>5. d' = [k \in Procs |-> IF k \in Listed(list') THEN list'.time[k] ELSE None]
  BY DEF Deadlines, Listed, Path, Procs
<1> DEFINE Due == {k \in Procs : d[k] # None /\ d[k] <= u}
<1>6. \A q : q \in Due <=> q \in Listed(list) /\ list.time[q] <= u
  <2>1. TAKE q
  <2>2. CASE q \in Listed(list)
    <3>1. q \in Procs /\ d[q] = list.time[q] /\ d[q] # None
      BY <1>1, <1>2, <1>4, <2>2
    <3>2. QED BY <2>2, <3>1
  <2>3. CASE q \notin Listed(list)
    BY <1>4, <2>3
  <2>4. QED BY <2>2, <2>3
<1>7. Due = Promise!Due(ticks')
  BY <1>3 DEF Promise!Due, Promise!Armed, Deadlines
<1> HIDE DEF u
<1>8. CASE /\ list' = list
           /\ \A q \in Listed(list) : list.time[q] > ticks + 1
  <2>1. \A q : q \notin Due
    BY <1>1, <1>2, <1>3, <1>6, <1>8 DEF u
  <2>2. d' = d
    BY <1>5, <1>8 DEF Deadlines
  <2> HIDE DEF Due, d
  <2>3. Promise!Due(ticks') = {}
    BY <1>7, <2>1
  <2>4. QED BY <1>3, <2>2, <2>3 DEF Promise!Tick, Deadlines, d, u
<1>9. CASE /\ list.head \in Listed(list) /\ list.time[list.head] <= ticks + 1
           /\ \A q \in Listed(list) : list.time[list.head] <= list.time[q]
           /\ Listed(list') = IF interval[list.head] = 0 THEN Listed(list) \ {list.head} ELSE Listed(list)
           /\ interval[list.head] # 0 => list'.time[list.head] = ticks + 1 + interval[list.head]
           /\ \A q \in Listed(list) : q # list.head => list'.time[q] = list.time[q]
  <2>0. PICK k \in Procs : k = list.head
    BY <1>1, <1>9
  <2>1. /\ k \in Listed(list) /\ k \in Procs /\ list.time[k] <= u
        /\ \A q \in Listed(list) : list.time[k] <= list.time[q]
        /\ Listed(list') = IF interval[k] = 0 THEN Listed(list) \ {k} ELSE Listed(list)
        /\ interval[k] # 0 => list'.time[k] = u + interval[k]
        /\ \A q \in Listed(list) : q # k => list'.time[q] = list.time[q]
    BY <1>9, <2>0 DEF u
  <2>2. k \in Due
    BY <1>6, <2>1
  <2>3. \A j \in Due : d[k] <= d[j]
    BY <1>1, <1>4, <1>6, <2>1
  <2>4. d' = [d EXCEPT ![k] = IF interval[k] = 0 THEN None ELSE u + interval[k]]
    <3>1. DOMAIN d = Procs
      BY DEF Deadlines
    <3> DEFINE e == [d EXCEPT ![k] = IF interval[k] = 0 THEN None ELSE u + interval[k]]
    <3> HIDE DEF d
    <3>2. ASSUME NEW q \in Procs PROVE (IF q \in Listed(list') THEN list'.time[q] ELSE None) = e[q]
      <4>1. CASE q = k
        <5>1. e[q] = IF interval[k] = 0 THEN None ELSE u + interval[k]
          BY <3>1, <4>1
        <5>2. CASE interval[k] = 0
          BY <2>1, <4>1, <5>1, <5>2
        <5>3. CASE interval[k] # 0
          BY <2>1, <4>1, <5>1, <5>3
        <5>4. QED BY <5>2, <5>3
      <4>2. CASE q # k
        <5>1. e[q] = d[q]
          BY <3>1, <4>2
        <5>2. q \in Listed(list') <=> q \in Listed(list)
          BY <2>1, <4>2
        <5>3. q \in Listed(list) => list'.time[q] = list.time[q]
          BY <2>1, <4>2
        <5>4. QED BY <1>4, <5>1, <5>2, <5>3
      <4>3. QED BY <4>1, <4>2
    <3>3. e = [q \in Procs |-> e[q]]
      BY <3>1
    <3> HIDE DEF e
    <3>4. d' = e
      BY <1>5, <3>2, <3>3
    <3>5. QED BY <3>4 DEF e
  <2> HIDE DEF Due, d
  <2>5. k \in Promise!Due(ticks') /\ \A j \in Promise!Due(ticks') : d[k] <= d[j]
    BY <1>7, <2>2, <2>3
  <2>6. d' = [d EXCEPT ![k] = IF interval[k] = 0 THEN None ELSE ticks' + interval[k]]
    BY <1>3, <2>4
  <2>7. Promise!Fire(k)
    BY <2>6 DEF Promise!Fire, Deadlines, d
  <2>8. \A j \in Promise!Due(ticks') :
          [q \in Procs |-> IF q \in Listed(list) THEN list.time[q] ELSE None][k]
            <= [q \in Procs |-> IF q \in Listed(list) THEN list.time[q] ELSE None][j]
    BY <2>5, Zenon DEF Deadlines, d
  <2>9. ticks' = ticks + 1
    BY <1>3 DEF u
  <2>10. UNCHANGED interval /\ UNCHANGED [q \in Procs |-> status[q] = "RUNNING"]
    BY <1>3
  <2>11. \E j \in Promise!Due(ticks') :
           /\ \A m \in Promise!Due(ticks') :
                [q \in Procs |-> IF q \in Listed(list) THEN list.time[q] ELSE None][j]
                  <= [q \in Procs |-> IF q \in Listed(list) THEN list.time[q] ELSE None][m]
           /\ Promise!Fire(j)
    BY <2>5, <2>7, <2>8, Zenon
  <2>12. QED BY <2>9, <2>10, <2>11, Zenon DEF Promise!Tick
<1>10. QED BY <1>8, <1>9 DEF TickDoes

LEMMA SetIsSet ==
  ASSUME NEW v, OneValue(v), AlarmInv(v), NEW k \in Procs, NEW p, SetDoes(v, k, p)
  PROVE  Promise!Set(k)
<1>1. /\ ticks \in Nat /\ v \in Nat \ {0} /\ list \in Lists /\ Listed(list) \subseteq Procs
  BY Numbers
<1> DEFINE d == Deadlines
<1>2. None \notin Nat /\ \A q \in Procs : d[q] = IF q \in Listed(list) THEN list.time[q] ELSE None
  BY AlarmsAssumption DEF Deadlines
<1>3. d' = [q \in Procs |-> IF q \in Listed(list') THEN list'.time[q] ELSE None]
  BY DEF Deadlines, Listed, Path, Procs
<1>4. DOMAIN d = Procs
  BY DEF Deadlines
<1>5. /\ status[k] = "RUNNING" /\ UNCHANGED <<ticks, status>> /\ interval' = [interval EXCEPT ![k] = p]
      /\ Listed(list') = Listed(list) \cup {k} /\ list'.time[k] = ticks + v
      /\ \A q \in Listed(list) : q # k => list'.time[q] = list.time[q]
  BY DEF SetDoes
<1> HIDE DEF d
<1>6. d' = [d EXCEPT ![k] = ticks + v]
  <2> DEFINE e == [d EXCEPT ![k] = ticks + v]
  <2>1. ASSUME NEW q \in Procs PROVE (IF q \in Listed(list') THEN list'.time[q] ELSE None) = e[q]
    <3>1. CASE q = k
      BY <1>4, <1>5, <3>1
    <3>2. CASE q # k
      BY <1>2, <1>4, <1>5, <3>2
    <3>3. QED BY <3>1, <3>2
  <2>2. e = [q \in Procs |-> e[q]]
    BY <1>4
  <2> HIDE DEF e
  <2>3. d' = e
    BY <1>3, <2>1, <2>2
  <2>4. QED BY <2>3 DEF e
<1>7. d'[k] = ticks + v
  BY <1>4, <1>6
<1>8. ticks + v \in Nat /\ ticks + v >= ticks /\ ticks + v # None
  BY <1>1, <1>2
<1>9. interval \in [Procs -> {0, v}]
  BY DEF AlarmInv
<1>10. interval'[k] = p /\ interval' = [interval EXCEPT ![k] = interval'[k]]
  BY <1>5, <1>9
<1>11. UNCHANGED [q \in Procs |-> status[q] = "RUNNING"]
  BY <1>5
<1>12. d'[k] # None /\ d'[k] >= ticks /\ d' = [d EXCEPT ![k] = d'[k]]
  BY <1>6, <1>7, <1>8
<1>13. [q \in Procs |-> status[q] = "RUNNING"][k]
  BY <1>5
<1>14. QED BY <1>5, <1>10, <1>11, <1>12, <1>13, Zenon DEF Promise!Set, Deadlines, d

LEMMA ExitIsEnd ==
  ASSUME NEW v, OneValue(v), AlarmInv(v), NEW k \in Procs, EndDoes(v, k)
  PROVE  Promise!End(k)
<1> DEFINE d == Deadlines
<1>1. \A q \in Procs : d[q] = IF q \in Listed(list) THEN list.time[q] ELSE None
  BY DEF Deadlines
<1>2. d' = [q \in Procs |-> IF q \in Listed(list') THEN list'.time[q] ELSE None]
  BY DEF Deadlines, Listed, Path, Procs
<1>3. DOMAIN d = Procs
  BY DEF Deadlines
<1>4. /\ status[k] = "RUNNING" /\ UNCHANGED <<ticks, interval>> /\ status' = [status EXCEPT ![k] = "ZOMBIE"]
      /\ Listed(list') = Listed(list) \ {k}
      /\ \A q \in Listed(list) : q # k => list'.time[q] = list.time[q]
  BY DEF EndDoes
<1> HIDE DEF d
<1>5. d' = [d EXCEPT ![k] = None]
  <2> DEFINE e == [d EXCEPT ![k] = None]
  <2>1. ASSUME NEW q \in Procs PROVE (IF q \in Listed(list') THEN list'.time[q] ELSE None) = e[q]
    <3>1. CASE q = k
      BY <1>3, <1>4, <3>1
    <3>2. CASE q # k
      BY <1>1, <1>3, <1>4, <3>2
    <3>3. QED BY <3>1, <3>2
  <2>2. e = [q \in Procs |-> e[q]]
    BY <1>3
  <2> HIDE DEF e
  <2>3. d' = e
    BY <1>2, <2>1, <2>2
  <2>4. QED BY <2>3 DEF e
<1>6. status \in [Procs -> {"RUNNING", "ZOMBIE", "UNUSED"}]
  BY DEF AlarmInv, TypeOK
<1> DEFINE live == [q \in Procs |-> status[q] = "RUNNING"]
<1>7. live' = [live EXCEPT ![k] = FALSE]
  <2>1. \A q \in Procs : (status'[q] = "RUNNING") = (IF q = k THEN FALSE ELSE status[q] = "RUNNING")
    BY <1>4, <1>6
  <2>2. live' = [q \in Procs |-> status'[q] = "RUNNING"]
    BY DEF Procs
  <2>3. live' = [q \in Procs |-> IF q = k THEN FALSE ELSE status[q] = "RUNNING"]
    BY <2>1, <2>2, Zenon
  <2>4. [live EXCEPT ![k] = FALSE] = [q \in Procs |-> IF q = k THEN FALSE ELSE status[q] = "RUNNING"]
    BY Zenon
  <2>5. QED BY <2>3, <2>4
<1>8. live[k]
  BY <1>4
<1>9. QED BY <1>4, <1>5, <1>7, <1>8, Zenon DEF Promise!End, Deadlines, d

LEMMA ForkIsBegin ==
  ASSUME NEW v, OneValue(v), AlarmInv(v), NEW k \in Procs, Fork(k)
  PROVE  Promise!Begin(k)
<1>1. status \in [Procs -> {"RUNNING", "ZOMBIE", "UNUSED"}]
  BY DEF AlarmInv, TypeOK
<1>2. /\ status[k] = "UNUSED" /\ UNCHANGED <<ticks, list>> /\ status' = [status EXCEPT ![k] = "RUNNING"]
      /\ interval' = [interval EXCEPT ![k] = 0]
  BY DEF Fork
<1>3. UNCHANGED Deadlines
  BY <1>2 DEF Deadlines, Listed, Path, Procs
<1> DEFINE live == [q \in Procs |-> status[q] = "RUNNING"]
<1>4. live' = [live EXCEPT ![k] = TRUE]
  <2>1. \A q \in Procs : (status'[q] = "RUNNING") = (IF q = k THEN TRUE ELSE status[q] = "RUNNING")
    BY <1>1, <1>2
  <2>2. live' = [q \in Procs |-> status'[q] = "RUNNING"]
    BY DEF Procs
  <2>3. live' = [q \in Procs |-> IF q = k THEN TRUE ELSE status[q] = "RUNNING"]
    BY <2>1, <2>2, Zenon
  <2>4. [live EXCEPT ![k] = TRUE] = [q \in Procs |-> IF q = k THEN TRUE ELSE status[q] = "RUNNING"]
    BY Zenon
  <2>5. QED BY <2>3, <2>4
<1>5. ~live[k]
  BY <1>2
<1>6. QED BY <1>2, <1>3, <1>4, <1>5, Zenon DEF Promise!Begin, Deadlines

LEMMA ReleaseIsNothing ==
  ASSUME NEW v, OneValue(v), AlarmInv(v), (\E k \in Procs : Release(k)) \/ UNCHANGED vars
  PROVE  UNCHANGED Promise!vars
<1>1. UNCHANGED <<ticks, list, interval>> /\ \A q \in Procs : (status'[q] = "RUNNING") = (status[q] = "RUNNING")
  <2>1. ASSUME NEW k \in Procs, Release(k)
        PROVE  UNCHANGED <<ticks, list, interval>> /\ \A q \in Procs : (status'[q] = "RUNNING") = (status[q] = "RUNNING")
    <3>1. status \in [Procs -> {"RUNNING", "ZOMBIE", "UNUSED"}]
      BY DEF AlarmInv, TypeOK
    <3>2. QED BY <2>1, <3>1 DEF Release
  <2>2. CASE UNCHANGED vars
    BY <2>2 DEF vars
  <2>3. QED BY <2>1, <2>2
<1>2. UNCHANGED Deadlines
  BY <1>1 DEF Deadlines, Listed, Path, Procs
<1> DEFINE live == [q \in Procs |-> status[q] = "RUNNING"]
<1>3. live' = live
  <2>1. live' = [q \in Procs |-> status'[q] = "RUNNING"]
    BY DEF Procs
  <2>2. QED BY <1>1, <2>1, Zenon
<1>4. QED BY <1>1, <1>2, <1>3, Zenon DEF Promise!vars, Deadlines

\* The list of kernel/sched.c is a set of deadlines, one at most to a process: at a clock
\* tick the earliest fires, once, and only if it has passed; nothing else takes a
\* deadline away but setting the timer again and the end of its process.
THEOREM TimersAreAClock ==
  ASSUME NEW v, OneValue(v)
  PROVE  Spec => ImplementsClock
<1>1. ASSUME Init PROVE Promise!Init
  <2>1. Listed(list) = {}
    BY <1>1, AlarmInit
  <2>2. ticks = 0 /\ interval = [k \in Procs |-> 0]
    BY <1>1 DEF Init
  <2>3. [q \in Procs |-> IF q \in Listed(list) THEN list.time[q] ELSE None] = [q \in Procs |-> None]
    BY <2>1
  <2>4. [q \in Procs |-> status[q] = "RUNNING"] \in [Procs -> BOOLEAN]
    OBVIOUS
  <2>5. QED BY <2>2, <2>3, <2>4, Zenon DEF Promise!Init
<1>2. ASSUME AlarmInv(v), [Next]_vars PROVE [Promise!Next]_(Promise!vars)
  <2>1. CASE Timer
    <3>1. TickDoes(v)
      BY <1>2, <2>1, TimerDoes
    <3>2. Promise!Tick
      BY <1>2, <3>1, TickIsTick
    <3>3. QED BY <3>2, Zenon DEF Promise!Next
  <2>2. ASSUME NEW k \in Procs, NEW val \in Values, NEW p \in Periods, SetItimer(k, val, p) PROVE Promise!Next
    <3>1. SetDoes(v, k, p)
      BY <1>2, <2>2, SetItimerDoes
    <3>2. Promise!Set(k)
      BY <1>2, <3>1, SetIsSet
    <3>3. QED BY <3>2, Zenon DEF Promise!Next
  <2>3. ASSUME NEW k \in Procs, Fork(k) PROVE Promise!Next
    <3>1. Promise!Begin(k)
      BY <1>2, <2>3, ForkIsBegin
    <3>2. QED BY <3>1, Zenon DEF Promise!Next
  <2>4. ASSUME NEW k \in Procs, Exit(k) PROVE Promise!Next
    <3>1. EndDoes(v, k)
      BY <1>2, <2>4, ExitDoes
    <3>2. Promise!End(k)
      BY <1>2, <3>1, ExitIsEnd
    <3>3. QED BY <3>2, Zenon DEF Promise!Next
  <2>5. CASE (\E k \in Procs : Release(k)) \/ UNCHANGED vars
    BY <1>2, <2>5, ReleaseIsNothing
  <2>6. QED BY <1>2, <2>1, <2>2, <2>3, <2>4, <2>5 DEF Next
<1>3. AlarmInv(v) /\ [Next]_vars => [Promise!Next]_(Promise!vars)
  BY <1>2
<1>4. Init => Promise!Init
  BY <1>1
<1>5. QED BY <1>3, <1>4, InvAlwaysHolds, PTL DEF Spec, ImplementsClock, Promise!Spec

(***************************************************************************)
(* The mount table.                                                        *)
(***************************************************************************)
Places   == {"idle", "m_read", "m_mutex", "m_root", "u_mutex", "u_flush", "u_close", "u_sync", "b_close"}
Mounting == {"m_read", "m_mutex", "m_root"}
Holding  == {"m_root", "u_flush", "u_close", "u_sync"}

MountTypes ==
  /\ mpt \in [Mps -> [sb : {"none", "claimed", "loaded"}, device : Devices \cup {0},
                      vmdev : VmDevs \cup {0}, dir : Dirs \cup {0}]]
  /\ minor \in [Devices -> [in_use : BOOLEAN, mp : Mps \cup {0}]]
  /\ vmdevt \in [VmDevs -> [in_use : BOOLEAN, device : Devices \cup {0}]]
  /\ dirs \in [Dirs -> [nref : {0, 1}, mount_point : BOOLEAN, busy : Admins \cup {0}]]
  /\ root \in [Devices -> {0, 1}] /\ files \in [Devices -> Nat] /\ special \in [Devices -> Nat]
  /\ mount_mutex \in {0, 1}
  /\ pc \in [Admins -> Places]
  /\ arg \in [Admins -> [device : Devices \cup {0}, dir : Dirs \cup {0}, mp : Mps \cup {0}]]

\* What a process is about.
AtEntry(p) ==
  /\ pc[p] # "idle" => arg[p].device \in Devices
  /\ pc[p] \in Mounting \cup {"u_mutex", "u_flush"} => arg[p].mp \in Mps
  /\ pc[p] \in Mounting =>
       /\ arg[p].dir \in Dirs
       /\ dirs[arg[p].dir] = [nref |-> 1, mount_point |-> FALSE, busy |-> p]
       /\ mpt[arg[p].mp].device = arg[p].device /\ mpt[arg[p].mp].dir = 0
       /\ mpt[arg[p].mp].sb = IF pc[p] = "m_read" THEN "claimed" ELSE "loaded"
  /\ pc[p] = "u_flush" =>
       /\ mpt[arg[p].mp].sb = "loaded" /\ mpt[arg[p].mp].device = arg[p].device
       /\ mpt[arg[p].mp].dir \in Dirs /\ ~dirs[mpt[arg[p].mp].dir].mount_point
MountArgs == \A p \in Admins : AtEntry(p)

\* Two processes that mount are at different entries.
MountApart ==
  \A p, q \in Admins : pc[p] \in Mounting /\ pc[q] \in Mounting /\ arg[p].mp = arg[q].mp => p = q

MountMutexHeld ==
  /\ mount_mutex = 1 => \A p \in Admins : pc[p] \notin Holding
  /\ \A p, q \in Admins : pc[p] \in Holding /\ pc[q] \in Holding => p = q

\* The entries in use.
MountEntries ==
  /\ \A m \in Mps : mpt[m].sb # "none" => mpt[m].device \in Devices
  /\ \A m \in Mps : mpt[m].sb = "claimed" => mpt[m].dir = 0
  /\ \A m, n \in Mps : mpt[m].sb # "none" /\ mpt[n].sb # "none" /\ mpt[m].device = mpt[n].device => m = n
  /\ \A m \in Mps : mpt[m].sb = "loaded" =>
       \/ \E p \in Admins : pc[p] = "u_flush" /\ arg[p].mp = m
       \/ mpt[m].vmdev \in VmDevs /\ vmdevt[mpt[m].vmdev] = [in_use |-> TRUE, device |-> mpt[m].device]

\* The entries of the file systems that are mounted.
MountSettled ==
  /\ \A m \in Mps : Settled(m) => /\ dirs[mpt[m].dir].mount_point /\ dirs[mpt[m].dir].nref = 1
                                  /\ root[mpt[m].device] = 1
  /\ \A m, n \in Mps : Settled(m) /\ Settled(n) /\ mpt[m].dir = mpt[n].dir => m = n
  /\ \A d \in Devices : root[d] = 1 \/ files[d] > 0 => \E m \in Mps : Settled(m) /\ mpt[m].device = d
  /\ \A i \in Dirs : dirs[i].mount_point => \E m \in Mps : Settled(m) /\ mpt[m].dir = i
  /\ \A i \in Dirs : dirs[i].nref = 1 =>
       \/ \E m \in Mps : Settled(m) /\ mpt[m].dir = i
       \/ \E p \in Admins : pc[p] \in Mounting /\ arg[p].dir = i

MountInv == MountTypes /\ MountArgs /\ MountApart /\ MountMutexHeld /\ MountEntries /\ MountSettled

LEMMA MountInv_Exact ==
  ASSUME MountInv
  PROVE  MountsExact
<1>1. MountTypes /\ MountArgs /\ MountEntries /\ MountSettled
  BY DEF MountInv
<1>2. ASSUME NEW m \in Mps, Settled(m)
      PROVE  /\ dirs[mpt[m].dir].mount_point /\ dirs[mpt[m].dir].nref = 1
             /\ root[mpt[m].device] = 1
             /\ vmdevt[mpt[m].vmdev] = [in_use |-> TRUE, device |-> mpt[m].device]
  BY <1>1, <1>2 DEF MountEntries, MountSettled, Settled
<1>3. \A m, n \in Mps : m # n /\ mpt[m].sb # "none" /\ mpt[n].sb # "none" => mpt[m].device # mpt[n].device
  BY <1>1 DEF MountEntries
<1>4. ASSUME NEW i \in Dirs
      PROVE  (dirs[i].nref = 1) <=> \E m \in Mps :
          \/ Settled(m) /\ mpt[m].dir = i
          \/ \E p \in Admins : pc[p] \in {"m_read", "m_mutex", "m_root"} /\ arg[p].dir = i
  <2>1. ASSUME NEW p \in Admins, pc[p] \in Mounting PROVE arg[p].mp \in Mps /\ dirs[arg[p].dir].nref = 1
    <3>1. arg[p].mp \in Mps
      BY <1>1, <2>1 DEF MountArgs, AtEntry
    <3>2. dirs[arg[p].dir] = [nref |-> 1, mount_point |-> FALSE, busy |-> p]
      BY <1>1, <2>1 DEF MountArgs, AtEntry
    <3>3. QED BY <3>1, <3>2
  <2>2. ASSUME dirs[i].nref = 1
        PROVE  \E m \in Mps :
                 \/ Settled(m) /\ mpt[m].dir = i
                 \/ \E p \in Admins : pc[p] \in {"m_read", "m_mutex", "m_root"} /\ arg[p].dir = i
    BY <1>1, <2>1, <2>2 DEF MountSettled, Mounting
  <2>3. ASSUME NEW m \in Mps, Settled(m), mpt[m].dir = i PROVE dirs[i].nref = 1
    BY <1>2, <2>3
  <2>4. ASSUME NEW p \in Admins, pc[p] \in {"m_read", "m_mutex", "m_root"}, arg[p].dir = i PROVE dirs[i].nref = 1
    BY <2>1, <2>4 DEF Mounting
  <2>5. QED BY ONLY <2>2, <2>3, <2>4
<1>5. (\A i \in Dirs : dirs[i].mount_point => \E m \in Mps : Settled(m) /\ mpt[m].dir = i)
      /\ (\A d \in Devices : files[d] > 0 => \E m \in Mps : Settled(m) /\ mpt[m].device = d)
  BY <1>1 DEF MountSettled
<1>6. QED BY <1>2, <1>3, <1>4, <1>5 DEF MountsExact

LEMMA MountInit_Inv ==
  ASSUME MountInit
  PROVE  MountInv
<1>1. MountTypes
  BY MountsAssumption DEF MountInit, MountTypes, NoMount, NoVmDev, AnInode, NoArg, Places, Mps
<1>2. MountArgs /\ MountApart /\ MountMutexHeld
  BY DEF MountInit, MountArgs, AtEntry, MountApart, MountMutexHeld, Mounting, Holding
<1>3. MountEntries
  BY DEF MountInit, MountEntries, NoMount
<1>4. MountSettled
  BY DEF MountInit, MountSettled, NoMount, AnInode, Settled
<1>5. QED BY <1>1, <1>2, <1>3, <1>4 DEF MountInv

\* A step of another process that leaves what this one is at.
LEMMA EntryKept ==
  ASSUME NEW q \in Admins, AtEntry(q), pc'[q] = pc[q], arg'[q] = arg[q],
         pc[q] \in Mounting => mpt'[arg[q].mp] = mpt[arg[q].mp] /\ dirs'[arg[q].dir] = dirs[arg[q].dir],
         pc[q] = "u_flush" => mpt'[arg[q].mp] = mpt[arg[q].mp]
                              /\ dirs'[mpt[arg[q].mp].dir].mount_point = dirs[mpt[arg[q].mp].dir].mount_point
  PROVE  AtEntry(q)'
<1>1. CASE pc[q] \in Mounting
  BY <1>1 DEF AtEntry, Mounting
<1>2. CASE pc[q] = "u_flush"
  BY <1>2 DEF AtEntry, Mounting
<1>3. CASE pc[q] \notin Mounting /\ pc[q] # "u_flush"
  BY <1>3 DEF AtEntry
<1>4. QED BY <1>1, <1>2, <1>3

\* A step of a process that is not at an entry, before it or after, and that leaves
\* the entries, the inodes and what is in use of vmdevt as they are.
LEMMA MountQuiet ==
  ASSUME MountInv, NEW p \in Admins, MountTypes', MountMutexHeld',
         UNCHANGED <<mpt, dirs, root, files>>,
         \A v \in VmDevs : vmdevt[v].in_use => vmdevt'[v] = vmdevt[v],
         pc[p] \notin Mounting /\ pc[p] # "u_flush", pc'[p] \notin Mounting /\ pc'[p] # "u_flush",
         pc'[p] # "idle" => arg'[p].device \in Devices,
         pc'[p] = "u_mutex" => arg'[p].mp \in Mps,
         \A q \in Admins \ {p} : pc'[q] = pc[q] /\ arg'[q] = arg[q]
  PROVE  MountInv'
<1>1. MountTypes /\ MountArgs /\ MountApart /\ MountMutexHeld /\ MountEntries /\ MountSettled
  BY DEF MountInv
<1>2. \A q \in Admins : pc'[q] \in Mounting \/ pc'[q] = "u_flush" => pc'[q] = pc[q] /\ arg'[q] = arg[q]
  OBVIOUS
<1>3. \A q \in Admins : pc[q] \in Mounting \/ pc[q] = "u_flush" => pc'[q] = pc[q] /\ arg'[q] = arg[q]
  OBVIOUS
<1>4. \A m \in Mps : Settled(m)' <=> Settled(m)
  BY <1>2, <1>3 DEF Settled
<1>5. MountArgs'
  <2>1. ASSUME NEW q \in Admins, q # p PROVE AtEntry(q)'
    BY <1>1, <2>1, EntryKept DEF MountArgs
  <2>2. AtEntry(p)'
    BY DEF AtEntry
  <2>3. QED BY <2>1, <2>2 DEF MountArgs
<1>6. MountApart'
  BY <1>1, <1>2 DEF MountApart
<1>7. MountEntries'
  BY <1>1, <1>3 DEF MountEntries
<1>8. MountSettled'
  BY <1>1, <1>3, <1>4 DEF MountSettled
<1>9. QED BY <1>5, <1>6, <1>7, <1>8 DEF MountInv

\* What opening and closing do to the record of a device.
LEMMA MinorOpened ==
  ASSUME MountTypes, NEW d \in Devices
  PROVE  /\ [minor EXCEPT ![d] = hdc_open(@)] \in [Devices -> [in_use : BOOLEAN, mp : Mps \cup {0}]]
         /\ [minor EXCEPT ![d] = hdc_close(@)] \in [Devices -> [in_use : BOOLEAN, mp : Mps \cup {0}]]
         /\ [minor EXCEPT ![d] = hdc_close(hdc_open(@))] \in [Devices -> [in_use : BOOLEAN, mp : Mps \cup {0}]]
         /\ \A m \in Mps :
              [minor EXCEPT ![d] = [hdc_open(@) EXCEPT !.mp = m]] \in [Devices -> [in_use : BOOLEAN, mp : Mps \cup {0}]]
<1>1. minor[d] \in [in_use : BOOLEAN, mp : Mps \cup {0}]
  BY DEF MountTypes
<1>2. \A r \in [in_use : BOOLEAN, mp : Mps \cup {0}] :
        /\ hdc_open(r) \in [in_use : BOOLEAN, mp : Mps \cup {0}]
        /\ hdc_close(r) \in [in_use : BOOLEAN, mp : Mps \cup {0}]
        /\ \A m \in Mps : [r EXCEPT !.mp = m] \in [in_use : BOOLEAN, mp : Mps \cup {0}]
  BY DEF hdc_open, hdc_close
<1>3. /\ hdc_open(minor[d]) \in [in_use : BOOLEAN, mp : Mps \cup {0}]
      /\ hdc_close(minor[d]) \in [in_use : BOOLEAN, mp : Mps \cup {0}]
      /\ hdc_close(hdc_open(minor[d])) \in [in_use : BOOLEAN, mp : Mps \cup {0}]
      /\ \A m \in Mps : [hdc_open(minor[d]) EXCEPT !.mp = m] \in [in_use : BOOLEAN, mp : Mps \cup {0}]
  BY <1>1, <1>2
<1>4. \A r \in [in_use : BOOLEAN, mp : Mps \cup {0}] :
        [minor EXCEPT ![d] = r] \in [Devices -> [in_use : BOOLEAN, mp : Mps \cup {0}]]
  BY DEF MountTypes
<1>5. QED BY <1>3, <1>4

\* Where a process goes.
LEMMA MountGone ==
  ASSUME MountTypes, NEW p \in Admins, NEW l \in Places, Goto(p, l)
  PROVE  pc' \in [Admins -> Places] /\ pc'[p] = l /\ \A q \in Admins \ {p} : pc'[q] = pc[q]
BY DEF MountTypes, Goto

LEMMA MountEnded ==
  ASSUME MountTypes, NEW p \in Admins, End(p)
  PROVE  /\ pc' \in [Admins -> Places] /\ pc'[p] = "idle"
         /\ arg' \in [Admins -> [device : Devices \cup {0}, dir : Dirs \cup {0}, mp : Mps \cup {0}]]
         /\ \A q \in Admins \ {p} : pc'[q] = pc[q] /\ arg'[q] = arg[q]
<1>1. "idle" \in Places /\ NoArg \in [device : Devices \cup {0}, dir : Dirs \cup {0}, mp : Mps \cup {0}]
  BY DEF Places, NoArg
<1>2. pc' = [pc EXCEPT ![p] = "idle"] /\ arg' = [arg EXCEPT ![p] = NoArg]
  BY DEF End, Goto
<1>3. QED BY <1>1, <1>2 DEF MountTypes

LEMMA RefusedStep ==
  ASSUME MountInv, NEW p \in Admins, NEW d \in Devices, NEW i \in Dirs, pc[p] = "idle",
         MountBusy(p, d, i) \/ MountRefused(p, d, i)
  PROVE  MountInv'
<1>1. MountTypes /\ MountMutexHeld
  BY DEF MountInv
<1>2. UNCHANGED <<mpt, vmdevt, dirs, root, files, special, mount_mutex, pc, arg>>
      /\ (minor' = minor \/ minor' = [minor EXCEPT ![d] = hdc_close(hdc_open(@))])
  BY DEF MountBusy, MountRefused, mVars
<1>3. MountTypes'
  <2>1. minor' \in [Devices -> [in_use : BOOLEAN, mp : Mps \cup {0}]]
    <3>1. minor \in [Devices -> [in_use : BOOLEAN, mp : Mps \cup {0}]]
      BY <1>1 DEF MountTypes
    <3>2. QED BY <1>1, <1>2, <3>1, MinorOpened
  <2>2. QED BY <1>1, <1>2, <2>1 DEF MountTypes
<1>4. MountMutexHeld'
  BY <1>1, <1>2 DEF MountMutexHeld
<1>5. QED BY <1>2, <1>3, <1>4, MountQuiet DEF Mounting

LEMMA UmountCallStep ==
  ASSUME MountInv, NEW p \in Admins, NEW d \in Devices, UmountCall(p, d)
  PROVE  MountInv'
<1>1. MountTypes /\ MountMutexHeld
  BY DEF MountInv
<1>2. /\ UNCHANGED <<mpt, minor, vmdevt, dirs, root, files, special, mount_mutex>> /\ pc[p] = "idle" /\ Goto(p, "u_mutex")
      /\ arg' = [arg EXCEPT ![p] = [NoArg EXCEPT !.device = d, !.mp = minor[d].mp]]
      /\ minor[d].mp # 0
  BY DEF UmountCall, CanUmount, mounted
<1>3. minor[d].mp \in Mps
  BY <1>1, <1>2 DEF MountTypes
<1>4. PICK a : a = [NoArg EXCEPT !.device = d, !.mp = minor[d].mp]
  OBVIOUS
<1>5. a \in [device : Devices \cup {0}, dir : Dirs \cup {0}, mp : Mps \cup {0}] /\ a.device = d /\ a.mp = minor[d].mp
  BY <1>3, <1>4 DEF NoArg
<1>6. arg' = [arg EXCEPT ![p] = a]
  BY <1>2, <1>4
<1>7. pc' \in [Admins -> Places] /\ pc'[p] = "u_mutex" /\ \A q \in Admins \ {p} : pc'[q] = pc[q]
  BY <1>1, <1>2, MountGone DEF Places
<1>8. /\ arg' \in [Admins -> [device : Devices \cup {0}, dir : Dirs \cup {0}, mp : Mps \cup {0}]]
      /\ arg'[p] = a /\ \A q \in Admins \ {p} : arg'[q] = arg[q]
  BY <1>1, <1>5, <1>6 DEF MountTypes
<1>9. MountTypes'
  BY <1>1, <1>2, <1>7, <1>8 DEF MountTypes
<1>10. MountMutexHeld'
  BY <1>1, <1>2, <1>7 DEF MountMutexHeld, Holding
<1>11. QED BY <1>2, <1>3, <1>5, <1>7, <1>8, <1>9, <1>10, MountQuiet DEF Mounting

\* The special files and swapon().
LEMMA SpecialStep ==
  ASSUME MountInv, NEW p \in Admins, NEW d \in Devices, blk_open(p, d) \/ blk_close(p, d)
  PROVE  MountInv'
<1>1. MountTypes /\ MountMutexHeld /\ pc[p] = "idle"
  BY DEF MountInv, blk_open, blk_close
<1>2. CASE blk_open(p, d)
  <2>1. /\ UNCHANGED <<mpt, vmdevt, dirs, root, files, mount_mutex, pc, arg>>
        /\ minor' = [minor EXCEPT ![d] = hdc_open(@)] /\ special' = [special EXCEPT ![d] = @ + 1]
    BY <1>2 DEF blk_open
  <2>2. MountTypes'
    BY <1>1, <2>1, MinorOpened DEF MountTypes
  <2>3. MountMutexHeld'
    BY <1>1, <2>1 DEF MountMutexHeld
  <2>4. QED BY <1>1, <2>1, <2>2, <2>3, MountQuiet DEF Mounting
<1>3. CASE blk_close(p, d)
  <2>1. /\ UNCHANGED <<mpt, minor, vmdevt, dirs, root, files, mount_mutex>>
        /\ special[d] > 0 /\ special' = [special EXCEPT ![d] = @ - 1]
        /\ \/ UNCHANGED <<pc, arg>>
           \/ Goto(p, "b_close") /\ arg' = [arg EXCEPT ![p].device = d]
    BY <1>3 DEF blk_close
  <2>2. special' \in [Devices -> Nat]
    <3>1. special[d] - 1 \in Nat
      BY <1>1, <2>1 DEF MountTypes
    <3>2. QED BY <1>1, <2>1, <3>1 DEF MountTypes
  <2>3. CASE UNCHANGED <<pc, arg>>
    <3>1. MountTypes' /\ MountMutexHeld'
      BY <1>1, <2>1, <2>2, <2>3 DEF MountTypes, MountMutexHeld
    <3>2. QED BY <1>1, <2>1, <2>3, <3>1, MountQuiet DEF Mounting
  <2>4. CASE Goto(p, "b_close") /\ arg' = [arg EXCEPT ![p].device = d]
    <3>1. pc' \in [Admins -> Places] /\ pc'[p] = "b_close" /\ \A q \in Admins \ {p} : pc'[q] = pc[q]
      BY <1>1, <2>4, MountGone DEF Places
    <3>2. /\ arg' \in [Admins -> [device : Devices \cup {0}, dir : Dirs \cup {0}, mp : Mps \cup {0}]]
          /\ arg'[p].device = d /\ \A q \in Admins \ {p} : arg'[q] = arg[q]
      <4>1. arg \in [Admins -> [device : Devices \cup {0}, dir : Dirs \cup {0}, mp : Mps \cup {0}]]
        BY <1>1 DEF MountTypes
      <4>2. PICK r : r = [arg[p] EXCEPT !.device = d]
        OBVIOUS
      <4>3. arg[p] \in [device : Devices \cup {0}, dir : Dirs \cup {0}, mp : Mps \cup {0}]
        BY <4>1
      <4>4. r \in [device : Devices \cup {0}, dir : Dirs \cup {0}, mp : Mps \cup {0}] /\ r.device = d
        BY <4>2, <4>3
      <4>5. arg' = [arg EXCEPT ![p] = r]
        BY <2>4, <4>2
      <4>6. QED BY <4>1, <4>4, <4>5
    <3>3. MountTypes'
      BY <1>1, <2>1, <2>2, <3>1, <3>2 DEF MountTypes
    <3>4. MountMutexHeld'
      BY <1>1, <2>1, <3>1 DEF MountMutexHeld, Holding
    <3>5. QED BY <1>1, <2>1, <3>1, <3>2, <3>3, <3>4, MountQuiet DEF Mounting
  <2>5. QED BY <2>1, <2>3, <2>4
<1>4. QED BY <1>2, <1>3

LEMMA GetVmDev ==
  ASSUME NEW d, NEW v \in get_vmdev(d)
  PROVE  v \in VmDevs /\ ~vmdevt[v].in_use
<1> DEFINE free == {u \in VmDevs : ~vmdevt[u].in_use}
<1>1. free # {} /\ v = Min(free)
  BY DEF get_vmdev
<1>2. free \in SUBSET Nat
  BY MountsAssumption
<1>3. Min(free) \in free
  BY <1>1, <1>2, LowestOf
<1>4. QED BY <1>1, <1>3

LEMMA VmDevTaken ==
  ASSUME MountTypes, NEW d \in Devices, NEW v \in get_vmdev(d), TakeVmDev(v, d)
  PROVE  /\ vmdevt' \in [VmDevs -> [in_use : BOOLEAN, device : Devices \cup {0}]]
         /\ v \in VmDevs /\ vmdevt'[v] = [in_use |-> TRUE, device |-> d]
         /\ \A u \in VmDevs : vmdevt[u].in_use => vmdevt'[u] = vmdevt[u]
<1>1. v \in VmDevs /\ ~vmdevt[v].in_use
  BY GetVmDev
<1>2. vmdevt' = [vmdevt EXCEPT ![v] = [in_use |-> TRUE, device |-> d]]
  BY DEF TakeVmDev
<1>3. QED BY <1>1, <1>2 DEF MountTypes

LEMMA SwapOnStep ==
  ASSUME MountInv, NEW p \in Admins, sys_swapon(p)
  PROVE  MountInv'
<1>1. MountTypes /\ MountMutexHeld /\ pc[p] = "idle" /\ SwapDevice \in Devices
  BY DEF MountInv, sys_swapon
<1>2. UNCHANGED <<mpt, dirs, root, files, special, mount_mutex, pc, arg>>
  BY DEF sys_swapon
<1>3. minor' \in [Devices -> [in_use : BOOLEAN, mp : Mps \cup {0}]]
  BY <1>1, MinorOpened DEF sys_swapon
<1>4. /\ vmdevt' \in [VmDevs -> [in_use : BOOLEAN, device : Devices \cup {0}]]
      /\ \A u \in VmDevs : vmdevt[u].in_use => vmdevt'[u] = vmdevt[u]
  <2>1. CASE vmdevt' = vmdevt
    BY <1>1, <2>1 DEF MountTypes
  <2>2. ASSUME NEW v \in get_vmdev(SwapDevice), TakeVmDev(v, SwapDevice)
        PROVE  /\ vmdevt' \in [VmDevs -> [in_use : BOOLEAN, device : Devices \cup {0}]]
               /\ \A u \in VmDevs : vmdevt[u].in_use => vmdevt'[u] = vmdevt[u]
    BY <1>1, <2>2, VmDevTaken
  <2>3. vmdevt' = vmdevt \/ \E v \in get_vmdev(SwapDevice) : TakeVmDev(v, SwapDevice)
    BY DEF sys_swapon
  <2>4. QED BY <2>1, <2>2, <2>3
<1>5. MountTypes'
  BY <1>1, <1>2, <1>3, <1>4 DEF MountTypes
<1>6. MountMutexHeld'
  BY <1>1, <1>2 DEF MountMutexHeld
<1>7. QED BY <1>1, <1>2, <1>4, <1>5, <1>6, MountQuiet DEF Mounting

\* The ends of umount() and of the close of a special file.
LEMMA ClosedStep ==
  ASSUME MountInv, NEW p \in Admins, UmountWrong(p) \/ UmountClose(p) \/ UmountSync(p) \/ BlkClosed(p)
  PROVE  MountInv'
<1>1. MountTypes /\ MountMutexHeld /\ MountArgs
  BY DEF MountInv
<1>2. UNCHANGED <<mpt, vmdevt, dirs, root, files, special>> /\ End(p)
      /\ (minor' = minor \/ minor' = [minor EXCEPT ![arg[p].device] = hdc_close(@)])
      /\ (mount_mutex' = mount_mutex \/ (mount_mutex' = 1 /\ pc[p] \in Holding))
      /\ pc[p] \in {"u_mutex", "u_close", "u_sync", "b_close"}
  BY DEF UmountWrong, UmountClose, UmountSync, BlkClosed, Holding
<1>3. arg[p].device \in Devices
  BY <1>1, <1>2 DEF MountArgs, AtEntry
<1>4. minor' \in [Devices -> [in_use : BOOLEAN, mp : Mps \cup {0}]]
  <2>1. minor \in [Devices -> [in_use : BOOLEAN, mp : Mps \cup {0}]]
    BY <1>1 DEF MountTypes
  <2>2. QED BY <1>1, <1>2, <1>3, <2>1, MinorOpened
<1>5. /\ pc' \in [Admins -> Places] /\ pc'[p] = "idle"
      /\ arg' \in [Admins -> [device : Devices \cup {0}, dir : Dirs \cup {0}, mp : Mps \cup {0}]]
      /\ \A q \in Admins \ {p} : pc'[q] = pc[q] /\ arg'[q] = arg[q]
  BY <1>1, <1>2, MountEnded
<1>6. MountTypes'
  BY <1>1, <1>2, <1>4, <1>5 DEF MountTypes
<1>7. MountMutexHeld'
  BY <1>1, <1>2, <1>5 DEF MountMutexHeld, Holding
<1>8. QED BY <1>2, <1>5, <1>6, <1>7, MountQuiet DEF Mounting

\* Files.
LEMMA FileStep ==
  ASSUME MountInv, NEW p \in Admins, (\E i \in Dirs : OpenFile(p, i)) \/ \E d \in Devices : CloseFile(p, d)
  PROVE  MountInv'
<1>1. MountTypes /\ MountArgs /\ MountApart /\ MountMutexHeld /\ MountEntries /\ MountSettled
  BY DEF MountInv
<1>2. UNCHANGED <<mpt, minor, vmdevt, dirs, root, special, mount_mutex, pc, arg>>
  BY DEF OpenFile, CloseFile
<1>3. /\ files' \in [Devices -> Nat]
      /\ \A d \in Devices : files'[d] > 0 => files[d] > 0 \/ \E m \in Mps : Settled(m) /\ mpt[m].device = d
  <2>1. ASSUME NEW i \in Dirs, OpenFile(p, i)
        PROVE  /\ files' \in [Devices -> Nat]
               /\ \A d \in Devices : files'[d] > 0 => files[d] > 0 \/ \E m \in Mps : Settled(m) /\ mpt[m].device = d
    <3>1. PICK m \in Mps : /\ dirs[i].mount_point /\ mpt[m].sb = "loaded" /\ mpt[m].dir = i
                           /\ files' = [files EXCEPT ![mpt[m].device] = @ + 1]
      BY <2>1 DEF OpenFile
    <3>2. mpt[m].device \in Devices
      BY <1>1, <3>1 DEF MountEntries
    <3>3. i # 0
      BY MountsAssumption
    <3>4. Settled(m)
      BY <1>1, <3>1, <3>3 DEF Settled, MountArgs, AtEntry
    <3>5. QED BY <1>1, <3>1, <3>2, <3>4 DEF MountTypes
  <2>2. ASSUME NEW d \in Devices, CloseFile(p, d)
        PROVE  files' \in [Devices -> Nat] /\ \A e \in Devices : files'[e] > 0 => files[e] > 0
    <3>1. files[d] > 0 /\ files' = [files EXCEPT ![d] = @ - 1]
      BY <2>2 DEF CloseFile
    <3>2. files[d] - 1 \in Nat
      BY <1>1, <3>1 DEF MountTypes
    <3>3. QED BY <1>1, <3>1, <3>2 DEF MountTypes
  <2>3. QED BY <2>1, <2>2
<1>4. \A m \in Mps : Settled(m)' <=> Settled(m)
  BY <1>2 DEF Settled
<1>5. MountTypes'
  BY <1>1, <1>2, <1>3 DEF MountTypes
<1>6. MountArgs' /\ MountApart' /\ MountMutexHeld' /\ MountEntries'
  BY <1>1, <1>2 DEF MountArgs, AtEntry, MountApart, MountMutexHeld, MountEntries
<1>7. MountSettled'
  BY <1>1, <1>2, <1>3, <1>4 DEF MountSettled
<1>8. QED BY <1>5, <1>6, <1>7 DEF MountInv

LEMMA GetMp ==
  ASSUME MountTypes, NEW d, get_mp(d) # 0
  PROVE  /\ get_mp(d) \in Mps /\ mpt[get_mp(d)].sb = "none"
         /\ \A m \in Mps : mpt[m].sb # "none" => mpt[m].device # d
<1> DEFINE free == {m \in Mps : mpt[m].sb = "none"}
<1>1. free # {} /\ get_mp(d) = Min(free) /\ \A m \in Mps : mpt[m].sb # "none" => mpt[m].device # d
  BY DEF get_mp
<1>2. free \in SUBSET Nat
  BY DEF Mps
<1>3. Min(free) \in free
  BY <1>1, <1>2, LowestOf
<1>4. QED BY <1>1, <1>3

LEMMA ClaimStep ==
  ASSUME MountInv, NEW p \in Admins, NEW d \in Devices, NEW i \in Dirs, MountClaim(p, d, i)
  PROVE  MountInv'
<1>1. MountTypes /\ MountArgs /\ MountApart /\ MountMutexHeld /\ MountEntries /\ MountSettled
  BY DEF MountInv
<1>2. PICK m : m = get_mp(d)
  OBVIOUS
<1>3. /\ m \in Mps /\ mpt[m].sb = "none" /\ pc[p] = "idle"
      /\ \A n \in Mps : mpt[n].sb # "none" => mpt[n].device # d
  BY <1>1, <1>2, GetMp DEF MountClaim
<1>4. /\ mpt' = [mpt EXCEPT ![m] = [NoMount EXCEPT !.sb = "claimed", !.device = d]]
      /\ minor' = [minor EXCEPT ![d] = [hdc_open(@) EXCEPT !.mp = m]]
      /\ dirs' = [dirs EXCEPT ![i].nref = 1, ![i].busy = p]
      /\ arg' = [arg EXCEPT ![p] = [device |-> d, dir |-> i, mp |-> m]]
      /\ Goto(p, "m_read") /\ dirs[i].nref = 0
      /\ UNCHANGED <<vmdevt, root, files, special, mount_mutex>>
  BY <1>2 DEF MountClaim
<1>5. ~dirs[i].mount_point
  BY <1>1, <1>4 DEF MountSettled
<1>6. /\ mpt'[m] = [sb |-> "claimed", device |-> d, vmdev |-> 0, dir |-> 0]
      /\ \A n \in Mps : n # m => mpt'[n] = mpt[n]
      /\ mpt' \in [Mps -> [sb : {"none", "claimed", "loaded"}, device : Devices \cup {0},
                           vmdev : VmDevs \cup {0}, dir : Dirs \cup {0}]]
  <2>1. PICK r : r = [NoMount EXCEPT !.sb = "claimed", !.device = d]
    OBVIOUS
  <2>2. r = [sb |-> "claimed", device |-> d, vmdev |-> 0, dir |-> 0]
    BY <2>1 DEF NoMount
  <2>3. mpt' = [mpt EXCEPT ![m] = r]
    BY <1>4, <2>1
  <2>4. QED BY <1>1, <1>3, <2>2, <2>3 DEF MountTypes
<1>7. /\ dirs'[i] = [nref |-> 1, mount_point |-> FALSE, busy |-> p]
      /\ \A j \in Dirs : j # i => dirs'[j] = dirs[j]
      /\ \A j \in Dirs : dirs'[j].mount_point = dirs[j].mount_point
      /\ dirs' \in [Dirs -> [nref : {0, 1}, mount_point : BOOLEAN, busy : Admins \cup {0}]]
  <2>1. dirs'[i] = [dirs[i] EXCEPT !.nref = 1, !.busy = p] /\ \A j \in Dirs : j # i => dirs'[j] = dirs[j]
    BY <1>1, <1>4 DEF MountTypes
  <2>2. dirs[i] \in [nref : {0, 1}, mount_point : BOOLEAN, busy : Admins \cup {0}]
    BY <1>1 DEF MountTypes
  <2>3. dirs'[i] = [nref |-> 1, mount_point |-> FALSE, busy |-> p]
    BY <1>5, <2>1, <2>2
  <2>4. DOMAIN dirs' = Dirs /\ dirs' = [j \in Dirs |-> dirs'[j]]
    BY <1>1, <1>4 DEF MountTypes
  <2>5. \A j \in Dirs : dirs'[j] \in [nref : {0, 1}, mount_point : BOOLEAN, busy : Admins \cup {0}]
    <3>1. p \in Admins \cup {0} /\ dirs'[i] \in [nref : {0, 1}, mount_point : BOOLEAN, busy : Admins \cup {0}]
      BY <2>3
    <3>2. \A j \in Dirs : dirs[j] \in [nref : {0, 1}, mount_point : BOOLEAN, busy : Admins \cup {0}]
      BY <1>1 DEF MountTypes
    <3>3. QED BY <2>1, <3>1, <3>2
  <2>6. ~dirs[i].mount_point /\ ~dirs'[i].mount_point
    BY <1>5, <2>3
  <2>7. \A j \in Dirs : dirs'[j].mount_point = dirs[j].mount_point
    BY ONLY <2>1, <2>2, <2>5, <2>6
  <2>8. dirs' \in [Dirs -> [nref : {0, 1}, mount_point : BOOLEAN, busy : Admins \cup {0}]]
    BY ONLY <2>4, <2>5
  <2>9. QED BY ONLY <2>1, <2>3, <2>7, <2>8
<1>8. /\ arg'[p] = [device |-> d, dir |-> i, mp |-> m] /\ \A q \in Admins \ {p} : arg'[q] = arg[q]
      /\ arg' \in [Admins -> [device : Devices \cup {0}, dir : Dirs \cup {0}, mp : Mps \cup {0}]]
  BY <1>1, <1>3, <1>4 DEF MountTypes
<1>9. pc' \in [Admins -> Places] /\ pc'[p] = "m_read" /\ \A q \in Admins \ {p} : pc'[q] = pc[q]
  BY <1>1, <1>4, MountGone DEF Places
<1>10. minor' \in [Devices -> [in_use : BOOLEAN, mp : Mps \cup {0}]]
  BY <1>1, <1>3, <1>4, MinorOpened
<1>11. MountTypes'
  BY <1>1, <1>4, <1>6, <1>7, <1>8, <1>9, <1>10 DEF MountTypes
<1>12. \A q \in Admins : pc[q] \in Mounting \/ pc[q] = "u_flush" => arg[q].mp # m /\ q # p
  BY <1>1, <1>3 DEF MountArgs, AtEntry, Mounting
<1>13. \A q \in Admins : pc[q] \in Mounting => arg[q].dir # i
  <2>1. ASSUME NEW q \in Admins, pc[q] \in Mounting PROVE dirs[arg[q].dir].nref = 1
    <3>1. dirs[arg[q].dir] = [nref |-> 1, mount_point |-> FALSE, busy |-> q]
      BY <1>1, <2>1 DEF MountArgs, AtEntry
    <3>2. QED BY <3>1
  <2>2. QED BY <1>4, <2>1
<1>14. MountArgs'
  <2>1. ASSUME NEW q \in Admins, q # p
        PROVE  AtEntry(q)'
    <3>1. pc'[q] = pc[q] /\ arg'[q] = arg[q] /\ AtEntry(q)
      BY <1>1, <1>8, <1>9, <2>1 DEF MountArgs
    <3>2. ASSUME pc[q] \in Mounting
          PROVE  mpt'[arg[q].mp] = mpt[arg[q].mp] /\ dirs'[arg[q].dir] = dirs[arg[q].dir]
      BY <1>6, <1>7, <1>12, <1>13, <3>1, <3>2 DEF AtEntry
    <3>3. ASSUME pc[q] = "u_flush"
          PROVE  mpt'[arg[q].mp] = mpt[arg[q].mp]
                 /\ dirs'[mpt[arg[q].mp].dir].mount_point = dirs[mpt[arg[q].mp].dir].mount_point
      BY <1>6, <1>7, <1>12, <3>1, <3>3 DEF AtEntry
    <3>4. QED BY <3>1, <3>2, <3>3, EntryKept
  <2>2. /\ arg'[p].device \in Devices /\ arg'[p].mp \in Mps /\ arg'[p].dir \in Dirs
        /\ dirs'[arg'[p].dir] = [nref |-> 1, mount_point |-> FALSE, busy |-> p]
        /\ mpt'[arg'[p].mp].device = arg'[p].device /\ mpt'[arg'[p].mp].dir = 0
        /\ mpt'[arg'[p].mp].sb = "claimed"
    BY <1>3, <1>6, <1>7, <1>8
  <2>3. AtEntry(p)'
    BY <1>9, <2>2 DEF AtEntry
  <2>4. QED BY <2>1, <2>3 DEF MountArgs
<1>15. MountApart'
  <2>1. \A q \in Admins \ {p} : pc'[q] \in Mounting => arg'[q].mp # m
    BY <1>8, <1>9, <1>12
  <2>2. QED BY <1>1, <1>8, <1>9, <2>1 DEF MountApart
<1>16. MountMutexHeld'
  BY <1>1, <1>4, <1>9 DEF MountMutexHeld, Holding
<1>17. MountEntries'
  <2>1. /\ \A n \in Mps : mpt'[n].sb # "none" => mpt'[n].device \in Devices
        /\ \A n \in Mps : mpt'[n].sb = "claimed" => mpt'[n].dir = 0
        /\ \A n, k \in Mps : mpt'[n].sb # "none" /\ mpt'[k].sb # "none" /\ mpt'[n].device = mpt'[k].device => n = k
    BY <1>1, <1>3, <1>6 DEF MountEntries
  <2>2. ASSUME NEW n \in Mps, mpt'[n].sb = "loaded"
        PROVE  \/ \E q \in Admins : pc'[q] = "u_flush" /\ arg'[q].mp = n
               \/ mpt'[n].vmdev \in VmDevs /\ vmdevt'[mpt'[n].vmdev] = [in_use |-> TRUE, device |-> mpt'[n].device]
    <3>1. n # m /\ mpt'[n] = mpt[n]
      BY <1>6, <2>2
    <3>2. \A q \in Admins : pc[q] = "u_flush" => pc'[q] = pc[q] /\ arg'[q] = arg[q]
      BY <1>3, <1>8, <1>9
    <3>3. mpt[n].sb = "loaded" /\ vmdevt' = vmdevt
      BY <1>4, <2>2, <3>1
    <3>4. \/ \E q \in Admins : pc[q] = "u_flush" /\ arg[q].mp = n
          \/ mpt[n].vmdev \in VmDevs /\ vmdevt[mpt[n].vmdev] = [in_use |-> TRUE, device |-> mpt[n].device]
      BY <1>1, <3>3 DEF MountEntries
    <3>5. QED BY <3>1, <3>2, <3>3, <3>4
  <2>3. QED BY <2>1, <2>2 DEF MountEntries
<1>18. \A n \in Mps : Settled(n)' <=> Settled(n)
  <2>1. ~Settled(m) /\ ~Settled(m)'
    BY <1>3, <1>6 DEF Settled
  <2>2. \A q \in Admins : pc'[q] = "u_flush" <=> pc[q] = "u_flush"
    BY <1>3, <1>9
  <2>3. \A q \in Admins : pc[q] = "u_flush" => arg'[q] = arg[q]
    BY <1>3, <1>8
  <2>4. ASSUME NEW n \in Mps, n # m PROVE Settled(n)' <=> Settled(n)
    BY <1>6, <2>2, <2>3, <2>4 DEF Settled
  <2>5. QED BY <2>1, <2>4
<1>19. \A n \in Mps : Settled(n) => mpt'[n] = mpt[n]
  BY <1>3, <1>6 DEF Settled
<1>20. MountSettled'
  <2>1. ASSUME NEW n \in Mps, Settled(n)
        PROVE  dirs'[mpt[n].dir].mount_point /\ dirs'[mpt[n].dir].nref = 1 /\ root'[mpt[n].device] = 1
    <3>1. mpt[n].dir \in Dirs /\ mpt[n].dir # i
      BY <1>1, <1>5, <2>1 DEF MountTypes, MountSettled, Settled
    <3>2. QED BY <1>1, <1>4, <1>7, <2>1, <3>1 DEF MountSettled
  <2>2. \A q \in Admins : pc[q] \in Mounting => pc'[q] \in Mounting /\ arg'[q] = arg[q]
    BY <1>3, <1>8, <1>9 DEF Mounting
  <2>3. ASSUME NEW j \in Dirs, dirs'[j].nref = 1
        PROVE  \/ \E n \in Mps : Settled(n)' /\ mpt'[n].dir = j
               \/ \E q \in Admins : pc'[q] \in Mounting /\ arg'[q].dir = j
    <3>1. CASE j = i
      BY <1>8, <1>9, <3>1 DEF Mounting
    <3>2. CASE j # i
      <4>1. dirs[j].nref = 1
        BY <1>7, <2>3, <3>2
      <4>2. CASE \E n \in Mps : Settled(n) /\ mpt[n].dir = j
        BY <1>18, <1>19, <4>2
      <4>3. CASE \E q \in Admins : pc[q] \in Mounting /\ arg[q].dir = j
        BY <2>2, <4>3
      <4>4. QED BY <1>1, <4>1, <4>2, <4>3 DEF MountSettled
    <3>3. QED BY <3>1, <3>2
  <2>4. \A n, k \in Mps : Settled(n)' /\ Settled(k)' /\ mpt'[n].dir = mpt'[k].dir => n = k
    BY <1>1, <1>18, <1>19 DEF MountSettled
  <2>5. \A e \in Devices : root'[e] = 1 \/ files'[e] > 0 => \E n \in Mps : Settled(n)' /\ mpt'[n].device = e
    <3>1. \A e \in Devices : root[e] = 1 \/ files[e] > 0 => \E n \in Mps : Settled(n) /\ mpt[n].device = e
      BY <1>1 DEF MountSettled
    <3>2. root' = root /\ files' = files
      BY <1>4
    <3>3. QED BY ONLY <1>18, <1>19, <3>1, <3>2
  <2>6. \A j \in Dirs : dirs'[j].mount_point => \E n \in Mps : Settled(n)' /\ mpt'[n].dir = j
    <3>1. \A j \in Dirs : dirs[j].mount_point => \E n \in Mps : Settled(n) /\ mpt[n].dir = j
      BY <1>1 DEF MountSettled
    <3>2. \A j \in Dirs : dirs'[j].mount_point = dirs[j].mount_point
      BY <1>7
    <3>3. QED BY ONLY <1>18, <1>19, <3>1, <3>2
  <2>7. \A n \in Mps : Settled(n)' => /\ dirs'[mpt'[n].dir].mount_point /\ dirs'[mpt'[n].dir].nref = 1
                                      /\ root'[mpt'[n].device] = 1
    BY <1>18, <1>19, <2>1
  <2>8. QED BY <2>3, <2>4, <2>5, <2>6, <2>7 DEF MountSettled
<1>21. QED BY <1>11, <1>14, <1>15, <1>16, <1>17, <1>20 DEF MountInv

\* Two processes that mount are on different directories.
LEMMA DirsApart ==
  ASSUME MountArgs, NEW p \in Admins, NEW q \in Admins, pc[p] \in Mounting, pc[q] \in Mounting, arg[p].dir = arg[q].dir
  PROVE  p = q
<1>1. dirs[arg[p].dir] = [nref |-> 1, mount_point |-> FALSE, busy |-> p]
      /\ dirs[arg[q].dir] = [nref |-> 1, mount_point |-> FALSE, busy |-> q]
  BY DEF MountArgs, AtEntry
<1>2. dirs[arg[p].dir].busy = p /\ dirs[arg[q].dir].busy = q
  BY <1>1
<1>3. QED BY <1>2

\* A directory being mounted on is not one that is mounted on.
LEMMA NotYetMounted ==
  ASSUME MountInv, NEW p \in Admins, pc[p] \in Mounting
  PROVE  /\ ~dirs[arg[p].dir].mount_point /\ dirs[arg[p].dir].nref = 1
         /\ \A m \in Mps : Settled(m) => mpt[m].dir # arg[p].dir /\ m # arg[p].mp
         /\ \A q \in Admins : pc[q] = "u_flush" => arg[q].mp # arg[p].mp
<1>1. MountTypes /\ MountArgs /\ MountSettled
  BY DEF MountInv
<1>2. dirs[arg[p].dir] = [nref |-> 1, mount_point |-> FALSE, busy |-> p] /\ mpt[arg[p].mp].dir = 0
  BY <1>1 DEF MountArgs, AtEntry
<1>3. ~dirs[arg[p].dir].mount_point /\ dirs[arg[p].dir].nref = 1
  BY <1>2
<1>4. \A m \in Mps : Settled(m) => mpt[m].dir # arg[p].dir /\ m # arg[p].mp
  BY <1>1, <1>2, <1>3 DEF MountSettled, Settled
<1>5. ASSUME NEW q \in Admins, pc[q] = "u_flush" PROVE arg[q].mp # arg[p].mp
  <2>1. mpt[arg[q].mp].dir \in Dirs
    BY <1>1, <1>5 DEF MountArgs, AtEntry
  <2>2. QED BY <1>2, <2>1, MountsAssumption
<1>6. QED BY <1>3, <1>4, <1>5

LEMMA FailStep ==
  ASSUME MountInv, NEW p \in Admins, pc[p] = "m_read", MountFails(p)
  PROVE  MountInv'
<1>1. MountTypes /\ MountArgs /\ MountApart /\ MountMutexHeld /\ MountEntries /\ MountSettled
  BY DEF MountInv
<1>2. PICK m, i, d : m = arg[p].mp /\ i = arg[p].dir /\ d = arg[p].device
  OBVIOUS
<1>3. /\ pc[p] \in Mounting /\ m \in Mps /\ i \in Dirs /\ d \in Devices
      /\ mpt[m].sb = "claimed" /\ mpt[m].dir = 0 /\ mpt[m].device = d
      /\ dirs[i] = [nref |-> 1, mount_point |-> FALSE, busy |-> p]
  BY <1>1, <1>2 DEF MountArgs, AtEntry, Mounting
<1>4. /\ mpt' = [mpt EXCEPT ![m] = Unclaimed(m)]
      /\ minor' = [minor EXCEPT ![d] = hdc_close(@)]
      /\ dirs' = [dirs EXCEPT ![i].nref = 0, ![i].busy = 0]
      /\ End(p)
      /\ UNCHANGED <<vmdevt, root, files, special, mount_mutex>>
  BY <1>2 DEF MountFails
<1>5. /\ mpt'[m].sb = "none" /\ \A n \in Mps : n # m => mpt'[n] = mpt[n]
      /\ mpt' \in [Mps -> [sb : {"none", "claimed", "loaded"}, device : Devices \cup {0},
                           vmdev : VmDevs \cup {0}, dir : Dirs \cup {0}]]
  <2>1. PICK r : r = Unclaimed(m)
    OBVIOUS
  <2>2. mpt[m] \in [sb : {"none", "claimed", "loaded"}, device : Devices \cup {0}, vmdev : VmDevs \cup {0}, dir : Dirs \cup {0}]
    BY <1>1, <1>3 DEF MountTypes
  <2>3. /\ r \in [sb : {"none", "claimed", "loaded"}, device : Devices \cup {0}, vmdev : VmDevs \cup {0}, dir : Dirs \cup {0}]
        /\ r.sb = "none"
    BY <2>1, <2>2 DEF Unclaimed
  <2>4. mpt' = [mpt EXCEPT ![m] = r]
    BY <1>4, <2>1
  <2>5. QED BY <1>1, <1>3, <2>3, <2>4 DEF MountTypes
<1>6. /\ dirs'[i] = [nref |-> 0, mount_point |-> FALSE, busy |-> 0]
      /\ \A j \in Dirs : j # i => dirs'[j] = dirs[j]
      /\ \A j \in Dirs : dirs'[j].mount_point = dirs[j].mount_point
      /\ dirs' \in [Dirs -> [nref : {0, 1}, mount_point : BOOLEAN, busy : Admins \cup {0}]]
  <2>1. dirs'[i] = [dirs[i] EXCEPT !.nref = 0, !.busy = 0] /\ \A j \in Dirs : j # i => dirs'[j] = dirs[j]
    BY <1>1, <1>3, <1>4 DEF MountTypes
  <2>2. dirs'[i] = [nref |-> 0, mount_point |-> FALSE, busy |-> 0]
    <3>1. dirs[i] \in [nref : {0, 1}, mount_point : BOOLEAN, busy : Admins \cup {0}]
      BY <1>1, <1>3 DEF MountTypes
    <3>2. ~dirs[i].mount_point
      BY <1>3
    <3>3. QED BY <2>1, <3>1, <3>2
  <2>3. dirs' = [j \in Dirs |-> dirs'[j]]
    BY <1>1, <1>4 DEF MountTypes
  <2>4. \A j \in Dirs : dirs'[j] \in [nref : {0, 1}, mount_point : BOOLEAN, busy : Admins \cup {0}]
    <3>1. dirs'[i] \in [nref : {0, 1}, mount_point : BOOLEAN, busy : Admins \cup {0}]
      BY <2>2
    <3>2. \A j \in Dirs : dirs[j] \in [nref : {0, 1}, mount_point : BOOLEAN, busy : Admins \cup {0}]
      BY <1>1 DEF MountTypes
    <3>3. QED BY <2>1, <3>1, <3>2
  <2>5. \A j \in Dirs : dirs'[j].mount_point = dirs[j].mount_point
    <3>1. dirs[i].mount_point = FALSE /\ dirs'[i].mount_point = FALSE
      <4>1. dirs[i].mount_point \in BOOLEAN
        BY <1>1, <1>3 DEF MountTypes
      <4>2. QED BY <1>3, <2>2, <4>1
    <3>2. QED BY ONLY <2>1, <3>1
  <2>6. dirs' \in [Dirs -> [nref : {0, 1}, mount_point : BOOLEAN, busy : Admins \cup {0}]]
    BY ONLY <2>3, <2>4
  <2>7. QED BY ONLY <2>1, <2>2, <2>5, <2>6
<1>7. /\ pc' \in [Admins -> Places] /\ pc'[p] = "idle"
      /\ arg' \in [Admins -> [device : Devices \cup {0}, dir : Dirs \cup {0}, mp : Mps \cup {0}]]
      /\ \A q \in Admins \ {p} : pc'[q] = pc[q] /\ arg'[q] = arg[q]
  BY <1>1, <1>4, MountEnded
<1>8. minor' \in [Devices -> [in_use : BOOLEAN, mp : Mps \cup {0}]]
  BY <1>1, <1>3, <1>4, MinorOpened
<1>9. MountTypes'
  BY <1>1, <1>4, <1>5, <1>6, <1>7, <1>8 DEF MountTypes
<1>10. /\ \A q \in Admins \ {p} : pc[q] \in Mounting => arg[q].mp # m /\ arg[q].dir # i
       /\ \A q \in Admins : pc[q] = "u_flush" => arg[q].mp # m
       /\ \A n \in Mps : Settled(n) => mpt[n].dir # i /\ n # m
  <2>1. \A q \in Admins : pc[q] \in Mounting /\ arg[q].mp = m => q = p
    BY <1>1, <1>2, <1>3 DEF MountApart
  <2>2. \A q \in Admins : pc[q] \in Mounting /\ arg[q].dir = i => q = p
    BY <1>1, <1>2, <1>3, DirsApart
  <2>3. QED BY <1>2, <1>3, <2>1, <2>2, NotYetMounted
<1>11. MountArgs'
  <2>1. ASSUME NEW q \in Admins, q # p
        PROVE  AtEntry(q)'
    <3>1. pc'[q] = pc[q] /\ arg'[q] = arg[q] /\ AtEntry(q)
      BY <1>1, <1>7, <2>1 DEF MountArgs
    <3>2. ASSUME pc[q] \in Mounting
          PROVE  mpt'[arg[q].mp] = mpt[arg[q].mp] /\ dirs'[arg[q].dir] = dirs[arg[q].dir]
      BY <1>5, <1>6, <1>10, <2>1, <3>1, <3>2 DEF AtEntry
    <3>3. ASSUME pc[q] = "u_flush"
          PROVE  mpt'[arg[q].mp] = mpt[arg[q].mp]
                 /\ dirs'[mpt[arg[q].mp].dir].mount_point = dirs[mpt[arg[q].mp].dir].mount_point
      BY <1>5, <1>6, <1>10, <3>1, <3>3 DEF AtEntry
    <3>4. QED BY <3>1, <3>2, <3>3, EntryKept
  <2>2. AtEntry(p)'
    BY <1>7 DEF AtEntry, Mounting
  <2>3. QED BY <2>1, <2>2 DEF MountArgs
<1>12. MountApart'
  BY <1>1, <1>7 DEF MountApart, Mounting
<1>13. MountMutexHeld'
  BY <1>1, <1>4, <1>7 DEF MountMutexHeld, Holding
<1>14. \A q \in Admins : pc[q] = "u_flush" => pc'[q] = pc[q] /\ arg'[q] = arg[q]
  BY <1>3, <1>7 DEF Mounting
<1>15. \A q \in Admins : pc'[q] = "u_flush" => pc'[q] = pc[q] /\ arg'[q] = arg[q]
  BY <1>7
<1>16. MountEntries'
  <2>1. /\ \A n \in Mps : mpt'[n].sb # "none" => mpt'[n].device \in Devices
        /\ \A n \in Mps : mpt'[n].sb = "claimed" => mpt'[n].dir = 0
        /\ \A n, k \in Mps : mpt'[n].sb # "none" /\ mpt'[k].sb # "none" /\ mpt'[n].device = mpt'[k].device => n = k
    BY <1>1, <1>5 DEF MountEntries
  <2>2. ASSUME NEW n \in Mps, mpt'[n].sb = "loaded"
        PROVE  \/ \E q \in Admins : pc'[q] = "u_flush" /\ arg'[q].mp = n
               \/ mpt'[n].vmdev \in VmDevs /\ vmdevt'[mpt'[n].vmdev] = [in_use |-> TRUE, device |-> mpt'[n].device]
    <3>1. n # m /\ mpt'[n] = mpt[n]
      BY <1>5, <2>2
    <3>2. mpt[n].sb = "loaded" /\ vmdevt' = vmdevt
      BY <1>4, <2>2, <3>1
    <3>3. \/ \E q \in Admins : pc[q] = "u_flush" /\ arg[q].mp = n
          \/ mpt[n].vmdev \in VmDevs /\ vmdevt[mpt[n].vmdev] = [in_use |-> TRUE, device |-> mpt[n].device]
      BY <1>1, <3>2 DEF MountEntries
    <3>4. QED BY <1>14, <3>1, <3>2, <3>3
  <2>3. QED BY <2>1, <2>2 DEF MountEntries
<1>17. \A n \in Mps : Settled(n)' <=> Settled(n)
  <2>1. ~Settled(m) /\ ~Settled(m)'
    BY <1>3, <1>5 DEF Settled
  <2>2. ASSUME NEW n \in Mps, n # m PROVE Settled(n)' <=> Settled(n)
    BY <1>5, <1>14, <1>15, <2>2 DEF Settled
  <2>3. QED BY <2>1, <2>2
<1>18. \A n \in Mps : Settled(n) => mpt'[n] = mpt[n]
  BY <1>5, <1>10
<1>19. MountSettled'
  <2>1. ASSUME NEW n \in Mps, Settled(n)
        PROVE  dirs'[mpt[n].dir].mount_point /\ dirs'[mpt[n].dir].nref = 1 /\ root'[mpt[n].device] = 1
    <3>1. mpt[n].dir \in Dirs /\ mpt[n].dir # i
      BY <1>1, <1>10, <2>1 DEF MountTypes, Settled
    <3>2. QED BY <1>1, <1>4, <1>6, <2>1, <3>1 DEF MountSettled
  <2>2. ASSUME NEW j \in Dirs, dirs'[j].nref = 1
        PROVE  \/ \E n \in Mps : Settled(n)' /\ mpt'[n].dir = j
               \/ \E q \in Admins : pc'[q] \in Mounting /\ arg'[q].dir = j
    <3>1. j # i /\ dirs[j].nref = 1
      BY <1>6, <2>2
    <3>2. CASE \E n \in Mps : Settled(n) /\ mpt[n].dir = j
      BY <1>17, <1>18, <3>2
    <3>3. CASE \E q \in Admins : pc[q] \in Mounting /\ arg[q].dir = j
      BY <1>2, <1>7, <3>1, <3>3
    <3>4. QED BY <1>1, <3>1, <3>2, <3>3 DEF MountSettled
  <2>3. \A n, k \in Mps : Settled(n)' /\ Settled(k)' /\ mpt'[n].dir = mpt'[k].dir => n = k
    BY <1>1, <1>17, <1>18 DEF MountSettled
  <2>4. \A e \in Devices : root'[e] = 1 \/ files'[e] > 0 => \E n \in Mps : Settled(n)' /\ mpt'[n].device = e
    BY <1>1, <1>4, <1>17, <1>18 DEF MountSettled
  <2>5. \A j \in Dirs : dirs'[j].mount_point => \E n \in Mps : Settled(n)' /\ mpt'[n].dir = j
    BY <1>1, <1>6, <1>17, <1>18 DEF MountSettled
  <2>6. \A n \in Mps : Settled(n)' => /\ dirs'[mpt'[n].dir].mount_point /\ dirs'[mpt'[n].dir].nref = 1
                                      /\ root'[mpt'[n].device] = 1
    BY <1>17, <1>18, <2>1
  <2>7. QED BY <2>2, <2>3, <2>4, <2>5, <2>6 DEF MountSettled
<1>20. QED BY <1>9, <1>11, <1>12, <1>13, <1>16, <1>19 DEF MountInv

LEMMA ReadStep ==
  ASSUME MountInv, NEW p \in Admins, MountRead(p)
  PROVE  MountInv'
<1>1. MountTypes /\ MountArgs /\ MountApart /\ MountMutexHeld /\ MountEntries /\ MountSettled
  BY DEF MountInv
<1>2. PICK m, d : m = arg[p].mp /\ d = arg[p].device
  OBVIOUS
<1>3. /\ pc[p] = "m_read" /\ pc[p] \in Mounting /\ m \in Mps /\ d \in Devices
      /\ mpt[m].sb = "claimed" /\ mpt[m].dir = 0 /\ mpt[m].device = d
  BY <1>1, <1>2 DEF MountArgs, AtEntry, Mounting, MountRead
<1>4. PICK v \in get_vmdev(d) : TakeVmDev(v, d) /\ mpt' = [mpt EXCEPT ![m].sb = "loaded", ![m].vmdev = v]
  BY <1>2 DEF MountRead
<1>5. UNCHANGED <<minor, dirs, root, files, special, mount_mutex, arg>> /\ Goto(p, "m_mutex")
  BY DEF MountRead
<1>6. /\ vmdevt' \in [VmDevs -> [in_use : BOOLEAN, device : Devices \cup {0}]]
      /\ v \in VmDevs /\ vmdevt'[v] = [in_use |-> TRUE, device |-> d]
      /\ \A u \in VmDevs : vmdevt[u].in_use => vmdevt'[u] = vmdevt[u]
  BY <1>1, <1>3, <1>4, VmDevTaken
<1>7. /\ mpt'[m] = [sb |-> "loaded", device |-> d, vmdev |-> v, dir |-> 0] /\ \A n \in Mps : n # m => mpt'[n] = mpt[n]
      /\ mpt' \in [Mps -> [sb : {"none", "claimed", "loaded"}, device : Devices \cup {0},
                           vmdev : VmDevs \cup {0}, dir : Dirs \cup {0}]]
  <2>1. mpt[m] \in [sb : {"none", "claimed", "loaded"}, device : Devices \cup {0}, vmdev : VmDevs \cup {0}, dir : Dirs \cup {0}]
    BY <1>1, <1>3 DEF MountTypes
  <2>2. mpt'[m] = [mpt[m] EXCEPT !.sb = "loaded", !.vmdev = v] /\ \A n \in Mps : n # m => mpt'[n] = mpt[n]
    BY <1>1, <1>3, <1>4 DEF MountTypes
  <2>3. mpt'[m] = [sb |-> "loaded", device |-> d, vmdev |-> v, dir |-> 0]
    BY <1>3, <2>1, <2>2
  <2>4. mpt' = [n \in Mps |-> mpt'[n]]
    BY <1>1, <1>4 DEF MountTypes
  <2>5. \A n \in Mps : mpt'[n] \in [sb : {"none", "claimed", "loaded"}, device : Devices \cup {0},
                                    vmdev : VmDevs \cup {0}, dir : Dirs \cup {0}]
    <3>1. mpt'[m] \in [sb : {"none", "claimed", "loaded"}, device : Devices \cup {0}, vmdev : VmDevs \cup {0}, dir : Dirs \cup {0}]
      BY <1>3, <1>6, <2>3
    <3>2. \A n \in Mps : mpt[n] \in [sb : {"none", "claimed", "loaded"}, device : Devices \cup {0},
                                     vmdev : VmDevs \cup {0}, dir : Dirs \cup {0}]
      BY <1>1 DEF MountTypes
    <3>3. QED BY <2>2, <3>1, <3>2
  <2>6. QED BY <2>2, <2>3, <2>4, <2>5
<1>8. pc' \in [Admins -> Places] /\ pc'[p] = "m_mutex" /\ \A q \in Admins \ {p} : pc'[q] = pc[q]
  BY <1>1, <1>5, MountGone DEF Places
<1>9. MountTypes'
  BY <1>1, <1>5, <1>6, <1>7, <1>8 DEF MountTypes
<1>10. /\ \A q \in Admins \ {p} : pc[q] \in Mounting => arg[q].mp # m
       /\ \A q \in Admins : pc[q] = "u_flush" => arg[q].mp # m
  <2>1. \A q \in Admins : pc[q] \in Mounting /\ arg[q].mp = m => q = p
    BY <1>1, <1>2, <1>3 DEF MountApart
  <2>2. QED BY <1>2, <1>3, <2>1, NotYetMounted
<1>11. MountArgs'
  <2>1. ASSUME NEW q \in Admins, q # p
        PROVE  AtEntry(q)'
    <3>1. pc'[q] = pc[q] /\ arg'[q] = arg[q] /\ AtEntry(q)
      BY <1>1, <1>5, <1>8, <2>1 DEF MountArgs
    <3>2. pc[q] \in Mounting \/ pc[q] = "u_flush" => mpt'[arg[q].mp] = mpt[arg[q].mp]
      BY <1>7, <1>10, <2>1, <3>1 DEF AtEntry
    <3>3. QED BY <1>5, <3>1, <3>2, EntryKept
  <2>2. AtEntry(p)'
    <3>1. AtEntry(p)
      BY <1>1 DEF MountArgs
    <3>2. arg' = arg /\ dirs' = dirs
      BY <1>5
    <3>3. mpt'[arg[p].mp].device = arg[p].device /\ mpt'[arg[p].mp].dir = 0 /\ mpt'[arg[p].mp].sb = "loaded"
      BY <1>2, <1>7
    <3>4. QED BY <1>3, <1>8, <3>1, <3>2, <3>3 DEF AtEntry, Mounting
  <2>3. QED BY <2>1, <2>2 DEF MountArgs
<1>12. \A q \in Admins : pc'[q] \in Mounting <=> pc[q] \in Mounting
  BY <1>3, <1>8 DEF Mounting
<1>13. MountApart'
  BY <1>1, <1>5, <1>12 DEF MountApart
<1>14. MountMutexHeld'
  BY <1>1, <1>5, <1>8 DEF MountMutexHeld, Holding
<1>15. \A q \in Admins : pc'[q] = "u_flush" <=> pc[q] = "u_flush"
  BY <1>3, <1>8
<1>16. MountEntries'
  <2>1. /\ \A n \in Mps : mpt'[n].sb # "none" => mpt'[n].device \in Devices
        /\ \A n \in Mps : mpt'[n].sb = "claimed" => mpt'[n].dir = 0
    BY <1>1, <1>3, <1>7 DEF MountEntries
  <2>2. \A n \in Mps : mpt'[n].device = mpt[n].device /\ (mpt'[n].sb # "none" <=> mpt[n].sb # "none")
    BY <1>3, <1>7
  <2>3. \A n, k \in Mps : mpt'[n].sb # "none" /\ mpt'[k].sb # "none" /\ mpt'[n].device = mpt'[k].device => n = k
    BY <1>1, <2>2 DEF MountEntries
  <2>4. ASSUME NEW n \in Mps, mpt'[n].sb = "loaded"
        PROVE  \/ \E q \in Admins : pc'[q] = "u_flush" /\ arg'[q].mp = n
               \/ mpt'[n].vmdev \in VmDevs /\ vmdevt'[mpt'[n].vmdev] = [in_use |-> TRUE, device |-> mpt'[n].device]
    <3>1. CASE n = m
      <4>1. mpt'[n].vmdev = v /\ mpt'[n].device = d
        BY <1>7, <3>1
      <4>2. QED BY <1>6, <4>1
    <3>2. CASE n # m
      <4>1. mpt'[n] = mpt[n] /\ mpt[n].sb = "loaded"
        BY <1>7, <2>4, <3>2
      <4>2. \/ \E q \in Admins : pc[q] = "u_flush" /\ arg[q].mp = n
            \/ mpt[n].vmdev \in VmDevs /\ vmdevt[mpt[n].vmdev] = [in_use |-> TRUE, device |-> mpt[n].device]
        BY <1>1, <4>1 DEF MountEntries
      <4>3. CASE mpt[n].vmdev \in VmDevs /\ vmdevt[mpt[n].vmdev] = [in_use |-> TRUE, device |-> mpt[n].device]
        <5>1. vmdevt[mpt[n].vmdev].in_use
          BY <4>3
        <5>2. QED BY <1>6, <4>1, <4>3, <5>1
      <4>4. QED BY <1>5, <1>15, <4>2, <4>3
    <3>3. QED BY <3>1, <3>2
  <2>5. QED BY <2>1, <2>3, <2>4 DEF MountEntries
<1>17. \A n \in Mps : Settled(n)' <=> Settled(n)
  <2>1. ~Settled(m) /\ ~Settled(m)'
    BY <1>3, <1>7 DEF Settled
  <2>2. ASSUME NEW n \in Mps, n # m PROVE Settled(n)' <=> Settled(n)
    BY <1>5, <1>7, <1>15, <2>2 DEF Settled
  <2>3. QED BY <2>1, <2>2
<1>18. \A n \in Mps : Settled(n) => mpt'[n] = mpt[n]
  BY <1>3, <1>7 DEF Settled
<1>19. MountSettled'
  BY <1>1, <1>5, <1>12, <1>17, <1>18 DEF MountSettled
<1>20. QED BY <1>9, <1>11, <1>13, <1>14, <1>16, <1>19 DEF MountInv

LEMMA MutexStep ==
  ASSUME MountInv, NEW p \in Admins, MountMutex(p)
  PROVE  MountInv'
<1>1. MountTypes /\ MountArgs /\ MountApart /\ MountMutexHeld /\ MountEntries /\ MountSettled
  BY DEF MountInv
<1>2. UNCHANGED <<mpt, minor, vmdevt, dirs, root, files, special, arg>> /\ mount_mutex' = 0 /\ mount_mutex = 1
      /\ Goto(p, "m_root") /\ pc[p] = "m_mutex"
  BY DEF MountMutex
<1>3. pc' \in [Admins -> Places] /\ pc'[p] = "m_root" /\ \A q \in Admins \ {p} : pc'[q] = pc[q]
  BY <1>1, <1>2, MountGone DEF Places
<1>4. MountTypes'
  BY <1>1, <1>2, <1>3 DEF MountTypes
<1>5. MountArgs'
  <2>1. ASSUME NEW q \in Admins, q # p PROVE AtEntry(q)'
    BY <1>1, <1>2, <1>3, <2>1 DEF MountArgs, AtEntry
  <2>2. AtEntry(p)'
    BY <1>1, <1>2, <1>3 DEF MountArgs, AtEntry, Mounting
  <2>3. QED BY <2>1, <2>2 DEF MountArgs
<1>6. \A q \in Admins : (pc'[q] \in Mounting <=> pc[q] \in Mounting) /\ (pc'[q] = "u_flush" <=> pc[q] = "u_flush")
  BY <1>2, <1>3 DEF Mounting
<1>7. MountApart'
  BY <1>1, <1>2, <1>6 DEF MountApart
<1>8. MountMutexHeld'
  BY <1>1, <1>2, <1>3 DEF MountMutexHeld, Holding
<1>9. MountEntries'
  BY <1>1, <1>2, <1>6 DEF MountEntries
<1>10. \A n \in Mps : Settled(n)' <=> Settled(n)
  BY <1>2, <1>6 DEF Settled
<1>11. MountSettled'
  BY <1>1, <1>2, <1>6, <1>10 DEF MountSettled
<1>12. QED BY <1>4, <1>5, <1>7, <1>8, <1>9, <1>11 DEF MountInv

LEMMA MountedStep ==
  ASSUME MountInv, NEW p \in Admins, Mounted(p)
  PROVE  MountInv'
<1>1. MountTypes /\ MountArgs /\ MountApart /\ MountMutexHeld /\ MountEntries /\ MountSettled
  BY DEF MountInv
<1>2. PICK m, i, d : m = arg[p].mp /\ i = arg[p].dir /\ d = arg[p].device
  OBVIOUS
<1>3. /\ pc[p] = "m_root" /\ pc[p] \in Mounting /\ m \in Mps /\ i \in Dirs /\ d \in Devices
      /\ mpt[m].sb = "loaded" /\ mpt[m].dir = 0 /\ mpt[m].device = d
      /\ dirs[i] = [nref |-> 1, mount_point |-> FALSE, busy |-> p]
  BY <1>1, <1>2 DEF MountArgs, AtEntry, Mounting, Mounted
<1>4. /\ root' = [root EXCEPT ![d] = @ + 1]
      /\ mpt' = [mpt EXCEPT ![m].dir = i]
      /\ dirs' = [dirs EXCEPT ![i].mount_point = TRUE, ![i].busy = 0]
      /\ mount_mutex' = 1 /\ End(p)
      /\ UNCHANGED <<minor, vmdevt, files, special>>
  BY <1>2 DEF Mounted
<1>5. /\ \A q \in Admins \ {p} : pc[q] \in Mounting => arg[q].mp # m /\ arg[q].dir # i
      /\ \A q \in Admins : pc[q] # "u_flush"
      /\ \A n \in Mps : Settled(n) => mpt[n].dir # i /\ n # m
  <2>1. \A q \in Admins : pc[q] \in Mounting /\ arg[q].mp = m => q = p
    BY <1>1, <1>2, <1>3 DEF MountApart
  <2>2. \A q \in Admins : pc[q] \in Mounting /\ arg[q].dir = i => q = p
    BY <1>1, <1>2, <1>3, DirsApart
  <2>3. \A q \in Admins : pc[q] \in Holding => q = p
    BY <1>1, <1>3 DEF MountMutexHeld, Holding
  <2>4. \A q \in Admins : pc[q] # "u_flush"
    BY <1>3, <2>3 DEF Holding
  <2>5. QED BY <1>2, <1>3, <2>1, <2>2, <2>4, NotYetMounted
<1>6. /\ mpt'[m].dir = i /\ mpt'[m].sb = "loaded" /\ mpt'[m].device = d /\ mpt'[m].vmdev = mpt[m].vmdev
      /\ \A n \in Mps : n # m => mpt'[n] = mpt[n]
      /\ mpt' \in [Mps -> [sb : {"none", "claimed", "loaded"}, device : Devices \cup {0},
                           vmdev : VmDevs \cup {0}, dir : Dirs \cup {0}]]
  <2>1. mpt[m] \in [sb : {"none", "claimed", "loaded"}, device : Devices \cup {0}, vmdev : VmDevs \cup {0}, dir : Dirs \cup {0}]
    BY <1>1, <1>3 DEF MountTypes
  <2>2. PICK r : r = [mpt[m] EXCEPT !.dir = i]
    OBVIOUS
  <2>3. /\ r \in [sb : {"none", "claimed", "loaded"}, device : Devices \cup {0}, vmdev : VmDevs \cup {0}, dir : Dirs \cup {0}]
        /\ r.dir = i /\ r.sb = "loaded" /\ r.device = d /\ r.vmdev = mpt[m].vmdev
    BY <1>3, <2>1, <2>2
  <2>4. mpt' = [mpt EXCEPT ![m] = r]
    BY <1>4, <2>2
  <2>5. QED BY <1>1, <1>3, <2>3, <2>4 DEF MountTypes
<1>7. /\ dirs'[i] = [nref |-> 1, mount_point |-> TRUE, busy |-> 0]
      /\ \A j \in Dirs : j # i => dirs'[j] = dirs[j]
      /\ dirs' \in [Dirs -> [nref : {0, 1}, mount_point : BOOLEAN, busy : Admins \cup {0}]]
  <2>1. dirs'[i] = [dirs[i] EXCEPT !.mount_point = TRUE, !.busy = 0] /\ \A j \in Dirs : j # i => dirs'[j] = dirs[j]
    BY <1>1, <1>3, <1>4 DEF MountTypes
  <2>2. dirs'[i] = [nref |-> 1, mount_point |-> TRUE, busy |-> 0]
    <3>1. dirs[i] \in [nref : {0, 1}, mount_point : BOOLEAN, busy : Admins \cup {0}]
      BY <1>1, <1>3 DEF MountTypes
    <3>2. dirs[i].nref = 1
      BY <1>3
    <3>3. QED BY <2>1, <3>1, <3>2
  <2>3. dirs' = [j \in Dirs |-> dirs'[j]]
    BY <1>1, <1>4 DEF MountTypes
  <2>4. \A j \in Dirs : dirs'[j] \in [nref : {0, 1}, mount_point : BOOLEAN, busy : Admins \cup {0}]
    <3>1. dirs'[i] \in [nref : {0, 1}, mount_point : BOOLEAN, busy : Admins \cup {0}]
      BY <2>2
    <3>2. \A j \in Dirs : dirs[j] \in [nref : {0, 1}, mount_point : BOOLEAN, busy : Admins \cup {0}]
      BY <1>1 DEF MountTypes
    <3>3. QED BY <2>1, <3>1, <3>2
  <2>5. QED BY <2>1, <2>2, <2>3, <2>4
<1>8. /\ pc' \in [Admins -> Places] /\ pc'[p] = "idle"
      /\ arg' \in [Admins -> [device : Devices \cup {0}, dir : Dirs \cup {0}, mp : Mps \cup {0}]]
      /\ \A q \in Admins \ {p} : pc'[q] = pc[q] /\ arg'[q] = arg[q]
  BY <1>1, <1>4, MountEnded
<1>9. root' \in [Devices -> {0, 1}] /\ root'[d] = 1 /\ \A e \in Devices : e # d => root'[e] = root[e]
  <2>1. root[d] = 0
    <3>1. ASSUME root[d] = 1 PROVE FALSE
      <4>1. PICK n \in Mps : Settled(n) /\ mpt[n].device = d
        BY <1>1, <1>3, <3>1 DEF MountSettled
      <4>2. n = m
        BY <1>1, <1>3, <4>1 DEF MountEntries, Settled
      <4>3. QED BY <1>5, <4>1, <4>2
    <3>2. QED BY <1>1, <1>3, <3>1 DEF MountTypes
  <2>2. QED BY <1>1, <1>3, <1>4, <2>1 DEF MountTypes
<1>10. MountTypes'
  BY <1>1, <1>4, <1>6, <1>7, <1>8, <1>9 DEF MountTypes
<1>11. MountArgs'
  <2>1. ASSUME NEW q \in Admins, q # p
        PROVE  AtEntry(q)'
    <3>1. pc'[q] = pc[q] /\ arg'[q] = arg[q] /\ AtEntry(q)
      BY <1>1, <1>8, <2>1 DEF MountArgs
    <3>2. ASSUME pc[q] \in Mounting
          PROVE  mpt'[arg[q].mp] = mpt[arg[q].mp] /\ dirs'[arg[q].dir] = dirs[arg[q].dir]
      BY <1>5, <1>6, <1>7, <2>1, <3>1, <3>2 DEF AtEntry
    <3>3. QED BY <1>5, <3>1, <3>2, EntryKept
  <2>2. AtEntry(p)'
    BY <1>8 DEF AtEntry, Mounting
  <2>3. QED BY <2>1, <2>2 DEF MountArgs
<1>12. MountApart'
  BY <1>1, <1>8 DEF MountApart, Mounting
<1>13. MountMutexHeld'
  BY <1>1, <1>3, <1>4, <1>8 DEF MountMutexHeld, Holding
<1>14. \A q \in Admins : pc'[q] # "u_flush"
  BY <1>5, <1>8
<1>15. MountEntries'
  <2>1. \A n \in Mps : mpt'[n].device = mpt[n].device /\ mpt'[n].sb = mpt[n].sb /\ mpt'[n].vmdev = mpt[n].vmdev
    BY <1>3, <1>6
  <2>2. \A n \in Mps : mpt'[n].sb = "claimed" => mpt'[n].dir = 0
    BY <1>1, <1>6 DEF MountEntries
  <2>3. QED BY <1>1, <1>4, <1>5, <2>1, <2>2 DEF MountEntries
<1>16. Settled(m)' /\ \A n \in Mps : n # m => (Settled(n)' <=> Settled(n))
  <2>1. i # 0
    BY <1>3, MountsAssumption
  <2>2. Settled(m)'
    BY <1>6, <1>14, <2>1 DEF Settled
  <2>3. ASSUME NEW n \in Mps, n # m PROVE Settled(n)' <=> Settled(n)
    BY <1>5, <1>6, <1>14, <2>3 DEF Settled
  <2>4. QED BY <2>2, <2>3
<1>17. \A n \in Mps : Settled(n) => n # m /\ mpt'[n] = mpt[n] /\ mpt[n].dir \in Dirs \ {i} /\ Settled(n)'
  <2>1. ASSUME NEW n \in Mps, Settled(n) PROVE n # m /\ mpt[n].dir \in Dirs \ {i}
    BY <1>1, <1>5, <2>1 DEF MountTypes, Settled
  <2>2. QED BY <1>6, <1>16, <2>1
<1>18. MountSettled'
  <2>1. ASSUME NEW n \in Mps, Settled(n)'
        PROVE  dirs'[mpt'[n].dir].mount_point /\ dirs'[mpt'[n].dir].nref = 1 /\ root'[mpt'[n].device] = 1
    <3>1. CASE n = m
      BY <1>6, <1>7, <1>9, <3>1
    <3>2. CASE n # m
      <4>1. Settled(n)
        BY <1>16, <2>1, <3>2
      <4>2. mpt'[n] = mpt[n] /\ mpt[n].dir \in Dirs \ {i} /\ mpt[n].device \in Devices
        BY <1>1, <1>17, <4>1 DEF MountEntries, Settled
      <4>3. QED BY <1>1, <1>7, <1>9, <4>1, <4>2 DEF MountSettled
    <3>3. QED BY <3>1, <3>2
  <2>2. ASSUME NEW j \in Dirs, dirs'[j].nref = 1
        PROVE  \/ \E n \in Mps : Settled(n)' /\ mpt'[n].dir = j
               \/ \E q \in Admins : pc'[q] \in Mounting /\ arg'[q].dir = j
    <3>1. CASE j = i
      BY <1>3, <1>6, <1>16, <3>1
    <3>2. CASE j # i
      <4>1. dirs[j].nref = 1
        BY <1>7, <2>2, <3>2
      <4>2. CASE \E n \in Mps : Settled(n) /\ mpt[n].dir = j
        BY <1>17, <4>2
      <4>3. CASE \E q \in Admins : pc[q] \in Mounting /\ arg[q].dir = j
        BY <1>2, <1>8, <3>2, <4>3
      <4>4. QED BY <1>1, <4>1, <4>2, <4>3 DEF MountSettled
    <3>3. QED BY <3>1, <3>2
  <2>3. ASSUME NEW n \in Mps, NEW k \in Mps, Settled(n)', Settled(k)', mpt'[n].dir = mpt'[k].dir PROVE n = k
    <3>1. CASE n # m /\ k # m
      BY <1>1, <1>16, <1>17, <2>3, <3>1 DEF MountSettled
    <3>2. CASE n = m \/ k = m
      BY <1>6, <1>16, <1>17, <2>3, <3>2
    <3>3. QED BY <3>1, <3>2
  <2>4. ASSUME NEW e \in Devices, root'[e] = 1 \/ files'[e] > 0
        PROVE  \E n \in Mps : Settled(n)' /\ mpt'[n].device = e
    <3>1. CASE e = d
      BY <1>3, <1>6, <1>16, <3>1
    <3>2. CASE e # d
      BY <1>1, <1>4, <1>9, <1>17, <2>4, <3>2 DEF MountSettled
    <3>3. QED BY <3>1, <3>2
  <2>5. ASSUME NEW j \in Dirs, dirs'[j].mount_point PROVE \E n \in Mps : Settled(n)' /\ mpt'[n].dir = j
    <3>1. CASE j = i
      BY <1>3, <1>6, <1>16, <3>1
    <3>2. CASE j # i
      BY <1>1, <1>7, <1>17, <2>5, <3>2 DEF MountSettled
    <3>3. QED BY <3>1, <3>2
  <2>6. QED BY <2>1, <2>2, <2>3, <2>4, <2>5 DEF MountSettled
<1>19. QED BY <1>10, <1>11, <1>12, <1>13, <1>15, <1>18 DEF MountInv

LEMMA LeaveStep ==
  ASSUME MountInv, NEW p \in Admins, UmountMutex(p)
  PROVE  MountInv'
<1>1. MountTypes /\ MountArgs /\ MountApart /\ MountMutexHeld /\ MountEntries /\ MountSettled
  BY DEF MountInv
<1>2. PICK m, d : m = arg[p].mp /\ d = arg[p].device
  OBVIOUS
<1>3. PICK i, v : i = mpt[m].dir /\ v = mpt[m].vmdev
  OBVIOUS
<1>4. /\ pc[p] = "u_mutex" /\ mount_mutex = 1 /\ mount_mutex' = 0
      /\ mpt[m].sb = "loaded" /\ mpt[m].device = d /\ i # 0 /\ ~fs_in_use(d)
      /\ dirs' = [dirs EXCEPT ![i].mount_point = FALSE, ![i].nref = @ - 1, ![i].busy = 0]
      /\ release_vmdev(v) /\ root' = [root EXCEPT ![d] = @ - 1] /\ Goto(p, "u_flush")
      /\ UNCHANGED <<mpt, minor, files, special, arg>>
  BY <1>2, <1>3 DEF UmountMutex, Wrong
<1>5. m \in Mps /\ d \in Devices
  BY <1>1, <1>2, <1>4 DEF MountArgs, AtEntry
<1>6. i \in Dirs
  BY <1>1, <1>3, <1>4, <1>5 DEF MountTypes
<1>7. \A q \in Admins : pc[q] # "u_flush"
  BY <1>1, <1>4 DEF MountMutexHeld, Holding
<1>8. Settled(m)
  BY <1>3, <1>4, <1>7 DEF Settled
<1>9. /\ dirs[i].mount_point /\ dirs[i].nref = 1 /\ root[d] = 1 /\ files[d] = 0
      /\ v \in VmDevs /\ vmdevt[v] = [in_use |-> TRUE, device |-> d]
  <2>1. dirs[i].mount_point /\ dirs[i].nref = 1 /\ root[d] = 1
    BY <1>1, <1>3, <1>4, <1>5, <1>8 DEF MountSettled
  <2>2. v \in VmDevs /\ vmdevt[v] = [in_use |-> TRUE, device |-> d]
    BY <1>1, <1>3, <1>4, <1>5, <1>7 DEF MountEntries
  <2>3. files[d] = 0
    BY <1>1, <1>4, <1>5 DEF MountTypes, fs_in_use
  <2>4. QED BY <2>1, <2>2, <2>3
<1>10. /\ dirs'[i] = [nref |-> 0, mount_point |-> FALSE, busy |-> 0]
       /\ \A j \in Dirs : j # i => dirs'[j] = dirs[j]
       /\ dirs' \in [Dirs -> [nref : {0, 1}, mount_point : BOOLEAN, busy : Admins \cup {0}]]
  <2>1. dirs[i] \in [nref : {0, 1}, mount_point : BOOLEAN, busy : Admins \cup {0}]
    BY <1>1, <1>6 DEF MountTypes
  <2>2. dirs'[i] = [dirs[i] EXCEPT !.mount_point = FALSE, !.nref = @ - 1, !.busy = 0] /\ \A j \in Dirs : j # i => dirs'[j] = dirs[j]
    BY <1>1, <1>4, <1>6 DEF MountTypes
  <2>3. dirs'[i] = [nref |-> 0, mount_point |-> FALSE, busy |-> 0]
    <3>1. dirs'[i] = [nref |-> dirs[i].nref - 1, mount_point |-> FALSE, busy |-> 0]
      BY <2>1, <2>2
    <3>2. dirs[i].nref - 1 = 0
      BY <1>9
    <3>3. QED BY <3>1, <3>2
  <2>4. dirs' = [j \in Dirs |-> dirs'[j]]
    BY <1>1, <1>4 DEF MountTypes
  <2>5. \A j \in Dirs : dirs'[j] \in [nref : {0, 1}, mount_point : BOOLEAN, busy : Admins \cup {0}]
    <3>1. dirs'[i] \in [nref : {0, 1}, mount_point : BOOLEAN, busy : Admins \cup {0}]
      BY <2>3
    <3>2. \A j \in Dirs : dirs[j] \in [nref : {0, 1}, mount_point : BOOLEAN, busy : Admins \cup {0}]
      BY <1>1 DEF MountTypes
    <3>3. QED BY <2>2, <3>1, <3>2
  <2>6. QED BY <2>2, <2>3, <2>4, <2>5
<1>11. root' \in [Devices -> {0, 1}] /\ root'[d] = 0 /\ \A e \in Devices : e # d => root'[e] = root[e]
  BY <1>1, <1>4, <1>5, <1>9 DEF MountTypes
<1>12. /\ vmdevt' \in [VmDevs -> [in_use : BOOLEAN, device : Devices \cup {0}]]
       /\ \A u \in VmDevs : u # v => vmdevt'[u] = vmdevt[u]
  <2>1. vmdevt \in [VmDevs -> [in_use : BOOLEAN, device : Devices \cup {0}]]
    BY <1>1 DEF MountTypes
  <2>2. vmdevt' = [vmdevt EXCEPT ![v].in_use = FALSE] /\ v \in VmDevs
    BY <1>4, <1>9 DEF release_vmdev
  <2>3. QED BY ONLY <2>1, <2>2
<1>13. pc' \in [Admins -> Places] /\ pc'[p] = "u_flush" /\ \A q \in Admins \ {p} : pc'[q] = pc[q]
  BY <1>1, <1>4, MountGone DEF Places
<1>14. MountTypes'
  BY <1>1, <1>4, <1>10, <1>11, <1>12, <1>13 DEF MountTypes
<1>15. \A q \in Admins : pc[q] \in Mounting => arg[q].dir # i
  BY <1>9, NotYetMounted
<1>16. MountArgs'
  <2>1. ASSUME NEW q \in Admins, q # p PROVE AtEntry(q)'
    <3>1. pc'[q] = pc[q] /\ arg'[q] = arg[q] /\ AtEntry(q) /\ mpt' = mpt
      BY <1>1, <1>4, <1>13, <2>1 DEF MountArgs
    <3>2. pc[q] \in Mounting => dirs'[arg[q].dir] = dirs[arg[q].dir]
      BY <1>10, <1>15, <3>1 DEF AtEntry
    <3>3. QED BY <1>7, <3>1, <3>2, EntryKept
  <2>2. AtEntry(p)'
    <3>1. arg' = arg /\ mpt' = mpt
      BY <1>4
    <3>2. ~dirs'[i].mount_point
      BY <1>10
    <3>3. QED BY <1>2, <1>3, <1>4, <1>5, <1>6, <1>13, <3>1, <3>2 DEF AtEntry, Mounting
  <2>3. QED BY <2>1, <2>2 DEF MountArgs
<1>17. \A q \in Admins : pc'[q] \in Mounting <=> pc[q] \in Mounting
  BY <1>4, <1>13 DEF Mounting
<1>18. MountApart'
  BY <1>1, <1>4, <1>17 DEF MountApart
<1>19. MountMutexHeld'
  BY <1>1, <1>4, <1>13 DEF MountMutexHeld, Holding
<1>20. MountEntries'
  <2>1. ASSUME NEW n \in Mps, n # m, mpt[n].sb = "loaded"
        PROVE  mpt[n].vmdev \in VmDevs /\ vmdevt'[mpt[n].vmdev] = [in_use |-> TRUE, device |-> mpt[n].device]
    <3>1. mpt[n].vmdev \in VmDevs /\ vmdevt[mpt[n].vmdev] = [in_use |-> TRUE, device |-> mpt[n].device]
      BY <1>1, <1>7, <2>1 DEF MountEntries
    <3>2. mpt[n].device # d
      BY <1>1, <1>4, <1>5, <2>1 DEF MountEntries
    <3>3. vmdevt[mpt[n].vmdev].device # vmdevt[v].device
      BY <1>9, <3>1, <3>2
    <3>4. QED BY <1>12, <3>1, <3>3
  <2>2. pc'[p] = "u_flush" /\ arg'[p].mp = m
    BY <1>2, <1>4, <1>13
  <2>3. QED BY <1>1, <1>4, <2>1, <2>2 DEF MountEntries
<1>21. ~Settled(m)' /\ \A n \in Mps : n # m => (Settled(n)' <=> Settled(n))
  <2>1. arg' = arg /\ mpt' = mpt
    BY <1>4
  <2>2. \A q \in Admins : pc'[q] = "u_flush" <=> q = p
    BY <1>7, <1>13
  <2>3. QED BY <1>2, <1>7, <2>1, <2>2 DEF Settled
<1>22. ASSUME NEW n \in Mps, Settled(n), n # m
       PROVE  Settled(n)' /\ mpt[n].dir \in Dirs \ {i} /\ mpt[n].device \in Devices \ {d}
  <2>1. mpt[n].dir # i
    BY <1>1, <1>3, <1>5, <1>8, <1>22 DEF MountSettled
  <2>2. mpt[n].device # d
    BY <1>1, <1>4, <1>5, <1>22 DEF MountEntries, Settled
  <2>3. mpt[n].dir \in Dirs /\ mpt[n].device \in Devices
    BY <1>1, <1>22 DEF MountTypes, MountEntries, Settled
  <2>4. QED BY <1>21, <1>22, <2>1, <2>2, <2>3
<1>23. MountSettled'
  <2>1. ASSUME NEW n \in Mps, Settled(n)'
        PROVE  Settled(n) /\ dirs'[mpt[n].dir].mount_point /\ dirs'[mpt[n].dir].nref = 1 /\ root'[mpt[n].device] = 1
    <3>1. Settled(n) /\ n # m
      BY <1>21, <2>1
    <3>2. mpt[n].dir \in Dirs \ {i} /\ mpt[n].device \in Devices \ {d}
      BY <1>22, <3>1
    <3>3. QED BY <1>1, <1>10, <1>11, <3>1, <3>2 DEF MountSettled
  <2>2. ASSUME NEW j \in Dirs, dirs'[j].nref = 1
        PROVE  \/ \E n \in Mps : Settled(n)' /\ mpt[n].dir = j
               \/ \E q \in Admins : pc'[q] \in Mounting /\ arg[q].dir = j
    <3>1. j # i /\ dirs[j].nref = 1
      BY <1>10, <2>2
    <3>2. CASE \E n \in Mps : Settled(n) /\ mpt[n].dir = j
      BY <1>3, <1>22, <3>1, <3>2
    <3>3. CASE \E q \in Admins : pc[q] \in Mounting /\ arg[q].dir = j
      BY <1>17, <3>3
    <3>4. QED BY <1>1, <3>1, <3>2, <3>3 DEF MountSettled
  <2>3. ASSUME NEW e \in Devices, root'[e] = 1 \/ files[e] > 0
        PROVE  \E n \in Mps : Settled(n)' /\ mpt[n].device = e
    <3>1. e # d
      BY <1>9, <1>11, <2>3
    <3>2. PICK n \in Mps : Settled(n) /\ mpt[n].device = e
      BY <1>1, <1>11, <2>3, <3>1 DEF MountSettled
    <3>3. QED BY <1>4, <1>22, <3>1, <3>2
  <2>4. ASSUME NEW j \in Dirs, dirs'[j].mount_point PROVE \E n \in Mps : Settled(n)' /\ mpt[n].dir = j
    <3>1. j # i /\ dirs[j].mount_point
      BY <1>10, <2>4
    <3>2. PICK n \in Mps : Settled(n) /\ mpt[n].dir = j
      BY <1>1, <3>1 DEF MountSettled
    <3>3. QED BY <1>3, <1>22, <3>1, <3>2
  <2>5. \A n, k \in Mps : Settled(n)' /\ Settled(k)' /\ mpt[n].dir = mpt[k].dir => n = k
    BY <1>1, <2>1 DEF MountSettled
  <2>6. mpt' = mpt /\ files' = files /\ arg' = arg
    BY <1>4
  <2>7. QED BY <2>1, <2>2, <2>3, <2>4, <2>5, <2>6 DEF MountSettled
<1>24. QED BY <1>14, <1>16, <1>18, <1>19, <1>20, <1>23 DEF MountInv

LEMMA FlushStep ==
  ASSUME MountInv, NEW p \in Admins, UmountFlush(p)
  PROVE  MountInv'
<1>1. MountTypes /\ MountArgs /\ MountApart /\ MountMutexHeld /\ MountEntries /\ MountSettled
  BY DEF MountInv
<1>2. PICK m, l : m = arg[p].mp /\ l = (IF can_close(arg[p].device) THEN "u_close" ELSE "u_sync")
  OBVIOUS
<1>3. /\ pc[p] = "u_flush" /\ mpt' = [mpt EXCEPT ![m].sb = "none"] /\ Goto(p, l)
      /\ UNCHANGED <<minor, vmdevt, dirs, root, files, special, mount_mutex, arg>>
  BY <1>2 DEF UmountFlush
<1>4. l \in Places /\ l \in Holding /\ l \notin Mounting /\ l # "u_flush" /\ l # "u_mutex"
  BY <1>2 DEF Places, Holding, Mounting
<1>5. m \in Mps /\ mpt[m].sb = "loaded" /\ mpt[m].dir \in Dirs
  BY <1>1, <1>2, <1>3 DEF MountArgs, AtEntry
<1>6. /\ mpt'[m].sb = "none" /\ \A n \in Mps : n # m => mpt'[n] = mpt[n]
      /\ mpt' \in [Mps -> [sb : {"none", "claimed", "loaded"}, device : Devices \cup {0},
                           vmdev : VmDevs \cup {0}, dir : Dirs \cup {0}]]
  <2>1. PICK r : r = [mpt[m] EXCEPT !.sb = "none"]
    OBVIOUS
  <2>2. mpt[m] \in [sb : {"none", "claimed", "loaded"}, device : Devices \cup {0}, vmdev : VmDevs \cup {0}, dir : Dirs \cup {0}]
    BY <1>1, <1>5 DEF MountTypes
  <2>3. /\ r \in [sb : {"none", "claimed", "loaded"}, device : Devices \cup {0}, vmdev : VmDevs \cup {0}, dir : Dirs \cup {0}]
        /\ r.sb = "none"
    BY <2>1, <2>2
  <2>4. mpt' = [mpt EXCEPT ![m] = r]
    BY <1>3, <2>1
  <2>5. QED BY <1>1, <1>5, <2>3, <2>4 DEF MountTypes
<1>7. pc' \in [Admins -> Places] /\ pc'[p] = l /\ \A q \in Admins \ {p} : pc'[q] = pc[q]
  BY <1>1, <1>3, <1>4, MountGone
<1>8. MountTypes'
  BY <1>1, <1>3, <1>6, <1>7 DEF MountTypes
<1>9. \A q \in Admins : pc[q] = "u_flush" => q = p
  BY <1>1, <1>3 DEF MountMutexHeld, Holding
<1>10. \A q \in Admins : pc[q] \in Mounting => arg[q].mp # m
  BY <1>2, <1>3, NotYetMounted
<1>11. MountArgs'
  <2>1. ASSUME NEW q \in Admins, q # p PROVE AtEntry(q)'
    <3>1. pc'[q] = pc[q] /\ arg'[q] = arg[q] /\ AtEntry(q) /\ dirs' = dirs
      BY <1>1, <1>3, <1>7, <2>1 DEF MountArgs
    <3>2. pc[q] # "u_flush"
      BY <1>9, <2>1
    <3>3. pc[q] \in Mounting => mpt'[arg[q].mp] = mpt[arg[q].mp]
      BY <1>6, <1>10, <3>1 DEF AtEntry
    <3>4. QED BY <3>1, <3>2, <3>3, EntryKept
  <2>2. AtEntry(p)'
    <3>1. arg'[p].device \in Devices
      BY <1>1, <1>3 DEF MountArgs, AtEntry
    <3>2. QED BY <1>4, <1>7, <3>1 DEF AtEntry
  <2>3. QED BY <2>1, <2>2 DEF MountArgs
<1>12. \A q \in Admins : (pc'[q] \in Mounting <=> pc[q] \in Mounting) /\ pc'[q] # "u_flush"
  BY <1>3, <1>4, <1>7, <1>9 DEF Mounting
<1>13. MountApart'
  BY <1>1, <1>3, <1>12 DEF MountApart
<1>14. MountMutexHeld'
  BY <1>1, <1>3, <1>7 DEF MountMutexHeld, Holding
<1>15. MountEntries'
  <2>1. /\ \A n \in Mps : mpt'[n].sb # "none" => mpt'[n].device \in Devices
        /\ \A n \in Mps : mpt'[n].sb = "claimed" => mpt'[n].dir = 0
        /\ \A n, k \in Mps : mpt'[n].sb # "none" /\ mpt'[k].sb # "none" /\ mpt'[n].device = mpt'[k].device => n = k
    BY <1>1, <1>6 DEF MountEntries
  <2>2. ASSUME NEW n \in Mps, mpt'[n].sb = "loaded"
        PROVE  mpt'[n].vmdev \in VmDevs /\ vmdevt'[mpt'[n].vmdev] = [in_use |-> TRUE, device |-> mpt'[n].device]
    <3>1. n # m /\ mpt'[n] = mpt[n] /\ mpt[n].sb = "loaded"
      BY <1>6, <2>2
    <3>2. \A q \in Admins : ~(pc[q] = "u_flush" /\ arg[q].mp = n)
      BY <1>2, <1>9, <3>1
    <3>3. mpt[n].vmdev \in VmDevs /\ vmdevt[mpt[n].vmdev] = [in_use |-> TRUE, device |-> mpt[n].device]
      BY <1>1, <3>1, <3>2 DEF MountEntries
    <3>4. QED BY <1>3, <3>1, <3>3
  <2>3. QED BY <2>1, <2>2 DEF MountEntries
<1>16. \A n \in Mps : Settled(n)' <=> Settled(n)
  <2>1. ~Settled(m) /\ ~Settled(m)'
    BY <1>2, <1>3, <1>6 DEF Settled
  <2>2. ASSUME NEW n \in Mps, n # m PROVE Settled(n)' <=> Settled(n)
    <3>1. \A q \in Admins : pc[q] = "u_flush" => arg[q].mp # n
      BY <1>2, <1>9, <2>2
    <3>2. QED BY <1>6, <1>12, <2>2, <3>1 DEF Settled
  <2>3. QED BY <2>1, <2>2
<1>17. \A n \in Mps : Settled(n) => mpt'[n] = mpt[n]
  BY <1>2, <1>3, <1>6 DEF Settled
<1>18. MountSettled'
  BY <1>1, <1>3, <1>12, <1>16, <1>17 DEF MountSettled
<1>19. QED BY <1>8, <1>11, <1>13, <1>14, <1>15, <1>18 DEF MountInv

LEMMA MountNext_Inv ==
  ASSUME MountInv, [MountNext]_mVars
  PROVE  MountInv'
<1>1. CASE UNCHANGED mVars
  BY <1>1 DEF mVars, MountInv, MountTypes, MountArgs, AtEntry, MountApart, MountMutexHeld, MountEntries, MountSettled, Settled
<1>2. ASSUME NEW p \in Admins, MountCall(p, MountCalls)
      PROVE  MountInv'
  <2>1. ASSUME NEW d \in Devices, NEW i \in Dirs, MountBusy(p, d, i) \/ MountRefused(p, d, i)
        PROVE  MountInv'
    <3>1. pc[p] = "idle"
      BY <2>1 DEF MountBusy, MountRefused
    <3>2. QED BY <2>1, <3>1, RefusedStep
  <2>2. ASSUME NEW d \in Devices, NEW i \in Dirs, MountClaim(p, d, i) PROVE MountInv'
    BY <2>2, ClaimStep
  <2>3. ASSUME NEW d \in Devices, UmountCall(p, d) PROVE MountInv'
    BY <2>3, UmountCallStep
  <2>4. CASE (\E i \in Dirs : OpenFile(p, i)) \/ \E d \in Devices : CloseFile(p, d)
    BY <2>4, FileStep
  <2>5. ASSUME NEW d \in Devices, blk_open(p, d) \/ blk_close(p, d) PROVE MountInv'
    BY <2>5, SpecialStep
  <2>6. CASE sys_swapon(p)
    BY <2>6, SwapOnStep
  <2>7. QED BY <1>2, <2>1, <2>2, <2>3, <2>4, <2>5, <2>6 DEF MountCall
<1>3. ASSUME NEW p \in Admins, MountStep(p)
      PROVE  MountInv'
  <2>1. CASE MountUnread(p) \/ MountNoVmDev(p)
    BY <2>1, FailStep DEF MountUnread, MountNoVmDev
  <2>2. CASE MountRead(p)
    BY <2>2, ReadStep
  <2>3. CASE MountMutex(p)
    BY <2>3, MutexStep
  <2>4. CASE Mounted(p)
    BY <2>4, MountedStep
  <2>5. CASE UmountMutex(p)
    BY <2>5, LeaveStep
  <2>6. CASE UmountFlush(p)
    BY <2>6, FlushStep
  <2>7. CASE UmountWrong(p) \/ UmountClose(p) \/ UmountSync(p) \/ BlkClosed(p)
    BY <2>7, ClosedStep
  <2>8. QED BY <1>3, <2>1, <2>2, <2>3, <2>4, <2>5, <2>6, <2>7 DEF MountStep, sys_mount, sys_umount
<1>4. QED BY <1>1, <1>2, <1>3 DEF MountNext

\* Whatever processes mount, unmount, open, close and swap on, in any order, and wherever
\* one sleeps in sys_mount(), sys_umount() (fs/mount.c) or blk_close() (fs/device.c): entries,
\* directories, roots and devices of the memory manager name each other.
THEOREM MountsAlwaysExact == MountSpec => []MountsExact
<1>1. MountInit => MountInv
  BY MountInit_Inv
<1>2. MountInv /\ [MountNext]_mVars => MountInv'
  BY MountNext_Inv
<1>3. MountInv => MountsExact
  BY MountInv_Exact
<1>4. QED BY <1>1, <1>2, <1>3, PTL DEF MountSpec
=============================================================================
