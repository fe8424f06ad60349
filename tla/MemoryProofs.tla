---------------------------- MODULE MemoryProofs ----------------------------
(***************************************************************************)
(* The counts of pages and swap blocks are the numbers of their uses, and  *)
(* nobody waits for pages that are there, whatever the processes, the      *)
(* memory and the swap device.                                             *)
(***************************************************************************)
EXTENDS Memory, Lists, FiniteSetTheorems, TLAPS

(***************************************************************************)
(* Memory and its uses: h says which page each place has, g which block.   *)
(***************************************************************************)
Types   == {PAGE_DZ, PAGE_FILE, PAGE_SWAP}
Values  == Int \X Int
FileKeys == {FileKey(f, v) : f \in Binaries, v \in VPages}
Keys     == {None} \cup Swap \cup FileKeys
Descriptors == [count : Nat, key : Keys, hashed : BOOLEAN, type : Types]
Memories == [pg : [Pages -> Descriptors],
             data : [Pages -> Values], disk : [Swap -> Values], free : Seq(Pages),
             swap : [bitmap : [Swap -> Nat], free : Int, latest : Int], swap_map : 0..NPages]

Has(f, S, x) == {s \in S : f[s] = x}

PagesBalanced(x, h) ==
    /\ \A p \in Pages : /\ x.pg[p].count = Cardinality(Has(h, Places, p))
                        /\ x.pg[p].count = 0 <=> p \in Range(x.free)
    /\ IsInjective(x.free)

VPlaces == Procs \X VPages
BlocksBalanced(x, g) ==
    /\ \A b \in Swap : x.swap.bitmap[b] = Cardinality(Has(g, VPlaces, b))
    /\ x.swap.latest # -1 => x.swap.free = Cardinality(FreeBlocks(x))
    /\ x.swap.latest = -1 => /\ x.swap.free = 0 /\ x.swap_map = 0
                             /\ \A s \in VPlaces : g[s] \notin Swap
                             /\ \A p \in Pages : x.pg[p].key \notin Swap

\* A block is found in one page at most, and the type of a page tells the device.
Cached(x) ==
    /\ \A p \in Pages : /\ x.pg[p].hashed => x.pg[p].key # None /\ x.pg[p].type # PAGE_DZ
                        /\ IF x.pg[p].type = PAGE_SWAP THEN x.pg[p].key \in Swap \cup {None}
                                                       ELSE x.pg[p].key \notin Swap
    /\ \A p, r \in Pages : x.pg[p].hashed /\ x.pg[r].hashed /\ x.pg[p].key = x.pg[r].key => p = r

Sound(x, h, g) == x \in Memories /\ PagesBalanced(x, h) /\ BlocksBalanced(x, g) /\ Cached(x)

Holding == [place \in Places |-> Holds(place)]
Blocks  == [s \in VPlaces |-> BlockOf(u_area[s[1]], s[2])]

(***************************************************************************)
(* The invariant.                                                          *)
(***************************************************************************)
Entries   == [present : BOOLEAN, page : 0..NPages, rw : BOOLEAN, busy : BOOLEAN, type : Types, key : Keys]
Reserving == {"table", "fill", "copy", "fork", "exec_args", "exec_image", "exec_stack"}
Areas     == [state : {"unused", "alive", "zombie"}, pid : Int, prog : Binaries \cup {0},
              kernel : [{1, 2} -> 0..NPages], tables : [Tables -> 0..NPages], pgtbl : [VPages -> Entries],
              swapable : BOOLEAN, brk : BOOLEAN, busyblock : Keys,
              pc : {"user", "fault", "load"} \cup Reserving, v : VPages, page : 0..NPages,
              child : Procs \cup {0}, mem : [VPages -> Values]]

Swappers  == [pc : {"scan", "save", "asleep", "stale"}, proc : Procs \cup {0}, pid : Int, table : 0..NPages,
              page : 0..NPages, block : Swap \cup {None}]
BinaryFiles == [version : Nat, newer : BOOLEAN, write_denied : BOOLEAN]

TypeOK ==
    /\ m \in Memories
    /\ u_area \in [Procs -> Areas]
    /\ waits \in [Procs -> Procs \cup {Nothing, GetPage}]
    /\ sw \in Swappers
    /\ binary \in [Binaries -> BinaryFiles]
    /\ cpu \in Procs \cup {0}

\* An entry of a page table; and the page it maps.
EntryOK(e) ==
    IF e.present THEN e.page # 0
    ELSE e.page = 0 /\ (e.type = PAGE_DZ <=> e.key = None) /\ (e.type = PAGE_SWAP <=> e.key \in Swap)
Plain(x, p) == x.pg[p].key \in Swap \cup {None}
Known(x, p) == (x.pg[p].type = PAGE_DZ => x.pg[p].key = None) /\ (x.pg[p].type = PAGE_FILE => x.pg[p].key # None)

NoMemory(u) == (\A v \in VPages : u.pgtbl[v] = Empty) /\ (\A t \in Tables : u.tables[t] = 0)

\* A process inside a call.
Frame(u) ==
    /\ u.state # "alive" => u.pc = "user" /\ NoMemory(u)
    /\ IF u.state = "unused" THEN u.kernel = <<0, 0>> ELSE u.kernel[1] # 0 /\ u.kernel[2] # 0
    /\ \A v \in VPages : EntryOK(u.pgtbl[v])
    /\ u.page # 0 <=> u.pc \in {"exec_image", "exec_stack"}
    /\ u.child # 0 <=> u.pc = "fork"
    /\ u.pc \notin {"fill", "load"} => u.busyblock = None
    /\ u.pc = "table" => u.tables[TableOf(u.v)] = 0
    /\ u.pc = "fill" => ~u.pgtbl[u.v].present /\ u.busyblock = u.pgtbl[u.v].key
    /\ u.pc = "load" => u.pgtbl[u.v].present /\ u.pgtbl[u.v].busy /\ u.busyblock # None
    /\ u.pc = "copy" => u.pgtbl[u.v].present /\ u.pgtbl[u.v].busy
    /\ u.pc \in {"exec_args", "exec_image", "exec_stack"} => u.prog \in Binaries
    /\ u.pc = "exec_image" => NoMemory(u)
    /\ u.pc = "exec_stack" => u.pgtbl[STACK] = Empty /\ u.tables["stack"] = 0

\* The page that a process reads a block into is its own, and cannot be found yet.
Reads(q) == u_area[q].pgtbl[u_area[q].v].page
LoadOK(q) ==
    u_area[q].pc = "load" =>
        /\ m.pg[Reads(q)].key = u_area[q].busyblock /\ ~m.pg[Reads(q)].hashed
        /\ Has(Holding, Places, Reads(q)) = {<<"page", q, u_area[q].v>>}

ProcOK(q) ==
    /\ Frame(u_area[q])
    /\ \A v \in VPages : u_area[q].pgtbl[v].present => Known(m, u_area[q].pgtbl[v].page)
    /\ u_area[q].page # 0 => Plain(m, u_area[q].page)
    /\ LoadOK(q)

\* A block is read by one process, and only if it is in no page.
LoadsOK ==
    /\ \A q, r \in Procs : u_area[q].busyblock # None /\ u_area[q].busyblock = u_area[r].busyblock => q = r
    /\ \A q \in Procs, p \in Pages : u_area[q].busyblock # None /\ m.pg[p].hashed => m.pg[p].key # u_area[q].busyblock

\* The child of a fork that sleeps has its slot to itself.
ForksOK ==
    \A q \in Procs : u_area[q].pc = "fork" =>
        /\ u_area[u_area[q].child].state = "unused"
        /\ \A r \in Procs : u_area[r].child = u_area[q].child => r = q

SwapperOK == sw.page # 0 <=> sw.pc = "save"

WaitOK(q) ==
    /\ waits[q] # Nothing => u_area[q].state = "alive"
    /\ waits[q] = GetPage => /\ u_area[q].pc \in Reserving
                             /\ free_pages < Needs(q) /\ sw.pc # "asleep"
    /\ waits[q] \in Procs => /\ u_area[q].pc = "fault" /\ ~u_area[q].pgtbl[u_area[q].v].present
                             /\ u_area[q].pgtbl[u_area[q].v].key # None
                             /\ u_area[waits[q]].busyblock = u_area[q].pgtbl[u_area[q].v].key

MemInv ==
    /\ TypeOK
    /\ Sound(m, Holding, Blocks)
    /\ \A q \in Procs : ProcOK(q)
    /\ LoadsOK
    /\ ForksOK
    /\ SwapperOK
    /\ \A q \in Procs : WaitOK(q)

(***************************************************************************)
(* Counting.                                                               *)
(***************************************************************************)
\* One value of a function changes: one count falls, another rises.
CountsAfter(f, S, s, w, x) ==
    /\ Cardinality(Has(f, S, x)) \in Nat
    /\ Cardinality(Has([f EXCEPT ![s] = w], S, x)) =
          IF w = x THEN IF f[s] = x THEN Cardinality(Has(f, S, x)) ELSE Cardinality(Has(f, S, x)) + 1
          ELSE IF f[s] = x THEN Cardinality(Has(f, S, x)) - 1 ELSE Cardinality(Has(f, S, x))
    /\ f[s] = x => Cardinality(Has(f, S, x)) > 0

LEMMA CountChanges ==
  ASSUME NEW S, IsFiniteSet(S), NEW f, f \in [S -> Int], NEW s \in S, NEW w, NEW x
  PROVE  CountsAfter(f, S, s, w, x)
<1> DEFINE g == [f EXCEPT ![s] = w]
           A == Has(f, S, x)
<1>1. IsFiniteSet(A) /\ Cardinality(A) \in Nat
  BY FS_Subset, FS_CardinalityType DEF Has
<1>2. Has(g, S, x) = IF w = x THEN A \cup {s} ELSE A \ {s}
  BY DEF Has
<1>3. s \in A <=> f[s] = x
  BY DEF Has
<1>4. /\ Cardinality(A \cup {s}) = IF s \in A THEN Cardinality(A) ELSE Cardinality(A) + 1
      /\ Cardinality(A \ {s}) = IF s \in A THEN Cardinality(A) - 1 ELSE Cardinality(A)
  BY <1>1, FS_AddElement, FS_RemoveElement
<1>5. s \in A => Cardinality(A) > 0
  BY <1>1, FS_EmptySet
<1> HIDE DEF A, g
<1>6. Cardinality(Has(g, S, x)) = IF w = x THEN IF f[s] = x THEN Cardinality(A) ELSE Cardinality(A) + 1
                                  ELSE IF f[s] = x THEN Cardinality(A) - 1 ELSE Cardinality(A)
  BY <1>1, <1>2, <1>3, <1>4
<1>7. QED BY <1>1, <1>3, <1>5, <1>6 DEF A, g, CountsAfter

LEMMA FiniteTriples ==
  ASSUME NEW A, IsFiniteSet(A), NEW B, IsFiniteSet(B), NEW C, IsFiniteSet(C)
  PROVE  IsFiniteSet(A \X B \X C)
<1> DEFINE P == (A \X B) \X C
           f == [p \in P |-> <<p[1][1], p[1][2], p[2]>>]
<1>1. IsFiniteSet(P)
  BY FS_Product
<1>2. f \in Surjection(P, A \X B \X C)
  <2>1. f \in [P -> A \X B \X C]
    OBVIOUS
  <2>2. ASSUME NEW t \in A \X B \X C PROVE \E p \in P : f[p] = t
    <3>1. <<<<t[1], t[2]>>, t[3]>> \in P /\ t = <<t[1], t[2], t[3]>>
      OBVIOUS
    <3>2. f[<<<<t[1], t[2]>>, t[3]>>] = t
      BY <3>1
    <3>3. QED BY <3>1, <3>2
  <2>3. QED BY <2>1, <2>2 DEF Surjection
<1>3. QED BY <1>1, <1>2, FS_Surjection

LEMMA PlacesFinite == IsFiniteSet(Places) /\ IsFiniteSet(VPlaces) /\ IsFiniteSet(Procs)
<1>1. IsFiniteSet(Procs)
  BY MemoryAssumption
<1>2. IsFiniteSet(VPages)
  <2>1. 1 \in Int /\ 4 \in Int
    OBVIOUS
  <2>2. IsFiniteSet(1..4)
    BY <2>1, FS_Interval
  <2>3. QED BY <2>2 DEF VPages, TEXT, STACK
<1>3. IsFiniteSet({"page"}) /\ IsFiniteSet({"kernel"}) /\ IsFiniteSet({"arguments"}) /\ IsFiniteSet({0})
  BY FS_Singleton
<1>4. IsFiniteSet({1, 2}) /\ IsFiniteSet({"swapper", "swap_map"}) /\ IsFiniteSet(Tables)
  <2>1. IsFiniteSet({1}) /\ IsFiniteSet({"swapper"}) /\ IsFiniteSet({"image"})
    BY FS_Singleton
  <2>2. IsFiniteSet({1} \cup {2}) /\ IsFiniteSet({"swapper"} \cup {"swap_map"}) /\ IsFiniteSet({"image"} \cup {"heap"})
    BY <2>1, FS_AddElement
  <2>3. IsFiniteSet(({"image"} \cup {"heap"}) \cup {"stack"})
    BY <2>2, FS_AddElement
  <2>4. /\ {1} \cup {2} = {1, 2} /\ {"swapper"} \cup {"swap_map"} = {"swapper", "swap_map"}
        /\ ({"image"} \cup {"heap"}) \cup {"stack"} = Tables
    BY DEF Tables
  <2>5. QED BY <2>2, <2>3, <2>4
<1>5. IsFiniteSet({"page"} \X Procs \X VPages)
  BY <1>1, <1>2, <1>3, FiniteTriples
<1>6. IsFiniteSet(Tables \X Procs \X {0})
  BY <1>1, <1>3, <1>4, FiniteTriples
<1>7. IsFiniteSet({"kernel"} \X Procs \X {1, 2})
  BY <1>1, <1>3, <1>4, FiniteTriples
<1>8. IsFiniteSet({"arguments"} \X Procs \X {0}) /\ IsFiniteSet({"swapper", "swap_map"} \X {0} \X {0})
  BY <1>1, <1>3, <1>4, FiniteTriples
<1>9. IsFiniteSet(Places)
  BY <1>5, <1>6, <1>7, <1>8, FS_Union DEF Places
<1>10. IsFiniteSet(VPlaces)
  BY <1>1, <1>2, FS_Product DEF VPlaces
<1>11. QED BY <1>1, <1>9, <1>10

\* A nonempty finite set of integers has a greatest one.
LEMMA HighestOf ==
  ASSUME NEW S \in SUBSET Int, S # {}, IsFiniteSet(S)
  PROVE  Max(S) \in S
<1> DEFINE Top(T) == \E x \in T : \A y \in T : y <= x
           R == StrictSubsetOrdering(S)
           Bad == {T \in SUBSET S : T # {} /\ ~Top(T)}
<1>1. IsWellFoundedOn(R, SUBSET S)
  BY FS_StrictSubsetOrderingWellFounded, FS_FiniteSubsetsOfFinite
<1>2. \A T, U \in SUBSET S : U \subseteq T /\ U # T => <<U, T>> \in R
  BY DEF StrictSubsetOrdering
<1> HIDE DEF R
<1>3. Bad = {}
  <2>1. SUFFICES ASSUME Bad # {} PROVE FALSE
    OBVIOUS
  <2>2. PICK T \in Bad : \A U \in Bad : ~(<<U, T>> \in R)
    <3>1. Bad \in SUBSET (SUBSET S)
      OBVIOUS
    <3> HIDE DEF Bad
    <3>2. QED BY <1>1, <2>1, <3>1, WFMin
  <2>3. PICK t \in T : TRUE
    BY <2>2
  <2>4. T \ {t} \notin Bad
    <3>1. T \in SUBSET S /\ t \in T
      BY <2>2, <2>3
    <3>2. T \ {t} \in SUBSET S /\ T \ {t} \subseteq T /\ T \ {t} # T
      BY ONLY <3>1
    <3>3. <<T \ {t}, T>> \in R
      BY <1>2, <3>1, <3>2
    <3> HIDE DEF Bad
    <3>4. QED BY <2>2, <3>3
  <2>5. T \ {t} = {} \/ Top(T \ {t})
    BY <2>2, <2>4
  <2>6. CASE T \ {t} = {}
    <3>1. T = {t} /\ t \in Int
      BY <2>2, <2>3, <2>6
    <3>2. Top(T)
      BY <3>1
    <3>3. QED BY <2>2, <3>2
  <2>7. CASE Top(T \ {t})
    <3>1. PICK x \in T \ {t} : \A y \in T \ {t} : y <= x
      BY <2>7
    <3>2. x \in Int /\ t \in Int /\ T \subseteq Int
      BY <2>2, <2>3, <3>1
    <3>3. Top(T)
      <4>1. CASE t <= x
        BY <3>1, <3>2, <4>1
      <4>2. CASE x <= t
        BY <2>3, <3>1, <3>2, <4>2
      <4>3. QED BY <3>2, <4>1, <4>2
    <3>4. QED BY <2>2, <3>3
  <2>8. QED BY <2>5, <2>6, <2>7
<1>4. Top(S)
  BY <1>3
<1>5. \E x \in S : \A y \in S : x >= y
  BY <1>4
<1>6. QED BY <1>5 DEF Max

(***************************************************************************)
(* What each operation on the memory leaves of it.                         *)
(***************************************************************************)
Same(x, y, p) == y.pg[p].key = x.pg[p].key /\ y.pg[p].hashed = x.pg[p].hashed /\ y.pg[p].type = x.pg[p].type

\* No page is forgotten; no used page; and what is, cannot be found.
AllSame(x, y) == \A p \in Pages : Same(x, y, p)
Kept(x, y)  == \A p \in Pages : x.pg[p].count # 0 => Same(x, y, p)
Fades(x, y) == \A p \in Pages : \/ Same(x, y, p)
                                \/ y.pg[p].type = x.pg[p].type /\ y.pg[p].key = None /\ ~y.pg[p].hashed

SwapSame(x, y) == y.swap = x.swap /\ y.swap_map = x.swap_map

Uses == [Places -> 0..NPages]
BlockUses == [VPlaces -> Int]

LEMMA NotSwap == None \notin Swap /\ 0 \notin Pages /\ Pages \subseteq 0..NPages /\ NPages \in Nat /\ SwapBlocks \in Nat
BY MemoryAssumption DEF None, Swap, Pages

LEMMA KeysAre == Keys \subseteq Int /\ None \in Keys /\ FileKeys \cap Swap = {} /\ None \notin FileKeys
<1>1. ASSUME NEW f \in Binaries, NEW v \in VPages PROVE FileKey(f, v) \in Int /\ FileKey(f, v) < 0
  <2>1. f \in Nat /\ v \in 1..4
    BY MemoryAssumption DEF VPages, TEXT, STACK
  <2>2. QED BY <2>1 DEF FileKey
<1>2. \A key \in FileKeys : key \in Int /\ key < 0
  BY <1>1 DEF FileKeys
<1>3. QED BY <1>2 DEF Keys, Swap, None

LEMMA FadesCached ==
  ASSUME NEW x, NEW y, Cached(x), Fades(x, y)
  PROVE  Cached(y)
BY NotSwap DEF Cached, Fades, Same

LEMMA AllSameFades ==
  ASSUME NEW x, NEW y, AllSame(x, y)
  PROVE  Fades(x, y) /\ Kept(x, y)
BY DEF AllSame, Fades, Kept

LEMMA FadesBlocks ==
  ASSUME NEW x, NEW y, NEW g, BlocksBalanced(x, g), Fades(x, y), SwapSame(x, y)
  PROVE  BlocksBalanced(y, g)
<1>1. FreeBlocks(y) = FreeBlocks(x)
  BY DEF FreeBlocks, SwapSame
<1>2. \A p \in Pages : x.pg[p].key \notin Swap => y.pg[p].key \notin Swap
  BY NotSwap DEF Fades, Same
<1>3. QED BY <1>1, <1>2 DEF BlocksBalanced, SwapSame

\* Counts and the free list decide who has which page.
LEMMA SameCounts ==
  ASSUME NEW x, NEW y, NEW h, PagesBalanced(x, h), y.free = x.free,
         \A p \in Pages : y.pg[p].count = x.pg[p].count
  PROVE  PagesBalanced(y, h)
BY DEF PagesBalanced

LEMMA SetCount ==
  ASSUME NEW x \in Memories, NEW p \in Pages, NEW n \in Nat, NEW f \in Seq(Pages)
  PROVE  /\ [x EXCEPT !.pg[p].count = n, !.free = f] \in Memories
         /\ [x EXCEPT !.pg[p].count = n] \in Memories
<1> DEFINE d == [x.pg[p] EXCEPT !.count = n]
           pg == [x.pg EXCEPT ![p] = d]
           y == [x EXCEPT !.pg[p].count = n, !.free = f]
           z == [x EXCEPT !.pg[p].count = n]
<1>1. x.pg \in [Pages -> Descriptors] /\ d \in Descriptors
  BY DEF Memories, Descriptors
<1> HIDE DEF d
<1>2. pg \in [Pages -> Descriptors]
  BY <1>1
<1>3. y = [x EXCEPT !.pg = pg, !.free = f] /\ z = [x EXCEPT !.pg = pg]
  BY DEF d
<1> HIDE DEF y, z, pg
<1>4. y \in Memories /\ z \in Memories
  BY <1>2, <1>3 DEF Memories
<1>5. QED BY <1>4 DEF y, z

\* The place gives its page back.
LEMMA Releases ==
  ASSUME NEW x, NEW h \in Uses, NEW g, Sound(x, h, g), NEW place \in Places, h[place] # 0
  PROVE  LET y == release_page(x, h[place])
         IN  /\ Sound(y, [h EXCEPT ![place] = 0], g) /\ [h EXCEPT ![place] = 0] \in Uses
             /\ AllSame(x, y) /\ SwapSame(x, y) /\ Len(y.free) >= Len(x.free)
<1> DEFINE p == h[place]
           y == release_page(x, p)
           k == [h EXCEPT ![place] = 0]
<1>1. p \in Pages /\ k \in Uses
  BY NotSwap DEF Uses, Pages
<1>2. x \in Memories /\ PagesBalanced(x, h) /\ BlocksBalanced(x, g) /\ Cached(x)
  BY DEF Sound
<1>3. /\ x.free \in Seq(Pages) /\ Len(x.free) \in Nat
      /\ \A r \in Pages : x.pg[r] \in Descriptors /\ x.pg[r].count \in Nat
  BY <1>2 DEF Memories, Descriptors
<1>4. ASSUME NEW r \in Pages
      PROVE  /\ Cardinality(Has(k, Places, r)) = IF r = p THEN x.pg[r].count - 1 ELSE x.pg[r].count
             /\ r = p => x.pg[r].count > 0
  <2>1. r # 0
    BY NotSwap
  <2> HIDE DEF p, k
  <2>2. x.pg[r].count = Cardinality(Has(h, Places, r))
    BY <1>2 DEF PagesBalanced
  <2>3. IsFiniteSet(Places) /\ h \in [Places -> Int] /\ 0 \in Int /\ r \in Int
    BY PlacesFinite, NotSwap DEF Uses, Pages
  <2>4. CountsAfter(h, Places, place, 0, r)
    BY <2>3, CountChanges
  <2>5. QED BY <2>1, <2>2, <2>4 DEF p, k, CountsAfter
<1>5. x.pg[p].count \in Nat /\ x.pg[p].count > 0
  BY <1>1, <1>3, <1>4
<1> HIDE DEF p, k
<1>6. CASE x.pg[p].count > 1
  <2>1. y = [x EXCEPT !.pg[p].count = x.pg[p].count - 1]
    BY <1>6 DEF release_page
  <2>2. y \in Memories
    <3> DEFINE n == x.pg[p].count - 1
    <3>1. n \in Nat
      BY <1>5
    <3>2. y = [x EXCEPT !.pg[p].count = n]
      BY <2>1
    <3> HIDE DEF n, y
    <3>3. [x EXCEPT !.pg[p].count = n] \in Memories
      BY <1>1, <1>2, <1>3, <3>1, SetCount
    <3>4. QED BY <3>2, <3>3
  <2>3. /\ y.free = x.free /\ SwapSame(x, y) /\ AllSame(x, y)
        /\ \A r \in Pages : y.pg[r].count = IF r = p THEN x.pg[r].count - 1 ELSE x.pg[r].count
    BY <1>1, <1>2, <2>1 DEF Memories, SwapSame, AllSame, Same
  <2> HIDE DEF y
  <2>4. PagesBalanced(y, k)
    <3>1. \A r \in Pages : y.pg[r].count = Cardinality(Has(k, Places, r))
      BY <1>4, <2>3
    <3>2. \A r \in Pages : y.pg[r].count = 0 <=> x.pg[r].count = 0
      BY <1>3, <1>6, <2>3
    <3>3. QED BY <1>2, <2>3, <3>1, <3>2 DEF PagesBalanced
  <2>5. Fades(x, y)
    BY <2>3, AllSameFades
  <2>6. Sound(y, k, g)
    BY <1>2, <2>2, <2>3, <2>4, <2>5, FadesBlocks, FadesCached DEF Sound
  <2>7. QED BY <1>1, <1>3, <2>3, <2>6 DEF y, k, p
<1>7. CASE x.pg[p].count = 1
  <2>1. y = [x EXCEPT !.pg[p].count = 0, !.free = Append(x.free, p)]
    BY <1>7 DEF release_page
  <2>2. p \notin Range(x.free) /\ IsInjective(x.free)
    BY <1>1, <1>2, <1>7 DEF PagesBalanced
  <2>3. Append(x.free, p) \in Seq(Pages) /\ IsInjective(Append(x.free, p)) /\ Range(Append(x.free, p)) = Range(x.free) \cup {p}
    BY <1>1, <1>3, <2>2, ListWithLast
  <2>4. y \in Memories
    <3>1. 0 \in Nat
      OBVIOUS
    <3>2. [x EXCEPT !.pg[p].count = 0, !.free = Append(x.free, p)] \in Memories
      BY <1>1, <1>2, <2>3, <3>1, SetCount
    <3>3. QED BY <2>1, <3>2
  <2>5. /\ y.free = Append(x.free, p) /\ SwapSame(x, y) /\ AllSame(x, y)
        /\ \A r \in Pages : y.pg[r].count = IF r = p THEN 0 ELSE x.pg[r].count
    BY <1>1, <1>2, <2>1 DEF Memories, SwapSame, AllSame, Same
  <2> HIDE DEF y
  <2>6. PagesBalanced(y, k)
    <3>1. \A r \in Pages : y.pg[r].count = Cardinality(Has(k, Places, r))
      BY <1>4, <1>7, <2>5
    <3>2. \A r \in Pages : y.pg[r].count = 0 <=> r \in Range(y.free)
      BY <1>2, <2>3, <2>5 DEF PagesBalanced
    <3>3. QED BY <2>3, <2>5, <3>1, <3>2 DEF PagesBalanced
  <2>7. Fades(x, y)
    BY <2>5, AllSameFades
  <2>8. Sound(y, k, g)
    BY <1>2, <2>4, <2>5, <2>6, <2>7, FadesBlocks, FadesCached DEF Sound
  <2>9. Len(y.free) >= Len(x.free)
    BY <1>1, <1>3, <2>5
  <2>10. QED BY <1>1, <2>5, <2>8, <2>9 DEF y, k, p
<1>8. QED BY <1>5, <1>6, <1>7

\* Some pages can be found no longer.
LEMMA UnhashedParts ==
  ASSUME NEW x \in Memories, NEW ps
  PROVE  LET y == Unhashed(x, ps)
         IN  /\ y \in Memories /\ y.free = x.free /\ SwapSame(x, y) /\ y.data = x.data /\ y.disk = x.disk
             /\ \A p \in Pages : /\ y.pg[p].count = x.pg[p].count /\ y.pg[p].type = x.pg[p].type
                                 /\ IF p \in ps THEN y.pg[p].key = None /\ ~y.pg[p].hashed ELSE Same(x, y, p)
             /\ Fades(x, y)
<1> DEFINE y == Unhashed(x, ps)
           pg == [p \in Pages |-> IF p \in ps THEN [x.pg[p] EXCEPT !.hashed = FALSE, !.key = None] ELSE x.pg[p]]
<1>1. ASSUME NEW p \in Pages
      PROVE  pg[p] \in Descriptors /\ pg[p].count = x.pg[p].count /\ pg[p].type = x.pg[p].type
             /\ IF p \in ps THEN pg[p].key = None /\ ~pg[p].hashed ELSE pg[p] = x.pg[p]
  <2>1. x.pg[p] \in Descriptors
    BY DEF Memories
  <2>2. CASE p \in ps
    <3>1. pg[p] = [x.pg[p] EXCEPT !.hashed = FALSE, !.key = None]
      BY <2>2
    <3> HIDE DEF pg
    <3>2. pg[p] = [count |-> x.pg[p].count, key |-> None, hashed |-> FALSE, type |-> x.pg[p].type]
      BY <2>1, <3>1 DEF Descriptors
    <3>3. None \in Keys
      BY KeysAre
    <3>4. QED BY <2>1, <2>2, <3>2, <3>3 DEF Descriptors
  <2>3. CASE p \notin ps
    <3>1. pg[p] = x.pg[p]
      BY <2>3
    <3> HIDE DEF pg
    <3>2. QED BY <2>1, <2>3, <3>1
  <2>4. QED BY <2>2, <2>3
<1>2. y = [x EXCEPT !.pg = pg]
  BY DEF Unhashed
<1>3. pg \in [Pages -> Descriptors]
  BY <1>1
<1> HIDE DEF y, pg
<1>4. y \in Memories /\ y.pg = pg /\ y.free = x.free /\ SwapSame(x, y) /\ y.data = x.data /\ y.disk = x.disk
  BY <1>2, <1>3 DEF Memories, SwapSame
<1>5. \A p \in Pages : /\ y.pg[p].count = x.pg[p].count /\ y.pg[p].type = x.pg[p].type
                       /\ IF p \in ps THEN y.pg[p].key = None /\ ~y.pg[p].hashed ELSE Same(x, y, p)
  BY <1>1, <1>4 DEF Same
<1>6. Fades(x, y)
  BY <1>5 DEF Fades
<1>7. QED BY <1>4, <1>5, <1>6 DEF y

LEMMA Forgotten ==
  ASSUME NEW x, NEW h, NEW g, Sound(x, h, g), NEW ps
  PROVE  Sound(Unhashed(x, ps), h, g)
<1> DEFINE y == Unhashed(x, ps)
<1>1. x \in Memories /\ PagesBalanced(x, h) /\ BlocksBalanced(x, g) /\ Cached(x)
  BY DEF Sound
<1>2. y \in Memories /\ y.free = x.free /\ SwapSame(x, y) /\ Fades(x, y) /\ \A p \in Pages : y.pg[p].count = x.pg[p].count
  BY <1>1, UnhashedParts
<1> HIDE DEF y
<1>3. PagesBalanced(y, h) /\ BlocksBalanced(y, g) /\ Cached(y)
  BY <1>1, <1>2, SameCounts, FadesBlocks, FadesCached
<1>4. QED BY <1>2, <1>3 DEF Sound, y

\* A page is in use once more: the counts.
UsedOnceMore(x, k, p) ==
  k \in Uses /\ \A r \in Pages : Cardinality(Has(k, Places, r)) = IF r = p THEN x.pg[r].count + 1 ELSE x.pg[r].count

LEMMA CountsRise ==
  ASSUME NEW x, NEW h \in Uses, x \in Memories, PagesBalanced(x, h), NEW place \in Places, h[place] = 0, NEW p \in Pages
  PROVE  UsedOnceMore(x, [h EXCEPT ![place] = p], p)
<1>1. [h EXCEPT ![place] = p] \in Uses
  BY NotSwap DEF Uses
<1>2. ASSUME NEW r \in Pages
      PROVE  Cardinality(Has([h EXCEPT ![place] = p], Places, r)) = IF r = p THEN x.pg[r].count + 1 ELSE x.pg[r].count
  <2>1. IsFiniteSet(Places) /\ h \in [Places -> Int] /\ r # 0
    BY PlacesFinite, NotSwap DEF Uses
  <2>2. CountsAfter(h, Places, place, p, r)
    BY <2>1, CountChanges
  <2>3. x.pg[r].count = Cardinality(Has(h, Places, r))
    BY DEF PagesBalanced
  <2>4. QED BY <2>1, <2>2, <2>3 DEF CountsAfter
<1>3. QED BY <1>1, <1>2 DEF UsedOnceMore

\* The first free page is taken.
FirstTaken(x, y, p) ==
    /\ p \in Pages /\ x.pg[p].count = 0 /\ y.pg[p].key = None /\ ~y.pg[p].hashed /\ y.pg[p].count = 1
    /\ y \in Memories /\ y.free = Tail(x.free) /\ y.free \in Seq(Pages) /\ IsInjective(y.free)
    /\ p \in Range(x.free) /\ Range(y.free) = Range(x.free) \ {p} /\ Len(y.free) = Len(x.free) - 1
    /\ SwapSame(x, y) /\ Fades(x, y)
    /\ \A r \in Pages : r # p => Same(x, y, r) /\ y.pg[r].count = x.pg[r].count

LEMMA FirstPage ==
  ASSUME NEW x, NEW h, NEW g, Sound(x, h, g), Len(x.free) > 0
  PROVE  FirstTaken(x, get_page(x), Head(x.free))
<1> DEFINE p == Head(x.free)
           z == Unhashed(x, {p})
           y == get_page(x)
<1>1. x \in Memories /\ PagesBalanced(x, h) /\ BlocksBalanced(x, g) /\ Cached(x) /\ x.free \in Seq(Pages) /\ x.free # <<>>
  BY DEF Sound, Memories
<1>2. IsInjective(x.free)
  BY <1>1 DEF PagesBalanced
<1>3. /\ Tail(x.free) \in Seq(Pages) /\ IsInjective(Tail(x.free)) /\ p \in Range(x.free) /\ p \in Pages
      /\ Range(Tail(x.free)) = Range(x.free) \ {p} /\ Len(Tail(x.free)) = Len(x.free) - 1
  <2>1. /\ Tail(x.free) \in Seq(Pages) /\ IsInjective(Tail(x.free))
        /\ Head(x.free) \in Range(x.free) /\ Range(Tail(x.free)) = Range(x.free) \ {Head(x.free)}
    BY <1>1, <1>2, TailOfList
  <2>2. p \in Pages /\ Len(Tail(x.free)) = Len(x.free) - 1
    BY <1>1
  <2>3. QED BY <2>1, <2>2
<1>4. x.pg[p].count = 0
  BY <1>1, <1>3 DEF PagesBalanced
<1> HIDE DEF p
<1>5. /\ z \in Memories /\ z.free = x.free /\ SwapSame(x, z) /\ Fades(x, z)
      /\ \A r \in Pages : /\ z.pg[r].count = x.pg[r].count
                          /\ IF r = p THEN z.pg[r].key = None /\ ~z.pg[r].hashed ELSE Same(x, z, r)
  BY <1>1, UnhashedParts
<1>6. y = [z EXCEPT !.pg[p].count = 1, !.free = Tail(x.free)]
  <2>1. y = [z EXCEPT !.free = Tail(z.free), !.pg[p].count = 1]
    BY DEF get_page, p
  <2> HIDE DEF y, z
  <2>2. QED BY <1>3, <1>5, <2>1 DEF Memories
<1> HIDE DEF z, y
<1>7. y \in Memories
  <2>1. 1 \in Nat
    OBVIOUS
  <2>2. QED BY <1>3, <1>5, <1>6, <2>1, SetCount
<1>8. /\ y.free = Tail(x.free) /\ SwapSame(z, y) /\ AllSame(z, y)
      /\ \A r \in Pages : y.pg[r].count = IF r = p THEN 1 ELSE z.pg[r].count
  BY <1>3, <1>5, <1>6 DEF Memories, SwapSame, AllSame, Same
<1>9. Fades(x, y) /\ SwapSame(x, y)
  BY <1>5, <1>8 DEF Fades, Same, AllSame, SwapSame
<1>10. /\ y.pg[p].key = None /\ ~y.pg[p].hashed /\ y.pg[p].count = 1
       /\ \A r \in Pages : r # p => Same(x, y, r) /\ y.pg[r].count = x.pg[r].count
  BY <1>3, <1>5, <1>8 DEF AllSame, Same
<1>11. QED BY <1>3, <1>4, <1>7, <1>8, <1>9, <1>10 DEF y, p, FirstTaken

\* The place takes it.
LEMMA Takes ==
  ASSUME NEW x, NEW h \in Uses, NEW g, Sound(x, h, g), NEW place \in Places, h[place] = 0, Len(x.free) > 0
  PROVE  /\ Sound(get_page(x), [h EXCEPT ![place] = Head(x.free)], g) /\ [h EXCEPT ![place] = Head(x.free)] \in Uses
         /\ FirstTaken(x, get_page(x), Head(x.free))
<1> DEFINE p == Head(x.free)
           y == get_page(x)
           k == [h EXCEPT ![place] = p]
<1>1. x \in Memories /\ PagesBalanced(x, h) /\ BlocksBalanced(x, g) /\ Cached(x)
  BY DEF Sound
<1>2. FirstTaken(x, y, p)
  BY FirstPage
<1> HIDE DEF p, y
<1>3. k \in Uses /\ \A r \in Pages : Cardinality(Has(k, Places, r)) = IF r = p THEN x.pg[r].count + 1 ELSE x.pg[r].count
  <2>1. p \in Pages
    BY <1>2 DEF FirstTaken
  <2>2. h \in Uses /\ place \in Places /\ h[place] = 0
    OBVIOUS
  <2>3. UsedOnceMore(x, k, p)
    BY ONLY <1>1, <2>1, <2>2, CountsRise
  <2> HIDE DEF k
  <2>4. QED BY <2>3 DEF UsedOnceMore
<1>4. PagesBalanced(y, k)
  <2> HIDE DEF k
  <2>1. \A r \in Pages : y.pg[r].count = Cardinality(Has(k, Places, r))
    BY <1>2, <1>3 DEF FirstTaken
  <2>2. \A r \in Pages : y.pg[r].count = 0 <=> r \in Range(y.free)
    BY <1>1, <1>2 DEF PagesBalanced, FirstTaken
  <2>3. QED BY <1>2, <2>1, <2>2 DEF PagesBalanced, FirstTaken
<1>5. Sound(y, k, g)
  BY <1>1, <1>2, <1>4, FadesBlocks, FadesCached DEF Sound, FirstTaken
<1>6. QED BY <1>2, <1>3, <1>5 DEF y, p, k

\* The place shares a page, that was free or not.
LEMMA Reuses ==
  ASSUME NEW x, NEW h \in Uses, NEW g, Sound(x, h, g), NEW place \in Places, h[place] = 0, NEW p \in Pages
  PROVE  LET y == reuse_page(x, p)
         IN  /\ Sound(y, [h EXCEPT ![place] = p], g) /\ [h EXCEPT ![place] = p] \in Uses
             /\ AllSame(x, y) /\ Len(y.free) <= Len(x.free) /\ SwapSame(x, y) /\ y.data = x.data /\ y.disk = x.disk
<1> DEFINE y == reuse_page(x, p)
           k == [h EXCEPT ![place] = p]
           places == {i \in DOMAIN x.free : x.free[i] = p}
           i == CHOOSE i \in places : TRUE
           free == IF places = {} THEN x.free ELSE RemoveAt(x.free, i)
           n == x.pg[p].count + 1
<1>1. x \in Memories /\ PagesBalanced(x, h) /\ BlocksBalanced(x, g) /\ Cached(x) /\ x.free \in Seq(Pages) /\ n \in Nat \ {0}
  BY DEF Sound, Memories, Descriptors
<1>2. IsInjective(x.free)
  BY <1>1 DEF PagesBalanced
<1>3. free \in Seq(Pages) /\ IsInjective(free) /\ Range(free) = Range(x.free) \ {p} /\ Len(free) <= Len(x.free)
  <2>1. CASE places = {}
    <3>1. p \notin Range(x.free)
      BY <2>1 DEF Range
    <3>2. free = x.free /\ Len(x.free) \in Nat
      BY <1>1, <2>1
    <3>3. Range(x.free) = Range(x.free) \ {p} /\ Len(x.free) <= Len(x.free)
      BY <3>1, <3>2
    <3> HIDE DEF free
    <3>4. QED BY <1>1, <1>2, <3>2, <3>3
  <2>2. CASE places # {}
    <3>1. i \in DOMAIN x.free /\ x.free[i] = p /\ free = RemoveAt(x.free, i)
      BY <2>2
    <3> HIDE DEF i, free
    <3>2. /\ RemoveAt(x.free, i) \in Seq(Pages) /\ IsInjective(RemoveAt(x.free, i))
          /\ Range(RemoveAt(x.free, i)) = Range(x.free) \ {x.free[i]}
      BY <1>1, <1>2, <3>1, ListWithoutPlace
    <3>3. Len(RemoveAt(x.free, i)) <= Len(x.free)
      BY <1>1, <3>1 DEF RemoveAt
    <3>4. QED BY <3>1, <3>2, <3>3
  <2>3. QED BY <2>1, <2>2
<1>4. y = [x EXCEPT !.pg[p].count = n, !.free = free]
  BY DEF reuse_page
<1> HIDE DEF y, n, free
<1>5. y \in Memories
  BY <1>1, <1>3, <1>4, SetCount
<1>6. /\ y.free = free /\ SwapSame(x, y) /\ AllSame(x, y) /\ y.data = x.data /\ y.disk = x.disk
      /\ \A r \in Pages : y.pg[r].count = IF r = p THEN n ELSE x.pg[r].count
  BY <1>1, <1>3, <1>4 DEF Memories, SwapSame, AllSame, Same
<1>7. k \in Uses /\ \A r \in Pages : Cardinality(Has(k, Places, r)) = IF r = p THEN x.pg[r].count + 1 ELSE x.pg[r].count
  <2>1. h \in Uses /\ place \in Places /\ h[place] = 0 /\ p \in Pages
    OBVIOUS
  <2>2. UsedOnceMore(x, k, p)
    BY ONLY <1>1, <2>1, CountsRise
  <2> HIDE DEF k
  <2>3. QED BY <2>2 DEF UsedOnceMore
<1> HIDE DEF k
<1>8. PagesBalanced(y, k)
  <2>1. \A r \in Pages : y.pg[r].count = Cardinality(Has(k, Places, r))
    BY <1>6, <1>7 DEF n
  <2>2. \A r \in Pages : y.pg[r].count = 0 <=> r \in Range(y.free)
    BY <1>1, <1>3, <1>6 DEF PagesBalanced
  <2>3. QED BY <1>3, <1>6, <2>1, <2>2 DEF PagesBalanced
<1>9. Fades(x, y)
  BY <1>6, AllSameFades
<1>10. Sound(y, k, g)
  BY <1>1, <1>5, <1>6, <1>8, <1>9, FadesBlocks, FadesCached DEF Sound
<1>11. QED BY <1>3, <1>6, <1>7, <1>10 DEF y, k

\* A page goes from one place to another.
LEMMA Moves ==
  ASSUME NEW x, NEW h \in Uses, NEW g, Sound(x, h, g), NEW a \in Places, NEW b \in Places, a # b, h[b] = 0
  PROVE  LET k == [[h EXCEPT ![a] = 0] EXCEPT ![b] = h[a]]
         IN  k \in Uses /\ Sound(x, k, g)
<1> DEFINE i == [h EXCEPT ![a] = 0]
           k == [i EXCEPT ![b] = h[a]]
<1>1. i \in Uses /\ k \in Uses /\ i[b] = 0
  BY NotSwap DEF Uses
<1>2. ASSUME NEW r \in Pages PROVE Cardinality(Has(k, Places, r)) = x.pg[r].count
  <2>1. /\ IsFiniteSet(Places) /\ h \in [Places -> Int] /\ i \in [Places -> Int] /\ r # 0
        /\ x.pg[r].count = Cardinality(Has(h, Places, r))
    BY <1>1, PlacesFinite, NotSwap DEF Uses, Sound, PagesBalanced
  <2>2. CountsAfter(h, Places, a, 0, r)
    BY <2>1, CountChanges
  <2> HIDE DEF i
  <2>3. CountsAfter(i, Places, b, h[a], r)
    BY <2>1, CountChanges
  <2>4. QED BY <1>1, <2>1, <2>2, <2>3 DEF CountsAfter, i
<1> HIDE DEF k
<1>3. PagesBalanced(x, k)
  BY <1>2 DEF Sound, PagesBalanced
<1>4. QED BY <1>1, <1>3 DEF Sound, k

(***************************************************************************)
(* Swap blocks.                                                            *)
(***************************************************************************)
\* The parts that have nothing to do with swap blocks.
LEMMA OtherParts ==
  ASSUME NEW x, NEW y, NEW h, NEW g, Sound(x, h, g), y \in Memories, y.free = x.free,
         \A p \in Pages : y.pg[p].count = x.pg[p].count, Fades(x, y), NEW k, BlocksBalanced(y, k)
  PROVE  Sound(y, h, k)
BY SameCounts, FadesCached DEF Sound

\* One block more or less free.
FreeAfter(x, y, b, n) ==
    /\ Cardinality(FreeBlocks(x)) \in Nat
    /\ Cardinality(FreeBlocks(y)) = IF n = 0 THEN IF x.swap.bitmap[b] = 0 THEN Cardinality(FreeBlocks(x))
                                                  ELSE Cardinality(FreeBlocks(x)) + 1
                                    ELSE IF x.swap.bitmap[b] = 0 THEN Cardinality(FreeBlocks(x)) - 1
                                         ELSE Cardinality(FreeBlocks(x))

LEMMA FreeBlockChange ==
  ASSUME NEW x \in Memories, NEW y \in Memories, NEW b \in Swap, NEW n \in Nat,
         y.swap.bitmap = [x.swap.bitmap EXCEPT ![b] = n]
  PROVE  FreeAfter(x, y, b, n)
<1>1. IsFiniteSet(Swap)
  <2>1. 1 \in Int /\ SwapBlocks \in Int
    BY NotSwap
  <2>2. QED BY <2>1, FS_Interval DEF Swap
<1>2. x.swap.bitmap \in [Swap -> Nat] /\ x.swap.bitmap \in [Swap -> Int]
  <2>1. x.swap.bitmap \in [Swap -> Nat]
    BY DEF Memories
  <2>2. QED BY <2>1
<1>3. CountsAfter(x.swap.bitmap, Swap, b, n, 0)
  BY <1>1, <1>2, CountChanges
<1>4. FreeBlocks(x) = Has(x.swap.bitmap, Swap, 0) /\ FreeBlocks(y) = Has([x.swap.bitmap EXCEPT ![b] = n], Swap, 0)
  BY DEF FreeBlocks, Has
<1>5. QED BY <1>3, <1>4 DEF CountsAfter, FreeAfter

LEMMA UseOfBlock ==
  ASSUME NEW g \in BlockUses, NEW s \in VPlaces, NEW w \in Int, NEW c
  PROVE  [g EXCEPT ![s] = w] \in BlockUses /\ CountsAfter(g, VPlaces, s, w, c)
<1>1. IsFiniteSet(VPlaces) /\ g \in [VPlaces -> Int]
  BY PlacesFinite DEF BlockUses
<1>2. CountsAfter(g, VPlaces, s, w, c)
  BY <1>1, CountChanges
<1>3. QED BY <1>1, <1>2 DEF BlockUses

SwapParts == [bitmap : [Swap -> Nat], free : Int, latest : Int]

SwapSet(x, y, w) ==
    /\ y \in Memories /\ y.free = x.free /\ y.swap = w /\ y.swap_map = x.swap_map
    /\ AllSame(x, y) /\ \A p \in Pages : y.pg[p].count = x.pg[p].count

LEMMA SetSwap ==
  ASSUME NEW x \in Memories, NEW w \in SwapParts
  PROVE  SwapSet(x, [x EXCEPT !.swap = w], w)
BY DEF Memories, SwapParts, AllSame, Same, SwapSet

\* Only the uses of blocks differ.
BlocksSet(x, y, h, k) ==
    /\ Sound(y, h, k) /\ k \in BlockUses
    /\ AllSame(x, y) /\ y.free = x.free /\ y.swap_map = x.swap_map /\ \A p \in Pages : y.pg[p].count = x.pg[p].count

\* A count of a block changes with its uses.
LEMMA BlockCounts ==
  ASSUME NEW x, NEW h, NEW g \in BlockUses, Sound(x, h, g), NEW s \in VPlaces, NEW w \in Int, NEW b \in Swap,
         NEW n \in Nat, NEW y, x.swap.latest # -1, NEW f \in Int, NEW l \in Int, l # -1,
         y = [x EXCEPT !.swap = [bitmap |-> [x.swap.bitmap EXCEPT ![b] = n], free |-> f, latest |-> l]],
         \/ g[s] = b /\ w \notin Swap /\ n = x.swap.bitmap[b] - 1 /\ f = x.swap.free + (IF n = 0 THEN 1 ELSE 0)
         \/ g[s] \notin Swap /\ w = b /\ n = x.swap.bitmap[b] + 1 /\ f = x.swap.free - (IF n = 1 THEN 1 ELSE 0)
  PROVE  BlocksSet(x, y, h, [g EXCEPT ![s] = w])
<1> DEFINE k == [g EXCEPT ![s] = w]
           bitmap == [x.swap.bitmap EXCEPT ![b] = n]
           swap == [bitmap |-> bitmap, free |-> f, latest |-> l]
<1>1. x \in Memories /\ BlocksBalanced(x, g)
  BY DEF Sound
<1>2. x.swap \in SwapParts /\ x.swap.bitmap \in [Swap -> Nat]
  BY <1>1 DEF Memories, SwapParts
<1>3. bitmap \in [Swap -> Nat]
  BY <1>2
<1>4. swap \in SwapParts /\ swap.bitmap = bitmap /\ swap.free = f /\ swap.latest = l
  <2> HIDE DEF bitmap
  <2>1. QED BY <1>2, <1>3 DEF SwapParts
<1>5. y = [x EXCEPT !.swap = swap]
  OBVIOUS
<1> HIDE DEF swap
<1>6. /\ y \in Memories /\ y.free = x.free /\ y.swap = swap /\ AllSame(x, y) /\ y.swap_map = x.swap_map
      /\ \A p \in Pages : y.pg[p].count = x.pg[p].count
  <2>1. SwapSet(x, [x EXCEPT !.swap = swap], swap)
    BY <1>1, <1>4, SetSwap
  <2>2. QED BY <1>5, <2>1 DEF SwapSet
<1>7. y.swap.bitmap = [x.swap.bitmap EXCEPT ![b] = n] /\ y.swap.free = f /\ y.swap.latest # -1
  BY <1>4, <1>6
<1>8. \A c \in Swap : y.swap.bitmap[c] = Cardinality(Has(k, VPlaces, c))
  <2>1. TAKE c \in Swap
  <2>2. CountsAfter(g, VPlaces, s, w, c)
    BY UseOfBlock
  <2>3. x.swap.bitmap[c] = Cardinality(Has(g, VPlaces, c))
    BY <1>1 DEF BlocksBalanced
  <2>4. y.swap.bitmap[c] = IF c = b THEN n ELSE x.swap.bitmap[c]
    BY <1>2, <1>7
  <2>5. QED BY <2>2, <2>3, <2>4 DEF CountsAfter
<1>9. y.swap.free = Cardinality(FreeBlocks(y))
  <2>1. x.swap.free = Cardinality(FreeBlocks(x))
    BY <1>1 DEF BlocksBalanced
  <2>2. FreeAfter(x, y, b, n)
    BY <1>1, <1>6, <1>7, FreeBlockChange
  <2>3. x.swap.bitmap[b] \in Nat
    BY <1>2
  <2>4. QED BY <1>7, <2>1, <2>2, <2>3 DEF FreeAfter
<1>10. BlocksBalanced(y, k)
  BY <1>7, <1>8, <1>9 DEF BlocksBalanced
<1>11. k \in BlockUses
  BY UseOfBlock
<1>12. Fades(x, y)
  BY <1>6, AllSameFades
<1> HIDE DEF k
<1>13. Sound(y, h, k)
  BY <1>6, <1>10, <1>12, OtherParts
<1>14. QED BY <1>6, <1>11, <1>13 DEF k, BlocksSet

LEMMA BlockReleases ==
  ASSUME NEW x, NEW h, NEW g \in BlockUses, Sound(x, h, g), NEW s \in VPlaces, g[s] \in Swap, NEW w \in Int, w \notin Swap
  PROVE  BlocksSet(x, release_swap_block(x, g[s]), h, [g EXCEPT ![s] = w])
<1> DEFINE b == g[s]
           n == x.swap.bitmap[b] - 1
           f == x.swap.free + (IF n = 0 THEN 1 ELSE 0)
           y == release_swap_block(x, b)
<1>1. x \in Memories /\ BlocksBalanced(x, g) /\ x.swap \in SwapParts /\ x.swap.bitmap \in [Swap -> Nat]
  BY DEF Sound, Memories, SwapParts
<1>2. x.swap.latest # -1 /\ x.swap.bitmap[b] = Cardinality(Has(g, VPlaces, b))
  BY <1>1 DEF BlocksBalanced
<1>3. CountsAfter(g, VPlaces, s, w, b)
  BY UseOfBlock
<1>4. n \in Nat /\ f \in Int /\ x.swap.free \in Int /\ x.swap.latest \in Int
  <2>1. x.swap.free \in Int /\ x.swap.latest \in Int
    BY <1>1 DEF SwapParts
  <2>2. n \in Nat
    BY <1>2, <1>3 DEF CountsAfter
  <2> HIDE DEF n
  <2>3. QED BY <2>1, <2>2
<1>5. y = [x EXCEPT !.swap = [bitmap |-> [x.swap.bitmap EXCEPT ![b] = n], free |-> f, latest |-> x.swap.latest]]
  <2>1. f = x.swap.free + (IF x.swap.bitmap[b] = 1 THEN 1 ELSE 0)
    BY <1>1, <1>4
  <2> HIDE DEF f
  <2>2. PICK d : d = [x.swap EXCEPT !.bitmap = [x.swap.bitmap EXCEPT ![b] = n], !.free = f]
    OBVIOUS
  <2>3. d = [bitmap |-> [x.swap.bitmap EXCEPT ![b] = n], free |-> f, latest |-> x.swap.latest]
    BY <1>1, <2>2 DEF SwapParts
  <2>4. y = [x EXCEPT !.swap = d]
    BY <1>1, <2>1, <2>2 DEF release_swap_block, Memories
  <2>5. QED BY <2>3, <2>4
<1>6. n = x.swap.bitmap[b] - 1 /\ f = x.swap.free + (IF n = 0 THEN 1 ELSE 0) /\ g[s] = b /\ b \in Swap
  OBVIOUS
<1> HIDE DEF n, f, y
<1>7. BlocksSet(x, y, h, [g EXCEPT ![s] = w])
  BY <1>2, <1>4, <1>5, <1>6, BlockCounts
<1>8. QED BY <1>7 DEF y

LEMMA BlockShares ==
  ASSUME NEW x, NEW h, NEW g \in BlockUses, Sound(x, h, g), NEW s \in VPlaces, g[s] \notin Swap, NEW b \in Swap,
         x.swap.latest # -1
  PROVE  BlocksSet(x, share_swap_block(x, b), h, [g EXCEPT ![s] = b])
<1> DEFINE n == x.swap.bitmap[b] + 1
           f == x.swap.free - (IF n = 1 THEN 1 ELSE 0)
           y == share_swap_block(x, b)
<1>1. x \in Memories /\ x.swap \in SwapParts /\ x.swap.bitmap \in [Swap -> Nat]
  BY DEF Sound, Memories, SwapParts
<1>2. n \in Nat /\ f \in Int /\ x.swap.free \in Int /\ x.swap.latest \in Int /\ b \in Int
  <2>1. x.swap.bitmap[b] \in Nat /\ x.swap.free \in Int /\ x.swap.latest \in Int
    BY <1>1 DEF SwapParts
  <2>2. b \in Int
    BY NotSwap DEF Swap
  <2>3. QED BY <2>1, <2>2
<1>3. y = [x EXCEPT !.swap = [bitmap |-> [x.swap.bitmap EXCEPT ![b] = n], free |-> f, latest |-> x.swap.latest]]
  <2>1. f = x.swap.free - (IF x.swap.bitmap[b] = 0 THEN 1 ELSE 0)
    BY <1>1, <1>2
  <2> HIDE DEF f
  <2>2. PICK d : d = [x.swap EXCEPT !.bitmap = [x.swap.bitmap EXCEPT ![b] = n], !.free = f]
    OBVIOUS
  <2>3. d = [bitmap |-> [x.swap.bitmap EXCEPT ![b] = n], free |-> f, latest |-> x.swap.latest]
    BY <1>1, <2>2 DEF SwapParts
  <2>4. y = [x EXCEPT !.swap = d]
    BY <1>1, <2>1, <2>2 DEF share_swap_block, Memories
  <2>5. QED BY <2>3, <2>4
<1>4. n = x.swap.bitmap[b] + 1 /\ f = x.swap.free - (IF n = 1 THEN 1 ELSE 0)
  OBVIOUS
<1> HIDE DEF n, f, y
<1>5. BlocksSet(x, y, h, [g EXCEPT ![s] = b])
  BY <1>2, <1>3, <1>4, BlockCounts
<1>6. QED BY <1>5 DEF y

\* fork() only shares blocks that are in use.
LEMMA BlockShared ==
  ASSUME NEW x, NEW h, NEW g \in BlockUses, Sound(x, h, g), NEW s \in VPlaces, NEW b \in Swap, g[s] = b
  PROVE  [x EXCEPT !.swap.bitmap[b] = @ + 1] = share_swap_block(x, b) /\ x.swap.latest # -1
<1>1. x \in Memories /\ BlocksBalanced(x, g) /\ x.swap \in SwapParts
  BY DEF Sound, Memories, SwapParts
<1>2. x.swap.latest # -1 /\ x.swap.bitmap[b] = Cardinality(Has(g, VPlaces, b))
  BY <1>1 DEF BlocksBalanced
<1>3. CountsAfter(g, VPlaces, s, 0, b)
  <2>1. 0 \in Int
    OBVIOUS
  <2>2. QED BY <2>1, UseOfBlock
<1>4. x.swap.bitmap[b] # 0 /\ x.swap.free \in Int
  BY <1>1, <1>2, <1>3 DEF CountsAfter, SwapParts
<1>5. x.swap.free - (IF x.swap.bitmap[b] = 0 THEN 1 ELSE 0) = x.swap.free
  BY <1>4
<1>6. share_swap_block(x, b) = [x EXCEPT !.swap.bitmap[b] = @ + 1, !.swap.free = x.swap.free]
  BY <1>1, <1>5 DEF share_swap_block, Memories
<1>7. PICK bitmap : bitmap = [x.swap.bitmap EXCEPT ![b] = @ + 1]
  OBVIOUS
<1>8. [x EXCEPT !.swap.bitmap[b] = @ + 1, !.swap.free = x.swap.free] = [x EXCEPT !.swap.bitmap = bitmap, !.swap.free = x.swap.free]
  BY ONLY <1>1, <1>7 DEF Memories, SwapParts
<1>9. [x EXCEPT !.swap.bitmap[b] = @ + 1] = [x EXCEPT !.swap.bitmap = bitmap]
  BY ONLY <1>1, <1>7 DEF Memories, SwapParts
<1>10. [x EXCEPT !.swap.bitmap = bitmap, !.swap.free = x.swap.free] = [x EXCEPT !.swap.bitmap = bitmap]
  BY ONLY <1>1 DEF Memories, SwapParts
<1>11. QED BY ONLY <1>2, <1>6, <1>8, <1>9, <1>10

\* A free block, and no page that can be found by it any longer.
LEMMA BlockTaken ==
  ASSUME NEW x, NEW h, NEW g \in BlockUses, Sound(x, h, g), NEW s \in VPlaces, g[s] \notin Swap, NEW b \in FreeBlocks(x),
         x.swap.latest # -1
  PROVE  LET y == get_swap_block(x, b)
         IN  /\ Sound(y, h, [g EXCEPT ![s] = b]) /\ [g EXCEPT ![s] = b] \in BlockUses
             /\ y.free = x.free /\ y.swap_map = x.swap_map /\ \A p \in Pages : y.pg[p].count = x.pg[p].count
             /\ \A p \in Pages : IF p \in pg_hash_search(x, b)
                                 THEN y.pg[p].type = x.pg[p].type /\ y.pg[p].key = None /\ ~y.pg[p].hashed
                                 ELSE Same(x, y, p)
<1> DEFINE ps == pg_hash_search(x, b)
           z == Unhashed(x, ps)
           f == x.swap.free - 1
           y == get_swap_block(x, b)
<1>1. x \in Memories /\ x.swap \in SwapParts /\ x.swap.bitmap \in [Swap -> Nat] /\ b \in Swap /\ x.swap.bitmap[b] = 0
  BY DEF Sound, Memories, SwapParts, FreeBlocks
<1> HIDE DEF ps
<1>2. /\ z \in Memories /\ z.free = x.free /\ SwapSame(x, z)
      /\ \A p \in Pages : /\ z.pg[p].count = x.pg[p].count /\ z.pg[p].type = x.pg[p].type
                          /\ IF p \in ps THEN z.pg[p].key = None /\ ~z.pg[p].hashed ELSE Same(x, z, p)
  BY <1>1, UnhashedParts
<1>3. Sound(z, h, g)
  BY Forgotten
<1>4. y = [z EXCEPT !.swap.bitmap[b] = 1, !.swap.free = @ - 1, !.swap.latest = b]
  BY DEF get_swap_block, ps
<1> HIDE DEF z, y
<1>5. z.swap = x.swap
  BY <1>2 DEF SwapSame
<1>6. y = [z EXCEPT !.swap = [bitmap |-> [z.swap.bitmap EXCEPT ![b] = 1], free |-> z.swap.free - 1, latest |-> b]]
  <2>1. PICK d : d = [z.swap EXCEPT !.bitmap = [z.swap.bitmap EXCEPT ![b] = 1], !.free = z.swap.free - 1, !.latest = b]
    OBVIOUS
  <2>2. d = [bitmap |-> [z.swap.bitmap EXCEPT ![b] = 1], free |-> z.swap.free - 1, latest |-> b]
    BY <1>1, <1>5, <2>1 DEF SwapParts
  <2>3. y = [z EXCEPT !.swap = d]
    BY <1>2, <1>4, <2>1 DEF Memories
  <2>4. QED BY <2>2, <2>3
<1>7. z.swap.free - 1 \in Int /\ b \in Int /\ b # -1 /\ 1 \in Nat
  <2>1. z.swap.free \in Int
    BY <1>1, <1>5 DEF SwapParts
  <2>2. b \in Int /\ b >= 0
    BY <1>1, NotSwap DEF Swap
  <2>3. QED BY <2>1, <2>2
<1>8. 1 = z.swap.bitmap[b] + 1 /\ z.swap.free - 1 = z.swap.free - (IF 1 = 1 THEN 1 ELSE 0) /\ z.swap.latest # -1
  BY <1>1, <1>5
<1>9. BlocksSet(z, y, h, [g EXCEPT ![s] = b])
  BY <1>1, <1>3, <1>6, <1>7, <1>8, BlockCounts
<1>10. \A p \in Pages : IF p \in ps THEN y.pg[p].type = x.pg[p].type /\ y.pg[p].key = None /\ ~y.pg[p].hashed ELSE Same(x, y, p)
  BY <1>2, <1>9 DEF AllSame, Same, BlocksSet
<1>11. QED BY <1>2, <1>9, <1>10 DEF y, ps, BlocksSet, SwapSame

(***************************************************************************)
(* Giving back: a page of an address space, a page table, all of them.     *)
(***************************************************************************)
PageAt(q, v)   == <<"page", q, v>>
TableAt(q, t)  == <<t, q, 0>>
KernelAt(q, i) == <<"kernel", q, i>>
ArgumentsAt(q) == <<"arguments", q, 0>>
SwapperAt      == <<"swapper", 0, 0>>
MapAt          == <<"swap_map", 0, 0>>

LEMMA FourPages == VPages = {TEXT, DATA, HEAP, STACK} /\ \A v \in VPages : TableOf(v) \in Tables
BY DEF VPages, TEXT, DATA, HEAP, STACK, TableOf, Tables

LEMMA PlacesAre ==
  ASSUME NEW q \in Procs
  PROVE  /\ q # 0 /\ q \in Nat
         /\ \A v \in VPages : PageAt(q, v) \in Places /\ <<q, v>> \in VPlaces
         /\ \A t \in Tables : TableAt(q, t) \in Places
         /\ \A i \in {1, 2} : KernelAt(q, i) \in Places
         /\ ArgumentsAt(q) \in Places /\ SwapperAt \in Places /\ MapAt \in Places
<1>1. q # 0 /\ q \in Nat
  BY MemoryAssumption
<1>2. /\ \A v \in VPages : PageAt(q, v) \in Places /\ <<q, v>> \in VPlaces
      /\ \A t \in Tables : TableAt(q, t) \in Places
  BY DEF PageAt, TableAt, Places, VPlaces
<1>3. /\ \A i \in {1, 2} : KernelAt(q, i) \in Places
      /\ ArgumentsAt(q) \in Places /\ SwapperAt \in Places /\ MapAt \in Places
  BY DEF KernelAt, ArgumentsAt, SwapperAt, MapAt, Places
<1>4. QED BY <1>1, <1>2, <1>3

Emptied(h, A) == [place \in Places |-> IF place \in A THEN 0 ELSE h[place]]
Freed(g, B)   == [s \in VPlaces |-> IF s \in B THEN None ELSE g[s]]

Released(x, y, h, g, A, B) ==
    /\ Sound(y, Emptied(h, A), Freed(g, B)) /\ Emptied(h, A) \in Uses /\ Freed(g, B) \in BlockUses
    /\ AllSame(x, y) /\ y.swap_map = x.swap_map /\ Len(y.free) >= Len(x.free)

LEMMA NothingReleased ==
  ASSUME NEW x, NEW h \in Uses, NEW g \in BlockUses, Sound(x, h, g)
  PROVE  Released(x, x, h, g, {}, {})
<1>1. Emptied(h, {}) = h /\ Freed(g, {}) = g
  BY DEF Uses, BlockUses, Emptied, Freed
<1>2. x.free \in Seq(Pages)
  BY DEF Sound, Memories
<1>3. Len(x.free) >= Len(x.free) /\ AllSame(x, x)
  BY <1>2 DEF AllSame, Same
<1>4. QED BY <1>1, <1>3 DEF Released

LEMMA PageReleased ==
  ASSUME NEW x, NEW y, NEW h \in Uses, NEW g \in BlockUses, NEW A, NEW B, Released(x, y, h, g, A, B),
         Len(x.free) \in Nat, NEW place \in Places, place \notin A, h[place] # 0
  PROVE  Released(x, release_page(y, h[place]), h, g, A \cup {place}, B)
<1> DEFINE i == Emptied(h, A)
           z == release_page(y, h[place])
<1>1. Sound(y, i, Freed(g, B)) /\ i \in Uses /\ i[place] = h[place] /\ i[place] # 0
  BY DEF Released, Emptied
<1>2. Emptied(h, A \cup {place}) = [i EXCEPT ![place] = 0]
  BY DEF Emptied
<1> HIDE DEF i
<1>3. /\ Sound(release_page(y, i[place]), [i EXCEPT ![place] = 0], Freed(g, B)) /\ [i EXCEPT ![place] = 0] \in Uses
      /\ AllSame(y, release_page(y, i[place])) /\ SwapSame(y, release_page(y, i[place]))
      /\ Len(release_page(y, i[place]).free) >= Len(y.free)
  BY <1>1, Releases
<1>4. release_page(y, i[place]) = z
  BY <1>1
<1> HIDE DEF z
<1>5. AllSame(x, z) /\ z.swap_map = x.swap_map
  BY <1>3, <1>4 DEF Released, AllSame, Same, SwapSame
<1>6. Len(z.free) \in Nat /\ Len(y.free) \in Nat
  BY <1>1, <1>3, <1>4 DEF Sound, Memories
<1>7. Len(z.free) >= Len(x.free)
  BY <1>3, <1>4, <1>6 DEF Released
<1>8. QED BY <1>2, <1>3, <1>4, <1>5, <1>7 DEF Released, z

\* delete_page() of entry e of a process that reads no block into it.
EntryAt(e, h, g, place, s) == h[place] = e.page /\ g[s] = (IF ~e.present /\ e.type = PAGE_SWAP THEN e.key ELSE None)

LEMMA EntryDeleted ==
  ASSUME NEW x, NEW y, NEW h \in Uses, NEW g \in BlockUses, NEW A, NEW B, Released(x, y, h, g, A, B),
         Len(x.free) \in Nat, NEW q \in Procs, NEW v \in VPages, NEW e, EntryOK(e), EntryAt(e, h, g, PageAt(q, v), <<q, v>>),
         PageAt(q, v) \notin A, <<q, v>> \notin B
  PROVE  Released(x, delete_page(y, e), h, g, A \cup {PageAt(q, v)}, B \cup {<<q, v>>})
<1> DEFINE place == PageAt(q, v)
           s == <<q, v>>
           z == delete_page(y, e)
<1>1. place \in Places /\ s \in VPlaces
  BY PlacesAre
<1>2. Sound(y, Emptied(h, A), Freed(g, B)) /\ Freed(g, B) \in BlockUses /\ Freed(g, B)[s] = g[s]
  BY <1>1 DEF Released, Freed
<1>3. CASE e.present
  <2>1. h[place] = e.page /\ h[place] # 0 /\ g[s] = None
    BY <1>3 DEF EntryOK, EntryAt
  <2>2. Released(x, release_page(y, h[place]), h, g, A \cup {place}, B)
    BY <1>1, <2>1, PageReleased
  <2>3. Freed(g, B \cup {s}) = Freed(g, B)
    BY <2>1 DEF Freed
  <2>4. z = release_page(y, h[place])
    BY <1>3, <2>1 DEF delete_page
  <2>5. QED BY <2>2, <2>3, <2>4 DEF Released
<1>4. CASE ~e.present
  <2>1. h[place] = 0
    BY <1>4 DEF EntryOK, EntryAt
  <2>2. Emptied(h, A \cup {place}) = Emptied(h, A)
    BY <2>1 DEF Emptied
  <2>3. CASE e.type = PAGE_SWAP
    <3>1. e.key \in Swap /\ e.key # None /\ g[s] = e.key
      BY <1>4, <2>3, NotSwap DEF EntryOK, EntryAt
    <3>2. z = release_swap_block(y, Freed(g, B)[s])
      BY <1>2, <1>4, <2>3, <3>1 DEF delete_page
    <3>3. Freed(g, B \cup {s}) = [Freed(g, B) EXCEPT ![s] = None]
      BY DEF Freed
    <3>4. BlocksSet(y, release_swap_block(y, Freed(g, B)[s]), Emptied(h, A), [Freed(g, B) EXCEPT ![s] = None])
      <4>1. Freed(g, B)[s] \in Swap /\ None \in Int /\ None \notin Swap
        BY <1>2, <3>1, NotSwap DEF None
      <4>2. QED BY <1>1, <1>2, <4>1, BlockReleases
    <3> HIDE DEF z
    <3>5. /\ Sound(z, Emptied(h, A), Freed(g, B \cup {s})) /\ Freed(g, B \cup {s}) \in BlockUses
          /\ AllSame(y, z) /\ z.free = y.free /\ z.swap_map = y.swap_map
      BY <3>2, <3>3, <3>4 DEF BlocksSet
    <3>6. AllSame(x, z)
      BY <3>5 DEF Released, AllSame, Same
    <3>7. QED BY <2>2, <3>5, <3>6 DEF Released, z
  <2>4. CASE e.type # PAGE_SWAP
    <3>1. z = y
      BY <1>4, <2>4 DEF delete_page
    <3>2. g[s] = None
      BY <2>4 DEF EntryAt
    <3>3. Freed(g, B \cup {s}) = Freed(g, B)
      BY <3>2 DEF Freed
    <3>4. QED BY <2>2, <3>1, <3>3 DEF Released
  <2>5. QED BY <2>3, <2>4
<1>5. QED BY <1>3, <1>4

\* h and g are what process q uses.
Fits(q, h, g) ==
    /\ \A v \in VPages : EntryOK(u_area[q].pgtbl[v]) /\ EntryAt(u_area[q].pgtbl[v], h, g, PageAt(q, v), <<q, v>>)
    /\ \A t \in Tables : h[TableAt(q, t)] = u_area[q].tables[t]

LEMMA TableReleased ==
  ASSUME NEW x, NEW y, NEW h \in Uses, NEW g \in BlockUses, NEW A, NEW B, Released(x, y, h, g, A, B),
         Len(x.free) \in Nat, NEW q \in Procs, NEW t \in Tables, Fits(q, h, g), TableAt(q, t) \notin A
  PROVE  Released(x, WithoutTable(y, q, t), h, g, A \cup {TableAt(q, t)}, B)
<1> DEFINE place == TableAt(q, t)
           p == u_area[q].tables[t]
<1>1. place \in Places /\ h[place] = p
  BY PlacesAre DEF Fits
<1>2. CASE p = 0
  <2>1. Emptied(h, A \cup {place}) = Emptied(h, A) /\ WithoutTable(y, q, t) = y
    BY <1>1, <1>2 DEF Emptied, WithoutTable
  <2>2. QED BY <2>1 DEF Released
<1>3. CASE p # 0
  <2>1. Released(x, release_page(y, h[place]), h, g, A \cup {place}, B)
    BY <1>1, <1>3, PageReleased
  <2>2. WithoutTable(y, q, t) = release_page(y, h[place])
    BY <1>1, <1>3 DEF WithoutTable
  <2>3. QED BY <2>1, <2>2
<1>4. QED BY <1>2, <1>3

LEMMA PageDetached ==
  ASSUME NEW x, NEW y, NEW h \in Uses, NEW g \in BlockUses, NEW A, NEW B, Released(x, y, h, g, A, B),
         Len(x.free) \in Nat, NEW q \in Procs, NEW v \in VPages, Fits(q, h, g), PageAt(q, v) \notin A, <<q, v>> \notin B
  PROVE  Released(x, Detached(y, q, v), h, g, A \cup {PageAt(q, v)}, B \cup {<<q, v>>})
<1>1. EntryOK(u_area[q].pgtbl[v]) /\ EntryAt(u_area[q].pgtbl[v], h, g, PageAt(q, v), <<q, v>>)
  BY DEF Fits
<1>2. QED BY <1>1, EntryDeleted DEF Detached

HeapPlaces(q) == {PageAt(q, HEAP), TableAt(q, "heap")}
OwnPlaces(q)  == {PageAt(q, v) : v \in VPages} \cup {TableAt(q, t) : t \in Tables}
OwnBlocks(q)  == {q} \X VPages

LEMMA HeapReleased ==
  ASSUME NEW x, NEW h \in Uses, NEW g \in BlockUses, Sound(x, h, g), NEW q \in Procs, Fits(q, h, g)
  PROVE  Released(x, WithoutHeap(x, q), h, g, HeapPlaces(q), {<<q, HEAP>>})
<1>1. HEAP \in VPages /\ "heap" \in Tables /\ Len(x.free) \in Nat
  BY FourPages DEF Tables, Sound, Memories
<1>2. Released(x, x, h, g, {}, {})
  BY NothingReleased
<1>3. Released(x, Detached(x, q, HEAP), h, g, {} \cup {PageAt(q, HEAP)}, {} \cup {<<q, HEAP>>})
  BY <1>1, <1>2, PageDetached
<1>4. Released(x, Detached(x, q, HEAP), h, g, {PageAt(q, HEAP)}, {<<q, HEAP>>})
  BY <1>3
<1>5. TableAt(q, "heap") \notin {PageAt(q, HEAP)}
  BY DEF TableAt, PageAt
<1>6. Released(x, WithoutTable(Detached(x, q, HEAP), q, "heap"), h, g, {PageAt(q, HEAP)} \cup {TableAt(q, "heap")}, {<<q, HEAP>>})
  BY <1>1, <1>4, <1>5, TableReleased
<1>7. {PageAt(q, HEAP)} \cup {TableAt(q, "heap")} = HeapPlaces(q)
  BY DEF HeapPlaces
<1>8. QED BY <1>6, <1>7 DEF WithoutHeap

LEMMA MemoryReleased ==
  ASSUME NEW x, NEW h \in Uses, NEW g \in BlockUses, Sound(x, h, g), NEW q \in Procs, Fits(q, h, g)
  PROVE  Released(x, release_memory(x, q), h, g, OwnPlaces(q), OwnBlocks(q))
<1> DEFINE P(v) == PageAt(q, v)
           T(t) == TableAt(q, t)
           A1 == {P(TEXT)}
           A2 == A1 \cup {P(DATA)}
           A3 == A2 \cup {T("image")}
           A4 == A3 \cup {P(HEAP)}
           A5 == A4 \cup {T("heap")}
           A6 == A5 \cup {P(STACK)}
           A7 == A6 \cup {T("stack")}
           B1 == {<<q, TEXT>>}
           B2 == B1 \cup {<<q, DATA>>}
           B4 == B2 \cup {<<q, HEAP>>}
           B6 == B4 \cup {<<q, STACK>>}
           y1 == Detached(x, q, TEXT)
           y2 == Detached(y1, q, DATA)
           y3 == WithoutTable(y2, q, "image")
           y4 == Detached(y3, q, HEAP)
           y5 == WithoutTable(y4, q, "heap")
           y6 == Detached(y5, q, STACK)
           y7 == WithoutTable(y6, q, "stack")
<1>1. /\ TEXT \in VPages /\ DATA \in VPages /\ HEAP \in VPages /\ STACK \in VPages
      /\ "image" \in Tables /\ "heap" \in Tables /\ "stack" \in Tables /\ Len(x.free) \in Nat
  BY FourPages DEF Tables, Sound, Memories
<1>2. /\ P(DATA) \notin A1 /\ T("image") \notin A2 /\ P(HEAP) \notin A3 /\ T("heap") \notin A4 /\ P(STACK) \notin A5
      /\ T("stack") \notin A6 /\ <<q, DATA>> \notin B1 /\ <<q, HEAP>> \notin B2 /\ <<q, STACK>> \notin B4
  BY DEF PageAt, TableAt, TEXT, DATA, HEAP, STACK
<1>3. A7 = OwnPlaces(q) /\ B6 = OwnBlocks(q)
  BY FourPages DEF OwnPlaces, OwnBlocks, Tables
<1>4. y7 = release_memory(x, q)
  BY DEF release_memory, WithoutHeap
<1>5. Released(x, x, h, g, {}, {})
  BY NothingReleased
<1>6. Released(x, y1, h, g, A1, B1)
  <2>1. Released(x, y1, h, g, {} \cup {P(TEXT)}, {} \cup {<<q, TEXT>>})
    BY <1>1, <1>5, PageDetached
  <2>2. QED BY <2>1
<1> HIDE DEF y1, A1, B1
<1>7. Released(x, y2, h, g, A2, B2)
  BY <1>1, <1>2, <1>6, PageDetached
<1> HIDE DEF y2, A2, B2
<1>8. Released(x, y3, h, g, A3, B2)
  BY <1>1, <1>2, <1>7, TableReleased
<1> HIDE DEF y3, A3
<1>9. Released(x, y4, h, g, A4, B4)
  BY <1>1, <1>2, <1>8, PageDetached
<1> HIDE DEF y4, A4, B4
<1>10. Released(x, y5, h, g, A5, B4)
  BY <1>1, <1>2, <1>9, TableReleased
<1> HIDE DEF y5, A5
<1>11. Released(x, y6, h, g, A6, B6)
  BY <1>1, <1>2, <1>10, PageDetached
<1> HIDE DEF y6, A6, B6
<1>12. Released(x, y7, h, g, A7, B6)
  BY <1>1, <1>2, <1>11, TableReleased
<1>13. QED BY <1>3, <1>4, <1>12

(***************************************************************************)
(* Sharing: the child of fork() uses what its parent uses.                 *)
(***************************************************************************)
Given(h, q, c, A) ==
    [place \in Places |-> IF place[1] = "page" /\ place[2] = c /\ place[3] \in A THEN h[PageAt(q, place[3])] ELSE h[place]]
GivenBlocks(g, q, c, A) == [s \in VPlaces |-> IF s[1] = c /\ s[2] \in A THEN g[<<q, s[2]>>] ELSE g[s]]

GivenTo(x, y, h, g, q, c, A) ==
    /\ Sound(y, Given(h, q, c, A), GivenBlocks(g, q, c, A))
    /\ Given(h, q, c, A) \in Uses /\ GivenBlocks(g, q, c, A) \in BlockUses
    /\ AllSame(x, y) /\ y.swap_map = x.swap_map /\ Len(y.free) <= Len(x.free)

\* A page in use gets one more.
LEMMA UsedPageShared ==
  ASSUME NEW x \in Memories, NEW p \in Pages, p \notin Range(x.free)
  PROVE  [x EXCEPT !.pg[p].count = @ + 1] = reuse_page(x, p)
<1>1. {i \in DOMAIN x.free : x.free[i] = p} = {}
  BY DEF Range
<1>2. reuse_page(x, p) = [x EXCEPT !.pg[p].count = @ + 1, !.free = x.free]
  BY <1>1 DEF reuse_page
<1>3. PICK y : y = [x EXCEPT !.pg[p].count = @ + 1]
  OBVIOUS
<1>4. PICK z : z = [x EXCEPT !.pg[p].count = @ + 1, !.free = x.free]
  OBVIOUS
<1>5. y = z
  BY <1>3, <1>4 DEF Memories
<1>6. QED BY <1>2, <1>3, <1>4, <1>5

GivenOne(h, g, q, c, A, v) ==
    /\ Given(h, q, c, A \cup {v}) = [Given(h, q, c, A) EXCEPT ![PageAt(c, v)] = h[PageAt(q, v)]]
    /\ GivenBlocks(g, q, c, A \cup {v}) = [GivenBlocks(g, q, c, A) EXCEPT ![<<c, v>>] = g[<<q, v>>]]
    /\ Given(h, q, c, A)[PageAt(c, v)] = h[PageAt(c, v)] /\ Given(h, q, c, A)[PageAt(q, v)] = h[PageAt(q, v)]
    /\ GivenBlocks(g, q, c, A)[<<c, v>>] = g[<<c, v>>] /\ GivenBlocks(g, q, c, A)[<<q, v>>] = g[<<q, v>>]

LEMMA GivenIs ==
  ASSUME NEW h \in Uses, NEW g \in BlockUses, NEW q \in Procs, NEW c \in Procs, q # c, NEW A, NEW v \in VPages, v \notin A
  PROVE  GivenOne(h, g, q, c, A, v)
<1>1. PageAt(c, v) \in Places /\ PageAt(q, v) \in Places /\ <<c, v>> \in VPlaces /\ <<q, v>> \in VPlaces
  BY PlacesAre
<1>2. /\ Given(h, q, c, A)[PageAt(c, v)] = h[PageAt(c, v)] /\ Given(h, q, c, A)[PageAt(q, v)] = h[PageAt(q, v)]
      /\ GivenBlocks(g, q, c, A)[<<c, v>>] = g[<<c, v>>] /\ GivenBlocks(g, q, c, A)[<<q, v>>] = g[<<q, v>>]
  BY <1>1 DEF Given, GivenBlocks, PageAt
<1>3. ASSUME NEW place \in Places
      PROVE  Given(h, q, c, A \cup {v})[place] = [Given(h, q, c, A) EXCEPT ![PageAt(c, v)] = h[PageAt(q, v)]][place]
  <2>1. place = PageAt(c, v) <=> place[1] = "page" /\ place[2] = c /\ place[3] = v
    BY DEF Places, PageAt
  <2>2. CASE place = PageAt(c, v)
    BY <1>1, <2>1, <2>2 DEF Given
  <2>3. CASE place # PageAt(c, v)
    BY <1>1, <2>1, <2>3 DEF Given
  <2>4. QED BY <2>2, <2>3
<1>4. Given(h, q, c, A \cup {v}) = [Given(h, q, c, A) EXCEPT ![PageAt(c, v)] = h[PageAt(q, v)]]
  <2>1. DOMAIN [Given(h, q, c, A) EXCEPT ![PageAt(c, v)] = h[PageAt(q, v)]] = Places /\ DOMAIN Given(h, q, c, A \cup {v}) = Places
    BY DEF Given
  <2>2. QED BY <1>3, <2>1 DEF Given
<1>5. GivenBlocks(g, q, c, A \cup {v}) = [GivenBlocks(g, q, c, A) EXCEPT ![<<c, v>>] = g[<<q, v>>]]
  <2>1. ASSUME NEW s \in VPlaces
        PROVE  GivenBlocks(g, q, c, A \cup {v})[s] = [GivenBlocks(g, q, c, A) EXCEPT ![<<c, v>>] = g[<<q, v>>]][s]
    <3>1. s = <<c, v>> <=> s[1] = c /\ s[2] = v
      BY DEF VPlaces
    <3>2. CASE s = <<c, v>>
      BY <1>1, <3>1, <3>2 DEF GivenBlocks
    <3>3. CASE s # <<c, v>>
      BY <1>1, <3>1, <3>3 DEF GivenBlocks
    <3>4. QED BY <3>2, <3>3
  <2>2. DOMAIN [GivenBlocks(g, q, c, A) EXCEPT ![<<c, v>>] = g[<<q, v>>]] = VPlaces /\ DOMAIN GivenBlocks(g, q, c, A \cup {v}) = VPlaces
    BY DEF GivenBlocks
  <2>3. QED BY <2>1, <2>2 DEF GivenBlocks
<1>6. QED BY <1>2, <1>4, <1>5 DEF GivenOne

LEMMA EntryShared ==
  ASSUME NEW x, NEW y, NEW h \in Uses, NEW g \in BlockUses, NEW q \in Procs, NEW c \in Procs, q # c, NEW A,
         GivenTo(x, y, h, g, q, c, A), Len(x.free) \in Nat, NEW v \in VPages, v \notin A, h[PageAt(c, v)] = 0, g[<<c, v>>] = None,
         NEW e, EntryOK(e), EntryAt(e, h, g, PageAt(q, v), <<q, v>>)
  PROVE  GivenTo(x, Shared(y, e), h, g, q, c, A \cup {v})
<1> DEFINE place == PageAt(c, v)
           s == <<c, v>>
           i == Given(h, q, c, A)
           k == GivenBlocks(g, q, c, A)
           z == Shared(y, e)
<1>1. place \in Places /\ s \in VPlaces /\ PageAt(q, v) \in Places /\ <<q, v>> \in VPlaces
  BY PlacesAre
<1>2. /\ Sound(y, i, k) /\ i \in Uses /\ k \in BlockUses /\ AllSame(x, y) /\ y.swap_map = x.swap_map
      /\ Len(y.free) <= Len(x.free)
  BY DEF GivenTo
<1>3. /\ Given(h, q, c, A \cup {v}) = [i EXCEPT ![place] = h[PageAt(q, v)]]
      /\ GivenBlocks(g, q, c, A \cup {v}) = [k EXCEPT ![s] = g[<<q, v>>]]
      /\ i[place] = 0 /\ i[PageAt(q, v)] = h[PageAt(q, v)] /\ k[s] = None /\ k[<<q, v>>] = g[<<q, v>>]
  <2>1. GivenOne(h, g, q, c, A, v)
    BY GivenIs
  <2>2. QED BY <2>1 DEF GivenOne
<1> HIDE DEF i, k
<1>4. CASE e.present
  <2>1. h[PageAt(q, v)] = e.page /\ e.page # 0 /\ g[<<q, v>>] = None
    BY <1>4 DEF EntryOK, EntryAt
  <2>2. e.page \in Pages
    BY <1>1, <2>1, NotSwap DEF Uses, Pages
  <2>3. e.page \notin Range(y.free) /\ y \in Memories
    <3>1. y.pg[e.page].count = Cardinality(Has(i, Places, e.page))
      BY <1>2, <2>2 DEF Sound, PagesBalanced
    <3>2. IsFiniteSet(Places) /\ i \in [Places -> Int] /\ i[PageAt(q, v)] = e.page
      BY <1>2, <1>3, <2>1, PlacesFinite, NotSwap DEF Uses
    <3>3. CountsAfter(i, Places, PageAt(q, v), 0, e.page)
      BY <1>1, <3>2, CountChanges
    <3>4. y.pg[e.page].count # 0
      BY <3>1, <3>2, <3>3 DEF CountsAfter
    <3>5. QED BY <1>2, <2>2, <3>4 DEF Sound, PagesBalanced
  <2>4. z = reuse_page(y, e.page)
    BY <1>4, <2>2, <2>3, UsedPageShared DEF Shared
  <2> HIDE DEF z
  <2>5. /\ Sound(z, [i EXCEPT ![place] = e.page], k) /\ [i EXCEPT ![place] = e.page] \in Uses
        /\ AllSame(y, z) /\ Len(z.free) <= Len(y.free) /\ SwapSame(y, z)
    <3>1. y \in Memories /\ i \in Uses /\ Sound(y, i, k) /\ place \in Places /\ i[place] = 0
      BY <1>1, <1>2, <1>3, <2>3
    <3>2. QED BY ONLY <2>2, <2>4, <3>1, Reuses
  <2>6. GivenBlocks(g, q, c, A \cup {v}) = k
    BY <1>2, <1>3, <2>1 DEF BlockUses
  <2>7. AllSame(x, z) /\ z.swap_map = x.swap_map
    BY <1>2, <2>5 DEF AllSame, Same, SwapSame
  <2>8. Len(z.free) <= Len(x.free)
    <3>1. Len(z.free) \in Nat /\ Len(y.free) \in Nat
      BY <1>2, <2>5 DEF Sound, Memories
    <3>2. QED BY <1>2, <2>5, <3>1
  <2>9. QED BY <1>2, <1>3, <2>1, <2>5, <2>6, <2>7, <2>8 DEF GivenTo, z
<1>5. CASE ~e.present
  <2>1. h[PageAt(q, v)] = 0
    BY <1>5 DEF EntryOK, EntryAt
  <2>2. Given(h, q, c, A \cup {v}) = i
    BY <1>2, <1>3, <2>1 DEF Uses
  <2>3. CASE e.type = PAGE_SWAP
    <3>1. e.key \in Swap /\ e.key # None /\ g[<<q, v>>] = e.key
      BY <1>5, <2>3, NotSwap DEF EntryOK, EntryAt
    <3>2. z = [y EXCEPT !.swap.bitmap[e.key] = @ + 1]
      BY <1>5, <2>3, <3>1 DEF Shared
    <3>3. [y EXCEPT !.swap.bitmap[e.key] = @ + 1] = share_swap_block(y, e.key) /\ y.swap.latest # -1
      BY <1>1, <1>2, <1>3, <3>1, BlockShared
    <3>4. BlocksSet(y, share_swap_block(y, e.key), i, [k EXCEPT ![s] = e.key])
      BY <1>1, <1>2, <1>3, <3>1, <3>3, NotSwap, BlockShares
    <3>5. z = share_swap_block(y, e.key)
      BY <3>2, <3>3
    <3> HIDE DEF z
    <3>6. /\ Sound(z, i, [k EXCEPT ![s] = e.key]) /\ [k EXCEPT ![s] = e.key] \in BlockUses
          /\ AllSame(y, z) /\ z.free = y.free /\ z.swap_map = y.swap_map
      BY <3>4, <3>5 DEF BlocksSet
    <3>7. AllSame(x, z)
      BY <1>2, <3>6 DEF AllSame, Same
    <3>8. QED BY <1>2, <1>3, <2>2, <3>1, <3>6, <3>7 DEF GivenTo, z
  <2>4. CASE e.type # PAGE_SWAP
    <3>1. z = y
      BY <1>5, <2>4 DEF Shared
    <3>2. GivenBlocks(g, q, c, A \cup {v}) = k
      BY <1>2, <1>3, <2>4 DEF EntryAt, BlockUses
    <3>3. QED BY <1>2, <2>2, <3>1, <3>2 DEF GivenTo
  <2>5. QED BY <2>3, <2>4
<1>6. QED BY <1>4, <1>5

LEMMA AllEntriesShared ==
  ASSUME NEW x, NEW h \in Uses, NEW g \in BlockUses, Sound(x, h, g), NEW q \in Procs, NEW c \in Procs, q # c, NEW pgtbl,
         \A v \in VPages : /\ EntryOK(pgtbl[v]) /\ EntryAt(pgtbl[v], h, g, PageAt(q, v), <<q, v>>)
                           /\ h[PageAt(c, v)] = 0 /\ g[<<c, v>>] = None
  PROVE  GivenTo(x, AllShared(x, pgtbl), h, g, q, c, VPages)
<1> DEFINE A1 == {TEXT}
           A2 == A1 \cup {DATA}
           A3 == A2 \cup {HEAP}
           A4 == A3 \cup {STACK}
           y1 == Shared(x, pgtbl[TEXT])
           y2 == Shared(y1, pgtbl[DATA])
           y3 == Shared(y2, pgtbl[HEAP])
           y4 == Shared(y3, pgtbl[STACK])
<1>1. TEXT \in VPages /\ DATA \in VPages /\ HEAP \in VPages /\ STACK \in VPages /\ Len(x.free) \in Nat
  BY FourPages DEF Sound, Memories
<1>2. DATA \notin A1 /\ HEAP \notin A2 /\ STACK \notin A3
  BY DEF TEXT, DATA, HEAP, STACK
<1>3. A4 = VPages /\ y4 = AllShared(x, pgtbl)
  BY FourPages DEF AllShared
<1>4. GivenTo(x, x, h, g, q, c, {})
  <2>1. Given(h, q, c, {}) = h /\ GivenBlocks(g, q, c, {}) = g
    BY DEF Given, GivenBlocks, Uses, BlockUses
  <2>2. AllSame(x, x) /\ Len(x.free) <= Len(x.free)
    BY <1>1 DEF AllSame, Same
  <2>3. QED BY <2>1, <2>2 DEF GivenTo
<1>5. GivenTo(x, y1, h, g, q, c, A1)
  <2>1. GivenTo(x, y1, h, g, q, c, {} \cup {TEXT})
    BY <1>1, <1>4, EntryShared
  <2>2. QED BY <2>1
<1> HIDE DEF y1, A1
<1>6. GivenTo(x, y2, h, g, q, c, A2)
  BY <1>1, <1>2, <1>5, EntryShared
<1> HIDE DEF y2, A2
<1>7. GivenTo(x, y3, h, g, q, c, A3)
  BY <1>1, <1>2, <1>6, EntryShared
<1> HIDE DEF y3, A3
<1>8. GivenTo(x, y4, h, g, q, c, A4)
  BY <1>1, <1>2, <1>7, EntryShared
<1>9. QED BY <1>3, <1>8

(***************************************************************************)
(* A step of one process: what it uses afterwards, and what the others     *)
(* keep.                                                                   *)
(***************************************************************************)
LEMMA Uses0 ==
  ASSUME MemInv
  PROVE  /\ Holding \in Uses /\ Blocks \in BlockUses /\ Sound(m, Holding, Blocks)
         /\ m \in Memories /\ u_area \in [Procs -> Areas] /\ Len(m.free) \in Nat
<1>1. m \in Memories /\ u_area \in [Procs -> Areas] /\ sw \in Swappers /\ Sound(m, Holding, Blocks)
  BY DEF MemInv, TypeOK
<1>2. Len(m.free) \in Nat
  BY <1>1 DEF Memories
<1>3. Holding \in Uses
  <2>1. ASSUME NEW place \in Places PROVE Holds(place) \in 0..NPages
    <3>1. CASE place[1] = "swapper"
      BY <1>1, <3>1 DEF Holds, Swappers
    <3>2. CASE place[1] = "swap_map"
      BY <1>1, <3>2 DEF Holds, Memories
    <3>3. CASE place[1] \notin {"swapper", "swap_map"}
      <4>1. Holds(place) = PageIn(u_area[place[2]], place[1], place[3])
        BY <3>3 DEF Holds
      <4>2. place[2] \in Procs
        BY <3>3 DEF Places
      <4>3. u_area[place[2]] \in Areas
        BY <1>1, <4>2
      <4>4. CASE place[1] = "page"
        <5>1. place[3] \in VPages
          BY <4>4 DEF Places, Tables
        <5>2. u_area[place[2]].pgtbl[place[3]] \in Entries
          BY <4>3, <5>1 DEF Areas
        <5>3. QED BY <4>1, <4>4, <5>2 DEF PageIn, Entries
      <4>5. CASE place[1] \in Tables
        BY <4>1, <4>3, <4>5 DEF PageIn, Areas, Tables
      <4>6. CASE place[1] = "kernel"
        <5>1. place[3] \in {1, 2}
          BY <4>6 DEF Places, Tables
        <5>2. QED BY <4>1, <4>3, <4>6, <5>1 DEF PageIn, Areas, Tables
      <4>7. CASE place[1] = "arguments"
        BY <4>1, <4>3, <4>7 DEF PageIn, Areas, Tables
      <4>8. QED BY <3>3, <4>4, <4>5, <4>6, <4>7 DEF Places
    <3>4. QED BY <3>1, <3>2, <3>3
  <2>2. QED BY <2>1 DEF Holding, Uses
<1>4. Blocks \in BlockUses
  <2>1. ASSUME NEW s \in VPlaces PROVE BlockOf(u_area[s[1]], s[2]) \in Int
    <3>1. u_area[s[1]] \in Areas /\ s[2] \in VPages /\ None \in Int
      BY <1>1 DEF VPlaces, None
    <3>2. u_area[s[1]].pgtbl[s[2]] \in Entries
      BY <3>1 DEF Areas
    <3>3. u_area[s[1]].pgtbl[s[2]].key \in Int /\ u_area[s[1]].busyblock \in Int
      BY <3>1, <3>2, KeysAre DEF Areas, Entries
    <3>4. QED BY <3>1, <3>3 DEF BlockOf
  <2>2. QED BY <2>1 DEF Blocks, BlockUses
<1>5. QED BY <1>1, <1>2, <1>3, <1>4

LEMMA HoldingAt ==
  ASSUME NEW q \in Procs
  PROVE  /\ \A v \in VPages : Holding[PageAt(q, v)] = u_area[q].pgtbl[v].page /\ Blocks[<<q, v>>] = BlockOf(u_area[q], v)
         /\ \A t \in Tables : Holding[TableAt(q, t)] = u_area[q].tables[t]
         /\ \A i \in {1, 2} : Holding[KernelAt(q, i)] = u_area[q].kernel[i]
         /\ Holding[ArgumentsAt(q)] = u_area[q].page /\ Holding[SwapperAt] = sw.page /\ Holding[MapAt] = m.swap_map
<1>1. /\ \A v \in VPages : Holding[PageAt(q, v)] = u_area[q].pgtbl[v].page /\ Blocks[<<q, v>>] = BlockOf(u_area[q], v)
      /\ \A i \in {1, 2} : Holding[KernelAt(q, i)] = u_area[q].kernel[i]
      /\ Holding[ArgumentsAt(q)] = u_area[q].page /\ Holding[SwapperAt] = sw.page /\ Holding[MapAt] = m.swap_map
  BY PlacesAre DEF Holding, Blocks, Holds, PageIn, PageAt, KernelAt, ArgumentsAt, SwapperAt, MapAt, Tables
<1>2. ASSUME NEW t \in Tables PROVE Holding[TableAt(q, t)] = u_area[q].tables[t]
  <2>1. t # "swapper" /\ t # "swap_map" /\ t # "page"
    BY DEF Tables
  <2>2. QED BY <2>1, PlacesAre DEF Holding, Holds, PageIn, TableAt
<1>3. QED BY <1>1, <1>2

\* Where a place can be.
LEMMA PlacesOf ==
  ASSUME NEW place \in Places
  PROVE  \/ place = SwapperAt \/ place = MapAt
         \/ place[2] \in Procs /\ \/ \E v \in VPages : place = PageAt(place[2], v)
                                  \/ \E t \in Tables : place = TableAt(place[2], t)
                                  \/ \E i \in {1, 2} : place = KernelAt(place[2], i)
                                  \/ place = ArgumentsAt(place[2])
<1>1. CASE place \in {"page"} \X Procs \X VPages
  BY <1>1 DEF PageAt
<1>2. CASE place \in Tables \X Procs \X {0}
  BY <1>2 DEF TableAt
<1>3. CASE place \in {"kernel"} \X Procs \X {1, 2}
  BY <1>3 DEF KernelAt
<1>4. CASE place \in {"arguments"} \X Procs \X {0}
  BY <1>4 DEF ArgumentsAt
<1>5. CASE place \in {"swapper", "swap_map"} \X {0} \X {0}
  BY <1>5 DEF SwapperAt, MapAt
<1>6. QED BY <1>1, <1>2, <1>3, <1>4, <1>5 DEF Places

\* The pages h of the process that became r, and its blocks g.
HoldsNext(q, r, h) ==
    /\ h[SwapperAt] = sw'.page /\ h[MapAt] = m'.swap_map
    /\ \A v \in VPages : h[PageAt(q, v)] = r.pgtbl[v].page
    /\ \A t \in Tables : h[TableAt(q, t)] = r.tables[t]
    /\ \A i \in {1, 2} : h[KernelAt(q, i)] = r.kernel[i]
    /\ h[ArgumentsAt(q)] = r.page
    /\ \A place \in Places : place[2] \notin {0, q} => h[place] = Holding[place]
BlocksNext(q, r, g) ==
    /\ \A v \in VPages : g[<<q, v>>] = BlockOf(r, v)
    /\ \A s \in VPlaces : s[1] # q => g[s] = Blocks[s]

LEMMA HoldingBecomes ==
  ASSUME u_area \in [Procs -> Areas], NEW q \in Procs, NEW r, Become(q, r), NEW h \in Uses, HoldsNext(q, r, h)
  PROVE  Holding' = h
<1>1. u_area'[q] = r /\ \A o \in Procs \ {q} : u_area'[o] = u_area[o]
  BY DEF Become
<1>2. ASSUME NEW place \in Places PROVE Holds(place)' = h[place]
  <2>1. CASE place = SwapperAt \/ place = MapAt
    BY <2>1 DEF HoldsNext, SwapperAt, MapAt, Holds
  <2>2. CASE place # SwapperAt /\ place # MapAt
    <3>1. PICK o \in Procs : o = place[2]
      BY <2>2, PlacesOf
    <3>2. /\ place[1] \notin {"swapper", "swap_map"}
          /\ \/ \E v \in VPages : place = PageAt(o, v)
             \/ \E t \in Tables : place = TableAt(o, t)
             \/ \E i \in {1, 2} : place = KernelAt(o, i)
             \/ place = ArgumentsAt(o)
      BY <2>2, <3>1, PlacesOf DEF PageAt, TableAt, KernelAt, ArgumentsAt, Tables
    <3>3. Holds(place)' = PageIn(u_area'[o], place[1], place[3]) /\ Holds(place) = PageIn(u_area[o], place[1], place[3])
      BY <3>1, <3>2 DEF Holds, PageIn
    <3>4. CASE o # q
      <4>1. Holding[place] = Holds(place) /\ o # 0
        BY PlacesAre DEF Holding
      <4>2. QED BY <1>1, <3>1, <3>3, <3>4, <4>1 DEF HoldsNext
    <3>5. CASE o = q
      <4>1. Holds(place)' = PageIn(r, place[1], place[3])
        BY <1>1, <3>3, <3>5
      <4>2. ASSUME NEW v \in VPages, place = PageAt(q, v) PROVE Holds(place)' = h[place]
        BY <4>1, <4>2 DEF HoldsNext, PageAt, PageIn
      <4>3. ASSUME NEW t \in Tables, place = TableAt(q, t) PROVE Holds(place)' = h[place]
        BY <4>1, <4>3 DEF HoldsNext, TableAt, PageIn, Tables
      <4>4. ASSUME NEW i \in {1, 2}, place = KernelAt(q, i) PROVE Holds(place)' = h[place]
        BY <4>1, <4>4 DEF HoldsNext, KernelAt, PageIn, Tables
      <4>5. ASSUME place = ArgumentsAt(q) PROVE Holds(place)' = h[place]
        BY <4>1, <4>5 DEF HoldsNext, ArgumentsAt, PageIn, Tables
      <4>6. QED BY <3>2, <3>5, <4>2, <4>3, <4>4, <4>5
    <3>6. QED BY <3>4, <3>5
  <2>3. QED BY <2>1, <2>2
<1>3. Holding' = [place \in Places |-> Holds(place)']
  BY DEF Holding
<1>4. QED BY <1>2, <1>3 DEF Uses

LEMMA BlocksBecome ==
  ASSUME u_area \in [Procs -> Areas], NEW q \in Procs, NEW r, Become(q, r), NEW g \in BlockUses, BlocksNext(q, r, g)
  PROVE  Blocks' = g
<1>1. u_area'[q] = r /\ \A o \in Procs \ {q} : u_area'[o] = u_area[o]
  BY DEF Become
<1>2. ASSUME NEW s \in VPlaces PROVE BlockOf(u_area'[s[1]], s[2]) = g[s]
  <2>1. s[1] \in Procs /\ s[2] \in VPages /\ s = <<s[1], s[2]>>
    BY DEF VPlaces
  <2>2. CASE s[1] = q
    BY <1>1, <2>1, <2>2 DEF BlocksNext
  <2>3. CASE s[1] # q
    <3>1. Blocks[s] = BlockOf(u_area[s[1]], s[2])
      BY DEF Blocks
    <3>2. QED BY <1>1, <2>1, <2>3, <3>1 DEF BlocksNext
  <2>4. QED BY <2>2, <2>3
<1>3. Blocks' = [s \in VPlaces |-> BlockOf(u_area'[s[1]], s[2])]
  BY DEF Blocks
<1>4. QED BY <1>2, <1>3 DEF BlockUses

\* The page that another process reads a block into.
Foreign(p, q) == \E o \in Procs \ {q} : u_area[o].pc = "load" /\ Reads(o) = p

LEMMA ForeignPage ==
  ASSUME MemInv, NEW q \in Procs \cup {0}, NEW p, Foreign(p, q)
  PROVE  /\ p \in Pages /\ m.pg[p].count # 0 /\ ~m.pg[p].hashed /\ m.pg[p].key # None
         /\ \A place \in Places : place[2] \in {0, q} => Holding[place] # p
<1>1. PICK o \in Procs \ {q} : u_area[o].pc = "load" /\ Reads(o) = p
  BY DEF Foreign
<1>2. u_area[o] \in Areas /\ u_area[o].v \in VPages /\ Frame(u_area[o]) /\ LoadOK(o)
  BY DEF MemInv, TypeOK, ProcOK, Areas
<1>3. /\ m.pg[p].key = u_area[o].busyblock /\ ~m.pg[p].hashed /\ u_area[o].busyblock # None
      /\ Has(Holding, Places, p) = {PageAt(o, u_area[o].v)}
  BY <1>1, <1>2 DEF LoadOK, Frame, PageAt
<1>4. p \in Pages
  <2>1. u_area[o].pgtbl[u_area[o].v] \in Entries /\ u_area[o].pgtbl[u_area[o].v].page # 0
    BY <1>1, <1>2 DEF Areas, Frame, EntryOK
  <2>2. QED BY <1>1, <2>1, NotSwap DEF Reads, Entries, Pages
<1>5. ASSUME NEW place \in Places, place[2] \in {0, q} PROVE Holding[place] # p
  <2>1. place # PageAt(o, u_area[o].v)
    BY <1>1, <1>5, PlacesAre DEF PageAt
  <2>2. place \notin Has(Holding, Places, p)
    BY <1>3, <2>1
  <2>3. QED BY <2>2 DEF Has
<1>6. m.pg[p].count # 0
  <2>1. m.pg[p].count = Cardinality(Has(Holding, Places, p))
    BY <1>4 DEF MemInv, Sound, PagesBalanced
  <2>2. Cardinality({PageAt(o, u_area[o].v)}) = 1
    BY FS_Singleton
  <2>3. QED BY <1>3, <2>1, <2>2
<1>7. QED BY <1>3, <1>4, <1>5, <1>6

\* What the step of q leaves to the others: the pages that are used are known as
\* before, and nobody takes a page that is being read.
Others(q) ==
    /\ \A p \in Pages : m.pg[p].count # 0 => (Known(m, p) => Known(m', p)) /\ (Plain(m, p) => Plain(m', p))
    /\ \A p \in Pages : Foreign(p, q) => m'.pg[p].key = m.pg[p].key /\ m'.pg[p].hashed = m.pg[p].hashed
    /\ \A place \in Places : Foreign(Holding'[place], q) => Holding[place] = Holding'[place]

LEMMA Counted ==
  ASSUME MemInv, NEW place \in Places, Holding[place] # 0
  PROVE  Holding[place] \in Pages /\ m.pg[Holding[place]].count # 0
<1>1. Holding \in Uses
  BY Uses0
<1>2. Holding[place] \in Pages
  BY <1>1, NotSwap DEF Uses, Pages
<1>3. IsFiniteSet(Places) /\ Holding \in [Places -> Int]
  BY <1>1, PlacesFinite, NotSwap DEF Uses
<1>4. CountsAfter(Holding, Places, place, 0, Holding[place])
  BY <1>3, CountChanges
<1>5. m.pg[Holding[place]].count = Cardinality(Has(Holding, Places, Holding[place]))
  BY <1>2 DEF MemInv, Sound, PagesBalanced
<1>6. QED BY <1>2, <1>4, <1>5 DEF CountsAfter

\* The page of a place that changed may be no page, a free page, one that can be
\* found, or one of the process.
Changed(q) ==
    \A place \in Places :
        \/ Holding'[place] = Holding[place] \/ Holding'[place] \notin Pages
        \/ m.pg[Holding'[place]].count = 0 \/ m.pg[Holding'[place]].hashed
        \/ \E other \in Places : other[2] = q /\ Holding[other] = Holding'[place]

LEMMA OthersKept ==
  ASSUME MemInv, NEW q \in Procs \cup {0}, Kept(m, m'), Changed(q)
  PROVE  Others(q)
<1>1. \A p \in Pages : m.pg[p].count # 0 => (Known(m, p) => Known(m', p)) /\ (Plain(m, p) => Plain(m', p))
  BY DEF Kept, Same, Known, Plain
<1>2. \A p \in Pages : Foreign(p, q) => m'.pg[p].key = m.pg[p].key /\ m'.pg[p].hashed = m.pg[p].hashed
  BY ForeignPage DEF Kept, Same
<1>3. ASSUME NEW place \in Places, Foreign(Holding'[place], q) PROVE Holding[place] = Holding'[place]
  <2> DEFINE p == Holding'[place]
  <2>1. /\ p \in Pages /\ m.pg[p].count # 0 /\ ~m.pg[p].hashed
        /\ \A other \in Places : other[2] \in {0, q} => Holding[other] # p
    <3>1. Foreign(p, q)
      BY <1>3
    <3> HIDE DEF p
    <3>2. QED BY <3>1, ForeignPage
  <2>2. QED BY <2>1 DEF Changed
<1>4. QED BY <1>1, <1>2, <1>3 DEF Others

LEMMA OthersOK ==
  ASSUME MemInv, NEW q \in Procs \cup {0}, Others(q), NEW o \in Procs, o # q, u_area'[o] = u_area[o]
  PROVE  ProcOK(o)'
<1>1. u_area'[o] = u_area[o] /\ ProcOK(o) /\ u_area[o] \in Areas
  BY DEF MemInv, TypeOK
<1>2. Frame(u_area[o])'
  BY <1>1 DEF ProcOK, Frame, EntryOK, NoMemory
<1>3. \A v \in VPages : u_area[o].pgtbl[v].present => Known(m', u_area[o].pgtbl[v].page)
  <2>1. TAKE v \in VPages
  <2>2. HAVE u_area[o].pgtbl[v].present
  <2>3. Holding[PageAt(o, v)] = u_area[o].pgtbl[v].page /\ PageAt(o, v) \in Places
    BY HoldingAt, PlacesAre
  <2>4. u_area[o].pgtbl[v].page # 0
    BY <1>1, <2>2 DEF ProcOK, Frame, EntryOK
  <2>5. u_area[o].pgtbl[v].page \in Pages /\ m.pg[u_area[o].pgtbl[v].page].count # 0
    BY <2>3, <2>4, Counted
  <2>6. QED BY <1>1, <2>2, <2>5 DEF ProcOK, Others
<1>4. LoadOK(o)'
  <2>1. SUFFICES ASSUME u_area[o].pc = "load"
                 PROVE  /\ m'.pg[Reads(o)].key = u_area[o].busyblock /\ ~m'.pg[Reads(o)].hashed
                        /\ Has(Holding', Places, Reads(o)) = {PageAt(o, u_area[o].v)}
    BY <1>1 DEF LoadOK, Reads, Has, PageAt
  <2>2. Foreign(Reads(o), q)
    BY <2>1 DEF Foreign
  <2>3. Reads(o) \in Pages
    BY <2>2, ForeignPage
  <2>4. m'.pg[Reads(o)].key = u_area[o].busyblock /\ ~m'.pg[Reads(o)].hashed
    BY <1>1, <2>1, <2>2, <2>3 DEF Others, ProcOK, LoadOK
  <2>5. Has(Holding, Places, Reads(o)) = {PageAt(o, u_area[o].v)}
    BY <1>1, <2>1 DEF ProcOK, LoadOK, PageAt
  <2>6. Has(Holding', Places, Reads(o)) \subseteq Has(Holding, Places, Reads(o))
    BY <2>2 DEF Others, Has
  <2>7. Holding'[PageAt(o, u_area[o].v)] = Reads(o) /\ PageAt(o, u_area[o].v) \in Places
    <3>1. PageAt(o, u_area[o].v) \in Places
      BY <1>1, PlacesAre DEF Areas
    <3>2. PICK v \in VPages : v = u_area[o].v
      BY <1>1 DEF Areas
    <3>3. Holding'[PageAt(o, v)] = Holds(PageAt(o, v))'
      BY <3>1, <3>2 DEF Holding
    <3>4. Holds(PageAt(o, v))' = u_area'[o].pgtbl[v].page
      BY DEF Holds, PageAt, PageIn
    <3>5. QED BY <1>1, <3>1, <3>2, <3>3, <3>4 DEF Reads
  <2>8. QED BY <2>4, <2>5, <2>6, <2>7 DEF Has
<1>5. ASSUME u_area[o].page # 0 PROVE Plain(m', u_area[o].page)
  <2>1. Holding[ArgumentsAt(o)] = u_area[o].page /\ ArgumentsAt(o) \in Places
    BY HoldingAt, PlacesAre
  <2>2. u_area[o].page \in Pages /\ m.pg[u_area[o].page].count # 0
    BY <1>5, <2>1, Counted
  <2>3. QED BY <1>1, <1>5, <2>2 DEF ProcOK, Others
<1>6. QED BY <1>1, <1>2, <1>3, <1>4, <1>5 DEF ProcOK, Plain

LEMMA ForksKept ==
  ASSUME MemInv, NEW q \in Procs, NEW r \in Areas, Become(q, r), u_area[q].state # "unused",
         r.child \in {0, u_area[q].child}, r.pc = "fork" => u_area[q].pc = "fork" /\ r.child = u_area[q].child
  PROVE  ForksOK'
<1>1. u_area'[q] = r /\ \A o \in Procs \ {q} : u_area'[o] = u_area[o]
  BY DEF MemInv, TypeOK, Become
<1>2. SUFFICES ASSUME NEW o \in Procs, u_area'[o].pc = "fork"
               PROVE  /\ u_area'[u_area'[o].child].state = "unused"
                      /\ \A s \in Procs : u_area'[s].child = u_area'[o].child => s = o
  BY DEF ForksOK
<1>3. u_area[o].pc = "fork" /\ u_area'[o].child = u_area[o].child
  BY <1>1, <1>2
<1>4. /\ u_area[u_area[o].child].state = "unused" /\ u_area[o].child # 0 /\ u_area[o].child \in Procs
      /\ \A s \in Procs : u_area[s].child = u_area[o].child => s = o
  <2>1. u_area[o] \in Areas /\ Frame(u_area[o]) /\ ForksOK
    BY DEF MemInv, TypeOK, ProcOK
  <2>2. QED BY <1>3, <2>1 DEF ForksOK, Frame, Areas
<1>5. u_area'[u_area'[o].child].state = "unused"
  BY <1>1, <1>3, <1>4
<1>6. ASSUME NEW s \in Procs, u_area'[s].child = u_area'[o].child PROVE s = o
  BY <1>1, <1>3, <1>4, <1>6
<1>7. QED BY <1>5, <1>6

LEMMA LoadsKept ==
  ASSUME MemInv, NEW q \in Procs, NEW r, Become(q, r), r.busyblock \in {None, u_area[q].busyblock},
         \A p \in Pages : m'.pg[p].hashed => m.pg[p].hashed /\ m'.pg[p].key = m.pg[p].key
  PROVE  LoadsOK'
<1>1. u_area'[q] = r /\ \A o \in Procs \ {q} : u_area'[o] = u_area[o]
  BY DEF MemInv, TypeOK, Become
<1>2. \A o \in Procs : u_area'[o].busyblock # None => u_area'[o].busyblock = u_area[o].busyblock
  BY <1>1
<1>3. LoadsOK
  BY DEF MemInv
<1>4. \A o, s \in Procs : u_area'[o].busyblock # None /\ u_area'[o].busyblock = u_area'[s].busyblock => o = s
  BY <1>2, <1>3 DEF LoadsOK
<1>5. \A o \in Procs, p \in Pages : u_area'[o].busyblock # None /\ m'.pg[p].hashed => m'.pg[p].key # u_area'[o].busyblock
  BY <1>2, <1>3 DEF LoadsOK
<1>6. QED BY <1>4, <1>5 DEF LoadsOK

\* Who waits is told when pages are freed, and is not forgotten by the one that reads.
Waiters(q, r) ==
    /\ \A o \in Procs \ {q} : waits'[o] \in {waits[o], Nothing}
    /\ \A o \in Procs \ {q} : waits'[o] = GetPage => Len(m'.free) <= Len(m.free)
    /\ sw'.pc = "asleep" => sw.pc = "asleep"
    /\ \A o \in Procs \ {q} : waits'[o] = q => r.busyblock = u_area[q].busyblock

LEMMA Requests0 ==
  ASSUME MemInv, NEW q \in Procs
  PROVE  Needs(q) \in Nat /\ Needs(q) <= HIGH_PAGES_LIMIT /\ Needs(q) >= 1
<1>1. HasTable(q) \in SUBSET Tables /\ IsFiniteSet({"image"}) /\ Cardinality({"image"}) = 1
  BY FS_Singleton DEF HasTable
<1>2. /\ IsFiniteSet({"image"} \cup {"heap"}) /\ Cardinality({"image"} \cup {"heap"}) \in {1, 2}
  BY <1>1, FS_AddElement
<1>3. IsFiniteSet({"image"} \cup {"heap"} \cup {"stack"}) /\ Cardinality({"image"} \cup {"heap"} \cup {"stack"}) \in {1, 2, 3}
  BY <1>2, FS_AddElement
<1>4. {"image"} \cup {"heap"} \cup {"stack"} = Tables
  BY DEF Tables
<1>5. IsFiniteSet(Tables) /\ Cardinality(Tables) \in {1, 2, 3}
  BY <1>3, <1>4
<1>6. Cardinality(HasTable(q)) \in Nat /\ Cardinality(HasTable(q)) <= Cardinality(Tables)
  <2>1. IsFiniteSet(HasTable(q)) /\ Cardinality(HasTable(q)) <= Cardinality(Tables)
    BY <1>1, <1>5, FS_Subset
  <2>2. QED BY <2>1, FS_CardinalityType
<1>7. Cardinality(HasTable(q)) <= 3
  BY <1>5, <1>6
<1>8. HIGH_PAGES_LIMIT \in Nat /\ 5 <= HIGH_PAGES_LIMIT
  BY MemoryAssumption DEF Requests
<1>9. QED BY <1>6, <1>7, <1>8 DEF Needs, Requested

LEMMA WaitersOK ==
  ASSUME MemInv, NEW q \in Procs, NEW r, Become(q, r), m' \in Memories, Waiters(q, r), NEW o \in Procs, o # q
  PROVE  WaitOK(o)'
<1>1. u_area'[q] = r /\ \A s \in Procs \ {q} : u_area'[s] = u_area[s]
  BY DEF MemInv, TypeOK, Become
<1>2. WaitOK(o) /\ (waits'[o] = waits[o] \/ waits'[o] = Nothing)
  BY DEF MemInv, Waiters
<1>3. Nothing # GetPage /\ Nothing \notin Procs
  BY MemoryAssumption DEF Nothing, GetPage
<1>4. waits'[o] # Nothing => u_area'[o].state = "alive"
  BY <1>1, <1>2 DEF WaitOK
<1>5. ASSUME waits'[o] = GetPage
      PROVE  u_area'[o].pc \in Reserving /\ Len(m'.free) < Needs(o)' /\ sw'.pc # "asleep"
  <2>1. waits[o] = GetPage
    BY <1>2, <1>3, <1>5
  <2>2. u_area[o].pc \in Reserving /\ Len(m.free) < Needs(o) /\ sw.pc # "asleep"
    BY <1>2, <2>1 DEF WaitOK, free_pages
  <2>3. Needs(o)' = Needs(o)
    BY <1>1 DEF Needs, Requested, HasTable
  <2>4. Len(m'.free) <= Len(m.free) /\ (sw'.pc = "asleep" => sw.pc = "asleep")
    BY <1>5 DEF Waiters
  <2>5. Len(m'.free) \in Nat /\ Len(m.free) \in Nat /\ Needs(o) \in Nat
    BY Uses0, Requests0 DEF Memories
  <2>6. QED BY <1>1, <2>2, <2>3, <2>4, <2>5
<1>6. ASSUME waits'[o] \in Procs
      PROVE  /\ u_area'[o].pc = "fault" /\ ~u_area'[o].pgtbl[u_area'[o].v].present /\ u_area'[o].pgtbl[u_area'[o].v].key # None
             /\ u_area'[waits'[o]].busyblock = u_area'[o].pgtbl[u_area'[o].v].key
  <2>1. waits'[o] = waits[o] /\ waits[o] \in Procs
    BY <1>2, <1>3, <1>6
  <2>2. waits[o] = q => r.busyblock = u_area[q].busyblock
    BY <2>1 DEF Waiters
  <2>3. QED BY <1>1, <1>2, <2>1, <2>2 DEF WaitOK
<1>7. QED BY <1>4, <1>5, <1>6 DEF WaitOK, free_pages

\* Everything a step of q must show.
LEMMA StepOK ==
  ASSUME MemInv, NEW q \in Procs, NEW r \in Areas, Become(q, r),
         waits' \in [Procs -> Procs \cup {Nothing, GetPage}], sw' \in Swappers,
         binary' \in [Binaries -> BinaryFiles], cpu' \in Procs \cup {0},
         Sound(m', Holding', Blocks'), Others(q), Frame(r), LoadOK(q)',
         \A v \in VPages : r.pgtbl[v].present =>
             \/ u_area[q].pgtbl[v].present /\ u_area[q].pgtbl[v].page = r.pgtbl[v].page
             \/ Known(m', r.pgtbl[v].page),
         r.page \in {0, u_area[q].page} \/ Plain(m', r.page),
         LoadsOK', ForksOK', SwapperOK', Waiters(q, r), WaitOK(q)'
  PROVE  MemInv'
<1>1. u_area'[q] = r /\ u_area' \in [Procs -> Areas] /\ m' \in Memories
  BY DEF MemInv, TypeOK, Become, Sound
<1>2. TypeOK'
  BY <1>1 DEF TypeOK
<1>3. ProcOK(q)'
  <2>1. Frame(u_area[q])'
    BY <1>1 DEF Frame, EntryOK, NoMemory
  <2>2. ASSUME NEW v \in VPages, r.pgtbl[v].present PROVE Known(m', r.pgtbl[v].page)
    <3>1. CASE u_area[q].pgtbl[v].present /\ u_area[q].pgtbl[v].page = r.pgtbl[v].page
      <4>1. Holding[PageAt(q, v)] = u_area[q].pgtbl[v].page /\ PageAt(q, v) \in Places
        BY HoldingAt, PlacesAre
      <4>2. ProcOK(q)
        BY DEF MemInv
      <4>3. u_area[q].pgtbl[v].page # 0 /\ Known(m, u_area[q].pgtbl[v].page)
        BY <3>1, <4>2 DEF ProcOK, Frame, EntryOK
      <4>4. u_area[q].pgtbl[v].page \in Pages /\ m.pg[u_area[q].pgtbl[v].page].count # 0
        BY <4>1, <4>3, Counted
      <4>5. QED BY <3>1, <4>3, <4>4 DEF Others
    <3>2. QED BY <2>2, <3>1
  <2>3. \A v \in VPages : u_area'[q].pgtbl[v].present => Known(m', u_area'[q].pgtbl[v].page)
    BY <1>1, <2>2
  <2>4. ASSUME r.page # 0 PROVE Plain(m', r.page)
    <3>1. CASE r.page = u_area[q].page
      <4>1. Holding[ArgumentsAt(q)] = r.page /\ ArgumentsAt(q) \in Places
        BY <3>1, HoldingAt, PlacesAre
      <4>2. r.page \in Pages /\ m.pg[r.page].count # 0
        BY <2>4, <4>1, Counted
      <4>3. Plain(m, r.page)
        BY <2>4, <3>1 DEF MemInv, ProcOK
      <4>4. QED BY <4>2, <4>3 DEF Others
    <3>2. QED BY <2>4, <3>1
  <2>5. u_area'[q].page # 0 => Plain(m', u_area'[q].page)
    BY <1>1, <2>4
  <2>6. QED BY <2>1, <2>3, <2>5 DEF ProcOK, Known, Plain
<1>4. \A o \in Procs : ProcOK(o)'
  <2>1. \A o \in Procs \ {q} : u_area'[o] = u_area[o]
    BY DEF MemInv, TypeOK, Become
  <2>2. QED BY <1>3, <2>1, OthersOK
<1>5. \A o \in Procs : WaitOK(o)'
  BY <1>1, WaitersOK
<1>6. QED BY <1>2, <1>4, <1>5 DEF MemInv

\* The swapper goes on with what it does, and may have been woken.
SwapperKept ==
    /\ sw' \in Swappers /\ sw'.page = sw.page /\ (sw'.pc = "save" <=> sw.pc = "save")
    /\ sw'.pc = "asleep" => sw.pc = "asleep"

LEMMA SwapperGoesOn ==
  ASSUME MemInv, sw' \in {sw, SwapperOn}
  PROVE  SwapperKept /\ SwapperOK'
<1>1. sw \in Swappers /\ SwapperOK
  BY DEF MemInv, TypeOK
<1>2. CASE sw' = sw
  BY <1>1, <1>2 DEF SwapperKept, SwapperOK
<1>3. CASE sw' = SwapperOn
  <2> DEFINE pc == IF sw.pc = "asleep" THEN "scan" ELSE sw.pc
  <2>1. sw' = [sw EXCEPT !.pc = pc]
    BY <1>3 DEF SwapperOn
  <2>2. pc \in {"scan", "save", "stale"} /\ (pc = "save" <=> sw.pc = "save")
    BY <1>1 DEF Swappers
  <2> HIDE DEF pc
  <2>3. QED BY <1>1, <2>1, <2>2 DEF SwapperKept, SwapperOK, Swappers
<1>4. QED BY <1>2, <1>3

LEMMA AwakeIs ==
  ASSUME MemInv, NEW q \in Procs, NEW pc, Awake(q, pc)
  PROVE  /\ u_area[q].state = "alive" /\ u_area[q].pc = pc /\ waits[q] = Nothing /\ cpu \in {0, q}
         /\ u_area[q] \in Areas /\ Frame(u_area[q]) /\ u_area[q].v \in VPages
         /\ \A v \in VPages : u_area[q].pgtbl[v] \in Entries /\ EntryOK(u_area[q].pgtbl[v])
         /\ waits \in [Procs -> Procs \cup {Nothing, GetPage}] /\ sw \in Swappers
         /\ binary \in [Binaries -> BinaryFiles] /\ cpu \in Procs \cup {0}
BY DEF MemInv, TypeOK, ProcOK, Awake, Areas, Frame

\* The pages and the blocks of a process stay what they were.
UsesSame(u, r) ==
    /\ r.tables = u.tables /\ r.kernel = u.kernel /\ r.page = u.page
    /\ \A v \in VPages : r.pgtbl[v].page = u.pgtbl[v].page /\ r.pgtbl[v].present = u.pgtbl[v].present /\ BlockOf(r, v) = BlockOf(u, v)
MemorySame(x, y) ==
    y \in Memories /\ y.pg = x.pg /\ y.free = x.free /\ y.swap = x.swap /\ y.swap_map = x.swap_map

LEMMA SameIsSound ==
  ASSUME NEW x, NEW y, MemorySame(x, y), NEW h, NEW g, Sound(x, h, g)
  PROVE  Sound(y, h, g) /\ Kept(x, y)
<1>1. FreeBlocks(y) = FreeBlocks(x)
  BY DEF FreeBlocks, MemorySame
<1>2. PagesBalanced(y, h) /\ BlocksBalanced(y, g) /\ Cached(y)
  BY <1>1 DEF Sound, PagesBalanced, BlocksBalanced, Cached, MemorySame
<1>3. QED BY <1>2 DEF Sound, MemorySame, Kept, Same

LEMMA NoChange ==
  ASSUME MemInv, NEW q \in Procs, Holding' = Holding
  PROVE  Changed(q)
BY DEF Changed

LEMMA SameNext ==
  ASSUME NEW q \in Procs, NEW r, UsesSame(u_area[q], r)
  PROVE  /\ sw'.page = sw.page /\ m'.swap_map = m.swap_map => HoldsNext(q, r, Holding)
         /\ BlocksNext(q, r, Blocks)
<1>1. ASSUME sw'.page = sw.page, m'.swap_map = m.swap_map PROVE HoldsNext(q, r, Holding)
  BY <1>1, HoldingAt DEF HoldsNext, UsesSame
<1>2. BlocksNext(q, r, Blocks)
  BY HoldingAt DEF BlocksNext, UsesSame
<1>3. QED BY <1>1, <1>2

LEMMA SameUses ==
  ASSUME MemInv, NEW q \in Procs, NEW r, Become(q, r), UsesSame(u_area[q], r), MemorySame(m, m'), sw'.page = sw.page
  PROVE  Holding' = Holding /\ Blocks' = Blocks /\ Sound(m', Holding', Blocks') /\ Others(q)
<1>1. Holding \in Uses /\ Blocks \in BlockUses /\ Sound(m, Holding, Blocks) /\ u_area \in [Procs -> Areas]
  BY Uses0
<1>2. HoldsNext(q, r, Holding)
  BY SameNext DEF MemorySame
<1>3. BlocksNext(q, r, Blocks)
  BY SameNext
<1>4. Holding' = Holding /\ Blocks' = Blocks
  BY <1>1, <1>2, <1>3, HoldingBecomes, BlocksBecome
<1>5. Sound(m', Holding', Blocks') /\ Kept(m, m')
  BY <1>1, <1>4, SameIsSound
<1>6. Others(q)
  BY <1>4, <1>5, NoChange, OthersKept
<1>7. QED BY <1>4, <1>5, <1>6

LEMMA SameStep ==
  ASSUME MemInv, NEW q \in Procs, NEW r \in Areas, Become(q, r), u_area[q].state # "unused",
         UsesSame(u_area[q], r), MemorySame(m, m'), SwapperKept,
         waits' \in [Procs -> Procs \cup {Nothing, GetPage}],
         binary' \in [Binaries -> BinaryFiles], cpu' \in Procs \cup {0},
         Frame(r), LoadOK(q)', LoadsOK', ForksOK', Waiters(q, r), WaitOK(q)'
  PROVE  MemInv'
<1>1. Sound(m', Holding', Blocks') /\ Others(q) /\ sw' \in Swappers
  BY SameUses DEF SwapperKept
<1>2. SwapperOK'
  BY DEF SwapperKept, MemInv, SwapperOK
<1>3. \A v \in VPages : r.pgtbl[v].present => u_area[q].pgtbl[v].present /\ u_area[q].pgtbl[v].page = r.pgtbl[v].page
  BY DEF UsesSame
<1>4. r.page = u_area[q].page
  BY DEF UsesSame
<1>5. QED BY <1>1, <1>2, <1>3, <1>4, StepOK

LEMMA Unchanged ==
  ASSUME MemInv, m' = m
  PROVE  MemorySame(m, m') /\ \A p \in Pages : m'.pg[p].hashed => m.pg[p].hashed /\ m'.pg[p].key = m.pg[p].key
BY DEF MemInv, TypeOK, MemorySame

\* Nobody but the process itself waits or is woken.
LEMMA OwnWait ==
  ASSUME MemInv, NEW q \in Procs, NEW r, SwapperKept, r.busyblock = u_area[q].busyblock,
         \A o \in Procs \ {q} : waits'[o] = waits[o], m'.free = m.free
  PROVE  Waiters(q, r)
<1>1. Len(m.free) \in Nat
  BY Uses0
<1>2. QED BY <1>1 DEF Waiters, SwapperKept

\* reserve_pages() that sleeps.
LEMMA Reserves ==
  ASSUME MemInv, NEW q \in Procs, u_area[q].state = "alive", u_area[q].pc \in Reserving,
         reserve_pages(q, Needs(q))
  PROVE  MemInv'
<1> DEFINE r == u_area[q]
<1>1. /\ u_area \in [Procs -> Areas] /\ waits \in [Procs -> Procs \cup {Nothing, GetPage}]
      /\ r \in Areas /\ Frame(r) /\ binary \in [Binaries -> BinaryFiles] /\ ForksOK /\ LoadsOK
  BY DEF MemInv, TypeOK, ProcOK
<1>2. Become(q, r) /\ UsesSame(u_area[q], r) /\ m' = m /\ u_area' = u_area /\ binary' = binary /\ cpu' = 0
  BY <1>1 DEF Become, UsesSame, reserve_pages
<1>3. waits' = [waits EXCEPT ![q] = GetPage] /\ waits' \in [Procs -> Procs \cup {Nothing, GetPage}]
  BY <1>1 DEF reserve_pages
<1>4. SwapperKept /\ sw'.pc # "asleep"
  <2>1. sw' = SwapperOn /\ sw \in Swappers
    BY DEF reserve_pages, MemInv, TypeOK
  <2>2. SwapperKept
    BY <2>1, SwapperGoesOn
  <2>3. sw'.pc # "asleep"
    BY <2>1 DEF SwapperOn, Swappers
  <2>4. QED BY <2>2, <2>3
<1>5. MemorySame(m, m')
  BY <1>2, Unchanged
<1>6. Waiters(q, r)
  BY <1>2, <1>3, <1>4, OwnWait
<1>7. LoadsOK' /\ ForksOK'
  BY <1>1, <1>2 DEF LoadsOK, ForksOK
<1>8. LoadOK(q)'
  BY <1>2 DEF LoadOK, Reserving
<1>9. WaitOK(q)'
  <2>1. waits'[q] = GetPage /\ GetPage \notin Procs /\ Needs(q)' = Needs(q)
    BY <1>1, <1>2, <1>3, MemoryAssumption DEF GetPage, Needs, Requested, HasTable
  <2>2. free_pages' < Needs(q)
    BY <1>2 DEF reserve_pages, free_pages
  <2>3. QED BY <1>2, <1>4, <2>1, <2>2 DEF WaitOK
<1> HIDE DEF r
<1>10. r.state # "unused" /\ u_area[q].state # "unused"
  BY DEF r
<1>11. QED BY <1>1, <1>2, <1>3, <1>4, <1>5, <1>6, <1>7, <1>8, <1>9, <1>10, SameStep

(***************************************************************************)
(* Steps that move no page.                                                *)
(***************************************************************************)
LEMMA NothingWaits ==
  ASSUME NEW q \in Procs, waits'[q] = Nothing
  PROVE  WaitOK(q)'
<1>1. Nothing # GetPage /\ Nothing \notin Procs
  BY MemoryAssumption DEF Nothing, GetPage
<1>2. QED BY <1>1 DEF WaitOK

LEMMA ControlStep ==
  ASSUME MemInv, NEW q \in Procs, NEW pc, Awake(q, pc), NEW r \in Areas, Become(q, r),
         UsesSame(u_area[q], r), MemorySame(m, m'), SwapperKept, waits' = waits, cpu' \in Procs \cup {0},
         binary' \in [Binaries -> BinaryFiles], Frame(r), r.pc # "load",
         r.busyblock = u_area[q].busyblock, ForksOK'
  PROVE  MemInv'
<1>1. u_area[q].state # "unused" /\ waits \in [Procs -> Procs \cup {Nothing, GetPage}] /\ waits[q] = Nothing
  BY AwakeIs
<1>2. \A p \in Pages : m'.pg[p].hashed => m.pg[p].hashed /\ m'.pg[p].key = m.pg[p].key
  BY DEF MemorySame
<1>3. LoadsOK'
  BY <1>2, LoadsKept
<1>4. Waiters(q, r)
  BY OwnWait DEF MemorySame
<1>5. WaitOK(q)'
  BY <1>1, NothingWaits
<1>6. LoadOK(q)'
  <2>1. u_area'[q] = r
    BY DEF Become, MemInv, TypeOK
  <2>2. QED BY <2>1 DEF LoadOK
<1>7. QED BY <1>1, <1>3, <1>4, <1>5, <1>6, SameStep

LEMMA FaultsAre ==
  ASSUME MemInv, NEW q \in Procs, NEW v \in VPages, Faults(q, v)
  PROVE  /\ \E pc \in {"user", "fault"} : Awake(q, pc) /\ u_area[q].pc = pc
         /\ u_area[q].state = "alive" /\ u_area[q].pc \in {"user", "fault"} /\ waits[q] = Nothing
         /\ u_area[q] \in Areas /\ Frame(u_area[q]) /\ u_area[q].page = 0 /\ u_area[q].child = 0
         /\ u_area[q].busyblock = None /\ ~u_area[q].pgtbl[v].present /\ u_area[q].pgtbl[v] \in Entries
         /\ EntryOK(u_area[q].pgtbl[v])
<1>1. \E pc \in {"user", "fault"} : Awake(q, pc) /\ u_area[q].pc = pc
  BY DEF Faults, Awake
<1>2. PICK pc \in {"user", "fault"} : Awake(q, pc) /\ u_area[q].pc = pc
  BY <1>1
<1>3. u_area[q].state = "alive" /\ waits[q] = Nothing /\ u_area[q] \in Areas /\ Frame(u_area[q])
  BY <1>2, AwakeIs
<1>4. ~u_area[q].pgtbl[v].present
  BY DEF Faults
<1>5. u_area[q].page = 0 /\ u_area[q].child = 0 /\ u_area[q].busyblock = None
  BY <1>2, <1>3 DEF Frame
<1>6. u_area[q].pgtbl[v] \in Entries /\ EntryOK(u_area[q].pgtbl[v])
  BY <1>3 DEF Areas, Frame
<1>7. QED BY <1>1, <1>2, <1>3, <1>4, <1>5, <1>6

LEMMA TableFaultOK ==
  ASSUME MemInv, NEW q \in Procs, NEW v \in VPages, TableFault(q, v)
  PROVE  MemInv'
<1> DEFINE u == u_area[q]
<1>1. Faults(q, v) /\ u.tables[TableOf(v)] = 0
  BY DEF TableFault
<1>2. PICK pc \in {"user", "fault"} : Awake(q, pc) /\ u.pc = pc
  BY <1>1, FaultsAre
<1>3. u \in Areas /\ Frame(u) /\ u.state = "alive" /\ u.page = 0 /\ u.child = 0 /\ u.busyblock = None
  BY <1>1, FaultsAre
<1>4. PICK r : r = [u EXCEPT !.pc = "table", !.v = v]
  OBVIOUS
<1>5. Become(q, r) /\ m' = m /\ waits' = waits /\ sw' = sw /\ binary' = binary /\ cpu' = q
  BY <1>4 DEF TableFault
<1> HIDE DEF u
<1>6. r \in Areas /\ r.busyblock = None /\ r.pc = "table" /\ r.child = 0
  BY <1>3, <1>4 DEF Areas, Reserving
<1>7. UsesSame(u, r)
  BY <1>2, <1>3, <1>4 DEF UsesSame, Areas, BlockOf
<1>8. Frame(r)
  BY <1>1, <1>2, <1>3, <1>4 DEF Frame, Areas, NoMemory
<1>9. MemorySame(m, m') /\ SwapperKept /\ binary' \in [Binaries -> BinaryFiles] /\ cpu' \in Procs \cup {0}
  BY <1>2, <1>5, Unchanged, SwapperGoesOn, AwakeIs
<1>10. ForksOK'
  BY <1>2, <1>3, <1>5, <1>6, ForksKept DEF u
<1>11. QED BY <1>2, <1>3, <1>5, <1>6, <1>7, <1>8, <1>9, <1>10, ControlStep DEF u

LEMMA WaitStepOK ==
  ASSUME MemInv, NEW q \in Procs, NEW v \in VPages, Wait(q, v)
  PROVE  MemInv'
<1> DEFINE u == u_area[q]
           key == u.pgtbl[v].key
           o == Min(block_is_loading(key))
<1>1. Faults(q, v) /\ key # None /\ block_is_loading(key) # {}
  BY DEF Wait
<1>2. PICK pc \in {"user", "fault"} : Awake(q, pc) /\ u.pc = pc
  BY <1>1, FaultsAre
<1>3. u \in Areas /\ Frame(u) /\ u.state = "alive" /\ u.page = 0 /\ u.child = 0 /\ u.busyblock = None /\ ~u.pgtbl[v].present
  BY <1>1, FaultsAre
<1>4. o \in Procs /\ u_area[o].busyblock = key
  <2>1. block_is_loading(key) \in SUBSET Nat
    BY MemoryAssumption DEF block_is_loading
  <2>2. o \in block_is_loading(key)
    BY <1>1, <2>1, LowestOf
  <2>3. QED BY <2>2 DEF block_is_loading
<1>5. PICK r : r = [u EXCEPT !.pc = "fault", !.v = v]
  OBVIOUS
<1>6. /\ Become(q, r) /\ m' = m /\ sw' = sw /\ binary' = binary /\ cpu' = 0
      /\ waits' = [waits EXCEPT ![q] = o]
  BY <1>5 DEF Wait, Loading
<1> HIDE DEF o
<1>7. waits' \in [Procs -> Procs \cup {Nothing, GetPage}] /\ waits'[q] = o /\ \A s \in Procs \ {q} : waits'[s] = waits[s]
  BY <1>2, <1>4, <1>6, AwakeIs
<1> HIDE DEF u
<1>8. r \in Areas /\ r.busyblock = None /\ r.pc = "fault" /\ r.child = 0 /\ r.state = "alive" /\ r.v = v /\ r.pgtbl = u.pgtbl
  BY <1>3, <1>5 DEF Areas
<1>9. UsesSame(u, r)
  BY <1>2, <1>3, <1>5 DEF UsesSame, Areas, BlockOf
<1>10. Frame(r)
  BY <1>1, <1>2, <1>3, <1>5 DEF Frame, Areas, NoMemory
<1>11. MemorySame(m, m') /\ SwapperKept /\ binary' \in [Binaries -> BinaryFiles] /\ cpu' \in Procs \cup {0}
  BY <1>2, <1>6, Unchanged, SwapperGoesOn, AwakeIs
<1>12. ForksOK'
  BY <1>2, <1>3, <1>6, <1>8, ForksKept DEF u
<1>13. LoadsOK'
  BY <1>3, <1>6, <1>8, Unchanged, LoadsKept
<1>14. Waiters(q, r)
  BY <1>3, <1>6, <1>7, <1>8, <1>11, OwnWait DEF u
<1>15. u_area'[q] = r /\ \A s \in Procs \ {q} : u_area'[s] = u_area[s]
  BY <1>6 DEF Become, MemInv, TypeOK
<1>16. LoadOK(q)'
  BY <1>8, <1>15 DEF LoadOK
<1>17. WaitOK(q)'
  <2>1. o # Nothing /\ o # GetPage /\ o # q
    BY <1>1, <1>3, <1>4, MemoryAssumption DEF Nothing, GetPage, u
  <2>2. QED BY <1>1, <1>3, <1>4, <1>7, <1>8, <1>15, <2>1 DEF WaitOK
<1>18. QED BY <1>2, <1>3, <1>6, <1>7, <1>8, <1>9, <1>10, <1>11, <1>12, <1>13, <1>14, <1>16, <1>17, SameStep DEF u

LEMMA NobodyWaitsFor ==
  ASSUME MemInv, NEW q \in Procs, u_area[q].busyblock = None, NEW o \in Procs
  PROVE  waits[o] # q
<1>1. WaitOK(o)
  BY DEF MemInv
<1>2. QED BY <1>1 DEF WaitOK

LEMMA BeginOK ==
  ASSUME MemInv, NEW q \in Procs, NEW v \in VPages, Begin(q, v)
  PROVE  MemInv'
<1> DEFINE u == u_area[q]
           key == u.pgtbl[v].key
<1>1. Faults(q, v) /\ (key # None => pg_hash_search(m, key) = {} /\ block_is_loading(key) = {})
  BY DEF Begin
<1>2. PICK pc \in {"user", "fault"} : Awake(q, pc) /\ u.pc = pc
  BY <1>1, FaultsAre
<1>3. /\ u \in Areas /\ Frame(u) /\ u.state = "alive" /\ u.page = 0 /\ u.child = 0 /\ u.busyblock = None
      /\ ~u.pgtbl[v].present /\ key \in Keys
  BY <1>1, FaultsAre DEF Entries
<1>4. PICK r : r = [u EXCEPT !.pc = "fill", !.v = v, !.busyblock = key]
  OBVIOUS
<1>5. Become(q, r) /\ m' = m /\ sw' = sw /\ waits' = waits /\ binary' = binary /\ cpu' = q
  BY <1>4 DEF Begin
<1>6. u_area'[q] = r /\ \A s \in Procs \ {q} : u_area'[s] = u_area[s]
  BY <1>5 DEF Become, MemInv, TypeOK
<1>7. waits \in [Procs -> Procs \cup {Nothing, GetPage}] /\ waits'[q] = Nothing
  BY <1>2, <1>5, AwakeIs
<1>8. LoadsOK'
  <2>1. ASSUME NEW s \in Procs \ {q}, u_area[s].busyblock # None PROVE u_area[s].busyblock # key
    <3>1. Frame(u_area[s]) /\ u_area[s] \in Areas
      BY DEF MemInv, TypeOK, ProcOK
    <3>2. u_area[s].state = "alive"
      BY <2>1, <3>1 DEF Frame
    <3>3. QED BY <1>1, <2>1, <3>2 DEF block_is_loading
  <2>2. \A p \in Pages : m'.pg[p].hashed => key = None \/ m'.pg[p].key # key
    BY <1>1, <1>5 DEF pg_hash_search
  <2>3. r.busyblock = key
    BY <1>3, <1>4 DEF Areas
  <2>4. LoadsOK
    BY DEF MemInv
  <2> HIDE DEF key
  <2>5. \A s, t \in Procs : u_area'[s].busyblock # None /\ u_area'[s].busyblock = u_area'[t].busyblock => s = t
    BY <1>6, <2>1, <2>3, <2>4 DEF LoadsOK
  <2>6. \A s \in Procs, p \in Pages : u_area'[s].busyblock # None /\ m'.pg[p].hashed => m'.pg[p].key # u_area'[s].busyblock
    BY <1>5, <1>6, <2>2, <2>3, <2>4 DEF LoadsOK
  <2>7. QED BY <2>5, <2>6 DEF LoadsOK
<1> HIDE DEF u
<1>9. r \in Areas /\ r.pc = "fill" /\ r.child = 0 /\ r.state = "alive"
  BY <1>3, <1>4 DEF Areas, Reserving
<1>10. UsesSame(u, r)
  BY <1>2, <1>3, <1>4 DEF UsesSame, Areas, BlockOf
<1>11. Frame(r)
  BY <1>2, <1>3, <1>4 DEF Frame, Areas, NoMemory
<1>12. MemorySame(m, m') /\ SwapperKept /\ binary' \in [Binaries -> BinaryFiles] /\ cpu' \in Procs \cup {0}
  BY <1>2, <1>5, Unchanged, SwapperGoesOn, AwakeIs
<1>13. ForksOK'
  BY <1>2, <1>3, <1>5, <1>9, ForksKept DEF u
<1>14. Waiters(q, r)
  <2>1. \A o \in Procs : waits'[o] # q
    BY <1>3, <1>5, NobodyWaitsFor DEF u
  <2>2. Len(m.free) \in Nat
    BY Uses0
  <2>3. QED BY <1>5, <1>12, <2>1, <2>2 DEF Waiters, SwapperKept
<1>15. LoadOK(q)'
  BY <1>6, <1>9 DEF LoadOK
<1>16. WaitOK(q)'
  BY <1>7, NothingWaits
<1>17. QED BY <1>3, <1>5, <1>7, <1>8, <1>9, <1>10, <1>11, <1>12, <1>13, <1>14, <1>15, <1>16, SameStep DEF u

(***************************************************************************)
(* Describing a page anew.                                                 *)
(***************************************************************************)
Redescribed(x, y, p, d) ==
    /\ y \in Memories /\ y.free = x.free /\ y.swap = x.swap /\ y.swap_map = x.swap_map
    /\ y.pg[p] = d /\ \A r \in Pages \ {p} : y.pg[r] = x.pg[r]

LEMMA PageSet ==
  ASSUME NEW x \in Memories, NEW p \in Pages, NEW d \in Descriptors
  PROVE  Redescribed(x, [x EXCEPT !.pg = [x.pg EXCEPT ![p] = d]], p, d)
<1>1. PICK pg : pg = [x.pg EXCEPT ![p] = d]
  OBVIOUS
<1>2. pg \in [Pages -> Descriptors] /\ pg[p] = d /\ \A r \in Pages \ {p} : pg[r] = x.pg[r]
  BY <1>1 DEF Memories
<1>3. PICK y : y = [x EXCEPT !.pg = pg]
  OBVIOUS
<1>4. Redescribed(x, y, p, d)
  BY <1>2, <1>3 DEF Redescribed, Memories
<1>5. QED BY <1>1, <1>3, <1>4

LEMMA DataSet ==
  ASSUME NEW x \in Memories, NEW data \in [Pages -> Values]
  PROVE  MemorySame(x, [x EXCEPT !.data = data])
<1>1. PICK y : y = [x EXCEPT !.data = data]
  OBVIOUS
<1>2. MemorySame(x, y)
  BY <1>1 DEF MemorySame, Memories
<1>3. QED BY <1>1, <1>2

LEMMA Described ==
  ASSUME NEW x, NEW y, NEW h, NEW g, Sound(x, h, g), NEW p \in Pages, NEW d, Redescribed(x, y, p, d),
         d.count = x.pg[p].count,
         d.hashed => d.key # None /\ d.type # PAGE_DZ /\ \A r \in Pages \ {p} : x.pg[r].hashed => x.pg[r].key # d.key,
         IF d.type = PAGE_SWAP THEN d.key \in Swap \cup {None} ELSE d.key \notin Swap,
         x.swap.latest = -1 => d.key \notin Swap
  PROVE  Sound(y, h, g)
<1>1. \A r \in Pages : y.pg[r].count = x.pg[r].count
  BY DEF Redescribed
<1>2. PagesBalanced(y, h)
  BY <1>1, SameCounts DEF Sound, Redescribed
<1>3. FreeBlocks(y) = FreeBlocks(x)
  BY DEF FreeBlocks, Redescribed
<1>4. BlocksBalanced(y, g)
  BY <1>3 DEF Sound, BlocksBalanced, Redescribed
<1>5. Cached(y)
  <2>1. Cached(x)
    BY DEF Sound
  <2>2. ASSUME NEW r \in Pages
        PROVE  /\ y.pg[r].hashed => y.pg[r].key # None /\ y.pg[r].type # PAGE_DZ
               /\ IF y.pg[r].type = PAGE_SWAP THEN y.pg[r].key \in Swap \cup {None} ELSE y.pg[r].key \notin Swap
    BY <2>1 DEF Cached, Redescribed
  <2>3. ASSUME NEW r \in Pages, NEW s \in Pages, y.pg[r].hashed, y.pg[s].hashed, y.pg[r].key = y.pg[s].key
        PROVE  r = s
    BY <2>1, <2>3 DEF Cached, Redescribed
  <2>4. QED BY <2>2, <2>3 DEF Cached
<1>6. QED BY <1>2, <1>4, <1>5 DEF Sound, Redescribed

LEMMA StoreOK ==
  ASSUME MemInv, NEW q \in Procs, NEW v \in VPages, NEW w \in Nat, Store(q, v, w)
  PROVE  MemInv'
<1> DEFINE u == u_area[q]
           p == u.pgtbl[v].page
<1>1. Awake(q, "user") /\ u.pgtbl[v].present
  BY DEF Store
<1>2. /\ u \in Areas /\ Frame(u) /\ u.state = "alive" /\ u.pc = "user" /\ u.pgtbl[v] \in Entries /\ EntryOK(u.pgtbl[v])
      /\ binary \in [Binaries -> BinaryFiles] /\ cpu \in Procs \cup {0}
  BY <1>1, AwakeIs
<1>3. p \in Pages
  BY <1>1, <1>2, NotSwap DEF Entries, EntryOK, Pages
<1>4. Stored(w) \in Values
  BY DEF Stored, None, Values
<1>5. PICK mem : mem = [u.mem EXCEPT ![v] = Stored(w)]
  OBVIOUS
<1>6. PICK r : r = [u EXCEPT !.mem = mem]
  OBVIOUS
<1>7. PICK data : data = [m.data EXCEPT ![p] = Stored(w)]
  OBVIOUS
<1>8. /\ Become(q, r) /\ m' = [m EXCEPT !.data = data] /\ waits' = waits /\ sw' = sw /\ binary' = binary /\ cpu' = cpu
  BY <1>5, <1>6, <1>7 DEF Store
<1>9. MemorySame(m, m')
  <2>1. m \in Memories
    BY Uses0
  <2>2. data \in [Pages -> Values]
    BY <1>3, <1>4, <1>7, <2>1 DEF Memories
  <2>3. QED BY <1>8, <2>1, <2>2, DataSet
<1>10. mem \in [VPages -> Values]
  BY <1>2, <1>4, <1>5 DEF Areas
<1> HIDE DEF u
<1>11. r \in Areas /\ UsesSame(u, r) /\ r.busyblock = u.busyblock /\ r.pc = "user" /\ r.child = u.child
  <2>1. r \in Areas /\ r.busyblock = u.busyblock /\ r.pc = "user" /\ r.child = u.child
    BY <1>2, <1>6, <1>10 DEF Areas
  <2>2. UsesSame(u, r)
    BY <1>2, <1>6 DEF Areas, UsesSame, BlockOf
  <2>3. QED BY <2>1, <2>2
<1>12. Frame(r)
  BY <1>2, <1>6 DEF Frame, Areas, NoMemory
<1>13. SwapperKept
  BY <1>8, SwapperGoesOn
<1>14. ForksOK'
  BY <1>2, <1>8, <1>11, ForksKept DEF u
<1>15. QED BY <1>1, <1>2, <1>8, <1>9, <1>11, <1>12, <1>13, <1>14, ControlStep DEF u

LEMMA ExecOK ==
  ASSUME MemInv, NEW q \in Procs, NEW f \in Binaries, exec(q, f)
  PROVE  MemInv'
<1> DEFINE u == u_area[q]
<1>1. Awake(q, "user")
  BY DEF exec
<1>2. /\ u \in Areas /\ Frame(u) /\ u.state = "alive" /\ u.pc = "user" /\ binary \in [Binaries -> BinaryFiles]
  BY <1>1, AwakeIs
<1>3. PICK r : r = [u EXCEPT !.pc = "exec_args", !.prog = f, !.swapable = FALSE]
  OBVIOUS
<1>4. /\ Become(q, r) /\ m' = m /\ waits' = waits /\ sw' = sw /\ cpu' = 0
      /\ binary' = [binary EXCEPT ![f].write_denied = TRUE]
  BY <1>3 DEF exec
<1> HIDE DEF u
<1>5. r \in Areas /\ UsesSame(u, r) /\ r.busyblock = u.busyblock /\ r.pc = "exec_args" /\ r.child = u.child
  <2>1. r \in Areas /\ r.busyblock = u.busyblock /\ r.pc = "exec_args" /\ r.child = u.child
    BY <1>2, <1>3 DEF Areas, Reserving
  <2>2. UsesSame(u, r)
    BY <1>2, <1>3 DEF Areas, UsesSame, BlockOf
  <2>3. QED BY <2>1, <2>2
<1>6. Frame(r)
  BY <1>2, <1>3 DEF Frame, Areas, NoMemory
<1>7. binary' \in [Binaries -> BinaryFiles]
  <2>1. PICK d : d = [binary[f] EXCEPT !.write_denied = TRUE]
    OBVIOUS
  <2>2. d \in BinaryFiles
    BY <1>2, <2>1 DEF BinaryFiles
  <2>3. QED BY <1>2, <1>4, <2>1, <2>2
<1>8. SwapperKept /\ MemorySame(m, m') /\ cpu' \in Procs \cup {0}
  BY <1>4, SwapperGoesOn, Unchanged
<1>9. ForksOK'
  BY <1>2, <1>4, <1>5, ForksKept DEF u
<1>10. QED BY <1>1, <1>2, <1>4, <1>5, <1>6, <1>7, <1>8, <1>9, ControlStep DEF u

LEMMA ForkOK ==
  ASSUME MemInv, NEW q \in Procs, fork(q)
  PROVE  MemInv'
<1> DEFINE u == u_area[q]
<1>1. Awake(q, "user") /\ m' = m /\ waits' = waits /\ sw' = sw /\ binary' = binary /\ cpu' = q
  BY DEF fork
<1>2. /\ u \in Areas /\ Frame(u) /\ u.state = "alive" /\ u.pc = "user" /\ binary \in [Binaries -> BinaryFiles]
  BY <1>1, AwakeIs
<1>3. PICK c \in Procs : /\ u_area[c].state = "unused" /\ \A o \in Procs : u_area[o].child # c
                         /\ Become(q, [u EXCEPT !.pc = "fork", !.child = c])
  BY DEF fork
<1>4. PICK r : r = [u EXCEPT !.pc = "fork", !.child = c]
  OBVIOUS
<1>5. Become(q, r) /\ c # 0
  BY <1>3, <1>4, PlacesAre
<1> HIDE DEF u
<1>6. r \in Areas /\ UsesSame(u, r) /\ r.busyblock = u.busyblock /\ r.pc = "fork" /\ r.child = c
  <2>1. r \in Areas /\ r.busyblock = u.busyblock /\ r.pc = "fork" /\ r.child = c
    BY <1>2, <1>4 DEF Areas, Reserving
  <2>2. UsesSame(u, r)
    BY <1>2, <1>4 DEF Areas, UsesSame, BlockOf
  <2>3. QED BY <2>1, <2>2
<1>7. Frame(r)
  BY <1>2, <1>4, <1>5 DEF Frame, Areas, NoMemory
<1>8. SwapperKept /\ MemorySame(m, m') /\ cpu' \in Procs \cup {0}
  BY <1>1, SwapperGoesOn, Unchanged
<1>9. ForksOK'
  <2>1. u_area'[q] = r /\ (\A o \in Procs \ {q} : u_area'[o] = u_area[o]) /\ ForksOK
    BY <1>5 DEF Become, MemInv, TypeOK
  <2>2. q # c
    BY <1>2, <1>3 DEF u
  <2>3. \A o \in Procs \ {q} : u_area[o].pc = "fork" => u_area[o].child # q /\ u_area[o].child \in Procs
    <3>1. TAKE o \in Procs \ {q}
    <3>2. HAVE u_area[o].pc = "fork"
    <3>3. u_area[o] \in Areas /\ Frame(u_area[o])
      BY DEF MemInv, TypeOK, ProcOK
    <3>4. QED BY <1>2, <2>1, <3>2, <3>3 DEF ForksOK, Frame, Areas, u
  <2>4. QED BY <1>3, <1>6, <2>1, <2>2, <2>3 DEF ForksOK
<1>10. QED BY <1>1, <1>2, <1>5, <1>6, <1>7, <1>8, <1>9, ControlStep DEF u

\* A page that only one process has becomes its own.
LEMMA NotSharedOK ==
  ASSUME MemInv, NEW q \in Procs, NEW pc \in {"user", "copy"}, Awake(q, pc), NEW v \in VPages,
         u_area[q].pgtbl[v].present, not_shared(q, v, u_area[q].pgtbl[v].page)
  PROVE  MemInv'
<1> DEFINE u == u_area[q]
           p == u.pgtbl[v].page
<1>1. /\ u \in Areas /\ Frame(u) /\ u.state = "alive" /\ u.pc = pc /\ u.pgtbl[v] \in Entries /\ EntryOK(u.pgtbl[v])
      /\ waits[q] = Nothing /\ waits \in [Procs -> Procs \cup {Nothing, GetPage}]
      /\ binary \in [Binaries -> BinaryFiles]
  BY AwakeIs
<1>2. p \in Pages /\ PageAt(q, v) \in Places /\ Holding[PageAt(q, v)] = p
  <2>1. PageAt(q, v) \in Places /\ Holding[PageAt(q, v)] = p
    BY PlacesAre, HoldingAt
  <2>2. p # 0 /\ p \in 0..NPages
    BY <1>1 DEF Entries, EntryOK
  <2> HIDE DEF p
  <2>3. QED BY <2>1, <2>2, NotSwap DEF Pages
<1>3. PICK e : e = [u.pgtbl[v] EXCEPT !.rw = TRUE, !.busy = FALSE]
  OBVIOUS
<1>4. /\ e \in Entries /\ e.present /\ e.page = p /\ EntryOK(e) /\ e.type = u.pgtbl[v].type /\ e.key = u.pgtbl[v].key
  BY <1>1, <1>3 DEF Entries, EntryOK
<1>5. PICK pgtbl : pgtbl = [u.pgtbl EXCEPT ![v] = e]
  OBVIOUS
<1>6. PICK r : r = [u EXCEPT !.pc = "user", !.pgtbl = pgtbl]
  OBVIOUS
<1> DEFINE y == Unhashed(m, {p})
<1>7. PICK d : d = [y.pg[p] EXCEPT !.type = PAGE_SWAP]
  OBVIOUS
<1>8. PICK pg : pg = [y.pg EXCEPT ![p] = d]
  OBVIOUS
<1>9. /\ Become(q, r) /\ m' = [y EXCEPT !.pg = pg] /\ waits' = waits /\ sw' = sw /\ binary' = binary /\ cpu' = 0
  <2>1. r = [u EXCEPT !.pc = "user", !.pgtbl[v].rw = TRUE, !.pgtbl[v].busy = FALSE]
    <3>1. pgtbl = [[u.pgtbl EXCEPT ![v].rw = TRUE] EXCEPT ![v].busy = FALSE]
      BY <1>1, <1>3, <1>5 DEF Areas
    <3>2. PICK s : s = [u EXCEPT !.pc = "user", !.pgtbl[v].rw = TRUE, !.pgtbl[v].busy = FALSE]
      OBVIOUS
    <3> HIDE DEF u
    <3>3. s = r
      BY <1>1, <1>6, <3>1, <3>2 DEF Areas
    <3>4. QED BY <3>2, <3>3
  <2>2. QED BY <2>1, <1>7, <1>8 DEF not_shared
<1> HIDE DEF u
<1>10. m \in Memories /\ Sound(m, Holding, Blocks) /\ Cached(m)
  BY Uses0 DEF Sound
<1>11. /\ Sound(y, Holding, Blocks) /\ y \in Memories /\ y.free = m.free /\ SwapSame(m, y)
       /\ \A o \in Pages : IF o = p THEN y.pg[o].key = None /\ ~y.pg[o].hashed ELSE Same(m, y, o)
       /\ \A o \in Pages : y.pg[o].count = m.pg[o].count
  <2>1. Sound(y, Holding, Blocks)
    BY <1>10, Forgotten
  <2>2. /\ y \in Memories /\ y.free = m.free /\ SwapSame(m, y)
        /\ \A o \in Pages : /\ y.pg[o].count = m.pg[o].count
                            /\ IF o \in {p} THEN y.pg[o].key = None /\ ~y.pg[o].hashed ELSE Same(m, y, o)
    BY <1>10, UnhashedParts
  <2> HIDE DEF y, p
  <2>3. QED BY <2>1, <2>2
<1> HIDE DEF y, p
<1>12. /\ d \in Descriptors /\ d.key = None /\ ~d.hashed /\ d.type = PAGE_SWAP /\ d.count = y.pg[p].count
  <2>1. y.pg[p] \in Descriptors
    BY <1>2, <1>11 DEF Memories
  <2>2. QED BY <1>2, <1>7, <1>11, <2>1 DEF Descriptors, Types
<1>13. Redescribed(y, m', p, d)
  BY <1>2, <1>8, <1>9, <1>11, <1>12, PageSet
<1>14. Sound(m', Holding, Blocks)
  BY <1>2, <1>11, <1>12, <1>13, NotSwap, Described
<1>15. UsesSame(u, r) /\ r \in Areas /\ r.busyblock = None /\ r.pc = "user" /\ r.child = 0 /\ u.child = 0 /\ u.busyblock = None
  <2>1. pgtbl \in [VPages -> Entries] /\ pgtbl[v] = e /\ \A w \in VPages \ {v} : pgtbl[w] = u.pgtbl[w]
    BY <1>1, <1>4, <1>5 DEF Areas
  <2>2. r \in Areas /\ r.pgtbl = pgtbl /\ r.pc = "user" /\ r.tables = u.tables /\ r.kernel = u.kernel /\ r.page = u.page
        /\ r.busyblock = u.busyblock /\ r.child = u.child
    BY <1>1, <1>6, <2>1 DEF Areas
  <2>3. u.busyblock = None /\ u.child = 0
    BY <1>1 DEF Frame
  <2>4. UsesSame(u, r)
    <3>1. u.pc # "load" /\ r.pc # "load" /\ u.pgtbl[v].present /\ p = u.pgtbl[v].page
      BY <1>1, <2>2 DEF u, p
    <3>2. ASSUME NEW w \in VPages
          PROVE  /\ r.pgtbl[w].page = u.pgtbl[w].page /\ r.pgtbl[w].present = u.pgtbl[w].present
                 /\ BlockOf(r, w) = BlockOf(u, w)
      <4>1. CASE w = v
        BY <1>4, <2>1, <2>2, <3>1, <4>1 DEF BlockOf
      <4>2. CASE w # v
        BY <2>1, <2>2, <3>1, <4>2 DEF BlockOf
      <4>3. QED BY <4>1, <4>2
    <3>3. QED BY <2>2, <3>2 DEF UsesSame
  <2>5. QED BY <2>2, <2>3, <2>4
<1>16. Frame(r)
  <2>1. \A w \in VPages : EntryOK(r.pgtbl[w])
    BY <1>1, <1>4, <1>5, <1>6 DEF Frame, Areas
  <2>2. QED BY <1>1, <1>6, <2>1 DEF Frame, Areas
<1>17. SwapperKept
  BY <1>9, SwapperGoesOn
<1>18. Holding' = Holding /\ Blocks' = Blocks
  <2>1. Holding \in Uses /\ Blocks \in BlockUses /\ u_area \in [Procs -> Areas]
    BY Uses0
  <2>2. HoldsNext(q, r, Holding)
    <3>1. m'.swap_map = m.swap_map /\ sw'.page = sw.page
      BY <1>11, <1>13, <1>17 DEF Redescribed, SwapSame, SwapperKept
    <3>2. UsesSame(u_area[q], r)
      BY <1>15 DEF u
    <3>3. QED BY <3>1, <3>2, SameNext
  <2>3. BlocksNext(q, r, Blocks)
    BY <1>15, SameNext DEF u
  <2>4. QED BY <1>9, <2>1, <2>2, <2>3, HoldingBecomes, BlocksBecome
<1>19. /\ \A o \in Pages \ {p} : Same(m, m', o)
       /\ \A o \in Pages : m'.pg[o].hashed => m.pg[o].hashed /\ m'.pg[o].key = m.pg[o].key
  BY <1>11, <1>12, <1>13 DEF Redescribed, Same
<1>20. Others(q)
  <2>1. \A o \in Pages : m.pg[o].count # 0 => (Known(m, o) => Known(m', o)) /\ (Plain(m, o) => Plain(m', o))
    <3>1. Known(m', p) /\ Plain(m', p)
      BY <1>12, <1>13 DEF Redescribed, Known, Plain, PAGE_DZ, PAGE_FILE, PAGE_SWAP
    <3>2. QED BY <1>19, <3>1 DEF Same, Known, Plain
  <2>2. ~Foreign(p, q)
    <3>1. PageAt(q, v)[2] = q
      BY DEF PageAt
    <3>2. QED BY <1>2, <3>1, ForeignPage
  <2>3. \A o \in Pages : Foreign(o, q) => m'.pg[o].key = m.pg[o].key /\ m'.pg[o].hashed = m.pg[o].hashed
    BY <1>19, <2>2 DEF Same
  <2>4. QED BY <1>18, <2>1, <2>3 DEF Others
<1>21. LoadsOK' /\ ForksOK'
  BY <1>1, <1>9, <1>15, <1>19, LoadsKept, ForksKept DEF u
<1>22. Waiters(q, r) /\ WaitOK(q)'
  <2>1. m'.free = m.free
    BY <1>11, <1>13 DEF Redescribed
  <2>2. Waiters(q, r)
    BY <1>9, <1>15, <1>17, <2>1, OwnWait DEF u
  <2>3. QED BY <1>1, <1>9, <2>2, NothingWaits
<1>23. LoadOK(q)'
  <2>1. u_area'[q] = r
    BY <1>9 DEF Become, MemInv, TypeOK
  <2>2. QED BY <1>15, <2>1 DEF LoadOK
<1>24. r.page = u.page /\ \A w \in VPages : r.pgtbl[w].present => u.pgtbl[w].present /\ u.pgtbl[w].page = r.pgtbl[w].page
  BY <1>15 DEF UsesSame
<1>25. sw' \in Swappers /\ SwapperOK' /\ cpu' \in Procs \cup {0} /\ Sound(m', Holding', Blocks')
  BY <1>9, <1>14, <1>18, SwapperGoesOn DEF SwapperKept
<1>26. QED BY <1>1, <1>9, <1>15, <1>16, <1>20, <1>21, <1>22, <1>23, <1>24, <1>25, StepOK DEF u

LEMMA ProtectionFaultOK ==
  ASSUME MemInv, NEW q \in Procs, NEW v \in VPages, ProtectionFault(q, v)
  PROVE  MemInv'
<1> DEFINE u == u_area[q]
<1>1. Awake(q, "user") /\ u.pgtbl[v].present
  BY DEF ProtectionFault
<1>2. CASE not_shared(q, v, u.pgtbl[v].page)
  BY <1>1, <1>2, NotSharedOK
<1>3. CASE ~not_shared(q, v, u.pgtbl[v].page)
  <2>1. /\ u \in Areas /\ Frame(u) /\ u.state = "alive" /\ u.pc = "user" /\ binary \in [Binaries -> BinaryFiles]
        /\ u.pgtbl[v] \in Entries /\ EntryOK(u.pgtbl[v])
    BY <1>1, AwakeIs
  <2>2. PICK e : e = [u.pgtbl[v] EXCEPT !.busy = TRUE]
    OBVIOUS
  <2>3. PICK pgtbl : pgtbl = [u.pgtbl EXCEPT ![v] = e]
    OBVIOUS
  <2>4. PICK r : r = [u EXCEPT !.pc = "copy", !.v = v, !.pgtbl = pgtbl]
    OBVIOUS
  <2>5. Become(q, r) /\ m' = m /\ waits' = waits /\ sw' = sw /\ binary' = binary /\ cpu' = q
    BY <1>3, <2>2, <2>3, <2>4 DEF ProtectionFault
  <2> HIDE DEF u
  <2>6. /\ e \in Entries /\ e.present /\ e.page = u.pgtbl[v].page /\ EntryOK(e) /\ e.busy
    BY <1>1, <2>1, <2>2 DEF Entries, EntryOK
  <2>7. pgtbl \in [VPages -> Entries] /\ pgtbl[v] = e /\ \A w \in VPages \ {v} : pgtbl[w] = u.pgtbl[w]
    BY <2>1, <2>3, <2>6 DEF Areas
  <2>8. /\ r \in Areas /\ r.pgtbl = pgtbl /\ r.pc = "copy" /\ r.tables = u.tables /\ r.kernel = u.kernel /\ r.page = u.page
        /\ r.busyblock = u.busyblock /\ r.child = u.child /\ r.v = v
    BY <2>1, <2>4, <2>7 DEF Areas, Reserving
  <2>9. ASSUME NEW w \in VPages
        PROVE  /\ r.pgtbl[w].page = u.pgtbl[w].page /\ r.pgtbl[w].present = u.pgtbl[w].present
               /\ BlockOf(r, w) = BlockOf(u, w)
    <3>1. CASE w = v
      BY <1>1, <2>1, <2>6, <2>7, <2>8, <3>1 DEF BlockOf, u
    <3>2. CASE w # v
      BY <2>1, <2>7, <2>8, <3>2 DEF BlockOf
    <3>3. QED BY <3>1, <3>2
  <2>10. UsesSame(u, r)
    BY <2>8, <2>9 DEF UsesSame
  <2>11. Frame(r)
    <3>1. \A w \in VPages : EntryOK(r.pgtbl[w])
      BY <2>1, <2>6, <2>7, <2>8 DEF Frame
    <3>2. QED BY <2>1, <2>4, <2>6, <2>7, <2>8, <3>1 DEF Frame, Areas
  <2>12. SwapperKept /\ MemorySame(m, m') /\ cpu' \in Procs \cup {0}
    BY <2>5, SwapperGoesOn, Unchanged
  <2>13. ForksOK'
    BY <2>1, <2>5, <2>8, ForksKept DEF u
  <2>14. QED BY <1>1, <2>1, <2>5, <2>8, <2>10, <2>11, <2>12, <2>13, ControlStep DEF u
<1>4. QED BY <1>2, <1>3

(***************************************************************************)
(* Steps that take pages, give them back or share them.                    *)
(***************************************************************************)
Fewer(x, y) == \A p \in Pages : y.pg[p].hashed => x.pg[p].hashed /\ y.pg[p].key = x.pg[p].key

\* Those who wait for pages are woken when there are more.
Told == /\ waits' \in {waits, WakeAll(GetPage)}
        /\ Len(m'.free) > Len(m.free) => waits' = WakeAll(GetPage)

LEMMA ToldWaiters ==
  ASSUME MemInv, NEW q \in Procs, NEW r, Told, m' \in Memories, SwapperKept, r.busyblock = u_area[q].busyblock
  PROVE  /\ Waiters(q, r) /\ waits' \in [Procs -> Procs \cup {Nothing, GetPage}]
         /\ \A o \in Procs : waits[o] = Nothing => waits'[o] = Nothing
<1>1. Len(m'.free) \in Nat /\ Len(m.free) \in Nat /\ waits \in [Procs -> Procs \cup {Nothing, GetPage}]
  BY Uses0 DEF Memories, MemInv, TypeOK
<1>2. Nothing # GetPage
  BY DEF Nothing, GetPage
<1>3. \A o \in Procs : WakeAll(GetPage)[o] = IF waits[o] = GetPage THEN Nothing ELSE waits[o]
  BY DEF WakeAll
<1>4. \A o \in Procs : waits'[o] \in {waits[o], Nothing}
  BY <1>3 DEF Told
<1>5. \A o \in Procs : waits'[o] = GetPage => Len(m'.free) <= Len(m.free)
  BY <1>1, <1>2, <1>3 DEF Told
<1>6. waits' \in [Procs -> Procs \cup {Nothing, GetPage}]
  <2>1. WakeAll(GetPage) \in [Procs -> Procs \cup {Nothing, GetPage}]
    BY <1>1 DEF WakeAll
  <2>2. QED BY <1>1, <2>1 DEF Told
<1>7. QED BY <1>4, <1>5, <1>6 DEF Waiters, SwapperKept

\* A step of a process that loads no block.
LEMMA PagesStep ==
  ASSUME MemInv, NEW q \in Procs, NEW r \in Areas, Become(q, r), u_area[q].state # "unused",
         Sound(m', Holding', Blocks'), Others(q), Fewer(m, m'), Told, SwapperKept,
         binary' \in [Binaries -> BinaryFiles], cpu' \in Procs \cup {0},
         Frame(r), LoadOK(q)', WaitOK(q)', r.busyblock = u_area[q].busyblock,
         r.child \in {0, u_area[q].child}, r.pc = "fork" => u_area[q].pc = "fork" /\ r.child = u_area[q].child,
         \A v \in VPages : r.pgtbl[v].present =>
             \/ u_area[q].pgtbl[v].present /\ u_area[q].pgtbl[v].page = r.pgtbl[v].page
             \/ Known(m', r.pgtbl[v].page),
         r.page \in {0, u_area[q].page} \/ Plain(m', r.page)
  PROVE  MemInv'
<1>1. m' \in Memories
  BY DEF Sound
<1>2. SwapperOK' /\ sw' \in Swappers
  BY DEF SwapperKept, MemInv, SwapperOK
<1>3. Waiters(q, r) /\ waits' \in [Procs -> Procs \cup {Nothing, GetPage}]
  BY <1>1, ToldWaiters
<1>4. LoadsOK' /\ ForksOK'
  BY LoadsKept, ForksKept DEF Fewer
<1>5. QED BY <1>2, <1>3, <1>4, StepOK

LEMMA MoveStep ==
  ASSUME MemInv, NEW q \in Procs, NEW pc, Awake(q, pc), NEW r \in Areas, Become(q, r),
         NEW h \in Uses, NEW g \in BlockUses, Sound(m', h, g), HoldsNext(q, r, h), BlocksNext(q, r, g),
         Kept(m, m'), Fewer(m, m'),
         \A place \in Places : \/ h[place] = Holding[place] \/ h[place] \notin Pages
                               \/ m.pg[h[place]].count = 0 \/ m.pg[h[place]].hashed
                               \/ \E other \in Places : other[2] = q /\ Holding[other] = h[place],
         Told, sw' \in {sw, SwapperOn}, binary' \in [Binaries -> BinaryFiles], cpu' \in Procs \cup {0},
         Frame(r), r.pc = "load" => LoadOK(q)', r.busyblock = u_area[q].busyblock,
         r.child \in {0, u_area[q].child}, r.pc # "fork",
         \A v \in VPages : r.pgtbl[v].present =>
             \/ u_area[q].pgtbl[v].present /\ u_area[q].pgtbl[v].page = r.pgtbl[v].page
             \/ Known(m', r.pgtbl[v].page),
         r.page \in {0, u_area[q].page} \/ Plain(m', r.page)
  PROVE  MemInv'
<1>1. u_area \in [Procs -> Areas] /\ u_area[q].state # "unused" /\ waits[q] = Nothing
  BY Uses0, AwakeIs
<1>2. Holding' = h /\ Blocks' = g
  BY <1>1, HoldingBecomes, BlocksBecome
<1>3. Changed(q)
  BY <1>2 DEF Changed
<1>4. Others(q)
  BY <1>3, OthersKept
<1>5. Sound(m', Holding', Blocks') /\ m' \in Memories
  BY <1>2 DEF Sound
<1>6. SwapperKept
  BY SwapperGoesOn
<1>7. waits'[q] = Nothing
  BY <1>1, <1>5, <1>6, ToldWaiters
<1>8. WaitOK(q)'
  BY <1>7, NothingWaits
<1>9. LoadOK(q)'
  <2>1. u_area'[q] = r
    BY <1>1 DEF Become
  <2>2. QED BY <2>1 DEF LoadOK
<1>10. QED BY <1>1, <1>4, <1>5, <1>6, <1>8, <1>9, PagesStep

LEMMA LowOnPagesIs ==
  ASSUME NEW x, LowOnPages(x)
  PROVE  sw' \in {sw, SwapperOn}
BY DEF LowOnPages

\* What one more page in a place leaves of the pages that are used.
LEMMA TakenKept ==
  ASSUME NEW x, NEW h \in Uses, NEW g, Sound(x, h, g), NEW place \in Places, h[place] = 0, Len(x.free) >= 1
  PROVE  LET y == get_page(x)
             p == Head(x.free)
         IN  /\ Sound(y, [h EXCEPT ![place] = p], g) /\ [h EXCEPT ![place] = p] \in Uses /\ p \in Pages /\ p # 0
             /\ x.pg[p].count = 0 /\ Kept(x, y) /\ Fewer(x, y) /\ y.swap_map = x.swap_map /\ y.swap = x.swap
             /\ Len(y.free) < Len(x.free) /\ Len(y.free) = Len(x.free) - 1 /\ y.pg[p].key = None /\ ~y.pg[p].hashed
<1> DEFINE y == get_page(x)
           p == Head(x.free)
<1>1. Len(x.free) \in Nat
  BY DEF Sound, Memories
<1>2. Len(x.free) > 0
  BY <1>1
<1>3. /\ Sound(y, [h EXCEPT ![place] = p], g) /\ [h EXCEPT ![place] = p] \in Uses
      /\ p \in Pages /\ x.pg[p].count = 0 /\ y.pg[p].key = None /\ ~y.pg[p].hashed
      /\ Len(y.free) = Len(x.free) - 1 /\ SwapSame(x, y) /\ Fades(x, y)
      /\ \A r \in Pages : r # p => Same(x, y, r) /\ y.pg[r].count = x.pg[r].count
  BY <1>2, Takes DEF FirstTaken
<1> HIDE DEF y, p
<1>4. Kept(x, y) /\ Fewer(x, y)
  BY <1>3 DEF Kept, Fewer, Fades, Same
<1>5. y.swap_map = x.swap_map /\ y.swap = x.swap /\ Len(y.free) < Len(x.free) /\ p # 0
  BY <1>1, <1>3, NotSwap DEF SwapSame
<1>6. QED BY <1>3, <1>4, <1>5 DEF y, p

\* One place of a process changes.
LEMMA EntryChanges ==
  ASSUME MemInv, NEW q \in Procs, NEW r, NEW v \in VPages, NEW h, h = [Holding EXCEPT ![PageAt(q, v)] = r.pgtbl[v].page],
         \A w \in VPages \ {v} : r.pgtbl[w].page = u_area[q].pgtbl[w].page,
         r.tables = u_area[q].tables, r.kernel = u_area[q].kernel, r.page = u_area[q].page,
         sw'.page = sw.page, m'.swap_map = m.swap_map
  PROVE  HoldsNext(q, r, h)
<1> DEFINE place == PageAt(q, v)
<1>1. Holding \in Uses /\ place \in Places /\ place[2] = q
  BY Uses0, PlacesAre DEF PageAt
<1>2. \A o \in Places : h[o] = IF o = place THEN r.pgtbl[v].page ELSE Holding[o]
  BY <1>1 DEF Uses
<1>3. /\ place # SwapperAt /\ place # MapAt /\ place # ArgumentsAt(q)
      /\ \A i \in {1, 2} : place # KernelAt(q, i)
      /\ \A o \in Tables : place # TableAt(q, o)
  BY DEF PageAt, TableAt, KernelAt, SwapperAt, MapAt, ArgumentsAt, Tables
<1>4. ASSUME NEW w \in VPages PROVE h[PageAt(q, w)] = r.pgtbl[w].page
  <2>1. PageAt(q, w) \in Places /\ Holding[PageAt(q, w)] = u_area[q].pgtbl[w].page
    BY PlacesAre, HoldingAt
  <2>2. PageAt(q, w) = place <=> w = v
    BY DEF PageAt
  <2>3. QED BY <1>2, <2>1, <2>2
<1> HIDE DEF place
<1>5. \A o \in Tables : h[TableAt(q, o)] = r.tables[o]
  BY <1>2, <1>3, HoldingAt, PlacesAre
<1>6. \A i \in {1, 2} : h[KernelAt(q, i)] = r.kernel[i]
  BY <1>2, <1>3, HoldingAt, PlacesAre
<1>7. h[ArgumentsAt(q)] = r.page /\ h[SwapperAt] = sw'.page /\ h[MapAt] = m'.swap_map
  BY <1>2, <1>3, HoldingAt, PlacesAre
<1>8. QED BY <1>1, <1>2, <1>4, <1>5, <1>6, <1>7 DEF HoldsNext

LEMMA TableChanges ==
  ASSUME MemInv, NEW q \in Procs, NEW r, NEW t \in Tables, NEW h, h = [Holding EXCEPT ![TableAt(q, t)] = r.tables[t]],
         \A o \in Tables \ {t} : r.tables[o] = u_area[q].tables[o],
         \A v \in VPages : r.pgtbl[v].page = u_area[q].pgtbl[v].page,
         r.kernel = u_area[q].kernel, r.page = u_area[q].page, sw'.page = sw.page, m'.swap_map = m.swap_map
  PROVE  HoldsNext(q, r, h)
<1> DEFINE place == TableAt(q, t)
<1>1. Holding \in Uses /\ place \in Places /\ place[2] = q
  BY Uses0, PlacesAre DEF TableAt
<1>2. \A o \in Places : h[o] = IF o = place THEN r.tables[t] ELSE Holding[o]
  BY <1>1 DEF Uses
<1>3. /\ place # SwapperAt /\ place # MapAt /\ place # ArgumentsAt(q)
      /\ \A i \in {1, 2} : place # KernelAt(q, i)
      /\ \A v \in VPages : place # PageAt(q, v)
  BY DEF PageAt, TableAt, KernelAt, SwapperAt, MapAt, ArgumentsAt, Tables
<1>4. ASSUME NEW o \in Tables PROVE h[TableAt(q, o)] = r.tables[o]
  <2>1. TableAt(q, o) \in Places /\ Holding[TableAt(q, o)] = u_area[q].tables[o]
    BY PlacesAre, HoldingAt
  <2>2. TableAt(q, o) = place <=> o = t
    BY DEF TableAt
  <2>3. QED BY <1>2, <2>1, <2>2
<1> HIDE DEF place
<1>5. ASSUME NEW v \in VPages PROVE h[PageAt(q, v)] = r.pgtbl[v].page
  <2>1. PageAt(q, v) \in Places /\ Holding[PageAt(q, v)] = u_area[q].pgtbl[v].page
    BY PlacesAre, HoldingAt
  <2>2. QED BY <1>2, <1>3, <2>1
<1>6. \A i \in {1, 2} : h[KernelAt(q, i)] = r.kernel[i]
  BY <1>2, <1>3, HoldingAt, PlacesAre
<1>7. h[ArgumentsAt(q)] = r.page /\ h[SwapperAt] = sw'.page /\ h[MapAt] = m'.swap_map
  BY <1>2, <1>3, HoldingAt, PlacesAre
<1>8. QED BY <1>1, <1>2, <1>4, <1>5, <1>6, <1>7 DEF HoldsNext

LEMMA NewTableOK ==
  ASSUME MemInv, NEW q \in Procs, NewTable(q)
  PROVE  MemInv'
<1> DEFINE u == u_area[q]
           t == TableOf(u.v)
           p == Head(m.free)
           place == TableAt(q, t)
           h == [Holding EXCEPT ![place] = p]
<1>1. Awake(q, "table")
  BY DEF NewTable
<1>2. /\ u \in Areas /\ Frame(u) /\ u.state = "alive" /\ u.pc = "table" /\ binary \in [Binaries -> BinaryFiles]
      /\ u.v \in VPages /\ cpu \in Procs \cup {0}
  BY <1>1, AwakeIs
<1>3. CASE reserve_pages(q, 1)
  <2>1. Needs(q) = 1
    BY <1>2 DEF Needs
  <2>2. QED BY <1>2, <1>3, <2>1, Reserves DEF Reserving
<1>4. CASE ~reserve_pages(q, 1)
  <2>1. PICK tables : tables = [u.tables EXCEPT ![t] = p]
    OBVIOUS
  <2>2. PICK r : r = [u EXCEPT !.pc = "user", !.tables = tables]
    OBVIOUS
  <2>3. /\ Become(q, r) /\ m' = get_page(m) /\ waits' = waits /\ binary' = binary /\ cpu' = 0
        /\ LowOnPages(m') /\ Len(m.free) >= 1
    BY <1>4, <2>1, <2>2 DEF NewTable, free_pages
  <2>4. t \in Tables /\ place \in Places /\ Holding[place] = 0
    <3>1. t \in Tables
      BY <1>2, FourPages
    <3>2. u.tables[t] = 0
      BY <1>2 DEF Frame
    <3>3. QED BY <3>1, <3>2, PlacesAre, HoldingAt
  <2>5. Holding \in Uses /\ Blocks \in BlockUses /\ Sound(m, Holding, Blocks) /\ Len(m.free) \in Nat
    BY Uses0
  <2>6. /\ Sound(m', h, Blocks) /\ h \in Uses /\ p \in Pages /\ p # 0 /\ m.pg[p].count = 0
        /\ Kept(m, m') /\ Fewer(m, m') /\ m'.swap_map = m.swap_map /\ Len(m'.free) < Len(m.free)
    BY <2>3, <2>4, <2>5, TakenKept
  <2> HIDE DEF u, t, p, place
  <2>7. tables \in [Tables -> 0..NPages] /\ tables[t] = p /\ \A o \in Tables \ {t} : tables[o] = u.tables[o]
    BY <1>2, <2>1, <2>4, <2>6, NotSwap DEF Areas
  <2>8. /\ r \in Areas /\ r.pc = "user" /\ r.busyblock = u.busyblock /\ r.child = u.child /\ r.pgtbl = u.pgtbl
        /\ r.tables = tables /\ r.kernel = u.kernel /\ r.page = u.page
    BY <1>2, <2>2, <2>7 DEF Areas
  <2>9. Frame(r)
    BY <1>2, <2>2 DEF Frame, Areas
  <2>10. HoldsNext(q, r, h)
    <3>1. sw'.page = sw.page
      BY <2>3, LowOnPagesIs, SwapperGoesOn DEF SwapperKept
    <3>2. h \in Uses /\ h = [Holding EXCEPT ![TableAt(q, t)] = p]
      BY <2>6 DEF place
    <3> HIDE DEF h
    <3>3. QED BY <2>4, <2>6, <2>7, <2>8, <3>1, <3>2, TableChanges DEF u
  <2>11. BlocksNext(q, r, Blocks)
    BY <1>2, <2>8, HoldingAt DEF BlocksNext, BlockOf, u
  <2>12. \A o \in Places : h[o] = Holding[o] \/ m.pg[h[o]].count = 0
    BY <2>5, <2>6 DEF Uses
  <2>13. Told /\ sw' \in {sw, SwapperOn} /\ cpu' \in Procs \cup {0}
    BY <2>3, <2>5, <2>6, LowOnPagesIs DEF Told
  <2> HIDE DEF h
  <2>14. QED BY <1>1, <1>2, <2>3, <2>5, <2>6, <2>8, <2>9, <2>10, <2>11, <2>12, <2>13, MoveStep DEF u
<1>5. QED BY <1>3, <1>4

\* One block of a process changes.
LEMMA BlockChanges ==
  ASSUME MemInv, NEW q \in Procs, NEW r, NEW v \in VPages, NEW g, g = [Blocks EXCEPT ![<<q, v>>] = BlockOf(r, v)],
         \A w \in VPages \ {v} : BlockOf(r, w) = BlockOf(u_area[q], w)
  PROVE  BlocksNext(q, r, g)
<1>1. Blocks \in BlockUses /\ \A w \in VPages : <<q, w>> \in VPlaces
  BY Uses0, PlacesAre
<1>2. \A s \in VPlaces : g[s] = IF s = <<q, v>> THEN BlockOf(r, v) ELSE Blocks[s]
  BY <1>1 DEF BlockUses
<1>3. \A w \in VPages : Blocks[<<q, w>>] = BlockOf(u_area[q], w)
  BY HoldingAt
<1>4. ASSUME NEW w \in VPages PROVE g[<<q, w>>] = BlockOf(r, w)
  BY <1>1, <1>2, <1>3
<1>5. \A s \in VPlaces : s[1] # q => g[s] = Blocks[s]
  BY <1>2
<1>6. QED BY <1>4, <1>5 DEF BlocksNext

LEMMA FoundOK ==
  ASSUME MemInv, NEW q \in Procs, NEW v \in VPages, Found(q, v)
  PROVE  MemInv'
<1> DEFINE u == u_area[q]
           e == u.pgtbl[v]
           place == PageAt(q, v)
<1>1. Faults(q, v) /\ e.key # None
  BY DEF Found
<1>2. PICK p \in pg_hash_search(m, e.key) :
         /\ m' = IF e.type = PAGE_SWAP THEN release_swap_block(reuse_page(m, p), e.key) ELSE reuse_page(m, p)
         /\ Become(q, [u EXCEPT !.pc = "user", !.pgtbl[v] = Mapped(p, FALSE)])
  BY DEF Found
<1>3. cpu' = 0 /\ waits' = waits /\ sw' = sw /\ binary' = binary
  BY DEF Found
<1>4. PICK pc \in {"user", "fault"} : Awake(q, pc) /\ u.pc = pc
  BY <1>1, FaultsAre
<1>5. /\ u.state = "alive" /\ u \in Areas /\ Frame(u) /\ u.page = 0 /\ u.child = 0
      /\ u.busyblock = None /\ ~e.present /\ e \in Entries /\ EntryOK(e)
  BY <1>1, FaultsAre
<1>6. PICK pgtbl : pgtbl = [u.pgtbl EXCEPT ![v] = Mapped(p, FALSE)]
  OBVIOUS
<1>7. PICK r : r = [u EXCEPT !.pc = "user", !.pgtbl = pgtbl]
  OBVIOUS
<1>8. Become(q, r)
  BY <1>2, <1>6, <1>7
<1>9. p \in Pages /\ m.pg[p].hashed /\ m.pg[p].key = e.key /\ p # 0 /\ p \in 0..NPages
  BY <1>2, NotSwap DEF pg_hash_search
<1>10. binary \in [Binaries -> BinaryFiles] /\ Len(m.free) \in Nat
  BY Uses0 DEF MemInv, TypeOK
<1>11. /\ place \in Places /\ Holding[place] = 0 /\ <<q, v>> \in VPlaces
       /\ Blocks[<<q, v>>] = IF e.type = PAGE_SWAP THEN e.key ELSE None
  <2>1. Holding[place] = e.page /\ Blocks[<<q, v>>] = BlockOf(u, v)
    BY HoldingAt
  <2>2. QED BY <1>5, <2>1, PlacesAre DEF BlockOf, EntryOK
<1>12. Holding \in Uses /\ Blocks \in BlockUses /\ Sound(m, Holding, Blocks)
  BY Uses0
<1> DEFINE x == reuse_page(m, p)
           h == [Holding EXCEPT ![place] = p]
           g == [Blocks EXCEPT ![<<q, v>>] = None]
<1>13. /\ Sound(x, h, Blocks) /\ h \in Uses /\ AllSame(m, x) /\ Len(x.free) <= Len(m.free) /\ SwapSame(m, x)
  BY <1>9, <1>11, <1>12, Reuses
<1> HIDE DEF u, e, place, x
<1>14. /\ Sound(m', h, g) /\ g \in BlockUses /\ AllSame(m, m') /\ Len(m'.free) <= Len(m.free)
       /\ m'.swap_map = m.swap_map
  <2>1. CASE e.type = PAGE_SWAP
    <3>1. Blocks[<<q, v>>] = e.key /\ e.key \in Swap
      BY <1>5, <1>11, <2>1 DEF EntryOK
    <3>2. m' = release_swap_block(x, Blocks[<<q, v>>])
      BY <1>2, <2>1, <3>1 DEF u, e, x
    <3>3. None \in Int /\ None \notin Swap
      BY NotSwap DEF None
    <3> HIDE DEF h
    <3>4. BlocksSet(x, m', h, g)
      BY <1>11, <1>12, <1>13, <3>1, <3>2, <3>3, BlockReleases
    <3>5. QED BY <1>13, <3>4 DEF BlocksSet, AllSame, Same, SwapSame
  <2>2. CASE e.type # PAGE_SWAP
    <3>1. g = Blocks
      BY <1>11, <1>12, <2>2 DEF BlockUses
    <3>2. m' = x
      BY <1>2, <2>2 DEF u, e, x
    <3>3. QED BY <1>12, <1>13, <3>1, <3>2 DEF SwapSame
  <2>3. QED BY <2>1, <2>2
<1>15. /\ r \in Areas /\ r.pc = "user" /\ r.busyblock = u.busyblock /\ r.child = u.child /\ r.pgtbl = pgtbl
       /\ r.tables = u.tables /\ r.kernel = u.kernel /\ r.page = u.page /\ pgtbl[v] = Mapped(p, FALSE)
       /\ \A w \in VPages \ {v} : pgtbl[w] = u.pgtbl[w]
  <2>1. Mapped(p, FALSE) \in Entries
    BY <1>9, KeysAre DEF Mapped, Entries, Types
  <2>2. pgtbl \in [VPages -> Entries] /\ pgtbl[v] = Mapped(p, FALSE) /\ \A w \in VPages \ {v} : pgtbl[w] = u.pgtbl[w]
    BY <1>5, <1>6, <2>1 DEF Areas
  <2>3. QED BY <1>5, <1>7, <2>2 DEF Areas
<1>16. Frame(r)
  <2>1. EntryOK(Mapped(p, FALSE))
    BY <1>9 DEF EntryOK, Mapped
  <2>2. \A w \in VPages : EntryOK(r.pgtbl[w])
    BY <1>5, <1>15, <2>1 DEF Frame
  <2>3. QED BY <1>5, <1>7, <1>15, <2>2 DEF Frame, Areas, NoMemory
<1>17. HoldsNext(q, r, h)
  <2>1. \A w \in VPages \ {v} : r.pgtbl[w].page = u.pgtbl[w].page
    BY <1>15
  <2>2. r.pgtbl[v].page = p
    BY <1>15 DEF Mapped
  <2>3. QED BY <1>3, <1>14, <1>15, <2>1, <2>2, EntryChanges DEF u, place
<1>18. BlocksNext(q, r, g)
  <2>1. \A w \in VPages \ {v} : BlockOf(r, w) = BlockOf(u, w)
    BY <1>4, <1>15 DEF BlockOf
  <2>2. BlockOf(r, v) = None
    BY <1>15 DEF BlockOf, Mapped
  <2>3. QED BY <2>1, <2>2, BlockChanges DEF u
<1>19. Kept(m, m') /\ Fewer(m, m')
  BY <1>14 DEF AllSame, Kept, Fewer, Same
<1>20. Known(m', p)
  <2>1. m'.pg[p].hashed /\ Cached(m')
    BY <1>9, <1>14 DEF AllSame, Same, Sound
  <2>2. QED BY <1>9, <2>1 DEF Cached, Known
<1>21. \A o \in Places : h[o] = Holding[o] \/ m.pg[h[o]].hashed
  BY <1>9, <1>12 DEF Uses
<1>22. \A w \in VPages : r.pgtbl[w].present =>
           (u.pgtbl[w].present /\ u.pgtbl[w].page = r.pgtbl[w].page) \/ Known(m', r.pgtbl[w].page)
  <2>1. r.pgtbl[v].page = p
    BY <1>15 DEF Mapped
  <2>2. QED BY <1>15, <1>20, <2>1
<1>23. Told /\ cpu' \in Procs \cup {0}
  <2>1. Len(m'.free) \in Nat
    BY <1>14 DEF Sound, Memories
  <2>2. QED BY <1>3, <1>10, <1>14, <2>1 DEF Told
<1> HIDE DEF h, g
<1>24. QED
  BY <1>3, <1>4, <1>8, <1>10, <1>13, <1>14, <1>15, <1>16, <1>17, <1>18, <1>19, <1>21, <1>22, <1>23, MoveStep DEF u

\* A place that is on no swap block may be on no block or on one of a binary.
LEMMA BlocksAlike ==
  ASSUME NEW x, NEW h, NEW g, Sound(x, h, g), NEW k \in BlockUses,
         \A s \in VPlaces : k[s] = g[s] \/ (k[s] \notin Swap /\ g[s] \notin Swap)
  PROVE  Sound(x, h, k)
<1>1. \A b \in Swap : Has(k, VPlaces, b) = Has(g, VPlaces, b)
  BY DEF Has
<1>2. \A s \in VPlaces : k[s] \in Swap <=> g[s] \in Swap
  OBVIOUS
<1>3. BlocksBalanced(x, k)
  BY <1>1, <1>2 DEF Sound, BlocksBalanced
<1>4. QED BY <1>3 DEF Sound

\* A page that was free has one use, the place that took it.
LEMMA OneUse ==
  ASSUME NEW x, NEW h \in Uses, NEW g, Sound(x, h, g), NEW p \in Pages, x.pg[p].count = 0, NEW place \in Places
  PROVE  Has([h EXCEPT ![place] = p], Places, p) = {place}
<1>1. IsFiniteSet(Has(h, Places, p))
  BY PlacesFinite, FS_Subset DEF Has
<1>2. Cardinality(Has(h, Places, p)) = 0
  BY DEF Sound, PagesBalanced
<1>3. Has(h, Places, p) = {}
  BY <1>1, <1>2, FS_EmptySet
<1>4. QED BY <1>3 DEF Has, Uses

\* A page for the block of an entry that is not present.
LEMMA PageOfEntry ==
  ASSUME MemInv, NEW q \in Procs, NEW v \in VPages, ~u_area[q].pgtbl[v].present, Len(m.free) >= 1
  PROVE  LET e == u_area[q].pgtbl[v]
             p == Head(m.free)
             x == [get_page(m) EXCEPT !.pg[p] = [@ EXCEPT !.type = e.type, !.key = e.key]]
         IN  /\ Sound(x, [Holding EXCEPT ![PageAt(q, v)] = p], Blocks) /\ [Holding EXCEPT ![PageAt(q, v)] = p] \in Uses
             /\ p \in Pages /\ p # 0 /\ m.pg[p].count = 0
             /\ Kept(m, x) /\ Fewer(m, x) /\ x.swap_map = m.swap_map /\ Len(x.free) < Len(m.free)
             /\ Known(x, p) /\ x.pg[p].key = e.key /\ ~x.pg[p].hashed /\ x \in Memories
<1> DEFINE e == u_area[q].pgtbl[v]
           p == Head(m.free)
           y == get_page(m)
           x == [y EXCEPT !.pg[p] = [@ EXCEPT !.type = e.type, !.key = e.key]]
           place == PageAt(q, v)
           h == [Holding EXCEPT ![place] = p]
<1>1. Holding \in Uses /\ Blocks \in BlockUses /\ Sound(m, Holding, Blocks) /\ Len(m.free) \in Nat
  BY Uses0
<1>2. e \in Entries /\ EntryOK(e) /\ ~e.present
  BY DEF MemInv, TypeOK, Areas, ProcOK, Frame
<1>3. /\ place \in Places /\ Holding[place] = 0 /\ <<q, v>> \in VPlaces
      /\ e.key \in Swap => Blocks[<<q, v>>] \in Swap
  <2>1. Holding[place] = e.page /\ Blocks[<<q, v>>] = BlockOf(u_area[q], v)
    BY HoldingAt
  <2>2. QED BY <1>2, <2>1, PlacesAre DEF BlockOf, EntryOK
<1>4. /\ Sound(y, h, Blocks) /\ h \in Uses /\ p \in Pages /\ p # 0
      /\ m.pg[p].count = 0 /\ Kept(m, y) /\ Fewer(m, y) /\ y.swap_map = m.swap_map /\ y.swap = m.swap
      /\ Len(y.free) < Len(m.free) /\ y.pg[p].key = None /\ ~y.pg[p].hashed
  BY <1>1, <1>3, TakenKept
<1> HIDE DEF e, p, y, place, h
<1>5. PICK d : d = [y.pg[p] EXCEPT !.type = e.type, !.key = e.key]
  OBVIOUS
<1>6. PICK pg : pg = [y.pg EXCEPT ![p] = d]
  OBVIOUS
<1>7. y \in Memories /\ y.pg[p] \in Descriptors
  BY <1>4 DEF Sound, Memories
<1>8. x = [y EXCEPT !.pg = pg]
  BY <1>5, <1>6
<1>9. d \in Descriptors /\ d.type = e.type /\ d.key = e.key /\ ~d.hashed /\ d.count = y.pg[p].count
  BY <1>2, <1>4, <1>5, <1>7 DEF Descriptors, Entries
<1> HIDE DEF x
<1>10. Redescribed(y, x, p, d)
  BY <1>4, <1>6, <1>7, <1>8, <1>9, PageSet
<1>11. y.swap.latest = -1 => d.key \notin Swap
  BY <1>3, <1>4, <1>9 DEF Sound, BlocksBalanced
<1>12. IF d.type = PAGE_SWAP THEN d.key \in Swap \cup {None} ELSE d.key \notin Swap
  BY <1>2, <1>9 DEF EntryOK
<1>13. Sound(x, h, Blocks)
  BY <1>4, <1>9, <1>10, <1>11, <1>12, Described
<1>14. Kept(m, x) /\ Fewer(m, x)
  BY <1>4, <1>9, <1>10 DEF Kept, Fewer, Same, Redescribed
<1>15. Known(x, p)
  BY <1>2, <1>9, <1>10 DEF Known, Redescribed, EntryOK, PAGE_DZ, PAGE_FILE
<1>16. x.pg[p].key = e.key /\ ~x.pg[p].hashed /\ x \in Memories /\ x.free = y.free /\ x.swap_map = y.swap_map
  BY <1>9, <1>10 DEF Redescribed
<1>17. QED BY <1>4, <1>13, <1>14, <1>15, <1>16 DEF e, p, x, y, place, h

LEMMA FillOK ==
  ASSUME MemInv, NEW q \in Procs, Fill(q)
  PROVE  MemInv'
<1> DEFINE u == u_area[q]
           v == u.v
           e == u.pgtbl[v]
           p == Head(m.free)
           x == [get_page(m) EXCEPT !.pg[p] = [@ EXCEPT !.type = e.type, !.key = e.key]]
           place == PageAt(q, v)
           h == [Holding EXCEPT ![place] = p]
<1>1. Awake(q, "fill")
  BY DEF Fill
<1>2. /\ u \in Areas /\ Frame(u) /\ u.state = "alive" /\ u.pc = "fill" /\ binary \in [Binaries -> BinaryFiles]
      /\ v \in VPages /\ cpu \in Procs \cup {0} /\ e \in Entries /\ EntryOK(e)
  BY <1>1, AwakeIs
<1>3. CASE reserve_pages(q, 1)
  <2>1. Needs(q) = 1
    BY <1>2 DEF Needs
  <2>2. QED BY <1>2, <1>3, <2>1, Reserves DEF Reserving
<1>4. CASE ~reserve_pages(q, 1)
  <2>1. ~e.present /\ u.busyblock = e.key
    BY <1>2 DEF Frame
  <2>2. PICK pc, entry : /\ \/ pc = "user" /\ entry = Mapped(p, FALSE) /\ e.type = PAGE_DZ /\ m' = [x EXCEPT !.data[p] = Zeros]
                            \/ pc = "load" /\ entry = [Mapped(p, FALSE) EXCEPT !.busy = TRUE] /\ e.type # PAGE_DZ /\ m' = x
                         /\ Become(q, [u EXCEPT !.pc = pc, !.pgtbl[v] = entry])
    BY <1>4 DEF Fill
  <2>3. LowOnPages(x) /\ waits' = waits /\ binary' = binary /\ cpu' = 0 /\ Len(m.free) >= 1
    BY <1>4 DEF Fill, free_pages
  <2>4. PICK pgtbl : pgtbl = [u.pgtbl EXCEPT ![v] = entry]
    OBVIOUS
  <2>5. PICK r : r = [u EXCEPT !.pc = pc, !.pgtbl = pgtbl]
    OBVIOUS
  <2>6. Become(q, r)
    BY <2>2, <2>4, <2>5
  <2>7. /\ Sound(x, h, Blocks) /\ h \in Uses /\ p \in Pages /\ p # 0 /\ m.pg[p].count = 0
        /\ Kept(m, x) /\ Fewer(m, x) /\ x.swap_map = m.swap_map /\ Len(x.free) < Len(m.free)
        /\ Known(x, p) /\ x.pg[p].key = e.key /\ ~x.pg[p].hashed /\ x \in Memories
    BY <1>2, <2>1, <2>3, PageOfEntry
  <2>8. Holding \in Uses /\ Blocks \in BlockUses /\ Sound(m, Holding, Blocks) /\ Len(m.free) \in Nat
    BY Uses0
  <2>9. place \in Places /\ Holding[place] = 0 /\ <<q, v>> \in VPlaces /\ Blocks[<<q, v>>] = BlockOf(u, v)
    <3>1. Holding[place] = e.page /\ Blocks[<<q, v>>] = BlockOf(u, v)
      BY <1>2, HoldingAt
    <3>2. QED BY <1>2, <2>1, <3>1, PlacesAre DEF EntryOK
  <2>10. MemorySame(x, m')
    <3>1. CASE pc = "user"
      <4>1. PICK data : data = [x.data EXCEPT ![p] = Zeros]
        OBVIOUS
      <4>2. m' = [x EXCEPT !.data = data]
        BY <2>2, <3>1, <4>1
      <4> HIDE DEF x, p
      <4>3. data \in [Pages -> Values]
        <5>1. Zeros \in Values
          BY DEF Zeros, Stored, None, Values
        <5>2. QED BY <2>7, <4>1, <5>1 DEF Memories
      <4>4. QED BY <2>7, <4>2, <4>3, DataSet
    <3>2. CASE pc = "load"
      <4>1. m' = x
        BY <2>2, <3>2
      <4>2. QED BY <2>7, <4>1 DEF MemorySame
    <3>3. QED BY <2>2, <3>1, <3>2
  <2>11. entry \in Entries /\ entry.present /\ entry.page = p /\ EntryOK(entry) /\ (pc = "load" => entry.busy)
    <3>1. Mapped(p, FALSE) = [present |-> TRUE, page |-> p, rw |-> FALSE, busy |-> FALSE, type |-> PAGE_DZ, key |-> None]
      BY DEF Mapped
    <3>2. p \in 0..NPages /\ None \in Keys /\ PAGE_DZ \in Types
      BY <2>7, NotSwap, KeysAre DEF Types
    <3> HIDE DEF p
    <3>3. \/ pc = "user" /\ entry = Mapped(p, FALSE)
          \/ pc = "load" /\ entry = [Mapped(p, FALSE) EXCEPT !.busy = TRUE]
      BY <2>2
    <3>4. PICK busy \in BOOLEAN : entry = [present |-> TRUE, page |-> p, rw |-> FALSE, busy |-> busy, type |-> PAGE_DZ, key |-> None]
                                  /\ (pc = "load" => busy)
      <4>1. CASE pc = "user"
        <5>1. entry = [present |-> TRUE, page |-> p, rw |-> FALSE, busy |-> FALSE, type |-> PAGE_DZ, key |-> None]
          BY <3>1, <3>3, <4>1
        <5>2. QED BY <4>1, <5>1
      <4>2. CASE pc = "load"
        <5>1. entry = [present |-> TRUE, page |-> p, rw |-> FALSE, busy |-> TRUE, type |-> PAGE_DZ, key |-> None]
          BY <3>3, <4>2 DEF Mapped
        <5>2. QED BY <4>2, <5>1
      <4>3. QED BY <3>3, <4>1, <4>2
    <3>5. QED BY <2>7, <3>2, <3>4 DEF Entries, EntryOK
  <2>12. /\ pc \in {"user", "load"} /\ (pc = "user" => e.type = PAGE_DZ) /\ (pc = "load" => e.type # PAGE_DZ)
    BY <2>2
  <2> HIDE DEF x, h, place, p, e, v, u
  <2>13. pgtbl \in [VPages -> Entries] /\ pgtbl[v] = entry /\ \A w \in VPages \ {v} : pgtbl[w] = u.pgtbl[w]
    BY <1>2, <2>4, <2>11 DEF Areas
  <2>14. /\ r \in Areas /\ r.pc = pc /\ r.busyblock = u.busyblock /\ r.child = u.child /\ r.pgtbl = pgtbl
         /\ r.tables = u.tables /\ r.kernel = u.kernel /\ r.page = u.page /\ r.v = u.v
    BY <1>2, <2>5, <2>12, <2>13 DEF Areas
  <2>15. u.busyblock = e.key /\ (pc = "user" => e.key = None) /\ (pc = "load" => e.key # None)
    BY <1>2, <2>1, <2>12 DEF EntryOK
  <2>16. Frame(r)
    <3>1. \A w \in VPages : EntryOK(r.pgtbl[w])
      BY <1>2, <2>11, <2>13, <2>14 DEF Frame
    <3>2. r.state = "alive" /\ r.kernel[1] # 0 /\ r.kernel[2] # 0 /\ r.page = 0 /\ r.child = 0
      BY <1>2, <2>5, <2>14 DEF Areas, Frame
    <3>3. v = u.v
      BY DEF v
    <3>4. QED BY <2>11, <2>12, <2>13, <2>14, <2>15, <3>1, <3>2, <3>3 DEF Frame
  <2>17. HoldsNext(q, r, h)
    <3>1. sw'.page = sw.page /\ m'.swap_map = m.swap_map
      BY <2>3, <2>7, <2>10, LowOnPagesIs, SwapperGoesOn DEF SwapperKept, MemorySame
    <3>2. \A w \in VPages \ {v} : r.pgtbl[w].page = u.pgtbl[w].page
      BY <2>13, <2>14
    <3>3. r.pgtbl[v].page = p
      BY <2>11, <2>13, <2>14
    <3>4. h = [Holding EXCEPT ![PageAt(q, v)] = p]
      BY DEF h, place
    <3>5. QED BY <1>2, <2>14, <3>1, <3>2, <3>3, <3>4, EntryChanges DEF u
  <2>18. PICK g : g = [Blocks EXCEPT ![<<q, v>>] = BlockOf(r, v)]
    OBVIOUS
  <2>19. BlocksNext(q, r, g)
    <3>1. \A w \in VPages \ {v} : BlockOf(r, w) = BlockOf(u, w)
      BY <1>2, <2>12, <2>13, <2>14 DEF BlockOf, v
    <3>2. QED BY <1>2, <2>18, <3>1, BlockChanges DEF u
  <2>20. Sound(m', h, g) /\ g \in BlockUses
    <3>1. BlockOf(r, v) = e.key
      BY <2>11, <2>12, <2>13, <2>14, <2>15 DEF BlockOf, v
    <3>2. Blocks[<<q, v>>] = e.key \/ (Blocks[<<q, v>>] \notin Swap /\ e.key \notin Swap)
      <4>1. Blocks[<<q, v>>] = IF e.type = PAGE_SWAP THEN e.key ELSE None
        <5>1. BlockOf(u, v) = IF ~e.present THEN IF e.type = PAGE_SWAP THEN e.key ELSE None
                             ELSE IF u.pc = "load" /\ u.v = v THEN u.busyblock ELSE None
          BY DEF BlockOf, e
        <5>2. QED BY <2>1, <2>9, <5>1
      <4>2. e.type # PAGE_SWAP => e.key \notin Swap
        BY <1>2, <2>1 DEF EntryOK
      <4>3. QED BY <4>1, <4>2, NotSwap
    <3>3. e.key \in Int
      BY <1>2, KeysAre DEF Entries
    <3>4. g \in BlockUses /\ \A s \in VPlaces : g[s] = IF s = <<q, v>> THEN e.key ELSE Blocks[s]
      BY <2>8, <2>9, <2>18, <3>1, <3>3 DEF BlockUses
    <3>5. \A s \in VPlaces : g[s] = Blocks[s] \/ (g[s] \notin Swap /\ Blocks[s] \notin Swap)
      BY <3>2, <3>4
    <3>6. Sound(x, h, g)
      BY <2>7, <3>4, <3>5, BlocksAlike
    <3>7. QED BY <2>10, <3>4, <3>6, SameIsSound
  <2>21. /\ Kept(m, m') /\ Fewer(m, m') /\ m' \in Memories /\ Len(m'.free) < Len(m.free) /\ Known(m', p)
         /\ m'.pg[p].key = e.key /\ ~m'.pg[p].hashed
    BY <2>7, <2>10 DEF MemorySame, Kept, Fewer, Same, Known
  <2>22. LoadOK(q)'
    <3>1. u_area'[q] = r /\ Holding' = h
      <4>1. u_area \in [Procs -> Areas]
        BY Uses0
      <4>2. QED BY <2>6, <2>7, <2>17, <4>1, HoldingBecomes DEF Become
    <3>2. Has(h, Places, p) = {place}
      BY <2>7, <2>8, <2>9, OneUse DEF h
    <3>3. r.pgtbl[r.v].page = p
      BY <2>11, <2>13, <2>14 DEF v
    <3>4. place = <<"page", q, r.v>>
      BY <2>14 DEF place, PageAt, v
    <3>5. QED BY <2>14, <2>15, <2>21, <3>1, <3>2, <3>3, <3>4 DEF LoadOK, Reads
  <2>23. \A o \in Places : h[o] = Holding[o] \/ m.pg[h[o]].count = 0
    BY <2>7, <2>8 DEF Uses, h
  <2>24. \A w \in VPages : r.pgtbl[w].present =>
             (u.pgtbl[w].present /\ u.pgtbl[w].page = r.pgtbl[w].page) \/ Known(m', r.pgtbl[w].page)
    BY <2>11, <2>13, <2>14, <2>21
  <2>25. Told /\ sw' \in {sw, SwapperOn} /\ cpu' \in Procs \cup {0}
    <3>1. Len(m'.free) \in Nat
      BY <2>21 DEF Memories
    <3>2. QED BY <2>3, <2>8, <2>21, <3>1, LowOnPagesIs DEF Told
  <2>26. r.pc # "fork" /\ r.child \in {0, u.child} /\ r.page \in {0, u.page}
    BY <2>12, <2>14
  <2>27. /\ Become(q, r) /\ r \in Areas /\ r.busyblock = u.busyblock /\ h \in Uses /\ Kept(m, m') /\ Fewer(m, m')
         /\ binary' \in [Binaries -> BinaryFiles] /\ (r.pc = "load" => LoadOK(q)')
    BY <1>2, <2>3, <2>6, <2>7, <2>14, <2>21, <2>22
  <2>28. QED
    BY <1>1, <2>16, <2>17, <2>19, <2>20, <2>23, <2>24, <2>25, <2>26, <2>27, MoveStep DEF u
<1>5. QED BY <1>3, <1>4

\* What is read is a value.
LEMMA ContentsAre ==
  ASSUME MemInv, NEW key \in Keys, key # None
  PROVE  Contents(key) \in Values
<1>1. CASE key \in Swap
  BY <1>1 DEF Contents, MemInv, TypeOK, Memories
<1>2. CASE key \notin Swap
  <2>1. PICK f \in Binaries, v \in VPages : key = FileKey(f, v)
    BY <1>2 DEF Keys, FileKeys
  <2>2. f \in Nat /\ v \in 1..4
    BY MemoryAssumption DEF VPages, TEXT, STACK
  <2>3. BinaryOf(key) = f
    BY <2>1, <2>2 DEF BinaryOf, FileKey
  <2>4. binary[f].version \in Int
    BY DEF MemInv, TypeOK, BinaryFiles
  <2>5. key \in Int
    BY KeysAre
  <2>6. QED BY <1>2, <2>3, <2>4, <2>5 DEF Contents, Image, Values
<1>3. QED BY <1>1, <1>2

LEMMA LoadedOK ==
  ASSUME MemInv, NEW q \in Procs, Loaded(q)
  PROVE  MemInv'
<1> DEFINE u == u_area[q]
           v == u.v
           p == u.pgtbl[v].page
           key == m.pg[p].key
           x == [m EXCEPT !.data[p] = Contents(key), !.pg[p].hashed = TRUE]
           g == [Blocks EXCEPT ![<<q, v>>] = None]
<1>1. /\ Awake(q, "load") /\ waits' = WakeAll(Loading(q)) /\ cpu' = 0 /\ sw' = sw /\ binary' = binary
      /\ m' = IF m.pg[p].type = PAGE_SWAP THEN release_swap_block(x, key) ELSE x
  BY DEF Loaded
<1>2. /\ u \in Areas /\ Frame(u) /\ u.state = "alive" /\ u.pc = "load" /\ binary \in [Binaries -> BinaryFiles]
      /\ v \in VPages /\ u.pgtbl[v] \in Entries /\ EntryOK(u.pgtbl[v]) /\ waits[q] = Nothing
      /\ waits \in [Procs -> Procs \cup {Nothing, GetPage}]
  BY <1>1, AwakeIs
<1>3. u.pgtbl[v].present /\ u.busyblock # None
  BY <1>2 DEF Frame
<1>4. /\ Known(m, p) /\ key = u.busyblock /\ ~m.pg[p].hashed
  BY <1>2, <1>3 DEF MemInv, ProcOK, LoadOK, Reads
<1>5. PICK e : e = [u.pgtbl[v] EXCEPT !.busy = FALSE]
  OBVIOUS
<1>6. PICK pgtbl : pgtbl = [u.pgtbl EXCEPT ![v] = e]
  OBVIOUS
<1>7. PICK r : r = [u EXCEPT !.pc = "user", !.busyblock = None, !.pgtbl = pgtbl]
  OBVIOUS
<1>8. Become(q, r)
  BY <1>5, <1>6, <1>7 DEF Loaded
<1>9. /\ p \in Pages /\ PageAt(q, v) \in Places /\ Holding[PageAt(q, v)] = p
      /\ <<q, v>> \in VPlaces /\ Blocks[<<q, v>>] = key
  <2>1. PageAt(q, v) \in Places /\ Holding[PageAt(q, v)] = p /\ <<q, v>> \in VPlaces /\ Blocks[<<q, v>>] = BlockOf(u, v)
    BY <1>2, PlacesAre, HoldingAt
  <2>2. p # 0 /\ p \in 0..NPages
    BY <1>2, <1>3 DEF Entries, EntryOK
  <2>3. BlockOf(u, v) = u.busyblock
    BY <1>2, <1>3 DEF BlockOf
  <2> HIDE DEF p, key, u
  <2>4. QED BY <1>4, <2>1, <2>2, <2>3, NotSwap DEF Pages
<1>10. m \in Memories /\ Sound(m, Holding, Blocks) /\ Cached(m) /\ Holding \in Uses /\ Blocks \in BlockUses
  BY Uses0 DEF Sound
<1> HIDE DEF u, v, p, key
<1>11. key \in Keys /\ key # None /\ m.pg[p] \in Descriptors
  BY <1>3, <1>4, <1>9, <1>10 DEF Memories, Descriptors, key
<1>12. PICK d : d = [m.pg[p] EXCEPT !.hashed = TRUE]
  OBVIOUS
<1>13. PICK pg : pg = [m.pg EXCEPT ![p] = d]
  OBVIOUS
<1>14. PICK data : data = [m.data EXCEPT ![p] = Contents(key)]
  OBVIOUS
<1>15. PICK y : y = [m EXCEPT !.pg = pg]
  OBVIOUS
<1>16. x = [y EXCEPT !.data = data]
  <2>1. PICK z : z = x
    OBVIOUS
  <2>2. z = [y EXCEPT !.data = data]
    BY <1>10, <1>12, <1>13, <1>14, <1>15, <2>1 DEF Memories
  <2> HIDE DEF x
  <2>3. QED BY <2>1, <2>2
<1> HIDE DEF x
<1>17. d \in Descriptors /\ d.hashed /\ d.key = key /\ d.count = m.pg[p].count /\ d.type = m.pg[p].type
  BY <1>11, <1>12 DEF Descriptors, key
<1>18. Redescribed(m, y, p, d)
  BY <1>9, <1>10, <1>13, <1>15, <1>17, PageSet
<1>19. Sound(y, Holding, Blocks)
  <2>1. \A o \in Pages : m.pg[o].hashed => m.pg[o].key # key
    BY <1>3, <1>4 DEF MemInv, LoadsOK, u
  <2>2. d.type # PAGE_DZ
    BY <1>4, <1>11, <1>17 DEF Known, key
  <2>3. IF d.type = PAGE_SWAP THEN d.key \in Swap \cup {None} ELSE d.key \notin Swap
    BY <1>9, <1>10, <1>17 DEF Cached, key
  <2>4. m.swap.latest = -1 => d.key \notin Swap
    BY <1>9, <1>10, <1>17 DEF Sound, BlocksBalanced, key
  <2>5. QED BY <1>9, <1>10, <1>11, <1>17, <1>18, <2>1, <2>2, <2>3, <2>4, Described
<1>20. MemorySame(y, x)
  <2>1. y \in Memories
    BY <1>18 DEF Redescribed
  <2>2. data \in [Pages -> Values]
    BY <1>10, <1>11, <1>14, ContentsAre DEF Memories
  <2>3. QED BY <1>16, <2>1, <2>2, DataSet
<1>21. Sound(x, Holding, Blocks)
  BY <1>19, <1>20, SameIsSound
<1>22. /\ Sound(m', Holding, g) /\ g \in BlockUses /\ AllSame(x, m') /\ m'.free = x.free /\ m'.swap_map = x.swap_map
  <2>1. None \in Int /\ None \notin Swap
    BY NotSwap DEF None
  <2>2. CASE m.pg[p].type = PAGE_SWAP
    <3>1. key \in Swap
      BY <1>9, <1>10, <1>11, <2>2 DEF Cached, key
    <3>2. m' = release_swap_block(x, Blocks[<<q, v>>])
      BY <1>1, <1>9, <2>2 DEF p, key, v, u, x
    <3>3. BlocksSet(x, m', Holding, g)
      BY <1>9, <1>10, <1>21, <2>1, <3>1, <3>2, BlockReleases
    <3>4. QED BY <3>3 DEF BlocksSet
  <2>3. CASE m.pg[p].type # PAGE_SWAP
    <3>1. key \notin Swap
      BY <1>9, <1>10, <2>3 DEF Cached, key
    <3>2. m' = x
      BY <1>1, <2>3 DEF p, v, u, x, key
    <3>3. g \in BlockUses /\ \A s \in VPlaces : g[s] = Blocks[s] \/ (g[s] \notin Swap /\ Blocks[s] \notin Swap)
      BY <1>9, <1>10, <2>1, <3>1 DEF BlockUses
    <3> HIDE DEF g
    <3>4. Sound(x, Holding, g)
      BY <1>21, <3>3, BlocksAlike
    <3>5. QED BY <3>2, <3>3, <3>4 DEF AllSame, Same
  <2>4. QED BY <2>2, <2>3
<1>23. /\ \A o \in Pages \ {p} : Same(m, m', o)
       /\ m'.pg[p].key = key /\ m'.pg[p].type = m.pg[p].type /\ m'.pg[p].hashed
       /\ m'.free = m.free /\ m'.swap_map = m.swap_map /\ m' \in Memories
  BY <1>9, <1>17, <1>18, <1>20, <1>22 DEF Redescribed, MemorySame, AllSame, Same, Sound
<1>24. e \in Entries /\ e.present /\ e.page = p /\ EntryOK(e)
  BY <1>2, <1>3, <1>5 DEF Entries, EntryOK, p
<1>25. pgtbl \in [VPages -> Entries] /\ pgtbl[v] = e /\ \A w \in VPages \ {v} : pgtbl[w] = u.pgtbl[w]
  BY <1>2, <1>6, <1>24 DEF Areas
<1>26. /\ r \in Areas /\ r.pc = "user" /\ r.busyblock = None /\ r.child = u.child /\ r.pgtbl = pgtbl
       /\ r.tables = u.tables /\ r.kernel = u.kernel /\ r.page = u.page
  BY <1>2, <1>7, <1>25, KeysAre DEF Areas
<1>27. Frame(r)
  <2>1. \A w \in VPages : EntryOK(r.pgtbl[w])
    BY <1>2, <1>24, <1>25, <1>26 DEF Frame
  <2>2. r.state = "alive"
    BY <1>2, <1>7 DEF Areas
  <2>3. QED BY <1>2, <1>26, <2>1, <2>2 DEF Frame
<1>28. \A w \in VPages : r.pgtbl[w].page = u.pgtbl[w].page /\ r.pgtbl[w].present = u.pgtbl[w].present
  <2>1. u.pgtbl[v].present /\ p = u.pgtbl[v].page
    BY <1>3 DEF p
  <2>2. TAKE w \in VPages
  <2>3. CASE w = v
    <3>1. r.pgtbl[w] = e
      BY <1>25, <1>26, <2>3
    <3>2. QED BY <1>24, <2>1, <2>3, <3>1
  <2>4. CASE w # v
    BY <1>25, <1>26, <2>4
  <2>5. QED BY <2>3, <2>4
<1>29. Holding' = Holding /\ Blocks' = g
  <2>1. u_area \in [Procs -> Areas]
    BY Uses0
  <2>2. HoldsNext(q, r, Holding)
    <3>1. sw'.page = sw.page /\ m'.swap_map = m.swap_map
      BY <1>1, <1>23
    <3>2. r.tables = u.tables /\ r.kernel = u.kernel /\ r.page = u.page
      BY <1>26
    <3>3. /\ \A w \in VPages : Holding[PageAt(q, w)] = u.pgtbl[w].page
          /\ \A t \in Tables : Holding[TableAt(q, t)] = u.tables[t]
          /\ \A i \in {1, 2} : Holding[KernelAt(q, i)] = u.kernel[i]
          /\ Holding[ArgumentsAt(q)] = u.page /\ Holding[SwapperAt] = sw.page /\ Holding[MapAt] = m.swap_map
      BY HoldingAt DEF u
    <3>4. QED BY ONLY <1>28, <3>1, <3>2, <3>3 DEF HoldsNext
  <2>3. BlocksNext(q, r, g)
    <3>1. BlockOf(r, v) = None
      BY <1>24, <1>25, <1>26 DEF BlockOf
    <3>2. \A w \in VPages \ {v} : BlockOf(r, w) = BlockOf(u, w)
      BY <1>25, <1>26 DEF BlockOf, v
    <3>3. g = [Blocks EXCEPT ![<<q, v>>] = BlockOf(r, v)]
      BY <3>1
    <3> HIDE DEF g
    <3>4. QED BY <1>2, <3>2, <3>3, BlockChanges DEF u
  <2>4. QED BY <1>8, <1>10, <1>22, <2>1, <2>2, <2>3, HoldingBecomes, BlocksBecome
<1> HIDE DEF g
<1>30. Others(q)
  <2>1. ~Foreign(p, q)
    <3>1. PageAt(q, v)[2] = q
      BY DEF PageAt
    <3>2. QED BY <1>9, <3>1, ForeignPage
  <2>2. \A o \in Pages : (Known(m, o) => Known(m', o)) /\ (Plain(m, o) => Plain(m', o))
    BY <1>23 DEF Known, Plain, Same, key
  <2>3. \A o \in Pages : Foreign(o, q) => m'.pg[o].key = m.pg[o].key /\ m'.pg[o].hashed = m.pg[o].hashed
    BY <1>23, <2>1 DEF Same
  <2>4. QED BY <1>29, <2>2, <2>3 DEF Others
<1>31. u_area'[q] = r /\ \A o \in Procs \ {q} : u_area'[o] = u_area[o]
  BY <1>8 DEF Become, MemInv, TypeOK
<1>32. LoadsOK'
  <2>1. LoadsOK
    BY DEF MemInv
  <2>2. ASSUME NEW o \in Procs, u_area'[o].busyblock # None
        PROVE  o # q /\ u_area'[o].busyblock = u_area[o].busyblock /\ u_area[o].busyblock # key
    BY <1>4, <1>26, <1>31, <2>1, <2>2 DEF LoadsOK, u
  <2>3. ASSUME NEW o \in Procs, NEW s \in Pages, u_area'[o].busyblock # None, m'.pg[s].hashed
        PROVE  m'.pg[s].key # u_area'[o].busyblock
    BY <1>23, <2>1, <2>2, <2>3 DEF LoadsOK, Same
  <2>4. ASSUME NEW o \in Procs, NEW s \in Procs, u_area'[o].busyblock # None, u_area'[o].busyblock = u_area'[s].busyblock
        PROVE  o = s
    BY <2>1, <2>2, <2>4 DEF LoadsOK
  <2>5. QED BY <2>3, <2>4 DEF LoadsOK
<1>33. ForksOK'
  BY <1>2, <1>8, <1>26, ForksKept DEF u
<1>34. /\ \A o \in Procs : waits'[o] = (IF waits[o] = q THEN Nothing ELSE waits[o]) /\ Nothing # q
       /\ waits' \in [Procs -> Procs \cup {Nothing, GetPage}]
  <2>1. q # Nothing
    BY PlacesAre DEF Nothing
  <2>2. QED BY <1>1, <1>2, <2>1 DEF WakeAll, Loading
<1>35. Waiters(q, r)
  <2>1. Len(m'.free) <= Len(m.free)
    BY <1>23, Uses0
  <2>2. QED BY <1>1, <1>34, <2>1 DEF Waiters
<1>36. WaitOK(q)'
  BY <1>2, <1>34, NothingWaits
<1>37. LoadOK(q)'
  BY <1>26, <1>31 DEF LoadOK
<1>38. sw' \in Swappers /\ SwapperOK' /\ cpu' \in Procs \cup {0} /\ Sound(m', Holding', Blocks')
  BY <1>1, <1>22, <1>29, SwapperGoesOn DEF SwapperKept
<1>39. \A w \in VPages : r.pgtbl[w].present => u.pgtbl[w].present /\ u.pgtbl[w].page = r.pgtbl[w].page
  BY <1>28
<1>40. QED
  BY <1>1, <1>2, <1>8, <1>26, <1>27, <1>30, <1>32, <1>33, <1>34, <1>35, <1>36, <1>37, <1>38, <1>39, StepOK DEF u

\* A place gives up a page that has other uses, for the first free one.
CountLess(x, y, p) == y = [x EXCEPT !.pg[p].count = x.pg[p].count - 1]

LEMMA Trades ==
  ASSUME NEW x, NEW h \in Uses, NEW g, Sound(x, h, g), NEW place \in Places, NEW old \in Pages, h[place] = old,
         x.pg[old].count > 1, NEW z, NEW p, FirstTaken(x, z, p), NEW y, CountLess(z, y, old)
  PROVE  /\ Sound(y, [h EXCEPT ![place] = p], g) /\ [h EXCEPT ![place] = p] \in Uses
         /\ AllSame(z, y) /\ SwapSame(z, y) /\ y.free = z.free /\ y \in Memories
<1> DEFINE k == [h EXCEPT ![place] = p]
           n == z.pg[old].count - 1
<1>1. x \in Memories /\ PagesBalanced(x, h) /\ BlocksBalanced(x, g) /\ Cached(x)
  BY DEF Sound
<1>2. /\ z \in Memories /\ z.free \in Seq(Pages) /\ IsInjective(z.free) /\ Range(z.free) = Range(x.free) \ {p}
      /\ p \in Pages /\ x.pg[p].count = 0 /\ p \in Range(x.free) /\ z.pg[p].count = 1 /\ Fades(x, z) /\ SwapSame(x, z)
      /\ \A r \in Pages : r # p => z.pg[r].count = x.pg[r].count
  BY DEF FirstTaken
<1>3. p # old /\ n \in Nat /\ n > 0 /\ n = x.pg[old].count - 1
  <2>1. x.pg[old].count \in Nat
    BY <1>1 DEF Memories, Descriptors
  <2>2. QED BY <1>2, <2>1
<1>4. y = [z EXCEPT !.pg[old].count = n]
  BY DEF CountLess
<1> HIDE DEF n
<1>5. y \in Memories
  <2>1. [z EXCEPT !.pg[old].count = n] \in Memories
    BY <1>2, <1>3, SetCount
  <2>2. QED BY <1>4, <2>1
<1>6. /\ y.free = z.free /\ SwapSame(z, y) /\ AllSame(z, y)
      /\ \A r \in Pages : y.pg[r].count = IF r = old THEN n ELSE z.pg[r].count
  <2>1. z \in Memories
    BY <1>2
  <2>2. QED BY <1>4, <2>1 DEF Memories, SwapSame, AllSame, Same
<1>7. k \in Uses
  BY <1>2, NotSwap DEF Uses
<1>8. ASSUME NEW r \in Pages
      PROVE  Cardinality(Has(k, Places, r)) = IF r = p THEN 1 ELSE IF r = old THEN x.pg[r].count - 1 ELSE x.pg[r].count
  <2>1. IsFiniteSet(Places) /\ h \in [Places -> Int] /\ r # 0
    BY PlacesFinite, NotSwap DEF Uses
  <2>2. CountsAfter(h, Places, place, p, r)
    BY <2>1, CountChanges
  <2>3. x.pg[r].count = Cardinality(Has(h, Places, r))
    BY <1>1 DEF PagesBalanced
  <2>4. QED BY <1>2, <1>3, <2>2, <2>3 DEF CountsAfter
<1> HIDE DEF k
<1>9. PagesBalanced(y, k)
  <2>1. \A r \in Pages : y.pg[r].count = Cardinality(Has(k, Places, r))
    BY <1>2, <1>3, <1>6, <1>8
  <2>2. \A r \in Pages : y.pg[r].count = 0 <=> r \in Range(y.free)
    BY <1>1, <1>2, <1>3, <1>6 DEF PagesBalanced
  <2>3. QED BY <1>2, <1>6, <2>1, <2>2 DEF PagesBalanced
<1>10. Fades(x, y) /\ SwapSame(x, y)
  BY <1>2, <1>6 DEF Fades, Same, AllSame, SwapSame
<1>11. BlocksBalanced(y, g) /\ Cached(y)
  BY <1>1, <1>10, FadesBlocks, FadesCached
<1>12. QED BY <1>5, <1>6, <1>7, <1>9, <1>11 DEF Sound, k

LEMMA CopyOK ==
  ASSUME MemInv, NEW q \in Procs, Copy(q)
  PROVE  MemInv'
<1> DEFINE u == u_area[q]
           v == u.v
           old == u.pgtbl[v].page
           new == Head(m.free)
           x == get_page(m)
           place == PageAt(q, v)
           h == [Holding EXCEPT ![place] = new]
<1>1. Awake(q, "copy")
  BY DEF Copy
<1>2. /\ u \in Areas /\ Frame(u) /\ u.state = "alive" /\ u.pc = "copy" /\ binary \in [Binaries -> BinaryFiles]
      /\ v \in VPages /\ cpu \in Procs \cup {0} /\ u.pgtbl[v] \in Entries /\ EntryOK(u.pgtbl[v]) /\ waits[q] = Nothing
  BY <1>1, AwakeIs
<1>3. u.pgtbl[v].present
  BY <1>2 DEF Frame
<1>4. CASE reserve_pages(q, 1)
  <2>1. Needs(q) = 1
    BY <1>2 DEF Needs
  <2>2. QED BY <1>2, <1>4, <2>1, Reserves DEF Reserving
<1>5. CASE not_shared(q, v, old)
  BY <1>1, <1>2, <1>3, <1>5, NotSharedOK
<1>6. CASE ~reserve_pages(q, 1) /\ ~not_shared(q, v, old)
  <2>1. PICK y : y = [x EXCEPT !.pg[old].count = x.pg[old].count - 1]
    OBVIOUS
  <2>2. PICK d : d = [y.pg[new] EXCEPT !.type = PAGE_SWAP]
    OBVIOUS
  <2>3. PICK pg : pg = [y.pg EXCEPT ![new] = d]
    OBVIOUS
  <2>4. PICK z : z = [y EXCEPT !.pg = pg]
    OBVIOUS
  <2>5. PICK data : data = [z.data EXCEPT ![new] = m.data[old]]
    OBVIOUS
  <2>6. PICK pgtbl : pgtbl = [u.pgtbl EXCEPT ![v] = Mapped(new, TRUE)]
    OBVIOUS
  <2>7. PICK r : r = [u EXCEPT !.pc = "user", !.pgtbl = pgtbl]
    OBVIOUS
  <2>8. /\ Become(q, r) /\ LowOnPages(m') /\ cpu' = 0 /\ waits' = waits /\ binary' = binary
        /\ Len(m.free) >= 1 /\ m.pg[old].count > 1
    BY <1>6, <2>6, <2>7 DEF Copy, free_pages
  <2>9. m' = [x EXCEPT !.pg[old].count = @ - 1, !.pg[new].type = PAGE_SWAP, !.data[new] = m.data[old]]
    BY <1>6 DEF Copy
  <2>10. Holding \in Uses /\ Blocks \in BlockUses /\ Sound(m, Holding, Blocks) /\ Len(m.free) \in Nat /\ m \in Memories
    BY Uses0
  <2>11. place \in Places /\ Holding[place] = old /\ old \in Pages /\ <<q, v>> \in VPlaces /\ place[2] = q
    <3>1. Holding[place] = old /\ place \in Places /\ <<q, v>> \in VPlaces
      BY <1>2, HoldingAt, PlacesAre
    <3>2. old # 0 /\ old \in 0..NPages
      BY <1>2, <1>3 DEF Entries, EntryOK
    <3> HIDE DEF old
    <3>3. QED BY <3>1, <3>2, NotSwap DEF Pages, PageAt
  <2>12. FirstTaken(m, x, new)
    BY <2>8, <2>10, FirstPage
  <2> HIDE DEF u, v, old, new, x, place
  <2>13. /\ Sound(y, h, Blocks) /\ h \in Uses /\ AllSame(x, y) /\ SwapSame(x, y) /\ y.free = x.free /\ y \in Memories
    <3>1. CountLess(x, y, old)
      BY <2>1 DEF CountLess
    <3>2. Holding \in Uses /\ Sound(m, Holding, Blocks) /\ place \in Places /\ old \in Pages /\ Holding[place] = old /\ m.pg[old].count > 1
      BY <2>8, <2>10, <2>11
    <3>3. /\ Sound(y, [Holding EXCEPT ![place] = new], Blocks) /\ [Holding EXCEPT ![place] = new] \in Uses
          /\ AllSame(x, y) /\ SwapSame(x, y) /\ y.free = x.free /\ y \in Memories
      BY <2>12, <3>1, <3>2, Trades
    <3>4. QED BY <3>3
  <2>14. /\ new \in Pages /\ new # 0 /\ m.pg[new].count = 0 /\ x.pg[new].key = None /\ ~x.pg[new].hashed /\ new # old
         /\ Len(x.free) = Len(m.free) - 1 /\ SwapSame(m, x) /\ \A o \in Pages : o # new => Same(m, x, o)
    BY <2>8, <2>12, NotSwap DEF FirstTaken
  <2>15. d \in Descriptors /\ d.count = y.pg[new].count /\ d.key = None /\ ~d.hashed /\ d.type = PAGE_SWAP
    <3>1. y.pg[new] \in Descriptors /\ y.pg[new].key = None /\ ~y.pg[new].hashed
      BY <2>13, <2>14 DEF Memories, AllSame, Same
    <3>2. QED BY <2>2, <3>1 DEF Descriptors, Types
  <2>16. Redescribed(y, z, new, d)
    BY <2>3, <2>4, <2>13, <2>14, <2>15, PageSet
  <2>17. Sound(z, h, Blocks)
    BY <2>13, <2>14, <2>15, <2>16, NotSwap, Described
  <2>18. MemorySame(z, m')
    <3>1. x \in Memories /\ y \in Memories /\ z \in Memories
      BY <2>12, <2>13, <2>16 DEF FirstTaken, Redescribed
    <3>2. m' = [z EXCEPT !.data = data]
      <4>1. pg = [[x.pg EXCEPT ![old].count = @ - 1] EXCEPT ![new].type = PAGE_SWAP]
        BY <2>1, <2>2, <2>3, <2>11, <2>14, <3>1 DEF Memories
      <4>2. data = [x.data EXCEPT ![new] = m.data[old]]
        BY <2>1, <2>4, <2>5, <3>1 DEF Memories
      <4>3. [z EXCEPT !.data = data] = [x EXCEPT !.pg = pg, !.data = data]
        BY <2>1, <2>4, <3>1 DEF Memories
      <4>4. QED BY <2>9, <4>1, <4>2, <4>3
    <3>3. data \in [Pages -> Values]
      BY <2>5, <2>10, <2>11, <3>1 DEF Memories
    <3>4. QED BY <3>1, <3>2, <3>3, DataSet
  <2>19. Sound(m', h, Blocks)
    BY <2>17, <2>18, SameIsSound
  <2>20. /\ Kept(m, m') /\ Fewer(m, m') /\ m'.pg[new].type = PAGE_SWAP /\ m' \in Memories /\ Len(m'.free) < Len(m.free)
         /\ m'.swap_map = m.swap_map
    <3>1. \A o \in Pages : IF o = new THEN ~m'.pg[o].hashed /\ m'.pg[o].type = PAGE_SWAP ELSE Same(m, m', o)
      BY <2>13, <2>14, <2>15, <2>16, <2>18 DEF AllSame, Same, Redescribed, MemorySame
    <3>2. m'.free = x.free /\ m'.swap_map = m.swap_map /\ m' \in Memories
      BY <2>13, <2>14, <2>16, <2>18 DEF SwapSame, Redescribed, MemorySame
    <3>3. QED BY <2>10, <2>14, <3>1, <3>2 DEF Kept, Fewer, Same
  <2>21. Mapped(new, TRUE) \in Entries /\ EntryOK(Mapped(new, TRUE)) /\ Mapped(new, TRUE).page = new /\ Mapped(new, TRUE).present
    BY <2>14, KeysAre, NotSwap DEF Mapped, Entries, EntryOK, Types
  <2>22. pgtbl \in [VPages -> Entries] /\ pgtbl[v] = Mapped(new, TRUE) /\ \A w \in VPages \ {v} : pgtbl[w] = u.pgtbl[w]
    BY <1>2, <2>6, <2>21 DEF Areas
  <2>23. /\ r \in Areas /\ r.pc = "user" /\ r.busyblock = u.busyblock /\ r.child = u.child /\ r.pgtbl = pgtbl
         /\ r.tables = u.tables /\ r.kernel = u.kernel /\ r.page = u.page
    <3>1. u \in Areas
      BY <1>2
    <3>2. r \in Areas
      BY <1>2, <2>7, <2>22 DEF Areas
    <3>3. QED BY <1>2, <2>7, <3>1, <3>2 DEF Areas
  <2>24. Frame(r)
    <3>1. \A w \in VPages : EntryOK(r.pgtbl[w])
      BY <1>2, <2>21, <2>22, <2>23 DEF Frame
    <3>2. r.state = "alive"
      BY <1>2, <2>7 DEF Areas
    <3>3. QED BY <1>2, <2>23, <3>1, <3>2 DEF Frame
  <2>25. HoldsNext(q, r, h)
    <3>1. sw'.page = sw.page
      BY <2>8, LowOnPagesIs, SwapperGoesOn DEF SwapperKept
    <3>2. r.pgtbl[v].page = new /\ \A w \in VPages \ {v} : r.pgtbl[w].page = u.pgtbl[w].page
      BY <2>21, <2>22, <2>23
    <3>3. h = [Holding EXCEPT ![PageAt(q, v)] = new]
      BY DEF place
    <3>4. QED BY <1>2, <2>20, <2>23, <3>1, <3>2, <3>3, EntryChanges DEF u
  <2>26. BlocksNext(q, r, Blocks)
    <3>1. ASSUME NEW w \in VPages PROVE BlockOf(r, w) = Blocks[<<q, w>>]
      <4>1. Blocks[<<q, w>>] = BlockOf(u, w)
        BY HoldingAt DEF u
      <4>2. CASE w = v
        BY <1>2, <1>3, <2>21, <2>22, <2>23, <4>1, <4>2 DEF BlockOf
      <4>3. CASE w # v
        BY <1>2, <2>22, <2>23, <4>1, <4>3 DEF BlockOf
      <4>4. QED BY <4>2, <4>3
    <3>2. QED BY <3>1 DEF BlocksNext
  <2>27. \A o \in Places : h[o] = Holding[o] \/ m.pg[h[o]].count = 0
    BY <2>10, <2>14 DEF Uses
  <2>28. \A w \in VPages : r.pgtbl[w].present =>
             (u.pgtbl[w].present /\ u.pgtbl[w].page = r.pgtbl[w].page) \/ Known(m', r.pgtbl[w].page)
    <3>1. Known(m', new)
      BY <2>20 DEF Known, PAGE_DZ, PAGE_FILE, PAGE_SWAP
    <3>2. QED BY <2>21, <2>22, <2>23, <3>1
  <2>29. Told /\ sw' \in {sw, SwapperOn} /\ cpu' \in Procs \cup {0}
    <3>1. Len(m'.free) \in Nat
      BY <2>20 DEF Memories
    <3>2. QED BY <2>8, <2>10, <2>20, <3>1, LowOnPagesIs DEF Told
  <2> HIDE DEF h
  <2>30. /\ h \in Uses /\ Blocks \in BlockUses /\ Kept(m, m') /\ Fewer(m, m') /\ binary' \in [Binaries -> BinaryFiles]
         /\ r.page \in {0, u.page}
         /\ Become(q, r) /\ r.pc # "load" /\ r.pc # "fork" /\ r.child \in {0, u.child} /\ r.busyblock = u.busyblock /\ r \in Areas
    BY <1>2, <2>8, <2>10, <2>13, <2>20, <2>23
  <2>31. QED
    BY <1>1, <2>19, <2>24, <2>25, <2>26, <2>27, <2>28, <2>29, <2>30, MoveStep DEF u
<1>7. QED BY <1>4, <1>5, <1>6

\* What a process uses that reads no block.
LEMMA FitsOwn ==
  ASSUME MemInv, NEW q \in Procs, u_area[q].pc # "load"
  PROVE  Fits(q, Holding, Blocks)
<1>1. \A v \in VPages : EntryOK(u_area[q].pgtbl[v])
  BY DEF MemInv, ProcOK, Frame
<1>2. ASSUME NEW v \in VPages PROVE EntryAt(u_area[q].pgtbl[v], Holding, Blocks, PageAt(q, v), <<q, v>>)
  <2>1. Holding[PageAt(q, v)] = u_area[q].pgtbl[v].page /\ Blocks[<<q, v>>] = BlockOf(u_area[q], v)
    BY HoldingAt
  <2>2. QED BY <2>1 DEF BlockOf, EntryAt
<1>3. QED BY <1>1, <1>2, HoldingAt DEF Fits

\* What giving back leaves to the others.
LEMMA ReleasedKept ==
  ASSUME NEW x, NEW y, NEW h, NEW g, NEW A, NEW B, Released(x, y, h, g, A, B)
  PROVE  /\ Sound(y, Emptied(h, A), Freed(g, B)) /\ Emptied(h, A) \in Uses /\ Freed(g, B) \in BlockUses
         /\ Kept(x, y) /\ Fewer(x, y) /\ y.swap_map = x.swap_map /\ Len(y.free) >= Len(x.free) /\ AllSame(x, y)
         /\ \A o \in Places : Emptied(h, A)[o] = IF o \in A THEN 0 ELSE h[o]
         /\ \A o \in Places : Emptied(h, A)[o] = h[o] \/ Emptied(h, A)[o] \notin Pages
         /\ \A s \in VPlaces : Freed(g, B)[s] = IF s \in B THEN None ELSE g[s]
<1>1. /\ Sound(y, Emptied(h, A), Freed(g, B)) /\ Emptied(h, A) \in Uses /\ Freed(g, B) \in BlockUses
      /\ AllSame(x, y) /\ y.swap_map = x.swap_map /\ Len(y.free) >= Len(x.free)
  BY DEF Released
<1>2. Kept(x, y) /\ Fewer(x, y)
  BY <1>1 DEF AllSame, Same, Kept, Fewer
<1>3. \A o \in Places : Emptied(h, A)[o] = IF o \in A THEN 0 ELSE h[o]
  BY DEF Emptied
<1>4. \A s \in VPlaces : Freed(g, B)[s] = IF s \in B THEN None ELSE g[s]
  BY DEF Freed
<1>5. QED BY <1>1, <1>2, <1>3, <1>4, NotSwap

LEMMA WakeIfFreedIs ==
  ASSUME NEW x, WakeIfFreed(x), m' = x
  PROVE  Told
BY DEF WakeIfFreed, Told, free_pages

LEMMA BrkOK ==
  ASSUME MemInv, NEW q \in Procs, brk(q)
  PROVE  MemInv'
<1> DEFINE u == u_area[q]
<1>1. Awake(q, "user") /\ sw' = sw /\ binary' = binary /\ cpu' = cpu
  BY DEF brk
<1>2. /\ u \in Areas /\ Frame(u) /\ u.state = "alive" /\ u.pc = "user" /\ binary \in [Binaries -> BinaryFiles]
      /\ cpu \in Procs \cup {0} /\ u.busyblock = None /\ u.child = 0
  <2>1. Awake(q, "user")
    BY <1>1
  <2>2. /\ u \in Areas /\ Frame(u) /\ u.state = "alive" /\ u.pc = "user" /\ binary \in [Binaries -> BinaryFiles]
        /\ cpu \in Procs \cup {0}
    BY <2>1, AwakeIs
  <2>3. QED BY <2>2 DEF Frame
<1>3. CASE u.brk
  <2>1. PICK pgtbl : pgtbl = [u.pgtbl EXCEPT ![HEAP] = Empty]
    OBVIOUS
  <2>2. PICK tables : tables = [u.tables EXCEPT !["heap"] = 0]
    OBVIOUS
  <2>3. PICK mem : mem = [u.mem EXCEPT ![HEAP] = Zeros]
    OBVIOUS
  <2>4. PICK r : r = [u EXCEPT !.brk = FALSE, !.pgtbl = pgtbl, !.tables = tables, !.mem = mem]
    OBVIOUS
  <2>5. Become(q, r) /\ m' = WithoutHeap(m, q) /\ WakeIfFreed(m')
    BY <1>3, <2>1, <2>2, <2>3, <2>4 DEF brk
  <2> HIDE DEF u
  <2>6. PICK A, B : A = HeapPlaces(q) /\ B = {<<q, HEAP>>}
    OBVIOUS
  <2>7. Released(m, m', Holding, Blocks, A, B)
    <3>1. Fits(q, Holding, Blocks)
      BY <1>2, FitsOwn DEF u
    <3>2. QED BY <2>5, <2>6, <3>1, Uses0, HeapReleased
  <2>8. PICK h, g : h = Emptied(Holding, A) /\ g = Freed(Blocks, B)
    OBVIOUS
  <2>9. /\ Sound(m', h, g) /\ h \in Uses /\ g \in BlockUses
        /\ Kept(m, m') /\ Fewer(m, m') /\ m'.swap_map = m.swap_map /\ Len(m'.free) >= Len(m.free)
        /\ \A o \in Places : h[o] = IF o \in A THEN 0 ELSE Holding[o]
        /\ \A o \in Places : h[o] = Holding[o] \/ h[o] \notin Pages
        /\ \A s \in VPlaces : g[s] = IF s \in B THEN None ELSE Blocks[s]
    BY <2>7, <2>8, ReleasedKept
  <2>10. /\ pgtbl \in [VPages -> Entries] /\ pgtbl[HEAP] = Empty /\ \A w \in VPages \ {HEAP} : pgtbl[w] = u.pgtbl[w]
         /\ EntryOK(Empty) /\ Empty.page = 0 /\ Empty.type # PAGE_SWAP /\ ~Empty.present
    <3>1. Empty \in Entries /\ EntryOK(Empty) /\ Empty.page = 0 /\ Empty.type # PAGE_SWAP /\ ~Empty.present
      BY KeysAre, NotSwap DEF Empty, Missing, Entries, EntryOK, Types, None, PAGE_DZ, PAGE_SWAP
    <3>2. QED BY <1>2, <2>1, <3>1, FourPages DEF Areas
  <2>11. tables \in [Tables -> 0..NPages] /\ tables["heap"] = 0 /\ \A t \in Tables \ {"heap"} : tables[t] = u.tables[t]
    BY <1>2, <2>2, NotSwap DEF Areas, Tables
  <2>12. mem \in [VPages -> Values]
    <3>1. Zeros \in Values
      BY DEF Zeros, Stored, None, Values
    <3>2. u.mem \in [VPages -> Values]
      BY <1>2 DEF Areas
    <3>3. QED BY <2>3, <3>1, <3>2
  <2>13. /\ r \in Areas /\ r.pc = "user" /\ r.busyblock = u.busyblock /\ r.child = u.child /\ r.pgtbl = pgtbl
         /\ r.tables = tables /\ r.kernel = u.kernel /\ r.page = u.page /\ r.state = "alive"
    BY <1>2, <2>4, <2>10, <2>11, <2>12 DEF Areas
  <2>14. Frame(r)
    <3>1. \A w \in VPages : EntryOK(r.pgtbl[w])
      BY <1>2, <2>10, <2>13 DEF Frame
    <3>2. QED BY <1>2, <2>13, <3>1 DEF Frame
  <2>15. HoldsNext(q, r, h)
    <3>1. \A v \in VPages : h[PageAt(q, v)] = r.pgtbl[v].page
      <4>1. TAKE v \in VPages
      <4>2. PageAt(q, v) \in Places /\ Holding[PageAt(q, v)] = u.pgtbl[v].page
        BY PlacesAre, HoldingAt DEF u
      <4>3. PageAt(q, v) \in A <=> v = HEAP
        BY <2>6 DEF HeapPlaces, PageAt, TableAt
      <4>4. QED BY <2>9, <2>10, <2>13, <4>2, <4>3
    <3>2. \A t \in Tables : h[TableAt(q, t)] = r.tables[t]
      <4>1. TAKE t \in Tables
      <4>2. TableAt(q, t) \in Places /\ Holding[TableAt(q, t)] = u.tables[t]
        BY PlacesAre, HoldingAt DEF u
      <4>3. TableAt(q, t) \in A <=> t = "heap"
        BY <2>6 DEF HeapPlaces, PageAt, TableAt, Tables
      <4>4. QED BY <2>9, <2>11, <2>13, <4>2, <4>3
    <3>3. \A i \in {1, 2} : h[KernelAt(q, i)] = r.kernel[i]
      <4>1. TAKE i \in {1, 2}
      <4>2. KernelAt(q, i) \notin A
        BY <2>6 DEF HeapPlaces, PageAt, TableAt, KernelAt
      <4>3. QED BY <2>9, <2>13, <4>2, PlacesAre, HoldingAt DEF u
    <3>4. h[ArgumentsAt(q)] = r.page /\ h[SwapperAt] = sw'.page /\ h[MapAt] = m'.swap_map
      <4>1. ArgumentsAt(q) \notin A /\ SwapperAt \notin A /\ MapAt \notin A
        BY <2>6 DEF HeapPlaces, PageAt, TableAt, ArgumentsAt, SwapperAt, MapAt
      <4>2. QED BY <1>1, <2>9, <2>13, <4>1, PlacesAre, HoldingAt DEF u
    <3>5. \A place \in Places : place[2] # q => h[place] = Holding[place]
      <4>1. \A place \in A : place[2] = q
        BY <2>6 DEF HeapPlaces, PageAt, TableAt
      <4>2. QED BY <2>9, <4>1
    <3>6. QED BY <3>1, <3>2, <3>3, <3>4, <3>5 DEF HoldsNext
  <2>16. BlocksNext(q, r, g)
    <3>1. ASSUME NEW w \in VPages PROVE BlockOf(r, w) = g[<<q, w>>]
      <4>1. Blocks[<<q, w>>] = BlockOf(u, w) /\ <<q, w>> \in VPlaces
        BY HoldingAt, PlacesAre DEF u
      <4>2. <<q, w>> \in B <=> w = HEAP
        BY <2>6
      <4>3. g[<<q, w>>] = IF w = HEAP THEN None ELSE BlockOf(u, w)
        BY <2>9, <4>1, <4>2
      <4>4. CASE w = HEAP
        BY <2>10, <2>13, <4>3, <4>4 DEF BlockOf
      <4>5. CASE w # HEAP
        BY <1>2, <2>10, <2>13, <4>3, <4>5 DEF BlockOf
      <4>6. QED BY <4>4, <4>5
    <3>2. \A s \in VPlaces : s[1] # q => g[s] = Blocks[s]
      BY <2>6, <2>9
    <3>3. QED BY <3>1, <3>2 DEF BlocksNext
  <2>17. \A w \in VPages : r.pgtbl[w].present => u.pgtbl[w].present /\ u.pgtbl[w].page = r.pgtbl[w].page
    BY <2>10, <2>13
  <2>18. Told /\ sw' \in {sw, SwapperOn} /\ cpu' \in Procs \cup {0} /\ binary' \in [Binaries -> BinaryFiles]
    BY <1>1, <1>2, <2>5, WakeIfFreedIs
  <2>19. /\ Become(q, r) /\ r.pc # "load" /\ r.pc # "fork" /\ r.child \in {0, u.child} /\ r.busyblock = u.busyblock /\ r \in Areas
         /\ r.page \in {0, u.page}
    BY <2>5, <2>13
  <2>20. QED BY <1>1, <2>9, <2>14, <2>15, <2>16, <2>17, <2>18, <2>19, MoveStep DEF u
<1>4. CASE ~u.brk
  <2>1. PICK r : r = [u EXCEPT !.brk = TRUE]
    OBVIOUS
  <2>2. Become(q, r) /\ m' = m /\ waits' = waits
    BY <1>4, <2>1 DEF brk
  <2> HIDE DEF u
  <2>3. /\ r \in Areas /\ r.pc = "user" /\ r.busyblock = u.busyblock /\ r.child = u.child /\ r.pgtbl = u.pgtbl
        /\ r.tables = u.tables /\ r.kernel = u.kernel /\ r.page = u.page
    BY <1>2, <2>1 DEF Areas
  <2>4. Frame(r)
    BY <1>2, <2>1 DEF Frame, Areas
  <2>5. UsesSame(u, r)
    BY <1>2, <2>3 DEF UsesSame, BlockOf
  <2>6. SwapperKept /\ MemorySame(m, m')
    BY <1>1, <2>2, SwapperGoesOn, Unchanged
  <2>7. ForksOK'
    BY <1>2, <2>2, <2>3, ForksKept DEF u
  <2>8. QED BY <1>1, <1>2, <2>2, <2>3, <2>4, <2>5, <2>6, <2>7, ControlStep DEF u
<1>5. QED BY <1>3, <1>4

EmptyEntry == /\ Empty \in Entries /\ EntryOK(Empty) /\ Empty.page = 0 /\ Empty.type # PAGE_SWAP /\ ~Empty.present

LEMMA EmptyIs == EmptyEntry
BY KeysAre, NotSwap DEF EmptyEntry, Empty, Missing, Entries, EntryOK, Types, None, PAGE_DZ, PAGE_SWAP

\* A process that has nothing but its two kernel pages, or not even those.
Bare(u) ==
    /\ u.pc = "user" /\ u.busyblock = None /\ u.child = 0 /\ u.page = 0
    /\ \A v \in VPages : u.pgtbl[v] = Empty
    /\ \A t \in Tables : u.tables[t] = 0

LEMMA UnusedIs == Unused \in Areas /\ Bare(Unused) /\ Unused.state = "unused" /\ Unused.kernel = <<0, 0>>
<1>1. /\ 0 \in 0..NPages /\ None \in Keys /\ TEXT \in VPages /\ Zeros \in Values
      /\ Empty \in Entries
  BY KeysAre, NotSwap, FourPages, EmptyIs DEF Zeros, Stored, None, Values, EmptyEntry
<1>2. [t \in Tables |-> 0] \in [Tables -> 0..NPages] /\ [v \in VPages |-> Empty] \in [VPages -> Entries]
      /\ [v \in VPages |-> Zeros] \in [VPages -> Values]
  BY <1>1
<1>3. <<0, 0>> \in [{1, 2} -> 0..NPages]
  <2>1. <<0, 0>> \in Seq(0..NPages) /\ Len(<<0, 0>>) = 2
    BY <1>1
  <2>2. <<0, 0>> \in [1..2 -> 0..NPages]
    BY <2>1
  <2>3. 1..2 = {1, 2}
    OBVIOUS
  <2>4. QED BY <2>2, <2>3
<1>4. Unused \in Areas
  BY <1>1, <1>2, <1>3 DEF Unused, Areas
<1>5. Bare(Unused) /\ Unused.state = "unused" /\ Unused.kernel = <<0, 0>>
  BY DEF Bare, Unused
<1>6. QED BY <1>4, <1>5

\* What is left when the address space of a process is gone.
LEMMA NothingLeft ==
  ASSUME NEW q \in Procs, NEW v \in VPages, NEW t \in Tables, NEW i \in {1, 2}
  PROVE  /\ PageAt(q, v) \in OwnPlaces(q) /\ TableAt(q, t) \in OwnPlaces(q) /\ KernelAt(q, i) \notin OwnPlaces(q)
         /\ ArgumentsAt(q) \notin OwnPlaces(q) /\ SwapperAt \notin OwnPlaces(q) /\ MapAt \notin OwnPlaces(q)
         /\ \A place \in OwnPlaces(q) : place[2] = q
         /\ <<q, v>> \in OwnBlocks(q) /\ \A s \in OwnBlocks(q) : s[1] = q
BY DEF OwnPlaces, OwnBlocks, PageAt, TableAt, KernelAt, ArgumentsAt, SwapperAt, MapAt, Tables

LEMMA ExitOK ==
  ASSUME MemInv, NEW q \in Procs, exit(q)
  PROVE  MemInv'
<1> DEFINE u == u_area[q]
<1>1. PICK executing \in BOOLEAN : binary' = [binary EXCEPT ![u.prog].write_denied = executing]
  BY DEF exit
<1>2. PICK r : r = [Unused EXCEPT !.state = "zombie", !.kernel = u.kernel, !.pid = u.pid]
  OBVIOUS
<1>3. /\ Awake(q, "user") /\ sw' = sw /\ cpu' = cpu /\ m' = release_memory(m, q) /\ Become(q, r) /\ WakeIfFreed(m')
  BY <1>2 DEF exit
<1>4. /\ u \in Areas /\ Frame(u) /\ u.state = "alive" /\ u.pc = "user" /\ binary \in [Binaries -> BinaryFiles]
      /\ cpu \in Procs \cup {0}
  BY <1>3, AwakeIs
<1> HIDE DEF u
<1>5. u.busyblock = None /\ u.child = 0 /\ u.page = 0 /\ u.kernel[1] # 0 /\ u.kernel[2] # 0
  BY <1>4 DEF Frame
<1>6. /\ r \in Areas /\ Bare(r) /\ r.state = "zombie" /\ r.kernel = u.kernel
  <2>1. u.kernel \in [{1, 2} -> 0..NPages] /\ u.pid \in Int
    BY <1>4 DEF Areas
  <2>2. QED BY <1>2, <2>1, UnusedIs DEF Areas, Bare
<1>7. Frame(r)
  BY <1>5, <1>6, EmptyIs DEF Frame, Bare, NoMemory, EmptyEntry
<1>8. PICK A, B : A = OwnPlaces(q) /\ B = OwnBlocks(q)
  OBVIOUS
<1>9. Released(m, m', Holding, Blocks, A, B)
  <2>1. Fits(q, Holding, Blocks)
    BY <1>4, FitsOwn DEF u
  <2>2. QED BY <1>3, <1>8, <2>1, Uses0, MemoryReleased
<1>10. PICK h, g : h = Emptied(Holding, A) /\ g = Freed(Blocks, B)
  OBVIOUS
<1>11. /\ Sound(m', h, g) /\ h \in Uses /\ g \in BlockUses
       /\ Kept(m, m') /\ Fewer(m, m') /\ m'.swap_map = m.swap_map /\ Len(m'.free) >= Len(m.free)
       /\ \A o \in Places : h[o] = IF o \in A THEN 0 ELSE Holding[o]
       /\ \A o \in Places : h[o] = Holding[o] \/ h[o] \notin Pages
       /\ \A s \in VPlaces : g[s] = IF s \in B THEN None ELSE Blocks[s]
  BY <1>9, <1>10, ReleasedKept
<1>12. HoldsNext(q, r, h)
  <2>1. \A v \in VPages : h[PageAt(q, v)] = r.pgtbl[v].page
    <3>1. TAKE v \in VPages
    <3>2. PageAt(q, v) \in A /\ PageAt(q, v) \in Places
      BY <1>8, PlacesAre, FourPages, NothingLeft
    <3>3. QED BY <1>6, <1>11, <3>2, EmptyIs DEF Bare, EmptyEntry
  <2>2. \A t \in Tables : h[TableAt(q, t)] = r.tables[t]
    <3>1. TAKE t \in Tables
    <3>2. TableAt(q, t) \in A /\ TableAt(q, t) \in Places
      BY <1>8, PlacesAre, FourPages, NothingLeft
    <3>3. QED BY <1>6, <1>11, <3>2 DEF Bare
  <2>3. TEXT \in VPages /\ "image" \in Tables
    BY FourPages DEF Tables
  <2>4. \A i \in {1, 2} : h[KernelAt(q, i)] = r.kernel[i]
    <3>1. TAKE i \in {1, 2}
    <3>2. KernelAt(q, i) \notin A
      BY <1>8, <2>3, NothingLeft
    <3>3. QED BY <1>6, <1>11, <3>2, PlacesAre, HoldingAt DEF u
  <2>5. ArgumentsAt(q) \notin A /\ SwapperAt \notin A /\ MapAt \notin A /\ \A place \in A : place[2] = q
    <3>1. 1 \in {1, 2}
      OBVIOUS
    <3>2. QED BY <1>8, <2>3, <3>1, NothingLeft
  <2>6. h[ArgumentsAt(q)] = r.page /\ h[SwapperAt] = sw'.page /\ h[MapAt] = m'.swap_map
    BY <1>3, <1>5, <1>6, <1>11, <2>5, PlacesAre, HoldingAt DEF u, Bare
  <2>7. \A place \in Places : place[2] # q => h[place] = Holding[place]
    BY <1>11, <2>5
  <2>8. QED BY <2>1, <2>2, <2>4, <2>6, <2>7 DEF HoldsNext
<1>13. BlocksNext(q, r, g)
  <2>1. ASSUME NEW w \in VPages PROVE BlockOf(r, w) = g[<<q, w>>]
    <3>1. <<q, w>> \in B /\ <<q, w>> \in VPlaces
      BY <1>8, PlacesAre DEF OwnBlocks
    <3>2. QED BY <1>6, <1>11, <3>1, EmptyIs DEF BlockOf, Bare, EmptyEntry
  <2>2. \A s \in VPlaces : s[1] # q => g[s] = Blocks[s]
    BY <1>8, <1>11 DEF OwnBlocks
  <2>3. QED BY <2>1, <2>2 DEF BlocksNext
<1>14. \A w \in VPages : ~r.pgtbl[w].present
  BY <1>6, EmptyIs DEF Bare, EmptyEntry
<1>15. binary' \in [Binaries -> BinaryFiles]
  <2>1. PICK b : b = [binary[u.prog] EXCEPT !.write_denied = executing]
    OBVIOUS
  <2>2. binary' = [binary EXCEPT ![u.prog] = b]
    BY <1>1, <2>1
  <2>3. u.prog \in Binaries => b \in BinaryFiles
    BY <1>4, <2>1 DEF BinaryFiles
  <2>4. QED BY <1>4, <2>2, <2>3
<1>16. Told /\ sw' \in {sw, SwapperOn} /\ cpu' \in Procs \cup {0}
  BY <1>3, <1>4, WakeIfFreedIs
<1>17. /\ Become(q, r) /\ r.pc # "load" /\ r.pc # "fork" /\ r.child \in {0, u.child} /\ r.busyblock = u.busyblock /\ r \in Areas
       /\ r.page \in {0, u.page}
  BY <1>3, <1>5, <1>6 DEF Bare
<1>18. QED BY <1>3, <1>7, <1>11, <1>12, <1>13, <1>14, <1>15, <1>16, <1>17, MoveStep DEF u

LEMMA ExecArgsOK ==
  ASSUME MemInv, NEW q \in Procs, ExecArgs(q)
  PROVE  MemInv'
<1> DEFINE u == u_area[q]
           p == Head(m.free)
           x == get_page(m)
           place == ArgumentsAt(q)
<1>1. Awake(q, "exec_args")
  BY DEF ExecArgs
<1>2. /\ u \in Areas /\ Frame(u) /\ u.state = "alive" /\ u.pc = "exec_args" /\ binary \in [Binaries -> BinaryFiles]
      /\ cpu \in Procs \cup {0}
  BY <1>1, AwakeIs
<1>3. CASE reserve_pages(q, 1)
  <2>1. Needs(q) = 1
    BY <1>2 DEF Needs
  <2>2. QED BY <1>2, <1>3, <2>1, Reserves DEF Reserving
<1>4. CASE ~reserve_pages(q, 1)
  <2>1. PICK r : r = [u EXCEPT !.pc = "exec_image", !.page = p, !.brk = FALSE, !.pgtbl = [v \in VPages |-> Empty],
                               !.tables = [t \in Tables |-> 0]]
    OBVIOUS
  <2>2. /\ Become(q, r) /\ m' = release_memory(x, q) /\ WakeIfFreed(m') /\ LowOnPages(x) /\ cpu' = q /\ binary' = binary
        /\ Len(m.free) >= 1
    BY <1>4, <2>1 DEF ExecArgs, free_pages
  <2>3. Holding \in Uses /\ Blocks \in BlockUses /\ Sound(m, Holding, Blocks) /\ Len(m.free) \in Nat
    BY Uses0
  <2>4. u.busyblock = None /\ u.child = 0 /\ u.page = 0 /\ u.kernel[1] # 0 /\ u.kernel[2] # 0
    BY <1>2 DEF Frame
  <2>5. place \in Places /\ Holding[place] = 0 /\ place[2] = q
    BY <2>4, HoldingAt, PlacesAre DEF ArgumentsAt
  <2>6. PICK k : k = [Holding EXCEPT ![place] = p]
    OBVIOUS
  <2>7. /\ Sound(x, k, Blocks) /\ k \in Uses /\ p \in Pages /\ p # 0 /\ m.pg[p].count = 0
        /\ Kept(m, x) /\ Fewer(m, x) /\ x.swap_map = m.swap_map /\ x.pg[p].key = None
    BY <2>2, <2>3, <2>5, <2>6, TakenKept
  <2> HIDE DEF u, p, x, place
  <2>8. \A o \in Places : k[o] = IF o = place THEN p ELSE Holding[o]
    BY <2>3, <2>5, <2>6 DEF Uses
  <2>9. PICK A, B : A = OwnPlaces(q) /\ B = OwnBlocks(q)
    OBVIOUS
  <2>10. Released(x, m', k, Blocks, A, B)
    <3>1. Fits(q, Holding, Blocks)
      BY <1>2, FitsOwn DEF u
    <3>2. ASSUME NEW v \in VPages PROVE k[PageAt(q, v)] = Holding[PageAt(q, v)]
      <4>1. PageAt(q, v) # place
        BY DEF PageAt, ArgumentsAt, place
      <4>2. QED BY <2>8, <4>1, PlacesAre
    <3>3. ASSUME NEW t \in Tables PROVE k[TableAt(q, t)] = Holding[TableAt(q, t)]
      <4>1. TableAt(q, t) # place
        BY DEF TableAt, ArgumentsAt, place, Tables
      <4>2. QED BY <2>8, <4>1, PlacesAre
    <3>4. Fits(q, k, Blocks)
      BY <3>1, <3>2, <3>3 DEF Fits, EntryAt
    <3>5. QED BY <2>2, <2>3, <2>7, <2>9, <3>4, MemoryReleased
  <2>11. PICK h, g : h = Emptied(k, A) /\ g = Freed(Blocks, B)
    OBVIOUS
  <2>12. /\ Sound(m', h, g) /\ h \in Uses /\ g \in BlockUses
         /\ AllSame(x, m') /\ m'.swap_map = x.swap_map
         /\ \A o \in Places : h[o] = IF o \in A THEN 0 ELSE k[o]
         /\ \A s \in VPlaces : g[s] = IF s \in B THEN None ELSE Blocks[s]
    BY <2>10, <2>11, ReleasedKept
  <2>13. Kept(m, m') /\ Fewer(m, m')
    BY <2>7, <2>12 DEF Kept, Fewer, AllSame, Same
  <2>14. /\ r \in Areas /\ r.pc = "exec_image" /\ r.busyblock = None /\ r.child = 0 /\ r.page = p /\ r.kernel = u.kernel
         /\ r.state = "alive" /\ r.prog \in Binaries /\ \A v \in VPages : r.pgtbl[v] = Empty
         /\ \A t \in Tables : r.tables[t] = 0
    <3>1. [v \in VPages |-> Empty] \in [VPages -> Entries] /\ [t \in Tables |-> 0] \in [Tables -> 0..NPages] /\ p \in 0..NPages
      BY <2>7, EmptyIs, NotSwap DEF EmptyEntry
    <3>2. r.pgtbl = [v \in VPages |-> Empty] /\ r.tables = [t \in Tables |-> 0]
      BY <1>2, <2>1 DEF Areas
    <3>3. u.prog \in Binaries
      BY <1>2 DEF Frame
    <3>4. QED BY <1>2, <2>1, <2>4, <3>1, <3>2, <3>3 DEF Areas, Reserving
  <2>15. Frame(r)
    BY <2>4, <2>7, <2>14, EmptyIs DEF Frame, NoMemory, EmptyEntry
  <2>16. /\ \A v \in VPages : PageAt(q, v) \in A
         /\ \A t \in Tables : TableAt(q, t) \in A
         /\ \A i \in {1, 2} : KernelAt(q, i) \notin A
         /\ place \notin A /\ SwapperAt \notin A /\ MapAt \notin A /\ \A o \in A : o[2] = q
    <3>1. TEXT \in VPages /\ "image" \in Tables /\ 1 \in {1, 2}
      BY FourPages DEF Tables
    <3>2. QED BY <2>9, <3>1, NothingLeft DEF place
  <2>17. HoldsNext(q, r, h)
    <3>1. \A v \in VPages : h[PageAt(q, v)] = r.pgtbl[v].page
      BY <2>12, <2>14, <2>16, EmptyIs, PlacesAre DEF EmptyEntry
    <3>2. \A t \in Tables : h[TableAt(q, t)] = r.tables[t]
      BY <2>12, <2>14, <2>16, PlacesAre
    <3>3. \A i \in {1, 2} : h[KernelAt(q, i)] = r.kernel[i]
      <4>1. TAKE i \in {1, 2}
      <4>2. KernelAt(q, i) # place
        BY DEF KernelAt, ArgumentsAt, place
      <4>3. QED BY <2>8, <2>12, <2>14, <2>16, <4>2, PlacesAre, HoldingAt DEF u
    <3>4. h[ArgumentsAt(q)] = r.page
      BY <2>5, <2>8, <2>12, <2>14, <2>16 DEF place
    <3>5. h[SwapperAt] = sw'.page /\ h[MapAt] = m'.swap_map
      <4>1. SwapperAt # place /\ MapAt # place
        BY DEF SwapperAt, MapAt, ArgumentsAt, place
      <4>2. sw'.page = sw.page
        BY <2>2, LowOnPagesIs, SwapperGoesOn DEF SwapperKept
      <4>3. QED BY <2>7, <2>8, <2>12, <2>16, <4>1, <4>2, PlacesAre, HoldingAt
    <3>6. \A o \in Places : o[2] # q => h[o] = Holding[o]
      BY <2>5, <2>8, <2>12, <2>16
    <3>7. QED BY <3>1, <3>2, <3>3, <3>4, <3>5, <3>6 DEF HoldsNext
  <2>18. BlocksNext(q, r, g)
    <3>1. ASSUME NEW w \in VPages PROVE BlockOf(r, w) = g[<<q, w>>]
      <4>1. <<q, w>> \in B /\ <<q, w>> \in VPlaces
        BY <2>9, PlacesAre DEF OwnBlocks
      <4>2. QED BY <2>12, <2>14, <4>1, EmptyIs DEF BlockOf, EmptyEntry
    <3>2. \A s \in VPlaces : s[1] # q => g[s] = Blocks[s]
      BY <2>9, <2>12 DEF OwnBlocks
    <3>3. QED BY <3>1, <3>2 DEF BlocksNext
  <2>19. \A o \in Places : h[o] = Holding[o] \/ h[o] \notin Pages \/ m.pg[h[o]].count = 0
    BY <2>7, <2>8, <2>12, NotSwap
  <2>20. \A w \in VPages : ~r.pgtbl[w].present
    BY <2>14, EmptyIs DEF EmptyEntry
  <2>21. Told /\ sw' \in {sw, SwapperOn} /\ cpu' \in Procs \cup {0} /\ binary' \in [Binaries -> BinaryFiles]
    BY <1>2, <2>2, WakeIfFreedIs, LowOnPagesIs
  <2>22. /\ Become(q, r) /\ r.pc # "load" /\ r.pc # "fork" /\ r.child \in {0, u.child} /\ r.busyblock = u.busyblock /\ r \in Areas
         /\ Plain(m', r.page)
    BY <2>2, <2>4, <2>7, <2>12, <2>14 DEF AllSame, Same, Plain
  <2>23. QED BY <1>1, <2>12, <2>13, <2>15, <2>17, <2>18, <2>19, <2>20, <2>21, <2>22, MoveStep DEF u
<1>5. QED BY <1>3, <1>4

LEMMA ExecImageOK ==
  ASSUME MemInv, NEW q \in Procs, ExecImage(q)
  PROVE  MemInv'
<1> DEFINE u == u_area[q]
           p == Head(m.free)
           place == TableAt(q, "image")
           h == [Holding EXCEPT ![place] = p]
<1>1. Awake(q, "exec_image")
  BY DEF ExecImage
<1>2. /\ u \in Areas /\ Frame(u) /\ u.state = "alive" /\ u.pc = "exec_image" /\ binary \in [Binaries -> BinaryFiles]
      /\ cpu \in Procs \cup {0}
  BY <1>1, AwakeIs
<1>3. CASE reserve_pages(q, 1)
  <2>1. Needs(q) = 1
    BY <1>2 DEF Needs
  <2>2. QED BY <1>2, <1>3, <2>1, Reserves DEF Reserving
<1>4. CASE ~reserve_pages(q, 1)
  <2>1. PICK tables : tables = [u.tables EXCEPT !["image"] = p]
    OBVIOUS
  <2>2. PICK pgtbl : pgtbl = [v \in VPages |-> IF v \in {TEXT, DATA} THEN Missing(PAGE_FILE, FileKey(u.prog, v)) ELSE Empty]
    OBVIOUS
  <2>3. PICK r : r = [u EXCEPT !.pc = "exec_stack", !.tables = tables, !.pgtbl = pgtbl]
    OBVIOUS
  <2>4. /\ Become(q, r) /\ m' = get_page(m) /\ waits' = waits /\ binary' = binary /\ cpu' = 0
        /\ LowOnPages(m') /\ Len(m.free) >= 1
    BY <1>4, <2>1, <2>2, <2>3 DEF ExecImage, free_pages
  <2>5. /\ "image" \in Tables /\ place \in Places /\ Holding[place] = 0
        /\ u.prog \in Binaries /\ u.busyblock = None /\ u.child = 0 /\ u.page # 0
        /\ \A v \in VPages : u.pgtbl[v] = Empty
        /\ \A t \in Tables : u.tables[t] = 0
    <3>1. "image" \in Tables
      BY DEF Tables
    <3>2. NoMemory(u) /\ u.prog \in Binaries /\ u.busyblock = None /\ u.child = 0 /\ u.page # 0
      BY <1>2 DEF Frame
    <3>3. QED BY <3>1, <3>2, PlacesAre, HoldingAt DEF NoMemory
  <2>6. Holding \in Uses /\ Blocks \in BlockUses /\ Sound(m, Holding, Blocks) /\ Len(m.free) \in Nat
    BY Uses0
  <2>7. /\ Sound(m', h, Blocks) /\ h \in Uses /\ p \in Pages /\ p # 0 /\ m.pg[p].count = 0
        /\ Kept(m, m') /\ Fewer(m, m') /\ m'.swap_map = m.swap_map /\ Len(m'.free) < Len(m.free)
    BY <2>4, <2>5, <2>6, TakenKept
  <2> HIDE DEF u, p, place
  <2>8. tables \in [Tables -> 0..NPages] /\ tables["image"] = p /\ \A o \in Tables \ {"image"} : tables[o] = u.tables[o]
    BY <1>2, <2>1, <2>5, <2>7, NotSwap DEF Areas
  <2>9. /\ pgtbl \in [VPages -> Entries] /\ \A v \in VPages : EntryOK(pgtbl[v]) /\ pgtbl[v].page = 0 /\ ~pgtbl[v].present
        /\ \A v \in VPages : pgtbl[v].type # PAGE_SWAP
        /\ pgtbl[STACK] = Empty
    <3>1. ASSUME NEW v \in VPages
          PROVE  LET e == Missing(PAGE_FILE, FileKey(u.prog, v))
                 IN  e \in Entries /\ EntryOK(e) /\ e.page = 0 /\ ~e.present /\ e.type # PAGE_SWAP
      <4>1. FileKey(u.prog, v) \in FileKeys
        BY <2>5 DEF FileKeys
      <4>2. FileKey(u.prog, v) \in Keys /\ FileKey(u.prog, v) # None /\ FileKey(u.prog, v) \notin Swap
        BY <4>1, KeysAre DEF Keys
      <4>3. QED BY <4>2, NotSwap DEF Missing, Entries, EntryOK, Types, PAGE_FILE, PAGE_DZ, PAGE_SWAP
    <3>2. ASSUME NEW v \in VPages
          PROVE  pgtbl[v] \in Entries /\ EntryOK(pgtbl[v]) /\ pgtbl[v].page = 0 /\ ~pgtbl[v].present /\ pgtbl[v].type # PAGE_SWAP
      <4>1. CASE v \in {TEXT, DATA}
        <5>1. pgtbl[v] = Missing(PAGE_FILE, FileKey(u.prog, v))
          BY <2>2, <4>1
        <5>2. QED BY <3>1, <5>1
      <4>2. CASE v \notin {TEXT, DATA}
        <5>1. pgtbl[v] = Empty
          BY <2>2, <4>2
        <5>2. QED BY <5>1, EmptyIs DEF EmptyEntry
      <4>3. QED BY <4>1, <4>2
    <3>3. pgtbl[STACK] = Empty
      BY <2>2, FourPages DEF STACK, TEXT, DATA
    <3>4. DOMAIN pgtbl = VPages /\ pgtbl = [v \in VPages |-> pgtbl[v]]
      BY <2>2
    <3>5. QED BY <3>2, <3>3, <3>4
  <2>10. /\ r \in Areas /\ r.pc = "exec_stack" /\ r.busyblock = u.busyblock /\ r.child = u.child /\ r.pgtbl = pgtbl
         /\ r.tables = tables /\ r.kernel = u.kernel /\ r.page = u.page /\ r.state = "alive" /\ r.prog = u.prog
    BY <1>2, <2>3, <2>8, <2>9 DEF Areas, Reserving
  <2>11. Frame(r)
    <3>1. r.tables["stack"] = 0
      BY <2>5, <2>8, <2>10 DEF Tables
    <3>2. u.kernel[1] # 0 /\ u.kernel[2] # 0
      BY <1>2 DEF Frame
    <3>3. QED BY <2>5, <2>9, <2>10, <3>1, <3>2 DEF Frame
  <2>12. HoldsNext(q, r, h)
    <3>1. sw'.page = sw.page
      BY <2>4, LowOnPagesIs, SwapperGoesOn DEF SwapperKept
    <3>2. h \in Uses /\ h = [Holding EXCEPT ![TableAt(q, "image")] = p]
      BY <2>7 DEF place
    <3>3. \A v \in VPages : r.pgtbl[v].page = u.pgtbl[v].page
      BY <2>5, <2>9, <2>10, EmptyIs DEF EmptyEntry
    <3> HIDE DEF h
    <3>4. QED BY <2>5, <2>7, <2>8, <2>10, <3>1, <3>2, <3>3, TableChanges DEF u
  <2>13. BlocksNext(q, r, Blocks)
    <3>1. ASSUME NEW w \in VPages PROVE BlockOf(r, w) = Blocks[<<q, w>>]
      <4>1. Blocks[<<q, w>>] = BlockOf(u, w)
        BY HoldingAt DEF u
      <4>2. QED BY <2>5, <2>9, <2>10, <4>1, EmptyIs DEF BlockOf, EmptyEntry
    <3>2. QED BY <3>1 DEF BlocksNext
  <2>14. \A o \in Places : h[o] = Holding[o] \/ m.pg[h[o]].count = 0
    BY <2>6, <2>7 DEF Uses
  <2>15. Told /\ sw' \in {sw, SwapperOn} /\ cpu' \in Procs \cup {0} /\ binary' \in [Binaries -> BinaryFiles]
    BY <1>2, <2>4, <2>6, <2>7, LowOnPagesIs DEF Told
  <2>16. \A w \in VPages : ~r.pgtbl[w].present
    BY <2>9, <2>10
  <2>17. /\ Become(q, r) /\ r.pc # "load" /\ r.pc # "fork" /\ r.child \in {0, u.child} /\ r.busyblock = u.busyblock /\ r \in Areas
         /\ r.page \in {0, u.page}
    BY <2>4, <2>10
  <2> HIDE DEF h
  <2>18. QED BY <1>1, <2>6, <2>7, <2>11, <2>12, <2>13, <2>14, <2>15, <2>16, <2>17, MoveStep DEF u
<1>5. QED BY <1>3, <1>4

(***************************************************************************)
(* The end of exec(): the page of the arguments becomes the stack.         *)
(***************************************************************************)
Filled(x, y, a, w) == y = [x EXCEPT !.pg[a].type = PAGE_SWAP, !.data[a] = Stored(w)]
FilledParts(x, y, a) ==
    /\ y.free = x.free /\ SwapSame(x, y) /\ y.pg[a].type = PAGE_SWAP
    /\ \A o \in Pages : /\ y.pg[o].count = x.pg[o].count /\ y.pg[o].key = x.pg[o].key /\ y.pg[o].hashed = x.pg[o].hashed
                        /\ o # a => y.pg[o].type = x.pg[o].type

LEMMA FilledIs ==
  ASSUME NEW x, NEW y, NEW h, NEW g, Sound(x, h, g), NEW a \in Pages, Plain(x, a), NEW w \in Nat, Filled(x, y, a, w)
  PROVE  Sound(y, h, g) /\ FilledParts(x, y, a)
<1>1. x \in Memories /\ Cached(x) /\ BlocksBalanced(x, g)
  BY DEF Sound
<1>2. PICK d : d = [x.pg[a] EXCEPT !.type = PAGE_SWAP]
  OBVIOUS
<1>3. PICK pg : pg = [x.pg EXCEPT ![a] = d]
  OBVIOUS
<1>4. PICK z : z = [x EXCEPT !.pg = pg]
  OBVIOUS
<1>5. PICK data : data = [z.data EXCEPT ![a] = Stored(w)]
  OBVIOUS
<1>6. y = [z EXCEPT !.data = data]
  BY <1>1, <1>2, <1>3, <1>4, <1>5 DEF Filled, Memories
<1>7. /\ d \in Descriptors /\ d.count = x.pg[a].count /\ d.key = x.pg[a].key /\ d.hashed = x.pg[a].hashed
      /\ d.type = PAGE_SWAP
  <2>1. x.pg[a] \in Descriptors
    BY <1>1 DEF Memories
  <2>2. QED BY <1>2, <2>1 DEF Descriptors, Types
<1>8. Redescribed(x, z, a, d)
  BY <1>1, <1>3, <1>4, <1>7, PageSet
<1>9. Sound(z, h, g)
  <2>1. d.hashed => d.key # None /\ d.type # PAGE_DZ /\ \A r \in Pages \ {a} : x.pg[r].hashed => x.pg[r].key # d.key
    <3>1. d.hashed => d.key # None
      BY <1>1, <1>7 DEF Cached
    <3>2. d.type # PAGE_DZ
      BY <1>7 DEF PAGE_SWAP, PAGE_DZ
    <3>3. ASSUME d.hashed, NEW r \in Pages \ {a}, x.pg[r].hashed PROVE x.pg[r].key # d.key
      BY <1>1, <1>7, <3>3 DEF Cached
    <3>4. QED BY <3>1, <3>2, <3>3
  <2>2. d.key \in Swap \cup {None}
    BY <1>7 DEF Plain
  <2>3. x.swap.latest = -1 => d.key \notin Swap
    BY <1>1, <1>7 DEF BlocksBalanced
  <2>4. QED BY <1>7, <1>8, <2>1, <2>2, <2>3, Described
<1>10. MemorySame(z, y)
  <2>1. z \in Memories
    BY <1>9 DEF Sound
  <2>2. Stored(w) \in Values
    BY DEF Stored, None, Values
  <2>3. data \in [Pages -> Values]
    BY <1>5, <2>1, <2>2 DEF Memories
  <2>4. QED BY <1>6, <2>1, <2>3, DataSet
<1>11. Sound(y, h, g)
  BY <1>9, <1>10, SameIsSound
<1>12. FilledParts(x, y, a)
  BY <1>7, <1>8, <1>10 DEF FilledParts, Redescribed, MemorySame, SwapSame
<1>13. QED BY <1>11, <1>12

LEMMA ClearIfNewerIs ==
  ASSUME NEW x, NEW h, NEW g, Sound(x, h, g), NEW f \in Binaries, binary \in [Binaries -> BinaryFiles], ClearIfNewer(x, f)
  PROVE  /\ Sound(m', h, g) /\ m'.free = x.free /\ SwapSame(x, m') /\ Kept(x, m') /\ Fewer(x, m')
         /\ binary' \in [Binaries -> BinaryFiles]
<1>1. x \in Memories /\ PagesBalanced(x, h)
  BY DEF Sound
<1>2. CASE m' = x /\ UNCHANGED binary
  BY <1>2 DEF SwapSame, Kept, Fewer, Same
<1>3. CASE ~(m' = x /\ UNCHANGED binary)
  <2>1. m' = Unhashed(x, Range(x.free)) /\ \E newer \in BOOLEAN : binary' = [binary EXCEPT ![f].newer = newer]
    BY <1>3 DEF ClearIfNewer, clear_free_list
  <2>2. Sound(m', h, g)
    BY <2>1, Forgotten
  <2>3. /\ m'.free = x.free /\ SwapSame(x, m')
        /\ \A p \in Pages : IF p \in Range(x.free) THEN m'.pg[p].key = None /\ ~m'.pg[p].hashed ELSE Same(x, m', p)
    BY <1>1, <2>1, UnhashedParts
  <2>4. \A p \in Pages : x.pg[p].count = 0 <=> p \in Range(x.free)
    BY <1>1 DEF PagesBalanced
  <2>5. Kept(x, m') /\ Fewer(x, m')
    BY <2>3, <2>4 DEF Kept, Fewer, Same
  <2>6. binary' \in [Binaries -> BinaryFiles]
    <3>1. PICK newer \in BOOLEAN : binary' = [binary EXCEPT ![f].newer = newer]
      BY <2>1
    <3>2. PICK b : b = [binary[f] EXCEPT !.newer = newer]
      OBVIOUS
    <3>3. b \in BinaryFiles
      BY <3>2 DEF BinaryFiles
    <3>4. QED BY <3>1, <3>2, <3>3
  <2>7. QED BY <2>2, <2>3, <2>5, <2>6
<1>4. QED BY <1>2, <1>3

LEMMA Used ==
  ASSUME NEW x, NEW h \in Uses, NEW g, Sound(x, h, g), NEW p \in Pages, NEW place \in Places, h[place] = p
  PROVE  x.pg[p].count # 0
<1>1. IsFiniteSet(Places) /\ h \in [Places -> Int] /\ p # 0
  BY PlacesFinite, NotSwap DEF Uses
<1>2. CountsAfter(h, Places, place, 0, p)
  BY <1>1, CountChanges
<1>3. x.pg[p].count = Cardinality(Has(h, Places, p))
  BY DEF Sound, PagesBalanced
<1>4. QED BY <1>1, <1>2, <1>3 DEF CountsAfter

LEMMA ExecStackOK ==
  ASSUME MemInv, NEW q \in Procs, NEW w \in Nat, ExecStack(q, w)
  PROVE  MemInv'
<1> DEFINE u == u_area[q]
           a == u.page
           p == Head(m.free)
           x == get_page(m)
           z == [x EXCEPT !.pg[a].type = PAGE_SWAP, !.data[a] = Stored(w)]
           place == TableAt(q, "stack")
           from == ArgumentsAt(q)
           to == PageAt(q, STACK)
<1>1. Awake(q, "exec_stack")
  BY DEF ExecStack
<1>2. /\ u \in Areas /\ Frame(u) /\ u.state = "alive" /\ u.pc = "exec_stack" /\ binary \in [Binaries -> BinaryFiles]
      /\ cpu \in Procs \cup {0} /\ waits[q] = Nothing
  BY <1>1, AwakeIs
<1>3. CASE reserve_pages(q, 1)
  <2>1. Needs(q) = 1
    BY <1>2 DEF Needs
  <2>2. QED BY <1>2, <1>3, <2>1, Reserves DEF Reserving
<1>4. CASE ~reserve_pages(q, 1)
  <2>1. PICK mem : mem = [v \in VPages |-> IF v \in {TEXT, DATA} THEN Image(FileKey(u.prog, v), binary[u.prog].version)
                                           ELSE IF v = STACK THEN Stored(w) ELSE Zeros]
    OBVIOUS
  <2>2. PICK tables : tables = [u.tables EXCEPT !["stack"] = p]
    OBVIOUS
  <2>3. PICK pgtbl : pgtbl = [u.pgtbl EXCEPT ![STACK] = Mapped(a, TRUE)]
    OBVIOUS
  <2>4. PICK r : r = [u EXCEPT !.pc = "user", !.page = 0, !.swapable = TRUE, !.tables = tables, !.pgtbl = pgtbl, !.mem = mem]
    OBVIOUS
  <2>5. /\ Become(q, r) /\ ClearIfNewer(z, u.prog) /\ waits' = waits /\ cpu' = 0 /\ LowOnPages(x) /\ Len(m.free) >= 1
    BY <1>4, <2>1, <2>2, <2>3, <2>4 DEF ExecStack, free_pages
  <2>6. /\ u.prog \in Binaries /\ u.busyblock = None /\ u.child = 0 /\ a # 0 /\ a \in 0..NPages
        /\ u.pgtbl[STACK] = Empty /\ u.tables["stack"] = 0 /\ u.kernel[1] # 0 /\ u.kernel[2] # 0
    BY <1>2 DEF Frame, Areas
  <2>7. /\ "stack" \in Tables /\ STACK \in VPages /\ place \in Places /\ from \in Places /\ to \in Places
        /\ Holding[place] = 0 /\ Holding[from] = a /\ Holding[to] = 0
        /\ place # from /\ place # to /\ from # to
    <3>1. "stack" \in Tables /\ STACK \in VPages
      BY FourPages DEF Tables
    <3>2. place # from /\ place # to /\ from # to
      BY DEF TableAt, ArgumentsAt, PageAt
    <3>3. place \in Places /\ from \in Places /\ to \in Places
      BY <3>1, PlacesAre
    <3>4. Holding[place] = u.tables["stack"] /\ Holding[from] = a /\ Holding[to] = u.pgtbl[STACK].page
      BY <3>1, HoldingAt
    <3>5. QED BY <2>6, <3>1, <3>2, <3>3, <3>4, EmptyIs DEF EmptyEntry
  <2>8. Holding \in Uses /\ Blocks \in BlockUses /\ Sound(m, Holding, Blocks) /\ Len(m.free) \in Nat
    BY Uses0
  <2>9. PICK k : k = [Holding EXCEPT ![place] = p]
    OBVIOUS
  <2>10. /\ Sound(x, k, Blocks) /\ k \in Uses /\ p \in Pages /\ p # 0 /\ m.pg[p].count = 0
         /\ Kept(m, x) /\ Fewer(m, x) /\ x.swap_map = m.swap_map /\ Len(x.free) < Len(m.free)
    BY <2>5, <2>7, <2>8, <2>9, TakenKept
  <2>11. a \in Pages /\ m.pg[a].count # 0 /\ Plain(m, a)
    <3>1. a \in Pages /\ m.pg[a].count # 0
      BY <2>6, <2>7, Counted
    <3>2. Plain(m, a)
      BY <2>6 DEF MemInv, ProcOK
    <3>3. QED BY <3>1, <3>2
  <2>12. Filled(x, z, a, w)
    BY DEF Filled
  <2> HIDE DEF u, a, p, x, z, place, from, to
  <2>13. Plain(x, a)
    BY <2>10, <2>11 DEF Plain, Kept, Same
  <2>14. Sound(z, k, Blocks) /\ FilledParts(x, z, a)
    BY <2>10, <2>11, <2>12, <2>13, FilledIs
  <2>15. /\ Sound(m', k, Blocks) /\ m'.free = z.free /\ SwapSame(z, m') /\ Kept(z, m') /\ Fewer(z, m')
         /\ binary' \in [Binaries -> BinaryFiles]
    BY <1>2, <2>5, <2>6, <2>14, ClearIfNewerIs
  <2>16. \A o \in Places : k[o] = IF o = place THEN p ELSE Holding[o]
    BY <2>7, <2>8, <2>9 DEF Uses
  <2>17. PICK h : h = [[k EXCEPT ![from] = 0] EXCEPT ![to] = k[from]]
    OBVIOUS
  <2>18. /\ h \in Uses /\ Sound(m', h, Blocks)
         /\ \A o \in Places : h[o] = IF o = to THEN a ELSE IF o = from THEN 0 ELSE k[o]
    <3>1. k[to] = 0 /\ k[from] = a
      BY <2>7, <2>16
    <3>2. h \in Uses /\ Sound(m', h, Blocks)
      BY <2>7, <2>10, <2>15, <2>17, <3>1, Moves
    <3>3. \A o \in Places : h[o] = IF o = to THEN k[from] ELSE IF o = from THEN 0 ELSE k[o]
      BY <2>7, <2>10, <2>17 DEF Uses
    <3>4. QED BY <3>1, <3>2, <3>3
  <2>19. /\ \A o \in Pages : m.pg[o].count # 0 /\ o # a => Same(m, m', o)
         /\ m'.pg[a].type = PAGE_SWAP /\ m'.pg[a].key = m.pg[a].key /\ Fewer(m, m')
         /\ m'.swap_map = m.swap_map /\ Len(m'.free) < Len(m.free)
    <3>1. \A o \in Pages : m.pg[o].count # 0 => z.pg[o].count # 0
      <4>1. TAKE o \in Pages
      <4>2. HAVE m.pg[o].count # 0
      <4>3. \E s \in Places : Holding[s] = o
        <5>1. m.pg[o].count = Cardinality(Has(Holding, Places, o)) /\ Cardinality({}) = 0
          BY <2>8, FS_EmptySet DEF Sound, PagesBalanced
        <5>2. Has(Holding, Places, o) # {}
          BY <4>2, <5>1
        <5>3. QED BY <5>2 DEF Has
      <4>4. PICK s \in Places : Holding[s] = o
        BY <4>3
      <4>5. k[s] = o /\ o # 0
        BY <2>7, <2>16, <4>4, NotSwap
      <4>6. QED BY <2>10, <2>14, <4>5, Used
    <3>2. \A o \in Pages : m.pg[o].count # 0 => Same(m, x, o) /\ Same(z, m', o)
      BY <2>10, <2>15, <3>1 DEF Kept
    <3>3. \A o \in Pages : o # a => Same(x, z, o)
      BY <2>14 DEF FilledParts, Same
    <3>4. z.pg[a].type = PAGE_SWAP /\ z.pg[a].key = x.pg[a].key
      BY <2>11, <2>14 DEF FilledParts
    <3>5. \A o \in Pages : m.pg[o].count # 0 /\ o # a => Same(m, m', o)
      BY <3>2, <3>3 DEF Same
    <3>6. m'.pg[a].type = PAGE_SWAP /\ m'.pg[a].key = m.pg[a].key
      BY <2>11, <3>2, <3>4 DEF Same
    <3>7. Fewer(m, m')
      BY <2>10, <2>14, <2>15 DEF Fewer, FilledParts
    <3>8. m'.swap_map = m.swap_map /\ Len(m'.free) < Len(m.free)
      BY <2>10, <2>14, <2>15 DEF FilledParts, SwapSame
    <3>9. QED BY <3>5, <3>6, <3>7, <3>8
  <2>20. Known(m', a) /\ Plain(m', a)
    BY <2>11, <2>19 DEF Known, Plain, PAGE_DZ, PAGE_FILE, PAGE_SWAP
  <2>21. /\ pgtbl \in [VPages -> Entries] /\ pgtbl[STACK] = Mapped(a, TRUE) /\ \A v \in VPages \ {STACK} : pgtbl[v] = u.pgtbl[v]
         /\ Mapped(a, TRUE).present /\ Mapped(a, TRUE).page = a /\ EntryOK(Mapped(a, TRUE))
    <3>1. Mapped(a, TRUE) \in Entries /\ Mapped(a, TRUE).present /\ Mapped(a, TRUE).page = a /\ EntryOK(Mapped(a, TRUE))
      BY <2>6, NotSwap, KeysAre DEF Mapped, Entries, EntryOK, Types
    <3>2. QED BY <1>2, <2>3, <2>7, <3>1 DEF Areas
  <2>22. tables \in [Tables -> 0..NPages] /\ tables["stack"] = p /\ \A o \in Tables \ {"stack"} : tables[o] = u.tables[o]
    BY <1>2, <2>2, <2>7, <2>10, NotSwap DEF Areas
  <2>23. mem \in [VPages -> Values]
    <3>1. \A v \in VPages : Image(FileKey(u.prog, v), binary[u.prog].version) \in Values
      <4>1. \A v \in VPages : FileKey(u.prog, v) \in Keys
        BY <2>6 DEF Keys, FileKeys
      <4>2. binary[u.prog].version \in Int
        BY <1>2, <2>6 DEF BinaryFiles
      <4>3. QED BY <4>1, <4>2, KeysAre DEF Image, Values
    <3>2. Stored(w) \in Values /\ Zeros \in Values
      BY DEF Stored, Zeros, None, Values
    <3>3. QED BY <2>1, <3>1, <3>2
  <2>24. /\ r \in Areas /\ r.pc = "user" /\ r.busyblock = None /\ r.child = 0 /\ r.page = 0 /\ r.kernel = u.kernel
         /\ r.pgtbl = pgtbl /\ r.tables = tables /\ r.state = "alive"
    <3>1. 0 \in 0..NPages /\ "user" \in {"user", "fault", "load"} \cup Reserving /\ TRUE \in BOOLEAN
      BY NotSwap
    <3>2. r \in Areas
      BY <1>2, <2>4, <2>21, <2>22, <2>23, <3>1 DEF Areas
    <3>3. /\ r.pc = "user" /\ r.busyblock = u.busyblock /\ r.child = u.child /\ r.page = 0 /\ r.kernel = u.kernel
          /\ r.pgtbl = pgtbl /\ r.tables = tables /\ r.state = u.state
      BY <1>2, <2>4 DEF Areas
    <3>4. QED BY <1>2, <2>6, <3>2, <3>3
  <2>25. Frame(r)
    <3>1. \A v \in VPages : EntryOK(r.pgtbl[v])
      BY <1>2, <2>21, <2>24 DEF Frame
    <3>2. QED BY <2>6, <2>24, <3>1 DEF Frame
  <2>26. HoldsNext(q, r, h)
    <3>1. \A v \in VPages : h[PageAt(q, v)] = r.pgtbl[v].page
      <4>1. TAKE v \in VPages
      <4>2. PageAt(q, v) \in Places /\ Holding[PageAt(q, v)] = u.pgtbl[v].page /\ PageAt(q, v) # place /\ PageAt(q, v) # from
        BY HoldingAt, PlacesAre DEF u, PageAt, TableAt, ArgumentsAt, place, from, Tables
      <4>3. PageAt(q, v) = to <=> v = STACK
        BY DEF PageAt, to
      <4>4. CASE v = STACK
        BY <2>18, <2>21, <2>24, <4>2, <4>3, <4>4
      <4>5. CASE v # STACK
        BY <2>16, <2>18, <2>21, <2>24, <4>2, <4>3, <4>5
      <4>6. QED BY <4>4, <4>5
    <3>2. \A t \in Tables : h[TableAt(q, t)] = r.tables[t]
      <4>1. TAKE t \in Tables
      <4>2. TableAt(q, t) \in Places /\ Holding[TableAt(q, t)] = u.tables[t] /\ TableAt(q, t) # to /\ TableAt(q, t) # from
        BY HoldingAt, PlacesAre DEF u, PageAt, TableAt, ArgumentsAt, to, from, Tables
      <4>3. TableAt(q, t) = place <=> t = "stack"
        BY DEF TableAt, place
      <4>4. QED BY <2>16, <2>18, <2>22, <2>24, <4>2, <4>3
    <3>3. \A i \in {1, 2} : h[KernelAt(q, i)] = r.kernel[i]
      <4>1. TAKE i \in {1, 2}
      <4>2. KernelAt(q, i) # to /\ KernelAt(q, i) # from /\ KernelAt(q, i) # place
        BY DEF KernelAt, PageAt, TableAt, ArgumentsAt, to, from, place
      <4>3. QED BY <2>16, <2>18, <2>24, <4>2, HoldingAt, PlacesAre DEF u
    <3>4. h[ArgumentsAt(q)] = r.page
      BY <2>7, <2>18, <2>24 DEF from
    <3>5. h[SwapperAt] = sw'.page /\ h[MapAt] = m'.swap_map
      <4>1. /\ SwapperAt # to /\ SwapperAt # from /\ SwapperAt # place
            /\ MapAt # to /\ MapAt # from /\ MapAt # place
        BY DEF SwapperAt, MapAt, PageAt, TableAt, ArgumentsAt, to, from, place
      <4>2. sw'.page = sw.page
        BY <2>5, LowOnPagesIs, SwapperGoesOn DEF SwapperKept
      <4>3. QED BY <2>16, <2>18, <2>19, <4>1, <4>2, HoldingAt, PlacesAre
    <3>6. \A o \in Places : o[2] \notin {0, q} => h[o] = Holding[o]
      <4>1. to[2] = q /\ from[2] = q /\ place[2] = q
        BY DEF to, from, place, PageAt, ArgumentsAt, TableAt
      <4>2. QED BY <2>16, <2>18, <4>1
    <3>7. QED BY <3>1, <3>2, <3>3, <3>4, <3>5, <3>6 DEF HoldsNext
  <2>27. BlocksNext(q, r, Blocks)
    <3>1. ASSUME NEW v \in VPages PROVE BlockOf(r, v) = Blocks[<<q, v>>]
      <4>1. Blocks[<<q, v>>] = BlockOf(u, v)
        BY HoldingAt DEF u
      <4>2. CASE v = STACK
        BY <1>2, <2>6, <2>21, <2>24, <4>1, <4>2, EmptyIs DEF BlockOf, EmptyEntry
      <4>3. CASE v # STACK
        BY <1>2, <2>21, <2>24, <4>1, <4>3 DEF BlockOf
      <4>4. QED BY <4>2, <4>3
    <3>2. QED BY <3>1 DEF BlocksNext
  <2>28. Holding' = h /\ Blocks' = Blocks /\ u_area'[q] = r
    <3>1. u_area \in [Procs -> Areas]
      BY Uses0
    <3>2. QED BY <2>5, <2>8, <2>18, <2>26, <2>27, <3>1, HoldingBecomes, BlocksBecome DEF Become
  <2>29. ~Foreign(a, q)
    <3>1. from[2] = q
      BY DEF from, ArgumentsAt
    <3>2. QED BY <2>7, <3>1, ForeignPage
  <2>30. Others(q)
    <3>1. \A o \in Pages : m.pg[o].count # 0 => (Known(m, o) => Known(m', o)) /\ (Plain(m, o) => Plain(m', o))
      BY <2>19, <2>20 DEF Same, Known, Plain
    <3>2. \A o \in Pages : Foreign(o, q) => m'.pg[o].key = m.pg[o].key /\ m'.pg[o].hashed = m.pg[o].hashed
      BY <2>19, <2>29, ForeignPage DEF Same
    <3>3. \A s \in Places : Foreign(h[s], q) => Holding[s] = h[s]
      <4>1. ASSUME NEW s \in Places, Foreign(h[s], q) PROVE Holding[s] = h[s]
        <5>1. h[s] \in Pages /\ m.pg[h[s]].count # 0
          BY <4>1, ForeignPage
        <5>2. h[s] # a /\ h[s] # p /\ h[s] # 0
          BY <2>10, <2>29, <4>1, <5>1, NotSwap
        <5>3. QED BY <2>16, <2>18, <5>2
      <4>2. QED BY <4>1
    <3>4. QED BY <2>28, <3>1, <3>2, <3>3 DEF Others
  <2>31. LoadOK(q)' /\ WaitOK(q)'
    <3>1. LoadOK(q)'
      BY <2>24, <2>28 DEF LoadOK
    <3>2. QED BY <1>2, <2>5, <3>1, NothingWaits
  <2>32. Told /\ SwapperKept /\ cpu' \in Procs \cup {0}
    <3>1. Len(m'.free) \in Nat
      BY <2>18 DEF Sound, Memories
    <3>2. Told /\ cpu' \in Procs \cup {0}
      BY <2>5, <2>8, <2>19, <3>1 DEF Told
    <3>3. SwapperKept
      BY <2>5, LowOnPagesIs, SwapperGoesOn
    <3>4. QED BY <3>2, <3>3
  <2>33. \A v \in VPages : r.pgtbl[v].present =>
             (u.pgtbl[v].present /\ u.pgtbl[v].page = r.pgtbl[v].page) \/ Known(m', r.pgtbl[v].page)
    BY <2>20, <2>21, <2>24
  <2>34. /\ Become(q, r) /\ r \in Areas /\ u.state # "unused" /\ Sound(m', Holding', Blocks') /\ Fewer(m, m')
         /\ binary' \in [Binaries -> BinaryFiles] /\ r.busyblock = u.busyblock /\ r.child \in {0, u.child}
         /\ r.pc # "fork" /\ r.page = 0
    BY <1>2, <2>5, <2>6, <2>15, <2>18, <2>19, <2>24, <2>28
  <2>35. QED BY <2>25, <2>30, <2>31, <2>32, <2>33, <2>34, PagesStep DEF u
<1>5. QED BY <1>3, <1>4

(***************************************************************************)
(* Steps that change no process.                                           *)
(***************************************************************************)
LEMMA HoldingIdle ==
  ASSUME u_area' = u_area, NEW h \in Uses, h[SwapperAt] = sw'.page, h[MapAt] = m'.swap_map,
         \A place \in Places \ {SwapperAt, MapAt} : h[place] = Holding[place]
  PROVE  Holding' = h /\ Blocks' = Blocks
<1>1. ASSUME NEW place \in Places PROVE Holds(place)' = h[place]
  <2>1. CASE place = SwapperAt \/ place = MapAt
    BY <2>1 DEF SwapperAt, MapAt, Holds
  <2>2. CASE place # SwapperAt /\ place # MapAt
    <3>1. PICK o \in Procs : o = place[2]
      BY <2>2, PlacesOf
    <3>2. place[1] \notin {"swapper", "swap_map"}
      BY <2>2, <3>1, PlacesOf DEF PageAt, TableAt, KernelAt, ArgumentsAt, Tables
    <3>3. Holds(place)' = PageIn(u_area'[o], place[1], place[3]) /\ Holds(place) = PageIn(u_area[o], place[1], place[3])
      BY <3>1, <3>2 DEF Holds, PageIn
    <3>4. Holding[place] = Holds(place)
      BY DEF Holding
    <3>5. QED BY <2>2, <3>3, <3>4
  <2>3. QED BY <2>1, <2>2
<1>2. Holding' = [place \in Places |-> Holds(place)']
  BY DEF Holding
<1>3. Holding' = h
  BY <1>1, <1>2 DEF Uses
<1>4. Blocks' = Blocks
  BY DEF Blocks, BlockOf
<1>5. QED BY <1>3, <1>4

LEMMA IdleStep ==
  ASSUME MemInv, u_area' = u_area, NEW h \in Uses, Sound(m', h, Blocks), Kept(m, m'), Fewer(m, m'),
         h[SwapperAt] = sw'.page, h[MapAt] = m'.swap_map,
         \A place \in Places \ {SwapperAt, MapAt} : h[place] = Holding[place],
         \A place \in {SwapperAt, MapAt} :
             \/ h[place] = Holding[place] \/ h[place] \notin Pages \/ m.pg[h[place]].count = 0,
         waits' \in [Procs -> Procs \cup {Nothing, GetPage}], \A o \in Procs : waits'[o] \in {waits[o], Nothing},
         \A o \in Procs : waits'[o] = GetPage => Len(m'.free) <= Len(m.free) /\ (sw'.pc = "asleep" => sw.pc = "asleep"),
         sw' \in Swappers, SwapperOK', binary' \in [Binaries -> BinaryFiles], cpu' \in Procs \cup {0}
  PROVE  MemInv'
<1>1. /\ u_area \in [Procs -> Areas] /\ LoadsOK /\ ForksOK /\ \A o \in Procs : ProcOK(o) /\ WaitOK(o)
  BY DEF MemInv, TypeOK
<1>2. Holding' = h /\ Blocks' = Blocks
  BY HoldingIdle
<1>3. Sound(m', Holding', Blocks') /\ m' \in Memories
  BY <1>2 DEF Sound
<1>5. Changed(0)
  BY <1>2 DEF Changed
<1>6. Others(0)
  BY <1>5, OthersKept
<1>7. \A o \in Procs : ProcOK(o)'
  <2>1. \A o \in Procs : o # 0
    BY PlacesAre
  <2>2. QED BY <1>6, <2>1, OthersOK
<1>8. LoadsOK' /\ ForksOK'
  BY <1>1 DEF LoadsOK, ForksOK, Fewer
<1>9. ASSUME NEW o \in Procs PROVE WaitOK(o)'
  <2>1. Nothing # GetPage /\ Nothing \notin Procs /\ GetPage \notin Procs
    BY MemoryAssumption DEF Nothing, GetPage
  <2>2. ASSUME waits'[o] = GetPage PROVE u_area[o].pc \in Reserving /\ Len(m'.free) < Needs(o) /\ sw'.pc # "asleep"
    <3>1. waits[o] = GetPage
      BY <2>1, <2>2
    <3>2. u_area[o].pc \in Reserving /\ Len(m.free) < Needs(o) /\ sw.pc # "asleep"
      BY <1>1, <3>1 DEF WaitOK, free_pages
    <3>3. Len(m'.free) \in Nat /\ Len(m.free) \in Nat /\ Needs(o) \in Nat
      BY <1>3, Uses0, Requests0 DEF Memories
    <3>4. QED BY <2>2, <3>2, <3>3
  <2>3. Needs(o)' = Needs(o)
    BY DEF Needs, Requested, HasTable
  <2>4. waits'[o] # Nothing => waits'[o] = waits[o]
    OBVIOUS
  <2>5. QED BY <1>1, <2>1, <2>2, <2>3, <2>4 DEF WaitOK, free_pages
<1>10. TypeOK'
  BY <1>1, <1>3 DEF TypeOK
<1>11. QED BY <1>3, <1>7, <1>8, <1>9, <1>10 DEF MemInv

\* Nothing happens to the pages.
LEMMA StillStep ==
  ASSUME MemInv, u_area' = u_area, m' = m, waits' = waits, sw' \in Swappers, sw'.page = sw.page, SwapperOK',
         sw'.pc = "asleep" => sw.pc = "asleep" \/ \A o \in Procs : waits[o] # GetPage,
         binary' \in [Binaries -> BinaryFiles], cpu' \in Procs \cup {0}
  PROVE  MemInv'
<1>1. /\ Holding \in Uses /\ Sound(m, Holding, Blocks) /\ Len(m.free) \in Nat /\ 1 \in Procs
      /\ waits \in [Procs -> Procs \cup {Nothing, GetPage}]
  BY Uses0, MemoryAssumption DEF MemInv, TypeOK
<1>2. Holding[SwapperAt] = sw.page /\ Holding[MapAt] = m.swap_map
  BY <1>1, HoldingAt
<1>3. Kept(m, m') /\ Fewer(m, m')
  BY DEF Kept, Same, Fewer
<1>4. QED BY <1>1, <1>2, <1>3, IdleStep

LEMMA RewriteOK ==
  ASSUME MemInv, NEW f \in Binaries, Rewrite(f)
  PROVE  MemInv'
<1>1. binary \in [Binaries -> BinaryFiles] /\ sw \in Swappers /\ SwapperOK /\ cpu \in Procs \cup {0}
  BY DEF MemInv, TypeOK
<1>2. PICK b : b = [binary[f] EXCEPT !.version = @ + 1, !.newer = TRUE]
  OBVIOUS
<1>3. /\ binary' = [binary EXCEPT ![f] = b] /\ m' = m /\ u_area' = u_area /\ waits' = waits /\ sw' = sw /\ cpu' = cpu
  <2>1. binary' = [binary EXCEPT ![f].version = @ + 1, ![f].newer = TRUE]
    BY DEF Rewrite
  <2>2. binary' = [binary EXCEPT ![f] = b]
    BY <1>1, <1>2, <2>1 DEF BinaryFiles
  <2>3. QED BY <2>2 DEF Rewrite
<1>4. b \in BinaryFiles
  <2>1. PICK old \in BinaryFiles : old = binary[f]
    BY <1>1
  <2>2. PICK n \in Nat : n = old.version + 1
    BY DEF BinaryFiles
  <2>3. b = [old EXCEPT !.version = n, !.newer = TRUE]
    BY <1>2, <2>1, <2>2
  <2>4. QED BY <2>3 DEF BinaryFiles
<1>5. binary' \in [Binaries -> BinaryFiles]
  BY <1>1, <1>3, <1>4
<1>6. SwapperOK'
  BY <1>1, <1>3 DEF SwapperOK
<1>7. QED BY <1>1, <1>3, <1>5, <1>6, StillStep

LEMMA SwapperSleepsOK ==
  ASSUME MemInv, SwapperSleeps
  PROVE  MemInv'
<1>1. binary \in [Binaries -> BinaryFiles] /\ sw \in Swappers /\ SwapperOK /\ cpu \in Procs \cup {0}
  BY DEF MemInv, TypeOK
<1>2. /\ sw.pc = "scan" /\ free_pages > HIGH_PAGES_LIMIT /\ sw' = [Awake0 EXCEPT !.pc = "asleep"]
      /\ m' = m /\ u_area' = u_area /\ waits' = waits /\ binary' = binary /\ cpu' = cpu
  BY DEF SwapperSleeps
<1>3. sw' \in Swappers /\ sw'.page = 0 /\ sw'.pc = "asleep"
  BY <1>2, NotSwap DEF Awake0, Swappers
<1>4. sw.page = 0 /\ SwapperOK'
  BY <1>1, <1>2, <1>3 DEF SwapperOK
<1>5. ASSUME NEW o \in Procs PROVE waits[o] # GetPage
  <2>1. Needs(o) \in Nat /\ Needs(o) <= HIGH_PAGES_LIMIT /\ HIGH_PAGES_LIMIT \in Nat /\ free_pages \in Nat
    BY Requests0, Uses0, MemoryAssumption DEF free_pages
  <2>2. ~(free_pages < Needs(o))
    BY <1>2, <2>1
  <2>3. QED BY <2>2 DEF MemInv, WaitOK
<1>6. QED BY <1>1, <1>2, <1>3, <1>4, <1>5, StillStep

LEMMA StaleOK ==
  ASSUME MemInv, Stale
  PROVE  MemInv'
<1>1. binary \in [Binaries -> BinaryFiles] /\ sw \in Swappers /\ SwapperOK /\ cpu \in Procs \cup {0}
  BY DEF MemInv, TypeOK
<1>2. /\ sw.pc = "scan" /\ sw' = [sw EXCEPT !.pc = "stale"]
      /\ m' = m /\ u_area' = u_area /\ waits' = waits /\ binary' = binary /\ cpu' = cpu
  BY DEF Stale
<1>3. sw' \in Swappers /\ sw'.page = sw.page /\ sw'.pc = "stale"
  BY <1>1, <1>2 DEF Swappers
<1>4. SwapperOK'
  BY <1>1, <1>2, <1>3 DEF SwapperOK
<1>5. QED BY <1>1, <1>2, <1>3, <1>4, StillStep

LEMMA SavedOK ==
  ASSUME MemInv, Saved
  PROVE  MemInv'
<1> DEFINE p == sw.page
<1>1. /\ binary \in [Binaries -> BinaryFiles] /\ sw \in Swappers /\ SwapperOK /\ cpu \in Procs \cup {0}
      /\ waits \in [Procs -> Procs \cup {Nothing, GetPage}] /\ 1 \in Procs
  BY MemoryAssumption DEF MemInv, TypeOK
<1>2. PICK disk : disk = [m.disk EXCEPT ![sw.block] = m.data[p]]
  OBVIOUS
<1>3. PICK x : x = [m EXCEPT !.disk = disk]
  OBVIOUS
<1>4. /\ sw.pc = "save" /\ m' = release_page(x, p) /\ WakeIfFreed(m')
      /\ sw' = [sw EXCEPT !.pc = "scan", !.page = 0, !.block = None]
      /\ u_area' = u_area /\ binary' = binary /\ cpu' = cpu
  BY <1>2, <1>3 DEF Saved
<1>5. /\ Holding \in Uses /\ Sound(m, Holding, Blocks) /\ Len(m.free) \in Nat
      /\ SwapperAt \in Places /\ MapAt \in Places /\ SwapperAt # MapAt
      /\ Holding[SwapperAt] = p /\ Holding[MapAt] = m.swap_map
  BY <1>1, Uses0, HoldingAt, PlacesAre DEF SwapperAt, MapAt
<1>6. p # 0
  BY <1>1, <1>4 DEF SwapperOK
<1>7. p \in Pages
  BY <1>5, <1>6, Counted
<1>8. disk \in [Swap -> Values]
  <2>1. m.disk \in [Swap -> Values] /\ m.data[p] \in Values
    BY <1>5, <1>7 DEF Sound, Memories
  <2>2. QED BY <1>2, <2>1
<1>9. MemorySame(m, x)
  BY <1>3, <1>5, <1>8 DEF MemorySame, Sound, Memories
<1>10. Sound(x, Holding, Blocks) /\ Kept(m, x)
  BY <1>5, <1>9, SameIsSound
<1>11. PICK h : h = [Holding EXCEPT ![SwapperAt] = 0]
  OBVIOUS
<1>12. Sound(m', h, Blocks) /\ h \in Uses /\ AllSame(x, m') /\ SwapSame(x, m') /\ Len(m'.free) >= Len(x.free)
  <2>1. m' = release_page(x, Holding[SwapperAt])
    BY <1>4, <1>5
  <2>2. QED BY <1>5, <1>6, <1>10, <1>11, <2>1, Releases
<1>13. \A o \in Places : h[o] = IF o = SwapperAt THEN 0 ELSE Holding[o]
  BY <1>5, <1>11 DEF Uses
<1>14. Kept(m, m') /\ Fewer(m, m') /\ m'.swap_map = m.swap_map
  BY <1>9, <1>12 DEF MemorySame, AllSame, Same, SwapSame, Kept, Fewer
<1>15. sw' \in Swappers /\ sw'.page = 0 /\ sw'.pc = "scan"
  <2>1. PICK next : next = [sw EXCEPT !.pc = "scan", !.page = 0, !.block = None]
    OBVIOUS
  <2>2. 0 \in 0..NPages /\ None \in Swap \cup {None}
    BY NotSwap
  <2>3. next \in Swappers /\ next.page = 0 /\ next.pc = "scan"
    BY <1>1, <2>1, <2>2 DEF Swappers
  <2>4. QED BY <1>4, <2>1, <2>3
<1>16. SwapperOK'
  BY <1>15 DEF SwapperOK
<1>17. Len(m'.free) \in Nat /\ m' \in Memories
  BY <1>12 DEF Sound, Memories
<1>18. /\ waits' \in [Procs -> Procs \cup {Nothing, GetPage}] /\ \A o \in Procs : waits'[o] \in {waits[o], Nothing}
       /\ \A o \in Procs : waits'[o] = GetPage => Len(m'.free) <= Len(m.free)
  <2>1. waits' = IF Len(m'.free) > Len(m.free) THEN WakeAll(GetPage) ELSE waits
    BY <1>4 DEF WakeIfFreed, free_pages
  <2>2. Nothing # GetPage
    BY DEF Nothing, GetPage
  <2>3. CASE Len(m'.free) > Len(m.free)
    BY <1>1, <2>1, <2>2, <2>3 DEF WakeAll
  <2>4. CASE ~(Len(m'.free) > Len(m.free))
    BY <1>1, <1>5, <1>17, <2>1, <2>4
  <2>5. QED BY <2>3, <2>4
<1>19. h[SwapperAt] = 0 /\ h[MapAt] = m.swap_map /\ 0 \notin Pages
  BY <1>5, <1>13, NotSwap
<1>20. QED BY <1>1, <1>4, <1>5, <1>12, <1>13, <1>14, <1>15, <1>16, <1>18, <1>19, IdleStep

LEMMA SwaponOK ==
  ASSUME MemInv, NEW q \in Procs, swapon(q)
  PROVE  MemInv'
<1> DEFINE p == Head(m.free)
           x == get_page(m)
<1>1. Awake(q, "user")
  BY DEF swapon
<1>2. /\ binary \in [Binaries -> BinaryFiles] /\ sw \in Swappers /\ SwapperOK /\ cpu \in Procs \cup {0}
      /\ waits \in [Procs -> Procs \cup {Nothing, GetPage}]
  BY DEF MemInv, TypeOK
<1>3. PICK swap : swap = [bitmap |-> [b \in Swap |-> 0], free |-> SwapBlocks, latest |-> 0]
  OBVIOUS
<1>4. /\ m' = [x EXCEPT !.swap = swap, !.swap_map = p] /\ LowOnPages(m') /\ m.swap.latest = -1 /\ Len(m.free) >= 1
      /\ u_area' = u_area /\ waits' = waits /\ binary' = binary /\ cpu' = cpu
  BY <1>3 DEF swapon, free_pages
<1>5. /\ Holding \in Uses /\ Sound(m, Holding, Blocks) /\ Len(m.free) \in Nat /\ Blocks \in BlockUses
      /\ SwapperAt \in Places /\ MapAt \in Places /\ SwapperAt # MapAt
      /\ Holding[SwapperAt] = sw.page /\ Holding[MapAt] = m.swap_map
  BY <1>1, Uses0, HoldingAt, PlacesAre DEF SwapperAt, MapAt
<1>6. m.swap_map = 0 /\ (\A s \in VPlaces : Blocks[s] \notin Swap) /\ \A o \in Pages : m.pg[o].key \notin Swap
  BY <1>4, <1>5 DEF Sound, BlocksBalanced
<1>7. PICK h : h = [Holding EXCEPT ![MapAt] = p]
  OBVIOUS
<1>8. /\ Sound(x, h, Blocks) /\ h \in Uses /\ p \in Pages /\ p # 0 /\ m.pg[p].count = 0
      /\ Kept(m, x) /\ Fewer(m, x) /\ Len(x.free) < Len(m.free)
  BY <1>4, <1>5, <1>6, <1>7, TakenKept
<1> HIDE DEF x, p
<1>9. /\ m' \in Memories /\ m'.pg = x.pg /\ m'.free = x.free /\ m'.swap = swap /\ m'.swap_map = p
      /\ swap.free = SwapBlocks /\ swap.latest = 0 /\ swap.bitmap = [b \in Swap |-> 0]
  <2>1. p \in 0..NPages /\ SwapBlocks \in Int
    BY <1>8, NotSwap
  <2>2. swap \in [bitmap : [Swap -> Nat], free : Int, latest : Int]
    BY <1>3, <2>1
  <2>3. x \in Memories
    BY <1>8 DEF Sound
  <2>4. QED BY <1>3, <1>4, <2>1, <2>2, <2>3 DEF Memories
<1>10. Sound(m', h, Blocks)
  <2>1. PagesBalanced(m', h) /\ Cached(m')
    BY <1>8, <1>9 DEF Sound, PagesBalanced, Cached
  <2>2. BlocksBalanced(m', Blocks)
    <3>1. \A b \in Swap : Has(Blocks, VPlaces, b) = {}
      BY <1>6 DEF Has
    <3>2. FreeBlocks(m') = 1..SwapBlocks
      BY <1>9 DEF FreeBlocks, Swap
    <3>3. Cardinality(FreeBlocks(m')) = SwapBlocks /\ Cardinality({}) = 0
      <4>1. Cardinality({}) = 0
        BY FS_EmptySet
      <4>2. SwapBlocks \in Nat
        BY NotSwap
      <4>3. Cardinality(1..SwapBlocks) = SwapBlocks
        BY <4>2, FS_Interval
      <4>4. QED BY <3>2, <4>1, <4>3
    <3>4. \A b \in Swap : m'.swap.bitmap[b] = Cardinality(Has(Blocks, VPlaces, b))
      BY <1>9, <3>1, <3>3
    <3>5. QED BY <1>9, <3>3, <3>4 DEF BlocksBalanced
  <2>3. QED BY <1>9, <2>1, <2>2 DEF Sound
<1>11. Kept(m, m') /\ Fewer(m, m') /\ Len(m'.free) <= Len(m.free)
  <2>1. Len(x.free) \in Nat
    BY <1>8 DEF Sound, Memories
  <2>2. QED BY <1>5, <1>8, <1>9, <2>1 DEF Kept, Same, Fewer
<1>12. \A o \in Places : h[o] = IF o = MapAt THEN p ELSE Holding[o]
  BY <1>5, <1>7 DEF Uses
<1>13. SwapperKept /\ SwapperOK'
  BY <1>4, LowOnPagesIs, SwapperGoesOn
<1>14. /\ h[SwapperAt] = sw'.page /\ h[MapAt] = m'.swap_map /\ sw' \in Swappers /\ (sw'.pc = "asleep" => sw.pc = "asleep")
       /\ h[SwapperAt] = Holding[SwapperAt] /\ m.pg[h[MapAt]].count = 0
  BY <1>5, <1>8, <1>9, <1>12, <1>13 DEF SwapperKept
<1>15. QED BY <1>2, <1>4, <1>8, <1>10, <1>11, <1>12, <1>13, <1>14, IdleStep

(***************************************************************************)
(* The last pages of a zombie.                                             *)
(***************************************************************************)
LEMMA ReleaseZombieOK ==
  ASSUME MemInv, NEW q \in Procs, release_zombie(q)
  PROVE  MemInv'
<1> DEFINE u == u_area[q]
           r == Unused
<1>1. /\ u.state = "zombie" /\ Become(q, r) /\ WakeIfFreed(m') /\ sw' = sw /\ binary' = binary /\ cpu' = cpu
      /\ m' = release_page(release_page(m, u.kernel[1]), u.kernel[2])
  BY DEF release_zombie
<1>2. /\ u \in Areas /\ Frame(u) /\ waits[q] = Nothing /\ binary \in [Binaries -> BinaryFiles] /\ cpu \in Procs \cup {0}
  BY <1>1 DEF MemInv, TypeOK, ProcOK, WaitOK
<1>3. /\ u.pc = "user" /\ u.busyblock = None /\ u.child = 0 /\ u.page = 0 /\ u.kernel[1] # 0 /\ u.kernel[2] # 0
      /\ (\A v \in VPages : u.pgtbl[v] = Empty) /\ (\A t \in Tables : u.tables[t] = 0)
  BY <1>1, <1>2 DEF Frame, NoMemory
<1>4. /\ Holding \in Uses /\ Blocks \in BlockUses /\ Sound(m, Holding, Blocks) /\ u_area \in [Procs -> Areas]
      /\ Len(m.free) \in Nat
  BY Uses0
<1>5. PICK a, b : a = KernelAt(q, 1) /\ b = KernelAt(q, 2)
  OBVIOUS
<1>6. /\ a \in Places /\ b \in Places /\ a # b /\ Holding[a] = u.kernel[1] /\ Holding[b] = u.kernel[2]
      /\ a[2] = q /\ b[2] = q
  <2>1. 1 \in {1, 2} /\ 2 \in {1, 2} /\ a # b
    BY <1>5 DEF KernelAt
  <2>2. QED BY <1>5, <2>1, PlacesAre, HoldingAt DEF KernelAt
<1>7. PICK k : k = [Holding EXCEPT ![a] = 0]
  OBVIOUS
<1>8. PICK x : x = release_page(m, u.kernel[1])
  OBVIOUS
<1>9. Sound(x, k, Blocks) /\ k \in Uses /\ AllSame(m, x) /\ SwapSame(m, x) /\ Len(x.free) >= Len(m.free)
  <2>1. x = release_page(m, Holding[a])
    BY <1>6, <1>8
  <2>2. QED BY <1>3, <1>4, <1>6, <1>7, <2>1, Releases
<1>10. \A o \in Places : k[o] = IF o = a THEN 0 ELSE Holding[o]
  BY <1>4, <1>6, <1>7 DEF Uses
<1>11. PICK h : h = [k EXCEPT ![b] = 0]
  OBVIOUS
<1>12. Sound(m', h, Blocks) /\ h \in Uses /\ AllSame(x, m') /\ SwapSame(x, m') /\ Len(m'.free) >= Len(x.free)
  <2>1. m' = release_page(x, k[b]) /\ k[b] # 0
    BY <1>1, <1>3, <1>6, <1>8, <1>10
  <2>2. QED BY <1>6, <1>9, <1>11, <2>1, Releases
<1>13. \A o \in Places : h[o] = IF o \in {a, b} THEN 0 ELSE Holding[o]
  BY <1>6, <1>9, <1>10, <1>11 DEF Uses
<1>14. Kept(m, m') /\ Fewer(m, m') /\ m'.swap_map = m.swap_map
  BY <1>9, <1>12 DEF AllSame, Same, SwapSame, Kept, Fewer
<1>15. r \in Areas /\ Bare(r) /\ r.state = "unused" /\ r.kernel = <<0, 0>>
  BY UnusedIs
<1> HIDE DEF r, u
<1>16. Frame(r)
  BY <1>15, EmptyIs DEF Frame, Bare, NoMemory, EmptyEntry
<1>17. HoldsNext(q, r, h)
  <2>1. \A v \in VPages : h[PageAt(q, v)] = r.pgtbl[v].page
    <3>1. TAKE v \in VPages
    <3>2. PageAt(q, v) \notin {a, b}
      BY <1>5 DEF PageAt, KernelAt
    <3>3. Holding[PageAt(q, v)] = 0
      BY <1>3, HoldingAt, EmptyIs DEF u, EmptyEntry
    <3>4. QED BY <1>13, <1>15, <3>2, <3>3, PlacesAre, EmptyIs DEF Bare, EmptyEntry
  <2>2. \A t \in Tables : h[TableAt(q, t)] = r.tables[t]
    <3>1. TAKE t \in Tables
    <3>2. TableAt(q, t) \notin {a, b}
      BY <1>5 DEF TableAt, KernelAt, Tables
    <3>3. QED BY <1>3, <1>13, <1>15, <3>2, HoldingAt, PlacesAre DEF u, Bare
  <2>3. \A i \in {1, 2} : h[KernelAt(q, i)] = r.kernel[i]
    <3>1. TAKE i \in {1, 2}
    <3>2. KernelAt(q, i) \in {a, b}
      BY <1>5
    <3>3. QED BY <1>6, <1>13, <1>15, <3>2
  <2>4. h[ArgumentsAt(q)] = r.page /\ h[SwapperAt] = sw'.page /\ h[MapAt] = m'.swap_map
    <3>1. ArgumentsAt(q) \notin {a, b} /\ SwapperAt \notin {a, b} /\ MapAt \notin {a, b}
      BY <1>5 DEF ArgumentsAt, SwapperAt, MapAt, KernelAt
    <3>2. QED BY <1>1, <1>3, <1>13, <1>14, <1>15, <3>1, HoldingAt, PlacesAre DEF u, Bare
  <2>5. \A place \in Places : place[2] \notin {0, q} => h[place] = Holding[place]
    BY <1>6, <1>13
  <2>6. QED BY <2>1, <2>2, <2>3, <2>4, <2>5 DEF HoldsNext
<1>18. BlocksNext(q, r, Blocks)
  <2>1. ASSUME NEW w \in VPages PROVE BlockOf(r, w) = Blocks[<<q, w>>]
    <3>1. Blocks[<<q, w>>] = BlockOf(u, w)
      BY HoldingAt DEF u
    <3>2. QED BY <1>3, <1>15, <3>1, EmptyIs DEF BlockOf, Bare, EmptyEntry
  <2>2. QED BY <2>1 DEF BlocksNext
<1>19. Holding' = h /\ Blocks' = Blocks /\ u_area'[q] = r
  BY <1>1, <1>4, <1>12, <1>17, <1>18, HoldingBecomes, BlocksBecome DEF Become
<1>20. Others(q)
  <2>1. Changed(q)
    BY <1>13, <1>19, NotSwap DEF Changed
  <2>2. QED BY <1>14, <2>1, OthersKept
<1>21. Told /\ SwapperKept
  BY <1>1, WakeIfFreedIs, SwapperGoesOn
<1>22. r.busyblock = u.busyblock /\ r.child = 0 /\ r.pc = "user" /\ r.page = 0 /\ \A w \in VPages : ~r.pgtbl[w].present
  BY <1>3, <1>15, EmptyIs DEF Bare, EmptyEntry
<1>23. WaitOK(q)' /\ LoadOK(q)'
  <2>1. m' \in Memories
    BY <1>12 DEF Sound
  <2>2. waits'[q] = Nothing
    BY <1>2, <1>21, <1>22, <2>1, ToldWaiters DEF u
  <2>3. WaitOK(q)'
    BY <2>2, NothingWaits
  <2>4. QED BY <1>19, <1>22, <2>3 DEF LoadOK
<1>24. /\ Become(q, r) /\ u.state # "unused" /\ Sound(m', Holding', Blocks') /\ binary' \in [Binaries -> BinaryFiles]
       /\ cpu' \in Procs \cup {0}
  BY <1>1, <1>2, <1>12, <1>19
<1>25. QED BY <1>14, <1>15, <1>16, <1>20, <1>21, <1>22, <1>23, <1>24, PagesStep DEF u

(***************************************************************************)
(* The swapper takes a page from a process.                                *)
(***************************************************************************)
Scanned(u, v) ==
    /\ u \in Areas /\ Frame(u) /\ u.state = "alive" /\ u.pgtbl[v].present /\ u.pgtbl[v] \in Entries
    /\ u.pc \in {"fill", "load", "copy"} => u.v # v
    /\ u.pc = "exec_stack" => v # STACK
    /\ u.pc # "exec_image"
    /\ BlockOf(u, v) = None

LEMMA ScansAre ==
  ASSUME MemInv, NEW q \in Procs, NEW v \in VPages, Scans(q, v)
  PROVE  /\ Scanned(u_area[q], v) /\ sw.pc = "scan" /\ sw.page = 0 /\ cpu = 0
         /\ u_area[q].pgtbl[v].page \in Pages /\ u_area[q].pgtbl[v].page # 0
         /\ m.pg[u_area[q].pgtbl[v].page].count # 0 /\ Known(m, u_area[q].pgtbl[v].page)
         /\ Holding[PageAt(q, v)] = u_area[q].pgtbl[v].page /\ Blocks[<<q, v>>] = None
         /\ waits[q] \in Procs => u_area[q].v # v
<1> DEFINE u == u_area[q]
<1>1. /\ u \in Areas /\ Frame(u) /\ u.state = "alive" /\ u.pgtbl[v].present /\ ~u.pgtbl[v].busy
      /\ sw.pc = "scan" /\ cpu = 0 /\ SwapperOK /\ ProcOK(q) /\ WaitOK(q)
  BY DEF MemInv, TypeOK, ProcOK, Scans
<1>2. Holding[PageAt(q, v)] = u.pgtbl[v].page /\ Blocks[<<q, v>>] = BlockOf(u, v) /\ PageAt(q, v) \in Places
  BY HoldingAt, PlacesAre
<1>3. u.pgtbl[v].page # 0 /\ Known(m, u.pgtbl[v].page)
  BY <1>1 DEF ProcOK, Frame, EntryOK
<1>4. u.pgtbl[v].page \in Pages /\ m.pg[u.pgtbl[v].page].count # 0
  BY <1>2, <1>3, Counted
<1>5. waits[q] \in Procs => u.v # v
  BY <1>1 DEF WaitOK
<1>6. sw.page = 0
  BY <1>1 DEF SwapperOK
<1> HIDE DEF u
<1>7. u.pc \in {"fill", "load", "copy"} => u.v # v
  BY <1>1 DEF Frame
<1>8. (u.pc = "exec_stack" => v # STACK) /\ u.pc # "exec_image"
  BY <1>1 DEF Frame, NoMemory, Empty, Missing
<1>10. BlockOf(u, v) = None /\ u.pgtbl[v] \in Entries
  BY <1>1, <1>7 DEF BlockOf, Areas
<1>11. Scanned(u, v)
  BY <1>1, <1>7, <1>8, <1>10 DEF Scanned
<1>12. QED BY <1>1, <1>2, <1>3, <1>4, <1>5, <1>6, <1>10, <1>11 DEF u

\* The entry e in place of that of the page.
SwappedTo(u, v, e, r) ==
    /\ r \in Areas /\ Frame(r) /\ r.pgtbl[v] = e /\ \A w \in VPages \ {v} : r.pgtbl[w] = u.pgtbl[w]
    /\ r.state = u.state /\ r.pc = u.pc /\ r.v = u.v /\ r.tables = u.tables /\ r.kernel = u.kernel
    /\ r.page = u.page /\ r.child = u.child /\ r.busyblock = u.busyblock

LEMMA SwappedOut ==
  ASSUME NEW u, NEW v \in VPages, Scanned(u, v), NEW e \in Entries, EntryOK(e), ~e.present
  PROVE  SwappedTo(u, v, e, [u EXCEPT !.pgtbl[v] = e])
<1>1. PICK pgtbl : pgtbl = [u.pgtbl EXCEPT ![v] = e]
  OBVIOUS
<1>2. PICK r : r = [u EXCEPT !.pgtbl = pgtbl]
  OBVIOUS
<1>3. u \in Areas /\ Frame(u) /\ u.state = "alive"
  BY DEF Scanned
<1>4. pgtbl \in [VPages -> Entries] /\ pgtbl[v] = e /\ \A w \in VPages \ {v} : pgtbl[w] = u.pgtbl[w]
  BY <1>1, <1>3 DEF Areas
<1>5. /\ r.pgtbl = pgtbl /\ r.state = u.state /\ r.pc = u.pc /\ r.v = u.v /\ r.tables = u.tables /\ r.kernel = u.kernel
      /\ r.page = u.page /\ r.child = u.child /\ r.busyblock = u.busyblock /\ r.prog = u.prog
  BY <1>2, <1>3 DEF Areas
<1>6. r \in Areas
  BY <1>2, <1>3, <1>4 DEF Areas
<1>7. \A w \in VPages : EntryOK(r.pgtbl[w])
  BY <1>3, <1>4, <1>5 DEF Frame
<1>8. Frame(r)
  <2>1. u.v \in VPages
    BY <1>3 DEF Areas
  <2>2. u.pc \in {"fill", "load", "copy"} => r.pgtbl[r.v] = u.pgtbl[u.v]
    BY <1>4, <1>5, <2>1 DEF Scanned
  <2>3. u.pc = "exec_stack" => r.pgtbl[STACK] = u.pgtbl[STACK]
    BY <1>4, <1>5, FourPages DEF Scanned
  <2>4. u.pc # "exec_image"
    BY DEF Scanned, Frame
  <2>5. QED BY <1>3, <1>5, <1>7, <2>2, <2>3, <2>4 DEF Frame
<1>9. SwappedTo(u, v, e, r)
  BY <1>4, <1>5, <1>6, <1>8 DEF SwappedTo
<1>10. QED BY <1>1, <1>2, <1>9

LEMMA SwapOutLoad ==
  ASSUME MemInv, NEW q \in Procs, NEW v \in VPages, Scans(q, v), NEW e, NEW r, Become(q, r), SwappedTo(u_area[q], v, e, r),
         NEW h \in Uses, Holding' = h,
         \A place \in Places : h[place] = Holding[place] \/ h[place] = 0 \/ h[place] = u_area[q].pgtbl[v].page,
         \A w \in VPages \ {v} : h[PageAt(q, w)] = Holding[PageAt(q, w)],
         \A p \in Pages : p # u_area[q].pgtbl[v].page /\ m.pg[p].count # 0 /\ ~m.pg[p].hashed => Same(m, m', p)
  PROVE  LoadOK(q)'
<1> DEFINE u == u_area[q]
           a == Reads(q)
<1>1. u_area'[q] = r /\ LoadOK(q) /\ u \in Areas /\ Frame(u) /\ u.v \in VPages
  BY DEF MemInv, TypeOK, Become, ProcOK, Areas
<1>2. r.pc = u.pc /\ r.v = u.v /\ r.busyblock = u.busyblock /\ \A w \in VPages \ {v} : r.pgtbl[w] = u.pgtbl[w]
  BY DEF SwappedTo
<1>3. SUFFICES ASSUME u.pc = "load" PROVE LoadOK(q)'
  BY <1>1, <1>2 DEF LoadOK
<1>4. u.v # v
  BY <1>3, ScansAre DEF Scanned
<1>5. r.pgtbl[r.v].page = a
  BY <1>1, <1>2, <1>4 DEF Reads
<1>6. m.pg[a].key = u.busyblock /\ ~m.pg[a].hashed /\ Has(Holding, Places, a) = {PageAt(q, u.v)}
  BY <1>1, <1>3 DEF LoadOK, PageAt
<1>7. Holding[PageAt(q, u.v)] = a /\ PageAt(q, u.v) \in Places /\ PageAt(q, v) \in Places /\ PageAt(q, u.v) # PageAt(q, v)
  BY <1>1, <1>4, HoldingAt, PlacesAre DEF Reads, PageAt
<1>8. a # 0
  BY <1>1, <1>3 DEF Frame, EntryOK, Reads
<1>9. a \in Pages /\ m.pg[a].count # 0
  BY <1>7, <1>8, Counted
<1>10. a # u.pgtbl[v].page
  <2>1. Holding[PageAt(q, v)] = u.pgtbl[v].page
    BY HoldingAt
  <2>2. QED BY <1>6, <1>7, <2>1 DEF Has
<1>11. m'.pg[a].key = u.busyblock /\ ~m'.pg[a].hashed
  BY <1>6, <1>9, <1>10 DEF Same
<1>12. Has(h, Places, a) = {PageAt(q, u.v)}
  <2>1. h[PageAt(q, u.v)] = a
    BY <1>1, <1>4, <1>7
  <2>2. ASSUME NEW place \in Places, h[place] = a PROVE place = PageAt(q, u.v)
    <3>1. Holding[place] = a
      BY <1>8, <1>10, <2>2
    <3>2. QED BY <1>6, <3>1 DEF Has
  <2>3. QED BY <1>7, <2>1, <2>2 DEF Has
<1>13. r.pc = "load" /\ PageAt(q, u.v) = <<"page", q, r.v>> /\ r.busyblock = u.busyblock
  BY <1>2, <1>3 DEF PageAt
<1> HIDE DEF a, u
<1>14. QED BY <1>1, <1>5, <1>11, <1>12, <1>13 DEF LoadOK, Reads

LEMMA SwapOutWait ==
  ASSUME MemInv, NEW q \in Procs, NEW v \in VPages, Scans(q, v), NEW e, NEW r, Become(q, r), SwappedTo(u_area[q], v, e, r),
         m' \in Memories, waits'[q] \in {waits[q], Nothing}, waits'[q] = GetPage => Len(m'.free) <= Len(m.free),
         sw'.pc # "asleep"
  PROVE  WaitOK(q)'
<1> DEFINE u == u_area[q]
<1>1. /\ u_area'[q] = r /\ WaitOK(q) /\ u \in Areas /\ u.v \in VPages
      /\ waits \in [Procs -> Procs \cup {Nothing, GetPage}]
  BY DEF MemInv, TypeOK, Become, Areas
<1>2. /\ r.pc = u.pc /\ r.v = u.v /\ r.busyblock = u.busyblock /\ r.state = u.state /\ r.tables = u.tables
      /\ \A w \in VPages \ {v} : r.pgtbl[w] = u.pgtbl[w]
  BY DEF SwappedTo
<1>3. \A o \in Procs : u_area'[o].busyblock = u_area[o].busyblock
  BY <1>1, <1>2 DEF Become, MemInv, TypeOK
<1>4. Nothing # GetPage /\ Nothing \notin Procs /\ GetPage \notin Procs
  BY MemoryAssumption DEF Nothing, GetPage
<1>5. waits'[q] # Nothing => u_area'[q].state = "alive"
  BY <1>1, <1>2 DEF WaitOK
<1>6. ASSUME waits'[q] = GetPage
      PROVE  u_area'[q].pc \in Reserving /\ Len(m'.free) < Needs(q)' /\ sw'.pc # "asleep"
  <2>1. waits[q] = GetPage
    BY <1>4, <1>6
  <2>2. u.pc \in Reserving /\ Len(m.free) < Needs(q)
    BY <1>1, <2>1 DEF WaitOK, free_pages
  <2>3. Needs(q)' = Needs(q)
    BY <1>1, <1>2 DEF Needs, Requested, HasTable
  <2>4. Len(m'.free) \in Nat /\ Len(m.free) \in Nat /\ Needs(q) \in Nat
    BY Uses0, Requests0 DEF Memories
  <2>5. QED BY <1>1, <1>2, <1>6, <2>2, <2>3, <2>4
<1>7. ASSUME waits'[q] \in Procs
      PROVE  /\ u_area'[q].pc = "fault" /\ ~u_area'[q].pgtbl[u_area'[q].v].present /\ u_area'[q].pgtbl[u_area'[q].v].key # None
             /\ u_area'[waits'[q]].busyblock = u_area'[q].pgtbl[u_area'[q].v].key
  <2>1. waits'[q] = waits[q] /\ waits[q] \in Procs
    BY <1>4, <1>7
  <2>2. u.v # v
    BY <2>1, ScansAre
  <2>3. r.pgtbl[r.v] = u.pgtbl[u.v]
    BY <1>1, <1>2, <2>2
  <2>4. QED BY <1>1, <1>2, <1>3, <2>1, <2>3 DEF WaitOK
<1>8. QED BY <1>5, <1>6, <1>7 DEF WaitOK, free_pages

HandOf(q, v, pc, p, b) == [pc : {pc}, proc : {q}, pid : {u_area[q].pid}, table : {u_area[q].tables[TableOf(v)]},
                           page : {p}, block : {b}]

LEMMA InHandIs ==
  ASSUME NEW q, NEW v, NEW p, NEW b
  PROVE  /\ InHand(q, v) \in HandOf(q, v, "scan", 0, None)
         /\ [InHand(q, v) EXCEPT !.pc = "save", !.page = p, !.block = b] \in HandOf(q, v, "save", p, b)
<1>1. PICK i : i = u_area[q].pid
  OBVIOUS
<1>2. PICK t : t = u_area[q].tables[TableOf(v)]
  OBVIOUS
<1>3. PICK x : x = [pc |-> "scan", proc |-> 0, pid |-> 0, table |-> 0, page |-> 0, block |-> None]
  OBVIOUS
<1>4. x \in [pc : {"scan"}, proc : {0}, pid : {0}, table : {0}, page : {0}, block : {None}]
  BY <1>3
<1>5. PICK y : y = [x EXCEPT !.proc = q, !.pid = i, !.table = t]
  OBVIOUS
<1>6. y \in [pc : {"scan"}, proc : {q}, pid : {i}, table : {t}, page : {0}, block : {None}]
  BY <1>4, <1>5
<1>7. InHand(q, v) = y
  BY <1>1, <1>2, <1>3, <1>5 DEF InHand, Awake0
<1>8. PICK z : z = [y EXCEPT !.pc = "save", !.page = p, !.block = b]
  OBVIOUS
<1>9. z \in [pc : {"save"}, proc : {q}, pid : {i}, table : {t}, page : {p}, block : {b}]
  BY <1>6, <1>8
<1>10. QED BY <1>1, <1>2, <1>6, <1>7, <1>8, <1>9 DEF HandOf

LEMMA DroppedOK ==
  ASSUME MemInv, NEW q \in Procs, NEW v \in VPages, Dropped(q, v)
  PROVE  MemInv'
<1> DEFINE u == u_area[q]
           p == u.pgtbl[v].page
           d == m.pg[p]
           place == PageAt(q, v)
           s == <<q, v>>
<1>1. PICK e : e = Missing(d.type, d.key)
  OBVIOUS
<1>2. PICK x : x = IF d.type = PAGE_SWAP THEN share_swap_block(m, d.key) ELSE m
  OBVIOUS
<1>3. PICK r : r = [u EXCEPT !.pgtbl[v] = e]
  OBVIOUS
<1>4. /\ Scans(q, v) /\ (d.type = PAGE_SWAP => d.key # None) /\ m' = release_page(x, p) /\ WakeIfFreed(m')
      /\ Become(q, r) /\ sw' = InHand(q, v) /\ binary' = binary /\ cpu' = cpu
  BY <1>1, <1>2, <1>3 DEF Dropped
<1>5. /\ Scanned(u, v) /\ sw.pc = "scan" /\ sw.page = 0 /\ p \in Pages /\ p # 0 /\ d.count # 0 /\ Known(m, p)
      /\ Holding[place] = p /\ Blocks[s] = None
  BY <1>4, ScansAre
<1>6. /\ Holding \in Uses /\ Blocks \in BlockUses /\ Sound(m, Holding, Blocks) /\ u_area \in [Procs -> Areas]
      /\ Len(m.free) \in Nat /\ place \in Places /\ s \in VPlaces /\ d \in Descriptors
  BY <1>5, Uses0, PlacesAre DEF Memories
<1>7. binary \in [Binaries -> BinaryFiles] /\ cpu \in Procs \cup {0}
  BY DEF MemInv, TypeOK
<1>8. /\ IF d.type = PAGE_SWAP THEN d.key \in Swap ELSE d.key \notin Swap
      /\ d.key \in Swap => m.swap.latest # -1
  BY <1>4, <1>5, <1>6 DEF Sound, Cached, BlocksBalanced
<1> HIDE DEF u, p, d, s
<1>9. e \in Entries /\ EntryOK(e) /\ ~e.present /\ e.page = 0 /\ e.type = d.type /\ e.key = d.key
  <2>1. e = [present |-> FALSE, page |-> 0, rw |-> FALSE, busy |-> FALSE, type |-> d.type, key |-> d.key]
    BY <1>1 DEF Missing
  <2>2. d.type \in Types /\ d.key \in Keys /\ 0 \in 0..NPages
    BY <1>6, NotSwap DEF Descriptors
  <2>3. d.type = PAGE_DZ <=> d.key = None
    <3>1. (d.type = PAGE_DZ => d.key = None) /\ (d.type = PAGE_FILE => d.key # None)
      BY <1>5 DEF Known, d
    <3>2. d.type = PAGE_SWAP => d.key # None
      BY <1>4
    <3>3. QED BY <2>2, <3>1, <3>2 DEF Types, PAGE_DZ, PAGE_FILE, PAGE_SWAP
  <2>4. QED BY <1>8, <2>1, <2>2, <2>3 DEF Entries, EntryOK
<1>10. SwappedTo(u, v, e, r)
  BY <1>3, <1>5, <1>9, SwappedOut
<1>11. BlockOf(r, v) = IF d.type = PAGE_SWAP THEN d.key ELSE None
  BY <1>9, <1>10 DEF SwappedTo, BlockOf
<1>12. PICK g : g = [Blocks EXCEPT ![s] = BlockOf(r, v)]
  OBVIOUS
<1>13. Sound(x, Holding, g) /\ g \in BlockUses /\ AllSame(m, x) /\ x.free = m.free /\ x.swap_map = m.swap_map
  <2>1. CASE d.type = PAGE_SWAP
    <3>1. x = share_swap_block(m, d.key) /\ g = [Blocks EXCEPT ![s] = d.key]
      BY <1>2, <1>11, <1>12, <2>1
    <3>2. Blocks[s] \notin Swap
      BY <1>5, NotSwap
    <3>3. BlocksSet(m, x, Holding, g)
      BY <1>6, <1>8, <2>1, <3>1, <3>2, BlockShares
    <3>4. QED BY <3>3 DEF BlocksSet
  <2>2. CASE d.type # PAGE_SWAP
    <3>1. x = m /\ g = Blocks
      BY <1>2, <1>5, <1>6, <1>11, <1>12, <2>2 DEF BlockUses
    <3>2. QED BY <1>6, <3>1 DEF AllSame, Same
  <2>3. QED BY <2>1, <2>2
<1>14. PICK h : h = [Holding EXCEPT ![place] = 0]
  OBVIOUS
<1>15. Sound(m', h, g) /\ h \in Uses /\ AllSame(x, m') /\ SwapSame(x, m')
  <2>1. m' = release_page(x, Holding[place]) /\ Holding[place] # 0
    BY <1>4, <1>5
  <2>2. QED BY <1>6, <1>13, <1>14, <2>1, Releases
<1>16. Kept(m, m') /\ Fewer(m, m') /\ m'.swap_map = m.swap_map /\ AllSame(m, m')
  BY <1>13, <1>15 DEF AllSame, Same, SwapSame, Kept, Fewer
<1>17. \A o \in Places : h[o] = IF o = place THEN 0 ELSE Holding[o]
  BY <1>6, <1>14 DEF Uses
<1>18. SwapperKept /\ sw'.pc = "scan" /\ sw'.page = 0
  <2>1. u_area[q].pid \in Int /\ u_area[q].tables[TableOf(v)] \in 0..NPages
    BY <1>6, FourPages DEF Areas
  <2>2. sw' \in HandOf(q, v, "scan", 0, None)
    BY <1>4, InHandIs
  <2>3. sw' \in Swappers
    BY <2>1, <2>2, NotSwap DEF Swappers, HandOf
  <2>4. QED BY <1>5, <2>2, <2>3 DEF SwapperKept, HandOf
<1>19. HoldsNext(q, r, h)
  <2>1. r.pgtbl[v].page = 0 /\ \A w \in VPages \ {v} : r.pgtbl[w].page = u.pgtbl[w].page
    BY <1>9, <1>10 DEF SwappedTo
  <2>2. h = [Holding EXCEPT ![PageAt(q, v)] = r.pgtbl[v].page]
    BY <1>14, <2>1 DEF place
  <2>3. sw'.page = sw.page
    BY <1>18 DEF SwapperKept
  <2>4. r.tables = u.tables /\ r.kernel = u.kernel /\ r.page = u.page
    BY <1>10 DEF SwappedTo
  <2>5. QED BY <1>16, <2>1, <2>2, <2>3, <2>4, EntryChanges DEF u
<1>20. BlocksNext(q, r, g)
  <2>1. \A w \in VPages \ {v} : BlockOf(r, w) = BlockOf(u, w)
    BY <1>10 DEF SwappedTo, BlockOf
  <2>2. QED BY <1>12, <2>1, BlockChanges DEF u, s
<1>21. Holding' = h /\ Blocks' = g
  BY <1>4, <1>6, <1>13, <1>15, <1>19, <1>20, HoldingBecomes, BlocksBecome
<1>22. Others(q)
  <2>1. Changed(q)
    BY <1>17, <1>21, NotSwap DEF Changed
  <2>2. QED BY <1>16, <2>1, OthersKept
<1>23. Told
  BY <1>4, WakeIfFreedIs
<1>24. m' \in Memories
  BY <1>15 DEF Sound
<1>25. LoadOK(q)'
  <2>1. \A w \in VPages \ {v} : h[PageAt(q, w)] = Holding[PageAt(q, w)]
    BY <1>17, PlacesAre DEF PageAt, place
  <2>2. \A o \in Pages : Same(m, m', o)
    BY <1>16 DEF AllSame
  <2>3. \A o \in Places : h[o] = Holding[o] \/ h[o] = 0
    BY <1>17
  <2>4. QED BY <1>4, <1>10, <1>15, <1>21, <2>1, <2>2, <2>3, SwapOutLoad DEF u
<1>26. WaitOK(q)'
  <2>1. waits'[q] \in {waits[q], Nothing} /\ (waits'[q] = GetPage => Len(m'.free) <= Len(m.free))
    <3>1. waits \in [Procs -> Procs \cup {Nothing, GetPage}] /\ Nothing # GetPage
      BY DEF MemInv, TypeOK, Nothing, GetPage
    <3>2. WakeAll(GetPage)[q] = IF waits[q] = GetPage THEN Nothing ELSE waits[q]
      BY DEF WakeAll
    <3>3. Len(m'.free) \in Nat
      BY <1>24 DEF Memories
    <3>4. QED BY <1>6, <1>23, <3>1, <3>2, <3>3 DEF Told
  <2>2. QED BY <1>4, <1>10, <1>18, <1>24, <2>1, SwapOutWait DEF u
<1>27. \A w \in VPages : r.pgtbl[w].present => u.pgtbl[w].present /\ u.pgtbl[w].page = r.pgtbl[w].page
  BY <1>9, <1>10 DEF SwappedTo
<1>28. /\ r \in Areas /\ Frame(r) /\ r.busyblock = u.busyblock /\ r.child = u.child /\ r.pc = u.pc /\ r.page = u.page
       /\ u.state = "alive"
  BY <1>5, <1>10 DEF SwappedTo, Scanned
<1>29. Sound(m', Holding', Blocks') /\ Fewer(m, m') /\ binary' \in [Binaries -> BinaryFiles] /\ cpu' \in Procs \cup {0}
  BY <1>4, <1>7, <1>15, <1>16, <1>21
<1>30. QED BY <1>4, <1>18, <1>22, <1>23, <1>25, <1>26, <1>27, <1>28, <1>29, PagesStep DEF u

\* A free block is not being loaded.
LEMMA FreeNotBusy ==
  ASSUME MemInv, NEW b \in FreeBlocks(m), NEW o \in Procs
  PROVE  u_area[o].busyblock # b
<1> DEFINE u == u_area[o]
<1>1. b \in Swap /\ m.swap.bitmap[b] = 0
  BY DEF FreeBlocks
<1>2. u \in Areas /\ Frame(u) /\ u.v \in VPages
  BY DEF MemInv, TypeOK, ProcOK, Areas
<1>3. Has(Blocks, VPlaces, b) = {}
  <2>1. IsFiniteSet(Has(Blocks, VPlaces, b))
    BY PlacesFinite, FS_Subset DEF Has
  <2>2. Cardinality(Has(Blocks, VPlaces, b)) = 0
    BY <1>1, Uses0 DEF Sound, BlocksBalanced
  <2>3. QED BY <2>1, <2>2, FS_EmptySet
<1>4. Blocks[<<o, u.v>>] # b
  <2>1. <<o, u.v>> \in VPlaces
    BY <1>2, PlacesAre
  <2>2. QED BY <1>3, <2>1 DEF Has
<1>5. Blocks[<<o, u.v>>] = BlockOf(u, u.v)
  BY <1>2, HoldingAt
<1> HIDE DEF u
<1>6. SUFFICES ASSUME u.busyblock = b PROVE FALSE
  BY DEF u
<1>7. b # None
  BY <1>1, NotSwap
<1>8. EntryOK(u.pgtbl[u.v]) /\ u.pc \in {"fill", "load"}
  BY <1>2, <1>6, <1>7 DEF Frame
<1>9. CASE u.pc = "fill"
  BY <1>1, <1>2, <1>4, <1>5, <1>6, <1>8, <1>9 DEF Frame, EntryOK, BlockOf
<1>10. CASE u.pc = "load"
  BY <1>2, <1>4, <1>5, <1>6, <1>10 DEF Frame, BlockOf
<1>11. QED BY <1>8, <1>9, <1>10

LEMMA NextBlockIs ==
  ASSUME MemInv, m.swap.free > 0
  PROVE  NextBlock(m) \in FreeBlocks(m) /\ m.swap.latest # -1
<1>1. BlocksBalanced(m, Blocks) /\ m.swap.free \in Int
  BY Uses0 DEF Sound, Memories
<1>2. m.swap.latest # -1 /\ Cardinality(FreeBlocks(m)) > 0
  BY <1>1 DEF BlocksBalanced
<1>3. FreeBlocks(m) # {}
  <2>1. Cardinality({}) = 0
    BY FS_EmptySet
  <2>2. QED BY <1>2, <2>1
<1>4. PICK S : S = {b \in FreeBlocks(m) : b > m.swap.latest}
  OBVIOUS
<1>5. S \in SUBSET Nat /\ FreeBlocks(m) \in SUBSET Nat /\ S \subseteq FreeBlocks(m)
  BY <1>4 DEF FreeBlocks, Swap
<1>6. NextBlock(m) = IF S # {} THEN Min(S) ELSE Min(FreeBlocks(m))
  BY <1>4 DEF NextBlock
<1>7. Min(FreeBlocks(m)) \in FreeBlocks(m) /\ (S # {} => Min(S) \in S)
  BY <1>3, <1>5, LowestOf
<1>8. QED BY <1>2, <1>5, <1>6, <1>7

\* The page is on the block b, and found by it, and no other is any longer.
OnBlockNow(x, y, p, b) ==
    /\ y \in Memories /\ y.free = x.free /\ y.swap_map = x.swap_map
    /\ y.pg[p].key = b /\ y.pg[p].hashed /\ y.pg[p].type = PAGE_SWAP
    /\ \A o \in Pages \ {p} : \/ Same(x, y, o)
                              \/ x.pg[o].hashed /\ y.pg[o].type = PAGE_SWAP /\ y.pg[o].key = None /\ ~y.pg[o].hashed

LEMMA BlockForPage ==
  ASSUME MemInv, NEW s \in VPlaces, Blocks[s] \notin Swap, NEW p \in Pages, m.pg[p].type = PAGE_SWAP, m.pg[p].key = None,
         NEW b \in FreeBlocks(m), m.swap.latest # -1
  PROVE  LET y == [get_swap_block(m, b) EXCEPT !.pg[p].key = b, !.pg[p].hashed = TRUE]
         IN  /\ OnBlockNow(m, y, p, b)
             /\ Sound(y, Holding, [Blocks EXCEPT ![s] = b]) /\ [Blocks EXCEPT ![s] = b] \in BlockUses
<1>1. PICK x : x = get_swap_block(m, b)
  OBVIOUS
<1>2. PICK g : g = [Blocks EXCEPT ![s] = b]
  OBVIOUS
<1>3. PICK ps : ps = pg_hash_search(m, b)
  OBVIOUS
<1>4. Holding \in Uses /\ Blocks \in BlockUses /\ Sound(m, Holding, Blocks) /\ b \in Swap
  BY Uses0 DEF FreeBlocks
<1>5. /\ Sound(x, Holding, g) /\ g \in BlockUses /\ x.free = m.free /\ x.swap_map = m.swap_map
      /\ \A o \in Pages : IF o \in ps THEN x.pg[o].type = m.pg[o].type /\ x.pg[o].key = None /\ ~x.pg[o].hashed
                          ELSE Same(m, x, o)
  BY <1>1, <1>2, <1>3, <1>4, BlockTaken
<1>6. PICK d : d = [x.pg[p] EXCEPT !.key = b, !.hashed = TRUE]
  OBVIOUS
<1>7. PICK pg : pg = [x.pg EXCEPT ![p] = d]
  OBVIOUS
<1>8. PICK y : y = [x EXCEPT !.pg = pg]
  OBVIOUS
<1>9. b # None /\ b \in Keys
  BY <1>4, NotSwap DEF Keys
<1>10. p \notin ps /\ Same(m, x, p) /\ x \in Memories /\ x.pg[p] \in Descriptors
  BY <1>3, <1>5, <1>9 DEF pg_hash_search, Sound, Memories
<1>11. d \in Descriptors /\ d.key = b /\ d.hashed /\ d.type = PAGE_SWAP /\ d.count = x.pg[p].count
  BY <1>6, <1>9, <1>10 DEF Descriptors, Same
<1>12. Redescribed(x, y, p, d)
  BY <1>7, <1>8, <1>10, <1>11, PageSet
<1>13. \A o \in Pages \ {p} : x.pg[o].hashed => x.pg[o].key # b
  BY <1>3, <1>5 DEF pg_hash_search, Same
<1>14. x.swap.latest # -1
  <2>1. g[s] = b
    BY <1>2, <1>4 DEF BlockUses
  <2>2. QED BY <1>4, <1>5, <2>1 DEF Sound, BlocksBalanced
<1>15. Sound(y, Holding, g)
  BY <1>4, <1>5, <1>9, <1>11, <1>12, <1>13, <1>14, Described DEF PAGE_SWAP, PAGE_DZ
<1>16. ASSUME NEW o \in Pages \ {p}
       PROVE  \/ Same(m, y, o)
              \/ m.pg[o].hashed /\ y.pg[o].type = PAGE_SWAP /\ y.pg[o].key = None /\ ~y.pg[o].hashed
  <2>1. y.pg[o] = x.pg[o]
    BY <1>12 DEF Redescribed
  <2>2. CASE o \in ps
    <3>1. m.pg[o].hashed /\ m.pg[o].key = b
      BY <1>3, <2>2 DEF pg_hash_search
    <3>2. m.pg[o].type = PAGE_SWAP
      BY <1>4, <3>1 DEF Sound, Cached
    <3>3. QED BY <1>5, <2>1, <2>2, <3>1, <3>2
  <2>3. CASE o \notin ps
    BY <1>5, <2>1, <2>3 DEF Same
  <2>4. QED BY <2>2, <2>3
<1>17. OnBlockNow(m, y, p, b)
  BY <1>5, <1>11, <1>12, <1>16 DEF OnBlockNow, Redescribed
<1>18. y = [get_swap_block(m, b) EXCEPT !.pg[p].key = b, !.pg[p].hashed = TRUE]
  BY <1>1, <1>6, <1>7, <1>8
<1>19. QED BY <1>2, <1>5, <1>15, <1>17, <1>18

LEMMA WrittenOK ==
  ASSUME MemInv, NEW q \in Procs, NEW v \in VPages, Written(q, v)
  PROVE  MemInv'
<1> DEFINE u == u_area[q]
           p == u.pgtbl[v].page
           place == PageAt(q, v)
           s == <<q, v>>
<1>1. PICK b : b = NextBlock(m)
  OBVIOUS
<1>2. PICK e : e = Missing(PAGE_SWAP, b)
  OBVIOUS
<1>3. PICK r : r = [u EXCEPT !.pgtbl[v] = e]
  OBVIOUS
<1>4. PICK y : y = [get_swap_block(m, b) EXCEPT !.pg[p].key = b, !.pg[p].hashed = TRUE]
  OBVIOUS
<1>5. /\ Scans(q, v) /\ m.pg[p].type = PAGE_SWAP /\ m.pg[p].key = None /\ m.swap.free > 0 /\ m' = y /\ Become(q, r)
      /\ sw' = [InHand(q, v) EXCEPT !.pc = "save", !.page = p, !.block = b]
      /\ waits' = waits /\ binary' = binary /\ cpu' = cpu
  BY <1>1, <1>2, <1>3, <1>4 DEF Written
<1>6. /\ Scanned(u, v) /\ sw.pc = "scan" /\ sw.page = 0 /\ p \in Pages /\ p # 0 /\ m.pg[p].count # 0
      /\ Holding[place] = p /\ Blocks[s] = None
  BY <1>5, ScansAre
<1>7. /\ Holding \in Uses /\ Blocks \in BlockUses /\ u_area \in [Procs -> Areas] /\ Len(m.free) \in Nat
      /\ place \in Places /\ s \in VPlaces /\ SwapperAt \in Places /\ place # SwapperAt /\ Holding[SwapperAt] = 0
      /\ place[2] = q
  BY <1>6, Uses0, PlacesAre, HoldingAt DEF PageAt, SwapperAt
<1>8. binary \in [Binaries -> BinaryFiles] /\ cpu \in Procs \cup {0} /\ waits \in [Procs -> Procs \cup {Nothing, GetPage}]
  BY DEF MemInv, TypeOK
<1>9. b \in FreeBlocks(m) /\ m.swap.latest # -1 /\ b \in Swap /\ b # None
  BY <1>1, <1>5, NextBlockIs, NotSwap DEF FreeBlocks
<1> HIDE DEF u, p, s, place
<1>10. PICK g : g = [Blocks EXCEPT ![s] = b]
  OBVIOUS
<1>11. OnBlockNow(m, m', p, b) /\ Sound(m', Holding, g) /\ g \in BlockUses
  <2>1. Blocks[s] \notin Swap
    BY <1>6, NotSwap
  <2>2. MemInv /\ s \in VPlaces /\ p \in Pages /\ m.pg[p].type = PAGE_SWAP /\ m.pg[p].key = None
    BY <1>5, <1>6, <1>7
  <2>3. m' = [get_swap_block(m, b) EXCEPT !.pg[p].key = b, !.pg[p].hashed = TRUE]
    BY <1>4, <1>5
  <2>4. QED BY ONLY <1>9, <1>10, <2>1, <2>2, <2>3, BlockForPage
<1>12. PICK h : h = [[Holding EXCEPT ![place] = 0] EXCEPT ![SwapperAt] = Holding[place]]
  OBVIOUS
<1>13. h \in Uses /\ Sound(m', h, g)
  BY <1>7, <1>11, <1>12, Moves
<1>14. \A o \in Places : h[o] = IF o = place THEN 0 ELSE IF o = SwapperAt THEN p ELSE Holding[o]
  BY <1>6, <1>7, <1>12 DEF Uses
<1>15. e \in Entries /\ EntryOK(e) /\ ~e.present /\ e.page = 0 /\ e.type = PAGE_SWAP /\ e.key = b
  <2>1. e = [present |-> FALSE, page |-> 0, rw |-> FALSE, busy |-> FALSE, type |-> PAGE_SWAP, key |-> b]
    BY <1>2 DEF Missing
  <2>2. b \in Keys /\ 0 \in 0..NPages /\ PAGE_SWAP \in Types
    BY <1>9, NotSwap DEF Keys, Types
  <2>3. QED BY <1>9, <2>1, <2>2 DEF Entries, EntryOK, PAGE_SWAP, PAGE_DZ
<1>16. SwappedTo(u, v, e, r)
  BY <1>3, <1>6, <1>15, SwappedOut
<1>17. sw' \in Swappers /\ sw'.pc = "save" /\ sw'.page = p
  <2>1. u_area[q].pid \in Int /\ u_area[q].tables[TableOf(v)] \in 0..NPages
    BY <1>7, FourPages DEF Areas
  <2>2. sw' \in HandOf(q, v, "save", p, b)
    <3>1. [InHand(q, v) EXCEPT !.pc = "save", !.page = p, !.block = b] \in HandOf(q, v, "save", p, b)
      BY InHandIs
    <3>2. QED BY <1>5, <3>1
  <2>3. sw' \in Swappers
    BY <1>6, <1>9, <2>1, <2>2, NotSwap DEF Swappers, HandOf
  <2>4. QED BY <2>2, <2>3 DEF HandOf
<1>18. HoldsNext(q, r, h)
  <2>1. ASSUME NEW w \in VPages PROVE h[PageAt(q, w)] = r.pgtbl[w].page
    <3>1. PageAt(q, w) \in Places /\ PageAt(q, w) # SwapperAt /\ Holding[PageAt(q, w)] = u.pgtbl[w].page
          /\ (PageAt(q, w) = place <=> w = v)
      BY PlacesAre, HoldingAt DEF u, place, PageAt, SwapperAt
    <3>2. CASE w = v
      BY <1>14, <1>15, <1>16, <3>1, <3>2 DEF SwappedTo
    <3>3. CASE w # v
      BY <1>14, <1>16, <3>1, <3>3 DEF SwappedTo
    <3>4. QED BY <3>2, <3>3
  <2>2. ASSUME NEW t \in Tables PROVE h[TableAt(q, t)] = r.tables[t]
    <3>1. TableAt(q, t) \in Places /\ Holding[TableAt(q, t)] = u.tables[t]
      BY PlacesAre, HoldingAt DEF u
    <3>2. TableAt(q, t) # place /\ TableAt(q, t) # SwapperAt
      BY DEF TableAt, place, PageAt, SwapperAt, Tables
    <3>3. QED BY <1>14, <1>16, <3>1, <3>2 DEF SwappedTo
  <2>3. ASSUME NEW i \in {1, 2} PROVE h[KernelAt(q, i)] = r.kernel[i]
    <3>1. KernelAt(q, i) \in Places /\ Holding[KernelAt(q, i)] = u.kernel[i]
      BY PlacesAre, HoldingAt DEF u
    <3>2. KernelAt(q, i) # place /\ KernelAt(q, i) # SwapperAt
      BY DEF KernelAt, place, PageAt, SwapperAt
    <3>3. QED BY <1>14, <1>16, <3>1, <3>2 DEF SwappedTo
  <2>4. h[ArgumentsAt(q)] = r.page /\ h[MapAt] = m'.swap_map /\ h[SwapperAt] = sw'.page
    <3>1. /\ ArgumentsAt(q) \in Places /\ MapAt \in Places /\ Holding[ArgumentsAt(q)] = u.page /\ Holding[MapAt] = m.swap_map
      BY PlacesAre, HoldingAt DEF u
    <3>2. ArgumentsAt(q) # place /\ MapAt # place /\ ArgumentsAt(q) # SwapperAt /\ MapAt # SwapperAt
      BY DEF ArgumentsAt, MapAt, place, PageAt, SwapperAt
    <3>3. m'.swap_map = m.swap_map /\ r.page = u.page
      BY <1>11, <1>16 DEF OnBlockNow, SwappedTo
    <3>4. QED BY <1>7, <1>14, <1>17, <3>1, <3>2, <3>3
  <2>5. \A o \in Places : o[2] \notin {0, q} => h[o] = Holding[o]
    <3>1. SwapperAt[2] = 0
      BY DEF SwapperAt
    <3>2. QED BY <1>7, <1>14, <3>1
  <2>6. QED BY <2>1, <2>2, <2>3, <2>4, <2>5 DEF HoldsNext
<1>19. BlocksNext(q, r, g)
  <2>1. BlockOf(r, v) = b /\ \A w \in VPages \ {v} : BlockOf(r, w) = BlockOf(u, w)
    BY <1>15, <1>16 DEF SwappedTo, BlockOf
  <2>2. g = [Blocks EXCEPT ![<<q, v>>] = BlockOf(r, v)]
    BY <1>10, <2>1 DEF s
  <2>3. QED BY <2>1, <2>2, BlockChanges DEF u
<1>20. Holding' = h /\ Blocks' = g
  BY <1>5, <1>7, <1>11, <1>13, <1>18, <1>19, HoldingBecomes, BlocksBecome
<1>21. Others(q)
  <2>1. ~Foreign(p, q)
    BY <1>6, <1>7, ForeignPage
  <2>2. ASSUME NEW o \in Pages, m.pg[o].count # 0
        PROVE  (Known(m, o) => Known(m', o)) /\ (Plain(m, o) => Plain(m', o))
    <3>1. CASE o = p
      BY <1>9, <1>11, <3>1 DEF OnBlockNow, Known, Plain, PAGE_DZ, PAGE_FILE, PAGE_SWAP
    <3>2. CASE o # p
      BY <1>11, <3>2 DEF OnBlockNow, Same, Known, Plain, PAGE_DZ, PAGE_FILE, PAGE_SWAP
    <3>3. QED BY <3>1, <3>2
  <2>3. ASSUME NEW o \in Pages, Foreign(o, q) PROVE m'.pg[o].key = m.pg[o].key /\ m'.pg[o].hashed = m.pg[o].hashed
    <3>1. ~m.pg[o].hashed /\ o # p
      BY <2>1, <2>3, ForeignPage
    <3>2. QED BY <1>11, <3>1 DEF OnBlockNow, Same
  <2>4. ASSUME NEW o \in Places, Foreign(h[o], q) PROVE Holding[o] = h[o]
    <3>1. h[o] # p /\ h[o] # 0
      BY <2>1, <2>4, ForeignPage, NotSwap
    <3>2. QED BY <1>14, <3>1
  <2>5. QED BY <1>20, <2>2, <2>3, <2>4 DEF Others
<1>22. /\ r \in Areas /\ Frame(r) /\ r.busyblock = u.busyblock /\ r.child = u.child /\ r.pc = u.pc /\ r.page = u.page
       /\ u.state = "alive"
  BY <1>6, <1>16 DEF SwappedTo, Scanned
<1>23. LoadsOK'
  <2>1. \A o \in Procs : u_area'[o].busyblock = u_area[o].busyblock
    BY <1>5, <1>7, <1>22 DEF Become, u
  <2>2. ASSUME NEW o \in Procs, NEW a \in Pages, u_area[o].busyblock # None, m'.pg[a].hashed
        PROVE  m'.pg[a].key # u_area[o].busyblock
    <3>1. CASE a = p
      BY <1>9, <1>11, <3>1, FreeNotBusy DEF OnBlockNow
    <3>2. CASE a # p
      <4>1. m.pg[a].hashed /\ m'.pg[a].key = m.pg[a].key
        BY <1>11, <2>2, <3>2 DEF OnBlockNow, Same
      <4>2. QED BY <2>2, <4>1 DEF MemInv, LoadsOK
    <3>3. QED BY <3>1, <3>2
  <2>3. \A o, a \in Procs : u_area[o].busyblock # None /\ u_area[o].busyblock = u_area[a].busyblock => o = a
    BY DEF MemInv, LoadsOK
  <2>4. QED BY <2>1, <2>2, <2>3 DEF LoadsOK
<1>24. ForksOK'
  BY <1>5, <1>22, ForksKept DEF u
<1>25. m' \in Memories /\ m'.free = m.free
  BY <1>11 DEF OnBlockNow
<1>26. Waiters(q, r)
  BY <1>5, <1>7, <1>17, <1>22, <1>25 DEF Waiters, u
<1>27. SwapperOK'
  BY <1>6, <1>17 DEF SwapperOK
<1>28. WaitOK(q)'
  <2>1. waits'[q] \in {waits[q], Nothing} /\ (waits'[q] = GetPage => Len(m'.free) <= Len(m.free)) /\ sw'.pc # "asleep"
    BY <1>5, <1>7, <1>17, <1>25
  <2>2. QED BY <1>5, <1>16, <1>25, <2>1, SwapOutWait DEF u
<1>29. LoadOK(q)'
  <2>1. \A w \in VPages \ {v} : h[PageAt(q, w)] = Holding[PageAt(q, w)]
    BY <1>14, PlacesAre DEF PageAt, place, SwapperAt
  <2>2. \A o \in Pages : o # p /\ ~m.pg[o].hashed => Same(m, m', o)
    BY <1>11 DEF OnBlockNow
  <2>3. \A o \in Places : h[o] = Holding[o] \/ h[o] = 0 \/ h[o] = p
    BY <1>14
  <2>4. QED BY <1>5, <1>13, <1>16, <1>20, <2>1, <2>2, <2>3, SwapOutLoad DEF u, p
<1>30. \A w \in VPages : r.pgtbl[w].present => u.pgtbl[w].present /\ u.pgtbl[w].page = r.pgtbl[w].page
  BY <1>15, <1>16 DEF SwappedTo
<1>31. Sound(m', Holding', Blocks') /\ binary' \in [Binaries -> BinaryFiles] /\ cpu' \in Procs \cup {0}
       /\ waits' \in [Procs -> Procs \cup {Nothing, GetPage}]
  BY <1>5, <1>8, <1>13, <1>20
<1>32. QED
  BY <1>5, <1>17, <1>21, <1>22, <1>23, <1>24, <1>26, <1>27, <1>28, <1>29, <1>30, <1>31, StepOK DEF u

(***************************************************************************)
(* fork(): the pages of the child, one after another.                      *)
(***************************************************************************)
\* What is in use stays so.
Grows(x, y) == \A p \in Pages : x.pg[p].count # 0 => Same(x, y, p) /\ y.pg[p].count # 0

\* Pages were taken since the call began, x and h are what is there now.
Chain(x, h) ==
    /\ Sound(x, h, Blocks) /\ h \in Uses /\ Grows(m, x) /\ Fewer(m, x) /\ x.swap_map = m.swap_map
    /\ \A place \in Places : \/ h[place] = Holding[place]
                             \/ h[place] \in Pages /\ m.pg[h[place]].count = 0
    /\ Len(x.free) \in Nat /\ Len(x.free) <= Len(m.free)

LEMMA ChainTakes ==
  ASSUME NEW x, NEW h, Chain(x, h), Len(m.free) \in Nat, NEW place \in Places, h[place] = 0, Len(x.free) >= 1
  PROVE  /\ Chain(get_page(x), [h EXCEPT ![place] = Head(x.free)]) /\ Head(x.free) \in Pages /\ Head(x.free) # 0
         /\ Len(get_page(x).free) = Len(x.free) - 1
<1>1. PICK p : p = Head(x.free)
  OBVIOUS
<1>2. PICK y : y = get_page(x)
  OBVIOUS
<1>3. PICK k : k = [h EXCEPT ![place] = p]
  OBVIOUS
<1>4. h \in Uses /\ Sound(x, h, Blocks) /\ Len(x.free) \in Nat /\ Len(x.free) > 0
  BY DEF Chain
<1>5. Sound(y, k, Blocks) /\ k \in Uses /\ FirstTaken(x, y, p)
  BY <1>1, <1>2, <1>3, <1>4, Takes
<1>6. /\ p \in Pages /\ x.pg[p].count = 0 /\ y.pg[p].count = 1 /\ y.pg[p].key = None /\ ~y.pg[p].hashed /\ SwapSame(x, y)
      /\ Len(y.free) = Len(x.free) - 1 /\ \A o \in Pages : o # p => Same(x, y, o) /\ y.pg[o].count = x.pg[o].count
  BY <1>5 DEF FirstTaken
<1>7. Grows(m, y) /\ Fewer(m, y) /\ m.pg[p].count = 0
  BY <1>6 DEF Chain, Grows, Fewer, Same
<1>8. \A o \in Places : k[o] = IF o = place THEN p ELSE h[o]
  BY <1>3, <1>4 DEF Uses
<1>9. \A o \in Places : k[o] = Holding[o] \/ (k[o] \in Pages /\ m.pg[k[o]].count = 0)
  BY <1>6, <1>7, <1>8 DEF Chain
<1>10. y.swap_map = m.swap_map
  BY <1>6 DEF Chain, SwapSame
<1>11. Len(y.free) \in Nat /\ Len(y.free) <= Len(m.free)
  BY <1>4, <1>6 DEF Chain
<1>12. Chain(y, k)
  BY <1>5, <1>7, <1>9, <1>10, <1>11 DEF Chain
<1>13. p # 0
  BY <1>6, NotSwap
<1>14. QED BY <1>1, <1>2, <1>3, <1>6, <1>12, <1>13

OneIf(needed) == IF needed THEN 1 ELSE 0
FirstIf(x, needed) == IF needed THEN Head(x.free) ELSE 0

LEMMA ChainIf ==
  ASSUME NEW x, NEW h, Chain(x, h), Len(m.free) \in Nat, NEW place \in Places, h[place] = 0, NEW needed \in BOOLEAN,
         Len(x.free) >= OneIf(needed)
  PROVE  /\ Chain(GetIf(x, needed), [h EXCEPT ![place] = FirstIf(x, needed)]) /\ FirstIf(x, needed) \in 0..NPages
         /\ Len(GetIf(x, needed).free) = Len(x.free) - OneIf(needed)
<1>1. Len(x.free) \in Nat /\ h \in Uses
  BY DEF Chain
<1>2. CASE needed
  <2>1. Len(x.free) >= 1 /\ GetIf(x, needed) = get_page(x) /\ FirstIf(x, needed) = Head(x.free) /\ OneIf(needed) = 1
    BY <1>2 DEF OneIf, GetIf, FirstIf
  <2>2. QED BY <2>1, ChainTakes, NotSwap
<1>3. CASE ~needed
  <2>1. GetIf(x, needed) = x /\ FirstIf(x, needed) = 0 /\ OneIf(needed) = 0
    BY <1>3 DEF OneIf, GetIf, FirstIf
  <2>2. [h EXCEPT ![place] = 0] = h
    BY <1>1 DEF Uses
  <2>3. QED BY <1>1, <2>1, <2>2, NotSwap
<1>4. QED BY <1>2, <1>3

\* The number of tables, one by one.
LEMMA TablesCounted ==
  ASSUME NEW q \in Procs
  PROVE  Cardinality(HasTable(q)) = OneIf("image" \in HasTable(q)) + OneIf("heap" \in HasTable(q)) + OneIf("stack" \in HasTable(q))
<1>1. PICK H : H = HasTable(q)
  OBVIOUS
<1>2. PICK A : A = IF "image" \in H THEN {"image"} ELSE {}
  OBVIOUS
<1>3. PICK B : B = IF "heap" \in H THEN A \cup {"heap"} ELSE A
  OBVIOUS
<1>4. PICK C : C = IF "stack" \in H THEN B \cup {"stack"} ELSE B
  OBVIOUS
<1>5. IsFiniteSet(A) /\ Cardinality(A) = OneIf("image" \in H)
  <2>1. IsFiniteSet({}) /\ Cardinality({}) = 0
    BY FS_EmptySet
  <2>2. IsFiniteSet({"image"}) /\ Cardinality({"image"}) = 1
    BY FS_Singleton
  <2>3. QED BY <1>2, <2>1, <2>2 DEF OneIf
<1>6. IsFiniteSet(B) /\ Cardinality(B) = OneIf("image" \in H) + OneIf("heap" \in H)
  <2>1. "heap" \notin A
    BY <1>2
  <2>2. /\ IsFiniteSet(A \cup {"heap"})
        /\ Cardinality(A \cup {"heap"}) = IF "heap" \in A THEN Cardinality(A) ELSE Cardinality(A) + 1
    BY <1>5, FS_AddElement
  <2>3. QED BY <1>3, <1>5, <2>1, <2>2 DEF OneIf
<1>7. IsFiniteSet(C) /\ Cardinality(C) = OneIf("image" \in H) + OneIf("heap" \in H) + OneIf("stack" \in H)
  <2>1. "stack" \notin B
    BY <1>2, <1>3
  <2>2. /\ IsFiniteSet(B \cup {"stack"})
        /\ Cardinality(B \cup {"stack"}) = IF "stack" \in B THEN Cardinality(B) ELSE Cardinality(B) + 1
    BY <1>6, FS_AddElement
  <2>3. QED BY <1>4, <1>6, <2>1, <2>2 DEF OneIf
<1>8. C = H
  <2>1. H \subseteq {"image", "heap", "stack"}
    BY <1>1 DEF HasTable, Tables
  <2>2. QED BY <1>2, <1>3, <1>4, <2>1
<1>9. QED BY <1>1, <1>7, <1>8

\* The places of a process hold what r says.
HoldsOf(o, r, h) ==
    /\ \A v \in VPages : h[PageAt(o, v)] = r.pgtbl[v].page
    /\ \A t \in Tables : h[TableAt(o, t)] = r.tables[t]
    /\ \A i \in {1, 2} : h[KernelAt(o, i)] = r.kernel[i]
    /\ h[ArgumentsAt(o)] = r.page

LEMMA HoldingAre ==
  ASSUME NEW h \in Uses, h[SwapperAt] = sw'.page, h[MapAt] = m'.swap_map,
         \A o \in Procs : HoldsOf(o, u_area'[o], h)
  PROVE  Holding' = h
<1>1. ASSUME NEW place \in Places PROVE Holds(place)' = h[place]
  <2>1. CASE place = SwapperAt \/ place = MapAt
    BY <2>1 DEF SwapperAt, MapAt, Holds
  <2>2. CASE place # SwapperAt /\ place # MapAt
    <3>1. PICK o \in Procs : o = place[2]
      BY <2>2, PlacesOf
    <3>2. /\ place[1] \notin {"swapper", "swap_map"}
          /\ \/ \E v \in VPages : place = PageAt(o, v)
             \/ \E t \in Tables : place = TableAt(o, t)
             \/ \E i \in {1, 2} : place = KernelAt(o, i)
             \/ place = ArgumentsAt(o)
      BY <2>2, <3>1, PlacesOf DEF PageAt, TableAt, KernelAt, ArgumentsAt, Tables
    <3>3. Holds(place)' = PageIn(u_area'[o], place[1], place[3])
      BY <3>1, <3>2 DEF Holds, PageIn
    <3>4. HoldsOf(o, u_area'[o], h)
      OBVIOUS
    <3>5. ASSUME NEW v \in VPages, place = PageAt(o, v) PROVE Holds(place)' = h[place]
      BY <3>3, <3>4, <3>5 DEF HoldsOf, PageAt, PageIn
    <3>6. ASSUME NEW t \in Tables, place = TableAt(o, t) PROVE Holds(place)' = h[place]
      BY <3>3, <3>4, <3>6 DEF HoldsOf, TableAt, PageIn, Tables
    <3>7. ASSUME NEW i \in {1, 2}, place = KernelAt(o, i) PROVE Holds(place)' = h[place]
      BY <3>3, <3>4, <3>7 DEF HoldsOf, KernelAt, PageIn, Tables
    <3>8. ASSUME place = ArgumentsAt(o) PROVE Holds(place)' = h[place]
      BY <3>3, <3>4, <3>8 DEF HoldsOf, ArgumentsAt, PageIn, Tables
    <3>9. QED BY <3>2, <3>5, <3>6, <3>7, <3>8
  <2>3. QED BY <2>1, <2>2
<1>2. Holding' = [place \in Places |-> Holds(place)']
  BY DEF Holding
<1>3. QED BY <1>1, <1>2 DEF Uses

LEMMA HoldsNow ==
  ASSUME NEW o \in Procs
  PROVE  HoldsOf(o, u_area[o], Holding)
BY HoldingAt DEF HoldsOf

\* The child's own pages.
ChildPlaces(c) == {place \in Places : place[2] = c /\ place[1] # "page"}

\* What the child has in its places: its kernel pages and its tables; and no others.
ChildHas(c, h, kernel, tables) ==
    /\ \A i \in {1, 2} : h[KernelAt(c, i)] = kernel[i]
    /\ \A t \in Tables : h[TableAt(c, t)] = tables[t]
    /\ h[ArgumentsAt(c)] = 0
    /\ \A place \in Places \ ChildPlaces(c) : h[place] = Holding[place]

KernelOf == <<Head(m.free), Head(get_page(m).free)>>
TablesOf(q) == [t \in Tables |-> IF t \in HasTable(q) THEN Head(BeforeTable(q, t).free) ELSE 0]

Childless(c) == /\ \A i \in {1, 2} : Holding[KernelAt(c, i)] = 0
                /\ \A t \in Tables : Holding[TableAt(c, t)] = 0
                /\ \A v \in VPages : Holding[PageAt(c, v)] = 0
                /\ Holding[ArgumentsAt(c)] = 0

LEMMA ChildPages ==
  ASSUME MemInv, NEW q \in Procs, NEW c \in Procs, Childless(c), Len(m.free) >= Requested(q)
  PROVE  \E h : /\ Chain(AfterTables(q), h) /\ ChildHas(c, h, KernelOf, TablesOf(q))
                /\ KernelOf[1] \in 1..NPages /\ KernelOf[2] \in 1..NPages /\ TablesOf(q) \in [Tables -> 0..NPages]
                /\ Len(AfterTables(q).free) < Len(m.free)
<1>1. /\ Holding \in Uses /\ Sound(m, Holding, Blocks) /\ Len(m.free) \in Nat
  BY Uses0
<1>2. PICK n1, n2, n3 : /\ n1 = OneIf("image" \in HasTable(q)) /\ n2 = OneIf("heap" \in HasTable(q)) /\ n3 = OneIf("stack" \in HasTable(q))
  OBVIOUS
<1>3. n1 \in {0, 1} /\ n2 \in {0, 1} /\ n3 \in {0, 1} /\ Len(m.free) >= 2 + n1 + n2 + n3
  <2>1. n1 \in {0, 1} /\ n2 \in {0, 1} /\ n3 \in {0, 1}
    BY <1>2 DEF OneIf
  <2>2. Cardinality(HasTable(q)) = n1 + n2 + n3
    BY <1>2, TablesCounted
  <2>3. QED BY <1>1, <2>1, <2>2 DEF Requested
<1>4. PICK k1, k2, t1, t2, t3 : /\ k1 = KernelAt(c, 1) /\ k2 = KernelAt(c, 2)
                               /\ t1 = TableAt(c, "image") /\ t2 = TableAt(c, "heap") /\ t3 = TableAt(c, "stack")
  OBVIOUS
<1>5. /\ k1 \in Places /\ k2 \in Places /\ t1 \in Places /\ t2 \in Places /\ t3 \in Places
      /\ k1 # k2 /\ k1 # t1 /\ k1 # t2 /\ k1 # t3 /\ k2 # t1 /\ k2 # t2 /\ k2 # t3 /\ t1 # t2 /\ t1 # t3 /\ t2 # t3
      /\ {k1, k2, t1, t2, t3} \subseteq ChildPlaces(c) /\ ArgumentsAt(c) \notin {k1, k2, t1, t2, t3}
      /\ Holding[k1] = 0 /\ Holding[k2] = 0 /\ Holding[t1] = 0 /\ Holding[t2] = 0 /\ Holding[t3] = 0
  <2>1. 1 \in {1, 2} /\ 2 \in {1, 2} /\ "image" \in Tables /\ "heap" \in Tables /\ "stack" \in Tables
    BY DEF Tables
  <2>2. /\ k1 \in Places /\ k2 \in Places /\ t1 \in Places /\ t2 \in Places /\ t3 \in Places
        /\ Holding[k1] = 0 /\ Holding[k2] = 0 /\ Holding[t1] = 0 /\ Holding[t2] = 0 /\ Holding[t3] = 0
    BY <1>4, <2>1, PlacesAre DEF Childless
  <2>3. /\ k1 # k2 /\ k1 # t1 /\ k1 # t2 /\ k1 # t3 /\ k2 # t1 /\ k2 # t2 /\ k2 # t3 /\ t1 # t2 /\ t1 # t3 /\ t2 # t3
    BY <1>4 DEF KernelAt, TableAt
  <2>4. {k1, k2, t1, t2, t3} \subseteq ChildPlaces(c) /\ ArgumentsAt(c) \notin {k1, k2, t1, t2, t3}
    BY <1>4, <2>2 DEF KernelAt, TableAt, ChildPlaces, ArgumentsAt
  <2>5. QED BY <2>2, <2>3, <2>4
<1>6. PICK x1, x2 : x1 = get_page(m) /\ x2 = get_page(x1)
  OBVIOUS
<1>7. PICK p1, p2 : p1 = Head(m.free) /\ p2 = Head(x1.free)
  OBVIOUS
<1>8. PICK b1, b2, b3 : b1 = ("image" \in HasTable(q)) /\ b2 = ("heap" \in HasTable(q)) /\ b3 = ("stack" \in HasTable(q))
  OBVIOUS
<1>9. PICK x3 : x3 = GetIf(x2, b1)
  OBVIOUS
<1>10. PICK x4 : x4 = GetIf(x3, b2)
  OBVIOUS
<1>11. PICK x5 : x5 = GetIf(x4, b3)
  OBVIOUS
<1>12. /\ BeforeTable(q, "image") = x2 /\ BeforeTable(q, "heap") = x3 /\ BeforeTable(q, "stack") = x4 /\ AfterTables(q) = x5
       /\ b1 \in BOOLEAN /\ b2 \in BOOLEAN /\ b3 \in BOOLEAN /\ n1 = OneIf(b1) /\ n2 = OneIf(b2) /\ n3 = OneIf(b3)
  <2>1. BeforeTable(q, "image") = x2 /\ BeforeTable(q, "heap") = x3 /\ BeforeTable(q, "stack") = x4
    BY <1>6, <1>8, <1>9, <1>10 DEF BeforeTable
  <2>2. QED BY <1>2, <1>8, <1>11, <2>1 DEF AfterTables
<1>13. PICK h1 : h1 = [Holding EXCEPT ![k1] = p1]
  OBVIOUS
<1>14. PICK h2 : h2 = [h1 EXCEPT ![k2] = p2]
  OBVIOUS
<1>15. PICK h3 : h3 = [h2 EXCEPT ![t1] = FirstIf(x2, b1)]
  OBVIOUS
<1>16. PICK h4 : h4 = [h3 EXCEPT ![t2] = FirstIf(x3, b2)]
  OBVIOUS
<1>17. PICK h5 : h5 = [h4 EXCEPT ![t3] = FirstIf(x4, b3)]
  OBVIOUS
<1>18. Chain(m, Holding)
  <2>1. \A o \in Pages : Same(m, m, o)
    BY DEF Same
  <2>2. QED BY <1>1, <2>1 DEF Chain, Grows, Fewer
<1>19. Chain(x1, h1) /\ p1 \in Pages /\ p1 # 0 /\ Len(x1.free) = Len(m.free) - 1
  <2>1. Len(m.free) >= 1
    BY <1>1, <1>3
  <2>2. QED BY <1>1, <1>5, <1>6, <1>7, <1>13, <1>18, <2>1, ChainTakes
<1>20. Chain(x2, h2) /\ p2 \in Pages /\ p2 # 0 /\ Len(x2.free) = Len(m.free) - 2 /\ h1[k2] = 0
  <2>1. Len(x1.free) >= 1
    BY <1>1, <1>3, <1>19
  <2>2. h1[k2] = 0
    BY <1>1, <1>5, <1>13 DEF Uses
  <2>3. Chain(x2, h2) /\ p2 \in Pages /\ p2 # 0 /\ Len(x2.free) = Len(x1.free) - 1
    BY <1>1, <1>5, <1>6, <1>7, <1>14, <1>19, <2>1, <2>2, ChainTakes
  <2>4. QED BY <1>1, <1>19, <2>2, <2>3
<1>21. \A o \in Places : h2[o] = IF o = k1 THEN p1 ELSE IF o = k2 THEN p2 ELSE Holding[o]
  <2>1. h1 \in Uses
    BY <1>19 DEF Chain
  <2>2. QED BY <1>1, <1>5, <1>13, <1>14, <2>1 DEF Uses
<1>22. Chain(x3, h3) /\ FirstIf(x2, b1) \in 0..NPages /\ Len(x3.free) = Len(m.free) - 2 - n1
  <2>1. Len(x2.free) >= OneIf(b1)
    BY <1>1, <1>3, <1>12, <1>20
  <2>2. h2[t1] = 0
    BY <1>5, <1>21
  <2>3. Chain(x3, h3) /\ FirstIf(x2, b1) \in 0..NPages /\ Len(x3.free) = Len(x2.free) - OneIf(b1)
    <3>1. Chain(x2, h2) /\ t1 \in Places /\ b1 \in BOOLEAN /\ Len(m.free) \in Nat
      BY <1>1, <1>5, <1>9, <1>12, <1>15, <1>20
    <3>2. /\ Chain(GetIf(x2, b1), [h2 EXCEPT ![t1] = FirstIf(x2, b1)]) /\ FirstIf(x2, b1) \in 0..NPages
          /\ Len(GetIf(x2, b1).free) = Len(x2.free) - OneIf(b1)
      BY <2>1, <2>2, <3>1, ChainIf
    <3>3. QED BY <1>1, <1>5, <1>9, <1>12, <1>15, <1>20, <3>2
  <2>4. QED BY <1>12, <1>20, <2>3
<1>23. \A o \in Places : h3[o] = IF o = t1 THEN FirstIf(x2, b1) ELSE h2[o]
  <2>1. h2 \in Uses
    BY <1>20 DEF Chain
  <2>2. QED BY <1>5, <1>15, <2>1 DEF Uses
<1>24. Chain(x4, h4) /\ FirstIf(x3, b2) \in 0..NPages /\ Len(x4.free) = Len(m.free) - 2 - n1 - n2
  <2>1. Len(x3.free) >= OneIf(b2)
    BY <1>1, <1>3, <1>12, <1>22
  <2>2. h3[t2] = 0
    BY <1>5, <1>21, <1>23
  <2>3. Chain(x4, h4) /\ FirstIf(x3, b2) \in 0..NPages /\ Len(x4.free) = Len(x3.free) - OneIf(b2)
    <3>1. Chain(x3, h3) /\ t2 \in Places /\ b2 \in BOOLEAN /\ Len(m.free) \in Nat
      BY <1>1, <1>5, <1>10, <1>12, <1>16, <1>22
    <3>2. /\ Chain(GetIf(x3, b2), [h3 EXCEPT ![t2] = FirstIf(x3, b2)]) /\ FirstIf(x3, b2) \in 0..NPages
          /\ Len(GetIf(x3, b2).free) = Len(x3.free) - OneIf(b2)
      BY <2>1, <2>2, <3>1, ChainIf
    <3>3. QED BY <1>1, <1>5, <1>10, <1>12, <1>16, <1>22, <3>2
  <2>4. QED BY <1>12, <1>22, <2>3
<1>25. \A o \in Places : h4[o] = IF o = t2 THEN FirstIf(x3, b2) ELSE h3[o]
  <2>1. h3 \in Uses
    BY <1>22 DEF Chain
  <2>2. QED BY <1>5, <1>16, <2>1 DEF Uses
<1>26. Chain(x5, h5) /\ FirstIf(x4, b3) \in 0..NPages /\ Len(x5.free) = Len(m.free) - 2 - n1 - n2 - n3
  <2>1. Len(x4.free) >= OneIf(b3)
    BY <1>1, <1>3, <1>12, <1>24
  <2>2. h4[t3] = 0
    BY <1>5, <1>21, <1>23, <1>25
  <2>3. Chain(x5, h5) /\ FirstIf(x4, b3) \in 0..NPages /\ Len(x5.free) = Len(x4.free) - OneIf(b3)
    <3>1. Chain(x4, h4) /\ t3 \in Places /\ b3 \in BOOLEAN /\ Len(m.free) \in Nat
      BY <1>1, <1>5, <1>11, <1>12, <1>17, <1>24
    <3>2. /\ Chain(GetIf(x4, b3), [h4 EXCEPT ![t3] = FirstIf(x4, b3)]) /\ FirstIf(x4, b3) \in 0..NPages
          /\ Len(GetIf(x4, b3).free) = Len(x4.free) - OneIf(b3)
      BY <2>1, <2>2, <3>1, ChainIf
    <3>3. QED BY <1>1, <1>5, <1>11, <1>12, <1>17, <1>24, <3>2
  <2>4. QED BY <1>12, <1>24, <2>3
<1>27. \A o \in Places : h5[o] = IF o = t3 THEN FirstIf(x4, b3) ELSE h4[o]
  <2>1. h4 \in Uses
    BY <1>24 DEF Chain
  <2>2. QED BY <1>5, <1>17, <2>1 DEF Uses
<1>28. /\ h5[k1] = p1 /\ h5[k2] = p2 /\ h5[t1] = FirstIf(x2, b1) /\ h5[t2] = FirstIf(x3, b2) /\ h5[t3] = FirstIf(x4, b3)
       /\ \A o \in Places \ {k1, k2, t1, t2, t3} : h5[o] = Holding[o]
  BY <1>5, <1>21, <1>23, <1>25, <1>27
<1>29. /\ TablesOf(q) = [t \in Tables |-> IF t = "image" THEN FirstIf(x2, b1) ELSE IF t = "heap" THEN FirstIf(x3, b2) ELSE FirstIf(x4, b3)]
       /\ KernelOf = <<p1, p2>>
  <2>1. ASSUME NEW t \in Tables
        PROVE  (IF t \in HasTable(q) THEN Head(BeforeTable(q, t).free) ELSE 0) =
               (IF t = "image" THEN FirstIf(x2, b1) ELSE IF t = "heap" THEN FirstIf(x3, b2) ELSE FirstIf(x4, b3))
    BY <1>8, <1>12 DEF FirstIf, Tables
  <2>2. QED BY <1>6, <1>7, <2>1 DEF TablesOf, KernelOf
<1>30. ChildHas(c, h5, KernelOf, TablesOf(q))
  <2>1. \A i \in {1, 2} : h5[KernelAt(c, i)] = KernelOf[i]
    BY <1>4, <1>28, <1>29
  <2>2. \A t \in Tables : h5[TableAt(c, t)] = TablesOf(q)[t]
    BY <1>4, <1>28, <1>29 DEF Tables
  <2>3. h5[ArgumentsAt(c)] = 0
    BY <1>5, <1>28, PlacesAre DEF Childless
  <2>4. QED BY <1>5, <1>28, <2>1, <2>2, <2>3 DEF ChildHas
<1>31. TablesOf(q) \in [Tables -> 0..NPages] /\ KernelOf[1] \in 1..NPages /\ KernelOf[2] \in 1..NPages
  BY <1>19, <1>20, <1>22, <1>24, <1>26, <1>29 DEF Pages
<1>32. Len(x5.free) < Len(m.free)
  BY <1>1, <1>3, <1>26
<1>33. QED BY <1>12, <1>26, <1>30, <1>31, <1>32

\* Both may only read what they share.
SameButRead(e, d) == /\ d \in Entries /\ d.page = e.page /\ d.present = e.present /\ d.busy = e.busy
                     /\ d.type = e.type /\ d.key = e.key

LEMMA ReadOnlyIs ==
  ASSUME NEW pgtbl \in [VPages -> Entries]
  PROVE  /\ ReadOnly(pgtbl) \in [VPages -> Entries] /\ \A v \in VPages : SameButRead(pgtbl[v], ReadOnly(pgtbl)[v])
<1>1. ASSUME NEW v \in VPages PROVE SameButRead(pgtbl[v], [pgtbl[v] EXCEPT !.rw = FALSE])
  <2>1. PICK e : e = pgtbl[v]
    OBVIOUS
  <2>2. e \in Entries
    BY <2>1
  <2>3. PICK d : d = [e EXCEPT !.rw = FALSE]
    OBVIOUS
  <2>4. SameButRead(e, d)
    BY <2>2, <2>3 DEF SameButRead, Entries
  <2>5. QED BY <2>1, <2>3, <2>4
<1>2. ReadOnly(pgtbl) = [v \in VPages |-> [pgtbl[v] EXCEPT !.rw = FALSE]]
  BY DEF ReadOnly
<1>3. QED BY <1>1, <1>2 DEF SameButRead

\* The parent, and the child, when fork() is done.
Halves(u, r) ==
    /\ r \in Areas /\ r.state = "alive" /\ r.pc = "user" /\ r.child = 0 /\ r.pgtbl = ReadOnly(u.pgtbl)
    /\ r.page = 0 /\ r.busyblock = None /\ r.kernel[1] # 0 /\ r.kernel[2] # 0

Forking(u) == u \in Areas /\ Frame(u) /\ u.state = "alive" /\ u.pc = "fork"

LEMMA ParentIs ==
  ASSUME NEW u, Forking(u), NEW r, r = [u EXCEPT !.pc = "user", !.child = 0, !.pgtbl = ReadOnly(u.pgtbl)]
  PROVE  Halves(u, r) /\ r.tables = u.tables /\ r.kernel = u.kernel
<1>1. PICK pgtbl : pgtbl = ReadOnly(u.pgtbl)
  OBVIOUS
<1>2. pgtbl \in [VPages -> Entries]
  BY <1>1, ReadOnlyIs DEF Forking, Areas
<1>3. r = [u EXCEPT !.pc = "user", !.child = 0, !.pgtbl = pgtbl]
  BY <1>1
<1>4. u.kernel[1] # 0 /\ u.kernel[2] # 0 /\ u.page = 0 /\ u.busyblock = None
  BY DEF Forking, Frame
<1>a. u \in Areas
  BY DEF Forking
<1>5. r \in Areas
  BY ONLY <1>a, <1>2, <1>3 DEF Areas
<1>6. /\ r.pgtbl = pgtbl /\ r.pc = "user" /\ r.child = 0 /\ r.page = u.page /\ r.busyblock = u.busyblock
      /\ r.state = u.state /\ r.kernel = u.kernel /\ r.tables = u.tables
  BY ONLY <1>a, <1>3 DEF Areas
<1>7. QED BY <1>1, <1>4, <1>5, <1>6 DEF Halves, Forking

ChildOf(u, pid, kernel, tables) ==
    [u EXCEPT !.pid = pid, !.kernel = kernel, !.tables = tables, !.pgtbl = ReadOnly(u.pgtbl), !.pc = "user", !.child = 0]

LEMMA ChildIs ==
  ASSUME NEW u, Forking(u), NEW pid \in Int, NEW kernel \in [{1, 2} -> 0..NPages], kernel[1] # 0, kernel[2] # 0,
         NEW tables \in [Tables -> 0..NPages], NEW w,
         w = ChildOf(u, pid, kernel, tables)
  PROVE  Halves(u, w) /\ w.tables = tables /\ w.kernel = kernel
<1>1. PICK pgtbl : pgtbl = ReadOnly(u.pgtbl)
  OBVIOUS
<1>2. pgtbl \in [VPages -> Entries]
  BY <1>1, ReadOnlyIs DEF Forking, Areas
<1>3. w = [u EXCEPT !.pid = pid, !.kernel = kernel, !.tables = tables, !.pgtbl = pgtbl, !.pc = "user", !.child = 0]
  BY <1>1 DEF ChildOf
<1>4. u.page = 0 /\ u.busyblock = None
  BY DEF Forking, Frame
<1>a. u \in Areas /\ pid \in Int /\ kernel \in [{1, 2} -> 0..NPages] /\ tables \in [Tables -> 0..NPages]
  BY DEF Forking
<1>b. PICK a : a = [u EXCEPT !.pid = pid, !.kernel = kernel, !.tables = tables]
  OBVIOUS
<1>c. a \in Areas /\ a.kernel = kernel /\ a.tables = tables /\ a.page = u.page /\ a.busyblock = u.busyblock /\ a.state = u.state
  BY ONLY <1>a, <1>b DEF Areas
<1>d. w = [a EXCEPT !.pgtbl = pgtbl, !.pc = "user", !.child = 0]
  BY ONLY <1>3, <1>b
<1>5. w \in Areas
  BY ONLY <1>c, <1>d, <1>2 DEF Areas
<1>6. /\ w.pgtbl = pgtbl /\ w.pc = "user" /\ w.child = 0 /\ w.page = u.page /\ w.busyblock = u.busyblock
      /\ w.state = u.state /\ w.kernel = kernel /\ w.tables = tables
  BY ONLY <1>c, <1>d DEF Areas
<1>7. QED BY <1>1, <1>4, <1>5, <1>6 DEF Halves, Forking

LEMMA HalvesFrame ==
  ASSUME NEW u, Forking(u), NEW r, Halves(u, r)
  PROVE  /\ Frame(r) /\ \A v \in VPages : BlockOf(r, v) = BlockOf(u, v) /\ r.pgtbl[v].page = u.pgtbl[v].page
         /\ \A v \in VPages : r.pgtbl[v].present => u.pgtbl[v].present
<1>1. u.pgtbl \in [VPages -> Entries]
  BY DEF Forking, Areas
<1>2. \A v \in VPages : SameButRead(u.pgtbl[v], r.pgtbl[v])
  BY <1>1, ReadOnlyIs DEF Halves
<1>3. \A v \in VPages : EntryOK(r.pgtbl[v])
  BY <1>2 DEF Forking, Frame, EntryOK, SameButRead
<1>4. Frame(r)
  BY <1>3 DEF Halves, Frame
<1>5. \A v \in VPages : BlockOf(r, v) = BlockOf(u, v) /\ r.pgtbl[v].page = u.pgtbl[v].page /\ (r.pgtbl[v].present => u.pgtbl[v].present)
  BY <1>2 DEF Forking, Halves, BlockOf, SameButRead
<1>6. QED BY <1>4, <1>5

LEMMA PidIs ==
  ASSUME MemInv
  PROVE  Max({u_area[o].pid : o \in Procs}) + 1 \in Int
<1>1. PICK S : S = {u_area[o].pid : o \in Procs}
  OBVIOUS
<1>2. S \in SUBSET Int
  BY <1>1 DEF MemInv, TypeOK, Areas
<1>3. 1 \in Procs /\ IsFiniteSet(Procs)
  BY MemoryAssumption
<1>4. S # {} /\ IsFiniteSet(S)
  <2>1. u_area[1].pid \in S
    BY <1>1, <1>3
  <2>2. PICK f : f = [o \in Procs |-> u_area[o].pid]
    OBVIOUS
  <2>3. f \in Surjection(Procs, S)
    BY <1>1, <2>2 DEF Surjection
  <2>4. IsFiniteSet(S)
    BY <1>3, <2>3, FS_Surjection
  <2>5. QED BY <2>1, <2>4
<1>5. Max(S) \in S
  BY <1>2, <1>4, HighestOf
<1>6. QED BY <1>1, <1>2, <1>5

LEMMA PairIs ==
  ASSUME NEW a \in 0..NPages, NEW b \in 0..NPages
  PROVE  <<a, b>> \in [{1, 2} -> 0..NPages]
<1>1. <<a, b>> \in Seq(0..NPages) /\ Len(<<a, b>>) = 2
  OBVIOUS
<1>2. <<a, b>> \in [1..2 -> 0..NPages]
  BY <1>1
<1>3. 1..2 = {1, 2}
  OBVIOUS
<1>4. QED BY <1>2, <1>3

\* The slot of the child while its parent sleeps.
LEMMA ChildSlot ==
  ASSUME MemInv, NEW q \in Procs, u_area[q].state = "alive", u_area[q].pc = "fork"
  PROVE  LET c == u_area[q].child
         IN  /\ c \in Procs /\ c # q /\ u_area[c].state = "unused" /\ u_area[c].busyblock = None /\ u_area[c].child = 0
             /\ waits[c] = Nothing /\ Childless(c) /\ \A v \in VPages : Blocks[<<c, v>>] = None
             /\ \A o \in Procs : u_area[o].child = c => o = q
<1> DEFINE c == u_area[q].child
<1>1. u_area[q] \in Areas /\ Frame(u_area[q]) /\ ForksOK
  BY DEF MemInv, TypeOK, ProcOK
<1>2. c \in Procs /\ u_area[c].state = "unused" /\ c # q /\ \A o \in Procs : u_area[o].child = c => o = q
  BY <1>1 DEF Areas, Frame, ForksOK
<1> HIDE DEF c
<1>3. u_area[c] \in Areas /\ Frame(u_area[c]) /\ WaitOK(c)
  BY <1>2 DEF MemInv, TypeOK, ProcOK
<1>4. /\ u_area[c].pc = "user" /\ NoMemory(u_area[c]) /\ u_area[c].kernel = <<0, 0>> /\ u_area[c].page = 0
      /\ u_area[c].child = 0 /\ u_area[c].busyblock = None
  BY <1>2, <1>3 DEF Frame
<1>5. waits[c] = Nothing
  BY <1>2, <1>3 DEF WaitOK
<1>6. Childless(c) /\ \A v \in VPages : Blocks[<<c, v>>] = None
  <2>1. /\ \A v \in VPages : Holding[PageAt(c, v)] = u_area[c].pgtbl[v].page /\ Blocks[<<c, v>>] = BlockOf(u_area[c], v)
        /\ \A t \in Tables : Holding[TableAt(c, t)] = u_area[c].tables[t]
        /\ \A i \in {1, 2} : Holding[KernelAt(c, i)] = u_area[c].kernel[i]
        /\ Holding[ArgumentsAt(c)] = u_area[c].page
    BY <1>2, HoldingAt
  <2>2. \A v \in VPages : u_area[c].pgtbl[v] = Empty
    BY <1>4 DEF NoMemory
  <2>3. \A v \in VPages : BlockOf(u_area[c], v) = None /\ u_area[c].pgtbl[v].page = 0
    BY <2>2, EmptyIs DEF EmptyEntry, BlockOf
  <2>4. \A i \in {1, 2} : u_area[c].kernel[i] = 0
    BY <1>4
  <2>5. \A t \in Tables : u_area[c].tables[t] = 0
    BY <1>4 DEF NoMemory
  <2>6. QED BY <1>4, <2>1, <2>3, <2>4, <2>5 DEF Childless
<1>7. QED BY <1>2, <1>4, <1>5, <1>6 DEF c

\* What the step of a fork leaves to everybody.
LEMMA ForkStep ==
  ASSUME MemInv, NEW q \in Procs, NEW c \in Procs, c # q, NEW r, NEW w,
         Forking(u_area[q]), Halves(u_area[q], r), Halves(u_area[q], w),
         u_area'[q] = r, u_area'[c] = w, u_area' \in [Procs -> Areas],
         \A o \in Procs \ {q, c} : u_area'[o] = u_area[o],
         Sound(m', Holding', Blocks'), Changed(q), Kept(m, m'), Fewer(m, m'), Len(m'.free) <= Len(m.free),
         sw' \in {sw, SwapperOn}, waits' = waits, binary' = binary, cpu' = 0, waits[q] = Nothing, waits[c] = Nothing,
         u_area[c].busyblock = None, u_area[c].state = "unused", \A o \in Procs : u_area[o].child = c => o = q
  PROVE  MemInv'
<1>1. /\ u_area \in [Procs -> Areas] /\ LoadsOK /\ ForksOK /\ (\A o \in Procs : ProcOK(o) /\ WaitOK(o))
      /\ waits \in [Procs -> Procs \cup {Nothing, GetPage}] /\ binary \in [Binaries -> BinaryFiles]
  BY DEF MemInv, TypeOK
<1>2. SwapperKept /\ SwapperOK'
  BY SwapperGoesOn
<1>3. m' \in Memories
  BY DEF Sound
<1>4. TypeOK'
  BY <1>1, <1>2, <1>3 DEF TypeOK, SwapperKept
<1>5. Others(q)
  BY OthersKept
<1>6. /\ Frame(r) /\ Frame(w) /\ r.pc = "user" /\ w.pc = "user" /\ r.page = 0 /\ w.page = 0 /\ r.child = 0 /\ w.child = 0
      /\ r.busyblock = None /\ w.busyblock = None
      /\ \A v \in VPages : /\ r.pgtbl[v].page = u_area[q].pgtbl[v].page /\ (r.pgtbl[v].present => u_area[q].pgtbl[v].present)
                           /\ w.pgtbl[v].page = u_area[q].pgtbl[v].page /\ (w.pgtbl[v].present => u_area[q].pgtbl[v].present)
  BY HalvesFrame DEF Halves
<1>7. ASSUME NEW v \in VPages, u_area[q].pgtbl[v].present PROVE Known(m', u_area[q].pgtbl[v].page)
  <2>1. Holding[PageAt(q, v)] = u_area[q].pgtbl[v].page /\ PageAt(q, v) \in Places
    BY HoldingAt, PlacesAre
  <2>2. u_area[q].pgtbl[v].page # 0 /\ Known(m, u_area[q].pgtbl[v].page)
    BY <1>1, <1>7 DEF ProcOK, Frame, EntryOK
  <2>3. u_area[q].pgtbl[v].page \in Pages /\ m.pg[u_area[q].pgtbl[v].page].count # 0
    BY <2>1, <2>2, Counted
  <2>4. QED BY <1>5, <2>2, <2>3 DEF Others
<1>8. ASSUME NEW o \in {q, c}, NEW x, u_area'[o] = x, Frame(x), x.pc = "user", x.page = 0,
             \A v \in VPages : x.pgtbl[v].page = u_area[q].pgtbl[v].page /\ (x.pgtbl[v].present => u_area[q].pgtbl[v].present)
      PROVE  ProcOK(o)'
  <2>1. Frame(u_area[o])'
    BY <1>8 DEF Frame, EntryOK, NoMemory
  <2>2. \A v \in VPages : u_area'[o].pgtbl[v].present => Known(m', u_area'[o].pgtbl[v].page)
    BY <1>7, <1>8
  <2>3. LoadOK(o)'
    BY <1>8 DEF LoadOK
  <2>4. QED BY <1>8, <2>1, <2>2, <2>3 DEF ProcOK, Known
<1>9. \A o \in Procs : ProcOK(o)'
  <2>1. ProcOK(q)'
    BY <1>6, <1>8
  <2>2. ProcOK(c)'
    BY <1>6, <1>8
  <2>3. ASSUME NEW o \in Procs \ {q, c} PROVE ProcOK(o)'
    BY <1>5, <2>3, OthersOK
  <2>4. QED BY <2>1, <2>2, <2>3
<1>10. \A o \in Procs : u_area'[o].busyblock = u_area[o].busyblock
  <2>1. u_area[q].busyblock = None
    BY DEF Forking, Frame
  <2>2. QED BY <1>6, <2>1
<1>11. LoadsOK'
  BY <1>1, <1>10 DEF LoadsOK, Fewer
<1>12. ForksOK'
  <2>1. ASSUME NEW o \in Procs, u_area'[o].pc = "fork"
        PROVE  u_area'[u_area'[o].child].state = "unused" /\ \A s \in Procs : u_area'[s].child = u_area'[o].child => s = o
    <3>1. o \notin {q, c}
      BY <1>6, <2>1
    <3>2. u_area'[o] = u_area[o]
      BY <3>1
    <3>3. u_area[o].child # 0 /\ u_area[o].child \in Procs \cup {0}
      <4>1. Frame(u_area[o]) /\ u_area[o] \in Areas
        BY <1>1 DEF ProcOK
      <4>2. QED BY <2>1, <3>2, <4>1 DEF Frame, Areas
    <3>4. u_area[u_area[o].child].state = "unused" /\ \A s \in Procs : u_area[s].child = u_area[o].child => s = o
      BY <1>1, <2>1, <3>2 DEF ForksOK
    <3>5. u_area[o].child # c /\ u_area[o].child # q
      BY <3>1, <3>4 DEF Forking
    <3>6. \A s \in Procs : u_area'[s].child = u_area[o].child => s = o
      BY <1>6, <3>3, <3>4
    <3>7. QED BY <3>2, <3>3, <3>4, <3>5, <3>6
  <2>2. QED BY <2>1 DEF ForksOK
<1>13. ASSUME NEW o \in Procs PROVE WaitOK(o)'
  <2>1. Nothing # GetPage /\ Nothing \notin Procs /\ GetPage \notin Procs
    BY MemoryAssumption DEF Nothing, GetPage
  <2>2. CASE o \in {q, c}
    <3>1. waits'[o] = Nothing
      BY <2>2
    <3>2. QED BY <3>1, NothingWaits
  <2>3. CASE o \notin {q, c}
    <3>1. u_area'[o] = u_area[o] /\ waits'[o] = waits[o] /\ WaitOK(o)
      BY <1>1, <2>3
    <3>2. Needs(o)' = Needs(o)
      BY <3>1 DEF Needs, Requested, HasTable
    <3>3. ASSUME waits[o] = GetPage PROVE Len(m'.free) < Needs(o) /\ sw'.pc # "asleep" /\ u_area[o].pc \in Reserving
      <4>1. u_area[o].pc \in Reserving /\ Len(m.free) < Needs(o) /\ sw.pc # "asleep"
        BY <3>1, <3>3 DEF WaitOK, free_pages
      <4>2. Len(m'.free) \in Nat /\ Len(m.free) \in Nat /\ Needs(o) \in Nat
        BY <1>3, Uses0, Requests0 DEF Memories
      <4>3. QED BY <1>2, <4>1, <4>2 DEF SwapperKept
    <3>4. waits[o] \in Procs => u_area'[waits[o]].busyblock = u_area[waits[o]].busyblock
      BY <1>10
    <3>5. QED BY <2>1, <3>1, <3>2, <3>3, <3>4 DEF WaitOK, free_pages
  <2>4. QED BY <2>2, <2>3
<1>14. QED BY <1>2, <1>4, <1>9, <1>11, <1>12, <1>13 DEF MemInv

\* The child has pages of its own, and shares those of its parent.
LEMMA ForkPages ==
  ASSUME MemInv, NEW q \in Procs, NEW c \in Procs, c # q, NEW r, NEW w,
         Forking(u_area[q]), Halves(u_area[q], r), Halves(u_area[q], w), r.tables = u_area[q].tables, r.kernel = u_area[q].kernel,
         u_area'[q] = r, u_area'[c] = w, \A o \in Procs \ {q, c} : u_area'[o] = u_area[o],
         NEW x, NEW h, Chain(x, h), ChildHas(c, h, w.kernel, w.tables),
         Childless(c), \A v \in VPages : Blocks[<<c, v>>] = None,
         m' = AllShared(x, u_area[q].pgtbl), sw' \in {sw, SwapperOn}
  PROVE  Sound(m', Holding', Blocks') /\ Changed(q) /\ Kept(m, m') /\ Fewer(m, m') /\ Len(m'.free) <= Len(x.free)
<1> DEFINE u == u_area[q]
<1>1. /\ h \in Uses /\ Sound(x, h, Blocks) /\ Blocks \in BlockUses /\ Holding \in Uses
      /\ u \in Areas /\ Frame(u) /\ u.pc = "fork" /\ u.page = 0
  BY Uses0 DEF Chain, Forking, Frame
<1>2. /\ \A i \in {1, 2} : h[KernelAt(c, i)] = w.kernel[i]
      /\ \A t \in Tables : h[TableAt(c, t)] = w.tables[t]
      /\ h[ArgumentsAt(c)] = 0
      /\ \A place \in Places \ ChildPlaces(c) : h[place] = Holding[place]
  BY DEF ChildHas
<1>3. \A v \in VPages : /\ PageAt(q, v) \in Places \ ChildPlaces(c) /\ PageAt(c, v) \in Places \ ChildPlaces(c)
                        /\ Holding[PageAt(q, v)] = u.pgtbl[v].page /\ Blocks[<<q, v>>] = BlockOf(u, v)
                        /\ Holding[PageAt(c, v)] = 0
  <2>1. \A v \in VPages : PageAt(q, v) \in Places /\ PageAt(c, v) \in Places
    BY PlacesAre
  <2>2. \A v \in VPages : PageAt(q, v) \notin ChildPlaces(c) /\ PageAt(c, v) \notin ChildPlaces(c)
    BY DEF PageAt, ChildPlaces
  <2>3. \A v \in VPages : Holding[PageAt(q, v)] = u.pgtbl[v].page /\ Blocks[<<q, v>>] = BlockOf(u, v)
    BY HoldingAt
  <2>4. \A v \in VPages : Holding[PageAt(c, v)] = 0
    BY DEF Childless
  <2>5. QED BY <2>1, <2>2, <2>3, <2>4
<1>4. \A v \in VPages : /\ EntryOK(u.pgtbl[v]) /\ EntryAt(u.pgtbl[v], h, Blocks, PageAt(q, v), <<q, v>>)
                        /\ h[PageAt(c, v)] = 0 /\ Blocks[<<c, v>>] = None
  <2>1. \A v \in VPages : EntryOK(u.pgtbl[v])
    BY <1>1 DEF Frame
  <2>2. \A v \in VPages : BlockOf(u, v) = IF ~u.pgtbl[v].present /\ u.pgtbl[v].type = PAGE_SWAP THEN u.pgtbl[v].key ELSE None
    BY <1>1 DEF BlockOf
  <2>3. \A v \in VPages : h[PageAt(q, v)] = u.pgtbl[v].page /\ h[PageAt(c, v)] = 0
    BY <1>2, <1>3
  <2>4. QED BY <1>3, <2>1, <2>2, <2>3 DEF EntryAt
<1> HIDE DEF u
<1>5. PICK k : k = Given(h, q, c, VPages)
  OBVIOUS
<1>6. PICK g : g = GivenBlocks(Blocks, q, c, VPages)
  OBVIOUS
<1>7. /\ Sound(m', k, g) /\ k \in Uses /\ g \in BlockUses /\ AllSame(x, m') /\ m'.swap_map = x.swap_map
      /\ Len(m'.free) <= Len(x.free)
  <2>1. GivenTo(x, AllShared(x, u.pgtbl), h, Blocks, q, c, VPages)
    BY <1>1, <1>4, AllEntriesShared
  <2>2. m' = AllShared(x, u.pgtbl)
    BY DEF u
  <2>3. QED BY <1>5, <1>6, <2>1, <2>2 DEF GivenTo
<1>8. Kept(m, m') /\ Fewer(m, m')
  BY <1>7 DEF Chain, Grows, Kept, Fewer, AllSame, Same
<1>9. /\ \A v \in VPages : k[PageAt(c, v)] = u.pgtbl[v].page
      /\ \A place \in Places : (\A v \in VPages : place # PageAt(c, v)) => k[place] = h[place]
  <2>1. ASSUME NEW v \in VPages PROVE k[PageAt(c, v)] = u.pgtbl[v].page
    <3>1. k[PageAt(c, v)] = h[PageAt(q, v)]
      BY <1>3, <1>5 DEF Given, PageAt
    <3>2. QED BY <1>2, <1>3, <3>1
  <2>2. ASSUME NEW place \in Places, \A v \in VPages : place # PageAt(c, v) PROVE k[place] = h[place]
    <3>1. ~(place[1] = "page" /\ place[2] = c /\ place[3] \in VPages)
      BY <2>2, PlacesOf DEF PageAt, TableAt, KernelAt, ArgumentsAt, SwapperAt, MapAt
    <3>2. QED BY <1>5, <3>1 DEF Given
  <2>3. QED BY <2>1, <2>2
<1>10. \A place \in Places \ ChildPlaces(c) : (\A v \in VPages : place # PageAt(c, v)) => k[place] = Holding[place]
  BY <1>2, <1>9
<1>11. k[SwapperAt] = sw'.page /\ k[MapAt] = m'.swap_map
  <2>1. /\ SwapperAt \in Places /\ MapAt \in Places /\ Holding[SwapperAt] = sw.page /\ Holding[MapAt] = m.swap_map /\ c # 0
    BY PlacesAre, HoldingAt
  <2>2. SwapperAt \notin ChildPlaces(c) /\ MapAt \notin ChildPlaces(c)
    BY <2>1 DEF SwapperAt, MapAt, ChildPlaces
  <2>3. \A v \in VPages : SwapperAt # PageAt(c, v) /\ MapAt # PageAt(c, v)
    BY <2>1 DEF SwapperAt, MapAt, PageAt
  <2>4. sw'.page = sw.page /\ m'.swap_map = m.swap_map
    BY <1>7, SwapperGoesOn DEF SwapperKept, Chain
  <2>5. QED BY <1>10, <2>1, <2>2, <2>3, <2>4
<1>12. ASSUME NEW o \in Procs \ {c}, NEW y, y = u_area'[o], \A v \in VPages : y.pgtbl[v].page = u_area[o].pgtbl[v].page,
              y.tables = u_area[o].tables, y.kernel = u_area[o].kernel, y.page = u_area[o].page
       PROVE  HoldsOf(o, u_area'[o], k)
  <2>1. /\ \A v \in VPages : Holding[PageAt(o, v)] = y.pgtbl[v].page /\ PageAt(o, v) \in Places
        /\ \A t \in Tables : Holding[TableAt(o, t)] = y.tables[t] /\ TableAt(o, t) \in Places
        /\ \A i \in {1, 2} : Holding[KernelAt(o, i)] = y.kernel[i] /\ KernelAt(o, i) \in Places
        /\ Holding[ArgumentsAt(o)] = y.page /\ ArgumentsAt(o) \in Places
    <3>1. /\ \A v \in VPages : Holding[PageAt(o, v)] = u_area[o].pgtbl[v].page
          /\ \A t \in Tables : Holding[TableAt(o, t)] = u_area[o].tables[t]
          /\ \A i \in {1, 2} : Holding[KernelAt(o, i)] = u_area[o].kernel[i]
          /\ Holding[ArgumentsAt(o)] = u_area[o].page
      BY HoldingAt
    <3>2. QED BY <1>12, <3>1, PlacesAre
  <2>2. ASSUME NEW place \in Places, place[2] = o PROVE k[place] = Holding[place]
    <3>1. place \notin ChildPlaces(c) /\ \A v \in VPages : place # PageAt(c, v)
      BY <2>2 DEF ChildPlaces, PageAt
    <3>2. QED BY <1>10, <3>1
  <2>3. /\ \A v \in VPages : PageAt(o, v)[2] = o
        /\ \A t \in Tables : TableAt(o, t)[2] = o
        /\ \A i \in {1, 2} : KernelAt(o, i)[2] = o
        /\ ArgumentsAt(o)[2] = o
    BY DEF PageAt, TableAt, KernelAt, ArgumentsAt
  <2>4. HoldsOf(o, y, k)
    BY <2>1, <2>2, <2>3 DEF HoldsOf
  <2>5. QED BY <1>12, <2>4
<1>13. HoldsOf(c, w, k)
  <2>1. \A v \in VPages : k[PageAt(c, v)] = w.pgtbl[v].page
    BY <1>9, HalvesFrame DEF u
  <2>2. /\ \A t \in Tables : k[TableAt(c, t)] = h[TableAt(c, t)]
        /\ \A i \in {1, 2} : k[KernelAt(c, i)] = h[KernelAt(c, i)]
        /\ k[ArgumentsAt(c)] = h[ArgumentsAt(c)]
    <3>1. /\ \A t \in Tables : TableAt(c, t) \in Places /\ \A v \in VPages : TableAt(c, t) # PageAt(c, v)
          /\ \A i \in {1, 2} : KernelAt(c, i) \in Places /\ \A v \in VPages : KernelAt(c, i) # PageAt(c, v)
          /\ ArgumentsAt(c) \in Places /\ \A v \in VPages : ArgumentsAt(c) # PageAt(c, v)
      BY PlacesAre DEF TableAt, KernelAt, ArgumentsAt, PageAt, Tables
    <3>2. QED BY <1>9, <3>1
  <2>3. w.page = 0
    BY DEF Halves
  <2>4. QED BY <1>2, <2>1, <2>2, <2>3 DEF HoldsOf
<1>14. \A o \in Procs : HoldsOf(o, u_area'[o], k)
  <2>1. HoldsOf(q, u_area'[q], k)
    <3>1. \A v \in VPages : r.pgtbl[v].page = u_area[q].pgtbl[v].page
      BY HalvesFrame
    <3>2. r.page = u_area[q].page
      BY <1>1 DEF Halves, u
    <3>3. QED BY <1>12, <3>1, <3>2
  <2>2. ASSUME NEW o \in Procs \ {q, c} PROVE HoldsOf(o, u_area'[o], k)
    BY <1>12, <2>2
  <2>3. QED BY <1>13, <2>1, <2>2
<1>15. Holding' = k
  BY <1>7, <1>11, <1>14, HoldingAre
<1>16. Blocks' = g
  <2>1. ASSUME NEW s \in VPlaces PROVE BlockOf(u_area'[s[1]], s[2]) = g[s]
    <3>1. s[1] \in Procs /\ s[2] \in VPages /\ s = <<s[1], s[2]>>
      BY DEF VPlaces
    <3>2. g[s] = IF s[1] = c THEN Blocks[<<q, s[2]>>] ELSE Blocks[s]
      BY <1>6, <3>1 DEF GivenBlocks
    <3>3. Blocks[s] = BlockOf(u_area[s[1]], s[2]) /\ Blocks[<<q, s[2]>>] = BlockOf(u, s[2])
      BY <1>3, <3>1 DEF Blocks
    <3>4. BlockOf(r, s[2]) = BlockOf(u, s[2]) /\ BlockOf(w, s[2]) = BlockOf(u, s[2])
      BY <3>1, HalvesFrame DEF u
    <3>5. CASE s[1] = c
      BY <3>2, <3>3, <3>4, <3>5
    <3>6. CASE s[1] = q
      BY <3>2, <3>3, <3>4, <3>6 DEF u
    <3>7. CASE s[1] \notin {q, c}
      BY <3>1, <3>2, <3>3, <3>7
    <3>8. QED BY <3>5, <3>6, <3>7
  <2>2. Blocks' = [s \in VPlaces |-> BlockOf(u_area'[s[1]], s[2])]
    BY DEF Blocks
  <2>3. QED BY <1>7, <2>1, <2>2 DEF BlockUses
<1>17. Changed(q)
  <2>1. ASSUME NEW place \in Places
        PROVE  \/ k[place] = Holding[place] \/ m.pg[k[place]].count = 0
               \/ \E other \in Places : other[2] = q /\ Holding[other] = k[place]
    <3>1. CASE \E v \in VPages : place = PageAt(c, v)
      <4>1. PICK v \in VPages : place = PageAt(c, v)
        BY <3>1
      <4>2. PageAt(q, v) \in Places /\ PageAt(q, v)[2] = q /\ Holding[PageAt(q, v)] = k[place]
        BY <1>3, <1>9, <4>1 DEF PageAt
      <4>3. QED BY <4>2
    <3>2. CASE \A v \in VPages : place # PageAt(c, v)
      BY <1>9, <3>2 DEF Chain
    <3>3. QED BY <3>1, <3>2
  <2>2. QED BY <1>15, <2>1 DEF Changed
<1>18. QED BY <1>7, <1>8, <1>15, <1>16, <1>17

LEMMA ForkedOK ==
  ASSUME MemInv, NEW q \in Procs, Forked(q)
  PROVE  MemInv'
<1> DEFINE u == u_area[q]
<1>1. Awake(q, "fork")
  BY DEF Forked
<1>2. /\ u.state = "alive" /\ u.pc = "fork" /\ waits[q] = Nothing /\ u \in Areas /\ Frame(u)
      /\ u_area \in [Procs -> Areas] /\ Len(m.free) \in Nat
  BY <1>1, AwakeIs, Uses0
<1>3. CASE reserve_pages(q, Requested(q))
  <2>1. Needs(q) = Requested(q) /\ u.pc \in Reserving
    BY <1>2 DEF Needs, Reserving
  <2>2. QED BY <1>2, <1>3, <2>1, Reserves
<1>4. CASE ~reserve_pages(q, Requested(q))
  <2>1. PICK c : c = u.child
    OBVIOUS
  <2>2. /\ c \in Procs /\ c # q /\ u_area[c].state = "unused" /\ u_area[c].busyblock = None
        /\ waits[c] = Nothing /\ Childless(c) /\ \A v \in VPages : Blocks[<<c, v>>] = None
        /\ \A o \in Procs : u_area[o].child = c => o = q
    BY <1>2, <2>1, ChildSlot
  <2>3. /\ free_pages >= Requested(q) /\ m' = AllShared(AfterTables(q), u.pgtbl) /\ LowOnPages(m') /\ cpu' = 0
        /\ waits' = waits /\ binary' = binary
        /\ u_area' = [u_area EXCEPT ![q] = ForkParent(q), ![c] = ForkChild(q)]
    BY <1>4, <2>1 DEF Forked
  <2>4. PICK r : r = [u EXCEPT !.pc = "user", !.child = 0, !.pgtbl = ReadOnly(u.pgtbl)]
    OBVIOUS
  <2>5. PICK w : w = ForkChild(q)
    OBVIOUS
  <2>6. /\ u_area'[q] = r /\ u_area'[c] = w /\ \A o \in Procs \ {q, c} : u_area'[o] = u_area[o]
    <3>1. r = ForkParent(q)
      BY <2>4 DEF ForkParent
    <3> HIDE DEF u
    <3>2. QED BY <1>2, <2>2, <2>3, <2>5, <3>1
  <2>7. PICK h : /\ Chain(AfterTables(q), h) /\ ChildHas(c, h, KernelOf, TablesOf(q))
                 /\ KernelOf[1] \in 1..NPages /\ KernelOf[2] \in 1..NPages /\ TablesOf(q) \in [Tables -> 0..NPages]
                 /\ Len(AfterTables(q).free) < Len(m.free)
    BY <2>2, <2>3, ChildPages DEF free_pages
  <2>8. PICK kernel, tables : kernel = KernelOf /\ tables = TablesOf(q)
    OBVIOUS
  <2>9. PICK pid : pid = Max({u_area[o].pid : o \in Procs}) + 1
    OBVIOUS
  <2>10. pid \in Int
    BY <2>9, PidIs
  <2>11. kernel \in [{1, 2} -> 0..NPages] /\ kernel[1] # 0 /\ kernel[2] # 0 /\ tables \in [Tables -> 0..NPages]
    <3>1. kernel = <<kernel[1], kernel[2]>> /\ kernel[1] \in 1..NPages /\ kernel[2] \in 1..NPages
      BY <2>7, <2>8 DEF KernelOf
    <3>2. kernel[1] \in 0..NPages /\ kernel[2] \in 0..NPages /\ kernel[1] # 0 /\ kernel[2] # 0
      BY <3>1, NotSwap
    <3>3. <<kernel[1], kernel[2]>> \in [{1, 2} -> 0..NPages]
      BY <3>2, PairIs
    <3>4. QED BY <2>7, <2>8, <3>1, <3>2, <3>3
  <2>12. w = ChildOf(u, pid, kernel, tables)
    BY <2>5, <2>8, <2>9 DEF ForkChild, KernelOf, TablesOf, ChildOf
  <2>13. Forking(u)
    BY <1>2 DEF Forking
  <2>14. Halves(u, r) /\ r.tables = u.tables /\ r.kernel = u.kernel
    <3> HIDE DEF u
    <3>1. QED BY <2>4, <2>13, ParentIs
  <2>15. Halves(u, w) /\ w.tables = tables /\ w.kernel = kernel
    <3> HIDE DEF u
    <3>1. Forking(u) /\ pid \in Int /\ kernel \in [{1, 2} -> 0..NPages] /\ kernel[1] # 0 /\ kernel[2] # 0 /\ tables \in [Tables -> 0..NPages]
      BY <2>10, <2>11, <2>13
    <3>2. QED BY <2>12, <3>1, ChildIs
  <2>16. ChildHas(c, h, w.kernel, w.tables)
    BY <2>7, <2>8, <2>15
  <2>17. sw' \in {sw, SwapperOn}
    BY <2>3, LowOnPagesIs
  <2>18. u_area' \in [Procs -> Areas]
    <3>1. \A o \in Procs : u_area'[o] \in Areas
      BY <1>2, <2>6, <2>14, <2>15 DEF Halves
    <3>2. u_area' = [o \in Procs |-> u_area'[o]]
      BY <1>2, <2>3
    <3> HIDE DEF u
    <3>3. QED BY <3>1, <3>2
  <2>19. Sound(m', Holding', Blocks') /\ Changed(q) /\ Kept(m, m') /\ Fewer(m, m') /\ Len(m'.free) <= Len(AfterTables(q).free)
    <3>1. PICK x : x = AfterTables(q)
      OBVIOUS
    <3>2. Chain(x, h) /\ m' = AllShared(x, u_area[q].pgtbl)
      BY <2>3, <2>7, <3>1
    <3>3. Forking(u_area[q]) /\ Halves(u_area[q], r) /\ Halves(u_area[q], w) /\ r.tables = u_area[q].tables /\ r.kernel = u_area[q].kernel
      BY <2>13, <2>14, <2>15
    <3>4. Sound(m', Holding', Blocks') /\ Changed(q) /\ Kept(m, m') /\ Fewer(m, m') /\ Len(m'.free) <= Len(x.free)
      BY <2>2, <2>6, <2>16, <2>17, <3>2, <3>3, ForkPages
    <3>5. QED BY <3>1, <3>4
  <2>20. Len(m'.free) <= Len(m.free)
    <3>1. Len(AfterTables(q).free) \in Nat /\ Len(m'.free) \in Nat
      BY <2>7, <2>19 DEF Chain, Sound, Memories
    <3>2. QED BY <1>2, <2>7, <2>19, <3>1
  <2>21. Forking(u_area[q]) /\ Halves(u_area[q], r) /\ Halves(u_area[q], w)
    BY <2>13, <2>14, <2>15
  <2>22. QED BY <1>2, <2>2, <2>3, <2>6, <2>17, <2>18, <2>19, <2>20, <2>21, ForkStep
<1>5. QED BY <1>3, <1>4

(***************************************************************************)
(* The start.                                                              *)
(***************************************************************************)
PageNumber(q, i) == 5 * (q - 1) + i

\* The places of the first pages of process q.
HomeAt(q, i) == IF i \in {1, 2} THEN KernelAt(q, i) ELSE IF i = 3 THEN TableAt(q, "image")
                ELSE IF i = 4 THEN TableAt(q, "stack") ELSE PageAt(q, STACK)

\* What a process that was started has.
FirstOf(q, u) ==
    /\ u \in Areas /\ Frame(u) /\ u.state = "alive" /\ u.pc = "user" /\ u.child = 0 /\ u.busyblock = None /\ u.page = 0
    /\ \A i \in {1, 2} : u.kernel[i] = PageNumber(q, i)
    /\ u.tables["image"] = PageNumber(q, 3) /\ u.tables["heap"] = 0 /\ u.tables["stack"] = PageNumber(q, 4)
    /\ \A v \in VPages : u.pgtbl[v].page = (IF v = STACK THEN PageNumber(q, 5) ELSE 0)
    /\ \A v \in VPages : BlockOf(u, v) = None
    /\ \A v \in VPages : u.pgtbl[v].present => v = STACK

LEMMA NumbersAre ==
  ASSUME NEW n \in Nat, 5 * n <= NPages, NEW q \in 1..n, NEW i \in 1..5
  PROVE  PageNumber(q, i) \in 1..5 * n /\ PageNumber(q, i) \in Pages /\ PageNumber(q, i) \in 0..NPages /\ PageNumber(q, i) # 0
<1>1. NPages \in Nat
  BY NotSwap
<1>2. PageNumber(q, i) \in Int /\ PageNumber(q, i) >= 1 /\ PageNumber(q, i) <= 5 * n
  BY DEF PageNumber
<1>3. QED BY <1>1, <1>2 DEF Pages

LEMMA StartedIs ==
  ASSUME NEW n \in Nat, 5 * n <= NPages, NEW q \in 1..n, NEW f \in Binaries
  PROVE  FirstOf(q, Started(q, f))
<1>1. \A i \in 1..5 : /\ FirstPages(q)[i] = PageNumber(q, i) /\ PageNumber(q, i) \in 0..NPages /\ PageNumber(q, i) # 0
  BY NumbersAre DEF FirstPages, PageNumber
<1>2. PICK p : p = FirstPages(q)
  OBVIOUS
<1>3. p[1] = PageNumber(q, 1) /\ p[2] = PageNumber(q, 2) /\ p[3] = PageNumber(q, 3) /\ p[4] = PageNumber(q, 4) /\ p[5] = PageNumber(q, 5)
  BY <1>1, <1>2
<1>4. PICK kernel : kernel = <<p[1], p[2]>>
  OBVIOUS
<1>5. PICK tables : tables = [t \in Tables |-> IF t = "image" THEN p[3] ELSE IF t = "stack" THEN p[4] ELSE 0]
  OBVIOUS
<1>6. PICK pgtbl : pgtbl = [v \in VPages |-> IF v \in {TEXT, DATA} THEN Missing(PAGE_FILE, FileKey(f, v))
                                             ELSE IF v = STACK THEN Mapped(p[5], TRUE) ELSE Empty]
  OBVIOUS
<1>7. PICK mem : mem = [v \in VPages |-> IF v \in {TEXT, DATA} THEN Image(FileKey(f, v), 1) ELSE Zeros]
  OBVIOUS
<1>8. PICK u : u = Started(q, f)
  OBVIOUS
<1>9. u = [Unused EXCEPT !.state = "alive", !.pid = q, !.prog = f, !.swapable = TRUE, !.kernel = kernel, !.tables = tables,
                         !.pgtbl = pgtbl, !.mem = mem]
  BY <1>2, <1>5, <1>6, <1>7, <1>8, <1>4 DEF Started
<1>10. kernel \in [{1, 2} -> 0..NPages] /\ kernel[1] = PageNumber(q, 1) /\ kernel[2] = PageNumber(q, 2)
  BY <1>1, <1>3, <1>4, PairIs
<1>11. tables \in [Tables -> 0..NPages]
  BY <1>1, <1>5, <1>3, NotSwap
<1>12. ASSUME NEW v \in VPages
       PROVE  /\ pgtbl[v] \in Entries /\ EntryOK(pgtbl[v]) /\ pgtbl[v].page = (IF v = STACK THEN PageNumber(q, 5) ELSE 0)
              /\ pgtbl[v].present => v = STACK
              /\ pgtbl[v].type = PAGE_SWAP => pgtbl[v].present /\ v = STACK
  <2>1. CASE v \in {TEXT, DATA}
    <3>1. pgtbl[v] = Missing(PAGE_FILE, FileKey(f, v)) /\ v # STACK
      <4>1. v # STACK
        BY <2>1 DEF TEXT, DATA, STACK
      <4>2. QED BY <1>6, <2>1, <4>1
    <3>2. FileKey(f, v) \in FileKeys
      BY DEF FileKeys
    <3>3. FileKey(f, v) \in Keys /\ FileKey(f, v) \notin Swap /\ FileKey(f, v) # None
      BY <3>2, KeysAre DEF Keys
    <3>4. QED BY <3>1, <3>3, NotSwap DEF Missing, Entries, EntryOK, Types, PAGE_FILE, PAGE_DZ, PAGE_SWAP
  <2>2. CASE v = STACK
    <3>1. pgtbl[v] = Mapped(PageNumber(q, 5), TRUE)
      <4>1. v \notin {TEXT, DATA}
        BY <2>2 DEF TEXT, DATA, STACK
      <4>2. QED BY <1>6, <1>3, <2>2, <4>1
    <3>2. QED BY <1>1, <2>2, <3>1, KeysAre DEF Mapped, Entries, EntryOK, Types
  <2>3. CASE v \notin {TEXT, DATA, STACK}
    <3>1. pgtbl[v] = Empty
      BY <1>6, <2>3
    <3>2. QED BY <2>3, <3>1, EmptyIs DEF EmptyEntry
  <2>4. QED BY <2>1, <2>2, <2>3
<1>13. pgtbl \in [VPages -> Entries]
  BY <1>6, <1>12
<1>14. mem \in [VPages -> Values]
  <2>1. \A v \in VPages : mem[v] \in Values
    <3>1. \A v \in VPages : FileKey(f, v) \in Int
      <4>1. \A v \in VPages : FileKey(f, v) \in FileKeys
        BY DEF FileKeys
      <4>2. QED BY <4>1, KeysAre DEF Keys
    <3>2. QED BY <1>7, <3>1 DEF Image, Zeros, Stored, None, Values
  <2>2. QED BY <1>7, <2>1
<1>15. Unused \in Areas /\ Unused.pc = "user" /\ Unused.child = 0 /\ Unused.busyblock = None /\ Unused.page = 0
  BY UnusedIs DEF Unused
<1>16. u \in Areas
  <2>1. q \in Int /\ f \in Binaries \cup {0}
    OBVIOUS
  <2>2. QED BY <1>9, <1>10, <1>11, <1>13, <1>14, <1>15, <2>1 DEF Areas
<1>17. /\ u.state = "alive" /\ u.kernel = kernel /\ u.tables = tables /\ u.pgtbl = pgtbl
       /\ u.pc = "user" /\ u.child = 0 /\ u.busyblock = None /\ u.page = 0
  BY <1>9, <1>15 DEF Areas
<1>18. Frame(u)
  BY <1>1, <1>10, <1>12, <1>17 DEF Frame
<1>19. \A v \in VPages : BlockOf(u, v) = None
  BY <1>12, <1>17 DEF BlockOf
<1>20. u.tables["image"] = PageNumber(q, 3) /\ u.tables["heap"] = 0 /\ u.tables["stack"] = PageNumber(q, 4)
  BY <1>5, <1>17, <1>3 DEF Tables
<1>21. QED BY <1>8, <1>10, <1>12, <1>16, <1>17, <1>18, <1>19, <1>20 DEF FirstOf

\* A number says whose page it is.
LEMMA NumberOf ==
  ASSUME NEW n \in Nat, NEW p \in 1..5 * n
  PROVE  \E q \in 1..n, i \in 1..5 : p = PageNumber(q, i)
<1>1. PICK k \in Int : k = (p - 1) \div 5
  OBVIOUS
<1>2. 5 * k <= p - 1 /\ p - 1 < 5 * k + 5
  BY <1>1
<1>3. k + 1 \in 1..n /\ p - 5 * k \in 1..5 /\ p = 5 * ((k + 1) - 1) + (p - 5 * k)
  BY <1>2
<1>4. QED BY <1>3 DEF PageNumber

LEMMA NumbersDiffer ==
  ASSUME NEW q \in Int, NEW s \in Int, NEW i \in 1..5, NEW j \in 1..5, PageNumber(q, i) = PageNumber(s, j)
  PROVE  q = s /\ i = j
BY DEF PageNumber

\* Every place is empty at first, or the home of a page.
LEMMA PlacesFirst ==
  ASSUME NEW n \in Nat, 1..n \subseteq Procs, \A q \in 1..n : FirstOf(q, u_area[q]), \A q \in Procs \ (1..n) : u_area[q] = Unused,
         sw.page = 0, m.swap_map = 0, NEW place \in Places
  PROVE  Holding[place] = 0 \/ \E q \in 1..n, i \in 1..5 : place = HomeAt(q, i) /\ Holding[place] = PageNumber(q, i)
<1>1. CASE place = SwapperAt \/ place = MapAt
  <2>1. 1 \in Procs
    BY MemoryAssumption
  <2>2. Holding[SwapperAt] = sw.page /\ Holding[MapAt] = m.swap_map
    BY <2>1, HoldingAt
  <2>3. QED BY <1>1, <2>2
<1>2. CASE place # SwapperAt /\ place # MapAt
  <2>1. PICK q \in Procs : q = place[2]
    BY <1>2, PlacesOf
  <2>2. \/ \E v \in VPages : place = PageAt(q, v)
        \/ \E t \in Tables : place = TableAt(q, t)
        \/ \E i \in {1, 2} : place = KernelAt(q, i)
        \/ place = ArgumentsAt(q)
    BY <1>2, <2>1, PlacesOf
  <2>3. /\ \A v \in VPages : Holding[PageAt(q, v)] = u_area[q].pgtbl[v].page
        /\ \A t \in Tables : Holding[TableAt(q, t)] = u_area[q].tables[t]
        /\ \A i \in {1, 2} : Holding[KernelAt(q, i)] = u_area[q].kernel[i]
        /\ Holding[ArgumentsAt(q)] = u_area[q].page
    BY HoldingAt
  <2>4. CASE q \in 1..n
    <3>1. FirstOf(q, u_area[q])
      BY <2>4
    <3>2. ASSUME NEW v \in VPages, place = PageAt(q, v)
          PROVE  Holding[place] = 0 \/ (place = HomeAt(q, 5) /\ Holding[place] = PageNumber(q, 5))
      BY <2>3, <3>1, <3>2 DEF FirstOf, HomeAt
    <3>3. ASSUME NEW t \in Tables, place = TableAt(q, t)
          PROVE  \/ Holding[place] = 0
                 \/ place = HomeAt(q, 3) /\ Holding[place] = PageNumber(q, 3)
                 \/ place = HomeAt(q, 4) /\ Holding[place] = PageNumber(q, 4)
      BY <2>3, <3>1, <3>3 DEF FirstOf, HomeAt, Tables
    <3>4. ASSUME NEW i \in {1, 2}, place = KernelAt(q, i)
          PROVE  place = HomeAt(q, i) /\ Holding[place] = PageNumber(q, i)
      BY <2>3, <3>1, <3>4 DEF FirstOf, HomeAt
    <3>5. ASSUME place = ArgumentsAt(q) PROVE Holding[place] = 0
      BY <2>3, <3>1, <3>5 DEF FirstOf
    <3>6. 1 \in 1..5 /\ 2 \in 1..5 /\ 3 \in 1..5 /\ 4 \in 1..5 /\ 5 \in 1..5
      OBVIOUS
    <3>7. QED BY <2>2, <2>4, <3>2, <3>3, <3>4, <3>5, <3>6
  <2>5. CASE q \notin 1..n
    <3>1. u_area[q] = Unused
      BY <2>5
    <3>2. /\ \A v \in VPages : Unused.pgtbl[v].page = 0
          /\ \A t \in Tables : Unused.tables[t] = 0
          /\ \A i \in {1, 2} : Unused.kernel[i] = 0
          /\ Unused.page = 0
      BY UnusedIs, EmptyIs DEF Bare, EmptyEntry
    <3>3. QED BY <2>2, <2>3, <3>1, <3>2
  <2>6. QED BY <2>4, <2>5
<1>3. QED BY <1>1, <1>2

LEMMA HomesHold ==
  ASSUME NEW q \in Procs, FirstOf(q, u_area[q]), NEW i \in 1..5
  PROVE  HomeAt(q, i) \in Places /\ Holding[HomeAt(q, i)] = PageNumber(q, i)
<1>1. "image" \in Tables /\ "stack" \in Tables /\ STACK \in VPages
  BY FourPages DEF Tables
<1>a. /\ \A t \in Tables : TableAt(q, t) \in Places /\ Holding[TableAt(q, t)] = u_area[q].tables[t]
      /\ \A j \in {1, 2} : KernelAt(q, j) \in Places /\ Holding[KernelAt(q, j)] = u_area[q].kernel[j]
      /\ \A v \in VPages : PageAt(q, v) \in Places /\ Holding[PageAt(q, v)] = u_area[q].pgtbl[v].page
  BY HoldingAt, PlacesAre
<1>b. /\ \A j \in {1, 2} : u_area[q].kernel[j] = PageNumber(q, j)
      /\ u_area[q].tables["image"] = PageNumber(q, 3) /\ u_area[q].tables["stack"] = PageNumber(q, 4)
      /\ u_area[q].pgtbl[STACK].page = PageNumber(q, 5)
  BY <1>1 DEF FirstOf
<1>2. CASE i \in {1, 2}
  BY ONLY <1>2, <1>a, <1>b DEF HomeAt
<1>3. CASE i = 3
  BY ONLY <1>1, <1>3, <1>a, <1>b DEF HomeAt
<1>4. CASE i = 4
  BY ONLY <1>1, <1>4, <1>a, <1>b DEF HomeAt
<1>5. CASE i = 5
  BY ONLY <1>1, <1>5, <1>a, <1>b DEF HomeAt
<1>6. QED BY <1>2, <1>3, <1>4, <1>5

LEMMA FirstCounts ==
  ASSUME NEW n \in Nat, 1..n \subseteq Procs, \A q \in 1..n : FirstOf(q, u_area[q]), \A q \in Procs \ (1..n) : u_area[q] = Unused,
         sw.page = 0, m.swap_map = 0, NEW p \in Pages
  PROVE  Cardinality(Has(Holding, Places, p)) = IF p <= 5 * n THEN 1 ELSE 0
<1>1. p # 0 /\ p \in Nat /\ p >= 1
  BY DEF Pages
<1>2. CASE p <= 5 * n
  <2>1. p \in 1..5 * n
    BY <1>1, <1>2
  <2>2. PICK q \in 1..n, i \in 1..5 : p = PageNumber(q, i)
    BY <2>1, NumberOf
  <2>3. HomeAt(q, i) \in Places /\ Holding[HomeAt(q, i)] = p
    BY <2>2, HomesHold
  <2>4. ASSUME NEW place \in Places, Holding[place] = p PROVE place = HomeAt(q, i)
    <3>1. PICK s \in 1..n, j \in 1..5 : place = HomeAt(s, j) /\ Holding[place] = PageNumber(s, j)
      BY <1>1, <2>4, PlacesFirst
    <3>2. q \in Int /\ s \in Int
      OBVIOUS
    <3>3. q = s /\ i = j
      BY <2>2, <2>4, <3>1, <3>2, NumbersDiffer
    <3>4. QED BY <3>1, <3>3
  <2>5. Has(Holding, Places, p) = {HomeAt(q, i)}
    BY <2>3, <2>4 DEF Has
  <2>6. QED BY <1>2, <2>5, FS_Singleton
<1>3. CASE ~(p <= 5 * n)
  <2>1. ASSUME NEW place \in Places PROVE Holding[place] # p
    <3>1. \A s \in 1..n, j \in 1..5 : PageNumber(s, j) <= 5 * n
      BY DEF PageNumber
    <3>2. QED BY <1>1, <1>3, <3>1, PlacesFirst
  <2>2. Has(Holding, Places, p) = {}
    BY <2>1 DEF Has
  <2>3. QED BY <1>3, <2>2, FS_EmptySet
<1>4. QED BY <1>2, <1>3

\* The free list at first: what is left, in order.
LEMMA FreeAtFirst ==
  ASSUME NEW used \in Nat, used <= NPages, NEW free, free = [i \in 1..NPages - used |-> used + i]
  PROVE  /\ free \in Seq(Pages) /\ IsInjective(free)
         /\ \A p \in Pages : p \in Range(free) <=> ~(p <= used)
<1>1. NPages \in Nat /\ NPages - used \in Nat
  BY NotSwap
<1>2. \A i \in 1..NPages - used : used + i \in Pages
  BY <1>1 DEF Pages
<1>3. free \in Seq(Pages)
  BY <1>1, <1>2
<1>4. DOMAIN free = 1..NPages - used /\ \A i \in DOMAIN free : free[i] = used + i
  OBVIOUS
<1>5. IsInjective(free)
  BY <1>4 DEF IsInjective
<1>6. ASSUME NEW p \in Pages PROVE p \in Range(free) <=> ~(p <= used)
  <2>1. p \in Nat /\ p >= 1 /\ p <= NPages
    BY <1>1 DEF Pages
  <2>2. Range(free) = {free[i] : i \in DOMAIN free}
    BY DEF Range
  <2>3. ASSUME ~(p <= used) PROVE p \in Range(free)
    <3>1. p - used \in DOMAIN free /\ free[p - used] = p
      BY <1>1, <1>4, <2>1, <2>3
    <3>2. QED BY <2>2, <3>1
  <2>4. ASSUME p \in Range(free) PROVE ~(p <= used)
    <3>1. PICK i \in DOMAIN free : p = free[i]
      BY <2>2, <2>4
    <3>2. QED BY <1>4, <2>1, <3>1
  <2>5. QED BY <2>3, <2>4
<1>7. QED BY <1>3, <1>5, <1>6

LEMMA SwapAtFirst ==
  ASSUME NEW x, NEW g, \A s \in VPlaces : g[s] = None, \A b \in Swap : x.swap.bitmap[b] = 0,
         \A p \in Pages : x.pg[p].key = None, x.swap_map = 0,
         \/ x.swap.free = SwapBlocks /\ x.swap.latest = 0
         \/ x.swap.free = 0 /\ x.swap.latest = -1
  PROVE  BlocksBalanced(x, g)
<1>1. Cardinality(Swap) = SwapBlocks /\ None \notin Swap
  <2>1. SwapBlocks \in Nat
    BY NotSwap
  <2>2. Cardinality(1..SwapBlocks) = IF 1 > SwapBlocks THEN 0 ELSE SwapBlocks - 1 + 1
    BY <2>1, FS_Interval
  <2>3. QED BY <2>1, <2>2, NotSwap DEF Swap
<1>2. FreeBlocks(x) = Swap
  BY DEF FreeBlocks
<1>3. ASSUME NEW b \in Swap PROVE x.swap.bitmap[b] = Cardinality(Has(g, VPlaces, b))
  <2>1. Has(g, VPlaces, b) = {}
    BY <1>1 DEF Has
  <2>2. QED BY <2>1, FS_EmptySet
<1>4. QED BY <1>1, <1>2, <1>3 DEF BlocksBalanced

LEMMA InitOK ==
  ASSUME MemInit
  PROVE  MemInv
<1>1. PICK n \in Nat \ {0} : /\ 1..n \subseteq Procs /\ 5 * n <= NPages
                             /\ \E prog \in [1..n -> Binaries], swapping \in BOOLEAN : MemoryInit(prog, swapping)
  BY DEF MemInit
<1>2. PICK prog \in [1..n -> Binaries], swapping \in BOOLEAN : MemoryInit(prog, swapping)
  BY <1>1
<1>3. prog \in Seq(Binaries) /\ Len(prog) = n /\ DOMAIN prog = 1..n
  OBVIOUS
<1>4. PICK used \in Nat : used = 5 * n
  OBVIOUS
<1>5. NPages \in Nat /\ SwapBlocks \in Nat /\ used <= NPages
  BY <1>1, <1>4, NotSwap
<1>6. PICK pg : pg = [p \in Pages |-> [count |-> IF p <= used THEN 1 ELSE 0, key |-> None, hashed |-> FALSE,
                                       type |-> IF p <= used THEN PAGE_SWAP ELSE PAGE_DZ]]
  OBVIOUS
<1>7. PICK data, disk, free : /\ data = [p \in Pages |-> Zeros] /\ disk = [b \in Swap |-> Zeros]
                              /\ free = [i \in 1..NPages - used |-> used + i]
  OBVIOUS
<1>8. PICK swap : swap = [bitmap |-> [b \in Swap |-> 0], free |-> IF swapping THEN SwapBlocks ELSE 0,
                          latest |-> IF swapping THEN 0 ELSE -1]
  OBVIOUS
<1>9. /\ m = [pg |-> pg, data |-> data, disk |-> disk, free |-> free, swap |-> swap, swap_map |-> 0]
      /\ u_area = [q \in Procs |-> IF q \in 1..n THEN Started(q, prog[q]) ELSE Unused]
      /\ waits = [q \in Procs |-> Nothing]
      /\ sw = [pc |-> "scan", proc |-> 0, pid |-> 0, table |-> 0, page |-> 0, block |-> None]
      /\ binary = [f \in Binaries |-> [version |-> 1, newer |-> FALSE, write_denied |-> f \in Range(prog)]]
      /\ cpu = 0
  BY <1>2, <1>3, <1>4, <1>6, <1>7, <1>8 DEF MemoryInit
<1>10. \A q \in 1..n : FirstOf(q, u_area[q])
  <2>1. ASSUME NEW q \in 1..n PROVE FirstOf(q, u_area[q])
    <3>1. prog[q] \in Binaries /\ u_area[q] = Started(q, prog[q])
      BY <1>1, <1>9
    <3>2. QED BY <1>1, <3>1, StartedIs
  <2>2. QED BY <2>1
<1>11. \A q \in Procs \ (1..n) : u_area[q] = Unused
  BY <1>9
<1>12. /\ Unused \in Areas /\ Frame(Unused) /\ Unused.state = "unused" /\ Unused.pc = "user" /\ Unused.child = 0
       /\ Unused.busyblock = None /\ Unused.page = 0 /\ \A v \in VPages : BlockOf(Unused, v) = None /\ ~Unused.pgtbl[v].present
  <2>1. /\ Unused \in Areas /\ Unused.state = "unused" /\ Unused.pc = "user" /\ Unused.child = 0 /\ Unused.kernel = <<0, 0>>
        /\ Unused.busyblock = None /\ Unused.page = 0
        /\ (\A v \in VPages : Unused.pgtbl[v] = Empty) /\ (\A t \in Tables : Unused.tables[t] = 0)
    BY UnusedIs DEF Bare
  <2>2. \A v \in VPages : BlockOf(Unused, v) = None /\ ~Unused.pgtbl[v].present /\ EntryOK(Unused.pgtbl[v])
    BY <2>1, EmptyIs DEF EmptyEntry, BlockOf
  <2>3. Frame(Unused)
    BY <2>1, <2>2 DEF Frame, NoMemory
  <2>4. QED BY <2>1, <2>2, <2>3
<1>13. \A q \in Procs : /\ u_area[q] \in Areas /\ Frame(u_area[q]) /\ u_area[q].pc = "user" /\ u_area[q].child = 0
                        /\ u_area[q].busyblock = None /\ u_area[q].page = 0
                        /\ \A v \in VPages : BlockOf(u_area[q], v) = None
                        /\ \A v \in VPages : u_area[q].pgtbl[v].present =>
                               v = STACK /\ q \in 1..n /\ u_area[q].pgtbl[v].page = PageNumber(q, 5)
  BY <1>10, <1>11, <1>12 DEF FirstOf
<1>14. /\ free \in Seq(Pages) /\ IsInjective(free) /\ \A p \in Pages : p \in Range(free) <=> ~(p <= used)
  BY <1>5, <1>7, FreeAtFirst
<1>15. m \in Memories
  <2>1. pg \in [Pages -> Descriptors]
    BY <1>6, KeysAre DEF Descriptors, Types
  <2>2. Zeros \in Values
    BY DEF Zeros, Stored, Values, None
  <2>3. data \in [Pages -> Values] /\ disk \in [Swap -> Values]
    BY <1>7, <2>2
  <2>4. swap \in [bitmap : [Swap -> Nat], free : Int, latest : Int]
    BY <1>5, <1>8
  <2>5. 0 \in 0..NPages
    BY <1>5
  <2>6. QED BY <1>9, <1>14, <2>1, <2>3, <2>4, <2>5 DEF Memories
<1>16. m.pg = pg /\ m.free = free /\ m.swap = swap /\ m.swap_map = 0 /\ sw.page = 0 /\ sw.pc = "scan"
  BY <1>9
<1>17. \A p \in Pages : m.pg[p].count = (IF p <= used THEN 1 ELSE 0) /\ m.pg[p].key = None /\ ~m.pg[p].hashed
                        /\ m.pg[p].type = (IF p <= used THEN PAGE_SWAP ELSE PAGE_DZ)
  BY <1>6, <1>16
<1>18. PagesBalanced(m, Holding)
  <2>1. \A p \in Pages : m.pg[p].count = Cardinality(Has(Holding, Places, p))
    BY <1>1, <1>4, <1>10, <1>11, <1>16, <1>17, FirstCounts
  <2>2. \A p \in Pages : m.pg[p].count = 0 <=> p \in Range(m.free)
    BY <1>14, <1>16, <1>17
  <2>3. QED BY <1>14, <1>16, <2>1, <2>2 DEF PagesBalanced
<1>19. BlocksBalanced(m, Blocks)
  <2>1. \A s \in VPlaces : Blocks[s] = None
    BY <1>13 DEF Blocks, VPlaces
  <2>2. (\A b \in Swap : m.swap.bitmap[b] = 0) /\ (\/ m.swap.free = SwapBlocks /\ m.swap.latest = 0
                                                   \/ m.swap.free = 0 /\ m.swap.latest = -1)
    BY <1>8, <1>16
  <2>3. \A p \in Pages : m.pg[p].key = None
    BY <1>17
  <2>4. QED BY <1>16, <2>1, <2>2, <2>3, SwapAtFirst
<1>20. Cached(m)
  BY <1>17, NotSwap DEF Cached
<1>21. TypeOK
  <2>1. u_area \in [Procs -> Areas] /\ waits \in [Procs -> Procs \cup {Nothing, GetPage}]
    BY <1>9, <1>13
  <2>2. sw \in Swappers
    BY <1>5, <1>9 DEF Swappers
  <2>3. binary \in [Binaries -> BinaryFiles]
    BY <1>9 DEF BinaryFiles
  <2>4. QED BY <1>9, <1>15, <2>1, <2>2, <2>3 DEF TypeOK
<1>22. ASSUME NEW q \in Procs PROVE ProcOK(q)
  <2>1. ASSUME NEW v \in VPages, u_area[q].pgtbl[v].present PROVE Known(m, u_area[q].pgtbl[v].page)
    <3>1. PICK s \in 1..n : s = q /\ u_area[q].pgtbl[v].page = PageNumber(s, 5)
      BY <1>13, <2>1
    <3>2. 5 \in 1..5
      OBVIOUS
    <3>3. PageNumber(s, 5) \in 1..5 * n /\ PageNumber(s, 5) \in Pages
      BY <1>1, <3>2, NumbersAre
    <3>4. m.pg[PageNumber(s, 5)].type = PAGE_SWAP
      BY <1>4, <1>17, <3>3
    <3>5. QED BY <3>1, <3>4 DEF Known, PAGE_SWAP, PAGE_DZ, PAGE_FILE
  <2>2. QED BY <1>13, <2>1 DEF ProcOK, LoadOK
<1>23. LoadsOK /\ ForksOK /\ SwapperOK
  BY <1>13, <1>16 DEF LoadsOK, ForksOK, SwapperOK
<1>24. \A q \in Procs : WaitOK(q)
  <2>1. Nothing # GetPage /\ Nothing \notin Procs
    BY MemoryAssumption DEF Nothing, GetPage
  <2>2. QED BY <1>9, <2>1 DEF WaitOK
<1>25. QED BY <1>15, <1>18, <1>19, <1>20, <1>21, <1>22, <1>23, <1>24 DEF MemInv, Sound

(***************************************************************************)
(* The invariant holds, and what it says.                                  *)
(***************************************************************************)
LEMMA StutterOK ==
  ASSUME MemInv, UNCHANGED memVars
  PROVE  MemInv'
<1>1. /\ u_area' = u_area /\ m' = m /\ waits' = waits /\ sw' = sw /\ binary' = binary /\ cpu' = cpu
  BY DEF memVars
<1>2. sw \in Swappers /\ SwapperOK /\ binary \in [Binaries -> BinaryFiles] /\ cpu \in Procs \cup {0}
  BY DEF MemInv, TypeOK
<1>3. SwapperOK'
  BY <1>1, <1>2 DEF SwapperOK
<1>4. QED BY <1>1, <1>2, <1>3, StillStep

LEMMA NextOK ==
  ASSUME MemInv, [MemNext]_memVars
  PROVE  MemInv'
<1>1. ASSUME NEW q \in Procs, Continue(q) PROVE MemInv'
  BY <1>1, NewTableOK, FillOK, LoadedOK, CopyOK, ForkedOK, ExecArgsOK, ExecImageOK DEF Continue
<1>2. ASSUME NEW q \in Procs, NEW v \in VPages, Fault(q, v) PROVE MemInv'
  BY <1>2, TableFaultOK, FoundOK, WaitStepOK, BeginOK, ProtectionFaultOK DEF Fault
<1>3. ASSUME NEW q \in Procs, NEW v \in VPages, SwapOut(q, v) PROVE MemInv'
  BY <1>3, DroppedOK, WrittenOK DEF SwapOut
<1>4. ASSUME NEW q \in Procs, brk(q) \/ fork(q) \/ exit(q) \/ release_zombie(q) \/ swapon(q) PROVE MemInv'
  BY <1>4, BrkOK, ForkOK, ExitOK, ReleaseZombieOK, SwaponOK
<1>5. ASSUME NEW q \in Procs, NEW f \in Binaries, exec(q, f) PROVE MemInv'
  BY <1>5, ExecOK
<1>6. ASSUME NEW q \in Procs, NEW w \in Nat, ExecStack(q, w) PROVE MemInv'
  BY <1>6, ExecStackOK
<1>7. ASSUME NEW q \in Procs, NEW w \in Nat, NEW v \in VPages, Store(q, v, w) PROVE MemInv'
  BY <1>7, StoreOK
<1>8. ASSUME SwapperSleeps \/ Saved \/ Stale PROVE MemInv'
  BY <1>8, SwapperSleepsOK, SavedOK, StaleOK
<1>9. ASSUME NEW f \in Binaries, Rewrite(f) PROVE MemInv'
  BY <1>9, RewriteOK
<1>10. CASE UNCHANGED memVars
  BY <1>10, StutterOK
<1>11. CASE MemNext
  BY <1>1, <1>2, <1>3, <1>4, <1>5, <1>6, <1>7, <1>8, <1>9, <1>11 DEF MemNext
<1>12. QED BY <1>10, <1>11

LEMMA InvCounted ==
  ASSUME MemInv
  PROVE  PagesCounted
<1>1. Sound(m, Holding, Blocks)
  BY DEF MemInv
<1>2. ASSUME NEW p \in Pages
      PROVE  /\ m.pg[p].count = Cardinality(Users(p))
             /\ (m.pg[p].count = 0) <=> (p \in Range(m.free))
             /\ m.pg[p].hashed => m.pg[p].key # None /\ pg_hash_search(m, m.pg[p].key) = {p}
  <2>1. Users(p) = Has(Holding, Places, p)
    BY DEF Users, Has, Holding
  <2>2. m.pg[p].hashed => m.pg[p].key # None /\ pg_hash_search(m, m.pg[p].key) = {p}
    BY <1>1 DEF Sound, Cached, pg_hash_search
  <2>3. QED BY <1>1, <2>1, <2>2 DEF Sound, PagesBalanced
<1>3. ASSUME NEW b \in Swap PROVE m.swap.bitmap[b] = Cardinality(OnBlock(b))
  <2>1. OnBlock(b) = Has(Blocks, VPlaces, b)
    BY DEF OnBlock, Has, Blocks, VPlaces
  <2>2. QED BY <1>1, <2>1 DEF Sound, BlocksBalanced
<1>4. m.swap.latest # -1 => m.swap.free = Cardinality(FreeBlocks(m))
  BY <1>1 DEF Sound, BlocksBalanced
<1>5. IsInjective(m.free)
  BY <1>1 DEF Sound, PagesBalanced
<1>6. QED BY <1>2, <1>3, <1>4, <1>5 DEF PagesCounted

LEMMA InvWaits ==
  ASSUME MemInv
  PROVE  NoPageWaitForgotten
<1>1. waits \in [Procs -> Procs \cup {Nothing, GetPage}] /\ \A q \in Procs : WaitOK(q)
  BY DEF MemInv, TypeOK
<1>2. ASSUME NEW q \in Procs
      PROVE  /\ waits[q] = GetPage => free_pages < Needs(q) /\ sw.pc # "asleep"
             /\ waits[q] \notin {Nothing, GetPage} =>
                   \E r \in Procs : waits[q] = Loading(r) /\ u_area[r].busyblock = u_area[q].pgtbl[u_area[q].v].key
  BY <1>1 DEF WaitOK, Loading
<1>3. QED BY <1>2 DEF NoPageWaitForgotten

\* The invariant from which the next two follow: every operation on pages and swap
\* blocks (get_page() to release_swap_block(), vm/mm.c and vm/swap.c) keeps the counts,
\* and every step of fork(), exec(), exit(), the faults and the swapper uses them so.
THEOREM MemoryInvariant == MemSpec => []MemInv
<1>1. MemInit => MemInv
  BY InitOK
<1>2. MemInv /\ [MemNext]_memVars => MemInv'
  BY NextOK
<1>3. QED BY <1>1, <1>2, PTL DEF MemSpec

\* Whatever the processes, the memory and the swap device: the count of a page, and of a
\* swap block, is the number of its uses; free is what has none, once each; and a block
\* is found in one page at most (vm/mm.c, vm/swap.c).
THEOREM PagesAlwaysCounted == MemSpec => []PagesCounted
<1>1. MemInv => PagesCounted
  BY InvCounted
<1>2. QED BY <1>1, MemoryInvariant, PTL

\* A process that sleeps in reserve_pages() lacks the pages it asked for, and the
\* swapper is not asleep meanwhile; one that sleeps for a block has another that loads
\* just that block (vm/mm.c, vm/swap.c).
THEOREM NoPageWaitEverForgotten == MemSpec => []NoPageWaitForgotten
<1>1. MemInv => NoPageWaitForgotten
  BY InvWaits
<1>2. QED BY <1>1, MemoryInvariant, PTL
=============================================================================
