------------------------------- MODULE Chunks -------------------------------
(***************************************************************************)
(* The kernel's sub-allocator, vm/vmalloc.c: a page is divided into chunks *)
(* of one size, 512, 1024 or 2048 bytes, and the pages with a free chunk   *)
(* are on a list per size.  A dedicated page comes from its caller's pool, *)
(* which the buffer cache keeps (fs/buffer.c), and goes back to it.        *)
(* map is the set of the units of 512 bytes of a page that are free; a     *)
(* chunk is a page and a unit.                                             *)
(***************************************************************************)
EXTENDS Integers, Sequences, SequencesExt, FiniteSets, FiniteSetsExt

CONSTANTS ChunkPages,   \* pages of memory, 1..n
          Dedicated     \* those in the dedicated pool at the start

ASSUME ChunksAssumption == Dedicated \subseteq ChunkPages /\ ChunkPages \subseteq Nat \ {0}

Sizes == {1, 2, 4}      \* in units
Units == 0..7           \* of a page

VARIABLES pgd,          \* pgdata of each page: map, size (block), dedicated
          m_vect,       \* the pages on each list, the head first
          pool,         \* free pages and free dedicated pages
          chunks        \* the chunks in use, as <<page, first unit, size>>

chVars == <<pgd, m_vect, pool, chunks>>

ChunksInit ==
    /\ pgd = [p \in ChunkPages |-> [map |-> {}, size |-> 0, dedicated |-> FALSE]]
    /\ m_vect = [s \in Sizes |-> <<>>]
    /\ pool = [normal |-> ChunkPages \ Dedicated, dedicated |-> Dedicated]
    /\ chunks = {}

Chunk(first, s) == first..first + s - 1

\* Mutant: a full page stays at the head of the list.
StillOpen_Always(list, map) == list

\* A page with nothing left is taken off the head of the list.
StillOpen(list, map) == IF map = {} THEN Tail(list) ELSE list

\* vm_alloc() from the first page of the list.
AllocOpen(s) ==
    LET p == Head(m_vect[s])
        first == Min(pgd[p].map)
        map == pgd[p].map \ Chunk(first, s)
    IN
    /\ m_vect[s] # <<>>
    /\ pgd' = [pgd EXCEPT ![p].map = map]
    /\ m_vect' = [m_vect EXCEPT ![s] = StillOpen(@, map)]
    /\ chunks' = chunks \cup {<<p, first, s>>}
    /\ UNCHANGED pool

\* vm_alloc() of a new page, a dedicated one if the caller has a pool and it is not empty.
AllocNew(s, use_pool) ==
    LET dedicated == use_pool /\ pool.dedicated # {} IN
    /\ m_vect[s] = <<>>
    /\ \E p \in IF dedicated THEN pool.dedicated ELSE pool.normal :
          /\ pgd' = [pgd EXCEPT ![p] = [map |-> Units \ Chunk(0, s), size |-> s, dedicated |-> dedicated]]
          /\ m_vect' = [m_vect EXCEPT ![s] = <<p>>]
          /\ chunks' = chunks \cup {<<p, 0, s>>}
          /\ pool' = [normal |-> pool.normal \ {p}, dedicated |-> pool.dedicated \ {p}]

\* vm_alloc() returns NULL.
AllocFails(s, use_pool) ==
    /\ m_vect[s] = <<>> /\ pool.normal = {} /\ (use_pool => pool.dedicated = {})
    /\ UNCHANGED chVars

vm_alloc(s, use_pool) == AllocOpen(s) \/ AllocNew(s, use_pool) \/ AllocFails(s, use_pool)

\* The list without a page of it, wherever that stands.
vm_alloc_delete(list, p) == RemoveAt(list, CHOOSE i \in DOMAIN list : list[i] = p)

\* vm_free(): a page that was full is put on its list; one that is empty leaves it
\* for the pool it came from.
vm_free(c) ==
    LET p == c[1]
        s == pgd[p].size
        map == pgd[p].map \cup Chunk(c[2], s)
    IN
    /\ c \in chunks
    /\ chunks' = chunks \ {c}
    /\ \/ /\ pgd[p].map = {}
          /\ pgd' = [pgd EXCEPT ![p].map = map]
          /\ m_vect' = [m_vect EXCEPT ![s] = <<p>> \o @]
          /\ UNCHANGED pool
       \/ /\ pgd[p].map # {} /\ map # Units
          /\ pgd' = [pgd EXCEPT ![p].map = map]
          /\ UNCHANGED <<m_vect, pool>>
       \/ /\ pgd[p].map # {} /\ map = Units
          /\ pgd' = [pgd EXCEPT ![p].map = map, ![p].size = 0]
          /\ m_vect' = [m_vect EXCEPT ![s] = vm_alloc_delete(@, p)]
          /\ pool' = IF pgd[p].dedicated THEN [pool EXCEPT !.dedicated = @ \cup {p}]
                                         ELSE [pool EXCEPT !.normal = @ \cup {p}]

ChNext == \/ \E s \in Sizes, use_pool \in BOOLEAN : vm_alloc(s, use_pool)
          \/ \E c \in chunks : vm_free(c)

ChSpec == ChunksInit /\ [][ChNext]_chVars

\* vm_alloc() and vm_free() (vm/vmalloc.c): chunks in use do not overlap, also when
\* pages of several sizes and of both pools are mixed; the list of a size holds its
\* pages that have a free chunk, once each; and a page is back in its own pool exactly
\* when nothing of it is in use.
ChunksDisjoint ==
    /\ \A c, d \in chunks : c # d /\ c[1] = d[1] => Chunk(c[2], c[3]) \cap Chunk(d[2], d[3]) = {}
    /\ \A p \in ChunkPages :
          LET mine == {c \in chunks : c[1] = p}
              used == UNION {Chunk(c[2], c[3]) : c \in mine}
          IN  /\ mine # {} => /\ pgd[p].map = Units \ used
                              /\ \A c \in mine : c[3] = pgd[p].size /\ c[2] % c[3] = 0
                              /\ p \in Range(m_vect[pgd[p].size]) <=> used # Units
              /\ mine = {} <=> p \in IF p \in Dedicated THEN pool.dedicated ELSE pool.normal
    /\ \A s \in Sizes : /\ IsInjective(m_vect[s])
                        /\ \A p \in Range(m_vect[s]) : pgd[p].map # {}

=============================================================================
