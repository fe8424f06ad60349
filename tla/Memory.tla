------------------------------- MODULE Memory -------------------------------
(***************************************************************************)
(* Virtual memory: vm/mm.c, the page side of vm/swap.c, and what fork(),   *)
(* exec(), exit() and wait() do with pages (kernel/fork.c, exec.c, exit.c).*)
(*                                                                         *)
(* An address space is four pages, one of each kind the code treats        *)
(* differently, in three page tables: text and data of the binary, the     *)
(* heap past the first table, and the stack.  A step is the code between   *)
(* two calls that may sleep, or, in the swapper, between enable() and      *)
(* disable(): cpu is the process in the middle of a call, if any.  Pages   *)
(* and blocks hold one value.  What a process has stored, or its binary    *)
(* held at exec(), is remembered in mem and compared with what it reads.   *)
(***************************************************************************)
EXTENDS Integers, FiniteSets, SequencesExt, FiniteSetsExt

CONSTANTS Procs,            \* process slots, 1..n; 1 never exits
          NPages,           \* pages of memory that processes may use
          LOW_PAGES_LIMIT, HIGH_PAGES_LIMIT,
          SwapBlocks,       \* blocks of the swap device, the unused block 0 aside
          Binaries          \* files that can be executed

Requests == 5               \* the most pages one call reserves: fork() of three tables

ASSUME MemoryAssumption ==
    /\ 1 \in Procs /\ IsFiniteSet(Procs) /\ (Procs \cup Binaries) \subseteq Nat \ {0}
    /\ {NPages, LOW_PAGES_LIMIT, HIGH_PAGES_LIMIT, SwapBlocks} \subseteq Nat
    /\ LOW_PAGES_LIMIT <= HIGH_PAGES_LIMIT /\ Requests <= HIGH_PAGES_LIMIT

VARIABLES m,        \* pages, their data, the free list, the swap device
          u_area,   \* the processes
          waits,    \* the channel each process sleeps on
          sw,       \* the swapper
          binary,   \* version of each binary, is it newer than the page cache, may it be written
          cpu       \* the process in a call that has not slept yet, 0: none

memVars == <<m, u_area, waits, sw, binary, cpu>>

Pages  == 1..NPages
TEXT   == 1
DATA   == 2
HEAP   == 3
STACK  == 4
VPages == TEXT..STACK
Tables == {"image", "heap", "stack"}
TableOf(v) == IF v \in {TEXT, DATA} THEN "image" ELSE IF v = HEAP THEN "heap" ELSE "stack"

PAGE_DZ   == 0
PAGE_FILE == 2
PAGE_SWAP == 3

\* A vmdev and a block of it: 0 is none, b block b of the swap device, a negative
\* number the block of a binary that holds its page v.
None          == 0
Swap          == 1..SwapBlocks
FileKey(f, v) == -(5 * f + v)
BinaryOf(key) == (-key) \div 5

\* What a page or a block holds: a value some process stored, zeros at first, or the
\* page of a binary.
Stored(w)     == <<None, w>>
Zeros         == Stored(0)
Image(key, version) == <<key, version>>
Contents(key) == IF key \in Swap THEN m.disk[key] ELSE Image(key, binary[BinaryOf(key)].version)

\* A page table entry, of a page that is there or, as an extpgtbl_t, of one that is
\* not.  (While a page is looked for, its busy bit is a bit of the block number; nobody
\* reads that number meanwhile.)
Missing(type, key) == [present |-> FALSE, page |-> 0, rw |-> FALSE, busy |-> FALSE, type |-> type, key |-> key]
Mapped(p, rw)      == [present |-> TRUE, page |-> p, rw |-> rw, busy |-> FALSE, type |-> PAGE_DZ, key |-> None]
Empty              == Missing(PAGE_DZ, None)

(***************************************************************************)
(* Pages: the free list is used first in, first out; a free page keeps its *)
(* block and can be found by it until it is used again.                    *)
(***************************************************************************)
free_pages          == Len(m.free)
pg_hash_search(x, key) == {p \in Pages : x.pg[p].hashed /\ x.pg[p].key = key}

Unhashed(x, ps) == [x EXCEPT !.pg = [p \in Pages |-> IF p \in ps THEN [@[p] EXCEPT !.hashed = FALSE, !.key = None]
                                                     ELSE @[p]]]

get_page(x) == LET p == Head(x.free)
               IN  [Unhashed(x, {p}) EXCEPT !.free = Tail(@), !.pg[p].count = 1]

release_page(x, p) ==
    IF x.pg[p].count > 1 THEN [x EXCEPT !.pg[p].count = @ - 1]
    ELSE [x EXCEPT !.pg[p].count = 0, !.free = Append(@, p)]

\* A page that was found is used once more, and no longer free.
reuse_page(x, p) ==
    LET places == {i \in DOMAIN x.free : x.free[i] = p}
    IN  [x EXCEPT !.pg[p].count = @ + 1, !.free = IF places = {} THEN @ ELSE RemoveAt(@, CHOOSE i \in places : TRUE)]

clear_free_list(x) == Unhashed(x, Range(x.free))

(***************************************************************************)
(* Swap blocks.                                                            *)
(***************************************************************************)
release_swap_block(x, b) ==
    [x EXCEPT !.swap.bitmap[b] = @ - 1, !.swap.free = @ + (IF x.swap.bitmap[b] = 1 THEN 1 ELSE 0)]

\* get_swap_block() of a block that the page is on already.
share_swap_block(x, b) ==
    [x EXCEPT !.swap.bitmap[b] = @ + 1, !.swap.free = @ - (IF x.swap.bitmap[b] = 0 THEN 1 ELSE 0)]

FreeBlocks(x) == {b \in Swap : x.swap.bitmap[b] = 0}
NextBlock(x)  == LET after == {b \in FreeBlocks(x) : b > x.swap.latest}
                 IN  IF after # {} THEN Min(after) ELSE Min(FreeBlocks(x))

\* get_swap_block() of a free one: a page that is still on it no longer is.
get_swap_block(x, b) ==
    [Unhashed(x, pg_hash_search(x, b)) EXCEPT !.swap.bitmap[b] = 1, !.swap.free = @ - 1, !.swap.latest = b]

delete_page(x, e) ==
    IF e.present THEN release_page(x, e.page)
    ELSE IF e.type = PAGE_SWAP /\ e.key # None THEN release_swap_block(x, e.key) ELSE x

(***************************************************************************)
(* Processes.                                                              *)
(***************************************************************************)
Unused == [state |-> "unused", pid |-> 0, prog |-> 0, kernel |-> <<0, 0>>,
           tables |-> [t \in Tables |-> 0], pgtbl |-> [v \in VPages |-> Empty],
           swapable |-> FALSE, brk |-> FALSE, busyblock |-> None,
           pc |-> "user", v |-> TEXT, page |-> 0, child |-> 0, mem |-> [v \in VPages |-> Zeros]]

\* The channels: &get_page, and &u_area[r].busyblock.
Nothing    == -1
GetPage    == 0
Loading(r) == r

Awake(q, pc) == /\ u_area[q].state = "alive" /\ u_area[q].pc = pc
                /\ waits[q] = Nothing /\ cpu \in {0, q} /\ sw.pc # "stale"

WakeAll(channel) == [q \in Procs |-> IF waits[q] = channel THEN Nothing ELSE waits[q]]

\* Mutant: nobody is told.
WakeIfFreed_Never(x) == UNCHANGED waits

\* Whoever waits for pages is woken when one was freed.
WakeIfFreed(x) == waits' = (IF Len(x.free) > free_pages THEN WakeAll(GetPage) ELSE waits)

SwapperOn == [sw EXCEPT !.pc = IF @ = "asleep" THEN "scan" ELSE @]

\* reserve_pages(): sleep until there are n pages, after waking the swapper.
reserve_pages(q, n) ==
    /\ free_pages < n
    /\ waits' = [waits EXCEPT ![q] = GetPage]
    /\ sw' = SwapperOn
    /\ cpu' = 0
    /\ UNCHANGED <<m, u_area, binary>>

\* get_page() wakes the swapper when few pages are left.
LowOnPages(x) == sw' = IF Len(x.free) < LOW_PAGES_LIMIT THEN SwapperOn ELSE sw

Become(q, r) == u_area' = [u_area EXCEPT ![q] = r]

(***************************************************************************)
(* Init: vm_init() and what followed it.  Process q of the set alive runs  *)
(* binary prog[q]; its pages are the first ones.                           *)
(***************************************************************************)
FirstPages(q) == [i \in 1..5 |-> 5 * (q - 1) + i]
Started(q, f) ==
    LET p == FirstPages(q)
    IN  [Unused EXCEPT !.state = "alive", !.pid = q, !.prog = f, !.swapable = TRUE, !.kernel = <<p[1], p[2]>>,
            !.tables = [t \in Tables |-> IF t = "image" THEN p[3] ELSE IF t = "stack" THEN p[4] ELSE 0],
            !.pgtbl = [v \in VPages |-> IF v \in {TEXT, DATA} THEN Missing(PAGE_FILE, FileKey(f, v))
                                        ELSE IF v = STACK THEN Mapped(p[5], TRUE) ELSE Empty],
            !.mem = [v \in VPages |-> IF v \in {TEXT, DATA} THEN Image(FileKey(f, v), 1) ELSE Zeros]]

MemoryInit(prog, swapping) ==
    LET used == 5 * Len(prog) IN
    /\ m = [pg |-> [p \in Pages |-> [count |-> IF p <= used THEN 1 ELSE 0, key |-> None, hashed |-> FALSE,
                                    type |-> IF p <= used THEN PAGE_SWAP ELSE PAGE_DZ]],
            data |-> [p \in Pages |-> Zeros], disk |-> [b \in Swap |-> Zeros],
            free |-> [i \in 1..NPages - used |-> used + i],
            swap |-> [bitmap |-> [b \in Swap |-> 0], free |-> IF swapping THEN SwapBlocks ELSE 0,
                      latest |-> IF swapping THEN 0 ELSE -1],
            swap_map |-> 0]
    /\ u_area = [q \in Procs |-> IF q \in DOMAIN prog THEN Started(q, prog[q]) ELSE Unused]
    /\ waits = [q \in Procs |-> Nothing]
    /\ sw = [pc |-> "scan", proc |-> 0, pid |-> 0, table |-> 0, page |-> 0, block |-> None]
    /\ binary = [f \in Binaries |-> [version |-> 1, newer |-> FALSE, write_denied |-> f \in Range(prog)]]
    /\ cpu = 0

(***************************************************************************)
(* page_not_present_fault().                                               *)
(***************************************************************************)
Touchable(q) == IF u_area[q].brk THEN VPages ELSE VPages \ {HEAP}

\* A fault on a page, and its restart after another process has loaded the block.
Faults(q, v) == /\ \/ Awake(q, "user") /\ v \in Touchable(q)
                   \/ Awake(q, "fault") /\ v = u_area[q].v
                /\ ~u_area[q].pgtbl[v].present

\* The page table is missing: one page for it.
TableFault(q, v) ==
    /\ Faults(q, v) /\ u_area[q].tables[TableOf(v)] = 0
    /\ Become(q, [u_area[q] EXCEPT !.pc = "table", !.v = v])
    /\ cpu' = q /\ UNCHANGED <<m, waits, sw, binary>>

NewTable(q) ==
    /\ Awake(q, "table")
    /\ \/ reserve_pages(q, 1)
       \/ /\ free_pages >= 1
          /\ m' = get_page(m)
          /\ Become(q, [u_area[q] EXCEPT !.pc = "user", !.tables[TableOf(u_area[q].v)] = Head(m.free)])
          /\ LowOnPages(m') /\ cpu' = 0 /\ UNCHANGED <<waits, binary>>

\* The block is in a page already, used or free: share it.
Found(q, v) ==
    LET e == u_area[q].pgtbl[v] IN
    /\ Faults(q, v) /\ e.key # None
    /\ \E p \in pg_hash_search(m, e.key) :
          LET x == reuse_page(m, p)
          IN  /\ m' = IF e.type = PAGE_SWAP THEN release_swap_block(x, e.key) ELSE x
              /\ Become(q, [u_area[q] EXCEPT !.pc = "user", !.pgtbl[v] = Mapped(p, FALSE)])
    /\ cpu' = 0 /\ UNCHANGED <<waits, sw, binary>>

\* Mutant: a block that is being loaded is loaded again.
block_is_loading_Never(key) == {}

block_is_loading(key) == {r \in Procs : u_area[r].state = "alive" /\ u_area[r].busyblock = key}

\* Another process is loading the block: wait for it and look again.
Wait(q, v) ==
    LET e == u_area[q].pgtbl[v] IN
    /\ Faults(q, v) /\ e.key # None /\ pg_hash_search(m, e.key) = {}
    /\ block_is_loading(e.key) # {}
    /\ waits' = [waits EXCEPT ![q] = Loading(Min(block_is_loading(e.key)))]
    /\ Become(q, [u_area[q] EXCEPT !.pc = "fault", !.v = v])
    /\ cpu' = 0 /\ UNCHANGED <<m, sw, binary>>

Begin(q, v) ==
    LET e == u_area[q].pgtbl[v] IN
    /\ Faults(q, v) /\ u_area[q].tables[TableOf(v)] # 0
    /\ e.key # None => pg_hash_search(m, e.key) = {} /\ block_is_loading(e.key) = {}
    /\ Become(q, [u_area[q] EXCEPT !.pc = "fill", !.v = v, !.busyblock = e.key])
    /\ cpu' = q /\ UNCHANGED <<m, waits, sw, binary>>

\* A page for it: zeros at once, anything else after a read.
Fill(q) ==
    LET v == u_area[q].v
        e == u_area[q].pgtbl[v]
        p == Head(m.free)
        x == [get_page(m) EXCEPT !.pg[p] = [@ EXCEPT !.type = e.type, !.key = e.key]]
    IN
    /\ Awake(q, "fill")
    /\ \/ reserve_pages(q, 1)
       \/ /\ free_pages >= 1
          /\ LowOnPages(x) /\ cpu' = 0 /\ UNCHANGED <<waits, binary>>
          /\ \/ /\ e.type = PAGE_DZ
                /\ m' = [x EXCEPT !.data[p] = Zeros]
                /\ Become(q, [u_area[q] EXCEPT !.pc = "user", !.pgtbl[v] = Mapped(p, FALSE)])
             \/ /\ e.type # PAGE_DZ
                /\ m' = x
                /\ Become(q, [u_area[q] EXCEPT !.pc = "load", !.pgtbl[v] = [Mapped(p, FALSE) EXCEPT !.busy = TRUE]])

\* The block is read, by a_out_read() or load_page(); those who wait for it wake up.
Loaded(q) ==
    LET v == u_area[q].v
        p == u_area[q].pgtbl[v].page
        key == m.pg[p].key
        x == [m EXCEPT !.data[p] = Contents(key), !.pg[p].hashed = TRUE]
    IN
    /\ Awake(q, "load")
    /\ m' = IF m.pg[p].type = PAGE_SWAP THEN release_swap_block(x, key) ELSE x
    /\ Become(q, [u_area[q] EXCEPT !.pc = "user", !.busyblock = None, !.pgtbl[v].busy = FALSE])
    /\ waits' = WakeAll(Loading(q))
    /\ cpu' = 0 /\ UNCHANGED <<sw, binary>>

(***************************************************************************)
(* page_protection_fault(): a store to a page that may be shared.          *)
(***************************************************************************)
not_shared(q, v, p) ==
    /\ m' = [Unhashed(m, {p}) EXCEPT !.pg[p].type = PAGE_SWAP]
    /\ Become(q, [u_area[q] EXCEPT !.pc = "user", !.pgtbl[v].rw = TRUE, !.pgtbl[v].busy = FALSE])
    /\ cpu' = 0 /\ UNCHANGED <<waits, sw, binary>>

ProtectionFault(q, v) ==
    LET e == u_area[q].pgtbl[v] IN
    /\ Awake(q, "user") /\ v \in Touchable(q) \ {TEXT}
    /\ e.present /\ ~e.rw
    /\ \/ m.pg[e.page].count = 1 /\ not_shared(q, v, e.page)
       \/ /\ m.pg[e.page].count > 1
          /\ Become(q, [u_area[q] EXCEPT !.pc = "copy", !.v = v, !.pgtbl[v].busy = TRUE])
          /\ cpu' = q /\ UNCHANGED <<m, waits, sw, binary>>

\* A page of its own, unless the others have gone while it slept.
Copy(q) ==
    LET v == u_area[q].v
        old == u_area[q].pgtbl[v].page
        new == Head(m.free)
    IN
    /\ Awake(q, "copy")
    /\ \/ reserve_pages(q, 1)
       \/ free_pages >= 1 /\ m.pg[old].count = 1 /\ not_shared(q, v, old)
       \/ /\ free_pages >= 1 /\ m.pg[old].count > 1
          /\ m' = [get_page(m) EXCEPT !.pg[old].count = @ - 1, !.pg[new].type = PAGE_SWAP,
                                      !.data[new] = m.data[old]]
          /\ Become(q, [u_area[q] EXCEPT !.pc = "user", !.pgtbl[v] = Mapped(new, TRUE)])
          /\ LowOnPages(m') /\ cpu' = 0 /\ UNCHANGED <<waits, binary>>

\* The processor stores value w where it may.
Store(q, v, w) ==
    LET e == u_area[q].pgtbl[v] IN
    /\ Awake(q, "user") /\ v \in Touchable(q) /\ e.present /\ e.rw
    /\ m' = [m EXCEPT !.data[e.page] = Stored(w)]
    /\ Become(q, [u_area[q] EXCEPT !.mem[v] = Stored(w)])
    /\ UNCHANGED <<waits, sw, binary, cpu>>

(***************************************************************************)
(* release_memory(), sys_brk().                                            *)
(***************************************************************************)
Detached(x, q, v) == delete_page(x, u_area[q].pgtbl[v])
WithoutTable(x, q, t) == LET p == u_area[q].tables[t] IN IF p = 0 THEN x ELSE release_page(x, p)

WithoutHeap(x, q)  == WithoutTable(Detached(x, q, HEAP), q, "heap")
release_memory(x, q) ==
    LET image == WithoutTable(Detached(Detached(x, q, TEXT), q, DATA), q, "image")
    IN  WithoutTable(Detached(WithoutHeap(image, q), q, STACK), q, "stack")

\* The heap ends before its table, and the table goes; or it begins again.
brk(q) ==
    /\ Awake(q, "user")
    /\ \/ /\ u_area[q].brk
          /\ m' = WithoutHeap(m, q)
          /\ Become(q, [u_area[q] EXCEPT !.brk = FALSE, !.pgtbl[HEAP] = Empty, !.tables["heap"] = 0,
                                         !.mem[HEAP] = Zeros])
          /\ WakeIfFreed(m')
       \/ /\ ~u_area[q].brk
          /\ Become(q, [u_area[q] EXCEPT !.brk = TRUE]) /\ UNCHANGED <<m, waits>>
    /\ UNCHANGED <<sw, binary, cpu>>

(***************************************************************************)
(* sys_fork().                                                             *)
(***************************************************************************)
HasTable(q) == {t \in Tables : u_area[q].tables[t] # 0}
Requested(q) == 2 + Cardinality(HasTable(q))

fork(q) ==
    /\ Awake(q, "user")
    /\ \E r \in Procs :
          /\ u_area[r].state = "unused" /\ \A o \in Procs : u_area[o].child # r
          /\ Become(q, [u_area[q] EXCEPT !.pc = "fork", !.child = r])
    /\ cpu' = q /\ UNCHANGED <<m, waits, sw, binary>>

\* Mutant: the parent and the child both may write.
ReadOnly_Writable(pgtbl) == pgtbl

\* What is shared may be written by neither.
ReadOnly(pgtbl) == [v \in VPages |-> [pgtbl[v] EXCEPT !.rw = FALSE]]

\* Both have what was there, and count it.
Shared(x, e) ==
    IF e.present THEN [x EXCEPT !.pg[e.page].count = @ + 1]
    ELSE IF e.type = PAGE_SWAP /\ e.key # None THEN [x EXCEPT !.swap.bitmap[e.key] = @ + 1] ELSE x

AllShared(x, pgtbl) == Shared(Shared(Shared(Shared(x, pgtbl[TEXT]), pgtbl[DATA]), pgtbl[HEAP]), pgtbl[STACK])

\* The pages of the child: of its stack, its page directory, and one for each table of
\* its parent in the order of their addresses.
GetIf(x, needed) == IF needed THEN get_page(x) ELSE x
BeforeTable(q, t) ==
    LET first == get_page(get_page(m))
        next  == GetIf(first, "image" \in HasTable(q))
    IN  IF t = "image" THEN first ELSE IF t = "heap" THEN next ELSE GetIf(next, "heap" \in HasTable(q))
AfterTables(q) == GetIf(BeforeTable(q, "stack"), "stack" \in HasTable(q))

ForkParent(q) == [u_area[q] EXCEPT !.pc = "user", !.child = 0, !.pgtbl = ReadOnly(@)]
ForkChild(q) ==
    [u_area[q] EXCEPT !.pid = Max({u_area[o].pid : o \in Procs}) + 1,
                      !.kernel = <<Head(m.free), Head(get_page(m).free)>>,
                      !.tables = [t \in Tables |-> IF t \in HasTable(q) THEN Head(BeforeTable(q, t).free) ELSE 0],
                      !.pgtbl = ReadOnly(@), !.pc = "user", !.child = 0]

Forked(q) ==
    /\ Awake(q, "fork")
    /\ \/ reserve_pages(q, Requested(q))
       \/ /\ free_pages >= Requested(q)
          /\ m' = AllShared(AfterTables(q), u_area[q].pgtbl)
          /\ u_area' = [u_area EXCEPT ![q] = ForkParent(q), ![u_area[q].child] = ForkChild(q)]
          /\ LowOnPages(m') /\ cpu' = 0 /\ UNCHANGED <<waits, binary>>

(***************************************************************************)
(* sys_exit() and release_zombie().                                        *)
(***************************************************************************)
exit(q) ==
    /\ q # 1 /\ Awake(q, "user")
    /\ m' = release_memory(m, q)
    /\ Become(q, [Unused EXCEPT !.state = "zombie", !.kernel = u_area[q].kernel, !.pid = u_area[q].pid])
    /\ LET f == u_area[q].prog
           executing == \E r \in Procs \ {q} : u_area[r].state = "alive" /\ u_area[r].prog = f
       IN  binary' = [binary EXCEPT ![f].write_denied = executing]
    /\ WakeIfFreed(m') /\ UNCHANGED <<sw, cpu>>

\* The parent gives back the last two pages of a zombie.
release_zombie(q) ==
    /\ Awake(1, "user") /\ u_area[q].state = "zombie"
    /\ m' = release_page(release_page(m, u_area[q].kernel[1]), u_area[q].kernel[2])
    /\ Become(q, Unused)
    /\ WakeIfFreed(m') /\ UNCHANGED <<sw, binary, cpu>>

(***************************************************************************)
(* sys_exec().                                                             *)
(***************************************************************************)
\* The header of the binary is read; then one page for the arguments.
exec(q, f) ==
    /\ Awake(q, "user")
    /\ Become(q, [u_area[q] EXCEPT !.pc = "exec_args", !.prog = f, !.swapable = FALSE])
    /\ binary' = [binary EXCEPT ![f].write_denied = TRUE]
    /\ cpu' = 0 /\ UNCHANGED <<m, waits, sw>>

\* The old memory is given back, and the arguments go with the process.
ExecArgs(q) ==
    /\ Awake(q, "exec_args")
    /\ \/ reserve_pages(q, 1)
       \/ LET x == get_page(m)
          IN  /\ free_pages >= 1
              /\ m' = release_memory(x, q)
              /\ Become(q, [u_area[q] EXCEPT !.pc = "exec_image", !.page = Head(m.free), !.brk = FALSE,
                                !.pgtbl = [v \in VPages |-> Empty], !.tables = [t \in Tables |-> 0]])
              /\ WakeIfFreed(m') /\ LowOnPages(x)
              /\ cpu' = q /\ UNCHANGED binary

\* The first page table, and in it where the binary's pages are, which bmap() reads.
ExecImage(q) ==
    /\ Awake(q, "exec_image")
    /\ \/ reserve_pages(q, 1)
       \/ /\ free_pages >= 1
          /\ m' = get_page(m)
          /\ Become(q, [u_area[q] EXCEPT !.pc = "exec_stack", !.tables["image"] = Head(m.free),
                            !.pgtbl = [v \in VPages |-> IF v \in {TEXT, DATA}
                                         THEN Missing(PAGE_FILE, FileKey(u_area[q].prog, v)) ELSE Empty]])
          /\ LowOnPages(m') /\ cpu' = 0 /\ UNCHANGED <<waits, binary>>

\* The page cache is cleared for a binary that is newer than it, within ten seconds.
ClearIfNewer(x, f) ==
    \/ ~binary[f].newer /\ m' = x /\ UNCHANGED binary
    \/ /\ binary[f].newer
       /\ m' = clear_free_list(x)
       /\ \E newer \in BOOLEAN : binary' = [binary EXCEPT ![f].newer = newer]

\* The table of the stack, with the page of the arguments, which hold w.
ExecStack(q, w) ==
    LET u == u_area[q] IN
    /\ Awake(q, "exec_stack")
    /\ \/ reserve_pages(q, 1)
       \/ LET x == get_page(m)
          IN  /\ free_pages >= 1
              /\ ClearIfNewer([x EXCEPT !.pg[u.page].type = PAGE_SWAP, !.data[u.page] = Stored(w)], u.prog)
              /\ Become(q, [u EXCEPT !.pc = "user", !.page = 0, !.swapable = TRUE,
                               !.tables["stack"] = Head(m.free), !.pgtbl[STACK] = Mapped(u.page, TRUE),
                               !.mem = [v \in VPages |->
                                          IF v \in {TEXT, DATA} THEN Image(FileKey(u.prog, v), binary[u.prog].version)
                                          ELSE IF v = STACK THEN Stored(w) ELSE Zeros]])
              /\ LowOnPages(x) /\ cpu' = 0 /\ UNCHANGED waits

\* A binary that may be written is truncated and written again.
Rewrite(f) ==
    /\ cpu = 0 /\ sw.pc # "stale"
    /\ ~binary[f].write_denied
    /\ binary' = [binary EXCEPT ![f].version = @ + 1, ![f].newer = TRUE]
    /\ UNCHANGED <<m, u_area, waits, sw, cpu>>

(***************************************************************************)
(* The swapper.  Between two pages other processes may run, and while it   *)
(* writes one.  Which pages are old enough is left open.                   *)
(***************************************************************************)
Awake0 == [pc |-> "scan", proc |-> 0, pid |-> 0, table |-> 0, page |-> 0, block |-> None]

SwapperSleeps ==
    /\ sw.pc = "scan" /\ cpu = 0 /\ free_pages > HIGH_PAGES_LIMIT
    /\ sw' = [Awake0 EXCEPT !.pc = "asleep"]
    /\ UNCHANGED <<m, u_area, waits, binary, cpu>>

\* The next page of a page table that the swapper has in hand, or takes in hand.
Scans(q, v) ==
    LET u == u_area[q] IN
    /\ sw.pc = "scan" /\ cpu = 0 /\ free_pages <= HIGH_PAGES_LIMIT
    /\ u.state = "alive" /\ u.swapable
    /\ u.pgtbl[v].present /\ ~u.pgtbl[v].busy

InHand(q, v) == [Awake0 EXCEPT !.proc = q, !.pid = u_area[q].pid, !.table = u_area[q].tables[TableOf(v)]]

\* A page that can be had again: from its file, as zeros, or from its swap block.
Dropped(q, v) ==
    LET p == u_area[q].pgtbl[v].page
        d == m.pg[p]
        x == IF d.type = PAGE_SWAP THEN share_swap_block(m, d.key) ELSE m
    IN
    /\ Scans(q, v) /\ (d.type = PAGE_SWAP => d.key # None)
    /\ m' = release_page(x, p)
    /\ Become(q, [u_area[q] EXCEPT !.pgtbl[v] = Missing(d.type, d.key)])
    /\ WakeIfFreed(m')
    /\ sw' = InHand(q, v) /\ UNCHANGED <<binary, cpu>>

\* A page that must be written to a swap block first.
Written(q, v) ==
    LET p == u_area[q].pgtbl[v].page
        b == NextBlock(m)
    IN
    /\ Scans(q, v) /\ m.pg[p].type = PAGE_SWAP /\ m.pg[p].key = None
    /\ m.swap.free > 0
    /\ m' = [get_swap_block(m, b) EXCEPT !.pg[p].key = b, !.pg[p].hashed = TRUE]
    /\ Become(q, [u_area[q] EXCEPT !.pgtbl[v] = Missing(PAGE_SWAP, b)])
    /\ sw' = [InHand(q, v) EXCEPT !.pc = "save", !.page = p, !.block = b]
    /\ UNCHANGED <<waits, binary, cpu>>

\* save_page() is done.
Saved ==
    /\ sw.pc = "save" /\ cpu = 0
    /\ m' = release_page([m EXCEPT !.disk[sw.block] = m.data[sw.page]], sw.page)
    /\ WakeIfFreed(m')
    /\ sw' = [sw EXCEPT !.pc = "scan", !.page = 0, !.block = None]
    /\ UNCHANGED <<u_area, binary, cpu>>

\* The same process, swapable again, but the page table in hand is no longer one
\* of its: what the swapper reads there is anything.  Behaviour stops here.
Stale ==
    /\ sw.pc = "scan" /\ cpu = 0 /\ sw.proc # 0
    /\ LET u == u_area[sw.proc]
       IN  u.pid = sw.pid /\ u.swapable /\ \A t \in Tables : u.tables[t] # sw.table
    /\ sw' = [sw EXCEPT !.pc = "stale"]
    /\ UNCHANGED <<m, u_area, waits, binary, cpu>>

\* sys_swapon(): one page for the bitmap of the device.
swapon(q) ==
    /\ Awake(q, "user") /\ m.swap.free = 0 /\ m.swap.latest = -1 /\ free_pages >= 1
    /\ m' = [get_page(m) EXCEPT !.swap = [bitmap |-> [b \in Swap |-> 0], free |-> SwapBlocks, latest |-> 0],
                                !.swap_map = Head(m.free)]
    /\ LowOnPages(m') /\ UNCHANGED <<u_area, waits, binary, cpu>>

\* What goes on without a new call.
Continue(q) == \/ NewTable(q) \/ Fill(q) \/ Loaded(q) \/ Copy(q) \/ Forked(q) \/ ExecArgs(q) \/ ExecImage(q)
Fault(q, v) == TableFault(q, v) \/ Found(q, v) \/ Wait(q, v) \/ Begin(q, v) \/ ProtectionFault(q, v)
SwapOut(q, v) == Dropped(q, v) \/ Written(q, v)

MemInit ==
    \E n \in Nat \ {0} :
        /\ 1..n \subseteq Procs /\ 5 * n <= NPages
        /\ \E prog \in [1..n -> Binaries], swapping \in BOOLEAN : MemoryInit(prog, swapping)

MemNext ==
    \/ \E q \in Procs :
          \/ Continue(q) \/ brk(q) \/ fork(q) \/ exit(q) \/ release_zombie(q) \/ swapon(q)
          \/ \E f \in Binaries : exec(q, f)
          \/ \E w \in Nat : ExecStack(q, w) \/ \E v \in VPages : Store(q, v, w)
          \/ \E v \in VPages : Fault(q, v) \/ SwapOut(q, v)
    \/ SwapperSleeps \/ Saved \/ Stale
    \/ \E f \in Binaries : Rewrite(f)

MemSpec == MemInit /\ [][MemNext]_memVars

(***************************************************************************)
(* Counts.                                                                 *)
(***************************************************************************)
\* Where pages are used, and which: 0 is none.
Places == ({"page"} \X Procs \X VPages) \cup (Tables \X Procs \X {0}) \cup ({"kernel"} \X Procs \X {1, 2})
            \cup ({"arguments"} \X Procs \X {0}) \cup ({"swapper", "swap_map"} \X {0} \X {0})
PageIn(u, kind, i) == IF kind = "page" THEN u.pgtbl[i].page
                      ELSE IF kind \in Tables THEN u.tables[kind]
                      ELSE IF kind = "kernel" THEN u.kernel[i] ELSE u.page
Holds(place) == IF place[1] = "swapper" THEN sw.page ELSE IF place[1] = "swap_map" THEN m.swap_map
                ELSE PageIn(u_area[place[2]], place[1], place[3])
Users(p) == {place \in Places : Holds(place) = p}

\* The block of a page that is on no other, or is being loaded.
BlockOf(u, v) == IF ~u.pgtbl[v].present THEN IF u.pgtbl[v].type = PAGE_SWAP THEN u.pgtbl[v].key ELSE None
                 ELSE IF u.pc = "load" /\ u.v = v THEN u.busyblock ELSE None
OnBlock(b) == {s \in Procs \X VPages : BlockOf(u_area[s[1]], s[2]) = b}

\* get_page() to release_swap_block() (vm/mm.c, vm/swap.c): the count of a page is
\* the number of its uses, and so is that of a swap block; what is free is what has
\* no use, once each; and a block is found in one page at most.
PagesCounted ==
    /\ \A p \in Pages :
          /\ m.pg[p].count = Cardinality(Users(p))
          /\ (m.pg[p].count = 0) <=> (p \in Range(m.free))
          /\ m.pg[p].hashed => m.pg[p].key # None /\ pg_hash_search(m, m.pg[p].key) = {p}
    /\ IsInjective(m.free)
    /\ m.swap.latest # -1 => /\ m.swap.free = Cardinality(FreeBlocks(m))
                             /\ \A b \in Swap : m.swap.bitmap[b] = Cardinality(OnBlock(b))

(***************************************************************************)
(* Sleep.                                                                  *)
(***************************************************************************)
Needs(q) == IF u_area[q].pc = "fork" THEN Requested(q) ELSE 1

\* reserve_pages() (vm/mm.c) and the sleep for a block that is being loaded: a
\* process that sleeps for pages lacks them, and then the swapper is awake; and one
\* that sleeps for a block has another that is loading it.
NoPageWaitForgotten ==
    \A q \in Procs :
        /\ waits[q] = GetPage => free_pages < Needs(q) /\ sw.pc # "asleep"
        /\ waits[q] \notin {Nothing, GetPage} =>
              \E r \in Procs : waits[q] = Loading(r) /\ u_area[r].busyblock = u_area[q].pgtbl[u_area[q].v].key

(***************************************************************************)
(* What a process reads.                                                   *)
(***************************************************************************)
\* A page of q as the fault handlers would bring it in.
Seen(q, v) ==
    LET e == u_area[q].pgtbl[v]
        cached == pg_hash_search(m, e.key)
    IN  IF e.present THEN m.data[e.page]
        ELSE IF e.key = None THEN Zeros
        ELSE IF cached # {} THEN m.data[CHOOSE p \in cached : TRUE]
        ELSE Contents(e.key)

Settled(q, v) == /\ u_area[q].state = "alive"
                 /\ u_area[q].pc \notin {"exec_args", "exec_image", "exec_stack"}
                 /\ ~(u_area[q].pc = "load" /\ u_area[q].v = v)

\* page_not_present_fault(), page_protection_fault() (vm/mm.c), swapper() (vm/swap.c),
\* sys_fork(), sys_exec(): whatever is shared, copied, swapped out or found in the
\* page cache, each process reads in a page what it has stored there, or what its
\* binary held when it was started.
PrivateMemory == \A q \in Procs, v \in VPages : Settled(q, v) => Seen(q, v) = u_area[q].mem[v]
=============================================================================
