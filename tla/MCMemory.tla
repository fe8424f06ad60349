------------------------------ MODULE MCMemory ------------------------------
(***************************************************************************)
(* Properties and small instances of virtual memory, of the kernel's       *)
(* sub-allocator, of how the memory of a process is touched for a system   *)
(* call, and of the device switch with its memory devices.  A behaviour is *)
(* about one of them.                                                      *)
(***************************************************************************)
EXTENDS Memory, Chunks, UserMemory, Devices, TLC

VARIABLE ctl    \* what may be called, on which pages; calls, faults and pages swapped out left

Menu(n, faults, outs, ops, touch, store) ==
    [left |-> n, faults |-> faults, outs |-> outs, ops |-> ops, touch |-> touch, store |-> store]

Sharing  == Menu(3, 3, 3, {"exit"}, {TEXT, DATA}, {DATA})
Forking  == Menu(3, 3, 2, {"fork", "exit"}, {DATA, STACK}, {DATA, STACK})
Growing  == Menu(3, 3, 2, {"brk", "swapon"}, {HEAP, DATA}, {HEAP, DATA})
Starting == Menu(3, 2, 1, {"exec", "rewrite", "exit"}, {TEXT, DATA}, {DATA})

\* The sub-allocator: the chunk sizes that are asked for, with the pool or without.
Chunking(sizes) == Menu(6, 0, 0, {"chunks"}, sizes, {})

\* System calls with an area, or with a string or a list; and the arguments of exec().
Asking == Menu(0, 0, 0, {"ask"}, {}, {})
Areas == [asked : {TRUE}, brk : {6, 8}, esp : {13}, text : {0, 1}, pointer : 0..19, size : 0..19, nul : {Nowhere}]
Ended == [asked : {TRUE}, brk : {6, 7}, esp : {12}, text : {0}, pointer : 0..19, size : {0}, nul : 0..20]

\* The lengths of the strings of a vector.
Lists == {<<>>, <<1>>, <<2>>, <<1, 3>>, <<2, 2>>, <<3, 1>>, <<6>>, <<2, 5>>, <<11>>, <<9, 1>>}
NoArguments == Arguments("none", <<>>, <<>>)

\* The drivers main() and fs_init() register, in that order, with a hard disk; and what register_driver() refuses:
\* an interrupt that is taken, a major number that is taken or too big, a driver without close() and read().
Driver(name, major, irq, timer, minors, lacks) ==
    [name |-> name, major |-> major, irq |-> irq, timer |-> timer, minors |-> minors, fns |-> Ops \ lacks]
vtty == Driver("vtty", 3, 1, FALSE, 2, {})
fdc  == Driver("fdc", 1, 6, TRUE, 2, {"fcntl"})
hdc  == Driver("hdc", 2, 14, TRUE, 10, {"fcntl"})
mem  == Driver("mem", 4, NOIRQ, FALSE, 1, {"ioctl", "fcntl"})
kmem == Driver("kmem", 5, NOIRQ, FALSE, 1, {"ioctl", "fcntl"})
null == Driver("null", 6, NOIRQ, FALSE, 1, {"ioctl", "fcntl"})
lp   == Driver("lp", 8, NOIRQ, FALSE, 2, {"ioctl", "fcntl"})
klog == Driver("klog", 9, NOIRQ, FALSE, 1, {"write", "ioctl"})
Systems == {<<vtty, fdc, hdc, null, mem, kmem, klog, lp>>,
            <<vtty, [fdc EXCEPT !.irq = 1], hdc, [hdc EXCEPT !.irq = 5], [mem EXCEPT !.major = 40], [kmem EXCEPT !.fns = {"open"}],
              klog, lp>>}

\* lp0, minor 1 of the log, memory, a file, the first terminal, and a device that no driver knows.
Dev(a, b) == [major |-> a, minor |-> b]
NodeTable == (0 :> Dev(0, 0) @@ 1 :> Dev(8, 0) @@ 2 :> Dev(9, 1) @@ 3 :> Dev(4, 0) @@ 4 :> Dev(0, 0) @@ 5 :> Dev(3, 0) @@ 6 :> Dev(7, 0))
Attached  == {Dev(8, 0), Dev(3, 0)}
Seeks     == {-1, 3}
Devicing  == Menu(0, 0, 0, {"devices"}, {}, {})

Init ==
    /\ \/ /\ ctl \in {Sharing, Forking, Growing, Starting, Chunking({2, 4}), Chunking({1, 4}), Devicing}
          /\ ask = NoAsk /\ ae = NoArguments
       \/ ctl = Asking /\ ask \in Areas \cup Ended /\ ae = NoArguments
       \/ ctl = Asking /\ ask = NoAsk /\ \E argv, envp \in Lists : ae = Arguments("called", argv, envp)
    /\ DevInit /\ (ctl = Devicing \/ boot = CHOOSE b \in Systems : TRUE)
    /\ ChunksInit
    /\ MemoryInit(IF ctl = Forking THEN <<1>> ELSE IF ctl = Starting THEN <<1, 2>> ELSE <<1, 1>>,
                  "swapon" \notin ctl.ops)

Call(op) == op \in ctl.ops /\ ctl.left > 0 /\ ctl' = [ctl EXCEPT !.left = @ - 1]
Value    == ctl.left

NextChunks ==
    \/ \E s \in ctl.touch, use_pool \in BOOLEAN : Call("chunks") /\ vm_alloc(s, use_pool)
    \/ \E c \in chunks : UNCHANGED ctl /\ vm_free(c)

NextMemory ==
    \/ UNCHANGED ctl /\ \/ \E q \in Procs : Continue(q) \/ ExecStack(q, 50 + Value)
                        \/ \E q \in Procs : u_area[q].pc = "fault" /\ Fault(q, u_area[q].v)
                        \/ SwapperSleeps \/ Saved \/ Stale
    \/ \E q \in Procs, v \in ctl.touch :
          ctl.faults > 0 /\ ctl' = [ctl EXCEPT !.faults = @ - 1] /\ u_area[q].pc = "user" /\ Fault(q, v)
    \/ \E q \in Procs, v \in VPages :
          ctl.outs > 0 /\ ctl' = [ctl EXCEPT !.outs = @ - 1] /\ SwapOut(q, v)
    \/ \E q \in Procs, v \in ctl.store :
          ctl.left > 0 /\ ctl' = [ctl EXCEPT !.left = @ - 1] /\ Store(q, v, Value)
    \/ \E q \in Procs : \/ Call("brk") /\ brk(q)
                        \/ Call("swapon") /\ swapon(q)
                        \/ Call("fork") /\ fork(q)
                        \/ Call("exit") /\ exit(q)
                        \/ UNCHANGED ctl /\ release_zombie(q)
                        \/ q = 1 /\ Call("exec") /\ exec(q, 2)
    \/ \E f \in 1..2 : Call("rewrite") /\ Rewrite(f)

Next == \/ "chunks" \in ctl.ops /\ NextChunks /\ UNCHANGED <<memVars, umVars, dVars>>
        \/ ctl = Asking /\ UmNext /\ UNCHANGED <<memVars, chVars, dVars, ctl>>
        \/ ctl = Devicing /\ DevNext /\ UNCHANGED <<memVars, chVars, umVars, ctl>>
        \/ {"chunks", "ask", "devices"} \cap ctl.ops = {} /\ NextMemory /\ UNCHANGED <<chVars, umVars, dVars>>

Spec == Init /\ [][Next]_<<memVars, chVars, umVars, dVars, ctl>>

\* swapper() (vm/swap.c) "Check if we are dealing with the same process and if it is
\* still swapable": then the page table in hand is one of its page tables.
ScansOwnTables == sw.pc # "stale"

=============================================================================
