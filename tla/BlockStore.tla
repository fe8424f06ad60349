----------------------------- MODULE BlockStore -----------------------------
(***************************************************************************)
(* What the buffer cache promises its callers: an array of disk blocks,    *)
(* each in the hands of one process at most.  A block that was freed has   *)
(* no contents until the file system allocates and fills it again.         *)
(***************************************************************************)
CONSTANTS Procs, Blocks, Values,
          Unknown,    \* the contents of a freed block
          Nobody

VARIABLES store, holder

vars == <<store, holder>>

Init == /\ store \in [Blocks -> Values]
        /\ holder = [b \in Blocks |-> Nobody]

\* p finds what was stored last.
Acquire(p, b) == /\ holder[b] = Nobody
                 /\ holder' = [holder EXCEPT ![b] = p]
                 /\ UNCHANGED store

\* A freed block comes back filled.
Fill(p, b, v) == /\ holder[b] = Nobody
                 /\ store[b] = Unknown
                 /\ holder' = [holder EXCEPT ![b] = p]
                 /\ store' = [store EXCEPT ![b] = v]

Release(p, b) == /\ holder[b] = p
                 /\ holder' = [holder EXCEPT ![b] = Nobody]
                 /\ UNCHANGED store

Write(p, b, v) == /\ holder[b] = p
                  /\ holder' = [holder EXCEPT ![b] = Nobody]
                  /\ store' = [store EXCEPT ![b] = v]

Free(b) == /\ store' = [store EXCEPT ![b] = Unknown]
           /\ UNCHANGED holder

Next == \E b \in Blocks :
          \/ \E p \in Procs : \/ Acquire(p, b) \/ Release(p, b)
                              \/ \E v \in Values : Fill(p, b, v) \/ Write(p, b, v)
          \/ Free(b)

Spec == Init /\ [][Next]_vars
=============================================================================
