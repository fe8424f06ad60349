----------------------------- MODULE ByteStream -----------------------------
(***************************************************************************)
(* What a pipe promises: bytes come out once, in the order they went in,   *)
(* and no more than Capacity of them wait.                                 *)
(***************************************************************************)
EXTENDS Naturals, Sequences

CONSTANTS Bytes, Capacity

VARIABLE queue

Init == queue = <<>>

Put(n) == /\ Len(queue) + n <= Capacity
          /\ \E s \in [1..n -> Bytes] : queue' = queue \o s

Take(n) == /\ n <= Len(queue)
           /\ queue' = SubSeq(queue, n + 1, Len(queue))

Next == \E n \in 1..Capacity : Put(n) \/ Take(n)

Spec == Init /\ [][Next]_queue
=============================================================================
