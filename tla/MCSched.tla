------------------------------ MODULE MCSched -------------------------------
(***************************************************************************)
(* Instances of Sched for TLC.                                             *)
(***************************************************************************)
EXTENDS Sched

CONSTANTS disk,  \* a disk driver's address, uninterruptible
          pipe   \* a pipe, interruptible

MCAddrs == {disk, pipe}
MCBuckets == {1, 2}
MCWaitLevel == [a \in MCAddrs |-> IF a = disk THEN UThreshold ELSE UserMax + 1]

\* The two addresses in buckets of their own.
ApartHash == [a \in MCAddrs |-> IF a = disk THEN 1 ELSE 2]

MCPipeAddrs == {pipe}
MCIrqAddrs == {disk}
\* For the liveness run: three processes and the disk only.
OneAddr == {disk}
OneWaitLevel == [a \in OneAddr |-> UThreshold]
OneHash == [a \in OneAddr |-> 1]
NoAddrs == {}

Nobody == {}
Everybody == Procs
ChildMasks == {3}
=============================================================================
