------------------------------ MODULE KernelLog ------------------------------
(***************************************************************************)
(* /dev/klog, driver/character/klog.c: the buffer printk() fills and the   *)
(* log daemon empties.  Interrupt handlers print too, in the middle of     *)
(* whatever the current process does, klog_read() included.                *)
(*                                                                         *)
(* Bytes are numbered in the order in which they are accepted.             *)
(***************************************************************************)
EXTENDS Integers, Sequences, SequencesExt

CONSTANTS KlogProcs,      \* the daemon and a child it has forked, with the same descriptor
          KlogSize,       \* klog_size
          KlogLengths,    \* of the messages
          KlogCounts,     \* of the reads
          KlogBytes       \* accepted in a behaviour.  A bound

ASSUME KlogAssumption == 0 \notin KlogProcs /\ KlogSize \in Nat \ {0} /\ (KlogLengths \cup KlogCounts) \subseteq Nat \ {0}

VARIABLES klog_buf,       \* what was written since the last klog_reset(): klog_wptr is its length
          klog_rptr, klog_free, klog_opened, klog_kpid, klog_nonblock,
          kread,          \* per process: where it is in klog_read(), and the bytes it still wants
          copied,         \* history: all the bytes that readers got
          torn            \* history: a message came between the copy and the count of a read

kVars == <<klog_buf, klog_rptr, klog_free, klog_opened, klog_kpid, klog_nonblock, kread, copied, torn>>

KlogOut == [pc |-> "out", count |-> 0]
KlogInit == /\ klog_buf = <<>> /\ klog_rptr = 0 /\ klog_free = KlogSize
            /\ klog_opened = FALSE /\ klog_kpid = 0 /\ klog_nonblock = FALSE
            /\ kread = [p \in KlogProcs |-> KlogOut] /\ copied = <<>> /\ torn = FALSE

Pending  == Len(klog_buf) - klog_rptr
Unread   == SubSeq(klog_buf, klog_rptr + 1, Len(klog_buf))
Accepts  == Len(copied) + Pending       \* bytes so far, but between a copy and its count

klog_reset == klog_buf' = <<>> /\ klog_rptr' = 0 /\ klog_free' = KlogSize

AllOut == \A p \in KlogProcs : kread[p].pc = "out"

klog_open(p) == /\ ~klog_opened
                /\ klog_opened' = TRUE /\ klog_kpid' = p
                /\ UNCHANGED <<klog_buf, klog_rptr, klog_free, klog_nonblock, kread, copied, torn>>

\* The last descriptor is closed: nobody reads.
klog_close == /\ klog_opened /\ AllOut
              /\ klog_opened' = FALSE
              /\ UNCHANGED <<klog_buf, klog_rptr, klog_free, klog_kpid, klog_nonblock, kread, copied, torn>>

klog_fcntl == /\ klog_opened
              /\ klog_nonblock' = ~klog_nonblock
              /\ UNCHANGED <<klog_buf, klog_rptr, klog_free, klog_opened, klog_kpid, kread, copied, torn>>

(***************************************************************************)
(* klog_read().                                                            *)
(***************************************************************************)
klog_read(p, n) ==
    /\ klog_opened /\ kread[p].pc = "out" /\ \A q \in KlogProcs : kread[q].pc \notin {"look", "count"}
    /\ IF Pending = 0 /\ klog_nonblock
       THEN klog_reset /\ UNCHANGED kread
       ELSE kread' = [kread EXCEPT ![p] = [pc |-> "look", count |-> n]] /\ UNCHANGED <<klog_buf, klog_rptr, klog_free>>
    /\ UNCHANGED <<klog_opened, klog_kpid, klog_nonblock, copied, torn>>

Sleeps(p) == /\ Pending = 0
             /\ kread' = [kread EXCEPT ![p].pc = "asleep"]
             /\ UNCHANGED <<klog_buf, klog_rptr, klog_free, copied>>
\* Room is taken off for what is read, and given back with the rest of the buffer.
TakesPart(p) == LET n == kread[p].count
                IN  /\ n < Pending
                    /\ copied' = copied \o SubSeq(klog_buf, klog_rptr + 1, klog_rptr + n)
                    /\ klog_rptr' = klog_rptr + n /\ klog_free' = klog_free - n
                    /\ kread' = [kread EXCEPT ![p] = KlogOut]
                    /\ UNCHANGED klog_buf
TakesAll(p) == /\ Pending \in 1..kread[p].count
               /\ copied' = copied \o Unread
               /\ kread' = [kread EXCEPT ![p].pc = "count"]
               /\ UNCHANGED <<klog_buf, klog_rptr, klog_free>>
Look(p)  == /\ kread[p].pc = "look" /\ \A q \in KlogProcs \ {p} : kread[q].pc # "count"
            /\ Sleeps(p) \/ TakesPart(p) \/ TakesAll(p)
            /\ UNCHANGED <<klog_opened, klog_kpid, klog_nonblock, torn>>
Count(p) == /\ kread[p].pc = "count"
            /\ kread' = [kread EXCEPT ![p] = IF @.count = Pending THEN KlogOut ELSE [pc |-> "look", count |-> @.count - Pending]]
            /\ klog_reset
            /\ UNCHANGED <<klog_opened, klog_kpid, klog_nonblock, copied, torn>>
\* -EINTR: what the call had copied before it slept is not reported.
KlogSignal(p) == /\ kread[p].pc = "asleep"
                 /\ kread' = [kread EXCEPT ![p] = KlogOut]
                 /\ UNCHANGED <<klog_buf, klog_rptr, klog_free, klog_opened, klog_kpid, klog_nonblock, copied, torn>>

(***************************************************************************)
(* klog_write(), from printk(): a process of the kernel, or an interrupt   *)
(* that came while process "who" was running (0: somebody else).           *)
(***************************************************************************)
MayRun(who) == \A p \in KlogProcs : kread[p].pc = "count" => p = who

\* Mutant: an interrupt is let in whoever runs.
Refused_Never(who, n) == ~klog_opened \/ klog_free < n

Refused(who, n) == ~klog_opened \/ who = klog_kpid \/ klog_free < n

klog_write(who, n) ==
    /\ MayRun(who) /\ Accepts + n <= KlogBytes
    /\ ~Refused(who, n)
    /\ torn' = (who \in KlogProcs /\ kread[who].pc = "count")
    /\ klog_buf' = klog_buf \o [i \in 1..n |-> Accepts + i]
    /\ klog_free' = klog_free - n
    /\ kread' = [p \in KlogProcs |-> IF kread[p].pc = "asleep" THEN [kread[p] EXCEPT !.pc = "look"] ELSE kread[p]]
    /\ UNCHANGED <<klog_rptr, klog_opened, klog_kpid, klog_nonblock, copied>>

\* A read that was cut in two has a wrong count, and anything may follow: the behaviour ends.
KlogNext == /\ ~torn
            /\ \/ \E p \in KlogProcs : klog_open(p) \/ Look(p) \/ Count(p) \/ KlogSignal(p)
               \/ klog_close \/ klog_fcntl
               \/ \E p \in KlogProcs, n \in KlogCounts : klog_read(p, n)
               \/ \E who \in KlogProcs \cup {0}, n \in KlogLengths : klog_write(who, n)

KlogSpec == KlogInit /\ [][KlogNext]_kVars

(***************************************************************************)
(* Properties.                                                             *)
(***************************************************************************)
CutShort == {p \in KlogProcs : kread[p].pc = "count"}

\* Every byte that was accepted reaches a reader once and in order, whatever readers and messages come between,
\* and goes to a place inside the buffer, whose room is counted short by what was read of it; nobody sleeps
\* while there is something to read.  A message in the middle of a read cannot hit the process that opened
\* the log: klog_write() looks at klog_kpid, but not at those who have the descriptor from it
\* (klog_read(), klog_write()).
LogExact ==
    IF torn THEN klog_kpid \notin CutShort
    ELSE /\ Len(klog_buf) <= KlogSize /\ klog_free = KlogSize - Len(klog_buf) - klog_rptr
         /\ copied \o (IF CutShort = {} THEN Unread ELSE <<>>)
              = [i \in 1..(IF CutShort = {} THEN Accepts ELSE Len(copied)) |-> i]
         /\ \A p \in KlogProcs : kread[p].pc = "asleep" => Pending = 0
=============================================================================
