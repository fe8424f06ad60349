------------------------------- MODULE Printer -------------------------------
(***************************************************************************)
(* The line printer, driver/character/lp.c: one process opens it, others   *)
(* may have the descriptor from it; bytes are strobed out and              *)
(* acknowledged one by one, and whoever gets no answer waits five seconds  *)
(* by giving the processor away.                                           *)
(*                                                                         *)
(* A byte is a pair of the call that prints it and its place there.        *)
(***************************************************************************)
EXTENDS Integers, Sequences, FiniteSets, SequencesExt

CONSTANTS LpUsers, LpLengths,     \* processes, lengths of their writes
          LpCalls, LpFaults       \* calls, printer faults in a behaviour.  Bounds

VARIABLES lp_in_use,      \* lp_flags[minor].in_use
          lp_blocking,    \* lp_flags[minor].blocking
          holders,        \* who has a descriptor
          lpw,            \* per process: its call, index and count, and whether it waits
          lp_calls, lp_faults,
          paper,          \* what the printer got, in order
          unheard         \* history: bytes whose acknowledgement did not come

lVars == <<lp_in_use, lp_blocking, holders, lpw, lp_calls, lp_faults, paper, unheard>>

Idle == [pc |-> "idle", call |-> 0, index |-> 0, count |-> 0]
LpInit == /\ lp_in_use = FALSE /\ lp_blocking = FALSE /\ holders = {}
          /\ lpw = [p \in LpUsers |-> Idle]
          /\ lp_calls = 0 /\ lp_faults = 0 /\ paper = <<>> /\ unheard = <<>>

lp_open(p, S, blocking) ==
    /\ ~lp_in_use /\ p \in S
    /\ lp_in_use' = TRUE /\ lp_blocking' = blocking /\ holders' = S
    /\ UNCHANGED <<lpw, lp_calls, lp_faults, paper, unheard>>

lp_close == /\ lp_in_use /\ \A p \in LpUsers : lpw[p].pc = "idle"
            /\ lp_in_use' = FALSE /\ holders' = {}
            /\ UNCHANGED <<lp_blocking, lpw, lp_calls, lp_faults, paper, unheard>>

\* Nobody else runs while a byte goes out.
Alone(p) == \A q \in LpUsers \ {p} : lpw[q].pc # "printing"

lp_write(p, n) ==
    /\ p \in holders /\ lpw[p].pc = "idle" /\ Alone(p) /\ lp_calls < LpCalls
    /\ lp_calls' = lp_calls + 1
    /\ lpw' = [lpw EXCEPT ![p] = [pc |-> "printing", call |-> lp_calls + 1, index |-> 0, count |-> n]]
    /\ UNCHANGED <<lp_in_use, lp_blocking, holders, lp_faults, paper, unheard>>

Byte(p) == <<lpw[p].call, lpw[p].index + 1>>
GivesUp(p) == IF lp_blocking THEN [lpw[p] EXCEPT !.pc = "waiting"] ELSE Idle

\* lp_write_data(): busy for too long; strobed and not acknowledged in time; printed.
lp_write_data(p) ==
    /\ lpw[p].pc = "printing" /\ lpw[p].index < lpw[p].count
    /\ \/ /\ lp_faults < LpFaults /\ lp_faults' = lp_faults + 1 /\ lpw' = [lpw EXCEPT ![p] = GivesUp(p)]
          /\ UNCHANGED <<paper, unheard>>
       \/ /\ lp_faults < LpFaults /\ lp_faults' = lp_faults + 1 /\ lpw' = [lpw EXCEPT ![p] = GivesUp(p)]
          /\ paper' = Append(paper, Byte(p)) /\ unheard' = Append(unheard, Byte(p))
       \/ /\ paper' = Append(paper, Byte(p)) /\ lpw' = [lpw EXCEPT ![p].index = @ + 1]
          /\ UNCHANGED <<lp_faults, unheard>>
    /\ UNCHANGED <<lp_in_use, lp_blocking, holders, lp_calls>>

AllPrinted(p)  == lpw[p].pc = "printing" /\ lpw[p].index = lpw[p].count
Elsewhere(p)   == lpw[p].pc = "waiting" /\ Alone(p)
LpStays(p, w) == lpw' = [lpw EXCEPT ![p] = w] /\ UNCHANGED <<lp_in_use, lp_blocking, holders, lp_calls, lp_faults, paper, unheard>>

LpReturns(p)  == AllPrinted(p) /\ LpStays(p, Idle)
LpGoesOn(p)   == Elsewhere(p) /\ LpStays(p, [lpw[p] EXCEPT !.pc = "printing"])
LpSignal(p)   == Elsewhere(p) /\ LpStays(p, Idle)        \* -EINTR, whatever was printed

LpNext == \/ \E p \in LpUsers, S \in SUBSET LpUsers, b \in BOOLEAN : lp_open(p, S, b)
          \/ lp_close
          \/ \E p \in LpUsers, n \in LpLengths : lp_write(p, n)
          \/ \E p \in LpUsers : lp_write_data(p) \/ LpReturns(p) \/ LpGoesOn(p) \/ LpSignal(p)

LpSpec == LpInit /\ [][LpNext]_lVars

(***************************************************************************)
(* Properties.                                                             *)
(***************************************************************************)
Times(s, x)      == Cardinality({i \in DOMAIN s : s[i] = x})
BytesOf(s, call) == {x[2] : x \in {y \in ToSet(s) : y[1] = call}}
\* i is the place of the last byte before place j that is of the same call.
IsBefore(i, j)   == i < j /\ \A k \in i..j - 1 : paper[k][1] = paper[j][1] <=> k = i

\* A call prints its bytes in order and none more often than once and once more for each acknowledgement
\* that did not come, also when another process printed while it waited; and leaves none out up to its index
\* (lp_write(), lp_write_data()).
PrintedInOrder ==
    /\ \A i, j \in DOMAIN paper : IsBefore(i, j) => paper[j][2] \in {paper[i][2], paper[i][2] + 1}
    /\ \A i \in DOMAIN paper : Times(paper, paper[i]) <= Times(unheard, paper[i]) + 1
    /\ \A p \in LpUsers : lpw[p].pc # "idle" => BytesOf(paper, lpw[p].call) \ {lpw[p].index + 1} = 1..lpw[p].index
=============================================================================
