------------------------------ MODULE BlockRead ------------------------------
(***************************************************************************)
(* How regular_read() and a_out_read() (fs/regular.c) and blk_read()       *)
(* (fs/device.c) gather consecutive blocks into one request to the driver. *)
(*                                                                         *)
(* A reader asks for the buffers of its blocks one after the other.  It    *)
(* keeps those that are not valid, linked by next, as long as the blocks   *)
(* are consecutive, and has them read in one request: at the first block   *)
(* that is a hole, is valid or is not the next one, at the end of a run of *)
(* block numbers and at the end.  A reader of a file also keeps the buffer *)
(* of the indirect block the run is taken from.  The cache has NBuf        *)
(* buffers; a buffer that is not busy can be taken for another block.      *)
(***************************************************************************)
EXTENDS Integers, Sequences, FiniteSets, SequencesExt

CONSTANTS Readers,      \* processes, 1..n
          NBuf          \* buffers of the cache

VARIABLES rd,           \* what each reader reads, and how far it is
          busy,         \* busy[b]: who keeps the buffer of block b
          valid         \* the blocks whose buffers hold what is on disk

rdVars == <<rd, busy, valid>>

\* A run of block numbers, 0 for a hole, and the indirect block it is in (or 0).
\* raw: the reader of a special file, whose blocks are consecutive.
Run(iblock, blocks) == [iblock |-> iblock, blocks |-> blocks]
Reader(raw, runs) == [raw |-> raw, runs |-> runs, run |-> 1, i |-> 1, pc |-> "bmap",
                      req |-> <<>>, req_buf |-> 0, next |-> 0, out |-> <<>>]

This(p)   == rd[p].runs[rd[p].run]
Block(p)  == This(p).blocks[rd[p].i]
Holds(p)  == {b \in DOMAIN busy : busy[b] = p}
CanGet(b) == busy[b] = 0 /\ Cardinality({c \in DOMAIN busy : busy[c] # 0}) < NBuf
LastOfRun(p) == rd[p].i = Len(This(p).blocks)

\* bmap() at the start of a run: the buffer of the indirect block is kept.
MapRun(p) ==
    LET b == This(p).iblock
    IN  /\ rd[p].pc = "bmap"
        /\ b # 0 => CanGet(b)
        /\ rd' = [rd EXCEPT ![p].pc = "block"]
        /\ IF b = 0 THEN UNCHANGED <<busy, valid>>
           ELSE busy' = [busy EXCEPT ![b] = p] /\ valid' = valid \cup {b}

\* On to the next block of the run; after the last its indirect block goes.
\* r is what the reader is by now, own the buffers it has by now.
Advance(p, r, own) ==
    LET end  == r.i = Len(r.runs[r.run].blocks)
        gone == IF end THEN {r.runs[r.run].iblock} ELSE {}
    IN  /\ rd' = [rd EXCEPT ![p] =
                    IF ~end THEN [r EXCEPT !.i = @ + 1, !.pc = "block"]
                    ELSE [r EXCEPT !.i = 1, !.run = @ + 1,
                                   !.pc = IF r.run = Len(r.runs) THEN "done" ELSE "bmap"]]
        /\ busy' = [b \in DOMAIN busy |-> IF b \in own \ gone THEN p
                                          ELSE IF busy[b] = p THEN 0 ELSE busy[b]]

Request(p, r, own) == /\ rd' = [rd EXCEPT ![p] = [r EXCEPT !.pc = "request"]]
                      /\ busy' = [b \in DOMAIN busy |-> IF b \in own THEN p ELSE busy[b]]

\* A request that is pending goes out, and otherwise the next block is next.
Flushed(p, r) == IF r.req = <<>> THEN Advance(p, r, Holds(p)) ELSE Request(p, r, Holds(p))

\* The place of the current block in what is returned.
Position(p) == rd[p].i + FoldLeft(LAMBDA n, k : n + Len(rd[p].runs[k].blocks), 0,
                                  [k \in 1..rd[p].run - 1 |-> k])

Put(out, k, b) == [j \in 1..(IF k > Len(out) THEN k ELSE Len(out)) |->
                     IF j = k THEN b ELSE IF j \in DOMAIN out THEN out[j] ELSE -1]

ReadHole(p) == /\ rd[p].pc = "block" /\ Block(p) = 0
               /\ Flushed(p, [rd[p] EXCEPT !.out = Put(@, Position(p), 0)])
               /\ UNCHANGED valid

ReadValid(p) == /\ rd[p].pc = "block" /\ Block(p) # 0 /\ Block(p) \in valid /\ CanGet(Block(p))
                /\ Flushed(p, [rd[p] EXCEPT !.out = Put(@, Position(p), Block(p))])
                /\ UNCHANGED valid

\* A buffer that is to be read: it starts a request ...
NewRequest(p, r, own) ==
    LET n == [r EXCEPT !.req = <<r.runs[r.run].blocks[r.i]>>, !.req_buf = Position(p), !.next = 0]
    IN  IF LastOfRun(p) THEN Request(p, n, own) ELSE Advance(p, n, own)

\* Mutant: blocks on both sides of a gap are one request.
Joins_Gap(p) == rd[p].raw \/ Block(p) > Last(rd[p].req)

\* ... or joins the one that is pending ...
Joins(p) == rd[p].raw \/ Block(p) = Last(rd[p].req) + 1

ReadInvalid(p) ==
    LET b   == Block(p)
        own == Holds(p) \cup {b}
        r   == rd[p]
    IN  /\ r.pc = "block" /\ b # 0 /\ b \notin valid /\ CanGet(b)
        /\ CASE r.req = <<>> -> NewRequest(p, r, own)
             [] r.req # <<>> /\ Joins(p) ->
                    LET n == [r EXCEPT !.req = Append(@, b)]
                    IN  IF LastOfRun(p) THEN Request(p, n, own) ELSE Advance(p, n, own)
             [] r.req # <<>> /\ ~Joins(p) ->     \* ... or waits until that one is read
                    Request(p, [r EXCEPT !.next = b], own)
        /\ UNCHANGED valid

\* The driver is asked for the number of blocks from the first one on.
Delivered(p) == [k \in DOMAIN rd[p].req |-> Head(rd[p].req) + k - 1]

DoRequest(p) ==
    LET r    == rd[p]
        own  == Holds(p) \ Range(r.req)
        read == [r EXCEPT !.req = <<>>,
                          !.out = FoldLeft(LAMBDA o, k : Put(o, r.req_buf + k - 1, Delivered(p)[k]),
                                           @, [k \in DOMAIN r.req |-> k])]
    IN  /\ r.pc = "request"
        /\ valid' = valid \cup Range(r.req)
        /\ IF r.next = 0 THEN Advance(p, read, own)
           ELSE LET n == [read EXCEPT !.req = <<r.next>>, !.req_buf = Position(p), !.next = 0]
                IN  IF LastOfRun(p)
                    THEN /\ rd' = [rd EXCEPT ![p] = n]
                         /\ busy' = [b \in DOMAIN busy |-> IF b \in Range(r.req) THEN 0 ELSE busy[b]]
                    ELSE Advance(p, n, own)

\* A buffer no one keeps is taken for some other block.
Evict == \E b \in valid : /\ busy[b] = 0
                          /\ valid' = valid \ {b}
                          /\ UNCHANGED <<rd, busy>>

ReaderStep(p) == MapRun(p) \/ ReadHole(p) \/ ReadValid(p) \/ ReadInvalid(p) \/ DoRequest(p)

=============================================================================
