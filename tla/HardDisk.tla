------------------------------ MODULE HardDisk ------------------------------
(***************************************************************************)
(* The IDE disk driver, driver/block/hdc.c, over the controller it talks   *)
(* to, with the partition table of driver/block/part.c.                    *)
(*                                                                         *)
(* A request is a chain of buffers that takes consecutive sectors of a     *)
(* partition; it is cut at the end of each track.  The driver polls, sends *)
(* a command and sleeps until the interrupt handler or the timer wakes it; *)
(* its code runs with interrupts disabled, so that they come only while    *)
(* nobody is inside (Running).  The controller works at any time.  What it *)
(* does wrong (a busy or mute controller, an error status, an interrupt    *)
(* after the timeout) is bounded by HddFaults.                             *)
(***************************************************************************)
EXTENDS Integers, Sequences, FiniteSets, FiniteSetsExt

CONSTANTS Callers,            \* processes
          Cylinders, Heads, Spt,    \* the geometry that the BIOS tells
          IdeHeads,           \* heads that fit the command register (16)
          Spb,                \* sectors per block of the file system
          UintRange,          \* 2^32
          Tables,             \* partition tables that the disk may hold
          HddRequests,        \* what each process may ask for: [op, part, block, nblocks]
          MAX_RESET_RETRIES, MAX_COMMAND_RETRIES, MAX_RW_RETRIES,
          HddFaults           \* bound on what the controller does wrong

TotalSectors == Cylinders * Heads * Spt

ASSUME HardDiskAssumption ==
    /\ {Cylinders, Heads, Spt, IdeHeads, Spb} \subseteq Nat \ {0}
    /\ UintRange \in Nat /\ UintRange > 2 * TotalSectors
    /\ {MAX_RESET_RETRIES, MAX_COMMAND_RETRIES, MAX_RW_RETRIES} \subseteq Nat \ {0}

VARIABLES hdd_partition,      \* first_block, total_blocks of each entry of the table
          platter,            \* what was written to each sector: a process and its sector, or nothing
          memory,             \* which sector of the disk each sector of a process's chain holds
          valid,              \* of each buffer of each chain
          ide,                \* the controller: command, next sector, sectors left, state, error
          irq,                \* its interrupt is pending
          hdc,                \* the static variables of the driver
          hdc_rw_mutex,
          hpc,                \* where each process is
          ask, done,          \* its request, and what came of it: the sectors counted, and (history) whether
                              \* the retries ran out
          at,                 \* the locals of the request in the driver
          faults, reset_failed  \* history

hVars == <<hdd_partition, platter, memory, valid, ide, irq, hdc, hdc_rw_mutex, hpc, ask, done, at, faults, reset_failed>>
medium == <<hdd_partition, platter, memory, valid>>

Nothing == -1

(***************************************************************************)
(* Geometry.                                                               *)
(***************************************************************************)
Halved[h \in 1..Heads] == IF h > IdeHeads THEN Halved[h \div 2] ELSE h
lbaf == Heads \div Halved[Heads]

Cylinder(s) == s \div (Heads * Spt)
Track(s)    == (s % (Heads * Spt)) \div Spt
Sector(s)   == s % Spt

\* What a drive with heads / lbaf heads makes of the cylinder and head that hdc_do_send_command() sends.
SectorOnDisk(cylinder, head, sector) ==
    ((cylinder * lbaf + head \div IdeHeads) * (Heads \div lbaf) + (head % IdeHeads)) * Spt + sector - 1

(***************************************************************************)
(* part.c: an entry counts only if both ends lie on the disk and agree     *)
(* with the sector numbers (unsigned).                                     *)
(***************************************************************************)
Linear(c) == c.cyl * Heads * Spt + c.head * Spt + c.sect - 1

OnDisk(c) == c.cyl < Cylinders /\ c.head < Heads /\ c.sect <= Spt

Accepted(e) == /\ OnDisk(e.start) /\ OnDisk(e.end)
               /\ e.relative = Linear(e.start) % UintRange
               /\ e.total = (Linear(e.end) - e.relative + 1) % UintRange

AsInt(u) == IF u < UintRange \div 2 THEN u ELSE u - UintRange

partitions_setup(table) ==
    [i \in DOMAIN table |-> IF Accepted(table[i])
                            THEN [first_block |-> AsInt(table[i].relative), total_blocks |-> AsInt(table[i].total)]
                            ELSE [first_block |-> 0, total_blocks |-> 0]]

\* Minors 0 and 1 are whole drives, the others partitions.
hdc_get_first_block(part)  == IF part = 0 THEN 0 ELSE hdd_partition[part].first_block
hdc_get_total_blocks(part) == IF part = 0 THEN TotalSectors ELSE hdd_partition[part].total_blocks

(***************************************************************************)
(* The start.                                                              *)
(***************************************************************************)
NoRequest == [op |-> "none", part |-> 0, block |-> 0, nblocks |-> 0]
NoLocals  == [cblock |-> 0, nblocks |-> 0, cn |-> 0, retries |-> 0, tries |-> 0,
              good |-> 0, resets |-> 0, err |-> FALSE, from |-> "none"]
IdleIde   == [cmd |-> "none", sector |-> 0, left |-> 0, state |-> "idle", err |-> FALSE, data |-> <<>>]

HddInit ==
    /\ \E table \in Tables: hdd_partition = partitions_setup(table)
    /\ platter = [s \in 0..(TotalSectors - 1) |-> <<>>]
    /\ memory = [p \in Callers |-> <<>>] /\ valid = [p \in Callers |-> <<>>]
    /\ ide = IdleIde /\ irq = FALSE
    /\ hdc = [command |-> "none", buf |-> 0, timeout |-> FALSE, need_reset |-> FALSE,
              waits_interrupt |-> FALSE, interrupts_left |-> 0]
    /\ hdc_rw_mutex = 1
    /\ hpc = [p \in Callers |-> "idle"] /\ ask = [p \in Callers |-> NoRequest]
    /\ done = [p \in Callers |-> [good |-> 0, gave_up |-> FALSE]]
    /\ at = NoLocals /\ faults = 0 /\ reset_failed = FALSE

Asleep   == {"idle", "mutex", "granted", "asleep", "woken", "done", "stuck"}
Running  == \E p \in Callers: hpc[p] \notin Asleep
hGoto(p, l) == hpc' = [hpc EXCEPT ![p] = l]
Wrong    == faults < HddFaults /\ faults' = faults + 1
Right    == UNCHANGED faults

FirstSector(p) == ask[p].block * Spb + hdc_get_first_block(ask[p].part)
Sectors(p)     == ask[p].nblocks * Spb

(***************************************************************************)
(* The controller.                                                         *)
(***************************************************************************)
\* The sector it reads is ready, the sector it was given is written, or the command is over.
IdeDone ==
    /\ ide.state = "busy"
    /\ irq' = TRUE
    /\ ide' = [ide EXCEPT !.state = IF ide.cmd = "READ" \/ (ide.cmd = "WRITE" /\ ide.left > 1)
                                    THEN "drq" ELSE "idle",
                          !.left = IF ide.cmd = "WRITE" THEN @ - 1 ELSE @,
                          !.sector = IF ide.cmd = "WRITE" THEN @ + 1 ELSE @]
    /\ platter' = IF ide.cmd = "WRITE" THEN [platter EXCEPT ![ide.sector] = ide.data] ELSE platter
    /\ Right
    /\ UNCHANGED <<hdd_partition, memory, valid, hdc, hdc_rw_mutex, hpc, ask, done, at, reset_failed>>

IdeError ==
    /\ ide.state = "busy" /\ Wrong
    /\ irq' = TRUE
    /\ ide' = [ide EXCEPT !.state = "idle", !.err = TRUE]
    /\ UNCHANGED <<medium, hdc, hdc_rw_mutex, hpc, ask, done, at, reset_failed>>

IdeHangs ==
    /\ ide.state = "busy" \/ (ide.state = "drq" /\ ide.cmd = "WRITE")
    /\ Wrong
    /\ ide' = [ide EXCEPT !.state = "hung"]
    /\ UNCHANGED <<medium, irq, hdc, hdc_rw_mutex, hpc, ask, done, at, reset_failed>>

(***************************************************************************)
(* Interrupts.                                                             *)
(***************************************************************************)
\* wakeup(&hdc_interrupt), with the changes to the driver's variables that come with it.
WakeHdc(changed) ==
    /\ hdc' = changed
    /\ hpc' = [p \in Callers |-> IF hpc[p] = "asleep" THEN "woken" ELSE hpc[p]]

\* hdc_interrupt() reads the status and the sector: 30000 times around until there is one.
TakeSector(p) ==
    /\ ide.state = "drq"
    /\ memory' = [memory EXCEPT ![p][hdc.buf + 1] = ide.sector]
    /\ valid' = [valid EXCEPT ![p][hdc.buf \div Spb + 1] = TRUE]
    /\ ide' = [ide EXCEPT !.sector = @ + 1, !.left = @ - 1, !.state = IF ide.left > 1 THEN "busy" ELSE "idle"]
    /\ LET moved == [hdc EXCEPT !.interrupts_left = @ - 1, !.buf = @ + 1]
       IN  IF moved.interrupts_left = 0
           THEN WakeHdc([moved EXCEPT !.waits_interrupt = FALSE])
           ELSE hdc' = moved /\ UNCHANGED hpc

SectorLost(p) ==
    /\ ide.state \in {"idle", "hung"}
    /\ valid' = [valid EXCEPT ![p][hdc.buf \div Spb + 1] = FALSE]
    /\ WakeHdc([hdc EXCEPT !.waits_interrupt = FALSE])
    /\ UNCHANGED <<memory, ide>>

Reader == CHOOSE p \in Callers: hpc[p] = "asleep"

\* One that comes after the timeout is not waited for: hdc_surprise().
hdc_interrupt ==
    /\ irq /\ ~Running
    /\ irq' = FALSE
    /\ CASE ~hdc.waits_interrupt ->
                /\ hdc' = [hdc EXCEPT !.need_reset = TRUE]
                /\ UNCHANGED <<memory, valid, ide, hpc>>
         [] hdc.waits_interrupt /\ (hdc.command # "READ" \/ hdc.buf >= Sectors(Reader)) ->
                WakeHdc([hdc EXCEPT !.waits_interrupt = FALSE]) /\ UNCHANGED <<memory, valid, ide>>
         [] OTHER -> TakeSector(Reader) \/ SectorLost(Reader)
    /\ UNCHANGED <<hdd_partition, platter, hdc_rw_mutex, ask, done, at, faults, reset_failed>>

\* Mutant: the timer leaves the sleeper to the interrupt.
hdc_timer_NoWakeup ==
    /\ hdc.waits_interrupt /\ ~Running
    /\ IF ide.state # "busy" /\ ~irq THEN Right ELSE Wrong
    /\ hdc' = [hdc EXCEPT !.waits_interrupt = FALSE, !.timeout = TRUE]
    /\ UNCHANGED <<medium, ide, irq, hdc_rw_mutex, hpc, ask, done, at, reset_failed>>

\* Two seconds have passed: because nothing comes any more, or too early (Wrong).
hdc_timer ==
    /\ hdc.waits_interrupt /\ ~Running
    /\ IF ide.state # "busy" /\ ~irq THEN Right ELSE Wrong
    /\ WakeHdc([hdc EXCEPT !.waits_interrupt = FALSE, !.timeout = TRUE])
    /\ UNCHANGED <<medium, ide, irq, hdc_rw_mutex, ask, done, at, reset_failed>>

(***************************************************************************)
(* Commands.  hdc_busy(), hdc_ready() and hdc_data_request() poll: the     *)
(* step waits for the controller, unless it hangs.  Reading the status     *)
(* takes a pending interrupt back.                                         *)
(***************************************************************************)
\* hdc_do_send_command() that gets through, at the first attempt or (Wrong) after it has asked for a reset.
Sent(command, sector, count, changed) ==
    /\ ide.state \in {"idle", "drq"}
    /\ irq' = FALSE
    /\ \/ hdc' = [changed EXCEPT !.command = command] /\ Right
       \/ hdc' = [changed EXCEPT !.command = command, !.need_reset = TRUE] /\ Wrong
    /\ ide' = [IdleIde EXCEPT !.cmd = command, !.sector = sector,
                              !.left = IF count = 0 THEN 256 ELSE count,      \* a byte of the controller
                              !.state = IF command = "WRITE" THEN "drq" ELSE "busy"]

NotSent(command, changed) ==
    /\ ide.state # "busy"
    /\ IF ide.state = "hung" THEN Right ELSE Wrong
    /\ hdc' = [changed EXCEPT !.command = command, !.need_reset = TRUE]
    /\ irq' = FALSE
    /\ UNCHANGED ide

Waiting(changed) == [changed EXCEPT !.waits_interrupt = TRUE]

(***************************************************************************)
(* hdc_reset(): at.from says who called it and what follows.               *)
(***************************************************************************)
\* The caller goes on: hdc_read() and hdc_write() give up without the mutex, hdc_send_command() tries
\* again whatever came of the reset, a transfer goes on after one retry less.
AfterReset(p, ok, here) ==
    CASE here.from = "begin" /\ ok  -> hGoto(p, "setup") /\ at' = here /\ UNCHANGED done
      [] here.from = "begin" /\ ~ok -> hGoto(p, "stuck") /\ at' = here /\ done' = [done EXCEPT ![p].good = 0]
      [] here.from = "send"  -> /\ hGoto(p, IF here.tries < MAX_COMMAND_RETRIES THEN "send" ELSE "cut")
                                /\ at' = here /\ UNCHANGED done
      [] here.from = "retry" -> /\ hGoto(p, IF here.retries > 1 THEN "send" ELSE "cut")
                                /\ at' = [here EXCEPT !.retries = @ - 1, !.tries = 0]
                                /\ UNCHANGED done

\* hdc_do_reset() returns.
AttemptOver(p, ok) ==
    IF ok
    THEN AfterReset(p, TRUE, [at EXCEPT !.resets = 0]) /\ UNCHANGED reset_failed
    ELSE IF at.resets + 1 < MAX_RESET_RETRIES
         THEN /\ hGoto(p, "reset") /\ at' = [at EXCEPT !.resets = @ + 1]
              /\ UNCHANGED <<done, reset_failed>>
         ELSE AfterReset(p, FALSE, [at EXCEPT !.resets = 0]) /\ reset_failed' = TRUE

\* The reset pulse stops whatever the controller does; it may come up busy or with an error.
hdc_do_reset(p) ==
    /\ hpc[p] = "reset"
    /\ hdc' = [hdc EXCEPT !.timeout = FALSE, !.need_reset = TRUE]
    /\ ide' = IdleIde
    /\ irq' = FALSE
    /\ \/ /\ Right
          /\ hGoto(p, "recalibrate") /\ at' = [at EXCEPT !.err = FALSE] /\ UNCHANGED <<done, reset_failed>>
       \/ Wrong /\ AttemptOver(p, FALSE)
    /\ UNCHANGED <<medium, hdc_rw_mutex, ask>>

\* hdc_recalibrate() and hdc_send_specs(): send, and wait for the interrupt.
Recalibrate(p) ==
    /\ hpc[p] \in {"recalibrate", "specs"}
    /\ LET command == IF hpc[p] = "specs" THEN "SPECS" ELSE "RESTORE"
       IN  \/ Sent(command, 0, Spt, Waiting(hdc)) /\ hGoto(p, "asleep") /\ UNCHANGED <<at, done, reset_failed>>
           \/ /\ NotSent(command, hdc)
              /\ IF command = "RESTORE"
                 THEN hGoto(p, "specs") /\ at' = [at EXCEPT !.err = TRUE] /\ UNCHANGED <<done, reset_failed>>
                 ELSE AttemptOver(p, FALSE)
    /\ UNCHANGED <<medium, hdc_rw_mutex, ask>>

\* wait_hdc_interrupt() returns to them.  hdc_timeout is not cleared before the next reset.
Recalibrated(p) ==
    /\ hpc[p] = "woken" /\ ~Running /\ hdc.command \in {"RESTORE", "SPECS"}
    /\ IF hdc.command = "RESTORE"
       THEN /\ hGoto(p, "specs") /\ at' = [at EXCEPT !.err = @ \/ hdc.timeout]
            /\ hdc' = [hdc EXCEPT !.need_reset = @ \/ hdc.timeout]
            /\ UNCHANGED <<done, reset_failed>>
       ELSE LET ok == ~at.err /\ ~hdc.timeout
            IN  AttemptOver(p, ok) /\ hdc' = [hdc EXCEPT !.need_reset = ~ok]
    /\ UNCHANGED <<medium, ide, irq, hdc_rw_mutex, ask, faults>>

(***************************************************************************)
(* hdc_read() and hdc_write().                                             *)
(***************************************************************************)
\* down(&hdc_rw_mutex)
Call(p) ==
    /\ hpc[p] = "idle" /\ ~Running
    /\ \E r \in HddRequests[p]: ask' = [ask EXCEPT ![p] = r]
                              /\ hdc_get_total_blocks(r.part) >= (r.block + r.nblocks) * Spb
    /\ memory' = [memory EXCEPT ![p] = [k \in 1..(ask'[p].nblocks * Spb) |-> Nothing]]
    /\ valid' = [valid EXCEPT ![p] = [b \in 1..ask'[p].nblocks |-> ask'[p].op = "WRITE"]]
    /\ IF hdc_rw_mutex > 0 THEN hdc_rw_mutex' = 0 /\ hGoto(p, "begin")
                           ELSE UNCHANGED hdc_rw_mutex /\ hGoto(p, "mutex")
    /\ UNCHANGED <<hdd_partition, platter, ide, irq, hdc, done, at, faults, reset_failed>>

Begin(p) ==
    /\ hpc[p] = "begin" \/ (hpc[p] = "granted" /\ ~Running)
    /\ hGoto(p, IF hdc.need_reset THEN "reset" ELSE "setup")
    /\ at' = [NoLocals EXCEPT !.from = "begin"]
    /\ UNCHANGED <<medium, ide, irq, hdc, hdc_rw_mutex, ask, done, faults, reset_failed>>

Piece(cblock, nblocks) == Min({nblocks, Spt - Sector(cblock)})

Setup(p) ==
    /\ hpc[p] = "setup"
    /\ LET cn == Piece(FirstSector(p), Sectors(p))
       IN  /\ at' = [at EXCEPT !.cblock = FirstSector(p), !.nblocks = Sectors(p), !.cn = cn, !.good = 0,
                               !.retries = MAX_RW_RETRIES, !.tries = 0]
           /\ hdc' = [hdc EXCEPT !.buf = 0, !.interrupts_left = cn]
    /\ hGoto(p, "send")
    /\ UNCHANGED <<medium, ide, irq, hdc_rw_mutex, ask, done, faults, reset_failed>>

\* The sectors of the piece that are left, by cylinder, head and sector.
Send(p) ==
    /\ hpc[p] = "send"
    /\ LET first == SectorOnDisk(Cylinder(at.cblock), Track(at.cblock),
                                 Sector(at.cblock) + 1 + at.cn - hdc.interrupts_left)
       IN  \/ /\ Sent(ask[p].op, first, hdc.interrupts_left,
                       IF ask[p].op = "READ" THEN Waiting(hdc) ELSE hdc)
              /\ hGoto(p, IF ask[p].op = "READ" THEN "asleep" ELSE "data") /\ UNCHANGED at
           \/ /\ NotSent(ask[p].op, hdc)
              /\ hGoto(p, "reset") /\ at' = [at EXCEPT !.tries = @ + 1, !.from = "send"]
    /\ UNCHANGED <<medium, hdc_rw_mutex, ask, done, reset_failed>>

\* The controller never asks for the sector, or takes it and the writer waits until it is written.
PutSector(p) ==
    /\ hpc[p] = "data" /\ hdc.interrupts_left > 0
    /\ \/ /\ ide.state = "drq"
          /\ ide' = [ide EXCEPT !.state = "busy", !.data = <<p, hdc.buf>>]
          /\ hdc' = Waiting(hdc) /\ hGoto(p, "asleep") /\ Right
       \/ /\ ide.state \in {"idle", "hung"}
          /\ hGoto(p, "cut") /\ Right /\ UNCHANGED <<ide, hdc>>
    /\ irq' = FALSE
    /\ UNCHANGED <<medium, hdc_rw_mutex, ask, done, at, reset_failed>>

AllPut(p) ==
    /\ hpc[p] = "data" /\ hdc.interrupts_left = 0
    /\ hGoto(p, "cut")
    /\ UNCHANGED <<medium, ide, irq, hdc, hdc_rw_mutex, ask, done, at, faults, reset_failed>>

\* Mutant: a write that timed out is taken for done.
Unwritten_NoTimeout == ide.err

\* wait_hdc_interrupt() says so, or the status that is read then.
Unwritten == hdc.timeout \/ ide.err

Transferred(p) ==
    /\ hpc[p] = "woken" /\ ~Running /\ hdc.command \in {"READ", "WRITE"}
    /\ hdc' = [hdc EXCEPT !.need_reset = @ \/ hdc.timeout,
                          !.interrupts_left = IF ask[p].op = "WRITE" /\ ~Unwritten THEN @ - 1 ELSE @,
                          !.buf = IF ask[p].op = "WRITE" /\ ~Unwritten THEN @ + 1 ELSE @]
    /\ IF (IF ask[p].op = "WRITE" THEN Unwritten ELSE hdc.timeout)
       THEN hGoto(p, "reset") /\ at' = [at EXCEPT !.from = "retry"]
       ELSE hGoto(p, IF ask[p].op = "WRITE" THEN "data" ELSE "cut") /\ UNCHANGED at
    /\ UNCHANGED <<medium, ide, irq, hdc_rw_mutex, ask, done, faults, reset_failed>>

\* up(&hdc_rw_mutex) hands it to one who waits.
Return(p, good) ==
    /\ done' = [done EXCEPT ![p] = [good |-> good, gave_up |-> at.retries = 0 \/ at.tries = MAX_COMMAND_RETRIES]]
    /\ IF \E q \in Callers: hpc[q] = "mutex"
       THEN \E q \in Callers: /\ hpc[q] = "mutex"
                              /\ hpc' = [hpc EXCEPT ![p] = "done", ![q] = "granted"]
                              /\ UNCHANGED hdc_rw_mutex
       ELSE hGoto(p, "done") /\ hdc_rw_mutex' = 1

PieceOver(p) ==
    /\ hpc[p] = "cut"
    /\ LET good == at.good + at.cn - hdc.interrupts_left
           next == at.cblock + at.cn
           rest == at.nblocks - at.cn
       IN  IF hdc.interrupts_left # 0 \/ rest = 0
           THEN Return(p, good) /\ at' = [at EXCEPT !.good = good] /\ UNCHANGED hdc
           ELSE LET cn == Piece(next, rest)
                IN  /\ at' = [at EXCEPT !.good = good, !.cblock = next, !.nblocks = rest, !.cn = cn,
                                        !.retries = MAX_RW_RETRIES, !.tries = 0]
                    /\ hdc' = [hdc EXCEPT !.interrupts_left = cn]
                    /\ hGoto(p, "send") /\ UNCHANGED <<hdc_rw_mutex, done>>
    /\ UNCHANGED <<medium, ide, irq, ask, faults, reset_failed>>

Step(p) == \/ Call(p) \/ Begin(p) \/ Setup(p) \/ Send(p) \/ hdc_do_reset(p) \/ Recalibrate(p) \/ Recalibrated(p)
           \/ PutSector(p) \/ AllPut(p) \/ Transferred(p) \/ PieceOver(p)

HddNext == \/ \E p \in Callers: Step(p)
           \/ IdeDone \/ IdeError \/ IdeHangs \/ hdc_interrupt \/ hdc_timer

HddSpec == HddInit /\ [][HddNext]_hVars /\ WF_hVars(HddNext)

(***************************************************************************)
(* Properties.                                                             *)
(***************************************************************************)
\* What a request is told was transferred was: the first sectors of the buffers hold those sectors of the
\* partition, or the other way round, each sector at the place that the geometry of the drive gives it
\* (as if it counted through), whatever was repeated after a timeout; all of it if nothing went wrong.
\* As long as no reset ran out of retries: then hdc_timeout stays set and the count may be anything.
CountsRight ==
    \A p \in Callers: (hpc[p] = "done" /\ ~reset_failed) =>
        LET good == done[p].good
            Holds(k) == platter[FirstSector(p) + k - 1]
        IN  /\ good \in 0..Sectors(p)
            /\ faults = 0 => good = Sectors(p)
            /\ ask[p].op = "READ" => \A k \in 1..good: memory[p][k] = FirstSector(p) + k - 1
            /\ ask[p].op = "WRITE" => \A k \in 1..good: Holds(k) # <<>> /\ (Holds(k)[1] = p => Holds(k)[2] = k - 1)

\* No sector is ever written but with the data of a request for it, inside the partition that the request
\* is for, and a request for sectors of one partition reads none of another.  A partition that was
\* accepted, unless its size wrapped to a negative number, lies on the disk.
InItsPlace ==
    /\ \A s \in DOMAIN platter: platter[s] # <<>> => s = FirstSector(platter[s][1]) + platter[s][2]
    /\ ~reset_failed => \A p \in Callers: \A k \in DOMAIN memory[p]:
           memory[p][k] \in {Nothing, FirstSector(p) + k - 1}
    /\ \A i \in DOMAIN hdd_partition: hdd_partition[i].total_blocks > 0 =>
           hdd_partition[i].first_block + hdd_partition[i].total_blocks <= TotalSectors

\* A buffer that a read leaves valid holds what it read (or nothing, at an error), unless the read was
\* given up between the sectors of a block.
ValidIsRead ==
    \A p \in Callers: (hpc[p] = "done" /\ ~reset_failed /\ ask[p].op = "READ" /\ ~done[p].gave_up) =>
        \A b \in DOMAIN valid[p]: valid[p][b] => \A i \in 1..Spb: memory[p][(b - 1) * Spb + i] # Nothing

HardDiskExact == CountsRight /\ InItsPlace /\ ValidIsRead

\* Who sleeps until the controller is done is waited for by the timer, and the semaphore is handed on: no
\* request is left waiting, however the controller fails, until a reset runs out of retries (hdc_read() and
\* hdc_write() then return without up(), and the driver is closed to all).
HardDiskAtRest == reset_failed \/ \A p \in Callers: hpc[p] \in {"idle", "done"}
=============================================================================
