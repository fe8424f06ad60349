------------------------------- MODULE Floppy -------------------------------
(***************************************************************************)
(* The floppy driver, driver/block/fdc.c: two drives behind one controller *)
(* that moves whole tracks by DMA to and from fdc_buf.                     *)
(*                                                                         *)
(* fdc_command() resets, starts the motor, recalibrates, seeks and         *)
(* transfers as far as it must, a few times; when a track fails the driver *)
(* goes through it sector by sector.  The timer ends what takes too long   *)
(* and stops the motor some time after the last request.  As in HardDisk,  *)
(* interrupts come only while nobody runs inside the driver, and what the  *)
(* drives do wrong is bounded.                                             *)
(***************************************************************************)
EXTENDS Integers, Sequences, FiniteSets, FiniteSetsExt

CONSTANTS Users,              \* processes
          Tracks, Sides,      \* tracks, and sectors of one side of a track
          FddSpb,             \* sectors per block of the file system
          ReadOnly,           \* drives with a protected disk
          FddRequests,        \* per process: [op, drive, block, nblocks]
          MAX_FLOPPY_ERRORS,
          StopTicks,          \* 3 * HZ
          Opens,              \* bound on fdc_open()
          FddFaults

Drives        == {0, 1}
Spt2          == 2 * Sides                \* sectors of a track, both sides
INVALID_TRACK == -1
Untold        == <<>>

ASSUME FloppyAssumption == {Tracks, Sides, FddSpb, MAX_FLOPPY_ERRORS, StopTicks} \subseteq Nat \ {0}

VARIABLES disk,               \* of each drive and sector: who wrote it, and which sector of his
          chain,              \* the sectors of each process's buffers
          fvalid,             \* valid of each of these buffers
          fdc_buf,            \* the track in the DMA buffer
          nec,                \* the controller: what it does and where it stands
          firq,
          fdc,                \* the static variables of the driver
          fdd,                \* per drive: calibrated, motor, current_track; in_use
          head,               \* where the heads really are
          spinning,           \* the drive whose motor really turns, or INVALID_TRACK
          fdc_rw_mutex,
          fpc, fask, fdone, job,  \* as in HardDisk
          opens, fault, reopened  \* history

fVars == <<disk, chain, fvalid, fdc_buf, nec, firq, fdc, fdd, head, spinning, fdc_rw_mutex, fpc, fask, fdone, job,
           opens, fault, reopened>>
data  == <<disk, chain, fvalid, fdc_buf>>
locks == <<fdc_rw_mutex, fask, fdone, opens, reopened>>

NoAsk  == [op |-> "none", drive |-> 0, block |-> 0, nblocks |-> 0]
NoJob  == [cblock |-> 0, nblocks |-> 0, cn |-> 0, i |-> 0, single |-> FALSE, err |-> 0, good |-> 0]
NoNec  == [op |-> "none", state |-> "idle", ok |-> TRUE]

FddInit ==
    /\ disk = [d \in Drives |-> [s \in 0..(Tracks * Spt2 - 1) |-> Untold]]
    /\ chain = [p \in Users |-> <<>>] /\ fvalid = [p \in Users |-> <<>>]
    /\ fdc_buf = [i \in 0..(Spt2 - 1) |-> Untold]
    /\ nec = NoNec /\ firq = FALSE
    /\ fdc = [timeout |-> FALSE, need_reset |-> FALSE, waits_interrupt |-> FALSE, ticks_till_motor_stops |-> 0,
              drive |-> 0, track |-> 0, sector |-> 0, nsects |-> 0, cmd |-> "none"]
    /\ fdd = [d \in Drives |-> [calibrated |-> FALSE, motor |-> FALSE, current_track |-> INVALID_TRACK, in_use |-> FALSE]]
    /\ head = [d \in Drives |-> 1] /\ spinning = INVALID_TRACK
    /\ fdc_rw_mutex = 1
    /\ fpc = [p \in Users |-> "idle"] /\ fask = [p \in Users |-> NoAsk]
    /\ fdone = [p \in Users |-> 0] /\ job = NoJob
    /\ opens = 0 /\ fault = 0 /\ reopened = FALSE

Outside   == {"idle", "mutex", "granted", "reset", "recalibrate", "seek", "transfer", "woken_reset",
              "woken_recalibrate", "woken_seek", "woken_transfer", "done"}
Inside    == \E p \in Users: fpc[p] \notin Outside
fGoto(p, l) == fpc' = [fpc EXCEPT ![p] = l]
Bad       == fault < FddFaults /\ fault' = fault + 1
Good      == UNCHANGED fault

First(p)  == fask[p].block * FddSpb
Wanted(p) == fask[p].nblocks * FddSpb

(***************************************************************************)
(* The controller and the drives.                                          *)
(***************************************************************************)
\* m sectors have gone through the DMA buffer.
Move(m) ==
    LET d  == fdc.drive
        At == fdc.sector .. (fdc.sector + m - 1)
    IN  IF fdc.cmd = "READ"
        THEN /\ fdc_buf' = [i \in DOMAIN fdc_buf |-> IF i \in At THEN <<d, head[d] * Spt2 + i>> ELSE fdc_buf[i]]
             /\ UNCHANGED disk
        ELSE /\ disk' = [disk EXCEPT ![d] = [s \in DOMAIN disk[d] |->
                            IF s - head[d] * Spt2 \in At THEN fdc_buf[s - head[d] * Spt2] ELSE disk[d][s]]]
             /\ UNCHANGED fdc_buf

\* A transfer finds no sector with the number of another track, and nothing while the disk stands still.
Possible == head[fdc.drive] = fdc.track /\ spinning = fdc.drive

NecDone ==
    /\ nec.state = "busy"
    /\ firq' = TRUE
    /\ CASE nec.op = "transfer" /\ Possible /\ ~(fdc.cmd = "WRITE" /\ fdc.drive \in ReadOnly) ->
              /\ \/ Good /\ Move(fdc.nsects) /\ nec' = [nec EXCEPT !.state = "idle", !.ok = TRUE]
                 \/ Bad /\ nec' = [nec EXCEPT !.state = "idle", !.ok = FALSE]
                        /\ \E m \in 0..(fdc.nsects - 1): Move(m)
              /\ UNCHANGED head
         [] nec.op = "transfer" /\ ~(Possible /\ ~(fdc.cmd = "WRITE" /\ fdc.drive \in ReadOnly)) ->
              nec' = [nec EXCEPT !.state = "idle", !.ok = FALSE] /\ Good /\ UNCHANGED <<disk, fdc_buf, head>>
         [] nec.op \in {"seek", "recalibrate"} ->
              /\ \/ /\ head' = [head EXCEPT ![fdc.drive] = IF nec.op = "seek" THEN fdc.track ELSE 0]
                    /\ nec' = [nec EXCEPT !.state = "idle", !.ok = TRUE] /\ Good
                 \/ /\ nec' = [nec EXCEPT !.state = "idle", !.ok = FALSE] /\ Bad /\ UNCHANGED head
              /\ UNCHANGED <<disk, fdc_buf>>
         [] nec.op = "reset" ->
              nec' = [nec EXCEPT !.state = "idle", !.ok = TRUE] /\ Good /\ UNCHANGED <<disk, fdc_buf, head>>
    /\ UNCHANGED <<chain, fvalid, fdc, fdd, spinning, fpc, job>> /\ UNCHANGED locks

NecHangs ==
    /\ nec.state = "busy" /\ Bad
    /\ nec' = [nec EXCEPT !.state = "hung"]
    /\ UNCHANGED <<firq, fdc, fdd, head, spinning, fpc, job>> /\ UNCHANGED data /\ UNCHANGED locks

(***************************************************************************)
(* Interrupts.                                                             *)
(***************************************************************************)
Woken(l) == CASE l = "reset" -> "woken_reset"   [] l = "recalibrate" -> "woken_recalibrate"
              [] l = "seek" -> "woken_seek"     [] l = "transfer" -> "woken_transfer"    [] OTHER -> l

WakeFdc == fpc' = [p \in Users |-> Woken(fpc[p])]

fdc_interrupt ==
    /\ firq /\ ~Inside
    /\ firq' = FALSE
    /\ fdc' = [fdc EXCEPT !.timeout = FALSE, !.waits_interrupt = FALSE,
                          !.need_reset = @ \/ ~fdc.waits_interrupt]         \* fdc_surprise()
    /\ WakeFdc
    /\ UNCHANGED <<nec, fdd, head, spinning, job, fault>> /\ UNCHANGED data /\ UNCHANGED locks

\* Two seconds without an interrupt: nothing comes, or it comes too late (Bad).
fdc_timer_Expires ==
    /\ fdc.waits_interrupt /\ ~Inside
    /\ IF nec.state # "busy" /\ ~firq THEN Good ELSE Bad
    /\ fdc' = [fdc EXCEPT !.waits_interrupt = FALSE, !.timeout = TRUE]
    /\ WakeFdc
    /\ UNCHANGED <<nec, firq, fdd, head, spinning, job>> /\ UNCHANGED data /\ UNCHANGED locks

StopMotor == /\ spinning' = INVALID_TRACK
             /\ fdd' = [d \in Drives |-> [fdd[d] EXCEPT !.motor = FALSE]]

fdc_timer_Motor ==
    /\ ~Inside /\ (\E d \in Drives: fdd[d].motor) /\ fdc_rw_mutex > 0
    /\ fdc' = [fdc EXCEPT !.ticks_till_motor_stops = @ - 1]
    /\ IF fdc.ticks_till_motor_stops = 1 THEN StopMotor ELSE UNCHANGED <<spinning, fdd>>
    /\ UNCHANGED <<nec, firq, head, fpc, job, fault>> /\ UNCHANGED data /\ UNCHANGED locks

(***************************************************************************)
(* fdc_command(): the attempt that the label "attempt" begins ends in      *)
(* Attempted(p, ok).  The drive and the track are those of fdc.            *)
(***************************************************************************)
\* The command that follows an attempt: the next one, or what the caller makes of the result.
Command(j) == [fdc EXCEPT !.track = j.cblock \div Spt2, !.sector = (j.cblock % Spt2) + (IF j.single THEN j.i ELSE 0),
                          !.nsects = IF j.single THEN 1 ELSE j.cn, !.ticks_till_motor_stops = StopTicks]

\* Sector by sector: the whole track failed, or the sector before went.
NextSingle(ok) == [job EXCEPT !.single = TRUE, !.i = IF job.single THEN @ + 1 ELSE 0, !.err = 0]

\* The command returns: everything went, a sector did not, or the next one is tried.
CommandOver(p, ok, vars) ==
    LET j == NextSingle(ok)
    IN  IF ok /\ ~job.single
        THEN fGoto(p, "copy") /\ job' = [job EXCEPT !.good = job.cn] /\ fdc' = vars
        ELSE IF (~ok /\ job.single) \/ j.i = job.cn
             THEN fGoto(p, "copy") /\ job' = [job EXCEPT !.good = IF ok THEN j.i ELSE job.i] /\ fdc' = vars
             ELSE /\ fGoto(p, "attempt") /\ job' = j
                  /\ fdc' = [Command(j) EXCEPT !.timeout = vars.timeout, !.need_reset = vars.need_reset]

Attempted(p, ok, vars) ==
    IF ok \/ job.err + 1 = MAX_FLOPPY_ERRORS
    THEN CommandOver(p, ok, vars)
    ELSE fGoto(p, "attempt") /\ job' = [job EXCEPT !.err = @ + 1] /\ fdc' = vars

\* wait_fdc_interrupt() after a command that the controller took.
Start(p, op, vars) ==
    /\ nec' = [NoNec EXCEPT !.op = op, !.state = "busy"]
    /\ fdc' = [vars EXCEPT !.waits_interrupt = TRUE]
    /\ fGoto(p, op) /\ UNCHANGED job

\* The bytes of a command get through only to a controller that is not at work (fdc_out(), Bad otherwise).
Issue(p, op) ==
    \/ nec.state = "idle" /\ Good /\ Start(p, op, fdc)
    \/ /\ IF nec.state # "idle" THEN Good ELSE Bad
       /\ Attempted(p, FALSE, [fdc EXCEPT !.need_reset = TRUE]) /\ UNCHANGED nec

fdc_start_motor(d) == [k \in Drives |-> [fdd[k] EXCEPT !.motor = k = d]]

Uncalibrated == [d \in Drives |-> [fdd[d] EXCEPT !.motor = FALSE, !.calibrated = FALSE]]

fdc_reset(p) ==
    /\ fpc[p] = "attempt" /\ fdc.need_reset
    /\ fdd' = Uncalibrated /\ spinning' = INVALID_TRACK
    /\ Start(p, "reset", [fdc EXCEPT !.need_reset = FALSE])
    /\ firq' \in {FALSE, firq}
    /\ UNCHANGED <<head, fault>> /\ UNCHANGED data /\ UNCHANGED locks

\* fdc_getresults(), after a wait that ended in time: nothing is read if a reset is asked for, or while
\* the controller is at work.
Results == ~fdc.need_reset /\ ~fdc.timeout /\ nec.state = "idle"
Awake   == [fdc EXCEPT !.need_reset = @ \/ fdc.timeout \/ nec.state # "idle"]

\* After the reset, or without one: the motor, and fdc_seek() as far as its first command.
StartAttempt(p) ==
    /\ \/ fpc[p] = "attempt" /\ ~fdc.need_reset
       \/ fpc[p] = "woken_reset" /\ ~Inside
    /\ LET d    == fdc.drive
           now  == IF fpc[p] = "woken_reset" THEN Awake ELSE fdc
       IN  /\ fdd' = fdc_start_motor(d) /\ spinning' = d
           /\ IF now.need_reset
              THEN Attempted(p, FALSE, now) /\ UNCHANGED nec /\ Good
              ELSE IF ~fdd[d].calibrated
                   THEN Issue(p, "recalibrate")
                   ELSE IF fdc.track # fdd[d].current_track THEN Issue(p, "seek") ELSE Issue(p, "transfer")
    /\ UNCHANGED <<firq, head>> /\ UNCHANGED data /\ UNCHANGED locks

\* fdc_recalibrate() after its interrupt; fdc_seek() goes on to the track.
FddRecalibrated(p) ==
    /\ fpc[p] = "woken_recalibrate" /\ ~Inside
    /\ IF Results /\ nec.ok
       THEN /\ fdd' = [fdd EXCEPT ![fdc.drive].calibrated = TRUE, ![fdc.drive].current_track = INVALID_TRACK]
            /\ Issue(p, "seek")
       ELSE Attempted(p, FALSE, [Awake EXCEPT !.need_reset = TRUE]) /\ UNCHANGED <<nec, fdd>> /\ Good
    /\ UNCHANGED <<firq, head, spinning>> /\ UNCHANGED data /\ UNCHANGED locks

\* fdc_seek() notes the track before it knows that the drive got there.
Sought(p) ==
    /\ fpc[p] = "woken_seek" /\ ~Inside
    /\ fdd' = IF fdc.timeout THEN fdd ELSE [fdd EXCEPT ![fdc.drive].current_track = fdc.track]
    /\ IF Results /\ nec.ok
       THEN Issue(p, "transfer")
       ELSE Attempted(p, FALSE, Awake) /\ UNCHANGED nec /\ Good
    /\ UNCHANGED <<firq, head, spinning>> /\ UNCHANGED data /\ UNCHANGED locks

\* fdc_transfer(): a protected disk ends the command, a bad transfer the calibration.
FddTransferred(p) ==
    /\ fpc[p] = "woken_transfer" /\ ~Inside
    /\ Good /\ UNCHANGED <<nec, firq, head, spinning>> /\ UNCHANGED data /\ UNCHANGED locks
    /\ CASE ~Results -> Attempted(p, FALSE, Awake) /\ UNCHANGED fdd
         [] Results /\ nec.ok -> Attempted(p, TRUE, Awake) /\ UNCHANGED fdd
         [] Results /\ ~nec.ok /\ fdc.cmd = "WRITE" /\ fdc.drive \in ReadOnly ->
                CommandOver(p, FALSE, Awake) /\ UNCHANGED fdd
         [] OTHER -> /\ fdd' = [fdd EXCEPT ![fdc.drive].calibrated = FALSE]
                     /\ Attempted(p, FALSE, Awake)

(***************************************************************************)
(* fdc_read() and fdc_write().                                             *)
(***************************************************************************)
FddCall(p) ==
    /\ fpc[p] = "idle" /\ ~Inside
    /\ \E r \in FddRequests[p]: fdd[r.drive].in_use /\ fask' = [fask EXCEPT ![p] = r]
    /\ chain' = [chain EXCEPT ![p] = [k \in 1..(fask'[p].nblocks * FddSpb) |->
                    IF fask'[p].op = "WRITE" THEN <<p, k - 1>> ELSE Untold]]
    /\ fvalid' = [fvalid EXCEPT ![p] = [b \in 1..fask'[p].nblocks |-> fask'[p].op = "WRITE"]]
    /\ IF fdc_rw_mutex > 0 THEN fdc_rw_mutex' = 0 /\ fGoto(p, "begin")
                           ELSE UNCHANGED fdc_rw_mutex /\ fGoto(p, "mutex")
    /\ UNCHANGED <<disk, fdc_buf, nec, firq, fdc, fdd, head, spinning, fdone, job, opens, fault, reopened>>

\* A piece ends with its track; what is written is copied to the DMA buffer first.
BeginPiece(p, j) ==
    /\ job' = j /\ fGoto(p, "attempt")
    /\ fdc' = [Command(j) EXCEPT !.drive = fask[p].drive, !.cmd = fask[p].op]
    /\ fdc_buf' = IF fask[p].op = "READ" THEN fdc_buf
                  ELSE LET csector == j.cblock % Spt2
                       IN  [i \in DOMAIN fdc_buf |-> IF i \in csector .. (csector + j.cn - 1)
                                                     THEN chain[p][j.cblock - First(p) + i - csector + 1]
                                                     ELSE fdc_buf[i]]

PieceAt(cblock, nblocks) == [NoJob EXCEPT !.cblock = cblock, !.nblocks = nblocks,
                                          !.cn = Min({nblocks, Spt2 - (cblock % Spt2)})]

FddBegin(p) ==
    /\ fpc[p] = "begin" \/ (fpc[p] = "granted" /\ ~Inside)
    /\ fdone' = [fdone EXCEPT ![p] = 0]
    /\ BeginPiece(p, PieceAt(First(p), Wanted(p)))
    /\ UNCHANGED <<disk, chain, fvalid, nec, firq, fdd, head, spinning, fdc_rw_mutex, fask, opens, fault, reopened>>

\* Mutant: the count decides only from the second sector of a block on.
BufferValid_FirstSector(b, start, good) == (b - 1) * FddSpb < start + good

\* The last sector of a piece that lies in buffer b decides whether it is valid.
BufferValid(b, start, good) == b * FddSpb <= start + good

\* fdc_read() copies the good sectors and sets valid; fdc_write() counts a piece only if all of it went.
Copy(p) ==
    /\ fpc[p] = "copy"
    /\ LET start == job.cblock - First(p)             \* of the piece, in the chain
           whole == job.good = job.cn
           total == fdone[p] + IF fask[p].op = "READ" \/ whole THEN job.good ELSE 0
           In(b) == \E k \in start .. (start + job.cn - 1): k \div FddSpb = b - 1
       IN  /\ IF fask[p].op = "READ"
              THEN /\ chain' = [chain EXCEPT ![p] = [k \in DOMAIN chain[p] |->
                          IF k - 1 \in start .. (start + job.good - 1)
                          THEN fdc_buf[(job.cblock % Spt2) + k - 1 - start] ELSE chain[p][k]]]
                   /\ fvalid' = [fvalid EXCEPT ![p] = [b \in DOMAIN fvalid[p] |->
                          IF In(b) THEN BufferValid(b, start, job.good) ELSE fvalid[p][b]]]
              ELSE UNCHANGED <<chain, fvalid>>
           /\ fdone' = [fdone EXCEPT ![p] = total]
           /\ IF ~whole \/ job.nblocks = job.cn
              THEN /\ IF \E q \in Users: fpc[q] = "mutex"
                      THEN \E q \in Users: /\ fpc[q] = "mutex" /\ UNCHANGED fdc_rw_mutex
                                           /\ fpc' = [fpc EXCEPT ![p] = "done", ![q] = "granted"]
                      ELSE fGoto(p, "done") /\ fdc_rw_mutex' = 1
                   /\ UNCHANGED <<job, fdc, fdc_buf>>
              ELSE /\ BeginPiece(p, PieceAt(job.cblock + job.cn, job.nblocks - job.cn))
                   /\ UNCHANGED fdc_rw_mutex
    /\ UNCHANGED <<disk, nec, firq, fdd, head, spinning, fask, opens, fault, reopened>>

fdc_open(d) ==
    /\ ~Inside /\ opens < Opens /\ ~fdd[d].in_use
    /\ opens' = opens + 1 /\ reopened' = (reopened \/ spinning = d)
    /\ fdd' = [fdd EXCEPT ![d] = [calibrated |-> FALSE, motor |-> FALSE, current_track |-> INVALID_TRACK, in_use |-> TRUE]]
    /\ UNCHANGED <<nec, firq, fdc, head, spinning, fdc_rw_mutex, fpc, fask, fdone, job, fault>> /\ UNCHANGED data

\* The device layer closes a drive that nobody uses any more.
fdc_close(d) ==
    /\ ~Inside /\ fdd[d].in_use
    /\ \A p \in Users: fpc[p] \in {"idle", "done"} \/ fask[p].drive # d
    /\ fdd' = [fdd EXCEPT ![d].in_use = FALSE]
    /\ UNCHANGED <<nec, firq, fdc, head, spinning, fpc, job, fault>> /\ UNCHANGED data /\ UNCHANGED locks

FddStep(p) == \/ FddCall(p) \/ FddBegin(p) \/ fdc_reset(p) \/ StartAttempt(p) \/ FddRecalibrated(p) \/ Sought(p)
              \/ FddTransferred(p) \/ Copy(p)

FddNext == \/ \E p \in Users: FddStep(p)
           \/ \E d \in Drives: fdc_open(d) \/ fdc_close(d)
           \/ NecDone \/ NecHangs \/ fdc_interrupt \/ fdc_timer_Expires \/ fdc_timer_Motor

FddSpec == FddInit /\ [][FddNext]_fVars /\ WF_fVars(FddNext)

(***************************************************************************)
(* Properties.                                                             *)
(***************************************************************************)
\* What a request is told went through did, sector by sector and at its place, whatever was repeated,
\* recalibrated or done one sector at a time; a write may be told less than what is on the disk.
FloppyCountsRight ==
    \A p \in Users: fpc[p] = "done" =>
        LET d == fask[p].drive
            s(k) == First(p) + k - 1
        IN  /\ fdone[p] \in 0..Wanted(p)
            /\ (fault = 0 /\ ~(d \in ReadOnly /\ fask[p].op = "WRITE")) => fdone[p] = Wanted(p)
            /\ fask[p].op = "READ" => \A k \in 1..fdone[p]: chain[p][k] = <<d, s(k)>>
            /\ fask[p].op = "WRITE" => \A k \in 1..fdone[p]:
                   disk[d][s(k)] # Untold /\ (disk[d][s(k)][1] = p => disk[d][s(k)][2] = k - 1)

\* A disk only ever changes where a write to it was asked for, with that write's data, and a buffer is
\* valid after a read only if all of its sectors were read from their place.
FloppyInItsPlace ==
    /\ \A d \in Drives: \A s \in DOMAIN disk[d]: disk[d][s] # Untold =>
           LET p == disk[d][s][1]
           IN  p \in Users /\ fask[p].op = "WRITE" /\ fask[p].drive = d /\ s = First(p) + disk[d][s][2]
    /\ \A p \in Users: (fpc[p] = "done" /\ fask[p].op = "READ") =>
           \A b \in DOMAIN fvalid[p]: fvalid[p][b] =>
               \A k \in ((b - 1) * FddSpb + 1) .. (b * FddSpb): chain[p][k] = <<fask[p].drive, First(p) + k - 1>>

\* No motor is stopped under a transfer, or turns without the timer knowing of it (unless the drive was
\* opened anew while it turned).
MotorKnown ==
    /\ \A p \in Users: (fpc[p] = "transfer" /\ fdc.waits_interrupt) => spinning = fdc.drive
    /\ \A d \in Drives: (spinning = d /\ ~reopened) => fdd[d].motor

FloppyExact == FloppyCountsRight /\ FloppyInItsPlace /\ MotorKnown

\* Every request has ended, whatever the drives did, and the motor stands still (unless the drive was
\* opened anew while it turned).
FloppyAtRest == /\ \A p \in Users: fpc[p] \in {"idle", "done"}
                /\ spinning = INVALID_TRACK \/ reopened
=============================================================================
