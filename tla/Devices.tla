------------------------------- MODULE Devices -------------------------------
(***************************************************************************)
(* The device switch, fs/driver.c, with the interrupt and timer tables     *)
(* that registrations fill (kernel/irq.c, kernel/sched.c), the character   *)
(* devices that are opened through it (fs/device.c) and the memory and     *)
(* null devices.                                                           *)
(*                                                                         *)
(* Drivers register one after the other while the system starts; from then *)
(* on processes open, use and close nodes.  The entry of fdt that an       *)
(* open() takes keeps the inode it was last used for until the name has    *)
(* been looked up, and a close() that waits for its inode has given its    *)
(* entry back before: can_close_device() and chr_close() read such         *)
(* entries.  What comes of it is in the histories kept and stolen.           *)
(***************************************************************************)
EXTENDS Integers, FiniteSets, Sequences

CONSTANTS DevProcs, DevFds,    \* processes; entries of fdt, 1..SYSTEM_OPEN_MAX - 1
          Nodes, Rdev,         \* inodes and their i_rdev, of major 0 when they are no devices
          Boots,               \* the drivers a system may register, in order
          Existing,            \* devices the hardware has
          MaxDrivers, MaxIrq,  \* MAX_DRIVERS, MAX_IRQ
          MemSize,             \* memory_pages * PAGE_SIZE
          Offsets, DevCounts,  \* of lseek(), of read() and write().  A bound
          DevCalls             \* bound: the calls of a behaviour

NOIRQ       == 255
TIMER_IRQ   == 0
CASCADE_IRQ == 2

Ops         == {"open", "close", "read", "write", "ioctl", "fcntl", "lseek"}
DriverNames == {"", "fdc", "hdc", "vtty", "lp", "klog", "null", "mem", "kmem"}
Drivers     == [name : DriverNames, major : 0..255, irq : 0..255, timer : BOOLEAN, minors : 0..255, fns : SUBSET Ops]
DeviceNos   == [major : 0..255, minor : 0..255]

ASSUME DevAssumption ==
    /\ MaxDrivers \in 1..256 /\ MaxIrq \in 3..32 /\ MemSize \in Nat
    /\ DevFds \subseteq Nat \ {0} /\ DevCounts \subseteq Nat /\ Offsets \subseteq Int /\ DevCalls \in Nat
    /\ \A b \in Boots : b \in Seq({gd \in Drivers : gd.major # 0})
    /\ 0 \notin Nodes /\ Rdev \in [Nodes \cup {0} -> DeviceNos] /\ Rdev[0].major = 0

VARIABLES boot,                \* the drivers still to be registered
          driver,              \* the table: a driver for each major number, or none
          irq_map, timer_map,  \* the interrupts and the timers that are taken
          in_use,              \* the devices whose driver holds them open
          dfdt,                \* fdt: an entry's count, inode and offset
          dproc,               \* where each process is, in which entry, with which inode; what it has open
          dpanic, reached,     \* PANIC; history: the bytes of memory that /dev/mem has reached
          kept, stolen,          \* history: devices the last close() left open; a closing entry was given away
          dcalls

dVars == <<boot, driver, irq_map, timer_map, in_use, dfdt, dproc, dpanic, reached, kept, stolen, dcalls>>

Majors   == 0..MaxDrivers - 1
NoDriver == [name |-> "", major |-> 0, irq |-> NOIRQ, timer |-> FALSE, minors |-> 0, fns |-> {}]

DevInit == /\ boot \in Boots /\ driver = [m \in Majors |-> NoDriver]
           /\ irq_map = {TIMER_IRQ, CASCADE_IRQ} /\ timer_map = <<>> /\ in_use = {}
           /\ dfdt = [fd \in DevFds |-> [count |-> 0, inode |-> 0, offset |-> 0]]
           /\ dproc = [p \in DevProcs |-> [pc |-> "idle", fd |-> 0, inode |-> 0, has |-> {}]]
           /\ dpanic = FALSE /\ reached = 0 /\ kept = {} /\ stolen = FALSE /\ dcalls = DevCalls

(***************************************************************************)
(* Registration.                                                           *)
(***************************************************************************)
registered(major) == major \in Majors /\ "open" \in driver[major].fns

Complete(gd)   == {"open", "close", "read"} \subseteq gd.fns
Acceptable(gd) == gd.major \in Majors /\ ~registered(gd.major) /\ Complete(gd)
IrqFree(gd)    == gd.irq = NOIRQ \/ (gd.irq < MaxIrq /\ gd.irq \notin irq_map)
TimerFree(gd)  == ~gd.timer \/ Len(timer_map) < MaxDrivers

irq_register(gd)   == irq_map' = irq_map \cup ({gd.irq} \ {NOIRQ})
register_timer(gd) == timer_map' = IF gd.timer THEN Append(timer_map, gd.major) ELSE timer_map

\* Mutant: the interrupt is taken before the driver is looked at.
register_driver_IrqFirst ==
    LET gd == Head(boot)
    IN  /\ boot # <<>> /\ boot' = Tail(boot)
        /\ irq_register(gd)
        /\ IF Acceptable(gd) /\ IrqFree(gd)
           THEN register_timer(gd) /\ driver' = [driver EXCEPT ![gd.major] = gd]
           ELSE UNCHANGED <<driver, timer_map>>
        /\ UNCHANGED <<in_use, dfdt, dproc, reached, kept, stolen, dcalls, dpanic>>

\* Without room for its timer a driver gives back its interrupt: irq_unregister() panics when it has none.
register_driver ==
    LET gd == Head(boot)
    IN  /\ boot # <<>> /\ boot' = Tail(boot) /\ ~dpanic
        /\ IF Acceptable(gd) /\ IrqFree(gd) /\ TimerFree(gd)
           THEN irq_register(gd) /\ register_timer(gd) /\ driver' = [driver EXCEPT ![gd.major] = gd]
           ELSE UNCHANGED <<driver, irq_map, timer_map>>
        /\ dpanic' = (Acceptable(gd) /\ IrqFree(gd) /\ ~TimerFree(gd) /\ gd.irq = NOIRQ)
        /\ UNCHANGED <<in_use, dfdt, dproc, reached, kept, stolen, dcalls>>

(***************************************************************************)
(* Opening.  The driver of the terminals, that of the printers and that of *)
(* the log remember who is open; those of memory and null do not.          *)
(***************************************************************************)
Drv(d)    == driver[d.major]
Booted    == boot = <<>>
Up        == Booted /\ ~dpanic
Calls(p)  == Up /\ dproc[p].pc = "idle" /\ dcalls > 0 /\ dcalls' = dcalls - 1
Locked(n) == \E p \in DevProcs : dproc[p].pc = "locked" /\ dproc[p].inode = n
Free      == {fd \in DevFds : dfdt[fd].count = 0}

\* The log has one flag for all its minors.
Flag(d) == IF Drv(d).name = "klog" THEN [d EXCEPT !.minor = 0] ELSE d
Remembers(d) == registered(d.major) /\ Drv(d).name \in {"vtty", "lp", "klog"}

\* An entry is promised; its inode is still the one it was last used for.
get_fd(p, n) ==
    /\ Calls(p)
    /\ \E fd \in Free :
         /\ \A other \in Free : fd <= other
         /\ dfdt' = [dfdt EXCEPT ![fd].count = 1]
         /\ dproc' = [dproc EXCEPT ![p].pc = "naming", ![p].fd = fd, ![p].inode = n]
         /\ stolen' = (stolen \/ \E q \in DevProcs : dproc[q].pc = "closing" /\ dproc[q].fd = fd)
    /\ UNCHANGED <<boot, driver, irq_map, timer_map, in_use, dpanic, reached, kept>>

\* The inode is found and locked.
Named(p) == /\ Up /\ dproc[p].pc = "naming" /\ ~Locked(dproc[p].inode)
            /\ dproc' = [dproc EXCEPT ![p].pc = "locked"]
            /\ UNCHANGED <<boot, driver, irq_map, timer_map, in_use, dfdt, dpanic, reached, kept, stolen, dcalls>>

vtty_open(d) == d \in Existing
klog_open(d) == Flag(d) \notin in_use
lp_open(d, wronly) == wronly /\ d \in Existing /\ d \notin in_use
drv_open(d, wronly) == /\ registered(d.major)
                       /\ CASE Drv(d).name = "vtty" -> vtty_open(d)
                            [] Drv(d).name = "lp"   -> lp_open(d, wronly)
                            [] Drv(d).name = "klog" -> klog_open(d)
                            [] OTHER                -> TRUE

chr_open(p, wronly) ==
    LET fd == dproc[p].fd n == dproc[p].inode d == Rdev[n]
        opens == d.major = 0 \/ drv_open(d, wronly)
    IN  /\ Up /\ dproc[p].pc = "locked"
        /\ dfdt' = [dfdt EXCEPT ![fd] = [count |-> IF opens THEN 1 ELSE 0, inode |-> n, offset |-> 0]]
        /\ dproc' = [dproc EXCEPT ![p] = [pc |-> "idle", fd |-> 0, inode |-> 0,
                                          has |-> IF opens THEN @.has \cup {fd} ELSE @.has]]
        /\ IF opens /\ Remembers(d) THEN in_use' = in_use \cup {Flag(d)} /\ kept' = kept \ {Flag(d)}
                                    ELSE UNCHANGED <<in_use, kept>>
        /\ UNCHANGED <<boot, driver, irq_map, timer_map, dpanic, reached, stolen, dcalls>>

(***************************************************************************)
(* Closing.                                                                *)
(***************************************************************************)
UsedBy(d, fd) == {other \in DevFds \ {fd} : dfdt[other].count > 0 /\ Rdev[dfdt[other].inode] = d}

can_close_device(d, fd) == UsedBy(d, fd) = {}

Promised == {dproc[p].fd : p \in {q \in DevProcs : dproc[q].pc \in {"naming", "locked"}}}

drv_close(d) == in_use' = in_use \ {Flag(d)} /\ kept' = kept \ {Flag(d)}

chr_close(d, fd) ==
    IF ~Remembers(d) THEN UNCHANGED <<in_use, kept>>
    ELSE IF can_close_device(d, fd)
         THEN drv_close(d)
         ELSE /\ UNCHANGED in_use
              /\ kept' = IF UsedBy(d, fd) # {} /\ UsedBy(d, fd) \subseteq Promised THEN kept \cup {Flag(d)} ELSE kept

sys_close(p, fd) ==
    LET n == dfdt[fd].inode
    IN  /\ Calls(p) /\ fd \in dproc[p].has
        /\ dfdt' = [dfdt EXCEPT ![fd].count = 0]
        /\ IF Locked(n)
           THEN /\ dproc' = [dproc EXCEPT ![p] = [pc |-> "closing", fd |-> fd, inode |-> n, has |-> @.has \ {fd}]]
                /\ UNCHANGED <<in_use, kept>>
           ELSE dproc' = [dproc EXCEPT ![p].has = @ \ {fd}] /\ chr_close(Rdev[n], fd)
        /\ UNCHANGED <<boot, driver, irq_map, timer_map, dpanic, reached, stolen>>

\* The inode is free at last.
Closes(p) ==
    LET fd == dproc[p].fd
    IN  /\ Up /\ dproc[p].pc = "closing" /\ ~Locked(dproc[p].inode)
        /\ chr_close(Rdev[dfdt[fd].inode], fd)
        /\ dfdt' = [dfdt EXCEPT ![fd].count = 0]
        /\ dproc' = [dproc EXCEPT ![p] = [@ EXCEPT !.pc = "idle", !.fd = 0, !.inode = 0]]
        /\ UNCHANGED <<boot, driver, irq_map, timer_map, dpanic, reached, stolen, dcalls>>

(***************************************************************************)
(* Use.  A call that finds no driver panics, one the driver does not have  *)
(* fails.  Only the memory devices look at the offset, and only they can   *)
(* be positioned.                                                          *)
(***************************************************************************)
Opened(p, fd) == Calls(p) /\ fd \in dproc[p].has /\ Rdev[dfdt[fd].inode].major # 0
Does(fd, f)   == LET d == Rdev[dfdt[fd].inode] IN registered(d.major) /\ f \in Drv(d).fns
Panics(fd)    == dpanic' = ~registered(Rdev[dfdt[fd].inode].major)
IsMemory(fd)  == Drv(Rdev[dfdt[fd].inode]).name \in {"mem", "kmem"}

\* What lies beyond the last byte of memory is not there; kmem_read() and kmem_write() do not look.
mem_read(offset, n) == IF offset >= MemSize THEN 0 ELSE IF n < MemSize - offset THEN n ELSE MemSize - offset
IsMem(fd)           == Drv(Rdev[dfdt[fd].inode]).name = "mem"

Transfer(p, fd, f, n) ==
    LET moved == IF IsMem(fd) THEN mem_read(dfdt[fd].offset, n) ELSE n
        end   == dfdt[fd].offset + moved
    IN  /\ Opened(p, fd) /\ Panics(fd)
        /\ IF Does(fd, f) /\ IsMemory(fd)
           THEN /\ dfdt' = [dfdt EXCEPT ![fd].offset = end]
                /\ reached' = IF IsMem(fd) /\ moved > 0 /\ end > reached THEN end ELSE reached
           ELSE UNCHANGED <<dfdt, reached>>
        /\ UNCHANGED <<boot, driver, irq_map, timer_map, in_use, dproc, kept, stolen>>
chr_read(p, fd, n)  == Transfer(p, fd, "read", n)
chr_write(p, fd, n) == Transfer(p, fd, "write", n)

Control(p, fd) == /\ Opened(p, fd) /\ Panics(fd)
                  /\ UNCHANGED <<boot, driver, irq_map, timer_map, in_use, dfdt, dproc, reached, kept, stolen>>
sys_ioctl(p, fd) == Control(p, fd)
sys_fcntl(p, fd) == Control(p, fd)

mem_lseek(fd) == LET d == Rdev[dfdt[fd].inode] IN Does(fd, "lseek") /\ IsMemory(fd) /\ d.minor < Drv(d).minors

\* lseek() to a place, or from where the descriptor is; null_lseek(), klog_lseek(), vtty_lseek() and lp_lseek() refuse.
sys_lseek(p, fd, offset, current) ==
    LET new == IF current THEN dfdt[fd].offset + offset ELSE offset
    IN  /\ Opened(p, fd)
        /\ IF new < 0 THEN UNCHANGED <<dpanic, dfdt>>
           ELSE Panics(fd) /\ dfdt' = IF mem_lseek(fd) THEN [dfdt EXCEPT ![fd].offset = new] ELSE dfdt
        /\ UNCHANGED <<boot, driver, irq_map, timer_map, in_use, dproc, reached, kept, stolen>>

\* Once an entry is given away under a close(), anything may follow: the behaviour ends.
DevNext ==
    /\ ~stolen
    /\ \/ register_driver
       \/ \E p \in DevProcs :
            \/ \E n \in Nodes : get_fd(p, n)
            \/ Named(p) \/ Closes(p) \/ \E wronly \in BOOLEAN : chr_open(p, wronly)
            \/ \E fd \in DevFds :
                 \/ sys_close(p, fd) \/ sys_ioctl(p, fd) \/ sys_fcntl(p, fd)
                 \/ \E n \in DevCounts : chr_read(p, fd, n) \/ chr_write(p, fd, n)
                 \/ \E o \in Offsets, current \in BOOLEAN : sys_lseek(p, fd, o, current)

DevSpec == DevInit /\ [][DevNext]_dVars

(***************************************************************************)
(* Properties.                                                             *)
(***************************************************************************)
Registered == {m \in Majors : registered(m)}
Shows(n, d) == Rdev[n].major = d.major /\ Flag(Rdev[n]) = d
HasOpen(d)  == \E p \in DevProcs : \E fd \in dproc[p].has : Shows(dfdt[fd].inode, d)
Leaving(d)  == \E p \in DevProcs : dproc[p].pc = "closing" /\ Shows(dproc[p].inode, d)

\* A registration that is refused leaves nothing behind: the interrupts and the timers that are taken are those of
\* the clock, the cascade and the registered drivers, one each (register_driver(), irq_register(), register_timer()).
TablesMatch == /\ irq_map = {TIMER_IRQ, CASCADE_IRQ} \cup ({driver[m].irq : m \in Registered} \ {NOIRQ})
               /\ \A m \in Registered : driver[m].irq \notin {TIMER_IRQ, CASCADE_IRQ}
               /\ \A m, o \in Registered : driver[m].irq = driver[o].irq /\ driver[m].irq # NOIRQ => m = o
               /\ {timer_map[i] : i \in 1..Len(timer_map)} = {m \in Registered : driver[m].timer}
               /\ \A i, j \in 1..Len(timer_map) : timer_map[i] = timer_map[j] => i = j

\* A driver holds open what someone has open, and nothing else for longer than the last close() takes, but for the
\* devices whose last close() met the entry of another open() that still showed them (chr_open(), chr_close(),
\* can_close_device()).
OpenExactly == \A d \in {Flag(Rdev[n]) : n \in {m \in Nodes : Remembers(Rdev[m])}} :
                  /\ HasOpen(d) => d \in in_use
                  /\ d \in in_use => HasOpen(d) \/ Leaving(d) \/ d \in kept

\* No call on an open device finds its driver missing, no registration fails for want of a timer, and /dev/mem never
\* reaches past the last byte of memory (drv_read(), drv_write(), drv_ioctl(), drv_fcntl(), drv_lseek(), mem_read()).
DevicesSound == TablesMatch /\ (stolen \/ OpenExactly) /\ ~dpanic /\ reached <= MemSize
=============================================================================
