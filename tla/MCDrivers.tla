------------------------------ MODULE MCDrivers ------------------------------
(***************************************************************************)
(* The device drivers on small devices, one per behaviour: they share      *)
(* nothing but the processor.                                              *)
(*                                                                         *)
(* Two partitions of a disk of two cylinders, four heads (two of the       *)
(* drive's) and three sectors, a third entry that is not used, and tables  *)
(* with entries that must be refused; a floppy of two tracks of two sides  *)
(* of two sectors; a terminal whose queue has six places, with two         *)
(* processes; two screens of three lines of four columns; a keyboard of a  *)
(* few keys; a log of four bytes; a printer.                               *)
(***************************************************************************)
EXTENDS HardDisk, Floppy, Terminal, Screen, Keyboard, KernelLog, Printer, TLC

VARIABLE part

At(c, h, s) == [cyl |-> c, head |-> h, sect |-> s]
Entry(a, b, relative, total) == [start |-> a, end |-> b, relative |-> relative, total |-> total]
NoEntry == Entry(At(0, 0, 0), At(0, 0, 0), 0, 0)
Tidy    == <<Entry(At(0, 0, 2), At(0, 3, 3), 1, 11), Entry(At(1, 0, 1), At(1, 3, 3), 12, 12), NoEntry>>
\* Past the last head; a size that is one too many; an end before the start, whose size wraps.
Odd     == <<Entry(At(0, 0, 2), At(0, 3, 3), 1, 11), Entry(At(1, 0, 1), At(1, 4, 3), 12, 15),
             Entry(At(1, 0, 1), At(1, 3, 3), 12, 13), Entry(At(1, 0, 1), At(0, 3, 1), 12, 254)>>

HddRequest(op, p, b, n) == [op |-> op, part |-> p, block |-> b, nblocks |-> n]
FddRequest(op, d, b, n) == [op |-> op, drive |-> d, block |-> b, nblocks |-> n]
HddWork == (1 :> {HddRequest("READ", 1, 1, 2)} @@ 2 :> {HddRequest("WRITE", 1, 1, 2), HddRequest("WRITE", 2, 0, 1)})
FddWork == (1 :> {FddRequest("READ", 0, 1, 2)} @@ 2 :> {FddRequest("WRITE", 0, 1, 1), FddRequest("WRITE", 1, 0, 1)})

Geometry == {Tidy, Odd}

Arrow == <<"ESC", "[", "A">>
Raw(min, time) == [Cooked EXCEPT !.icanon = FALSE, !.isig = FALSE, !.min = min, !.time = time]
Plain   == [Cooked EXCEPT !.icrnl = FALSE, !.igncr = TRUE, !.inlcr = TRUE, !.ixon = FALSE, !.noflsh = TRUE]
Deaf    == [Cooked EXCEPT !.cread = FALSE]
Menu(keys, settings, calls) == [keys |-> keys, settings |-> settings, calls |-> calls]
TtyWork == {Menu({<<"a">>, <<VEOL>>, <<VEOF>>, <<VERASE>>, <<VKILL>>, Arrow}, {}, {"exit"}),
            Menu({<<"a">>, <<VEOF>>, <<CR>>}, {Cooked, Raw(2, FALSE), Raw(2, TRUE), Raw(0, TRUE), Raw(0, FALSE)}, {"flush"}),
            Menu({<<VINTR>>, <<VEOL>>, <<CR>>, <<VSTOP>>}, {Cooked, Plain, Deaf}, {"fcntl"}),
            Menu({<<VINTR>>, <<VSTOP>>, <<VSTART>>, <<BEL>>, <<VEOL>>}, {}, {"stop", "exit", "fcntl"})}

Script(writers, chars, keys, opost) == [writers |-> writers, chars |-> chars, keys |-> keys, opost |-> opost]
ScreenWork == {Script(Screens, {"x", "BS", "TAB", "NL", "CR"}, {"x", "NL"}, TRUE),
               Script({1}, {"ESC", "]", "0", "2", ";", "H", "x", "?"}, {"x"}, FALSE),
               Script({1}, {"ESC", "M", "H", "L", "E", "N", "U", "D", "x"}, {"NL"}, FALSE),
               Script({1}, {"ESC", "C", "S", "E", "D", "L", "A", "B", "V", "x"}, {"x"}, FALSE),
               Script({1}, {"ESC", "[", "3", "0", "m", "x"}, {"x"}, FALSE)}

KeyWork == {{"l_ctrl", "r_ctrl", "l_shift", "letter"}, {"l_shift", "numlock", "arrow", "pad"},
            {"l_alt", "r_alt", "f1", "f2", "capslock"}, {"pause", "l_ctrl", "numlock", "pad"},
            {"l_ctrl", "l_shift", "l_alt", "scrolllock", "f2"}}

Init == /\ part \in {"hard disk", "floppy", "terminal", "screen", "keyboard", "log", "printer"}
        /\ HddInit /\ (part # "hard disk" => hdd_partition = partitions_setup(Tidy))
        /\ FddInit /\ KlogInit /\ LpInit
        /\ TtyInit /\ (part # "terminal" => tmenu = CHOOSE x \in TtyWork : TRUE)
        /\ KeyInit /\ (part # "keyboard" => keymenu = CHOOSE x \in KeyWork : TRUE)
        /\ ScrInit /\ (part # "screen" => script = CHOOSE x \in ScreenWork : TRUE)

Next == \/ part = "hard disk" /\ HddNext /\ UNCHANGED <<part, fVars, ttyVars, scrVars, yVars, kVars, lVars>>
        \/ part = "floppy" /\ FddNext /\ UNCHANGED <<part, hVars, ttyVars, scrVars, yVars, kVars, lVars>>
        \/ part = "terminal" /\ TtyNext /\ UNCHANGED <<part, hVars, fVars, scrVars, yVars, kVars, lVars>>
        \/ part = "screen" /\ ScrNext /\ UNCHANGED <<part, hVars, fVars, ttyVars, yVars, kVars, lVars>>
        \/ part = "keyboard" /\ KeyNext /\ UNCHANGED <<part, hVars, fVars, ttyVars, scrVars, kVars, lVars>>
        \/ part = "log" /\ KlogNext /\ UNCHANGED <<part, hVars, fVars, ttyVars, scrVars, yVars, lVars>>
        \/ part = "printer" /\ LpNext /\ UNCHANGED <<part, hVars, fVars, ttyVars, scrVars, yVars, kVars>>

vars == <<part, hVars, fVars, ttyVars, scrVars, yVars, kVars, lVars>>

\* On the disks what can happen does: hardware, timer and processes go on while any of them has something to do.
DiskSteps == part \in {"hard disk", "floppy"} /\ Next
Spec == Init /\ [][Next]_vars /\ WF_<<hVars, fVars>>(DiskSteps)

\* Each sector is the one the partition names, each buffer that is valid was read, and one command at a time is
\* under way: HardDiskExact and FloppyExact state it of hdc_read(), hdc_write(), fdc_read() and fdc_write().
DisksExact == CASE part = "hard disk" -> HardDiskExact
                [] part = "floppy"    -> FloppyExact
                [] OTHER              -> TRUE

\* What goes to the log, to the printer or comes from the keyboard comes out once and in order, and what a screen
\* shows stays within it: LogExact, PrintedInOrder, KeysExact and ScreenWhole state it of klog_read(), klog_write(),
\* lp_write(), vtty_keyboard_interrupt() and write_to_vtty().
StreamsExact == CASE part = "log"      -> LogExact
                  [] part = "printer"  -> PrintedInOrder
                  [] part = "keyboard" -> KeysExact
                  [] part = "screen"   -> ScreenWhole
                  [] OTHER             -> TRUE

\* hdc_read(), hdc_write(), fdc_read() and fdc_write() come to an end for everyone who calls them, whatever
\* interrupts are lost or late, and the floppy's motor stops (hdc_timer(), fdc_timer(), down() and up()).
DisksComeToRest == <>[](CASE part = "hard disk" -> HardDiskAtRest [] part = "floppy" -> FloppyAtRest [] OTHER -> TRUE)

\* A terminal does what a line discipline promises: what is typed is read once and in order, by lines when
\* ICANON is set, until an end of file sticks (vtty_insertkey(), vtty_read_data(); TypeAhead).
ImplementsTypeAhead == KeysAhead!Spec
=============================================================================
