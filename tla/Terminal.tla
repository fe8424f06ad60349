------------------------------ MODULE Terminal ------------------------------
(***************************************************************************)
(* The input side of a virtual terminal, driver/character/vtty.c and       *)
(* termios.c: the keyboard interrupt fills a ring of MAX_INPUT bytes, which *)
(* canonical and raw readers empty, and stops and starts the output.       *)
(*                                                                         *)
(* The keyboard interrupts only while every process sleeps, polls with     *)
(* reschedule(), or runs in user mode: vtty_read_data() and the rest are   *)
(* atomic between their sleeps.  It is the terminal that has the keyboard; *)
(* what is typed to another one does not come here, and scrolllock, which  *)
(* vtty_setfocus() saves and restores, is the one it has with the focus.   *)
(* A slot of the ring that holds no input reads as Blank.                  *)
(***************************************************************************)
EXTENDS Integers, Sequences, FiniteSets, FiniteSetsExt, SequencesExt

CONSTANTS TtyProcs,     \* processes
          Leader,       \* the one that leads the session
          MaxInput,     \* MAX_INPUT, 255
          Counts,       \* bytes asked for by read()
          TtyMenus      \* what a behaviour may consist of: the sequences of bytes that keys send, what
                        \* tcsetattr() sets, and calls.  A bound

Blank == "-"
\* c_cc[]
VEOL   == "NL"
VEOF   == "^D"
VERASE == "^H"
VKILL  == "^U"
VINTR  == "^C"
VSTOP  == "^S"
VSTART == "^Q"
BEL    == "^G"
CR     == "CR"

\* What tcsetattr() sets.
Attributes == [icanon : BOOLEAN, isig : BOOLEAN, noflsh : BOOLEAN, icrnl : BOOLEAN, inlcr : BOOLEAN, igncr : BOOLEAN,
               ixon : BOOLEAN, cread : BOOLEAN, min : Nat, time : BOOLEAN]

\* By the tables of keys, no byte after the first one ends a line.
ASSUME TerminalAssumption ==
    /\ Leader \in TtyProcs /\ MaxInput \in Nat /\ MaxInput > 4 /\ Counts \subseteq Nat
    /\ \A m \in TtyMenus :
          /\ \A k \in m.keys : /\ k \in Seq(ToSet(k)) /\ Len(k) \in 1..3
                               /\ \A i \in DOMAIN k : k[i] # Blank /\ (i > 1 => k[i] \notin {VEOL, VEOF})
          /\ m.settings \subseteq Attributes

VARIABLES tmenu,        \* the menu
          kbd,          \* kbdqueue, kbdhead, kbdtail, kbdcount
          tio,          \* the attributes in force
          nonblock,     \* O_NONBLOCK in flags, set by fcntl() for everyone
          scroll, scrolllock,
          rebooting,    \* ctrl_alt_del_pressed
          tpc,          \* per process: where it is in a call
          rd,           \* per process: cnt, and _min_, start_count of vtty_read_data()
          tsig,         \* a signal is pending
          tty,          \* per process: open, ctty
          crossed       \* history: readers whose terminal was given other attributes while they slept

ttyVars == <<tmenu, kbd, tio, nonblock, scroll, scrolllock, rebooting, tpc, rd, tsig, tty, crossed>>
modes   == <<tmenu, tio, nonblock, scroll, scrolllock, rebooting>>

May(c)  == c \in tmenu.calls

Empty   == [queue |-> [i \in 0..MaxInput |-> Blank], head |-> 0, tail |-> 0, count |-> 0]
\* vtty_reset()
Cooked  == [icanon |-> TRUE, isig |-> TRUE, noflsh |-> FALSE, icrnl |-> TRUE, inlcr |-> FALSE, igncr |-> FALSE,
            ixon |-> TRUE, cread |-> TRUE, min |-> 0, time |-> FALSE]
NoRead  == [cnt |-> 0, min |-> 0, start |-> 0]

TtyInit == /\ tmenu \in TtyMenus
           /\ kbd = Empty /\ tio = Cooked
           /\ nonblock = FALSE /\ scroll = TRUE /\ scrolllock = FALSE /\ rebooting = FALSE
           /\ tpc = [p \in TtyProcs |-> "user"] /\ rd = [p \in TtyProcs |-> NoRead]
           /\ tsig = {} /\ tty = [p \in TtyProcs |-> [open |-> FALSE, ctty |-> FALSE]]
           /\ crossed = {}

(***************************************************************************)
(* The ring.                                                               *)
(***************************************************************************)
Put(k, b) == [queue |-> [k.queue EXCEPT ![k.tail] = b], head |-> k.head,
              tail  |-> IF k.tail + 1 = MaxInput THEN 0 ELSE k.tail + 1, count |-> k.count + 1]

\* VERASE takes the last byte back, also over the end of a line.
Erased(k) == LET t == IF k.tail # 0 THEN k.tail - 1 ELSE MaxInput - 1
             IN  [k EXCEPT !.queue[t] = Blank, !.tail = t, !.count = @ - 1]

\* The two memcpy()s of vtty_read_data().
Copied(k, n) ==
    LET first_part == MaxInput - k.head
    IN  [i \in 1..n |-> IF i <= first_part THEN k.queue[k.head + i - 1] ELSE k.queue[i - first_part - 1]]

\* What is left of it; kbdhead comes to stand behind the ring when a read ends there.
Taken(k, n) ==
    LET first_part == MaxInput - k.head
        gone == {i \in 0..MaxInput - 1 : i \in k.head..k.head + n - 1 \/ i + MaxInput \in k.head..k.head + n - 1}
    IN  [queue |-> [i \in 0..MaxInput |-> IF i \in gone THEN Blank ELSE k.queue[i]],
         head  |-> IF n > first_part THEN n - first_part ELSE k.head + n,
         tail  |-> k.tail, count |-> k.count - n]

\* Behind the ring is cap_buf[], which holds no VEOF.
discard_eof(k) ==
    IF k.count # 0 /\ k.queue[k.head] = VEOF
    THEN [k EXCEPT !.queue[k.head] = Blank, !.head = IF k.head + 1 = MaxInput THEN 0 ELSE k.head + 1, !.count = @ - 1]
    ELSE k

\* The bytes vtty_line_count() looks at, in its order.
Scanned(k) == IF k.head > k.tail
              THEN [i \in 1..MaxInput - k.head |-> k.queue[k.head + i - 1]] \o [i \in 1..k.tail |-> k.queue[i - 1]]
              ELSE [i \in 1..k.tail - k.head |-> k.queue[k.head + i - 1]]

\* Mutant: the end of file is counted.
vtty_line_count_WithEof(k) ==
    LET s == Scanned(k)   ends == {i \in DOMAIN s : s[i] \in {VEOL, VEOF}}
    IN  IF ends = {} THEN -1 ELSE Min(ends)

vtty_line_count(k) ==
    LET s == Scanned(k)   ends == {i \in DOMAIN s : s[i] \in {VEOL, VEOF}}
    IN  IF ends = {} THEN -1 ELSE Min(ends) - (IF s[Min(ends)] = VEOF THEN 1 ELSE 0)

(***************************************************************************)
(* Sleep and wakeup.                                                       *)
(***************************************************************************)
Readers  == {"line", "min"}          \* asleep on vt
Ready(l) == CASE l = "line" -> "line again" [] l = "min" -> "min again" [] l = "out" -> "out again" [] OTHER -> l

\* Who is asleep at one of the places ls, and is of ps.
Awakened(ps, ls) == [p \in TtyProcs |-> IF p \in ps /\ tpc[p] \in ls THEN Ready(tpc[p]) ELSE tpc[p]]

\* kill_kpid(): it wakes sleepers, and pends until they return to user mode.
Killed(ps) == /\ tsig' = tsig \cup {p \in ps : tpc[p] # "user"}
              /\ tpc' = Awakened(ps, {"line", "min", "out"})

tGoto(p, l) == /\ tpc' = [tpc EXCEPT ![p] = l]
               /\ tsig' = IF l = "user" THEN tsig \ {p} ELSE tsig

\* sleep() returns at once when a signal is pending.
SleepsAt(p, l) == tGoto(p, IF p \in tsig THEN "user" ELSE l)

(***************************************************************************)
(* The keyboard interrupt: vtty_insertkey() of what a key sends.           *)
(***************************************************************************)
Mapped(k) == IF k[1] = CR /\ tio.icrnl THEN <<VEOL>> ELSE IF k[1] = VEOL /\ tio.inlcr THEN <<CR>> ELSE k
Hears(k)  == tio.cread /\ ~(k[1] = CR /\ tio.igncr)
Signals(k) == tio.isig /\ Mapped(k)[1] = VINTR
Edits(k)   == tio.icanon /\ ~Signals(k) /\
              \/ Mapped(k)[1] \in {VKILL, VERASE, BEL}
              \/ tio.ixon /\ Mapped(k)[1] \in {VSTOP, VSTART}

\* The interrupt character: the input goes, everybody but leaders is killed.
KeySignal(k) == /\ Hears(k) /\ Signals(k)
                /\ kbd' = IF tio.noflsh THEN kbd ELSE Empty
                /\ Killed({p \in TtyProcs \ {Leader} : tty[p].ctty})
                /\ UNCHANGED <<modes, rd, tty, crossed>>

KeyErase(k) == /\ Hears(k) /\ Edits(k)
               /\ \/ Mapped(k)[1] = VKILL /\ kbd' = Empty
                  \/ Mapped(k)[1] = VERASE /\ kbd.count # 0 /\ kbd' = Erased(kbd)
               /\ UNCHANGED <<modes, tpc, rd, tsig, tty, crossed>>

\* update_scrolllock()
StopsAt(lock) == /\ scroll' = ~lock /\ scrolllock' = lock
                 /\ tpc' = IF lock THEN tpc ELSE Awakened(TtyProcs, {"out"})

KeyStop(k) == /\ Hears(k) /\ Edits(k) /\ Mapped(k)[1] \in {VSTOP, VSTART}
              /\ StopsAt(Mapped(k)[1] = VSTOP)
              /\ UNCHANGED <<tmenu, kbd, tio, nonblock, rebooting, rd, tsig, tty, crossed>>

\* Mutant: an end of file wakes nobody.
KeyInsert_EofSilent(k) ==
    /\ Hears(k) /\ ~Signals(k) /\ ~Edits(k)
    /\ MaxInput - kbd.count >= 4
    /\ kbd' = FoldLeft(Put, kbd, Mapped(k))
    /\ tpc' = IF tio.icanon /\ Mapped(k)[1] # VEOL THEN tpc ELSE Awakened(TtyProcs, Readers)
    /\ UNCHANGED <<modes, rd, tsig, tty, crossed>>

\* In canonical mode only the end of a line wakes the readers.
KeyInsert(k) ==
    /\ Hears(k) /\ ~Signals(k) /\ ~Edits(k)
    /\ MaxInput - kbd.count >= 4
    /\ kbd' = FoldLeft(Put, kbd, Mapped(k))
    /\ tpc' = IF tio.icanon /\ Mapped(k)[1] \notin {VEOL, VEOF} THEN tpc ELSE Awakened(TtyProcs, Readers)
    /\ UNCHANGED <<modes, rd, tsig, tty, crossed>>

ScrollLockKey == StopsAt(~scrolllock) /\ UNCHANGED <<tmenu, kbd, tio, nonblock, rebooting, rd, tsig, tty, crossed>>

\* The output goes on, but nobody who waits for it is woken.
CtrlAltDel == /\ scroll' = TRUE /\ rebooting' = TRUE
              /\ UNCHANGED <<tmenu, kbd, tio, nonblock, scrolllock, tpc, rd, tsig, tty, crossed>>

vtty_keyboard_interrupt == \/ \E k \in tmenu.keys : KeySignal(k) \/ KeyErase(k) \/ KeyStop(k) \/ KeyInsert(k)
                           \/ May("stop") /\ (ScrollLockKey \/ CtrlAltDel)

(***************************************************************************)
(* read() and write().                                                     *)
(***************************************************************************)
Leaves(p)  == tGoto(p, "user") /\ crossed' = crossed \ {p} /\ UNCHANGED <<modes, tty>>
Stays(p)   == UNCHANGED <<kbd, modes, tty, crossed>>

\* The attributes are looked at again at the end.
Finish(p, n) == /\ kbd' = IF tio.icanon THEN discard_eof(Taken(kbd, n)) ELSE Taken(kbd, n)
                /\ Leaves(p)
Fails(p)     == Leaves(p) /\ UNCHANGED kbd
Waits(p, l)  == IF nonblock \/ p \in tsig THEN Fails(p) ELSE tGoto(p, l) /\ Stays(p)

ReadLine(p, r) == LET count == vtty_line_count(kbd)
                  IN  IF count # -1 THEN Finish(p, Min({r.cnt, count})) ELSE Waits(p, "line")
ReadMin(p, r)  == IF kbd.count >= r.min THEN Finish(p, Min({r.cnt, kbd.count})) ELSE Waits(p, "min")

\* VMIN and VTIME: the time starts again with every byte, and before the first one.
ReadPoll(p, r) == IF kbd.count >= r.min THEN Finish(p, Min({r.cnt, kbd.count})) ELSE tGoto(p, "poll") /\ Stays(p)

\* What a read keeps while it waits.
Keeps(p, r) == rd' = [rd EXCEPT ![p] = IF tpc'[p] = "user" THEN NoRead ELSE r]

vtty_read(p, n) ==
    LET r == [cnt |-> n, min |-> tio.min, start |-> kbd.count]
    IN  /\ tpc[p] = "user" /\ tty[p].open /\ tty[p].ctty
        /\ CASE tio.icanon               -> ReadLine(p, r)
             [] ~tio.icanon /\ tio.time  -> ReadPoll(p, IF tio.min = 0 THEN [r EXCEPT !.min = 1] ELSE r)
             [] ~tio.icanon /\ ~tio.time -> ReadMin(p, r)
        /\ Keeps(p, r)

ReadAgain(p) == /\ \/ tpc[p] = "line again" /\ ReadLine(p, rd[p])
                   \/ tpc[p] = "min again" /\ ReadMin(p, rd[p])
                /\ Keeps(p, rd[p])

\* A byte came since the process started to wait for one.
PollMore(p) == /\ tpc[p] = "poll" /\ kbd.count > rd[p].start
               /\ ReadPoll(p, rd[p])
               /\ Keeps(p, [rd[p] EXCEPT !.start = kbd.count])

PollOver(p) == /\ tpc[p] = "poll" /\ kbd.count <= rd[p].start
               /\ Finish(p, Min({rd[p].cnt, kbd.count}))
               /\ Keeps(p, rd[p])

\* vtty_outchar(), before the first character.
WriteChar(p) == IF scroll THEN Fails(p) ELSE Waits(p, "out")

vtty_write(p) == tpc[p] = "user" /\ tty[p].open /\ ~scroll /\ WriteChar(p) /\ UNCHANGED rd
WriteAgain(p) == tpc[p] = "out again" /\ WriteChar(p) /\ UNCHANGED rd

(***************************************************************************)
(* The calls that set it up.                                               *)
(***************************************************************************)
Others(p) == {q \in TtyProcs \ {p} : tpc[q] # "user"}

\* sys_tcsetattr(); with TCSAFLUSH and TCSADRAIN the input goes.
vtty_setattr(p, t, flush) ==
    /\ tpc[p] = "user" /\ tty[p].open /\ tty[p].ctty /\ tio # t
    /\ tio' = t
    /\ kbd' = IF flush THEN Empty ELSE kbd
    /\ crossed' = IF t.icanon # tio.icanon THEN crossed \cup Others(p) ELSE crossed
    /\ UNCHANGED <<tmenu, nonblock, scroll, scrolllock, rebooting, tpc, rd, tsig, tty>>

vtty_discard_input(p) ==
    /\ tpc[p] = "user" /\ tty[p].open /\ tty[p].ctty
    /\ kbd' = Empty
    /\ UNCHANGED <<modes, tpc, rd, tsig, tty, crossed>>

vtty_fcntl(p) ==
    /\ tpc[p] = "user" /\ tty[p].open /\ tty[p].ctty
    /\ nonblock' = ~nonblock
    /\ UNCHANGED <<tmenu, kbd, tio, scroll, scrolllock, rebooting, tpc, rd, tsig, tty, crossed>>

\* The leader without a terminal gets this one, unless it does not want it.
vtty_open(p, noctty) ==
    /\ tpc[p] = "user" /\ ~tty[p].open
    /\ tty' = [tty EXCEPT ![p] = [open |-> TRUE, ctty |-> @.ctty \/ (p = Leader /\ ~noctty)]]
    /\ UNCHANGED <<kbd, modes, tpc, rd, tsig, crossed>>

\* chr_close(): the last one resets the terminal, but for the flags and the scroll lock.
vtty_close(p) ==
    /\ tpc[p] = "user" /\ tty[p].open
    /\ tty' = [tty EXCEPT ![p].open = FALSE]
    /\ IF \E q \in TtyProcs \ {p} : tty[q].open THEN UNCHANGED <<kbd, tio>> ELSE kbd' = Empty /\ tio' = Cooked
    /\ UNCHANGED <<tmenu, nonblock, scroll, scrolllock, rebooting, tpc, rd, tsig, crossed>>

\* sys_fork() of the leader: the child has its terminal.
TtyFork(p) ==
    /\ p # Leader /\ tpc[p] = "user" /\ ~tty[p].open /\ tpc[Leader] = "user" /\ tty[Leader].open
    /\ tty' = [tty EXCEPT ![p] = tty[Leader]]
    /\ UNCHANGED <<kbd, modes, tpc, rd, tsig, crossed>>

\* sys_exit() of the leader: its session loses the terminal, and is told.
SessionEnds ==
    /\ tpc[Leader] = "user" /\ ~tty[Leader].open /\ tty[Leader].ctty
    /\ tty' = [p \in TtyProcs |-> [tty[p] EXCEPT !.ctty = FALSE]]
    /\ Killed(TtyProcs)
    /\ UNCHANGED <<kbd, modes, rd, crossed>>

TtyNext ==
    \/ vtty_keyboard_interrupt
    \/ May("exit") /\ SessionEnds
    \/ \E p \in TtyProcs :
          \/ \E n \in Counts : vtty_read(p, n)
          \/ ReadAgain(p) \/ PollMore(p) \/ PollOver(p)
          \/ May("stop") /\ (vtty_write(p) \/ WriteAgain(p))
          \/ \E t \in tmenu.settings : \E flush \in BOOLEAN : vtty_setattr(p, t, flush)
          \/ May("flush") /\ vtty_discard_input(p)
          \/ May("fcntl") /\ vtty_fcntl(p)
          \/ \E noctty \in BOOLEAN : vtty_open(p, noctty)
          \/ May("exit") /\ vtty_close(p)
          \/ TtyFork(p)

TtySpec == TtyInit /\ [][TtyNext]_ttyVars

(***************************************************************************)
(* Properties.                                                             *)
(***************************************************************************)
\* What is in the ring, by its head and its count.
Contents == [i \in 1..kbd.count |-> kbd.queue[(kbd.head + i - 1) % MaxInput]]

\* The ring is one: the tail is where the head and the count say, and what a read
\* copies in two parts (vtty_read_data()) is what comes first.
RingSound ==
    /\ kbd.count \in 0..MaxInput /\ kbd.head \in 0..MaxInput
    /\ kbd.tail = (kbd.head + kbd.count) % MaxInput
    /\ \A i \in DOMAIN Contents : Contents[i] # Blank
    /\ \A n \in 0..kbd.count : Copied(kbd, n) = SubSeq(Contents, 1, n)

\* Who sleeps in read() has nothing to read, who sleeps in write() must not write:
\* the interrupt that ends this wakes him (vtty_insertkey(), update_scrolllock()).
\* As long as nobody changed the mode under a reader, or pressed ctrl-alt-del.
NobodyForgotten ==
    \A p \in TtyProcs :
        /\ tpc[p] = "line" => \A i \in DOMAIN Contents : Contents[i] \notin {VEOL, VEOF}
        /\ tpc[p] = "min" /\ p \notin crossed => kbd.count < rd[p].min
        /\ tpc[p] = "out" => ~scroll \/ rebooting

TerminalSound == RingSound /\ NobodyForgotten

\* insertion, editing and reading keep the promise of TypeAhead.  An end of file in
\* the first slot stays when a read has ended in the last one.
KeysAhead == INSTANCE TypeAhead WITH
    Codes  <- (UNION {m.keys : m \in TtyMenus}) \cup {<<CR>>, <<VEOL>>},
    Eol    <- VEOL, Eof <- VEOF, Room <- MaxInput,
    byLine <- tio.icanon /\ \A p \in TtyProcs : tpc[p] \notin {"min", "min again", "poll"},
    stuck  <- MaxInput - kbd.head,
    line   <- Contents
=============================================================================
