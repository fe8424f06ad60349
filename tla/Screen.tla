------------------------------- MODULE Screen -------------------------------
(***************************************************************************)
(* The output side of the virtual terminals, driver/character/vtty.c: what *)
(* vtty_outchar() does with each character, the cursor, the escape         *)
(* sequences, the hardware scroll, and the terminal that has the focus.    *)
(*                                                                         *)
(* A screen is cells 0 .. Lines * Columns - 1 from vt->screen on; what     *)
(* they show is left out, and so are colours and attributes.  A character  *)
(* is what it means to the driver, "x" one that is printed.                *)
(***************************************************************************)
EXTENDS Integers, FiniteSets, FiniteSetsExt

CONSTANTS Screens,          \* terminals, 0 is among them
          Lines, Columns,   \* 25, 80
          TabStop,          \* TAB
          VideoWrap,        \* 0x2000 bytes, in cells: where the hardware scroll starts again
          VideoCells,       \* cells of the video memory
          Scripts           \* the characters a behaviour writes.  A bound

ASSUME ScreenAssumption == /\ 0 \in Screens /\ {Lines, Columns, TabStop, VideoWrap} \subseteq Nat \ {0}
                           /\ VideoCells >= VideoWrap + (Lines + 1) * Columns
                           /\ VideoCells \in Nat /\ \A s \in Scripts : s.writers \subseteq Screens

VARIABLES script,
          scr,        \* per terminal: cx, cy; esc, capability, cap_index, temp_cx, temp_cy, separator; opost; screen
          cvtty,      \* the terminal with the focus
          offset,     \* hardware_video_offset, in cells
          shown,      \* the cell of the video memory where the hardware cursor is
          astray      \* history: terminals that were told to put the cursor off the screen

scrVars == <<script, scr, cvtty, offset, shown, astray>>

Buffer  == -1         \* vt->screen is the terminal's own videobuf, else a cell of the video memory
Start0  == [cx |-> 0, cy |-> 0, esc |-> FALSE, capability |-> "none", cap_index |-> 0,
            temp_cx |-> 0, temp_cy |-> 0, separator |-> FALSE, opost |-> TRUE, screen |-> Buffer]

ScrInit == /\ script \in Scripts
           /\ scr = [v \in Screens |-> IF v = 0 THEN [Start0 EXCEPT !.screen = 0] ELSE Start0]
           /\ cvtty = 0 /\ offset = 0 /\ shown = 0 /\ astray = {}

Focused(v) == cvtty = v
OnScreen(s) == s.cx \in 0..Columns - 1 /\ s.cy \in 0..Lines - 1
Cell(s)    == s.cy * Columns + s.cx

(***************************************************************************)
(* vtty_echo(): a character on the screen.                                 *)
(***************************************************************************)
\* Where the cursor goes before the screen is scrolled.
NewLine(s) == IF s.opost THEN [s EXCEPT !.cy = @ + 1, !.cx = 0] ELSE [s EXCEPT !.cy = @ + 1]
Tabbed(s)  == LET x == s.cx + TabStop - (s.cx % TabStop)
              IN  IF x < Columns THEN [s EXCEPT !.cx = x] ELSE NewLine([s EXCEPT !.cx = x])
Printed(s) == IF s.cx + 1 = Columns THEN [s EXCEPT !.cx = 0, !.cy = @ + 1] ELSE [s EXCEPT !.cx = @ + 1]

Advanced(s, c) == CASE c = "BS"  -> [s EXCEPT !.cx = Max({@ - 1, 0})]
                    [] c = "TAB" -> Tabbed(s)
                    [] c = "NL"  -> NewLine(s)
                    [] c = "CR"  -> [s EXCEPT !.cx = 0]
                    [] OTHER     -> Printed(s)

\* The hardware scrolls by a line, or the screen is copied back to the start.
ScrolledTo(o) == IF o < VideoWrap THEN o + Columns ELSE 0

Overflows(s) == s.cy >= Lines

\* vtty_cursormove(): what the hardware is told of a cursor, o is hardware_video_offset.
vtty_cursormove(v, t, o) == shown' = IF Focused(v) /\ t.cx < Columns /\ t.cy < Lines THEN o + Cell(t) ELSE shown

\* Without OPOST a TAB past the end of the line leaves the cursor there.
RunsOut(s, c) == c = "TAB" /\ ~s.opost /\ Tabbed(s).cx >= Columns

vtty_echo(v, c) ==
    LET s == Advanced(scr[v], c)
        o == IF Overflows(s) /\ Focused(v) THEN ScrolledTo(offset) ELSE offset
        t == [s EXCEPT !.cy = IF Overflows(s) THEN Lines - 1 ELSE @,
                       !.screen = IF Overflows(s) /\ Focused(v) THEN o ELSE @]
    IN  /\ scr' = [scr EXCEPT ![v] = t]
        /\ offset' = o
        /\ vtty_cursormove(v, t, o)
        /\ astray' = IF RunsOut(scr[v], c) THEN astray \cup {v} ELSE astray

(***************************************************************************)
(* Escape sequences.                                                       *)
(***************************************************************************)
Value(c)  == CASE c = "0" -> 0 [] c = "1" -> 1 [] c = "2" -> 2 [] c = "9" -> 9
Digits    == {"0", "1", "2", "9"}
Starts    == {"]", "M", "V", "C", "L", "D", "S", "A", "["}   \* what follows ESC; "B" is over at once

\* What the sequence that is over has left is not read again, and forgotten here.
Ended(s)  == [s EXCEPT !.esc = FALSE, !.capability = "none", !.cap_index = 0, !.temp_cx = 0, !.temp_cy = 0, !.separator = FALSE]

\* vtty_cm(), ESC ] row ; column H: which character is taken at which place.
Takes(s, c) ==
    LET i == s.cap_index
    IN  \/ c \in Digits /\ i <= 6 /\ ~(i = 4 /\ ~s.separator)
        \/ c = ";" /\ i \in 1..3 /\ ~s.separator
ToColumn(s) == s.cap_index >= 3 \/ (s.cap_index = 2 /\ s.separator)
Moves(s, c) == c = "H" /\ s.cap_index \in 3..7 /\ ~(s.cap_index = 4 /\ ~s.separator)

CmDigit(s, c) == IF ToColumn(s) THEN [s EXCEPT !.temp_cx = @ * 10 + Value(c)]
                                ELSE [s EXCEPT !.temp_cy = @ * 10 + Value(c)]
CmNext(s, c)  == [(IF c = ";" THEN [s EXCEPT !.separator = TRUE] ELSE CmDigit(s, c)) EXCEPT !.cap_index = @ + 1]

CmTarget(s) == [x |-> s.temp_cx - 1, y |-> s.temp_cy - 1]

\* The cursor is put somewhere, and on the hardware if the terminal has the focus.
PutCursor(v, s) == scr' = [scr EXCEPT ![v] = s] /\ vtty_cursormove(v, s, offset)

\* vtty_cursormove() looks for too large coordinates only.
vtty_cm(v, c) ==
    LET s == scr[v]   ended == Ended(s)   to == CmTarget(s)
        fits == Moves(s, c) /\ to.x < Columns /\ to.y < Lines
    IN  CASE fits -> /\ PutCursor(v, [ended EXCEPT !.cx = to.x, !.cy = to.y])
                     /\ astray' = IF to.x < 0 \/ to.y < 0 THEN astray \cup {v} ELSE astray
          [] ~fits -> /\ scr' = [scr EXCEPT ![v] = IF Takes(s, c) THEN CmNext(s, c) ELSE ended]
                      /\ UNCHANGED <<shown, astray>>

\* vtty_cc(): home, lower left, left, right, up, down; never off the screen.
CcTarget(s, c) == CASE c = "H" -> [x |-> 0, y |-> 0]
                    [] c = "L" -> [x |-> 0, y |-> Lines - 1]
                    [] c = "E" -> [x |-> IF s.cx = 0 THEN 0 ELSE s.cx - 1, y |-> s.cy]
                    [] c = "N" -> [x |-> IF s.cx = Columns - 1 THEN s.cx ELSE s.cx + 1, y |-> s.cy]
                    [] c = "U" -> [x |-> s.cx, y |-> IF s.cy = 0 THEN 0 ELSE s.cy - 1]
                    [] c = "D" -> [x |-> s.cx, y |-> IF s.cy = Lines - 1 THEN s.cy ELSE s.cy + 1]
                    [] OTHER   -> [x |-> s.cx, y |-> s.cy]
vtty_cc(v, c) == LET to == CcTarget(scr[v], c)
                 IN  PutCursor(v, Ended([scr[v] EXCEPT !.cx = to.x, !.cy = to.y]))

\* vtty_color(): 3 or 4, a digit, m; or 0 and m.  [0 stands for expected_ansi_seq 3.
vtty_color(v, c) ==
    LET s == scr[v]
        more == \/ s.cap_index = 0 /\ c \in {"0", "3", "4"}
                \/ s.cap_index = 1 /\ s.capability # "[0" /\ c \in {"0", "1", "2", "3", "4"}
    IN  scr' = [scr EXCEPT ![v] = IF more THEN [s EXCEPT !.cap_index = @ + 1,
                                                        !.capability = IF s.cap_index = 0 /\ c = "0" THEN "[0" ELSE @]
                                          ELSE Ended(s)]

\* vtty_clear(): all of it, and the cursor goes home; or a part.
vtty_clear(v, c) == PutCursor(v, Ended(IF c = "S" THEN [scr[v] EXCEPT !.cx = 0, !.cy = 0] ELSE scr[v]))
\* vtty_cv(), vtty_line(), vtty_char(), vtty_scroll(), vtty_mode(): one character, the cursor stays.
OneMore(v) == scr' = [scr EXCEPT ![v] = Ended(@)]

(***************************************************************************)
(* vtty_outchar(), and the focus.                                          *)
(***************************************************************************)
Escape(v)    == scr' = [scr EXCEPT ![v] = [Ended(@) EXCEPT !.esc = TRUE]]
Announce(v, c) == scr' = [scr EXCEPT ![v] =
    IF c \in Starts THEN [@ EXCEPT !.capability = c] ELSE Ended(@)]

Capable(v, c) ==
    CASE scr[v].capability = "]" -> vtty_cm(v, c)
      [] scr[v].capability = "M" -> vtty_cc(v, c) /\ UNCHANGED astray
      [] scr[v].capability = "C" -> vtty_clear(v, c) /\ UNCHANGED astray
      [] scr[v].capability \in {"[", "[0"} -> vtty_color(v, c) /\ UNCHANGED <<shown, astray>>
      [] OTHER -> OneMore(v) /\ UNCHANGED <<shown, astray>>

vtty_outchar(v, c) ==
    /\ OnScreen(scr[v])
    /\ \/ c = "ESC" /\ Escape(v) /\ UNCHANGED <<offset, shown, astray>>
       \/ c # "ESC" /\ ~scr[v].esc /\ vtty_echo(v, c)
       \/ c # "ESC" /\ scr[v].esc /\ scr[v].capability = "none" /\ Announce(v, c) /\ UNCHANGED <<offset, shown, astray>>
       \/ c # "ESC" /\ scr[v].esc /\ scr[v].capability # "none" /\ Capable(v, c) /\ UNCHANGED offset
    /\ UNCHANGED <<script, cvtty>>

\* The echo of a key, in the middle of whatever the terminal is told.
KeyEcho(c) == OnScreen(scr[cvtty]) /\ vtty_echo(cvtty, c) /\ UNCHANGED <<script, cvtty>>

\* vtty_setfocus(): of the terminal that loses it, then of the one that gets it.
keyboard_interrupt(v) ==
    /\ v # cvtty
    /\ cvtty' = v /\ offset' = 0
    /\ scr' = [scr EXCEPT ![cvtty].screen = Buffer, ![v].screen = 0]
    /\ shown' = IF scr[v].cx < Columns THEN Cell(scr[v]) ELSE shown
    /\ UNCHANGED <<script, astray>>

SetOpost(v) == scr' = [scr EXCEPT ![v].opost = ~@] /\ UNCHANGED <<script, cvtty, offset, shown, astray>>

ScrNext == \/ \E v \in script.writers : \E c \in script.chars : vtty_outchar(v, c)
           \/ \E c \in script.keys : KeyEcho(c)
           \/ \E v \in Screens : keyboard_interrupt(v)
           \/ \E v \in Screens : script.opost /\ SetOpost(v)

ScrSpec == ScrInit /\ [][ScrNext]_scrVars

(***************************************************************************)
(* Properties.                                                             *)
(***************************************************************************)
\* The cells a driver function writes, counted from the start of the screen.
Span(first, n) == [first |-> first, next |-> first + n]
Echoed(s)   == {Span(Cell(s), 1)}                                                              \* vtty_echo()
LineMoved(s) == {Span(s.cy * Columns, Columns), Span(s.cy * Columns, (Lines - s.cy) * Columns)}  \* vtty_line()
CharMoved(s) == {Span(Cell(s), Columns - s.cx)}                                                  \* vtty_char(), vtty_clear() E
AllMoved    == {Span(0, (Lines - 1) * Columns), Span((Lines - 1) * Columns, Columns)}           \* vtty_scroll(), vtty_clear() S
Touched(s)  == Echoed(s) \cup LineMoved(s) \cup CharMoved(s) \cup AllMoved

\* vtty_clear() D takes the column for the row: right only in the rows down to the one that has its number.
ClearedBelow(s) == Span(s.cy * Columns, (Lines - s.cx) * Columns)
RowNotAfterColumn(s) == s.cy <= s.cx /\ s.cx <= Lines

WithinScreen(p) == 0 <= p.first /\ p.first <= p.next /\ p.next <= Lines * Columns

\* Whatever is written, echoed and switched, the cursor is on the screen, so that every cell the driver
\* writes is one of this terminal's (vtty_echo(), vtty_clear(), vtty_line(), vtty_char(), vtty_scroll());
\* only a move to row or column 0 and a TAB past the end of an unprocessed line take it off, and to clear
\* below a cursor in an early column goes past the end.  Just the terminal that has the focus writes in the
\* video memory, in a window the hardware shows and that ends inside it, and the hardware cursor is at the
\* place the terminal believes (vtty_echo(), vtty_setfocus(), vtty_cursormove()).
ScreenWhole ==
    /\ \A v \in Screens :
          /\ v \notin astray => /\ OnScreen(scr[v]) /\ \A p \in Touched(scr[v]) : WithinScreen(p)
                                /\ RowNotAfterColumn(scr[v]) => WithinScreen(ClearedBelow(scr[v]))
          /\ scr[v].screen = IF Focused(v) THEN offset ELSE Buffer
    /\ offset >= 0 /\ offset + Lines * Columns <= VideoCells
    /\ cvtty \notin astray => shown = offset + Cell(scr[cvtty])
=============================================================================
