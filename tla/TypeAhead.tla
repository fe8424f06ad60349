----------------------------- MODULE TypeAhead -----------------------------
(***************************************************************************)
(* What a terminal promises of the keys that are typed before they are     *)
(* read: they are read once, in order, a line at most at a time, unless    *)
(* they are erased from the end or thrown away together.                   *)
(***************************************************************************)
EXTENDS Naturals, Sequences, SequencesExt

CONSTANTS Codes,        \* what a key can send
          Eol, Eof,     \* the bytes that end a line, the second one without being read
          Room          \* bytes that can wait

VARIABLES line,
          byLine,       \* do all readers read lines?  Set from outside
          stuck         \* the place in line where an end of file stays, if any

Init == line = <<>>

Type == \E c \in Codes : Len(line) + Len(c) <= Room /\ line' = line \o c

Erase == line # <<>> /\ line' = Front(line)

Discard == line' = <<>>

Ends == {i \in DOMAIN line : line[i] \in {Eol, Eof}}

\* No more than the first line is read, without the end of file that ends it.
InLine(n) == \E i \in Ends : /\ \A j \in Ends : i <= j
                             /\ n <= i - (IF line[i] = Eof THEN 1 ELSE 0)

\* What n bytes leave; with lines, an end of file that comes next goes too.
Read(n) ==
    LET rest == SubSeq(line, n + 1, Len(line))
        eof  == rest # <<>> /\ rest[1] = Eof
    IN  /\ n <= Len(line)
        /\ \/ line' = rest /\ ~(byLine /\ eof /\ n # stuck)
           \/ eof /\ line' = Tail(rest)
        /\ byLine => InLine(n)

Next == Type \/ Erase \/ Discard \/ \E n \in 0..Room : Read(n)

Spec == Init /\ [][Next]_line
=============================================================================
