----------------------------- MODULE UserMemory ------------------------------
(***************************************************************************)
(* How the kernel touches the memory of a process for a system call: the   *)
(* checks of its arguments (the end of vm/mm.c) beside what page_fault()   *)
(* makes of an address, and how exec() gathers the arguments of the new    *)
(* program (ae_setup(), add_ae_data() of kernel/exec.c).                   *)
(*                                                                         *)
(* Addresses are those the kernel uses, 0 to Top - 1; those of the process *)
(* begin at Base (KERNEL_RESERVED_SPACE).  A pointer has Word bytes.  The  *)
(* memory of a process is what lies below brk and what lies above esp.     *)
(***************************************************************************)
EXTENDS Integers, Sequences, FiniteSets, SequencesExt, FiniteSetsExt

CONSTANTS Top, Base, PageSize, Word,    \* a small address space
          StringMax,                    \* ARG_MAX, as the bound of a search
          AePage, AeMax                 \* the cells of a page, and of all arguments

ASSUME UserMemoryAssumption == /\ {Top, Base, PageSize, Word, StringMax, AePage, AeMax} \subseteq Nat \ {0}
                               /\ Base + 2 * PageSize < Top /\ AeMax % AePage = 0

Total(s) == FoldSeq(LAMBDA x, y : x + y, 0, s)

VARIABLES ask,      \* a process and the argument of its system call
          ae        \* the arguments gathered by exec()

umVars == <<ask, ae>>

Addresses == 0..(Top - 1)
Nowhere   == Top

(***************************************************************************)
(* The checks.  r has brk, esp and text (pages) of the process.            *)
(***************************************************************************)
Brk(r) == (r.brk + Base) % Top
Stk(r) == (r.esp + Base) % Top

\* Mutant: the end may have wrapped round.
Within_Wrapped(r, a, end) == (a >= Stk(r) /\ end >= Stk(r)) \/ (a <= Brk(r) /\ end <= Brk(r))

Within(r, a, end) == (a >= Stk(r) /\ end >= Stk(r) /\ a <= end) \/ (a <= Brk(r) /\ end <= Brk(r) /\ a <= end)

ok_to_read_area(r, a, size)  == a >= Base /\ Within(r, a, (a + size) % Top)
ok_to_write_area(r, a, size) == a >= Base + (1 + r.text) * PageSize /\ Within(r, a, (a + size) % Top)

\* How far the end of a string or list is searched: one byte too far.
bytes_to_search(r, a) ==
    Min({StringMax, IF a <= Brk(r) THEN Brk(r) - a + 1 ELSE Top - 1 - a + 1 + 1})
Searchable(r, a) == a >= Base /\ (a <= Brk(r) \/ a >= Stk(r))

\* A string ends where the byte is 0, a list where the word is: at r.nul.
Reads(a, n, step) == {(a + k * step) % Top : k \in 0..((n \div step) - 1)}
string_end_found(r, a, n)       == r.nul \in Reads(a, n, 1)
pointer_list_end_found(r, a, n) == r.nul \in Reads(a, n, Word)

ok_to_read_string(r, a)       == Searchable(r, a) /\ string_end_found(r, a, bytes_to_search(r, a))
ok_to_read_pointer_list(r, a) == Searchable(r, a) /\ pointer_list_end_found(r, a, bytes_to_search(r, a))

\* page_fault(): the addresses that cost a process its life, with a stack that is
\* neither too large nor too near.
Killed(r, a) == (Brk(r) <= a /\ a < Base + r.esp - Word) \/ a < Base + PageSize

(***************************************************************************)
(* exec(): the arguments.  A cell is a pointer, or a character of string k.*)
(***************************************************************************)
Ptr(n)     == [kind |-> "ptr", at |-> n, of |-> 0]
Chr(k, j)  == [kind |-> "chr", at |-> j, of |-> k]
Text(k, n) == [j \in 1..n |-> Chr(k, j)]

\* Where string k will be: after _argv, _envp, the two vectors with their zeros,
\* and the strings before it.
Start(x, k) == 2 + Len(x.argv) + 1 + Len(x.envp) + 1 + Total([j \in 1..(k - 1) |-> (x.argv \o x.envp)[j]])

\* What add_ae_data() is called with, in order.
Items(x) ==
    LET m == Len(x.argv) n == Len(x.envp)
    IN  <<<<Ptr(2)>>, <<Ptr(2 + m + 1)>>>>
        \o [k \in 1..m |-> <<Ptr(Start(x, k))>>] \o <<<<Ptr(0)>>>>
        \o [k \in 1..n |-> <<Ptr(Start(x, m + k))>>] \o <<<<Ptr(0)>>>>
        \o [k \in 1..(m + n) |-> Text(k, (x.argv \o x.envp)[k])]
ae_spc(x) == 2 + Len(x.argv) + 1 + Len(x.envp) + 1 + Total(x.argv \o x.envp)

\* The pages found in page_vect[]; cell c of page p is at p * AePage + c.
Put(mem, at, cells) == [i \in DOMAIN mem |-> IF i - at \in 1..Len(cells) THEN cells[i - at] ELSE mem[i]]

\* What does not fit into the page goes to the next one, from the beginning of the
\* item again, and every page of it over the one before.  An item that ends with the
\* page leaves no page for the next one.
add_ae_data(x, cells) ==
    LET size == Len(cells) first == AePage - x.offset rest == size - first
        last == (rest - 1) \div AePage
        tail == SubSeq(cells, last * AePage + 1, rest)
        here == Put(x.mem, x.page * AePage + x.offset, SubSeq(cells, 1, Min({size, first})))
    IN  IF x.page \notin x.pages THEN [x EXCEPT !.wild = TRUE]
        ELSE IF size < first THEN [x EXCEPT !.mem = here, !.offset = @ + size]
        ELSE IF rest = 0 THEN [x EXCEPT !.mem = here, !.page = @ + 1]
        ELSE [x EXCEPT !.mem = Put(here, (x.page + 1) * AePage, tail), !.page = @ + 1, !.offset = Len(tail),
                       !.pages = @ \cup {x.page + 1}, !.spanned = TRUE]

\* Too much: "return with error" is 0, which exec() takes for no page and no error.
AeSetup == /\ ae.pc = "called"
           /\ ae' = IF ae_spc(ae) > AeMax THEN [ae EXCEPT !.pc = "returned"]
                    ELSE [ae EXCEPT !.pc = "adding", !.pages = {0}, !.left = Items(ae)]
           /\ UNCHANGED ask

\* (Written through a page_vect[] that was never set, memory is lost: the end.)
AeAdd == /\ ae.pc = "adding" /\ ae.left # <<>> /\ ~ae.wild
         /\ ae' = [add_ae_data(ae, Head(ae.left)) EXCEPT !.left = Tail(@)]
         /\ UNCHANGED ask

AeDone == /\ ae.pc = "adding" /\ ae.left = <<>> /\ ~ae.wild
          /\ ae' = [ae EXCEPT !.pc = "returned", !.ae_pages = (ae_spc(ae) + AePage - 1) \div AePage]
          /\ UNCHANGED ask

NoAsk  == [asked |-> FALSE, brk |-> 0, esp |-> 0, text |-> 0, pointer |-> 0, size |-> 0, nul |-> Nowhere]
NoCell == Ptr(-1)
Arguments(pc, argv, envp) ==
    [pc |-> pc, argv |-> argv, envp |-> envp, left |-> <<>>, page |-> 0, offset |-> 0, pages |-> {},
     mem |-> [i \in 1..AeMax |-> NoCell], ae_pages |-> 0, wild |-> FALSE, spanned |-> FALSE]

UmNext == AeSetup \/ AeAdd \/ AeDone

(***************************************************************************)
(* Properties.                                                             *)
(***************************************************************************)
Bytes(a, size) == {a + k : k \in 0..(size - 1)}
Owned(r, a)    == a \in Addresses /\ ((Base <= a /\ a < Brk(r)) \/ a >= Stk(r))
Together(r, s) == (\A a \in s : a < Brk(r)) \/ (\A a \in s : a >= Stk(r))

\* The search looks at one byte that the process does not have: at brk, or after the
\* end of the address space.
OneTooFar(r) == {Brk(r), 0}

\* ok_to_read_area() to ok_to_read_pointer_list() (vm/mm.c) against page_fault(): what
\* a system call is let in to, the kernel can read or write without a fault that
\* kills the process, page 0 of the process aside; and what the process owns is
\* refused only where it reaches the end of the address space, or is text.
AreasSound ==
    LET r == ask a == ask.pointer size == ask.size own == Bytes(a, size)
    IN  ask.asked =>
        /\ ok_to_read_area(r, a, size) =>
              \A x \in own : x \in Addresses /\ (Killed(r, x) => x < Base + PageSize)
        /\ ok_to_write_area(r, a, size) => ok_to_read_area(r, a, size) /\ \A x \in own : ~Killed(r, x)
        /\ size > 0 /\ (\A x \in own : Owned(r, x)) /\ Together(r, own) =>
              (ok_to_read_area(r, a, size) <=> a + size < Top)
        /\ \A step \in {1, Word} :
              LET found == IF step = 1 THEN ok_to_read_string(r, a) ELSE ok_to_read_pointer_list(r, a)
                  ended == Bytes(a, r.nul - a + step)
              IN  /\ found => \A x \in {y \in Reads(a, bytes_to_search(r, a), step) : a <= y /\ y <= r.nul} :
                                 (Killed(r, x) => x < Base + PageSize \/ x \in OneTooFar(r))
                  /\ /\ r.nul # Nowhere /\ a <= r.nul /\ (r.nul - a) % step = 0 /\ Cardinality(ended) <= StringMax
                     /\ \A x \in ended : Owned(r, x)
                     /\ Together(r, ended)
                     => found

\* ae_setup(), add_ae_data(): the new program finds its two vectors and its strings
\* where the pointers say, in as many pages as exec() maps, unless an item crosses
\* the end of a page, or ends there with others to follow.
ArgumentsArrive ==
    ae.pc = "returned" /\ ae.pages # {} /\ ~ae.spanned =>
        /\ SubSeq(ae.mem, 1, ae_spc(ae)) = FlattenSeq(Items(ae))
        /\ ae.pages = 0..(ae.ae_pages - 1)
        /\ \A k \in 1..Len(ae.argv) :
              LET p == ae.mem[ae.mem[1].at + k].at
              IN  SubSeq(ae.mem, p + 1, p + ae.argv[k]) = Text(k, ae.argv[k])

UserMemorySound == AreasSound /\ ArgumentsArrive
=============================================================================
