------------------------------ MODULE BlockMap ------------------------------
(***************************************************************************)
(* The blocks of one file: _bmap(), bmap(), wbmap() and i_truncate() of    *)
(* fs/inode.c under regular_read() and regular_write() of fs/regular.c.    *)
(*                                                                         *)
(* The inode of the file is locked throughout each of these calls, so a    *)
(* call is one step here.  A file is a record of the inode's addresses,    *)
(* its size and block count, what each indirect block and each data block  *)
(* holds, and the blocks that are free; b_alloc() takes the lowest of      *)
(* these and fails when there is none.  wild is set when an indirect       *)
(* block is indexed past its end.                                          *)
(***************************************************************************)
EXTENDS Integers, Sequences, FiniteSets, SequencesExt, FiniteSetsExt

CONSTANTS DIRECT_BLOCKS,        \* direct blocks of an inode
          BLOCKS_PER_IBLOCK,    \* block numbers in an indirect block
          s_blksz,              \* bytes in a block
          Blocks,               \* the data blocks of the file system
          Bytes                 \* what a byte of a file can be; one of them is 0

ASSUME BlockMapAssumption ==
    /\ {DIRECT_BLOCKS, BLOCKS_PER_IBLOCK, s_blksz} \subseteq Nat \ {0}
    /\ Blocks \subseteq Nat \ {0} /\ 0 \in Bytes

VARIABLES file,         \* the file
          text          \* what its owner wrote: the bytes of the file

fileVars == <<file, text>>

B == BLOCKS_PER_IBLOCK
SINGLE_INDIRECT_BLOCK == DIRECT_BLOCKS
DOUBLE_INDIRECT_BLOCK == DIRECT_BLOCKS + 1
TRIPLE_INDIRECT_BLOCK == DIRECT_BLOCKS + 2
Addresses == 0..TRIPLE_INDIRECT_BLOCK
Capacity  == DIRECT_BLOCKS + B + B * B + B * B * B
Zeros     == [k \in 1..s_blksz |-> 0]
NoBlocks  == [k \in 0..B - 1 |-> 0]

NewFile == [i_addr |-> [a \in Addresses |-> 0], i_size |-> 0, i_blocks |-> 0,
            index |-> [b \in Blocks |-> NoBlocks], data |-> [b \in Blocks |-> Zeros],
            free |-> Blocks, wild |-> FALSE]

\* set_indirection_level(): the level of a block of the file, and its number
\* among the blocks of the level.
level(f) == CASE f < DIRECT_BLOCKS             -> 0
              [] f < DIRECT_BLOCKS + B         -> 1
              [] f < DIRECT_BLOCKS + B + B * B -> 2
              [] OTHER                         -> 3
fblock(f) == f - (CASE level(f) = 0 -> 0
                    [] level(f) = 1 -> DIRECT_BLOCKS
                    [] level(f) = 2 -> DIRECT_BLOCKS + B
                    [] OTHER        -> DIRECT_BLOCKS + B + B * B)

(***************************************************************************)
(* wbmap(): an intermediate result is a file and the block reached in it,  *)
(* 0 when there is none.                                                   *)
(***************************************************************************)
At0(s) == [file |-> s, block |-> 0]

\* b_alloc(): a block is cleared whether it is to hold data or block numbers.
alloc_block(s) ==
    IF s.free = {} THEN At0(s)
    ELSE [file |-> [s EXCEPT !.free = @ \ {Min(@)}, !.i_blocks = @ + 1,
                             !.index[Min(s.free)] = NoBlocks, !.data[Min(s.free)] = Zeros],
          block |-> Min(s.free)]

alloc_dlevel(s, a) ==
    IF s.i_addr[a] # 0 THEN [file |-> s, block |-> s.i_addr[a]]
    ELSE LET r == alloc_block(s)
         IN  [r EXCEPT !.file.i_addr[a] = r.block]

alloc_ilevel(r, k) ==
    IF r.block = 0 THEN r
    ELSE IF k >= B THEN [r EXCEPT !.file.wild = TRUE, !.block = 0]
    ELSE IF r.file.index[r.block][k] # 0 THEN [r EXCEPT !.block = r.file.index[r.block][k]]
    ELSE LET n == alloc_block(r.file)
         IN  [n EXCEPT !.file.index[r.block][k] = n.block]

\* The entries of the indirect blocks on the way to a block, outermost first.
Path(f) == LET k == fblock(f)
           IN  CASE level(f) = 0 -> <<>>
                 [] level(f) = 1 -> <<k>>
                 [] level(f) = 2 -> <<k \div B, k % B>>
                 [] OTHER        -> <<k \div (B * B), k \div B, k % B>>

wbmap(s, f) ==
    LET a == IF level(f) = 0 THEN f ELSE DIRECT_BLOCKS + level(f) - 1
    IN  FoldLeft(alloc_ilevel, alloc_dlevel(s, a), Path(f))

(***************************************************************************)
(* regular_write(): from offset on, as far as there is room.  A block that *)
(* is written in part is read first, or cleared when it starts past the    *)
(* end of the file.                                                        *)
(***************************************************************************)
\* Mutant: the block of the end of the file is cleared.
Base_Cleared(s, b, offset) == IF offset < s.i_size THEN s.data[b] ELSE Zeros

Base(s, b, offset) == IF offset - (offset % s_blksz) < s.i_size THEN s.data[b] ELSE Zeros

WriteByte(s, offset, v) ==
    LET r == wbmap(s, offset \div s_blksz)
    IN  IF r.block = 0 THEN r.file
        ELSE [r.file EXCEPT
                !.data[r.block] = [Base(r.file, r.block, offset) EXCEPT ![(offset % s_blksz) + 1] = v],
                !.i_size = IF @ < offset + 1 THEN offset + 1 ELSE @]

Reached(s, offset) == wbmap(s, offset \div s_blksz).block # 0

(***************************************************************************)
(* i_truncate().                                                           *)
(***************************************************************************)
Released(s, b) == [s EXCEPT !.free = @ \cup {b}, !.i_blocks = @ - 1]

free_dlevel(s, from) ==
    FoldLeft(LAMBDA t, a : IF t.i_addr[a] = 0 THEN t
                           ELSE [Released(t, t.i_addr[a]) EXCEPT !.i_addr[a] = 0],
             s, SetToSortSeq(from..DIRECT_BLOCKS - 1, <))

Entries(s, b, start) == SelectSeq([k \in 1..B |-> k - 1], LAMBDA k : k >= start /\ s.index[b][k] # 0)

\* The indirect block itself goes when it is cut off at its first entry.
free_ilevel1(s, b, start) ==
    LET cut == FoldLeft(LAMBDA t, k : [Released(t, s.index[b][k])
                                         EXCEPT !.index[b][k] = IF start # 0 THEN 0 ELSE @],
                        s, Entries(s, b, start))
    IN  IF start # 0 THEN cut ELSE Released(cut, b)

\* The entry of the first block is cleared although free_ilevel1() may keep it.
free_ilevel2(s, b, start, f) ==
    LET next    == f % B
        partial == start # 0 \/ next # 0
        cut == FoldLeft(LAMBDA t, k :
                           [free_ilevel1(t, s.index[b][k], IF k = start THEN next ELSE 0)
                              EXCEPT !.index[b][k] = IF partial THEN 0 ELSE @],
                        s, Entries(s, b, start))
    IN  IF partial THEN cut ELSE Released(cut, b)

free_ilevel3(s, b, start, f) ==
    LET next    == f \div B
        partial == start # 0 \/ next # 0 \/ f % B # 0
        cut == FoldLeft(LAMBDA t, k :
                           [free_ilevel2(t, s.index[b][k], IF k = start THEN next ELSE 0, f)
                              EXCEPT !.index[b][k] = IF partial THEN 0 ELSE @],
                        s, Entries(s, b, start))
    IN  IF partial THEN cut ELSE Released(cut, b)

\* One level of the switch: the first block to go is f, counted in the level.
TruncateLevel(s, l, f) ==
    LET a    == DIRECT_BLOCKS + l - 1
        b    == s.i_addr[a]
        Gone(t, gone) == IF gone THEN [t EXCEPT !.i_addr[a] = 0] ELSE t
    IN  CASE l = 0 -> free_dlevel(s, f)
          [] l > 0 /\ b = 0 -> s
          [] l = 1 /\ b # 0 -> Gone(free_ilevel1(s, b, f % B), f % B = 0)
          [] l = 2 /\ b # 0 -> Gone(free_ilevel2(s, b, f \div B, f), f = 0)
          [] l = 3 /\ b # 0 -> Gone(free_ilevel3(s, b, f \div (B * B), f), TRUE)

i_truncate(s, length) ==
    LET f == (length + s_blksz - 1) \div s_blksz
        Cut(t, l) == IF l < level(f) THEN t ELSE TruncateLevel(t, l, IF l = level(f) THEN fblock(f) ELSE 0)
    IN  [FoldLeft(Cut, s, <<0, 1, 2, 3>>) EXCEPT !.i_size = length]

(***************************************************************************)
(* bmap(): a run of block numbers, those of the rest of the inode or of    *)
(* the rest of an indirect block.  When an indirect block is missing the   *)
(* run is one of zeros, as long as from ibd.index to the end of a block;   *)
(* the index is the block's number in its level when the inode's own       *)
(* indirect block is missing, and 0 when one further in is.                *)
(***************************************************************************)
Missing(index) == IF index < B THEN [k \in 1..B - index |-> 0] ELSE <<>>

\* Follows the path to the last indirect block: the block reached, or 0.
Follow(s, b, path) == FoldLeft(LAMBDA c, k : IF c = 0 THEN 0 ELSE s.index[c][k], b, path)

bmap(s, f) ==
    LET top  == s.i_addr[IF level(f) = 0 THEN 0 ELSE DIRECT_BLOCKS + level(f) - 1]
        k    == fblock(f)
        way  == IF level(f) = 2 THEN <<k \div B>>
                ELSE IF level(f) = 3 THEN <<k \div (B * B), (k % (B * B)) \div B>> ELSE <<>>
        last == Follow(s, top, way)
    IN  CASE level(f) = 0            -> [i \in 1..DIRECT_BLOCKS - f |-> s.i_addr[f + i - 1]]
          [] level(f) > 0 /\ top = 0 -> Missing(k)
          [] level(f) > 0 /\ top # 0 /\ last = 0 -> Missing(0)
          [] OTHER -> [i \in 1..B - (k % B) |-> s.index[last][(k % B) + i - 1]]

(***************************************************************************)
(* regular_read(), in whole blocks: the numbers of the blocks it reads.    *)
(***************************************************************************)
Mapped(s, from, count) ==
    LET run[k \in 0..count] ==     \* the block numbers of the last k blocks asked for
            IF k = 0 THEN <<>>
            ELSE LET r == bmap(s, from + count - k)
                     m == Min({k, Len(r)})
                 IN  IF m = 0 THEN <<-1>> ELSE SubSeq(r, 1, m) \o run[k - m]
    IN  run[count]

\* A read that makes no progress.
Stuck == <<-1>>

BytesOf(s, b) == IF b = 0 THEN Zeros ELSE s.data[b]

\* io_blocks() of a read that starts with a block.
io_blocks(offset, count, size) ==
    LET n == Min({count, size - offset})
    IN  IF offset >= size \/ n = 0 THEN 0
        ELSE IF offset \div s_blksz = (offset + n - 1) \div s_blksz THEN 1
        ELSE LET rest == n - (s_blksz - (offset % s_blksz))
             IN  1 + (rest \div s_blksz) + IF rest % s_blksz = 0 THEN 0 ELSE 1

regular_read(s, offset, count) ==
    LET n      == io_blocks(offset, count, s.i_size)
        blocks == Mapped(s, offset \div s_blksz, n)
        all    == FlattenSeq([k \in DOMAIN blocks |-> BytesOf(s, blocks[k])])
        first  == offset % s_blksz
    IN  IF n = 0 THEN <<>>
        ELSE IF Contains(blocks, -1) THEN Stuck
        ELSE SubSeq(all, first + 1, first + Min({count, s.i_size - offset}))

(***************************************************************************)
(* The calls.                                                              *)
(***************************************************************************)
Extended(t, n) == t \o [k \in 1..n - Len(t) |-> 0]

\* write() of n bytes at offset, all of them v: it stops where no block is left.
write(offset, n, v) ==
    LET Step(r, k) == IF r.short \/ ~Reached(r.file, k)
                      THEN [file |-> IF r.short THEN r.file ELSE wbmap(r.file, k \div s_blksz).file,
                            text |-> r.text, short |-> TRUE]
                      ELSE [file |-> WriteByte(r.file, k, v),
                            text |-> [Extended(r.text, k + 1) EXCEPT ![k + 1] = v], short |-> FALSE]
        end == FoldLeft(Step, [file |-> file, text |-> text, short |-> FALSE],
                        [k \in 1..n |-> offset + k - 1])
    IN  file' = end.file /\ text' = end.text

truncate(length) == /\ file' = i_truncate(file, length)
                    /\ text' = IF length <= Len(text) THEN SubSeq(text, 1, length)
                               ELSE Extended(text, length)

=============================================================================
