------------------------------ MODULE PairsData ------------------------------
(***************************************************************************)
(* The compressed values of a table (PairsData, set_sizes, set_symlen and  *)
(* decompress_pairs in syzygy/tbprobe.cpp): blocks of a canonical Huffman  *)
(* code over symbols, each a value or a pair of other symbols, found by a  *)
(* sparse index.  The words are narrower than 64 bits: Word and Half bits. *)
(*                                                                         *)
(* A file is what the generator writes (external): the symbols' lengths,   *)
(* never growing with the symbol, which use up the code space; the symbol  *)
(* tree; and the symbols of each block.                                    *)
(***************************************************************************)
EXTENDS Integers, Sequences, FiniteSets, FiniteSetsExt, SequencesExt

Word == 8   \* 64
Half == 4   \* 32

Leaf == 0 - 1    \* 0xFFF in the right child

Syms(file) == 0 .. (Len(file.lengths) - 1)
LengthOf(file, sym) == file.lengths[sym + 1]
Pair(file, sym) == file.tree[sym + 1]

(* ---- what the file holds (external) --------------------------------------- *)

\* The code of a symbol, at the left of a word: the space of those below it.
CodeOf(file, sym) == MapThenSumSet(LAMBDA s : 2 ^ (Word - LengthOf(file, s)), 0 .. (sym - 1))
CompleteCode(file) == CodeOf(file, Len(file.lengths)) = 2 ^ Word

Expanded(file) ==
    LET expand[sym \in Syms(file)] ==
            IF Pair(file, sym)[2] = Leaf THEN <<Pair(file, sym)[1]>>
            ELSE expand[Pair(file, sym)[1]] \o expand[Pair(file, sym)[2]]
    IN  expand
ValuesOf(file, block) == FlattenSeq([i \in DOMAIN block |-> Expanded(file)[block[i]]])
Values(file) == FlattenSeq([b \in DOMAIN file.blocks |-> ValuesOf(file, file.blocks[b])])

BitsOf(file, block) ==
    FlattenSeq([i \in DOMAIN block |->
        [k \in 1 .. LengthOf(file, block[i]) |-> (CodeOf(file, block[i]) \div (2 ^ (Word - k))) % 2]])
BlockFits(file, block) == Len(BitsOf(file, block)) <= file.sizeofBlock * Half

\* A block in halves of a word, filled up with ones, and what follows the data.
BitAt(bits, k) == IF k <= Len(bits) THEN bits[k] ELSE 1
HalvesOf(file, block) ==
    LET bits == BitsOf(file, block)
    IN  [h \in 1 .. file.sizeofBlock |->
            MapThenSumSet(LAMBDA k : BitAt(bits, (h - 1) * Half + k) * 2 ^ (Half - k), 1 .. Half)]
Trailer == <<5, 2>>
HalvesOfFile(file) == FlattenSeq([b \in DOMAIN file.blocks |-> HalvesOf(file, file.blocks[b])]) \o Trailer

\* blockLength, one less than the values of a block; padded.
BlockLengths(file) ==
    [b \in DOMAIN file.blocks |-> Len(ValuesOf(file, file.blocks[b])) - 1] \o <<0, 0>>

\* sparseIndex: the block and the offset in it of every value I(k); one past
\* the end is counted from the block after the last.
Before(file, b) == MapThenSumSet(LAMBDA i : BlockLengths(file)[i] + 1, 1 .. b)
SparseEntry(file, k) ==
    LET at == k * file.span + file.span \div 2
        inside == {b \in 0 .. (Len(file.blocks) - 1) : Before(file, b) <= at /\ at < Before(file, b + 1)}
        block == IF inside = {} THEN Len(file.blocks) ELSE Min(inside)
    IN  [block |-> block, offset |-> at - Before(file, block)]

(* ---- set_sizes --------------------------------------------------------------- *)

MinSymLen(file) == Min(Range(file.lengths))
Levels(file) == Max(Range(file.lengths)) - MinSymLen(file) + 1
LowestSym(file, len) ==
    Min({Len(file.lengths)} \cup {s \in Syms(file) : LengthOf(file, s) <= len + MinSymLen(file)})

\* base64: half of what is left of the next longer codes, then moved to the left.
Unshifted(file) ==
    LET base[len \in 0 .. (Levels(file) - 1)] ==
            IF len = Levels(file) - 1 THEN 0
            ELSE (base[len + 1] + LowestSym(file, len) - LowestSym(file, len + 1)) \div 2
    IN  base
Base64(file) == [len \in 0 .. (Levels(file) - 1) |->
                    (Unshifted(file)[len] * 2 ^ (Word - len - MinSymLen(file))) % 2 ^ Word]

\* set_symlen: the values a symbol stands for, less one.
SymLen(file) ==
    LET len[sym \in Syms(file)] ==
            IF Pair(file, sym)[2] = Leaf THEN 0
            ELSE len[Pair(file, sym)[1]] + len[Pair(file, sym)[2]] + 1
    IN  [sym \in Syms(file) |-> len[sym]]

\* The fields of PairsData; the description is read once, at the first probe.
Loaded(file) ==
    [single |-> file.single, span |-> file.span, sizeofBlock |-> file.sizeofBlock,
     minSymLen |-> IF file.single THEN file.tree[1][1] ELSE MinSymLen(file), base64 |-> Base64(file), symlen |-> SymLen(file),
     lowestSym |-> [len \in 0 .. (Levels(file) - 1) |-> LowestSym(file, len)],
     btree |-> file.tree, blockLength |-> BlockLengths(file),
     sparseIndex |-> [k \in 0 .. ((Len(Values(file)) + file.span - 1) \div file.span - 1) |->
                         SparseEntry(file, k)],
     data |-> HalvesOfFile(file)]

(* ---- decompress_pairs --------------------------------------------------------- *)

\* The block of a value and its offset there, from the nearest sparse entry.
SparseOffset(d, idx) ==
    LET entry == d.sparseIndex[idx \div d.span]
    IN  entry.offset + (idx % d.span) - (d.span \div 2)
RECURSIVE BlockFrom(_, _, _)
BlockFrom(d, block, offset) ==
    IF offset < 0 THEN BlockFrom(d, block - 1, offset + d.blockLength[block] + 1)
    ELSE IF offset > d.blockLength[block + 1]
         THEN BlockFrom(d, block + 1, offset - d.blockLength[block + 1] - 1)
    ELSE [block |-> block, offset |-> offset]

\* The first symbol of buf64, and the length of its code less the shortest.
LengthIn(d, buf) == Min({len \in DOMAIN d.base64 : buf >= d.base64[len]})
SymOf(d, buf) ==
    LET len == LengthIn(d, buf)
    IN  (buf - d.base64[len]) \div 2 ^ (Word - len - d.minSymLen) + d.lowestSym[len]

RefillLate(d, buf, size, ptr) ==
    IF size > 0 THEN [buf |-> buf, size |-> size, ptr |-> ptr]
    ELSE [buf |-> d.data[ptr] * 2 ^ (Word - Half), size |-> Half, ptr |-> ptr + 1]

\* A half is read as soon as no more than a half is left in the buffer.
Refill(d, buf, size, ptr) ==
    IF size > Half THEN [buf |-> buf, size |-> size, ptr |-> ptr]
    ELSE [buf |-> buf + d.data[ptr] * 2 ^ (Word - size - Half), size |-> size + Half, ptr |-> ptr + 1]

\* The symbol that holds the offset-th value from the buffer on.
RECURSIVE SymbolAt(_, _, _)
SymbolAt(d, b, offset) ==
    LET sym == SymOf(d, b.buf)
        len == LengthIn(d, b.buf) + d.minSymLen
    IN  IF offset < d.symlen[sym] + 1 THEN [sym |-> sym, offset |-> offset]
        ELSE SymbolAt(d, Refill(d, (b.buf * 2 ^ len) % 2 ^ Word, b.size - len, b.ptr),
                      offset - d.symlen[sym] - 1)

\* Down the pairs, to the left or to the right, as far as a value.
RECURSIVE ValueIn(_, _, _)
ValueIn(d, sym, offset) ==
    LET left == d.btree[sym + 1][1]
    IN  IF d.symlen[sym] = 0 THEN left
        ELSE IF offset < d.symlen[left] + 1 THEN ValueIn(d, left, offset)
        ELSE ValueIn(d, d.btree[sym + 1][2], offset - d.symlen[left] - 1)

DecompressPairs(d, idx) ==
    LET place == BlockFrom(d, d.sparseIndex[idx \div d.span].block, SparseOffset(d, idx))
        start == place.block * d.sizeofBlock + 1
        found == SymbolAt(d, [buf |-> d.data[start] * 2 ^ Half + d.data[start + 1],
                              size |-> Word, ptr |-> start + 2], place.offset)
    IN  IF d.single THEN d.minSymLen ELSE ValueIn(d, found.sym, found.offset)

(* ---- property -------------------------------------------------------------------- *)

\* Whatever the code, the pairs, the blocks and the span, the value at an index
\* is the one the generator put there, and nothing past the end of the file is
\* read for it.
DecodesTrue(file) ==
    LET d == Loaded(file)
        values == Values(file)
    IN  \A idx \in 0 .. (Len(values) - 1) : DecompressPairs(d, idx) = values[idx + 1]
=============================================================================
