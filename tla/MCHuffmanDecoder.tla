--------------------------- MODULE MCHuffmanDecoder ---------------------------
(***************************************************************************)
(* Stored data for model checking HuffmanDecoder: contents encoded with    *)
(* code trees of several shapes, and all short sequences of bytes.         *)
(*                                                                         *)
(* A tree is the sequence of its levels, each the symbols that have their  *)
(* leaf there; one more leaf, behind those of the last level, is the end.  *)
(***************************************************************************)
EXTENDS HuffmanDecoder, SequencesExt

CONSTANTS Trees,    \* the code trees in use
          MaxLen,   \* longest content of several symbols
          MaxRun,   \* longest content of one symbol
          MaxBytes  \* longest arbitrary stored data

\* Codes of 1, 2, 3 bits; of 2 bits; of 3 bits (across bytes); of 1 bit (eight
\* symbols in a byte); of 1 and 10 bits (a code longer than a byte).
Comb == <<<<1>>, <<2>>, <<3>>>>
Flat == <<<<>>, <<1, 2, 3>>>>
Odd == <<<<>>, <<1>>, <<2, 3, 4, 5, 6>>>>
Single == <<<<7>>>>
Long == <<<<1>>, <<2>>, <<3>>, <<4>>, <<5>>, <<6>>, <<7>>, <<8>>, <<9>>, <<10>>>>
AllTrees == {Comb, Flat, Odd, Single, Long}
OnlySingle == {Single}

\* Large trees, up to what u8 counters hold: codes of 7 and 8 bits with 254 leaves
\* on the last level, and all 256 values with 254 nodes on the level before it.
Level(first, last) == [i \in 1 .. last - first + 1 |-> first + i - 1]
Wide == <<<<>>, <<>>, <<>>, <<>>, <<>>, <<>>, <<0>>, Level(1, 253)>>
Full == <<<<>>, <<>>, <<>>, <<>>, <<>>, <<>>, <<0>>, Level(1, 252), Level(253, 255)>>
LargeTrees == {Wide, Full}

\* And beyond: all 256 values again, with 256 leaves on the last level (the counter
\* overflows in parse_header), or with 256 nodes on the level before it (the sum
\* overflows in fill_inodesin).
Skewed == <<<<0>>, <<>>, <<>>, <<>>, <<>>, <<>>, <<>>, <<>>, Level(1, 255)>>
Even == <<<<>>, <<>>, <<>>, <<>>, <<>>, <<>>, <<>>, Level(0, 254), <<255>>>>
OverflowingTrees == {Skewed, Even}
BigAndSmall == AllTrees \cup LargeTrees \cup OverflowingTrees

-----------------------------------------------------------------------------
Leaves(t, l) == Len(t[l]) + (IF l = Len(t) THEN 1 ELSE 0)

InnerNodes(t) ==
  LET inner[l \in 1 .. Len(t)] ==
        IF l = Len(t) THEN 0 ELSE (inner[l + 1] + Leaves(t, l + 1)) \div 2
  IN  inner

\* The nodes of a level are numbered from the left, inner nodes first; the
\* number of a node, in as many bits as its level, is its code.
CodeBits(node, l) == [b \in 1 .. l |-> (node \div (2 ^ (l - b))) % 2]

CodesOf(t, s) ==
  UNION {{CodeBits(InnerNodes(t)[l] + k - 1, l) : k \in {x \in 1 .. Len(t[l]) : t[l][x] = s}} :
         l \in 1 .. Len(t)}
CodeOf(t, s) == CHOOSE code_bits \in CodesOf(t, s) : TRUE
EndCode(t) == CodeBits(Len(t[Len(t)]), Len(t))

Padding(n) == [i \in 1 .. (-n) % ByteBits |-> 0]
Packed(bits) ==
  [i \in 1 .. Len(bits) \div ByteBits |->
     SumFunction([b \in 1 .. ByteBits |-> bits[(i - 1) * ByteBits + b] * 2 ^ (ByteBits - b)])]

HeaderOf(t) ==
  <<Len(t)>>
  \o [l \in 1 .. Len(t) |-> IF l = Len(t) THEN Len(t[l]) - 1 ELSE Len(t[l])]
  \o FlattenSeq(t)

\* A content under a tree, its codes in a row, filled up to whole bytes.
Encoding(t, content) ==
  LET codes == FlattenSeq([i \in 1 .. Len(content) |-> CodeOf(t, content[i])]) \o EndCode(t)
  IN  [tree |-> t, content |-> content, bits |-> codes \o Padding(Len(codes))]

AsStored(encodings) ==
  {[bytes |-> HeaderOf(e.tree) \o Packed(e.bits), content |-> e.content] : e \in encodings}

\* All short contents of some symbols, and longer ones that repeat one symbol.
\* Of a large tree, the most and the least frequent symbol will do.
Alphabet(t) ==
  LET all == FlattenSeq(t)
  IN  IF Len(all) <= M \div 2 THEN Range(all) ELSE {all[1], all[Len(all)]}
ContentsOf(t) ==
  UNION {[1 .. n -> Alphabet(t)] : n \in 0 .. MaxLen}
  \cup {[i \in 1 .. n |-> s] : s \in Alphabet(t), n \in 0 .. MaxRun}

EncodedStreams == AsStored(UNION {{Encoding(t, c) : c \in ContentsOf(t)} : t \in Trees})

AnyStreams ==
  {[bytes |-> b, content |-> <<>>] : b \in UNION {[1 .. n -> Byte] : n \in 0 .. MaxBytes}}
=============================================================================
