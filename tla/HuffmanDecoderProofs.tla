------------------------- MODULE HuffmanDecoderProofs -------------------------
(***************************************************************************)
(* The decoder on any stored data, with any width of a byte: it indexes    *)
(* its table within bounds, and its counts add up.                         *)
(***************************************************************************)
EXTENDS HuffmanDecoder, SequenceTheorems, TLAPS

TableType ==
  /\ treelevels \in 0 .. M - 2 /\ row \in 0 .. treelevels + 1 /\ symbol_size \in Nat
  /\ symbolsin \in [Levels -> Byte] /\ inodesin \in [Levels -> Byte]
  /\ tree \in [Levels -> Seq(Byte)]

\* The last level has no inner nodes, before it is filled and behind it.
TableInv ==
  /\ TableType
  /\ inodesin[treelevels] = 0
  /\ phase = "new" => treelevels = 0 /\ row = 0

\* While the header is read nothing is decoded.
ReadType ==
  /\ stream \in [bytes : Seq(Byte), content : Seq(Byte)]
  /\ at \in 0 .. Size /\ failures \in 0 .. MaxFailures
  /\ code \in Byte /\ level \in Levels /\ byte \in Byte /\ bit \in 0 .. ByteBits
  /\ offset_buf \in Seq(Byte) /\ buf \in Seq(Byte) /\ delivered \in Seq(Byte)
  /\ asked \in Nat /\ current_out \in Nat
  /\ phase \in {"new", "counts", "symbols", "fill", "idle", "fetch", "bits",
                "ended", "error", "panic", "overfilled"}
  /\ phase \in {"new", "counts", "symbols", "fill"} => level = 0 /\ offset_buf = <<>>

\* Within a byte the caller's buffer is full before a symbol is kept, and each
\* symbol takes at least one bit.
KeptInv ==
  /\ KeptFromOneByte
  /\ phase = "bits" => IF current_out < asked THEN offset_buf = <<>>
                       ELSE Len(offset_buf) < ByteBits - bit

IInv == TableInv /\ ReadType /\ KeptInv /\ CountAddsUp

-----------------------------------------------------------------------------
(* Numbers and sequences.                                                  *)

LEMMA ByteIsWide == M \in Nat /\ M >= 2 /\ ByteBits \in Nat /\ ByteBits > 0 /\ 0 \in Byte
<1>1. ByteBits \in Nat /\ ByteBits > 0 /\ ByteBits \in 0 .. ByteBits
  BY DecoderConstantsOK
<1>2. M \in Nat /\ M > ByteBits
  BY <1>1, DecoderConstantsOK DEF M
<1>3. QED BY <1>1, <1>2 DEF Byte

LEMMA CutToByte ==
  ASSUME NEW n \in Nat
  PROVE  n % M \in Byte /\ (n % M) \div 2 \in Byte
<1>1. M \in Nat /\ M >= 2
  BY ByteIsWide
<1> DEFINE w == M
           r == n % w
<1> HIDE DEF w
<1>2. w \in Nat /\ w >= 2
  BY <1>1 DEF w
<1>3. r \in 0 .. w - 1
  BY <1>2, Z3
<1>4. r \div 2 \in 0 .. w - 1
  <2> HIDE DEF r
  <2>1. QED BY <1>2, <1>3
<1>5. QED BY <1>3, <1>4 DEF Byte, w

LEMMA BitType ==
  ASSUME NEW b \in Nat, NEW k \in 1 .. ByteBits
  PROVE  (b \div (2 ^ (k - 1))) % 2 \in 0 .. 1
<1> DEFINE p == 2 ^ (k - 1)
<1>1. k - 1 \in 0 .. ByteBits
  BY ByteIsWide
<1>2. p \in Nat /\ p > k - 1
  BY <1>1, DecoderConstantsOK
<1>3. p > 0
  BY <1>1, <1>2
<1> HIDE DEF p
<1>4. b \div p \in Nat
  BY <1>2, <1>3, Z3
<1>5. \A d \in Nat : d % 2 \in 0 .. 1
  OBVIOUS
<1>6. QED BY <1>4, <1>5 DEF p

LEMMA ElementType ==
  ASSUME NEW S, NEW s \in Seq(S), NEW k \in 1 .. Len(s)
  PROVE  s[k] \in S
OBVIOUS

LEMMA SliceType ==
  ASSUME NEW S, NEW s \in Seq(S), NEW m \in Nat, NEW n \in Nat, n <= Len(s), m >= 1
  PROVE  /\ SubSeq(s, m, n) \in Seq(S)
         /\ Len(SubSeq(s, m, n)) = IF m <= n THEN n - m + 1 ELSE 0
<1>1. \A i \in m .. n : s[i] \in S
  OBVIOUS
<1>2. QED BY <1>1, SubSeqProperties

-----------------------------------------------------------------------------
LEMMA InitOK == Init => IInv
<1> SUFFICES ASSUME Init PROVE IInv
  OBVIOUS
<1>1. M - 2 \in Nat /\ 0 \in 0 .. M - 2 /\ 0 \in Byte /\ 0 \in 0 .. ByteBits /\ ByteBits > 0
  BY ByteIsWide
<1>2. Levels = {0}
  BY DEF Init, Levels
<1>3. TableInv
  BY <1>1, <1>2 DEF Init, TableInv, TableType
<1>5. stream \in [bytes : Seq(Byte), content : Seq(Byte)]
  BY DecoderConstantsOK DEF Init
<1>6. ReadType
  BY <1>1, <1>2, <1>5, DecoderConstantsOK DEF Init, ReadType, Size
<1>7. KeptInv /\ CountAddsUp
  BY <1>1 DEF Init, KeptInv, KeptFromOneByte, CountAddsUp
<1>8. QED BY <1>3, <1>6, <1>7 DEF IInv

-----------------------------------------------------------------------------
(* parse_header.                                                           *)

HeaderVars == <<stream, code, level, byte, bit, offset_buf, asked, buf, current_out, delivered>>

\* Of a header step only the table, the place in the data and the phase are open.
LEMMA HeaderKeeps ==
  ASSUME IInv, UNCHANGED <<HeaderVars, failures>>, level = 0, offset_buf = <<>>,
         TableInv', at' \in 0 .. Size,
         phase' \in {"counts", "symbols", "fill", "idle", "error", "panic"}
  PROVE  IInv'
<1> USE DEF IInv, HeaderVars
<1>1. ReadType'
  <2>1. level' = 0 /\ Size' = Size
    BY DEF Size
  <2>2. level' \in Levels'
    BY <2>1 DEF TableInv, TableType, Levels
  <2>3. QED BY <2>1, <2>2 DEF ReadType
<1>2. KeptInv'
  BY ByteIsWide DEF KeptInv, KeptFromOneByte
<1>3. CountAddsUp'
  BY DEF CountAddsUp
<1>4. QED BY <1>1, <1>2, <1>3

\* A byte of the data.
LEMMA StoredType ==
  ASSUME ReadType, NEW i \in 1 .. Size
  PROVE  Stored(i) \in Byte
<1>1. stream.bytes \in Seq(Byte)
  BY DEF ReadType
<1>2. QED BY <1>1, ElementType DEF Size, Stored

LEMMA SizeType == ReadType => Size \in Nat
BY DEF ReadType, Size

LEMMA LevelsOK == IInv /\ ReadLevels => IInv'
<1> SUFFICES ASSUME IInv, ReadLevels PROVE IInv'
  OBVIOUS
<1>1. Stored(1) \in Byte /\ Stored(1) > 0 /\ Size \in Nat /\ Size > 0
  BY StoredType, SizeType DEF IInv, ReadLevels
<1>2. M \in Nat /\ 0 \in Byte
  BY ByteIsWide
<1>3. Stored(1) - 1 \in 0 .. M - 2
  BY <1>1, <1>2 DEF Byte
<1>4. treelevels' = Stored(1) - 1 /\ Levels' = 0 .. Stored(1) - 1
  BY DEF ReadLevels, Levels
<1>5. TableInv'
  BY <1>2, <1>3, <1>4 DEF ReadLevels, IInv, TableInv, TableType
<1>6. QED BY <1>1, <1>5, HeaderKeeps DEF ReadLevels, Decoding, HeaderVars, request, IInv, ReadType

LEMMA CountOK == IInv /\ ReadCount => IInv'
<1> SUFFICES ASSUME IInv, ReadCount PROVE IInv'
  OBVIOUS
<1>1. at + 1 \in 1 .. Size /\ Stored(at + 1) \in Byte
  BY StoredType, SizeType DEF IInv, ReadCount, ReadType
<1>2. Stored(at + 1) \in Nat
  BY <1>1, ByteIsWide DEF Byte
<1>3. row \in Levels /\ row + 1 \in 0 .. treelevels + 1
  BY DEF IInv, TableInv, TableType, ReadCount, RowsLeft, Levels
<1>4. TableInv'
  BY <1>1, <1>2, <1>3 DEF ReadCount, IInv, TableInv, TableType, Levels
<1>5. QED BY <1>1, <1>4, HeaderKeeps DEF ReadCount, Decoding, HeaderVars, request, IInv, ReadType

LEMMA OneMoreType ==
  ASSUME TableType
  PROVE  OneMore \in [Levels -> Byte]
<1>1. treelevels \in Levels /\ symbolsin[treelevels] \in Byte
  BY DEF TableType, Levels
<1>2. symbolsin[treelevels] + 1 \in Nat
  BY <1>1, ByteIsWide DEF Byte
<1>3. QED BY <1>1, <1>2, CutToByte DEF OneMore, TableType

LEMMA CountsDoneOK == IInv /\ CountsDone => IInv'
<1> SUFFICES ASSUME IInv, CountsDone PROVE IInv'
  OBVIOUS
<1>1. TableInv'
  <2>1. symbolsin' \in [Levels -> Byte] /\ treelevels' = treelevels /\ Levels' = Levels
    BY OneMoreType DEF CountsDone, IInv, TableInv, Levels
  <2>2. QED BY <2>1 DEF CountsDone, IInv, TableInv, TableType
<1>2. QED BY <1>1, HeaderKeeps
      DEF CountsDone, CountsRead, Decoding, HeaderVars, request, IInv, ReadType

LEMMA SymbolsDoneOK == IInv /\ SymbolsDone => IInv'
<1> SUFFICES ASSUME IInv, SymbolsDone PROVE IInv'
  OBVIOUS
<1>1. TableInv'
  <2>1. symbolsin' \in [Levels -> Byte] /\ treelevels' = treelevels /\ Levels' = Levels
    BY OneMoreType DEF SymbolsDone, IInv, TableInv, Levels
  <2>2. QED BY <2>1 DEF SymbolsDone, IInv, TableInv, TableType
<1>2. QED BY <1>1, HeaderKeeps
      DEF SymbolsDone, SymbolsRead, Decoding, HeaderVars, request, IInv, ReadType

LEMMA SymbolsOK == IInv /\ ReadSymbols => IInv'
<1> SUFFICES ASSUME IInv, ReadSymbols PROVE IInv'
  OBVIOUS
<1>1. row \in Levels /\ row + 1 \in 0 .. treelevels + 1
  BY DEF IInv, TableInv, TableType, ReadSymbols, RowsLeft, Levels
<1>2. symbolsin[row] \in Byte
  BY <1>1 DEF IInv, TableInv, TableType
<1>3. symbolsin[row] \in Nat /\ at \in Nat /\ Size \in Nat /\ at + symbolsin[row] <= Size
  BY <1>2, ByteIsWide, SizeType DEF Byte, IInv, ReadType, ReadSymbols
<1>4. stream.bytes \in Seq(Byte) /\ Len(stream.bytes) = Size
  BY DEF IInv, ReadType, Size
<1>5. SubSeq(stream.bytes, at + 1, at + symbolsin[row]) \in Seq(Byte)
  BY <1>3, <1>4, SliceType
<1>6. TableInv'
  BY <1>1, <1>5 DEF ReadSymbols, IInv, TableInv, TableType, Levels
<1>7. QED BY <1>3, <1>6, HeaderKeeps DEF ReadSymbols, Decoding, HeaderVars, request, IInv, ReadType

LEMMA StopOK == IInv /\ (RejectHeader \/ HeaderPanics \/ HeaderDone) => IInv'
<1> SUFFICES ASSUME IInv, RejectHeader \/ HeaderPanics \/ HeaderDone PROVE IInv'
  OBVIOUS
<1>1. /\ phase \in {"new", "counts", "symbols", "fill"}
      /\ phase' \in {"idle", "error", "panic"} /\ UNCHANGED <<Decoding, at, table>>
  BY DEF RejectHeader, HeaderPanics, HeaderDone, CountsRead, SymbolsRead
<1>2. TableInv'
  BY <1>1 DEF table, IInv, TableInv, TableType, Levels
<1>3. QED BY <1>1, <1>2, HeaderKeeps DEF Decoding, HeaderVars, request, IInv, ReadType

LEMMA FillOK == IInv /\ FillInodes => IInv'
<1> SUFFICES ASSUME IInv, FillInodes PROVE IInv'
  OBVIOUS
<1> DEFINE l == row - 1
           nodes == inodesin[l + 1] + symbolsin[l + 1]
<1>1. l \in Levels /\ row - 1 \in 0 .. treelevels + 1 /\ treelevels \in Nat
  BY DEF IInv, TableInv, TableType, FillInodes, Levels
<1>2. TableType'
  <2>1. inodesin' \in [Levels -> Byte]
    <3>1. CASE inodesin' = [inodesin EXCEPT ![l] = 0]
      BY <3>1, ByteIsWide DEF IInv, TableInv, TableType
    <3>2. CASE l < treelevels /\ inodesin' = [inodesin EXCEPT ![l] = (nodes % M) \div 2]
      <4>1. l + 1 \in Levels
        BY <1>1, <3>2 DEF Levels
      <4>2. nodes \in Nat
        BY <4>1, ByteIsWide DEF IInv, TableInv, TableType, Byte
      <4>3. (nodes % M) \div 2 \in Byte
        BY <4>2, CutToByte
      <4> HIDE DEF nodes
      <4>4. QED BY <3>2, <4>3 DEF IInv, TableInv, TableType
    <3>3. CASE inodesin' = inodesin
      BY <3>3 DEF IInv, TableInv, TableType
    <3>4. QED BY <3>1, <3>2, <3>3 DEF FillInodes
  <2>2. QED BY <1>1, <2>1 DEF FillInodes, IInv, TableInv, TableType, Levels
<1>3. inodesin'[treelevels'] = 0 /\ phase' # "new"
  <2>1. treelevels \in DOMAIN inodesin /\ inodesin[treelevels] = 0
    BY <1>1 DEF IInv, TableInv, TableType, Levels
  <2>2. QED BY <1>1, <2>1 DEF FillInodes
<1>4. TableInv'
  BY <1>2, <1>3 DEF TableInv
<1>5. QED BY <1>4, HeaderKeeps DEF FillInodes, Decoding, HeaderVars, request, IInv, ReadType

-----------------------------------------------------------------------------
(* read.                                                                   *)

LEMMA TableKept ==
  ASSUME IInv, UNCHANGED table, phase' # "new"
  PROVE  TableInv' /\ Levels' = Levels
BY DEF IInv, TableInv, TableType, table, Levels

\* A call of read hands its buffer to the caller; the code, the level and the
\* kept symbols stay.
LEMMA ReturnOK ==
  ASSUME IInv, phase \in {"idle", "fetch", "bits"},
         NEW result \in Nat, NEW asking \in Nat, NEW out \in Seq(Byte),
         Return(result, asking, out),
         UNCHANGED <<stream, at, failures, table, level>>,
         code' \in Byte, byte' \in Byte, bit' \in 0 .. ByteBits,
         offset_buf' \in Seq(Byte), Len(offset_buf') < ByteBits,
         buf' \in Seq(Byte), asked' \in Nat, current_out' \in Nat
  PROVE  IInv'
<1>1. phase' \in {"idle", "ended", "overfilled"} /\ delivered' \in Seq(Byte)
  <2>1. delivered \in Seq(Byte) /\ delivered \o out \in Seq(Byte)
    BY DEF IInv, ReadType
  <2>2. CASE phase' = "overfilled" /\ delivered' = delivered
    BY <2>1, <2>2
  <2>3. CASE /\ phase' = IF result = 0 THEN "ended" ELSE "idle"
             /\ delivered' = delivered \o out
    <3>1. phase' \in {"ended", "idle"}
      BY <2>3
    <3>2. QED BY <2>1, <2>3, <3>1
  <2>4. QED BY <2>2, <2>3 DEF Return
<1>2. TableInv' /\ Levels' = Levels
  BY <1>1, TableKept
<1>3. ReadType'
  BY <1>1, <1>2 DEF IInv, ReadType, Size
<1>4. KeptInv' /\ CountAddsUp'
  BY <1>1 DEF KeptInv, KeptFromOneByte, CountAddsUp
<1>5. QED BY <1>2, <1>3, <1>4 DEF IInv

LEMMA CallOK ==
  ASSUME IInv, NEW n \in BufSizes, Call(n)
  PROVE  IInv'
<1> DEFINE kept == Smaller(n, Len(offset_buf))
<1>1. n \in Nat /\ n > 0
  BY DecoderConstantsOK
<1>2. offset_buf \in Seq(Byte) /\ Len(offset_buf) \in Nat /\ Len(offset_buf) < ByteBits
  BY DEF IInv, ReadType, KeptInv, KeptFromOneByte
<1>3. kept \in Nat /\ kept <= n /\ kept <= Len(offset_buf) /\ (kept < n => kept = Len(offset_buf))
  BY <1>1, <1>2 DEF Smaller
<1> HIDE DEF kept
<1>4. /\ phase = "idle"
      /\ buf' = SubSeq(offset_buf, 1, kept)
      /\ offset_buf' = SubSeq(offset_buf, kept + 1, Len(offset_buf))
      /\ asked' = n /\ current_out' = Len(offset_buf) /\ byte' = 0
      /\ \/ kept = n /\ Return(kept, n, buf')
         \/ kept < n /\ phase' = "fetch" /\ UNCHANGED delivered
      /\ UNCHANGED <<stream, at, failures, table, code, level, bit>>
  BY DEF Call, kept
<1>5. buf' \in Seq(Byte) /\ Len(buf') = kept
  BY <1>2, <1>3, <1>4, SliceType
<1>6. offset_buf' \in Seq(Byte) /\ Len(offset_buf') = Len(offset_buf) - kept
  BY <1>2, <1>3, <1>4, SliceType
<1>7. ByteBits \in Nat /\ 0 \in Byte
  BY ByteIsWide
<1>8. CASE kept = n
  <2>1. Return(kept, n, buf')
    BY <1>1, <1>4, <1>8
  <2>2. Len(offset_buf') < ByteBits
    BY <1>2, <1>3, <1>6, <1>7
  <2>3. code' \in Byte /\ bit' \in 0 .. ByteBits /\ byte' \in Byte
    BY <1>4, <1>7 DEF IInv, ReadType
  <2>4. QED BY <1>1, <1>2, <1>3, <1>4, <1>5, <1>6, <2>1, <2>2, <2>3, ReturnOK
<1>9. CASE kept < n
  <2>1. phase' = "fetch" /\ delivered' = delivered
    BY <1>1, <1>3, <1>4, <1>9
  <2>2. Len(offset_buf') = 0 /\ kept = Len(offset_buf)
    BY <1>2, <1>3, <1>6, <1>9
  <2>3. offset_buf' = <<>>
    BY <1>6, <2>2, EmptySeq
  <2>4. TableInv' /\ Levels' = Levels
    BY <1>4, <2>1, TableKept
  <2>5. ReadType'
    BY <1>1, <1>2, <1>4, <1>5, <1>6, <1>7, <2>1, <2>4 DEF IInv, ReadType, Size
  <2>6. KeptInv' /\ CountAddsUp'
    BY <1>2, <1>3, <1>4, <1>5, <1>7, <2>1, <2>2, <2>3 DEF KeptInv, KeptFromOneByte, CountAddsUp
  <2>7. QED BY <2>4, <2>5, <2>6 DEF IInv
<1>10. QED BY <1>1, <1>3, <1>8, <1>9

LEMMA FetchOK == IInv /\ (FetchByte \/ FetchFails) => IInv'
<1> SUFFICES ASSUME IInv, FetchByte \/ FetchFails PROVE IInv'
  OBVIOUS
<1>1. /\ phase = "fetch" /\ current_out < asked /\ phase' = "bits" /\ bit' = ByteBits
      /\ UNCHANGED <<stream, table, code, level, offset_buf, request, delivered>>
  BY DEF FetchByte, FetchFails
<1>2. at' \in 0 .. Size /\ failures' \in 0 .. MaxFailures /\ byte' \in Byte
  <2>1. CASE FetchByte
    <3>1. at + 1 \in 1 .. Size
      BY <2>1, SizeType DEF FetchByte, IInv, ReadType
    <3>2. QED BY <2>1, <3>1, StoredType DEF FetchByte, IInv, ReadType
  <2>2. CASE FetchFails
    BY <2>2, DecoderConstantsOK DEF FetchFails, IInv, ReadType
  <2>3. QED BY <2>1, <2>2
<1>3. TableInv' /\ Levels' = Levels
  BY <1>1, TableKept
<1>4. ReadType'
  BY <1>1, <1>2, <1>3, ByteIsWide DEF request, IInv, ReadType, Size
<1>5. KeptInv' /\ CountAddsUp'
  BY <1>1, ByteIsWide DEF request, IInv, KeptInv, KeptFromOneByte, CountAddsUp
<1>6. QED BY <1>3, <1>4, <1>5 DEF IInv

LEMMA EndOK == IInv /\ (EndOfData \/ BufferFull) => IInv'
<1> SUFFICES ASSUME IInv, EndOfData \/ BufferFull PROVE IInv'
  OBVIOUS
<1>1. /\ phase = "fetch"
      /\ UNCHANGED <<stream, at, failures, table, code, level, byte, bit, offset_buf, request>>
  BY DEF EndOfData, BufferFull
<1>2. current_out \in Nat /\ asked \in Nat /\ Smaller(current_out, asked) \in Nat
      /\ buf \in Seq(Byte)
  BY DEF IInv, ReadType, Smaller
<1>3. PICK result \in Nat : Return(result, asked, buf)
  BY <1>2 DEF EndOfData, BufferFull
<1>4. /\ code' \in Byte /\ byte' \in Byte /\ bit' \in 0 .. ByteBits
      /\ offset_buf' \in Seq(Byte) /\ Len(offset_buf') < ByteBits
      /\ buf' \in Seq(Byte) /\ asked' \in Nat /\ current_out' \in Nat
  BY <1>1 DEF request, IInv, ReadType, KeptInv, KeptFromOneByte
<1>5. QED BY <1>1, <1>2, <1>3, <1>4, ReturnOK

LEMMA ShiftedType ==
  ASSUME IInv, phase = "bits", bit > 0
  PROVE  Shifted \in Byte /\ bit - 1 \in 0 .. ByteBits /\ bit \in Nat
<1>1. bit \in 1 .. ByteBits /\ code \in Nat /\ byte \in Nat
  BY ByteIsWide DEF IInv, ReadType, Byte
<1>2. NextBit \in 0 .. 1
  BY <1>1, BitType DEF NextBit
<1>3. code * 2 + NextBit \in Nat
  BY <1>1, <1>2
<1>4. QED BY <1>1, <1>3, CutToByte, ByteIsWide DEF Shifted

LEMMA SymbolType ==
  ASSUME IInv, IsLeaf, Leaf < Len(tree[level])
  PROVE  tree[level][Leaf + 1] \in Byte
<1>1. level \in Levels /\ tree[level] \in Seq(Byte) /\ inodesin[level] \in Nat
  BY ByteIsWide DEF IInv, TableInv, TableType, ReadType, Byte
<1>2. Shifted \in Nat
  BY ShiftedType, ByteIsWide DEF IsLeaf, Byte
<1>3. Leaf + 1 \in 1 .. Len(tree[level])
  BY <1>1, <1>2 DEF IsLeaf, Leaf
<1>4. QED BY <1>1, <1>3, ElementType

LEMMA PutSymbolOK == IInv /\ PutSymbol => IInv'
<1> SUFFICES ASSUME IInv, PutSymbol PROVE IInv'
  OBVIOUS
<1> DEFINE symbol == tree[level][Leaf + 1]
<1>1. /\ phase = "bits" /\ bit > 0 /\ symbol \in Byte
  BY SymbolType DEF PutSymbol, IsLeaf
<1>2. /\ IF current_out >= asked
            THEN offset_buf' = Append(offset_buf, symbol) /\ buf' = buf
            ELSE buf' = Append(buf, symbol) /\ offset_buf' = offset_buf
      /\ current_out' = current_out + 1
      /\ code' = 0 /\ level' = 0 /\ bit' = bit - 1
      /\ UNCHANGED <<stream, at, failures, table, byte, asked, delivered, phase>>
  BY DEF PutSymbol
<1> HIDE DEF symbol
<1>3. /\ offset_buf \in Seq(Byte) /\ buf \in Seq(Byte) /\ current_out \in Nat /\ asked \in Nat
      /\ bit \in 0 .. ByteBits /\ ByteBits \in Nat
      /\ Len(offset_buf) \in Nat /\ Len(buf) \in Nat
  BY ByteIsWide DEF IInv, ReadType
<1>4. TableInv' /\ Levels' = Levels
  BY <1>1, <1>2, TableKept
<1>5. ReadType'
  <2>1. offset_buf' \in Seq(Byte) /\ buf' \in Seq(Byte)
    <3>1. Append(offset_buf, symbol) \in Seq(Byte) /\ Append(buf, symbol) \in Seq(Byte)
      BY <1>1, <1>3
    <3>2. CASE current_out >= asked
      BY <1>2, <1>3, <3>1, <3>2
    <3>3. CASE ~(current_out >= asked)
      BY <1>2, <1>3, <3>1, <3>3
    <3>4. QED BY <3>2, <3>3
  <2>2. 0 \in Levels /\ 0 \in Byte
    BY ByteIsWide DEF IInv, TableInv, TableType, Levels
  <2>3. bit' \in 0 .. ByteBits /\ current_out' \in Nat
    BY <1>1, <1>2, <1>3
  <2>4. QED BY <1>1, <1>2, <1>4, <2>1, <2>2, <2>3 DEF IInv, ReadType, Size
<1>6. KeptInv' /\ CountAddsUp'
  <2>1. CASE current_out < asked
    <3>1. buf' = Append(buf, symbol) /\ offset_buf' = offset_buf /\ offset_buf = <<>>
      BY <1>1, <1>2, <1>3, <2>1 DEF IInv, KeptInv
    <3>2. Len(buf') = Len(buf) + 1 /\ Len(offset_buf') = 0 /\ Len(offset_buf) = 0
      BY <1>1, <1>3, <3>1
    <3>3. current_out = Len(buf)
      BY <1>1, <1>3, <3>2 DEF IInv, CountAddsUp
    <3>4. QED BY <1>1, <1>2, <1>3, <2>1, <3>1, <3>2, <3>3
          DEF KeptInv, KeptFromOneByte, CountAddsUp
  <2>2. CASE current_out >= asked
    <3>1. buf' = buf /\ Len(offset_buf') = Len(offset_buf) + 1 /\ Len(offset_buf) < ByteBits - bit
      BY <1>1, <1>2, <1>3, <2>2 DEF IInv, KeptInv
    <3>2. /\ current_out = Len(buf) + Len(offset_buf) /\ Len(buf) <= asked
          /\ offset_buf # <<>> => Len(buf) = asked
      BY <1>1 DEF IInv, CountAddsUp
    <3>3. Len(buf) = asked
      <4>1. CASE offset_buf = <<>>
        <5>1. Len(offset_buf) = 0
          BY <4>1
        <5>2. QED BY <1>3, <2>2, <3>2, <5>1
      <4>2. QED BY <3>2, <4>1
    <3>4. QED BY <1>1, <1>2, <1>3, <2>2, <3>1, <3>2, <3>3
          DEF KeptInv, KeptFromOneByte, CountAddsUp
  <2>3. QED BY <1>3, <2>1, <2>2
<1>7. QED BY <1>4, <1>5, <1>6 DEF IInv

LEMMA EndMarkOK == IInv /\ EndMark => IInv'
<1> SUFFICES ASSUME IInv, EndMark PROVE IInv'
  OBVIOUS
<1>1. /\ phase = "bits" /\ bit > 0 /\ code' = Shifted /\ bit' = bit - 1
      /\ Return(current_out, asked, buf)
      /\ UNCHANGED <<stream, at, failures, table, level, byte, offset_buf, request>>
  BY DEF EndMark, IsLeaf
<1>2. code' \in Byte /\ bit' \in 0 .. ByteBits
  BY <1>1, ShiftedType
<1>3. /\ byte' \in Byte /\ offset_buf' \in Seq(Byte) /\ Len(offset_buf') < ByteBits
      /\ buf' \in Seq(Byte) /\ asked' \in Nat /\ current_out' \in Nat
      /\ buf \in Seq(Byte) /\ asked \in Nat /\ current_out \in Nat
  BY <1>1 DEF request, IInv, ReadType, KeptInv, KeptFromOneByte
<1>4. QED BY <1>1, <1>2, <1>3, ReturnOK

\* The other ways a bit is used: the last level has a leaf for every code.
LEMMA NoSymbolOK == IInv /\ (InvalidLevelIndex \/ Descend \/ ByteDone) => IInv'
<1> SUFFICES ASSUME IInv, InvalidLevelIndex \/ Descend \/ ByteDone PROVE IInv'
  OBVIOUS
<1>1. /\ phase = "bits" /\ phase' \in {"bits", "fetch", "error"}
      /\ phase' = "bits" => bit' = bit - 1
      /\ phase' = "fetch" => bit = 0
      /\ UNCHANGED <<stream, at, failures, table, byte, offset_buf, request, delivered>>
  BY DEF InvalidLevelIndex, Descend, ByteDone, IsLeaf
<1>2. bit \in 0 .. ByteBits /\ ByteBits \in Nat /\ Len(offset_buf) \in Nat
  BY ByteIsWide DEF IInv, ReadType
<1>3. code' \in Byte /\ bit' \in 0 .. ByteBits
  <2>1. CASE InvalidLevelIndex \/ Descend
    BY <2>1, ShiftedType DEF InvalidLevelIndex, Descend, IsLeaf
  <2>2. CASE ByteDone
    BY <2>2 DEF ByteDone, IInv, ReadType
  <2>3. QED BY <2>1, <2>2
<1>4. level' \in Levels
  <2>1. CASE Descend
    <3>1. Shifted \in Nat /\ Shifted < inodesin[level]
      <4>1. Shifted \in Nat
        BY <2>1, ShiftedType, ByteIsWide DEF Descend, Byte
      <4>2. inodesin[level] \in Nat
        BY ByteIsWide DEF IInv, ReadType, TableInv, TableType, Byte
      <4>3. QED BY <2>1, <4>1, <4>2 DEF Descend, IsLeaf
    <3>2. level # treelevels
      BY <3>1 DEF IInv, TableInv
    <3>3. QED BY <2>1, <3>2 DEF Descend, IInv, ReadType, TableInv, TableType, Levels
  <2>2. CASE ~Descend
    BY <2>2 DEF InvalidLevelIndex, ByteDone, IInv, ReadType
  <2>3. QED BY <2>1, <2>2
<1>5. TableInv' /\ Levels' = Levels
  BY <1>1, TableKept
<1>6. ReadType'
  BY <1>1, <1>3, <1>4, <1>5 DEF request, IInv, ReadType, Size
<1>7. KeptInv' /\ CountAddsUp'
  BY <1>1, <1>2, <1>3 DEF request, IInv, ReadType, KeptInv, KeptFromOneByte, CountAddsUp
<1>8. QED BY <1>5, <1>6, <1>7 DEF IInv

-----------------------------------------------------------------------------
LEMMA StepOK == IInv /\ [Next]_vars => IInv'
<1> SUFFICES ASSUME IInv, [Next]_vars PROVE IInv'
  OBVIOUS
<1>1. CASE Step
  BY <1>1, LevelsOK, CountOK, CountsDoneOK, SymbolsOK, SymbolsDoneOK, StopOK, FillOK,
     FetchOK, EndOK, PutSymbolOK, EndMarkOK, NoSymbolOK DEF Step
<1>2. CASE \E n \in BufSizes : Call(n)
  BY <1>2, CallOK
<1>3. CASE UNCHANGED vars
  <2>1. TableInv' /\ Levels' = Levels
    BY <1>3 DEF vars, table, IInv, TableInv, TableType, Levels
  <2>2. ReadType'
    BY <1>3, <2>1 DEF vars, request, IInv, ReadType, Size
  <2>3. KeptInv' /\ CountAddsUp'
    BY <1>3 DEF vars, request, IInv, KeptInv, KeptFromOneByte, CountAddsUp
  <2>4. QED BY <2>1, <2>2, <2>3 DEF IInv
<1>4. QED BY <1>1, <1>2, <1>3 DEF Next

LEMMA Invariance == Spec => []IInv
BY InitOK, StepOK, PTL DEF Spec

\* Counters and symbols are bytes, and the reader stays within the data.
THEOREM DecoderTypeCorrect == Spec => []TypeOK
<1>1. IInv => TypeOK
  BY DEF IInv, TableInv, TableType, ReadType, TypeOK, Levels
<1>2. QED BY <1>1, Invariance, PTL

\* For every table and all bits read neither table is indexed out of bounds,
\* and InvalidTreelevel is never returned.
THEOREM LevelStaysInTable == Spec => []LevelInTable
<1>1. IInv => LevelInTable
  BY DEF IInv, ReadType, LevelInTable
<1>2. QED BY <1>1, Invariance, PTL

\* Symbols kept for the next call are fewer than a byte has bits.
THEOREM KeptSymbolsFromOneByte == Spec => []KeptFromOneByte
<1>1. IInv => KeptFromOneByte
  BY DEF IInv, KeptInv
<1>2. QED BY <1>1, Invariance, PTL

\* The count that read returns is that of the symbols decoded.
THEOREM CountsAddUp == Spec => []CountAddsUp
<1>1. IInv => CountAddsUp
  BY DEF IInv
<1>2. QED BY <1>1, Invariance, PTL
=============================================================================
