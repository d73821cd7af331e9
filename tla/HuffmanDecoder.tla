---------------------------- MODULE HuffmanDecoder ----------------------------
(***************************************************************************)
(* The decoder of compressed record data (huffman.rs): parse_header builds *)
(* the table of a code tree level by level; each call of read decodes     *)
(* whole bytes until the caller's buffer is full and keeps the symbols     *)
(* that did not fit for the next call.                                     *)
(*                                                                         *)
(* A byte has ByteBits bits, 8 in the code; a smaller byte brings the ends *)
(* of the u8 range within reach.  Levels count from 0, as in the code.     *)
(***************************************************************************)
EXTENDS Integers, Sequences

CONSTANTS
  ByteBits,
  Streams,         \* stored data: their bytes and the content they stand for
  BufSizes,        \* the buffers callers pass to read
  MaxFailures,     \* bound on the reads of the archive that fail
  OverflowChecks   \* u8 overflow panics (debug build) instead of wrapping

M == 2 ^ ByteBits
Byte == 0 .. M - 1

ASSUME DecoderConstantsOK ==
  /\ ByteBits \in Nat \ {0}
  /\ Streams \subseteq [bytes : Seq(Byte), content : Seq(Byte)]
  /\ BufSizes \subseteq Nat \ {0}
  /\ MaxFailures \in Nat /\ OverflowChecks \in BOOLEAN
  /\ \A n \in 0 .. ByteBits : 2 ^ n \in Nat /\ 2 ^ n > n

VARIABLES
  stream,        \* the stored data, cut off at compressed_size by Take
  at,            \* bytes of it consumed
  failures,      \* reads of it that failed in read
  treelevels,    \* index of the last level
  symbolsin,     \* leaves of each level, the end mark included
  tree,          \* symbols of each level
  inodesin,      \* inner nodes of each level
  symbol_size,   \* sum of the counts read, and 1
  row,           \* the level a loop of parse_header is at; in "fill", the levels
                 \* fill_inodesin has not reached yet on its way back
  code, level,   \* bits read since the last symbol, and the level they lead to
  byte, bit,     \* the byte being decoded and how many bits of it are left
  offset_buf,    \* symbols decoded beyond the caller's buffer
  asked,         \* size of the caller's buffer
  buf,           \* what was put into it
  current_out,
  delivered,     \* all that the calls of read handed out
  phase          \* "new", "counts", "symbols", "fill"; "idle", "fetch", "bits"; "ended"
                 \* at Ok(0); "error", "panic", and "overfilled" at Ok(n) with n > asked

table == <<treelevels, symbolsin, tree, inodesin, symbol_size, row>>
request == <<asked, buf, current_out>>
vars == <<stream, at, failures, table, code, level, byte, bit, offset_buf, request, delivered, phase>>

Smaller(a, b) == IF a < b THEN a ELSE b
Levels == 0 .. treelevels

-----------------------------------------------------------------------------
(* parse_header                                                            *)

Stored(i) == stream.bytes[i]
Size == Len(stream.bytes)

Init ==
  /\ stream \in Streams
  /\ at = 0 /\ failures = 0
  /\ treelevels = 0 /\ symbolsin = [l \in {0} |-> 0] /\ tree = [l \in {0} |-> <<>>]
  /\ inodesin = [l \in {0} |-> 0] /\ symbol_size = 1 /\ row = 0
  /\ code = 0 /\ level = 0 /\ byte = 0 /\ bit = 0
  /\ offset_buf = <<>> /\ asked = 0 /\ buf = <<>> /\ current_out = 0
  /\ delivered = <<>>
  /\ phase = "new"

Decoding == <<stream, failures, code, level, byte, bit, offset_buf, request, delivered>>

ReadLevels ==
  /\ phase = "new"
  /\ Size > 0 /\ Stored(1) > 0
  /\ at' = 1
  /\ treelevels' = Stored(1) - 1
  /\ symbolsin' = [l \in 0 .. Stored(1) - 1 |-> 0]
  /\ tree' = [l \in 0 .. Stored(1) - 1 |-> <<>>]
  /\ inodesin' = [l \in 0 .. Stored(1) - 1 |-> 0]
  /\ phase' = "counts"
  /\ UNCHANGED <<Decoding, symbol_size, row>>

RowsLeft == row <= treelevels

ReadCount ==
  /\ phase = "counts" /\ RowsLeft /\ at < Size
  /\ symbolsin' = [symbolsin EXCEPT ![row] = Stored(at + 1)]
  /\ symbol_size' = symbol_size + Stored(at + 1)
  /\ at' = at + 1
  /\ row' = row + 1
  /\ UNCHANGED <<Decoding, treelevels, tree, inodesin, phase>>

\* Mutant: the counter is not cut to a byte.
OneMoreWide == [symbolsin EXCEPT ![treelevels] = @ + 1]

\* symbolsin[last] += 1: before the symbols are read, as the last level has one
\* more than its count says, and again behind them, for the end mark.
OneMore == [symbolsin EXCEPT ![treelevels] = (@ + 1) % M]
Overflows == OverflowChecks /\ symbolsin[treelevels] = M - 1

CountsRead == phase = "counts" /\ ~RowsLeft /\ symbol_size <= M
CountsDone ==
  /\ CountsRead /\ ~Overflows
  /\ symbolsin' = OneMore
  /\ row' = 0
  /\ phase' = "symbols"
  /\ UNCHANGED <<Decoding, at, treelevels, tree, inodesin, symbol_size>>

\* The symbols of a level, byte by byte.
ReadSymbols ==
  /\ phase = "symbols" /\ RowsLeft /\ at + symbolsin[row] <= Size
  /\ tree' = [tree EXCEPT ![row] = SubSeq(stream.bytes, at + 1, at + symbolsin[row])]
  /\ at' = at + symbolsin[row]
  /\ row' = row + 1
  /\ UNCHANGED <<Decoding, treelevels, symbolsin, inodesin, symbol_size, phase>>

SymbolsRead == phase = "symbols" /\ ~RowsLeft
SymbolsDone ==
  /\ SymbolsRead /\ ~Overflows
  /\ symbolsin' = OneMore
  /\ phase' = "fill"
  /\ UNCHANGED <<Decoding, at, treelevels, tree, inodesin, symbol_size, row>>

\* IoError, at the end of the data or at any read, or BadSymbolTable.  Without
\* levels a release build reads a count before it indexes the empty table.
RejectHeader ==
  /\ \/ phase = "new" /\ (Size = 0 \/ failures < MaxFailures)
     \/ phase = "new" /\ Size = 1 /\ Stored(1) = 0 /\ ~OverflowChecks
     \/ phase = "counts" /\ RowsLeft /\ (at = Size \/ failures < MaxFailures)
     \/ phase = "counts" /\ ~RowsLeft /\ symbol_size > M
     \/ /\ phase = "symbols" /\ RowsLeft /\ symbolsin[row] > 0
        /\ at + symbolsin[row] > Size \/ failures < MaxFailures
  /\ phase' = "error"
  /\ UNCHANGED <<Decoding, at, table>>

\* A tree without levels, or a last level that u8 cannot count.
HeaderPanics ==
  /\ \/ phase = "new" /\ Size > 0 /\ Stored(1) = 0 /\ (OverflowChecks \/ Size > 1)
     \/ CountsRead /\ Overflows
     \/ SymbolsRead /\ Overflows
  /\ phase' = "panic"
  /\ UNCHANGED <<Decoding, at, table>>

\* Mutant: the last level is filled like the others.
FillInodesPastLast ==
  /\ phase = "fill" /\ row > 0
  /\ LET l == row - 1
         nodes == IF l = treelevels THEN symbolsin[l] ELSE inodesin[l + 1] + symbolsin[l + 1]
     IN  inodesin' = [inodesin EXCEPT ![l] = (nodes % M) \div 2]
  /\ row' = row - 1
  /\ UNCHANGED <<Decoding, at, treelevels, symbolsin, tree, symbol_size, phase>>

\* fill_inodesin comes back from its recursion: the last level has no inner
\* nodes, and every inner node has two nodes on the next level.
FillInodes ==
  /\ phase = "fill" /\ row > 0
  /\ LET l == row - 1
         nodes == inodesin[l + 1] + symbolsin[l + 1]
     IN  \/ /\ l = treelevels
            /\ inodesin' = [inodesin EXCEPT ![l] = 0]
            /\ UNCHANGED phase
         \/ /\ l < treelevels
            /\ ~(OverflowChecks /\ nodes >= M)
            /\ inodesin' = [inodesin EXCEPT ![l] = (nodes % M) \div 2]
            /\ UNCHANGED phase
         \/ /\ l < treelevels
            /\ OverflowChecks /\ nodes >= M
            /\ phase' = "panic"
            /\ UNCHANGED inodesin
  /\ row' = row - 1
  /\ UNCHANGED <<Decoding, at, treelevels, symbolsin, tree, symbol_size>>

HeaderDone ==
  /\ phase = "fill" /\ row = 0
  /\ phase' = "idle"
  /\ UNCHANGED <<Decoding, at, table>>

-----------------------------------------------------------------------------
(* read                                                                    *)

\* What the caller makes of the number it gets: Ok(0) is the end; on a number
\* beyond the buffer io::copy and read_to_end panic, and nothing is delivered.
Return(result, asking, out) ==
  \/ /\ result > asking
     /\ phase' = "overfilled"
     /\ UNCHANGED delivered
  \/ /\ result <= asking
     /\ phase' = IF result = 0 THEN "ended" ELSE "idle"
     /\ delivered' = delivered \o out

\* Mutant: the symbols kept back are taken from the wrong end.
CallPopsBack(n) ==
  /\ phase = "idle"
  /\ LET kept == Smaller(n, Len(offset_buf))
         rest == Len(offset_buf) - kept
     IN  /\ buf' = SubSeq(offset_buf, rest + 1, Len(offset_buf))
         /\ offset_buf' = SubSeq(offset_buf, 1, rest)
         /\ asked' = n
         /\ current_out' = Len(offset_buf)
         /\ byte' = 0
         /\ \/ kept = n /\ Return(kept, n, buf')
            \/ kept < n /\ phase' = "fetch" /\ UNCHANGED delivered
  /\ UNCHANGED <<stream, at, failures, table, code, level, bit>>

\* A call of read: first what an earlier call decoded beyond its buffer.
Call(n) ==
  /\ phase = "idle"
  /\ LET kept == Smaller(n, Len(offset_buf))
     IN  /\ buf' = SubSeq(offset_buf, 1, kept)
         /\ offset_buf' = SubSeq(offset_buf, kept + 1, Len(offset_buf))
         /\ asked' = n
         /\ current_out' = Len(offset_buf)
         /\ byte' = 0
         /\ \/ kept = n /\ Return(kept, n, buf')
            \/ kept < n /\ phase' = "fetch" /\ UNCHANGED delivered
  /\ UNCHANGED <<stream, at, failures, table, code, level, bit>>

\* Mutant: the loop goes on when the buffer is exactly full.
FetchOneMore ==
  /\ phase = "fetch" /\ current_out <= asked /\ at < Size
  /\ byte' = Stored(at + 1)
  /\ at' = at + 1
  /\ bit' = ByteBits
  /\ phase' = "bits"
  /\ UNCHANGED <<stream, failures, table, code, level, offset_buf, request, delivered>>

FetchByte ==
  /\ phase = "fetch" /\ current_out < asked /\ at < Size
  /\ byte' = Stored(at + 1)
  /\ at' = at + 1
  /\ bit' = ByteBits
  /\ phase' = "bits"
  /\ UNCHANGED <<stream, failures, table, code, level, offset_buf, request, delivered>>

\* An error other than the end of the stream is ignored: what buffer holds, 0 or
\* the byte before, is decoded in place of the byte that was not read.
FetchFails ==
  /\ failures < MaxFailures
  /\ phase = "fetch" /\ current_out < asked
  /\ failures' = failures + 1
  /\ bit' = ByteBits
  /\ phase' = "bits"
  /\ UNCHANGED <<stream, at, table, code, level, byte, offset_buf, request, delivered>>

\* Mutant: the end of the data is reported as an interruption, which callers retry.
EndOfDataInterrupted ==
  /\ phase = "fetch" /\ current_out < asked /\ at = Size
  /\ phase' = "idle"
  /\ UNCHANGED <<stream, at, failures, table, code, level, byte, bit, offset_buf, request, delivered>>

\* The end of the stored data ends the content, whatever bits are left over.
EndOfData ==
  /\ phase = "fetch" /\ current_out < asked /\ at = Size
  /\ Return(current_out, asked, buf)
  /\ UNCHANGED <<stream, at, failures, table, code, level, byte, bit, offset_buf, request>>

BufferFull ==
  /\ phase = "fetch" /\ current_out >= asked
  /\ Return(Smaller(current_out, asked), asked, buf)
  /\ UNCHANGED <<stream, at, failures, table, code, level, byte, bit, offset_buf, request>>

\* The code extended by the next bit, and the leaf of the level it names.
NextBit == (byte \div (2 ^ (bit - 1))) % 2
Shifted == ((code * 2) + NextBit) % M
IsLeaf == phase = "bits" /\ bit > 0 /\ Shifted >= inodesin[level]
Leaf == Shifted - inodesin[level]

\* Mutant: symbols beyond the caller's buffer are not counted.
PutSymbolUncounted ==
  /\ IsLeaf /\ Leaf <= symbolsin[level] /\ Leaf < Len(tree[level])
  /\ IF current_out >= asked
       THEN /\ offset_buf' = Append(offset_buf, tree[level][Leaf + 1])
            /\ UNCHANGED <<buf, current_out>>
       ELSE /\ buf' = Append(buf, tree[level][Leaf + 1])
            /\ current_out' = current_out + 1
            /\ UNCHANGED offset_buf
  /\ code' = 0 /\ level' = 0 /\ bit' = bit - 1
  /\ UNCHANGED <<stream, at, failures, table, byte, asked, delivered, phase>>

PutSymbol ==
  /\ IsLeaf /\ Leaf <= symbolsin[level] /\ Leaf < Len(tree[level])
  /\ IF current_out >= asked
       THEN offset_buf' = Append(offset_buf, tree[level][Leaf + 1]) /\ UNCHANGED buf
       ELSE buf' = Append(buf, tree[level][Leaf + 1]) /\ UNCHANGED offset_buf
  /\ current_out' = current_out + 1
  /\ code' = 0 /\ level' = 0 /\ bit' = bit - 1
  /\ UNCHANGED <<stream, at, failures, table, byte, asked, delivered, phase>>

\* The end mark: return at once, with a count that is not clamped and with the
\* code and the level of the end mark left behind.
EndMark ==
  /\ IsLeaf /\ Leaf <= symbolsin[level] /\ Leaf >= Len(tree[level])
  /\ code' = Shifted /\ bit' = bit - 1
  /\ Return(current_out, asked, buf)
  /\ UNCHANGED <<stream, at, failures, table, level, byte, offset_buf, request>>

InvalidLevelIndex ==
  /\ IsLeaf /\ Leaf > symbolsin[level]
  /\ code' = Shifted /\ bit' = bit - 1
  /\ phase' = "error"
  /\ UNCHANGED <<stream, at, failures, table, level, byte, offset_buf, request, delivered>>

Descend ==
  /\ phase = "bits" /\ bit > 0 /\ ~IsLeaf
  /\ code' = Shifted /\ bit' = bit - 1
  /\ level' = level + 1
  /\ phase' = IF level + 1 > treelevels THEN "error" ELSE "bits"   \* InvalidTreelevel
  /\ UNCHANGED <<stream, at, failures, table, byte, offset_buf, request, delivered>>

ByteDone ==
  /\ phase = "bits" /\ bit = 0
  /\ phase' = "fetch"
  /\ UNCHANGED <<stream, at, failures, table, code, level, byte, bit, offset_buf, request, delivered>>

Step ==
  \/ ReadLevels \/ ReadCount \/ CountsDone \/ ReadSymbols \/ SymbolsDone
  \/ RejectHeader \/ HeaderPanics \/ FillInodes \/ HeaderDone
  \/ FetchByte \/ FetchFails \/ EndOfData \/ BufferFull
  \/ PutSymbol \/ EndMark \/ InvalidLevelIndex \/ Descend \/ ByteDone

Next == Step \/ \E n \in BufSizes : Call(n)

Spec == Init /\ [][Next]_vars

\* read runs on the caller's thread, and the caller reads on until Ok(0).
FairSpec == Spec /\ WF_vars(Next)

-----------------------------------------------------------------------------
TypeOK ==
  /\ stream \in [bytes : Seq(Byte), content : Seq(Byte)]
  /\ at \in 0 .. Size /\ failures \in 0 .. MaxFailures
  /\ treelevels \in 0 .. M - 2 /\ row \in 0 .. treelevels + 1 /\ symbol_size \in Nat
  /\ symbolsin \in [Levels -> Byte] /\ inodesin \in [Levels -> Byte]
  /\ tree \in [Levels -> Seq(Byte)]
  /\ code \in Byte /\ level \in Nat /\ byte \in Byte /\ bit \in 0 .. ByteBits
  /\ offset_buf \in Seq(Byte) /\ buf \in Seq(Byte) /\ delivered \in Seq(Byte)
  /\ asked \in Nat /\ current_out \in Nat
  /\ phase \in {"new", "counts", "symbols", "fill", "idle", "fetch", "bits",
                "ended", "error", "panic", "overfilled"}

(* Whatever the stored data are: the level of the next bit is one of the      *)
(* table, so neither inodesin[level] nor tree[level] is indexed out of bounds *)
(* and InvalidTreelevel is never returned.                                    *)
LevelInTable == level \in Levels

(* Whatever the stored data are: what is kept for the next call comes from a  *)
(* single byte, behind at least one symbol that filled the caller's buffer.   *)
KeptFromOneByte ==
  /\ Len(offset_buf) < ByteBits
  /\ phase = "fetch" /\ current_out < asked => offset_buf = <<>>

(* What is in the buffer and what is kept adds up to the count read returns.  *)
CountAddsUp ==
  phase \in {"fetch", "bits"} =>
    /\ current_out = Len(buf) + Len(offset_buf)
    /\ Len(buf) <= asked
    /\ offset_buf # <<>> => Len(buf) = asked

(* Read's contract: no more bytes than the buffer holds; the last line of     *)
(* read, min(current_out, buf_size), keeps it for every other way out.        *)
NeverOverfilled == phase # "overfilled"

(* The decoder delivers the content of a record, wherever the buffers of the  *)
(* caller end within a byte, and announces the end when all is delivered.  It *)
(* never takes such stored data for invalid ("refused" is no state of a       *)
(* ByteSource); it may panic over a table that the u8 counters cannot hold,   *)
(* but must not deliver anything else then.  The latter holds where overflow  *)
(* panics, and not where it wraps.                                            *)
Source == INSTANCE ByteSource WITH
  content <- stream.content,
  state <- IF phase = "ended" THEN "ended"
           ELSE IF phase \in {"panic", "overfilled"} THEN "failed"
           ELSE IF phase = "error" THEN (IF failures > 0 THEN "failed" ELSE "refused")
           ELSE "open"
DeliversContent == Source!SourceSpec

(* A call of read returns, and reading on comes to an end: every round of its *)
(* loop consumes a byte.                                                      *)
ReadingEnds == <>(phase \in {"ended", "error", "panic", "overfilled"})
=============================================================================
