--------------------------- MODULE RecordScanProofs ---------------------------
(***************************************************************************)
(* Proofs about RecordScan, for every archive, both modes, every outcome   *)
(* of the reads and every modulus.  Three parts: what holds whatever the   *)
(* bytes are; where the reader is on an archive that follows the layout;   *)
(* and that strict scanning implements ArchiveListing.                     *)
(***************************************************************************)
EXTENDS RecordScan, TLAPS

LEMMA WordFacts == Word \in Nat /\ Word > 0 /\ Word >= 8 /\ Word % 8 = 0
BY WordOK

\* A u32 is in range, and what a cast cuts off only makes it smaller.
LEMMA ModWord ==
  ASSUME NEW n \in Int
  PROVE  /\ n % Word \in 0 .. Word - 1
         /\ n >= 0 => n % Word <= n
         /\ (n >= 0 /\ n < Word) => n % Word = n
         /\ (n >= Word /\ n < 2 * Word) => n % Word = n - Word
         /\ (n < 0 /\ n > -Word) => n % Word = n + Word
BY WordFacts, Z3

LEMMA RoundUpBounds ==
  ASSUME NEW n \in Nat
  PROVE  /\ RoundUp(n, 8) \in Nat /\ n <= RoundUp(n, 8) /\ RoundUp(n, 8) <= n + 7
         /\ RoundUp(n, 16) \in Nat /\ n <= RoundUp(n, 16) /\ RoundUp(n, 16) <= n + 15
BY SMT DEF RoundUp

LEMMA RoundUpMultiple ==
  ASSUME NEW n \in Nat
  PROVE  /\ RoundUp(n, 8) % 8 = 0
         /\ RoundUp(n, 16) % 8 = 0
         /\ n % 8 = 0 => RoundUp(n, 8) = n
         /\ n % 16 = 0 => RoundUp(n, 16) = n
BY SMT DEF RoundUp

-----------------------------------------------------------------------------
(* Types.                                                                  *)

LEMMA ElementTypes ==
  ASSUME LaidOut(image)
  PROVE  /\ image.len \in Nat
         /\ Elements \subseteq Entry
         /\ \A e \in Elements : e.hdr \in Header /\ e.name \in Text /\ e.target \in Text
                                /\ e.aclLen \in 0 .. Word - 1
<1>1. image \in [entries : Seq(Entry), len : Nat]
  BY DEF LaidOut
<1>2. image.entries \in Seq(Entry) /\ image.len \in Nat
  BY <1>1
<1>3. \A i \in 1 .. Len(image.entries) : image.entries[i] \in Entry
  BY <1>2
<1>4. Elements \subseteq Entry
  BY <1>3 DEF Elements
<1>5. \A e \in Entry : /\ e.hdr \in Header /\ e.name \in Text /\ e.target \in Text
                       /\ e.aclLen \in 0 .. Word - 1
  BY DEF Entry
<1>6. QED BY <1>2, <1>4, <1>5

LEMMA ReadTypes ==
  ASSUME LaidOut(image), NEW p \in Nat
  PROVE  /\ HeadersAt(p) \subseteq Header
         /\ TextsAt(p) \subseteq Text
         /\ AclLensAt(p) \subseteq 0 .. Word - 1
<1>1. HeadersAt(p) \subseteq Header
  BY ElementTypes, ScanConstantsOK DEF HeadersAt
<1>2. TextsAt(p) \subseteq Text
  BY ElementTypes DEF TextsAt
<1>3. AclLensAt(p) \subseteq 0 .. Word - 1
  BY ElementTypes, ScanConstantsOK DEF AclLensAt
<1>4. QED BY <1>1, <1>2, <1>3

LEMMA SizeTypes ==
  ASSUME NEW h \in Header
  PROVE  /\ Skipped(h) \in Nat
         /\ Padding(h) \in 0 .. Word - 1
         /\ h.csize \in 0 .. Word - 1
<1>1. h.csize \in 0 .. Word - 1 /\ h.hasData \in BOOLEAN
  BY DEF Header
<1>2. (h.csize + 7) % Word \in Nat
  BY <1>1, ModWord, WordFacts
<1>3. ((((h.csize + 7) % Word) \div 8) * 8) - h.csize \in Int
  BY <1>1, <1>2
<1>4. Padding(h) \in 0 .. Word - 1
  BY <1>3, ModWord DEF Padding
<1>5. QED BY <1>1, <1>4, WordFacts DEF Skipped

LEMMA LocalTypes ==
  ASSUME cur \in Locals
  PROVE  /\ AclExtra(cur) \in Nat
         /\ AclPadding(cur) \in 0 .. 15
         /\ cur.hdr \in Header
<1>1. cur.aclLen \in Nat /\ cur.hdr \in Header /\ cur.hdr.ixacl \in BOOLEAN
  BY WordFacts DEF Locals, Header
<1>2. AclExtra(cur) \in Nat
  BY <1>1 DEF AclExtra, InlineAcl
<1>3. AclPadding(cur) \in 0 .. 15
  <2>1. /\ RoundUp(cur.aclLen, 16) \in Nat
        /\ cur.aclLen <= RoundUp(cur.aclLen, 16)
        /\ RoundUp(cur.aclLen, 16) <= cur.aclLen + 15
    BY <1>1, RoundUpBounds
  <2>2. QED BY <1>1, <2>1 DEF AclPadding
<1>4. QED BY <1>1, <1>2, <1>3

LEMMA DataPositionType ==
  ASSUME cur \in Locals, pos \in Nat
  PROVE  /\ DataPosition \in Nat
         /\ pos + AclPadding(cur) <= DataPosition
         /\ DataPosition <= pos + AclPadding(cur) + 7
         /\ DataPosition % 8 = 0
<1>1. pos + AclPadding(cur) \in Nat
  BY LocalTypes
<1>2. QED BY <1>1, RoundUpBounds, RoundUpMultiple DEF DataPosition

LEMMA ChunkFacts ==
  ASSUME LaidOut(image), pos \in Nat
  PROVE  /\ Available \in Nat
         /\ ChunkSizes \subseteq 0 .. 8
         /\ \A k \in ChunkSizes : k <= Available
         /\ ~ShortReads => ChunkSizes = {Least(8, Available)}
<1>1. Available \in Nat
  BY ElementTypes DEF Available
<1>2. QED BY <1>1 DEF ChunkSizes, Least

LEMMA InitTypes == Init => TypeOK
<1>1. SUFFICES ASSUME Init PROVE TypeOK
  OBVIOUS
<1>2. LaidOut(image) /\ mode \in Modes
  BY <1>1, ScanConstantsOK DEF Init
<1>3. NoLocals \in Locals
  BY WordFacts DEF NoLocals, Locals, NoHeader, Header
<1>4. records \in Seq(Record)
  BY <1>1 DEF Init
<1>5. QED BY <1>1, <1>2, <1>3, <1>4 DEF Init, TypeOK, FileHeaderSize

\* What a chunk adds to a string is a number of characters.
LEMMA ChunkTypes ==
  ASSUME TypeOK, NEW k \in 0 .. 8, NEW n \in Int, NEW cut \in Nat,
         n <= k, cur.got + n \in Nat, TakeChunk(k, n, cut)
  PROVE  TypeOK'
<1>1. cur \in Locals /\ pos \in Nat /\ pos' = pos + k
  BY DEF TypeOK, TakeChunk
<1>2. cur.got \in Nat
  BY <1>1 DEF Locals
<1>3. Least(cur.got + n, cut) \in Nat
  BY <1>2 DEF Least
<1>4. cur' \in Locals
  <2>1. [cur EXCEPT !.got = @ + 8] \in Locals
    BY <1>1, <1>2 DEF Locals
  <2>2. pos + k \in Nat
    BY <1>1
  <2>3. \A m, f \in Nat : /\ [cur EXCEPT !.name = m, !.from = f, !.got = 0] \in Locals
                         /\ [cur EXCEPT !.target = m, !.from = f, !.got = 0] \in Locals
    BY <1>1 DEF Locals
  <2>4. QED BY <1>3, <2>1, <2>2, <2>3 DEF TakeChunk
<1>5. phase' = phase \/ phase' \in {"target", "trailer"}
  BY DEF TakeChunk
<1>6. QED BY <1>1, <1>4, <1>5 DEF TypeOK, TakeChunk

\* The n of ReadText is where the string ends within the chunk.
LEMMA TextChunk ==
  ASSUME TypeOK, ReadText
  PROVE  \E k \in ChunkSizes, n \in Int, cut \in Nat :
           n <= k /\ cur.got + n \in Nat /\ TakeChunk(k, n, cut)
<1>1. cur.got \in Nat /\ cur.from \in Nat /\ pos \in Nat /\ LaidOut(image)
  BY DEF TypeOK, Locals
<1>2. PICK k \in ChunkSizes :
        \/ \E t \in TextsAt(cur.from) : TakeChunk(k, Least(k, t.len - cur.got), t.cut)
        \/ TextsAt(cur.from) = {} /\ \E n \in 0 .. k : TakeChunk(k, n, cur.got + n)
  BY DEF ReadText
<1>3. k \in Nat
  BY <1>1, ChunkFacts
<1>4. CASE \E t \in TextsAt(cur.from) : TakeChunk(k, Least(k, t.len - cur.got), t.cut)
  <2>1. PICK t \in TextsAt(cur.from) : TakeChunk(k, Least(k, t.len - cur.got), t.cut)
    BY <1>4
  <2>2. t.len \in Nat /\ t.cut \in Nat
    BY <1>1, ReadTypes DEF Text
  <2>3. LET n == Least(k, t.len - cur.got)
        IN  n \in Int /\ n <= k /\ cur.got + n \in Nat
    BY <1>1, <1>3, <2>2 DEF Least
  <2>4. QED BY <2>1, <2>2, <2>3
<1>5. CASE TextsAt(cur.from) = {} /\ \E n \in 0 .. k : TakeChunk(k, n, cur.got + n)
  <2>1. PICK n \in 0 .. k : TakeChunk(k, n, cur.got + n)
    BY <1>5
  <2>2. n \in Int /\ n <= k /\ cur.got + n \in Nat
    BY <1>1, <1>3
  <2>3. QED BY <2>1, <2>2
<1>6. QED BY <1>2, <1>4, <1>5

LEMMA StepTypes == TypeOK /\ [Next]_vars => TypeOK'
<1>1. SUFFICES ASSUME TypeOK, [Next]_vars PROVE TypeOK'
  OBVIOUS
<1>2. /\ LaidOut(image) /\ pos \in Nat /\ cur \in Locals /\ records \in Seq(Record)
      /\ NoLocals \in Locals
  BY <1>1, WordFacts DEF TypeOK, NoLocals, Locals, NoHeader, Header
<1>3. CASE EndOfStream
  BY <1>1, <1>3 DEF TypeOK, EndOfStream, Return
<1>4. CASE IoFailure
  BY <1>1, <1>4 DEF TypeOK, IoFailure, Return
<1>5. CASE ReadHeader
  <2>1. PICK h \in HeadersAt(pos) :
          cur' = [NoLocals EXCEPT !.at = pos, !.hdr = h, !.from = pos + HeaderSize]
    BY <1>5 DEF ReadHeader
  <2>2. h \in Header
    BY <1>2, ReadTypes
  <2>3. cur' \in Locals /\ pos' \in Nat
    <3>1. pos' = pos + HeaderSize /\ pos + HeaderSize \in Nat
      BY <1>2, <1>5 DEF ReadHeader, HeaderSize
    <3>2. \A p, f \in Nat : [NoLocals EXCEPT !.at = p, !.hdr = h, !.from = f] \in Locals
      BY <1>2, <2>2 DEF Locals
    <3>3. QED BY <1>2, <2>1, <3>1, <3>2
  <2>4. QED BY <1>1, <1>5, <2>3 DEF TypeOK, ReadHeader
<1>6. CASE RejectHeader
  BY <1>1, <1>6 DEF TypeOK, RejectHeader, HeaderSize
<1>7. CASE ReadText
  <2>1. PICK k \in ChunkSizes, n \in Int, cut \in Nat :
          n <= k /\ cur.got + n \in Nat /\ TakeChunk(k, n, cut)
    BY <1>1, <1>7, TextChunk
  <2>2. k \in 0 .. 8
    BY <1>2, ChunkFacts
  <2>3. QED BY <1>1, <2>1, <2>2, ChunkTypes
<1>8. CASE ReadTrailer
  <2>1. PICK len \in AclLensAt(pos) : cur' = [cur EXCEPT !.aclLen = len]
    BY <1>8 DEF ReadTrailer
  <2>2. len \in 0 .. Word - 1
    BY <1>2, ReadTypes
  <2>3. cur' \in Locals
    BY <1>2, <2>1, <2>2 DEF Locals
  <2>4. QED BY <1>1, <1>8, <2>3 DEF TypeOK, ReadTrailer, TrailerSize
<1>9. CASE ReadAcl
  <2>1. pos + AclExtra(cur) \in Nat
    BY <1>2, LocalTypes
  <2>2. QED BY <1>1, <1>9, <2>1 DEF TypeOK, ReadAcl
<1>10. ASSUME SkipPayload PROVE pos' \in Nat
  <2>1. DataPosition \in Nat /\ Skipped(cur.hdr) \in Nat /\ Padding(cur.hdr) \in Nat
    BY <1>2, DataPositionType, LocalTypes, SizeTypes
  <2>2. QED BY <1>10, <2>1 DEF SkipPayload
<1>11. CASE PushRecord
  <2>1. DataPosition % Word \in 0 .. Word - 1
    BY <1>2, DataPositionType, ModWord
  <2>2. NewRecord \in Record
    BY <1>2, <2>1 DEF NewRecord, Record, Locals
  <2>3. records' \in Seq(Record)
    BY <1>2, <1>11, <2>2 DEF PushRecord
  <2>4. pos' \in Nat
    BY <1>10, <1>11 DEF PushRecord
  <2>5. QED BY <1>1, <1>11, <2>3, <2>4 DEF TypeOK, PushRecord, SkipPayload
<1>12. CASE StopAtOffset
  <2>1. pos' \in Nat
    BY <1>10, <1>12 DEF StopAtOffset
  <2>2. QED BY <1>1, <1>12, <2>1 DEF TypeOK, StopAtOffset, SkipPayload
<1>13. CASE Panic
  BY <1>1, <1>13 DEF TypeOK, Panic, Return
<1>14. CASE UNCHANGED vars
  BY <1>1, <1>14 DEF TypeOK, vars
<1>15. QED
  BY <1>1, <1>3, <1>4, <1>5, <1>6, <1>7, <1>8, <1>9, <1>11, <1>12, <1>13, <1>14
     DEF Next, Step

(* The variables of the scan keep their types: no position, length or         *)
(* cut-off field of read_next_record leaves its range.                        *)
THEOREM TypeCorrect == Spec => []TypeOK
<1>1. Init => TypeOK
  BY InitTypes
<1>2. TypeOK /\ [Next]_vars => TypeOK'
  BY StepTypes
<1>3. QED BY <1>1, <1>2, PTL DEF Spec

-----------------------------------------------------------------------------
(* Whatever the bytes are: the scan moves forward only.                    *)

DataEnd(r) == r.filePos + DataLen(r)

\* The inductive invariant behind OnlyLastTruncated and NoByteUsedTwice: the
\* data of all records lie behind the reader, and the record being read lies
\* behind all of them, with its header inside the stream.
ForwardInv ==
  /\ \A i \in 1 .. Len(records) : DataEnd(records[i]) <= pos
  /\ phase \notin {"header", "done"} =>
       /\ \A i \in 1 .. Len(records) : DataEnd(records[i]) <= cur.at
       /\ cur.at + HeaderSize <= pos
       /\ pos <= image.len
  /\ OnlyLastTruncated
  /\ NoByteUsedTwice

LEMMA RecordTypes ==
  ASSUME records \in Seq(Record)
  PROVE  \A i \in 1 .. Len(records) :
           /\ records[i] \in Record /\ records[i].at \in Nat /\ records[i].filePos \in Nat
           /\ DataLen(records[i]) \in Nat /\ DataEnd(records[i]) \in Nat
<1>1. \A r \in Record : /\ r.at \in Nat /\ r.filePos \in Nat /\ r.hdr \in Header
                       /\ r.hdr.csize \in Nat
  BY WordFacts DEF Record, Header
<1>2. \A r \in Record : DataLen(r) \in Nat
  BY <1>1 DEF DataLen
<1>3. QED BY <1>1, <1>2 DEF DataEnd

\* What a chunk of text leaves: the same records, a reader further on.
LEMMA ChunkMoves ==
  ASSUME TypeOK, ReadText
  PROVE  /\ pos <= pos' /\ (pos <= image.len => pos' <= image.len)
         /\ phase' \in {"name", "target", "trailer"}
         /\ cur'.at = cur.at /\ cur'.hdr = cur.hdr /\ cur' \in Locals
         /\ UNCHANGED <<image, mode, records, outcome>>
<1>1. /\ LaidOut(image) /\ pos \in Nat /\ cur \in Locals /\ image.len \in Nat
  BY ElementTypes DEF TypeOK
<1>2. PICK k \in ChunkSizes, n \in Int, cut \in Nat : TakeChunk(k, n, cut)
  BY TextChunk
<1>3. k \in Nat /\ k <= Available
  BY <1>1, ChunkFacts
<1>4. pos <= pos' /\ (pos <= image.len => pos' <= image.len)
  BY <1>1, <1>2, <1>3 DEF TakeChunk, Available
<1>5. cur'.at = cur.at /\ cur'.hdr = cur.hdr
  BY <1>1, <1>2 DEF TakeChunk, Locals
<1>6. phase' \in {"name", "target", "trailer"}
  BY <1>2 DEF TakeChunk, ReadText
<1>7. cur' \in Locals
  BY StepTypes DEF TypeOK, Next, Step
<1>8. QED BY <1>2, <1>4, <1>5, <1>6, <1>7 DEF TakeChunk

\* Where a record's data are, and where the reader is after skipping them.
LEMMA PushMoves ==
  ASSUME TypeOK, PushRecord
  PROVE  /\ NewRecord \in Record
         /\ records' = Append(records, NewRecord)
         /\ NewRecord.at = cur.at
         /\ NewRecord.filePos = DataPosition % Word
         /\ NewRecord.filePos <= DataPosition
         /\ DataLen(NewRecord) = Skipped(cur.hdr)
         /\ pos <= DataPosition /\ DataPosition <= pos + 22
         /\ DataPosition + Skipped(cur.hdr) <= pos'
         /\ pos' = DataPosition + Skipped(cur.hdr) + Padding(cur.hdr)
<1>1. cur \in Locals /\ pos \in Nat /\ cur.at \in Nat /\ cur.hdr \in Header
      /\ cur.name \in Nat /\ cur.target \in Nat
  BY DEF TypeOK, Locals
<1>2. /\ AclPadding(cur) \in 0 .. 15 /\ DataPosition \in Nat
      /\ pos + AclPadding(cur) <= DataPosition
      /\ DataPosition <= pos + AclPadding(cur) + 7
  BY <1>1, LocalTypes, DataPositionType
<1>3. pos <= DataPosition /\ DataPosition <= pos + 22
  BY <1>1, <1>2
<1>4. DataPosition % Word \in 0 .. Word - 1 /\ DataPosition % Word <= DataPosition
  BY <1>2, ModWord
<1>5. Skipped(cur.hdr) \in Nat /\ Padding(cur.hdr) \in Nat
  BY <1>1, SizeTypes
<1>6. NewRecord \in Record
  BY <1>1, <1>4 DEF NewRecord, Record
<1>7. DataLen(NewRecord) = Skipped(cur.hdr)
  BY DEF NewRecord, DataLen, Skipped
<1>8. NewRecord.at = cur.at /\ NewRecord.filePos = DataPosition % Word
  BY DEF NewRecord
<1>9. pos' = DataPosition + Skipped(cur.hdr) + Padding(cur.hdr)
      /\ records' = Append(records, NewRecord)
  BY DEF PushRecord, SkipPayload
<1>10. DataPosition + Skipped(cur.hdr) <= pos'
  BY <1>2, <1>5, <1>9
<1>11. QED BY <1>3, <1>4, <1>6, <1>7, <1>8, <1>9, <1>10

\* Nothing is pushed: only the clauses about pos and cur have to be shown.
LEMMA ForwardUnchanged ==
  ASSUME ForwardInv, UNCHANGED <<image, records>>
  PROVE  OnlyLastTruncated' /\ NoByteUsedTwice'
BY DEF ForwardInv, OnlyLastTruncated, NoByteUsedTwice

LEMMA ForwardPush ==
  ASSUME TypeOK, ForwardInv, PushRecord
  PROVE  ForwardInv'
<1> DEFINE n == Len(records)
<1>1. /\ records \in Seq(Record) /\ n \in Nat /\ pos \in Nat /\ cur.at \in Nat
      /\ image.len \in Nat /\ image' = image /\ phase = "payload" /\ phase' = "header"
  BY ElementTypes DEF TypeOK, Locals, PushRecord, SkipPayload
<1>2. /\ NewRecord \in Record /\ records' = Append(records, NewRecord)
      /\ NewRecord.at = cur.at /\ NewRecord.filePos <= DataPosition
      /\ NewRecord.filePos = DataPosition % Word
      /\ DataLen(NewRecord) = Skipped(cur.hdr)
      /\ pos <= DataPosition /\ DataPosition <= pos + 22
      /\ DataPosition + Skipped(cur.hdr) <= pos'
  BY PushMoves
<1>3. /\ Len(records') = n + 1
      /\ records'[n + 1] = NewRecord
      /\ \A i \in 1 .. n : records'[i] = records[i]
  BY <1>1, <1>2
<1>4. /\ DataPosition \in Nat /\ Skipped(cur.hdr) \in Nat /\ pos' \in Nat
      /\ NewRecord.filePos \in Nat
  <2>1. DataPosition \in Nat /\ Skipped(cur.hdr) \in Nat
    BY DataPositionType, LocalTypes, SizeTypes DEF TypeOK
  <2>2. pos' \in Nat
    BY StepTypes DEF TypeOK, Next, Step
  <2>3. \A r \in Record : r.filePos \in Nat
    BY WordFacts DEF Record
  <2>4. QED BY <1>2, <2>1, <2>2, <2>3
<1>5. \A i \in 1 .. n : DataEnd(records[i]) \in Nat /\ DataEnd(records[i]) <= cur.at
                       /\ records[i].at \in Nat
  BY <1>1, RecordTypes DEF ForwardInv
<1>6. cur.at + HeaderSize <= pos /\ pos <= image.len
  BY <1>1 DEF ForwardInv
<1>7. DataEnd(NewRecord) <= pos'
  BY <1>2, <1>4 DEF DataEnd
<1>8. \A i \in 1 .. n + 1 : DataEnd(records'[i]) <= pos'
  BY <1>1, <1>2, <1>3, <1>4, <1>5, <1>6, <1>7 DEF HeaderSize
<1>9. OnlyLastTruncated'
  BY <1>1, <1>3, <1>5, <1>6 DEF OnlyLastTruncated, DataEnd, HeaderSize
<1>10. NoByteUsedTwice'
  <2>1. SUFFICES ASSUME image.len + 24 <= Word
                 PROVE  /\ \A i \in 1 .. n + 1 :
                             records'[i].at + HeaderSize <= records'[i].filePos
                        /\ \A i, j \in 1 .. n + 1 :
                             i < j => DataEnd(records'[i]) <= records'[j].at
    BY <1>1, <1>3 DEF NoByteUsedTwice, DataEnd
  <2>2. NewRecord.filePos = DataPosition
    BY <1>1, <1>2, <1>4, <1>6, <2>1, ModWord, WordFacts
  <2>3. NewRecord.at + HeaderSize <= NewRecord.filePos
    BY <1>1, <1>2, <1>4, <1>6, <2>2 DEF HeaderSize
  <2>4. \A i \in 1 .. n : records[i].at + HeaderSize <= records[i].filePos
    BY <2>1 DEF ForwardInv, NoByteUsedTwice
  <2>5. \A i, j \in 1 .. n : i < j => DataEnd(records[i]) <= records[j].at
    BY <2>1 DEF ForwardInv, NoByteUsedTwice, DataEnd
  <2>6. \A i \in 1 .. n + 1 : records'[i].at + HeaderSize <= records'[i].filePos
    BY <1>1, <1>3, <2>3, <2>4
  <2>7. ASSUME NEW i \in 1 .. n + 1, NEW j \in 1 .. n + 1, i < j
        PROVE  DataEnd(records'[i]) <= records'[j].at
    <3>1. CASE j = n + 1
      BY <1>1, <1>2, <1>3, <1>5, <2>7, <3>1
    <3>2. CASE j # n + 1
      BY <1>1, <1>3, <2>5, <2>7, <3>2
    <3>3. QED BY <3>1, <3>2
  <2>8. QED BY <2>6, <2>7
<1>11. QED BY <1>1, <1>3, <1>8, <1>9, <1>10 DEF ForwardInv

LEMMA ForwardStep == TypeOK /\ ForwardInv /\ [Next]_vars => ForwardInv'
<1>1. SUFFICES ASSUME TypeOK, ForwardInv, [Next]_vars PROVE ForwardInv'
  OBVIOUS
<1>2. /\ records \in Seq(Record) /\ pos \in Nat /\ cur \in Locals /\ cur.at \in Nat
      /\ image.len \in Nat
      /\ \A i \in 1 .. Len(records) : DataEnd(records[i]) \in Nat
  BY <1>1, ElementTypes, RecordTypes DEF TypeOK, Locals
<1>3. CASE \E result : Return(result)
  <2>1. UNCHANGED <<image, pos, cur, records>> /\ phase' = "done"
    BY <1>3 DEF Return
  <2>2. QED BY <1>1, <2>1, ForwardUnchanged DEF ForwardInv
<1>4. CASE ReadHeader
  <2>1. /\ UNCHANGED <<image, records>> /\ phase = "header"
        /\ pos' = pos + HeaderSize /\ cur'.at = pos /\ HeaderSize <= Available
    BY <1>4 DEF ReadHeader, NoLocals
  <2>2. pos' <= image.len
    BY <1>2, <2>1 DEF Available, HeaderSize
  <2>3. QED BY <1>1, <1>2, <2>1, <2>2, ForwardUnchanged DEF ForwardInv, HeaderSize
<1>5. CASE RejectHeader
  <2>1. /\ UNCHANGED <<image, records>> /\ pos <= pos' /\ pos' \in Nat
        /\ phase' \in {"header", "done"}
    BY <1>2, <1>5 DEF RejectHeader, HeaderSize
  <2>2. QED BY <1>1, <1>2, <2>1, ForwardUnchanged DEF ForwardInv
<1>6. CASE ReadText
  <2>1. /\ UNCHANGED <<image, records>> /\ pos <= pos' /\ cur'.at = cur.at
        /\ phase \notin {"header", "done"} /\ pos' \in Nat
        /\ (pos <= image.len => pos' <= image.len)
    BY <1>1, <1>6, ChunkMoves, StepTypes DEF ReadText, TypeOK
  <2>2. QED BY <1>1, <1>2, <2>1, ForwardUnchanged DEF ForwardInv, HeaderSize
<1>7. CASE ReadTrailer
  <2>1. /\ UNCHANGED <<image, records>> /\ pos' = pos + TrailerSize /\ cur'.at = cur.at
        /\ phase = "trailer" /\ TrailerSize <= Available
    BY <1>2, <1>7 DEF ReadTrailer, Locals
  <2>2. pos' <= image.len
    BY <1>2, <2>1 DEF Available, TrailerSize
  <2>3. QED
    BY <1>1, <1>2, <2>1, <2>2, ForwardUnchanged DEF ForwardInv, HeaderSize, TrailerSize
<1>8. CASE ReadAcl
  <2>1. /\ UNCHANGED <<image, records, cur>> /\ pos' = pos + AclExtra(cur)
        /\ phase = "acl" /\ AclExtra(cur) <= Available /\ AclExtra(cur) \in Nat
    BY <1>2, <1>8, LocalTypes DEF ReadAcl
  <2>2. pos' <= image.len
    BY <1>1, <1>2, <2>1 DEF Available, ForwardInv
  <2>3. QED BY <1>1, <1>2, <2>1, <2>2, ForwardUnchanged DEF ForwardInv, HeaderSize
<1>9. CASE PushRecord
  BY <1>1, <1>9, ForwardPush
<1>10. CASE StopAtOffset
  <2>1. /\ UNCHANGED <<image, records>> /\ phase' = "done" /\ pos' \in Nat
        /\ pos' = DataPosition + Skipped(cur.hdr) + Padding(cur.hdr)
    BY <1>1, <1>10, StepTypes DEF StopAtOffset, SkipPayload, TypeOK
  <2>2. pos <= pos'
    <3>1. Skipped(cur.hdr) \in Nat /\ Padding(cur.hdr) \in Nat
      BY <1>2, LocalTypes, SizeTypes, WordFacts
    <3>2. /\ DataPosition \in Nat /\ AclPadding(cur) \in Nat
          /\ pos + AclPadding(cur) <= DataPosition
      BY <1>2, LocalTypes, DataPositionType
    <3>3. QED BY <1>2, <2>1, <3>1, <3>2
  <2>3. QED BY <1>1, <1>2, <2>1, <2>2, ForwardUnchanged DEF ForwardInv
<1>11. CASE UNCHANGED vars
  BY <1>1, <1>11 DEF vars, ForwardInv, OnlyLastTruncated, NoByteUsedTwice
<1>12. EndOfStream \/ IoFailure \/ Panic => \E result : Return(result)
  BY DEF EndOfStream, IoFailure, Panic
<1>13. QED
  BY <1>1, <1>3, <1>4, <1>5, <1>6, <1>7, <1>8, <1>9, <1>10, <1>11, <1>12 DEF Next, Step

LEMMA ForwardInit == Init => ForwardInv
BY DEF Init, ForwardInv, OnlyLastTruncated, NoByteUsedTwice

(* For every stream, damaged or not: the data of every listed record but the  *)
(* last lie inside it.                                                        *)
THEOREM OnlyLastIsTruncated == Spec => []OnlyLastTruncated
<1>1. TypeOK /\ ForwardInv /\ [Next]_vars => (TypeOK /\ ForwardInv)'
  BY StepTypes, ForwardStep
<1>2. Init => TypeOK /\ ForwardInv
  BY InitTypes, ForwardInit
<1>3. ForwardInv => OnlyLastTruncated
  BY DEF ForwardInv
<1>4. QED BY <1>1, <1>2, <1>3, PTL DEF Spec

(* For every stream, damaged or not: the headers and the data of the listed   *)
(* records do not overlap, so no byte reaches two extracted files.            *)
THEOREM RecordsDisjoint == Spec => []NoByteUsedTwice
<1>1. TypeOK /\ ForwardInv /\ [Next]_vars => (TypeOK /\ ForwardInv)'
  BY StepTypes, ForwardStep
<1>2. Init => TypeOK /\ ForwardInv
  BY InitTypes, ForwardInit
<1>3. ForwardInv => NoByteUsedTwice
  BY DEF ForwardInv
<1>4. QED BY <1>1, <1>2, <1>3, PTL DEF Spec

-----------------------------------------------------------------------------
(***************************************************************************)
(* What the positions of RecordScan add up to on an archive that follows   *)
(* the layout, however long it is and wherever it is cut off: the reader   *)
(* stands in the next entry that is not listed yet, until that entry is    *)
(* malformed or an offset record or the stream ends.                       *)
(***************************************************************************)

NextIndex == Len(records) + 1

\* So far the listing is the beginning of the archive.
Agreed ==
  /\ Len(records) <= Len(image.entries)
  /\ \A i \in 1 .. Len(records) :
       i \in Leading(image) /\ records[i] = Listing(image.entries[i])

AllListed ==
  \A i \in Leading(image) : i <= Len(records) /\ records[i] = Listing(image.entries[i])

\* A string of the entry is being read: so much of it has been read, and the
\* reader stands behind that.
Reading(from, text) ==
  /\ cur.from = from
  /\ cur.got % 8 = 0 /\ cur.got <= text.len
  /\ pos = from + cur.got

\* The reader stands where the phase says in entry e, and the locals hold what
\* was read of it.
InPlace(e) ==
  /\ phase = "header" => pos = e.at
  /\ phase # "header" => cur.at = e.at /\ cur.hdr = e.hdr /\ ~Malformed(e.hdr)
  /\ phase = "name" => Reading(NameAt(e), e.name) /\ cur.target = 0
  /\ phase \notin {"header", "name"} => cur.name = Least(e.name.len, e.name.cut)
  /\ phase = "target" => e.hdr.link /\ Reading(TargetAt(e), e.target)
  /\ phase \in {"trailer", "acl", "payload"} =>
       cur.target = IF e.hdr.link THEN Least(e.target.len, e.target.cut) ELSE 0
  /\ phase = "trailer" => pos = TrailerAt(e)
  /\ phase \in {"acl", "payload"} => cur.aclLen = e.aclLen
  /\ phase = "acl" => pos = TrailerAt(e) + TrailerSize
  /\ phase = "payload" => pos = TrailerAt(e) + TrailerSize + AclExtra(cur)

OnTrack ==
  /\ Agreed
  /\ phase # "done"
  /\ IF NextIndex <= Len(image.entries)
       THEN InPlace(image.entries[NextIndex])
       ELSE phase = "header" /\ pos >= image.len

\* The stream ends before the next entry does.
EntryCut ==
  NextIndex <= Len(image.entries) /\ image.len < EntryEnd(image.entries[NextIndex])

\* The stream ended within a string, where read_aligned_string just stops.
CutOff ==
  /\ Agreed
  /\ phase \in {"target", "trailer"}
  /\ pos >= image.len
  /\ EntryCut

\* Best effort has stepped over a malformed entry, or an ACL inside a trailer has
\* put the scan out of step.
OffTrack == ~InStep /\ phase # "done" /\ AllListed

\* Nothing is returned before the scan is done.
Pending == phase # "done" => outcome = "none"

TrackInv ==
  /\ Pending
  /\ phase # "done" => (OnTrack \/ CutOff \/ OffTrack)
  /\ phase = "done" =>
       /\ Agreed \/ (~InStep /\ AllListed)
       /\ (outcome = "ok" /\ Whole(image)) => AllListed

-----------------------------------------------------------------------------
(* The layout.                                                             *)

LEMMA TextSpanFacts ==
  ASSUME NEW t \in Text
  PROVE  /\ t.len \in Nat /\ t.cut \in Nat
         /\ TextSpan(t) \in Nat /\ TextSpan(t) % 8 = 0 /\ TextSpan(t) >= 8
         /\ \A g \in Nat :
              /\ (g % 8 = 0 /\ g <= t.len) => TextSpan(t) >= g + 8
              /\ (g % 8 = 0 /\ g <= t.len /\ t.len < g + 8) => TextSpan(t) = g + 8
<1>1. t.len \in Nat /\ t.cut \in Nat
  BY DEF Text
<1>2. TextSpan(t) = ((t.len + 8) \div 8) * 8
  BY <1>1 DEF TextSpan, RoundUp
<1>3. QED BY <1>1, <1>2, Z3

LEMMA Geometry ==
  ASSUME NEW e \in Entry
  PROVE  /\ e.at \in Nat /\ NameAt(e) \in Nat /\ TargetAt(e) \in Nat /\ TrailerAt(e) \in Nat
         /\ DataAt(e) \in Nat /\ DataLen(e) \in Nat /\ EntryEnd(e) \in Nat
         /\ NameAt(e) = e.at + HeaderSize
         /\ TargetAt(e) = NameAt(e) + TextSpan(e.name) /\ TargetAt(e) >= NameAt(e) + 8
         /\ TrailerAt(e) >= TargetAt(e)
         /\ e.hdr.link => TrailerAt(e) >= TargetAt(e) + 8
         /\ TrailerAt(e) + TrailerSize <= DataAt(e)
         /\ DataAt(e) + DataLen(e) <= EntryEnd(e)
         /\ EntryEnd(e) % 8 = 0
         /\ e.at % 8 = 0 => TrailerAt(e) % 8 = 0 /\ DataAt(e) % 8 = 0
<1>1. /\ e.at \in Nat /\ e.hdr \in Header /\ e.name \in Text /\ e.target \in Text
      /\ e.aclLen \in Nat
  BY WordFacts DEF Entry
<1>2. /\ NameAt(e) \in Nat
      /\ NameAt(e) = e.at + HeaderSize
      /\ e.at % 8 = 0 => NameAt(e) % 8 = 0
  BY <1>1 DEF NameAt, HeaderSize
<1>3. /\ TextSpan(e.name) \in Nat /\ TextSpan(e.name) >= 8 /\ TextSpan(e.name) % 8 = 0
      /\ TextSpan(e.target) \in Nat /\ TextSpan(e.target) >= 8 /\ TextSpan(e.target) % 8 = 0
  BY <1>1, TextSpanFacts
<1>4. /\ TargetAt(e) \in Nat /\ TargetAt(e) = NameAt(e) + TextSpan(e.name)
      /\ TargetAt(e) >= NameAt(e) + 8
      /\ e.at % 8 = 0 => TargetAt(e) % 8 = 0
  BY <1>2, <1>3 DEF TargetAt
<1>5. /\ TrailerAt(e) \in Nat /\ TrailerAt(e) >= TargetAt(e)
      /\ e.at % 8 = 0 => TrailerAt(e) % 8 = 0
      /\ e.hdr.link => TrailerAt(e) >= TargetAt(e) + 8
  BY <1>3, <1>4 DEF TrailerAt
<1>6. AclTail(e) \in Nat /\ AclTail(e) % 8 = 0
  <2>1. CASE e.hdr.ixacl /\ e.aclLen > InlineAcl
    <3>1. RoundUp(e.aclLen, 16) \in Nat /\ e.aclLen <= RoundUp(e.aclLen, 16)
      BY <1>1, RoundUpBounds
    <3>2. RoundUp(e.aclLen, 16) % 8 = 0
      BY <1>1, RoundUpMultiple
    <3>3. QED BY <1>1, <2>1, <3>1, <3>2 DEF AclTail, InlineAcl
  <2>2. QED BY <2>1 DEF AclTail
<1>7. /\ DataAt(e) \in Nat
      /\ e.at % 8 = 0 => DataAt(e) % 8 = 0
      /\ TrailerAt(e) + TrailerSize <= DataAt(e)
  BY <1>5, <1>6 DEF DataAt, TrailerSize
<1>8. DataLen(e) \in Nat
  BY <1>1, WordFacts DEF DataLen, Header
<1>9. EntryEnd(e) \in Nat /\ DataAt(e) + DataLen(e) <= EntryEnd(e)
  BY <1>7, <1>8, RoundUpBounds DEF EntryEnd
<1>10. EntryEnd(e) % 8 = 0
  BY <1>7, <1>8, RoundUpMultiple DEF EntryEnd
<1>11. QED BY <1>1, <1>2, <1>4, <1>5, <1>7, <1>8, <1>9, <1>10

LEMMA EntryOrder ==
  ASSUME NEW e \in Entry
  PROVE  /\ e.at \in Nat /\ NameAt(e) \in Nat /\ TargetAt(e) \in Nat /\ TrailerAt(e) \in Nat
         /\ EntryEnd(e) \in Nat
         /\ e.at < NameAt(e) /\ NameAt(e) < TargetAt(e) /\ TargetAt(e) <= TrailerAt(e)
         /\ TrailerAt(e) < EntryEnd(e)
<1>1. /\ e.at \in Nat /\ NameAt(e) \in Nat /\ TargetAt(e) \in Nat /\ TrailerAt(e) \in Nat
      /\ DataAt(e) \in Nat /\ DataLen(e) \in Nat /\ EntryEnd(e) \in Nat
  BY Geometry
<1>2. NameAt(e) = e.at + 64 /\ TargetAt(e) >= NameAt(e) + 8
  BY Geometry DEF HeaderSize
<1>3. TrailerAt(e) >= TargetAt(e) /\ TrailerAt(e) + 40 <= DataAt(e)
      /\ DataAt(e) + DataLen(e) <= EntryEnd(e)
  BY Geometry DEF TrailerSize
<1>4. QED BY <1>1, <1>2, <1>3

LEMMA ImageFacts ==
  ASSUME LaidOut(image)
  PROVE  /\ Len(image.entries) \in Nat /\ image.len \in Nat
         /\ \A i \in 1 .. Len(image.entries) :
              /\ image.entries[i] \in Entry
              /\ image.entries[i].at % 8 = 0
              /\ i = 1 => image.entries[i].at = FileHeaderSize
              /\ i > 1 => image.entries[i].at = EntryEnd(image.entries[i - 1])
              /\ image.entries[i].hdr.hasData \/ image.entries[i].hdr.csize % 8 = 0
<1>1. image \in [entries : Seq(Entry), len : Nat]
  BY DEF LaidOut
<1>2. image.entries \in Seq(Entry) /\ image.len \in Nat /\ Len(image.entries) \in Nat
  BY <1>1
<1>3. \A i \in 1 .. Len(image.entries) :
        /\ image.entries[i] \in Entry
        /\ i = 1 => image.entries[i].at = FileHeaderSize
        /\ i > 1 => image.entries[i].at = EntryEnd(image.entries[i - 1])
        /\ image.entries[i].hdr.hasData \/ image.entries[i].hdr.csize % 8 = 0
  BY <1>2 DEF LaidOut
<1>4. ASSUME NEW i \in 1 .. Len(image.entries) PROVE image.entries[i].at % 8 = 0
  <2>1. CASE i = 1
    BY <1>3, <2>1 DEF FileHeaderSize
  <2>2. CASE i > 1
    <3>1. i - 1 \in 1 .. Len(image.entries)
      BY <1>2, <2>2
    <3>2. image.entries[i].at = EntryEnd(image.entries[i - 1])
      BY <1>3, <2>2
    <3>3. QED BY <1>3, <3>1, <3>2, Geometry
  <2>3. QED BY <1>2, <2>1, <2>2
<1>5. QED BY <1>2, <1>3, <1>4

\* What an entry holds lies between its beginning and its end, and two entries
\* do not overlap: so a position belongs to one entry only.
LEMMA Apart ==
  ASSUME LaidOut(image),
         NEW i \in 1 .. Len(image.entries), NEW j \in 1 .. Len(image.entries),
         NEW p \in Int,
         image.entries[i].at <= p, p < EntryEnd(image.entries[i]),
         image.entries[j].at <= p, p < EntryEnd(image.entries[j])
  PROVE  i = j
<1>1. \A a \in 1 .. Len(image.entries) :
        image.entries[a].at \in Nat /\ EntryEnd(image.entries[a]) \in Nat
  BY ImageFacts, EntryOrder
<1>2. \A a \in 1 .. Len(image.entries) : \A b \in 1 .. a - 1 :
        EntryEnd(image.entries[b]) <= image.entries[a].at
  BY DEF LaidOut
<1>3. ASSUME NEW a \in 1 .. Len(image.entries), NEW b \in 1 .. Len(image.entries), b < a
      PROVE  EntryEnd(image.entries[b]) <= image.entries[a].at
  <2>1. b \in 1 .. a - 1
    BY <1>3
  <2>2. QED BY <1>2, <2>1
<1>4. ~(i < j)
  BY <1>1, <1>3
<1>5. ~(j < i)
  BY <1>1, <1>3
<1>6. i \in Int /\ j \in Int
  BY ImageFacts
<1>7. QED BY <1>4, <1>5, <1>6

\* A read at the place of a part of an entry returns that part.
LEMMA ReadsOwn ==
  ASSUME LaidOut(image), NEW i \in 1 .. Len(image.entries)
  PROVE  LET e == image.entries[i]
         IN  /\ HeadersAt(e.at) = {e.hdr}
             /\ TextsAt(NameAt(e)) = {e.name}
             /\ e.hdr.link => TextsAt(TargetAt(e)) = {e.target}
             /\ AclLensAt(TrailerAt(e)) = {e.aclLen}
<1> DEFINE e == image.entries[i]
<1>1. e \in Elements
  BY DEF Elements
<1>2. ASSUME NEW x \in Elements
      PROVE  /\ x.at = e.at => x = e
             /\ NameAt(x) = NameAt(e) => x = e
             /\ (e.hdr.link /\ NameAt(x) = TargetAt(e)) => FALSE
             /\ (x.hdr.link /\ TargetAt(x) = NameAt(e)) => FALSE
             /\ (x.hdr.link /\ e.hdr.link /\ TargetAt(x) = TargetAt(e)) => x = e
             /\ TrailerAt(x) = TrailerAt(e) => x = e
  <2>1. PICK j \in 1 .. Len(image.entries) : x = image.entries[j]
    BY <1>2 DEF Elements
  <2>2. x \in Entry /\ e \in Entry
    BY <2>1, ImageFacts
  <2>3. /\ x.at \in Nat /\ NameAt(x) \in Nat /\ TargetAt(x) \in Nat /\ TrailerAt(x) \in Nat
        /\ x.at < NameAt(x) /\ NameAt(x) < TargetAt(x) /\ TargetAt(x) <= TrailerAt(x)
        /\ TrailerAt(x) < EntryEnd(x) /\ EntryEnd(x) \in Nat
    BY <2>2, EntryOrder
  <2>4. /\ e.at \in Nat /\ NameAt(e) \in Nat /\ TargetAt(e) \in Nat /\ TrailerAt(e) \in Nat
        /\ e.at < NameAt(e) /\ NameAt(e) < TargetAt(e) /\ TargetAt(e) <= TrailerAt(e)
        /\ TrailerAt(e) < EntryEnd(e) /\ EntryEnd(e) \in Nat
    BY <2>2, EntryOrder
  <2>5. ASSUME NEW p \in Int, x.at <= p, p < EntryEnd(x), e.at <= p, p < EntryEnd(e)
        PROVE  x = e
    BY <2>1, <2>5, Apart
  <2> HIDE DEF e
  <2>6. /\ x.at = e.at => x = e
        /\ NameAt(x) = NameAt(e) => x = e
        /\ TargetAt(x) = TargetAt(e) => x = e
        /\ TrailerAt(x) = TrailerAt(e) => x = e
    <3>1. x.at = e.at => x = e
      <4>1. x.at \in Int /\ x.at <= x.at /\ x.at < EntryEnd(x)
        BY <2>3
      <4>2. e.at <= e.at /\ e.at < EntryEnd(e)
        BY <2>4
      <4>3. QED BY <2>5, <4>1, <4>2
    <3>2. NameAt(x) = NameAt(e) => x = e
      <4>1. NameAt(x) \in Int /\ x.at <= NameAt(x) /\ NameAt(x) < EntryEnd(x)
        BY <2>3
      <4>2. e.at <= NameAt(e) /\ NameAt(e) < EntryEnd(e)
        BY <2>4
      <4>3. QED BY <2>5, <4>1, <4>2
    <3>3. TargetAt(x) = TargetAt(e) => x = e
      <4>1. TargetAt(x) \in Int /\ x.at <= TargetAt(x) /\ TargetAt(x) < EntryEnd(x)
        BY <2>3
      <4>2. e.at <= TargetAt(e) /\ TargetAt(e) < EntryEnd(e)
        BY <2>4
      <4>3. QED BY <2>5, <4>1, <4>2
    <3>4. TrailerAt(x) = TrailerAt(e) => x = e
      <4>1. TrailerAt(x) \in Int /\ x.at <= TrailerAt(x) /\ TrailerAt(x) < EntryEnd(x)
        BY <2>3
      <4>2. e.at <= TrailerAt(e) /\ TrailerAt(e) < EntryEnd(e)
        BY <2>4
      <4>3. QED BY <2>5, <4>1, <4>2
    <3>5. QED BY <3>1, <3>2, <3>3, <3>4
  <2>7. NameAt(x) # TargetAt(e) /\ TargetAt(x) # NameAt(e)
    <3>1. NameAt(x) = TargetAt(e) => x = e
      <4>1. NameAt(x) \in Int /\ x.at <= NameAt(x) /\ NameAt(x) < EntryEnd(x)
        BY <2>3
      <4>2. e.at <= TargetAt(e) /\ TargetAt(e) < EntryEnd(e)
        BY <2>4
      <4>3. QED BY <2>5, <4>1, <4>2
    <3>2. TargetAt(x) = NameAt(e) => x = e
      <4>1. TargetAt(x) \in Int /\ x.at <= TargetAt(x) /\ TargetAt(x) < EntryEnd(x)
        BY <2>3
      <4>2. e.at <= NameAt(e) /\ NameAt(e) < EntryEnd(e)
        BY <2>4
      <4>3. QED BY <2>5, <4>1, <4>2
    <3>3. x = e => NameAt(x) < TargetAt(e) /\ NameAt(e) < TargetAt(x)
      BY <2>4
    <3>4. QED BY <2>3, <2>4, <3>1, <3>2, <3>3
  <2>8. QED BY <2>6, <2>7
<1> HIDE DEF e
<1>3. HeadersAt(e.at) = {e.hdr}
  BY <1>1, <1>2 DEF HeadersAt
<1>4. TextsAt(NameAt(e)) = {e.name}
  BY <1>1, <1>2 DEF TextsAt
<1>5. e.hdr.link => TextsAt(TargetAt(e)) = {e.target}
  BY <1>1, <1>2 DEF TextsAt
<1>6. AclLensAt(TrailerAt(e)) = {e.aclLen}
  BY <1>1, <1>2 DEF AclLensAt
<1>7. QED BY <1>3, <1>4, <1>5, <1>6 DEF e

\* The u32 arithmetic of the padding is right at its edge, where
\* compressed_size + 7 overflows and the sum wraps around.
LEMMA PaddingIsExact ==
  ASSUME NEW h \in Header, h.hasData \/ h.csize % 8 = 0
  PROVE  h.csize + Padding(h) = RoundUp(h.csize, 8)
<1>1. h.csize \in Nat /\ h.csize < Word
  BY WordFacts, SizeTypes
<1>2. CASE h.csize + 7 < Word
  <2>1. (h.csize + 7) % Word = h.csize + 7
    BY <1>1, <1>2, ModWord
  <2>2. RoundUp(h.csize, 8) = ((h.csize + 7) \div 8) * 8
    BY <1>1 DEF RoundUp
  <2>3. RoundUp(h.csize, 8) \in Nat /\ h.csize <= RoundUp(h.csize, 8)
        /\ RoundUp(h.csize, 8) <= h.csize + 7
    BY <1>1, RoundUpBounds
  <2>4. Padding(h) = (RoundUp(h.csize, 8) - h.csize) % Word
    BY <2>1, <2>2 DEF Padding
  <2>5. QED BY <1>1, <1>2, <2>3, <2>4, ModWord, WordFacts
<1>3. CASE h.csize + 7 >= Word
  <2>1. (h.csize + 7) % Word = h.csize + 7 - Word
    BY <1>1, <1>3, ModWord, WordFacts
  <2>2. ((h.csize + 7 - Word) \div 8) * 8 = 0
    BY <1>1, <1>3, WordFacts
  <2>3. Padding(h) = (0 - h.csize) % Word
    BY <2>1, <2>2 DEF Padding
  <2>4. h.csize > 0 => Padding(h) = Word - h.csize
    BY <1>1, <2>3, ModWord, WordFacts
  <2>5. RoundUp(h.csize, 8) = Word
    BY <1>1, <1>3, WordFacts, Z3 DEF RoundUp
  <2>6. h.csize > 0
    BY <1>1, <1>3, WordFacts
  <2>7. QED BY <1>1, <2>4, <2>5, <2>6, WordFacts
<1>4. QED BY <1>1, <1>2, <1>3, WordFacts

LEMMA ShiftRoundUp ==
  ASSUME NEW c \in Nat, NEW d \in Nat, d % 8 = 0
  PROVE  RoundUp(d + c, 8) = d + RoundUp(c, 8)
<1>1. PICK m \in Nat : d = 8 * m
  <2>1. d \div 8 \in Nat /\ d = 8 * (d \div 8)
    OBVIOUS
  <2>2. QED BY <2>1
<1>2. (8 * m + c + 8 - 1) \div 8 = m + ((c + 8 - 1) \div 8)
  BY <1>1
<1>3. QED BY <1>1, <1>2 DEF RoundUp

\* Behind the payload the reader is at the end of the entry.
LEMMA PayloadPlace ==
  ASSUME NEW h \in Header, h.hasData \/ h.csize % 8 = 0, NEW d \in Nat, d % 8 = 0
  PROVE  d + Skipped(h) + Padding(h) = RoundUp(d + (IF h.hasData THEN h.csize ELSE 0), 8)
<1>1. h.csize \in Nat /\ Padding(h) \in Nat /\ h.csize + Padding(h) = RoundUp(h.csize, 8)
  BY PaddingIsExact, SizeTypes, WordFacts
<1>2. CASE h.hasData
  <2>1. RoundUp(d + h.csize, 8) = d + RoundUp(h.csize, 8)
    BY <1>1, ShiftRoundUp
  <2>2. Skipped(h) = h.csize /\ (IF h.hasData THEN h.csize ELSE 0) = h.csize
    BY <1>2 DEF Skipped
  <2>3. RoundUp(h.csize, 8) \in Nat
    BY <1>1, RoundUpBounds
  <2> DEFINE c == h.csize
             p == Padding(h)
             r == RoundUp(h.csize, 8)
  <2>4. d + c + p = d + r
    <3>1. c \in Nat /\ p \in Nat /\ r \in Nat /\ c + p = r
      BY <1>1, <2>3
    <3> HIDE DEF c, p, r
    <3>2. QED BY <3>1
  <2>5. QED BY <2>1, <2>2, <2>4
<1>3. CASE ~h.hasData
  <2>1. RoundUp(h.csize, 8) = h.csize /\ RoundUp(d, 8) = d
    BY <1>1, <1>3, RoundUpMultiple
  <2>2. QED BY <1>1, <1>3, <2>1 DEF Skipped
<1>4. QED BY <1>2, <1>3

\* Behind the ACL the reader finds the data.
LEMMA DataPlace ==
  ASSUME NEW e \in Entry, e.at % 8 = 0, AclFits(e), TypeOK,
         cur.hdr = e.hdr, cur.aclLen = e.aclLen,
         pos = TrailerAt(e) + TrailerSize + AclExtra(cur)
  PROVE  DataPosition = DataAt(e)
<1>1. /\ TrailerAt(e) \in Nat /\ TrailerAt(e) % 8 = 0 /\ e.aclLen \in Nat
      /\ DataAt(e) \in Nat /\ DataAt(e) % 8 = 0
  BY Geometry, WordFacts DEF Entry
<1>2. pos + AclPadding(cur) = DataAt(e)
  <2>1. CASE e.hdr.ixacl /\ e.aclLen > InlineAcl
    <3>1. RoundUp(e.aclLen, 16) \in Nat
      BY <1>1, RoundUpBounds
    <3>2. AclExtra(cur) = e.aclLen - InlineAcl
      BY <2>1 DEF AclExtra
    <3>3. AclPadding(cur) = RoundUp(e.aclLen, 16) - e.aclLen
      BY <1>1, <2>1 DEF AclPadding, InlineAcl
    <3>4. AclTail(e) = RoundUp(e.aclLen, 16) - InlineAcl
      BY <2>1 DEF AclTail
    <3>5. QED BY <1>1, <3>1, <3>2, <3>3, <3>4 DEF DataAt, InlineAcl, TrailerSize
  <2>2. CASE e.hdr.ixacl /\ ~(e.aclLen > InlineAcl)
    <3>1. RoundUp(e.aclLen, 16) = e.aclLen
      BY <1>1, <2>2, RoundUpMultiple DEF AclFits
    <3>2. AclExtra(cur) = 0 /\ AclPadding(cur) = 0 /\ AclTail(e) = 0
      BY <1>1, <2>2, <3>1 DEF AclExtra, AclPadding, AclTail
    <3>3. QED BY <1>1, <3>2 DEF DataAt, TrailerSize
  <2>3. CASE ~e.hdr.ixacl
    <3>1. AclExtra(cur) = 0 /\ AclPadding(cur) = 0 /\ AclTail(e) = 0
      BY <2>3 DEF AclExtra, AclPadding, AclTail
    <3>2. QED BY <1>1, <3>1 DEF DataAt, TrailerSize
  <2>4. QED BY <2>1, <2>2, <2>3
<1>3. RoundUp(DataAt(e), 8) = DataAt(e)
  BY <1>1, RoundUpMultiple
<1>4. QED BY <1>2, <1>3 DEF DataPosition

\* One chunk of a string of the archive: more of the string, the end of it, or
\* the end of the stream.
LEMMA ReadTextOf ==
  ASSUME TypeOK, ~ShortReads, ReadText, NEW t \in Text, TextsAt(cur.from) = {t},
         Reading(cur.from, t)
  PROVE  \/ /\ cur' = [cur EXCEPT !.got = @ + 8] /\ UNCHANGED phase
            /\ cur.got + 8 <= t.len /\ pos' = cur.from + cur.got + 8
         \/ /\ pos' = cur.from + TextSpan(t)
            /\ \/ /\ phase = "name"
                  /\ cur' = [cur EXCEPT !.name = Least(t.len, t.cut), !.from = pos', !.got = 0]
                  /\ phase' = IF cur.hdr.link THEN "target" ELSE "trailer"
               \/ /\ phase = "target"
                  /\ cur' = [cur EXCEPT !.target = Least(t.len, t.cut), !.from = pos', !.got = 0]
                  /\ phase' = "trailer"
         \/ /\ image.len <= pos' /\ image.len < cur.from + cur.got + 8
            /\ phase' \in {"target", "trailer"}
<1>1. /\ LaidOut(image) /\ pos \in Nat /\ cur.got \in Nat /\ cur.from \in Nat
      /\ t.len \in Nat /\ image.len \in Nat /\ Available \in Nat
      /\ cur.got <= t.len /\ cur.got % 8 = 0 /\ pos = cur.from + cur.got
  BY ElementTypes, ChunkFacts DEF TypeOK, Locals, Text, Reading
<1> DEFINE k == Least(8, Available)
           n == Least(k, t.len - cur.got)
<1>2. TakeChunk(k, n, t.cut)
  BY <1>1, ChunkFacts DEF ReadText
<1>3. CASE Available >= 8
  <2>1. k = 8 /\ n = Least(8, t.len - cur.got)
    BY <1>1, <1>3 DEF Least
  <2>2. CASE t.len - cur.got >= 8
    <3>1. n = 8
      BY <1>1, <2>1, <2>2 DEF Least
    <3>2. QED BY <1>1, <1>2, <2>1, <2>2, <3>1 DEF TakeChunk
  <2>3. CASE t.len - cur.got < 8
    <3>1. n = t.len - cur.got /\ n < 8 /\ cur.got + n = t.len
      BY <1>1, <2>1, <2>3 DEF Least
    <3>2. pos + k = cur.from + TextSpan(t)
      BY <1>1, <2>1, <2>3, TextSpanFacts
    <3>3. pos' = cur.from + TextSpan(t)
      BY <1>2, <3>2 DEF TakeChunk
    <3>4. \/ /\ phase = "name"
             /\ cur' = [cur EXCEPT !.name = Least(t.len, t.cut), !.from = pos + k, !.got = 0]
             /\ phase' = IF cur.hdr.link THEN "target" ELSE "trailer"
          \/ /\ phase = "target"
             /\ cur' = [cur EXCEPT !.target = Least(t.len, t.cut), !.from = pos + k, !.got = 0]
             /\ phase' = "trailer"
      <4>1. n # 8
        BY <1>1, <3>1
      <4> HIDE DEF n, k
      <4>2. QED BY <1>2, <3>1, <4>1 DEF TakeChunk
    <3>5. QED BY <3>2, <3>3, <3>4
  <2>4. QED BY <1>1, <2>2, <2>3
<1>4. CASE Available < 8
  <2>1. k = Available /\ n < 8
    BY <1>1, <1>4 DEF Least
  <2>2. image.len <= pos + k /\ image.len < pos + 8
    BY <1>1, <1>4, <2>1 DEF Available
  <2>3. QED BY <1>1, <1>2, <2>1, <2>2 DEF TakeChunk
<1>5. QED BY <1>1, <1>3, <1>4

-----------------------------------------------------------------------------
(* The reader stays on the track of the entries.                           *)

\* No record is pushed: what is listed stays as it is.
LEMMA SameListing ==
  ASSUME UNCHANGED <<image, records>>
  PROVE  /\ Agreed => Agreed'
         /\ AllListed => AllListed'
         /\ NextIndex' = NextIndex
         /\ Whole(image)' = Whole(image)
         /\ EntryCut' = EntryCut
         /\ Leading(image)' = Leading(image)
BY DEF Agreed, AllListed, NextIndex, EntryCut

\* What OnTrack says of the next entry, inside a record.
LEMMA InsideEntry ==
  ASSUME TypeOK, OnTrack, phase # "header"
  PROVE  /\ NextIndex \in 1 .. Len(image.entries)
         /\ InPlace(image.entries[NextIndex])
         /\ image.entries[NextIndex] \in Entry
         /\ image.entries[NextIndex].at % 8 = 0
<1>1. NextIndex \in Nat /\ NextIndex >= 1
  BY DEF TypeOK, NextIndex
<1>2. NextIndex <= Len(image.entries) /\ InPlace(image.entries[NextIndex])
  BY DEF OnTrack
<1>3. QED BY <1>1, <1>2, ImageFacts DEF TypeOK

\* Nothing behind an entry that is not listable, or whose ACL does not fit, is
\* among the leading ones.
LEMMA NoneBehind ==
  ASSUME TypeOK, Agreed,
         NextIndex <= Len(image.entries) =>
           ~Listable(image.entries[NextIndex].hdr) \/ ~AclFits(image.entries[NextIndex])
  PROVE  AllListed
<1>1. Len(records) \in Nat /\ Len(image.entries) \in Nat /\ NextIndex = Len(records) + 1
  BY ImageFacts DEF TypeOK, NextIndex
<1>2. ASSUME NEW i \in Leading(image) PROVE i <= Len(records)
  <2>1. /\ i \in 1 .. Len(image.entries)
        /\ \A j \in 1 .. i : Listable(image.entries[j].hdr) /\ AclFits(image.entries[j])
    BY DEF Leading
  <2>2. SUFFICES ASSUME i >= NextIndex PROVE FALSE
    BY <1>1, <2>1
  <2>3. NextIndex \in 1 .. i /\ NextIndex <= Len(image.entries)
    BY <1>1, <2>1, <2>2
  <2>4. QED BY <2>1, <2>3
<1>3. \A i \in Leading(image) : i \in 1 .. Len(image.entries)
  BY DEF Leading
<1>4. QED BY <1>1, <1>2, <1>3 DEF Agreed, AllListed

LEMMA CutIsNotWhole ==
  ASSUME TypeOK, EntryCut
  PROVE  ~Whole(image)
<1>1. NextIndex \in 1 .. Len(image.entries) /\ image.len \in Nat
  BY ImageFacts DEF TypeOK, EntryCut, NextIndex
<1>2. EntryEnd(image.entries[NextIndex]) \in Nat
  BY <1>1, ImageFacts, Geometry DEF TypeOK
<1>3. QED BY <1>1, <1>2 DEF EntryCut, Whole

LEMMA TrackHeader ==
  ASSUME TypeOK, OnTrack, ReadHeader \/ RejectHeader
  PROVE  /\ NextIndex \in 1 .. Len(image.entries)
         /\ image.entries[NextIndex] \in Entry
         /\ pos = image.entries[NextIndex].at
         /\ HeadersAt(pos) = {image.entries[NextIndex].hdr}
         /\ Agreed
<1>1. /\ phase = "header" /\ HeaderSize <= Available /\ pos \in Nat /\ image.len \in Nat
      /\ NextIndex \in Nat /\ NextIndex >= 1 /\ LaidOut(image)
  <2>1. phase = "header" /\ HeaderSize <= Available
    BY DEF ReadHeader, RejectHeader
  <2>2. pos \in Nat /\ LaidOut(image) /\ records \in Seq(Record)
    BY DEF TypeOK
  <2>3. NextIndex \in Nat /\ NextIndex >= 1
    BY <2>2 DEF NextIndex
  <2>4. QED BY <2>1, <2>2, <2>3, ImageFacts
<1>2. pos < image.len
  BY <1>1 DEF Available, HeaderSize
<1>3. NextIndex <= Len(image.entries) /\ InPlace(image.entries[NextIndex])
  BY <1>1, <1>2 DEF OnTrack
<1>4. pos = image.entries[NextIndex].at
  BY <1>1, <1>3 DEF InPlace
<1>5. NextIndex \in 1 .. Len(image.entries)
  BY <1>1, <1>3, ImageFacts
<1>6. QED BY <1>1, <1>4, <1>5, ImageFacts, ReadsOwn DEF OnTrack

LEMMA TrackReadHeader ==
  ASSUME TypeOK, OnTrack, ReadHeader
  PROVE  OnTrack'
<1>1. PICK e \in Entry : e = image.entries[NextIndex]
  BY TrackHeader
<1>2. NextIndex \in 1 .. Len(image.entries) /\ pos = e.at /\ HeadersAt(pos) = {e.hdr} /\ Agreed
  BY <1>1, TrackHeader
<1>3. /\ ~Malformed(e.hdr)
      /\ cur' = [NoLocals EXCEPT !.at = pos, !.hdr = e.hdr, !.from = pos + HeaderSize]
      /\ pos' = pos + HeaderSize /\ phase' = "name" /\ UNCHANGED <<image, records>>
  BY <1>2 DEF ReadHeader
<1>4. /\ cur'.at = pos /\ cur'.hdr = e.hdr /\ cur'.from = pos + HeaderSize /\ cur'.got = 0
      /\ cur'.target = 0
  BY <1>3 DEF NoLocals
<1>5. NameAt(e) = pos + HeaderSize /\ e.name.len \in Nat /\ pos + HeaderSize \in Nat
  BY <1>2, Geometry DEF Entry, Text
<1>6. Reading(NameAt(e), e.name)'
  BY <1>3, <1>4, <1>5 DEF Reading
<1>7. InPlace(e)'
  BY <1>2, <1>3, <1>4, <1>6 DEF InPlace
<1>8. NextIndex <= Len(image.entries)
  BY <1>2, ImageFacts DEF TypeOK
<1>9. Agreed' /\ NextIndex' = NextIndex
  BY <1>2, <1>3, SameListing
<1>10. QED BY <1>1, <1>3, <1>7, <1>8, <1>9 DEF OnTrack

\* A malformed header: an error, or the scan leaves the track, and then all
\* that it had to list is listed.
LEMMA TrackRejectHeader ==
  ASSUME TypeOK, OnTrack, RejectHeader
  PROVE  /\ Agreed' /\ AllListed'
         /\ \/ mode' = "best_effort" /\ phase' # "done"
            \/ phase' = "done"
<1>1. PICK e \in Entry : e = image.entries[NextIndex]
  BY TrackHeader
<1>2. HeadersAt(pos) = {e.hdr} /\ Agreed
  BY <1>1, TrackHeader
<1>3. Malformed(e.hdr) /\ UNCHANGED <<image, mode, records>>
  BY <1>2 DEF RejectHeader
<1>4. ~Listable(image.entries[NextIndex].hdr)
  BY <1>1, <1>3 DEF Malformed, Listable
<1>5. AllListed
  BY <1>2, <1>4, NoneBehind
<1>6. \/ mode' = "best_effort" /\ phase' # "done"
      \/ phase' = "done"
  BY DEF RejectHeader
<1>7. QED BY <1>2, <1>3, <1>5, <1>6, SameListing

LEMMA TrackReadText ==
  ASSUME TypeOK, ~ShortReads, OnTrack, ReadText
  PROVE  OnTrack' \/ CutOff'
<1>1. phase \in {"name", "target"}
  BY DEF ReadText
<1>2. PICK e \in Entry : e = image.entries[NextIndex]
  BY <1>1, InsideEntry
<1>3. /\ NextIndex \in 1 .. Len(image.entries) /\ InPlace(e) /\ Agreed
  BY <1>1, <1>2, InsideEntry DEF OnTrack
<1>4. /\ UNCHANGED <<image, records>> /\ phase' \in {"name", "target", "trailer"}
      /\ cur' \in Locals /\ cur \in Locals /\ LaidOut(image)
      /\ pos \in Nat /\ pos' \in Nat /\ image.len \in Nat /\ cur.got \in Nat /\ cur.from \in Nat
  BY ChunkMoves, StepTypes, ElementTypes DEF TypeOK, Next, Step, Locals
<1>5. Agreed' /\ NextIndex' = NextIndex /\ NextIndex <= Len(image.entries)
  BY <1>3, <1>4, SameListing, ImageFacts
<1>6. InPlace(e)' => OnTrack'
  BY <1>2, <1>4, <1>5 DEF OnTrack
<1>7. e.name \in Text /\ e.target \in Text
  BY DEF Entry
<1>8. ASSUME image.len <= pos', image.len < EntryEnd(e), phase' \in {"target", "trailer"}
      PROVE  CutOff'
  <2>1. EntryCut
    BY <1>2, <1>5, <1>8 DEF EntryCut
  <2>2. QED BY <1>4, <1>5, <1>8, <2>1, SameListing DEF CutOff
<1>9. CASE phase = "name"
  <2>1. Reading(NameAt(e), e.name) /\ cur.at = e.at /\ cur.hdr = e.hdr /\ cur.target = 0
        /\ ~Malformed(e.hdr)
    BY <1>3, <1>9 DEF InPlace
  <2>2. Reading(cur.from, e.name) /\ TextsAt(cur.from) = {e.name} /\ cur.from = NameAt(e)
    BY <1>2, <1>3, <1>4, <2>1, ReadsOwn DEF Reading
  <2>3. CASE /\ cur' = [cur EXCEPT !.got = @ + 8] /\ UNCHANGED phase
             /\ cur.got + 8 <= e.name.len /\ pos' = cur.from + cur.got + 8
    <3>1. /\ cur'.got = cur.got + 8 /\ cur'.from = cur.from /\ cur'.at = cur.at
          /\ cur'.hdr = cur.hdr /\ cur'.target = cur.target
      BY <1>4, <2>3 DEF Locals
    <3>2. Reading(NameAt(e), e.name)'
      BY <1>4, <2>1, <2>3, <3>1 DEF Reading
    <3>3. InPlace(e)'
      BY <1>9, <2>1, <2>3, <3>1, <3>2 DEF InPlace
    <3>4. QED BY <1>6, <3>3
  <2>4. CASE /\ pos' = cur.from + TextSpan(e.name)
             /\ cur' = [cur EXCEPT !.name = Least(e.name.len, e.name.cut), !.from = pos', !.got = 0]
             /\ phase' = IF cur.hdr.link THEN "target" ELSE "trailer"
    <3>1. /\ cur'.got = 0 /\ cur'.from = pos' /\ cur'.at = cur.at
          /\ cur'.hdr = cur.hdr /\ cur'.target = cur.target
          /\ cur'.name = Least(e.name.len, e.name.cut)
      BY <1>4, <2>4 DEF Locals
    <3>2. pos' = TargetAt(e) /\ e.target.len \in Nat /\ pos' \in Nat
      BY <1>4, <1>7, <2>2, <2>4, Geometry DEF Text
    <3>3. e.hdr.link => Reading(TargetAt(e), e.target)'
      BY <3>1, <3>2 DEF Reading
    <3>4. ~e.hdr.link => pos' = TrailerAt(e)
      BY <1>4, <3>2 DEF TrailerAt
    <3>5. InPlace(e)'
      BY <2>1, <2>4, <3>1, <3>3, <3>4 DEF InPlace
    <3>6. QED BY <1>6, <3>5
  <2>5. CASE /\ image.len <= pos' /\ image.len < cur.from + cur.got + 8
             /\ phase' \in {"target", "trailer"}
    <3>1. TextSpan(e.name) \in Nat /\ TextSpan(e.name) >= cur.got + 8
      BY <1>4, <1>7, <2>1, TextSpanFacts DEF Reading
    <3>2. TargetAt(e) = cur.from + TextSpan(e.name) /\ TargetAt(e) < EntryEnd(e)
          /\ TargetAt(e) \in Nat /\ EntryEnd(e) \in Nat
      BY <2>2, Geometry, EntryOrder
    <3>3. image.len < EntryEnd(e)
      BY <1>4, <2>5, <3>1, <3>2
    <3>4. QED BY <1>8, <2>5, <3>3
  <2>6. QED BY <1>7, <1>9, <2>2, <2>3, <2>4, <2>5, ReadTextOf
<1>10. CASE phase = "target"
  <2>1. /\ Reading(TargetAt(e), e.target) /\ cur.at = e.at /\ cur.hdr = e.hdr /\ e.hdr.link
        /\ cur.name = Least(e.name.len, e.name.cut) /\ ~Malformed(e.hdr)
    BY <1>3, <1>10 DEF InPlace
  <2>2. Reading(cur.from, e.target) /\ TextsAt(cur.from) = {e.target} /\ cur.from = TargetAt(e)
    BY <1>2, <1>3, <1>4, <2>1, ReadsOwn DEF Reading
  <2>3. CASE /\ cur' = [cur EXCEPT !.got = @ + 8] /\ UNCHANGED phase
             /\ cur.got + 8 <= e.target.len /\ pos' = cur.from + cur.got + 8
    <3>1. /\ cur'.got = cur.got + 8 /\ cur'.from = cur.from /\ cur'.at = cur.at
          /\ cur'.hdr = cur.hdr /\ cur'.name = cur.name
      BY <1>4, <2>3 DEF Locals
    <3>2. Reading(TargetAt(e), e.target)'
      BY <1>4, <2>1, <2>3, <3>1 DEF Reading
    <3>3. InPlace(e)'
      BY <1>10, <2>1, <2>3, <3>1, <3>2 DEF InPlace
    <3>4. QED BY <1>6, <3>3
  <2>4. CASE /\ pos' = cur.from + TextSpan(e.target)
             /\ cur' = [cur EXCEPT !.target = Least(e.target.len, e.target.cut),
                                   !.from = pos', !.got = 0]
             /\ phase' = "trailer"
    <3>1. /\ cur'.at = cur.at /\ cur'.hdr = cur.hdr /\ cur'.name = cur.name
          /\ cur'.target = Least(e.target.len, e.target.cut)
      BY <1>4, <2>4 DEF Locals
    <3>2. pos' = TrailerAt(e)
      BY <2>1, <2>2, <2>4 DEF TrailerAt
    <3>3. InPlace(e)'
      BY <2>1, <2>4, <3>1, <3>2 DEF InPlace
    <3>4. QED BY <1>6, <3>3
  <2>5. CASE /\ image.len <= pos' /\ image.len < cur.from + cur.got + 8
             /\ phase' \in {"target", "trailer"}
    <3>1. TextSpan(e.target) \in Nat /\ TextSpan(e.target) >= cur.got + 8
      BY <1>4, <1>7, <2>1, TextSpanFacts DEF Reading
    <3>2. TrailerAt(e) = cur.from + TextSpan(e.target) /\ TrailerAt(e) < EntryEnd(e)
          /\ TrailerAt(e) \in Nat /\ EntryEnd(e) \in Nat
      BY <2>1, <2>2, EntryOrder DEF TrailerAt
    <3>3. image.len < EntryEnd(e)
      BY <1>4, <2>5, <3>1, <3>2
    <3>4. QED BY <1>8, <2>5, <3>3
  <2>6. QED BY <1>7, <1>10, <2>2, <2>3, <2>4, <2>5, ReadTextOf
<1>11. QED BY <1>1, <1>9, <1>10

LEMMA TrackReadTrailer ==
  ASSUME TypeOK, OnTrack, ReadTrailer
  PROVE  OnTrack'
<1>1. phase = "trailer"
  BY DEF ReadTrailer
<1>2. PICK e \in Entry : e = image.entries[NextIndex]
  BY <1>1, InsideEntry
<1>3. NextIndex \in 1 .. Len(image.entries) /\ InPlace(e) /\ Agreed
  BY <1>1, <1>2, InsideEntry DEF OnTrack
<1>4. pos = TrailerAt(e) /\ LaidOut(image) /\ cur \in Locals
  BY <1>1, <1>3 DEF InPlace, TypeOK
<1>5. AclLensAt(pos) = {e.aclLen}
  BY <1>2, <1>3, <1>4, ReadsOwn
<1>6. /\ cur' = [cur EXCEPT !.aclLen = e.aclLen] /\ pos' = pos + TrailerSize
      /\ phase' = "acl" /\ UNCHANGED <<image, records>>
  BY <1>5 DEF ReadTrailer
<1>7. /\ cur'.at = cur.at /\ cur'.hdr = cur.hdr /\ cur'.name = cur.name
      /\ cur'.target = cur.target /\ cur'.aclLen = e.aclLen
  BY <1>4, <1>6 DEF Locals
<1>8. InPlace(e)'
  BY <1>1, <1>3, <1>4, <1>6, <1>7 DEF InPlace
<1>9. Agreed' /\ NextIndex' = NextIndex /\ NextIndex <= Len(image.entries)
  BY <1>3, <1>4, <1>6, SameListing, ImageFacts
<1>10. QED BY <1>2, <1>6, <1>8, <1>9 DEF OnTrack

LEMMA TrackReadAcl ==
  ASSUME TypeOK, OnTrack, ReadAcl
  PROVE  OnTrack'
<1>1. phase = "acl" /\ pos' = pos + AclExtra(cur) /\ phase' = "payload"
      /\ UNCHANGED <<image, cur, records>>
  BY DEF ReadAcl
<1>2. PICK e \in Entry : e = image.entries[NextIndex]
  BY <1>1, InsideEntry
<1>3. NextIndex \in 1 .. Len(image.entries) /\ InPlace(e) /\ Agreed
  BY <1>1, <1>2, InsideEntry DEF OnTrack
<1>4. pos' = TrailerAt(e) + TrailerSize + AclExtra(cur)
  BY <1>1, <1>3 DEF InPlace
<1>5. AclExtra(cur)' = AclExtra(cur)
  BY <1>1
<1>6. InPlace(e)'
  BY <1>1, <1>3, <1>4, <1>5 DEF InPlace
<1>7. Agreed' /\ NextIndex' = NextIndex /\ NextIndex <= Len(image.entries)
  BY <1>1, <1>3, SameListing, ImageFacts DEF TypeOK
<1>8. QED BY <1>1, <1>2, <1>6, <1>7 DEF OnTrack

\* The end of the stream: behind the last entry, or the archive is cut off.
LEMMA TrackEndOfStream ==
  ASSUME TypeOK, OnTrack, EndOfStream
  PROVE  Agreed /\ (NextIndex > Len(image.entries) \/ EntryCut)
<1>1. LaidOut(image) /\ pos \in Nat /\ image.len \in Nat /\ cur \in Locals /\ Agreed
      /\ Len(image.entries) \in Nat /\ AclExtra(cur) \in Nat
  BY ElementTypes, ImageFacts, LocalTypes DEF TypeOK, OnTrack
<1>2. NextIndex \in Nat /\ NextIndex >= 1
  BY DEF TypeOK, NextIndex
<1>3. CASE NextIndex > Len(image.entries)
  BY <1>1, <1>3
<1>4. CASE NextIndex <= Len(image.entries)
  <2>1. PICK e \in Entry : e = image.entries[NextIndex]
    BY <1>1, <1>2, <1>4, ImageFacts
  <2>2. NextIndex \in 1 .. Len(image.entries) /\ InPlace(e)
    BY <1>1, <1>2, <1>4, <2>1 DEF OnTrack
  <2>3. /\ e.at \in Nat /\ TrailerAt(e) \in Nat /\ DataAt(e) \in Nat /\ EntryEnd(e) \in Nat
        /\ e.at + HeaderSize < EntryEnd(e) /\ TrailerAt(e) + TrailerSize <= EntryEnd(e)
        /\ DataAt(e) <= EntryEnd(e)
    <3>1. e.at \in Nat /\ NameAt(e) \in Nat /\ TargetAt(e) \in Nat /\ TrailerAt(e) \in Nat
          /\ DataAt(e) \in Nat /\ DataLen(e) \in Nat /\ EntryEnd(e) \in Nat
      BY Geometry
    <3>2. NameAt(e) = e.at + HeaderSize /\ NameAt(e) < TargetAt(e)
          /\ TargetAt(e) <= TrailerAt(e) /\ TrailerAt(e) < EntryEnd(e)
      BY Geometry, EntryOrder
    <3>3. DataAt(e) + DataLen(e) <= EntryEnd(e) /\ TrailerAt(e) + TrailerSize <= DataAt(e)
      BY Geometry
    <3>4. QED BY <3>1, <3>2, <3>3 DEF HeaderSize, TrailerSize
  <2>4. CASE phase = "header" /\ HeaderSize > Available
    <3>1. pos = e.at
      BY <2>2, <2>4 DEF InPlace
    <3>2. image.len < EntryEnd(e)
      BY <1>1, <2>3, <2>4, <3>1 DEF Available, HeaderSize
    <3>3. QED BY <1>1, <1>4, <2>1, <3>2 DEF EntryCut
  <2>5. CASE phase = "trailer" /\ TrailerSize > Available
    <3>1. pos = TrailerAt(e)
      BY <2>2, <2>5 DEF InPlace
    <3>2. image.len < EntryEnd(e)
      BY <1>1, <2>3, <2>5, <3>1 DEF Available, TrailerSize
    <3>3. QED BY <1>1, <1>4, <2>1, <3>2 DEF EntryCut
  <2>6. CASE phase = "acl" /\ AclExtra(cur) > Available
    <3>1. pos = TrailerAt(e) + TrailerSize /\ cur.hdr = e.hdr /\ cur.aclLen = e.aclLen
      BY <2>2, <2>6 DEF InPlace
    <3>2. e.aclLen \in Nat
      BY WordFacts DEF Entry
    <3>3. AclExtra(cur) <= AclTail(e) /\ AclTail(e) \in Nat
      <4>1. RoundUp(e.aclLen, 16) \in Nat /\ e.aclLen <= RoundUp(e.aclLen, 16)
        BY <3>2, RoundUpBounds
      <4>2. QED BY <3>1, <3>2, <4>1 DEF AclExtra, AclTail, InlineAcl
    <3>4. image.len < DataAt(e)
      BY <1>1, <2>3, <2>6, <3>1, <3>3 DEF Available, DataAt, TrailerSize
    <3>5. QED BY <1>1, <1>4, <2>1, <2>3, <3>4 DEF EntryCut
  <2>7. QED BY <2>4, <2>5, <2>6 DEF EndOfStream
<1>5. QED BY <1>1, <1>2, <1>3, <1>4

LEMMA TrackPush ==
  ASSUME TypeOK, OnTrack, PushRecord, AclFits(image.entries[NextIndex])
  PROVE  OnTrack'
<1>1. phase = "payload" /\ phase' = "header" /\ image' = image /\ cur.hdr.marker = "entry"
  BY DEF PushRecord, SkipPayload
<1>2. PICK e \in Entry : e = image.entries[NextIndex]
  BY <1>1, InsideEntry
<1>3. NextIndex \in 1 .. Len(image.entries) /\ InPlace(e) /\ Agreed /\ e.at % 8 = 0
      /\ LaidOut(image) /\ AclFits(e)
  BY <1>1, <1>2, InsideEntry DEF OnTrack, TypeOK
<1>n. PICK n \in Nat : n = Len(records)
  BY DEF TypeOK
<1>4. /\ n \in Nat /\ records \in Seq(Record) /\ NextIndex = n + 1
      /\ Len(image.entries) \in Nat /\ n + 1 <= Len(image.entries)
  BY <1>n, <1>3, ImageFacts DEF TypeOK, NextIndex
<1>5. /\ cur.at = e.at /\ cur.hdr = e.hdr /\ ~Malformed(e.hdr) /\ cur.aclLen = e.aclLen
      /\ cur.name = Least(e.name.len, e.name.cut)
      /\ cur.target = IF e.hdr.link THEN Least(e.target.len, e.target.cut) ELSE 0
      /\ pos = TrailerAt(e) + TrailerSize + AclExtra(cur)
  BY <1>1, <1>3 DEF InPlace
<1>6. DataPosition = DataAt(e) /\ DataAt(e) \in Nat /\ DataAt(e) % 8 = 0
  BY <1>3, <1>5, DataPlace, Geometry
<1>7. NewRecord = Listing(e)
  BY <1>5, <1>6 DEF NewRecord, Listing
<1>8. NewRecord \in Record /\ records' = Append(records, NewRecord)
      /\ pos' = DataAt(e) + Skipped(e.hdr) + Padding(e.hdr)
  BY <1>5, <1>6, PushMoves
<1>9. /\ Len(records') = n + 1 /\ records'[n + 1] = Listing(e)
      /\ \A i \in 1 .. n : records'[i] = records[i]
  BY <1>n, <1>4, <1>7, <1>8
<1>10. pos' = EntryEnd(e)
  <2>1. e.hdr \in Header /\ (e.hdr.hasData \/ e.hdr.csize % 8 = 0)
    BY <1>2, <1>3, ImageFacts DEF Entry
  <2>2. QED BY <1>6, <1>8, <2>1, PayloadPlace DEF EntryEnd, DataLen
<1>11. n + 1 \in Leading(image)
  <2>1. Listable(e.hdr) /\ AclFits(e)
    BY <1>1, <1>3, <1>5 DEF Listable, Malformed, Entry, Header
  <2>2. \A j \in 1 .. n : Listable(image.entries[j].hdr) /\ AclFits(image.entries[j])
    <3>1. ASSUME NEW j \in 1 .. n
          PROVE  Listable(image.entries[j].hdr) /\ AclFits(image.entries[j])
      <4>1. j \in Leading(image) /\ j \in 1 .. j
        BY <1>n, <1>3, <1>4 DEF Agreed
      <4>2. QED BY <4>1 DEF Leading
    <3>2. QED BY <3>1
  <2>3. \A j \in 1 .. n + 1 : Listable(image.entries[j].hdr) /\ AclFits(image.entries[j])
    BY <1>2, <1>4, <2>1, <2>2
  <2>4. QED BY <1>3, <1>4, <2>3 DEF Leading
<1>12. Agreed'
  <2>1. \A i \in 1 .. n + 1 :
          i \in Leading(image) /\ records'[i] = Listing(image.entries[i])
    BY <1>n, <1>2, <1>3, <1>4, <1>9, <1>11 DEF Agreed
  <2>2. QED BY <1>1, <1>4, <1>9, <2>1 DEF Agreed
<1>13. NextIndex' = n + 2
  BY <1>4, <1>9 DEF NextIndex
<1>14. CASE n + 2 <= Len(image.entries)
  <2>1. n + 2 \in 1 .. Len(image.entries) /\ n + 2 > 1 /\ n + 2 - 1 = n + 1
    BY <1>4, <1>14
  <2>2. PICK f \in Entry : f = image.entries[n + 2]
    BY <1>3, <2>1, ImageFacts
  <2>3. f.at = EntryEnd(e)
    BY <1>2, <1>3, <1>4, <2>1, <2>2, ImageFacts
  <2>4. InPlace(f)'
    BY <1>1, <1>10, <2>3 DEF InPlace
  <2>5. QED BY <1>1, <1>12, <1>13, <1>14, <2>2, <2>4 DEF OnTrack
<1>15. CASE ~(n + 2 <= Len(image.entries))
  <2>1. Len(image.entries) = n + 1
    BY <1>4, <1>15
  <2>2. image.len <= EntryEnd(e)
    <3>1. image.entries # <<>>
      BY <2>1, <1>4
    <3>2. image.len <= EndOf(image.entries) /\ EndOf(image.entries) = EntryEnd(e)
      BY <1>2, <1>3, <1>4, <2>1, <3>1 DEF LaidOut, EndOf
    <3>3. QED BY <3>2
  <2>3. QED BY <1>1, <1>10, <1>12, <1>13, <1>15, <2>2 DEF OnTrack
<1>16. QED BY <1>14, <1>15

LEMMA TrackStop ==
  ASSUME TypeOK, OnTrack, StopAtOffset
  PROVE  Agreed' /\ AllListed'
<1>1. /\ phase = "payload" /\ cur.hdr.marker = "offset" /\ UNCHANGED <<image, records>>
  BY DEF StopAtOffset, SkipPayload
<1>2. PICK e \in Entry : e = image.entries[NextIndex]
  BY <1>1, InsideEntry
<1>3. InPlace(e) /\ Agreed
  BY <1>1, <1>2, InsideEntry DEF OnTrack
<1>4. ~Listable(e.hdr)
  BY <1>1, <1>3 DEF InPlace, Listable
<1>5. AllListed
  BY <1>2, <1>3, <1>4, NoneBehind
<1>6. QED BY <1>1, <1>3, <1>5, SameListing

-----------------------------------------------------------------------------
(* The invariant.                                                          *)

LEMMA TrackInit == Init => TrackInv
<1>1. SUFFICES ASSUME Init PROVE TrackInv
  OBVIOUS
<1>2. /\ image \in Images /\ pos = FileHeaderSize /\ phase = "header" /\ records = <<>>
      /\ Len(records) = 0 /\ TypeOK /\ Pending
  BY <1>1, InitTypes DEF Init, Pending
<1>3. Len(image.entries) \in Nat /\ LaidOut(image)
  BY <1>2, ImageFacts DEF TypeOK
<1>4. Agreed
  BY <1>2, <1>3 DEF Agreed
<1>5. CASE 1 <= Len(image.entries)
  <2>1. image.entries[1].at = FileHeaderSize
    BY <1>3, <1>5, ImageFacts
  <2>2. OnTrack
    BY <1>2, <1>4, <1>5, <2>1 DEF OnTrack, InPlace, NextIndex
  <2>3. QED BY <1>2, <2>2 DEF TrackInv
<1>6. CASE ~(1 <= Len(image.entries))
  <2>1. image.entries = <<>>
    <3>1. image.entries \in Seq(Entry)
      BY <1>3 DEF LaidOut
    <3>2. QED BY <1>3, <1>6, <3>1
  <2>2. pos >= image.len
    BY <1>2, <1>3, <2>1 DEF LaidOut, EndOf, FileHeaderSize
  <2>3. OnTrack
    BY <1>2, <1>4, <1>6, <2>2 DEF OnTrack, NextIndex
  <2>4. QED BY <1>2, <2>3 DEF TrackInv
<1>7. QED BY <1>5, <1>6

\* Where the stream ended within a string, the scan ends too.
LEMMA CutOffStep ==
  ASSUME TypeOK, ~ShortReads, CutOff, Step
  PROVE  \/ CutOff'
         \/ phase' = "done" /\ Agreed' /\ ~Whole(image)'
<1>1. /\ LaidOut(image) /\ pos \in Nat /\ image.len \in Nat /\ pos >= image.len
      /\ phase \in {"target", "trailer"} /\ Agreed /\ EntryCut /\ ~Whole(image)
  BY ElementTypes, CutIsNotWhole DEF TypeOK, CutOff
<1>2. Available = 0
  BY <1>1 DEF Available
<1>3. CASE EndOfStream
  BY <1>1, <1>3, SameListing DEF EndOfStream, Return
<1>4. CASE ReadText
  <2>1. /\ UNCHANGED <<image, records>> /\ pos <= pos' /\ pos' \in Nat
    BY <1>4, ChunkMoves, StepTypes DEF TypeOK, Next, Step
  <2>2. phase' \in {"target", "trailer"}
    <3>1. PICK k \in ChunkSizes, n \in Int, cut \in Nat : n <= k /\ TakeChunk(k, n, cut)
      BY <1>4, TextChunk
    <3>2. k = 0
      BY <1>1, <1>2, <3>1, ChunkFacts DEF Least
    <3>3. QED BY <1>1, <3>1, <3>2 DEF TakeChunk
  <2>3. QED BY <1>1, <2>1, <2>2, SameListing DEF CutOff
<1>5. CASE ReadTrailer
  BY <1>2, <1>5 DEF ReadTrailer, TrailerSize
<1>6. QED
  BY <1>1, <1>3, <1>4, <1>5 DEF Step, ReadHeader, RejectHeader, ReadAcl, PushRecord,
     StopAtOffset, SkipPayload, Panic

\* Once all that had to be listed is listed, it stays so.
LEMMA AllListedStep ==
  ASSUME TypeOK, AllListed, [Next]_vars
  PROVE  AllListed' /\ mode' = mode
<1>1. CASE PushRecord
  <2>1. /\ records \in Seq(Record) /\ records' = Append(records, NewRecord)
        /\ image' = image /\ mode' = mode
    BY <1>1 DEF TypeOK, PushRecord, SkipPayload
  <2>2. \A i \in 1 .. Len(records) : records'[i] = records[i]
    BY <2>1
  <2>3. Len(records') = Len(records) + 1 /\ Len(records) \in Nat
    BY <2>1
  <2>4. \A i \in Leading(image) : i \in 1 .. Len(image.entries) /\ i \in Nat /\ i >= 1
    BY ImageFacts DEF Leading, TypeOK
  <2>5. QED BY <2>1, <2>2, <2>3, <2>4 DEF AllListed
<1>2. CASE ~PushRecord
  <2>1. UNCHANGED <<image, mode, records>>
    BY <1>2, ChunkMoves DEF Next, Step, EndOfStream, IoFailure, ReadHeader, RejectHeader,
       ReadTrailer, ReadAcl, StopAtOffset, SkipPayload, Panic, Return, vars
  <2>2. QED BY <2>1, SameListing
<1>3. QED BY <1>1, <1>2

LEMMA PendingStep ==
  ASSUME TypeOK, Pending, [Next]_vars
  PROVE  Pending'
<1>1. CASE ReadText
  BY <1>1, ChunkMoves DEF Pending, ReadText
<1>2. CASE ~ReadText
  BY <1>2 DEF Pending, Next, Step, EndOfStream, IoFailure, ReadHeader, RejectHeader,
     ReadTrailer, ReadAcl, PushRecord, StopAtOffset, SkipPayload, Panic, Return, vars
<1>3. QED BY <1>1, <1>2

LEMMA TrackStep ==
  ASSUME ~ShortReads
  PROVE  TypeOK /\ TrackInv /\ [Next]_vars => TrackInv'
<1>1. SUFFICES ASSUME TypeOK, TrackInv, [Next]_vars PROVE TrackInv'
  OBVIOUS
<1>2. image' = image
  BY <1>1, ChunkMoves DEF Next, Step, EndOfStream, IoFailure, ReadHeader, RejectHeader,
     ReadTrailer, ReadAcl, PushRecord, StopAtOffset, SkipPayload, Panic, Return, vars
<1>3. Pending' /\ mode' = mode /\ InStep' = InStep
  <2>1. mode' = mode
    BY <1>1, ChunkMoves DEF Next, Step, EndOfStream, IoFailure, ReadHeader, RejectHeader,
       ReadTrailer, ReadAcl, PushRecord, StopAtOffset, SkipPayload, Panic, Return, vars
  <2>2. QED BY <1>1, <1>2, <2>1, PendingStep DEF TrackInv, InStep
<1>4. CASE UNCHANGED vars
  <2>1. UNCHANGED <<image, mode, pos, phase, cur, records, outcome>>
    BY <1>4 DEF vars
  <2>2. (OnTrack => OnTrack') /\ (CutOff => CutOff') /\ (OffTrack => OffTrack')
    BY <2>1 DEF OnTrack, CutOff, EntryCut, OffTrack, InStep, Agreed, AllListed, NextIndex, InPlace, Reading
  <2>3. QED BY <1>1, <1>3, <2>1, <2>2, SameListing DEF TrackInv
<1>5. CASE IoFailure
  <2>1. /\ phase # "done" /\ phase' = "done" /\ outcome' = "io_error"
        /\ UNCHANGED <<image, mode, records>>
    BY <1>5 DEF IoFailure, Return
  <2>2. Agreed \/ (~InStep /\ AllListed)
    BY <1>1, <2>1 DEF TrackInv, OnTrack, CutOff, OffTrack
  <2>3. QED BY <1>3, <2>1, <2>2, SameListing DEF TrackInv
<1>6. CASE Step
  <2>1. phase # "done"
    BY <1>6 DEF Step, EndOfStream, ReadHeader, RejectHeader, ReadText, ReadTrailer, ReadAcl,
       PushRecord, StopAtOffset, SkipPayload, Panic
  <2>2. CASE OnTrack
    <3>0. CASE PushRecord
      <4>1. CASE AclFits(image.entries[NextIndex])
        <5>1. OnTrack'
          BY <1>1, <2>2, <3>0, <4>1, TrackPush
        <5>2. QED BY <1>3, <5>1 DEF TrackInv, OnTrack
      <4>2. CASE ~AclFits(image.entries[NextIndex])
        <5>1. phase = "payload" /\ phase' = "header"
          BY <3>0 DEF PushRecord, SkipPayload
        <5>2. NextIndex \in 1 .. Len(image.entries) /\ Agreed
          BY <1>1, <2>2, <5>1, InsideEntry DEF OnTrack
        <5>3. AllListed /\ ~InStep
          BY <1>1, <4>2, <5>2, NoneBehind DEF InStep, AclsFit
        <5>4. AllListed'
          BY <1>1, <5>3, AllListedStep
        <5>5. QED BY <1>3, <5>1, <5>3, <5>4 DEF TrackInv, OffTrack
      <4>3. QED BY <4>1, <4>2
    <3>1. CASE ReadHeader \/ ReadTrailer \/ ReadAcl
      <4>1. OnTrack'
        BY <1>1, <2>2, <3>1, TrackReadHeader, TrackReadTrailer, TrackReadAcl
      <4>2. QED BY <1>3, <4>1 DEF TrackInv, OnTrack
    <3>2. CASE ReadText
      <4>1. OnTrack' \/ CutOff'
        BY <1>1, <2>2, <3>2, TrackReadText
      <4>2. QED BY <1>3, <4>1 DEF TrackInv, OnTrack, CutOff
    <3>3. CASE RejectHeader
      <4>1. /\ Agreed' /\ AllListed'
            /\ \/ mode' = "best_effort" /\ phase' # "done"
               \/ phase' = "done"
        BY <1>1, <2>2, <3>3, TrackRejectHeader
      <4>2. mode' = "best_effort" => ~InStep'
        BY DEF InStep
      <4>3. QED BY <1>3, <4>1, <4>2 DEF TrackInv, OffTrack
    <3>4. CASE EndOfStream
      <4>1. Agreed /\ (Whole(image) => AllListed)
        <5>1. Agreed /\ (NextIndex > Len(image.entries) \/ EntryCut)
          BY <1>1, <2>2, <3>4, TrackEndOfStream
        <5>2. CASE NextIndex > Len(image.entries)
          <6>1. ~(NextIndex <= Len(image.entries))
            BY <1>1, <5>2, ImageFacts DEF TypeOK, NextIndex
          <6>2. QED BY <1>1, <5>1, <6>1, NoneBehind
        <5>3. CASE EntryCut
          BY <1>1, <5>1, <5>3, CutIsNotWhole
        <5>4. QED BY <5>1, <5>2, <5>3
      <4>2. UNCHANGED <<image, records>> /\ phase' = "done"
        BY <3>4 DEF EndOfStream, Return
      <4>3. QED BY <1>3, <4>1, <4>2, SameListing DEF TrackInv
    <3>5. CASE StopAtOffset
      <4>1. Agreed' /\ AllListed' /\ phase' = "done"
        BY <1>1, <2>2, <3>5, TrackStop DEF StopAtOffset
      <4>2. QED BY <1>3, <4>1 DEF TrackInv
    <3>6. CASE Panic
      <4>1. UNCHANGED <<image, records>> /\ phase' = "done" /\ outcome' = "panic" /\ Agreed
        BY <2>2, <3>6 DEF Panic, Return, OnTrack
      <4>2. QED BY <1>3, <4>1, SameListing DEF TrackInv
    <3>7. QED BY <1>6, <3>0, <3>1, <3>2, <3>3, <3>4, <3>5, <3>6 DEF Step
  <2>3. CASE CutOff
    <3>1. CutOff' \/ (phase' = "done" /\ Agreed' /\ ~Whole(image)')
      BY <1>1, <1>6, <2>3, CutOffStep
    <3>2. QED BY <1>3, <3>1 DEF TrackInv, CutOff
  <2>4. CASE OffTrack
    <3>1. AllListed' /\ ~InStep'
      BY <1>1, <1>3, <2>4, AllListedStep DEF OffTrack
    <3>2. QED BY <1>3, <3>1 DEF TrackInv, OffTrack
  <2>5. QED BY <1>1, <2>1, <2>2, <2>3, <2>4 DEF TrackInv
<1>7. QED BY <1>1, <1>4, <1>5, <1>6 DEF Next

LEMMA TrackImplies ==
  ASSUME TypeOK, TrackInv
  PROVE  AgreesWithArchive /\ NoneLost /\ StrictStopsAtDamage
<1>1. Agreed \/ (~InStep /\ AllListed)
  BY DEF TrackInv, OnTrack, CutOff, OffTrack
<1>2. AgreesWithArchive
  <2>1. Len(records) \in Nat /\ \A i \in Leading(image) : i \in Nat /\ i >= 1
    BY ImageFacts DEF TypeOK, Leading
  <2>2. QED BY <1>1, <2>1 DEF AgreesWithArchive, Agreed, AllListed
<1>3. StrictStopsAtDamage
  BY <1>1 DEF StrictStopsAtDamage, Agreed, InStep
<1>4. outcome = "ok" => phase = "done"
  BY DEF TrackInv, Pending
<1>5. NoneLost
  BY <1>4 DEF NoneLost, TrackInv, AllListed
<1>6. QED BY <1>2, <1>3, <1>5

(* On every archive that follows the layout: what is listed up to the first   *)
(* malformed or offset entry are the entries of the archive, each with its    *)
(* own header, strings and data position, whatever is cut off behind them.    *)
THEOREM ListsTheArchive ==
  ASSUME ~ShortReads
  PROVE  Spec => []AgreesWithArchive
<1>1. Init => TypeOK /\ TrackInv
  BY InitTypes, TrackInit
<1>2. TypeOK /\ TrackInv /\ [Next]_vars => (TypeOK /\ TrackInv)'
  BY StepTypes, TrackStep
<1>3. TypeOK /\ TrackInv => AgreesWithArchive
  BY TrackImplies
<1>4. QED BY <1>1, <1>2, <1>3, PTL DEF Spec

(* No entry is passed over: the end of the stream is met before the last      *)
(* leading entry is listed only if the archive is cut off.                    *)
THEOREM ListsAll ==
  ASSUME ~ShortReads
  PROVE  Spec => []NoneLost
<1>1. Init => TypeOK /\ TrackInv
  BY InitTypes, TrackInit
<1>2. TypeOK /\ TrackInv /\ [Next]_vars => (TypeOK /\ TrackInv)'
  BY StepTypes, TrackStep
<1>3. TypeOK /\ TrackInv => NoneLost
  BY TrackImplies
<1>4. QED BY <1>1, <1>2, <1>3, PTL DEF Spec

(* In strict mode nothing behind a malformed or offset entry is ever listed.  *)
THEOREM StrictStops ==
  ASSUME ~ShortReads
  PROVE  Spec => []StrictStopsAtDamage
<1>1. Init => TypeOK /\ TrackInv
  BY InitTypes, TrackInit
<1>2. TypeOK /\ TrackInv /\ [Next]_vars => (TypeOK /\ TrackInv)'
  BY StepTypes, TrackStep
<1>3. TypeOK /\ TrackInv => StrictStopsAtDamage
  BY TrackImplies
<1>4. QED BY <1>1, <1>2, <1>3, PTL DEF Spec

-----------------------------------------------------------------------------
(***************************************************************************)
(* Strict scanning implements ArchiveListing: every step of RecordScan is  *)
(* a step of the listing or leaves list and result alone.                  *)
(***************************************************************************)

ListInv == TypeOK /\ TrackInv

\* The layout as the abstract module sees it.
LEMMA SameLayout ==
  /\ \A h : Listed!Listable(h) <=> Listable(h)
  /\ \A e : Listed!EntryEnd(e) = EntryEnd(e) /\ Listed!Listing(e) = Listing(e)
BY DEF Listed!Listable, Listable, Listed!EntryEnd, EntryEnd, Listed!Listing, Listing,
   Listed!DataAt, DataAt, Listed!DataLen, DataLen, Listed!TrailerAt, TrailerAt,
   Listed!TargetAt, TargetAt, Listed!NameAt, NameAt, Listed!AclTail, AclTail,
   Listed!TextSpan, TextSpan, Listed!RoundUp, RoundUp, Listed!Least, Least,
   Listed!HeaderSize, HeaderSize, Listed!TrailerSize, TrailerSize, Listed!InlineAcl, InlineAcl

LEMMA StrictInPlace ==
  ASSUME ListInv, InStep, phase # "done"
  PROVE  OnTrack \/ CutOff
BY DEF ListInv, TrackInv, OffTrack

\* What the abstract module sees of a strict scan.
LEMMA StrictView ==
  ASSUME ListInv, InStep, mode' = mode, image' = image
  PROVE  /\ Listed!Remaining <=> NextIndex <= Len(image.entries)
         /\ Listed!NextEntry = image.entries[NextIndex]
         /\ phase # "done" => outcome = "none"
         /\ InStep'
<1>1. Len(records) \in Nat /\ Len(image.entries) \in Nat
  BY ImageFacts DEF ListInv, TypeOK
<1>2. QED
  BY <1>1 DEF Listed!Remaining, Listed!NextEntry, NextIndex, ListInv, TrackInv, Pending, InStep

LEMMA ListsNext ==
  ASSUME ListInv, ~ShortReads, InStep, PushRecord
  PROVE  Listed!List
<1>1. /\ phase = "payload" /\ records' = Append(records, NewRecord)
      /\ UNCHANGED <<image, mode, outcome>>
  BY DEF PushRecord, SkipPayload
<1>2. OnTrack
  BY <1>1, StrictInPlace DEF CutOff
<1>3. /\ records \in Seq(Record) /\ Len(records) \in Nat
  BY DEF ListInv, TypeOK
<1>4. Agreed'
  <2>1. NextIndex \in 1 .. Len(image.entries)
    BY <1>1, <1>2, InsideEntry DEF ListInv
  <2>2. QED BY <1>2, <2>1, TrackPush DEF OnTrack, ListInv, InStep, AclsFit
<1>5. Len(records') = NextIndex /\ records'[NextIndex] = NewRecord
  BY <1>1, <1>3 DEF NextIndex
<1>6. NextIndex \in 1 .. Len(records')
  BY <1>3, <1>5 DEF NextIndex
<1>7. NextIndex \in Leading(image) /\ NewRecord = Listing(image.entries[NextIndex])
  BY <1>1, <1>4, <1>5, <1>6 DEF Agreed
<1>8. NextIndex <= Len(image.entries) /\ Listable(image.entries[NextIndex].hdr)
  BY <1>7, ImageFacts DEF Leading, ListInv, TypeOK
<1>9. QED
  BY <1>1, <1>7, <1>8, StrictView, SameLayout DEF Listed!List

LEMMA EndsInside ==
  ASSUME ListInv, InStep, EndOfStream
  PROVE  Listed!Complete
<1>1. phase # "done" /\ outcome' = "ok" /\ UNCHANGED <<image, mode, records>>
  BY DEF EndOfStream, Return
<1>2. NextIndex > Len(image.entries) \/ EntryCut
  BY <1>1, StrictInPlace, TrackEndOfStream DEF CutOff, ListInv
<1>3. NextIndex \in Nat /\ Len(image.entries) \in Nat
  BY ImageFacts DEF ListInv, TypeOK, NextIndex
<1>4. ~Listed!Remaining \/ image.len < Listed!EntryEnd(Listed!NextEntry)
  BY <1>1, <1>2, <1>3, StrictView, SameLayout DEF EntryCut
<1>5. QED BY <1>1, <1>4, StrictView DEF Listed!Complete

LEMMA EndsAtOffset ==
  ASSUME ListInv, InStep, StopAtOffset
  PROVE  Listed!Complete
<1>1. /\ phase = "payload" /\ cur.hdr.marker = "offset" /\ outcome' = "ok"
      /\ UNCHANGED <<image, mode, records>>
  BY DEF StopAtOffset, SkipPayload
<1>2. OnTrack
  BY <1>1, StrictInPlace DEF CutOff
<1>3. PICK e \in Entry : e = image.entries[NextIndex]
  BY <1>1, <1>2, InsideEntry DEF ListInv
<1>4. InPlace(e)
  BY <1>1, <1>2, <1>3, InsideEntry DEF ListInv
<1>5. e.hdr.marker = "offset" /\ e.hdr.magic # "unknown"
  BY <1>1, <1>4 DEF InPlace, Malformed
<1>6. e.hdr.magic = "known"
  BY <1>5 DEF Entry, Header
<1>7. QED BY <1>1, <1>3, <1>5, <1>6, StrictView DEF Listed!Complete

LEMMA RefusesMalformed ==
  ASSUME ListInv, InStep, RejectHeader
  PROVE  Listed!Refuse
<1>1. phase = "header" /\ UNCHANGED <<image, mode, records>>
  BY DEF RejectHeader
<1>2. OnTrack
  BY <1>1, StrictInPlace DEF CutOff
<1>3. /\ NextIndex \in 1 .. Len(image.entries)
      /\ HeadersAt(pos) = {image.entries[NextIndex].hdr}
  BY <1>2, TrackHeader DEF ListInv
<1>4. Malformed(image.entries[NextIndex].hdr) /\ outcome' \in {"invalid_record", "invalid_magic"}
  BY <1>3 DEF RejectHeader, InStep
<1>5. NextIndex <= Len(image.entries)
  BY <1>3, ImageFacts DEF ListInv, TypeOK
<1>6. QED BY <1>1, <1>4, <1>5, StrictView DEF Listed!Refuse, Malformed

LEMMA Fails ==
  ASSUME ListInv, InStep, Panic \/ IoFailure
  PROVE  Listed!Fail
<1>1. phase # "done" /\ outcome' \in {"io_error", "panic"} /\ UNCHANGED <<image, mode, records>>
  BY DEF Panic, IoFailure, Return
<1>2. QED BY <1>1, StrictView DEF Listed!Fail

\* Every step is a step of the listing, or none.
LEMMA StepLists ==
  ASSUME ~ShortReads, ListInv, [Next]_vars
  PROVE  [Listed!ListingNext]_Listed!listingVars
<1>1. image' = image /\ mode' = mode /\ InStep' = InStep
  BY ChunkMoves DEF ListInv, InStep, Next, Step, EndOfStream, IoFailure, ReadHeader, RejectHeader,
     ReadTrailer, ReadAcl, PushRecord, StopAtOffset, SkipPayload, Panic, Return, vars
<1>2. CASE ~InStep
  BY <1>1, <1>2 DEF Listed!listingVars, InStep
<1>3. CASE InStep
  <2>1. CASE ReadHeader \/ ReadTrailer \/ ReadAcl \/ UNCHANGED vars
    BY <1>1, <2>1 DEF ReadHeader, ReadTrailer, ReadAcl, vars, Listed!listingVars
  <2>2. CASE ReadText
    BY <1>1, <2>2, ChunkMoves DEF ListInv, Listed!listingVars
  <2>3. CASE PushRecord
    BY <1>3, <2>3, ListsNext DEF Listed!ListingNext
  <2>4. CASE EndOfStream
    BY <1>3, <2>4, EndsInside DEF Listed!ListingNext
  <2>5. CASE StopAtOffset
    BY <1>3, <2>5, EndsAtOffset DEF Listed!ListingNext
  <2>6. CASE RejectHeader
    BY <1>3, <2>6, RefusesMalformed DEF Listed!ListingNext
  <2>7. CASE Panic \/ IoFailure
    BY <1>3, <2>7, Fails DEF Listed!ListingNext
  <2>8. QED BY <2>1, <2>2, <2>3, <2>4, <2>5, <2>6, <2>7 DEF Next, Step
<1>4. QED BY <1>2, <1>3

(* Strict scanning of any archive that follows the layout, however long it    *)
(* is, wherever it is cut off and whatever fails, implements the listing of   *)
(* ArchiveListing (archive.rs, read_records and read_next_record).            *)
THEOREM ImplementsListing ==
  ASSUME ~ShortReads
  PROVE  Spec => StrictListing
<1>1. Init => ListInv
  BY InitTypes, TrackInit DEF ListInv
<1>2. ListInv /\ [Next]_vars => ListInv'
  BY StepTypes, TrackStep DEF ListInv
<1>3. Init => Listed!ListingInit
  BY DEF Init, Listed!ListingInit
<1>4. ListInv /\ [Next]_vars => [Listed!ListingNext]_Listed!listingVars
  BY StepLists
<1>5. QED BY <1>1, <1>2, <1>3, <1>4, PTL DEF Spec, StrictListing, Listed!ListingSpec
=============================================================================
