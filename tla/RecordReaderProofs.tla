--------------------------- MODULE RecordReaderProofs ---------------------------
(***************************************************************************)
(* Readers of record data, for archives of any number of records, cut off  *)
(* anywhere, and any sequence of readers over the one stream: each         *)
(* delivers the content of its own record.                                 *)
(***************************************************************************)
EXTENDS RecordReader, SequenceTheorems, TLAPS

Indexes == 1 .. Len(archive.records)

\* Where the data begin that a reader delivers, behind the table or with it.
Skip == IF Decodes THEN Rec(of).table ELSE 0

\* A decoder has delivered, or keeps, all that the bytes it fetched complete.
DecodedSoFar ==
  /\ Len(delivered) + Len(kept) = Done(Rec(of), pos - Rec(of).at - Rec(of).table)
  /\ \A k \in 1 .. Len(delivered) : delivered[k] = Decoded(of, k)
  /\ \A k \in 1 .. Len(kept) : kept[k] = Decoded(of, Len(delivered) + k)

\* A raw reader has delivered the bytes it has passed.
ReadSoFar ==
  /\ kept = <<>>
  /\ Len(delivered) = pos - Rec(of).at
  /\ \A k \in 1 .. Len(delivered) : delivered[k] = StoredByte(of, k)

\* An open reader stands within the data of its record, and its limit is
\* exactly what is left of them; so also when a decoder is out of step.
InPlace ==
  /\ pos \in Rec(of).at + Skip .. Rec(of).at + Present(Rec(of))
  /\ limit = Rec(of).at + Stored(Rec(of)) - pos
  /\ failures = 0 => IF Decodes THEN DecodedSoFar ELSE ReadSoFar

IInv ==
  /\ archive \in Archives
  /\ TypeOK
  /\ of = 0 <=> state = "none"
  /\ state = "none" => delivered = <<>>
  /\ state = "open" => InPlace
  /\ failures > 0 => of # 0 /\ Decodes
  /\ failures = 0 => garbled = <<>>
  /\ state = "ended" /\ failures = 0 => delivered = Content(of, raw)

-----------------------------------------------------------------------------
(* The records.                                                            *)

LEMMA ElementType ==
  ASSUME NEW S, NEW s \in Seq(S), NEW k \in 1 .. Len(s)
  PROVE  s[k] \in S
OBVIOUS

LEMMA ArchiveFacts ==
  ASSUME archive \in Archives
  PROVE  /\ archive.records \in Seq(Record) /\ archive.len \in Nat
         /\ Len(archive.records) \in Nat
         /\ \A i \in Indexes : Rec(i) \in Record
BY ReaderConstantsOK, ElementType DEF Indexes, Rec

LEMMA RecordFacts ==
  ASSUME archive \in Archives, NEW i \in Indexes
  PROVE  /\ Rec(i) \in Record
         /\ Rec(i).at \in Nat /\ Rec(i).table \in Nat
         /\ Rec(i).done \in Seq(Nat) /\ Len(Rec(i).done) \in Nat
         /\ Stored(Rec(i)) \in Nat /\ Stored(Rec(i)) = Rec(i).table + Len(Rec(i).done)
<1>1. Rec(i) \in Record
  BY ArchiveFacts
<1>2. Rec(i).at \in Nat /\ Rec(i).table \in Nat /\ Rec(i).done \in Seq(Nat)
  BY <1>1 DEF Record
<1>3. QED BY <1>1, <1>2 DEF Stored

\* Bytes that are further on complete no fewer symbols.
LEMMA DoneFacts ==
  ASSUME archive \in Archives, NEW i \in Indexes, NEW k \in Int, k <= Len(Rec(i).done)
  PROVE  /\ Done(Rec(i), k) \in Nat
         /\ k <= 0 => Done(Rec(i), k) = 0
         /\ \A j \in Int : j <= k => Done(Rec(i), j) <= Done(Rec(i), k)
<1> DEFINE r == Rec(i)
<1>1. r.done \in Seq(Nat) /\ Len(r.done) \in Nat
  BY RecordFacts
<1>2. \A n \in Int : n <= Len(r.done) => Done(r, n) \in Nat /\ (n <= 0 => Done(r, n) = 0)
  <2> SUFFICES ASSUME NEW n \in Int, n <= Len(r.done)
               PROVE  Done(r, n) \in Nat /\ (n <= 0 => Done(r, n) = 0)
    OBVIOUS
  <2>1. CASE n <= 0
    BY <2>1 DEF Done
  <2>2. CASE n > 0
    <3>1. r.done[n] \in Nat
      BY <1>1, <2>2, ElementType
    <3>2. QED BY <2>2, <3>1 DEF Done
  <2>3. QED BY <2>1, <2>2
<1>3. \A n \in 1 .. Len(r.done) : \A j \in 0 .. n : Done(r, j) <= Done(r, n)
  BY ReaderConstantsOK DEF Indexes, Rec
<1>4. ASSUME NEW j \in Int, j <= k PROVE Done(r, j) <= Done(r, k)
  <2> HIDE DEF r
  <2>1. CASE j <= 0
    <3>1. Done(r, j) = 0 /\ Done(r, k) \in Nat
      BY <1>1, <1>2, <1>4, <2>1 DEF r
    <3>2. QED BY <3>1
  <2>2. CASE j > 0
    BY <1>1, <1>3, <1>4, <2>2 DEF r
  <2>3. QED BY <2>1, <2>2
<1>5. QED BY <1>2, <1>4

LEMMA PresentFacts ==
  ASSUME archive \in Archives, NEW i \in Indexes
  PROVE  /\ Present(Rec(i)) \in 0 .. Stored(Rec(i))
         /\ Rec(i).at + Present(Rec(i)) < archive.len => Present(Rec(i)) = Stored(Rec(i))
         /\ Present(Rec(i)) > 0 => Rec(i).at + Present(Rec(i)) <= archive.len
BY ArchiveFacts, RecordFacts DEF Present, Smaller

LEMMA SmallerIsFirst ==
  ASSUME NEW a \in Int, NEW b \in Int, a <= b
  PROVE  Smaller(a, b) = a
BY DEF Smaller

\* Records do not overlap, so a byte belongs to one of them at most.
LEMMA OwnByte ==
  ASSUME archive \in Archives, NEW i \in Indexes, NEW p \in Nat, Owns(i, p)
  PROVE  RawByte(p) = StoredByte(i, p - Rec(i).at + 1)
<1>1. ASSUME NEW j \in Indexes, Owns(j, p) PROVE j = i
  <2>1. \A a, b \in Indexes : a < b => Rec(a).at + Stored(Rec(a)) <= Rec(b).at
    BY ReaderConstantsOK DEF Indexes, Rec
  <2>2. /\ Rec(i).at \in Nat /\ Stored(Rec(i)) \in Nat
        /\ Rec(j).at \in Nat /\ Stored(Rec(j)) \in Nat
    BY RecordFacts
  <2>3. i \in Int /\ j \in Int
    BY ArchiveFacts DEF Indexes
  <2>4. QED BY <1>1, <2>1, <2>2, <2>3 DEF Owns
<1>2. Owner(p) = {i}
  BY <1>1 DEF Owner, Indexes
<1>3. (CHOOSE o \in Owner(p) : TRUE) = i
  BY <1>2
<1>4. QED BY <1>2, <1>3 DEF RawByte

LEMMA BytesAreBytes ==
  ASSUME archive \in Archives
  PROVE  /\ \A i, k \in Nat : StoredByte(i, k) \in Byte /\ Decoded(i, k) \in Byte
         /\ Foreign \in Byte
BY DEF StoredByte, Decoded, Foreign, Byte

LEMMA ContentFacts ==
  ASSUME archive \in Archives, NEW i \in Indexes, NEW asIs \in BOOLEAN
  PROVE  /\ Content(i, asIs) \in Seq(Byte)
         /\ Rec(i).magic = "huffman" /\ ~asIs =>
              /\ Len(Content(i, asIs)) = Done(Rec(i), Present(Rec(i)) - Rec(i).table)
              /\ \A k \in 1 .. Len(Content(i, asIs)) : Content(i, asIs)[k] = Decoded(i, k)
         /\ ~(Rec(i).magic = "huffman" /\ ~asIs) =>
              /\ Len(Content(i, asIs)) = Present(Rec(i))
              /\ \A k \in 1 .. Len(Content(i, asIs)) : Content(i, asIs)[k] = StoredByte(i, k)
<1>1. i \in Nat
  BY ArchiveFacts DEF Indexes
<1>2. Present(Rec(i)) \in Nat
  BY PresentFacts, RecordFacts
<1>3. Done(Rec(i), Present(Rec(i)) - Rec(i).table) \in Nat
  <2>1. Present(Rec(i)) - Rec(i).table <= Len(Rec(i).done)
    BY PresentFacts, RecordFacts
  <2>2. QED BY <1>2, <2>1, RecordFacts, DoneFacts
<1>4. CASE Rec(i).magic = "huffman" /\ ~asIs
  <2> DEFINE n == Done(Rec(i), Present(Rec(i)) - Rec(i).table)
  <2>1. Content(i, asIs) = [k \in 1 .. n |-> Decoded(i, k)]
    BY <1>4 DEF Content
  <2> HIDE DEF n
  <2>2. n \in Nat
    BY <1>3 DEF n
  <2>3. QED BY <1>1, <1>4, <2>1, <2>2, BytesAreBytes DEF n
<1>5. CASE ~(Rec(i).magic = "huffman" /\ ~asIs)
  <2>1. Content(i, asIs) = [k \in 1 .. Present(Rec(i)) |-> StoredByte(i, k)]
    BY <1>5 DEF Content
  <2>2. QED BY <1>1, <1>2, <1>5, <2>1, BytesAreBytes
<1>6. QED BY <1>4, <1>5

\* A sequence that agrees with the content as far as it goes is its beginning.
LEMMA Beginning ==
  ASSUME NEW c \in Seq(Byte), NEW s \in Seq(Byte), Len(s) <= Len(c),
         \A k \in 1 .. Len(s) : s[k] = c[k]
  PROVE  s = SubSeq(c, 1, Len(s)) /\ (Len(s) = Len(c) => s = c)
<1>1. \A k \in 1 .. Len(s) : c[k] \in Byte
  OBVIOUS
<1>2. /\ SubSeq(c, 1, Len(s)) \in Seq(Byte)
      /\ Len(SubSeq(c, 1, Len(s))) = Len(s)
      /\ \A k \in 1 .. Len(s) : SubSeq(c, 1, Len(s))[k] = c[k]
  BY <1>1, SubSeqProperties
<1>3. s = SubSeq(c, 1, Len(s))
  BY <1>2, SeqEqual
<1>4. Len(s) = Len(c) => s = c
  BY SeqEqual
<1>5. QED BY <1>3, <1>4

\* What is delivered of an open reader is a beginning of the content.
LEMMA DeliversContent ==
  ASSUME IInv, state = "open", failures = 0
  PROVE  /\ of \in Indexes /\ delivered \in Seq(Byte) /\ Content(of, raw) \in Seq(Byte)
         /\ Len(delivered) <= Len(Content(of, raw))
         /\ delivered = SubSeq(Content(of, raw), 1, Len(delivered))
         /\ kept = <<>> /\ pos = Rec(of).at + Present(Rec(of)) => delivered = Content(of, raw)
<1> DEFINE r == Rec(of)
           c == Content(of, raw)
<1>1. archive \in Archives /\ TypeOK /\ InPlace /\ of \in Indexes /\ raw \in BOOLEAN
  BY DEF IInv, TypeOK, Indexes
<1>2. delivered \in Seq(Byte) /\ kept \in Seq(Byte) /\ c \in Seq(Byte)
  BY <1>1, ContentFacts DEF TypeOK
<1>3. /\ r.at \in Nat /\ r.table \in Nat /\ pos \in Nat /\ Len(r.done) \in Nat
      /\ Present(r) \in Nat /\ Present(r) - r.table <= Len(r.done)
  BY <1>1, RecordFacts, PresentFacts DEF TypeOK
<1>4. CASE Decodes
  <2>1. /\ Len(c) = Done(r, Present(r) - r.table)
        /\ \A k \in 1 .. Len(c) : c[k] = Decoded(of, k)
    BY <1>1, <1>4, ContentFacts DEF Decodes
  <2>2. DecodedSoFar /\ pos - r.at <= Present(r)
    BY <1>1, <1>3, <1>4 DEF InPlace
  <2>3. /\ pos - r.at - r.table \in Int
        /\ Present(r) - r.table \in Int
        /\ pos - r.at - r.table <= Present(r) - r.table
    BY <1>3, <2>2
  <2>4. Done(r, pos - r.at - r.table) <= Done(r, Present(r) - r.table)
    BY <1>1, <1>3, <2>3, DoneFacts
  <2>5. /\ Done(r, Present(r) - r.table) \in Nat
        /\ Done(r, pos - r.at - r.table) \in Nat
    <3>1. pos - r.at - r.table <= Len(r.done)
      BY <1>3, <2>3
    <3>2. QED BY <1>1, <1>3, <2>3, <3>1, DoneFacts
  <2>6. Len(delivered) + Len(kept) = Done(r, pos - r.at - r.table)
    BY <2>2 DEF DecodedSoFar
  <2> HIDE DEF r, c
  <2>7. Len(delivered) <= Len(c) /\ \A k \in 1 .. Len(delivered) : delivered[k] = c[k]
    <3>1. Len(delivered) <= Len(c)
      BY <1>2, <2>1, <2>4, <2>5, <2>6
    <3>2. QED BY <1>2, <2>1, <2>2, <3>1 DEF DecodedSoFar
  <2>8. ASSUME kept = <<>>, pos = r.at + Present(r) PROVE Len(delivered) = Len(c)
    <3>1. pos - r.at - r.table = Present(r) - r.table
      BY <1>3, <2>8
    <3>2. Len(kept) = 0
      BY <2>8
    <3>3. QED BY <1>2, <2>1, <2>5, <2>6, <3>1, <3>2
  <2>9. QED BY <1>1, <1>2, <2>7, <2>8, Beginning DEF r, c
<1>5. CASE ~Decodes
  <2>1. /\ Len(c) = Present(r)
        /\ \A k \in 1 .. Len(c) : c[k] = StoredByte(of, k)
    BY <1>1, <1>5, ContentFacts DEF Decodes
  <2>2. ReadSoFar /\ pos - r.at <= Present(r)
    BY <1>1, <1>3, <1>5 DEF InPlace
  <2> HIDE DEF r, c
  <2>3. Len(delivered) <= Len(c) /\ \A k \in 1 .. Len(delivered) : delivered[k] = c[k]
    BY <1>2, <2>1, <2>2 DEF ReadSoFar, r
  <2>4. pos = r.at + Present(r) => Len(delivered) = Len(c)
    BY <1>3, <2>1, <2>2 DEF ReadSoFar, r
  <2>5. QED BY <1>1, <1>2, <2>3, <2>4, Beginning DEF r, c
<1>6. QED BY <1>4, <1>5

\* How much a read may take: what is left of the record.
LEMMA ReadableIsLeft ==
  ASSUME IInv, state = "open"
  PROVE  Readable = Rec(of).at + Present(Rec(of)) - pos
<1>1. archive \in Archives /\ TypeOK /\ InPlace /\ of \in Indexes
  BY DEF IInv, TypeOK, Indexes
<1>2. /\ Rec(of).at \in Nat /\ Rec(of).table \in Nat /\ Stored(Rec(of)) \in Nat
      /\ archive.len \in Nat /\ pos \in Nat /\ limit \in Nat
  BY <1>1, RecordFacts, ArchiveFacts DEF TypeOK
<1>3. /\ limit = Rec(of).at + Stored(Rec(of)) - pos
      /\ Rec(of).at <= pos /\ pos <= Rec(of).at + Present(Rec(of))
  BY <1>1, <1>2, PresentFacts DEF InPlace, Skip
<1>4. QED BY <1>2, <1>3 DEF Readable, Present, Smaller

-----------------------------------------------------------------------------
(* The steps keep the invariant.                                           *)

\* The archive stays what it is, and so do its records and their contents.
LEMMA SameArchive ==
  ASSUME archive' = archive
  PROVE  /\ Indexes' = Indexes
         /\ \A i : Rec(i)' = Rec(i)
         /\ \A i : Present(Rec(i))' = Present(Rec(i))
         /\ \A i, asIs : Content(i, asIs)' = Content(i, asIs)
<1>1. Indexes' = Indexes /\ (\A i : Rec(i)' = Rec(i))
  BY DEF Indexes, Rec
<1>2. \A i : Present(Rec(i))' = Present(Rec(i))
  BY DEF Rec, Present
<1>3. \A i, asIs : Content(i, asIs)' = Content(i, asIs)
  BY DEF Rec, Present, Content
<1>4. QED BY <1>1, <1>2, <1>3

LEMMA InitOK ==
  ASSUME Init PROVE IInv
<1>1. archive \in Archives /\ archive.len \in Nat /\ Len(archive.records) \in Nat
  BY ArchiveFacts DEF Init
<1>2. MaxOpens \in Nat /\ <<>> \in Seq(Byte)
  BY ReaderConstantsOK, EmptySeq
<1>3. TypeOK
  <2>1. pos \in Nat /\ limit \in Nat /\ opens \in 0 .. MaxOpens
    BY <1>1, <1>2 DEF Init
  <2>2. of \in 0 .. Len(archive.records)
    BY <1>1 DEF Init
  <2>3. raw \in BOOLEAN
    BY DEF Init
  <2>4. /\ kept \in Seq(Byte) /\ delivered \in Seq(Byte) /\ garbled \in Seq(Byte)
        /\ failures \in 0 .. MaxFailures
    BY <1>2, ReaderConstantsOK DEF Init
  <2>5. state \in {"none", "open", "ended", "failed"}
    BY DEF Init
  <2>6. QED BY <2>1, <2>2, <2>3, <2>4, <2>5 DEF TypeOK
<1>4. QED BY <1>1, <1>3 DEF Init, IInv

\* A reader begins behind the table and has the rest of the stored data.
LEMMA OpenOK ==
  ASSUME IInv, Open
  PROVE  IInv' /\ of' # 0 /\ delivered' = <<>> /\ state' = "open"
<1>1. PICK i \in 1 .. Len(archive.records), b \in BOOLEAN :
        /\ Opened(i, b)
        /\ LET table == IF Rec(i).magic = "huffman" /\ ~b THEN Rec(i).table ELSE 0 IN
           /\ table <= Present(Rec(i))
           /\ pos' = SeekTo(Rec(i)) + table
           /\ limit' = LimitOf(Rec(i)) - Smaller(table, LimitOf(Rec(i)))
        /\ delivered' = <<>> /\ state' = "open"
  BY DEF Open
<1>2. /\ archive' = archive /\ of' = i /\ raw' = b /\ kept' = <<>>
      /\ failures' = 0 /\ garbled' = <<>>
      /\ opens < MaxOpens /\ opens' = opens + 1 /\ archive \in Archives
  BY <1>1 DEF Opened, IInv
<1>3. /\ Rec(i).at \in Nat /\ Rec(i).table \in Nat /\ Stored(Rec(i)) \in Nat
      /\ Rec(i).table <= Stored(Rec(i)) /\ Present(Rec(i)) \in Nat
      /\ Done(Rec(i), 0) = 0 /\ i \in Nat \ {0} /\ Len(archive.records) \in Nat
  <2>1. i \in Indexes
    BY DEF Indexes
  <2>2. Len(Rec(i).done) \in Nat
    BY <1>2, <2>1, RecordFacts
  <2>3. Done(Rec(i), 0) = 0
    BY <1>2, <2>1, <2>2, DoneFacts
  <2>4. i \in Nat \ {0} /\ Len(archive.records) \in Nat
    BY <1>2, ArchiveFacts
  <2>5. /\ Rec(i).at \in Nat /\ Rec(i).table \in Nat /\ Stored(Rec(i)) \in Nat
        /\ Stored(Rec(i)) = Rec(i).table + Len(Rec(i).done)
    BY <1>2, <2>1, RecordFacts
  <2>6. Present(Rec(i)) \in 0 .. Stored(Rec(i))
    BY <1>2, <2>1, PresentFacts
  <2>7. QED BY <2>2, <2>3, <2>4, <2>5, <2>6
<1> DEFINE skip == IF Rec(i).magic = "huffman" /\ ~b THEN Rec(i).table ELSE 0
<1>4. /\ Rec(of)' = Rec(i) /\ Present(Rec(of))' = Present(Rec(i))
      /\ Decodes' <=> (Rec(i).magic = "huffman" /\ ~b)
      /\ Skip' = skip
  <2>1. Rec(of)' = Rec(i) /\ Present(Rec(of))' = Present(Rec(i))
    BY <1>2 DEF Rec, Present
  <2>2. Decodes' <=> (Rec(i).magic = "huffman" /\ ~b)
    BY <1>2, <2>1 DEF Decodes
  <2>3. QED BY <2>1, <2>2 DEF Skip
<1>5. skip \in Nat /\ skip <= Present(Rec(i)) /\ skip <= Stored(Rec(i))
  BY <1>1, <1>3
<1>6. pos' = Rec(i).at + skip /\ limit' = Stored(Rec(i)) - skip
  BY <1>1, <1>3, <1>5 DEF SeekTo, LimitOf, Smaller
<1>7. InPlace'
  <2>1. /\ pos' \in Rec(i).at + skip .. Rec(i).at + Present(Rec(i))
        /\ limit' = Rec(i).at + Stored(Rec(i)) - pos'
    <3> HIDE DEF skip
    <3>1. QED BY <1>3, <1>5, <1>6
  <2>2. CASE Rec(i).magic = "huffman" /\ ~b
    <3>1. pos' - Rec(i).at - Rec(i).table = 0
      BY <1>3, <1>6, <2>2
    <3>2. DecodedSoFar'
      BY <1>1, <1>2, <1>3, <1>4, <3>1 DEF DecodedSoFar
    <3>3. QED BY <1>4, <2>1, <2>2, <3>2 DEF InPlace
  <2>3. CASE ~(Rec(i).magic = "huffman" /\ ~b)
    <3>1. ReadSoFar'
      BY <1>1, <1>2, <1>3, <1>4, <1>6, <2>3 DEF ReadSoFar
    <3>2. QED BY <1>4, <2>1, <2>3, <3>1 DEF InPlace
  <2>4. QED BY <2>2, <2>3
<1>8. TypeOK'
  <2>1. pos' \in Nat /\ limit' \in Nat
    <3> HIDE DEF skip
    <3>1. QED BY <1>3, <1>5, <1>6
  <2>2. opens' \in 0 .. MaxOpens /\ failures' \in 0 .. MaxFailures
    BY <1>2, ReaderConstantsOK DEF IInv, TypeOK
  <2>3. QED BY <1>1, <1>2, <1>3, <2>1, <2>2 DEF TypeOK
<1>9. QED BY <1>1, <1>2, <1>3, <1>7, <1>8 DEF IInv

LEMMA OpenFailsOK ==
  ASSUME IInv, OpenFails
  PROVE  IInv' /\ of' # 0 /\ delivered' = <<>> /\ state' = "failed"
<1>1. PICK i \in 1 .. Len(archive.records), b \in BOOLEAN :
        /\ Opened(i, b)
        /\ delivered' = <<>> /\ limit' = 0 /\ state' = "failed"
        /\ pos' = pos \/ pos' \in Rec(i).at ..
                           Rec(i).at + Smaller(Rec(i).table, Present(Rec(i)))
  BY DEF OpenFails
<1>2. /\ archive' = archive /\ of' = i /\ raw' = b /\ kept' = <<>>
      /\ failures' = 0 /\ garbled' = <<>>
      /\ opens < MaxOpens /\ opens' = opens + 1 /\ archive \in Archives
  BY <1>1 DEF Opened, IInv
<1>3. /\ Rec(i).at \in Nat /\ Rec(i).table \in Nat /\ Present(Rec(i)) \in Nat
      /\ i \in Nat \ {0} /\ Len(archive.records) \in Nat
  <2>1. i \in Indexes
    BY DEF Indexes
  <2>2. QED BY <1>2, <2>1, RecordFacts, PresentFacts, ArchiveFacts DEF Indexes
<1>4. pos' \in Nat /\ opens' \in 0 .. MaxOpens /\ failures' \in 0 .. MaxFailures
  BY <1>1, <1>2, <1>3, ReaderConstantsOK DEF Smaller, IInv, TypeOK
<1>5. TypeOK'
  BY <1>1, <1>2, <1>3, <1>4 DEF TypeOK
<1>6. QED BY <1>1, <1>2, <1>3, <1>5 DEF IInv

LEMMA ReadTextOK ==
  ASSUME IInv, ReadText
  PROVE  /\ IInv' /\ of' # 0 /\ failures' = 0
         /\ delivered' = Content(of, raw)' /\ state' = "ended"
<1>1. PICK i \in 1 .. Len(archive.records) :
        /\ Opened(i, TRUE)
        /\ delivered' = Content(i, TRUE)
        /\ pos' = Rec(i).at + Present(Rec(i))
        /\ limit' = Stored(Rec(i)) - Present(Rec(i))
        /\ state' = "ended"
  BY DEF ReadText
<1>2. /\ archive' = archive /\ of' = i /\ raw' = TRUE /\ kept' = <<>>
      /\ failures' = 0 /\ garbled' = <<>>
      /\ opens < MaxOpens /\ opens' = opens + 1 /\ archive \in Archives
  BY <1>1 DEF Opened, IInv
<1>3. /\ Rec(i).at \in Nat /\ Stored(Rec(i)) \in Nat
      /\ Present(Rec(i)) \in 0 .. Stored(Rec(i))
      /\ i \in Nat \ {0} /\ Len(archive.records) \in Nat
      /\ Content(i, TRUE) \in Seq(Byte)
  <2>1. i \in Indexes
    BY DEF Indexes
  <2>2. Content(i, TRUE) \in Seq(Byte)
    BY <1>2, <2>1, ContentFacts
  <2>3. i \in Nat \ {0} /\ Len(archive.records) \in Nat
    BY <1>2, ArchiveFacts
  <2>4. QED BY <1>2, <2>1, <2>2, <2>3, RecordFacts, PresentFacts
<1>4. delivered' = Content(of, raw)'
  BY <1>1, <1>2 DEF Content, Rec, Present
<1>5. /\ pos' \in Nat /\ limit' \in Nat /\ opens' \in 0 .. MaxOpens
      /\ failures' \in 0 .. MaxFailures
  BY <1>1, <1>2, <1>3, ReaderConstantsOK DEF IInv, TypeOK
<1>6. TypeOK'
  <2>1. kept' \in Seq(Byte) /\ delivered' \in Seq(Byte) /\ garbled' \in Seq(Byte)
    BY <1>1, <1>2, <1>3, EmptySeq
  <2>2. of' \in 0 .. Len(archive'.records) /\ raw' \in BOOLEAN
    BY <1>2, <1>3
  <2>3. QED BY <1>1, <1>5, <2>1, <2>2 DEF TypeOK
<1>7. of' # 0 /\ ~(failures' > 0) /\ (of = 0 <=> state = "none")'
  BY <1>1, <1>2, <1>3
<1>8. QED BY <1>1, <1>2, <1>4, <1>6, <1>7 DEF IInv

\* The definitions that only depend on the archive and the reader stay.
LEMMA SameReader ==
  ASSUME UNCHANGED <<archive, of, raw>>
  PROVE  /\ Rec(of)' = Rec(of) /\ Present(Rec(of))' = Present(Rec(of))
         /\ Decodes' = Decodes /\ Skip' = Skip
         /\ Content(of, raw)' = Content(of, raw)
<1>1. Rec(of)' = Rec(of) /\ Present(Rec(of))' = Present(Rec(of))
  BY DEF Rec, Present
<1>2. Decodes' = Decodes
  BY DEF Decodes, Rec
<1>3. Skip' = Skip
  BY <1>1, <1>2 DEF Skip
<1>4. Content(of, raw)' = Content(of, raw)
  BY DEF Content, Rec, Present
<1>5. QED BY <1>1, <1>2, <1>3, <1>4

\* The bytes that are read next are the next ones of the record.
LEMMA ReadRawOK ==
  ASSUME IInv, ReadRaw
  PROVE  IInv' /\ UNCHANGED <<archive, of, raw, failures, state>> /\ state = "open"
         /\ failures = 0 /\ Len(delivered) <= Len(delivered')
<1> DEFINE r == Rec(of)
<1>1. PICK buf \in BufSizes : \E n \in 1 .. Smaller(buf, Readable) :
       /\ Handed([k \in 1 .. n |-> RawByte(pos + k - 1)])
       /\ pos' = pos + n
       /\ limit' = limit - n
  BY DEF ReadRaw
<1>2. PICK n \in 1 .. Smaller(buf, Readable) :
       /\ Handed([k \in 1 .. n |-> RawByte(pos + k - 1)])
       /\ pos' = pos + n
       /\ limit' = limit - n
  BY <1>1
<1>3. /\ archive \in Archives /\ TypeOK /\ InPlace /\ of \in Indexes
      /\ state = "open" /\ ~Decodes
      /\ failures = 0 /\ garbled = <<>> /\ failures' = failures /\ garbled' = garbled
      /\ UNCHANGED <<archive, opens, of, raw, kept, state>>
  <2>1. failures = 0
    <3>1. ~Decodes /\ failures \in 0 .. MaxFailures /\ MaxFailures \in Nat
      BY ReaderConstantsOK DEF IInv, TypeOK, ReadRaw
    <3>2. QED BY <3>1 DEF IInv
  <2>2. QED BY <1>2, <2>1 DEF IInv, TypeOK, Indexes, ReadRaw, Handed
<1>4. /\ r.at \in Nat /\ Stored(r) \in Nat /\ Present(r) \in 0 .. Stored(r)
      /\ pos \in Nat /\ limit \in Nat /\ of \in Nat
      /\ delivered \in Seq(Byte) /\ Len(delivered) \in Nat
  BY <1>3, RecordFacts, PresentFacts, ArchiveFacts DEF TypeOK, Indexes
<1>5. n \in Nat \ {0} /\ n <= r.at + Present(r) - pos
  <2>1. Readable = r.at + Present(r) - pos /\ buf \in Nat
    BY <1>3, ReadableIsLeft, ReaderConstantsOK
  <2> HIDE DEF r
  <2>2. QED BY <1>2, <1>4, <2>1 DEF Smaller
<1>6. /\ ReadSoFar
      /\ r.at <= pos /\ pos <= r.at + Present(r) /\ limit = r.at + Stored(r) - pos
  BY <1>3, <1>4 DEF InPlace, Skip
<1> DEFINE more == [k \in 1 .. n |-> StoredByte(of, pos - r.at + k)]
<1>7. [k \in 1 .. n |-> RawByte(pos + k - 1)] = more
  <2>1. ASSUME NEW k \in 1 .. n PROVE RawByte(pos + k - 1) = StoredByte(of, pos - r.at + k)
    <3> DEFINE p == pos + k - 1
    <3>1. p \in Nat /\ p - r.at + 1 = pos - r.at + k
      BY <1>4, <1>5
    <3>2. Owns(of, p)
      BY <1>4, <1>5, <1>6 DEF Owns
    <3> HIDE DEF p, r, Indexes
    <3>3. archive \in Archives /\ of \in Indexes
      BY <1>3
    <3>4. RawByte(p) = StoredByte(of, p - Rec(of).at + 1)
      BY <3>1, <3>2, <3>3, OwnByte
    <3>5. RawByte(p) = StoredByte(of, pos - r.at + k)
      BY <3>1, <3>4 DEF r
    <3>6. QED BY <3>5 DEF p
  <2>2. QED BY <2>1
<1> HIDE DEF r
<1>8. /\ more \in Seq(Byte) /\ Len(more) = n
      /\ \A k \in 1 .. n : more[k] = StoredByte(of, pos - r.at + k)
  <2>1. \A k \in 1 .. n : pos - r.at + k \in Nat
    BY <1>4, <1>5, <1>6
  <2>2. of \in Nat
    BY <1>3, ArchiveFacts DEF Indexes
  <2>3. \A k \in 1 .. n : StoredByte(of, pos - r.at + k) \in Byte
    BY <1>3, <2>1, <2>2, BytesAreBytes
  <2>4. QED BY <1>5, <2>3
<1> HIDE DEF more
<1>9. delivered' = delivered \o more
  BY <1>2, <1>3, <1>7 DEF Handed
<1>10. /\ delivered' \in Seq(Byte) /\ Len(delivered') = Len(delivered) + n
       /\ \A k \in 1 .. Len(delivered') : delivered'[k] = StoredByte(of, k)
  <2>1. /\ delivered' \in Seq(Byte) /\ Len(delivered') = Len(delivered) + n
        /\ \A k \in 1 .. Len(delivered) + n :
             delivered'[k] = IF k <= Len(delivered) THEN delivered[k] ELSE more[k - Len(delivered)]
    BY <1>4, <1>8, <1>9, ConcatProperties
  <2>2. Len(delivered) = pos - r.at
    BY <1>6 DEF ReadSoFar, r
  <2>3. ASSUME NEW k \in 1 .. Len(delivered) + n PROVE delivered'[k] = StoredByte(of, k)
    <3>1. CASE k <= Len(delivered)
      <4>1. delivered'[k] = delivered[k] /\ k \in 1 .. Len(delivered)
        BY <1>4, <1>5, <2>1, <3>1
      <4>2. QED BY <1>6, <4>1 DEF ReadSoFar
    <3>2. CASE k > Len(delivered)
      <4>1. k - Len(delivered) \in 1 .. n /\ pos - r.at + (k - Len(delivered)) = k
        BY <1>4, <1>5, <2>2, <3>2
      <4>2. delivered'[k] = more[k - Len(delivered)]
        BY <1>4, <1>5, <2>1, <3>2
      <4>3. QED BY <1>8, <4>1, <4>2
    <3>3. QED BY <1>4, <3>1, <3>2
  <2>4. QED BY <2>1, <2>3
<1>11. InPlace'
  <2>1. Rec(of)' = r /\ Present(Rec(of))' = Present(r) /\ Decodes' = Decodes /\ Skip' = Skip
    BY <1>3, SameReader DEF r
  <2>2. ReadSoFar'
    <3>1. Len(delivered) = pos - r.at /\ kept' = <<>>
      BY <1>3, <1>6 DEF ReadSoFar, r
    <3>2. Len(delivered') = pos' - r.at
      BY <1>2, <1>4, <1>5, <1>10, <3>1
    <3>3. QED BY <1>3, <1>10, <2>1, <3>1, <3>2 DEF ReadSoFar
  <2>3. /\ pos' \in r.at + Skip .. r.at + Present(r)
        /\ limit' = r.at + Stored(r) - pos'
    <3>1. Skip = 0 /\ pos' = pos + n /\ limit' = limit - n
      BY <1>2, <1>3 DEF Skip
    <3>2. /\ r.at \in Int /\ Stored(r) \in Int /\ Present(r) \in Int /\ pos \in Int /\ n \in Int
          /\ n > 0 /\ n <= r.at + Present(r) - pos /\ r.at <= pos
          /\ limit = r.at + Stored(r) - pos
      BY <1>4, <1>5, <1>6
    <3>3. QED BY <3>1, <3>2
  <2>4. QED BY <1>3, <2>1, <2>2, <2>3 DEF InPlace
<1>12. TypeOK'
  <2>1. pos' \in Nat /\ limit' \in Nat
    BY <1>2, <1>4, <1>5, <1>6
  <2>2. QED BY <1>3, <1>10, <2>1 DEF TypeOK
<1>13. QED BY <1>3, <1>4, <1>5, <1>10, <1>11, <1>12 DEF IInv

\* A fetched byte completes the symbols that are kept.
LEMMA FetchByteOK ==
  ASSUME IInv, FetchByte
  PROVE  IInv' /\ UNCHANGED <<archive, of, raw, failures, delivered, state>>
<1> DEFINE r == Rec(of)
<1>1. /\ archive \in Archives /\ TypeOK /\ InPlace /\ of \in Indexes
      /\ state = "open" /\ Decodes /\ kept = <<>> /\ Readable > 0
      /\ failures = 0 /\ garbled = <<>>
      /\ kept' = Symbols(of, pos) /\ pos' = pos + 1 /\ limit' = limit - 1
      /\ UNCHANGED <<archive, opens, of, raw, failures, delivered, garbled, state>>
  BY DEF IInv, TypeOK, Indexes, FetchByte
<1>2. /\ r.at \in Nat /\ r.table \in Nat /\ Len(r.done) \in Nat
      /\ Stored(r) = r.table + Len(r.done) /\ Present(r) \in 0 .. Stored(r)
      /\ pos \in Nat /\ limit \in Nat /\ of \in Nat
      /\ delivered \in Seq(Byte) /\ Len(delivered) \in Nat
  BY <1>1, RecordFacts, PresentFacts, ArchiveFacts DEF TypeOK, Indexes
<1>3. pos < r.at + Present(r)
  <2>1. Readable = r.at + Present(r) - pos
    BY <1>1, ReadableIsLeft
  <2> HIDE DEF r
  <2>2. QED BY <1>1, <1>2, <2>1
<1>4. DecodedSoFar /\ r.at + r.table <= pos /\ limit = r.at + Stored(r) - pos
  BY <1>1, <1>2 DEF InPlace, Skip
<1> DEFINE at == r.at
           table == r.table
           n == Len(r.done)
           here == Present(r)
<1>5. /\ at \in Nat /\ table \in Nat /\ n \in Nat /\ here \in Nat
      /\ Stored(r) = table + n /\ here <= table + n
      /\ pos \in Nat /\ pos < at + here /\ at + table <= pos
      /\ limit \in Nat /\ limit = at + (table + n) - pos
      /\ pos' = pos + 1 /\ limit' = limit - 1
  BY <1>1, <1>2, <1>3, <1>4
<1> HIDE DEF at, table, n, here
<1> DEFINE k == pos - at + 1 - table
<1>6. /\ k \in Nat \ {0} /\ k <= n /\ k - 1 = pos - at - table
      /\ k = pos' - at - table
      /\ pos \in at .. at + (table + n) - 1
      /\ pos' \in at + table .. at + here
      /\ limit' = at + (table + n) - pos' /\ pos' \in Nat /\ limit' \in Nat
  BY <1>5
<1>7. k = pos - r.at + 1 - r.table /\ k - 1 = pos - r.at - r.table
      /\ k = pos' - r.at - r.table
  BY <1>6 DEF at, table
<1> HIDE DEF k
<1>8. /\ Done(r, k) \in Nat /\ Done(r, k - 1) \in Nat /\ Done(r, k - 1) <= Done(r, k)
  <2>1. k \in Int /\ k - 1 \in Int /\ k - 1 <= k /\ k <= Len(r.done) /\ k - 1 <= Len(r.done)
    BY <1>5, <1>6 DEF n
  <2>2. QED BY <1>1, <2>1, DoneFacts
<1>9. Len(delivered) = Done(r, k - 1)
  <2>1. Len(delivered) + Len(kept) = Done(r, k - 1)
    BY <1>4, <1>7 DEF DecodedSoFar
  <2>2. Len(kept) = 0
    BY <1>1
  <2> HIDE DEF r
  <2>3. QED BY <1>2, <1>8, <2>1, <2>2
<1> DEFINE new == Done(r, k) - Done(r, k - 1)
<1>10. kept' = [j \in 1 .. new |-> Decoded(of, Len(delivered) + j)]
  <2>1. Owns(of, pos) /\ k > 0
    BY <1>5, <1>6 DEF Owns, at
  <2>2. Symbols(of, pos) = [j \in 1 .. new |-> Decoded(of, Done(r, k - 1) + j)]
    BY <1>7, <2>1 DEF Symbols
  <2> HIDE DEF new
  <2>3. QED BY <1>1, <1>9, <2>2
<1> HIDE DEF r
<1>11. new \in Nat /\ Done(r, k) = Len(delivered) + new
  BY <1>2, <1>8, <1>9
<1> HIDE DEF new
<1>12. /\ kept' \in Seq(Byte) /\ Len(kept') = new
       /\ \A j \in 1 .. new : kept'[j] = Decoded(of, Len(delivered) + j)
  <2>1. \A j \in 1 .. new : Decoded(of, Len(delivered) + j) \in Byte
    BY <1>1, <1>2, <1>11, BytesAreBytes
  <2>2. QED BY <1>10, <1>11, <2>1
<1>13. Rec(of)' = r /\ Present(Rec(of))' = Present(r) /\ Decodes' = Decodes /\ Skip' = Skip
  BY <1>1, SameReader DEF r
<1>14. DecodedSoFar'
  <2>1. Len(delivered') + Len(kept') = Done(r, pos' - r.at - r.table)
    BY <1>1, <1>2, <1>7, <1>11, <1>12
  <2>2. \A j \in 1 .. Len(delivered') : delivered'[j] = Decoded(of', j)
    BY <1>1, <1>4 DEF DecodedSoFar
  <2>3. \A j \in 1 .. Len(kept') : kept'[j] = Decoded(of', Len(delivered') + j)
    BY <1>1, <1>12
  <2>4. QED BY <1>13, <2>1, <2>2, <2>3 DEF DecodedSoFar
<1>15. InPlace'
  <2>1. /\ pos' \in r.at + r.table .. r.at + Present(r)
        /\ limit' = r.at + Stored(r) - pos'
    BY <1>5, <1>6 DEF at, table, here
  <2>2. Skip = r.table
    BY <1>1 DEF Skip, r
  <2>3. QED BY <1>1, <1>13, <1>14, <2>1, <2>2 DEF InPlace
<1>16. TypeOK'
  BY <1>1, <1>6, <1>12 DEF TypeOK
<1>17. QED BY <1>1, <1>15, <1>16 DEF IInv

\* What is handed out of what is kept goes on where the last has ended.
LEMMA HandOutOK ==
  ASSUME IInv, HandOut, failures = 0
  PROVE  IInv' /\ UNCHANGED <<archive, of, raw, failures, state>> /\ state = "open"
         /\ Len(delivered) <= Len(delivered')
<1> DEFINE r == Rec(of)
<1>1. PICK buf \in BufSizes :
        /\ Handed(SubSeq(kept, 1, Smaller(buf, Len(kept))))
        /\ kept' = SubSeq(kept, Smaller(buf, Len(kept)) + 1, Len(kept))
  BY DEF HandOut
<1>2. /\ archive \in Archives /\ TypeOK /\ InPlace /\ of \in Indexes
      /\ state = "open" /\ kept # <<>> /\ failures = 0 /\ garbled = <<>>
      /\ UNCHANGED <<archive, opens, of, raw, pos, limit, failures, garbled, state>>
  BY <1>1 DEF IInv, TypeOK, Indexes, HandOut, Handed
<1>3. /\ delivered \in Seq(Byte) /\ Len(delivered) \in Nat
      /\ kept \in Seq(Byte) /\ Len(kept) \in Nat
  BY <1>2 DEF TypeOK
<1>4. DecodedSoFar /\ Decodes
  BY <1>2 DEF InPlace, ReadSoFar
<1> DEFINE n == Smaller(buf, Len(kept))
           out == SubSeq(kept, 1, n)
           rest == SubSeq(kept, n + 1, Len(kept))
<1>5. n \in Nat /\ n <= Len(kept)
  BY <1>3, ReaderConstantsOK DEF Smaller
<1>6. delivered' = delivered \o out /\ kept' = rest
  BY <1>1, <1>2 DEF Handed
<1> HIDE DEF n
<1>7. \A j \in 1 .. Len(kept) : kept[j] \in Byte
  BY <1>3, ElementType
<1>8. /\ out \in Seq(Byte) /\ Len(out) = n
      /\ \A j \in 1 .. n : out[j] = kept[j]
  <2>1. \A j \in 1 .. n : kept[j] \in Byte
    BY <1>3, <1>5, <1>7
  <2>2. /\ out \in Seq(Byte) /\ Len(out) = (IF 1 <= n THEN n - 1 + 1 ELSE 0)
        /\ \A j \in 1 .. n - 1 + 1 : out[j] = kept[1 + j - 1]
    BY <1>5, <2>1, SubSeqProperties
  <2> HIDE DEF out
  <2>3. QED BY <1>5, <2>2
<1>9. /\ rest \in Seq(Byte) /\ Len(rest) = Len(kept) - n
      /\ \A j \in 1 .. Len(kept) - n : rest[j] = kept[n + j]
  <2>1. \A j \in n + 1 .. Len(kept) : kept[j] \in Byte
    BY <1>3, <1>5, <1>7
  <2>2. /\ rest \in Seq(Byte)
        /\ Len(rest) = (IF n + 1 <= Len(kept) THEN Len(kept) - (n + 1) + 1 ELSE 0)
        /\ \A j \in 1 .. Len(kept) - (n + 1) + 1 : rest[j] = kept[n + 1 + j - 1]
    BY <1>3, <1>5, <2>1, SubSeqProperties
  <2> HIDE DEF rest
  <2>3. QED BY <1>3, <1>5, <2>2
<1> HIDE DEF out, rest
<1>10. /\ delivered' \in Seq(Byte) /\ Len(delivered') = Len(delivered) + n
       /\ \A j \in 1 .. Len(delivered) + n :
            delivered'[j] = IF j <= Len(delivered) THEN delivered[j] ELSE out[j - Len(delivered)]
  BY <1>3, <1>6, <1>8, ConcatProperties
<1>11. Rec(of)' = r /\ Present(Rec(of))' = Present(r) /\ Decodes' = Decodes /\ Skip' = Skip
  BY <1>2, SameReader
<1>12. DecodedSoFar'
  <2>1. Len(delivered') + Len(kept') = Len(delivered) + Len(kept)
    BY <1>3, <1>5, <1>6, <1>9, <1>10
  <2>2. ASSUME NEW j \in 1 .. Len(delivered') PROVE delivered'[j] = Decoded(of, j)
    <3>1. CASE j <= Len(delivered)
      <4>1. delivered'[j] = delivered[j] /\ j \in 1 .. Len(delivered)
        BY <1>3, <1>5, <1>10, <3>1
      <4>2. QED BY <1>4, <4>1 DEF DecodedSoFar
    <3>2. CASE j > Len(delivered)
      <4> DEFINE m == j - Len(delivered)
      <4>1. m \in 1 .. n /\ m \in 1 .. Len(kept) /\ Len(delivered) + m = j
        BY <1>3, <1>5, <1>10, <3>2
      <4>2. delivered'[j] = out[m]
        BY <1>3, <1>5, <1>10, <3>2
      <4> HIDE DEF m
      <4>3. kept[m] = Decoded(of, Len(delivered) + m)
        BY <1>4, <4>1 DEF DecodedSoFar
      <4>4. QED BY <1>8, <4>1, <4>2, <4>3
    <3>3. QED BY <1>3, <1>10, <3>1, <3>2
  <2>3. ASSUME NEW j \in 1 .. Len(kept') PROVE kept'[j] = Decoded(of, Len(delivered') + j)
    <3> DEFINE m == n + j
    <3>1. /\ m \in 1 .. Len(kept) /\ j \in 1 .. Len(kept) - n
          /\ Len(delivered) + m = Len(delivered') + j
      BY <1>3, <1>5, <1>6, <1>9, <1>10
    <3>2. kept'[j] = kept[m]
      BY <1>6, <1>9, <3>1
    <3> HIDE DEF m
    <3>3. kept[m] = Decoded(of, Len(delivered) + m)
      BY <1>4, <3>1 DEF DecodedSoFar
    <3>4. QED BY <3>1, <3>2, <3>3
  <2> HIDE DEF r
  <2>4. Len(delivered') + Len(kept') = Done(r, pos' - r.at - r.table)
    BY <1>2, <1>4, <2>1 DEF DecodedSoFar, r
  <2>5. QED BY <1>2, <1>11, <2>2, <2>3, <2>4 DEF DecodedSoFar
<1>13. InPlace'
  BY <1>2, <1>4, <1>11, <1>12 DEF InPlace
<1>14. TypeOK'
  BY <1>2, <1>6, <1>9, <1>10 DEF TypeOK
<1>15. QED BY <1>2, <1>3, <1>5, <1>10, <1>13, <1>14 DEF IInv

\* A decoder out of step hands out what it has made up.
LEMMA HandOutGarbledOK ==
  ASSUME IInv, HandOut, failures > 0
  PROVE  IInv' /\ UNCHANGED <<archive, of, raw, failures, delivered>>
<1>1. PICK buf \in BufSizes :
        /\ Handed(SubSeq(kept, 1, Smaller(buf, Len(kept))))
        /\ kept' = SubSeq(kept, Smaller(buf, Len(kept)) + 1, Len(kept))
  BY DEF HandOut
<1> DEFINE n == Smaller(buf, Len(kept))
<1>2. /\ archive \in Archives /\ TypeOK /\ InPlace /\ of # 0 /\ Decodes
      /\ state = "open" /\ failures # 0
      /\ garbled' = garbled \o SubSeq(kept, 1, n)
      /\ UNCHANGED <<archive, opens, of, raw, pos, limit, failures, delivered, state>>
  <2>1. state = "open" /\ UNCHANGED <<pos, limit>> /\ failures # 0
    BY DEF HandOut
  <2>2. archive \in Archives /\ TypeOK /\ InPlace /\ of # 0 /\ Decodes
    BY <2>1 DEF IInv
  <2> HIDE DEF n
  <2>3. /\ garbled' = garbled \o SubSeq(kept, 1, n) /\ UNCHANGED delivered
        /\ UNCHANGED <<archive, opens, of, raw, failures, state>>
    BY <1>1, <2>1 DEF Handed, n
  <2>4. QED BY <2>1, <2>2, <2>3
<1>3. kept \in Seq(Byte) /\ garbled \in Seq(Byte) /\ Len(kept) \in Nat
  BY <1>2 DEF TypeOK
<1>4. n \in Nat /\ n <= Len(kept)
  BY <1>3, ReaderConstantsOK DEF Smaller
<1>5. SubSeq(kept, 1, n) \in Seq(Byte) /\ kept' \in Seq(Byte)
  <2>1. \A j \in 1 .. Len(kept) : kept[j] \in Byte
    BY <1>3, ElementType
  <2> HIDE DEF n
  <2>2. /\ \A j \in 1 .. n : kept[j] \in Byte
        /\ \A j \in n + 1 .. Len(kept) : kept[j] \in Byte
    BY <1>3, <1>4, <2>1
  <2>3. QED BY <1>1, <1>3, <1>4, <2>2, SubSeqProperties DEF n
<1>6. garbled' \in Seq(Byte)
  BY <1>2, <1>3, <1>5, ConcatProperties
<1>7. TypeOK'
  BY <1>2, <1>5, <1>6 DEF TypeOK
<1>8. /\ Rec(of)' = Rec(of) /\ Present(Rec(of))' = Present(Rec(of))
      /\ Decodes' = Decodes /\ Skip' = Skip
  BY <1>2, SameReader
<1>9. InPlace'
  BY <1>2, <1>8 DEF InPlace
<1>10. QED BY <1>2, <1>7, <1>8, <1>9 DEF IInv

LEMMA OverfillsOK ==
  ASSUME IInv, Overfills
  PROVE  IInv' /\ UNCHANGED <<archive, of, raw, failures, delivered>>
         /\ state = "open" /\ state' = "failed"
<1>1. /\ state = "open" /\ state' = "failed"
      /\ UNCHANGED <<archive, pos, opens, of, raw, limit, kept, failures, delivered, garbled>>
  BY DEF Overfills
<1>2. Decodes' = Decodes
  BY <1>1, SameReader
<1>3. QED BY <1>1, <1>2 DEF IInv, TypeOK

\* From a failed read on the decoder is where it was in the stream, but nothing
\* is known of what it keeps.
LEMMA GarbleOK ==
  ASSUME IInv, FetchFails \/ FetchGarbled
  PROVE  IInv' /\ UNCHANGED <<archive, of, raw, delivered>>
         /\ state = "open" /\ failures' > 0 /\ failures <= failures'
<1> DEFINE r == Rec(of)
<1>1. /\ archive \in Archives /\ TypeOK /\ InPlace /\ of \in Indexes /\ of # 0
      /\ state = "open" /\ Decodes /\ failures \in Nat
      /\ Garble /\ UNCHANGED <<archive, opens, of, raw, delivered, garbled>>
  <2>1. MaxFailures \in Nat
    BY ReaderConstantsOK
  <2>2. QED BY <2>1 DEF IInv, TypeOK, Indexes, FetchFails, FetchGarbled
<1>2. /\ failures' \in 0 .. MaxFailures /\ failures' > 0 /\ failures <= failures'
  <2>1. MaxFailures \in Nat /\ failures \in 0 .. MaxFailures
    BY <1>1, ReaderConstantsOK DEF TypeOK
  <2>2. \/ failures < MaxFailures /\ failures' = failures + 1
        \/ failures > 0 /\ failures' = failures
    BY DEF FetchFails, FetchGarbled
  <2>3. QED BY <2>1, <2>2
<1>3. kept' \in Seq(Byte) /\ state' \in {"open", "ended", "failed"}
  <2>1. Foreign \in Byte /\ <<>> \in Seq(Byte)
    BY <1>1, BytesAreBytes, EmptySeq
  <2>2. <<Foreign>> \in Seq(Byte)
    BY <2>1
  <2>3. kept' \in {<<>>, <<Foreign>>} /\ state' \in {"open", "ended", "failed"}
    BY <1>1 DEF Garble
  <2>4. QED BY <2>1, <2>2, <2>3
<1>4. /\ r.at \in Nat /\ r.table \in Nat /\ Stored(r) \in Nat /\ Present(r) \in 0 .. Stored(r)
      /\ pos \in Nat /\ limit \in Nat /\ Skip \in Nat
  BY <1>1, RecordFacts, PresentFacts DEF TypeOK, Skip
<1>5. /\ pos \in r.at + Skip .. r.at + Present(r)
      /\ limit = r.at + Stored(r) - pos
  BY <1>1 DEF InPlace
<1> HIDE DEF r
<1>6. /\ pos' \in r.at + Skip .. r.at + Present(r)
      /\ limit' = r.at + Stored(r) - pos'
      /\ pos' \in Nat /\ limit' \in Nat
  <2>1. CASE pos' = pos /\ limit' = limit
    BY <1>4, <1>5, <2>1
  <2>2. CASE Readable > 0 /\ pos' = pos + 1 /\ limit' = limit - 1
    <3>1. Readable = r.at + Present(r) - pos
      BY <1>1, ReadableIsLeft DEF r
    <3>2. r.at + Present(r) - pos > 0
      BY <2>2, <3>1
    <3>3. QED BY <1>4, <1>5, <2>2, <3>2
  <2>3. QED BY <2>1, <2>2 DEF FetchFails, FetchGarbled
<1>7. Rec(of)' = r /\ Present(Rec(of))' = Present(r) /\ Decodes' = Decodes /\ Skip' = Skip
  BY <1>1, SameReader DEF r
<1>8. InPlace'
  BY <1>2, <1>6, <1>7 DEF InPlace
<1>9. TypeOK'
  BY <1>1, <1>2, <1>3, <1>6 DEF TypeOK
<1>10. failures' # 0
  BY <1>2
<1>11. QED BY <1>1, <1>2, <1>3, <1>7, <1>8, <1>9, <1>10 DEF IInv

\* The end is announced where the data of the record end.
LEMMA ReadEndOK ==
  ASSUME IInv, ReadEnd
  PROVE  /\ IInv' /\ UNCHANGED <<archive, of, raw, failures, delivered>>
         /\ state = "open" /\ state' = "ended"
         /\ failures = 0 => delivered = Content(of, raw)
<1>1. /\ archive \in Archives /\ TypeOK /\ InPlace /\ of \in Indexes /\ of # 0
      /\ state = "open" /\ kept = <<>> /\ Readable = 0 /\ state' = "ended"
      /\ UNCHANGED <<archive, pos, opens, of, raw, limit, kept, failures, delivered, garbled>>
  BY DEF IInv, TypeOK, Indexes, ReadEnd
<1>2. pos = Rec(of).at + Present(Rec(of))
  <2>1. /\ Rec(of).at \in Nat /\ Present(Rec(of)) \in Nat /\ pos \in Nat
    BY <1>1, RecordFacts, PresentFacts DEF TypeOK
  <2>2. QED BY <1>1, <2>1, ReadableIsLeft
<1>3. failures = 0 => delivered = Content(of, raw)
  BY <1>1, <1>2, DeliversContent
<1>4. Content(of, raw)' = Content(of, raw) /\ Decodes' = Decodes
  BY <1>1, SameReader
<1>5. TypeOK'
  BY <1>1 DEF TypeOK
<1>6. QED BY <1>1, <1>3, <1>4, <1>5 DEF IInv

LEMMA ReadFailsOK ==
  ASSUME IInv, ReadFails
  PROVE  IInv' /\ UNCHANGED <<archive, of, raw, failures, delivered>>
         /\ state = "open" /\ state' = "failed"
<1>1. /\ state = "open" /\ state' = "failed"
      /\ UNCHANGED <<archive, pos, opens, of, raw, limit, kept, failures, delivered, garbled>>
  BY DEF ReadFails
<1>2. Decodes' = Decodes
  BY <1>1, SameReader
<1>3. QED BY <1>1, <1>2 DEF IInv, TypeOK

LEMMA StutterOK ==
  ASSUME IInv, UNCHANGED vars
  PROVE  IInv'
<1>1. UNCHANGED <<archive, pos, opens, of, raw, limit, kept, failures, delivered, garbled, state>>
  BY DEF vars
<1>2. Rec(of)' = Rec(of) /\ Present(Rec(of))' = Present(Rec(of)) /\ Decodes' = Decodes
      /\ Skip' = Skip /\ Content(of, raw)' = Content(of, raw)
  BY <1>1, SameReader
<1>3. TypeOK' = TypeOK
  BY <1>1 DEF TypeOK
<1>4. InPlace' = InPlace
  BY <1>1, <1>2 DEF InPlace, DecodedSoFar, ReadSoFar
<1>5. QED BY <1>1, <1>2, <1>3, <1>4 DEF IInv

\* The number of failures is one.
LEMMA FailuresFacts ==
  ASSUME TypeOK
  PROVE  failures \in Nat /\ (failures = 0 \/ failures > 0)
BY ReaderConstantsOK DEF TypeOK

LEMMA StepOK == IInv /\ [Next]_vars => IInv'
<1>1. ASSUME IInv, HandOut PROVE IInv'
  BY <1>1, HandOutOK, HandOutGarbledOK, FailuresFacts DEF IInv
<1>2. ASSUME IInv, Open \/ OpenFails \/ ReadText PROVE IInv'
  BY <1>2, OpenOK, OpenFailsOK, ReadTextOK
<1>3. ASSUME IInv, ReadRaw \/ FetchByte PROVE IInv'
  BY <1>3, ReadRawOK, FetchByteOK
<1>4. ASSUME IInv, FetchFails \/ FetchGarbled PROVE IInv'
  BY <1>4, GarbleOK
<1>5. ASSUME IInv, Overfills \/ ReadEnd \/ ReadFails PROVE IInv'
  BY <1>5, OverfillsOK, ReadEndOK, ReadFailsOK
<1>6. ASSUME IInv, UNCHANGED vars PROVE IInv'
  BY <1>6, StutterOK
<1>7. QED BY <1>1, <1>2, <1>3, <1>4, <1>5, <1>6 DEF Next

LEMMA Invariance == Spec => []IInv
BY InitOK, StepOK, PTL DEF Spec

-----------------------------------------------------------------------------
(* Positions and limits are numbers, and only symbols of a record are kept    *)
(* or handed out: the reader never computes a negative limit.                 *)
THEOREM ReaderTypeCorrect == Spec => []TypeOK
<1>1. IInv => TypeOK
  BY DEF IInv
<1>2. QED BY <1>1, Invariance, PTL

(* A regular end leaves nothing of a record out that the archive has, and     *)
(* brings nothing else, unless the decoder has ignored a failed read          *)
(* (extract.rs:207, Take and its limit; huffman.rs:120-123).                  *)
THEOREM EndsOnlyCutShort == Spec => []EndsWhole
<1>1. IInv => EndsWhole
  <2> SUFFICES ASSUME IInv, state = "ended", ~(Decodes /\ failures > 0),
                      ~(Rec(of).at + Stored(Rec(of)) > archive.len)
               PROVE  delivered = WholeContent(of, raw) /\ garbled = <<>>
    BY DEF EndsWhole
  <2> DEFINE r == Rec(of)
  <2>0. failures = 0
    BY FailuresFacts DEF IInv
  <2>1. /\ archive \in Archives /\ of \in Indexes /\ delivered = Content(of, raw)
        /\ garbled = <<>>
    BY <2>0 DEF IInv, TypeOK, Indexes
  <2>2. /\ r.at \in Nat /\ r.table \in Nat /\ Len(r.done) \in Nat /\ archive.len \in Nat
        /\ Stored(r) = r.table + Len(r.done)
    BY <2>1, RecordFacts, ArchiveFacts
  <2> HIDE DEF r
  <2>3. r.at + Stored(r) <= archive.len
    BY <2>2 DEF r
  <2>4. Present(r) = Stored(r) /\ Present(r) - r.table = Len(r.done)
    <3>1. Stored(r) \in Nat /\ Stored(r) - r.table = Len(r.done)
      BY <2>2
    <3>2. CASE r.at >= archive.len
      <4>1. Stored(r) = 0
        BY <2>2, <2>3, <3>1, <3>2
      <4>2. Present(r) = 0
        BY <3>2 DEF Present
      <4>3. QED BY <3>1, <4>1, <4>2
    <3>3. CASE ~(r.at >= archive.len)
      <4>1. Present(r) = Stored(r)
        <5>1. Stored(r) \in Int /\ archive.len - r.at \in Int /\ Stored(r) <= archive.len - r.at
          BY <2>2, <2>3, <3>1
        <5>2. Smaller(Stored(r), archive.len - r.at) = Stored(r)
          BY <5>1, SmallerIsFirst
        <5>3. QED BY <3>3, <5>2 DEF Present
      <4>2. QED BY <3>1, <4>1
    <3>4. QED BY <3>2, <3>3
  <2>5. QED BY <2>1, <2>4 DEF Content, WholeContent, r
<1>2. QED BY <1>1, Invariance, PTL

\* What the reader shows as a source, as in RecordReader's Sources.
SourceContent == IF of = 0 THEN <<>> ELSE Content(of, raw)
SourceState == IF state = "none" THEN "open" ELSE IF failures > 0 THEN "failed" ELSE state

\* A step that hands out a bit more delivers a longer beginning of the content.
LEMMA DeliverOK ==
  ASSUME IInv, IInv', state = "open", failures = 0,
         UNCHANGED <<archive, of, raw, failures, state>>, Len(delivered) <= Len(delivered')
  PROVE  Sources!Deliver
<1>1. /\ of \in Indexes /\ of # 0 /\ delivered \in Seq(Byte)
      /\ Content(of, raw) \in Seq(Byte)
  BY DeliversContent DEF IInv
<1>2. /\ delivered' \in Seq(Byte) /\ Len(delivered') <= Len(Content(of, raw)')
      /\ delivered' = SubSeq(Content(of, raw)', 1, Len(delivered'))
  <2>1. IInv' /\ state' = "open" /\ failures' = 0
    OBVIOUS
  <2>2. (IInv /\ state = "open" /\ failures = 0 =>
          /\ delivered \in Seq(Byte) /\ Len(delivered) <= Len(Content(of, raw))
          /\ delivered = SubSeq(Content(of, raw), 1, Len(delivered)))'
    BY DeliversContent, PTL
  <2>3. QED BY <2>1, <2>2
<1>3. Content(of, raw)' = Content(of, raw)
  BY SameReader
<1>4. Len(delivered') \in Len(delivered) .. Len(Content(of, raw))
  <2>1. Len(delivered) \in Nat /\ Len(delivered') \in Nat /\ Len(Content(of, raw)) \in Nat
    BY <1>1, <1>2
  <2>2. QED BY <1>2, <1>3, <2>1
<1>5. SourceContent = Content(of, raw) /\ SourceContent' = SourceContent
  BY <1>1, <1>3 DEF SourceContent
<1>6. SourceState = "open" /\ SourceState' = SourceState
  BY DEF SourceState
<1>7. QED BY <1>2, <1>3, <1>4, <1>5, <1>6
        DEF Sources!Deliver, SourceContent, SourceState

LEMMA SourceStep ==
  ASSUME IInv, [Next]_vars
  PROVE  [Sources!SourceNext \/ Sources!Reopen]_(Sources!sourceVars)
<1>1. IInv'
  BY StepOK
<1>0. failures = 0 \/ failures > 0
  BY FailuresFacts DEF IInv
<1>2. CASE Open
  BY <1>2, OpenOK DEF Sources!Reopen
<1>3. CASE OpenFails
  BY <1>3, OpenFailsOK DEF Sources!Reopen
<1>4. CASE ReadText
  <2>1. of' # 0 /\ delivered' = Content(of, raw)' /\ state' = "ended" /\ failures' = 0
    BY <1>4, ReadTextOK
  <2>2. QED BY <2>1 DEF Sources!Reopen
<1>5. CASE ReadRaw
  BY <1>1, <1>5, ReadRawOK, DeliverOK DEF Sources!SourceNext
<1>6. CASE HandOut
  <2>1. CASE failures = 0
    BY <1>1, <1>6, <2>1, HandOutOK, DeliverOK DEF Sources!SourceNext
  <2>2. CASE failures > 0
    <3>1. UNCHANGED <<archive, of, raw, failures, delivered>>
      BY <1>6, <2>2, HandOutGarbledOK
    <3>2. Content(of, raw)' = Content(of, raw) /\ state = "open" /\ state' = "open"
      BY <1>6, <3>1, SameReader DEF HandOut, Handed
    <3>3. QED BY <2>2, <3>1, <3>2 DEF Sources!sourceVars
  <2>3. QED BY <1>0, <2>1, <2>2
<1>7. CASE FetchByte
  <2>1. UNCHANGED <<archive, of, raw, failures, delivered, state>>
    BY <1>7, FetchByteOK
  <2>2. Content(of, raw)' = Content(of, raw)
    BY <2>1, SameReader
  <2>3. QED BY <2>1, <2>2 DEF Sources!sourceVars
<1>8. CASE ReadEnd
  <2>1. /\ UNCHANGED <<archive, of, raw, failures, delivered>> /\ of # 0
        /\ state = "open" /\ state' = "ended"
        /\ failures = 0 => delivered = Content(of, raw)
    <3>1. /\ UNCHANGED <<archive, of, raw, failures, delivered>>
          /\ state = "open" /\ state' = "ended"
          /\ failures = 0 => delivered = Content(of, raw)
      BY <1>8, ReadEndOK
    <3>2. of # 0
      BY <3>1 DEF IInv
    <3>3. QED BY <3>1, <3>2
  <2>2. Content(of, raw)' = Content(of, raw)
    BY <2>1, SameReader
  <2>3. CASE failures = 0
    <3>1. Sources!AnnounceEnd
      BY <2>1, <2>2, <2>3 DEF Sources!AnnounceEnd
    <3>2. QED BY <3>1 DEF Sources!SourceNext
  <2>4. CASE failures > 0
    BY <2>1, <2>2, <2>4 DEF Sources!sourceVars
  <2>5. QED BY <1>0, <2>3, <2>4
<1>9. CASE ReadFails \/ Overfills \/ FetchFails \/ FetchGarbled
  <2>1. /\ UNCHANGED <<archive, of, raw, delivered>> /\ state = "open"
        /\ state' = "failed" \/ failures' > 0
        /\ failures > 0 => failures' > 0
        /\ state' # "none"
    <3>1. CASE ReadFails
      BY <3>1, ReadFailsOK
    <3>2. CASE Overfills
      BY <3>2, OverfillsOK
    <3>3. CASE FetchFails \/ FetchGarbled
      <4>1. state' # "none"
        BY <3>3 DEF FetchFails, FetchGarbled, Garble
      <4>2. QED BY <3>3, <4>1, GarbleOK
    <3>4. QED BY <1>9, <3>1, <3>2, <3>3
  <2>2. Content(of, raw)' = Content(of, raw)
    BY <2>1, SameReader
  <2>3. SourceState' = "failed"
    BY <2>1 DEF SourceState
  <2>4. CASE failures = 0
    <3>1. Sources!SourceFails
      BY <2>1, <2>2, <2>3, <2>4 DEF Sources!SourceFails, SourceState
    <3>2. QED BY <3>1 DEF Sources!SourceNext
  <2>5. CASE failures > 0
    BY <2>1, <2>2, <2>3, <2>5 DEF Sources!sourceVars, SourceState
  <2>6. QED BY <1>0, <2>4, <2>5
<1>10. CASE UNCHANGED vars
  <2>1. UNCHANGED <<archive, of, raw, failures, delivered, state>>
    BY <1>10 DEF vars
  <2>2. Content(of, raw)' = Content(of, raw)
    BY <2>1, SameReader
  <2>3. QED BY <2>1, <2>2 DEF Sources!sourceVars
<1>11. QED BY <1>2, <1>3, <1>4, <1>5, <1>6, <1>7, <1>8, <1>9, <1>10 DEF Next

(* Every reader is a source of the content of its own record, whatever was    *)
(* done with the readers before it (archive.rs:195, archive.rs:208).          *)
THEOREM SourcesAreIndependent == Spec => IndependentSources
<1>1. Init => Sources!SourceInit
  BY DEF Init, Sources!SourceInit
<1>2. IInv /\ [Next]_vars => [Sources!SourceNext \/ Sources!Reopen]_(Sources!sourceVars)
  BY SourceStep
<1>3. QED BY <1>1, <1>2, Invariance, PTL DEF Spec, IndependentSources, Sources!SourcesSpec
=============================================================================
