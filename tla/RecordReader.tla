----------------------------- MODULE RecordReader -----------------------------
(***************************************************************************)
(* The readers of record data (Archive::file, raw_file, ArchiveSource,     *)
(* RecordReader): they share the stream of the archive and its position.   *)
(* Each open seeks to the record's file_position and limits the reader to  *)
(* compressed_size with Take; compressed data are decoded, unless the raw  *)
(* reader is asked for.  A reader may be dropped anywhere.                 *)
(*                                                                         *)
(* A byte handed out is known by its record and number: the k-th of the    *)
(* stored data or the k-th decoded from them.  How many symbols the stored *)
(* bytes complete is given; HuffmanDecoder shows how.  A decoder that has  *)
(* ignored a failed read is out of step and may hand out anything.         *)
(***************************************************************************)
EXTENDS Integers, Sequences

CONSTANTS
  Archives,
  BufSizes,   \* the buffers callers pass to read
  MaxOpens,   \* bound on the readers opened one after the other
  MaxFailures \* bound on the failed reads that a decoder ignores

IoErrors == MaxFailures > 0

\* at: file_position; table: bytes of the symbol table; done: how many symbols
\* are complete after each byte behind it.  magic: HUFFMAN_MAGIC or another.
Record == [name : STRING, file : BOOLEAN, magic : {"huffman", "other"}, at : Nat,
           table : Nat, done : Seq(Nat)]

Stored(r) == r.table + Len(r.done)   \* compressed_size

\* Symbols that the first k bytes behind the table complete.
Done(r, k) == IF k <= 0 THEN 0 ELSE r.done[k]

ASSUME ReaderConstantsOK ==
  /\ \A a \in Archives :
       /\ a.records \in Seq(Record) /\ a.len \in Nat
       /\ \A i \in 1 .. Len(a.records) :
            \A k \in 1 .. Len(a.records[i].done) : \A j \in 0 .. k :
              Done(a.records[i], j) <= Done(a.records[i], k)
       /\ \A i, j \in 1 .. Len(a.records) :
            i < j => a.records[i].at + Stored(a.records[i]) <= a.records[j].at
  /\ BufSizes \subseteq Nat \ {0} /\ MaxOpens \in Nat /\ MaxFailures \in Nat

VARIABLES
  archive,     \* its records and the length of the stream; never changes
  pos,         \* position of the stream
  opens,
  of, raw,     \* the record that was opened last, 0 if none; was it raw_file?
  limit,       \* what Take still lets through
  kept,        \* symbols decoded and not handed out
  failures,    \* failed reads that its decoder ignored
  delivered,   \* all that this reader handed out before such a failure,
  garbled,     \* and since then
  state        \* "none", "open", "ended", "failed"

vars == <<archive, pos, opens, of, raw, limit, kept, failures, delivered, garbled, state>>

Rec(i) == archive.records[i]
Decodes == Rec(of).magic = "huffman" /\ ~raw

-----------------------------------------------------------------------------
(* The stream.                                                             *)

Byte == [of : Nat, what : {"stored", "decoded", "foreign"}, number : Nat]
Foreign == [of |-> 0, what |-> "foreign", number |-> 0]
StoredByte(i, k) == [of |-> i, what |-> "stored", number |-> k]
Decoded(i, k) == [of |-> i, what |-> "decoded", number |-> k]

Owns(i, p) == p \in Rec(i).at .. Rec(i).at + Stored(Rec(i)) - 1
Owner(p) == {i \in 1 .. Len(archive.records) : Owns(i, p)}

\* What the byte at position p is worth, read raw or by the decoder of record i.
RawByte(p) == IF Owner(p) = {} THEN Foreign
              ELSE LET i == CHOOSE i \in Owner(p) : TRUE IN StoredByte(i, p - Rec(i).at + 1)
Symbols(i, p) ==
  LET k == p - Rec(i).at + 1 - Rec(i).table IN
  IF Owns(i, p) /\ k > 0
  THEN [j \in 1 .. Done(Rec(i), k) - Done(Rec(i), k - 1) |->
          Decoded(i, Done(Rec(i), k - 1) + j)]
  ELSE <<Foreign>>

Smaller(a, b) == IF a < b THEN a ELSE b

\* Bytes of the record that the stream still has.
Present(r) == IF r.at >= archive.len THEN 0 ELSE Smaller(Stored(r), archive.len - r.at)
\* Mutant: the limit is not asked.
ReadableToEnd == IF pos >= archive.len THEN 0 ELSE archive.len - pos
Readable == IF pos >= archive.len THEN 0 ELSE Smaller(limit, archive.len - pos)

\* The content of record i, as far as its data are there.
Content(i, asIs) ==
  IF Rec(i).magic = "huffman" /\ ~asIs
  THEN [k \in 1 .. Done(Rec(i), Present(Rec(i)) - Rec(i).table) |-> Decoded(i, k)]
  ELSE [k \in 1 .. Present(Rec(i)) |-> StoredByte(i, k)]

Init ==
  /\ archive \in Archives
  /\ pos \in {0, archive.len}   \* wherever the scan has left it
  /\ opens = 0
  /\ of = 0 /\ raw = FALSE /\ limit = 0
  /\ kept = <<>> /\ failures = 0 /\ delivered = <<>> /\ garbled = <<>>
  /\ state = "none"

-----------------------------------------------------------------------------
\* record_index_by_filename finds the first record of a name.
Lookup(i) == \A j \in 1 .. i - 1 : Rec(j).name # Rec(i).name

Opened(i, r) ==
  /\ opens < MaxOpens
  /\ opens' = opens + 1
  /\ of' = i /\ raw' = r
  /\ kept' = <<>> /\ failures' = 0 /\ garbled' = <<>>
  /\ UNCHANGED archive

\* Mutant: the stream is read on from where it is.
SeekNowhere(r) == pos
SeekTo(r) == r.at

\* Mutant: the limit is the size of the content.
LimitBySize(r) == Done(r, Len(r.done))
LimitOf(r) == Stored(r)

\* file and raw_file; the decoder reads its table first.
Open ==
  \E i \in 1 .. Len(archive.records), r \in BOOLEAN :
    /\ Lookup(i)
    /\ Opened(i, r)
    /\ Rec(i).file
    /\ delivered' = <<>>
    /\ LET table == IF Rec(i).magic = "huffman" /\ ~r THEN Rec(i).table ELSE 0 IN
       /\ table <= Present(Rec(i))
       /\ pos' = SeekTo(Rec(i)) + table
       /\ limit' = LimitOf(Rec(i)) - Smaller(table, LimitOf(Rec(i)))
    /\ state' = "open"

\* No file record, a table that is cut off, or a seek or read that fails.
OpenFails ==
  \E i \in 1 .. Len(archive.records), r \in BOOLEAN :
    /\ Lookup(i)
    /\ Opened(i, r)
    /\ delivered' = <<>> /\ limit' = 0
    /\ state' = "failed"
    /\ \/ ~Rec(i).file /\ pos' = pos
       \/ /\ Rec(i).file /\ Rec(i).magic = "huffman" /\ ~r
          /\ IoErrors \/ Present(Rec(i)) < Rec(i).table
          /\ pos' \in Rec(i).at .. Rec(i).at + Smaller(Rec(i).table, Present(Rec(i)))
       \/ Rec(i).file /\ IoErrors /\ pos' = pos

\* read_text, which scanning uses for ACL texts: all of the stored data.
ReadText ==
  \E i \in 1 .. Len(archive.records) :
    /\ Opened(i, TRUE)
    /\ Rec(i).file
    /\ delivered' = Content(i, TRUE)
    /\ pos' = Rec(i).at + Present(Rec(i))
    /\ limit' = Stored(Rec(i)) - Present(Rec(i))
    /\ state' = "ended"

-----------------------------------------------------------------------------
Handed(symbols) ==
  /\ IF failures = 0
       THEN delivered' = delivered \o symbols /\ UNCHANGED garbled
       ELSE garbled' = garbled \o symbols /\ UNCHANGED delivered
  /\ UNCHANGED <<archive, opens, of, raw, failures, state>>

\* RecordReader::Raw: Take, and a stream that may deliver less than asked for.
ReadRaw ==
  /\ state = "open" /\ ~Decodes
  /\ \E buf \in BufSizes : \E n \in 1 .. Smaller(buf, Readable) :
       /\ Handed([k \in 1 .. n |-> RawByte(pos + k - 1)])
       /\ pos' = pos + n
       /\ limit' = limit - n
  /\ UNCHANGED kept

\* RecordReader::Huffman: one byte is fetched and all its symbols are kept;
FetchByte ==
  /\ state = "open" /\ Decodes /\ kept = <<>> /\ Readable > 0 /\ failures = 0
  /\ kept' = Symbols(of, pos)
  /\ pos' = pos + 1 /\ limit' = limit - 1
  /\ UNCHANGED <<archive, opens, of, raw, failures, delivered, garbled, state>>

\* as many as fit go into the caller's buffer.  The last byte has the end mark,
\* which lets read return at once: all symbols of that byte have to fit.
HandOut ==
  /\ state = "open" /\ kept # <<>>
  /\ \E buf \in BufSizes :
       LET n == Smaller(buf, Len(kept)) IN
       /\ limit = 0 => n = Len(kept)
       /\ Handed(SubSeq(kept, 1, n))
       /\ kept' = SubSeq(kept, n + 1, Len(kept))
  /\ UNCHANGED <<pos, limit>>

\* Otherwise the count is larger than the buffer, and the caller panics on it.
Overfills ==
  /\ state = "open" /\ kept # <<>> /\ limit = 0
  /\ \E buf \in BufSizes : buf < Len(kept)
  /\ state' = "failed"
  /\ UNCHANGED <<archive, pos, opens, of, raw, limit, kept, failures, delivered, garbled>>

\* What a decoder out of step makes of a byte: symbols, an end mark that reads
\* as the end of the content, or InvalidLevelIndex.
Garble ==
  \/ kept' \in {<<>>, <<Foreign>>} /\ state' = "open"
  \/ kept' = <<>> /\ state' \in {"ended", "failed"}

\* A read that fails, except at the end, is ignored by the decoder: it decodes
\* what its one-byte buffer holds, 0 or the byte before.
FetchFails ==
  /\ failures < MaxFailures
  /\ state = "open" /\ Decodes /\ kept = <<>> /\ limit > 0
  /\ failures' = failures + 1
  /\ Garble
  /\ UNCHANGED <<archive, pos, opens, of, raw, limit, delivered, garbled>>

\* Behind it the bits of the data are taken for other codes than theirs.
FetchGarbled ==
  /\ state = "open" /\ Decodes /\ kept = <<>> /\ Readable > 0 /\ failures > 0
  /\ Garble
  /\ pos' = pos + 1 /\ limit' = limit - 1
  /\ UNCHANGED <<archive, opens, of, raw, failures, delivered, garbled>>

\* Ok(0): nothing behind the limit or the end of the stream is read.
ReadEnd ==
  /\ state = "open" /\ kept = <<>> /\ Readable = 0
  /\ state' = "ended"
  /\ UNCHANGED <<archive, pos, opens, of, raw, limit, kept, failures, delivered, garbled>>

\* A raw read that fails is an error.
ReadFails ==
  /\ IoErrors /\ state = "open" /\ ~Decodes
  /\ state' = "failed"
  /\ UNCHANGED <<archive, pos, opens, of, raw, limit, kept, failures, delivered, garbled>>

Next ==
  \/ Open \/ OpenFails \/ ReadText
  \/ ReadRaw \/ FetchByte \/ HandOut \/ Overfills \/ FetchFails \/ FetchGarbled
  \/ ReadEnd \/ ReadFails

Spec == Init /\ [][Next]_vars

-----------------------------------------------------------------------------
TypeOK ==
  /\ pos \in Nat /\ limit \in Nat /\ opens \in 0 .. MaxOpens
  /\ of \in 0 .. Len(archive.records) /\ raw \in BOOLEAN
  /\ failures \in 0 .. MaxFailures
  /\ kept \in Seq(Byte) /\ delivered \in Seq(Byte) /\ garbled \in Seq(Byte)
  /\ state \in {"none", "open", "ended", "failed"}

(* However readers are opened, read in pieces, dropped half way and opened    *)
(* again over the one stream: each delivers the content of its record, from   *)
(* the beginning and nothing else, and ends when all that is there of it has  *)
(* been delivered.  A decoder that ignores a failed read (huffman.rs:120-123) *)
(* is such a source up to that read, and has failed from there on, whatever   *)
(* it hands out or returns; the next reader is not affected.  Raw readers,    *)
(* which return the error, are sources whatever fails.                        *)
Sources == INSTANCE RecordSources WITH
             content <- IF of = 0 THEN <<>> ELSE Content(of, raw),
             state <- IF state = "none" THEN "open"
                      ELSE IF failures > 0 THEN "failed" ELSE state
IndependentSources == Sources!SourcesSpec

\* The content of record i, had the stream not been cut off.
WholeContent(i, asIs) ==
  IF Rec(i).magic = "huffman" /\ ~asIs
  THEN [k \in 1 .. Done(Rec(i), Len(Rec(i).done)) |-> Decoded(i, k)]
  ELSE [k \in 1 .. Stored(Rec(i)) |-> StoredByte(i, k)]

(* The regular end, Ok(0), comes with less or other than the whole content    *)
(* only for a record whose data the archive does not have, or from a decoder  *)
(* that has ignored a failed read (huffman.rs:120-123).                       *)
EndsWhole ==
  state = "ended" /\ (delivered # WholeContent(of, raw) \/ garbled # <<>>)
    => \/ Rec(of).at + Stored(Rec(of)) > archive.len
       \/ Decodes /\ failures > 0
=============================================================================
