------------------------------ MODULE RecordScan ------------------------------
(***************************************************************************)
(* How bfflib turns the byte stream of an archive into the list of records *)
(* it offers: read_records and read_next_record of archive.rs with         *)
(* read_aligned_string of bff.rs.                                          *)
(*                                                                         *)
(* The reader knows stream positions only.  What a read returns is decided *)
(* by where it happens: at the place where an entry keeps its header, its  *)
(* name or its trailer it returns that part of the entry; anywhere else    *)
(* the bytes are foreign to the layout and may look like anything.  The    *)
(* scan reads no byte twice, so choosing foreign bytes at the moment they  *)
(* are read is the same as fixing them beforehand.                         *)
(***************************************************************************)
EXTENDS ArchiveLayout

CONSTANTS
  Images,          \* the archives a scan may be given
  Modes,           \* the RecordScanModes in use: a subset of {"strict", "best_effort"}
  ShortReads,      \* may Read::read return fewer bytes than are left?
  IoErrors,        \* may a read or a seek fail?
  OverflowMay,     \* what u32 overflow may do: "panic" (debug build), "wrap" (release)
  ForeignHeaders,  \* what 64 bytes that are no entry's header may look like
  ForeignAclLens   \* the acl_len that 40 bytes that are no trailer may hold

ASSUME ScanConstantsOK ==
  /\ \A img \in Images : LaidOut(img)
  /\ Modes \subseteq {"strict", "best_effort"}
  /\ ShortReads \in BOOLEAN /\ IoErrors \in BOOLEAN
  /\ OverflowMay \subseteq {"panic", "wrap"}
  /\ ForeignHeaders \subseteq Header
  /\ ForeignAclLens \subseteq 0 .. Word - 1

VARIABLES
  image,    \* the archive being scanned; never changes
  mode,     \* its RecordScanMode; never changes
  pos,      \* stream position of the reader
  phase,    \* the part read_next_record reads next
  cur,      \* the locals of read_next_record
  records,  \* the records pushed so far
  outcome   \* "none" until read_records returns, or the process panics

vars == <<image, mode, pos, phase, cur, records, outcome>>

\* The locals of read_next_record: where the header was, its fields, where
\* the string being read began and how many of its characters were read,
\* the characters kept of name and target, and the acl_len of the trailer.
Locals == [at : Nat, hdr : Header, from : Nat, got : Nat,
           name : Nat, target : Nat, aclLen : 0 .. Word - 1]

NoHeader == [marker |-> "other", magic |-> "unknown", link |-> FALSE,
             ixacl |-> FALSE, hasData |-> FALSE, csize |-> 0]
NoLocals == [at |-> 0, hdr |-> NoHeader, from |-> 0, got |-> 0,
             name |-> 0, target |-> 0, aclLen |-> 0]

Record == [at : Nat, hdr : Header, name : Nat, target : Nat, filePos : 0 .. Word - 1]

-----------------------------------------------------------------------------
(* What the bytes at a position hold.                                      *)

Elements == {image.entries[i] : i \in 1 .. Len(image.entries)}

HeadersAt(p) ==
  LET here == {e \in Elements : e.at = p}
  IN  IF here = {} THEN ForeignHeaders ELSE {e.hdr : e \in here}

TextsAt(p) == {e.name : e \in {x \in Elements : NameAt(x) = p}}
              \cup {e.target : e \in {x \in Elements : x.hdr.link /\ TargetAt(x) = p}}

AclLensAt(p) ==
  LET here == {e \in Elements : TrailerAt(e) = p}
  IN  IF here = {} THEN ForeignAclLens ELSE {e.aclLen : e \in here}

Available == IF pos < image.len THEN image.len - pos ELSE 0

\* The bytes one call of Read::read with an 8-byte buffer may deliver.
ChunkSizes ==
  LET most == Least(8, Available)
  IN  IF ShortReads /\ most > 0 THEN 1 .. most ELSE {most}

-----------------------------------------------------------------------------
(* The arithmetic of read_next_record.                                     *)

\* Mutant: the 24 bytes inside the trailer are read a second time.
AclExtraWithInline(c) == IF c.hdr.ixacl /\ c.aclLen > InlineAcl THEN c.aclLen ELSE 0

\* ACL bytes read from behind the trailer, and the padding then skipped.
AclExtra(c) == IF c.hdr.ixacl /\ c.aclLen > InlineAcl THEN c.aclLen - InlineAcl ELSE 0
AclPadding(c) == IF c.hdr.ixacl /\ c.aclLen > 0 THEN RoundUp(c.aclLen, 16) - c.aclLen ELSE 0

\* Mutant: compressed_size is skipped for directories too.
SkippedAlways(hdr) == hdr.csize

\* Stored data are skipped only for a record that has a size ...
Skipped(hdr) == IF hdr.hasData THEN hdr.csize ELSE 0

\* ... but the padding is that of compressed_size either way, in u32.
Padding(hdr) == (((((hdr.csize + 7) % Word) \div 8) * 8) - hdr.csize) % Word

PaddingOverflows(hdr) == hdr.csize + 7 >= Word

\* Position of the data: behind the ACL padding, on the next multiple of 8.
DataPosition == RoundUp(pos + AclPadding(cur), 8)

\* Mutants: the position is not cut to 32 bits; it is taken behind the data.
NewRecordWide == [at |-> cur.at, hdr |-> cur.hdr, name |-> cur.name, target |-> cur.target,
                  filePos |-> DataPosition]
NewRecordLate == [at |-> cur.at, hdr |-> cur.hdr, name |-> cur.name, target |-> cur.target,
                  filePos |-> (DataPosition + Skipped(cur.hdr)) % Word]

NewRecord == [at |-> cur.at, hdr |-> cur.hdr, name |-> cur.name, target |-> cur.target,
              filePos |-> DataPosition % Word]

\* Mutant: the magic is not checked.
MalformedMarkerOnly(hdr) == hdr.marker = "other"

\* Neither FILE_FORMAT_MARKER nor an offset record, or none of HEADER_MAGICS.
Malformed(hdr) == hdr.marker = "other" \/ hdr.magic = "unknown"

-----------------------------------------------------------------------------
Init ==
  /\ image \in Images
  /\ mode \in Modes
  /\ pos = FileHeaderSize
  /\ phase = "header"
  /\ cur = NoLocals
  /\ records = <<>>
  /\ outcome = "none"

Return(result) ==
  /\ phase' = "done"
  /\ outcome' = result
  /\ UNCHANGED <<image, mode, pos, cur, records>>

\* read_exact met the end of the stream: read_records takes it for the end of
\* the archive, whichever part of a record was being read.
EndOfStream ==
  /\ \/ phase = "header" /\ HeaderSize > Available
     \/ phase = "trailer" /\ TrailerSize > Available
     \/ phase = "acl" /\ AclExtra(cur) > Available
  /\ Return("ok")

IoFailure ==
  /\ IoErrors
  /\ phase # "done"
  /\ Return("io_error")

\* A usable header: go on with the name.
ReadHeader ==
  /\ phase = "header"
  /\ HeaderSize <= Available
  /\ \E h \in HeadersAt(pos) :
       /\ ~Malformed(h)
       /\ cur' = [NoLocals EXCEPT !.at = pos, !.hdr = h, !.from = pos + HeaderSize]
  /\ pos' = pos + HeaderSize
  /\ phase' = "name"
  /\ UNCHANGED <<image, mode, records, outcome>>

\* Mutant: best effort looks again where the bad header was.
RejectInPlace ==
  /\ phase = "header"
  /\ HeaderSize <= Available
  /\ \E h \in HeadersAt(pos) : Malformed(h)
  /\ mode = "strict" => phase' = "done"
  /\ mode = "best_effort" => UNCHANGED phase
  /\ UNCHANGED <<image, mode, pos, cur, records, outcome>>

\* InvalidRecord (format marker) or InvalidRecordMagic: best effort reads on
\* behind the 64 bytes, strict mode returns the error.
RejectHeader ==
  /\ phase = "header"
  /\ HeaderSize <= Available
  /\ \E h \in HeadersAt(pos) :
       /\ Malformed(h)
       /\ \/ /\ mode = "best_effort"
             /\ pos' = pos + HeaderSize
             /\ UNCHANGED <<phase, outcome>>
          \/ /\ mode = "strict"
             /\ phase' = "done"
             /\ outcome' = IF h.marker = "other" THEN "invalid_record" ELSE "invalid_magic"
             /\ UNCHANGED pos
  /\ UNCHANGED <<image, mode, cur, records>>

\* One Read::read of read_aligned_string: k bytes arrive, n of them before the
\* first NUL.  Fewer than 8 characters end the string, also when the rest of
\* the buffer was simply not filled; first_segment keeps at most cut of them.
TakeChunk(k, n, cut) ==
  /\ pos' = pos + k
  /\ LET kept == Least(cur.got + n, cut)
     IN  \/ /\ n = 8
            /\ cur' = [cur EXCEPT !.got = @ + 8]
            /\ UNCHANGED phase
         \/ /\ n < 8 /\ phase = "name"
            /\ cur' = [cur EXCEPT !.name = kept, !.from = pos + k, !.got = 0]
            /\ phase' = IF cur.hdr.link THEN "target" ELSE "trailer"
         \/ /\ n < 8 /\ phase = "target"
            /\ cur' = [cur EXCEPT !.target = kept, !.from = pos + k, !.got = 0]
            /\ phase' = "trailer"
  /\ UNCHANGED <<image, mode, records, outcome>>

ReadText ==
  /\ phase \in {"name", "target"}
  /\ \E k \in ChunkSizes :
       \/ \E t \in TextsAt(cur.from) : TakeChunk(k, Least(k, t.len - cur.got), t.cut)
       \/ TextsAt(cur.from) = {} /\ \E n \in 0 .. k : TakeChunk(k, n, cur.got + n)

ReadTrailer ==
  /\ phase = "trailer"
  /\ TrailerSize <= Available
  /\ \E len \in AclLensAt(pos) : cur' = [cur EXCEPT !.aclLen = len]
  /\ pos' = pos + TrailerSize
  /\ phase' = "acl"
  /\ UNCHANGED <<image, mode, records, outcome>>

ReadAcl ==
  /\ phase = "acl"
  /\ AclExtra(cur) <= Available
  /\ pos' = pos + AclExtra(cur)
  /\ phase' = "payload"
  /\ UNCHANGED <<image, mode, cur, records, outcome>>

\* Mutant: only the padding is skipped.
SkipPaddingOnly ==
  /\ phase = "payload"
  /\ PaddingOverflows(cur.hdr) => "wrap" \in OverflowMay
  /\ pos' = DataPosition + Padding(cur.hdr)
  /\ UNCHANGED <<image, mode, cur>>

\* The seeks past the stored data; a seek may go past the end of the stream.
SkipPayload ==
  /\ phase = "payload"
  /\ PaddingOverflows(cur.hdr) => "wrap" \in OverflowMay
  /\ pos' = DataPosition + Skipped(cur.hdr) + Padding(cur.hdr)
  /\ UNCHANGED <<image, mode, cur>>

PushRecord ==
  /\ SkipPayload
  /\ cur.hdr.marker = "entry"
  /\ records' = Append(records, NewRecord)
  /\ phase' = "header"
  /\ UNCHANGED outcome

\* Mutant: the scan goes on behind an offset record.
PassOffset ==
  /\ SkipPayload
  /\ cur.hdr.marker = "offset"
  /\ phase' = "header"
  /\ UNCHANGED <<records, outcome>>

\* An offset record is read like any other and ends the scan.
StopAtOffset ==
  /\ SkipPayload
  /\ cur.hdr.marker = "offset"
  /\ phase' = "done"
  /\ outcome' = "ok"
  /\ UNCHANGED records

Panic ==
  /\ phase = "payload"
  /\ PaddingOverflows(cur.hdr) /\ "panic" \in OverflowMay
  /\ Return("panic")

Step ==
  \/ EndOfStream
  \/ ReadHeader
  \/ RejectHeader
  \/ ReadText
  \/ ReadTrailer
  \/ ReadAcl
  \/ PushRecord
  \/ StopAtOffset
  \/ Panic

Next == Step \/ IoFailure

Spec == Init /\ [][Next]_vars

\* The loop of read_records runs on one thread and waits for nobody; that a read
\* fails in the end is not assumed.
FairSpec == Spec /\ WF_vars(Step)

-----------------------------------------------------------------------------
TypeOK ==
  /\ LaidOut(image)
  /\ mode \in Modes
  /\ pos \in Nat
  /\ phase \in {"header", "name", "target", "trailer", "acl", "payload", "done"}
  /\ cur \in Locals
  /\ records \in Seq(Record)
  /\ outcome \in {"none", "ok", "io_error", "invalid_record", "invalid_magic", "panic"}

(* Up to the first malformed entry, offset record or ACL inside the trailer   *)
(* that needs padding, what the scan lists are the entries of the archive, in *)
(* their order, each with its own name, target and header, and with the       *)
(* position of its own data: no part of a record is ever read from the bytes  *)
(* of another.  In both modes, on truncated archives, with any ACLs behind    *)
(* that place, and whatever happened to the reads, as long as none was cut    *)
(* short.  From an ACL on whose padding is skipped where there is none,       *)
(* positions are wrong (archive.rs:130-134) and nothing is claimed.           *)
AgreesWithArchive ==
  ~ShortReads =>
    \A i \in Leading(image) : i <= Len(records) => records[i] = Listing(image.entries[i])

(* Strict mode lists nothing behind a malformed entry, and nothing behind the *)
(* offset record, where an archive keeps stale copies of earlier headers; of  *)
(* archives without an ACL that puts the scan out of step.                    *)
StrictStopsAtDamage ==
  (mode = "strict" /\ ~ShortReads /\ AclsFit(image)) =>
    \A i \in 1 .. Len(records) : i \in Leading(image)

(* A scan that returns Ok on a complete stream has listed every entry before  *)
(* the first malformed, offset or out of step one, whatever follows them; end *)
(* of stream never ends it earlier.                                           *)
NoneLost ==
  (outcome = "ok" /\ Whole(image) /\ ~ShortReads) =>
    \A i \in Leading(image) : i <= Len(records)

(* Whatever the bytes are: the data of every listed record lie inside the     *)
(* stream, except those of the last one, which may be cut off.                *)
OnlyLastTruncated ==
  \A i \in 1 .. Len(records) - 1 :
    records[i].filePos + DataLen(records[i]) <= image.len

(* Whatever the bytes are: each record's header lies behind the data of every *)
(* record before it, so no byte is used for two records.  Positions are exact *)
(* as long as the stream, with the padding a cut-off ACL may add, fits u32.   *)
NoByteUsedTwice ==
  (image.len + 24 <= Word) =>
    /\ \A i \in 1 .. Len(records) : records[i].at + HeaderSize <= records[i].filePos
    /\ \A i, j \in 1 .. Len(records) :
         i < j => records[i].filePos + DataLen(records[i]) <= records[j].at

(* In strict mode the positions add up to a walk over the entries, also where *)
(* archive.rs:145 overflows and wraps: the scan implements the listing that   *)
(* ArchiveListing describes, of every archive without an ACL that puts it out *)
(* of step.                                                                   *)
InStep == mode = "strict" /\ AclsFit(image)
Listed == INSTANCE ArchiveListing WITH
            listed <- IF InStep THEN records ELSE <<>>,
            status <- IF InStep THEN outcome ELSE "none"
StrictListing == Listed!ListingSpec

(* "skips malformed records when the stream can continue" (README.md:58-59):  *)
(* of a complete archive the best-effort scan lists all that is well formed.  *)
(* It does not.                                                               *)
SkipsOnlyMalformed ==
  (mode = "best_effort" /\ outcome = "ok" /\ Whole(image)) =>
    \A i \in 1 .. Len(image.entries) :
      Listable(image.entries[i].hdr) =>
        \E j \in 1 .. Len(records) : records[j] = Listing(image.entries[i])

(* The scan of every stream ends: each attempt consumes a whole header.       *)
Terminates == <>(phase = "done")
=============================================================================
