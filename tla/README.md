# A specification of bffextract-rs

bffextract-rs reads backup files of AIX (`.bff`), lists their records and
extracts them. `bfflib` is the library, `bffextract` the command line program
on top of it. Everything runs on the caller's thread; what makes the code hard
is not concurrency but positions, partial failure and order. An archive is a
stream without an index in which every record begins where the one before it
happens to end, all readers share that one stream, the data may be cut off,
damaged or compressed, and extraction changes a file system that other records,
or an earlier run, have changed before.

Source paths below are relative to `bfflib/src/` unless they say otherwise.

## Inventory

| Part | State | Operations | Uses | Hard cases | Correct if |
|---|---|---|---|---|---|
| File header (`archive.rs:43-66`, `bff.rs:73-91`) | none | read_file_header | stream | checksum stored or 0, block length of its own | accepted iff magic and checksum agree |
| Record scan (`archive.rs:68-183`, `bff.rs:211-238`) | stream position, list of records | read_records, read_next_record, read_aligned_string | stream, ACL payloads | relative seeks, truncation, damage, foreign bytes, short reads, u32 overflow | the list is what the archive holds, strict mode stops at damage |
| ACL payloads (`acl.rs:200-360`) | none | build_acl_data, parse_acl_payload, parse_nfs4_acl_payload | record trailer | counts and lengths from the file | entries are those stored |
| NFS4 ACL texts (`archive.rs:568-606`) | stack of records waiting for a text | attach_nfs4_acl_texts | records, stream | pairing in the wrong order, I/O errors | each text reaches its record |
| Record readers (`extract.rs:58-109, 199-220`) | position of the shared stream | open, open_raw, read_text | records, Huffman decoder | one stream for all readers, stale positions | a reader delivers the data of its record |
| Huffman decoder (`huffman.rs`) | table, code, level, kept symbols | new, read | stream limited by `take` | buffers ending within a byte, u8 counters, damaged tables, failing reads | it delivers the content, once and in order |
| Extraction (`archive.rs:306-445`, `extract.rs:111-248`, `util.rs`) | file system, report | extract*, create_dir_all, set_file_attributes | readers, path validation | order of records, links, partial failures | what is reported is what is on disk |
| Paths and lookup (`archive.rs:185-221`) | none | validated_extraction_path, record_by_filename | records | duplicates, `..` | nothing is written outside the destination |
| CLI (`bffextract/src/main.rs`) | none | main, extract_records, record_matches_filter | Archive | file size limit | every skipped record is reported |
| Listings and ACL text (`acl.rs:362-579`, `main.rs:183-257`) | none | formatting | records | none of state | not modelled |

The interaction is one chain: `Archive::new` or `Archive::scan` reads the file
header, scans the records, then goes back to attach NFS4 texts. `file`,
`raw_file` and the `extract` family seek the same stream to a record's
`file_position`, limit it to `compressed_size` and read it raw or through the
decoder, which `io::copy` calls with buffers it chooses. `PROJECT.json` lists the
hazards of each part at their lines.

## Modules

| Part | Model | Abstract specification it implements | Instances for TLC | Proofs |
|---|---|---|---|---|
| File header | `FileHeader` | | `MCFileHeader` | `FileHeaderProofs`, `Iteration` |
| Record scan | `ArchiveLayout`, `RecordScan` | `ArchiveListing` (strict mode) | `MCRecordScan` | `RecordScanProofs` |
| ACL payloads | `AclPayload` | | `MCAclPayload` | `AclPayloadProofs` |
| NFS4 ACL texts | `Nfs4Attachment` | | `MCNfs4Attachment` | `Nfs4AttachmentProofs` |
| Record readers | `RecordReader` | `RecordSources` | `MCRecordReader` | `RecordReaderProofs` |
| Huffman decoder | `HuffmanDecoder` | `ByteSource` | `MCHuffmanDecoder` | `HuffmanDecoderProofs` |
| Extraction, paths, CLI | `FileTree`, `Extraction` | `ExtractionReport` | `MCExtraction` | `ExtractionProofs`, `Iteration` |

How they fit together. The list that `RecordScan` leaves behind is what
`Nfs4Attachment`, `RecordReader` and `Extraction` take as given, each reduced to
the fields it looks at; `NoByteUsedTwice`, shown of the scan, is the assumption
of `RecordReader` that records do not overlap. `AclPayload` tells the kinds of
ACL apart that `Nfs4Attachment` starts from. `ByteSource` is the promise of one
reader; `HuffmanDecoder` implements it bit by bit, and `RecordSources` extends
it to readers opened one after the other on one stream, which `RecordReader`
implements. `Extraction` takes what a reader delivers as whole, cut off, wrong
(after a failed read that the decoder ignored), failing, or ending in a panic.

### ArchiveLayout and RecordScan

An archive image is a sequence of entries with their offsets and the length of
the stream, which may cut entries off. The layout states the rules of the
writer: strings in 8-byte units, an ACL whose first 24 bytes are in the trailer,
data and entries on 8-byte boundaries. Field values are reduced to what the scan
decides on: format marker, magic, the symlink and S_IXACL bits of the mode,
`size > 0`, `compressed_size`, `acl_len`. A string is its length and the part
that `first_segment` keeps. `LaidOut` is the assumption on images. It says
nothing about the values in the entries, so damaged entries, offset records and
truncation are all images; it does say that an entry without data has a
`compressed_size` that needs no padding, as the writer's directories do.

The scan knows positions only. `HeadersAt`, `TextsAt` and `AclLensAt` give what a
read at a position returns: the part of the entry that lies there, or, anywhere
else, a choice from `ForeignHeaders` and `ForeignAclLens`. So every way the scan
may fall out of step with the archive is a behaviour of the model. No byte is
read twice, which makes the choice at reading time the same as one made before.

| State | Code |
|---|---|
| `pos` | the stream position |
| `phase`, `cur` | where `read_next_record` is and its locals |
| `records`, `outcome` | the vector of `read_records` and its result |

`ReadHeader`/`RejectHeader` are lines 83-93 with the match arms of 176-178,
`ReadText` one call of `read` in `read_aligned_string`, `ReadTrailer` and `ReadAcl`
lines 102-126, `SkipPayload` the seeks of 128-148, followed by `PushRecord` or
`StopAtOffset`. `EndOfStream` is the arm of line 175, whichever `read_exact` met
the end. `IoFailure` may happen at any read when `IoErrors`.

`Word` stands for 2^32, the modulus of the u32 fields and of `file_position`.
Where the padding of line 145 overflows, `OverflowMay` says what the build does:
panic (debug) or wrap (release), or either, in one run. A sum that wraps is off
by `Word`, a multiple of 8, so the padding comes out exact (`PaddingIsExact`).

### HuffmanDecoder

`stream` is the stored data, ended by `take`, with the content they stand for.
`parse_header` is a step for each of its loops' rounds: `ReadLevels`, `ReadCount`,
`CountsDone` (the first increment of the last count), `ReadSymbols`,
`SymbolsDone` (the second), then `FillInodes`, one level of `fill_inodesin` on
its way back from the recursion, and `HeaderDone`. `RejectHeader` and
`HeaderPanics` are its errors. `Call(n)` is the start of `read` with a buffer of
n bytes, `FetchByte`, `FetchFails`, `EndOfData` and `BufferFull` are the head of
its loop, and `PutSymbol`, `EndMark`, `InvalidLevelIndex`, `Descend` and
`ByteDone` the loop over bits. `code`, `symbolsin` and `inodesin` keep their
width: a byte of `ByteBits` bits. With `OverflowChecks` an increment that
overflows panics, otherwise it wraps; the shift of `code` drops bits in both.
Where no increment overflows, both builds behave alike.

`delivered` is what all calls handed out. What callers make of a returned count
is part of the model: 0 is the end, and `io::copy` and `read_to_end` panic on a
count beyond the buffer (phase `overfilled`).

`MaxFailures` bounds the reads that fail, `BufSizes` the buffers.

### RecordReader

`Open` is `file` or `raw_file`: lookup by name, the seek to `file_position`, the
`Take` of `compressed_size` (`limit`) and, for compressed data, the reading of
the table. `OpenFails` is each way this may end in an error, with the stream
left where it happened. `ReadRaw` is a read through `Take`, `FetchByte` and
`HandOut` one through the decoder, `ReadEnd` the Ok(0). `ReadText` is the reader
of ACL texts. Any of them may be followed by another open: dropping a reader is
no step of its own. A byte is known by its record and number, so a byte of
another record, or of none, is told apart. `done` of a record says how many
symbols are complete after each byte behind the table: which they are is given,
how they come about is `HuffmanDecoder`'s. The end mark is in the last stored
byte, and with it `read` returns at once: `HandOut` then gives all kept symbols,
and `Overfills` is the count beyond the buffer on which the caller panics.

A read that fails is an error of a raw reader (`ReadFails`). The decoder ignores
it and decodes a stale byte (`huffman.rs:120-123`): `FetchFails`. From then on it
is out of step with the data, and `FetchFails` and `FetchGarbled` hand out what
`Garble` allows: no symbol, one that is not the record's, an end mark, an
`InvalidLevelIndex`. `failures` counts these reads, at most `MaxFailures`;
`garbled` holds what came after the first, `delivered` what came before. The
refinement maps a reader with a failure to a source that has failed, whatever it
goes on to return: callers are promised nothing of it, and the next reader must
still be right.

### AclPayload

`WriteAixc`, `WriteNfs4` and `Store` are the writer: entries one behind the
other, then the trailer with a count and a length that need not be right.
`BuildWithoutPayload`, `BuildNfs4` and `BuildAixc` are the branches of
`build_acl_data`; `ParseAce` and `ParseNfs4Ace` one round of the two loops,
`Finish` their end. The module knows offsets, not bytes: a read from where an
entry starts gives that entry, from anywhere else `Garbage`.

### Nfs4Attachment

`pending` is the stack `pending_nfs4`, `index` the record the loop is at. A round
is `NoText` or `Attach`, or `ReadFails` when the data of a synthetic record
cannot be read, which ends the opening of the archive. `subject` is known to the
writer only; the code never reads it, the properties do.

### FileHeader

`TooBig` is the check in `main`, `ReadHeader` the branches of
`read_file_header`, `AddByte` one round of the sum in 16 bits, `Compare` its end.
`Checksum`, which the properties use and the code does not, adds the bytes up
without a limit and takes the sum modulo 2^16 at the end.

### FileTree and Extraction

`FileTree` is a file system as a function from paths to nodes, with links
followed as the system does, `MaxHops` at most. A node says from which record
its bytes and each of its attributes come. `Follow` replaces the first link on a
path by what the link says, `MaxHops` times; a path that still has a link on it
then leads nowhere, as with ELOOP. `TargetOf` is `validated_extraction_path`,
with `Inner` for the components it pushes and `Rejected` for those it refuses.
`Extraction` has an action per call that touches it:

| Actions | Code |
|---|---|
| `NextRecord`, `PassRecord`, `NamedRecord`, `Return` | the loops of `extract_when_with_attr`, `extract_when_best_effort_with_attr`, and `extract_file_by_name` with its lookup; filter and path validation |
| `Prepare`, `MakeDir`, `DirsMade` | `util::create_dir_all` and the `fs::create_dir_all` it calls, level by level |
| `OpenSource`, `CreateFile`, `Copy`, `CopyFails` | `extract_file`, with the `BufWriter` dropped at its end; the copy of a file is one step |
| `DecoderPanics` | a table that the decoder panics on, or a count beyond the buffer of `io::copy`; nothing catches it, so the whole extraction ends (outcome `panic`) |
| `Symlink`, `SetAttribute` | the link; times, owner and mode, one after the other |
| `Report`, `CallFails` | the verdict on the record; every call may fail, and must where the tree does not allow it |

`task` is what the caller asks for: strict, best effort (what the CLI does) or
one record by name, with a filter and the attributes to be set. `origin` is the
tree before, so that properties can speak of what was not to be touched.
`compressed` of a record says that its data go through the decoder. Such a copy
may end as `wrong` where reads fail: the error is ignored, `io::copy` returns Ok,
and the record is reported extracted.

## Runs

| Run | Question | Bounds and result |
|---|---|---|
| `record_scan` | Does the list agree with the archive, in both modes, and is strict scanning the abstract listing? | all archives of up to two of thirteen kinds of parts, ACLs of 8, 16, 20 and 24 bytes inside the trailer among them, 0, 1, 9, 50 or 130 bytes cut off, failing reads, foreign bytes that look like a record or an offset record, overflow that panics or wraps. Holds, and ends. The agreement with the archive is claimed up to the first ACL that does not fill units of 16 bytes inside the trailer; the record that has it is misplaced, and what follows may be lost. |
| `best_effort_skips` | Does best effort lose only malformed records? | three parts of three kinds. No: a well-formed record behind a malformed one is lost. |
| `huffman` | Does the decoder deliver the content? | 8-bit bytes, debug build, contents of up to 3 symbols and runs of up to 10, each call with a buffer of 1, 3 or 64 bytes. Delivered exactly under five small trees with codes of 1 to 10 bits and two large ones (254 leaves on the last level; all 256 values on nine levels). Two more trees of all 256 values overflow the u8 counters: not a byte is delivered, the decoder panics while it reads the table. |
| `full_alphabet` | And in a release build, where the counters wrap? | those two trees, buffers of 3 and 64. No: the table is accepted, and the reader ends regularly with the content lost. |
| `huffman_any` | Is any table safe to decode with? | all data of up to six 2-bit bytes, one failing read, buffers of 1 and 2, release build. Holds, and reading ends. |
| `overfilled` | Does `read` return at most the size of the buffer? | one symbol of one bit. No: not at the end mark. |
| `extraction` | Is what is reported on disk, does it stay, is all else left alone, is every record accounted for? | archives of up to two of sixteen records, seven tasks, six trees with files, directories and links in the way, each call failing or not, a decoder that may panic or ignore a failed read. Holds, and ends. The whole content on disk is claimed of plain files, and of compressed ones only where no read fails. |
| `lost_flush` | Is a file that is reported extracted there with all its data? | one record, last write failing. No. |
| `nfs4_attachment` | Does each text reach its record? | all lists of up to four records of eight kinds, each text with every subject before it, failing reads. Holds where the archive nests the texts. |
| `acl_payload` | Are the entries those written? | up to two entries in both layouts, `ace_len` 0, 12, 20, counts right or 0, 1, 4, 9, every `acl_len` from 0 to 12 beyond the entries. Holds. |
| `record_reader` | Are readers independent of each other? | three opens on two archives cut off at twelve lengths in all, buffers of 1 and 3, up to two failing reads per reader. Holds; of a decoder only until it ignores a failed read. |
| `file_header` | Which files are scanned at all? | a sound header and one without checksum, each of nine bytes of the first with six values, one byte missing or more. Holds. |

Why the bounds are enough. Two parts are the least that show one entry
disturbing the next; the parts take every branch in `read_next_record` (link, no
data, ACL longer than the trailer has room for, ACL inside it that needs padding
or does not, offset record, both kinds of damage, overflow), though not every
combination of them, have strings below, at and above 8 characters, and the cuts
end the stream in every phase. Three parts are used
where best effort has to get back into step. `Word` = 4096 keeps positions small
and still wraps for the part `Huge`.

For the decoder, a buffer matters only by where it ends within a byte: 1 and 3
give every offset, 64 none. The trees make codes end at, before and across byte
boundaries; runs of 10 one-bit symbols fill more than a byte. The large trees
bring the counters to 255, the overflowing ones to 256, once in `parse_header`
and once in `fill_inodesin`. 2-bit bytes make every header of up to three levels
possible and put the overflow at 4.

Two records are the least that show one extraction disturbing another, and the
trees to start with supply what a third would leave behind; the records include
every kind, the same path twice in different kinds, one path below another,
links to each other's paths, a directory that cannot be written in, damaged and
cut-off data, and paths that are rejected. With three hops a loop of links and a
path across two links both occur. Four records are the least in which texts can
nest and follow each other. Two entries show a length that moves the next one,
and `MaxExtra` 12 is room for one made-up entry. The three opens let a reader
meet the position that one reader left and another moved; two failures let a
decoder that is out of step fail again, and a buffer of 1 is smaller than the
symbols of the last byte, one of 3 is not.

Fairness is only used for termination. `read_records`, `read` and the `extract`
family run on the caller's thread and wait for nobody, so a step that can be
taken is taken: `WF(Step)` for the scan, without the I/O failure, so a stream
that works must end it; `WF(Next)` for the decoder, whose caller reads on until
`Ok(0)`; `WF(Next)` for extraction, where each call of the system returns. That
reads do not fail forever is the bound `MaxFailures` of the decoder, which would
not end on a stream that keeps failing, since it ignores the failure; for the
same reason it is what makes the copy of a compressed file one step that ends.

Deadlock checking is off because every behaviour ends.

## Disagreements with the code's own words

Four are shown by runs, `best_effort_skips`, `overfilled`, `full_alphabet` and
`lost_flush`, and are listed with their lines in `PROJECT.json` under `findings`.
`overfilled` needs an end mark in the same stored byte as symbols that overflowed
the caller's buffer; callers with large buffers meet it only if the content ends
just behind a full buffer.

Others, and behaviour a reader may not expect, came up while modelling. The
models follow the code in all of them:

- Strict parsing of a cut-off archive returns Ok with what it has
  (`archive.rs:175`), a record with missing data at its end included;
  `README.md:56-57` says that it "returns an error when a malformed record is
  encountered". `EndOfStream`.
- A short read ends a name (`bff.rs:216`), though `bff.rs:211` speaks of reading
  to the NUL. `ReadText` with `ShortReads`.
- An ACL that lies inside the trailer is padded from its full length
  (`archive.rs:131-134`) and the padding skipped behind the trailer, against the
  layout of `archive.rs:110-111` and `acl.rs:16-18`. One of 20 bytes puts
  `file_position` 16 bytes off (12 bytes, aligned to 8), one of 8 or 24 bytes 8,
  and the scan is out of step from there on. `SkipPayload` where `AclFits` is
  false.
- A last level of 255 leaves and the end mark overflows its u8 counter
  (`huffman.rs:81`), and so does a sum of 256 nodes (`huffman.rs:91`): a panic in
  a debug build, content lost without an error in a release build, which
  `full_alphabet` shows. `CountsDone`, `SymbolsDone`, `FillInodes`.
- A failed read of the archive is ignored and the byte before it decoded again
  (`huffman.rs:120-123`). The content is wrong or too short from there on and
  still ends with Ok, so extraction reports the record as extracted. `FetchFails`
  of both decoders, `Garble`, `Copy`.
- A panic of the decoder takes the whole extraction down, best effort or not: on a
  table of no levels (`huffman.rs:57`), on an overflow in a debug build
  (`huffman.rs:70, 81, 91`), and when a count goes beyond the buffer of
  `io::copy`. `HeaderPanics`, `Overfills`, `DecoderPanics`.
- `create_dir_all` replaces a file only in the place of the last part of the path
  (`util.rs:16`); `util.rs:6` speaks of any part. `Prepare`, `MakeDir`.
- A synthetic record named `acl/` is a file with the path of a directory
  (`extract.rs:113`): extracted after it, it fails, and before it, it is removed.
  `CreateFile`, `Prepare`.
- The times of a directory are set before files are put into it, which changes
  them again (`extract.rs:146`). `Enter`.
- Attributes of a link are set through it (`extract.rs:146`); where it leads
  nowhere the record is skipped although its link is there. `SetAttribute`.
- A text that follows an AIXC ACL without the mode flag replaces its entries
  (`archive.rs:598`). `Attach`.
- `is_allow` (`acl.rs:67`) tests two bits, the comment at `acl.rs:60` names one.
  Not modelled: an access word is one value in `AclPayload`.

## Proofs

TLAPS checks eight modules. None has an assumption but the named ones on the
constants, and those stated in the theorems. Of what the passing runs check,
every invariant and action property and every refinement is proved, except
`DeliversContent`.

### RecordScanProofs

In three parts. The first holds whatever the bytes are:

- `TypeCorrect`: `Spec => []TypeOK`.
- `OnlyLastIsTruncated`, `RecordsDisjoint`: only the last record can be cut off
  and no byte serves two records. Neither is inductive: while a record is being
  read it is not in the list yet. `ForwardInv` adds that the data of all listed
  records end at or before the reader, and the record in progress begins behind
  them with its header inside the stream.

The second is about archives that follow the layout. One assumption is stated in
its theorems, which excludes a disagreement named above: `~ShortReads`. The other
disagreement is in the properties, which speak of the entries up to the first
malformed one, offset record, or ACL inside the trailer that needs padding
(`Leading`, with `AclFits`), and, where they speak of the rest, only of archives
without such an ACL.

- `ListsTheArchive` (`AgreesWithArchive`), `ListsAll` (`NoneLost`), `StrictStops`
  (`StrictStopsAtDamage`).
- The invariant `TrackInv` says where the reader can be: `OnTrack`, in the next
  entry not listed yet, at the place its phase says, the locals holding what was
  read of that entry; `CutOff`, behind the end of a stream that ended within a
  string, where `read_aligned_string` just stops; or `OffTrack`, with everything
  in `Leading` listed: behind a malformed entry in best-effort mode, or behind an
  ACL that put the reader out of step. The
  geometry of the layout (`Geometry`, `Apart`, `ReadsOwn`) shows that a reader in
  place can read nothing but the entry it is in, and `PayloadPlace` that the
  seeks of the code add up to the beginning of the next entry.

The third proves the refinement, `ImplementsListing`: from `TrackInv`, under the
same assumptions, each action of strict scanning is a step of `ArchiveListing` or
a stutter, one lemma per action. What makes it more than a mapping is the end of
the stream: a scan may stop there, or list one last record whose data are
missing, only if the entry is cut off in the archive (`EntryCut`).

### HuffmanDecoderProofs

`DecoderTypeCorrect`, `LevelStaysInTable`, `KeptSymbolsFromOneByte`,
`CountsAddUp`, for every stored data and buffer and both builds. The invariant
joins what is known of the table in each phase of its making (`TableInv`), of the
read in progress (`ReadType`), of the kept symbols (no more than the bits of the
byte that are used up, `KeptInv`) and the sum that `current_out` is. Powers of two
are an assumption (`2 ^ n \in Nat` and above n, for n up to `ByteBits`), as
exponentiation is beyond the provers.

### RecordReaderProofs

- `SourcesAreIndependent` (`IndependentSources`): readers opened one after the
  other on one stream implement `RecordSources`, for archives of any number of
  records, cut off anywhere, and any buffers and short reads. A failing read ends
  a raw reader; a decoder ignores it, delivers its record's content up to there
  and counts as failed from there on. No failure reaches the next reader.
- `EndsOnlyCutShort` (`EndsWhole`): a reader that reports the regular end without
  the whole content of its record, or with more, has a record that is cut off, or
  is a decoder that ignored a failed read.
- `ReaderTypeCorrect` (`TypeOK`).

The invariant ties three numbers together that the code keeps apart. While a
reader is open, the position of the shared stream and what `Take` still lets
through add up to the end of the record's stored data, so the limit ends the
reader at its own last byte; a raw reader has delivered the bytes it has passed;
and what a decoding reader has delivered together with what it keeps are exactly
the symbols that the bytes it fetched complete (`DecodedSoFar`). Of a decoder out
of step only the first remains: it has lost the content, not its place in the
stream, so it cannot read beyond its record either. Nothing is said of the reader
before: that is the proof that none can disturb the next. That
records do not overlap is an assumption here and what `RecordsDisjoint` shows of
the scan; from it follows that the byte at a position within a record is that
record's and no other's (`OwnByte`).

### FileHeaderProofs

- `WholeHeaderIsSummed`: for every file, the magic makes the summed block the
  whole header.
- `SoundHeadersAreAccepted` (`AcceptsSoundHeaders`): for every file, scanning goes
  on exactly when the file is long enough, the magic is right and the checksum is
  absent or right. The invariant is that the sum so far is the reference total of
  the bytes before `index`, modulo 2^16: wrapping at every addition comes to the
  same as wrapping once, and leaving out the two bytes of the checksum to the
  same as their counting as 0.
- `HeaderTypeCorrect`.

### ExtractionProofs

For archives of any length, every task and tree, links and loops of links
included, every call of the system that may fail, and a decoder that may ignore a
failed read or panic.

- `EachRecordAccounted` (`Accounted`): the refinement of `ExtractionReport`, which
  leaves records without a verdict only behind a panic.
- `ExtractionTypeCorrect` (`TypeOK`): above all that the tree stays a tree.
- `NothingElseTouched` (`OthersUntouched`).
- `ReportedRecordsAreThere` (`ReportedIsOnDisk`), an action property. Of the
  content it says that plain files are there whole, and compressed ones if no read
  fails; where reads may fail, a compressed file reported extracted may hold
  something else (`Extracted`).
- `ReportedRecordsStay` (`KeptUntilSuperseded`).

They share one inductive invariant in five parts, each resting on those before:

| Part | What it says | Why it is needed |
|---|---|---|
| `IInv` | the records tried are those selected up to the one in hand, in order, and which phases there can be before a verdict | without it a record could be tried twice or be in hand with a verdict |
| `TreeInv` | the tree is a tree, and what is in hand fits it | `MakeDir` and `CreateFile` put nodes at places; that a directory lies above each has to come from the call before |
| `OthersInv` | `OthersUntouched`, and every link of the tree says what a link that was there before says, or a link record of the archive | a record may put a link where a later one walks across it: what lies behind a link must be known for every link at once |
| `StageInv` | per phase, what the calls before have done for the record in hand: its directories are there, its entry is there, these attributes are set | the verdict comes several calls after the work |
| `KeptInv` | every record reported and not superseded is there, and was of a kind that is extracted | the steps of later records go through states where they are half done |

The facts on which most of the proof rests are about following paths.
`FollowStarts`: a path leads to itself, or to what some link says or below that.
`FollowPlace`: it leads to the place of its last name, unless a link is there.
`SameFollow`: two trees with the same links follow alike, so directories, files
and attributes never redirect a path. `EnterKeepsWay`: a new node, even a link,
does not redirect the path by which its directory was reached. Every call of the
code then has the same kind of effect (`CallEffect`): the tree stays a tree, only
a spot that the record's path leads to and what is above it change, and a link
that is new is the record's.

Without links, which `KeptUntilSuperseded` supposes, a path leads to itself
(`PlainPaths`), and a call for one record can then disturb another's node only
at, above or below its path.

### The other modules

`Nfs4AttachmentProofs`: `PairedLikeBrackets`, `NoTextInVain`, `EachReachesItsOwn`
for lists of any length. The invariant says that the stack holds exactly the
records that wait and have no text, in order. `OwnInv` adds for nested archives
that every text so far has reached its own record; the step is that the top of
the stack must then be the subject of the next text.

`AclPayloadProofs`: `LayoutIsRecognised`, `EntriesAreBounded`, `DecodedAsWritten`,
`WholeIsDecoded`, for any number of entries and any lengths and counts. The
invariant has the writer's side (`Layout`: starts ascend by the sizes), the room
used so far (`RoomInv`), that the parser stands at the start of the entry after
those it has parsed (`TrackInv`), and that on a whole payload the number of
entries it still wants is the number that are left (`WholeInv`).

`Iteration`: induction and repetition, which the proofs about `Follow` and
`Checksum` need. The induction theorems of the library take an operator as a
parameter, which the provers cannot put in. Their one for well-founded relations
does not, when the relation is the strict subset order on finite sets:
`LeastNumber` (every set of numbers has a least element) follows from it with the
interval `1 .. n` in place of n, then `Induction` over a set in place of a
predicate, then `Repeated`: the values of N steps of a function exist. A recursive
function over `0 .. N` thereby has the equations it is defined by, which is all
the other proofs use.

### Only model-checked

- `Terminates` (of the scan and of extraction) and `ReadingEnds`: liveness under
  fairness, out of the prover's reach.
- `DeliversContent`: that the decoder undoes the encoder, for the code trees of
  the run `huffman`. It needs that the levels of any valid table make a prefix code,
  an induction over the levels with powers of two, and then that the code of a
  symbol read bit by bit ends at its leaf.

## Not modelled

- Formatting: ACL texts (`acl.rs:362-579`), listings (`main.rs:183-257`),
  `Display` of errors, argument parsing, names of users and groups. No state.
- The definitions of `error.rs`, `attribute.rs` and `lib.rs`: errors appear as
  outcomes and phases, flags as the set `Attributes`.
- Values that the scan copies without looking at them (owners, device words).

Abstractions a reader should know of:

- Extraction is not run as root: a directory or file that its mode makes
  read-only cannot be changed. Links lead to places inside the tree. The
  destination has a name. The `normalize-path` crate is not under `src/`; what it
  does to record paths is taken from how `archive.rs` uses it.
- `RecordReader` has what a decoder does within a byte from `HuffmanDecoder`: the
  symbols of sound data are given, those of a decoder out of step arbitrary. Data
  that are damaged in the archive itself are left to `HuffmanDecoder`.
- `Extraction` does not relate an ignored failed read to what the reader makes of
  it: any compressed copy may end as wrong where reads fail.
- `AclPayload` knows the start of an entry, not its bytes. With several ids per
  entry, AIXC payloads exist that are as long as NFS4 ones of that count (ten
  entries of 20 bytes are 208 = 16 * 13 bytes); `OneIdEach` excludes them, and the
  code takes them for NFS4.

## Plan

Done: the scan and its listing, the decoder, the readers, NFS4 texts, ACL
payloads, the file header, extraction with its report, and the proofs above.

Left, in this order:

1. `DeliversContent`, in two steps: that the table of a valid tree gives every
   leaf the code the encoder uses, and that the bits of one symbol take the
   decoder to it, wherever a buffer ends.
2. One composed run from the scan of an archive that is cut off to the readers
   of the records listed.
