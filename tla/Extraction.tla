------------------------------ MODULE Extraction ------------------------------
(***************************************************************************)
(* Extraction of the records of an archive: the loops of Archive::extract_ *)
(* when_with_attr ("strict") and extract_when_best_effort_with_attr        *)
(* ("best_effort", which the CLI uses), extraction of one record by name   *)
(* ("named"), and what they call: validated_extraction_path, extract_      *)
(* record_with_attr, create_dir_all, extract_file, set_file_attributes.    *)
(*                                                                         *)
(* One action per call that touches the file system; each can fail, and    *)
(* what the calls before it did stays.  The content of a record is its     *)
(* index; how it is read is the subject of RecordReader.                   *)
(***************************************************************************)
EXTENDS FileTree

CONSTANTS
  Archives,   \* the lists of records an archive may offer
  Tasks,      \* what may be asked for
  Disks,      \* the trees extraction may start with
  IoErrors,   \* may a call of the system fail?
  LostFlush   \* may the write fail that BufWriter makes when it is dropped?

Kinds == {"dir", "file", "link", "device", "none"}   \* "none": no type at all
Attributes == {"times", "owner", "mode"}

\* A path is the sequence of its components ("." only as the first one, ".."
\* and "/" as they are; a slash at the end is not kept).  compressed: goes
\* through the decoder.  data: whether that accepts the table, and decodes to
\* the end of the data.
Record == [path : Seq(STRING), kind : Kinds, to : Seq(STRING), compressed : BOOLEAN,
           data : {"good", "bad_table", "bad_code", "cut"}, readonly : BOOLEAN]
Task == [style : {"strict", "best_effort", "named"}, filter : SUBSET Seq(STRING),
         name : Seq(STRING), destination : Seq(STRING), attributes : SUBSET Attributes]

ASSUME ExtractionConstantsOK ==
  /\ \A a \in Archives :
       /\ a \in Seq(Record)
       /\ \A i \in 1 .. Len(a) : a[i].compressed \/ a[i].data \in {"good", "cut"}
  /\ \A t \in Tasks : t \in Task /\ t.destination # <<>>
  /\ \A f \in Disks : IsTree(f)
  /\ IoErrors \in BOOLEAN /\ LostFlush \in BOOLEAN

VARIABLES
  archive, task,   \* what is extracted, and how; never change
  origin,          \* the tree before; never changes
  fs,              \* the tree
  at,              \* the record being extracted, or the last one that was
  target,          \* target_path of that record
  depth,           \* levels of a path that fs::create_dir_all has gone down
  phase,           \* the call that comes next
  verdicts,        \* what became of each record: the ExtractionReport, in one list
  outcome          \* "none" until the call returns

vars == <<archive, task, origin, fs, at, target, depth, phase, verdicts, outcome>>
given == <<archive, task, origin>>

Rec == archive[at]

-----------------------------------------------------------------------------
(* Which records, and where to.                                            *)

\* record_matches_filter: Path::starts_with compares whole components.
Selected(i) == task.filter = {} \/ \E f \in task.filter : IsPrefix(f, archive[i].path)

\* Mutant: only the beginning of a path is looked at.
RejectedAtFront(path) == path # <<>> /\ path[1] \in {"/", ".."}
Rejected(path) == \E k \in DOMAIN path : path[k] \in {"/", ".."}

\* Component::CurDir, which only a path's first component can be, is left out.
Inner(path) == IF path # <<>> /\ path[1] = "." THEN Tail(path) ELSE path

TargetOf(i) ==
  IF task.style = "named" THEN task.destination
  ELSE task.destination \o Inner(archive[i].path)

\* Path equality ignores a slash at the end; the first record wins.
Matches == {i \in 1 .. Len(archive) : archive[i].path = task.name}

\* Kinds that are extracted; a device only as an empty file, in best effort.
Supported(kind) ==
  kind \in {"dir", "file", "link"} \/ (kind = "device" /\ task.style = "best_effort")

-----------------------------------------------------------------------------
(* Conditions of the calls.                                                *)

ReadOnly(node) == node.mode > 0 /\ archive[node.mode].readonly

\* May names in the directory of place p change?
MayChange(p) == Front(p) \in DOMAIN fs /\ fs[Front(p)].type = "dir" /\ ~ReadOnly(fs[Front(p)])
MayCreate(p) == p \notin DOMAIN fs /\ MayChange(p)

\* The directory that create_dir_all is asked for.
Goal == IF Rec.kind = "dir" THEN target ELSE Front(target)
Level == Upto(Goal, depth + 1)

\* File::create follows links, to where a link leads nowhere as well.
MayTruncate == Found(fs, target, "file") /\ ~ReadOnly(fs[Follow(fs, target)])
MayCreateFile == MayCreate(Follow(fs, target))

\* A call that cannot succeed in this state.
Blocked ==
  \/ phase = "prepare" /\ Found(fs, Goal, "file") /\ ~MayChange(Place(fs, Goal))
  \/ /\ phase = "mkdir" /\ depth < Len(Goal)
     /\ ~Found(fs, Level, "dir") /\ ~MayCreate(Place(fs, Level))
  \/ phase = "open" /\ Rec.data = "bad_table"
  \/ phase = "create" /\ ~MayTruncate /\ ~MayCreateFile
  \/ phase = "symlink" /\ ~MayCreate(Place(fs, target))
  \/ phase \in task.attributes /\ ~Exists(fs, target)

-----------------------------------------------------------------------------
Init ==
  /\ archive \in Archives
  /\ task \in Tasks
  /\ origin \in Disks
  /\ fs = origin
  /\ at = 0 /\ target = <<>> /\ depth = 0
  /\ phase = "next"
  /\ verdicts = <<>>
  /\ outcome = "none"

\* Mutant: best effort, too, ends at the first record that fails.
SettleAll(i, verdict) ==
  /\ verdicts' = Append(verdicts, [record |-> i, verdict |-> verdict])
  /\ phase' = IF verdict = "failed" THEN "done" ELSE "next"
  /\ outcome' = IF verdict = "failed" THEN "ok" ELSE outcome

\* The extraction of record i is over.
Settle(i, verdict) ==
  /\ verdicts' = Append(verdicts, [record |-> i, verdict |-> verdict])
  /\ IF verdict = "failed" /\ task.style # "best_effort"
     THEN phase' = "done" /\ outcome' = "failed"
     ELSE phase' = "next" /\ UNCHANGED outcome

Start(i) ==
  /\ at' = i
  /\ target' = TargetOf(i)
  /\ depth' = 0
  /\ UNCHANGED <<given, fs>>
  /\ IF Supported(archive[i].kind) /\ ~(task.style # "named" /\ Rejected(archive[i].path))
     THEN phase' = "prepare" /\ UNCHANGED <<verdicts, outcome>>
     ELSE Settle(i, "failed")

NextRecord ==
  /\ phase = "next" /\ task.style # "named" /\ at < Len(archive)
  /\ Selected(at + 1)
  /\ Start(at + 1)

\* Mutant: a record that is left out is not passed.
PassNothing ==
  /\ phase = "next" /\ task.style # "named" /\ at < Len(archive)
  /\ ~Selected(at + 1)
  /\ UNCHANGED vars

PassRecord ==
  /\ phase = "next" /\ task.style # "named" /\ at < Len(archive)
  /\ ~Selected(at + 1)
  /\ at' = at + 1
  /\ UNCHANGED <<given, fs, target, depth, phase, verdicts, outcome>>

NamedRecord ==
  /\ phase = "next" /\ task.style = "named" /\ verdicts = <<>>
  /\ Matches # {}
  /\ Start(Min(Matches))

Return ==
  /\ phase = "next"
  /\ \/ task.style # "named" /\ at = Len(archive) /\ outcome' = "ok"
     \/ task.style = "named" /\ verdicts # <<>> /\ outcome' = "ok"
     \/ task.style = "named" /\ Matches = {} /\ outcome' = "not_found"
  /\ phase' = "done"
  /\ UNCHANGED <<given, fs, at, target, depth, verdicts>>

-----------------------------------------------------------------------------
(* create_dir_all of util.rs.                                              *)

Continue(next) ==
  /\ phase' = next
  /\ UNCHANGED <<given, at, target, verdicts, outcome>>

\* The call behind create_dir_all.
AfterDirs == CASE Rec.kind = "dir" -> "times"
               [] Rec.kind = "file" -> "open"
               [] Rec.kind = "link" -> "symlink"
               [] OTHER -> "create"

\* A file in the place of the directory is removed, or the link that leads to it.
Prepare ==
  /\ phase = "prepare" /\ ~Blocked
  /\ UNCHANGED depth
  /\ \/ Found(fs, Goal, "dir") /\ UNCHANGED fs /\ Continue(AfterDirs)
     \/ Found(fs, Goal, "file") /\ fs' = Leave(fs, Place(fs, Goal)) /\ Continue("mkdir")
     \/ ~Exists(fs, Goal) /\ UNCHANGED fs /\ Continue("mkdir")

\* fs::create_dir_all, one level at a time; it removes nothing.
MakeDir ==
  /\ phase = "mkdir" /\ depth < Len(Goal) /\ ~Blocked
  /\ fs' = IF Found(fs, Level, "dir") THEN fs ELSE Enter(fs, Place(fs, Level), NewDir)
  /\ depth' = depth + 1
  /\ Continue("mkdir")

DirsMade ==
  /\ phase = "mkdir" /\ depth = Len(Goal)
  /\ Continue(AfterDirs)
  /\ UNCHANGED <<fs, depth>>

-----------------------------------------------------------------------------
(* The entry itself.                                                       *)

\* open_record_reader; the decoder reads its table here.
OpenSource ==
  /\ phase = "open" /\ ~Blocked
  /\ Continue("create")
  /\ UNCHANGED <<fs, depth>>

\* Mutant: a new file takes the place of whatever has its name.
CreateFileInPlace ==
  /\ phase = "create"
  /\ fs' = Enter(fs, Place(fs, target), NewFile(at, "none"))
  /\ UNCHANGED depth
  /\ Continue(IF Rec.kind = "file" THEN "copy" ELSE "times")

\* The file or, for a device, the empty file that stands for it.
CreateFile ==
  /\ phase = "create" /\ ~Blocked
  /\ LET p == Follow(fs, target)
         node == NewFile(at, IF Rec.kind = "file" THEN "none" ELSE "whole")
     IN  fs' = IF MayTruncate
               THEN [fs EXCEPT ![p] = [node EXCEPT !.owner = fs[p].owner, !.mode = fs[p].mode]]
               ELSE Enter(fs, p, node)
  /\ UNCHANGED depth
  /\ Continue(IF Rec.kind = "file" THEN "copy" ELSE "times")

Fill(part) ==
  fs' = [fs EXCEPT ![Follow(fs, target)] = [@ EXCEPT !.part = part, !.times = 0]]

\* copy reads to what it takes for the end.  A decoder that runs out of data
\* reports the end; when the writer is dropped, the error of its last write is
\* not seen; and a decoder ignores that a read has failed (huffman.rs:120-123):
\* it goes on with a byte that is not the file's, and something else is written.
Copy ==
  /\ phase = "copy"
  /\ \/ Rec.data = "good" /\ Fill("whole")
     \/ Rec.data = "cut" /\ Fill("part")
     \/ Rec.data = "good" /\ LostFlush /\ Fill("part")
     \/ Rec.compressed /\ IoErrors /\ Fill("wrong")
  /\ UNCHANGED depth
  /\ Continue("times")

\* Mutant: a failed extraction removes what is in the destination.
CopyFailsAndCleansUp ==
  /\ phase = "copy"
  /\ Rec.data = "bad_code" \/ IoErrors
  /\ fs' = [p \in {q \in DOMAIN fs : ~IsStrictPrefix(task.destination, q)} |-> fs[p]]
  /\ Settle(at, "failed")
  /\ UNCHANGED <<given, at, target, depth>>

CopyFails ==
  /\ phase = "copy"
  /\ Rec.data = "bad_code" \/ IoErrors
  /\ Fill("part")
  /\ Settle(at, "failed")
  /\ UNCHANGED <<given, at, target, depth>>

\* The decoder panics, and nothing catches it: on a table of no levels or with
\* more symbols on a level than a byte counts, or when the symbols of the last
\* byte are more than copy's buffer takes, which the lengths decide.
DecoderPanics ==
  /\ \/ phase = "open" /\ Rec.data = "bad_table" /\ UNCHANGED fs
     \/ phase = "copy" /\ Rec.compressed /\ Fill("part")
  /\ phase' = "done" /\ outcome' = "panic"
  /\ UNCHANGED <<given, at, target, depth, verdicts>>

Symlink ==
  /\ phase = "symlink" /\ ~Blocked
  /\ fs' = Enter(fs, Place(fs, target), NewLink(Rec.to))
  /\ UNCHANGED depth
  /\ Continue("times")

\* Mutant: the attributes of a link are set, not those of what it leads to.
SetAttributeOfLink ==
  /\ phase \in Attributes /\ ~Blocked
  /\ fs' = IF phase \in task.attributes
           THEN [fs EXCEPT ![Place(fs, target)] = [@ EXCEPT ![phase] = at]] ELSE fs
  /\ UNCHANGED depth
  /\ Continue(CASE phase = "times" -> "owner" [] phase = "owner" -> "mode" [] OTHER -> "report")

\* set_file_attributes: each attribute that is asked for, on what the path leads to.
SetAttribute ==
  /\ phase \in Attributes /\ ~Blocked
  /\ fs' = IF phase \in task.attributes
           THEN [fs EXCEPT ![Follow(fs, target)] = [@ EXCEPT ![phase] = at]] ELSE fs
  /\ UNCHANGED depth
  /\ Continue(CASE phase = "times" -> "owner" [] phase = "owner" -> "mode" [] OTHER -> "report")

Report ==
  /\ phase = "report"
  /\ Settle(at, IF Rec.kind = "device" THEN "warned" ELSE "extracted")
  /\ UNCHANGED <<given, fs, at, target, depth>>

CallFails ==
  /\ \/ Blocked
     \/ IoErrors /\ phase \in {"prepare", "mkdir", "open", "create", "symlink"} \cup task.attributes
  /\ Settle(at, "failed")
  /\ UNCHANGED <<given, fs, at, target, depth>>

Next ==
  \/ NextRecord
  \/ PassRecord
  \/ NamedRecord
  \/ Return
  \/ Prepare
  \/ MakeDir
  \/ DirsMade
  \/ OpenSource
  \/ CreateFile
  \/ Copy
  \/ CopyFails
  \/ DecoderPanics
  \/ Symlink
  \/ SetAttribute
  \/ Report
  \/ CallFails

Spec == Init /\ [][Next]_vars

\* Everything runs on the caller's thread, and each call of the system returns.
\* Copy is one step: the end of a file comes, and reads do not fail for ever
\* (a decoder would write what it makes of stale bytes without end).
FairSpec == Spec /\ WF_vars(Next)

-----------------------------------------------------------------------------
TypeOK ==
  /\ archive \in Archives /\ task \in Tasks /\ origin \in Disks
  /\ IsTree(fs)
  /\ at \in 0 .. Len(archive)
  /\ target \in Seq(STRING) /\ depth \in Nat
  /\ phase \in {"next", "prepare", "mkdir", "open", "create", "copy", "symlink",
                "report", "done"} \cup Attributes
  /\ verdicts \in Seq([record : 1 .. Len(archive), verdict : {"extracted", "warned", "failed"}])
  /\ outcome \in {"none", "ok", "failed", "not_found", "panic"}

Selection ==
  IF task.style # "named" THEN {i \in 1 .. Len(archive) : Selected(i)}
  ELSE IF Matches = {} THEN {} ELSE {Min(Matches)}

(* Whatever fails, and wherever: each selected record, or the first of the    *)
(* name, is tried exactly once, in order; what became of it is reported; and  *)
(* Ok is returned exactly when strict extraction met no failure, or best      *)
(* effort has reached the end.  Only a panic of the decoder, which no caller  *)
(* catches, leaves the records from that one on without a verdict.            *)
Promise == INSTANCE ExtractionReport WITH
             selection <- Selection, lenient <- task.style = "best_effort"
Accounted == Promise!ReportSpec

\* What a file extracted from good data has: all of it; a compressed file
\* something else, too, where the decoder has ignored that a read failed.
Extracted(r) == IF r.compressed /\ IoErrors THEN {"whole", "wrong"} ELSE {"whole"}

\* What extraction of record i makes of tree f.
Holds(f, i) ==
  LET r == archive[i]
      p == Follow(f, TargetOf(i))
      name == Place(f, TargetOf(i))
  IN  /\ r.kind = "dir" => Found(f, p, "dir")
      /\ r.kind \in {"file", "device"} => Found(f, p, "file") /\ f[p].of = i
      /\ (r.kind = "file" /\ r.data = "good" /\ ~LostFlush) => f[p].part \in Extracted(r)
      /\ r.kind = "link" => name \in DOMAIN f /\ f[name].to = r.to
      /\ \A a \in task.attributes : f[p][a] = i

(* A record is reported extracted only when its directory, its whole file,    *)
(* its link or its stand-in is on the disk with all attributes asked for,     *)
(* whatever lay there before: later steps of one record undo none of the      *)
(* earlier ones.  The whole file: unless its data are bad or cut off, the     *)
(* last write is lost (ExtractedWhole, below), or the file is compressed and  *)
(* a read fails, for the decoder ignores that (huffman.rs:120-123) and its    *)
(* record is reported extracted with the wrong bytes.                         *)
ReportedIsOnDisk ==
  [][\A v \in {"extracted", "warned"} :
       verdicts' = Append(verdicts, [record |-> at, verdict |-> v]) => Holds(fs', at)]_vars

Related(p, q) == IsPrefix(p, q) \/ IsPrefix(q, p)

NoLinks == /\ \A i \in 1 .. Len(archive) : archive[i].kind # "link"
           /\ \A p \in DOMAIN origin : origin[p].type # "link"

\* Record j has been begun after record i, at, above or below its path.
Superseded(i) ==
  \E j \in i + 1 .. at : Selected(j) /\ ~Rejected(archive[j].path)
                         /\ Related(TargetOf(i), TargetOf(j))

(* What has been reported extracted stays as it was, however the extraction of *)
(* other records goes or fails, until a record of the same path, or of one    *)
(* above or below it, has its turn.                                           *)
KeptUntilSuperseded ==
  NoLinks =>
    \A k \in DOMAIN verdicts :
      verdicts[k].verdict # "failed" /\ ~Superseded(verdicts[k].record)
        => Holds(fs, verdicts[k].record)

\* Nodes that extraction of the records so far may have to do with.
Concerned(p) ==
  \/ \E i \in 1 .. at :
       /\ task.style # "named" =>
            Selected(i) /\ \A k \in DOMAIN archive[i].path : archive[i].path[k] \notin {"/", ".."}
       /\ IsPrefix(p, TargetOf(i))
  \/ \E i \in 1 .. at : archive[i].kind = "link" /\ Related(p, archive[i].to)
  \/ \E q \in DOMAIN origin : origin[q].type = "link" /\ Related(p, origin[q].to)

(* Nothing else is touched: a node that no selected record has in its path,   *)
(* and that no link leads to, is neither made, nor changed, nor removed.  So  *)
(* a record with ".." or "/" in its path, reported as failed, leaves no trace *)
(* (archive.rs:919, 940), and neither does one the filter left out.           *)
OthersUntouched ==
  \A p \in DOMAIN fs \cup DOMAIN origin :
    Concerned(p) \/ (p \in DOMAIN fs /\ p \in DOMAIN origin /\ fs[p] = origin[p])

(* Extraction comes to an end.                                                *)
Terminates == <>(phase = "done")

-----------------------------------------------------------------------------
(* What documents, comments and tests say and extraction does not keep.       *)

(* "Extract a single file to destination folder" (extract.rs:111): when it    *)
(* returns Ok, all of the file's data, which are good, are there.             *)
ExtractedWhole ==
  \A k \in DOMAIN verdicts :
    LET i == verdicts[k].record IN
    verdicts[k].verdict = "extracted" /\ archive[i].kind = "file" /\ archive[i].data = "good"
      => fs[Follow(fs, TargetOf(i))].part = "whole"
=============================================================================
