------------------------------ MODULE AclPayload ------------------------------
(***************************************************************************)
(* The binary ACL of a record (acl.rs).  The writer of the archive lays out *)
(* the entries one behind the other; build_acl_data decides from lengths   *)
(* alone which of two layouts the payload has and parses it, one entry per  *)
(* step.  A payload is known by the offsets where its entries start: what   *)
(* is read from anywhere else is Garbage.                                  *)
(***************************************************************************)
EXTENDS Integers, Sequences

CONSTANTS
  AixcEntries,   \* entries an AIXC ACL can have
  Nfs4Entries,   \* entries an NFS4 ACL can have
  AceLens,       \* values of the ace_len field, read or written
  MaxAces,       \* bound on the entries written
  MaxExtra,      \* bound on the bytes of acl_len beyond the entries
  WrongCounts,   \* values of num_entries besides the right one
  Garbage        \* an entry nobody wrote

Base == 8           \* AIXC: reserved, owner, group and everyone permissions
CompactSize == 12   \* AIXC: an entry with one id
Nfs4Size == 16      \* ACE_SIZE

\* who: an id, or one of two marks above all ids (here below).
WHO_OWNER_OR_GROUP == -1
WHO_EVERYONE == -2

ASSUME PayloadConstantsOK ==
  /\ AixcEntries \subseteq [principal : {"user", "group", "unknown"}, id : Nat, access : Nat]
  /\ Nfs4Entries \subseteq
       [principal : {"owner", "group_owner", "everyone", "user", "group"}, id : Nat, access : Nat]
  /\ \A e \in Nfs4Entries : e.principal \in {"owner", "group_owner", "everyone"} => e.id = 0
  /\ AceLens \subseteq Nat /\ MaxAces \in Nat /\ MaxExtra \in Nat /\ WrongCounts \subseteq Nat
  /\ Garbage \notin AixcEntries \cup Nfs4Entries

VARIABLES
  kind,       \* the layout the ACL is written in
  written,    \* its entries
  stored,     \* and what the payload says of each
  starts,     \* the offset of each entry, and that behind the last
  trailer,    \* num_entries, acl_len, and two bits: the flag of acl_mode, S_IXACL of mode
  acl,        \* what build_acl_data makes of it: kind, base, entries
  pos,        \* offset of the next entry to parse
  left,       \* entries the loop still wants
  phase       \* "write", "stored", "parse", "done"

writer == <<kind, written, stored, starts, trailer>>
vars == <<writer, acl, pos, left, phase>>

Size(ace_len) == IF ace_len > CompactSize THEN ace_len ELSE CompactSize
End == starts[Len(starts)]
RightCount == Len(written) + (IF kind = "aixc" THEN 3 ELSE 0)

NoAcl == [kind |-> "none", base |-> FALSE, entries |-> <<>>]
Empty(k) == [kind |-> k, base |-> FALSE, entries |-> <<>>]

Init ==
  /\ kind \in {"aixc", "nfs4"}
  /\ written = <<>> /\ stored = <<>>
  /\ starts = <<IF kind = "aixc" THEN Base ELSE 0>>
  /\ trailer = [num_entries |-> 0, acl_len |-> 0, flag |-> FALSE, ixacl |-> FALSE]
  /\ acl = NoAcl /\ pos = 0 /\ left = 0
  /\ phase = "write"

-----------------------------------------------------------------------------
(* The writer.                                                             *)

AixcType(principal) == CASE principal = "user" -> 1 [] principal = "group" -> 2
                         [] principal = "unknown" -> 3
WhoOf(e) == IF e.principal \in {"owner", "group_owner"} THEN WHO_OWNER_OR_GROUP
            ELSE IF e.principal = "everyone" THEN WHO_EVERYONE ELSE e.id

Write(e, ace, size) ==
  /\ written' = Append(written, e)
  /\ stored' = Append(stored, ace)
  /\ starts' = Append(starts, End + size)
  /\ UNCHANGED <<kind, trailer, acl, pos, left, phase>>

WriteAixc ==
  /\ phase = "write" /\ kind = "aixc" /\ Len(written) < MaxAces
  /\ \E e \in AixcEntries, n \in AceLens :
       Write(e, [ace_len |-> n, type |-> AixcType(e.principal), id |-> e.id,
                 access |-> e.access], Size(n))

\* The group bit of an entry for everyone can be anything.
WriteNfs4 ==
  /\ phase = "write" /\ kind = "nfs4" /\ Len(written) < MaxAces
  /\ \E e \in Nfs4Entries, group \in BOOLEAN :
       /\ e.principal # "everyone" => group = (e.principal \in {"group_owner", "group"})
       /\ Write(e, [who |-> WhoOf(e), group |-> group, access |-> e.access], Nfs4Size)

\* acl_len may cut the payload short or take in bytes that follow it.
Store ==
  /\ phase = "write"
  /\ trailer' \in [num_entries : {RightCount} \cup WrongCounts, acl_len : 0 .. End + MaxExtra,
                   flag : BOOLEAN, ixacl : BOOLEAN]
  /\ phase' = "stored"
  /\ UNCHANGED <<kind, written, stored, starts, acl, pos, left>>

-----------------------------------------------------------------------------
(* build_acl_data.                                                         *)

\* Mutant: any multiple of the entry size will do.
is_nfs4_by_multiple == trailer.num_entries > 0 /\ trailer.acl_len % Nfs4Size = 0
is_nfs4_acl_payload ==
  trailer.num_entries > 0 /\ trailer.acl_len = trailer.num_entries * Nfs4Size

\* Mutant: the subtraction does not saturate.
ExtCountWraps == trailer.num_entries - 3
ExtCount == IF trailer.num_entries > 3 THEN trailer.num_entries - 3 ELSE 0

\* Without S_IXACL there is no ACL; without a payload acl_mode names its kind.
BuildWithoutPayload ==
  /\ phase = "stored"
  /\ ~trailer.ixacl \/ trailer.acl_len = 0
  /\ acl' = IF ~trailer.ixacl THEN NoAcl
            ELSE Empty(IF trailer.flag THEN "aixc" ELSE "nfs4")
  /\ phase' = "done"
  /\ UNCHANGED <<writer, pos, left>>

BuildNfs4 ==
  /\ phase = "stored" /\ trailer.ixacl /\ trailer.acl_len > 0
  /\ is_nfs4_acl_payload
  /\ acl' = Empty("nfs4")
  /\ pos' = 0
  /\ left' = trailer.num_entries
  /\ phase' = "parse"
  /\ UNCHANGED writer

BuildAixc ==
  /\ phase = "stored" /\ trailer.ixacl /\ trailer.acl_len > 0
  /\ ~is_nfs4_acl_payload
  /\ acl' = [Empty("aixc") EXCEPT !.base = trailer.acl_len >= Base]
  /\ pos' = Base
  /\ left' = IF trailer.acl_len >= Base THEN ExtCount ELSE 0
  /\ phase' = "parse"
  /\ UNCHANGED writer

-----------------------------------------------------------------------------
(* parse_acl_payload and parse_nfs4_acl_payload.                           *)

\* The number of the entry that starts where the parser stands, if one does.
Entry == {i \in DOMAIN stored : starts[i] = pos}
AtEntry == kind = acl.kind /\ Entry # {}

PrincipalType(type) == CASE type = 1 -> "user" [] type = 2 -> "group" [] OTHER -> "unknown"
Compact(ace) == [principal |-> PrincipalType(ace.type), id |-> ace.id, access |-> ace.access]

\* Mutant: the group bit is looked at first.
PrincipalByGroup(ace) ==
  IF ace.group THEN IF ace.who = WHO_OWNER_OR_GROUP THEN "group_owner" ELSE "group"
  ELSE IF ace.who = WHO_OWNER_OR_GROUP THEN "owner"
  ELSE IF ace.who = WHO_EVERYONE THEN "everyone" ELSE "user"
Principal(ace) ==
  IF ace.who = WHO_OWNER_OR_GROUP THEN IF ace.group THEN "group_owner" ELSE "owner"
  ELSE IF ace.who = WHO_EVERYONE THEN "everyone"
  ELSE IF ace.group THEN "group" ELSE "user"
Nfs4(ace) == [principal |-> Principal(ace), access |-> ace.access,
              id |-> IF ace.who \in {WHO_OWNER_OR_GROUP, WHO_EVERYONE} THEN 0 ELSE ace.who]

\* Mutants: entries are taken to be compact; an entry may be shorter than its fields.
AdvanceCompact(ace_len) == CompactSize
AdvanceAsTold(ace_len) == ace_len
Advance(ace_len) == IF ace_len > CompactSize THEN ace_len ELSE CompactSize

Push(entry, size) ==
  /\ acl' = [acl EXCEPT !.entries = Append(@, entry)]
  /\ pos' = pos + size
  /\ left' = left - 1
  /\ UNCHANGED <<writer, phase>>

AceSize == IF acl.kind = "aixc" THEN CompactSize ELSE Nfs4Size
Fits == left > 0 /\ pos + AceSize <= trailer.acl_len

ParseAce ==
  /\ phase = "parse" /\ acl.kind = "aixc" /\ Fits
  /\ \/ AtEntry /\ \E i \in Entry : Push(Compact(stored[i]), Advance(stored[i].ace_len))
     \/ ~AtEntry /\ \E n \in AceLens : Push(Garbage, Advance(n))

ParseNfs4Ace ==
  /\ phase = "parse" /\ acl.kind = "nfs4" /\ Fits
  /\ \/ AtEntry /\ \E i \in Entry : Push(Nfs4(stored[i]), Nfs4Size)
     \/ ~AtEntry /\ Push(Garbage, Nfs4Size)

Finish ==
  /\ phase = "parse" /\ ~Fits
  /\ phase' = "done"
  /\ UNCHANGED <<writer, acl, pos, left>>

Next ==
  \/ WriteAixc \/ WriteNfs4 \/ Store
  \/ BuildWithoutPayload \/ BuildNfs4 \/ BuildAixc
  \/ ParseAce \/ ParseNfs4Ace \/ Finish

Spec == Init /\ [][Next]_vars

-----------------------------------------------------------------------------
AclEntry == AixcEntries \cup Nfs4Entries \cup {Garbage}

TypeOK ==
  /\ kind \in {"aixc", "nfs4"}
  /\ written \in Seq(AixcEntries \cup Nfs4Entries)
  /\ Len(stored) = Len(written) /\ Len(starts) = Len(written) + 1
  /\ starts \in Seq(Nat)
  /\ trailer \in [num_entries : Nat, acl_len : Nat, flag : BOOLEAN, ixacl : BOOLEAN]
  /\ acl.kind \in {"none", "aixc", "nfs4"} /\ acl.entries \in Seq(AclEntry)
  /\ pos \in Nat /\ left \in Nat
  /\ phase \in {"write", "stored", "parse", "done"}

\* The payload is there, whole or cut short, with nothing behind it.
Unpadded == trailer.ixacl /\ trailer.acl_len \in 1 .. End
Whole == trailer.ixacl /\ trailer.acl_len = End /\ trailer.num_entries = RightCount
OneIdEach == kind = "aixc" => \A i \in DOMAIN stored : stored[i].ace_len <= CompactSize

(* The two layouts are told apart by length alone, and rightly so as long as  *)
(* AIXC entries have one id each: no number of them makes 16 bytes per entry. *)
KindRecognised ==
  (phase \in {"parse", "done"} /\ Whole /\ End > 0 /\ OneIdEach) => acl.kind = kind

(* Whatever num_entries and the ace_len fields say, no more entries come out  *)
(* than the payload has room for.                                             *)
BoundedByPayload ==
  /\ acl.entries # <<>> => AceSize * Len(acl.entries) <= trailer.acl_len
  /\ Len(acl.entries) <= trailer.num_entries

(* Once the layout is recognised, what comes out are the entries as they were *)
(* written, in order and from the first on: a payload that is cut short and a *)
(* wrong count lose entries from the end and make none up.                    *)
DecodesWritten ==
  (Unpadded /\ acl.kind = kind) =>
    /\ Len(acl.entries) <= Len(written)
    /\ \A i \in DOMAIN acl.entries : acl.entries[i] = written[i]

(* And none is lost of a payload that is stored whole.                        *)
AllDecoded ==
  (phase = "done" /\ Whole /\ End > 0 /\ acl.kind = kind) => acl.entries = written
=============================================================================
