---------------------------- MODULE ArchiveLayout ----------------------------
(***************************************************************************)
(* What an archive is on the medium: a 72-byte file header and then one    *)
(* entry after the other, each a 64-byte record header, a name, a symlink  *)
(* target, a 40-byte trailer, the rest of the ACL and the stored data.     *)
(*                                                                         *)
(* An archive image is the sequence of its entries, each with its offset,  *)
(* and the length of the stream that holds them, which may cut the last    *)
(* entries off.  The values of the fields are reduced to what the reader   *)
(* decides on (see bff.rs and acl.rs for the structs).                     *)
(***************************************************************************)
EXTENDS Integers, Sequences

CONSTANT Word      \* modulus of the u32 fields and of RecordRaw::file_position

ASSUME WordOK == Word \in Nat \ {0} /\ Word % 8 = 0

FileHeaderSize == 72
HeaderSize == 64
TrailerSize == 40
InlineAcl == 24    \* TRAILER_INLINE_ACL_BYTES

RoundUp(n, k) == ((n + k - 1) \div k) * k
Least(a, b) == IF a < b THEN a ELSE b

Header == [marker  : {"entry", "offset", "other"},   \* 0x0B, 0x07, anything else
           magic   : {"known", "unknown"},           \* one of HEADER_MAGICS?
           link    : BOOLEAN,                        \* mode & 0xF000 == 0xA000
           ixacl   : BOOLEAN,                        \* mode & S_IXACL > 0
           hasData : BOOLEAN,                        \* size > 0
           csize   : 0 .. Word - 1]                  \* compressed_size

\* A string on the medium: its length, and how much of it first_segment
\* keeps (all of it when it holds no newline, tab, vertical tab or DEL).
Text == [len : Nat, cut : Nat]

Entry == [at : Nat, hdr : Header, name : Text, target : Text, aclLen : 0 .. Word - 1]

\* Strings end with a NUL and fill whole 8-byte units.
TextSpan(t) == RoundUp(t.len + 1, 8)

NameAt(e) == e.at + HeaderSize
TargetAt(e) == NameAt(e) + TextSpan(e.name)
TrailerAt(e) == TargetAt(e) + (IF e.hdr.link THEN TextSpan(e.target) ELSE 0)

\* An ACL payload lies in units of 16 bytes, the first 24 bytes of it inside
\* the trailer; a payload that fits there has nothing behind the trailer.
AclTail(e) ==
  IF e.hdr.ixacl /\ e.aclLen > InlineAcl THEN RoundUp(e.aclLen, 16) - InlineAcl ELSE 0

DataAt(e) == TrailerAt(e) + TrailerSize + AclTail(e)
DataLen(e) == IF e.hdr.hasData THEN e.hdr.csize ELSE 0
EntryEnd(e) == RoundUp(DataAt(e) + DataLen(e), 8)

EndOf(entries) == IF entries = <<>> THEN FileHeaderSize ELSE EntryEnd(entries[Len(entries)])

\* Every entry begins where the one before it ends; so entries do not overlap,
\* and whatever lies behind an archive proper is an entry too, a malformed one.
\* A header without data carries a compressed_size that needs no padding
\* (the writer stores 0 or 256 for directories).
LaidOut(img) ==
  /\ img \in [entries : Seq(Entry), len : Nat]
  /\ img.len \in FileHeaderSize .. EndOf(img.entries)
  /\ \A i \in 1 .. Len(img.entries) :
       /\ img.entries[i].at =
            IF i = 1 THEN FileHeaderSize ELSE EntryEnd(img.entries[i - 1])
       /\ \A j \in 1 .. i - 1 : EntryEnd(img.entries[j]) <= img.entries[i].at
       /\ img.entries[i].hdr.hasData \/ img.entries[i].hdr.csize % 8 = 0

-----------------------------------------------------------------------------
(* What the archive offers to a reader that follows the layout.            *)

\* An entry that the scan must list: neither malformed nor an offset record.
Listable(hdr) == hdr.marker = "entry" /\ hdr.magic = "known"

\* The padding of an ACL is skipped behind the trailer (archive.rs:130-134) even
\* if the whole ACL lies inside it; then there is nothing to skip, and the data
\* are taken to lie 8 or 16 bytes behind their place.  No such ACL here:
AclFits(e) == e.hdr.ixacl => (e.aclLen > InlineAcl \/ e.aclLen % 16 = 0)
AclsFit(img) == \A i \in 1 .. Len(img.entries) : AclFits(img.entries[i])

\* The entries before the first one that ends the listing or breaks its step.
Leading(img) ==
  {i \in 1 .. Len(img.entries) :
     \A j \in 1 .. i : Listable(img.entries[j].hdr) /\ AclFits(img.entries[j])}

Whole(img) == \A i \in 1 .. Len(img.entries) : EntryEnd(img.entries[i]) <= img.len

\* The record an entry stands for.
Listing(e) ==
  [at |-> e.at, hdr |-> e.hdr,
   name |-> Least(e.name.len, e.name.cut),
   target |-> IF e.hdr.link THEN Least(e.target.len, e.target.cut) ELSE 0,
   filePos |-> DataAt(e) % Word]
=============================================================================
