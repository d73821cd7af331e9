--------------------------- MODULE AclPayloadProofs ---------------------------
(***************************************************************************)
(* What AclPayload.cfg checks on payloads of two entries, for all of them. *)
(***************************************************************************)
EXTENDS AclPayload, TLAPS

Ace == [ace_len : Nat, type : {1, 2, 3}, id : Nat, access : Nat]
         \cup [who : Int, group : BOOLEAN, access : Nat]
AclData == [kind : {"none", "aixc", "nfs4"}, base : BOOLEAN, entries : Seq(AclEntry)]
Decode(ace) == IF kind = "aixc" THEN Compact(ace) ELSE Nfs4(ace)
LeastSize == IF kind = "aixc" THEN CompactSize ELSE Nfs4Size
SizeOf(ace) == IF kind = "aixc" THEN Size(ace.ace_len) ELSE Nfs4Size

TypeInv ==
  /\ kind \in {"aixc", "nfs4"}
  /\ written \in Seq(AixcEntries \cup Nfs4Entries)
  /\ stored \in Seq(Ace) /\ starts \in Seq(Nat)
  /\ Len(stored) = Len(written) /\ Len(starts) = Len(written) + 1
  /\ trailer \in [num_entries : Nat, acl_len : Nat, flag : BOOLEAN, ixacl : BOOLEAN]
  /\ acl \in AclData
  /\ pos \in Nat /\ left \in Nat
  /\ phase \in {"write", "stored", "parse", "done"}
  /\ phase \in {"write", "stored"} => acl = NoAcl
  /\ phase = "parse" => acl.kind # "none"

\* Entries as written: each decodes to what it was made from and begins where
\* the one before it ends.
WriterInv ==
  \A i \in 1 .. Len(stored) :
    /\ kind = "aixc" => stored[i].ace_len \in Nat
    /\ starts[i + 1] = starts[i] + SizeOf(stored[i])
    /\ Decode(stored[i]) = written[i]
Ascending == \A i, j \in 1 .. Len(starts) : i < j => starts[i] + LeastSize <= starts[j]
Length ==
  /\ starts[1] = IF kind = "aixc" THEN Base ELSE 0
  /\ kind = "nfs4" => End = Nfs4Size * Len(written)
  /\ kind = "aixc" /\ OneIdEach => End = Base + CompactSize * Len(written)
Layout == WriterInv /\ Ascending /\ Length

\* No entry without room for it, and none that was not asked for.
RoomInv ==
  /\ acl.entries # <<>> => AceSize * Len(acl.entries) <= trailer.acl_len
  /\ phase = "parse" => AceSize * Len(acl.entries) <= pos
  /\ Len(acl.entries) <= trailer.num_entries
  /\ phase = "parse" => left + Len(acl.entries) <= trailer.num_entries

\* The parser stands where an entry starts.
TrackInv ==
  (Unpadded /\ acl.kind = kind) =>
    /\ Len(acl.entries) <= Len(written)
    /\ \A i \in 1 .. Len(acl.entries) : acl.entries[i] = written[i]
    /\ phase = "parse" => pos = starts[Len(acl.entries) + 1]

\* All the entries that are still wanted lie ahead.
WholeInv ==
  (Whole /\ End > 0 /\ acl.kind = kind) =>
    /\ phase = "parse" => left + Len(acl.entries) = Len(written)
    /\ phase = "done" => Len(acl.entries) = Len(written)

Parsed == RoomInv /\ TrackInv /\ WholeInv /\ KindRecognised

IInv == TypeInv /\ Layout /\ Parsed

-----------------------------------------------------------------------------
(* The writer.                                                             *)

LEMMA InitOK == Init => IInv
<1> SUFFICES ASSUME Init PROVE IInv
  OBVIOUS
<1>1. TypeInv
  BY DEF Init, TypeInv, Base, NoAcl, AclData
<1>2. Layout
  <2>1. Len(stored) = 0 /\ Len(written) = 0 /\ Len(starts) = 1
    BY DEF Init
  <2>2. starts[1] = IF kind = "aixc" THEN Base ELSE 0
    BY DEF Init
  <2>3. WriterInv /\ Ascending
    BY <2>1 DEF WriterInv, Ascending
  <2>4. Length
    BY <2>1, <2>2 DEF Length, End, Base, CompactSize, Nfs4Size
  <2>5. QED BY <2>3, <2>4 DEF Layout
<1>3. Parsed
  BY DEF Init, Parsed, RoomInv, TrackInv, WholeInv, KindRecognised, NoAcl
<1>4. QED BY <1>1, <1>2, <1>3 DEF IInv

LEMMA EntryTypes ==
  /\ \A e \in AixcEntries : e \in [principal : {"user", "group", "unknown"}, id : Nat, access : Nat]
  /\ \A e \in Nfs4Entries :
       /\ e \in [principal : {"owner", "group_owner", "everyone", "user", "group"},
                 id : Nat, access : Nat]
       /\ e.principal \in {"owner", "group_owner", "everyone"} => e.id = 0
  /\ \A n \in AceLens : n \in Nat
BY PayloadConstantsOK

LEMMA SizeFacts ==
  ASSUME NEW n \in Nat
  PROVE  Size(n) \in Nat /\ Size(n) >= CompactSize /\ Advance(n) = Size(n)
           /\ (n <= CompactSize => Size(n) = CompactSize)
BY DEF Size, CompactSize, Advance

LEMMA WriteOK ==
  ASSUME TypeInv, Layout, phase = "write",
         NEW e \in AixcEntries \cup Nfs4Entries, NEW ace \in Ace, NEW size \in Nat,
         kind = "aixc" => ace.ace_len \in Nat,
         size = SizeOf(ace), Decode(ace) = e, Write(e, ace, size)
  PROVE  TypeInv' /\ Layout'
<1> DEFINE n == Len(written)
<1>1. /\ kind' = kind /\ trailer' = trailer /\ acl' = acl /\ pos' = pos /\ left' = left
      /\ phase' = phase
      /\ written' = Append(written, e) /\ stored' = Append(stored, ace)
      /\ starts' = Append(starts, End + size)
  BY DEF Write
<1>2. End \in Nat /\ n \in Nat
  BY DEF TypeInv, End
<1>3. TypeInv'
  BY <1>1, <1>2 DEF TypeInv
<1>4. /\ Len(written') = n + 1 /\ Len(stored') = n + 1 /\ Len(starts') = n + 2
      /\ \A i \in 1 .. n : written'[i] = written[i] /\ stored'[i] = stored[i]
      /\ \A i \in 1 .. n + 1 : starts'[i] = starts[i]
      /\ written'[n + 1] = e /\ stored'[n + 1] = ace /\ starts'[n + 2] = End + size
      /\ starts[n + 1] = End
  BY <1>1, <1>2 DEF TypeInv, End
<1>5. End' = End + size
  BY <1>4 DEF End
<1>6. size >= LeastSize /\ LeastSize \in Nat
  BY SizeFacts DEF SizeOf, LeastSize, CompactSize, Nfs4Size
<1>7. WriterInv'
  <2> SUFFICES ASSUME NEW i \in 1 .. n + 1
               PROVE  /\ kind = "aixc" => stored'[i].ace_len \in Nat
                      /\ starts'[i + 1] = starts'[i] + SizeOf(stored'[i])
                      /\ Decode(stored'[i]) = written'[i]
    BY <1>1, <1>4 DEF WriterInv, SizeOf, Decode
  <2>1. CASE i = n + 1
    BY <2>1, <1>2, <1>4
  <2>2. CASE i \in 1 .. n
    <3>1. i + 1 \in 1 .. n + 1
      BY <2>2, <1>2
    <3>2. i \in 1 .. Len(stored)
      BY <2>2 DEF TypeInv
    <3>3. /\ kind = "aixc" => stored[i].ace_len \in Nat
          /\ starts[i + 1] = starts[i] + SizeOf(stored[i])
          /\ Decode(stored[i]) = written[i]
      BY <3>2 DEF Layout, WriterInv
    <3>4. starts'[i + 1] = starts[i + 1] /\ starts'[i] = starts[i]
      BY <3>1, <1>4
    <3>5. stored'[i] = stored[i] /\ written'[i] = written[i]
      BY <2>2, <1>4
    <3>6. QED BY <3>3, <3>4, <3>5
  <2>3. QED BY <2>1, <2>2, <1>2
<1>8. Ascending'
  <2> SUFFICES ASSUME NEW i \in 1 .. n + 2, NEW j \in 1 .. n + 2, i < j
               PROVE  starts'[i] + LeastSize <= starts'[j]
    BY <1>1, <1>4 DEF Ascending, LeastSize
  <2>1. i \in 1 .. n + 1 /\ starts'[i] = starts[i] /\ starts[i] \in Nat
    BY <1>2, <1>4 DEF TypeInv
  <2>2. CASE j = n + 2
    <3>1. starts[i] <= End
      <4>1. CASE i = n + 1
        BY <4>1, <1>2, <1>4
      <4>2. CASE i < n + 1
        <5>1. starts[i] + LeastSize <= starts[n + 1]
          BY <4>2, <2>1, <1>2 DEF Layout, Ascending, TypeInv
        <5>2. QED BY <5>1, <1>2, <1>4, <1>6, <2>1
      <4>3. QED BY <4>1, <4>2, <2>1, <1>2
    <3>2. QED BY <3>1, <2>1, <2>2, <1>2, <1>4, <1>6
  <2>3. CASE j \in 1 .. n + 1
    BY <2>1, <2>3, <1>2, <1>4 DEF Layout, Ascending, TypeInv
  <2>4. QED BY <2>2, <2>3, <1>2
<1>9. Length'
  <2>0. starts'[1] = IF kind = "aixc" THEN Base ELSE 0
    BY <1>2, <1>4 DEF Layout, Length
  <2>1. CASE kind = "nfs4"
    BY <2>1, <1>1, <1>2, <1>4, <1>5 DEF Layout, Length, SizeOf, Nfs4Size
  <2>2. CASE kind = "aixc" /\ OneIdEach'
    <3>1. \A i \in 1 .. n + 1 : stored'[i].ace_len <= CompactSize
      <4>1. DOMAIN stored' = 1 .. n + 1
        BY <1>3, <1>4 DEF TypeInv
      <4>2. kind' = "aixc"
        BY <2>2, <1>1
      <4>3. QED BY <4>1, <4>2, <2>2 DEF OneIdEach
    <3>2. OneIdEach
      <4>1. DOMAIN stored = 1 .. n
        BY DEF TypeInv
      <4>2. QED BY <4>1, <3>1, <1>2, <1>4 DEF OneIdEach
    <3>3. ace.ace_len <= CompactSize
      BY <3>1, <1>2, <1>4
    <3>4. size = CompactSize
      BY <3>3, <2>2, SizeFacts DEF SizeOf
    <3>5. QED BY <3>2, <3>4, <2>2, <1>1, <1>2, <1>4, <1>5 DEF Layout, Length, CompactSize, Base
  <2>3. QED BY <2>0, <2>1, <2>2, <1>1 DEF Length, TypeInv
<1>10. QED BY <1>3, <1>7, <1>8, <1>9 DEF Layout

\* Before build_acl_data nothing is parsed.
LEMMA NothingParsed == TypeInv /\ phase \in {"write", "stored"} => Parsed
BY DEF TypeInv, Parsed, RoomInv, TrackInv, WholeInv, KindRecognised, NoAcl

LEMMA WriterSteps == IInv /\ (WriteAixc \/ WriteNfs4 \/ Store) => IInv'
<1> SUFFICES ASSUME IInv, WriteAixc \/ WriteNfs4 \/ Store PROVE IInv'
  OBVIOUS
<1> USE DEF IInv
<1>1. CASE WriteAixc
  <2>1. PICK e \in AixcEntries, n \in AceLens :
          Write(e, [ace_len |-> n, type |-> AixcType(e.principal), id |-> e.id,
                    access |-> e.access], Size(n))
    BY <1>1 DEF WriteAixc
  <2> DEFINE ace == [ace_len |-> n, type |-> AixcType(e.principal), id |-> e.id,
                     access |-> e.access]
  <2>2. /\ e = [principal |-> e.principal, id |-> e.id, access |-> e.access]
        /\ e.principal \in {"user", "group", "unknown"} /\ e.id \in Nat /\ e.access \in Nat
        /\ n \in Nat
    BY EntryTypes
  <2>3. AixcType(e.principal) \in {1, 2, 3} /\ PrincipalType(AixcType(e.principal)) = e.principal
    BY <2>2 DEF AixcType, PrincipalType
  <2>4. ace \in Ace /\ ace.ace_len = n
    BY <2>2, <2>3 DEF Ace
  <2>5. Compact(ace) = e
    BY <2>2, <2>3 DEF Compact
  <2>6. phase = "write" /\ kind = "aixc"
    BY <1>1 DEF WriteAixc
  <2>7. TypeInv' /\ Layout'
    <3>1. Size(n) \in Nat /\ Size(n) = SizeOf(ace) /\ Decode(ace) = e
      BY <2>2, <2>4, <2>5, <2>6, SizeFacts DEF SizeOf, Decode
    <3>2. Write(e, ace, Size(n))
      BY <2>1
    <3> HIDE DEF ace
    <3>3. ace.ace_len \in Nat
      BY <2>2, <2>4
    <3>4. QED BY <3>1, <3>2, <3>3, <2>4, <2>6, WriteOK
  <2>8. (phase \in {"write", "stored"})'
    BY <2>1, <2>6 DEF Write
  <2>9. Parsed'
    BY <2>7, <2>8, NothingParsed, PTL
  <2>10. QED BY <2>7, <2>9
<1>2. CASE WriteNfs4
  <2>1. PICK e \in Nfs4Entries, group \in BOOLEAN :
          /\ e.principal # "everyone" => group = (e.principal \in {"group_owner", "group"})
          /\ Write(e, [who |-> WhoOf(e), group |-> group, access |-> e.access], Nfs4Size)
    BY <1>2 DEF WriteNfs4
  <2> DEFINE ace == [who |-> WhoOf(e), group |-> group, access |-> e.access]
  <2>2. /\ e = [principal |-> e.principal, id |-> e.id, access |-> e.access]
        /\ e.principal \in {"owner", "group_owner", "everyone", "user", "group"}
        /\ e.id \in Nat /\ e.access \in Nat
        /\ e.principal \in {"owner", "group_owner", "everyone"} => e.id = 0
    BY EntryTypes
  <2>3. WhoOf(e) \in Int
    BY <2>2 DEF WhoOf, WHO_EVERYONE, WHO_OWNER_OR_GROUP
  <2>4. ace \in Ace
    BY <2>2, <2>3 DEF Ace
  <2>5. Nfs4(ace) = e
    <3>1. Principal(ace) = e.principal
      BY <2>1, <2>2 DEF Principal, WhoOf, WHO_EVERYONE, WHO_OWNER_OR_GROUP
    <3>2. (IF ace.who \in {WHO_OWNER_OR_GROUP, WHO_EVERYONE} THEN 0 ELSE ace.who) = e.id
      BY <2>2 DEF WhoOf, WHO_EVERYONE, WHO_OWNER_OR_GROUP
    <3>3. QED BY <3>1, <3>2, <2>2 DEF Nfs4
  <2>6. phase = "write" /\ kind = "nfs4"
    BY <1>2 DEF WriteNfs4
  <2>7. TypeInv' /\ Layout'
    <3>1. Nfs4Size \in Nat /\ Nfs4Size = SizeOf(ace) /\ Decode(ace) = e
      BY <2>5, <2>6 DEF SizeOf, Decode, Nfs4Size
    <3>2. Write(e, ace, Nfs4Size)
      BY <2>1
    <3> HIDE DEF ace
    <3>4. QED BY <3>1, <3>2, <2>4, <2>6, WriteOK
  <2>8. (phase \in {"write", "stored"})'
    BY <2>1, <2>6 DEF Write
  <2>9. Parsed'
    BY <2>7, <2>8, NothingParsed, PTL
  <2>10. QED BY <2>7, <2>9
<1>3. CASE Store
  <2>1. /\ phase' = "stored" /\ phase = "write"
        /\ UNCHANGED <<kind, written, stored, starts, acl, pos, left>>
        /\ trailer' \in [num_entries : {RightCount} \cup WrongCounts, acl_len : 0 .. End + MaxExtra,
                         flag : BOOLEAN, ixacl : BOOLEAN]
    BY <1>3 DEF Store
  <2>2. RightCount \in Nat /\ WrongCounts \subseteq Nat /\ 0 .. End + MaxExtra \subseteq Nat
    BY PayloadConstantsOK DEF RightCount, TypeInv, End
  <2>3. trailer' \in [num_entries : Nat, acl_len : Nat, flag : BOOLEAN, ixacl : BOOLEAN]
    BY <2>1, <2>2
  <2>4. TypeInv'
    BY <2>1, <2>3 DEF TypeInv
  <2>5. Layout'
    BY <2>1 DEF Layout, WriterInv, Ascending, Length, End, OneIdEach, SizeOf, LeastSize,
                Decode, Compact, Nfs4
  <2>6. (phase \in {"write", "stored"})'
    BY <2>1
  <2>7. Parsed'
    BY <2>4, <2>6, NothingParsed, PTL
  <2>8. QED BY <2>4, <2>5, <2>7
<1>4. QED BY <1>1, <1>2, <1>3

-----------------------------------------------------------------------------
(* The parser.                                                             *)

LEMMA LayoutKept == Layout /\ UNCHANGED writer => Layout'
BY DEF Layout, WriterInv, Ascending, Length, End, OneIdEach, SizeOf, LeastSize, Decode,
       Compact, Nfs4, writer

LEMMA WholeFacts ==
  ASSUME TypeInv, Whole, End > 0
  PROVE  Unpadded /\ trailer.acl_len > 0 /\ trailer.ixacl
BY DEF TypeInv, Whole, Unpadded, End

\* No layout is mistaken for the other.
LEMMA LayoutsDiffer ==
  ASSUME TypeInv, Layout, Whole, End > 0, OneIdEach
  PROVE  is_nfs4_acl_payload <=> kind = "nfs4"
<1> DEFINE n == Len(written)
<1>1. n \in Nat /\ trailer.acl_len = End /\ trailer.num_entries = RightCount
  BY DEF TypeInv, Whole
<1>2. CASE kind = "nfs4"
  <2>1. End = 16 * n /\ RightCount = n
    BY <1>1, <1>2 DEF Layout, Length, Nfs4Size, RightCount
  <2>2. QED BY <2>1, <1>1, <1>2 DEF is_nfs4_acl_payload, Nfs4Size
<1>3. CASE kind = "aixc"
  <2>1. End = 8 + 12 * n /\ RightCount = n + 3
    BY <1>1, <1>3 DEF Layout, Length, Base, CompactSize, RightCount
  <2>2. QED BY <2>1, <1>1, <1>3 DEF is_nfs4_acl_payload, Nfs4Size
<1>4. QED BY <1>2, <1>3 DEF TypeInv

LEMMA EmptyTypes ==
  /\ NoAcl \in AclData /\ Empty("aixc") \in AclData /\ Empty("nfs4") \in AclData
  /\ \A b \in BOOLEAN : [Empty("aixc") EXCEPT !.base = b] \in AclData
<1>1. <<>> \in Seq(AclEntry)
  OBVIOUS
<1> HIDE DEF AclEntry
<1>2. QED BY <1>1 DEF NoAcl, Empty, AclData

LEMMA BuildSteps == IInv /\ (BuildWithoutPayload \/ BuildNfs4 \/ BuildAixc) => IInv'
<1> SUFFICES ASSUME IInv, BuildWithoutPayload \/ BuildNfs4 \/ BuildAixc PROVE IInv'
  OBVIOUS
<1> USE DEF IInv
<1>1. UNCHANGED writer
  BY DEF BuildWithoutPayload, BuildNfs4, BuildAixc
<1>2. Layout'
  BY <1>1, LayoutKept
<1>3. /\ trailer.num_entries \in Nat /\ trailer.acl_len \in Nat
      /\ trailer.flag \in BOOLEAN /\ trailer.ixacl \in BOOLEAN
      /\ Len(written) \in Nat
  BY DEF TypeInv
<1>4. /\ trailer' = trailer /\ kind' = kind /\ written' = written /\ starts' = starts
      /\ stored' = stored
      /\ End' = End /\ (Whole' <=> Whole) /\ (OneIdEach' <=> OneIdEach)
      /\ (Unpadded' <=> Unpadded)
  BY <1>1 DEF writer, End, Whole, RightCount, OneIdEach, Unpadded
<1>5. CASE BuildWithoutPayload
  <2>1. /\ acl' \in {NoAcl, Empty("aixc"), Empty("nfs4")} /\ acl'.entries = <<>>
        /\ pos' = pos /\ left' = left /\ phase' = "done"
    BY <1>5 DEF BuildWithoutPayload, NoAcl, Empty
  <2>2. TypeInv'
    BY <2>1, <1>1, EmptyTypes DEF TypeInv, writer
  <2>3. ~(Whole /\ End > 0)
    BY <1>5, WholeFacts DEF BuildWithoutPayload
  <2>4. Parsed'
    BY <2>1, <2>3, <1>3, <1>4 DEF Parsed, RoomInv, TrackInv, WholeInv, KindRecognised
  <2>5. QED BY <2>2, <2>4, <1>2
<1>6. CASE BuildNfs4
  <2>1. /\ acl' = Empty("nfs4") /\ pos' = 0 /\ left' = trailer.num_entries
        /\ phase' = "parse" /\ is_nfs4_acl_payload
    BY <1>6 DEF BuildNfs4
  <2>2. acl'.kind = "nfs4" /\ acl'.entries = <<>> /\ Len(acl'.entries) = 0
    BY <2>1 DEF Empty
  <2>3. TypeInv'
    BY <2>1, <2>2, <1>1, <1>3, EmptyTypes DEF TypeInv, writer
  <2>4. RoomInv'
    BY <2>1, <2>2, <1>3, <1>4 DEF RoomInv, AceSize, Nfs4Size
  <2>5. TrackInv'
    BY <2>1, <2>2, <1>3, <1>4 DEF TrackInv, Layout, Length
  <2>6. WholeInv'
    <3>1. Whole /\ kind = "nfs4" => left' = Len(written)
      BY <2>1, <1>3 DEF Whole, RightCount
    <3>2. QED BY <2>1, <2>2, <3>1, <1>3, <1>4 DEF WholeInv
  <2>7. KindRecognised'
    BY <2>1, <2>2, <1>4, LayoutsDiffer DEF KindRecognised
  <2>8. QED BY <2>3, <2>4, <2>5, <2>6, <2>7, <1>2 DEF Parsed
<1>7. CASE BuildAixc
  <2>1. /\ acl' = [Empty("aixc") EXCEPT !.base = trailer.acl_len >= Base] /\ pos' = Base
        /\ left' = IF trailer.acl_len >= Base THEN ExtCount ELSE 0
        /\ phase' = "parse" /\ ~is_nfs4_acl_payload
    BY <1>7 DEF BuildAixc
  <2>2. acl'.kind = "aixc" /\ acl'.entries = <<>> /\ Len(acl'.entries) = 0
    BY <2>1 DEF Empty
  <2>3. left' \in Nat /\ left' <= trailer.num_entries
    BY <2>1, <1>3 DEF ExtCount
  <2>4. TypeInv'
    <3>1. (trailer.acl_len >= Base) \in BOOLEAN
      OBVIOUS
    <3>2. acl' \in AclData
      BY <2>1, <3>1, EmptyTypes
    <3>3. QED BY <2>1, <2>2, <2>3, <3>2, <1>1 DEF TypeInv, writer, Base
  <2>5. RoomInv'
    BY <2>1, <2>2, <2>3, <1>3, <1>4 DEF RoomInv, AceSize, Base, CompactSize
  <2>6. TrackInv'
    BY <2>1, <2>2, <1>3, <1>4 DEF TrackInv, Layout, Length
  <2>7. WholeInv'
    <3> SUFFICES ASSUME Whole, End > 0, kind = "aixc" PROVE left' = Len(written)
      BY <2>1, <2>2, <1>3, <1>4 DEF WholeInv, TypeInv
    <3>1. starts[1] = Base
      BY DEF Layout, Length
    <3>2. End >= Base
      <4>1. CASE Len(starts) = 1
        BY <4>1, <3>1 DEF End, Base
      <4>2. CASE Len(starts) > 1
        <5>1. Len(starts) \in Nat /\ 1 \in 1 .. Len(starts) /\ Len(starts) \in 1 .. Len(starts)
          BY DEF TypeInv
        <5>2. starts[1] + LeastSize <= starts[Len(starts)]
          BY <4>2, <5>1 DEF Layout, Ascending
        <5>3. LeastSize = 12 /\ starts[Len(starts)] \in Nat
          BY <5>1 DEF LeastSize, CompactSize, TypeInv
        <5>4. QED BY <3>1, <5>2, <5>3 DEF End, Base
      <4>3. QED BY <4>1, <4>2 DEF TypeInv
    <3>3. trailer.acl_len = End /\ trailer.num_entries = Len(written) + 3
      BY DEF Whole, RightCount
    <3>4. QED BY <3>2, <3>3, <2>1, <1>3 DEF ExtCount
  <2>8. KindRecognised'
    BY <2>1, <2>2, <1>4, LayoutsDiffer DEF KindRecognised, TypeInv
  <2>9. QED BY <2>4, <2>5, <2>6, <2>7, <2>8, <1>2 DEF Parsed
<1>8. QED BY <1>5, <1>6, <1>7

\* While the parser keeps track, the entry it reads is the next one.
LEMMA EntryHere ==
  ASSUME TypeInv, Layout, TrackInv, phase = "parse", Fits, Unpadded, acl.kind = kind
  PROVE  /\ Len(acl.entries) < Len(written)
         /\ Entry = {Len(acl.entries) + 1}
<1> DEFINE n == Len(acl.entries)
<1>1. /\ n \in Nat /\ n <= Len(written) /\ pos = starts[n + 1] /\ pos \in Nat
      /\ Len(written) \in Nat /\ Len(starts) = Len(written) + 1
      /\ DOMAIN stored = 1 .. Len(written)
  BY DEF TypeInv, TrackInv, AclData
<1>2. pos < End
  BY <1>1 DEF Fits, Unpadded, AceSize, CompactSize, Nfs4Size, TypeInv, End
<1>3. n < Len(written)
  BY <1>1, <1>2 DEF End
<1>4. ASSUME NEW i \in 1 .. Len(starts), NEW j \in 1 .. Len(starts), starts[i] = starts[j]
      PROVE  i = j
  <2>1. starts[i] \in Nat /\ starts[j] \in Nat /\ LeastSize \in Nat /\ LeastSize > 0
    BY DEF TypeInv, LeastSize, CompactSize, Nfs4Size
  <2>2. ~(i < j)
    BY <2>1, <1>4 DEF Layout, Ascending
  <2>3. ~(j < i)
    BY <2>1, <1>4 DEF Layout, Ascending
  <2>4. QED BY <2>2, <2>3, <1>1
<1>5. \A i \in DOMAIN stored : starts[i] = pos <=> i = n + 1
  <2> SUFFICES ASSUME NEW i \in 1 .. Len(written) PROVE starts[i] = pos <=> i = n + 1
    BY <1>1
  <2>1. i \in 1 .. Len(starts) /\ n + 1 \in 1 .. Len(starts)
    BY <1>1, <1>3
  <2>2. QED BY <2>1, <1>1, <1>4
<1>6. QED BY <1>1, <1>3, <1>5 DEF Entry

LEMMA PushOK ==
  ASSUME IInv, phase = "parse", Fits, NEW entry \in AclEntry, NEW size \in Nat,
         size >= AceSize, Push(entry, size),
         Unpadded /\ acl.kind = kind =>
           /\ entry = written[Len(acl.entries) + 1]
           /\ pos + size = starts[Len(acl.entries) + 2]
  PROVE  IInv'
<1> USE DEF IInv
<1> DEFINE n == Len(acl.entries)
<1>1. /\ acl' = [acl EXCEPT !.entries = Append(@, entry)] /\ pos' = pos + size
      /\ left' = left - 1 /\ UNCHANGED writer /\ phase' = "parse"
  BY DEF Push
<1>2. /\ acl.entries \in Seq(AclEntry) /\ n \in Nat /\ pos \in Nat /\ left \in Nat /\ left > 0
      /\ trailer.acl_len \in Nat /\ trailer.num_entries \in Nat /\ Len(written) \in Nat
  BY DEF TypeInv, Fits, AclData
<1>3. /\ acl'.kind = acl.kind /\ acl'.entries = Append(acl.entries, entry)
      /\ Len(acl'.entries) = n + 1 /\ acl'.entries[n + 1] = entry
      /\ \A i \in 1 .. n : acl'.entries[i] = acl.entries[i]
  BY <1>1, <1>2 DEF TypeInv, AclData
<1>4. /\ trailer' = trailer /\ kind' = kind /\ written' = written /\ starts' = starts
      /\ stored' = stored
      /\ End' = End /\ (Whole' <=> Whole) /\ (OneIdEach' <=> OneIdEach)
      /\ (Unpadded' <=> Unpadded) /\ AceSize' = AceSize
  BY <1>1, <1>3 DEF writer, End, Whole, RightCount, OneIdEach, Unpadded, AceSize
<1>5. Layout'
  BY <1>1, LayoutKept
<1>6. TypeInv'
  <2>1. acl' \in AclData
    <3>1. acl.entries \in Seq(AclEntry) /\ entry \in AclEntry
      BY <1>2
    <3> HIDE DEF AclEntry
    <3>2. Append(acl.entries, entry) \in Seq(AclEntry)
      BY <3>1
    <3>3. acl' = [acl EXCEPT !.entries = Append(acl.entries, entry)]
      BY <1>1
    <3>4. QED BY <3>2, <3>3 DEF TypeInv, AclData
  <2>2. pos' \in Nat /\ left' \in Nat
    BY <1>1, <1>2
  <2>3. QED BY <2>1, <2>2, <1>1, <1>3, <1>4 DEF TypeInv
<1>7. RoomInv'
  <2>1. CASE acl.kind = "aixc"
    <3>1. 12 * n <= pos /\ pos + 12 <= trailer.acl_len /\ size >= 12
      BY <2>1 DEF Parsed, RoomInv, AceSize, CompactSize, Fits
    <3>2. 12 * (n + 1) <= trailer.acl_len /\ 12 * (n + 1) <= pos + size
      BY <3>1, <1>2
    <3>3. AceSize' = 12
      BY <2>1, <1>4 DEF AceSize, CompactSize
    <3>4. left + n <= trailer.num_entries
      BY DEF Parsed, RoomInv
    <3>5. Len(acl'.entries) = n + 1 /\ trailer' = trailer
      BY <1>1, <1>3, <1>4
    <3>6. AceSize' * Len(acl'.entries) <= trailer'.acl_len /\ AceSize' * Len(acl'.entries) <= pos'
      BY <3>2, <3>3, <3>5, <1>1, <1>2
    <3>7. left' + Len(acl'.entries) <= trailer'.num_entries /\ left' \in Nat
          /\ Len(acl'.entries) <= trailer'.num_entries
      BY <3>4, <3>5, <1>1, <1>2
    <3>8. QED BY <3>6, <3>7 DEF RoomInv
  <2>2. CASE acl.kind # "aixc"
    <3>1. 16 * n <= pos /\ pos + 16 <= trailer.acl_len /\ size >= 16
      BY <2>2 DEF Parsed, RoomInv, AceSize, Nfs4Size, Fits
    <3>2. 16 * (n + 1) <= trailer.acl_len /\ 16 * (n + 1) <= pos + size
      BY <3>1, <1>2
    <3>3. AceSize' = 16
      BY <2>2, <1>4 DEF AceSize, Nfs4Size
    <3>4. left + n <= trailer.num_entries
      BY DEF Parsed, RoomInv
    <3>5. Len(acl'.entries) = n + 1 /\ trailer' = trailer
      BY <1>1, <1>3, <1>4
    <3>6. AceSize' * Len(acl'.entries) <= trailer'.acl_len /\ AceSize' * Len(acl'.entries) <= pos'
      BY <3>2, <3>3, <3>5, <1>1, <1>2
    <3>7. left' + Len(acl'.entries) <= trailer'.num_entries /\ left' \in Nat
          /\ Len(acl'.entries) <= trailer'.num_entries
      BY <3>4, <3>5, <1>1, <1>2
    <3>8. QED BY <3>6, <3>7 DEF RoomInv
  <2>3. QED BY <2>1, <2>2
<1>8. TrackInv'
  <2> SUFFICES ASSUME Unpadded, acl.kind = kind
               PROVE  /\ n + 1 <= Len(written)
                      /\ \A i \in 1 .. n + 1 : acl'.entries[i] = written[i]
                      /\ pos' = starts[n + 2]
    BY <1>1, <1>2, <1>3, <1>4 DEF TrackInv
  <2>1. n < Len(written)
    BY EntryHere DEF Parsed
  <2>2. \A i \in 1 .. n : acl.entries[i] = written[i]
    BY DEF Parsed, TrackInv
  <2>3. QED BY <2>1, <2>2, <1>1, <1>2, <1>3
<1>9. WholeInv'
  <2> SUFFICES ASSUME Whole, End > 0, acl.kind = kind PROVE left' + (n + 1) = Len(written)
    BY <1>1, <1>3, <1>4 DEF WholeInv
  <2>1. left + n = Len(written)
    BY DEF Parsed, WholeInv
  <2>2. QED BY <2>1, <1>1, <1>2
<1>10. KindRecognised'
  BY <1>1, <1>3, <1>4 DEF Parsed, KindRecognised
<1>11. QED BY <1>5, <1>6, <1>7, <1>8, <1>9, <1>10 DEF Parsed

LEMMA ParseAceOK == IInv /\ ParseAce => IInv'
<1> SUFFICES ASSUME IInv, ParseAce PROVE IInv'
  OBVIOUS
<1> USE DEF IInv
<1>1. phase = "parse" /\ acl.kind = "aixc" /\ Fits /\ AceSize = CompactSize
  BY DEF ParseAce, AceSize
<1>2. CASE AtEntry
  <2>1. PICK i \in Entry : Push(Compact(stored[i]), Advance(stored[i].ace_len))
    BY <1>2 DEF ParseAce
  <2>2. kind = "aixc" /\ i \in 1 .. Len(stored) /\ starts[i] = pos
    BY <1>1, <1>2, <2>1 DEF AtEntry, Entry, TypeInv
  <2>3. /\ stored[i].ace_len \in Nat /\ Compact(stored[i]) = written[i]
        /\ starts[i + 1] = starts[i] + Size(stored[i].ace_len)
    BY <2>2 DEF Layout, WriterInv, Decode, SizeOf
  <2>4. /\ Advance(stored[i].ace_len) \in Nat /\ Advance(stored[i].ace_len) >= AceSize
        /\ Advance(stored[i].ace_len) = Size(stored[i].ace_len)
    BY <2>3, <1>1, SizeFacts
  <2>5. Compact(stored[i]) \in AclEntry
    BY <2>2, <2>3 DEF TypeInv, AclEntry
  <2>6. Unpadded => i = Len(acl.entries) + 1
    BY <2>1, <2>2, <1>1, EntryHere DEF Parsed
  <2>7. QED
    <3>1. Len(acl.entries) \in Nat /\ Len(acl.entries) + 1 + 1 = Len(acl.entries) + 2
      BY DEF TypeInv, AclData
    <3>2. Unpadded /\ acl.kind = kind =>
            /\ Compact(stored[i]) = written[Len(acl.entries) + 1]
            /\ pos + Advance(stored[i].ace_len) = starts[Len(acl.entries) + 2]
      BY <2>2, <2>3, <2>4, <2>6, <3>1
    <3>3. QED BY <2>1, <2>4, <2>5, <3>2, <1>1, PushOK
<1>3. CASE ~AtEntry
  <2>1. PICK m \in AceLens : Push(Garbage, Advance(m))
    BY <1>3 DEF ParseAce
  <2>2. Advance(m) \in Nat /\ Advance(m) >= AceSize
    BY <1>1, EntryTypes, SizeFacts
  <2>3. ~(Unpadded /\ acl.kind = kind)
    BY <1>1, <1>3, EntryHere DEF AtEntry, Parsed
  <2>4. Garbage \in AclEntry
    BY DEF AclEntry
  <2>5. QED BY <2>1, <2>2, <2>3, <2>4, <1>1, PushOK
<1>4. QED BY <1>2, <1>3

LEMMA ParseNfs4AceOK == IInv /\ ParseNfs4Ace => IInv'
<1> SUFFICES ASSUME IInv, ParseNfs4Ace PROVE IInv'
  OBVIOUS
<1> USE DEF IInv
<1>1. phase = "parse" /\ acl.kind = "nfs4" /\ Fits /\ AceSize = Nfs4Size /\ Nfs4Size \in Nat
  BY DEF ParseNfs4Ace, AceSize, Nfs4Size
<1>2. CASE AtEntry
  <2>1. PICK i \in Entry : Push(Nfs4(stored[i]), Nfs4Size)
    BY <1>2 DEF ParseNfs4Ace
  <2>2. kind = "nfs4" /\ i \in 1 .. Len(stored) /\ starts[i] = pos
    BY <1>1, <1>2, <2>1 DEF AtEntry, Entry, TypeInv
  <2>3. Nfs4(stored[i]) = written[i] /\ starts[i + 1] = starts[i] + Nfs4Size
    BY <2>2 DEF Layout, WriterInv, Decode, SizeOf
  <2>4. Nfs4(stored[i]) \in AclEntry
    BY <2>2, <2>3 DEF TypeInv, AclEntry
  <2>5. Unpadded => i = Len(acl.entries) + 1
    BY <2>1, <2>2, <1>1, EntryHere DEF Parsed
  <2>6. QED
    <3>1. Len(acl.entries) \in Nat /\ Len(acl.entries) + 1 + 1 = Len(acl.entries) + 2
      BY DEF TypeInv, AclData
    <3>2. Unpadded /\ acl.kind = kind =>
            /\ Nfs4(stored[i]) = written[Len(acl.entries) + 1]
            /\ pos + Nfs4Size = starts[Len(acl.entries) + 2]
      BY <2>2, <2>3, <2>5, <3>1
    <3>3. Nfs4Size >= AceSize
      BY <1>1
    <3>4. QED BY <2>1, <2>4, <3>2, <3>3, <1>1, PushOK
<1>3. CASE ~AtEntry
  <2>1. Push(Garbage, Nfs4Size)
    BY <1>3 DEF ParseNfs4Ace
  <2>2. Nfs4Size >= AceSize
    BY <1>1
  <2>3. ~(Unpadded /\ acl.kind = kind)
    BY <1>1, <1>3, EntryHere DEF AtEntry, Parsed
  <2>4. Garbage \in AclEntry
    BY DEF AclEntry
  <2>5. QED BY <2>1, <2>2, <2>3, <2>4, <1>1, PushOK
<1>4. QED BY <1>2, <1>3

LEMMA FinishOK == IInv /\ Finish => IInv'
<1> SUFFICES ASSUME IInv, Finish PROVE IInv'
  OBVIOUS
<1> USE DEF IInv
<1>1. phase = "parse" /\ phase' = "done" /\ ~Fits /\ UNCHANGED <<writer, acl, pos, left>>
  BY DEF Finish
<1>2. /\ trailer' = trailer /\ kind' = kind /\ written' = written /\ starts' = starts
      /\ stored' = stored /\ acl' = acl /\ pos' = pos /\ left' = left
      /\ End' = End /\ (Whole' <=> Whole) /\ (OneIdEach' <=> OneIdEach)
      /\ (Unpadded' <=> Unpadded) /\ AceSize' = AceSize
  BY <1>1 DEF writer, End, Whole, RightCount, OneIdEach, Unpadded, AceSize
<1>3. Layout'
  BY <1>1, LayoutKept
<1>4. TypeInv'
  BY <1>1, <1>2 DEF TypeInv
<1>5. RoomInv' /\ TrackInv' /\ KindRecognised'
  BY <1>1, <1>2 DEF Parsed, RoomInv, TrackInv, KindRecognised
<1>6. WholeInv'
  <2> DEFINE n == Len(acl.entries)
  <2> SUFFICES ASSUME Whole, End > 0, acl.kind = kind PROVE n = Len(written)
    BY <1>1, <1>2 DEF WholeInv
  <2>1. Unpadded /\ trailer.acl_len = End
    BY WholeFacts DEF Whole
  <2>2. /\ n \in Nat /\ left \in Nat /\ left + n = Len(written) /\ pos = starts[n + 1]
        /\ Len(written) \in Nat /\ Len(starts) = Len(written) + 1
    BY <2>1, <1>1 DEF TypeInv, AclData, Parsed, WholeInv, TrackInv
  <2>3. AceSize = LeastSize
    BY DEF AceSize, LeastSize
  <2>4. SUFFICES ASSUME left > 0 PROVE FALSE
    BY <2>2
  <2>5. n + 1 \in 1 .. Len(starts) /\ Len(starts) \in 1 .. Len(starts) /\ n + 1 < Len(starts)
    BY <2>2, <2>4
  <2>6. starts[n + 1] + LeastSize <= End
    BY <2>5 DEF Layout, Ascending, End
  <2>7. QED BY <2>1, <2>2, <2>3, <2>4, <2>6, <1>1 DEF Fits
<1>7. QED BY <1>3, <1>4, <1>5, <1>6 DEF Parsed

-----------------------------------------------------------------------------

LEMMA StepOK == IInv /\ [Next]_vars => IInv'
<1> SUFFICES ASSUME IInv, [Next]_vars PROVE IInv'
  OBVIOUS
<1>1. CASE Next
  BY <1>1, WriterSteps, BuildSteps, ParseAceOK, ParseNfs4AceOK, FinishOK DEF Next
<1>2. CASE UNCHANGED vars
  <2>1. Layout'
    BY <1>2, LayoutKept DEF vars, IInv
  <2>2. TypeInv'
    BY <1>2 DEF vars, writer, IInv, TypeInv
  <2>3. /\ trailer' = trailer /\ kind' = kind /\ written' = written /\ acl' = acl
        /\ starts' = starts /\ stored' = stored /\ pos' = pos /\ left' = left /\ phase' = phase
    BY <1>2 DEF vars, writer
  <2>4. Parsed'
    BY <2>3 DEF IInv, Parsed, RoomInv, TrackInv, WholeInv, KindRecognised, AceSize, Unpadded,
                Whole, RightCount, End, OneIdEach
  <2>5. QED BY <2>1, <2>2, <2>4 DEF IInv
<1>3. QED BY <1>1, <1>2

LEMMA Invariance == Spec => []IInv
BY InitOK, StepOK, PTL DEF Spec

(* The type invariant, for every archive.                                  *)
THEOREM TypeCorrect == Spec => []TypeOK
<1>1. IInv => TypeOK
  BY DEF IInv, TypeInv, TypeOK, AclData
<1>2. QED BY <1>1, Invariance, PTL

(* The layout of a whole payload is recognised by its length (acl.rs:356). *)
THEOREM LayoutIsRecognised == Spec => []KindRecognised
<1>1. IInv => KindRecognised
  BY DEF IInv, Parsed
<1>2. QED BY <1>1, Invariance, PTL

(* No more entries are made than the payload has room for and the trailer    *)
(* asks for, whatever the ace_len fields say (acl.rs:284, acl.rs:306).       *)
THEOREM EntriesAreBounded == Spec => []BoundedByPayload
<1>1. IInv => BoundedByPayload
  BY DEF IInv, Parsed, RoomInv, BoundedByPayload
<1>2. QED BY <1>1, Invariance, PTL

(* What is decoded is a beginning of what was written.                     *)
THEOREM DecodedAsWritten == Spec => []DecodesWritten
<1>1. IInv => DecodesWritten
  BY DEF IInv, Parsed, TrackInv, DecodesWritten, TypeInv, AclData
<1>2. QED BY <1>1, Invariance, PTL

(* And all of it if the payload is whole.                                  *)
THEOREM WholeIsDecoded == Spec => []AllDecoded
<1>1. IInv => AllDecoded
  <2> SUFFICES ASSUME IInv, phase = "done", Whole, End > 0, acl.kind = kind
               PROVE  acl.entries = written
    BY DEF AllDecoded
  <2>1. Unpadded
    BY WholeFacts DEF IInv
  <2>2. /\ acl.entries \in Seq(AclEntry) /\ written \in Seq(AixcEntries \cup Nfs4Entries)
        /\ Len(acl.entries) = Len(written)
        /\ \A i \in 1 .. Len(acl.entries) : acl.entries[i] = written[i]
    BY <2>1 DEF IInv, TypeInv, AclData, Parsed, TrackInv, WholeInv
  <2>3. QED BY <2>2
<1>2. QED BY <1>1, Invariance, PTL
=============================================================================
