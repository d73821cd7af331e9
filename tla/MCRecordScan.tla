---------------------------- MODULE MCRecordScan ----------------------------
(***************************************************************************)
(* Archives for model checking RecordScan: all sequences of up to three    *)
(* parts, laid out, and cut off at several places.                         *)
(***************************************************************************)
EXTENDS RecordScan

CONSTANTS Parts,   \* what an archive is made of
          MaxParts,
          Cuts     \* how many bytes may be missing at the end

Hdr(marker, magic, link, ixacl, hasData, csize) ==
  [marker |-> marker, magic |-> magic, link |-> link, ixacl |-> ixacl,
   hasData |-> hasData, csize |-> csize]
Str(n) == [len |-> n, cut |-> n]
Part(hdr, name, target, aclLen) ==
  [hdr |-> hdr, name |-> name, target |-> target, aclLen |-> aclLen]

\* The trailer of a record without S_IXACL holds an acl_len all the same.
Dir     == Part(Hdr("entry", "known", FALSE, FALSE, FALSE, 256), Str(6), Str(0), 16)
File    == Part(Hdr("entry", "known", FALSE, FALSE, TRUE, 3), Str(8), Str(0), 16)
Link    == Part(Hdr("entry", "known", TRUE, FALSE, FALSE, 0), Str(3), Str(9), 16)
AclDir  == Part(Hdr("entry", "known", FALSE, TRUE, FALSE, 256), Str(15), Str(0), 40)
AclFile == Part(Hdr("entry", "known", FALSE, TRUE, TRUE, 13), [len |-> 6, cut |-> 4], Str(0), 28)
Nfs4File == Part(Hdr("entry", "known", FALSE, TRUE, TRUE, 8), Str(2), Str(0), 16)
\* ACLs inside the trailer whose padding is skipped behind it: 16, 8, 8 bytes.
Acl20File == Part(Hdr("entry", "known", FALSE, TRUE, TRUE, 8), Str(2), Str(0), 20)
Acl24File == Part(Hdr("entry", "known", FALSE, TRUE, TRUE, 3), Str(4), Str(0), 24)
Acl8Dir == Part(Hdr("entry", "known", FALSE, TRUE, FALSE, 0), Str(2), Str(0), 8)
EndMark == Part(Hdr("offset", "known", FALSE, FALSE, FALSE, 256), Str(6), Str(0), 16)
BadMark == Part(Hdr("other", "known", FALSE, FALSE, TRUE, 5), Str(4), Str(0), 16)
BadMagic == Part(Hdr("entry", "unknown", FALSE, FALSE, TRUE, 5), Str(4), Str(0), 16)
Huge    == Part(Hdr("entry", "known", FALSE, FALSE, TRUE, Word - 3), Str(4), Str(0), 16)

AllParts == {Dir, File, Link, AclDir, AclFile, Nfs4File, Acl20File, Acl24File, Acl8Dir,
             EndMark, BadMark, BadMagic, Huge}
FewParts == {File, Link, BadMagic}

\* The entry that a part makes at an offset.
Placed(p, at) ==
  [at |-> at, hdr |-> p.hdr, name |-> p.name, target |-> p.target, aclLen |-> p.aclLen]

LayOut(ps) ==
  LET e[i \in 1 .. Len(ps)] ==
        Placed(ps[i], IF i = 1 THEN FileHeaderSize ELSE EntryEnd(e[i - 1]))
  IN  [i \in 1 .. Len(ps) |-> e[i]]

\* Out of step, a scan reads foreign bytes 64 by 64; a part of Word bytes would
\* only make that longer.
OutOfStep == {BadMark, BadMagic, Acl20File, Acl24File, Acl8Dir}
Contents ==
  {ps \in UNION {[1 .. n -> Parts] : n \in 0 .. MaxParts} :
     \A i, j \in DOMAIN ps : (i < j /\ ps[i] \in OutOfStep) => ps[j] # Huge}

MCImages ==
  {img \in {[entries |-> LayOut(ps), len |-> EndOf(LayOut(ps)) - c] : ps \in Contents, c \in Cuts} :
     img.len >= FileHeaderSize}

\* Bytes that are no header: mostly junk, but they may look like a record.
Junk == Hdr("other", "unknown", FALSE, FALSE, FALSE, 0)
Lookalike == Hdr("entry", "known", FALSE, TRUE, TRUE, 5)
LookalikeEnd == Hdr("offset", "known", FALSE, FALSE, FALSE, 0)
MCForeignHeaders == {Junk, Lookalike, LookalikeEnd}
MCForeignAclLens == {0, 20, 44}
OnlyJunk == {Junk}
=============================================================================
