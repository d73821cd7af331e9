------------------------------ MODULE ByteSource ------------------------------
(***************************************************************************)
(* What a reader of record data promises its caller: successive reads      *)
(* deliver the content from its beginning, without gap or repetition, and  *)
(* the end is announced when all of it has been delivered and not before.  *)
(***************************************************************************)
EXTENDS Naturals, Sequences

VARIABLES content, delivered, state

sourceVars == <<content, delivered, state>>

SourceInit == delivered = <<>> /\ state \in {"open", "failed"}

Deliver ==
  /\ state = "open"
  /\ \E k \in Len(delivered) .. Len(content) : delivered' = SubSeq(content, 1, k)
  /\ UNCHANGED <<content, state>>

AnnounceEnd ==
  /\ state = "open"
  /\ delivered = content
  /\ state' = "ended"
  /\ UNCHANGED <<content, delivered>>

\* An error, which leaves what was delivered valid.
SourceFails ==
  /\ state = "open"
  /\ state' = "failed"
  /\ UNCHANGED <<content, delivered>>

SourceNext == Deliver \/ AnnounceEnd \/ SourceFails

SourceSpec == SourceInit /\ [][SourceNext]_sourceVars
=============================================================================
