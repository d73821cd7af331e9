---------------------------- MODULE RecordSources ----------------------------
(***************************************************************************)
(* What an archive promises that is read record by record: each time one   *)
(* is opened the caller gets a ByteSource of its content, from the          *)
(* beginning, whatever was done with the sources before.                   *)
(***************************************************************************)
EXTENDS ByteSource

\* content' is that of the record that is opened.
Reopen ==
  \/ delivered' = <<>> /\ state' \in {"open", "failed"}
  \/ delivered' = content' /\ state' = "ended"   \* read in one go

SourcesSpec == SourceInit /\ [][SourceNext \/ Reopen]_sourceVars
=============================================================================
