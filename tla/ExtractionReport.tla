--------------------------- MODULE ExtractionReport ---------------------------
(***************************************************************************)
(* What extraction of a selection of records promises its caller, without  *)
(* files: each selected record is tried once, in the order of the archive, *)
(* and its verdict is on record.  Strict extraction ends with the first    *)
(* failure and says so; lenient extraction ends with the last record.      *)
(* A panic on the data of a record ends either, and then nothing is said.  *)
(***************************************************************************)
EXTENDS Naturals, Sequences

\* selection: the numbers of the records; lenient: go on after a failure?
VARIABLES selection, lenient, verdicts, outcome

reportVars == <<selection, lenient, verdicts, outcome>>

Tried == {verdicts[k].record : k \in 1 .. Len(verdicts)}
Untried == selection \ Tried

ReportInit == verdicts = <<>> /\ outcome = "none"

Judge ==
  /\ outcome = "none"
  /\ \E i \in Untried, v \in {"extracted", "warned", "failed"} :
       /\ \A j \in Untried : j = i \/ i < j
       /\ verdicts' = Append(verdicts, [record |-> i, verdict |-> v])
       /\ outcome' = IF v = "failed" /\ ~lenient THEN "failed" ELSE "none"
  /\ UNCHANGED <<selection, lenient>>

Finish ==
  /\ outcome = "none" /\ Untried = {}
  /\ outcome' = "ok" \/ (selection = {} /\ outcome' = "not_found")
  /\ UNCHANGED <<selection, lenient, verdicts>>

Panic ==
  /\ outcome = "none" /\ Untried # {}
  /\ outcome' = "panic"
  /\ UNCHANGED <<selection, lenient, verdicts>>

ReportNext == Judge \/ Finish \/ Panic

ReportSpec == ReportInit /\ [][ReportNext]_reportVars
=============================================================================
