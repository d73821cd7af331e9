---------------------------- MODULE Nfs4Attachment ----------------------------
(***************************************************************************)
(* The second pass over the records of an archive (attach_nfs4_acl_texts,  *)
(* archive.rs): the text of an NFS4 ACL is stored as the data of a record  *)
(* of its own, a regular file whose name ends with a slash, and is given   *)
(* to a record that comes before it.  The archive does not say to which.   *)
(***************************************************************************)
EXTENDS Integers, SequencesExt, FiniteSets

CONSTANTS
  Archives,   \* lists of records
  IoErrors    \* may reading a text fail?

\* ixacl: S_IXACL of the mode; payload: what the bytes of the ACL are; flag:
\* AIXC_ACL_MODE_FLAG of its acl_mode; synthetic: a regular file with a name
\* that ends with "/"; data: an ACL text, another text, or no UTF-8; subject:
\* the record whose ACL the text is (known to the writer only; 0: none).
Record == [ixacl : BOOLEAN, payload : {"none", "aixc", "nfs4"}, flag : BOOLEAN,
           synthetic : BOOLEAN, data : {"nfs4", "other", "binary"}, subject : Nat]

ASSUME AttachmentConstantsOK ==
  /\ \A a \in Archives : a \in Seq(Record)
  /\ IoErrors \in BOOLEAN

VARIABLES
  records,   \* the records as scanned; never change
  acls,      \* their acl fields: kind, whether entries were parsed, and the
             \* record its text is from
  index,     \* the record the loop is at
  pending,   \* pending_nfs4
  outcome

vars == <<records, acls, index, pending, outcome>>

-----------------------------------------------------------------------------
(* build_acl_data, for a payload that AclPayload tells apart.              *)
Kind(r) ==
  CASE ~r.ixacl -> "none"
    [] r.ixacl /\ r.payload # "none" -> r.payload
    [] r.ixacl /\ r.payload = "none" -> IF r.flag THEN "aixc" ELSE "nfs4"

Parsed(r) == [kind |-> Kind(r), entries |-> r.ixacl /\ r.payload # "none", text |-> 0]

Waits(i) == acls[i].kind # "none" /\ ~records[i].flag

\* Mutant: the index of the record behind it is put on the stack.
StackOfNext(i) == IF Waits(i) THEN Append(pending, i + 1) ELSE pending

\* The stack when record i is looked at: its own ACL is on it already.
Stack(i) == IF Waits(i) THEN Append(pending, i) ELSE pending

\* attach_nfs4_text: an AIXC ACL becomes an NFS4 one and loses its entries.
Attached(acl, i) ==
  [kind |-> "nfs4", entries |-> acl.kind = "nfs4" /\ acl.entries, text |-> i]

HasText(i) == records[i].synthetic /\ records[i].data = "nfs4"

Init ==
  /\ records \in Archives
  /\ acls = [i \in 1 .. Len(records) |-> Parsed(records[i])]
  /\ index = 1
  /\ pending = <<>>
  /\ outcome = "none"

Looking == outcome = "none" /\ index <= Len(records)

NoText ==
  /\ Looking
  /\ ~HasText(index)
  /\ pending' = Stack(index)
  /\ index' = index + 1
  /\ UNCHANGED <<records, acls, outcome>>

\* Mutants: the record that waits longest gets the text; it goes on waiting.
AttachFirst ==
  /\ Looking
  /\ HasText(index)
  /\ IF Stack(index) = <<>> THEN UNCHANGED <<acls, pending>>
     ELSE /\ acls' = [acls EXCEPT ![Head(Stack(index))] = Attached(@, index)]
          /\ pending' = Tail(Stack(index))
  /\ index' = index + 1
  /\ UNCHANGED <<records, outcome>>
AttachToTop ==
  /\ Looking
  /\ HasText(index)
  /\ pending' = Stack(index)
  /\ acls' = IF pending' = <<>> THEN acls ELSE [acls EXCEPT ![Last(pending')] = Attached(@, index)]
  /\ index' = index + 1
  /\ UNCHANGED <<records, outcome>>

\* The record that has waited least gets the text; without one it is dropped.
Attach ==
  /\ Looking
  /\ HasText(index)
  /\ IF Stack(index) = <<>> THEN UNCHANGED <<acls, pending>>
     ELSE /\ acls' = [acls EXCEPT ![Last(Stack(index))] = Attached(@, index)]
          /\ pending' = Front(Stack(index))
  /\ index' = index + 1
  /\ UNCHANGED <<records, outcome>>

\* Opening the archive fails, in best-effort mode too.
ReadFails ==
  /\ IoErrors /\ Looking
  /\ records[index].synthetic
  /\ outcome' = "io_error"
  /\ UNCHANGED <<records, acls, index, pending>>

Finish ==
  /\ outcome = "none" /\ index > Len(records)
  /\ outcome' = "ok"
  /\ UNCHANGED <<records, acls, index, pending>>

Next == NoText \/ Attach \/ ReadFails \/ Finish

Spec == Init /\ [][Next]_vars

-----------------------------------------------------------------------------
TypeOK ==
  /\ records \in Seq(Record)
  /\ acls \in Seq([kind : {"none", "aixc", "nfs4"}, entries : BOOLEAN, text : 0 .. Len(records)])
  /\ Len(acls) = Len(records)
  /\ index \in 1 .. Len(records) + 1
  /\ pending \in Seq(1 .. Len(records))
  /\ outcome \in {"none", "ok", "io_error"}

(* Waiting ACLs and texts pair off like brackets: a text goes to the nearest  *)
(* ACL before it that waits, and everything between the two that waited has   *)
(* got a text from between them.  No text is given twice.                     *)
PairsLikeBrackets ==
  \A r \in 1 .. index - 1 :
    LET t == acls[r].text IN
    t > 0 =>
      /\ r <= t /\ t < index /\ HasText(t)
      /\ \A q \in r + 1 .. t : Waits(q) => acls[q].text \in q .. t - 1
      /\ \A q \in 1 .. index - 1 : acls[q].text = t => q = r

(* A text is dropped only when nothing before it waits: as many ACLs have got *)
(* a text as could.                                                           *)
NoneWaitsInVain ==
  \A t \in 1 .. index - 1 :
    HasText(t) /\ (\A r \in 1 .. t : acls[r].text # t)
      => \A r \in 1 .. t : Waits(r) => acls[r].text \in 1 .. t - 1

\* Each ACL that waits has one text, behind it, and before that come the texts
\* of all records in between that wait, the one that holds the text included.
WellNested ==
  /\ \A t \in 1 .. Len(records) : HasText(t) =>
       /\ records[t].subject \in 1 .. t - 1
       /\ Waits(records[t].subject)
       /\ \A q \in records[t].subject + 1 .. t : Waits(q) =>
            \E u \in q + 1 .. t - 1 : HasText(u) /\ records[u].subject = q
  /\ \A r \in 1 .. Len(records) : Waits(r) =>
       Cardinality({t \in 1 .. Len(records) : HasText(t) /\ records[t].subject = r}) = 1

(* In an archive that is written like that every record gets its own text.    *)
EachItsOwn ==
  (WellNested /\ outcome = "ok") =>
    \A t \in 1 .. Len(records) : HasText(t) => acls[records[t].subject].text = t
=============================================================================
