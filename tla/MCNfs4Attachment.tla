-------------------------- MODULE MCNfs4Attachment --------------------------
(***************************************************************************)
(* All lists of records of eight kinds, with every subject for each text.  *)
(***************************************************************************)
EXTENDS Nfs4Attachment

CONSTANTS Shapes, MaxRecords

Rc(ixacl, payload, flag, synthetic, data) ==
  [ixacl |-> ixacl, payload |-> payload, flag |-> flag,
   synthetic |-> synthetic, data |-> data, subject |-> 0]

Without == Rc(FALSE, "none", TRUE, FALSE, "other")
Aixc == Rc(TRUE, "aixc", FALSE, FALSE, "other")
AixcFlagged == Rc(TRUE, "aixc", TRUE, FALSE, "other")
Nfs4 == Rc(TRUE, "none", FALSE, FALSE, "other")
Nfs4Entries == Rc(TRUE, "nfs4", FALSE, FALSE, "binary")
AclText == Rc(FALSE, "none", FALSE, TRUE, "nfs4")
OwnAclText == Rc(TRUE, "none", FALSE, TRUE, "nfs4")
NoAclText == Rc(FALSE, "none", FALSE, TRUE, "binary")

AllShapes == {Without, Aixc, AixcFlagged, Nfs4, Nfs4Entries, AclText, OwnAclText, NoAclText}

IsText(r) == r.synthetic /\ r.data = "nfs4"
Texts(shapes) == {i \in DOMAIN shapes : IsText(shapes[i])}
SubjectsOf(shapes) ==
  {f \in [Texts(shapes) -> 0 .. Len(shapes) - 1] : \A i \in Texts(shapes) : f[i] < i}
WithSubjects(shapes, f) ==
  [i \in DOMAIN shapes |->
     IF i \in DOMAIN f THEN [shapes[i] EXCEPT !.subject = f[i]] ELSE shapes[i]]

MCArchives ==
  UNION {{WithSubjects(shapes, f) : f \in SubjectsOf(shapes)} :
           shapes \in UNION {[1 .. n -> Shapes] : n \in 0 .. MaxRecords}}
=============================================================================
