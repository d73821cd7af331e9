----------------------------- MODULE MCFileHeader -----------------------------
(***************************************************************************)
(* A header with its checksum, and the same with one byte, its checksum or *)
(* its length changed.                                                     *)
(***************************************************************************)
EXTENDS FileHeader

\* Checksum field 0.
Plain == [i \in 1 .. HeaderSize |->
            IF i <= 4 THEN Magic[i] ELSE IF i \in {5, 6} THEN 0
            ELSE IF i \in 17 .. 20 THEN 255 ELSE IF i \in 21 .. 30 THEN 90 + i ELSE 0]
With(block, check) == [block EXCEPT ![5] = check % 256, ![6] = check \div 256]
Intact == With(Plain, Checksum(Plain))

Headers ==
  {Plain, Intact}
    \cup {[Intact EXCEPT ![i] = v] : i \in {1, 2, 4, 5, 6, 7, 18, 40, 72}, v \in {0, 1, 2, 8, 10, 255}}
    \cup {SubSeq(Intact, 1, 71), Append(Intact, 5)}
MCFiles == {[bytes |-> h, big |-> b] : h \in Headers, b \in BOOLEAN}
=============================================================================
