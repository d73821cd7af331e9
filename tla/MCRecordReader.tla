---------------------------- MODULE MCRecordReader ----------------------------
(***************************************************************************)
(* A compressed file, a plain file of the same name and a directory, whole *)
(* and cut off at every length.                                            *)
(***************************************************************************)
EXTENDS RecordReader

Rc(name, file, magic, at, table, done) ==
  [name |-> name, file |-> file, magic |-> magic, at |-> at, table |-> table, done |-> done]

Mixed == <<Rc("a", TRUE, "huffman", 1, 2, <<2, 2, 5>>), Rc("d", FALSE, "other", 7, 0, <<>>),
           Rc("b", TRUE, "other", 7, 0, <<1, 2, 3>>), Rc("a", TRUE, "other", 11, 0, <<1>>)>>
Plain == <<Rc("b", TRUE, "other", 0, 0, <<1, 2>>), Rc("a", TRUE, "huffman", 2, 2, <<1, 2>>),
           Rc("e", TRUE, "other", 6, 0, <<>>)>>

MCArchives == {[records |-> Mixed, len |-> n] : n \in {0, 2, 3, 5, 6, 8, 12, 13}}
                \cup {[records |-> Plain, len |-> n] : n \in {3, 5, 6, 7}}
=============================================================================
