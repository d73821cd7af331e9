---------------------------- MODULE MCExtraction ----------------------------
(***************************************************************************)
(* Archives of up to two records out of sixteen, tasks and disks for model *)
(* checking Extraction.                                                    *)
(***************************************************************************)
EXTENDS Extraction, TLC

CONSTANTS Pool,        \* the records archives are made of
          MaxRecords

Rc(path, kind) == [path |-> path, kind |-> kind, to |-> <<>>, compressed |-> FALSE,
                   data |-> "good", readonly |-> FALSE]
Compressed(path) == [Rc(path, "file") EXCEPT !.compressed = TRUE]
Out(path) == <<"out">> \o path

DirA == Rc(<<"a">>, "dir")
DirDot == Rc(<<".">>, "dir")
DirLocked == [DirA EXCEPT !.readonly = TRUE]
FileA == Rc(<<"a">>, "file")
FileAB == Compressed(<<"a", "b">>)
FileABC == Rc(<<"a", "b", "c">>, "file")
FileDotB == Rc(<<".", "b">>, "file")
LinkB == [Rc(<<"b">>, "link") EXCEPT !.to = Out(<<"a">>)]
LinkA == [Rc(<<"a">>, "link") EXCEPT !.to = Out(<<"b">>)]
Pipe == Rc(<<"a", "p">>, "device")
Typeless == Rc(<<"b">>, "none")
Upward == Rc(<<"a", "..", "x">>, "file")
Rooted == Rc(<<"/", "x">>, "file")
BadTable == [Compressed(<<"a">>) EXCEPT !.data = "bad_table"]
BadCode == [FileAB EXCEPT !.data = "bad_code"]
CutOff == [FileAB EXCEPT !.data = "cut"]

FullPool == {DirA, DirDot, DirLocked, FileA, FileAB, FileABC, FileDotB, LinkB, LinkA, Pipe,
             Typeless, Upward, Rooted, BadTable, BadCode, CutOff}
DirRecords == {DirA, FileAB}
DeepRecords == {FileABC}

MCArchives == UNION {[1 .. n -> Pool] : n \in 0 .. MaxRecords}

Tk(style, filter, attributes) ==
  [style |-> style, filter |-> filter, name |-> <<>>, destination |-> <<"out">>,
   attributes |-> attributes]
Named(name) == [Tk("named", {}, {"times"}) EXCEPT !.name = name, !.destination = <<"new", "n">>]

AllTasks == {Tk(s, {}, x) : s \in {"strict", "best_effort"}, x \in {{"times"}, Attributes}}
            \cup {Tk("best_effort", {<<"a">>, <<"x">>}, {}), Named(<<"a">>), Named(<<"a", "b">>)}
CliTask == {Tk("best_effort", {}, {"times"})}

Root == <<>> :> NewDir
Old == NewFile(0, "whole")
EmptyDisk == {Root}
WithOut(f) == Root @@ (<<"out">> :> NewDir) @@ f
FileInTheWay == WithOut(Out(<<"a">>) :> Old @@ <<"keep">> :> Old)
DirsThere == WithOut(Out(<<"a">>) :> NewDir @@ Out(<<"a", "b">>) :> NewDir @@ Out(<<"k">>) :> Old)
LinkThere == WithOut(Out(<<"a">>) :> NewLink(Out(<<"b">>)))
LoopThere == WithOut(Out(<<"a">>) :> NewLink(Out(<<"a">>)) @@ Out(<<"b">>) :> NewLink(<<"keep">>)
                     @@ <<"keep">> :> Old)
OutIsFile == Root @@ (<<"out">> :> Old)
AllDisks == {Root, FileInTheWay, DirsThere, LinkThere, LoopThere, OutIsFile}
FileDisk == {FileInTheWay}
=============================================================================
