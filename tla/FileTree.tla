------------------------------- MODULE FileTree -------------------------------
(***************************************************************************)
(* The file system below the directory in which bffextract is started, as  *)
(* far as extraction can tell: a function from paths (sequences of names)  *)
(* to nodes.  <<>> is that directory; it is there and stays.               *)
(*                                                                         *)
(* Links lead to paths of the same tree.                                   *)
(***************************************************************************)
EXTENDS Integers, SequencesExt, FiniteSetsExt

CONSTANT MaxHops   \* links the system follows on one path

ASSUME HopsOK == MaxHops \in Nat

\* times, owner, mode: the record an attribute was set from; 0 when the system
\* chose it, for times: the moment of the last change.  Of a file, "of" is the
\* record its bytes come from, "part" how many of them it has, or "wrong" when
\* they are not those of the record.
Node == [type : {"dir", "file", "link"}, to : Seq(STRING),
         of : Nat, part : {"none", "part", "whole", "wrong"},
         times : Nat, owner : Nat, mode : Nat]

Plain(type) == [type |-> type, to |-> <<>>, of |-> 0, part |-> "none",
                times |-> 0, owner |-> 0, mode |-> 0]
NewDir == Plain("dir")
NewLink(to) == [Plain("link") EXCEPT !.to = to]
NewFile(i, part) == [Plain("file") EXCEPT !.of = i, !.part = part]

Upto(p, n) == SubSeq(p, 1, n)

\* Every node lies in directories, all the way up.
IsTree(f) ==
  /\ f \in [DOMAIN f -> Node]
  /\ <<>> \in DOMAIN f /\ f[<<>>].type = "dir"
  /\ \A p \in DOMAIN f :
       /\ p \in Seq(STRING)
       /\ \A n \in 0 .. Len(p) - 1 : Upto(p, n) \in DOMAIN f /\ f[Upto(p, n)].type = "dir"

-----------------------------------------------------------------------------
(* Paths.                                                                  *)

LinksOn(f, p) == {n \in 1 .. Len(p) : Upto(p, n) \in DOMAIN f /\ f[Upto(p, n)].type = "link"}

\* The path with its first link replaced by what the link says.
Jump(f, p) ==
  LET n == Min(LinksOn(f, p)) IN f[Upto(p, n)].to \o SubSeq(p, n + 1, Len(p))

\* Where a path leads when every link on it is followed.  A path with more
\* than MaxHops links, or with a loop, still has a link on it.
Step(f) == [p \in Seq(STRING) |-> IF LinksOn(f, p) = {} THEN p ELSE Jump(f, p)]
Follow(f, p) ==
  LET walk[hops \in 0 .. MaxHops] == IF hops = 0 THEN p ELSE Step(f)[walk[hops - 1]]
  IN  walk[MaxHops]

\* Path::is_dir and Path::is_file; Path::exists is one or the other.
Found(f, p, type) == Follow(f, p) \in DOMAIN f /\ f[Follow(f, p)].type = type
Exists(f, p) == Found(f, p, "dir") \/ Found(f, p, "file")

\* Where the name at the end of a path is, the name not being followed.
Place(f, p) == IF p = <<>> THEN p ELSE Append(Follow(f, Front(p)), Last(p))

-----------------------------------------------------------------------------
(* Changes; p is a place.  A change of a directory's names is one of its times. *)

Renamed(f, p, q) == IF p # <<>> /\ q = Front(p) THEN [f[q] EXCEPT !.times = 0] ELSE f[q]
Enter(f, p, node) ==
  [q \in DOMAIN f \cup {p} |-> IF q = p THEN node ELSE Renamed(f, p, q)]
Leave(f, p) == [q \in DOMAIN f \ {p} |-> Renamed(f, p, q)]
=============================================================================
