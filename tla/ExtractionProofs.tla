---------------------------- MODULE ExtractionProofs ----------------------------
(***************************************************************************)
(* Extraction, for archives of any length, every tree to start with and    *)
(* every call of the system that may fail.  In three parts: paths, links   *)
(* and changes of trees; that every selected record is accounted for; and  *)
(* what the calls do to the tree, on which the other theorems rest.        *)
(***************************************************************************)
EXTENDS Extraction, SequenceTheorems, Iteration

-----------------------------------------------------------------------------
(* Paths.                                                                  *)

\* STRING by another name: the provers know more of strings than is good here.
Names == STRING
Path == Seq(Names)

LEMMA UptoFacts ==
  ASSUME NEW p \in Path, NEW n \in 0 .. Len(p)
  PROVE  /\ Upto(p, n) \in Path /\ Len(Upto(p, n)) = n
         /\ \A i \in 1 .. n : Upto(p, n)[i] = p[i]
         /\ \A m \in 0 .. n : Upto(Upto(p, n), m) = Upto(p, m)
<1> DEFINE u == Upto(p, n)
<1>1. Len(p) \in Nat /\ n \in Int /\ n <= Len(p)
  BY DEF Path
<1>2. \A m \in 0 .. Len(p) :
        /\ Upto(p, m) \in Path /\ Len(Upto(p, m)) = m
        /\ \A i \in 1 .. m : Upto(p, m)[i] = p[i]
  <2>1. ASSUME NEW m \in 0 .. Len(p)
        PROVE  /\ Upto(p, m) \in Path /\ Len(Upto(p, m)) = m
               /\ \A i \in 1 .. m : Upto(p, m)[i] = p[i]
    <3>1. \A i \in 1 .. m : p[i] \in Names
      BY <1>1 DEF Path
    <3>2. /\ SubSeq(p, 1, m) \in Seq(Names)
          /\ Len(SubSeq(p, 1, m)) = IF 1 <= m THEN m - 1 + 1 ELSE 0
          /\ \A i \in 1 .. m - 1 + 1 : SubSeq(p, 1, m)[i] = p[1 + i - 1]
      BY <1>1, <3>1, SubSeqProperties
    <3>3. m - 1 + 1 = m /\ \A i \in 1 .. m : 1 + i - 1 = i
      BY <1>1
    <3>4. QED BY <1>1, <3>2, <3>3 DEF Upto, Path
  <2>2. QED BY <2>1
<1>3. u \in Path /\ Len(u) = n /\ \A i \in 1 .. n : u[i] = p[i]
  BY <1>1, <1>2
<1> HIDE DEF u
<1>4. ASSUME NEW m \in 0 .. n PROVE Upto(u, m) = Upto(p, m)
  <2>1. \A i \in 1 .. m : u[i] \in Names /\ i \in 1 .. n
    BY <1>1, <1>3 DEF Path
  <2>2. /\ SubSeq(u, 1, m) \in Seq(Names)
        /\ Len(SubSeq(u, 1, m)) = IF 1 <= m THEN m - 1 + 1 ELSE 0
        /\ \A i \in 1 .. m - 1 + 1 : SubSeq(u, 1, m)[i] = u[1 + i - 1]
    BY <1>1, <2>1, SubSeqProperties
  <2>3. m - 1 + 1 = m /\ \A i \in 1 .. m : 1 + i - 1 = i
    BY <1>1
  <2>4. Upto(u, m) \in Path /\ Len(Upto(u, m)) = m /\ \A i \in 1 .. m : Upto(u, m)[i] = u[i]
    BY <1>1, <2>2, <2>3 DEF Upto, Path
  <2>5. Upto(p, m) \in Path /\ Len(Upto(p, m)) = m /\ \A i \in 1 .. m : Upto(p, m)[i] = p[i]
    BY <1>1, <1>2
  <2>6. \A i \in 1 .. m : Upto(u, m)[i] = Upto(p, m)[i]
    BY <1>3, <2>1, <2>4, <2>5
  <2>7. QED BY <2>4, <2>5, <2>6, SeqEqual DEF Path
<1>5. QED BY <1>3, <1>4 DEF u

LEMMA UptoEnds ==
  ASSUME NEW p \in Path
  PROVE  /\ Upto(p, 0) = <<>> /\ Upto(p, Len(p)) = p
         /\ Len(p) \in Nat /\ (Len(p) = 0 <=> p = <<>>)
<1>1. Len(p) \in Nat /\ 0 \in 0 .. Len(p) /\ Len(p) \in 0 .. Len(p)
  BY DEF Path
<1>2. Upto(p, 0) \in Path /\ Len(Upto(p, 0)) = 0
  BY <1>1, UptoFacts
<1>3. \A q \in Path : Len(q) = 0 <=> q = <<>>
  BY EmptySeq DEF Path
<1>4. Upto(p, Len(p)) = p
  BY <1>1, UptoFacts, SeqEqual DEF Path
<1>5. QED BY <1>1, <1>2, <1>3, <1>4

LEMMA FrontFacts ==
  ASSUME NEW p \in Path, p # <<>>
  PROVE  /\ Len(p) - 1 \in 0 .. Len(p) /\ Len(p) >= 1
         /\ Front(p) = Upto(p, Len(p) - 1)
         /\ Front(p) \in Path /\ Len(Front(p)) = Len(p) - 1
         /\ Last(p) \in Names
         /\ p = Append(Front(p), Last(p))
<1>1. Len(p) \in Nat /\ Len(p) # 0
  BY UptoEnds
<1>2. Len(p) - 1 \in 0 .. Len(p) /\ Len(p) >= 1 /\ Len(p) \in 1 .. Len(p)
  BY <1>1
<1>3. Front(p) = Upto(p, Len(p) - 1)
  BY DEF Front, Upto
<1>4. /\ Front(p) \in Path /\ Len(Front(p)) = Len(p) - 1
      /\ \A i \in 1 .. Len(p) - 1 : Front(p)[i] = p[i]
  BY <1>2, <1>3, UptoFacts
<1>5. Last(p) \in Names /\ Last(p) = p[Len(p)]
  BY <1>2, ElementOfSeq DEF Last, Path
<1> DEFINE q == Append(Front(p), Last(p))
<1>6. /\ q \in Seq(Names) /\ Len(q) = Len(Front(p)) + 1
      /\ \A i \in 1 .. Len(Front(p)) + 1 :
           q[i] = IF i <= Len(Front(p)) THEN Front(p)[i] ELSE Last(p)
  BY <1>4, <1>5 DEF Path
<1> HIDE DEF q
<1>7. Len(q) = Len(p) /\ \A i \in 1 .. Len(q) : q[i] = p[i]
  <2>1. Len(q) = Len(p)
    BY <1>1, <1>4, <1>6
  <2>2. ASSUME NEW i \in 1 .. Len(p) PROVE q[i] = p[i]
    <3>1. CASE i = Len(p)
      BY <1>1, <1>4, <1>5, <1>6, <3>1
    <3>2. CASE i # Len(p)
      BY <1>1, <1>4, <1>6, <3>2
    <3>3. QED BY <3>1, <3>2
  <2>3. QED BY <2>1, <2>2
<1>8. q = p
  BY <1>6, <1>7, SeqEqual DEF Path
<1>9. QED BY <1>2, <1>3, <1>4, <1>5, <1>8 DEF q

LEMMA AppendFacts ==
  ASSUME NEW q \in Path, NEW c \in Names
  PROVE  /\ Append(q, c) \in Path /\ Len(Append(q, c)) = Len(q) + 1 /\ Append(q, c) # <<>>
         /\ \A n \in 0 .. Len(q) : Upto(Append(q, c), n) = Upto(q, n)
         /\ Front(Append(q, c)) = q /\ Last(Append(q, c)) = c
<1> DEFINE p == Append(q, c)
<1>1. Len(q) \in Nat
  BY DEF Path
<1>2. /\ p \in Path /\ Len(p) = Len(q) + 1 /\ p[Len(q) + 1] = c
      /\ \A i \in 1 .. Len(q) : p[i] = q[i]
  <2>1. /\ p \in Seq(Names) /\ Len(p) = Len(q) + 1
        /\ \A i \in 1 .. Len(q) + 1 : p[i] = IF i <= Len(q) THEN q[i] ELSE c
    BY DEF Path
  <2>2. Len(q) + 1 \in 1 .. Len(q) + 1 /\ ~(Len(q) + 1 <= Len(q))
        /\ \A i \in 1 .. Len(q) : i \in 1 .. Len(q) + 1 /\ i <= Len(q)
    BY <1>1
  <2>3. QED BY <2>1, <2>2 DEF Path
<1> HIDE DEF p
<1>3. p # <<>>
  BY <1>1, <1>2, UptoEnds
<1>4. ASSUME NEW n \in 0 .. Len(q) PROVE Upto(p, n) = Upto(q, n)
  <2>1. n \in 0 .. Len(p) /\ \A i \in 1 .. n : i \in 1 .. Len(q)
    BY <1>1, <1>2
  <2>2. /\ Upto(p, n) \in Path /\ Len(Upto(p, n)) = n
        /\ \A i \in 1 .. n : Upto(p, n)[i] = p[i]
    BY <1>2, <2>1, UptoFacts
  <2>3. /\ Upto(q, n) \in Path /\ Len(Upto(q, n)) = n
        /\ \A i \in 1 .. n : Upto(q, n)[i] = q[i]
    BY UptoFacts
  <2>4. \A i \in 1 .. n : Upto(p, n)[i] = Upto(q, n)[i]
    BY <1>2, <2>1, <2>2, <2>3
  <2>5. QED BY <2>2, <2>3, <2>4, SeqEqual DEF Path
<1>5. Front(p) = q
  <2>1. Front(p) = Upto(p, Len(p) - 1) /\ Len(p) - 1 = Len(q) /\ Len(q) \in 0 .. Len(q)
    BY <1>1, <1>2, <1>3, FrontFacts
  <2>2. QED BY <1>4, <2>1, UptoEnds
<1>6. Last(p) = c
  BY <1>2 DEF Last
<1>7. QED BY <1>2, <1>3, <1>4, <1>5, <1>6 DEF p

LEMMA ConcatFacts ==
  ASSUME NEW s \in Path, NEW t \in Path
  PROVE  /\ s \o t \in Path /\ Len(s \o t) = Len(s) + Len(t)
         /\ \A n \in 0 .. Len(s) : Upto(s \o t, n) = Upto(s, n)
         /\ \A i \in 1 .. Len(t) : (s \o t)[Len(s) + i] = t[i]
<1> DEFINE p == s \o t
<1>1. Len(s) \in Nat /\ Len(t) \in Nat
  BY DEF Path
<1>2. /\ p \in Path /\ Len(p) = Len(s) + Len(t)
      /\ \A i \in 1 .. Len(s) + Len(t) : p[i] = IF i <= Len(s) THEN s[i] ELSE t[i - Len(s)]
  BY ConcatProperties DEF Path
<1> HIDE DEF p
<1>3. ASSUME NEW n \in 0 .. Len(s) PROVE Upto(p, n) = Upto(s, n)
  <2>1. n \in 0 .. Len(p) /\ \A i \in 1 .. n : i \in 1 .. Len(s) + Len(t) /\ i <= Len(s)
    BY <1>1, <1>2
  <2>2. /\ Upto(p, n) \in Path /\ Len(Upto(p, n)) = n
        /\ \A i \in 1 .. n : Upto(p, n)[i] = p[i]
    BY <1>2, <2>1, UptoFacts
  <2>3. /\ Upto(s, n) \in Path /\ Len(Upto(s, n)) = n
        /\ \A i \in 1 .. n : Upto(s, n)[i] = s[i]
    BY UptoFacts
  <2>4. \A i \in 1 .. n : Upto(p, n)[i] = Upto(s, n)[i]
    BY <1>2, <2>1, <2>2, <2>3
  <2>5. QED BY <2>2, <2>3, <2>4, SeqEqual DEF Path
<1>4. ASSUME NEW i \in 1 .. Len(t) PROVE p[Len(s) + i] = t[i]
  <2>1. Len(s) + i \in 1 .. Len(s) + Len(t) /\ ~(Len(s) + i <= Len(s)) /\ Len(s) + i - Len(s) = i
    BY <1>1
  <2>2. QED BY <1>2, <2>1
<1>5. QED BY <1>2, <1>3, <1>4 DEF p

LEMMA PrefixIsUpto ==
  ASSUME NEW s \in Path, NEW t \in Path
  PROVE  IsPrefix(s, t) <=> (Len(s) <= Len(t) /\ Upto(t, Len(s)) = s)
BY UptoEnds DEF IsPrefix, Upto

LEMMA PrefixFacts ==
  ASSUME NEW p \in Path
  PROVE  /\ IsPrefix(p, p)
         /\ \A n \in 0 .. Len(p) : IsPrefix(Upto(p, n), p)
         /\ p # <<>> => IsPrefix(Front(p), p)
         /\ \A q \in Path : IsPrefix(p, p \o q)
<1>1. \A n \in 0 .. Len(p) : IsPrefix(Upto(p, n), p)
  <2>1. ASSUME NEW n \in 0 .. Len(p) PROVE IsPrefix(Upto(p, n), p)
    <3>1. Upto(p, n) \in Path /\ Len(Upto(p, n)) = n /\ n <= Len(p)
      BY UptoFacts, UptoEnds
    <3>2. QED BY <3>1, PrefixIsUpto
  <2>2. QED BY <2>1
<1>2. IsPrefix(p, p)
  BY <1>1, UptoEnds
<1>3. p # <<>> => IsPrefix(Front(p), p)
  BY <1>1, FrontFacts
<1>4. ASSUME NEW q \in Path PROVE IsPrefix(p, p \o q)
  <2>1. Len(p) \in Nat /\ Len(q) \in Nat /\ Len(p) \in 0 .. Len(p)
    BY UptoEnds
  <2>2. /\ p \o q \in Path /\ Len(p \o q) = Len(p) + Len(q)
        /\ Upto(p \o q, Len(p)) = Upto(p, Len(p))
    BY <2>1, ConcatFacts
  <2>3. Upto(p, Len(p)) = p /\ Len(p) <= Len(p \o q)
    BY <2>1, <2>2, UptoEnds
  <2>4. QED BY <2>2, <2>3, PrefixIsUpto
<1>5. QED BY <1>1, <1>2, <1>3, <1>4

LEMMA PrefixTransitive ==
  ASSUME NEW a \in Path, NEW b \in Path, NEW c \in Path, IsPrefix(a, b), IsPrefix(b, c)
  PROVE  IsPrefix(a, c)
<1>1. /\ Len(a) <= Len(b) /\ Upto(b, Len(a)) = a /\ Len(b) <= Len(c) /\ Upto(c, Len(b)) = b
  BY PrefixIsUpto
<1>2. Len(a) \in Nat /\ Len(b) \in Nat /\ Len(c) \in Nat
  BY UptoEnds
<1>3. Len(b) \in 0 .. Len(c) /\ Len(a) \in 0 .. Len(b) /\ Len(a) <= Len(c)
  BY <1>1, <1>2
<1>4. Upto(Upto(c, Len(b)), Len(a)) = Upto(c, Len(a))
  BY <1>3, UptoFacts
<1>5. QED BY <1>1, <1>3, <1>4, PrefixIsUpto

\* Two beginnings of one path: the shorter is a beginning of the other.
LEMMA PrefixesRelated ==
  ASSUME NEW a \in Path, NEW b \in Path, NEW c \in Path, IsPrefix(a, c), IsPrefix(b, c)
  PROVE  IsPrefix(a, b) \/ IsPrefix(b, a)
<1>1. /\ Len(a) <= Len(c) /\ Upto(c, Len(a)) = a /\ Len(b) <= Len(c) /\ Upto(c, Len(b)) = b
  BY PrefixIsUpto
<1>2. Len(a) \in Nat /\ Len(b) \in Nat /\ Len(c) \in Nat
  BY UptoEnds
<1>3. Len(b) \in 0 .. Len(c) /\ Len(a) \in 0 .. Len(c)
  BY <1>1, <1>2
<1>4. CASE Len(a) <= Len(b)
  <2>1. Len(a) \in 0 .. Len(b)
    BY <1>2, <1>4
  <2>2. Upto(Upto(c, Len(b)), Len(a)) = Upto(c, Len(a))
    BY <1>3, <2>1, UptoFacts
  <2>3. QED BY <1>1, <1>4, <2>2, PrefixIsUpto
<1>5. CASE Len(b) <= Len(a)
  <2>1. Len(b) \in 0 .. Len(a)
    BY <1>2, <1>5
  <2>2. Upto(Upto(c, Len(a)), Len(b)) = Upto(c, Len(b))
    BY <1>3, <2>1, UptoFacts
  <2>3. QED BY <1>1, <1>5, <2>2, PrefixIsUpto
<1>6. QED BY <1>2, <1>4, <1>5

-----------------------------------------------------------------------------
(* Trees and the links on a path.                                          *)

IsLink(f, p) == p \in DOMAIN f /\ f[p].type = "link"
IsDir(f, p) == p \in DOMAIN f /\ f[p].type = "dir"

LEMMA TreeFacts ==
  ASSUME NEW f, IsTree(f)
  PROVE  /\ DOMAIN f \subseteq Path /\ IsDir(f, <<>>)
         /\ \A p \in DOMAIN f : f[p] \in Node /\ f[p].to \in Path
         /\ \A p \in DOMAIN f : \A n \in 0 .. Len(p) - 1 : IsDir(f, Upto(p, n))
<1>1. f \in [DOMAIN f -> Node]
  BY DEF IsTree
<1>2. \A p \in DOMAIN f : f[p] \in Node
  BY <1>1
<1>3. \A p \in DOMAIN f : f[p].to \in Path
  BY <1>2 DEF Node, Path, Names
<1>4. QED BY <1>2, <1>3 DEF IsTree, Path, Names, IsDir

\* All that lies above a node is a directory.
LEMMA AboveIsDir ==
  ASSUME NEW f, IsTree(f), NEW p \in DOMAIN f, NEW q \in Path, IsPrefix(q, p), q # p
  PROVE  IsDir(f, q)
<1>1. p \in Path /\ \A n \in 0 .. Len(p) - 1 : IsDir(f, Upto(p, n))
  BY TreeFacts
<1>2. Len(q) <= Len(p) /\ Upto(p, Len(q)) = q /\ Len(q) \in Nat /\ Len(p) \in Nat
  BY <1>1, PrefixIsUpto, UptoEnds
<1>3. Len(q) # Len(p)
  BY <1>1, <1>2, UptoEnds
<1>4. Len(q) \in 0 .. Len(p) - 1
  BY <1>2, <1>3
<1>5. QED BY <1>1, <1>2, <1>4

\* A path has one link on it at most: what lies below a link is no node.
LEMMA OneLink ==
  ASSUME NEW f, IsTree(f), NEW p \in Path, NEW n \in LinksOn(f, p)
  PROVE  /\ n \in 1 .. Len(p) /\ IsLink(f, Upto(p, n))
         /\ LinksOn(f, p) = {n} /\ Min(LinksOn(f, p)) = n
<1>1. n \in 1 .. Len(p) /\ IsLink(f, Upto(p, n)) /\ Len(p) \in Nat
  BY UptoEnds DEF LinksOn, IsLink
<1>2. ASSUME NEW m \in LinksOn(f, p), NEW k \in LinksOn(f, p), k < m PROVE FALSE
  <2>1. m \in 1 .. Len(p) /\ k \in 1 .. Len(p) /\ IsLink(f, Upto(p, m)) /\ IsLink(f, Upto(p, k))
    BY DEF LinksOn, IsLink
  <2>2. m \in 0 .. Len(p) /\ k \in 0 .. m /\ k \in 0 .. m - 1
    BY <1>1, <1>2, <2>1
  <2>3. Upto(p, m) \in Path /\ Len(Upto(p, m)) = m /\ Upto(Upto(p, m), k) = Upto(p, k)
    BY <2>2, UptoFacts
  <2>4. IsDir(f, Upto(p, k))
    BY <2>1, <2>2, <2>3, TreeFacts DEF IsLink
  <2>5. QED BY <2>1, <2>4 DEF IsLink, IsDir
<1>3. \A m \in LinksOn(f, p) : m = n
  <2>1. \A m \in LinksOn(f, p) : m \in Int
    BY DEF LinksOn
  <2>2. QED BY <1>2, <2>1
<1>4. LinksOn(f, p) = {n}
  BY <1>3
<1>5. Min({n}) = n
  BY <1>1 DEF Min
<1>6. QED BY <1>1, <1>4, <1>5

LEMMA JumpFacts ==
  ASSUME NEW f, IsTree(f), NEW p \in Path, NEW n \in LinksOn(f, p)
  PROVE  LET to == f[Upto(p, n)].to IN
         /\ to \in Path /\ SubSeq(p, n + 1, Len(p)) \in Path
         /\ Jump(f, p) = to \o SubSeq(p, n + 1, Len(p))
         /\ Jump(f, p) \in Path /\ IsPrefix(to, Jump(f, p))
<1>1. /\ n \in 1 .. Len(p) /\ IsLink(f, Upto(p, n)) /\ Min(LinksOn(f, p)) = n
      /\ Len(p) \in Nat
  BY OneLink, UptoEnds
<1>2. f[Upto(p, n)].to \in Path
  BY <1>1, TreeFacts DEF IsLink
<1>3. Jump(f, p) = f[Upto(p, n)].to \o SubSeq(p, n + 1, Len(p))
  BY <1>1 DEF Jump
<1>4. SubSeq(p, n + 1, Len(p)) \in Path
  <2>1. \A i \in n + 1 .. Len(p) : p[i] \in Names
    BY <1>1 DEF Path
  <2>2. QED BY <1>1, <2>1, SubSeqProperties DEF Path
<1>5. QED BY <1>2, <1>3, <1>4, ConcatFacts, PrefixFacts

LEMMA StepFacts ==
  ASSUME NEW f, IsTree(f)
  PROVE  /\ Step(f) \in [Path -> Path]
         /\ \A p \in Path : /\ LinksOn(f, p) = {} => Step(f)[p] = p
                            /\ LinksOn(f, p) # {} => Step(f)[p] = Jump(f, p)
<1>1. Step(f) = [p \in Path |-> IF LinksOn(f, p) = {} THEN p ELSE Jump(f, p)]
  BY DEF Step, Path, Names
<1>2. \A p \in Path : LinksOn(f, p) # {} => Jump(f, p) \in Path
  BY JumpFacts
<1>3. QED BY <1>1, <1>2

-----------------------------------------------------------------------------
(* Following.                                                              *)

\* w is the way from p, one link after the other.
Way(f, p, w) ==
  /\ w \in [0 .. MaxHops -> Path]
  /\ w[0] = p /\ \A h \in 1 .. MaxHops : w[h] = Step(f)[w[h - 1]]

LEMMA FollowIsWay ==
  ASSUME NEW f, IsTree(f), NEW p \in Path
  PROVE  \E w : Way(f, p, w) /\ Follow(f, p) = w[MaxHops]
<1> DEFINE S == Path
           step == [x \in (1 .. MaxHops) \X S |-> Step(f)[x[2]]]
           IsWalk(w) == w = [hops \in 0 .. MaxHops |->
                               IF hops = 0 THEN p ELSE Step(f)[w[hops - 1]]]
<1>1. MaxHops \in Nat
  BY HopsOK
<1>2. step \in Steps(MaxHops, S)
  <2>1. \A x \in (1 .. MaxHops) \X S : Step(f)[x[2]] \in S
    BY StepFacts
  <2>2. QED BY <2>1 DEF Steps
<1>3. PICK g \in [0 .. MaxHops -> S] : Lists(g, MaxHops, p, step)
  <2> HIDE DEF step
  <2>1. QED BY <1>1, <1>2, Repeated
<1>4. /\ g[0] = p /\ \A h \in 1 .. MaxHops : g[h] = Step(f)[g[h - 1]]
  <2>1. g[0] = p /\ \A h \in 1 .. MaxHops : g[h] = step[<<h, g[h - 1]>>]
    BY <1>3 DEF Lists
  <2>2. ASSUME NEW h \in 1 .. MaxHops PROVE step[<<h, g[h - 1]>>] = Step(f)[g[h - 1]]
    <3>1. h - 1 \in 0 .. MaxHops
      BY <1>1
    <3>2. <<h, g[h - 1]>> \in (1 .. MaxHops) \X S
      BY <1>3, <3>1
    <3>3. QED BY <3>2
  <2>3. QED BY <2>1, <2>2
<1>5. IsWalk(g)
  <2>1. \A h \in 0 .. MaxHops : h # 0 => h \in 1 .. MaxHops
    BY <1>1
  <2>2. \A h \in 0 .. MaxHops : g[h] = IF h = 0 THEN p ELSE Step(f)[g[h - 1]]
    BY <1>4, <2>1
  <2>3. QED BY <1>3, <2>2
<1> DEFINE w == CHOOSE x : IsWalk(x)
<1>6. IsWalk(w)
  <2> HIDE DEF IsWalk
  <2>1. QED BY <1>5
<1>7. Follow(f, p) = w[MaxHops]
  BY DEF Follow
<1> HIDE DEF w
<1>8. w[0] = p /\ \A h \in 1 .. MaxHops : w[h] = Step(f)[w[h - 1]]
  <2>1. \A h \in 0 .. MaxHops : w[h] = IF h = 0 THEN p ELSE Step(f)[w[h - 1]]
    BY <1>6
  <2>2. 0 \in 0 .. MaxHops /\ \A h \in 1 .. MaxHops : h \in 0 .. MaxHops /\ h # 0
    BY <1>1
  <2>3. QED BY <2>1, <2>2
<1>9. w \in [0 .. MaxHops -> Path]
  <2> DEFINE In == {h \in 0 .. MaxHops : w[h] \in Path}
  <2>1. 0 \in In
    BY <1>1, <1>8
  <2>2. ASSUME NEW h \in 0 .. MaxHops - 1, h \in In PROVE h + 1 \in In
    <3>1. h + 1 \in 1 .. MaxHops /\ h + 1 \in 0 .. MaxHops /\ h + 1 - 1 = h
      BY <1>1
    <3>2. w[h + 1] = Step(f)[w[h]] /\ w[h] \in Path
      BY <1>8, <2>2, <3>1
    <3>3. QED BY <3>1, <3>2, StepFacts
  <2>3. \A h \in 0 .. MaxHops : h \in In
    <3> HIDE DEF In
    <3>1. QED BY <1>1, <2>1, <2>2, Induction
  <2>4. QED BY <1>6, <2>3
<1>10. QED BY <1>7, <1>8, <1>9 DEF Way

\* What holds of a path, and of the next when it holds of one, holds of where
\* the path leads.
LEMMA FollowStays ==
  ASSUME NEW f, IsTree(f), NEW p \in Path, NEW P, p \in P,
         \A q \in P \cap Path : Step(f)[q] \in P
  PROVE  Follow(f, p) \in P \cap Path
<1>1. PICK w : Way(f, p, w) /\ Follow(f, p) = w[MaxHops]
  BY FollowIsWay
<1>2. MaxHops \in Nat
  BY HopsOK
<1> DEFINE In == {h \in 0 .. MaxHops : w[h] \in P \cap Path}
<1>3. 0 \in In
  BY <1>1, <1>2 DEF Way
<1>4. ASSUME NEW h \in 0 .. MaxHops - 1, h \in In PROVE h + 1 \in In
  <2>1. h + 1 \in 1 .. MaxHops /\ h + 1 \in 0 .. MaxHops /\ h + 1 - 1 = h
    BY <1>2
  <2>2. w[h + 1] = Step(f)[w[h]] /\ w[h + 1] \in Path
    BY <1>1, <2>1 DEF Way
  <2>3. QED BY <1>4, <2>1, <2>2
<1>5. MaxHops \in In
  <2> HIDE DEF In
  <2>1. MaxHops \in 0 .. MaxHops
    BY <1>2
  <2>2. QED BY <1>2, <1>3, <1>4, <2>1, Induction
<1>6. QED BY <1>1, <1>5

LEMMA FollowFacts ==
  ASSUME NEW f, IsTree(f), NEW p \in Path
  PROVE  /\ Follow(f, p) \in Path
         /\ LinksOn(f, p) = {} => Follow(f, p) = p
<1>1. Follow(f, p) \in Path
  BY StepFacts, FollowStays
<1>2. ASSUME LinksOn(f, p) = {} PROVE Follow(f, p) = p
  <2> DEFINE P == {p}
  <2>1. p \in P /\ \A q \in P \cap Path : Step(f)[q] \in P
    BY <1>2, StepFacts
  <2>2. Follow(f, p) \in P \cap Path
    <3> HIDE DEF P
    <3>1. QED BY <2>1, FollowStays
  <2>3. QED BY <2>2
<1>3. QED BY <1>1, <1>2

\* A node that is no link leads to itself.
LEMMA NodeFollows ==
  ASSUME NEW f, IsTree(f), NEW p \in DOMAIN f, f[p].type # "link"
  PROVE  LinksOn(f, p) = {} /\ Follow(f, p) = p
<1>1. p \in Path /\ \A n \in 0 .. Len(p) - 1 : IsDir(f, Upto(p, n))
  BY TreeFacts
<1>2. Len(p) \in Nat /\ Upto(p, Len(p)) = p
  BY <1>1, UptoEnds
<1>3. ASSUME NEW n \in LinksOn(f, p) PROVE FALSE
  <2>1. n \in 1 .. Len(p) /\ IsLink(f, Upto(p, n))
    BY DEF LinksOn, IsLink
  <2>2. CASE n = Len(p)
    BY <1>2, <2>1, <2>2 DEF IsLink
  <2>3. CASE n # Len(p)
    <3>1. n \in 0 .. Len(p) - 1
      BY <1>2, <2>1, <2>3
    <3>2. QED BY <1>1, <2>1, <3>1 DEF IsLink, IsDir
  <2>4. QED BY <2>2, <2>3
<1>4. QED BY <1>1, <1>3, FollowFacts

\* A path leads to itself or to where some link says, or below that.
LEMMA FollowStarts ==
  ASSUME NEW f, IsTree(f), NEW p \in Path
  PROVE  \/ Follow(f, p) = p
         \/ \E l \in DOMAIN f : IsLink(f, l) /\ IsPrefix(f[l].to, Follow(f, p))
<1> DEFINE P == {q \in Path : q = p \/ \E l \in DOMAIN f : IsLink(f, l) /\ IsPrefix(f[l].to, q)}
<1>1. ASSUME NEW q \in P \cap Path PROVE Step(f)[q] \in P
  <2>1. CASE LinksOn(f, q) = {}
    BY <2>1, StepFacts
  <2>2. CASE LinksOn(f, q) # {}
    <3>1. PICK n \in LinksOn(f, q) : TRUE
      BY <2>2
    <3>2. IsLink(f, Upto(q, n))
      BY OneLink
    <3>3. Jump(f, q) \in Path /\ IsPrefix(f[Upto(q, n)].to, Jump(f, q))
      BY JumpFacts
    <3>4. Step(f)[q] = Jump(f, q)
      BY <2>2, StepFacts
    <3>5. QED BY <3>2, <3>3, <3>4 DEF IsLink
  <2>3. QED BY <2>1, <2>2
<1>2. Follow(f, p) \in P \cap Path
  <2>1. p \in P
    OBVIOUS
  <2> HIDE DEF P
  <2>2. QED BY <1>1, <2>1, FollowStays
<1>3. QED BY <1>2

\* The way of a path is known by its steps.
LEMMA WayIsFollow ==
  ASSUME NEW f, IsTree(f), NEW p \in Path, NEW w, Way(f, p, w)
  PROVE  Follow(f, p) = w[MaxHops]
<1>1. PICK v : Way(f, p, v) /\ Follow(f, p) = v[MaxHops]
  BY FollowIsWay
<1>2. MaxHops \in Nat
  BY HopsOK
<1> DEFINE Same == {h \in 0 .. MaxHops : w[h] = v[h]}
<1>3. 0 \in Same
  BY <1>1, <1>2 DEF Way
<1>4. ASSUME NEW h \in 0 .. MaxHops - 1, h \in Same PROVE h + 1 \in Same
  <2>1. h + 1 \in 1 .. MaxHops /\ h + 1 \in 0 .. MaxHops /\ h + 1 - 1 = h
    BY <1>2
  <2>2. w[h + 1] = Step(f)[w[h]] /\ v[h + 1] = Step(f)[v[h]]
    BY <1>1, <2>1 DEF Way
  <2>3. QED BY <1>4, <2>1, <2>2
<1>5. MaxHops \in Same
  <2> HIDE DEF Same
  <2>1. MaxHops \in 0 .. MaxHops
    BY <1>2
  <2>2. QED BY <1>2, <1>3, <1>4, <2>1, Induction
<1>6. QED BY <1>1, <1>5

\* Once there is no link on it, the way stays.
LEMMA WayRests ==
  ASSUME NEW f, IsTree(f), NEW p \in Path, NEW w, Way(f, p, w),
         NEW h \in 0 .. MaxHops, LinksOn(f, w[h]) = {}
  PROVE  w[MaxHops] = w[h]
<1>1. MaxHops \in Nat
  BY HopsOK
<1> DEFINE rest == MaxHops - h
           In == {k \in 0 .. rest : w[h + k] = w[h]}
<1>2. rest \in Nat /\ h + rest = MaxHops
  BY <1>1
<1>3. 0 \in In
  BY <1>1
<1>4. ASSUME NEW k \in 0 .. rest - 1, k \in In PROVE k + 1 \in In
  <2>1. /\ k + 1 \in 0 .. rest /\ h + k + 1 \in 1 .. MaxHops
        /\ h + k + 1 - 1 = h + k /\ h + (k + 1) = h + k + 1
    BY <1>1
  <2>2. w[h + k + 1] = Step(f)[w[h + k]]
    BY <2>1 DEF Way
  <2>3. w[h] \in Path
    BY DEF Way
  <2>4. Step(f)[w[h]] = w[h]
    BY <2>3, StepFacts
  <2>5. QED BY <1>4, <2>1, <2>2, <2>4
<1>5. rest \in In
  <2>1. rest \in 0 .. rest
    BY <1>2
  <2> HIDE DEF In, rest
  <2>2. QED BY <1>2, <1>3, <1>4, <2>1, Induction
<1>6. QED BY <1>2, <1>5

\* The links on a path with one name more.
LEMMA LinksBelow ==
  ASSUME NEW f, IsTree(f), NEW q \in Path, NEW c \in Names
  PROVE  /\ \A n \in LinksOn(f, q) : n \in LinksOn(f, Append(q, c))
         /\ LinksOn(f, q) # {} => Jump(f, Append(q, c)) = Append(Jump(f, q), c)
         /\ LinksOn(f, q) = {} /\ LinksOn(f, Append(q, c)) # {} => IsLink(f, Append(q, c))
<1> DEFINE p == Append(q, c)
<1>1. /\ p \in Path /\ Len(p) = Len(q) + 1 /\ Len(q) \in Nat
      /\ \A n \in 0 .. Len(q) : Upto(p, n) = Upto(q, n)
      /\ Upto(p, Len(p)) = p
  BY AppendFacts, UptoEnds
<1>2. <<c>> \in Path
  BY DEF Path
<1> HIDE DEF p
<1>3. \A n \in LinksOn(f, q) : n \in LinksOn(f, p)
  <2>1. ASSUME NEW n \in LinksOn(f, q) PROVE n \in LinksOn(f, p)
    <3>1. n \in 1 .. Len(q) /\ n \in 1 .. Len(p) /\ n \in 0 .. Len(q)
      BY <1>1 DEF LinksOn
    <3>2. Upto(p, n) = Upto(q, n)
      BY <1>1, <3>1
    <3>3. QED BY <3>1, <3>2 DEF LinksOn
  <2>2. QED BY <2>1
<1>4. ASSUME LinksOn(f, q) # {} PROVE Jump(f, p) = Append(Jump(f, q), c)
  <2>1. PICK n \in LinksOn(f, q) : n \in LinksOn(f, p)
    BY <1>3, <1>4
  <2>2. n \in 1 .. Len(q) /\ n \in 0 .. Len(q)
    BY OneLink, <1>1
  <2> DEFINE to == f[Upto(q, n)].to
             rest == SubSeq(q, n + 1, Len(q))
  <2>3. Upto(p, n) = Upto(q, n)
    BY <1>1, <2>2
  <2>4. to \in Path /\ rest \in Path /\ Jump(f, q) = to \o rest
    BY JumpFacts
  <2>5. Jump(f, p) = to \o SubSeq(p, n + 1, Len(p))
    BY <1>1, <2>1, <2>3, JumpFacts
  <2>6. SubSeq(p, n + 1, Len(p)) = Append(rest, c)
    <3>1. \A i \in n + 1 .. Len(p) : p[i] \in Names
      BY <1>1, <2>2 DEF Path
    <3>2. \A i \in n + 1 .. Len(q) : q[i] \in Names
      BY <1>1, <2>2 DEF Path
    <3> DEFINE a == SubSeq(p, n + 1, Len(p))
               b == Append(rest, c)
    <3>3. /\ a \in Seq(Names)
          /\ Len(a) = IF n + 1 <= Len(p) THEN Len(p) - (n + 1) + 1 ELSE 0
          /\ \A i \in 1 .. Len(p) - (n + 1) + 1 : a[i] = p[n + 1 + i - 1]
      BY <1>1, <2>2, <3>1, SubSeqProperties
    <3>4. /\ rest \in Seq(Names)
          /\ Len(rest) = IF n + 1 <= Len(q) THEN Len(q) - (n + 1) + 1 ELSE 0
          /\ \A i \in 1 .. Len(q) - (n + 1) + 1 : rest[i] = q[n + 1 + i - 1]
      BY <1>1, <2>2, <3>2, SubSeqProperties
    <3> HIDE DEF a, rest
    <3>5. Len(a) = Len(q) - n + 1 /\ \A i \in 1 .. Len(q) - n + 1 : a[i] = p[n + i]
      <4>1. Len(p) - (n + 1) + 1 = Len(q) - n + 1 /\ n + 1 <= Len(p)
        BY <1>1, <2>2
      <4>2. ASSUME NEW i \in 1 .. Len(q) - n + 1 PROVE a[i] = p[n + i]
        <5>1. i \in 1 .. Len(p) - (n + 1) + 1
          BY <4>1
        <5>2. n + 1 + i - 1 = n + i
          BY <1>1, <2>2
        <5>3. QED BY <3>3, <5>1, <5>2
      <4>3. QED BY <3>3, <4>1, <4>2
    <3>6. Len(rest) = Len(q) - n /\ \A i \in 1 .. Len(q) - n : rest[i] = q[n + i]
      <4>1. Len(q) - (n + 1) + 1 = Len(q) - n /\ (n + 1 <= Len(q) \/ Len(q) - n = 0)
        BY <1>1, <2>2
      <4>2. ASSUME NEW i \in 1 .. Len(q) - n PROVE rest[i] = q[n + i]
        <5>1. i \in 1 .. Len(q) - (n + 1) + 1
          BY <4>1
        <5>2. n + 1 + i - 1 = n + i
          BY <1>1, <2>2
        <5>3. QED BY <3>4, <5>1, <5>2
      <4>3. QED BY <3>4, <4>1, <4>2
    <3>7. /\ b \in Seq(Names) /\ Len(b) = Len(rest) + 1
          /\ \A i \in 1 .. Len(rest) + 1 : b[i] = IF i <= Len(rest) THEN rest[i] ELSE c
      BY <3>4
    <3> HIDE DEF b
    <3>8. \A i \in 1 .. Len(q) + 1 : p[i] = IF i <= Len(q) THEN q[i] ELSE c
      BY <1>1 DEF p, Path
    <3>9. ASSUME NEW i \in 1 .. Len(q) - n + 1 PROVE a[i] = b[i]
      <4>1. /\ n + i \in 1 .. Len(q) + 1
            /\ n + i <= Len(q) <=> i <= Len(q) - n
            /\ i <= Len(q) - n => i \in 1 .. Len(q) - n
            /\ Len(q) - n \in Int
        BY <1>1, <2>2
      <4>2. a[i] = IF n + i <= Len(q) THEN q[n + i] ELSE c
        BY <3>5, <3>8, <4>1
      <4>3. b[i] = IF i <= Len(q) - n THEN rest[i] ELSE c
        BY <3>6, <3>7
      <4>4. QED BY <3>6, <4>1, <4>2, <4>3
    <3>10. a = b
      BY <3>3, <3>5, <3>6, <3>7, <3>9, SeqEqual
    <3>11. QED BY <3>10 DEF a, b
  <2>7. to \o Append(rest, c) = Append(to \o rest, c)
    <3> HIDE DEF to, rest
    <3>1. /\ Append(rest, c) = rest \o <<c>> /\ to \o rest \in Path
          /\ Append(to \o rest, c) = (to \o rest) \o <<c>>
      BY <2>4, ConcatFacts, AppendIsConcat DEF Path
    <3>2. (to \o rest) \o <<c>> = to \o (rest \o <<c>>)
      BY <1>2, <2>4, ConcatAssociative DEF Path
    <3>3. QED BY <3>1, <3>2
  <2>8. QED BY <2>4, <2>5, <2>6, <2>7
<1>5. ASSUME LinksOn(f, q) = {}, NEW n \in LinksOn(f, p) PROVE IsLink(f, p)
  <2>1. n \in 1 .. Len(p) /\ IsLink(f, Upto(p, n))
    BY <1>1, OneLink
  <2>2. n = Len(p)
    <3> SUFFICES ASSUME n # Len(p) PROVE FALSE
      OBVIOUS
    <3>1. n \in 1 .. Len(q) /\ n \in 0 .. Len(q)
      BY <1>1, <2>1
    <3>2. Upto(p, n) = Upto(q, n)
      BY <1>1, <3>1
    <3>3. n \in LinksOn(f, q)
      BY <2>1, <3>1, <3>2 DEF LinksOn, IsLink
    <3>4. QED BY <1>5, <3>3
  <2>3. QED BY <1>1, <2>1, <2>2
<1>6. QED BY <1>3, <1>4, <1>5 DEF p

\* A path leads to the place of its name, unless there is a link.
LEMMA FollowPlace ==
  ASSUME NEW f, IsTree(f), NEW g \in Path, g # <<>>
  PROVE  /\ Place(f, g) \in Path /\ Place(f, g) # <<>>
         /\ Front(Place(f, g)) = Follow(f, Front(g))
         /\ Follow(f, g) = Place(f, g) \/ IsLink(f, Place(f, g))
<1> DEFINE q == Front(g)
           c == Last(g)
           place == Append(Follow(f, q), c)
<1>1. q \in Path /\ c \in Names /\ g = Append(q, c)
  BY FrontFacts
<1> HIDE DEF q, c
<1>2. Follow(f, q) \in Path
  BY <1>1, FollowFacts
<1>3. place \in Path /\ place # <<>> /\ Front(place) = Follow(f, q)
  BY <1>1, <1>2, AppendFacts
<1>4. ASSUME ~IsLink(f, place) PROVE Follow(f, g) = place
  <2>1. PICK v : Way(f, q, v) /\ Follow(f, q) = v[MaxHops]
    BY <1>1, FollowIsWay
  <2>2. PICK w : Way(f, g, w) /\ Follow(f, g) = w[MaxHops]
    BY FollowIsWay
  <2>3. MaxHops \in Nat
    BY HopsOK
  <2> DEFINE Beside == {h \in 0 .. MaxHops : w[h] = Append(v[h], c)}
  <2>4. 0 \in Beside
    BY <1>1, <2>1, <2>2, <2>3 DEF Way
  <2>5. ASSUME NEW h \in 0 .. MaxHops - 1, h \in Beside PROVE h + 1 \in Beside
    <3>1. h \in 0 .. MaxHops /\ h + 1 \in 1 .. MaxHops /\ h + 1 \in 0 .. MaxHops /\ h + 1 - 1 = h
      BY <2>3
    <3>2. /\ v[h] \in Path /\ w[h] \in Path /\ w[h] = Append(v[h], c)
          /\ v[h + 1] = Step(f)[v[h]] /\ w[h + 1] = Step(f)[w[h]]
      BY <2>1, <2>2, <2>5, <3>1 DEF Way
    <3>3. CASE LinksOn(f, v[h]) # {}
      <4>1. LinksOn(f, w[h]) # {} /\ Jump(f, w[h]) = Append(Jump(f, v[h]), c)
        BY <1>1, <3>2, <3>3, LinksBelow
      <4>2. QED BY <3>1, <3>2, <3>3, <4>1, StepFacts
    <3>4. CASE LinksOn(f, v[h]) = {}
      <4>1. v[h] = Follow(f, q)
        BY <1>1, <2>1, <3>1, <3>4, WayRests
      <4>2. LinksOn(f, w[h]) = {}
        BY <1>1, <1>4, <3>2, <3>4, <4>1, LinksBelow
      <4>3. QED BY <3>1, <3>2, <3>4, <4>2, StepFacts
    <3>5. QED BY <3>3, <3>4
  <2>6. MaxHops \in Beside
    <3> HIDE DEF Beside
    <3>1. MaxHops \in 0 .. MaxHops
      BY <2>3
    <3>2. QED BY <2>3, <2>4, <2>5, <3>1, Induction
  <2>7. QED BY <2>1, <2>2, <2>6
<1>5. Place(f, g) = place
  BY DEF Place, q, c
<1>6. QED BY <1>3, <1>4, <1>5 DEF q

-----------------------------------------------------------------------------
(* Trees with the same links.                                              *)

SameLink(f, g, p) ==
  /\ IsLink(f, p) <=> IsLink(g, p)
  /\ IsLink(f, p) => f[p].to = g[p].to
SameLinks(f, g) == \A p \in Path : SameLink(f, g, p)

LEMMA SameStep ==
  ASSUME NEW f, NEW g, IsTree(f), IsTree(g), NEW p \in Path,
         \A n \in 1 .. Len(p) : SameLink(f, g, Upto(p, n))
  PROVE  Step(f)[p] = Step(g)[p]
<1>1. LinksOn(f, p) = LinksOn(g, p)
  BY DEF LinksOn, SameLink, IsLink
<1>2. CASE LinksOn(f, p) = {}
  BY <1>1, <1>2, StepFacts
<1>3. CASE LinksOn(f, p) # {}
  <2>1. PICK n \in LinksOn(f, p) : TRUE
    BY <1>3
  <2>2. n \in 1 .. Len(p) /\ IsLink(f, Upto(p, n)) /\ f[Upto(p, n)].to = g[Upto(p, n)].to
    BY OneLink DEF SameLink
  <2>3. Jump(f, p) = f[Upto(p, n)].to \o SubSeq(p, n + 1, Len(p))
    BY JumpFacts
  <2>4. Jump(g, p) = g[Upto(p, n)].to \o SubSeq(p, n + 1, Len(p))
    BY <1>1, <2>1, JumpFacts
  <2>5. QED BY <1>1, <1>3, <2>2, <2>3, <2>4, StepFacts
<1>4. QED BY <1>2, <1>3

LEMMA SameFollow ==
  ASSUME NEW f, NEW g, IsTree(f), IsTree(g), SameLinks(f, g), NEW p \in Path
  PROVE  Follow(f, p) = Follow(g, p) /\ Place(f, p) = Place(g, p)
<1>1. Step(f) = Step(g)
  <2>1. ASSUME NEW q \in Path PROVE Step(f)[q] = Step(g)[q]
    <3>1. \A n \in 1 .. Len(q) : Upto(q, n) \in Path
      <4>1. Len(q) \in Nat /\ \A n \in 1 .. Len(q) : n \in 0 .. Len(q)
        BY UptoEnds
      <4>2. QED BY <4>1, UptoFacts
    <3>2. QED BY <3>1, SameStep DEF SameLinks
  <2>2. Step(f) \in [Path -> Path] /\ Step(g) \in [Path -> Path]
    BY StepFacts
  <2>3. QED BY <2>1, <2>2
<1>2. \A q \in Path : Follow(f, q) = Follow(g, q)
  BY <1>1 DEF Follow
<1>3. p # <<>> => Front(p) \in Path
  BY FrontFacts
<1>4. QED BY <1>2, <1>3 DEF Place

-----------------------------------------------------------------------------
(* Changes of a tree.                                                      *)

\* All but the times.
Alike(a, b) ==
  /\ a.type = b.type /\ a.to = b.to /\ a.of = b.of /\ a.part = b.part
  /\ a.owner = b.owner /\ a.mode = b.mode

LEMMA RenamedFacts ==
  ASSUME NEW f, IsTree(f), NEW p, NEW q \in DOMAIN f
  PROVE  /\ Renamed(f, p, q) \in Node /\ Alike(f[q], Renamed(f, p, q))
         /\ q # Front(p) => Renamed(f, p, q) = f[q]
<1>1. f[q] \in Node
  BY TreeFacts
<1>2. [f[q] EXCEPT !.times = 0] \in Node /\ Alike(f[q], [f[q] EXCEPT !.times = 0])
  BY <1>1 DEF Node, Alike
<1>3. f[q] \in Node /\ Alike(f[q], f[q])
  BY <1>1 DEF Alike
<1>4. QED BY <1>2, <1>3 DEF Renamed

LEMMA EnterFacts ==
  ASSUME NEW f, IsTree(f), NEW p \in Path, p \notin DOMAIN f, IsDir(f, Front(p)),
         NEW node \in Node
  PROVE  LET g == Enter(f, p, node) IN
         /\ IsTree(g) /\ DOMAIN g = DOMAIN f \cup {p} /\ g[p] = node
         /\ \A q \in DOMAIN f : Alike(f[q], g[q]) /\ (q # Front(p) => g[q] = f[q])
<1> DEFINE g == Enter(f, p, node)
<1>1. /\ DOMAIN g = DOMAIN f \cup {p} /\ g[p] = node /\ g = [q \in DOMAIN g |-> g[q]]
      /\ \A q \in DOMAIN f : g[q] = Renamed(f, p, q)
  BY DEF Enter
<1> HIDE DEF g
<1>2. \A q \in DOMAIN f : Alike(f[q], g[q]) /\ g[q] \in Node /\ (q # Front(p) => g[q] = f[q])
  BY <1>1, RenamedFacts
<1>3. \A q \in Path : IsDir(f, q) => IsDir(g, q)
  BY <1>1, <1>2 DEF IsDir, Alike
<1>4. DOMAIN f \subseteq Path /\ IsDir(f, <<>>) /\ p # <<>>
  BY TreeFacts DEF IsDir
<1>5. ASSUME NEW n \in 0 .. Len(p) - 1 PROVE IsDir(g, Upto(p, n))
  <2> DEFINE q == Front(p)
  <2>1. /\ Len(p) - 1 \in 0 .. Len(p) /\ q = Upto(p, Len(p) - 1) /\ q \in Path
        /\ Len(q) = Len(p) - 1 /\ Len(p) \in Nat
    BY <1>4, FrontFacts, UptoEnds
  <2>2. Upto(p, n) = Upto(q, n) /\ n \in 0 .. Len(p) /\ n \in 0 .. Len(q)
    BY <2>1, UptoFacts
  <2> HIDE DEF q
  <2>3. Upto(q, n) \in Path /\ IsPrefix(Upto(q, n), q) /\ IsDir(f, q)
    BY <2>1, <2>2, UptoFacts, PrefixFacts DEF q
  <2>4. IsDir(f, Upto(q, n))
    BY <2>3, AboveIsDir DEF IsDir
  <2>5. QED BY <1>3, <2>2, <2>3, <2>4
<1>6. ASSUME NEW q \in DOMAIN g, NEW n \in 0 .. Len(q) - 1 PROVE IsDir(g, Upto(q, n))
  <2>1. CASE q = p
    BY <1>5, <2>1
  <2>2. CASE q \in DOMAIN f
    <3>1. IsDir(f, Upto(q, n)) /\ Upto(q, n) \in Path
      BY <1>4, <2>2, TreeFacts DEF IsDir
    <3>2. QED BY <1>3, <3>1
  <2>3. QED BY <1>1, <2>1, <2>2
<1>7. \A q \in DOMAIN g : g[q] \in Node
  BY <1>1, <1>2
<1>8. IsTree(g)
  <2>1. g \in [DOMAIN g -> Node]
    BY <1>1, <1>7
  <2>2. IsDir(g, <<>>)
    BY <1>3, <1>4, UptoEnds DEF IsDir
  <2>3. \A q \in DOMAIN g : q \in Seq(STRING)
    BY <1>1, <1>4 DEF Path, Names
  <2>4. QED BY <1>6, <2>1, <2>2, <2>3 DEF IsTree, IsDir
<1>9. QED BY <1>1, <1>2, <1>8 DEF g

LEMMA LeaveFacts ==
  ASSUME NEW f, IsTree(f), NEW p \in DOMAIN f, ~IsDir(f, p)
  PROVE  LET g == Leave(f, p) IN
         /\ IsTree(g) /\ DOMAIN g = DOMAIN f \ {p}
         /\ \A q \in DOMAIN g : Alike(f[q], g[q]) /\ (q # Front(p) => g[q] = f[q])
<1> DEFINE g == Leave(f, p)
<1>1. /\ DOMAIN g = DOMAIN f \ {p} /\ g = [q \in DOMAIN g |-> g[q]]
      /\ \A q \in DOMAIN g : g[q] = Renamed(f, p, q)
  BY DEF Leave
<1> HIDE DEF g
<1>2. \A q \in DOMAIN g : Alike(f[q], g[q]) /\ g[q] \in Node /\ (q # Front(p) => g[q] = f[q])
  BY <1>1, RenamedFacts
<1>3. \A q : IsDir(f, q) => IsDir(g, q)
  BY <1>1, <1>2 DEF IsDir, Alike
<1>4. IsTree(g)
  <2>1. g \in [DOMAIN g -> Node]
    BY <1>1, <1>2
  <2>2. IsDir(g, <<>>)
    BY <1>3, TreeFacts
  <2>3. \A q \in DOMAIN g : q \in Seq(STRING)
    BY <1>1, TreeFacts DEF Path, Names
  <2>4. \A q \in DOMAIN g : \A n \in 0 .. Len(q) - 1 : IsDir(g, Upto(q, n))
    BY <1>1, <1>3, TreeFacts
  <2>5. QED BY <2>1, <2>2, <2>3, <2>4 DEF IsTree, IsDir
<1>5. QED BY <1>1, <1>2, <1>4 DEF g

\* A node changes, and stays what it is.
LEMMA ChangeFacts ==
  ASSUME NEW f, IsTree(f), NEW p, NEW node,
         p \in DOMAIN f => node \in Node /\ node.type = f[p].type
  PROVE  LET g == [f EXCEPT ![p] = node] IN
         /\ IsTree(g) /\ DOMAIN g = DOMAIN f /\ (p \in DOMAIN f => g[p] = node)
         /\ \A q \in DOMAIN f : q # p => g[q] = f[q]
<1> DEFINE g == [f EXCEPT ![p] = node]
<1>1. f = [q \in DOMAIN f |-> f[q]]
  BY DEF IsTree
<1>2. /\ DOMAIN g = DOMAIN f /\ (p \in DOMAIN f => g[p] = node)
      /\ \A q \in DOMAIN f : q # p => g[q] = f[q]
      /\ g = [q \in DOMAIN g |-> g[q]]
  BY <1>1
<1> HIDE DEF g
<1>3. \A q \in DOMAIN f : g[q] \in Node /\ g[q].type = f[q].type
  BY <1>2, TreeFacts
<1>4. g \in [DOMAIN g -> Node]
  BY <1>2, <1>3
<1>5. \A q : IsDir(f, q) => IsDir(g, q)
  BY <1>2, <1>3 DEF IsDir
<1>6. IsTree(g)
  BY <1>2, <1>4, <1>5 DEF IsTree, IsDir
<1>7. QED BY <1>2, <1>6 DEF g

\* Nodes that keep their type and what they say as links.
LEMMA AlikeLinks ==
  ASSUME NEW f, NEW g, DOMAIN g = DOMAIN f,
         \A q \in DOMAIN f :
           g[q].type = f[q].type /\ (f[q].type = "link" => g[q].to = f[q].to)
  PROVE  SameLinks(f, g)
BY DEF SameLinks, SameLink, IsLink

\* A new node that is no link leads nothing astray.
LEMMA EnterKeepsLinks ==
  ASSUME NEW f, IsTree(f), NEW p \in Path, p \notin DOMAIN f, IsDir(f, Front(p)),
         NEW node \in Node
  PROVE  node.type # "link" => SameLinks(f, Enter(f, p, node))
<1> DEFINE g == Enter(f, p, node)
<1>1. /\ DOMAIN g = DOMAIN f \cup {p} /\ g[p] = node
      /\ \A q \in DOMAIN f : Alike(f[q], g[q])
  BY EnterFacts
<1> HIDE DEF g
<1>2. node.type # "link" => SameLinks(f, g)
  BY <1>1 DEF SameLinks, SameLink, IsLink, Alike
<1>3. QED BY <1>2 DEF g

\* Nor does a new link lead a path astray that leads to its directory: a link on
\* the way there cannot lie above the new one.
LEMMA EnterKeepsWay ==
  ASSUME NEW f, IsTree(f), NEW p \in Path, p \notin DOMAIN f, IsDir(f, Front(p)),
         NEW node \in Node, NEW s \in Path, Follow(f, s) = Front(p)
  PROVE  Follow(Enter(f, p, node), s) = Front(p)
<1> DEFINE g == Enter(f, p, node)
           d == Front(p)
<1>1. /\ IsTree(g) /\ DOMAIN g = DOMAIN f \cup {p}
      /\ \A q \in DOMAIN f : Alike(f[q], g[q])
  BY EnterFacts
<1>2. MaxHops \in Nat /\ d \in Path /\ p # <<>> /\ IsPrefix(d, p)
  BY HopsOK, TreeFacts, PrefixFacts, FrontFacts DEF IsDir
<1> HIDE DEF g, d
<1>3. IsDir(f, d)
  BY DEF d
<1>4. PICK w : Way(f, s, w) /\ d = w[MaxHops]
  BY FollowIsWay DEF d
<1>5. \A q \in Path : q # p => SameLink(f, g, q)
  BY <1>1 DEF SameLink, IsLink, Alike
\* The new node is on no path of the way.
<1>6. ASSUME NEW h \in 0 .. MaxHops, NEW n \in 1 .. Len(w[h]), Upto(w[h], n) = p PROVE FALSE
  <2>1. /\ w[h] \in Path /\ n \in 0 .. Len(w[h]) /\ IsPrefix(p, w[h])
        /\ n \in Nat /\ Len(p) = n
    <3>1. w[h] \in Path
      BY <1>4 DEF Way
    <3>2. n \in 0 .. Len(w[h]) /\ n \in Nat
      BY <3>1, UptoEnds
    <3>3. QED BY <1>6, <3>1, <3>2, PrefixFacts, UptoFacts
  <2>2. CASE LinksOn(f, w[h]) = {}
    <3>1. w[h] = d
      BY <1>4, <2>2, WayRests
    <3>2. p = d \/ IsDir(f, p)
      BY <1>3, <2>1, <3>1, AboveIsDir DEF IsDir
    <3>3. QED BY <1>3, <3>2 DEF IsDir
  <2>3. CASE LinksOn(f, w[h]) # {}
    <3>1. PICK m \in LinksOn(f, w[h]) : m \in 1 .. Len(w[h]) /\ IsLink(f, Upto(w[h], m))
      BY <2>1, <2>3, OneLink
    <3> DEFINE l == Upto(w[h], m)
    <3>2. m \in 0 .. Len(w[h])
      BY <2>1, <3>1, UptoEnds
    <3>3. l \in Path /\ IsPrefix(l, w[h])
      BY <2>1, <3>2, UptoFacts, PrefixFacts
    <3> HIDE DEF l
    <3>4. IsLink(f, l)
      BY <3>1 DEF l
    <3>5. IsPrefix(p, l) \/ IsPrefix(l, p)
      BY <2>1, <3>3, PrefixesRelated
    <3>6. CASE IsPrefix(p, l)
      <4>1. p = l \/ IsDir(f, p)
        BY <3>4, <3>6, AboveIsDir DEF IsLink
      <4>2. QED BY <3>4, <4>1 DEF IsLink, IsDir
    <3>7. CASE IsPrefix(l, p)
      <4>1. IsPrefix(l, d) \/ IsPrefix(d, l)
        BY <1>2, <3>3, <3>7, PrefixesRelated
      <4>2. CASE IsPrefix(l, d)
        <5>1. l = d \/ IsDir(f, l)
          BY <1>3, <3>3, <4>2, AboveIsDir DEF IsDir
        <5>2. QED BY <1>3, <3>4, <5>1 DEF IsLink, IsDir
      <4>3. CASE IsPrefix(d, l)
        <5>1. /\ Len(d) <= Len(l) /\ Upto(l, Len(d)) = d
              /\ Len(l) <= Len(p) /\ Upto(p, Len(l)) = l
          BY <1>2, <3>3, <3>7, <4>3, PrefixIsUpto
        <5>2. Len(d) = Len(p) - 1 /\ Len(p) \in Nat /\ Len(l) \in Nat /\ Len(d) \in Nat
          BY <1>2, <3>3, FrontFacts, UptoEnds DEF d
        <5>3. Len(l) = Len(d) \/ Len(l) = Len(p)
          BY <5>1, <5>2
        <5>4. l = d \/ l = p
          BY <1>2, <3>3, <5>1, <5>3, UptoEnds
        <5>5. QED BY <1>3, <3>4, <5>4 DEF IsLink, IsDir
      <4>4. QED BY <4>1, <4>2, <4>3
    <3>8. QED BY <3>5, <3>6, <3>7
  <2>4. QED BY <2>2, <2>3
<1>7. Way(g, s, w)
  <2>1. ASSUME NEW h \in 1 .. MaxHops PROVE w[h] = Step(g)[w[h - 1]]
    <3>1. h - 1 \in 0 .. MaxHops
      BY <1>2
    <3>2. w[h - 1] \in Path /\ w[h] = Step(f)[w[h - 1]]
      BY <1>4, <3>1 DEF Way
    <3>3. \A n \in 1 .. Len(w[h - 1]) : Upto(w[h - 1], n) \in Path
      <4>1. Len(w[h - 1]) \in Nat /\ \A n \in 1 .. Len(w[h - 1]) : n \in 0 .. Len(w[h - 1])
        BY <3>2, UptoEnds
      <4>2. QED BY <3>2, <4>1, UptoFacts
    <3>4. \A n \in 1 .. Len(w[h - 1]) : SameLink(f, g, Upto(w[h - 1], n))
      BY <1>5, <1>6, <3>1, <3>3
    <3>5. QED BY <1>1, <3>2, <3>4, SameStep
  <2>2. QED BY <1>4, <2>1 DEF Way
<1>8. Follow(g, s) = d
  BY <1>1, <1>4, <1>7, WayIsFollow
<1>9. QED BY <1>8 DEF g, d

-----------------------------------------------------------------------------
(* Every selected record is accounted for.                                 *)

Tried == Promise!Tried

\* The phases in which a record is being extracted.
Working == {"prepare", "mkdir", "open", "create", "copy", "symlink", "report"} \cup Attributes

Verdicts == {"extracted", "warned", "failed"}
Entries == Seq([record : Selection, verdict : Verdicts])

\* The selected records up to the one in hand are those that were tried; the
\* one in hand is the next to be judged.
InOrder ==
  IF task.style = "named"
  THEN /\ phase = "next" => \/ Tried = {} /\ verdicts = <<>>
                            \/ Tried = Selection /\ verdicts # <<>>
       /\ phase \in Working => Tried = {} /\ at \in Selection
  ELSE /\ at \in 0 .. Len(archive)
       /\ phase = "next" => Tried = {i \in Selection : i <= at}
       /\ phase \in Working => Tried = {i \in Selection : i < at} /\ at \in Selection

IInv ==
  /\ archive \in Archives /\ task \in Tasks
  /\ phase \in Working \cup {"next", "done"}
  /\ verdicts \in Entries
  /\ phase # "done" => outcome = "none"
  /\ InOrder

-----------------------------------------------------------------------------
(* The selection.                                                          *)

LEMMA SelectionKept ==
  ASSUME UNCHANGED <<archive, task>>
  PROVE  Selection' = Selection
BY DEF Selection, Selected, Matches, Min

LEMMA Numbers ==
  ASSUME IInv
  PROVE  /\ Len(archive) \in Nat
         /\ task.attributes \subseteq Attributes
         /\ task.style # "named" => Selection \subseteq 1 .. Len(archive)
         /\ task.style = "named" => \A i, j \in Selection : i = j
<1>1. archive \in Seq(Record) /\ task \in Task
  BY ExtractionConstantsOK DEF IInv
<1>2. Len(archive) \in Nat /\ task.attributes \subseteq Attributes
  BY <1>1 DEF Task
<1>3. QED BY <1>2 DEF Selection

\* The record in hand is the first of those that are not tried yet.
Turn(i) == i \in Promise!Untried /\ \A j \in Promise!Untried : j = i \/ i < j

LEMMA InHand ==
  ASSUME IInv, phase \in Working
  PROVE  at \in Selection /\ Turn(at)
<1>1. CASE task.style = "named"
  BY <1>1, Numbers DEF IInv, InOrder, Turn, Tried, Promise!Untried
<1>2. CASE task.style # "named"
  <2>1. Tried = {i \in Selection : i < at} /\ at \in Selection
    BY <1>2 DEF IInv, InOrder
  <2>2. Selection \subseteq Nat
    BY <1>2, Numbers
  <2>3. QED BY <2>1, <2>2 DEF Turn, Tried, Promise!Untried
<1>3. QED BY <1>1, <1>2

\* An entry more, and its record is tried.
LEMMA OneMoreTried ==
  ASSUME NEW i, NEW v, verdicts \in Entries,
         verdicts' = Append(verdicts, [record |-> i, verdict |-> v])
  PROVE  Tried' = Tried \cup {i} /\ verdicts' # <<>>
<1>1. /\ Len(verdicts) \in Nat /\ Len(verdicts') = Len(verdicts) + 1
      /\ verdicts'[Len(verdicts) + 1] = [record |-> i, verdict |-> v]
      /\ \A k \in 1 .. Len(verdicts) : verdicts'[k] = verdicts[k]
  BY DEF Entries
<1>2. 1 .. Len(verdicts') = 1 .. Len(verdicts) \cup {Len(verdicts) + 1}
  BY <1>1
<1>3. Tried' = {verdicts'[k].record : k \in 1 .. Len(verdicts')}
  BY DEF Tried, Promise!Tried
<1>4. Tried = {verdicts[k].record : k \in 1 .. Len(verdicts)}
  BY DEF Tried, Promise!Tried
<1>5. verdicts'[Len(verdicts) + 1].record = i
  BY <1>1
<1>6. Tried' = Tried \cup {i}
  BY <1>1, <1>2, <1>3, <1>4, <1>5
<1>7. QED BY <1>1, <1>6

-----------------------------------------------------------------------------
(* The steps.                                                              *)

\* What a step may do, seen from the report.
Quiet == UNCHANGED <<archive, task, verdicts, outcome>>
Good == IInv' /\ (Promise!ReportNext \/ Quiet)

\* The extraction of record i ends.
LEMMA SettleOK ==
  ASSUME IInv, NEW i \in Selection, Turn(i), NEW v \in Verdicts, outcome = "none",
         Settle(i, v), at' = i, UNCHANGED <<archive, task>>,
         task.style = "named" => Tried = {},
         task.style # "named" => Tried = {j \in Selection : j < i}
  PROVE  Good
<1>1. Selection' = Selection
  BY SelectionKept
<1>2. /\ verdicts' = Append(verdicts, [record |-> i, verdict |-> v])
      /\ \/ v = "failed" /\ task.style # "best_effort" /\ phase' = "done" /\ outcome' = "failed"
         \/ ~(v = "failed" /\ task.style # "best_effort") /\ phase' = "next" /\ outcome' = "none"
  BY DEF Settle
<1>3. Promise!Judge
  <2>1. outcome' = IF v = "failed" /\ ~(task.style = "best_effort") THEN "failed" ELSE "none"
    BY <1>2
  <2>2. UNCHANGED <<Selection, task.style = "best_effort">>
    BY <1>1
  <2>3. /\ i \in Promise!Untried /\ \A j \in Promise!Untried : j = i \/ i < j
    BY DEF Turn
  <2>4. QED BY <1>2, <2>1, <2>2, <2>3 DEF Promise!Judge, Verdicts
<1>4. verdicts \in Entries /\ verdicts' \in Entries'
  <2>1. verdicts \in Seq([record : Selection, verdict : Verdicts])
    BY DEF IInv, Entries
  <2>2. [record |-> i, verdict |-> v] \in [record : Selection, verdict : Verdicts]
    OBVIOUS
  <2>3. verdicts' \in Seq([record : Selection, verdict : Verdicts])
    BY <1>2, <2>1, <2>2
  <2>4. QED BY <1>1, <2>1, <2>3 DEF Entries, Verdicts
<1>5. Tried' = Tried \cup {i} /\ verdicts' # <<>>
  BY <1>2, <1>4, OneMoreTried
<1>6. InOrder'
  <2>1. phase' \in {"next", "done"}
    BY <1>2
  <2>2. phase' \notin Working
    BY <2>1 DEF Working, Attributes
  <2>3. CASE task.style = "named"
    <3>1. Tried' = Selection
      BY <1>5, <2>3, Numbers
    <3>2. QED BY <1>1, <1>5, <2>2, <2>3, <3>1 DEF InOrder
  <2>4. CASE task.style # "named"
    <3>1. Selection \subseteq 1 .. Len(archive) /\ Len(archive) \in Nat
      BY <2>4, Numbers
    <3>2. Tried' = {j \in Selection : j <= i} /\ i \in 0 .. Len(archive)
      <4>1. i \in 0 .. Len(archive)
        BY <3>1
      <4>2. \A j \in Selection : j <= i <=> (j < i \/ j = i)
        BY <3>1
      <4>3. Tried' = {j \in Selection : j < i} \cup {i}
        BY <1>5, <2>4
      <4>4. QED BY <4>1, <4>2, <4>3
    <3>3. QED BY <1>1, <2>2, <2>4, <3>2 DEF InOrder
  <2>5. QED BY <2>3, <2>4
<1>7. IInv'
  BY <1>2, <1>4, <1>6 DEF IInv
<1>8. QED BY <1>3, <1>7 DEF Good, Promise!ReportNext

\* The record in hand goes on to its next call.
LEMMA ContinueOK ==
  ASSUME IInv, phase \in Working, NEW next \in Working, Continue(next)
  PROVE  Good
<1>1. /\ phase' = next /\ UNCHANGED <<archive, task, at, verdicts, outcome>>
  BY DEF Continue, given
<1>2. Selection' = Selection /\ Tried' = Tried
  BY <1>1, SelectionKept DEF Tried, Promise!Tried
<1>3. phase \notin {"next", "done"} /\ next \notin {"next", "done"}
  BY DEF Working, Attributes
<1>4. InOrder'
  BY <1>1, <1>2, <1>3 DEF IInv, InOrder
<1>5. QED BY <1>1, <1>2, <1>3, <1>4 DEF Good, Quiet, IInv, Entries, Verdicts

\* The record in hand is done with.
LEMMA SettleInHand ==
  ASSUME IInv, phase \in Working, NEW v \in Verdicts, Settle(at, v),
         UNCHANGED <<given, at>>
  PROVE  Good
<1>1. at \in Selection /\ Turn(at)
  BY InHand
<1>2. outcome = "none"
  BY DEF IInv, Working, Attributes
<1>3. /\ task.style = "named" => Tried = {}
      /\ task.style # "named" => Tried = {j \in Selection : j < at}
  BY DEF IInv, InOrder
<1>4. QED BY <1>1, <1>2, <1>3, SettleOK DEF given

\* The next record in turn is taken up; it may fail at once.
LEMMA StartOK ==
  ASSUME IInv, phase = "next", NEW i \in Selection, Start(i),
         task.style = "named" => Tried = {},
         task.style # "named" => Tried = {j \in Selection : j < i}
  PROVE  Good
<1>1. at' = i /\ UNCHANGED <<archive, task>>
  BY DEF Start, given
<1>2. Turn(i)
  <2>1. CASE task.style = "named"
    BY <2>1, Numbers DEF Turn, Tried, Promise!Untried
  <2>2. CASE task.style # "named"
    <3>1. Selection \subseteq Nat
      BY <2>2, Numbers
    <3>2. QED BY <2>2, <3>1 DEF Turn, Tried, Promise!Untried
  <2>3. QED BY <2>1, <2>2
<1>3. outcome = "none"
  BY DEF IInv
<1>4. CASE Settle(i, "failed")
  BY <1>1, <1>2, <1>3, <1>4, SettleOK DEF Verdicts
<1>5. CASE phase' = "prepare" /\ UNCHANGED <<verdicts, outcome>>
  <2>1. Selection' = Selection /\ Tried' = Tried
    BY <1>1, <1>5, SelectionKept DEF Tried, Promise!Tried
  <2>2. InOrder'
    <3>1. CASE task.style = "named"
      BY <1>1, <1>5, <2>1, <3>1 DEF InOrder
    <3>2. CASE task.style # "named"
      <4>1. i \in 0 .. Len(archive)
        BY <3>2, Numbers
      <4>2. QED BY <1>1, <1>5, <2>1, <3>2, <4>1 DEF InOrder
    <3>3. QED BY <3>1, <3>2
  <2>3. QED BY <1>1, <1>3, <1>5, <2>1, <2>2 DEF Good, Quiet, IInv, Entries, Verdicts, Working
<1>6. QED BY <1>4, <1>5 DEF Start

LEMMA NextRecordOK ==
  ASSUME IInv, NextRecord
  PROVE  Good
<1>1. /\ phase = "next" /\ task.style # "named" /\ at < Len(archive)
      /\ Selected(at + 1) /\ Start(at + 1)
  BY DEF NextRecord
<1>2. Len(archive) \in Nat /\ Selection \subseteq 1 .. Len(archive)
      /\ at \in 0 .. Len(archive) /\ Tried = {i \in Selection : i <= at}
  BY <1>1, Numbers DEF IInv, InOrder
<1>3. at + 1 \in Selection
  BY <1>1, <1>2 DEF Selection
<1>4. Tried = {j \in Selection : j < at + 1}
  <2>1. \A j \in Selection : j <= at <=> j < at + 1
    BY <1>2
  <2>2. QED BY <1>2, <2>1
<1>5. QED BY <1>1, <1>3, <1>4, StartOK

LEMMA PassRecordOK ==
  ASSUME IInv, PassRecord
  PROVE  Good
<1>1. /\ phase = "next" /\ task.style # "named" /\ at < Len(archive) /\ ~Selected(at + 1)
      /\ at' = at + 1 /\ phase' = "next" /\ UNCHANGED <<archive, task, verdicts, outcome>>
  BY DEF PassRecord, given
<1>2. Len(archive) \in Nat /\ Selection \subseteq 1 .. Len(archive)
      /\ at \in 0 .. Len(archive) /\ Tried = {i \in Selection : i <= at}
  BY <1>1, Numbers DEF IInv, InOrder
<1>3. Selection' = Selection /\ Tried' = Tried
  BY <1>1, SelectionKept DEF Tried, Promise!Tried
<1>4. at + 1 \notin Selection
  BY <1>1 DEF Selection
<1>5. Tried = {i \in Selection : i <= at + 1}
  <2>1. \A i \in Selection : i <= at <=> i <= at + 1
    BY <1>2, <1>4
  <2>2. QED BY <1>2, <2>1
<1>6. at' \in 0 .. Len(archive')
  BY <1>1, <1>2
<1>7. InOrder'
  BY <1>1, <1>3, <1>5, <1>6 DEF InOrder, Working, Attributes
<1>8. QED BY <1>1, <1>3, <1>7 DEF Good, Quiet, IInv, Entries, Verdicts

LEMMA NamedRecordOK ==
  ASSUME IInv, NamedRecord
  PROVE  Good
<1>1. /\ phase = "next" /\ task.style = "named" /\ verdicts = <<>> /\ Matches # {}
      /\ Start(Min(Matches))
  BY DEF NamedRecord
<1>2. Min(Matches) \in Selection
  BY <1>1 DEF Selection
<1>3. Tried = {}
  BY <1>1 DEF IInv, InOrder
<1>4. QED BY <1>1, <1>2, <1>3, StartOK

LEMMA ReturnOK ==
  ASSUME IInv, Return
  PROVE  Good
<1>1. /\ phase = "next" /\ phase' = "done" /\ UNCHANGED <<archive, task, at, verdicts>>
      /\ \/ task.style # "named" /\ at = Len(archive) /\ outcome' = "ok"
         \/ task.style = "named" /\ verdicts # <<>> /\ outcome' = "ok"
         \/ task.style = "named" /\ Matches = {} /\ outcome' = "not_found"
  BY DEF Return, given
<1>2. outcome = "none" /\ Selection' = Selection /\ Tried' = Tried
  BY <1>1, SelectionKept DEF IInv, Tried, Promise!Tried
<1>3. Promise!Untried = {}
  <2>1. CASE task.style # "named" /\ at = Len(archive)
    <3>1. Tried = {i \in Selection : i <= at}
      BY <1>1, <2>1 DEF IInv, InOrder
    <3>2. \A i \in Selection : i <= at
      BY <2>1, Numbers
    <3>3. QED BY <3>1, <3>2 DEF Tried, Promise!Untried
  <2>2. CASE task.style = "named" /\ verdicts # <<>>
    <3>1. Tried = Selection
      BY <1>1, <2>2 DEF IInv, InOrder
    <3>2. QED BY <3>1 DEF Tried, Promise!Untried
  <2>3. CASE task.style = "named" /\ Matches = {}
    BY <2>3 DEF Selection, Promise!Untried
  <2>4. QED BY <1>1, <2>1, <2>2, <2>3
<1>4. outcome' = "ok" \/ (Selection = {} /\ outcome' = "not_found")
  BY <1>1 DEF Selection
<1>5. Promise!Finish
  BY <1>1, <1>2, <1>3, <1>4 DEF Promise!Finish
<1>6. InOrder'
  <2>1. task.style # "named" => at \in 0 .. Len(archive)
    BY DEF IInv, InOrder
  <2>2. QED BY <1>1, <2>1 DEF InOrder, Working, Attributes
<1>7. IInv'
  BY <1>1, <1>2, <1>6 DEF IInv, Entries, Verdicts
<1>8. QED BY <1>5, <1>7 DEF Good, Promise!ReportNext

\* The calls that a record goes through when nothing fails.
LEMMA CallOK ==
  ASSUME IInv, \/ Prepare \/ MakeDir \/ DirsMade \/ OpenSource \/ CreateFile
               \/ Copy \/ Symlink \/ SetAttribute
  PROVE  Good
<1>1. AfterDirs \in Working /\ {"mkdir", "create", "copy", "symlink", "report"} \subseteq Working
      /\ Attributes \subseteq Working /\ {"times", "owner", "mode"} \subseteq Working
  BY DEF AfterDirs, Working, Attributes
<1>2. phase \in Working
  BY <1>1 DEF Prepare, MakeDir, DirsMade, OpenSource, CreateFile, Copy, Symlink,
              SetAttribute, Working
<1>3. CASE Prepare
  BY <1>1, <1>2, <1>3, ContinueOK DEF Prepare
<1>4. CASE MakeDir
  BY <1>1, <1>2, <1>4, ContinueOK DEF MakeDir
<1>5. CASE DirsMade
  BY <1>1, <1>2, <1>5, ContinueOK DEF DirsMade
<1>6. CASE OpenSource
  BY <1>1, <1>2, <1>6, ContinueOK DEF OpenSource
<1>7. CASE CreateFile
  <2>1. \E next \in {"copy", "times"} : Continue(next)
    BY <1>7 DEF CreateFile
  <2>2. QED BY <1>1, <1>2, <2>1, ContinueOK
<1>8. CASE Copy
  BY <1>1, <1>2, <1>8, ContinueOK DEF Copy
<1>9. CASE Symlink
  BY <1>1, <1>2, <1>9, ContinueOK DEF Symlink
<1>10. CASE SetAttribute
  <2>1. \E next \in {"owner", "mode", "report"} : Continue(next)
    BY <1>10 DEF SetAttribute
  <2>2. QED BY <1>1, <1>2, <2>1, ContinueOK
<1>11. QED BY <1>3, <1>4, <1>5, <1>6, <1>7, <1>8, <1>9, <1>10

\* The ends of a record, and a call that fails.
LEMMA VerdictOK ==
  ASSUME IInv, CopyFails \/ Report \/ CallFails
  PROVE  Good
<1>1. \E v \in Verdicts : Settle(at, v)
  BY DEF CopyFails, Report, CallFails, Verdicts
<1>2. UNCHANGED <<given, at>>
  BY DEF CopyFails, Report, CallFails, given
<1>3. phase \in Working
  BY Numbers DEF CopyFails, Report, CallFails, Blocked, Working
<1>4. QED BY <1>1, <1>2, <1>3, SettleInHand

\* A panic leaves the record in hand untried.
LEMMA PanicOK ==
  ASSUME IInv, DecoderPanics
  PROVE  Good
<1>1. /\ phase \in {"open", "copy"} /\ phase' = "done" /\ outcome' = "panic"
      /\ UNCHANGED <<archive, task, at, verdicts>>
  BY DEF DecoderPanics, given
<1>2. Selection' = Selection /\ Tried' = Tried
  BY <1>1, SelectionKept DEF Tried, Promise!Tried
<1>3. phase \in Working /\ phase' \notin Working \cup {"next"}
  BY <1>1 DEF Working, Attributes
<1>4. outcome = "none" /\ Promise!Untried # {}
  BY <1>1, <1>3, InHand DEF IInv, Turn
<1>5. Promise!Panic
  BY <1>1, <1>2, <1>4 DEF Promise!Panic
<1>6. InOrder'
  BY <1>1, <1>2, <1>3 DEF IInv, InOrder
<1>7. IInv'
  BY <1>1, <1>2, <1>6 DEF IInv, Entries, Verdicts
<1>8. QED BY <1>5, <1>7 DEF Good, Promise!ReportNext

LEMMA StepOK ==
  ASSUME IInv, [Next]_vars
  PROVE  Good
<1>1. CASE UNCHANGED vars
  <2>1. UNCHANGED <<archive, task, at, phase, verdicts, outcome>>
    BY <1>1 DEF vars
  <2>2. Selection' = Selection /\ Tried' = Tried
    BY <2>1, SelectionKept DEF Tried, Promise!Tried
  <2>3. InOrder'
    BY <2>1, <2>2 DEF IInv, InOrder
  <2>4. QED BY <2>1, <2>2, <2>3 DEF Good, Quiet, IInv, Entries, Verdicts
<1>2. QED
  BY <1>1, NextRecordOK, PassRecordOK, NamedRecordOK, ReturnOK, CallOK, VerdictOK, PanicOK
  DEF Next

LEMMA InitOK ==
  ASSUME Init
  PROVE  IInv /\ Promise!ReportInit
<1>1. /\ archive \in Archives /\ task \in Tasks /\ at = 0 /\ phase = "next"
      /\ verdicts = <<>> /\ outcome = "none"
  BY DEF Init
<1>2. Tried = {} /\ verdicts \in Entries
  <2>1. Len(verdicts) = 0 /\ verdicts \in Entries
    BY <1>1 DEF Entries
  <2>2. QED BY <2>1 DEF Tried, Promise!Tried
<1>3. archive \in Seq(Record) /\ Len(archive) \in Nat
  BY <1>1, ExtractionConstantsOK
<1>4. task.style # "named" => {i \in Selection : i <= at} = {}
  BY <1>1, <1>3 DEF Selection
<1>5. InOrder
  BY <1>1, <1>2, <1>3, <1>4 DEF InOrder, Working, Attributes
<1>6. QED BY <1>1, <1>2, <1>5 DEF IInv, Promise!ReportInit

(* Whatever the archive, the task, the tree on the disk and the calls that    *)
(* fail: extraction (archive.rs:306-444) implements ExtractionReport.         *)
THEOREM EachRecordAccounted == Spec => Accounted
<1>1. Init => IInv /\ Promise!ReportInit
  BY InitOK
<1>2. IInv /\ [Next]_vars => IInv'
  BY StepOK DEF Good
<1>3. IInv /\ [Next]_vars => [Promise!ReportNext]_Promise!reportVars
  <2>1. SUFFICES ASSUME IInv, [Next]_vars
                 PROVE  [Promise!ReportNext]_Promise!reportVars
    OBVIOUS
  <2>2. CASE Promise!ReportNext
    BY <2>2
  <2>3. CASE Quiet
    <3>1. Selection' = Selection
      BY <2>3, SelectionKept DEF Quiet
    <3>2. QED BY <2>3, <3>1 DEF Quiet, Promise!reportVars
  <2>4. QED BY <2>1, <2>2, <2>3, StepOK DEF Good
<1>4. QED BY <1>1, <1>2, <1>3, PTL DEF Spec, Accounted, Promise!ReportSpec

-----------------------------------------------------------------------------
(* The record in hand.                                                     *)

\* What is known of it as long as it is being extracted.
InHandOK ==
  /\ at \in 1 .. Len(archive) /\ target = TargetOf(at)
  /\ Supported(Rec.kind)
  /\ task.style # "named" => Selected(at) /\ ~Rejected(Rec.path)

TreeInv ==
  /\ origin \in Disks /\ IsTree(fs)
  /\ at \in 0 .. Len(archive) /\ target \in Path /\ depth \in Nat
  /\ phase \in Working => InHandOK

LEMMA GivenFacts ==
  ASSUME archive \in Archives, task \in Tasks
  PROVE  /\ archive \in Seq(Record) /\ Len(archive) \in Nat /\ task \in Task
         /\ task.destination \in Path /\ task.destination # <<>>
         /\ \A i \in 1 .. Len(archive) :
              /\ archive[i] \in Record /\ archive[i].path \in Path /\ archive[i].to \in Path
              /\ archive[i].kind \in Kinds
              /\ TargetOf(i) \in Path /\ TargetOf(i) # <<>>
<1>1. /\ archive \in Seq(Record) /\ Len(archive) \in Nat /\ task \in Task
      /\ task.destination # <<>>
  BY ExtractionConstantsOK
<1>2. task.destination \in Path
  BY <1>1 DEF Task, Path, Names
<1>3. ASSUME NEW i \in 1 .. Len(archive)
      PROVE  /\ archive[i] \in Record /\ archive[i].path \in Path /\ archive[i].to \in Path
             /\ archive[i].kind \in Kinds
             /\ TargetOf(i) \in Path /\ TargetOf(i) # <<>>
  <2>1. archive[i] \in Record
    BY <1>1
  <2>2. archive[i].path \in Path /\ archive[i].to \in Path /\ archive[i].kind \in Kinds
    BY <2>1 DEF Record, Path, Names
  <2> DEFINE path == archive[i].path
             inner == Inner(path)
  <2>3. inner \in Path
    <3>1. CASE path # <<>>
      <4>1. Tail(path) \in Path
        BY <2>2, <3>1, HeadTailProperties DEF Path
      <4>2. QED BY <2>2, <4>1 DEF Inner
    <3>2. CASE path = <<>>
      BY <2>2, <3>2 DEF Inner
    <3>3. QED BY <3>1, <3>2
  <2>4. /\ task.destination \o inner \in Path
        /\ Len(task.destination \o inner) = Len(task.destination) + Len(inner)
    BY <1>2, <2>3, ConcatFacts
  <2>5. task.destination \o inner # <<>>
    <3>1. Len(task.destination) \in Nat /\ Len(task.destination) # 0 /\ Len(inner) \in Nat
      BY <1>1, <1>2, <2>3, UptoEnds
    <3>2. QED BY <2>4, <3>1, UptoEnds
  <2>6. QED BY <1>1, <1>2, <2>1, <2>2, <2>4, <2>5 DEF TargetOf
<1>4. QED BY <1>1, <1>2, <1>3

LEMMA MatchFacts ==
  ASSUME archive \in Archives, task \in Tasks, Matches # {}
  PROVE  Min(Matches) \in 1 .. Len(archive) /\ Min(Matches) \in Matches
<1>1. Matches \in SUBSET Nat /\ Matches \subseteq 1 .. Len(archive)
  BY DEF Matches
<1>2. \E m \in Matches : \A k \in Matches : m <= k
  <2>1. \A S \in SUBSET Nat : S # {} => \E m \in S : \A k \in S : m <= k
    BY LeastNumber
  <2>2. QED BY <1>1, <2>1
<1>3. Min(Matches) \in Matches
  BY <1>2 DEF Min
<1>4. QED BY <1>1, <1>3

\* The steps that touch the tree, or might.
LEMMA InHandKept ==
  ASSUME InHandOK, UNCHANGED <<archive, task, at, target>>
  PROVE  InHandOK'
BY DEF InHandOK, TargetOf, Supported, Rec, Selected, Rejected, Inner

LEMMA GoalFacts ==
  ASSUME archive \in Archives, task \in Tasks, InHandOK
  PROVE  /\ target \in Path /\ target # <<>>
         /\ Goal \in Path /\ IsPrefix(Goal, target) /\ Len(Goal) \in Nat
         /\ \A d \in 0 .. Len(Goal) : Upto(Goal, d) \in Path /\ IsPrefix(Upto(Goal, d), target)
<1>1. target \in Path /\ target # <<>>
  BY GivenFacts DEF InHandOK
<1>2. Goal \in Path /\ IsPrefix(Goal, target)
  BY <1>1, FrontFacts, PrefixFacts DEF Goal
<1>3. \A d \in 0 .. Len(Goal) : Upto(Goal, d) \in Path /\ IsPrefix(Upto(Goal, d), Goal)
  BY <1>2, UptoFacts, PrefixFacts
<1>4. \A d \in 0 .. Len(Goal) : IsPrefix(Upto(Goal, d), target)
  BY <1>1, <1>2, <1>3, PrefixTransitive
<1>5. QED BY <1>1, <1>2, <1>3, <1>4, UptoEnds

-----------------------------------------------------------------------------
(* What a step does to the tree.                                           *)

\* A place that the record in hand may have to do with.
Spot(p) ==
  /\ p \in Path
  /\ \/ IsPrefix(p, target)
     \/ \E l \in DOMAIN fs : IsLink(fs, l) /\ IsPrefix(fs[l].to, p)

SameNode(f, g, p) ==
  /\ p \in DOMAIN f <=> p \in DOMAIN g
  /\ p \in DOMAIN f => g[p] = f[p]

\* Only a spot and what is above it change; a link that is new is the record's.
Effect ==
  /\ IsTree(fs')
  /\ \E spot : Spot(spot) /\ \A p \in Path : ~IsPrefix(p, spot) => SameNode(fs, fs', p)
  /\ \A p \in Path : IsLink(fs', p) =>
       \/ IsLink(fs, p) /\ fs'[p].to = fs[p].to
       \/ phase = "symlink" /\ fs'[p].to = Rec.to

LEMMA NewNodes ==
  /\ NewDir \in Node /\ NewDir.type = "dir"
  /\ \A to \in Path : NewLink(to) \in Node /\ NewLink(to).type = "link" /\ NewLink(to).to = to
  /\ \A i \in Nat : \A part \in {"none", "part", "whole", "wrong"} :
       /\ NewFile(i, part) \in Node /\ NewFile(i, part).type = "file"
       /\ NewFile(i, part).of = i /\ NewFile(i, part).part = part
<1>1. <<>> \in Seq(STRING)
  OBVIOUS
<1>2. NewDir \in Node /\ NewDir.type = "dir"
  BY <1>1 DEF Node, NewDir, Plain
<1>3. \A to \in Path : NewLink(to) \in Node /\ NewLink(to).type = "link" /\ NewLink(to).to = to
  BY <1>1 DEF Node, NewLink, Plain, Path, Names
<1>4. \A i \in Nat : \A part \in {"none", "part", "whole", "wrong"} :
       /\ NewFile(i, part) \in Node /\ NewFile(i, part).type = "file"
       /\ NewFile(i, part).of = i /\ NewFile(i, part).part = part
  BY <1>1 DEF Node, NewFile, Plain
<1>5. QED BY <1>2, <1>3, <1>4

LEMMA FollowSpot ==
  ASSUME IsTree(fs), NEW x \in Path, IsPrefix(x, target)
  PROVE  Spot(Follow(fs, x))
<1>1. Follow(fs, x) \in Path
  BY FollowFacts
<1>2. \/ Follow(fs, x) = x
      \/ \E l \in DOMAIN fs : IsLink(fs, l) /\ IsPrefix(fs[l].to, Follow(fs, x))
  BY FollowStarts
<1>3. QED BY <1>1, <1>2 DEF Spot

LEMMA PlaceSpot ==
  ASSUME IsTree(fs), target \in Path, NEW x \in Path, x # <<>>, IsPrefix(x, target)
  PROVE  Spot(Place(fs, x)) /\ Place(fs, x) \in Path /\ Place(fs, x) # <<>>
<1> DEFINE d == Follow(fs, Front(x))
           place == Place(fs, x)
<1>1. Front(x) \in Path /\ x = Append(Front(x), Last(x)) /\ IsPrefix(Front(x), x)
  BY FrontFacts, PrefixFacts
<1>2. place = Append(d, Last(x))
  BY DEF Place
<1>3. place \in Path /\ place # <<>> /\ Front(place) = d
  BY FollowPlace
<1> HIDE DEF d, place
<1>4. d \in Path /\ IsPrefix(d, place)
  <2>1. Front(place) \in Path /\ IsPrefix(Front(place), place)
    BY <1>3, FrontFacts, PrefixFacts
  <2>2. QED BY <1>3, <2>1
<1>5. \/ d = Front(x)
      \/ \E l \in DOMAIN fs : IsLink(fs, l) /\ IsPrefix(fs[l].to, d)
  BY <1>1, FollowStarts DEF d
<1>6. CASE d = Front(x)
  BY <1>1, <1>2, <1>3, <1>6 DEF Spot, place
<1>7. CASE \E l \in DOMAIN fs : IsLink(fs, l) /\ IsPrefix(fs[l].to, d)
  <2>1. PICK l \in DOMAIN fs : IsLink(fs, l) /\ IsPrefix(fs[l].to, d)
    BY <1>7
  <2>2. fs[l].to \in Path
    BY TreeFacts
  <2>3. IsPrefix(fs[l].to, place)
    BY <1>3, <1>4, <2>1, <2>2, PrefixTransitive
  <2>4. QED BY <1>3, <2>1, <2>3 DEF Spot, place
<1>8. QED BY <1>5, <1>6, <1>7

LEMMA EnterEffect ==
  ASSUME IsTree(fs), NEW p, Spot(p), MayCreate(p), NEW node \in Node, fs' = Enter(fs, p, node),
         node.type = "link" => phase = "symlink" /\ node.to = Rec.to
  PROVE  Effect /\ DOMAIN fs' = DOMAIN fs \cup {p} /\ fs'[p] = node
<1>1. p \in Path /\ p \notin DOMAIN fs /\ IsDir(fs, Front(p))
  BY DEF Spot, MayCreate, MayChange, IsDir
<1>2. /\ IsTree(fs') /\ DOMAIN fs' = DOMAIN fs \cup {p} /\ fs'[p] = node
      /\ \A q \in DOMAIN fs : Alike(fs[q], fs'[q]) /\ (q # Front(p) => fs'[q] = fs[q])
  BY <1>1, EnterFacts
<1>3. IsPrefix(p, p) /\ IsPrefix(Front(p), p)
  <2>1. p # <<>>
    BY <1>1, TreeFacts DEF IsDir
  <2>2. QED BY <1>1, <2>1, PrefixFacts
<1>4. \A q \in Path : ~IsPrefix(q, p) => SameNode(fs, fs', q)
  BY <1>2, <1>3 DEF SameNode
<1>5. \A q \in Path : IsLink(fs', q) =>
        \/ IsLink(fs, q) /\ fs'[q].to = fs[q].to
        \/ phase = "symlink" /\ fs'[q].to = Rec.to
  BY <1>2 DEF IsLink, Alike
<1>6. QED BY <1>2, <1>4, <1>5 DEF Effect

LEMMA LeaveEffect ==
  ASSUME IsTree(fs), NEW p, Spot(p), p \in DOMAIN fs, ~IsDir(fs, p), fs' = Leave(fs, p)
  PROVE  Effect
<1>1. /\ IsTree(fs') /\ DOMAIN fs' = DOMAIN fs \ {p}
      /\ \A q \in DOMAIN fs' : Alike(fs[q], fs'[q]) /\ (q # Front(p) => fs'[q] = fs[q])
  BY LeaveFacts
<1>2. IsPrefix(p, p) /\ IsPrefix(Front(p), p)
  <2>1. p \in Path /\ p # <<>>
    BY TreeFacts DEF IsDir
  <2>2. QED BY <2>1, PrefixFacts
<1>3. \A q \in Path : ~IsPrefix(q, p) => SameNode(fs, fs', q)
  BY <1>1, <1>2 DEF SameNode
<1>4. \A q \in Path : IsLink(fs', q) => IsLink(fs, q) /\ fs'[q].to = fs[q].to
  BY <1>1 DEF IsLink, Alike
<1>5. QED BY <1>1, <1>3, <1>4 DEF Effect

\* A node may become this one.
Fits(new, old) ==
  /\ new \in Node /\ new.type = old.type
  /\ old.type = "link" => new.to = old.to

LEMMA ChangeEffect ==
  ASSUME IsTree(fs), NEW p, Spot(p), NEW node, fs' = [fs EXCEPT ![p] = node],
         p \in DOMAIN fs => Fits(node, fs[p])
  PROVE  /\ Effect /\ DOMAIN fs' = DOMAIN fs /\ (p \in DOMAIN fs => fs'[p] = node)
         /\ SameLinks(fs, fs')
<1>0. p \in DOMAIN fs => node \in Node /\ node.type = fs[p].type
  BY DEF Fits
<1>1. /\ IsTree(fs') /\ DOMAIN fs' = DOMAIN fs /\ (p \in DOMAIN fs => fs'[p] = node)
      /\ \A q \in DOMAIN fs : q # p => fs'[q] = fs[q]
  BY <1>0, ChangeFacts
<1>2. IsPrefix(p, p)
  BY PrefixFacts DEF Spot
<1>3. \A q \in Path : ~IsPrefix(q, p) => SameNode(fs, fs', q)
  BY <1>1, <1>2 DEF SameNode
<1>4. \A q \in DOMAIN fs :
        fs'[q].type = fs[q].type /\ (fs[q].type = "link" => fs'[q].to = fs[q].to)
  BY <1>1 DEF Fits
<1>5. SameLinks(fs, fs')
  BY <1>1, <1>4, AlikeLinks
<1>6. \A q \in Path : IsLink(fs', q) => IsLink(fs, q) /\ fs'[q].to = fs[q].to
  BY <1>1, <1>4 DEF IsLink
<1>7. QED BY <1>1, <1>3, <1>5, <1>6 DEF Effect

LEMMA NoEffect ==
  ASSUME IsTree(fs), target \in Path, fs' = fs
  PROVE  Effect
<1>1. Spot(target)
  BY PrefixFacts DEF Spot
<1>2. QED BY <1>1 DEF Effect, SameNode

-----------------------------------------------------------------------------
(* The calls.                                                              *)

Hand == archive \in Archives /\ task \in Tasks /\ IsTree(fs) /\ InHandOK

\* What holds of the record, and of its target, throughout.
LEMMA HandFacts ==
  ASSUME Hand
  PROVE  /\ Rec \in Record /\ Rec.to \in Path /\ Rec.path \in Path /\ at \in Nat /\ at >= 1
         /\ target \in Path /\ target # <<>> /\ IsPrefix(target, target)
         /\ Spot(Follow(fs, target)) /\ Spot(Place(fs, target))
         /\ Follow(fs, target) \in Path /\ Place(fs, target) \in Path
<1>1. /\ Rec \in Record /\ Rec.to \in Path /\ Rec.path \in Path /\ at \in Nat /\ at >= 1
      /\ target \in Path /\ target # <<>>
  BY GivenFacts DEF Hand, InHandOK, Rec
<1>2. IsPrefix(target, target) /\ IsTree(fs)
  BY <1>1, PrefixFacts DEF Hand
<1>3. QED BY <1>1, <1>2, FollowSpot, PlaceSpot, FollowFacts

LEMMA PrepareEffect ==
  ASSUME Hand, Prepare
  PROVE  Effect
<1>1. CASE fs' = fs
  BY <1>1, HandFacts, NoEffect DEF Hand
<1>2. CASE Found(fs, Goal, "file") /\ fs' = Leave(fs, Place(fs, Goal))
  <2>1. Goal \in Path /\ IsPrefix(Goal, target) /\ IsTree(fs) /\ target \in Path
    BY GoalFacts DEF Hand
  <2>2. Goal # <<>>
    <3> SUFFICES ASSUME Goal = <<>> PROVE FALSE
      OBVIOUS
    <3>1. IsDir(fs, <<>>)
      BY <2>1, TreeFacts
    <3>2. Follow(fs, <<>>) = <<>>
      BY <2>1, <3>1, NodeFollows DEF IsDir
    <3>3. QED BY <1>2, <3>1, <3>2 DEF Found, IsDir
  <2>3. Place(fs, Goal) \in DOMAIN fs /\ ~IsDir(fs, Place(fs, Goal))
    BY <1>2, <2>1, <2>2, FollowPlace DEF Found, IsLink, IsDir
  <2>4. QED BY <1>2, <2>1, <2>2, <2>3, PlaceSpot, LeaveEffect
<1>3. QED BY <1>1, <1>2 DEF Prepare

LEMMA LevelFacts ==
  ASSUME Hand, depth \in Nat, depth < Len(Goal)
  PROVE  /\ Level \in Path /\ Level # <<>> /\ IsPrefix(Level, target)
         /\ Spot(Place(fs, Level)) /\ Place(fs, Level) \in Path
<1>1. /\ target \in Path /\ Len(Goal) \in Nat /\ IsTree(fs) /\ Goal \in Path
      /\ \A d \in 0 .. Len(Goal) : Upto(Goal, d) \in Path /\ IsPrefix(Upto(Goal, d), target)
  BY GoalFacts DEF Hand
<1>2. depth + 1 \in 0 .. Len(Goal) /\ depth + 1 # 0
  BY <1>1
<1>3. Level \in Path /\ IsPrefix(Level, target) /\ Len(Level) = depth + 1
  BY <1>1, <1>2, UptoFacts DEF Level
<1>4. Level # <<>>
  BY <1>2, <1>3, UptoEnds
<1>5. QED BY <1>1, <1>3, <1>4, PlaceSpot

LEMMA MakeDirEffect ==
  ASSUME Hand, depth \in Nat, MakeDir
  PROVE  Effect
<1>1. /\ Spot(Place(fs, Level)) /\ IsTree(fs) /\ target \in Path
  BY LevelFacts, HandFacts DEF MakeDir, Hand
<1>2. CASE Found(fs, Level, "dir")
  BY <1>1, <1>2, NoEffect DEF MakeDir
<1>3. CASE ~Found(fs, Level, "dir")
  <2>1. MayCreate(Place(fs, Level)) /\ fs' = Enter(fs, Place(fs, Level), NewDir)
    BY <1>3 DEF MakeDir, Blocked
  <2>2. QED BY <1>1, <2>1, EnterEffect, NewNodes
<1>4. QED BY <1>2, <1>3

\* The file is truncated, and keeps its owner and mode, or it is new.
LEMMA CreateFileEffect ==
  ASSUME Hand, CreateFile
  PROVE  /\ Effect /\ SameLinks(fs, fs')
         /\ Found(fs', target, "file") /\ fs'[Follow(fs, target)].of = at
<1> DEFINE p == Follow(fs, target)
           node == NewFile(at, IF Rec.kind = "file" THEN "none" ELSE "whole")
           kept == [node EXCEPT !.owner = fs[p].owner, !.mode = fs[p].mode]
<1>1. /\ node \in Node /\ node.type = "file" /\ node.of = at /\ node.to = <<>>
      /\ Spot(p) /\ p \in Path /\ IsTree(fs) /\ target \in Path
  BY HandFacts, NewNodes DEF Hand, NewFile, Plain
<1>2. /\ phase = "create" /\ ~Blocked
      /\ fs' = IF MayTruncate THEN [fs EXCEPT ![p] = kept] ELSE Enter(fs, p, node)
  BY DEF CreateFile
<1> HIDE DEF p, node
<1>3. CASE MayTruncate
  <2>1. p \in DOMAIN fs /\ fs[p].type = "file"
    BY <1>3 DEF MayTruncate, Found, p
  <2>2. fs[p] \in Node
    BY <1>1, <2>1, TreeFacts
  <2>3. kept \in Node /\ kept.type = "file" /\ kept.of = at
    BY <1>1, <2>2 DEF Node
  <2>4. fs' = [fs EXCEPT ![p] = kept]
    BY <1>2, <1>3
  <2> HIDE DEF kept
  <2>5. Effect /\ DOMAIN fs' = DOMAIN fs /\ fs'[p] = kept /\ SameLinks(fs, fs')
    BY <1>1, <2>1, <2>3, <2>4, ChangeEffect DEF Fits
  <2>6. Follow(fs', target) = p
    BY <1>1, <2>5, SameFollow DEF Effect, p
  <2>7. QED BY <2>1, <2>3, <2>5, <2>6 DEF Found, p
<1>4. CASE ~MayTruncate
  <2>1. MayCreate(p) /\ fs' = Enter(fs, p, node)
    BY <1>2, <1>4 DEF Blocked, MayCreateFile, p
  <2>2. Effect /\ DOMAIN fs' = DOMAIN fs \cup {p} /\ fs'[p] = node
    BY <1>1, <2>1, EnterEffect
  <2>3. SameLinks(fs, fs')
    BY <1>1, <2>1, EnterKeepsLinks DEF MayCreate, MayChange, IsDir
  <2>4. Follow(fs', target) = p
    BY <1>1, <2>2, <2>3, SameFollow DEF Effect, p
  <2>5. QED BY <1>1, <2>2, <2>3, <2>4 DEF Found, p
<1>5. QED BY <1>3, <1>4

LEMMA FillEffect ==
  ASSUME Hand, NEW part \in {"none", "part", "whole", "wrong"}, Fill(part)
  PROVE  /\ Effect /\ SameLinks(fs, fs') /\ DOMAIN fs' = DOMAIN fs
         /\ Found(fs, target, "file") =>
              /\ Found(fs', target, "file")
              /\ fs'[Follow(fs, target)].of = fs[Follow(fs, target)].of
              /\ fs'[Follow(fs, target)].part = part
<1> DEFINE p == Follow(fs, target)
           node == [fs[p] EXCEPT !.part = part, !.times = 0]
<1>1. Spot(p) /\ p \in Path /\ IsTree(fs) /\ target \in Path
  BY HandFacts DEF Hand
<1>2. fs' = [fs EXCEPT ![p] = node]
  BY DEF Fill
<1> HIDE DEF p
<1>3. p \in DOMAIN fs => /\ node \in Node /\ node.type = fs[p].type /\ node.to = fs[p].to
                         /\ node.of = fs[p].of /\ node.part = part
  <2>1. p \in DOMAIN fs => fs[p] \in Node
    BY <1>1, TreeFacts
  <2>2. QED BY <2>1 DEF Node
<1> HIDE DEF node
<1>4. /\ Effect /\ DOMAIN fs' = DOMAIN fs /\ (p \in DOMAIN fs => fs'[p] = node)
      /\ SameLinks(fs, fs')
  BY <1>1, <1>2, <1>3, ChangeEffect DEF Fits
<1>5. Follow(fs', target) = p
  BY <1>1, <1>4, SameFollow DEF Effect, p
<1>6. QED BY <1>3, <1>4, <1>5 DEF Found, p

LEMMA SymlinkEffect ==
  ASSUME Hand, Symlink
  PROVE  /\ Effect
         /\ Place(fs', target) = Place(fs, target) /\ Place(fs, target) \in DOMAIN fs'
         /\ fs'[Place(fs, target)] = NewLink(Rec.to)
<1> DEFINE p == Place(fs, target)
           node == NewLink(Rec.to)
<1>1. /\ node \in Node /\ node.to = Rec.to
      /\ Spot(p) /\ p \in Path /\ IsTree(fs) /\ target \in Path /\ target # <<>>
  BY HandFacts, NewNodes DEF Hand
<1>2. phase = "symlink" /\ MayCreate(p) /\ fs' = Enter(fs, p, node)
  BY DEF Symlink, Blocked
<1>3. Front(p) = Follow(fs, Front(target)) /\ Front(target) \in Path
  BY <1>1, FollowPlace, FrontFacts
<1> HIDE DEF p, node
<1>4. Effect /\ DOMAIN fs' = DOMAIN fs \cup {p} /\ fs'[p] = node
  BY <1>1, <1>2, EnterEffect
<1>5. Follow(fs', Front(target)) = Follow(fs, Front(target))
  BY <1>1, <1>2, <1>3, EnterKeepsWay DEF MayCreate, MayChange, IsDir
<1>6. Place(fs', target) = p
  BY <1>1, <1>5 DEF Place, p
<1>7. QED BY <1>4, <1>6 DEF p, node

LEMMA SetAttributeEffect ==
  ASSUME Hand, SetAttribute
  PROVE  /\ Effect /\ SameLinks(fs, fs') /\ DOMAIN fs' = DOMAIN fs
         /\ phase \in task.attributes => Exists(fs, target)
         /\ phase \notin task.attributes => fs' = fs
         /\ \A p \in DOMAIN fs : /\ fs'[p].type = fs[p].type /\ fs'[p].to = fs[p].to
                                 /\ fs'[p].of = fs[p].of /\ fs'[p].part = fs[p].part
         /\ LET p == Follow(fs, target) IN
            p \in DOMAIN fs =>
              \A a \in Attributes :
                fs'[p][a] = IF a = phase /\ a \in task.attributes THEN at ELSE fs[p][a]
<1> DEFINE p == Follow(fs, target)
           node == [fs[p] EXCEPT ![phase] = at]
<1>1. Spot(p) /\ p \in Path /\ IsTree(fs) /\ target \in Path /\ at \in Nat
  BY HandFacts DEF Hand
<1>2. /\ phase \in {"times", "owner", "mode"}
      /\ phase \in task.attributes => Exists(fs, target)
      /\ fs' = IF phase \in task.attributes THEN [fs EXCEPT ![p] = node] ELSE fs
  BY DEF SetAttribute, Attributes, Blocked
<1> HIDE DEF p
<1>3. p \in DOMAIN fs =>
        /\ node \in Node /\ node.type = fs[p].type /\ node.to = fs[p].to
        /\ node.of = fs[p].of /\ node.part = fs[p].part
        /\ \A a \in Attributes : node[a] = IF a = phase THEN at ELSE fs[p][a]
  <2> SUFFICES ASSUME p \in DOMAIN fs
               PROVE  /\ node \in Node /\ node.type = fs[p].type /\ node.to = fs[p].to
                      /\ node.of = fs[p].of /\ node.part = fs[p].part
                      /\ \A a \in Attributes : node[a] = IF a = phase THEN at ELSE fs[p][a]
    OBVIOUS
  <2>1. fs[p] \in Node
    BY <1>1, TreeFacts
  <2>2. CASE phase = "times"
    BY <1>1, <2>1, <2>2 DEF Node, Attributes
  <2>3. CASE phase = "owner"
    BY <1>1, <2>1, <2>3 DEF Node, Attributes
  <2>4. CASE phase = "mode"
    BY <1>1, <2>1, <2>4 DEF Node, Attributes
  <2>5. QED BY <1>2, <2>2, <2>3, <2>4
<1> HIDE DEF node
<1>4. CASE phase \in task.attributes
  <2>1. /\ Effect /\ DOMAIN fs' = DOMAIN fs /\ (p \in DOMAIN fs => fs'[p] = node)
        /\ SameLinks(fs, fs')
    BY <1>1, <1>2, <1>3, <1>4, ChangeEffect DEF Fits
  <2>2. \A q \in DOMAIN fs : q # p => fs'[q] = fs[q]
    BY <1>2, <1>4
  <2>3. QED BY <1>2, <1>3, <1>4, <2>1, <2>2 DEF p
<1>5. CASE phase \notin task.attributes
  <2>1. fs' = fs
    BY <1>2, <1>5
  <2>2. Effect /\ SameLinks(fs, fs')
    BY <1>1, <2>1, NoEffect DEF SameLinks, SameLink
  <2>3. QED BY <1>2, <1>5, <2>1, <2>2
<1>6. QED BY <1>4, <1>5

\* Every step while a record is in hand.
Calls == \/ Prepare \/ MakeDir \/ DirsMade \/ OpenSource \/ CreateFile
         \/ Copy \/ CopyFails \/ DecoderPanics \/ Symlink \/ SetAttribute
         \/ Report \/ CallFails

LEMMA CallEffect ==
  ASSUME Hand, depth \in Nat, Calls
  PROVE  /\ Effect /\ UNCHANGED <<archive, task, origin, at, target>>
         /\ depth' \in Nat
<1>1. /\ UNCHANGED <<archive, task, origin, at, target>>
      /\ depth' = depth \/ depth' = depth + 1
  BY DEF Calls, Prepare, MakeDir, DirsMade, OpenSource, CreateFile, Copy, CopyFails,
         DecoderPanics, Symlink, SetAttribute, Report, CallFails, Continue, given
<1>2. Effect
  <2>1. CASE Prepare
    BY <2>1, PrepareEffect
  <2>2. CASE MakeDir
    BY <2>2, MakeDirEffect
  <2>3. CASE DirsMade \/ OpenSource \/ Report \/ CallFails
    <3>1. fs' = fs
      BY <2>3 DEF DirsMade, OpenSource, Report, CallFails
    <3>2. QED BY <3>1, HandFacts, NoEffect DEF Hand
  <2>4. CASE CreateFile
    BY <2>4, CreateFileEffect
  <2>5. CASE Copy \/ CopyFails
    <3>1. \E part \in {"none", "part", "whole", "wrong"} : Fill(part)
      BY <2>5 DEF Copy, CopyFails
    <3>2. QED BY <3>1, FillEffect
  <2>8. CASE DecoderPanics
    <3>1. fs' = fs \/ Fill("part")
      BY <2>8 DEF DecoderPanics
    <3>2. QED BY <3>1, FillEffect, HandFacts, NoEffect DEF Hand
  <2>6. CASE Symlink
    BY <2>6, SymlinkEffect
  <2>7. CASE SetAttribute
    BY <2>7, SetAttributeEffect
  <2>9. QED BY <2>1, <2>2, <2>3, <2>4, <2>5, <2>6, <2>7, <2>8 DEF Calls
<1>3. QED BY <1>1, <1>2

-----------------------------------------------------------------------------
(* The tree stays one.                                                     *)

LEMMA Handed ==
  ASSUME IInv, TreeInv, Calls
  PROVE  phase \in Working /\ Hand
<1>1. phase \in Working
  <2>1. task.attributes \subseteq Attributes
    BY Numbers
  <2>2. QED BY <2>1 DEF Calls, Prepare, MakeDir, DirsMade, OpenSource, CreateFile, Copy, CopyFails,
               DecoderPanics, Symlink, SetAttribute, Report, CallFails, Blocked, Working
<1>2. QED BY <1>1 DEF Hand, TreeInv, IInv

\* Whether the record that is taken up goes on or fails at once.
LEMMA StartFacts ==
  ASSUME archive \in Archives, task \in Tasks, NEW i \in 1 .. Len(archive), Start(i),
         task.style # "named" => Selected(i)
  PROVE  /\ at' = i /\ target' = TargetOf(i) /\ target' \in Path /\ depth' = 0
         /\ UNCHANGED <<archive, task, origin, fs>>
         /\ phase' \in Working => InHandOK' /\ phase' = "prepare" /\ UNCHANGED verdicts
<1>1. /\ at' = i /\ target' = TargetOf(i) /\ depth' = 0 /\ UNCHANGED <<archive, task, origin, fs>>
      /\ \/ /\ Supported(archive[i].kind) /\ ~(task.style # "named" /\ Rejected(archive[i].path))
            /\ phase' = "prepare" /\ UNCHANGED verdicts
         \/ phase' \in {"next", "done"}
  BY DEF Start, Settle, given
<1>2. phase' \in Working =>
        /\ phase' = "prepare" /\ UNCHANGED verdicts
        /\ Supported(archive[i].kind) /\ ~(task.style # "named" /\ Rejected(archive[i].path))
  BY <1>1 DEF Working, Attributes
<1>3. phase' \in Working => InHandOK'
  BY <1>1, <1>2 DEF InHandOK, TargetOf, Inner, Supported, Rec, Selected, Rejected
<1>4. QED BY <1>1, <1>2, <1>3, GivenFacts

\* Which record that is.
LEMMA TurnFacts ==
  ASSUME IInv, TreeInv
  PROVE  /\ NextRecord => /\ Start(at + 1) /\ at + 1 \in 1 .. Len(archive)
                          /\ task.style # "named" => Selected(at + 1)
         /\ NamedRecord => /\ Start(Min(Matches)) /\ Min(Matches) \in 1 .. Len(archive)
                           /\ task.style = "named"
<1>1. at \in 0 .. Len(archive) /\ Len(archive) \in Nat /\ archive \in Archives /\ task \in Tasks
  BY GivenFacts DEF IInv, TreeInv
<1>2. QED BY <1>1, MatchFacts DEF NextRecord, NamedRecord

LEMMA TreeInvStep ==
  ASSUME IInv, TreeInv, [Next]_vars
  PROVE  TreeInv'
<1>1. archive \in Archives /\ task \in Tasks /\ Len(archive) \in Nat
  BY GivenFacts DEF IInv
<1>2. CASE Calls
  <2>1. Hand /\ depth \in Nat
    BY <1>2, Handed DEF TreeInv
  <2>2. /\ Effect /\ UNCHANGED <<archive, task, origin, at, target>> /\ depth' \in Nat
    BY <1>2, <2>1, CallEffect
  <2>3. InHandOK'
    BY <2>1, <2>2, InHandKept DEF Hand
  <2>4. QED BY <2>2, <2>3 DEF TreeInv, Effect
<1>3. ASSUME NEW i \in 1 .. Len(archive), Start(i), task.style # "named" => Selected(i)
      PROVE  TreeInv'
  BY <1>1, <1>3, StartFacts DEF TreeInv
<1>4. CASE NextRecord \/ NamedRecord
  BY <1>3, <1>4, TurnFacts
<1>5. CASE PassRecord \/ Return
  <2>1. /\ UNCHANGED <<archive, origin, fs, target, depth>> /\ phase' \in {"next", "done"}
        /\ at' = at \/ (at < Len(archive) /\ at' = at + 1)
    BY <1>5 DEF PassRecord, Return, given
  <2>2. at' \in 0 .. Len(archive)
    BY <1>1, <2>1 DEF TreeInv
  <2>3. phase' \notin Working
    BY <2>1 DEF Working, Attributes
  <2>4. QED BY <2>1, <2>2, <2>3 DEF TreeInv
<1>6. CASE UNCHANGED vars
  <2>1. InHandOK => InHandOK'
    BY <1>6, InHandKept DEF vars
  <2>2. QED BY <1>6, <2>1 DEF TreeInv, vars
<1>7. QED BY <1>2, <1>4, <1>5, <1>6 DEF Next, Calls

LEMMA TreeInvInit ==
  ASSUME Init
  PROVE  TreeInv
<1>1. /\ archive \in Archives /\ task \in Tasks /\ origin \in Disks /\ fs = origin
      /\ at = 0 /\ target = <<>> /\ depth = 0 /\ phase = "next"
  BY DEF Init
<1>2. IsTree(fs) /\ Len(archive) \in Nat /\ <<>> \in Path
  BY <1>1, ExtractionConstantsOK, GivenFacts DEF Path
<1>3. phase \notin Working
  BY <1>1 DEF Working, Attributes
<1>4. QED BY <1>1, <1>2, <1>3 DEF TreeInv

LEMMA SelectionIn ==
  ASSUME IInv
  PROVE  Selection \subseteq 1 .. Len(archive)
<1>1. CASE task.style # "named"
  BY <1>1, Numbers
<1>2. CASE task.style = "named"
  BY <1>2, MatchFacts DEF Selection, IInv
<1>3. QED BY <1>1, <1>2

LEMMA TypesFollow ==
  ASSUME IInv, TreeInv, outcome \in {"none", "ok", "failed", "not_found", "panic"}
  PROVE  TypeOK
<1>1. Selection \subseteq 1 .. Len(archive)
  BY SelectionIn
<1>2. verdicts \in Seq([record : 1 .. Len(archive), verdict : {"extracted", "warned", "failed"}])
  <2> DEFINE S == [record : Selection, verdict : Verdicts]
             T == [record : 1 .. Len(archive), verdict : {"extracted", "warned", "failed"}]
  <2>1. S \subseteq T
    BY <1>1 DEF Verdicts
  <2>2. verdicts \in Seq(S)
    BY DEF IInv, Entries
  <2> HIDE DEF S, T
  <2>3. verdicts \in Seq(T)
    BY <2>1, <2>2
  <2>4. QED BY <2>3 DEF T
<1>3. phase \in {"next", "prepare", "mkdir", "open", "create", "copy", "symlink",
                 "report", "done"} \cup Attributes
  BY DEF IInv, Working
<1>4. archive \in Archives /\ task \in Tasks
  BY DEF IInv
<1>5. /\ origin \in Disks /\ IsTree(fs) /\ at \in 0 .. Len(archive)
      /\ target \in Seq(STRING) /\ depth \in Nat
  BY DEF TreeInv, Path, Names
<1>6. QED BY <1>2, <1>3, <1>4, <1>5 DEF TypeOK

LEMMA OutcomeStep ==
  ASSUME outcome \in {"none", "ok", "failed", "not_found", "panic"}, [Next]_vars
  PROVE  outcome' \in {"none", "ok", "failed", "not_found", "panic"}
BY DEF Next, vars, NextRecord, PassRecord, NamedRecord, Return, Prepare, MakeDir, DirsMade,
       OpenSource, CreateFile, Copy, CopyFails, DecoderPanics, Symlink, SetAttribute, Report,
       CallFails, Start, Settle, Continue

(* Whatever is on the disk and in the archive, and whatever fails: what is    *)
(* left of the disk is a tree of nodes, each in directories all the way up.   *)
THEOREM ExtractionTypeCorrect == Spec => []TypeOK
<1> DEFINE Inv == /\ IInv /\ TreeInv
                  /\ outcome \in {"none", "ok", "failed", "not_found", "panic"}
<1>1. Init => Inv
  BY InitOK, TreeInvInit DEF Init
<1>2. Inv /\ [Next]_vars => Inv'
  BY StepOK, TreeInvStep, OutcomeStep DEF Good
<1>3. Inv => TypeOK
  BY TypesFollow
<1>4. QED BY <1>1, <1>2, <1>3, PTL DEF Spec

-----------------------------------------------------------------------------
(* Nothing else is touched.                                                *)

\* A link says what one did at the beginning, or what a record says.
LinkKnown(to) ==
  \/ \E i \in 1 .. at : archive[i].kind = "link" /\ archive[i].to = to
  \/ \E q \in DOMAIN origin : origin[q].type = "link" /\ origin[q].to = to

LinksKnown == \A p \in DOMAIN fs : IsLink(fs, p) => LinkKnown(fs[p].to)

OthersInv ==
  /\ OthersUntouched /\ LinksKnown
  /\ phase = "symlink" => Rec.kind = "link"
  /\ task.style = "named" /\ phase = "next" /\ verdicts = <<>> => at = 0

\* What is above a spot of the record in hand is concerned.
LEMMA SpotConcerned ==
  ASSUME Hand, origin \in Disks, OthersInv, NEW s, Spot(s), NEW p \in Path, IsPrefix(p, s)
  PROVE  Concerned(p)
<1>1. target \in Path /\ at \in 1 .. at /\ target = TargetOf(at) /\ Len(archive) \in Nat
      /\ \A i \in 1 .. at : i \in 1 .. Len(archive)
  BY HandFacts, GivenFacts DEF Hand, InHandOK
<1>2. CASE IsPrefix(s, target)
  <2>1. IsPrefix(p, TargetOf(at))
    BY <1>1, <1>2, PrefixTransitive DEF Spot
  <2>2. task.style # "named" =>
          Selected(at) /\ \A k \in DOMAIN archive[at].path : archive[at].path[k] \notin {"/", ".."}
    BY DEF Hand, InHandOK, Rejected, Rec
  <2>3. QED BY <1>1, <2>1, <2>2 DEF Concerned
<1>3. CASE \E l \in DOMAIN fs : IsLink(fs, l) /\ IsPrefix(fs[l].to, s)
  <2>1. PICK l \in DOMAIN fs : IsLink(fs, l) /\ IsPrefix(fs[l].to, s)
    BY <1>3
  <2>2. fs[l].to \in Path
    BY TreeFacts DEF Hand
  <2>3. Related(p, fs[l].to)
    BY <2>1, <2>2, PrefixesRelated DEF Spot, Related
  <2>4. LinkKnown(fs[l].to)
    BY <2>1 DEF OthersInv, LinksKnown
  <2>5. QED BY <2>3, <2>4 DEF LinkKnown, Concerned
<1>4. QED BY <1>2, <1>3 DEF Spot

\* As records are taken up, what is concerned and known remains so.
LEMMA ConcernedGrows ==
  ASSUME UNCHANGED <<archive, task, origin>>, at \in Nat, at' \in Nat, at <= at'
  PROVE  /\ \A p : Concerned(p) => Concerned(p)'
         /\ \A to : LinkKnown(to) => LinkKnown(to)'
<1>1. \A i \in 1 .. at : i \in 1 .. at'
  OBVIOUS
<1>2. \A p : Concerned(p) => Concerned(p)'
  BY <1>1 DEF Concerned, Selected, TargetOf, Inner
<1>3. \A to : LinkKnown(to) => LinkKnown(to)'
  BY <1>1 DEF LinkKnown
<1>4. QED BY <1>2, <1>3

\* A step of the record in hand.
LEMMA CallUntouched ==
  ASSUME IInv, TreeInv, OthersInv, Calls
  PROVE  OthersUntouched' /\ LinksKnown'
<1>1. Hand /\ depth \in Nat /\ origin \in Disks /\ at \in Nat
  BY Handed, HandFacts DEF TreeInv
<1>2. Effect /\ UNCHANGED <<archive, task, origin, at, target>>
  BY <1>1, CallEffect
<1>3. /\ \A p : Concerned(p) => Concerned(p)'
      /\ \A to : LinkKnown(to) => LinkKnown(to)'
  BY <1>1, <1>2, ConcernedGrows
<1>4. DOMAIN fs \subseteq Path /\ DOMAIN fs' \subseteq Path /\ DOMAIN origin \subseteq Path
  BY <1>1, <1>2, TreeFacts, ExtractionConstantsOK DEF Effect, Hand
<1>5. \A p \in Path : Concerned(p) \/ SameNode(fs, fs', p)
  <2>1. PICK s : Spot(s) /\ \A p \in Path : ~IsPrefix(p, s) => SameNode(fs, fs', p)
    BY <1>2 DEF Effect
  <2>2. \A p \in Path : IsPrefix(p, s) => Concerned(p)
    BY <1>1, <2>1, SpotConcerned
  <2>3. QED BY <2>1, <2>2
<1>6. ASSUME NEW p \in DOMAIN fs' \cup DOMAIN origin, ~Concerned(p)
      PROVE  p \in DOMAIN fs' /\ p \in DOMAIN origin /\ fs'[p] = origin[p]
  <2>1. SameNode(fs, fs', p)
    BY <1>4, <1>5, <1>6
  <2>2. p \in DOMAIN fs \cup DOMAIN origin
    BY <2>1 DEF SameNode
  <2>3. p \in DOMAIN fs /\ p \in DOMAIN origin /\ fs[p] = origin[p]
    BY <1>6, <2>2 DEF OthersInv, OthersUntouched
  <2>4. QED BY <2>1, <2>3 DEF SameNode
<1>7. OthersUntouched'
  BY <1>2, <1>3, <1>6 DEF OthersUntouched
<1>8. ASSUME NEW p \in DOMAIN fs', IsLink(fs', p), NEW to, to = fs'[p].to PROVE LinkKnown(to)
  <2>1. CASE IsLink(fs, p) /\ fs'[p].to = fs[p].to
    BY <1>8, <2>1 DEF OthersInv, LinksKnown, IsLink
  <2>2. CASE phase = "symlink" /\ fs'[p].to = Rec.to
    <3>1. at \in 1 .. at
      BY <1>1, HandFacts
    <3>2. QED BY <1>8, <2>2, <3>1 DEF OthersInv, LinkKnown, Rec
  <2>3. QED BY <1>2, <1>4, <1>8, <2>1, <2>2 DEF Effect
<1>9. \A p \in DOMAIN fs' : IsLink(fs', p) => \A to : to = fs'[p].to => LinkKnown(to)'
  BY <1>3, <1>8
<1>10. LinksKnown'
  BY <1>9 DEF LinksKnown, LinkKnown
<1>11. QED BY <1>7, <1>10

\* A step that leaves the tree alone, and takes up no earlier record.
LEMMA TreeUntouched ==
  ASSUME OthersInv, UNCHANGED <<archive, task, origin, fs>>, at \in Nat, at' \in Nat, at <= at'
  PROVE  OthersUntouched' /\ LinksKnown'
<1>1. /\ \A p : Concerned(p) => Concerned(p)'
      /\ \A to : LinkKnown(to) => LinkKnown(to)'
  BY ConcernedGrows
<1>2. OthersUntouched'
  BY <1>1 DEF OthersInv, OthersUntouched
<1>3. \A p \in DOMAIN fs : IsLink(fs, p) => \A to : to = fs[p].to => LinkKnown(to)'
  BY <1>1 DEF OthersInv, LinksKnown
<1>4. LinksKnown'
  BY <1>3 DEF LinksKnown, LinkKnown, IsLink
<1>5. QED BY <1>2, <1>4

LEMMA OthersInvStep ==
  ASSUME IInv, TreeInv, OthersInv, [Next]_vars
  PROVE  OthersInv'
<1>1. at \in Nat /\ Len(archive) \in Nat /\ at \in 0 .. Len(archive)
      /\ archive \in Archives /\ task \in Tasks
  BY GivenFacts DEF TreeInv, IInv
<1>2. CASE Calls
  <2>1. UNCHANGED <<archive, task, at>>
    BY <1>2, CallEffect, Handed DEF TreeInv
  <2>2. phase' = "symlink" => Rec.kind = "link"
    BY <1>2 DEF Calls, Prepare, MakeDir, DirsMade, OpenSource, CreateFile, Copy, CopyFails,
         DecoderPanics, Symlink, SetAttribute, Report, CallFails, Continue, Settle, AfterDirs
  <2>3. verdicts' # <<>> \/ phase' # "next"
    <3>1. verdicts \in Entries /\ AfterDirs # "next"
      BY DEF IInv, AfterDirs
    <3>2. \A e : Append(verdicts, e) # <<>>
      BY <3>1 DEF Entries
    <3>3. QED BY <1>2, <3>1, <3>2
         DEF Calls, Prepare, MakeDir, DirsMade, OpenSource, CreateFile, Copy,
                CopyFails, DecoderPanics, Symlink, SetAttribute, Report, CallFails, Continue, Settle
  <2>4. QED BY <1>2, <2>1, <2>2, <2>3, CallUntouched DEF OthersInv, Rec
<1>3. ASSUME NEW i \in 1 .. Len(archive), Start(i), task.style # "named" => Selected(i), at <= i
      PROVE  OthersInv'
  <2>1. /\ at' = i /\ UNCHANGED <<archive, task, origin, fs>>
        /\ phase' \in Working => phase' = "prepare"
    BY <1>1, <1>3, StartFacts
  <2>2. phase' # "symlink" /\ (verdicts' # <<>> \/ phase' # "next")
    <3>1. \A e : Append(verdicts, e) # <<>>
      BY DEF IInv, Entries
    <3>2. QED BY <1>3, <3>1 DEF Start, Settle
  <2>3. QED BY <1>1, <1>3, <2>1, <2>2, TreeUntouched DEF OthersInv
<1>4. CASE NextRecord
  BY <1>1, <1>3, <1>4, TurnFacts
<1>5. CASE NamedRecord
  <2>1. at = 0
    BY <1>5 DEF NamedRecord, OthersInv
  <2>2. QED BY <1>1, <1>3, <1>5, <2>1, TurnFacts
<1>6. CASE PassRecord \/ Return
  <2>1. /\ UNCHANGED <<archive, task, origin, fs, verdicts>> /\ phase' \in {"next", "done"}
        /\ at' = at \/ (at' = at + 1 /\ task.style # "named")
        /\ phase = "next"
    BY <1>6 DEF PassRecord, Return, given
  <2>2. QED BY <1>1, <2>1, TreeUntouched DEF OthersInv
<1>7. CASE UNCHANGED vars
  BY <1>1, <1>7, TreeUntouched DEF vars, OthersInv, Rec
<1>8. QED BY <1>2, <1>4, <1>5, <1>6, <1>7 DEF Next, Calls

LEMMA OthersInvInit ==
  ASSUME Init
  PROVE  OthersInv
BY DEF Init, OthersInv, OthersUntouched, LinksKnown, IsLink, LinkKnown

(* Whatever is on the disk, whatever links the archive and the disk have and  *)
(* whatever fails: only what lies on the path of a selected record that is    *)
(* not rejected (archive.rs:208-217), or where a link leads, is touched.      *)
THEOREM NothingElseTouched == Spec => []OthersUntouched
<1>1. Init => IInv /\ TreeInv /\ OthersInv
  BY InitOK, TreeInvInit, OthersInvInit
<1>2. IInv /\ TreeInv /\ OthersInv /\ [Next]_vars => (IInv /\ TreeInv /\ OthersInv)'
  BY StepOK, TreeInvStep, OthersInvStep DEF Good
<1>3. OthersInv => OthersUntouched
  BY DEF OthersInv
<1>4. QED BY <1>1, <1>2, <1>3, PTL DEF Spec

-----------------------------------------------------------------------------
(* What is reported is there.                                              *)

FileMine == Found(fs, target, "file") /\ fs[Follow(fs, target)].of = at

\* The entry of the record in hand, but for its attributes.
EntryMade ==
  /\ Rec.kind = "dir" => Found(fs, target, "dir")
  /\ Rec.kind \in {"file", "device"} => FileMine
  /\ (Rec.kind = "file" /\ Rec.data = "good" /\ ~LostFlush)
       => fs[Follow(fs, target)].part \in Extracted(Rec)
  /\ Rec.kind = "link" =>
       Place(fs, target) \in DOMAIN fs /\ fs[Place(fs, target)].to = Rec.to

AlreadySet(p) ==
  CASE p = "times" -> {}
    [] p = "owner" -> {"times"}
    [] p = "mode"  -> {"times", "owner"}
    [] OTHER       -> Attributes

AttributesSet ==
  \A a \in task.attributes \cap AlreadySet(phase) : fs[Follow(fs, target)][a] = at

\* What has been done for the record in hand when its next call comes.
StageInv ==
  /\ phase = "prepare" => depth = 0
  /\ phase = "mkdir" => depth \in 0 .. Len(Goal) /\ Found(fs, Upto(Goal, depth), "dir")
  /\ phase = "open" => Rec.kind = "file"
  /\ phase = "create" => Rec.kind \in {"file", "device"}
  /\ phase = "symlink" => Rec.kind = "link"
  /\ phase = "copy" => Rec.kind = "file" /\ FileMine
  /\ phase \in Attributes \cup {"report"} => EntryMade /\ AttributesSet

\* Behind create_dir_all.
LEMMA DirsDone ==
  ASSUME Hand, UNCHANGED <<archive, at, target, fs>>, phase' = AfterDirs,
         Found(fs, Goal, "dir")
  PROVE  StageInv'
<1>1. Rec.kind \in {"dir", "file", "link", "device"}
  BY DEF Hand, InHandOK, Supported
<1>2. CASE Rec.kind = "dir"
  <2>1. phase' = "times" /\ Goal = target
    BY <1>2 DEF AfterDirs, Goal
  <2>2. EntryMade'
    BY <1>2, <2>1 DEF EntryMade, Rec, Found
  <2>3. AttributesSet'
    BY <2>1 DEF AttributesSet, AlreadySet
  <2>4. QED BY <2>1, <2>2, <2>3 DEF StageInv
<1>3. CASE Rec.kind # "dir"
  <2>1. \/ phase' = "open" /\ Rec.kind = "file"
        \/ phase' = "symlink" /\ Rec.kind = "link"
        \/ phase' = "create" /\ Rec.kind = "device"
    BY <1>1, <1>3 DEF AfterDirs
  <2>2. QED BY <2>1 DEF StageInv, Rec, Attributes
<1>4. QED BY <1>2, <1>3

LEMMA RootFound ==
  ASSUME NEW f, IsTree(f), NEW p \in Path
  PROVE  Found(f, Upto(p, 0), "dir")
<1>1. Upto(p, 0) = <<>> /\ IsDir(f, <<>>)
  BY UptoEnds, TreeFacts
<1>2. Follow(f, <<>>) = <<>>
  BY <1>1, NodeFollows DEF IsDir
<1>3. QED BY <1>1, <1>2 DEF Found, IsDir

LEMMA PrepareStage ==
  ASSUME Hand, StageInv, Prepare
  PROVE  StageInv'
<1>1. /\ UNCHANGED <<archive, at, target, depth>> /\ depth = 0
      /\ \/ Found(fs, Goal, "dir") /\ fs' = fs /\ phase' = AfterDirs
         \/ phase' = "mkdir"
  BY DEF Prepare, Continue, given, StageInv
<1>2. CASE Found(fs, Goal, "dir") /\ fs' = fs /\ phase' = AfterDirs
  BY <1>1, <1>2, DirsDone
<1>3. CASE phase' = "mkdir"
  <2>1. Goal \in Path /\ Len(Goal) \in Nat /\ IsTree(fs') /\ Goal' = Goal
    BY <1>1, GoalFacts, PrepareEffect DEF Hand, Effect, Goal, Rec
  <2>2. Found(fs', Upto(Goal, 0), "dir")
    BY <2>1, RootFound
  <2>3. depth' \in 0 .. Len(Goal') /\ Found(fs', Upto(Goal', depth'), "dir")
    BY <1>1, <2>1, <2>2
  <2>4. Found(fs, Upto(Goal, depth), "dir")'
    BY <2>3 DEF Found
  <2>5. QED BY <1>3, <2>3, <2>4 DEF StageInv, Attributes
<1>4. QED BY <1>1, <1>2, <1>3

LEMMA MakeDirStage ==
  ASSUME Hand, depth \in Nat, StageInv, MakeDir
  PROVE  StageInv'
<1> DEFINE p == Place(fs, Level)
<1>1. /\ UNCHANGED <<archive, at, target>> /\ phase' = "mkdir" /\ depth' = depth + 1
      /\ depth < Len(Goal) /\ Len(Goal) \in Nat /\ Goal' = Goal
  BY GoalFacts DEF MakeDir, Continue, given, Hand, Goal, Rec
<1>2. Level \in Path /\ Level # <<>> /\ Spot(p) /\ p \in Path /\ IsTree(fs)
  BY LevelFacts, <1>1 DEF Hand
<1> HIDE DEF p
<1>3. Found(fs', Level, "dir")
  <2>1. CASE Found(fs, Level, "dir")
    BY <2>1 DEF MakeDir
  <2>2. CASE ~Found(fs, Level, "dir")
    <3>1. MayCreate(p) /\ fs' = Enter(fs, p, NewDir)
      BY <2>2 DEF MakeDir, Blocked, p
    <3>2. Follow(fs, Level) = p
      BY <1>2, <3>1, FollowPlace DEF IsLink, MayCreate, p
    <3>3. Effect /\ DOMAIN fs' = DOMAIN fs \cup {p} /\ fs'[p] = NewDir
      <4>1. NewDir \in Node /\ NewDir.type # "link"
        BY NewNodes
      <4>2. QED BY <1>2, <3>1, <4>1, EnterEffect
    <3>4. SameLinks(fs, fs')
      BY <1>2, <3>1, EnterKeepsLinks, NewNodes DEF MayCreate, MayChange, IsDir
    <3>5. Follow(fs', Level) = p
      BY <1>2, <3>2, <3>3, <3>4, SameFollow DEF Effect
    <3>6. QED BY <3>3, <3>5, NewNodes DEF Found
  <2>3. QED BY <2>1, <2>2
<1>4. depth' \in 0 .. Len(Goal') /\ Found(fs', Upto(Goal', depth'), "dir")
  BY <1>1, <1>3 DEF Level
<1>5. Found(fs, Upto(Goal, depth), "dir")'
  BY <1>4 DEF Found
<1>6. QED BY <1>1, <1>4, <1>5 DEF StageInv, Attributes

LEMMA DirsMadeStage ==
  ASSUME Hand, StageInv, DirsMade
  PROVE  StageInv'
<1>1. /\ UNCHANGED <<archive, at, target, fs>> /\ phase' = AfterDirs
      /\ Found(fs, Upto(Goal, Len(Goal)), "dir")
  BY DEF DirsMade, Continue, given, StageInv
<1>2. Upto(Goal, Len(Goal)) = Goal
  BY GoalFacts, UptoEnds DEF Hand
<1>3. QED BY <1>1, <1>2, DirsDone

LEMMA CreateFileStage ==
  ASSUME Hand, StageInv, CreateFile
  PROVE  StageInv'
<1>1. /\ UNCHANGED <<archive, at, target>> /\ Rec.kind \in {"file", "device"}
      /\ phase' = IF Rec.kind = "file" THEN "copy" ELSE "times"
  BY DEF CreateFile, Continue, given, StageInv
<1>2. /\ Effect /\ SameLinks(fs, fs')
      /\ Found(fs', target, "file") /\ fs'[Follow(fs, target)].of = at
  BY CreateFileEffect
<1>3. Follow(fs', target) = Follow(fs, target)
  BY <1>2, SameFollow, HandFacts DEF Hand, Effect
<1>4. FileMine'
  BY <1>1, <1>2, <1>3 DEF FileMine, Found
<1>5. CASE Rec.kind = "file"
  BY <1>1, <1>4, <1>5 DEF StageInv, Rec, Attributes
<1>6. CASE Rec.kind = "device"
  BY <1>1, <1>4, <1>6 DEF StageInv, Rec, EntryMade, AttributesSet, AlreadySet
<1>7. QED BY <1>1, <1>5, <1>6

LEMMA CopyStage ==
  ASSUME Hand, StageInv, Copy
  PROVE  StageInv'
<1>1. /\ UNCHANGED <<archive, at, target>> /\ Rec.kind = "file" /\ FileMine /\ phase' = "times"
  BY DEF Copy, Continue, given, StageInv
<1>2. PICK part \in {"part", "whole", "wrong"} :
        Fill(part) /\ (Rec.data = "good" /\ ~LostFlush => part \in Extracted(Rec))
  BY DEF Copy, Extracted
<1>3. /\ Effect /\ SameLinks(fs, fs') /\ Found(fs', target, "file")
      /\ fs'[Follow(fs, target)].of = at /\ fs'[Follow(fs, target)].part = part
  BY <1>1, <1>2, FillEffect DEF FileMine
<1>4. Follow(fs', target) = Follow(fs, target)
  BY <1>3, SameFollow, HandFacts DEF Hand, Effect
<1>5. FileMine'
  BY <1>1, <1>3, <1>4 DEF FileMine, Found
<1>6. EntryMade'
  BY <1>1, <1>2, <1>3, <1>4, <1>5 DEF EntryMade, Rec, Extracted
<1>7. QED BY <1>1, <1>6 DEF StageInv, AttributesSet, AlreadySet

LEMMA SymlinkStage ==
  ASSUME Hand, StageInv, Symlink
  PROVE  StageInv'
<1>1. /\ UNCHANGED <<archive, at, target>> /\ Rec.kind = "link" /\ phase' = "times"
  BY DEF Symlink, Continue, given, StageInv
<1>2. /\ Place(fs', target) \in DOMAIN fs'
      /\ fs'[Place(fs', target)].to = Rec.to
  BY SymlinkEffect, NewNodes, HandFacts
<1>3. EntryMade'
  BY <1>1, <1>2 DEF EntryMade, Rec
<1>4. QED BY <1>1, <1>3 DEF StageInv, AttributesSet, AlreadySet

LEMMA SetAttributeStage ==
  ASSUME Hand, StageInv, SetAttribute
  PROVE  StageInv'
<1> DEFINE p == Follow(fs, target)
           place == Place(fs, target)
<1>1. /\ UNCHANGED <<archive, task, at, target>> /\ EntryMade /\ AttributesSet
      /\ \/ phase = "times" /\ phase' = "owner"
         \/ phase = "owner" /\ phase' = "mode"
         \/ phase = "mode" /\ phase' = "report"
  BY DEF SetAttribute, Continue, given, StageInv, Attributes
<1>2. /\ Effect /\ SameLinks(fs, fs') /\ DOMAIN fs' = DOMAIN fs
      /\ phase \in task.attributes => p \in DOMAIN fs
      /\ phase \notin task.attributes => fs' = fs
      /\ \A q \in DOMAIN fs : /\ fs'[q].type = fs[q].type /\ fs'[q].to = fs[q].to
                              /\ fs'[q].of = fs[q].of /\ fs'[q].part = fs[q].part
      /\ p \in DOMAIN fs => \A a \in Attributes :
           fs'[p][a] = IF a = phase /\ a \in task.attributes THEN at ELSE fs[p][a]
  BY SetAttributeEffect DEF Exists, Found
<1>3. Follow(fs', target) = p /\ Place(fs', target) = place
  BY <1>2, SameFollow, HandFacts DEF Hand, Effect
<1> HIDE DEF p, place
<1>4. EntryMade'
  <2>1. /\ Rec.kind = "dir" => p \in DOMAIN fs /\ fs[p].type = "dir"
        /\ Rec.kind \in {"file", "device"} =>
             p \in DOMAIN fs /\ fs[p].type = "file" /\ fs[p].of = at
        /\ (Rec.kind = "file" /\ Rec.data = "good" /\ ~LostFlush) => fs[p].part \in Extracted(Rec)
        /\ Rec.kind = "link" => place \in DOMAIN fs /\ fs[place].to = Rec.to
    BY <1>1 DEF EntryMade, FileMine, Found, p, place
  <2>2. /\ Rec.kind = "dir" => p \in DOMAIN fs' /\ fs'[p].type = "dir"
        /\ Rec.kind \in {"file", "device"} =>
             p \in DOMAIN fs' /\ fs'[p].type = "file" /\ fs'[p].of = at
        /\ (Rec.kind = "file" /\ Rec.data = "good" /\ ~LostFlush) => fs'[p].part \in Extracted(Rec)
        /\ Rec.kind = "link" => place \in DOMAIN fs' /\ fs'[place].to = Rec.to
    BY <1>2, <2>1
  <2>3. Rec' = Rec
    BY <1>1 DEF Rec
  <2>4. QED BY <1>1, <1>3, <2>2, <2>3 DEF EntryMade, FileMine, Found, Extracted
<1>5. AttributesSet'
  <2>1. ASSUME NEW a \in task.attributes, a \in AlreadySet(phase') PROVE fs'[p][a] = at
    <3>1. a \in Attributes /\ (a = phase \/ a \in AlreadySet(phase))
      BY <1>1, <2>1 DEF AlreadySet, Attributes
    <3>2. a \in AlreadySet(phase) => fs[p][a] = at
      BY <1>1, <2>1 DEF AttributesSet, p
    <3>3. CASE phase \in task.attributes
      BY <1>2, <2>1, <3>1, <3>2, <3>3
    <3>4. CASE phase \notin task.attributes
      BY <1>2, <2>1, <3>1, <3>2, <3>4
    <3>5. QED BY <3>3, <3>4
  <2>2. QED BY <1>1, <1>3, <2>1 DEF AttributesSet, AlreadySet
<1>6. QED BY <1>1, <1>4, <1>5 DEF StageInv, Attributes

LEMMA StageInvStep ==
  ASSUME IInv, TreeInv, StageInv, [Next]_vars
  PROVE  StageInv'
<1>1. Calls => Hand /\ depth \in Nat
  BY Handed DEF TreeInv
<1>2. CASE Prepare \/ MakeDir \/ DirsMade \/ CreateFile \/ Copy \/ Symlink \/ SetAttribute
  BY <1>1, <1>2, PrepareStage, MakeDirStage, DirsMadeStage, CreateFileStage, CopyStage,
     SymlinkStage, SetAttributeStage DEF Calls
<1>3. CASE OpenSource
  BY <1>3 DEF OpenSource, Continue, given, StageInv, Rec, Attributes
<1>4. CASE CopyFails \/ DecoderPanics \/ Report \/ CallFails \/ PassRecord \/ Return
  <2>1. phase' \in {"next", "done"}
    BY <1>4 DEF CopyFails, DecoderPanics, Report, CallFails, PassRecord, Return, Settle
  <2>2. QED BY <2>1 DEF StageInv, Attributes
<1>5. CASE NextRecord \/ NamedRecord
  <2>1. depth' = 0 /\ phase' \in {"prepare", "next", "done"}
    BY <1>5 DEF NextRecord, NamedRecord, Start, Settle
  <2>2. QED BY <2>1 DEF StageInv, Attributes
<1>6. CASE UNCHANGED vars
  BY <1>6 DEF vars, StageInv, Goal, Rec, Found, FileMine, EntryMade, AttributesSet, Attributes
<1>7. QED BY <1>2, <1>3, <1>4, <1>5, <1>6 DEF Next

\* When everything is done for the record in hand, the tree holds it.
LEMMA HandHolds ==
  ASSUME Hand, StageInv, phase = "report"
  PROVE  Holds(fs, at)
<1> DEFINE p == Follow(fs, target)
<1>1. target = TargetOf(at) /\ IsTree(fs) /\ EntryMade /\ AttributesSet
  BY DEF Hand, InHandOK, StageInv
<1>2. \A a \in task.attributes : fs[p][a] = at
  <2>1. task.attributes \subseteq Attributes
    BY GivenFacts DEF Hand, Task
  <2>2. AlreadySet(phase) = Attributes
    BY DEF AlreadySet
  <2>3. QED BY <1>1, <2>1, <2>2 DEF AttributesSet
<1>3. \A type \in {"dir", "file"} : Found(fs, target, type) => Found(fs, p, type)
  <2> SUFFICES ASSUME NEW type \in {"dir", "file"}, Found(fs, target, type)
               PROVE  Found(fs, p, type)
    OBVIOUS
  <2>1. p \in DOMAIN fs /\ fs[p].type = type /\ fs[p].type # "link"
    BY DEF Found
  <2>2. Follow(fs, p) = p
    BY <1>1, <2>1, NodeFollows
  <2>3. QED BY <2>1, <2>2 DEF Found
<1>4. QED BY <1>1, <1>2, <1>3 DEF Holds, EntryMade, FileMine, Rec

LEMMA StageInvInit ==
  ASSUME Init
  PROVE  StageInv
BY DEF Init, StageInv, Attributes

(* Whatever lay on the disk before and wherever its links lead: a record that *)
(* is reported extracted is on the disk, with all attributes asked for; no    *)
(* call of its extraction undoes an earlier one (archive.rs:446-591).         *)
THEOREM ReportedRecordsAreThere == Spec => ReportedIsOnDisk
<1> DEFINE Inv == IInv /\ TreeInv /\ StageInv
           There == \A v \in {"extracted", "warned"} :
                      verdicts' = Append(verdicts, [record |-> at, verdict |-> v]) => Holds(fs', at)
<1>1. Init => Inv
  BY InitOK, TreeInvInit, StageInvInit
<1>2. Inv /\ [Next]_vars => Inv'
  BY StepOK, TreeInvStep, StageInvStep DEF Good
<1>3. Inv /\ [Next]_vars => [There]_vars
  <2> SUFFICES ASSUME Inv, Next, NEW v \in {"extracted", "warned"},
                      verdicts' = Append(verdicts, [record |-> at, verdict |-> v])
               PROVE  Holds(fs', at)
    OBVIOUS
  <2>1. verdicts' # verdicts
    BY DEF IInv, Entries
  <2>2. ASSUME NEW i, Settle(i, "failed") PROVE FALSE
    <3>1. verdicts' = Append(verdicts, [record |-> i, verdict |-> "failed"])
      BY <2>2 DEF Settle
    <3>2. [record |-> i, verdict |-> "failed"] = [record |-> at, verdict |-> v]
      BY <3>1 DEF IInv, Entries
    <3>3. QED BY <3>2
  <2>3. Report
    BY <2>1, <2>2 DEF Next, NextRecord, PassRecord, NamedRecord, Return, Prepare, MakeDir, DirsMade,
       OpenSource, CreateFile, Copy, CopyFails, DecoderPanics, Symlink, SetAttribute, CallFails,
       Start, Continue
  <2>4. Holds(fs, at) /\ fs' = fs
    BY <2>3, Handed, HandHolds DEF Calls, Report
  <2>5. QED BY <2>4
<1>4. QED BY <1>1, <1>2, <1>3, PTL DEF Spec, ReportedIsOnDisk

-----------------------------------------------------------------------------
(* What is reported stays.                                                 *)

\* What was extracted had a kind that is extracted.
KindsKnown ==
  \A k \in DOMAIN verdicts : verdicts[k].verdict # "failed" =>
    archive[verdicts[k].record].kind \in {"dir", "file", "link", "device"}

\* KeptUntilSuperseded, of any tree and record that are the ones it names.
KeptAll ==
  NoLinks =>
    \A k \in DOMAIN verdicts : \A f, i :
      /\ f = fs /\ i = verdicts[k].record
      /\ verdicts[k].verdict # "failed" /\ ~Superseded(i)
      => Holds(f, i)

KeptInv == KeptAll /\ KindsKnown

LinkFree == \A p : ~IsLink(fs, p)

LEMMA NoLinkThere == TreeInv /\ OthersInv /\ NoLinks /\ Len(archive) \in Nat => LinkFree
<1> SUFFICES ASSUME TreeInv, OthersInv, NoLinks, Len(archive) \in Nat PROVE LinkFree
  OBVIOUS
<1>1. at \in 0 .. Len(archive) /\ \A i \in 1 .. at : i \in 1 .. Len(archive)
  BY DEF TreeInv
<1>2. \A to : ~LinkKnown(to)
  BY <1>1 DEF NoLinks, LinkKnown
<1>3. QED BY <1>2 DEF OthersInv, LinksKnown, IsLink, LinkFree

LEMMA PlainPaths ==
  ASSUME NEW f, IsTree(f), \A p : ~IsLink(f, p), NEW t \in Path, t # <<>>
  PROVE  Follow(f, t) = t /\ Place(f, t) = t
<1>1. \A p \in Path : LinksOn(f, p) = {}
  BY DEF LinksOn, IsLink
<1>2. \A p \in Path : Follow(f, p) = p
  BY <1>1, FollowFacts
<1>3. Front(t) \in Path /\ t = Append(Front(t), Last(t))
  BY FrontFacts
<1>4. QED BY <1>2, <1>3 DEF Place

\* Without links, what a record left is one node.
LEMMA HoldsByNode ==
  ASSUME NEW f, NEW g, IsTree(f), IsTree(g), \A p : ~IsLink(f, p), \A p : ~IsLink(g, p),
         NEW i, TargetOf(i) \in Path, TargetOf(i) # <<>>, SameNode(f, g, TargetOf(i)),
         archive[i].kind \in {"dir", "file", "device"}, Holds(f, i)
  PROVE  Holds(g, i)
<1> DEFINE t == TargetOf(i)
<1>1. Follow(f, t) = t /\ Follow(g, t) = t
  BY PlainPaths
<1>2. t \in DOMAIN f
  BY <1>1 DEF Holds, Found
<1>3. t \in DOMAIN g /\ g[t] = f[t]
  BY <1>2 DEF SameNode
<1> HIDE DEF t
<1>4. QED BY <1>1, <1>2, <1>3 DEF Holds, Found, t

LEMMA EntryMore ==
  ASSUME verdicts \in Entries, NEW e, verdicts' = Append(verdicts, e)
  PROVE  /\ DOMAIN verdicts' = DOMAIN verdicts \cup {Len(verdicts) + 1}
         /\ verdicts'[Len(verdicts) + 1] = e
         /\ \A k \in DOMAIN verdicts : verdicts'[k] = verdicts[k]
<1>1. Len(verdicts) \in Nat /\ DOMAIN verdicts = 1 .. Len(verdicts)
  BY DEF Entries
<1>2. /\ DOMAIN verdicts' = 1 .. Len(verdicts) + 1
      /\ verdicts'[Len(verdicts) + 1] = e
      /\ \A k \in 1 .. Len(verdicts) : verdicts'[k] = verdicts[k]
  BY DEF Entries
<1>3. 1 .. Len(verdicts) + 1 = 1 .. Len(verdicts) \cup {Len(verdicts) + 1}
  BY <1>1
<1>4. QED BY <1>1, <1>2, <1>3

\* A record that is not superseded later is not now.
LEMMA SupersededGrows ==
  ASSUME UNCHANGED <<archive, task>>, at \in Nat, at' \in Nat, at <= at', NEW i \in Nat
  PROVE  Superseded(i) => Superseded(i)'
<1>1. \A j \in i + 1 .. at : j \in i + 1 .. at'
  OBVIOUS
<1>2. QED BY <1>1 DEF Superseded, Selected, Rejected, TargetOf, Inner

LEMMA EntryFacts ==
  ASSUME IInv
  PROVE  \A k \in DOMAIN verdicts :
           /\ verdicts[k].record \in Selection /\ verdicts[k].record \in Tried
           /\ verdicts[k].record \in Nat
<1> DEFINE E == [record : Selection, verdict : Verdicts]
<1>1. verdicts \in Seq(E)
  BY DEF IInv, Entries
<1>2. \A e \in E : e.record \in Selection
  OBVIOUS
<1> HIDE DEF E
<1>3. DOMAIN verdicts = 1 .. Len(verdicts) /\ \A k \in 1 .. Len(verdicts) : verdicts[k] \in E
  BY <1>1
<1>4. \A k \in DOMAIN verdicts :
        verdicts[k].record \in Selection /\ verdicts[k].record \in Tried
  BY <1>2, <1>3 DEF Tried, Promise!Tried
<1>5. QED BY <1>4, SelectionIn

\* An entry that was there before a call of the record in hand.
LEMMA OlderKept ==
  ASSUME IInv, TreeInv, OthersInv, KeptInv, NoLinks, Calls, IsTree(fs'), \A p : ~IsLink(fs', p),
         NEW k \in DOMAIN verdicts, verdicts[k].verdict # "failed",
         NEW i, i = verdicts[k].record, ~Superseded(i)
  PROVE  Holds(fs', i)
<1>1. Hand /\ phase \in Working /\ depth \in Nat /\ Len(archive) \in Nat
  BY Handed, GivenFacts DEF TreeInv, IInv
<1>2. /\ i \in Selection /\ i \in Tried
      /\ i \in 1 .. Len(archive) /\ Selection \subseteq 1 .. Len(archive)
  BY EntryFacts, SelectionIn
<1>3. task.style # "named" /\ i < at
  BY <1>1, <1>2 DEF IInv, InOrder
<1>4. /\ target = TargetOf(at) /\ Selected(at) /\ ~Rejected(archive[at].path) /\ at \in Nat
      /\ target \in Path
  BY <1>1, <1>3, HandFacts DEF Hand, InHandOK, Rec
<1>5. ~Related(TargetOf(i), target)
  <2>1. at \in i + 1 .. at
    BY <1>2, <1>3, <1>4
  <2>2. QED BY <1>4, <2>1 DEF Superseded
<1>6. TargetOf(i) \in Path /\ TargetOf(i) # <<>>
  BY <1>1, <1>2, GivenFacts DEF Hand
<1>7. \A p : ~IsLink(fs, p)
  BY <1>1, NoLinkThere DEF LinkFree
<1>8. SameNode(fs, fs', TargetOf(i))
  <2>1. Effect
    BY <1>1, CallEffect
  <2>2. PICK s : Spot(s) /\ \A p \in Path : ~IsPrefix(p, s) => SameNode(fs, fs', p)
    BY <2>1 DEF Effect
  <2>3. s \in Path /\ IsPrefix(s, target)
    BY <1>7, <2>2 DEF Spot
  <2>4. ~IsPrefix(TargetOf(i), s)
    BY <1>4, <1>5, <1>6, <2>3, PrefixTransitive DEF Related
  <2>5. QED BY <1>6, <2>2, <2>4
<1>9. archive[i].kind \in {"dir", "file", "device"}
  BY <1>2 DEF KeptInv, KindsKnown, NoLinks
<1>10. Holds(fs, i)
  BY DEF KeptInv, KeptAll
<1>11. IsTree(fs)
  BY DEF TreeInv
<1>12. QED BY <1>6, <1>7, <1>8, <1>9, <1>10, <1>11, HoldsByNode

\* As long as no other record is in hand, the same is asked for.
LEMMA SameAsked ==
  ASSUME UNCHANGED <<archive, task, origin>>
  PROVE  /\ NoLinks' <=> NoLinks
         /\ \A f, i : Holds(f, i)' <=> Holds(f, i)
         /\ at' = at => \A i : Superseded(i)' <=> Superseded(i)
<1>1. NoLinks' <=> NoLinks
  BY DEF NoLinks
<1>2. \A i : TargetOf(i)' = TargetOf(i)
  BY DEF TargetOf, Inner
<1>3. ASSUME NEW f, NEW i PROVE Holds(f, i)' <=> Holds(f, i)
  BY DEF Holds, TargetOf, Inner
<1>4. ASSUME at' = at, NEW i PROVE Superseded(i)' <=> Superseded(i)
  BY <1>4 DEF Superseded, Selected, Rejected, TargetOf, Inner
<1>5. QED BY <1>1, <1>3, <1>4

\* The calls keep what is reported, and what they report is there.
LEMMA CallKept ==
  ASSUME IInv, TreeInv, OthersInv, StageInv, KeptInv, Calls, TreeInv', OthersInv'
  PROVE  KeptInv'
<1>1. /\ Hand /\ depth \in Nat /\ phase \in Working
      /\ Len(archive) \in Nat /\ verdicts \in Entries
  BY Handed, GivenFacts DEF TreeInv, IInv
<1>2. UNCHANGED <<archive, task, origin, at, target>>
  BY <1>1, CallEffect
<1>3. /\ NoLinks' <=> NoLinks
      /\ \A f, i : Holds(f, i)' <=> Holds(f, i)
      /\ \A i : Superseded(i)' <=> Superseded(i)
  BY <1>2, SameAsked
<1>4. \/ verdicts' = verdicts
      \/ \E v \in Verdicts :
           /\ verdicts' = Append(verdicts, [record |-> at, verdict |-> v])
           /\ v # "failed" => Report
  BY DEF Calls, Prepare, MakeDir, DirsMade, OpenSource, CreateFile, Copy, CopyFails,
         DecoderPanics, Symlink, SetAttribute, Report, CallFails, Continue, Settle, given, Verdicts
<1>5. ASSUME NoLinks, NEW k \in DOMAIN verdicts, verdicts[k].verdict # "failed",
             NEW i, i = verdicts[k].record, ~Superseded(i)
      PROVE  Holds(fs', i)
  <2>1. NoLinks' /\ (Len(archive) \in Nat)'
    BY <1>1, <1>2, <1>3, <1>5
  <2>2. LinkFree'
    BY <2>1, NoLinkThere, PTL
  <2>3. (\A p : ~IsLink(fs', p)) /\ IsTree(fs')
    BY <2>2 DEF LinkFree, IsLink, TreeInv
  <2>4. QED BY <1>5, <2>3, OlderKept
<1>6. ASSUME NEW v \in Verdicts, v # "failed", Report
      PROVE  Holds(fs', at) /\ Rec.kind \in {"dir", "file", "link", "device"}
  BY <1>1, <1>6, HandHolds DEF Report, Hand, InHandOK, Supported
<1>7. CASE verdicts' = verdicts
  <2>1. KindsKnown'
    BY <1>2, <1>7 DEF KeptInv, KindsKnown
  <2>2. KeptAll'
    BY <1>3, <1>5, <1>7 DEF KeptAll
  <2>3. QED BY <2>1, <2>2 DEF KeptInv
<1>8. ASSUME NEW v \in Verdicts, verdicts' = Append(verdicts, [record |-> at, verdict |-> v]),
             v # "failed" => Report
      PROVE  KeptInv'
  <2> DEFINE n == Len(verdicts) + 1
  <2>1. /\ DOMAIN verdicts' = DOMAIN verdicts \cup {n}
        /\ verdicts'[n].record = at /\ verdicts'[n].verdict = v
        /\ \A k \in DOMAIN verdicts : verdicts'[k] = verdicts[k]
    BY <1>1, <1>8, EntryMore
  <2> HIDE DEF n
  <2>2. KindsKnown'
    BY <1>2, <1>6, <1>8, <2>1 DEF KeptInv, KindsKnown, Rec
  <2>3. ASSUME NoLinks, NEW k \in DOMAIN verdicts', verdicts'[k].verdict # "failed",
               NEW i, i = verdicts'[k].record, ~Superseded(i)
        PROVE  Holds(fs', i)
    <3>1. CASE k \in DOMAIN verdicts
      BY <1>5, <2>1, <2>3, <3>1
    <3>2. CASE k = n
      BY <1>6, <1>8, <2>1, <2>3, <3>2
    <3>3. QED BY <2>1, <3>1, <3>2
  <2>4. KeptAll'
    BY <1>3, <2>3 DEF KeptAll
  <2>5. QED BY <2>2, <2>4 DEF KeptInv
<1>9. QED BY <1>4, <1>7, <1>8

\* The tree is left alone, no earlier record is taken up, and at most a failure
\* is reported.
LEMMA QuietKept ==
  ASSUME IInv, KeptInv, UNCHANGED <<archive, task, origin, fs>>,
         at \in Nat, at' \in Nat, at <= at' \/ verdicts = <<>>,
         \/ verdicts' = verdicts
         \/ \E i : verdicts' = Append(verdicts, [record |-> i, verdict |-> "failed"])
  PROVE  KeptInv'
<1>1. /\ NoLinks' <=> NoLinks
      /\ \A f, i : Holds(f, i)' <=> Holds(f, i)
  BY SameAsked
<1>2. \A k \in DOMAIN verdicts' : verdicts'[k].verdict # "failed" =>
        k \in DOMAIN verdicts /\ verdicts'[k] = verdicts[k]
  <2>1. CASE verdicts' = verdicts
    BY <2>1
  <2>2. ASSUME NEW i, verdicts' = Append(verdicts, [record |-> i, verdict |-> "failed"])
        PROVE  \A k \in DOMAIN verdicts' : verdicts'[k].verdict # "failed" =>
                 k \in DOMAIN verdicts /\ verdicts'[k] = verdicts[k]
    <3>1. verdicts \in Entries
      BY DEF IInv
    <3>2. QED BY <2>2, <3>1, EntryMore
  <2>3. QED BY <2>1, <2>2
<1>3. KindsKnown'
  BY <1>2 DEF KeptInv, KindsKnown
<1>4. ASSUME NEW k \in DOMAIN verdicts, NEW i, i = verdicts[k].record
      PROVE  Superseded(i) => Superseded(i)'
  <2>1. i \in Nat /\ verdicts # <<>>
    BY <1>4, EntryFacts
  <2>2. QED BY <2>1, SupersededGrows
<1>5. KeptAll'
  BY <1>1, <1>2, <1>4 DEF KeptInv, KeptAll
<1>6. QED BY <1>3, <1>5 DEF KeptInv

LEMMA KeptInvStep ==
  ASSUME IInv, TreeInv, OthersInv, StageInv, KeptInv, [Next]_vars, TreeInv', OthersInv'
  PROVE  KeptInv'
<1>1. at \in Nat /\ at' \in Nat
  <2>1. archive' = archive /\ Len(archive) \in Nat
    <3>1. archive \in Archives /\ task \in Tasks
      BY DEF IInv
    <3>2. archive' = archive
      BY DEF Next, vars, NextRecord, PassRecord, NamedRecord, Return, Prepare, MakeDir, DirsMade,
       OpenSource, CreateFile, Copy, CopyFails, DecoderPanics, Symlink, SetAttribute, Report,
       CallFails, Start, Continue, given
    <3>3. QED BY <3>1, <3>2, GivenFacts
  <2>2. QED BY <2>1 DEF TreeInv
<1>2. CASE Calls
  BY <1>2, CallKept
<1>3. ASSUME NEW i, Start(i), at <= i \/ verdicts = <<>>
      PROVE  KeptInv'
  <2>1. /\ UNCHANGED <<archive, task, origin, fs>> /\ at' = i
        /\ \/ verdicts' = verdicts
           \/ verdicts' = Append(verdicts, [record |-> i, verdict |-> "failed"])
    BY <1>3 DEF Start, Settle, given
  <2>2. QED BY <1>1, <1>3, <2>1, QuietKept
<1>4. CASE NextRecord
  BY <1>1, <1>3, <1>4 DEF NextRecord
<1>5. CASE NamedRecord
  BY <1>3, <1>5 DEF NamedRecord
<1>6. CASE PassRecord \/ Return \/ UNCHANGED vars
  <2>1. UNCHANGED <<archive, task, origin, fs, verdicts>> /\ at <= at'
    BY <1>1, <1>6 DEF PassRecord, Return, given, vars
  <2>2. QED BY <1>1, <2>1, QuietKept
<1>7. QED BY <1>2, <1>4, <1>5, <1>6 DEF Next, Calls

LEMMA KeptInvInit ==
  ASSUME Init
  PROVE  KeptInv
<1>1. DOMAIN verdicts = {}
  BY DEF Init
<1>2. QED BY <1>1 DEF KeptInv, KeptAll, KindsKnown

(* However the extraction of other records goes or fails: without links, what *)
(* has been reported stays as it was reported, until a record of the same     *)
(* path or of one above or below it has its turn.                             *)
THEOREM ReportedRecordsStay == Spec => []KeptUntilSuperseded
<1> DEFINE Inv == IInv /\ TreeInv /\ OthersInv /\ StageInv /\ KeptInv
<1>1. Init => Inv
  BY InitOK, TreeInvInit, OthersInvInit, StageInvInit, KeptInvInit
<1>2. Inv /\ [Next]_vars => Inv'
  BY StepOK, TreeInvStep, OthersInvStep, StageInvStep, KeptInvStep DEF Good
<1>3. Inv => KeptUntilSuperseded
  BY DEF KeptInv, KeptAll, KeptUntilSuperseded
<1>4. QED BY <1>1, <1>2, <1>3, PTL DEF Spec
=============================================================================
