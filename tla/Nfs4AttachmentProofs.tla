------------------------- MODULE Nfs4AttachmentProofs -------------------------
(***************************************************************************)
(* Which text goes to which ACL, for archives of any length.               *)
(***************************************************************************)
EXTENDS Nfs4Attachment, SequenceTheorems, FiniteSetTheorems, TLAPS

\* Stack s holds, in order, those of the first n records that still wait.
HoldsWaiting(s, n) ==
  /\ s \in Seq(1 .. Len(records))
  /\ \A i, j \in 1 .. Len(s) : i < j => s[i] < s[j]
  /\ \A k \in 1 .. Len(s) : s[k] <= n /\ Waits(s[k]) /\ acls[s[k]].text = 0
  /\ \A r \in 1 .. n : Waits(r) /\ acls[r].text = 0 => \E k \in 1 .. Len(s) : s[k] = r

Unseen == \A r \in 1 .. Len(records) : r >= index => acls[r].text = 0

IInv ==
  /\ TypeOK
  /\ Unseen
  /\ HoldsWaiting(pending, index - 1)
  /\ PairsLikeBrackets
  /\ NoneWaitsInVain

-----------------------------------------------------------------------------
(* Types.                                                                  *)

AclField == [kind : {"none", "aixc", "nfs4"}, entries : BOOLEAN, text : 0 .. Len(records)]

LEMMA ElementType ==
  ASSUME NEW S, NEW s \in Seq(S), NEW k \in 1 .. Len(s)
  PROVE  s[k] \in S
OBVIOUS

LEMMA FunctionIsSeq ==
  ASSUME NEW S, NEW n \in Nat, NEW f \in [1 .. n -> S]
  PROVE  f \in Seq(S) /\ Len(f) = n
OBVIOUS

LEMMA ExceptIsSeq ==
  ASSUME NEW S, NEW s \in Seq(S), NEW i \in 1 .. Len(s), NEW v \in S
  PROVE  [s EXCEPT ![i] = v] \in Seq(S) /\ Len([s EXCEPT ![i] = v]) = Len(s)
OBVIOUS

LEMMA FrontIsSeq ==
  ASSUME NEW S, NEW s \in Seq(S), Len(s) > 0
  PROVE  LET f == SubSeq(s, 1, Len(s) - 1)
         IN  f \in Seq(S) /\ Len(f) = Len(s) - 1 /\ \A k \in 1 .. Len(s) - 1 : f[k] = s[k]
<1> DEFINE n == Len(s) - 1
           f == SubSeq(s, 1, n)
<1>1. Len(s) \in Nat /\ n \in Nat /\ n <= Len(s)
  OBVIOUS
<1>2. \A k \in 1 .. n : s[k] \in S
  BY <1>1
<1>3. f \in Seq(S) /\ Len(f) = (IF 1 <= n THEN n - 1 + 1 ELSE 0)
      /\ \A k \in 1 .. n - 1 + 1 : f[k] = s[1 + k - 1]
  BY <1>1, <1>2, SubSeqProperties
<1> HIDE DEF n, f
<1>4. Len(f) = n
  <2>1. n - 1 + 1 = n /\ (1 <= n \/ n = 0)
    BY <1>1
  <2>2. QED BY <1>3, <2>1
<1>5. ASSUME NEW k \in 1 .. n PROVE f[k] = s[k]
  <2>1. 1 + k - 1 = k /\ k \in 1 .. n - 1 + 1
    BY <1>1
  <2>2. QED BY <1>3, <2>1
<1>6. QED BY <1>3, <1>4, <1>5 DEF n, f

LEMMA AclType ==
  ASSUME TypeOK, NEW r \in 1 .. Len(records)
  PROVE  acls[r] \in AclField
<1>1. acls \in Seq(AclField) /\ r \in 1 .. Len(acls)
  BY DEF TypeOK, AclField
<1>2. QED BY <1>1, ElementType

LEMMA ParsedType ==
  ASSUME NEW r \in Record, NEW n \in Nat
  PROVE  Parsed(r) \in [kind : {"none", "aixc", "nfs4"}, entries : BOOLEAN, text : 0 .. n]
         /\ Parsed(r).text = 0
<1>1. r.ixacl \in BOOLEAN /\ r.payload \in {"none", "aixc", "nfs4"}
  BY DEF Record
<1>2. Kind(r) \in {"none", "aixc", "nfs4"}
  BY <1>1 DEF Kind
<1>3. 0 \in 0 .. n
  OBVIOUS
<1>4. QED BY <1>2, <1>3 DEF Parsed

LEMMA InitOK == Init => IInv
<1> SUFFICES ASSUME Init PROVE IInv
  OBVIOUS
<1> DEFINE n == Len(records)
<1>1. records \in Seq(Record)
  BY AttachmentConstantsOK DEF Init
<1>2. n \in Nat
  BY <1>1
<1>3. \A i \in 1 .. n : records[i] \in Record
  BY <1>1, ElementType
<1>4. \A i \in 1 .. n : Parsed(records[i]) \in AclField /\ Parsed(records[i]).text = 0
  BY <1>2, <1>3, ParsedType DEF AclField
<1>5. acls \in [1 .. n -> AclField] /\ \A i \in 1 .. n : acls[i].text = 0
  BY <1>4 DEF Init
<1>6. acls \in Seq(AclField) /\ Len(acls) = n
  BY <1>2, <1>5, FunctionIsSeq
<1>7. TypeOK
  BY <1>1, <1>2, <1>6 DEF Init, TypeOK, AclField
<1>8. HoldsWaiting(pending, index - 1)
  BY DEF Init, HoldsWaiting
<1>9. Unseen /\ PairsLikeBrackets /\ NoneWaitsInVain
  BY <1>5 DEF Init, Unseen, PairsLikeBrackets, NoneWaitsInVain
<1>10. QED BY <1>7, <1>8, <1>9 DEF IInv

-----------------------------------------------------------------------------
(* The stack that a step works with.                                       *)

LEMMA StackHolds ==
  ASSUME IInv, Looking
  PROVE  HoldsWaiting(Stack(index), index)
<1> DEFINE s == Stack(index)
<1>1. index \in 1 .. Len(records) /\ acls[index].text = 0
  BY DEF IInv, TypeOK, Looking, Unseen
<1>2. HoldsWaiting(pending, index - 1)
  BY DEF IInv
<1>3. CASE ~Waits(index)
  <2>1. s = pending
    BY <1>3 DEF Stack
  <2>2. HoldsWaiting(pending, index)
    BY <1>1, <1>2, <1>3 DEF HoldsWaiting
  <2>3. QED BY <2>1, <2>2
<1>4. CASE Waits(index)
  <2>1. s = Append(pending, index)
    BY <1>4 DEF Stack
  <2>2. pending \in Seq(1 .. Len(records))
    BY <1>2 DEF HoldsWaiting
  <2>3. /\ s \in Seq(1 .. Len(records)) /\ Len(s) = Len(pending) + 1
        /\ s[Len(s)] = index /\ \A k \in 1 .. Len(pending) : s[k] = pending[k]
    BY <1>1, <2>1, <2>2
  <2> HIDE DEF s
  <2>4. \A i, j \in 1 .. Len(s) : i < j => s[i] < s[j]
    <3> SUFFICES ASSUME NEW i \in 1 .. Len(s), NEW j \in 1 .. Len(s), i < j PROVE s[i] < s[j]
      OBVIOUS
    <3>1. i \in 1 .. Len(pending)
      BY <2>2, <2>3
    <3>2. pending[i] \in 1 .. Len(records) /\ pending[i] <= index - 1
      BY <1>2, <3>1 DEF HoldsWaiting
    <3>3. CASE j = Len(s)
      BY <1>1, <2>3, <3>1, <3>2, <3>3
    <3>4. CASE j # Len(s)
      <4>1. j \in 1 .. Len(pending)
        <5>1. Len(pending) \in Nat /\ Len(s) = Len(pending) + 1
          BY <2>2, <2>3
        <5>2. QED BY <3>4, <5>1
      <4>2. QED BY <1>2, <2>3, <3>1, <4>1 DEF HoldsWaiting
    <3>5. QED BY <3>3, <3>4
  <2>5. ASSUME NEW k \in 1 .. Len(s)
        PROVE  s[k] <= index /\ Waits(s[k]) /\ acls[s[k]].text = 0
    <3>1. CASE k = Len(s)
      BY <1>1, <1>4, <2>3, <3>1
    <3>2. CASE k # Len(s)
      <4>1. k \in 1 .. Len(pending)
        BY <2>2, <2>3, <3>2
      <4>2. pending[k] \in 1 .. Len(records)
        BY <2>2, <4>1
      <4>3. QED BY <1>1, <1>2, <2>3, <4>1, <4>2 DEF HoldsWaiting
    <3>3. QED BY <3>1, <3>2
  <2>6. ASSUME NEW r \in 1 .. index, Waits(r), acls[r].text = 0
        PROVE  \E k \in 1 .. Len(s) : s[k] = r
    <3>1. CASE r = index
      BY <2>2, <2>3, <3>1
    <3>2. CASE r # index
      <4>1. r \in 1 .. index - 1
        BY <1>1, <3>2
      <4>2. PICK k \in 1 .. Len(pending) : pending[k] = r
        BY <1>2, <2>6, <4>1 DEF HoldsWaiting
      <4>3. k \in 1 .. Len(s) /\ s[k] = r
        BY <2>2, <2>3, <4>2
      <4>4. QED BY <4>3
    <3>3. QED BY <3>1, <3>2
  <2>7. QED BY <2>3, <2>4, <2>5, <2>6 DEF HoldsWaiting, s
<1>5. QED BY <1>3, <1>4

-----------------------------------------------------------------------------
(* A step that gives no text.                                              *)

\* Nothing but the index moves on.
LEMMA NoTextKeeps ==
  ASSUME IInv, Looking, pending' = Stack(index), index' = index + 1,
         UNCHANGED <<records, acls, outcome>>,
         HasText(index) => Stack(index) = <<>>
  PROVE  IInv'
<1> USE DEF IInv
<1>1. index \in 1 .. Len(records) /\ Len(records) \in Nat
  BY DEF TypeOK, Looking
<1>2. HoldsWaiting(Stack(index), index)
  BY StackHolds
<1>3. /\ \A r : Waits(r)' = Waits(r)
      /\ \A r : HasText(r)' = HasText(r)
      /\ \A r : acls'[r] = acls[r]
      /\ records' = records
  BY DEF Waits, HasText
<1>4. TypeOK'
  BY <1>1, <1>2 DEF TypeOK, HoldsWaiting
<1>5. Unseen'
  BY <1>1, <1>3 DEF Unseen
<1>6. HoldsWaiting(pending, index - 1)'
  <2>1. index' - 1 = index
    BY <1>1
  <2>2. QED BY <1>2, <1>3, <2>1 DEF HoldsWaiting
<1>7. PairsLikeBrackets'
  <2>1. acls[index].text = 0
    BY <1>1 DEF Unseen
  <2>2. \A r \in 1 .. index' - 1 : r \in 1 .. index - 1 \/ r = index
    BY <1>1
  <2>3. SUFFICES ASSUME NEW r \in 1 .. index - 1, acls[r].text > 0
                 PROVE  /\ r <= acls[r].text /\ acls[r].text < index + 1 /\ HasText(acls[r].text)
                        /\ \A q \in r + 1 .. acls[r].text :
                             Waits(q) => acls[q].text \in q .. acls[r].text - 1
                        /\ \A q \in 1 .. index : acls[q].text = acls[r].text => q = r
    BY <1>3, <2>1, <2>2 DEF PairsLikeBrackets
  <2>4. /\ r <= acls[r].text /\ acls[r].text < index /\ HasText(acls[r].text)
        /\ \A q \in r + 1 .. acls[r].text :
             Waits(q) => acls[q].text \in q .. acls[r].text - 1
        /\ \A q \in 1 .. index - 1 : acls[q].text = acls[r].text => q = r
    BY <2>3 DEF PairsLikeBrackets
  <2>5. r \in 1 .. Len(records) /\ acls[r].text \in Int
    BY <1>1, AclType DEF AclField
  <2>6. \A q \in 1 .. index : q \in 1 .. index - 1 \/ q = index
    BY <1>1
  <2>7. QED BY <1>1, <2>1, <2>3, <2>4, <2>5, <2>6
<1>8. NoneWaitsInVain'
  <2>1. SUFFICES ASSUME NEW t \in 1 .. index, HasText(t), \A r \in 1 .. t : acls[r].text # t,
                        NEW r \in 1 .. t, Waits(r)
                 PROVE  acls[r].text \in 1 .. t - 1
    BY <1>1, <1>3 DEF NoneWaitsInVain
  <2>2. CASE t \in 1 .. index - 1
    BY <2>1, <2>2 DEF NoneWaitsInVain
  <2>3. CASE t = index
    <3>1. Stack(index) = <<>>
      BY <2>1, <2>3
    <3>2. Len(Stack(index)) = 0
      BY <3>1
    <3>3. acls[r].text # 0
      BY <1>2, <2>1, <2>3, <3>2 DEF HoldsWaiting
    <3>4. acls[r].text \in Nat /\ r \in 1 .. Len(records)
      BY <1>1, <2>3, AclType DEF AclField
    <3>5. r \in 1 .. index - 1
      BY <1>1, <2>1, <2>3, <3>3, <3>4 DEF Unseen
    <3>6. acls[r].text < index
      BY <3>3, <3>4, <3>5 DEF PairsLikeBrackets
    <3>7. QED BY <1>1, <2>3, <3>3, <3>4, <3>6
  <2>4. QED BY <1>1, <2>2, <2>3
<1>9. QED BY <1>4, <1>5, <1>6, <1>7, <1>8

-----------------------------------------------------------------------------
(* A step that gives the text to the record on top of the stack.           *)

LEMMA AttachKeeps ==
  ASSUME IInv, Looking, HasText(index), Stack(index) # <<>>, Attach
  PROVE  IInv'
<1> USE DEF IInv
<1> DEFINE s == Stack(index)
           top == s[Len(s)]
<1>1. index \in 1 .. Len(records) /\ Len(records) \in Nat
  BY DEF TypeOK, Looking
<1>2. HoldsWaiting(s, index)
  BY StackHolds
<1>3. s \in Seq(1 .. Len(records)) /\ Len(s) \in 1 .. Len(s) /\ Len(s) \in Nat
  BY <1>2 DEF HoldsWaiting
<1>4. /\ acls' = [acls EXCEPT ![top] = Attached(@, index)]
      /\ pending' = SubSeq(s, 1, Len(s) - 1)
      /\ index' = index + 1 /\ UNCHANGED <<records, outcome>>
  BY DEF Attach, Last, Front
<1>5. top \in 1 .. index /\ top \in 1 .. Len(records) /\ Waits(top) /\ acls[top].text = 0
  <2>1. top \in 1 .. Len(records)
    BY <1>3, ElementType
  <2>2. QED BY <1>1, <1>2, <1>3, <2>1 DEF HoldsWaiting
<1> HIDE DEF s, top
<1>6. acls \in Seq(AclField) /\ Len(acls) = Len(records)
  BY DEF TypeOK, AclField
<1>7. Attached(acls[top], index) \in AclField
  <2>1. acls[top] \in AclField
    BY <1>5, AclType
  <2>2. acls[top].entries \in BOOLEAN /\ acls[top].kind \in {"none", "aixc", "nfs4"}
    BY <2>1 DEF AclField
  <2>3. (acls[top].kind = "nfs4" /\ acls[top].entries) \in BOOLEAN
    OBVIOUS
  <2>4. index \in 0 .. Len(records)
    BY <1>1
  <2>5. QED BY <2>3, <2>4 DEF Attached, AclField
<1>8. /\ acls'[top] = Attached(acls[top], index)
      /\ acls'[top].text = index /\ acls'[top].kind = "nfs4"
      /\ \A r \in 1 .. Len(records) : r # top => acls'[r] = acls[r]
  <2>1. \A r \in 1 .. Len(records) : r \in DOMAIN acls
    BY <1>6
  <2>2. QED BY <1>4, <1>5, <2>1 DEF Attached
<1>9. \A r \in 1 .. Len(records) : Waits(r)' = Waits(r)
  <2>1. acls[top].kind # "none" /\ ~records[top].flag
    BY <1>5 DEF Waits
  <2>2. QED BY <1>4, <1>8, <2>1 DEF Waits
<1>10. \A r : HasText(r)' = HasText(r)
  BY <1>4 DEF HasText
\* Below the top of the stack are the others that wait.
<1>11. \A r \in 1 .. index : Waits(r) /\ acls[r].text = 0 =>
         \E k \in 1 .. Len(s) : s[k] = r
  BY <1>2 DEF HoldsWaiting
<1>12. \A k \in 1 .. Len(s) - 1 : s[k] \in 1 .. Len(records) /\ s[k] < top
  BY <1>2, <1>3 DEF HoldsWaiting, top
<1>13. ASSUME NEW q \in 1 .. index, q > top, Waits(q)
       PROVE  q < index /\ acls[q].text \in q .. index - 1
  <2>1. acls[q].text # 0
    <3>1. SUFFICES ASSUME acls[q].text = 0 PROVE FALSE
      OBVIOUS
    <3>2. PICK k \in 1 .. Len(s) : s[k] = q
      BY <1>11, <1>13, <3>1
    <3>3. k = Len(s) \/ k \in 1 .. Len(s) - 1
      BY <1>3
    <3>4. QED BY <1>1, <1>5, <1>12, <1>13, <3>2, <3>3 DEF top
  <2>2. q \in 1 .. Len(records) /\ acls[q].text \in Nat
    BY <1>1, AclType DEF AclField
  <2>3. q \in 1 .. index - 1
    BY <1>1, <2>1, <2>2 DEF Unseen
  <2>4. q <= acls[q].text /\ acls[q].text < index
    BY <2>1, <2>2, <2>3 DEF PairsLikeBrackets
  <2>5. QED BY <1>1, <2>2, <2>3, <2>4
\* Every other text was given before.
<1>14. ASSUME NEW q \in 1 .. index, q # top, acls[q].text # 0
       PROVE  q \in 1 .. index - 1 /\ acls[q].text \in 1 .. index - 1
  <2>1. q \in 1 .. Len(records) /\ acls[q].text \in Nat
    BY <1>1, AclType DEF AclField
  <2>2. q \in 1 .. index - 1
    BY <1>1, <1>14, <2>1 DEF Unseen
  <2>3. acls[q].text < index
    BY <1>14, <2>1, <2>2 DEF PairsLikeBrackets
  <2>4. QED BY <1>1, <1>14, <2>1, <2>2, <2>3
<1>15. TypeOK'
  <2>1. acls' \in Seq(AclField) /\ Len(acls') = Len(acls)
    <3>1. top \in 1 .. Len(acls)
      BY <1>5, <1>6
    <3>2. QED BY <1>4, <1>6, <1>7, <3>1, ExceptIsSeq
  <2>2. pending' \in Seq(1 .. Len(records))
    BY <1>3, <1>4, FrontIsSeq
  <2>3. QED BY <1>1, <1>4, <1>6, <2>1, <2>2 DEF TypeOK, AclField
<1>16. Unseen'
  BY <1>1, <1>4, <1>5, <1>8 DEF Unseen
<1>17. HoldsWaiting(pending, index - 1)'
  <2>1. /\ pending' \in Seq(1 .. Len(records)) /\ Len(pending') = Len(s) - 1
        /\ \A k \in 1 .. Len(s) - 1 : pending'[k] = s[k]
    BY <1>3, <1>4, FrontIsSeq
  <2>2. \A i, j \in 1 .. Len(s) - 1 : i < j => pending'[i] < pending'[j]
    <3>1. \A i \in 1 .. Len(s) - 1 : i \in 1 .. Len(s) /\ pending'[i] = s[i]
      BY <1>3, <2>1
    <3>2. \A i, j \in 1 .. Len(s) : i < j => s[i] < s[j]
      BY <1>2 DEF HoldsWaiting
    <3>3. QED BY <3>1, <3>2
  <2>3. ASSUME NEW k \in 1 .. Len(s) - 1
        PROVE  pending'[k] <= index /\ Waits(pending[k])' /\ acls'[pending'[k]].text = 0
    <3>1. k \in 1 .. Len(s)
      BY <1>3
    <3>2. pending'[k] = s[k] /\ s[k] \in 1 .. Len(records) /\ s[k] # top
      <4>1. pending'[k] = s[k]
        BY <2>1
      <4>2. s[k] \in 1 .. Len(records) /\ s[k] < top
        BY <1>12
      <4>3. s[k] \in Int /\ top \in Int
        BY <1>5, <4>2
      <4>4. QED BY <4>1, <4>2, <4>3
    <3>3. s[k] <= index /\ Waits(s[k]) /\ acls[s[k]].text = 0
      BY <1>2, <3>1 DEF HoldsWaiting
    <3>4. QED BY <1>4, <1>8, <3>2, <3>3 DEF Waits
  <2>4. ASSUME NEW r \in 1 .. index, Waits(r)', acls'[r].text = 0
        PROVE  \E k \in 1 .. Len(s) - 1 : pending'[k] = r
    <3>1. r # top /\ r \in 1 .. Len(records)
      BY <1>1, <1>8, <2>4
    <3>2. Waits(r) /\ acls[r].text = 0
      BY <1>8, <1>9, <2>4, <3>1
    <3>3. PICK k \in 1 .. Len(s) : s[k] = r
      BY <1>11, <3>2
    <3>4. k \in 1 .. Len(s) - 1
      BY <1>3, <3>1, <3>3 DEF top
    <3>5. QED BY <2>1, <3>3, <3>4
  <2>5. index' - 1 = index /\ records' = records
    BY <1>1, <1>4
  <2>6. QED BY <2>1, <2>2, <2>3, <2>4, <2>5 DEF HoldsWaiting
<1>18. PairsLikeBrackets'
  <2>1. SUFFICES ASSUME NEW r \in 1 .. index, NEW t, t = acls'[r].text, t > 0
                 PROVE  /\ r <= t /\ t < index + 1 /\ HasText(t)
                        /\ \A q \in r + 1 .. t : Waits(q) => acls'[q].text \in q .. t - 1
                        /\ \A q \in 1 .. index : acls'[q].text = t => q = r
    <3>1. index' - 1 = index /\ \A i \in 1 .. index : i \in 1 .. Len(records)
      BY <1>1, <1>4
    <3>2. ASSUME NEW r \in 1 .. index, acls'[r].text > 0
          PROVE  /\ r <= acls'[r].text /\ acls'[r].text < index' /\ HasText(acls[r].text)'
                 /\ \A q \in r + 1 .. acls'[r].text :
                       Waits(q)' => acls'[q].text \in q .. acls'[r].text - 1
                 /\ \A q \in 1 .. index : acls'[q].text = acls'[r].text => q = r
      <4> DEFINE t == acls'[r].text
      <4>1. /\ r <= t /\ t < index + 1 /\ HasText(t)
            /\ \A q \in r + 1 .. t : Waits(q) => acls'[q].text \in q .. t - 1
            /\ \A q \in 1 .. index : acls'[q].text = t => q = r
        BY <2>1, <3>2
      <4>2. t \in Int
        <5>1. r \in 1 .. Len(records)
          BY <3>1
        <5>2. CASE r = top
          BY <1>1, <1>8, <5>2
        <5>3. CASE r # top
          BY <1>8, <5>1, <5>3, AclType DEF AclField
        <5>4. QED BY <5>2, <5>3
      <4>3. \A q \in r + 1 .. t : q \in 1 .. Len(records)
        BY <1>1, <4>1, <4>2
      <4>4. QED BY <1>4, <1>9, <4>1, <4>3 DEF HasText
    <3>3. QED BY <3>1, <3>2 DEF PairsLikeBrackets
  <2>2. CASE r = top
    <3>1. t = index
      BY <1>8, <2>1, <2>2
    <3>2. ASSUME NEW q \in r + 1 .. t, Waits(q)
          PROVE  acls'[q].text \in q .. t - 1
      <4>1. q \in 1 .. index /\ q > top /\ q \in 1 .. Len(records) /\ q # top
        BY <1>1, <1>5, <2>2, <3>1
      <4>2. QED BY <1>8, <1>13, <3>1, <3>2, <4>1
    <3>3. ASSUME NEW q \in 1 .. index, acls'[q].text = t, q # top
          PROVE  FALSE
      <4>1. q \in 1 .. Len(records) /\ acls[q].text = index
        BY <1>1, <1>8, <3>1, <3>3
      <4>2. acls[q].text \in 1 .. index - 1
        BY <1>1, <1>14, <3>3, <4>1
      <4>3. QED BY <1>1, <4>1, <4>2
    <3>4. QED BY <1>1, <1>5, <2>2, <3>1, <3>2, <3>3
  <2>3. CASE r # top
    <3>1. acls[r].text = t /\ r \in 1 .. Len(records) /\ t \in Nat
      BY <1>1, <1>8, <2>1, <2>3, AclType DEF AclField
    <3>2. r \in 1 .. index - 1 /\ t \in 1 .. index - 1
      BY <1>14, <2>1, <2>3, <3>1
    <3>3. /\ r <= t /\ HasText(t)
          /\ \A q \in r + 1 .. t : Waits(q) => acls[q].text \in q .. t - 1
          /\ \A q \in 1 .. index - 1 : acls[q].text = t => q = r
      BY <2>1, <3>1, <3>2 DEF PairsLikeBrackets
    <3>4. ASSUME NEW q \in r + 1 .. t, Waits(q)
          PROVE  acls'[q].text \in q .. t - 1
      <4>1. acls[q].text \in q .. t - 1 /\ q > 0 /\ q \in 1 .. Len(records)
        BY <1>1, <3>1, <3>2, <3>3, <3>4
      <4>2. q # top
        BY <1>5, <4>1
      <4>3. QED BY <1>8, <4>1, <4>2
    <3>5. ASSUME NEW q \in 1 .. index, acls'[q].text = t
          PROVE  q = r
      <4>1. q # top
        BY <1>1, <1>8, <3>2, <3>5
      <4>2. q \in 1 .. Len(records) /\ acls[q].text = t /\ acls[q].text # 0
        BY <1>1, <1>8, <3>2, <3>5, <4>1
      <4>3. QED BY <1>14, <3>3, <4>1, <4>2
    <3>6. QED BY <1>1, <3>2, <3>3, <3>4, <3>5
  <2>4. QED BY <2>2, <2>3
<1>19. NoneWaitsInVain'
  <2>1. SUFFICES ASSUME NEW t \in 1 .. index, HasText(t), \A r \in 1 .. t : acls'[r].text # t,
                        NEW r \in 1 .. t, Waits(r)
                 PROVE  acls'[r].text \in 1 .. t - 1
    <3>1. index' - 1 = index /\ \A u \in 1 .. index : \A i \in 1 .. u : i \in 1 .. Len(records)
      BY <1>1, <1>4
    <3>2. QED BY <1>9, <1>10, <2>1, <3>1 DEF NoneWaitsInVain
  <2>2. t # index
    BY <1>1, <1>5, <1>8, <2>1
  <2>3. t \in 1 .. index - 1 /\ \A i \in 1 .. t : i \in 1 .. Len(records)
    BY <1>1, <2>2
  <2>4. \A i \in 1 .. t : acls[i].text # t
    <3>1. SUFFICES ASSUME NEW i \in 1 .. t, acls[i].text = t PROVE FALSE
      OBVIOUS
    <3>2. i # top
      BY <1>5, <2>3, <3>1
    <3>3. QED BY <1>8, <2>1, <2>3, <3>1, <3>2
  <2>5. acls[r].text \in 1 .. t - 1
    BY <2>1, <2>3, <2>4 DEF NoneWaitsInVain
  <2>6. r # top
    BY <1>5, <2>5
  <2>7. QED BY <1>8, <2>3, <2>5, <2>6
<1>20. QED BY <1>15, <1>16, <1>17, <1>18, <1>19

-----------------------------------------------------------------------------
LEMMA StepOK == IInv /\ [Next]_vars => IInv'
<1> SUFFICES ASSUME IInv, [Next]_vars PROVE IInv'
  OBVIOUS
<1>1. CASE NoText
  BY <1>1, NoTextKeeps DEF NoText
<1>2. CASE Attach
  <2>1. CASE Stack(index) = <<>>
    <3>1. pending = <<>>
      <4>1. pending \in Seq(1 .. Len(records))
        BY DEF IInv, TypeOK
      <4>2. Waits(index) => Len(Stack(index)) = Len(pending) + 1 /\ Len(pending) \in Nat
        BY <4>1 DEF Stack
      <4>3. ~Waits(index)
        BY <2>1, <4>2
      <4>4. QED BY <2>1, <4>3 DEF Stack
    <3>2. QED BY <1>2, <2>1, <3>1, NoTextKeeps DEF Attach
  <2>2. CASE Stack(index) # <<>>
    BY <1>2, <2>2, AttachKeeps DEF Attach
  <2>3. QED BY <2>1, <2>2
<1>3. CASE ReadFails \/ Finish \/ UNCHANGED vars
  <2>1. UNCHANGED <<records, acls, index, pending>> /\ outcome' \in {"none", "ok", "io_error"}
    BY <1>3 DEF ReadFails, Finish, vars, IInv, TypeOK
  <2>2. TypeOK'
    BY <2>1 DEF IInv, TypeOK
  <2>3. Unseen' /\ HoldsWaiting(pending, index - 1)'
    BY <2>1 DEF IInv, Unseen, HoldsWaiting, Waits
  <2>4. PairsLikeBrackets' /\ NoneWaitsInVain'
    BY <2>1 DEF IInv, PairsLikeBrackets, NoneWaitsInVain, Waits, HasText
  <2>5. QED BY <2>2, <2>3, <2>4 DEF IInv
<1>4. QED BY <1>1, <1>2, <1>3 DEF Next

LEMMA Invariance == Spec => []IInv
BY InitOK, StepOK, PTL DEF Spec

\* The stack holds numbers of records, and no record gets a text that is not
\* one of the archive's.
THEOREM AttachmentTypeCorrect == Spec => []TypeOK
BY Invariance, PTL DEF IInv

\* Texts and waiting ACLs pair off like brackets, for every archive: what
\* attach_nfs4_acl_texts does with its stack is what nesting says.
THEOREM PairedLikeBrackets == Spec => []PairsLikeBrackets
BY Invariance, PTL DEF IInv

\* No text is dropped while an ACL before it waits, for every archive.
THEOREM NoTextInVain == Spec => []NoneWaitsInVain
BY Invariance, PTL DEF IInv

-----------------------------------------------------------------------------
(* Archives whose texts are nested.                                        *)

\* Each text that was passed has reached its record.
ReachedSoFar ==
  WellNested => \A t \in 1 .. index - 1 : HasText(t) => acls[records[t].subject].text = t

OwnInv == IInv /\ ReachedSoFar /\ (outcome = "ok" => index = Len(records) + 1)

LEMMA OneSubject ==
  ASSUME TypeOK, WellNested, NEW r \in 1 .. Len(records), Waits(r),
         NEW t \in 1 .. Len(records), HasText(t), records[t].subject = r,
         NEW u \in 1 .. Len(records), HasText(u), records[u].subject = r
  PROVE  t = u
<1> DEFINE T == {v \in 1 .. Len(records) : HasText(v) /\ records[v].subject = r}
<1>1. IsFiniteSet(1 .. Len(records))
  BY FS_Interval DEF TypeOK
<1>2. IsFiniteSet(T)
  BY <1>1, FS_Subset
<1>3. Cardinality(T) = 1
  BY DEF WellNested
<1>4. PICK x : T = {x}
  BY <1>2, <1>3, FS_Singleton
<1>5. QED BY <1>4

\* The records that wait are the same after a step as before it.
LEMMA SameWaiting ==
  ASSUME IInv, IInv', [Next]_vars
  PROVE  /\ records' = records
         /\ \A r \in 1 .. Len(records) : Waits(r)' = Waits(r)
<1> USE DEF IInv
<1>1. CASE UNCHANGED acls /\ records' = records
  BY <1>1 DEF Waits
<1>2. CASE Attach /\ Stack(index) # <<>>
  <2> DEFINE top == Last(Stack(index))
  <2>1. acls' = [acls EXCEPT ![top] = Attached(@, index)] /\ records' = records
    BY <1>2 DEF Attach
  <2>2. HoldsWaiting(Stack(index), index)
    BY <1>2, StackHolds DEF Attach
  <2>3. Stack(index) \in Seq(1 .. Len(records)) /\ Len(Stack(index)) \in 1 .. Len(Stack(index))
    BY <1>2, <2>2 DEF HoldsWaiting
  <2>4. top \in 1 .. Len(records) /\ Waits(top)
    BY <2>2, <2>3, ElementType DEF HoldsWaiting, Last
  <2> HIDE DEF top
  <2>5. \A r \in 1 .. Len(records) : r \in DOMAIN acls
    BY DEF TypeOK
  <2>6. /\ acls'[top].kind = "nfs4" /\ acls[top].kind # "none"
        /\ \A r \in 1 .. Len(records) : r # top => acls'[r] = acls[r]
    BY <2>1, <2>4, <2>5 DEF Attached, Waits
  <2>7. QED BY <2>1, <2>4, <2>6 DEF Waits
<1>3. QED BY <1>1, <1>2 DEF Next, NoText, Attach, ReadFails, Finish, vars

\* The record a text belongs to is on top of the stack when the text comes.
LEMMA SubjectOnTop ==
  ASSUME IInv, ReachedSoFar, WellNested, Looking, HasText(index)
  PROVE  Stack(index) # <<>> /\ Last(Stack(index)) = records[index].subject
<1> USE DEF IInv
<1> DEFINE s == Stack(index)
           r == records[index].subject
<1>1. index \in 1 .. Len(records) /\ Len(records) \in Nat
  BY DEF TypeOK, Looking
<1>2. r \in 1 .. index - 1 /\ Waits(r) /\ r \in 1 .. Len(records)
  BY <1>1 DEF WellNested
<1>3. HoldsWaiting(s, index)
  BY StackHolds
<1> HIDE DEF s, r
<1>4. acls[r].text = 0
  <2>1. SUFFICES ASSUME acls[r].text # 0 PROVE FALSE
    OBVIOUS
  <2>2. acls[r].text \in Nat
    BY <1>2, AclType DEF AclField
  <2> DEFINE t == acls[r].text
  <2>3. t \in 1 .. index - 1 /\ HasText(t) /\ t \in 1 .. Len(records)
    BY <1>1, <1>2, <2>1, <2>2 DEF PairsLikeBrackets
  <2>4. records[t].subject \in 1 .. t - 1 /\ acls[records[t].subject].text = t
    BY <2>3 DEF WellNested, ReachedSoFar
  <2>5. records[t].subject = r
    BY <1>1, <1>2, <2>1, <2>2, <2>3, <2>4 DEF PairsLikeBrackets
  <2>6. t = index
    BY <1>1, <1>2, <2>3, <2>5, OneSubject DEF r
  <2>7. QED BY <1>1, <2>3, <2>6
<1>5. PICK k \in 1 .. Len(s) : s[k] = r
  BY <1>1, <1>2, <1>3, <1>4 DEF HoldsWaiting
<1>6. ASSUME NEW q \in 1 .. index, q > r, Waits(q)
      PROVE  acls[q].text # 0
  <2>1. q \in r + 1 .. index
    BY <1>1, <1>2, <1>6
  <2>2. PICK u \in q + 1 .. index - 1 : HasText(u) /\ records[u].subject = q
    BY <1>1, <1>6, <2>1 DEF WellNested, r
  <2>3. u \in 1 .. index - 1 /\ u # 0
    BY <1>1, <2>2
  <2>4. QED BY <2>2, <2>3 DEF ReachedSoFar
<1>7. k = Len(s)
  <2>1. SUFFICES ASSUME k # Len(s) PROVE FALSE
    OBVIOUS
  <2>2. s \in Seq(1 .. Len(records)) /\ Len(s) \in 1 .. Len(s) /\ k < Len(s)
    BY <1>3, <1>5, <2>1 DEF HoldsWaiting
  <2>3. s[Len(s)] > r
    BY <1>3, <1>5, <2>2 DEF HoldsWaiting
  <2>4. s[Len(s)] \in 1 .. Len(records)
    BY <2>2, ElementType
  <2>5. s[Len(s)] \in 1 .. index /\ Waits(s[Len(s)]) /\ acls[s[Len(s)]].text = 0
    BY <1>1, <1>3, <2>2, <2>4 DEF HoldsWaiting
  <2>6. QED BY <1>6, <2>3, <2>5
<1>8. QED BY <1>5, <1>7 DEF s, r, Last

LEMMA OwnStep == OwnInv /\ [Next]_vars => OwnInv'
<1> SUFFICES ASSUME OwnInv, [Next]_vars PROVE OwnInv'
  OBVIOUS
<1> USE DEF OwnInv
<1>1. IInv'
  BY StepOK
<1>2. records' = records /\ \A r \in 1 .. Len(records) : Waits(r)' = Waits(r)
  BY <1>1, SameWaiting
<1>3. index \in 1 .. Len(records) + 1 /\ Len(records) \in Nat
  BY DEF IInv, TypeOK
<1>4. outcome' = "ok" => index' = Len(records') + 1
  BY <1>3 DEF Next, NoText, Attach, ReadFails, Finish, Looking, vars
<1>5. ReachedSoFar'
  <2> SUFFICES ASSUME WellNested'
               PROVE  (\A t \in 1 .. index - 1 : HasText(t) => acls[records[t].subject].text = t)'
    BY DEF ReachedSoFar
  <2>1. WellNested
    <3>1. \A r : HasText(r)' = HasText(r)
      BY <1>2 DEF HasText
    <3>2. \A r \in 1 .. Len(records) : \A q \in 1 .. r : q \in 1 .. Len(records)
      BY <1>3
    <3>3. ASSUME NEW t \in 1 .. Len(records), HasText(t)
          PROVE  /\ records[t].subject \in 1 .. t - 1
                 /\ Waits(records[t].subject)
                 /\ \A q \in records[t].subject + 1 .. t : Waits(q) =>
                      \E u \in q + 1 .. t - 1 : HasText(u) /\ records[u].subject = q
      <4>1. /\ records[t].subject \in 1 .. t - 1
            /\ Waits(records[t].subject)'
            /\ \A q \in records[t].subject + 1 .. t : Waits(q)' =>
                  \E u \in q + 1 .. t - 1 : HasText(u)' /\ records[u].subject = q
        BY <1>2, <3>1, <3>3 DEF WellNested
      <4>2. records[t].subject \in 1 .. Len(records)
            /\ \A q \in records[t].subject + 1 .. t : q \in 1 .. Len(records)
        BY <1>3, <4>1
      <4>3. QED BY <1>2, <3>1, <4>1, <4>2
    <3>4. \A r \in 1 .. Len(records) : Waits(r) =>
            Cardinality({t \in 1 .. Len(records) : HasText(t) /\ records[t].subject = r}) = 1
      BY <1>2, <3>1 DEF WellNested
    <3>5. QED BY <3>3, <3>4 DEF WellNested
  <2>2. \A t \in 1 .. index - 1 : HasText(t) => acls[records[t].subject].text = t
    BY <2>1 DEF ReachedSoFar
  <2>3. CASE UNCHANGED <<acls, index>>
    BY <1>2, <2>2, <2>3 DEF HasText
  <2>4. CASE NoText
    <3>1. index' - 1 = index /\ ~HasText(index) /\ UNCHANGED acls
      BY <1>3, <2>4 DEF NoText
    <3>2. \A t \in 1 .. index : t \in 1 .. index - 1 \/ t = index
      BY <1>3
    <3>3. QED BY <1>2, <2>2, <3>1, <3>2 DEF HasText
  <2>5. CASE Attach
    <3> DEFINE own == records[index].subject
    <3>1. Stack(index) # <<>> /\ Last(Stack(index)) = own
      BY <2>1, <2>5, SubjectOnTop DEF Attach
    <3>2. index \in 1 .. Len(records) /\ HasText(index)
      BY <1>3, <2>5 DEF Attach, Looking
    <3>3. own \in 1 .. Len(records) /\ own \in DOMAIN acls
      BY <1>3, <2>1, <3>2 DEF WellNested, IInv, TypeOK
    <3>4. /\ acls' = [acls EXCEPT ![own] = Attached(@, index)] /\ index' - 1 = index
      BY <1>3, <2>5, <3>1 DEF Attach
    <3>5. acls'[own].text = index
      BY <3>3, <3>4 DEF Attached
    <3>6. acls[own].text = 0
      <4>1. HoldsWaiting(Stack(index), index)
        BY <2>5, StackHolds DEF Attach
      <4>2. Len(Stack(index)) \in 1 .. Len(Stack(index))
        BY <3>1, <4>1 DEF HoldsWaiting
      <4>3. QED BY <3>1, <4>1, <4>2 DEF HoldsWaiting, Last
    <3>7. ASSUME NEW t \in 1 .. index, HasText(t)
          PROVE  acls'[records[t].subject].text = t
      <4>1. CASE t = index
        BY <3>5, <4>1
      <4>2. CASE t # index
        <5>1. t \in 1 .. index - 1 /\ t # 0 /\ t \in 1 .. Len(records)
          BY <1>3, <3>2, <4>2
        <5>2. acls[records[t].subject].text = t
          BY <2>2, <3>7, <5>1
        <5>3. records[t].subject # own
          BY <3>6, <5>1, <5>2
        <5>4. records[t].subject \in 1 .. Len(records)
          BY <1>3, <2>1, <3>7, <5>1 DEF WellNested
        <5>5. acls'[records[t].subject] = acls[records[t].subject]
          BY <3>4, <5>3, <5>4 DEF IInv, TypeOK
        <5>6. QED BY <5>2, <5>5
      <4>3. QED BY <4>1, <4>2
    <3>8. QED BY <1>2, <3>4, <3>7 DEF HasText
  <2>6. QED BY <2>3, <2>4, <2>5 DEF Next, ReadFails, Finish, vars
<1>6. QED BY <1>1, <1>4, <1>5

\* In an archive whose texts are nested each reaches the record it belongs to.
THEOREM EachReachesItsOwn == Spec => []EachItsOwn
<1>1. Init => OwnInv
  <2> SUFFICES ASSUME Init PROVE OwnInv
    OBVIOUS
  <2>1. IInv
    BY InitOK
  <2>2. ReachedSoFar /\ outcome # "ok"
    BY DEF Init, ReachedSoFar
  <2>3. QED BY <2>1, <2>2 DEF OwnInv
<1>2. OwnInv => EachItsOwn
  <2> SUFFICES ASSUME OwnInv, WellNested, outcome = "ok"
               PROVE  \A t \in 1 .. Len(records) : HasText(t) => acls[records[t].subject].text = t
    BY DEF EachItsOwn
  <2>1. index - 1 = Len(records)
    BY DEF OwnInv, IInv, TypeOK
  <2>2. QED BY <2>1 DEF OwnInv, ReachedSoFar
<1>3. QED BY <1>1, <1>2, OwnStep, PTL DEF Spec
=============================================================================
