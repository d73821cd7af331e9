--------------------------- MODULE FileHeaderProofs ---------------------------
(***************************************************************************)
(* The header check, for every file.                                       *)
(***************************************************************************)
EXTENDS FileHeader, SequenceTheorems, Iteration

LEMMA ElementType ==
  ASSUME NEW S, NEW s \in Seq(S), NEW k \in 1 .. Len(s)
  PROVE  s[k] \in S
OBVIOUS

LEMMA ByteType ==
  ASSUME TypeOK, Len(file.bytes) >= HeaderSize, NEW i \in 0 .. HeaderSize - 1
  PROVE  Byte(i) \in 0 .. 255
<1> DEFINE b == file.bytes
<1>1. b \in Seq(0 .. 255)
  BY DEF TypeOK
<1>2. i + 1 \in 1 .. Len(b)
  BY <1>1 DEF HeaderSize
<1> HIDE DEF b
<1>3. b[i + 1] \in 0 .. 255
  BY <1>1, <1>2, ElementType
<1>4. QED BY <1>3 DEF Byte, b

LEMMA ModType ==
  ASSUME NEW n \in Int
  PROVE  n % Mod \in 0 .. Mod - 1
BY SMT DEF Mod

LEMMA WeightType ==
  ASSUME NEW v \in 0 .. 255
  PROVE  Weight(v) \in 0 .. Mod - 1
<1>1. v % 8 \in 0 .. 7
  OBVIOUS
<1>2. 2 ^ (v % 8) \in Int
  BY <1>1
<1>3. v * 2 ^ (v % 8) \in Int
  BY <1>2
<1>4. QED BY <1>3, ModType DEF Weight

-----------------------------------------------------------------------------
(* The checksum: what the loop adds up is what its definition sums.        *)

\* A shift by the low three bits is the power of two that Share lists.
LEMMA WeightIsShare ==
  ASSUME NEW v \in 0 .. 255
  PROVE  Weight(v) = Share(v) /\ Share(v) \in 0 .. Mod - 1
<1> DEFINE low == v % 8
<1>1. low \in 0 .. 7
  OBVIOUS
<1> HIDE DEF low
<1>2. 2 ^ 0 = 1 /\ 2 ^ 1 = 2 /\ 2 ^ 2 = 4 /\ 2 ^ 3 = 8
  BY SMT
<1>3. 2 ^ 4 = 16 /\ 2 ^ 5 = 32 /\ 2 ^ 6 = 64 /\ 2 ^ 7 = 128
  BY SMT
<1> DEFINE power == CASE low = 0 -> 1 [] low = 1 -> 2 [] low = 2 -> 4 [] low = 3 -> 8
                      [] low = 4 -> 16 [] low = 5 -> 32 [] low = 6 -> 64 [] low = 7 -> 128
<1>4. 2 ^ low = power
  <2>1. CASE low = 0 BY <1>2, <2>1
  <2>2. CASE low = 1 BY <1>2, <2>2
  <2>3. CASE low = 2 BY <1>2, <2>3
  <2>4. CASE low = 3 BY <1>2, <2>4
  <2>5. CASE low = 4 BY <1>3, <2>5
  <2>6. CASE low = 5 BY <1>3, <2>6
  <2>7. CASE low = 6 BY <1>3, <2>7
  <2>8. CASE low = 7 BY <1>3, <2>8
  <2>9. QED BY <1>1, <2>1, <2>2, <2>3, <2>4, <2>5, <2>6, <2>7, <2>8
<1> HIDE DEF power
<1>5. Weight(v) = (v * power) % Mod
  BY <1>4 DEF Weight, low
<1>6. Share(v) = (v * power) % Mod
  BY DEF Share, power, low
<1>7. QED BY <1>5, <1>6, WeightType

Added(block, i) == IF i \in {5, 6} THEN 0 ELSE Share(block[i])

\* The sums that Checksum is defined by.
IsTotal(block, total) ==
  total = [i \in 0 .. HeaderSize |-> IF i = 0 THEN 0 ELSE total[i - 1] + Added(block, i)]
Total(block) == CHOOSE total : IsTotal(block, total)

\* They exist, so that each is the one before and what its byte adds.
LEMMA TotalFacts ==
  ASSUME NEW block \in Seq(0 .. 255), Len(block) = HeaderSize
  PROVE  /\ Checksum(block) = Total(block)[HeaderSize] % Mod
         /\ Total(block) \in [0 .. HeaderSize -> Nat]
         /\ Total(block)[0] = 0
         /\ \A i \in 1 .. HeaderSize :
              Total(block)[i] = Total(block)[i - 1] + Added(block, i)
<1>0. /\ HeaderSize \in Nat /\ 0 \in 0 .. HeaderSize
      /\ \A n \in 1 .. HeaderSize : n - 1 \in 0 .. HeaderSize
      /\ \A n \in 0 .. HeaderSize - 1 : n + 1 \in 1 .. HeaderSize /\ n + 1 - 1 = n
      /\ \A n \in 0 .. HeaderSize : n = 0 \/ n \in 1 .. HeaderSize
  BY DEF HeaderSize
<1>1. \A i \in 1 .. HeaderSize : Added(block, i) \in Nat
  <2>1. ASSUME NEW i \in 1 .. HeaderSize PROVE Share(block[i]) \in Nat
    <3>1. block[i] \in 0 .. 255
      BY ElementType
    <3>2. Share(block[i]) \in 0 .. Mod - 1
      BY <3>1, WeightIsShare
    <3>3. \A n \in 0 .. Mod - 1 : n \in Nat
      BY DEF Mod
    <3>4. QED BY <3>2, <3>3
  <2>2. QED BY <2>1 DEF Added
<1> DEFINE step == [a \in (1 .. HeaderSize) \X Nat |-> a[2] + Added(block, a[1])]
<1>2. step \in [(1 .. HeaderSize) \X Nat -> Nat]
  <2>1. ASSUME NEW a \in (1 .. HeaderSize) \X Nat PROVE a[2] + Added(block, a[1]) \in Nat
    <3>1. a[1] \in 1 .. HeaderSize /\ a[2] \in Nat
      OBVIOUS
    <3>2. Added(block, a[1]) \in Nat
      BY <1>1, <3>1
    <3>3. QED BY <3>1, <3>2
  <2>2. QED BY <2>1
<1>3. PICK g \in [0 .. HeaderSize -> Nat] :
        g[0] = 0 /\ \A n \in 1 .. HeaderSize : g[n] = step[<<n, g[n - 1]>>]
  <2> HIDE DEF step
  <2>1. 0 \in Nat
    OBVIOUS
  <2>2. HeaderSize \in Nat
    BY <1>0
  <2>3. step \in Steps(HeaderSize, Nat)
    BY <1>2 DEF Steps
  <2>4. \E g \in [0 .. HeaderSize -> Nat] : Lists(g, HeaderSize, 0, step)
    BY <2>1, <2>2, <2>3, Repeated
  <2>5. QED BY <2>4 DEF Lists
<1>4. \A n \in 1 .. HeaderSize : g[n] = g[n - 1] + Added(block, n)
  <2>1. ASSUME NEW n \in 1 .. HeaderSize PROVE g[n] = g[n - 1] + Added(block, n)
    <3>1. n - 1 \in 0 .. HeaderSize /\ g[n - 1] \in Nat
      BY <1>0
    <3>2. <<n, g[n - 1]>> \in (1 .. HeaderSize) \X Nat
      BY <3>1
    <3>3. step[<<n, g[n - 1]>>] = g[n - 1] + Added(block, n)
      BY <3>2
    <3>4. QED BY <1>3, <3>3
  <2>2. QED BY <2>1
<1>5. IsTotal(block, g)
  <2>1. ASSUME NEW i \in 0 .. HeaderSize
        PROVE  g[i] = (IF i = 0 THEN 0 ELSE g[i - 1] + Added(block, i))
    BY <1>3, <1>4
  <2>2. QED BY <2>1 DEF IsTotal
<1>6. IsTotal(block, Total(block))
  BY <1>5 DEF Total
<1> DEFINE t == Total(block)
<1>7. t = [i \in 0 .. HeaderSize |-> IF i = 0 THEN 0 ELSE t[i - 1] + Added(block, i)]
  BY <1>6 DEF IsTotal
<1> HIDE DEF t
<1>8. t[0] = 0 /\ \A i \in 1 .. HeaderSize : t[i] = t[i - 1] + Added(block, i)
  BY <1>0, <1>7
<1>9. \A n \in 0 .. HeaderSize : n \in {k \in 0 .. HeaderSize : t[k] = g[k]}
  <2> DEFINE Same == {k \in 0 .. HeaderSize : t[k] = g[k]}
  <2>1. 0 \in Same
    BY <1>0, <1>3, <1>8
  <2>2. ASSUME NEW n \in 0 .. HeaderSize - 1, n \in Same PROVE n + 1 \in Same
    <3>1. n + 1 \in 1 .. HeaderSize /\ n + 1 - 1 = n
      BY <1>0
    <3>2. t[n + 1] = t[n] + Added(block, n + 1) /\ g[n + 1] = g[n] + Added(block, n + 1)
      BY <1>4, <1>8, <3>1
    <3>3. QED BY <2>2, <3>1, <3>2
  <2> HIDE DEF Same
  <2>3. \A n \in 0 .. HeaderSize : n \in Same
    BY <1>0, <2>1, <2>2, Induction
  <2>4. QED BY <2>3 DEF Same
<1>10. t \in [0 .. HeaderSize -> Nat]
  <2>1. \A i \in 0 .. HeaderSize : t[i] \in Nat
    BY <1>3, <1>9
  <2>2. QED BY <1>7, <2>1
<1>11. Checksum(block) = t[HeaderSize] % Mod
  BY DEF Checksum, t, Total, IsTotal, Added
<1>12. QED BY <1>8, <1>10, <1>11 DEF t

-----------------------------------------------------------------------------
\* The loop is only reached by a header with the magic, and has summed up what
\* the definition sums.
IInv ==
  /\ TypeOK
  /\ WholeHeaderSummed
  /\ AcceptsSoundHeaders
  /\ outcome = "none" => index = 0 /\ sum = 0
  /\ outcome = "summing" =>
       /\ Len(file.bytes) >= HeaderSize
       /\ SubSeq(file.bytes, 1, 4) = Magic
       /\ stored_checksum # 0
       /\ sum = Total(Block)[index] % Mod

LEMMA InitOK == Init => IInv
BY FilesOK DEF Init, IInv, TypeOK, WholeHeaderSummed, AcceptsSoundHeaders, HeaderSize, Mod

\* The block that is summed up is made of the bytes of the file.
LEMMA BlockFacts ==
  ASSUME TypeOK, Len(file.bytes) >= HeaderSize
  PROVE  /\ Block \in Seq(0 .. 255) /\ Len(Block) = HeaderSize
         /\ \A i \in 1 .. HeaderSize : Block[i] = Byte(i - 1)
<1> DEFINE b == file.bytes
<1>1. b \in Seq(0 .. 255) /\ Len(b) \in Nat
  BY DEF TypeOK
<1> HIDE DEF b
<1>2. HeaderSize \in Nat /\ HeaderSize \in Int /\ 1 \in Int /\ Len(b) >= HeaderSize
  BY DEF b, HeaderSize
<1>3. \A i \in 1 .. HeaderSize : i \in 1 .. Len(b) /\ i - 1 + 1 = i /\ 1 + i - 1 = i
  BY <1>1, <1>2
<1>4. \A i \in 1 .. HeaderSize : b[i] \in 0 .. 255
  BY <1>1, <1>3, ElementType
<1>5. /\ SubSeq(b, 1, HeaderSize) \in Seq(0 .. 255)
      /\ Len(SubSeq(b, 1, HeaderSize)) =
           (IF 1 <= HeaderSize THEN HeaderSize - 1 + 1 ELSE 0)
      /\ \A i \in 1 .. HeaderSize - 1 + 1 : SubSeq(b, 1, HeaderSize)[i] = b[1 + i - 1]
  BY <1>2, <1>4, SubSeqProperties
<1>6. HeaderSize - 1 + 1 = HeaderSize /\ 1 <= HeaderSize
  BY DEF HeaderSize
<1>7. \A i \in 1 .. HeaderSize : b[i] = Byte(i - 1)
  BY <1>3 DEF Byte, b
<1>8. QED BY <1>3, <1>5, <1>6, <1>7 DEF Block, b

LEMMA ReadHeaderOK ==
  ASSUME IInv, ReadHeader
  PROVE  IInv'
<1> DEFINE long == Len(file.bytes) >= HeaderSize
           magic == SubSeq(file.bytes, 1, 4) = Magic
<1>1. /\ outcome = "none" /\ index = 0 /\ sum = 0 /\ TypeOK
      /\ UNCHANGED <<file, cli, index, sum>>
      /\ Len(file.bytes) \in Nat
  BY DEF IInv, ReadHeader, Stop, TypeOK
<1>2. /\ stored_checksum' = stored_checksum /\ Block' = Block /\ BlockLen' = BlockLen
      /\ long' = long /\ magic' = magic
  BY <1>1 DEF stored_checksum, Block, BlockLen, Byte
<1>3. CASE ~long
  <2>1. outcome' = "IoError"
    BY <1>1, <1>3 DEF ReadHeader, Stop, HeaderSize
  <2>2. TypeOK' /\ WholeHeaderSummed'
    BY <1>1, <2>1 DEF TypeOK, WholeHeaderSummed
  <2>3. AcceptsSoundHeaders'
    BY <1>2, <1>3, <2>1 DEF AcceptsSoundHeaders
  <2>4. QED BY <2>1, <2>2, <2>3 DEF IInv
<1>4. CASE long /\ ~magic
  <2>1. outcome' = "InvalidFileMagic"
    BY <1>1, <1>4 DEF ReadHeader, Stop, HeaderSize
  <2>2. TypeOK' /\ WholeHeaderSummed'
    BY <1>1, <2>1 DEF TypeOK, WholeHeaderSummed
  <2>3. AcceptsSoundHeaders'
    BY <1>2, <1>4, <2>1 DEF AcceptsSoundHeaders
  <2>4. QED BY <2>1, <2>2, <2>3 DEF IInv
<1>5. CASE long /\ magic /\ stored_checksum = 0
  <2>1. outcome' = "ok"
    BY <1>1, <1>5 DEF ReadHeader, Stop, HeaderSize
  <2>2. TypeOK' /\ WholeHeaderSummed'
    BY <1>1, <2>1 DEF TypeOK, WholeHeaderSummed
  <2>3. AcceptsSoundHeaders'
    BY <1>2, <1>5, <2>1 DEF AcceptsSoundHeaders
  <2>4. QED BY <2>1, <2>2, <2>3 DEF IInv
<1>6. CASE long /\ magic /\ stored_checksum # 0
  <2>1. Byte(0) = 9
    <3>1. SubSeq(file.bytes, 1, 4)[1] = file.bytes[1]
      BY <1>6 DEF TypeOK, HeaderSize
    <3>2. Magic[1] = 9
      BY DEF Magic
    <3>3. QED BY <1>6, <3>1, <3>2 DEF Byte
  <2>2. BlockLen = HeaderSize
    BY <2>1 DEF BlockLen, HeaderSize
  <2>3. outcome' = "summing"
    BY <1>1, <1>6, <2>2 DEF ReadHeader, Stop, HeaderSize
  <2>4. TypeOK' /\ WholeHeaderSummed' /\ AcceptsSoundHeaders'
    BY <1>1, <1>2, <2>2, <2>3 DEF TypeOK, WholeHeaderSummed, AcceptsSoundHeaders
  <2>5. Total(Block)[0] = 0 /\ 0 % Mod = 0
    BY <1>1, <1>6, BlockFacts, TotalFacts DEF Mod
  <2>6. (sum = Total(Block)[index] % Mod)'
    BY <1>1, <1>2, <2>5
  <2>7. QED BY <1>2, <1>6, <2>3, <2>4, <2>6 DEF IInv
<1>7. QED BY <1>3, <1>4, <1>5, <1>6

LEMMA AddByteOK ==
  ASSUME IInv, AddByte
  PROVE  IInv'
<1>1. /\ outcome = "summing" /\ index < BlockLen /\ index' = index + 1
      /\ sum' = (sum + Weight(IF index \in Field THEN 0 ELSE Byte(index))) % Mod
      /\ UNCHANGED <<file, cli, outcome>>
  BY DEF AddByte
<1>2. /\ TypeOK /\ BlockLen = HeaderSize /\ index \in 0 .. HeaderSize - 1
      /\ Len(file.bytes) >= HeaderSize /\ SubSeq(file.bytes, 1, 4) = Magic
      /\ stored_checksum # 0
      /\ sum = Total(Block)[index] % Mod
  BY <1>1 DEF IInv, TypeOK, WholeHeaderSummed, HeaderSize
<1> DEFINE t == Total(Block)
           w == Weight(IF index \in Field THEN 0 ELSE Byte(index))
<1>3. Block \in Seq(0 .. 255) /\ Len(Block) = HeaderSize
  BY <1>2, BlockFacts
<1>4. /\ index + 1 \in 1 .. HeaderSize /\ t[index] \in Nat
      /\ t[index + 1] = t[index] + Added(Block, index + 1)
  <2>1. /\ index + 1 \in 1 .. HeaderSize /\ index \in 0 .. HeaderSize /\ index + 1 - 1 = index
    BY <1>2 DEF HeaderSize
  <2>2. /\ t \in [0 .. HeaderSize -> Nat]
        /\ \A i \in 1 .. HeaderSize : t[i] = t[i - 1] + Added(Block, i)
    BY <1>3, TotalFacts
  <2> HIDE DEF t
  <2>3. t[index + 1] = t[index + 1 - 1] + Added(Block, index + 1)
    BY <2>1, <2>2
  <2>4. QED BY <2>1, <2>2, <2>3
<1>5. w = Added(Block, index + 1) /\ w \in 0 .. Mod - 1
  <2>1. Byte(index) \in 0 .. 255 /\ Block[index + 1] = Byte(index)
    <3>1. Block[index + 1] = Byte(index + 1 - 1) /\ index + 1 - 1 = index
      BY <1>2, <1>4, BlockFacts
    <3>2. QED BY <1>2, <3>1, ByteType
  <2>2. index \in Field <=> index + 1 \in {5, 6}
    BY <1>2 DEF Field, HeaderSize
  <2>3. CASE index \in Field
    <3>1. w = Weight(0) /\ 0 \in 0 .. 255
      BY <2>3
    <3>2. Weight(0) = 0
      <4>1. 2 ^ (0 % 8) \in Int
        OBVIOUS
      <4>2. QED BY <4>1 DEF Weight, Mod
    <3>3. Added(Block, index + 1) = 0
      BY <2>2, <2>3 DEF Added
    <3>4. 0 \in 0 .. Mod - 1
      BY DEF Mod
    <3> HIDE DEF w
    <3>5. QED BY <3>1, <3>2, <3>3, <3>4
  <2>4. CASE index \notin Field
    BY <2>1, <2>2, <2>4, WeightIsShare DEF Added
  <2>5. QED BY <2>3, <2>4
<1> HIDE DEF t, w
<1>6. sum' = t[index + 1] % Mod /\ sum' \in 0 .. Mod - 1
  <2>1. w \in Nat /\ sum = t[index] % Mod /\ sum' = (sum + w) % Mod
    <3>1. \A n \in 0 .. Mod - 1 : n \in Nat
      BY DEF Mod
    <3>2. sum = t[index] % Mod
      BY <1>2 DEF t
    <3>3. sum' = (sum + w) % Mod
      BY <1>1 DEF w
    <3>4. QED BY <1>5, <3>1, <3>2, <3>3
  <2>2. ((t[index] % Mod) + w) % Mod = (t[index] + w) % Mod
    BY <1>4, <2>1 DEF Mod
  <2>3. t[index] + w \in Int
    BY <1>4, <2>1
  <2>4. (t[index] + w) % Mod \in 0 .. Mod - 1
    BY <2>3, ModType
  <2>5. QED BY <1>4, <1>5, <2>1, <2>2, <2>4
<1>7. /\ stored_checksum' = stored_checksum /\ Block' = Block /\ BlockLen' = BlockLen
  BY <1>1 DEF stored_checksum, Block, BlockLen, Byte
<1>8. TypeOK' /\ WholeHeaderSummed' /\ AcceptsSoundHeaders'
  <2>1. index' \in 0 .. HeaderSize
    BY <1>1, <1>2 DEF HeaderSize
  <2>2. QED BY <1>1, <1>2, <1>6, <1>7, <2>1 DEF TypeOK, WholeHeaderSummed, AcceptsSoundHeaders
<1>9. (sum = Total(Block)[index] % Mod)'
  BY <1>1, <1>6, <1>7 DEF t
<1>10. QED BY <1>1, <1>2, <1>7, <1>8, <1>9 DEF IInv

LEMMA CompareOK ==
  ASSUME IInv, Compare
  PROVE  IInv'
<1>1. /\ outcome = "summing" /\ index = BlockLen
      /\ outcome' = IF sum = stored_checksum THEN "ok" ELSE "InvalidFileChecksum"
      /\ UNCHANGED <<file, cli, index, sum>>
  BY DEF Compare, Stop
<1>2. /\ TypeOK /\ BlockLen = HeaderSize
      /\ Len(file.bytes) >= HeaderSize /\ SubSeq(file.bytes, 1, 4) = Magic
      /\ stored_checksum # 0
      /\ sum = Total(Block)[index] % Mod
  BY <1>1 DEF IInv, WholeHeaderSummed
<1>3. sum = Checksum(Block)
  BY <1>1, <1>2, BlockFacts, TotalFacts
<1>4. /\ stored_checksum' = stored_checksum /\ Block' = Block /\ Checksum(Block)' = Checksum(Block)
  BY <1>1 DEF stored_checksum, Block, Byte
<1>5. AcceptsSoundHeaders'
  BY <1>1, <1>2, <1>3, <1>4 DEF AcceptsSoundHeaders
<1>6. TypeOK' /\ WholeHeaderSummed'
  BY <1>1, <1>2 DEF TypeOK, WholeHeaderSummed
<1>7. QED BY <1>1, <1>5, <1>6 DEF IInv

LEMMA StepOK == IInv /\ [Next]_vars => IInv'
<1> SUFFICES ASSUME IInv, [Next]_vars PROVE IInv'
  OBVIOUS
<1>1. CASE TooBig
  BY <1>1 DEF TooBig, Stop, IInv, TypeOK, WholeHeaderSummed, AcceptsSoundHeaders
<1>2. CASE UNCHANGED vars
  BY <1>2 DEF vars, IInv, TypeOK, WholeHeaderSummed, AcceptsSoundHeaders, BlockLen, Byte,
              stored_checksum, Block
<1>3. QED BY <1>1, <1>2, ReadHeaderOK, AddByteOK, CompareOK DEF Next

LEMMA Invariance == Spec => []IInv
BY InitOK, StepOK, PTL DEF Spec

(* The sum and the index stay in range, for every file.                    *)
THEOREM HeaderTypeCorrect == Spec => []TypeOK
BY Invariance, PTL DEF IInv

(* Every byte of the header is covered by the checksum, none behind it is,   *)
(* and the error for a block of impossible length (archive.rs:56) is never   *)
(* returned.                                                                 *)
THEOREM WholeHeaderIsSummed == Spec => []WholeHeaderSummed
BY Invariance, PTL DEF IInv

(* The loop over the bytes (bff.rs:80), shift and cut at each, computes the   *)
(* checksum of the header, and files are accepted by it: for every file.      *)
THEOREM SoundHeadersAreAccepted == Spec => []AcceptsSoundHeaders
BY Invariance, PTL DEF IInv
=============================================================================
