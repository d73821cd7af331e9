------------------------------ MODULE FileHeader ------------------------------
(***************************************************************************)
(* The checks before the records are scanned: the size of the file (main), *)
(* the magic and the checksum of the header (read_file_header, compute_    *)
(* file_header_checksum), summed up byte by byte.                          *)
(***************************************************************************)
EXTENDS Integers, Sequences

CONSTANTS
  Files   \* the first bytes of a file, and whether it has more than 0xffffffff

HeaderSize == 72
Magic == <<9, 0, 107, 234>>      \* FILE_MAGIC, little-endian
Mod == 65536

ASSUME FilesOK == Files \subseteq [bytes : Seq(0 .. 255), big : BOOLEAN]

VARIABLES
  file,
  cli,       \* main checks the size, the library does not
  index,     \* bytes of the block that are summed up
  sum,
  outcome    \* "none", "summing", "ok", or an Error

vars == <<file, cli, index, sum, outcome>>

Byte(i) == file.bytes[i + 1]
Block == SubSeq(file.bytes, 1, HeaderSize)
stored_checksum == Byte(4) + 256 * Byte(5)
BlockLen == Byte(0) * 8

\* What a byte adds: value << (value & 7), in 16 bits.
Weight(v) == (v * 2 ^ (v % 8)) % Mod

\* Mutant: the low byte of the checksum alone is left out.
FieldLow == {4}
Field == {4, 5}

Init ==
  /\ file \in Files
  /\ cli \in BOOLEAN
  /\ index = 0 /\ sum = 0
  /\ outcome = "none"

Stop(o) ==
  /\ outcome' = o
  /\ UNCHANGED <<file, cli, index, sum>>

TooBig ==
  /\ outcome = "none"
  /\ cli /\ file.big
  /\ Stop("FileToBig")

\* Mutant: the magic is checked last, after the checksum.
ReadHeaderUnchecked ==
  /\ outcome = "none"
  /\ ~(cli /\ file.big)
  /\ IF Len(file.bytes) < HeaderSize THEN Stop("IoError")
     ELSE IF stored_checksum = 0 THEN Stop("ok")
     ELSE IF BlockLen \notin 6 .. HeaderSize THEN Stop("InvalidFileChecksumFormat")
     ELSE Stop("summing")

ReadHeader ==
  /\ outcome = "none"
  /\ ~(cli /\ file.big)
  /\ IF Len(file.bytes) < HeaderSize THEN Stop("IoError")
     ELSE IF SubSeq(file.bytes, 1, 4) # Magic THEN Stop("InvalidFileMagic")
     ELSE IF stored_checksum = 0 THEN Stop("ok")
     ELSE IF BlockLen \notin 6 .. HeaderSize THEN Stop("InvalidFileChecksumFormat")
     ELSE Stop("summing")

\* Mutant: the sum is not cut to 16 bits.
AddByteWide ==
  /\ outcome = "summing" /\ index < BlockLen
  /\ sum' = sum + Weight(IF index \in Field THEN 0 ELSE Byte(index))
  /\ index' = index + 1
  /\ UNCHANGED <<file, cli, outcome>>

AddByte ==
  /\ outcome = "summing" /\ index < BlockLen
  /\ sum' = (sum + Weight(IF index \in Field THEN 0 ELSE Byte(index))) % Mod
  /\ index' = index + 1
  /\ UNCHANGED <<file, cli, outcome>>

Compare ==
  /\ outcome = "summing" /\ index = BlockLen
  /\ Stop(IF sum = stored_checksum THEN "ok" ELSE "InvalidFileChecksum")

Next == TooBig \/ ReadHeader \/ AddByte \/ Compare

Spec == Init /\ [][Next]_vars

-----------------------------------------------------------------------------
TypeOK ==
  /\ file \in [bytes : Seq(0 .. 255), big : BOOLEAN]
  /\ index \in 0 .. HeaderSize /\ sum \in 0 .. Mod - 1
  /\ outcome \in {"none", "summing", "ok", "FileToBig", "IoError", "InvalidFileMagic",
                  "InvalidFileChecksum", "InvalidFileChecksumFormat"}

\* What a byte adds to the checksum, and the checksum of a header.
Share(v) ==
  (v * CASE v % 8 = 0 -> 1 [] v % 8 = 1 -> 2 [] v % 8 = 2 -> 4 [] v % 8 = 3 -> 8
         [] v % 8 = 4 -> 16 [] v % 8 = 5 -> 32 [] v % 8 = 6 -> 64 [] v % 8 = 7 -> 128) % Mod
Checksum(block) ==
  LET total[i \in 0 .. HeaderSize] ==
        IF i = 0 THEN 0
        ELSE total[i - 1] + (IF i \in {5, 6} THEN 0 ELSE Share(block[i]))
  IN total[HeaderSize] % Mod

(* Scanning begins exactly for a file with the magic whose checksum is the    *)
(* one of all 72 bytes except its own field, or is 0 (archive.rs:640-664).    *)
AcceptsSoundHeaders ==
  outcome \notin {"none", "summing", "FileToBig"} =>
    (outcome = "ok" <=>
       /\ Len(file.bytes) >= HeaderSize
       /\ SubSeq(file.bytes, 1, 4) = Magic
       /\ stored_checksum \in {0, Checksum(Block)})

(* The magic fixes the length of the block that is summed up: it is the whole *)
(* header, and InvalidFileChecksumFormat never arises.                        *)
WholeHeaderSummed ==
  /\ outcome = "summing" => BlockLen = HeaderSize
  /\ outcome # "InvalidFileChecksumFormat"
=============================================================================
