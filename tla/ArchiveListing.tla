--------------------------- MODULE ArchiveListing ---------------------------
(***************************************************************************)
(* What strict parsing promises, without positions: the entries of the     *)
(* archive are listed one after the other until an offset record, the end  *)
(* of the stream, a malformed entry or a failure ends the listing.         *)
(***************************************************************************)
EXTENDS ArchiveLayout

CONSTANT Images   \* the archives that may be listed

VARIABLES image, listed, status

listingVars == <<image, listed, status>>

Remaining == Len(listed) < Len(image.entries)
NextEntry == image.entries[Len(listed) + 1]

ListingInit == image \in Images /\ listed = <<>> /\ status = "none"

\* The next entry is a proper one: list it.
List ==
  /\ status = "none"
  /\ Remaining
  /\ Listable(NextEntry.hdr)
  /\ listed' = Append(listed, Listing(NextEntry))
  /\ UNCHANGED <<image, status>>

\* Ok is returned at an offset record, or where the stream ends: behind the
\* last entry, or inside an entry that was cut off.
Complete ==
  /\ status = "none"
  /\ \/ ~Remaining
     \/ NextEntry.hdr.marker = "offset" /\ NextEntry.hdr.magic = "known"
     \/ image.len < EntryEnd(NextEntry)
  /\ status' = "ok"
  /\ UNCHANGED <<image, listed>>

\* A malformed entry is an error, and nothing behind it is listed.
Refuse ==
  /\ status = "none"
  /\ Remaining
  /\ NextEntry.hdr.marker = "other" \/ NextEntry.hdr.magic = "unknown"
  /\ status' \in {"invalid_record", "invalid_magic"}
  /\ UNCHANGED <<image, listed>>

Fail ==
  /\ status = "none"
  /\ status' \in {"io_error", "panic"}
  /\ UNCHANGED <<image, listed>>

ListingNext == List \/ Complete \/ Refuse \/ Fail

ListingSpec == ListingInit /\ [][ListingNext]_listingVars
=============================================================================
