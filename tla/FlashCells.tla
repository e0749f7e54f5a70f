----------------------------- MODULE FlashCells -----------------------------
(***************************************************************************)
(* What one cell of NOR flash (a page, or a FAT sector inside one) holds,   *)
(* as the storage components see it through esp_partition_write and         *)
(* esp_partition_erase_range.                                               *)
(***************************************************************************)
CONSTANT Values          \* what a user may write into a cell

Erased  == "erased"      \* all bits set
Garbage == "garbage"     \* an interrupted erase or write, or a mix of two writes

ASSUME ValueAssumption == Erased \notin Values /\ Garbage \notin Values

Content == Values \cup {Erased, Garbage}

(* A write only clears bits: it needs an erased cell, and writing the same   *)
(* bytes twice changes nothing.                                              *)
Program(old, new) ==
  IF old = Erased THEN new
  ELSE IF new \in {old, Erased} THEN old ELSE Garbage
=============================================================================
