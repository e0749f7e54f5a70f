------------------------------- MODULE OtaImage -------------------------------
(***************************************************************************)
(* Writing an image: esp_ota_begin, esp_ota_write, esp_ota_write_with_offset *)
(* and esp_ota_end of components/app_update/esp_ota_ops.c, on one partition  *)
(* of flash that must be erased, sector by sector, before it is written.     *)
(*                                                                           *)
(* The image is a stream of units, unit i having the value i.  With flash    *)
(* encryption only whole blocks can be written, and the handle keeps the     *)
(* units of a block that is not complete.                                    *)
(***************************************************************************)
EXTENDS Integers, Sequences

CONSTANTS
  Sector,      \* units in a sector
  Block,       \* units in an encryption block (16 bytes in the code)
  Configs      \* the partitions, builds and images to look at

ASSUME ImageAssumption ==
  /\ Sector \in Nat \ {0} /\ Block \in Nat \ {0} /\ Sector % Block = 0
  /\ \A c \in Configs :
       /\ c.sectors \in Nat \ {0} /\ c.maxWrite \in Nat
       /\ {c.encrypted, c.sequential, c.padded} \subseteq BOOLEAN
       /\ c.maxImage \in 0 .. Sector * c.sectors

VARIABLE config   \* one of Configs; it never changes

Sectors == config.sectors         \* sectors in the partition
Encrypted == config.encrypted     \* esp_flash_encryption_enabled()
Sequential == config.sequential   \* begun with OTA_WITH_SEQUENTIAL_WRITES
Padded == config.padded           \* images end at a block boundary
MaxImage == config.maxImage       \* bound: units in an image
MaxWrite == config.maxWrite       \* bound: units in one call

Size == Sector * Sectors
Units == 0 .. Size - 1
Old == -1        \* left from an earlier image
Blank == -2      \* erased
Spoilt == -3     \* written without being erased

VARIABLES
  flash,      \* what each unit of the partition holds
  open,       \* whether there is a handle
  wrote,      \* wrote_size
  partial,    \* partial_data, partial_bytes long
  sent,       \* units of the stream handed to esp_ota_write
  placed,     \* units written with an offset
  result      \* of the last call

vars == <<config, flash, open, wrote, partial, sent, placed, result>>

TypeOK ==
  /\ config \in Configs
  /\ flash \in [Units -> Units \cup {Old, Blank, Spoilt}]
  /\ open \in BOOLEAN /\ wrote \in 0 .. Size /\ sent \in 0 .. MaxImage
  /\ partial \in Seq(Units) /\ Len(partial) < Block /\ (~Encrypted => partial = <<>>)
  /\ placed \subseteq Units
  /\ result \in {"OK", "ENDED", "INVALID_ARG", "INVALID_SIZE", "VALIDATE_FAILED"}

Init ==
  /\ config \in Configs
  /\ flash = [u \in Units |-> Old] /\ open = FALSE
  /\ wrote = 0 /\ partial = <<>> /\ sent = 0 /\ placed = {} /\ result = "OK"

-------------------------------------------------------------------------------
(* esp_partition_erase_range and esp_partition_write: inside the partition   *)
(* or not at all.                                                            *)
Inside(offset, size) == offset + size <= Size

EraseRange(f, offset, size) ==
  [u \in Units |-> IF u \in offset .. offset + size - 1 THEN Blank ELSE f[u]]

WriteUnits(f, offset, data) ==
  [u \in Units |-> IF u \in offset .. offset + Len(data) - 1
                   THEN IF f[u] = Blank THEN data[u - offset + 1] ELSE Spoilt
                   ELSE f[u]]

(* The next n units of the stream.                                           *)
Stream(from, n) == [k \in 1 .. n |-> from + k - 1]

(* The range esp_ota_write erases before it writes size more units.          *)
EraseFrom == IF wrote % Sector = 0 THEN wrote ELSE (wrote \div Sector + 1) * Sector

(* Mutant: one sector more in either case.                                   *)
EraseSizeMore(size) ==
  ((wrote + size) \div Sector - wrote \div Sector + 1) * Sector

EraseSize(size) ==
  LET more == (wrote + size) \div Sector - wrote \div Sector
  IN  (IF wrote % Sector = 0 THEN more + 1 ELSE more) * Sector

-------------------------------------------------------------------------------
(* esp_ota_begin: everything is erased now, or nothing.                      *)
Begin ==
  /\ ~open
  /\ open' = TRUE /\ wrote' = 0 /\ partial' = <<>> /\ sent' = 0 /\ placed' = {}
  /\ flash' = IF Sequential THEN [u \in Units |-> IF flash[u] = Blank THEN Blank ELSE Old]
              ELSE EraseRange(flash, 0, Size)
  /\ result' = "OK"

Refuse(why) ==
  /\ result' = why
  /\ UNCHANGED <<flash, open, wrote, partial, sent, placed>>

(* The units kept in the handle and the new ones: whole blocks are written,  *)
(* the rest is kept.                                                         *)
Keep(data) == IF Encrypted THEN Len(data) % Block ELSE 0

(* What esp_ota_write does once the range is erased.                         *)
AppendData(f, size) ==
  LET data == partial \o Stream(sent, size)
      n == Len(data) - Keep(data)
  IN  [flash |-> WriteUnits(f, wrote, SubSeq(data, 1, n)), wrote |-> wrote + n,
       partial |-> SubSeq(data, n + 1, Len(data))]

(* esp_ota_write of the next units, whose first one has the magic byte.      *)
Write(size) ==
  /\ open /\ placed = {} /\ sent + size <= MaxImage
  /\ LET erases == Sequential /\ EraseSize(size) > 0
         erased == IF erases THEN EraseRange(flash, EraseFrom, EraseSize(size)) ELSE flash
         a == AppendData(erased, size)
     IN  IF erases /\ ~Inside(EraseFrom, EraseSize(size))
         THEN Refuse("INVALID_SIZE")
         ELSE /\ flash' = a.flash /\ wrote' = a.wrote /\ partial' = a.partial
              /\ sent' = sent + size /\ result' = "OK"
              /\ UNCHANGED <<open, placed>>

(* The first data has not the magic byte: it is refused, after the erase.    *)
WriteNoMagic(size) ==
  /\ open /\ placed = {} /\ wrote = 0 /\ partial = <<>> /\ size > 0
  /\ ~Sequential \/ Inside(0, EraseSize(size))
  /\ flash' = IF Sequential THEN EraseRange(flash, 0, EraseSize(size)) ELSE flash
  /\ result' = "VALIDATE_FAILED"
  /\ UNCHANGED <<open, wrote, partial, sent, placed>>

(* esp_ota_write_with_offset of a packet; packets do not overlap.  With      *)
(* encryption a size that is no number of blocks is refused, and an offset   *)
(* inside a block by the driver under esp_partition_write.                   *)
WriteWithOffset(offset, size) ==
  /\ open /\ sent = 0 /\ ~Sequential /\ size > 0
  /\ Inside(offset, size) /\ offset .. offset + size - 1 \cap placed = {}
  /\ IF Encrypted /\ (size % Block # 0 \/ offset % Block # 0) THEN Refuse("INVALID_ARG")
     ELSE /\ flash' = WriteUnits(flash, offset, Stream(offset, size))
          /\ wrote' = wrote + size
          /\ placed' = placed \cup offset .. offset + size - 1
          /\ result' = "OK"
          /\ UNCHANGED <<open, partial, sent>>

(* Mutant: the units kept in the handle are dropped.                         *)
FlushNot(f) == f

(* The last, incomplete block.                                               *)
Flush(f) == IF partial = <<>> THEN f ELSE WriteUnits(f, wrote, partial)

(* esp_ota_end: the handle goes whatever happens.                            *)
End ==
  /\ open /\ (Padded => partial = <<>>)
  /\ open' = FALSE
  /\ IF wrote = 0
     THEN result' = "INVALID_ARG" /\ UNCHANGED <<flash, wrote, partial>>
     ELSE /\ flash' = Flush(flash) /\ result' = "ENDED"
          /\ wrote' = IF partial = <<>> THEN wrote ELSE wrote + Block
          /\ partial' = <<>>
  /\ UNCHANGED <<sent, placed>>

(* esp_ota_abort                                                             *)
Abort ==
  /\ open /\ open' = FALSE /\ result' = "OK"
  /\ UNCHANGED <<flash, wrote, partial, sent, placed>>

Next ==
  /\ UNCHANGED config
  /\ \/ Begin \/ End \/ Abort
     \/ \E size \in 0 .. MaxWrite :
          \/ Write(size) \/ WriteNoMagic(size)
          \/ \E offset \in Units : WriteWithOffset(offset, size)

Spec == Init /\ [][Next]_vars

-------------------------------------------------------------------------------
(* After esp_ota_end the whole image is in the partition.                    *)
ImageComplete ==
  result = "ENDED" => /\ \A u \in 0 .. sent - 1 : flash[u] = u
                      /\ \A u \in placed : flash[u] = u

(* An image that fits in the partition, with a unit to spare, is not refused *)
(* half way: the range that is erased ahead never runs past the end.         *)
NotRefused == result # "INVALID_SIZE"
================================================================================
