-------------------------------- MODULE OtaData --------------------------------
(***************************************************************************)
(* The OTA data partition and the choice of the application to boot:         *)
(* components/bootloader_support/src/bootloader_common_loader.c and          *)
(* bootloader_utility.c, and the functions of app_update/esp_ota_ops.c that  *)
(* read and rewrite the two entries.                                         *)
(*                                                                           *)
(* A partition is named by the bootloader's index: 0 .. N - 1 are the slots  *)
(* ota_0 .. ota_(N-1), FACTORY_INDEX is the factory application.             *)
(***************************************************************************)
EXTENDS Integers, Sequences

(* A build of the program: its partition table, its configuration, and what *)
(* the model bounds for it.  It never changes.                               *)
VARIABLE config

N == config.n                         \* number of OTA application slots
HasFactory == config.factory          \* the partition table has a factory application
Rollback == config.rollback           \* CONFIG_BOOTLOADER_APP_ROLLBACK_ENABLE
AntiRollback == config.antiRollback   \* CONFIG_BOOTLOADER_APP_ANTI_ROLLBACK

FACTORY_INDEX == -1
Slots == 0 .. N - 1
Partitions == Slots \cup (IF HasFactory THEN {FACTORY_INDEX} ELSE {})
NoPartition == -2

\* esp_ota_img_states_t
States == {"NEW", "PENDING_VERIFY", "VALID", "INVALID", "ABORTED", "UNDEFINED"}

\* ota_seq of an erased sector, 0xFFFFFFFF
UINT32_MAX == -1

(* esp_ota_select_entry_t: crc says whether the stored checksum, which is    *)
(* the last word of the entry, is that of ota_seq.                           *)
Erased == [seq |-> UINT32_MAX, state |-> "UNDEFINED", crc |-> FALSE]
Entry(seq, state) == [seq |-> seq, state |-> state, crc |-> TRUE]

(* An application image: its secure version, NoDescription where the         *)
(* description cannot be read, and whether esp_image_verify accepts it.      *)
NoDescription == -1
NoImage == [version |-> NoDescription, ok |-> FALSE]

SelectInvalid(e) == e.seq = UINT32_MAX \/ e.state \in {"INVALID", "ABORTED"}

SelectValid(e) == ~SelectInvalid(e) /\ e.crc

(* bootloader_common_select_otadata with max: the entry with the greater     *)
(* sequence number, the first of two equal ones, -1 if neither is valid.     *)
SelectOtadata(d, valid) ==
  CASE valid[0] /\ valid[1] -> IF d[0].seq >= d[1].seq THEN 0 ELSE 1
    [] valid[0] /\ ~valid[1] -> 0
    [] ~valid[0] /\ valid[1] -> 1
    [] OTHER -> -1

Active(d) == SelectOtadata(d, [i \in {0, 1} |-> SelectValid(d[i])])

SlotOf(e) == (e.seq - 1) % N

-------------------------------------------------------------------------------
(* The bootloader.                                                           *)

(* Mutant: the eFuse is not looked at.                                       *)
CheckSecureVersionNot(version, efuse) == version # NoDescription

CheckSecureVersion(version, efuse) == version # NoDescription /\ version >= efuse

CheckAntiRollback(img, efuse) == AntiRollback => CheckSecureVersion(img.version, efuse)

UpdateSecureVersion(version, efuse) == IF version > efuse THEN version ELSE efuse

(* Mutant: an application that was not confirmed is given another boot.      *)
AbortPendingNot(d) == d

(* The entries as the bootloader holds them after its first pass.            *)
AbortPending(d) ==
  [i \in {0, 1} |-> IF Rollback /\ d[i].state = "PENDING_VERIFY"
                    THEN [d[i] EXCEPT !.state = "ABORTED"] ELSE d[i]]

BothInvalid(d) == SelectInvalid(d[0]) /\ SelectInvalid(d[1])
NotWritten(e) == e.seq = UINT32_MAX \/ ~e.crc

(* ota_has_initial_contents                                                  *)
InitialContents(d) ==
  /\ NotWritten(d[0]) /\ NotWritten(d[1])
  /\ AntiRollback \/ (BothInvalid(d) /\ ~HasFactory)

(* The entry the bootloader selects, -1 if none.                             *)
BootEntry(d, image, efuse) ==
  IF AntiRollback
  THEN SelectOtadata(d, [i \in {0, 1} |->
         SelectValid(d[i]) /\ CheckSecureVersion(image[SlotOf(d[i])].version, efuse)])
  ELSE Active(d)

(* bootloader_utility_get_selected_boot_partition: the index to start from.  *)
StartIndex(d, entry) ==
  CASE entry # -1 -> SlotOf(d[entry])
    [] entry = -1 /\ ~AntiRollback /\ BothInvalid(d) /\ ~HasFactory -> 0
    [] OTHER -> FACTORY_INDEX

Loads(p, image, efuse) == CheckAntiRollback(image[p], efuse) /\ image[p].ok

(* bootloader_utility_load_boot_image: from the start index down to the      *)
(* factory application, then the slots above; NoPartition if nothing loads.  *)
LoadRank(start, p) == IF p <= start THEN start - p ELSE p + 1

(* Mutant: the slots above the start index are not tried.                    *)
LoadBootImageDownwards(start, image, efuse) ==
  LET bootable == {p \in Partitions : p <= start /\ Loads(p, image, efuse)}
  IN  IF bootable = {} THEN NoPartition
      ELSE CHOOSE p \in bootable : \A q \in bootable : p >= q

LoadBootImage(start, image, efuse) ==
  LET bootable == {p \in Partitions : Loads(p, image, efuse)}
  IN  IF bootable = {} THEN NoPartition
      ELSE CHOOSE p \in bootable :
             \A q \in bootable : LoadRank(start, p) <= LoadRank(start, q)

(* What a boot decides from the flash contents: the entries after its first  *)
(* pass, the entry selected, the eFuse version, and the partition run.       *)
BootDecision(otadata, image, efuse) ==
  LET d == AbortPending(otadata)
      entry == BootEntry(d, image, efuse)
      burnt == IF AntiRollback /\ entry # -1 /\ d[entry].state = "VALID"
               THEN UpdateSecureVersion(image[SlotOf(d[entry])].version, efuse)
               ELSE efuse
  IN  [d |-> d, entry |-> entry, efuse |-> burnt,
       part |-> LoadBootImage(StartIndex(d, entry), image, burnt)]

BootChoice(otadata, image, efuse) == BootDecision(otadata, image, efuse).part

-------------------------------------------------------------------------------
(* esp_ota_ops.c: looking at and rewriting the entries.                      *)

NewState == IF Rollback THEN "NEW" ELSE "UNDEFINED"

(* The first number from seq on that is base modulo N: the while loop.       *)
SeqFrom(base, seq) ==
  base + N * (CHOOSE i \in 0 .. seq : /\ seq <= base + i * N
                                      /\ \A j \in 0 .. i - 1 : seq > base + j * N)

(* Mutant: the number of the slot itself is used.                            *)
NextSeqOfSlot(slot, seq) == SeqFrom(slot % N, seq)

(* The smallest sequence number from seq on that selects the slot.           *)
NextSeq(slot, seq) == SeqFrom((slot + 1) % N, seq)

(* Mutant: the active entry is replaced.                                     *)
RewriteSectorActive(d) == IF Active(d) = -1 THEN 0 ELSE Active(d)

(* esp_rewrite_ota_data: the sector that is rewritten, and what it gets.     *)
RewriteSector(d) == IF Active(d) = -1 THEN 0 ELSE 1 - Active(d)

RewriteEntry(d, slot) ==
  Entry(IF Active(d) = -1 THEN slot + 1 ELSE NextSeq(slot, d[Active(d)].seq), NewState)

(* esp_ota_get_state_partition; "NOT_FOUND" stands for its error results.    *)
StatePartition(d, p) ==
  LET found == {i \in {0, 1} : d[i].crc /\ SlotOf(d[i]) = p}
  IN  IF p \notin Slots \/ found = {} THEN "NOT_FOUND"
      ELSE d[IF 0 \in found THEN 0 ELSE 1].state

(* esp_ota_check_rollback_is_possible                                        *)
RollbackIsPossible(d, image, efuse) ==
  /\ Active(d) # -1
  /\ LET last == d[1 - Active(d)]
     IN  \/ /\ ~AntiRollback /\ ~SelectValid(last)
            /\ HasFactory /\ image[FACTORY_INDEX].ok
         \/ /\ SelectValid(last) /\ image[SlotOf(last)].ok
            /\ CheckAntiRollback(image[SlotOf(last)], efuse)

(* esp_ota_get_boot_partition: the configured partition, whether or not its  *)
(* image is any good.                                                        *)
BootPartition(d) ==
  CASE Active(d) # -1 -> SlotOf(d[Active(d)])
    [] OTHER -> IF HasFactory THEN FACTORY_INDEX ELSE 0

(* esp_ota_get_next_update_partition                                         *)
NextUpdatePartition(start) == IF start + 1 \in Slots THEN start + 1 ELSE 0
================================================================================
