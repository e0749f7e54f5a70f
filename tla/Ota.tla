---------------------------------- MODULE Ota ----------------------------------
(***************************************************************************)
(* Over-the-air updates: an application that downloads images and changes    *)
(* the OTA data (components/app_update/esp_ota_ops.c), the bootloader that   *)
(* reads it (components/bootloader_support/src/bootloader_utility.c), and    *)
(* power failures between any two flash operations.                          *)
(*                                                                           *)
(* A call that changes the OTA data or burns the eFuse is a list of flash    *)
(* operations carried out one at a time.  A reset drops the rest of the list *)
(* and may tear the operation in progress.                                   *)
(***************************************************************************)
EXTENDS OtaData

CONSTANT Configs   \* the builds, and the applications on them, to look at

Liberties == config.liberties     \* in what the application departs from the docs
MaxVersion == config.maxVersion   \* bound: secure versions of images
MaxSeq == config.maxSeq           \* bound: sequence numbers of OTA entries

AllLiberties ==
  {"rewrite",        \* update any slot, the one selected to boot too
   "set_again",      \* select any good image at any time
   "confirm_late",   \* confirm when another application is selected
   "invalidate",     \* roll back from a confirmed application
   "erase_early",    \* erase the previous application unconfirmed
   "factory"}        \* go back to the factory application

ASSUME OtaAssumption ==
  \A c \in Configs :
    /\ c.n \in Nat \ {0} /\ c.maxVersion \in Nat /\ c.maxSeq \in Nat /\ c.maxSeq >= c.n
    /\ {c.factory, c.rollback, c.antiRollback} \subseteq BOOLEAN
    /\ c.antiRollback => c.rollback /\ ~c.factory
    /\ c.liberties \subseteq AllLiberties

VARIABLES
  otadata,     \* the two entries of the OTA data partition
  image,       \* what each application partition holds
  efuse,       \* secure version in the eFuse
  mode,        \* "off", "boot" (the bootloader runs) or "app"
  running,     \* partition of the running application
  todo,        \* flash operations the current call has still to do
  call,        \* the current call
  handle,      \* the update begun with esp_ota_begin
  (* What was promised; no code reads these. *)
  updated,     \* partition whose update ended well since the last reset
  target,      \* partition set by esp_ota_set_boot_partition, still in force
  switch,      \* partitions that may boot from the start of that call on
  confirmed,   \* partitions whose image was installed in the factory or declared itself working
  good,        \* the last of these that ran
  tried        \* partitions whose image has run without being confirmed

flash == <<otadata, image, efuse>>
machine == <<mode, running, todo, call, handle>>
ghosts == <<updated, target, switch, confirmed, good, tried>>
vars == <<config, flash, machine, ghosts>>

Idle == [fn |-> "none", part |-> NoPartition]
NoHandle == [part |-> NoPartition, version |-> 0, lazy |-> FALSE, stage |-> 0]
FirstPartition == IF HasFactory THEN FACTORY_INDEX ELSE 0

EraseSector(i) == [op |-> "erase", at |-> i, entry |-> Erased]
WriteEntry(i, e) == [op |-> "write", at |-> i, entry |-> e]
Wipe(p) == [op |-> "wipe", at |-> p, entry |-> Erased]
Burn(version) == [op |-> "burn", at |-> version, entry |-> Erased]

(* rewrite_ota_seq and the bootloader's write_otadata                        *)
Rewrite(i, e) == <<EraseSector(i), WriteEntry(i, e)>>

Entries == [seq : -1 .. MaxSeq, state : States, crc : BOOLEAN]
Images == [version : -1 .. MaxVersion, ok : BOOLEAN]
OtaOps == [op : {"erase", "write"}, at : {0, 1}, entry : Entries]
Ops == OtaOps \cup [op : {"wipe"}, at : Slots, entry : {Erased}]
              \cup [op : {"burn"}, at : 0 .. MaxVersion, entry : {Erased}]
Calls == [fn : {"none", "boot", "set_boot", "mark_valid", "mark_invalid", "erase_last"},
          part : Partitions \cup {NoPartition}]
Updates == [part : Slots \cup {NoPartition}, version : 0 .. MaxVersion,
            lazy : BOOLEAN, stage : 0 .. 2]

TypeOK ==
  /\ config \in Configs
  /\ otadata \in [{0, 1} -> Entries] /\ image \in [Partitions -> Images]
  /\ efuse \in 0 .. MaxVersion
  /\ mode \in {"off", "boot", "app"} /\ running \in Partitions \cup {NoPartition}
  /\ (mode = "app") = (running # NoPartition)
  /\ todo \in Seq(Ops) /\ call \in Calls /\ handle \in Updates
  /\ {updated, target, good} \subseteq Partitions \cup {NoPartition}
  /\ switch \subseteq Partitions /\ confirmed \subseteq Partitions /\ tried \subseteq Partitions

Init ==
  /\ config \in Configs
  /\ otadata = [i \in {0, 1} |-> Erased]
  /\ image = [p \in Partitions |-> IF p = FirstPartition
                                   THEN [version |-> 0, ok |-> TRUE] ELSE NoImage]
  /\ efuse = 0
  /\ mode = "off" /\ running = NoPartition /\ todo = <<>> /\ call = Idle /\ handle = NoHandle
  /\ updated = NoPartition /\ target = NoPartition /\ switch = {}
  /\ confirmed = {FirstPartition} /\ good = FirstPartition /\ tried = {}

-------------------------------------------------------------------------------
(* Flash and power.                                                          *)

FlashStep ==
  /\ todo # <<>>
  /\ LET op == Head(todo)
     IN  /\ otadata' = IF op.op \in {"erase", "write"}
                       THEN [otadata EXCEPT ![op.at] = op.entry] ELSE otadata
         /\ image' = IF op.op = "wipe" THEN [image EXCEPT ![op.at] = NoImage] ELSE image
         /\ efuse' = IF op.op = "burn" THEN UpdateSecureVersion(op.at, efuse) ELSE efuse
  /\ todo' = Tail(todo)
  /\ UNCHANGED <<mode, running, call, handle, ghosts>>

(* What a power failure during an operation may leave of an entry.  An entry *)
(* is written from its first word on; its checksum is the last word.         *)
Torn(op) ==
  CASE op.op = "erase" -> {[otadata[op.at] EXCEPT !.crc = FALSE]}
    [] op.op = "write" -> {[op.entry EXCEPT !.crc = FALSE],
                           [op.entry EXCEPT !.crc = FALSE, !.state = "UNDEFINED"]}
    [] OTHER -> {}

(* Power failure, crash, watchdog or esp_restart.                            *)
Reset ==
  /\ mode # "off"
  /\ mode' = "off" /\ running' = NoPartition
  /\ todo' = <<>> /\ call' = Idle /\ handle' = NoHandle
  /\ \/ otadata' = otadata
     \/ /\ todo # <<>>
        /\ \E e \in Torn(Head(todo)) : otadata' = [otadata EXCEPT ![Head(todo).at] = e]
  /\ updated' = NoPartition /\ target' = NoPartition
  /\ UNCHANGED <<image, efuse, switch, confirmed, good, tried>>

-------------------------------------------------------------------------------
(* The bootloader.                                                           *)

(* Mutant: the state stays NEW.                                              *)
MarkPendingNot(d, entry) == <<>>

MarkPending(d, entry) ==
  IF Rollback /\ entry # -1 /\ d[entry].state = "NEW"
  THEN Rewrite(entry, [d[entry] EXCEPT !.state = "PENDING_VERIFY"]) ELSE <<>>

SetActualOtaSeq(d, p) ==
  IF p \in Slots /\ InitialContents(d)
  THEN Rewrite(0, Entry(p + 1, "VALID"))
       \o (IF AntiRollback THEN <<Burn(image[p].version)>> ELSE <<>>)
  ELSE <<>>

Boot ==
  /\ mode = "off"
  /\ LET b == BootDecision(otadata, image, efuse)
         Aborted(i) == IF b.d[i] # otadata[i] THEN Rewrite(i, b.d[i]) ELSE <<>>
         burn == IF b.efuse # efuse THEN <<Burn(b.efuse)>> ELSE <<>>
     IN  /\ todo' = Aborted(0) \o Aborted(1) \o MarkPending(b.d, b.entry)
                    \o burn \o SetActualOtaSeq(b.d, b.part)
         /\ call' = [fn |-> "boot", part |-> b.part]
  /\ mode' = "boot"
  /\ UNCHANGED <<flash, running, handle, ghosts>>

(* load_image starts the application; with none, bootloader_reset.           *)
StartApp ==
  /\ call.fn = "boot" /\ todo = <<>>
  /\ call' = Idle
  /\ running' = call.part
  /\ mode' = IF call.part = NoPartition THEN "off" ELSE "app"
  /\ good' = IF call.part \in confirmed THEN call.part ELSE good
  /\ tried' = IF call.part \in Partitions \ confirmed THEN tried \cup {call.part} ELSE tried
  /\ UNCHANGED <<flash, todo, handle, updated, target, switch, confirmed>>

-------------------------------------------------------------------------------
(* Downloading an image.                                                     *)

Ready == mode = "app" /\ call = Idle
Selected == BootPartition(otadata) = running

(* The image in p changes: nothing is promised of it any more.               *)
ForgetImage(p) ==
  /\ confirmed' = confirmed \ {p} /\ tried' = tried \ {p}
  /\ target' = NoPartition /\ switch' = {}

(* Mutant: the running partition may be updated in place.                    *)
MayUpdateRunning(p) == Rollback => StatePartition(otadata, running) # "PENDING_VERIFY"

(* Mutant: an unconfirmed application may update.                            *)
MayUpdateUnconfirmed(p) == p # running

MayUpdate(p) ==
  /\ p # running
  /\ Rollback => StatePartition(otadata, running) # "PENDING_VERIFY"

(* esp_ota_begin; lazy is OTA_WITH_SEQUENTIAL_WRITES.                        *)
OtaBegin(p, lazy) ==
  /\ Ready /\ handle = NoHandle
  /\ p \in Slots /\ MayUpdate(p)
  /\ "rewrite" \in Liberties \/ (Selected /\ p = NextUpdatePartition(running))
  /\ \E v \in 0 .. MaxVersion :
       handle' = [part |-> p, version |-> v, lazy |-> lazy, stage |-> 0]
  /\ IF lazy THEN UNCHANGED <<image, confirmed, tried, target, switch>>
     ELSE image' = [image EXCEPT ![p] = NoImage] /\ ForgetImage(p)
  /\ UNCHANGED <<otadata, efuse, mode, running, todo, call, updated, good>>

(* esp_ota_write: the first data holds the application's description; after  *)
(* the last, the image verifies unless the download was damaged.             *)
OtaWrite ==
  /\ Ready /\ handle # NoHandle /\ handle.stage < 2
  /\ handle' = [handle EXCEPT !.stage = @ + 1]
  /\ \E ok \in BOOLEAN :
       image' = [image EXCEPT ![handle.part] =
                   [version |-> handle.version, ok |-> ok /\ handle.stage = 1]]
  /\ ForgetImage(handle.part)
  /\ UNCHANGED <<otadata, efuse, mode, running, todo, call, updated, good>>

(* esp_ota_end: the handle is freed whatever the verification says.          *)
OtaEnd ==
  /\ Ready /\ handle # NoHandle
  /\ updated' = IF handle.stage > 0 /\ image[handle.part].ok THEN handle.part ELSE updated
  /\ handle' = NoHandle
  /\ UNCHANGED <<flash, mode, running, todo, call, target, switch, confirmed, good, tried>>

OtaAbort ==
  /\ Ready /\ handle # NoHandle
  /\ handle' = NoHandle
  /\ UNCHANGED <<flash, mode, running, todo, call, ghosts>>

-------------------------------------------------------------------------------
(* Changing the OTA data.                                                    *)

Start(fn, p, ops) ==
  /\ call' = [fn |-> fn, part |-> p] /\ todo' = ops

(* esp_ota_set_boot_partition with a factory partition formats the OTA data. *)
SetBootFactory ==
  /\ Ready /\ HasFactory /\ image[FACTORY_INDEX].ok
  /\ "factory" \in Liberties
  /\ Start("set_boot", FACTORY_INDEX, <<EraseSector(0), EraseSector(1)>>)
  /\ switch' = {BootChoice(otadata, image, efuse), running, FACTORY_INDEX}
  /\ target' = NoPartition
  /\ UNCHANGED <<flash, mode, running, handle, updated, confirmed, good, tried>>

(* ... with an OTA partition rewrites one entry, through                     *)
(* esp_rewrite_ota_data.  With anti-rollback a version that is too small     *)
(* gets its partition erased.                                                *)
SetBoot(p) ==
  /\ Ready /\ p \in Slots /\ image[p].ok
  /\ "set_again" \in Liberties \/ (Selected /\ p = updated /\ handle = NoHandle)
  /\ RewriteEntry(otadata, p).seq <= MaxSeq
  /\ IF AntiRollback /\ ~CheckSecureVersion(image[p].version, efuse)
     THEN Start("set_boot", NoPartition, <<Wipe(p)>>) /\ ForgetImage(p)
     ELSE /\ Start("set_boot", p, Rewrite(RewriteSector(otadata), RewriteEntry(otadata, p)))
          /\ switch' = {BootChoice(otadata, image, efuse), running, p} \ {NoPartition}
          /\ tried' = tried \ {p} /\ target' = NoPartition
          /\ UNCHANGED confirmed
  /\ updated' = NoPartition
  /\ UNCHANGED <<flash, mode, running, handle, good>>

(* esp_ota_mark_app_valid_cancel_rollback                                    *)
MarkValid ==
  /\ Ready /\ Active(otadata) # -1 /\ otadata[Active(otadata)].state # "VALID"
  /\ "confirm_late" \in Liberties \/ Selected
  /\ Start("mark_valid", running,
           Rewrite(Active(otadata), [otadata[Active(otadata)] EXCEPT !.state = "VALID"])
           \o (IF AntiRollback /\ image[running].version # NoDescription
               THEN <<Burn(image[running].version)>> ELSE <<>>))
  /\ confirmed' = confirmed \cup {running}
  /\ target' = NoPartition /\ switch' = {}
  /\ UNCHANGED <<flash, mode, running, handle, updated, good, tried>>

(* esp_ota_mark_app_invalid_rollback_and_reboot                              *)
MarkInvalid ==
  /\ Ready /\ Active(otadata) # -1 /\ RollbackIsPossible(otadata, image, efuse)
  /\ "invalidate" \in Liberties \/ running \notin confirmed
  /\ Start("mark_invalid", running,
           Rewrite(Active(otadata), [otadata[Active(otadata)] EXCEPT !.state = "INVALID"]))
  /\ target' = NoPartition /\ switch' = {}
  /\ UNCHANGED <<flash, mode, running, handle, updated, confirmed, good, tried>>

(* esp_ota_erase_last_boot_app_partition: the image, then its entry.         *)
EraseLast ==
  /\ Ready /\ Active(otadata) # -1
  /\ LET i == 1 - Active(otadata)
         p == SlotOf(otadata[i])
     IN  /\ otadata[i].seq # UINT32_MAX /\ otadata[i].crc /\ p # running
         /\ Start("erase_last", p, <<Wipe(p), EraseSector(i)>>)
         /\ ForgetImage(p)
  /\ "erase_early" \in Liberties \/ (Selected /\ running \in confirmed)
  /\ UNCHANGED <<flash, mode, running, handle, updated, good>>

(* A call returns; a rollback restarts instead.                              *)
Return ==
  /\ mode = "app" /\ call # Idle /\ todo = <<>>
  /\ call' = Idle
  /\ target' = IF call.fn = "set_boot" THEN call.part ELSE target
  /\ good' = IF call.fn = "mark_valid" THEN running ELSE good
  /\ mode' = IF call.fn = "mark_invalid" THEN "off" ELSE mode
  /\ running' = IF call.fn = "mark_invalid" THEN NoPartition ELSE running
  /\ handle' = IF call.fn = "mark_invalid" THEN NoHandle ELSE handle
  /\ updated' = IF call.fn = "mark_invalid" THEN NoPartition ELSE updated
  /\ UNCHANGED <<flash, todo, switch, confirmed, tried>>

Next ==
  /\ UNCHANGED config
  /\ \/ FlashStep \/ Reset \/ Boot \/ StartApp
     \/ \E p \in Slots, lazy \in BOOLEAN : OtaBegin(p, lazy)
     \/ OtaWrite \/ OtaEnd \/ OtaAbort
     \/ SetBootFactory \/ \E p \in Slots : SetBoot(p)
     \/ MarkValid \/ MarkInvalid \/ EraseLast \/ Return

Spec == Init /\ [][Next]_vars

(* While it has power, the processor goes on.                                *)
FairSpec ==
  Spec /\ WF_vars(FlashStep /\ UNCHANGED config) /\ WF_vars(Boot /\ UNCHANGED config)
       /\ WF_vars(StartApp /\ UNCHANGED config)

-------------------------------------------------------------------------------
(* An application that follows the procedure of docs/en/api-reference/system/ota.rst *)
Orderly == Liberties = {}

(* The bootloader always finds an image that verifies and that the eFuse     *)
(* allows, whatever was erased, torn or marked.                              *)
NeverBricked == BootChoice(otadata, image, efuse) # NoPartition

(* NeverBricked holds of every build without anti-rollback, whatever the     *)
(* application does, and with it if the application is orderly.              *)
AlwaysBootable == (AntiRollback => Orderly) => NeverBricked

(* When esp_ota_set_boot_partition has returned ESP_OK, a restart boots that *)
(* partition (esp_ota_ops.h:175), however the entries stood before.          *)
SetBootTakesEffect ==
  target # NoPartition /\ todo = <<>> => BootChoice(otadata, image, efuse) = target

(* From the start of esp_ota_set_boot_partition on, through power failures   *)
(* in it and in the bootloader, what boots is the partition that was set,    *)
(* the one set before, or the application that asked for the switch: the two *)
(* sectors make the switch atomic.  Without rollback this holds of repeated  *)
(* calls too; with it, of an orderly application.                            *)
AtomicSwitch ==
  (Orderly \/ (~Rollback /\ Liberties \subseteq {"set_again"})) /\ switch # {} =>
    BootChoice(otadata, image, efuse) \in switch

(* While an application runs that has not been confirmed, a reset at any     *)
(* moment goes back to the application that worked last.                     *)
RollsBack ==
  Orderly /\ Rollback /\ mode = "app" /\ running \notin confirmed =>
    BootChoice(otadata, image, efuse) = good

(* An entry that is selected as VALID names an application that has declared *)
(* itself to work (esp_flash_partitions.h:50).                               *)
ValidMeansConfirmed ==
  LET b == BootDecision(otadata, image, efuse)
  IN  Orderly /\ Rollback /\ b.entry # -1 /\ b.d[b.entry].state = "VALID" =>
        SlotOf(b.d[b.entry]) \in confirmed

(* A new application has one attempt: it is not started a second time unless *)
(* it was confirmed or set again (ota.rst:61).                               *)
NoSecondTrial ==
  [][Orderly /\ Rollback /\ mode = "boot" /\ mode' = "app" /\ running' \notin confirmed =>
       running' \notin tried]_vars

(* Once resets stop, other than the bootloader's own when nothing loads, the *)
(* device is always back in an application after a while, whatever the       *)
(* resets left behind: the bootloader does not start over for ever.          *)
ComesUp == <>[][Reset => StartApp]_vars => []<>(mode = "app")

(* With anti-rollback no application below the eFuse's version runs, and the *)
(* eFuse never passes the version of every application that declared itself  *)
(* working or was installed in the factory, if the application is orderly.   *)
VersionsHold ==
  AntiRollback =>
    /\ mode = "app" => image[running].version >= efuse
    /\ Orderly => \E p \in confirmed : image[p].ok /\ image[p].version >= efuse
================================================================================
