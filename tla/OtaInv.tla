--------------------------------- MODULE OtaInv ---------------------------------
(***************************************************************************)
(* The inductive invariants behind the proofs about Ota: what the flash, the *)
(* list of flash operations and the promises have in common in every         *)
(* reachable state.  RunInv holds whatever the application does, PlainInv is *)
(* about builds without rollback, OrderInv about builds with it.             *)
(***************************************************************************)
EXTENDS Ota

-------------------------------------------------------------------------------
(* Whatever the application does.                                            *)

(* Partition p holds an image that verifies and that the eFuse allows.       *)
Runnable(p) == image[p].ok /\ (AntiRollback => image[p].version >= efuse)

(* What the list of operations may do to the partition that runs, or that    *)
(* the bootloader is about to run.                                           *)
SparesPartition(p) ==
  \A j \in 1 .. Len(todo) :
    /\ todo[j].op = "wipe" => todo[j].at # p
    /\ todo[j].op = "burn" => AntiRollback /\ todo[j].at <= image[p].version

(* What runs, or is about to run, can be booted again, and the operations    *)
(* under way leave it alone; there is always some image that verifies.       *)
RunInv ==
  /\ mode = "app" => Runnable(running) /\ SparesPartition(running) /\ handle.part # running
  /\ mode = "boot" => /\ call.fn = "boot"
                      /\ \A j \in 1 .. Len(todo) : todo[j].op # "wipe"
                      /\ call.part # NoPartition => Runnable(call.part) /\ SparesPartition(call.part)
  /\ mode = "off" => todo = <<>> /\ call = Idle
  /\ mode # "app" => handle = NoHandle /\ updated = NoPartition
  /\ call = Idle => todo = <<>>
  /\ call.fn = "boot" => mode = "boot"
  /\ \E p \in Partitions : image[p].ok

-------------------------------------------------------------------------------
(* The switch without rollback.                                              *)

(* The builds without rollback of which AtomicSwitch speaks.                 *)
Plain == ~Rollback /\ Liberties \subseteq {"set_again"}

(* The entries after the i-th has been rewritten.                            *)
Rewritten(d, i, x) == [d EXCEPT ![i] = x]

(* All operations are on one sector; whatever they leave there, what boots   *)
(* is one of the partitions of the switch.                                   *)
PlainInv ==
  Plain /\ switch # {} =>
    /\ BootChoice(otadata, image, efuse) \in switch
    /\ \E i \in {0, 1} : \A j \in 1 .. Len(todo) :
         /\ todo[j].op \in {"erase", "write"} /\ todo[j].at = i
         /\ \A x \in Entries : ~x.crc \/ x = todo[j].entry =>
              BootChoice(Rewritten(otadata, i, x), image, efuse) \in switch

-------------------------------------------------------------------------------
(* Rollback and an orderly application.                                      *)

(* A valid entry: of a confirmed application, of one that has not been       *)
(* started, of one on trial.                                                 *)
Settled(e) == SelectValid(e) /\ e.state = "VALID"
Trial(e) == SelectValid(e) /\ e.state = "NEW"
Pending(e) == SelectValid(e) /\ e.state = "PENDING_VERIFY"

(* The base is the application to go back to: the one of the newest settled  *)
(* entry, else the one installed in the factory.                             *)
BaseIndex == SelectOtadata(otadata, [i \in {0, 1} |-> Settled(otadata[i])])
BasePart == IF BaseIndex = -1 THEN FirstPartition ELSE SlotOf(otadata[BaseIndex])

(* An entry that comes before the base, where it is selected.                *)
Above(e) == BaseIndex # -1 => e.seq > otadata[BaseIndex].seq

(* Every valid entry is of one of the three kinds; while none is settled,    *)
(* the second sector is never written in full.                               *)
EntriesInv ==
  /\ \A i \in {0, 1} : SelectValid(otadata[i]) =>
       otadata[i].state \in {"NEW", "PENDING_VERIFY", "VALID"}
  /\ BaseIndex = -1 => ~otadata[1].crc

(* The base works, and can be booted.                                        *)
BaseInv == BasePart \in confirmed /\ Runnable(BasePart)

(* Partition p waits for its trial.                                          *)
Fresh(p) == p \notin confirmed /\ p \notin tried /\ Runnable(p)

(* A new entry is selected before the base, and what it names has not run;   *)
(* until a restart the base runs.                                            *)
TrialInv ==
  \A i \in {0, 1} : Trial(otadata[i]) =>
    /\ Above(otadata[i]) /\ Fresh(SlotOf(otadata[i])) /\ good = BasePart
    /\ switch # {} => SlotOf(otadata[i]) \in switch
    /\ mode = "app" => running = BasePart /\ handle = NoHandle
    /\ mode = "boot" => call.part = SlotOf(otadata[i])

(* A pending entry is the running application's; the bootloader has just     *)
(* made it, or is about to abort it.                                         *)
PendingInv ==
  \A i \in {0, 1} : Pending(otadata[i]) =>
    /\ mode = "app" => /\ SlotOf(otadata[i]) = running /\ Above(otadata[i]) /\ running # BasePart
    /\ mode = "boot" =>
         \/ \E j \in 1 .. Len(todo) :
              todo[j].op = "write" /\ todo[j].at = i /\ todo[j].entry.state = "ABORTED"
         \/ /\ SlotOf(otadata[i]) = call.part /\ Above(otadata[i]) /\ call.part \notin confirmed

(* The j-th operation writes a settled entry, or a pending one.              *)
SettlingIn(j) == todo[j].op = "write" /\ Settled(todo[j].entry)
PendingIn(j) == todo[j].op = "write" /\ Pending(todo[j].entry)

(* The base runs, or an application on trial: it has not been confirmed, or  *)
(* the entry that says so is about to be written.                            *)
AppInv ==
  mode = "app" =>
    /\ running = BasePart => good = running \/ call.fn = "mark_valid"
    /\ running # BasePart =>
         /\ handle = NoHandle /\ updated = NoPartition /\ good = BasePart
         /\ \/ running \notin confirmed /\ call.fn = "mark_invalid"
            \/ /\ running \notin confirmed /\ call = Idle
               /\ \E i \in {0, 1} : Pending(otadata[i])
            \/ /\ running \in confirmed /\ call.fn = "mark_valid"
               /\ \E j \in 1 .. Len(todo) : SettlingIn(j)

(* The bootloader starts the base, or an application that has not run; the   *)
(* last thing it does before is to mark the entry.                           *)
BootInv ==
  mode = "boot" =>
    \/ call.part = BasePart
    \/ /\ call.part \in Partitions \ (confirmed \cup tried) /\ good = BasePart
       /\ \/ todo # <<>> /\ PendingIn(Len(todo))
          \/ /\ todo = <<>>
             /\ \E i \in {0, 1} : Pending(otadata[i]) /\ SlotOf(otadata[i]) = call.part

(* An update is into another partition than the base.                        *)
UpdateInv ==
  /\ updated # NoPartition => updated # running /\ updated \notin confirmed
  /\ handle # NoHandle => handle.part \in Slots
  /\ handle.stage > 0 => handle.part \notin confirmed
  /\ switch # {} => BasePart \in switch

(* An operation that leaves no entry to boot, or one on trial.               *)
KillOp(op) ==
  /\ op.op \in {"erase", "write"} /\ op.at # BaseIndex
  /\ ~Settled(op.entry) /\ ~Trial(op.entry)
  /\ SelectValid(op.entry) => Pending(op.entry)
  /\ BaseIndex = -1 /\ op.at = 1 => ~op.entry.crc
  /\ Pending(op.entry) => /\ mode = "boot" /\ SlotOf(op.entry) = call.part
                          /\ call.part \notin confirmed /\ Above(op.entry)

(* esp_ota_set_boot_partition writes a new entry.                            *)
TrialOp(op) ==
  /\ op.op = "write" /\ op.at # BaseIndex /\ Trial(op.entry) /\ Above(op.entry)
  /\ mode = "app" /\ call.fn = "set_boot" /\ call.part = SlotOf(op.entry)
  /\ Fresh(call.part) /\ running = BasePart /\ handle = NoHandle
  /\ BaseIndex = -1 => op.at = 0
  /\ switch # {} => call.part \in switch

(* The j-th operation makes an application the base; what remains after it   *)
(* is to burn the eFuse.                                                     *)
SettleOp(j) ==
  LET op == todo[j]
  IN  /\ SettlingIn(j) /\ op.at # BaseIndex /\ Above(op.entry)
      /\ SlotOf(op.entry) \in confirmed /\ Runnable(SlotOf(op.entry))
      /\ BaseIndex = -1 => op.at = 0
      /\ \A i \in {0, 1} : ~Trial(otadata[i])
      /\ \A k \in j + 1 .. Len(todo) : todo[k].op = "burn"
      /\ \/ mode = "app" /\ call.fn = "mark_valid" /\ SlotOf(op.entry) = running /\ switch = {}
         \/ mode = "boot" /\ call.part = BasePart /\ SlotOf(op.entry) = BasePart

(* The eFuse is burnt to no more than the version of the base, or of the     *)
(* application that is the base by then.                                     *)
BurnOp(j) ==
  /\ todo[j].op = "burn" /\ AntiRollback
  /\ \A i \in {0, 1} : ~Trial(otadata[i])
  /\ call.fn \in {"boot", "mark_valid"}
  /\ \/ todo[j].at <= image[BasePart].version
     \/ call.fn = "mark_valid" /\ \E k \in 1 .. j - 1 : SettlingIn(k)

(* A partition other than the base is erased.                                *)
WipeOp(op) ==
  /\ op.op = "wipe" /\ op.at # BasePart
  /\ call.fn = "erase_last" \/ (call.fn = "set_boot" /\ call.part = NoPartition)
  /\ mode = "app" /\ running = BasePart
  /\ \A i \in {0, 1} : ~Trial(otadata[i])

(* The list has no other operations.                                         *)
OpsInv ==
  \A j \in 1 .. Len(todo) :
    KillOp(todo[j]) \/ TrialOp(todo[j]) \/ SettleOp(j) \/ BurnOp(j) \/ WipeOp(todo[j])

(* Rollback keeps its promise to an orderly application.                     *)
Ordered ==
  EntriesInv /\ BaseInv /\ TrialInv /\ PendingInv /\ AppInv /\ BootInv /\ UpdateInv /\ OpsInv

OrderInv == Orderly /\ Rollback => Ordered
================================================================================
