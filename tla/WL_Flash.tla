------------------------------- MODULE WL_Flash -------------------------------
(***************************************************************************)
(* The wear levelling layer of ESP-IDF (components/wear_levelling/          *)
(* WL_Flash.cpp).  A partition of flash_size + 1 data pages shows            *)
(* flash_size logical pages: one physical page, the dummy, is always free    *)
(* and walks through the partition, one page per UpdateRate erases.  Where   *)
(* it stands is kept in two state sectors, each a header (wl_state_t, with   *)
(* a CRC) followed by one position record per page moved since the header    *)
(* was written.                                                              *)
(*                                                                           *)
(* Every flash operation of the code is a step of its own, so that power     *)
(* may fail, or the driver may return an error, before, in the middle of     *)
(* or after each of them.  Units: one page = one flash sector, as wl_mount   *)
(* configures it, and addresses count pages.                                 *)
(***************************************************************************)
EXTENDS Integers, FlashCells

CONSTANTS
  FullSectors,    \* cfg.full_mem_size, in sectors
  SectorSize,     \* cfg.sector_size = cfg.page_size, in bytes
  WrSize,         \* cfg.wr_size: bytes of one position record
  StateLen,       \* sizeof(wl_state_t)
  CfgLen,         \* sizeof(wl_config_t)
  UpdateRate,     \* cfg.updaterate: erases between two moves of the dummy
  Ids,            \* what esp_random() may return for device_id
  PowerFailAt,    \* the steps at which power may fail
  MaxPowerFails,  \* bound: how often it does
  FaultAt,        \* the steps at which a flash operation may return an error
  MaxFaults       \* bound: how often one does

CeilDiv(n, d) == (n + d - 1) \div d

(* WL_Flash::config: the sizes of the regions, in sectors.                   *)
state_size == CeilDiv(StateLen + FullSectors * WrSize, SectorSize)
cfg_size   == CeilDiv(CfgLen, SectorSize)
flash_size == FullSectors - 2 * state_size - cfg_size - 1
max_pos    == flash_size + 1

ASSUME ConfigAccepts == flash_size \in Nat \ {0}
ASSUME RateAssumption == UpdateRate \in Nat \ {0}
ASSUME BoundAssumption == MaxPowerFails \in Nat /\ MaxFaults \in Nat

Page == 0 .. flash_size         \* physical pages
Addr == 0 .. flash_size - 1     \* logical pages
Copy == {1, 2}                  \* the two state sectors

-------------------------------------------------------------------------------
NoId  == "no_id"     \* device_id of an erased header
NoRec == "no_rec"    \* an erased (or half-written) position record

ASSUME IdAssumption == /\ Ids # {}
                       /\ NoId \notin Ids /\ NoRec \notin Ids

Versions == {"v2", "other"}
CfgVersion == "v2"

(* wl_state_t: the fields that change.  pos and access_count are always      *)
(* stored as 0.  ok says that the CRC matches.                               *)
Header == [ok : BOOLEAN, version : Versions, move_count : Addr, id : Ids \cup {NoId}]

Broken(id) == [ok |-> FALSE, version |-> "other", move_count |-> 0, id |-> id]
NoRecords  == [p \in Page |-> NoRec]

-------------------------------------------------------------------------------
VARIABLES
  data,          \* flash: the data pages
  hdr,           \* flash: the headers of the two state sectors
  rec,           \* flash: their position records
  pos,           \* state.pos: the page the dummy occupies
  move_count,    \* state.move_count
  device_id,     \* state.device_id
  access_count,  \* state.access_count
  pc,            \* the next flash operation of the call in progress
  job,           \* which repair init() is doing
  i,             \* loop counter of that repair
  op,            \* the call in progress, with its arguments
  expected,      \* history: what the completed calls left in each logical page
  powerFails,    \* number of power failures so far
  faults,        \* number of failed flash operations so far
  struck         \* history: power failed while sector 1 was being replaced after a turn

flashVars == <<data, hdr, rec>>
ramVars   == <<pos, move_count, device_id, access_count>>
callVars  == <<pc, job, i, op>>
vars == <<data, hdr, rec, pos, move_count, device_id, access_count,
          pc, job, i, op, expected, powerFails, faults, struck>>

SyncPcs == {"sync_erase", "sync_header", "sync_record"}
FmtPcs  == {"fmt_erase1", "fmt_header1", "fmt_erase2", "fmt_header2", "fmt_cfg"}
MovePcs == {"mv_erase", "mv_copy", "mv_rec1", "mv_rec2"}
WrapPcs == {"wrap_erase1", "wrap_header1", "wrap_erase2", "wrap_header2"}
ReplacePcs == {"wrap_erase1", "wrap_header1"}
OpPcs   == {"op_erase", "op_write"}
InitPcs == SyncPcs \cup FmtPcs
BusyPcs == InitPcs \cup MovePcs \cup WrapPcs \cup OpPcs
Pcs     == BusyPcs \cup {"off", "idle"}

Jobs == {"none", "update", "repair2", "repair1"}
NoOp == [kind |-> "none", addr |-> 0, last |-> 0, val |-> Erased]
Ops  == [kind : {"none", "erase", "write", "flush"}, addr : Addr, last : Addr,
         val : Values \cup {Erased}]

TypeOK ==
  /\ data \in [Page -> Content]
  /\ hdr \in [Copy -> Header]
  /\ rec \in [Copy -> [Page -> Ids \cup {NoRec}]]
  /\ pos \in Page
  /\ move_count \in Addr
  /\ device_id \in Ids \cup {NoId}
  /\ access_count \in 0 .. UpdateRate - 1
  /\ pc \in Pcs
  /\ job \in Jobs
  /\ i \in 0 .. max_pos
  /\ op \in Ops
  /\ expected \in [Addr -> Content]
  /\ powerFails \in 0 .. MaxPowerFails
  /\ faults \in 0 .. MaxFaults
  /\ struck \in BOOLEAN

-------------------------------------------------------------------------------
(* Mutant: the dummy page itself is not skipped.                             *)
calcAddrOnDummy(mc, p, a) ==
  LET r == (flash_size - mc + a) % flash_size
  IN  IF r <= p THEN r ELSE r + 1

(* WL_Flash::calcAddr: the physical page of logical page a.                  *)
calcAddr(mc, p, a) ==
  LET r == (flash_size - mc + a) % flash_size
  IN  IF r < p THEN r ELSE r + 1

(* WL_Flash::OkBuffSet for record n of records r.                            *)
OkBuffSet(r, n, id) == r[n] = id

(* WL_Flash::recoverPos: the first record that is not set, else the last.    *)
recoverPos(r, id) ==
  LET unset == {n \in Page : ~ OkBuffSet(r, n, id)}
  IN  IF unset = {} THEN max_pos - 1
      ELSE CHOOSE n \in unset : \A m \in unset : n <= m

(* The loops of init() that copy records run over full_mem_size/sector_size  *)
(* * wr_size indices and multiply the index by wr_size again.  They stay     *)
(* inside the partition, and hence succeed, only on small partitions.        *)
ScanFits(c) ==
  StateLen + FullSectors * WrSize * WrSize
    <= ((3 - c) * state_size + cfg_size) * SectorSize

dst == IF job = "repair1" THEN 1 ELSE 2
src == 3 - dst

RamHeader == [ok |-> TRUE, version |-> CfgVersion,
              move_count |-> move_count, id |-> device_id]

(* The object is destroyed: nothing of it is read again before the next init *)
PowerDown ==
  /\ pos' = 0 /\ move_count' = 0 /\ device_id' = NoId /\ access_count' = 0
  /\ pc' = "off" /\ job' = "none" /\ i' = 0 /\ op' = NoOp

-------------------------------------------------------------------------------
(* Initial states: an unformatted partition, or one formatted by another     *)
(* version of the library.  Either way the data pages hold anything.         *)
Init ==
  /\ data \in [Page -> Content]
  /\ \/ hdr = [c \in Copy |-> Broken(NoId)]
     \/ \E id \in Ids : hdr = [c \in Copy |->
          [ok |-> TRUE, version |-> "other", move_count |-> 0, id |-> id]]
  /\ rec = [c \in Copy |-> NoRecords]
  /\ pos = 0 /\ move_count = 0 /\ device_id = NoId /\ access_count = 0
  /\ pc = "off" /\ job = "none" /\ i = 0 /\ op = NoOp
  /\ expected = [a \in Addr |-> data[a + 1]]
  /\ powerFails = 0 /\ faults = 0 /\ struck = FALSE

-------------------------------------------------------------------------------
(* WL_Flash::initSections, first part: the new state in RAM.                 *)
StartFormat ==
  /\ pos' = 0 /\ move_count' = 0 /\ access_count' = 0
  /\ device_id' \in Ids
  /\ pc' = "fmt_erase1" /\ job' = "none" /\ i' = 0

(* WL_Flash::init up to the first flash operation that changes something.    *)
MountGood ==
  /\ hdr[1].ok /\ hdr[2].ok /\ hdr[1].version = CfgVersion /\ hdr[1] = hdr[2]
  /\ move_count' = hdr[1].move_count /\ device_id' = hdr[1].id
  /\ pos' = recoverPos(rec[1], hdr[1].id)
  /\ access_count' = 0
  /\ pc' = "idle" /\ UNCHANGED <<job, i>>

MountFormat ==
  /\ \/ hdr[1].ok /\ hdr[2].ok /\ hdr[1].version # CfgVersion
     \/ ~ hdr[1].ok /\ ~ hdr[2].ok
  /\ StartFormat

MountSync ==
  /\ \/ /\ hdr[1].ok /\ hdr[2].ok /\ hdr[1].version = CfgVersion /\ hdr[1] # hdr[2]
        /\ job' = "update"
     \/ hdr[1].ok /\ ~ hdr[2].ok /\ job' = "repair2"
     \/ ~ hdr[1].ok /\ hdr[2].ok /\ job' = "repair1"
  /\ move_count' = hdr[1].move_count /\ device_id' = hdr[1].id
  /\ pos' = 0 /\ access_count' = 0
  /\ pc' = "sync_erase" /\ i' = 0

Mount ==
  /\ pc = "off"
  /\ MountGood \/ MountFormat \/ MountSync
  /\ UNCHANGED <<data, hdr, rec, op, expected, powerFails, faults, struck>>

(* The read of state sector 1 fails.  init() does not look at the result: it *)
(* goes on with whatever the new object holds, whose CRC does not match.     *)
MountUnreadable ==
  /\ pc = "off" /\ pc \in FaultAt /\ faults < MaxFaults
  /\ IF hdr[2].ok
     THEN /\ pos' = 0 /\ move_count' = 0 /\ access_count' = 0
          /\ device_id' \in Ids \cup {NoId}
          /\ pc' = "sync_erase" /\ job' = "repair1" /\ i' = 0
     ELSE StartFormat
  /\ faults' = faults + 1
  /\ UNCHANGED <<data, hdr, rec, op, expected, powerFails, struck>>

(* The bad copy is erased, gets the header of the good one and then the      *)
(* records of the good one that carry the device_id in RAM.                  *)
SyncErase ==
  /\ pc = "sync_erase"
  /\ hdr' = [hdr EXCEPT ![dst] = Broken(NoId)]
  /\ rec' = [rec EXCEPT ![dst] = NoRecords]
  /\ pc' = "sync_header"
  /\ UNCHANGED <<data, ramVars, job, i, op, expected, powerFails, faults, struck>>

(* Mutant: the header is written from RAM, not from the good copy.           *)
SyncHeaderFromRam ==
  /\ pc = "sync_header"
  /\ hdr' = [hdr EXCEPT ![dst] = RamHeader]
  /\ pc' = "sync_record"
  /\ UNCHANGED <<data, rec, ramVars, job, i, op, expected, powerFails, faults, struck>>

SyncHeader ==
  /\ pc = "sync_header"
  /\ hdr' = [hdr EXCEPT ![dst] = hdr[src]]
  /\ pc' = "sync_record"
  /\ UNCHANGED <<data, rec, ramVars, job, i, op, expected, powerFails, faults, struck>>

SyncRecord ==
  /\ pc = "sync_record" /\ i < max_pos
  /\ rec' = IF OkBuffSet(rec[src], i, device_id)
            THEN [rec EXCEPT ![dst][i] = device_id] ELSE rec
  /\ i' = i + 1
  /\ UNCHANGED <<data, hdr, ramVars, pc, job, op, expected, powerFails, faults, struck>>

(* Mutant: after the repair of sector 1 the stored position is kept.         *)
RepairedPosStored == IF job = "update" THEN recoverPos(rec[1], device_id) ELSE 0

(* The position init() works with after a repair.                            *)
RepairedPos ==
  CASE job = "update"  -> recoverPos(rec[1], device_id)
    [] job = "repair2" -> 0
    [] OTHER           -> max_pos - 1

SyncDone ==
  /\ pc = "sync_record" /\ i = max_pos
  /\ IF ~ ScanFits(src)
     THEN PowerDown                    \* a read past the partition: init() fails
     ELSE /\ IF hdr[dst].version # CfgVersion
             THEN StartFormat
             ELSE /\ move_count' = hdr[dst].move_count
                  /\ device_id' = hdr[dst].id
                  /\ pos' = RepairedPos
                  /\ pc' = "idle" /\ job' = "none" /\ i' = 0
                  /\ UNCHANGED access_count
          /\ UNCHANGED op
  /\ UNCHANGED <<data, hdr, rec, expected, powerFails, faults, struck>>

EraseState(c) == /\ hdr' = [hdr EXCEPT ![c] = Broken(NoId)]
                 /\ rec' = [rec EXCEPT ![c] = NoRecords]
WriteState(c) == /\ hdr' = [hdr EXCEPT ![c] = RamHeader]
                 /\ UNCHANGED rec

(* WL_Flash::initSections, the flash operations in their order.  The         *)
(* configuration sector written last is never read back.                     *)
Format ==
  /\ \/ pc = "fmt_erase1"  /\ EraseState(1) /\ pc' = "fmt_header1"
     \/ pc = "fmt_header1" /\ WriteState(1) /\ pc' = "fmt_erase2"
     \/ pc = "fmt_erase2"  /\ EraseState(2) /\ pc' = "fmt_header2"
     \/ pc = "fmt_header2" /\ WriteState(2) /\ pc' = "fmt_cfg"
     \/ pc = "fmt_cfg"     /\ UNCHANGED <<hdr, rec>> /\ pc' = "idle"
  /\ UNCHANGED <<data, ramVars, job, i, op, expected, powerFails, faults, struck>>

-------------------------------------------------------------------------------
(* WL_Flash::erase_sector and erase_range: updateWL counts the access and    *)
(* moves the dummy when it is due; then the sector itself is erased.         *)
CountAccess ==
  IF access_count + 1 < UpdateRate
  THEN access_count' = access_count + 1 /\ pc' = "op_erase"
  ELSE access_count' = 0 /\ pc' = "mv_erase"

EraseRange(a, b) ==
  /\ pc = "idle" /\ a <= b
  /\ op' = [kind |-> "erase", addr |-> a, last |-> b, val |-> Erased]
  /\ CountAccess
  /\ UNCHANGED <<flashVars, pos, move_count, device_id, job, i, expected, powerFails, faults, struck>>

WriteRange(a, b, v) ==
  /\ pc = "idle" /\ a <= b
  /\ op' = [kind |-> "write", addr |-> a, last |-> b, val |-> v]
  /\ pc' = "op_write"
  /\ UNCHANGED <<flashVars, ramVars, job, i, expected, powerFails, faults, struck>>

(* wl_unmount: flush() forces a move, then the instance is destroyed.        *)
Unmount ==
  /\ pc = "idle"
  /\ op' = [NoOp EXCEPT !.kind = "flush"]
  /\ access_count' = 0 /\ pc' = "mv_erase"
  /\ UNCHANGED <<flashVars, pos, move_count, device_id, job, i, expected, powerFails, faults, struck>>

(* updateWL has returned ESP_OK to erase_sector or to flush.                 *)
UpdateReturns(p, mc) ==
  IF op.kind = "flush"
  THEN PowerDown
  ELSE /\ pos' = p /\ move_count' = mc
       /\ pc' = "op_erase" /\ UNCHANGED <<device_id, access_count, job, i, op>>

NextPage(p) == IF p + 1 >= max_pos THEN 0 ELSE p + 1

(* Mutant: the move is recorded before the page is copied.                   *)
MoveEraseRecording ==
  /\ pc = "mv_erase"
  /\ data' = [data EXCEPT ![pos] = Erased]
  /\ rec' = [rec EXCEPT ![1][pos] = device_id]
  /\ pc' = "mv_copy"
  /\ UNCHANGED <<hdr, ramVars, job, i, op, expected, powerFails, faults, struck>>

MoveErase ==
  /\ pc = "mv_erase"
  /\ data' = [data EXCEPT ![pos] = Erased]
  /\ pc' = "mv_copy"
  /\ UNCHANGED <<hdr, rec, ramVars, job, i, op, expected, powerFails, faults, struck>>

MoveCopy ==
  /\ pc = "mv_copy"
  /\ data' = [data EXCEPT ![pos] = Program(data[pos], data[NextPage(pos)])]
  /\ pc' = "mv_rec1"
  /\ UNCHANGED <<hdr, rec, ramVars, job, i, op, expected, powerFails, faults, struck>>

MoveRecord1 ==
  /\ pc = "mv_rec1"
  /\ rec' = [rec EXCEPT ![1][pos] = device_id]
  /\ pc' = "mv_rec2"
  /\ UNCHANGED <<data, hdr, ramVars, job, i, op, expected, powerFails, faults, struck>>

(* Mutant: the rotation count is never taken back to 0.                      *)
NextMoveCountUnbounded(mc) == mc + 1

NextMoveCount(mc) == IF mc + 1 >= max_pos - 1 THEN 0 ELSE mc + 1

(* Mutant: the position stays.                                               *)
MoveRecord2Staying ==
  /\ pc = "mv_rec2"
  /\ rec' = [rec EXCEPT ![2][pos] = device_id]
  /\ UpdateReturns(pos, move_count)
  /\ UNCHANGED <<data, hdr, expected, powerFails, faults, struck>>

(* After the second record the position advances; at the last page the       *)
(* dummy goes back to page 0 and move_count counts one more rotation.        *)
MoveRecord2 ==
  /\ pc = "mv_rec2"
  /\ rec' = [rec EXCEPT ![2][pos] = device_id]
  /\ IF pos + 1 >= max_pos
     THEN /\ pos' = 0 /\ move_count' = NextMoveCount(move_count)
          /\ pc' = "wrap_erase1"
          /\ UNCHANGED <<device_id, access_count, job, i, op>>
     ELSE UpdateReturns(pos + 1, move_count)
  /\ UNCHANGED <<data, hdr, expected, powerFails, faults, struck>>

(* Mutant: both copies are erased before either is written.                  *)
WrapEraseBoth ==
  /\ \/ /\ pc = "wrap_erase1"  /\ EraseState(1) /\ pc' = "wrap_erase2"
        /\ UNCHANGED <<ramVars, job, i, op>>
     \/ /\ pc = "wrap_erase2"  /\ EraseState(2) /\ pc' = "wrap_header1"
        /\ UNCHANGED <<ramVars, job, i, op>>
     \/ /\ pc = "wrap_header1" /\ WriteState(1) /\ pc' = "wrap_header2"
        /\ UNCHANGED <<ramVars, job, i, op>>
     \/ /\ pc = "wrap_header2" /\ WriteState(2)
        /\ UpdateReturns(pos, move_count)
  /\ UNCHANGED <<data, expected, powerFails, faults, struck>>

(* updateWL, the main state rewritten after a full turn of the dummy.        *)
Wrap ==
  /\ \/ /\ pc = "wrap_erase1"  /\ EraseState(1) /\ pc' = "wrap_header1"
        /\ UNCHANGED <<ramVars, job, i, op>>
     \/ /\ pc = "wrap_header1" /\ WriteState(1) /\ pc' = "wrap_erase2"
        /\ UNCHANGED <<ramVars, job, i, op>>
     \/ /\ pc = "wrap_erase2"  /\ EraseState(2) /\ pc' = "wrap_header2"
        /\ UNCHANGED <<ramVars, job, i, op>>
     \/ /\ pc = "wrap_header2" /\ WriteState(2)
        /\ UpdateReturns(pos, move_count)
  /\ UNCHANGED <<data, expected, powerFails, faults, struck>>

Here == calcAddr(move_count, pos, op.addr)

OpErase ==
  /\ pc = "op_erase"
  /\ data' = [data EXCEPT ![Here] = Erased]
  /\ expected' = [expected EXCEPT ![op.addr] = Erased]
  /\ IF op.addr < op.last
     THEN op' = [op EXCEPT !.addr = @ + 1] /\ CountAccess
     ELSE op' = NoOp /\ pc' = "idle" /\ UNCHANGED access_count
  /\ UNCHANGED <<hdr, rec, pos, move_count, device_id, job, i, powerFails, faults, struck>>

OpWrite ==
  /\ pc = "op_write"
  /\ data' = [data EXCEPT ![Here] = Program(@, op.val)]
  /\ expected' = [expected EXCEPT ![op.addr] = Program(@, op.val)]
  /\ IF op.addr < op.last
     THEN op' = [op EXCEPT !.addr = @ + 1] /\ UNCHANGED pc
     ELSE op' = NoOp /\ pc' = "idle"
  /\ UNCHANGED <<hdr, rec, ramVars, job, i, powerFails, faults, struck>>

-------------------------------------------------------------------------------
(* What the flash operation at pc leaves behind when it is cut short: a page *)
(* with unknown contents, or a state sector without a valid CRC (whose       *)
(* device_id field may or may not be programmed).                            *)
StatePc(c) ==
  \/ pc \in {"sync_erase", "sync_header"} /\ dst = c
  \/ c = 1 /\ pc \in {"fmt_erase1", "fmt_header1", "wrap_erase1", "wrap_header1"}
  \/ c = 2 /\ pc \in {"fmt_erase2", "fmt_header2", "wrap_erase2", "wrap_header2"}

Interrupted ==
  \/ UNCHANGED <<flashVars, expected>>
  \/ /\ pc \in {"mv_erase", "mv_copy"}
     /\ data' = [data EXCEPT ![pos] = Garbage]
     /\ UNCHANGED <<hdr, rec, expected>>
  \/ /\ pc \in OpPcs
     /\ data' = [data EXCEPT ![Here] = Garbage]
     /\ expected' = [expected EXCEPT ![op.addr] = Garbage]
     /\ UNCHANGED <<hdr, rec>>
  \/ \E c \in Copy, id \in Ids \cup {NoId} :
       /\ StatePc(c)
       /\ hdr' = [hdr EXCEPT ![c] = Broken(id)]
       /\ rec' = [rec EXCEPT ![c] = NoRecords]
       /\ UNCHANGED <<data, expected>>

PowerFail ==
  /\ pc # "off" /\ pc \in PowerFailAt /\ powerFails < MaxPowerFails
  /\ Interrupted
  /\ PowerDown
  /\ powerFails' = powerFails + 1
  /\ struck' = (struck \/ pc \in ReplacePcs)
  /\ UNCHANGED faults

(* The flash driver returns an error.  init() gives up; updateWL returns it  *)
(* to its caller, asking for a retry at the next erase unless the rotation   *)
(* was already being stored; wl_unmount destroys the instance all the same.  *)
Fault ==
  /\ pc \in BusyPcs \cap FaultAt /\ faults < MaxFaults
  /\ Interrupted
  /\ IF pc \in InitPcs \/ op.kind = "flush"
     THEN PowerDown
     ELSE /\ access_count' = IF pc \in MovePcs THEN UpdateRate - 1 ELSE access_count
          /\ pc' = "idle" /\ op' = NoOp
          /\ UNCHANGED <<pos, move_count, device_id, job, i>>
  /\ faults' = faults + 1
  /\ UNCHANGED <<powerFails, struck>>

-------------------------------------------------------------------------------
InitStep == SyncErase \/ SyncHeader \/ SyncRecord \/ SyncDone \/ Format
MoveStep == MoveErase \/ MoveCopy \/ MoveRecord1 \/ MoveRecord2 \/ Wrap
Step == InitStep \/ MoveStep \/ OpErase \/ OpWrite

Next ==
  \/ Mount
  \/ MountUnreadable
  \/ Step
  \/ \E a, b \in Addr : EraseRange(a, b)
  \/ \E a, b \in Addr : \E v \in Values : WriteRange(a, b, v)
  \/ Unmount
  \/ PowerFail
  \/ Fault

Spec == Init /\ [][Next]_vars

(* A task that has entered the library keeps running while there is power.   *)
FairSpec == Spec /\ WF_vars(Step)

-------------------------------------------------------------------------------
(* The layout init() would rebuild from headers h and records r alone.       *)
Current(h) == h.ok /\ h.version = CfgVersion

StoredLayout(h, r) ==
  LET at(mc, p) == [move_count |-> mc, pos |-> p]
  IN  CASE Current(h[1]) /\ h[2].ok -> at(h[1].move_count, recoverPos(r[1], h[1].id))
        [] Current(h[1]) /\ ~ h[2].ok -> at(h[1].move_count, 0)
        [] ~ h[1].ok /\ Current(h[2]) -> at(h[2].move_count, max_pos - 1)
        [] OTHER -> at(0, 0)

Contents(d, layout) == [a \in Addr |-> d[calcAddr(layout.move_count, layout.pos, a)]]
StoredContents == Contents(data, StoredLayout(hdr, rec))

(* Whenever a call can be made, every logical page reads back what the       *)
(* completed calls left in it, whatever power failures and errors came       *)
(* before: calcAddr leads to the page that holds the data.                   *)
ReadBack ==
  pc = "idle" => \A a \in Addr : data[calcAddr(move_count, pos, a)] = expected[a]

(* One loss of power at any moment, and no error of the flash, leaves every  *)
(* page readable; a second one during the repair of the first may not.  If   *)
(* it comes while sector 1 is being replaced after a full turn, that holds   *)
(* only where init() can copy the records of sector 2 back.                  *)
ReadBackOnce ==
  powerFails <= 1 /\ faults = 0 /\ (struck => ScanFits(2)) => ReadBack

(* At every step, in the middle of a move, of a repair or of a format too,   *)
(* the flash alone says what every page holds: the state init() would        *)
(* rebuild leads to the same contents.                                       *)
Recoverable == StoredContents = expected

(* The pages as the flash determines them behave as Flash_Access promises.   *)
Device == INSTANCE Flash_Access WITH contents <- StoredContents, call <- op
ImplementsFlashAccess == Device!Spec

(* When init() fails without a loss of power or an error of the flash (its   *)
(* copy of the records has left the partition), it does so once: the two     *)
(* headers are then valid and equal, so that the next init() has nothing to  *)
(* repair and does not copy.                                                 *)
InitFailsOnce ==
  [][(pc \in InitPcs /\ pc' = "off" /\ powerFails' = powerFails /\ faults' = faults)
       => hdr'[1].ok /\ hdr'[1] = hdr'[2]]_vars

(* As long as pages are erased, the dummy page visits every physical page    *)
(* again and again, so that no page takes all the wear.                      *)
WearSpreads ==
  []<><<OpErase>>_vars => \A p \in Page : []<>(pc = "mv_erase" /\ pos = p)

===============================================================================
