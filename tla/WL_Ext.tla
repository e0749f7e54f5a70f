-------------------------------- MODULE WL_Ext --------------------------------
(***************************************************************************)
(* 512-byte sectors on top of WL_Flash (components/wear_levelling/          *)
(* WL_Ext_Perf.cpp and WL_Ext_Safe.cpp).  A flash sector holds SizeFactor    *)
(* FAT sectors; erasing some of them means erasing the flash sector and      *)
(* writing the others back.  In performance mode they wait in RAM; in safety *)
(* mode they are first dumped to a reserved flash sector, and a record in    *)
(* another one lets recover() finish the job after a loss of power.          *)
(*                                                                           *)
(* WL_Flash below is taken as the array of pages that Flash_Access promises, *)
(* each of its calls one step.                                               *)
(***************************************************************************)
EXTENDS Integers, Sequences, FlashCells

CONSTANTS
  SizeFactor,      \* size_factor: FAT sectors in one flash sector
  Configs          \* the builds to look at

ASSUME ConfigAssumption ==
  /\ SizeFactor \in Nat \ {0}
  /\ \A c \in Configs : /\ c.mode \in {"perf", "safe"}
                        /\ c.sectors \in Nat /\ c.sectors > 2
                        /\ c.powerFails \in Nat /\ c.faults \in Nat

VARIABLE config   \* one of Configs; it never changes

ChipSectors == config.sectors        \* WL_Flash::chip_size, in flash sectors
Mode == config.mode                  \* CONFIG_WL_SECTOR_MODE: "perf" or "safe"
MaxPowerFails == config.powerFails   \* bound: how often power fails
MaxFaults == config.faults           \* bound: how often a call of WL_Flash returns an error

(* WL_Ext_Safe::config and chip_size: the last two sectors are reserved.     *)
stateSector == ChipSectors - 2
dumpSector  == ChipSectors - 1
UserSectors == IF Mode = "safe" THEN ChipSectors - 2 ELSE ChipSectors

Sector == 0 .. ChipSectors - 1
Slot   == 0 .. SizeFactor - 1
Fat    == 0 .. UserSectors * SizeFactor - 1      \* the sectors the user sees

Unknown == "unknown"     \* history: a FAT sector whose erase was cut short
ASSUME UnknownAssumption == Unknown \notin Content

(* A part of an erase: slots shift .. shift + count - 1 of flash sector base *)
Piece == [kind : {"fit", "full"}, base : Sector, shift : Slot, count : 1 .. SizeFactor]
NoPiece == [kind |-> "none", base |-> 0, shift |-> 0, count |-> 0]

(* WL_Ext_Safe_State: the piece in work while erase_begin is WL_EXT_SAFE_OK, *)
(* and NoPiece when it is anything else.                                     *)
Record == Piece \cup {NoPiece}

VARIABLES
  flash,       \* the flash sectors, as WL_Flash shows them
  record,      \* WL_Ext_Safe_State in the state sector
  buf,         \* sector_buffer
  pc,          \* the next call of WL_Flash
  cur,         \* the piece in work
  todo,        \* the pieces of the erase_range call still to come
  i,           \* loop counter of the write-back
  asked,       \* history: the FAT sectors the call in progress is to erase
  expected,    \* history: what the completed calls left in each FAT sector
  powerFails, faults

vars == <<config, flash, record, buf, pc, cur, todo, i, asked, expected, powerFails, faults>>

RecoverPcs == {"rec_erase", "rec_write"}
SavePcs    == {"dump_erase", "dump_write", "state_erase", "state_write"}
FitPcs     == {"fit_read", "fit_erase", "fit_write", "fit_clear"} \cup SavePcs
Pcs        == {"off", "idle", "full_erase"} \cup RecoverPcs \cup FitPcs

TypeOK ==
  /\ config \in Configs
  /\ flash \in [Sector -> [Slot -> Content]]
  /\ record \in Record
  /\ buf \in [Slot -> Content]
  /\ pc \in Pcs
  /\ cur \in Record
  /\ todo \in Seq(Piece)
  /\ i \in 0 .. SizeFactor
  /\ asked \subseteq Fat
  /\ expected \in [Fat -> Content \cup {Unknown}]
  /\ powerFails \in 0 .. MaxPowerFails /\ faults \in 0 .. MaxFaults

-------------------------------------------------------------------------------
(* erase_sector_fit(start_sector, count), in FAT sector numbers.             *)
Fit(start, count) == [kind |-> "fit", base |-> start \div SizeFactor,
                      shift |-> start % SizeFactor, count |-> count]
Full(sector) == [kind |-> "full", base |-> sector, shift |-> 0, count |-> SizeFactor]

ErasedSlot(p, n) == p.shift <= n /\ n < p.shift + p.count
SectorFat(p) == {p.base * SizeFactor + n : n \in Slot}

(* WL_Ext_Perf::erase_range: the flash sector the range begins in, the whole *)
(* sectors, the sector it ends in.                                           *)
Pieces(start, n) ==
  LET preStart == start % SizeFactor
      first    == IF SizeFactor - preStart > n THEN n ELSE SizeFactor - preStart
      post     == (n - first) % SizeFactor
      whole    == first = SizeFactor /\ preStart = 0
      pre      == IF whole THEN 0 ELSE first
      rest     == n - first - post + (IF whole THEN SizeFactor ELSE 0)
  IN  (IF pre # 0 THEN <<Fit(start, pre)>> ELSE <<>>)
      \o [k \in 1 .. rest \div SizeFactor |-> Full((start + pre) \div SizeFactor + k - 1)]
      \o (IF post # 0 THEN <<Fit(start + n - post, post)>> ELSE <<>>)

-------------------------------------------------------------------------------
Blank == [n \in Slot |-> Erased]
Scrap == [n \in Slot |-> Garbage]      \* a fresh malloc

Init ==
  /\ config \in Configs
  /\ flash \in [Sector -> {Blank}]
  /\ record = NoPiece
  /\ buf = Scrap
  /\ pc = "off" /\ cur = NoPiece /\ todo = <<>> /\ i = 0
  /\ asked = {} /\ expected = [s \in Fat |-> Erased]
  /\ powerFails = 0 /\ faults = 0

StartPiece(p) == cur' = p /\ pc' = IF p.kind = "fit" THEN "fit_read" ELSE "full_erase"

(* A piece is done: go on with the call, or return from it.                  *)
NextPiece ==
  IF todo = <<>>
  THEN /\ pc' = "idle" /\ asked' = {}
       /\ expected' = [s \in Fat |-> IF s \in asked THEN Erased ELSE expected[s]]
       /\ cur' = NoPiece /\ UNCHANGED todo
  ELSE StartPiece(Head(todo)) /\ todo' = Tail(todo) /\ UNCHANGED <<asked, expected>>

(* init(): WL_Ext_Safe::recover looks for a transaction to finish.           *)
Mount ==
  /\ pc = "off"
  /\ IF Mode = "safe" /\ record # NoPiece
     THEN /\ buf' = flash[dumpSector]
          /\ cur' = record /\ pc' = "rec_erase"
     ELSE pc' = "idle" /\ UNCHANGED <<buf, cur>>
  /\ UNCHANGED <<flash, record, todo, i, asked, expected, powerFails, faults>>

(* wl_unmount: the flush below moves pages but changes none.                 *)
Unmount ==
  /\ pc = "idle" /\ pc' = "off" /\ buf' = Scrap
  /\ UNCHANGED <<flash, record, cur, todo, i, asked, expected, powerFails, faults>>

Write(s, v) ==
  /\ pc = "idle"
  /\ flash' = [flash EXCEPT ![s \div SizeFactor][s % SizeFactor] = Program(@, v)]
  /\ expected' = [expected EXCEPT ![s] = IF @ = Unknown THEN @ ELSE Program(@, v)]
  /\ UNCHANGED <<record, buf, pc, cur, todo, i, asked, powerFails, faults>>

EraseRange(start, n) ==
  /\ pc = "idle" /\ start + n - 1 \in Fat
  /\ StartPiece(Head(Pieces(start, n)))
  /\ todo' = Tail(Pieces(start, n))
  /\ asked' = start .. start + n - 1
  /\ UNCHANGED <<flash, record, buf, i, expected, powerFails, faults>>

FullErase ==
  /\ pc = "full_erase"
  /\ flash' = [flash EXCEPT ![cur.base] = Blank]
  /\ NextPiece
  /\ UNCHANGED <<record, buf, i, powerFails, faults>>

(* erase_sector_fit of both modes: only the slots to keep are read, the rest *)
(* of the buffer stays as it was.                                            *)
FitRead ==
  /\ pc = "fit_read"
  /\ buf' = [n \in Slot |-> IF ErasedSlot(cur, n) THEN buf[n] ELSE flash[cur.base][n]]
  /\ pc' = IF Mode = "safe" THEN "dump_erase" ELSE "fit_erase"
  /\ UNCHANGED <<flash, record, cur, todo, i, asked, expected, powerFails, faults>>

(* WL_Ext_Safe::erase_sector_fit: the buffer is dumped, then the transaction *)
(* is opened.                                                                *)
Save ==
  /\ \/ /\ pc = "dump_erase" /\ pc' = "dump_write"
        /\ flash' = [flash EXCEPT ![dumpSector] = Blank] /\ UNCHANGED record
     \/ /\ pc = "dump_write" /\ pc' = "state_erase"
        /\ flash' = [flash EXCEPT ![dumpSector] = buf] /\ UNCHANGED record
     \/ /\ pc = "state_erase" /\ pc' = "state_write"
        /\ record' = NoPiece /\ UNCHANGED flash
     \/ /\ pc = "state_write" /\ pc' = "fit_erase"
        /\ record' = cur /\ UNCHANGED flash
  /\ UNCHANGED <<buf, cur, todo, i, asked, expected, powerFails, faults>>

(* Erase the whole flash sector, in erase_sector_fit and in recover().       *)
EraseBase ==
  /\ \/ pc = "fit_erase" /\ pc' = "fit_write"
     \/ pc = "rec_erase" /\ pc' = "rec_write"
  /\ flash' = [flash EXCEPT ![cur.base] = Blank]
  /\ UNCHANGED <<record, buf, cur, todo, i, asked, expected, powerFails, faults>>

(* Mutant: the slots from shift + count on are written back one too late.    *)
WriteBackShifted ==
  /\ pc \in {"fit_write", "rec_write"} /\ i < SizeFactor
  /\ flash' = IF cur.shift <= i /\ i <= cur.shift + cur.count THEN flash
              ELSE [flash EXCEPT ![cur.base][i] = Program(@, buf[i])]
  /\ i' = i + 1
  /\ UNCHANGED <<record, buf, pc, cur, todo, asked, expected, powerFails, faults>>

WriteBack ==
  /\ pc \in {"fit_write", "rec_write"} /\ i < SizeFactor
  /\ flash' = IF ErasedSlot(cur, i) THEN flash
              ELSE [flash EXCEPT ![cur.base][i] = Program(@, buf[i])]
  /\ i' = i + 1
  /\ UNCHANGED <<record, buf, pc, cur, todo, asked, expected, powerFails, faults>>

(* The slots are back.  In safety mode the transaction is then closed by     *)
(* erasing the state sector.                                                 *)
FitWritten ==
  /\ pc = "fit_write" /\ i = SizeFactor
  /\ i' = 0
  /\ IF Mode = "safe"
     THEN pc' = "fit_clear" /\ UNCHANGED <<cur, todo, asked, expected>>
     ELSE NextPiece
  /\ UNCHANGED <<flash, record, buf, powerFails, faults>>

(* Mutant: the transaction stays open.                                       *)
FitClearNothing ==
  /\ pc = "fit_clear"
  /\ NextPiece
  /\ UNCHANGED <<flash, record, buf, i, powerFails, faults>>

FitClear ==
  /\ pc = "fit_clear"
  /\ record' = NoPiece
  /\ NextPiece
  /\ UNCHANGED <<flash, buf, i, powerFails, faults>>

(* recover() closes the transaction with WL_Flash::erase_range, which calls  *)
(* the virtual erase_sector with the number of the state sector, and so      *)
(* arrives in erase_sector_fit, where it is the number of a FAT sector.      *)
RecoverClear ==
  /\ pc = "rec_write" /\ i = SizeFactor
  /\ StartPiece(Fit(stateSector, 1)) /\ i' = 0
  /\ UNCHANGED <<flash, record, buf, todo, asked, expected, powerFails, faults>>

-------------------------------------------------------------------------------
(* What a call of WL_Flash leaves when it is cut short.                      *)
Interrupted ==
  LET spoil(s) == flash' = [flash EXCEPT ![s] = [n \in Slot |-> Garbage]] /\ UNCHANGED record
  IN  \/ UNCHANGED <<flash, record>>
      \/ pc \in {"fit_erase", "rec_erase", "full_erase"} /\ spoil(cur.base)
      \/ pc \in {"dump_erase", "dump_write"} /\ spoil(dumpSector)
      \/ /\ pc \in {"state_erase", "fit_clear"}
         /\ record' = NoPiece /\ UNCHANGED flash
      \/ /\ pc \in {"fit_write", "rec_write"} /\ i < SizeFactor /\ ~ ErasedSlot(cur, i)
         /\ flash' = [flash EXCEPT ![cur.base][i] = Garbage]
         /\ UNCHANGED record

(* A call cut short leaves open what it was asked to erase; in performance   *)
(* mode, all of the flash sector it was rewriting.                           *)
CutShort ==
  LET open == asked \cup IF Mode = "perf" /\ pc \in FitPcs THEN SectorFat(cur) ELSE {}
  IN  /\ Interrupted
      /\ expected' = [s \in Fat |-> IF s \in open THEN Unknown ELSE expected[s]]
      /\ asked' = {} /\ todo' = <<>> /\ i' = 0 /\ cur' = NoPiece

PowerFail ==
  /\ pc # "off" /\ powerFails < MaxPowerFails
  /\ CutShort
  /\ buf' = Scrap /\ pc' = "off"
  /\ powerFails' = powerFails + 1 /\ UNCHANGED faults

(* A call of WL_Flash returns an error, and erase_range or init() with it.   *)
Fault ==
  /\ pc \notin {"off", "idle"} /\ faults < MaxFaults
  /\ CutShort
  /\ IF asked = {} THEN pc' = "off" /\ buf' = Scrap ELSE pc' = "idle" /\ UNCHANGED buf
  /\ faults' = faults + 1 /\ UNCHANGED powerFails

Step == \/ FullErase \/ FitRead \/ Save \/ EraseBase \/ WriteBack
        \/ FitWritten \/ FitClear \/ RecoverClear

Next ==
  /\ UNCHANGED config
  /\ \/ Mount \/ Unmount
     \/ \E s \in Fat, v \in Values : Write(s, v)
     \/ \E s \in Fat, n \in 1 .. UserSectors * SizeFactor : EraseRange(s, n)
     \/ Step
     \/ PowerFail
     \/ Fault

Spec == Init /\ [][Next]_vars

-------------------------------------------------------------------------------
Holds(s) == expected[s] \in {Unknown, flash[s \div SizeFactor][s % SizeFactor]}

(* Whenever a call can be made, every FAT sector holds what the completed    *)
(* calls left in it, and erase_range erased what it was asked to and no      *)
(* more: the sectors beside an erased one are written back, if need be by    *)
(* recover() after a loss of power.                                          *)
KeepsData == pc = "idle" => \A s \in Fat : Holds(s)

(* The same for every FAT sector but, in safety mode once power has failed,  *)
(* the one whose number is that of the state sector.                         *)
KeepsOtherData ==
  pc = "idle" =>
    \A s \in Fat : Holds(s) \/ (Mode = "safe" /\ powerFails > 0 /\ s = stateSector)

(* No transaction is left open between calls: recover() at the next mount    *)
(* would write an old dump over newer data.                                  *)
TransactionClosed == pc = "idle" => record = NoPiece
===============================================================================
