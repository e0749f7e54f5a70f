----------------------------- MODULE WL_FlashInv -----------------------------
(***************************************************************************)
(* The inductive invariant behind ReadBack and Recoverable: at every step    *)
(* of the code, what the two state sectors may hold and how the layout in    *)
(* RAM relates to them.  It holds when power does not fail while state       *)
(* sector 1 is being replaced after a full turn, and no flash operation      *)
(* fails between the record of a move and the end of that move.              *)
(***************************************************************************)
EXTENDS WL_Flash

SafeWindows ==
  /\ PowerFailAt \cap {"wrap_erase1", "wrap_header1"} = {}
  /\ FaultAt \cap (WrapPcs \cup {"mv_rec2", "off"}) = {}

MountedPcs == {"idle"} \cup OpPcs \cup MovePcs

(* A valid header carries a device_id, and so does the RAM state whenever it *)
(* comes from one: no record is ever written without.                        *)
IdInv ==
  /\ \A c \in Copy : hdr[c].ok => hdr[c].id \in Ids
  /\ pc \in SyncPcs => hdr[src].ok
  /\ pc = "sync_record" => hdr[dst].ok
  /\ pc \notin SyncPcs \cup {"off"} => device_id \in Ids

(* The records of q moves.                                                   *)
Records(id, q) == [n \in Page |-> IF n < q THEN id ELSE NoRec]

(* What the state sectors may hold at any step.                              *)
SectorsInv ==
  /\ Current(hdr[1]) => /\ \E q \in 0 .. max_pos : rec[1] = Records(hdr[1].id, q)
                        /\ hdr[2] # hdr[1] => rec[1] = NoRecords
  /\ (hdr[1].ok /\ ~ Current(hdr[1])) => (hdr[2].ok /\ ~ Current(hdr[2]))
  /\ (~ hdr[1].ok /\ pc # "wrap_header1") => ~ Current(hdr[2])

(* While it is mounted, both headers describe the RAM state and sector 1     *)
(* holds one record per move; only the last page may be recorded early.      *)
MountedInv ==
  pc \in MountedPcs =>
    /\ hdr[1] = RamHeader /\ hdr[2] = RamHeader
    /\ \/ rec[1] = Records(device_id, IF pc = "mv_rec2" THEN pos + 1 ELSE pos)
       \/ pos = flash_size /\ rec[1] = Records(device_id, max_pos)

(* The copy that is about to be recorded is complete.                        *)
MoveInv ==
  /\ pc = "mv_copy" => data[pos] = Erased
  /\ pc \in {"mv_rec1", "mv_rec2"} => data[pos] = data[NextPage(pos)]

(* Replacing the headers after a full turn: sector 2 keeps the old state     *)
(* until sector 1 holds the new one.                                         *)
WrapInv ==
  pc \in WrapPcs =>
    /\ pos = 0
    /\ pc \in {"wrap_erase1", "wrap_header1"} =>
         /\ Current(hdr[2]) /\ move_count = NextMoveCount(hdr[2].move_count)
         /\ data[flash_size] = data[0]
    /\ pc = "wrap_erase1" => hdr[1] = hdr[2] /\ rec[1] = Records(hdr[1].id, max_pos)
    /\ pc = "wrap_header1" => ~ hdr[1].ok /\ rec[1] = NoRecords
    /\ pc \in {"wrap_erase2", "wrap_header2"} => hdr[1] = RamHeader /\ rec[1] = NoRecords

(* A repair of sector 2 copies a state without moves; sector 1 is only ever  *)
(* repaired with the state of another version, which is then formatted.      *)
SyncInv ==
  pc \in SyncPcs =>
    /\ job # "none"
    /\ job # "repair1" =>
         /\ Current(hdr[1]) /\ rec[1] = NoRecords
         /\ device_id = hdr[1].id /\ move_count = hdr[1].move_count
         /\ pc = "sync_record" => hdr[2] = hdr[1]
    /\ job = "repair1" =>
         /\ hdr[2].ok /\ ~ Current(hdr[2]) /\ ~ Current(hdr[1])
         /\ pc = "sync_record" => hdr[1] = hdr[2]

(* Formatting: no sector carries an accepted header before sector 1 does.    *)
FormatInv ==
  pc \in FmtPcs =>
    /\ pos = 0 /\ move_count = 0
    /\ pc \in {"fmt_erase1", "fmt_header1"} => ~ Current(hdr[1]) /\ ~ Current(hdr[2])
    /\ pc = "fmt_header1" => ~ hdr[1].ok /\ rec[1] = NoRecords
    /\ pc \notin {"fmt_erase1", "fmt_header1"} => hdr[1] = RamHeader /\ rec[1] = NoRecords
    /\ pc = "fmt_cfg" => hdr[2] = RamHeader

(* The call each step belongs to: a move serves an erase or a flush.         *)
OpInv ==
  /\ pc \in {"idle", "off"} \cup InitPcs => op = NoOp
  /\ pc \in MovePcs \cup WrapPcs => op.kind \in {"erase", "flush"}
  /\ pc = "op_erase" => op.kind = "erase"
  /\ pc = "op_write" => op.kind = "write"

(* The inductive invariant of the wear levelling layer.                      *)
SafeInv ==
  /\ SectorsInv
  /\ MountedInv
  /\ MoveInv
  /\ WrapInv
  /\ SyncInv
  /\ FormatInv
  /\ Recoverable

IInv == TypeOK /\ IdInv /\ OpInv /\ SafeInv
=============================================================================
