---------------------------- MODULE WL_FlashProofs ----------------------------
(***************************************************************************)
(* Proofs that the wear levelling layer keeps every logical page: for every  *)
(* partition size, update rate, set of values and number of power failures   *)
(* and errors.                                                               *)
(***************************************************************************)
EXTENDS WL_FlashInv, TLAPS, WellFoundedInduction

-------------------------------------------------------------------------------
(* The arithmetic of calcAddr: its argument is below twice the size, so the  *)
(* modulo is at most one subtraction.                                        *)
LEMMA ModOnce ==
  ASSUME NEW n \in Nat \ {0}, NEW x \in 0 .. 2 * n - 1
  PROVE  x % n = IF x < n THEN x ELSE x - n
  BY Z3T(60)

(* calcAddr without the modulo.                                              *)
Rotated(mc, a) == IF a < mc THEN flash_size - mc + a ELSE a - mc

(* calcAddr without the modulo: rotate, then skip the dummy page.            *)
LEMMA CalcAddrCases ==
  ASSUME NEW mc \in Addr, NEW p \in Page, NEW a \in Addr
  PROVE  calcAddr(mc, p, a) =
           IF Rotated(mc, a) < p THEN Rotated(mc, a) ELSE Rotated(mc, a) + 1
<1>1. flash_size \in Nat \ {0} /\ mc \in Nat /\ a \in Nat /\ mc < flash_size /\ a < flash_size
  BY ConfigAccepts DEF Addr
<1> DEFINE x == flash_size - mc + a
<1>2. x \in 0 .. 2 * flash_size - 1
  BY <1>1
<1>3. x % flash_size = IF x < flash_size THEN x ELSE x - flash_size
  <2> HIDE DEF x
  <2> QED  BY <1>1, <1>2, ModOnce
<1>4. (IF x < flash_size THEN x ELSE x - flash_size) = Rotated(mc, a)
  BY <1>1 DEF Rotated
<1> QED
  BY <1>3, <1>4 DEF calcAddr

(* Every logical page has a physical page, which is never the dummy.         *)
LEMMA CalcAddrRange ==
  ASSUME NEW mc \in Addr, NEW p \in Page, NEW a \in Addr
  PROVE  calcAddr(mc, p, a) \in Page /\ calcAddr(mc, p, a) # p
<1>1. Rotated(mc, a) \in Addr
  BY ConfigAccepts DEF Addr, Rotated
<1> QED
  BY <1>1, CalcAddrCases, ConfigAccepts DEF Addr, Page

(* No two logical pages share a physical page.                               *)
LEMMA CalcAddrInjective ==
  ASSUME NEW mc \in Addr, NEW p \in Page, NEW a \in Addr, NEW b \in Addr,
         calcAddr(mc, p, a) = calcAddr(mc, p, b)
  PROVE  a = b
<1>1. Rotated(mc, a) \in Addr /\ Rotated(mc, b) \in Addr
  BY ConfigAccepts DEF Addr, Rotated
<1>2. Rotated(mc, a) = Rotated(mc, b)
  BY <1>1, CalcAddrCases, ConfigAccepts DEF Addr, Page
<1> QED
  BY <1>2, ConfigAccepts DEF Addr, Rotated

(* Moving the dummy from p to p + 1 moves one page only: from p + 1 to p.     *)
LEMMA CalcAddrMove ==
  ASSUME NEW mc \in Addr, NEW p \in Addr, NEW a \in Addr
  PROVE  \/ calcAddr(mc, p + 1, a) = calcAddr(mc, p, a)
         \/ calcAddr(mc, p + 1, a) = p /\ calcAddr(mc, p, a) = p + 1
<1>1. p \in Page /\ p + 1 \in Page
  BY ConfigAccepts DEF Addr, Page
<1>2. Rotated(mc, a) \in Addr
  BY ConfigAccepts DEF Addr, Rotated
<1>3. /\ calcAddr(mc, p, a) =
          IF Rotated(mc, a) < p THEN Rotated(mc, a) ELSE Rotated(mc, a) + 1
      /\ calcAddr(mc, p + 1, a) =
          IF Rotated(mc, a) < p + 1 THEN Rotated(mc, a) ELSE Rotated(mc, a) + 1
  BY <1>1, CalcAddrCases
<1> QED
  BY <1>2, <1>3, ConfigAccepts DEF Addr

(* A full turn: the dummy goes from the last page to page 0, and the one     *)
(* page that was there goes to the last.                                     *)
LEMMA CalcAddrWrap ==
  ASSUME NEW mc \in Addr, NEW a \in Addr
  PROVE  /\ NextMoveCount(mc) \in Addr
         /\ \/ calcAddr(NextMoveCount(mc), 0, a) = calcAddr(mc, flash_size, a)
            \/ /\ calcAddr(NextMoveCount(mc), 0, a) = flash_size
               /\ calcAddr(mc, flash_size, a) = 0
<1>1. NextMoveCount(mc) \in Addr /\ 0 \in Page /\ flash_size \in Page
  BY ConfigAccepts DEF Addr, Page, NextMoveCount, max_pos
<1> QED
  BY <1>1, CalcAddrCases, ConfigAccepts, SMTT(30) DEF Addr, Page, Rotated, NextMoveCount, max_pos

(* recoverPos finds the first page that has not been recorded.               *)
LEMMA RecoverRecords ==
  ASSUME NEW id \in Ids, NEW q \in 0 .. max_pos
  PROVE  recoverPos(Records(id, q), id) = IF q < max_pos THEN q ELSE max_pos - 1
<1> DEFINE r == Records(id, q)
           unset == {n \in Page : ~ OkBuffSet(r, n, id)}
<1>1. unset = {n \in Page : q <= n}
  BY IdAssumption, ConfigAccepts DEF Records, OkBuffSet, Page, max_pos
<1>2. CASE q = max_pos
  <2>1. unset = {}
    BY <1>1, <1>2, ConfigAccepts DEF Page, max_pos
  <2> QED
    BY <2>1, <1>2, ConfigAccepts DEF recoverPos, max_pos
<1>3. CASE q < max_pos
  <2> DEFINE P(n) == n \in unset /\ \A m \in unset : n <= m
  <2>1. q \in unset /\ \A m \in unset : q <= m
    BY <1>1, <1>3, ConfigAccepts DEF Page, max_pos
  <2>2. \A n : P(n) => n = q
    BY <1>1, <2>1, ConfigAccepts DEF Page, max_pos
  <2>3. (CHOOSE n : P(n)) = q
    BY <2>1, <2>2, Zenon
  <2>4. unset # {}
    BY <2>1
  <2>5. recoverPos(r, id) = CHOOSE n : P(n)
    BY <2>4 DEF recoverPos
  <2> QED
    BY <2>3, <2>5, <1>3
<1> QED
  BY <1>2, <1>3, ConfigAccepts DEF max_pos

(* A state sector without records means that the dummy is at page 0.         *)
LEMMA RecoverNone ==
  ASSUME NEW id \in Ids
  PROVE  recoverPos(NoRecords, id) = 0
<1>1. NoRecords = Records(id, 0)
  BY ConfigAccepts DEF NoRecords, Records, Page
<1>2. 0 \in 0 .. max_pos /\ 0 < max_pos
  BY ConfigAccepts DEF max_pos
<1> QED
  BY <1>1, <1>2, RecoverRecords
-------------------------------------------------------------------------------
(* The layout init() rebuilds, in the cases the invariant leaves.            *)
LayoutAt(mc, p) == [move_count |-> mc, pos |-> p]

(* The layout init() rebuilds: two valid headers give the rotation of sector *)
(* 1 and the position of its records; without records the position is 0.    *)
LEMMA LayoutRecords ==
  ASSUME NEW h, NEW r, NEW q \in 0 .. max_pos,
         Current(h[1]), h[2].ok, h[1].id \in Ids, r[1] = Records(h[1].id, q)
  PROVE  StoredLayout(h, r) =
           LayoutAt(h[1].move_count, IF q < max_pos THEN q ELSE max_pos - 1)
<1>1. recoverPos(r[1], h[1].id) = IF q < max_pos THEN q ELSE max_pos - 1
  BY RecoverRecords
<1> QED
  BY <1>1 DEF StoredLayout, LayoutAt, Current

(* A valid sector 1 without records means position 0, whatever sector 2 is.  *)
LEMMA LayoutNone ==
  ASSUME NEW h, NEW r, Current(h[1]), h[1].id \in Ids, r[1] = NoRecords
  PROVE  StoredLayout(h, r) = LayoutAt(h[1].move_count, 0)
<1>1. recoverPos(r[1], h[1].id) = 0
  BY RecoverNone
<1> QED
  BY <1>1 DEF StoredLayout, LayoutAt, Current

(* With sector 1 broken, sector 2 gives the rotation, and the position is    *)
(* the last page.                                                            *)
LEMMA LayoutCopy ==
  ASSUME NEW h, NEW r, ~ h[1].ok, Current(h[2])
  PROVE  StoredLayout(h, r) = LayoutAt(h[2].move_count, max_pos - 1)
  BY DEF StoredLayout, LayoutAt, Current

(* With no accepted header, init() formats: rotation 0, position 0.          *)
LEMMA LayoutFresh ==
  ASSUME NEW h, NEW r, ~ Current(h[1]), h[1].ok \/ ~ Current(h[2])
  PROVE  StoredLayout(h, r) = LayoutAt(0, 0)
  BY DEF StoredLayout, LayoutAt, Current

(* Whatever the records hold, recoverPos returns a page.                     *)
LEMMA RecoverRange ==
  ASSUME NEW r, NEW id
  PROVE  recoverPos(r, id) \in Page
<1> DEFINE unset == {n \in Page : ~ OkBuffSet(r, n, id)}
<1>1. CASE unset = {}
  BY <1>1, ConfigAccepts DEF recoverPos, Page, max_pos
<1>2. CASE unset # {}
  <2>1. unset \subseteq Nat
    BY ConfigAccepts DEF Page
  <2>2. \A m, k \in Nat : ~ (<<m, k>> \in OpToRel(<, Nat)) => k <= m
    BY DEF OpToRel
  <2>3. PICK n \in unset : \A m \in unset : n <= m
    <3> HIDE DEF unset
    <3>1. PICK n \in unset : \A m \in unset : ~ (<<m, n>> \in OpToRel(<, Nat))
      BY <1>2, <2>1, NatLessThanWellFounded, WFMin
    <3>2. \A m \in unset : n <= m
      BY <2>1, <2>2, <3>1, Zenon
    <3> QED
      BY <3>2
  <2>4. (CHOOSE k \in unset : \A m \in unset : k <= m) \in unset
    <3> HIDE DEF unset
    <3> QED  BY <2>3, Zenon
  <2> QED
    BY <1>2, <2>4 DEF recoverPos
<1> QED
  BY <1>1, <1>2

-------------------------------------------------------------------------------
(* The type invariant, for every set of constants.                           *)

(* The types are kept together with IdInv: a repair may put the device_id of *)
(* RAM into a record only because the header it came from carries one.       *)
LEMMA TypeInvariant == Spec => [](TypeOK /\ IdInv)
<1>0. 0 \in Page /\ 0 \in Addr /\ NoRecords \in [Page -> Ids \cup {NoRec}]
  BY ConfigAccepts DEF Page, Addr, NoRecords
<1>1. Init => TypeOK
  <2> SUFFICES ASSUME Init PROVE TypeOK
    OBVIOUS
  <2>1. data \in [Page -> Content] /\ expected \in [Addr -> Content]
    BY ConfigAccepts DEF Init, Page, Addr
  <2>2. hdr \in [Copy -> Header]
    <3>1. CASE hdr = [c \in Copy |-> Broken(NoId)]
      BY <1>0, <3>1 DEF Header, Broken, Versions
    <3>2. ASSUME NEW id \in Ids,
                 hdr = [c \in Copy |-> [ok |-> TRUE, version |-> "other", move_count |-> 0, id |-> id]]
          PROVE  hdr \in [Copy -> Header]
      BY <1>0, <3>2 DEF Header, Versions
    <3> QED
      BY <3>1, <3>2 DEF Init
  <2>3. rec \in [Copy -> [Page -> Ids \cup {NoRec}]]
    BY <1>0 DEF Init
  <2>4. op \in Ops
    BY <1>0 DEF Init, Ops, NoOp
  <2>5. /\ pos \in Page /\ move_count \in Addr /\ device_id \in Ids \cup {NoId}
        /\ access_count \in 0 .. UpdateRate - 1 /\ pc \in Pcs /\ job \in Jobs
        /\ i \in 0 .. max_pos /\ powerFails \in 0 .. MaxPowerFails /\ faults \in 0 .. MaxFaults
    BY <1>0, ConfigAccepts, RateAssumption, BoundAssumption DEF Init, Pcs, Jobs, max_pos
  <2>6. struck \in BOOLEAN
    BY Zenon DEF Init
  <2> QED
    BY <2>1, <2>2, <2>3, <2>4, <2>5, <2>6 DEF TypeOK
<1>2. TypeOK /\ IdInv /\ [Next]_vars => TypeOK'
  <2> SUFFICES ASSUME TypeOK, IdInv, [Next]_vars PROVE TypeOK'
    OBVIOUS
  <2> USE ConfigAccepts, RateAssumption, BoundAssumption, <1>0
  <2>down. ASSUME PowerDown
           PROVE  /\ pos' \in Page /\ move_count' \in Addr /\ device_id' \in Ids \cup {NoId}
                  /\ access_count' \in 0 .. UpdateRate - 1 /\ pc' \in Pcs /\ job' \in Jobs
                  /\ i' \in 0 .. max_pos /\ op' \in Ops
    BY <2>down DEF PowerDown, Pcs, Jobs, Ops, NoOp, max_pos
  <2>format. ASSUME StartFormat
             PROVE  /\ pos' \in Page /\ move_count' \in Addr /\ device_id' \in Ids \cup {NoId}
                    /\ access_count' \in 0 .. UpdateRate - 1 /\ pc' \in Pcs /\ job' \in Jobs
                    /\ i' \in 0 .. max_pos
    BY <2>format DEF StartFormat, Pcs, BusyPcs, InitPcs, FmtPcs, Jobs, max_pos
  <2>broken. \A id \in Ids \cup {NoId} : Broken(id) \in Header
    BY DEF Broken, Header, Versions
  <2>count. ASSUME CountAccess
            PROVE  access_count' \in 0 .. UpdateRate - 1 /\ pc' \in Pcs
    BY <2>count DEF CountAccess, TypeOK, Pcs, BusyPcs, MovePcs, OpPcs
  <2>1. CASE Mount
    <3>1. recoverPos(rec[1], hdr[1].id) \in Page
      BY RecoverRange
    <3>2. hdr[1] \in Header
      BY DEF TypeOK, Copy
    <3>3. CASE MountGood
      BY <2>1, <3>1, <3>2, <3>3 DEF Mount, MountGood, TypeOK, Header, Pcs
    <3>4. CASE MountFormat
      BY <2>1, <2>format, <3>4 DEF Mount, MountFormat, TypeOK
    <3>5. CASE MountSync
      BY <2>1, <3>2, <3>5 DEF Mount, MountSync, TypeOK, Header, Pcs, BusyPcs, InitPcs, SyncPcs, Jobs, max_pos
    <3> QED
      BY <2>1, <3>3, <3>4, <3>5 DEF Mount
  <2>2. CASE MountUnreadable
    BY <2>2, <2>format DEF MountUnreadable, TypeOK, Pcs, BusyPcs, InitPcs, SyncPcs, Jobs, max_pos
  <2>3. CASE SyncErase
    BY <2>3, <2>broken DEF SyncErase, TypeOK, dst, Copy, ramVars, Pcs, BusyPcs, InitPcs, SyncPcs
  <2>4. CASE SyncHeader
    BY <2>4 DEF SyncHeader, TypeOK, dst, src, Copy, ramVars, Pcs, BusyPcs, InitPcs, SyncPcs
  <2>5. CASE SyncRecord
    <3>1. i \in Page /\ i' \in 0 .. max_pos
      BY <2>5 DEF SyncRecord, TypeOK, Page, max_pos
    <3>2. CASE OkBuffSet(rec[src], i, device_id)
      <4>1. device_id \in Ids \cup {NoRec}
        BY <3>1, <3>2 DEF OkBuffSet, TypeOK, src, dst, Copy
      <4>2. rec' \in [Copy -> [Page -> Ids \cup {NoRec}]]
        BY <2>5, <3>1, <3>2, <4>1 DEF SyncRecord, TypeOK, dst, Copy
      <4> QED
        BY <2>5, <3>1, <4>2 DEF SyncRecord, TypeOK, ramVars
    <3> QED
      BY <2>5, <3>1, <3>2 DEF SyncRecord, TypeOK, ramVars
  <2>6. CASE SyncDone
    <3>1. RepairedPos \in Page
      BY RecoverRange DEF RepairedPos, Page, max_pos
    <3>2. hdr[dst] \in Header
      BY DEF TypeOK, dst, Copy
    <3>3. CASE ~ ScanFits(src)
      BY <2>6, <2>down, <3>3 DEF SyncDone, TypeOK
    <3>4. CASE ScanFits(src) /\ hdr[dst].version # CfgVersion
      BY <2>6, <2>format, <3>4 DEF SyncDone, TypeOK
    <3>5. CASE ScanFits(src) /\ hdr[dst].version = CfgVersion
      BY <2>6, <3>1, <3>2, <3>5 DEF SyncDone, TypeOK, Header, Pcs, Jobs, max_pos
    <3> QED
      BY <3>3, <3>4, <3>5
  <2>ram. RamHeader \in Header
    BY DEF TypeOK, RamHeader, Header, Versions, CfgVersion
  <2>write. ASSUME NEW c \in Copy, EraseState(c) \/ WriteState(c)
            PROVE  hdr' \in [Copy -> Header] /\ rec' \in [Copy -> [Page -> Ids \cup {NoRec}]]
    <3>1. hdr \in [Copy -> Header] /\ rec \in [Copy -> [Page -> Ids \cup {NoRec}]]
      BY DEF TypeOK
    <3>2. CASE EraseState(c)
      BY <1>0, <2>broken, <3>1, <3>2 DEF EraseState
    <3>3. CASE WriteState(c)
      BY <2>ram, <3>1, <3>3 DEF WriteState
    <3> QED
      BY <2>write, <3>2, <3>3
  <2>7. CASE Format
    <3>1. hdr' \in [Copy -> Header] /\ rec' \in [Copy -> [Page -> Ids \cup {NoRec}]]
      BY <2>7, <2>write DEF Format, Copy, TypeOK
    <3>2. pc' \in Pcs
      BY <2>7 DEF Format, Pcs, BusyPcs, InitPcs, FmtPcs
    <3> QED
      BY <2>7, <3>1, <3>2 DEF Format, TypeOK, ramVars
  <2>8. ASSUME NEW a \in Addr, NEW b \in Addr, EraseRange(a, b)
        PROVE  TypeOK'
    <3>1. op' \in Ops
      BY <2>8 DEF EraseRange, Ops
    <3> QED
      BY <2>8, <2>count, <3>1 DEF EraseRange, TypeOK, flashVars
  <2>9. ASSUME NEW a \in Addr, NEW b \in Addr, NEW v \in Values, WriteRange(a, b, v)
        PROVE  TypeOK'
    <3>1. op' \in Ops /\ pc' \in Pcs
      BY <2>9 DEF WriteRange, Ops, Pcs, BusyPcs, OpPcs
    <3> QED
      BY <2>9, <3>1 DEF WriteRange, TypeOK, flashVars, ramVars
  <2>10. CASE Unmount
    <3>1. op' \in Ops /\ pc' \in Pcs
      BY <2>10 DEF Unmount, Ops, NoOp, Pcs, BusyPcs, MovePcs
    <3> QED
      BY <2>10, <3>1 DEF Unmount, TypeOK, flashVars
  <2>program. \A x, y \in Content : Program(x, y) \in Content
    BY DEF Program, Content
  <2>11. CASE MoveErase
    BY <2>11 DEF MoveErase, TypeOK, Content, ramVars, Pcs, BusyPcs, MovePcs
  <2>12. CASE MoveCopy
    <3>1. NextPage(pos) \in Page
      BY DEF TypeOK, NextPage, Page, max_pos
    <3>2. data' \in [Page -> Content]
      BY <2>12, <2>program, <3>1 DEF MoveCopy, TypeOK
    <3> QED
      BY <2>12, <3>2 DEF MoveCopy, TypeOK, ramVars, Pcs, BusyPcs, MovePcs
  <2>returns. ASSUME NEW p \in Page, NEW mc \in Addr, UpdateReturns(p, mc)
              PROVE  /\ pos' \in Page /\ move_count' \in Addr /\ device_id' \in Ids \cup {NoId}
                     /\ access_count' \in 0 .. UpdateRate - 1 /\ pc' \in Pcs /\ job' \in Jobs
                     /\ i' \in 0 .. max_pos /\ op' \in Ops
    BY <2>returns, <2>down DEF UpdateReturns, TypeOK, Pcs, BusyPcs, OpPcs
  <2>record. ASSUME NEW c \in Copy, pc \in {"mv_rec1", "mv_rec2"},
                    rec' = [rec EXCEPT ![c][pos] = device_id]
             PROVE  rec' \in [Copy -> [Page -> Ids \cup {NoRec}]]
    <3>1. device_id \in Ids
      BY <2>record DEF IdInv, SyncPcs
    <3> QED
      BY <2>record, <3>1 DEF TypeOK
  <2>13. CASE MoveRecord1
    BY <2>13, <2>record DEF MoveRecord1, TypeOK, Copy, ramVars, Pcs, BusyPcs, MovePcs
  <2>14. CASE MoveRecord2
    <3>1. rec' \in [Copy -> [Page -> Ids \cup {NoRec}]]
      BY <2>14, <2>record DEF MoveRecord2, Copy
    <3>2. CASE pos + 1 >= max_pos
      <4>1. NextMoveCount(move_count) \in Addr /\ pc' \in Pcs
        BY <2>14, <3>2, CalcAddrWrap DEF MoveRecord2, TypeOK, Pcs, BusyPcs, WrapPcs
      <4> QED
        BY <2>14, <3>1, <3>2, <4>1 DEF MoveRecord2, TypeOK
    <3>3. CASE ~ (pos + 1 >= max_pos)
      <4>1. pos + 1 \in Page
        BY <3>3 DEF TypeOK, Page, max_pos
      <4> QED
        BY <2>14, <2>returns, <3>1, <3>3, <4>1 DEF MoveRecord2, TypeOK
    <3> QED
      BY <3>2, <3>3
  <2>15. CASE Wrap
    <3>1. hdr' \in [Copy -> Header] /\ rec' \in [Copy -> [Page -> Ids \cup {NoRec}]]
      BY <2>15, <2>write DEF Wrap, Copy
    <3>2. CASE pc = "wrap_header2"
      BY <2>15, <2>returns, <3>1, <3>2 DEF Wrap, TypeOK
    <3>3. CASE pc # "wrap_header2"
      BY <2>15, <3>1, <3>3 DEF Wrap, TypeOK, ramVars, Pcs, BusyPcs, WrapPcs
    <3> QED
      BY <3>2, <3>3
  <2>here. Here \in Page
    BY CalcAddrRange DEF Here, TypeOK, Ops
  <2>16. CASE OpErase
    <3>1. data' \in [Page -> Content] /\ expected' \in [Addr -> Content]
      BY <2>16, <2>here DEF OpErase, TypeOK, Content
    <3>2. CASE op.addr < op.last
      <4>1. op.addr + 1 \in Addr
        BY <3>2 DEF TypeOK, Ops, Addr
      <4>2. op' \in Ops
        BY <2>16, <3>2, <4>1 DEF OpErase, TypeOK, Ops
      <4> QED
        BY <2>16, <2>count, <3>1, <3>2, <4>2 DEF OpErase, TypeOK
    <3>3. CASE ~ (op.addr < op.last)
      BY <2>16, <3>1, <3>3 DEF OpErase, TypeOK, Ops, NoOp, Pcs
    <3> QED
      BY <3>2, <3>3
  <2>17. CASE OpWrite
    <3>1. op.val \in Content /\ op.addr \in Addr
      BY DEF TypeOK, Ops, Content
    <3>2. data' \in [Page -> Content] /\ expected' \in [Addr -> Content]
      BY <2>17, <2>here, <2>program, <3>1 DEF OpWrite, TypeOK
    <3>3. CASE op.addr < op.last
      <4>1. op.addr + 1 \in Addr
        BY <3>3 DEF TypeOK, Ops, Addr
      <4>2. op' \in Ops
        BY <2>17, <3>3, <4>1 DEF OpWrite, TypeOK, Ops
      <4> QED
        BY <2>17, <3>2, <3>3, <4>2 DEF OpWrite, TypeOK, ramVars
    <3>4. CASE ~ (op.addr < op.last)
      BY <2>17, <3>2, <3>4 DEF OpWrite, TypeOK, ramVars, Ops, NoOp, Pcs
    <3> QED
      BY <3>3, <3>4
  <2>cut. ASSUME Interrupted
          PROVE  /\ data' \in [Page -> Content] /\ expected' \in [Addr -> Content]
                 /\ hdr' \in [Copy -> Header] /\ rec' \in [Copy -> [Page -> Ids \cup {NoRec}]]
    BY <2>cut, <2>here, <2>broken, ZenonT(60) DEF Interrupted, TypeOK, Content, flashVars, Ops
  <2>18. CASE PowerFail
    <3>1. struck' \in BOOLEAN
      BY <2>18 DEF PowerFail
    <3> QED
      BY <2>18, <2>cut, <2>down, <3>1 DEF PowerFail, TypeOK
  <2>19. CASE Fault
    <3>1. CASE pc \in InitPcs \/ op.kind = "flush"
      BY <2>19, <2>cut, <2>down, <3>1 DEF Fault, TypeOK
    <3>2. CASE ~ (pc \in InitPcs \/ op.kind = "flush")
      BY <2>19, <2>cut, <3>2 DEF Fault, TypeOK, Ops, NoOp, Pcs
    <3> QED
      BY <3>1, <3>2
  <2>20. CASE UNCHANGED vars
    BY <2>20 DEF vars, TypeOK
  <2> QED
    BY <2>1, <2>2, <2>3, <2>4, <2>5, <2>6, <2>7, <2>8, <2>9, <2>10, <2>11, <2>12,
       <2>13, <2>14, <2>15, <2>16, <2>17, <2>18, <2>19, <2>20
    DEF Next, Step, InitStep, MoveStep
<1>3. Init => IdInv
  BY DEF Init, IdInv, Broken, SyncPcs
<1>4. TypeOK /\ IdInv /\ [Next]_vars => IdInv'
  <2> SUFFICES ASSUME TypeOK, IdInv, [Next]_vars PROVE IdInv'
    OBVIOUS
  <2> USE DEF IdInv
  <2>off. ASSUME pc' = "off", \A c \in Copy : hdr'[c].ok => hdr'[c].id \in Ids
          PROVE  IdInv'
    BY <2>off DEF SyncPcs
  <2>1. CASE Mount
    BY <2>1 DEF Mount, MountGood, MountFormat, MountSync, StartFormat, SyncPcs, src, dst, Copy
  <2>2. CASE MountUnreadable
    BY <2>2 DEF MountUnreadable, StartFormat, SyncPcs, src, dst, Copy
  <2>3. CASE SyncErase
    BY <2>3 DEF SyncErase, Broken, ramVars, TypeOK, SyncPcs, src, dst, Copy
  <2>4. CASE SyncHeader
    BY <2>4 DEF SyncHeader, ramVars, TypeOK, SyncPcs, src, dst, Copy
  <2>5. CASE SyncRecord
    BY <2>5 DEF SyncRecord, ramVars, SyncPcs, src, dst, Copy
  <2>6. CASE SyncDone
    BY <2>6 DEF SyncDone, PowerDown, StartFormat, SyncPcs, src, dst, Copy
  <2>7. CASE Format
    BY <2>7 DEF Format, EraseState, WriteState, RamHeader, Broken, ramVars, TypeOK, SyncPcs, Copy
  <2>8. ASSUME NEW a \in Addr, NEW b \in Addr, EraseRange(a, b)
        PROVE  IdInv'
    BY <2>8 DEF EraseRange, CountAccess, flashVars, SyncPcs
  <2>9. ASSUME NEW a \in Addr, NEW b \in Addr, NEW v \in Values, WriteRange(a, b, v)
        PROVE  IdInv'
    BY <2>9 DEF WriteRange, flashVars, ramVars, SyncPcs
  <2>10. CASE Unmount
    BY <2>10 DEF Unmount, flashVars, SyncPcs
  <2>11. CASE MoveErase \/ MoveCopy \/ MoveRecord1
    BY <2>11 DEF MoveErase, MoveCopy, MoveRecord1, ramVars, SyncPcs
  <2>12. CASE MoveRecord2
    BY <2>12 DEF MoveRecord2, UpdateReturns, PowerDown, SyncPcs
  <2>13. CASE Wrap
    BY <2>13 DEF Wrap, EraseState, WriteState, UpdateReturns, PowerDown, RamHeader, Broken,
                 ramVars, TypeOK, SyncPcs, Copy
  <2>14. CASE OpErase
    BY <2>14 DEF OpErase, CountAccess, SyncPcs
  <2>15. CASE OpWrite
    BY <2>15 DEF OpWrite, ramVars, SyncPcs
  <2>cut. Interrupted => \A c \in Copy : hdr'[c].ok => hdr'[c].id \in Ids
    BY DEF Interrupted, flashVars, Broken, TypeOK
  <2>16. CASE PowerFail
    BY <2>16, <2>cut, <2>off DEF PowerFail, PowerDown
  <2>17. CASE Fault
    BY <2>17, <2>cut, <2>off DEF Fault, PowerDown, BusyPcs, InitPcs, SyncPcs, FmtPcs, MovePcs, WrapPcs, OpPcs
  <2>18. CASE UNCHANGED vars
    BY <2>18 DEF vars, SyncPcs, src, dst
  <2> QED
    BY <2>1, <2>2, <2>3, <2>4, <2>5, <2>6, <2>7, <2>8, <2>9, <2>10, <2>11, <2>12,
       <2>13, <2>14, <2>15, <2>16, <2>17, <2>18
    DEF Next, Step, InitStep, MoveStep
<1> QED
  BY <1>1, <1>2, <1>3, <1>4, PTL DEF Spec

(* For every partition size and every pattern of power failures and errors,  *)
(* the state of WL_Flash and its two state sectors keep their types: pos,    *)
(* move_count and access_count stay in the ranges updateWL wraps them to.    *)
THEOREM TypeCorrect == Spec => []TypeOK
  BY TypeInvariant, PTL
-------------------------------------------------------------------------------
(* Page by page: a layout reads back the expected contents.                  *)
Reads(d, e, mc, p) == \A a \in Addr : d[calcAddr(mc, p, a)] = e[a]

(* Equality of the contents, page by page.                                   *)
LEMMA ContentsReads ==
  ASSUME NEW d, NEW e \in [Addr -> Content], NEW mc, NEW p
  PROVE  Contents(d, LayoutAt(mc, p)) = e <=> Reads(d, e, mc, p)
  BY DEF Contents, LayoutAt, Reads

(* Changing the dummy page changes no logical page.                          *)
LEMMA ReadsDummy ==
  ASSUME NEW d \in [Page -> Content], NEW e, NEW mc \in Addr, NEW p \in Page, NEW x,
         Reads(d, e, mc, p)
  PROVE  Reads([d EXCEPT ![p] = x], e, mc, p)
  BY CalcAddrRange DEF Reads

(* Changing the page of logical page b changes that one only.                *)
LEMMA ReadsUpdate ==
  ASSUME NEW d \in [Page -> Content], NEW e \in [Addr -> Content],
         NEW mc \in Addr, NEW p \in Page, NEW b \in Addr, NEW x,
         Reads(d, e, mc, p)
  PROVE  Reads([d EXCEPT ![calcAddr(mc, p, b)] = x], [e EXCEPT ![b] = x], mc, p)
  BY CalcAddrRange, CalcAddrInjective DEF Reads

(* A copied page may be read at either place.                                *)
LEMMA ReadsMove ==
  ASSUME NEW d, NEW e, NEW mc \in Addr, NEW p \in Addr,
         Reads(d, e, mc, p), d[p] = d[p + 1]
  PROVE  Reads(d, e, mc, p + 1)
  BY CalcAddrMove DEF Reads

(* The same at the end of a turn, when updateWL goes back to page 0 and      *)
(* counts one more rotation.                                                 *)
LEMMA ReadsWrap ==
  ASSUME NEW d, NEW e, NEW mc \in Addr,
         Reads(d, e, mc, flash_size), d[flash_size] = d[0]
  PROVE  Reads(d, e, NextMoveCount(mc), 0)
  BY CalcAddrWrap DEF Reads

(* One more record.                                                          *)
LEMMA RecordsNext ==
  ASSUME NEW id, NEW p \in Page
  PROVE  /\ [Records(id, p) EXCEPT ![p] = id] = Records(id, p + 1)
         /\ [Records(id, max_pos) EXCEPT ![p] = id] = Records(id, max_pos)
<1>1. [Records(id, p) EXCEPT ![p] = id] = Records(id, p + 1)
  <2>1. \A n \in Page : n < p + 1 <=> (n < p \/ n = p)
    BY ConfigAccepts DEF Page
  <2> QED
    BY <2>1 DEF Records
<1>2. [Records(id, max_pos) EXCEPT ![p] = id] = Records(id, max_pos)
  BY ConfigAccepts DEF Records, Page, max_pos
<1> QED
  BY <1>1, <1>2

(* No move, no record.                                                       *)
LEMMA RecordsZero == \A id : Records(id, 0) = NoRecords
  BY ConfigAccepts DEF Records, NoRecords, Page


-------------------------------------------------------------------------------
(* What SafeWindows says of one step: no loss of power while state sector 1  *)
(* is being replaced, no error of the flash once a move has been recorded.   *)
OutsideWindows ==
  /\ PowerFail => pc \notin {"wrap_erase1", "wrap_header1"}
  /\ Fault \/ MountUnreadable => pc \notin WrapPcs \cup {"mv_rec2", "off"}

(* Under SafeWindows no step is in them.                                     *)
LEMMA SafeOutside ==
  ASSUME SafeWindows
  PROVE  OutsideWindows
  BY DEF SafeWindows, OutsideWindows, PowerFail, Fault, MountUnreadable

(* Every step keeps the invariant, one action at a time.                     *)
LEMMA SafeStep ==
  ASSUME OutsideWindows, TypeOK, IdInv, SafeInv, TypeOK', IdInv', [Next]_vars
  PROVE  SafeInv'
<1> USE ConfigAccepts
<1> DEFINE L  == StoredLayout(hdr, rec)
           L1 == StoredLayout(hdr', rec')
<1>reads. \A mc, p : L = LayoutAt(mc, p) => Reads(data, expected, mc, p)
  BY ContentsReads DEF SafeInv, Recoverable, StoredContents, TypeOK
<1>stored. \A mc, p : L1 = LayoutAt(mc, p) /\ Reads(data', expected', mc, p) => Recoverable'
  BY ContentsReads DEF Recoverable, StoredContents, TypeOK
<1>same. UNCHANGED <<data, hdr, rec, expected>> => Recoverable'
  BY DEF SafeInv, Recoverable, StoredContents
<1>id. hdr[1].ok => hdr[1].id \in Ids
  BY DEF IdInv, Copy
<1>id1. hdr'[1].ok => hdr'[1].id \in Ids
  BY DEF IdInv, Copy
<1>none. Current(hdr[1]) /\ rec[1] = NoRecords => L = LayoutAt(hdr[1].move_count, 0)
  BY <1>id, LayoutNone DEF Current
<1>none1. Current(hdr'[1]) /\ rec'[1] = NoRecords => L1 = LayoutAt(hdr'[1].move_count, 0)
  BY <1>id1, LayoutNone DEF Current
<1>fresh. ~ Current(hdr[1]) /\ (hdr[1].ok \/ ~ Current(hdr[2])) => L = LayoutAt(0, 0)
  BY LayoutFresh
<1>fresh1. ~ Current(hdr'[1]) /\ (hdr'[1].ok \/ ~ Current(hdr'[2])) => L1 = LayoutAt(0, 0)
  BY LayoutFresh
<1>ram. pc \in MountedPcs => L = LayoutAt(move_count, IF pc = "mv_rec2" /\ pos < flash_size THEN pos + 1 ELSE pos)
  <2> SUFFICES ASSUME pc \in MountedPcs
               PROVE  L = LayoutAt(move_count, IF pc = "mv_rec2" /\ pos < flash_size THEN pos + 1 ELSE pos)
    OBVIOUS
  <2>1. /\ Current(hdr[1]) /\ hdr[2].ok /\ hdr[1].id \in Ids
        /\ hdr[1].move_count = move_count /\ hdr[1].id = device_id
    BY <1>id DEF SafeInv, MountedInv, RamHeader, Current, CfgVersion
  <2>2. PICK q \in 0 .. max_pos :
          /\ rec[1] = Records(device_id, q)
          /\ q = (IF pc = "mv_rec2" THEN pos + 1 ELSE pos) \/ (pos = flash_size /\ q = max_pos)
    BY DEF SafeInv, MountedInv, TypeOK, Page, max_pos
  <2>3. L = LayoutAt(move_count, IF q < max_pos THEN q ELSE max_pos - 1)
    BY <2>1, <2>2, LayoutRecords
  <2>4. pos \in 0 .. flash_size /\ flash_size \in Nat /\ max_pos = flash_size + 1
    BY DEF TypeOK, Page, max_pos
  <2>5. (IF q < max_pos THEN q ELSE max_pos - 1)
          = (IF pc = "mv_rec2" /\ pos < flash_size THEN pos + 1 ELSE pos)
    BY <2>2, <2>4
  <2> QED
    BY <2>3, <2>5
<1> HIDE DEF L, L1
<1> USE DEF SafeInv, MountedPcs, OpPcs, MovePcs, WrapPcs, SyncPcs, FmtPcs
<1>1. CASE Mount
  <2>1. Recoverable' /\ SectorsInv'
    BY <1>1, <1>same DEF Mount, SectorsInv
  <2>2. CASE MountGood
    <3>1. PICK q \in 0 .. max_pos : rec[1] = Records(hdr[1].id, q)
      BY <2>2 DEF MountGood, SectorsInv, Current
    <3>2. pos' = IF q < max_pos THEN q ELSE max_pos - 1
      BY <1>id, <2>2, <3>1, RecoverRecords DEF MountGood
    <3>3. hdr[1] = RamHeader' /\ device_id' = hdr[1].id
      BY <2>2, <1>1 DEF MountGood, Mount, RamHeader, CfgVersion, TypeOK, Header, Copy
    <3>4. \/ rec'[1] = Records(device_id', pos')
          \/ pos' = flash_size /\ rec'[1] = Records(device_id', max_pos)
      BY <1>1, <3>1, <3>2, <3>3 DEF Mount, max_pos
    <3>5. MountedInv'
      BY <1>1, <2>2, <3>3, <3>4 DEF Mount, MountGood, MountedInv, RamHeader
    <3> QED
      BY <2>1, <2>2, <3>5 DEF MountGood, MoveInv, WrapInv, SyncInv, FormatInv
  <2>3. CASE MountFormat
    <3>1. ~ Current(hdr[1]) /\ ~ Current(hdr[2])
      BY <1>1, <2>3 DEF Mount, MountFormat, SectorsInv, Current
    <3>2. FormatInv'
      BY <1>1, <2>3, <3>1 DEF Mount, MountFormat, StartFormat, FormatInv
    <3> QED
      BY <1>1, <2>1, <2>3, <3>2 DEF MountFormat, StartFormat, MountedInv, MoveInv, WrapInv, SyncInv
  <2>4. CASE MountSync
    <3>1. SyncInv'
      BY <1>1, <2>4 DEF Mount, MountSync, SyncInv, SectorsInv, Current
    <3> QED
      BY <1>1, <2>1, <2>4, <3>1 DEF MountSync, MountedInv, MoveInv, WrapInv, FormatInv
  <2> QED
    BY <1>1, <2>2, <2>3, <2>4 DEF Mount
<1>2. CASE MountUnreadable
  BY <1>2 DEF MountUnreadable, OutsideWindows
<1>3. CASE SyncErase
  <2>1. CASE job # "repair1"
    <3>1. hdr'[1] = hdr[1] /\ rec'[1] = rec[1] /\ ~ hdr'[2].ok
      BY <1>3, <2>1 DEF SyncErase, dst, Broken, TypeOK, Copy
    <3>2. Recoverable'
      BY <1>3, <2>1, <3>1, <1>reads, <1>stored, <1>none, <1>none1 DEF SyncErase, SyncInv
    <3>3. SectorsInv' /\ SyncInv'
      BY <1>3, <2>1, <3>1 DEF SyncErase, SectorsInv, SyncInv, ramVars, Current
    <3> QED
      BY <1>3, <3>2, <3>3 DEF SyncErase, MountedInv, MoveInv, WrapInv, FormatInv
  <2>2. CASE job = "repair1"
    <3>1. hdr'[2] = hdr[2] /\ ~ hdr'[1].ok
      BY <1>3, <2>2 DEF SyncErase, dst, Broken, TypeOK, Copy
    <3>2. Recoverable'
      BY <1>3, <2>2, <3>1, <1>reads, <1>stored, <1>fresh, <1>fresh1 DEF SyncErase, SyncInv, Current
    <3>3. SectorsInv' /\ SyncInv'
      BY <1>3, <2>2, <3>1 DEF SyncErase, SectorsInv, SyncInv, Current
    <3> QED
      BY <1>3, <3>2, <3>3 DEF SyncErase, MountedInv, MoveInv, WrapInv, FormatInv
  <2> QED
    BY <2>1, <2>2
<1>4. CASE SyncHeader
  <2>1. CASE job # "repair1"
    <3>1. hdr'[1] = hdr[1] /\ rec'[1] = rec[1] /\ hdr'[2] = hdr[1]
      BY <1>4, <2>1 DEF SyncHeader, dst, src, TypeOK, Copy
    <3>2. Recoverable'
      BY <1>4, <2>1, <3>1, <1>reads, <1>stored, <1>none, <1>none1 DEF SyncHeader, SyncInv
    <3>3. SectorsInv' /\ SyncInv'
      BY <1>4, <2>1, <3>1 DEF SyncHeader, SectorsInv, SyncInv, ramVars, Current
    <3> QED
      BY <1>4, <3>2, <3>3 DEF SyncHeader, MountedInv, MoveInv, WrapInv, FormatInv
  <2>2. CASE job = "repair1"
    <3>1. hdr'[2] = hdr[2] /\ hdr'[1] = hdr[2]
      BY <1>4, <2>2 DEF SyncHeader, dst, src, TypeOK, Copy
    <3>2. Recoverable'
      BY <1>4, <2>2, <3>1, <1>reads, <1>stored, <1>fresh, <1>fresh1 DEF SyncHeader, SyncInv, Current
    <3>3. SectorsInv' /\ SyncInv'
      BY <1>4, <2>2, <3>1 DEF SyncHeader, SectorsInv, SyncInv, Current
    <3> QED
      BY <1>4, <3>2, <3>3 DEF SyncHeader, MountedInv, MoveInv, WrapInv, FormatInv
  <2> QED
    BY <2>1, <2>2
<1>5. CASE SyncRecord
  <2>1. CASE job # "repair1"
    <3>1. rec'[1] = rec[1] /\ hdr' = hdr
      BY <1>5, <2>1 DEF SyncRecord, dst, TypeOK, Copy
    <3>2. Recoverable'
      BY <1>5, <2>1, <3>1, <1>reads, <1>stored, <1>none, <1>none1 DEF SyncRecord, SyncInv
    <3>3. SectorsInv' /\ SyncInv'
      BY <1>5, <2>1, <3>1 DEF SyncRecord, SectorsInv, SyncInv, ramVars
    <3> QED
      BY <1>5, <3>2, <3>3 DEF SyncRecord, MountedInv, MoveInv, WrapInv, FormatInv
  <2>2. CASE job = "repair1"
    <3>1. Recoverable'
      BY <1>5, <2>2, <1>reads, <1>stored, <1>fresh, <1>fresh1 DEF SyncRecord, SyncInv
    <3>2. SectorsInv' /\ SyncInv'
      BY <1>5, <2>2 DEF SyncRecord, SectorsInv, SyncInv
    <3> QED
      BY <1>5, <3>1, <3>2 DEF SyncRecord, MountedInv, MoveInv, WrapInv, FormatInv
  <2> QED
    BY <2>1, <2>2
<1>6. CASE SyncDone
  <2>1. Recoverable' /\ SectorsInv'
    BY <1>6, <1>same DEF SyncDone, SectorsInv
  <2>2. CASE ~ ScanFits(src)
    BY <1>6, <2>1, <2>2 DEF SyncDone, PowerDown, MountedInv, MoveInv, WrapInv, SyncInv, FormatInv
  <2>3. CASE ScanFits(src) /\ job = "repair1"
    <3>1. ~ Current(hdr[1]) /\ ~ Current(hdr[2]) /\ hdr[dst].version # CfgVersion
      BY <1>6, <2>3 DEF SyncDone, SyncInv, dst, Current
    <3>2. FormatInv'
      BY <1>6, <2>3, <3>1 DEF SyncDone, StartFormat, FormatInv
    <3> QED
      BY <1>6, <2>1, <2>3, <3>1, <3>2 DEF SyncDone, StartFormat, MountedInv, MoveInv, WrapInv, SyncInv
  <2>4. CASE ScanFits(src) /\ job # "repair1"
    <3>1. /\ dst = 2 /\ hdr[2] = hdr[1] /\ Current(hdr[1]) /\ rec[1] = NoRecords
          /\ device_id = hdr[1].id
      BY <1>6, <2>4 DEF SyncDone, SyncInv, dst
    <3>2. RepairedPos = 0
      BY <1>6, <1>id, <2>4, <3>1, RecoverNone DEF SyncDone, SyncInv, RepairedPos, TypeOK, Jobs, Current
    <3>3. pc' = "idle" /\ pos' = 0 /\ move_count' = hdr[1].move_count /\ device_id' = hdr[1].id
      BY <1>6, <2>4, <3>1, <3>2 DEF SyncDone, Current
    <3>4. hdr[1] = RamHeader'
      BY <3>1, <3>3 DEF RamHeader, CfgVersion, Current, TypeOK, Header, Copy
    <3>5. rec[1] = Records(device_id', 0)
      BY <3>1, RecordsZero
    <3>6. MountedInv'
      BY <1>6, <3>1, <3>3, <3>4, <3>5 DEF SyncDone, MountedInv
    <3> QED
      BY <2>1, <3>3, <3>6 DEF MoveInv, WrapInv, SyncInv, FormatInv
  <2> QED
    BY <2>2, <2>3, <2>4
<1>7. CASE Format
  <2>1. CASE pc = "fmt_erase1"
    <3>1. hdr'[2] = hdr[2] /\ ~ hdr'[1].ok /\ rec'[1] = NoRecords
      BY <1>7, <2>1 DEF Format, EraseState, Broken, TypeOK, Copy
    <3>2. Recoverable'
      BY <1>7, <2>1, <3>1, <1>reads, <1>stored, <1>fresh, <1>fresh1 DEF Format, FormatInv, Current
    <3>3. SectorsInv' /\ FormatInv'
      BY <1>7, <2>1, <3>1 DEF Format, SectorsInv, FormatInv, Current, ramVars
    <3> QED
      BY <1>7, <2>1, <3>2, <3>3 DEF Format, MountedInv, MoveInv, WrapInv, SyncInv
  <2>2. CASE pc = "fmt_header1"
    <3>1. /\ hdr'[1] = RamHeader /\ RamHeader' = RamHeader /\ rec' = rec
          /\ Current(hdr'[1]) /\ hdr'[1].move_count = 0
      BY <1>7, <2>2 DEF Format, WriteState, RamHeader, ramVars, FormatInv, TypeOK, Copy, Current
    <3>2. Recoverable'
      BY <1>7, <2>2, <3>1, <1>reads, <1>stored, <1>fresh, <1>none1 DEF Format, FormatInv
    <3>3. SectorsInv' /\ FormatInv'
      BY <1>7, <2>2, <3>1, RecordsZero DEF Format, SectorsInv, FormatInv, ramVars, Current, max_pos
    <3> QED
      BY <1>7, <2>2, <3>2, <3>3 DEF Format, MountedInv, MoveInv, WrapInv, SyncInv
  <2>3. CASE pc \in {"fmt_erase2", "fmt_header2", "fmt_cfg"}
    <3>1. /\ hdr'[1] = hdr[1] /\ rec'[1] = rec[1] /\ RamHeader' = RamHeader
          /\ hdr[1] = RamHeader /\ rec[1] = NoRecords /\ Current(hdr[1])
          /\ pc # "fmt_erase2" => hdr'[2] = RamHeader
      BY <1>7, <2>3 DEF Format, EraseState, WriteState, RamHeader, ramVars, FormatInv, TypeOK, Copy, Current
    <3>2. Recoverable'
      BY <1>7, <2>3, <3>1, <1>reads, <1>stored, <1>none, <1>none1 DEF Format
    <3>3. SectorsInv'
      BY <1>7, <2>3, <3>1, RecordsZero DEF SectorsInv, Current, max_pos
    <3>4. CASE pc # "fmt_cfg"
      BY <1>7, <2>3, <3>1, <3>2, <3>3, <3>4
         DEF Format, FormatInv, ramVars, MountedInv, MoveInv, WrapInv, SyncInv
    <3>5. CASE pc = "fmt_cfg"
      <4>1. rec'[1] = Records(device_id', pos')
        BY <1>7, <3>1, <3>5, RecordsZero DEF Format, FormatInv, ramVars
      <4>2. MountedInv'
        BY <1>7, <3>1, <3>5, <4>1 DEF Format, MountedInv
      <4> QED
        BY <1>7, <3>2, <3>3, <3>5, <4>2 DEF Format, FormatInv, MoveInv, WrapInv, SyncInv
    <3> QED
      BY <3>4, <3>5
  <2> QED
    BY <1>7, <2>1, <2>2, <2>3 DEF Format
<1>8. ASSUME NEW a \in Addr, NEW b \in Addr, EraseRange(a, b)
      PROVE  SafeInv'
  <2>1. Recoverable' /\ SectorsInv' /\ MountedInv'
    BY <1>8, <1>same DEF EraseRange, CountAccess, flashVars, ramVars, SectorsInv, MountedInv, RamHeader
  <2> QED
    BY <1>8, <2>1 DEF EraseRange, CountAccess, MoveInv, WrapInv, SyncInv, FormatInv
<1>9. ASSUME NEW a \in Addr, NEW b \in Addr, NEW v \in Values, WriteRange(a, b, v)
      PROVE  SafeInv'
  <2>1. Recoverable' /\ SectorsInv' /\ MountedInv'
    BY <1>9, <1>same DEF WriteRange, flashVars, ramVars, SectorsInv, MountedInv, RamHeader
  <2> QED
    BY <1>9, <2>1 DEF WriteRange, MoveInv, WrapInv, SyncInv, FormatInv
<1>10. CASE Unmount
  <2>1. Recoverable' /\ SectorsInv' /\ MountedInv'
    BY <1>10, <1>same DEF Unmount, flashVars, ramVars, SectorsInv, MountedInv, RamHeader
  <2> QED
    BY <1>10, <2>1 DEF Unmount, MoveInv, WrapInv, SyncInv, FormatInv
<1>11. CASE MoveErase
  <2>1. Recoverable'
    <3>1. L = LayoutAt(move_count, pos) /\ L1 = L
      BY <1>11, <1>ram DEF MoveErase, L, L1
    <3> QED
      BY <1>11, <1>reads, <1>stored, <3>1, ReadsDummy DEF MoveErase, TypeOK
  <2>2. SectorsInv' /\ MountedInv'
    BY <1>11 DEF MoveErase, ramVars, SectorsInv, MountedInv, RamHeader
  <2>3. MoveInv'
    BY <1>11 DEF MoveErase, ramVars, MoveInv, TypeOK
  <2> QED
    BY <1>11, <2>1, <2>2, <2>3 DEF MoveErase, WrapInv, SyncInv, FormatInv
<1>12. CASE MoveCopy
  <2>1. Recoverable'
    <3>1. L = LayoutAt(move_count, pos) /\ L1 = L
      BY <1>12, <1>ram DEF MoveCopy, L, L1
    <3> QED
      BY <1>12, <1>reads, <1>stored, <3>1, ReadsDummy DEF MoveCopy, TypeOK
  <2>2. SectorsInv' /\ MountedInv'
    BY <1>12 DEF MoveCopy, ramVars, SectorsInv, MountedInv, RamHeader
  <2>3. NextPage(pos) \in Page /\ NextPage(pos) # pos
    BY DEF TypeOK, NextPage, Page, max_pos
  <2>4. data'[pos] = data[NextPage(pos)] /\ data'[NextPage(pos)] = data[NextPage(pos)]
    BY <1>12, <2>3 DEF MoveCopy, MoveInv, Program, TypeOK
  <2>5. MoveInv'
    BY <1>12, <2>4 DEF MoveCopy, ramVars, MoveInv, NextPage
  <2> QED
    BY <1>12, <2>1, <2>2, <2>5 DEF MoveCopy, WrapInv, SyncInv, FormatInv
<1>13. CASE MoveRecord1
  <2>1. /\ Current(hdr[1]) /\ hdr[2] = hdr[1] /\ hdr[1].id = device_id
        /\ hdr[1].move_count = move_count /\ hdr' = hdr
    BY <1>13 DEF MoveRecord1, MountedInv, RamHeader, Current
  <2>2. rec'[1] = Records(device_id, pos + 1)
    <3>1. rec'[1] = [rec[1] EXCEPT ![pos] = device_id]
      BY <1>13 DEF MoveRecord1, TypeOK, Copy
    <3>2. rec[1] = Records(device_id, pos) \/ (pos + 1 = max_pos /\ rec[1] = Records(device_id, max_pos))
      BY <1>13 DEF MoveRecord1, MountedInv, max_pos
    <3> QED
      BY <3>1, <3>2, RecordsNext DEF TypeOK
  <2>3. pos + 1 \in 0 .. max_pos
    BY DEF TypeOK, Page, max_pos
  <2>4. L1 = LayoutAt(move_count, IF pos + 1 < max_pos THEN pos + 1 ELSE max_pos - 1)
    BY <1>id, <2>1, <2>2, <2>3, LayoutRecords DEF L1, Current
  <2>5. L = LayoutAt(move_count, pos)
    BY <1>13, <1>ram DEF MoveRecord1
  <2>6. Recoverable'
    <3>1. CASE pos < flash_size
      <4>1. pos \in Addr /\ NextPage(pos) = pos + 1
        BY <3>1 DEF TypeOK, Page, Addr, NextPage, max_pos
      <4>2. Reads(data, expected, move_count, pos + 1)
        BY <1>13, <1>reads, <2>5, <4>1, ReadsMove DEF MoveRecord1, MoveInv, TypeOK
      <4> QED
        BY <1>13, <1>stored, <2>4, <3>1, <4>2 DEF MoveRecord1, TypeOK, Page, max_pos
    <3>2. CASE pos = flash_size
      BY <1>13, <1>reads, <1>stored, <2>4, <2>5, <3>2 DEF MoveRecord1, max_pos
    <3> QED
      BY <3>1, <3>2 DEF TypeOK, Page
  <2>7. SectorsInv'
    BY <2>1, <2>2, <2>3, <1>13 DEF SectorsInv, MoveRecord1, Current
  <2>8. MountedInv' /\ MoveInv'
    BY <1>13, <2>2 DEF MoveRecord1, ramVars, MountedInv, MoveInv, RamHeader, NextPage
  <2> QED
    BY <1>13, <2>6, <2>7, <2>8 DEF MoveRecord1, WrapInv, SyncInv, FormatInv
<1>14. CASE MoveRecord2
  <2>1. /\ hdr' = hdr /\ rec'[1] = rec[1] /\ data' = data /\ expected' = expected
        /\ hdr[1] = RamHeader /\ hdr[2] = RamHeader
        /\ rec[1] = Records(device_id, pos + 1)
    BY <1>14 DEF MoveRecord2, MountedInv, TypeOK, Copy, max_pos
  <2>2. L1 = L
    BY <2>1 DEF L, L1, StoredLayout
  <2>3. Recoverable'
    BY <2>1, <2>2 DEF Recoverable, StoredContents, L, L1
  <2>4. SectorsInv'
    BY <1>14, <2>1 DEF SectorsInv, RamHeader, Current
  <2>5. CASE pos + 1 >= max_pos
    <3>1. pos = flash_size /\ NextPage(pos) = 0 /\ pos + 1 = max_pos
      BY <2>5 DEF TypeOK, Page, max_pos, NextPage
    <3>2. pc' = "wrap_erase1" /\ pos' = 0 /\ move_count' = NextMoveCount(move_count)
      BY <1>14, <2>5 DEF MoveRecord2
    <3>3. WrapInv'
      BY <1>14, <2>1, <3>1, <3>2 DEF WrapInv, MoveInv, MoveRecord2, RamHeader, Current
    <3> QED
      BY <2>3, <2>4, <3>2, <3>3 DEF MountedInv, MoveInv, SyncInv, FormatInv
  <2>6. CASE ~ (pos + 1 >= max_pos) /\ op.kind = "flush"
    BY <1>14, <2>3, <2>4, <2>6
       DEF MoveRecord2, UpdateReturns, PowerDown, MountedInv, MoveInv, WrapInv, SyncInv, FormatInv
  <2>7. CASE ~ (pos + 1 >= max_pos) /\ op.kind # "flush"
    <3>1. pc' = "op_erase" /\ pos' = pos + 1 /\ move_count' = move_count /\ device_id' = device_id
      BY <1>14, <2>7 DEF MoveRecord2, UpdateReturns
    <3>2. MountedInv'
      BY <2>1, <3>1 DEF MountedInv, RamHeader
    <3> QED
      BY <2>3, <2>4, <3>1, <3>2 DEF MoveInv, WrapInv, SyncInv, FormatInv
  <2> QED
    BY <2>5, <2>6, <2>7
<1>15. CASE Wrap
  <2>1. CASE pc = "wrap_erase1"
    <3>1. /\ hdr'[2] = hdr[2] /\ ~ hdr'[1].ok /\ rec'[1] = NoRecords
          /\ pc' = "wrap_header1" /\ data' = data /\ expected' = expected
          /\ pos' = pos /\ move_count' = move_count /\ device_id' = device_id
      BY <1>15, <2>1 DEF Wrap, EraseState, Broken, ramVars, TypeOK, Copy
    <3>2. Current(hdr[2]) /\ hdr[1] = hdr[2] /\ rec[1] = Records(hdr[1].id, max_pos)
      BY <2>1 DEF WrapInv
    <3>3. max_pos \in 0 .. max_pos
      BY DEF max_pos
    <3>4. L = LayoutAt(hdr[1].move_count, max_pos - 1)
      BY <1>id, <3>2, <3>3, LayoutRecords DEF L, Current
    <3>5. L1 = LayoutAt(hdr[2].move_count, max_pos - 1)
      BY <3>1, <3>2, LayoutCopy DEF L1
    <3>6. Recoverable'
      BY <1>reads, <1>stored, <3>1, <3>2, <3>4, <3>5
    <3>7. SectorsInv' /\ WrapInv'
      BY <2>1, <3>1, <3>2 DEF SectorsInv, WrapInv, Current
    <3> QED
      BY <3>1, <3>6, <3>7 DEF MountedInv, MoveInv, SyncInv, FormatInv
  <2>2. CASE pc = "wrap_header1"
    <3>1. /\ hdr'[1] = RamHeader /\ hdr'[2] = hdr[2] /\ rec' = rec /\ RamHeader' = RamHeader
          /\ pc' = "wrap_erase2" /\ data' = data /\ expected' = expected
          /\ pos' = pos /\ move_count' = move_count /\ device_id' = device_id
      BY <1>15, <2>2 DEF Wrap, WriteState, ramVars, RamHeader, TypeOK, Copy
    <3>2. Current(hdr'[1]) /\ hdr'[1].move_count = move_count /\ rec'[1] = NoRecords
      BY <2>2, <3>1 DEF WrapInv, RamHeader, Current
    <3>3. /\ ~ hdr[1].ok /\ Current(hdr[2]) /\ data[flash_size] = data[0]
          /\ move_count = NextMoveCount(hdr[2].move_count) /\ hdr[2].move_count \in Addr
      BY <2>2 DEF WrapInv, TypeOK, Header, Copy
    <3>4. L = LayoutAt(hdr[2].move_count, max_pos - 1)
      BY <3>3, LayoutCopy DEF L
    <3>5. max_pos - 1 = flash_size
      BY DEF max_pos
    <3>6. Recoverable'
      BY <1>reads, <1>stored, <1>none1, <3>1, <3>2, <3>3, <3>4, <3>5, ReadsWrap
    <3>7. SectorsInv' /\ WrapInv'
      BY <2>2, <3>1, <3>2, RecordsZero DEF SectorsInv, WrapInv, Current, max_pos
    <3> QED
      BY <3>1, <3>6, <3>7 DEF MountedInv, MoveInv, SyncInv, FormatInv
  <2>3. CASE pc = "wrap_erase2" \/ pc = "wrap_header2"
    <3>1. /\ hdr'[1] = hdr[1] /\ rec'[1] = rec[1] /\ data' = data /\ expected' = expected
          /\ hdr[1] = RamHeader /\ rec[1] = NoRecords /\ Current(hdr[1]) /\ pos = 0
          /\ pc = "wrap_header2" => hdr'[2] = RamHeader
      BY <1>15, <2>3 DEF Wrap, EraseState, WriteState, WrapInv, RamHeader, TypeOK, Copy, Current
    <3>2. Recoverable'
      BY <1>reads, <1>stored, <1>none, <1>none1, <3>1
    <3>3. SectorsInv'
      BY <1>15, <2>3, <3>1, RecordsZero DEF SectorsInv, Current, max_pos
    <3>4. CASE pc = "wrap_erase2"
      <4>1. WrapInv' /\ pc' = "wrap_header2"
        BY <1>15, <3>1, <3>4 DEF Wrap, WrapInv, ramVars, RamHeader
      <4> QED
        BY <3>2, <3>3, <4>1 DEF MountedInv, MoveInv, SyncInv, FormatInv
    <3>5. CASE pc = "wrap_header2" /\ op.kind = "flush"
      BY <1>15, <3>2, <3>3, <3>5
         DEF Wrap, UpdateReturns, PowerDown, MountedInv, MoveInv, WrapInv, SyncInv, FormatInv
    <3>6. CASE pc = "wrap_header2" /\ op.kind # "flush"
      <4>1. pc' = "op_erase" /\ pos' = pos /\ move_count' = move_count /\ device_id' = device_id
        BY <1>15, <3>6 DEF Wrap, UpdateReturns
      <4>2. MountedInv'
        BY <3>1, <3>6, <4>1, RecordsZero DEF MountedInv, RamHeader
      <4> QED
        BY <3>2, <3>3, <4>1, <4>2 DEF MoveInv, WrapInv, SyncInv, FormatInv
    <3> QED
      BY <2>3, <3>4, <3>5, <3>6
  <2> QED
    BY <1>15, <2>1, <2>2, <2>3 DEF Wrap
<1>16. CASE OpErase
  <2>1. L = LayoutAt(move_count, pos) /\ L1 = L
    BY <1>16, <1>ram DEF OpErase, L, L1
  <2>2. Reads(data, expected, move_count, pos) /\ op.addr \in Addr
    BY <1>reads, <2>1 DEF TypeOK, Ops
  <2>3. Reads(data', expected', move_count, pos)
    BY <1>16, <2>2, ReadsUpdate DEF OpErase, Here, TypeOK
  <2>4. Recoverable'
    BY <1>stored, <2>1, <2>3
  <2>5. SectorsInv' /\ MountedInv'
    BY <1>16 DEF OpErase, CountAccess, SectorsInv, MountedInv, RamHeader
  <2> QED
    BY <1>16, <2>4, <2>5 DEF OpErase, CountAccess, MoveInv, WrapInv, SyncInv, FormatInv
<1>17. CASE OpWrite
  <2>1. L = LayoutAt(move_count, pos) /\ L1 = L
    BY <1>17, <1>ram DEF OpWrite, L, L1
  <2>2. Reads(data, expected, move_count, pos) /\ op.addr \in Addr
    BY <1>reads, <2>1 DEF TypeOK, Ops
  <2>3. data[Here] = expected[op.addr]
    BY <2>2 DEF Reads, Here
  <2>4. Recoverable'
    <3> DEFINE x == Program(data[Here], op.val)
    <3>1. data' = [data EXCEPT ![Here] = x] /\ expected' = [expected EXCEPT ![op.addr] = x]
      BY <1>17, <2>3 DEF OpWrite
    <3> HIDE DEF x
    <3>2. Reads(data', expected', move_count, pos)
      BY <2>2, <3>1, ReadsUpdate DEF Here, TypeOK
    <3> QED
      BY <1>stored, <2>1, <3>2
  <2>5. SectorsInv' /\ MountedInv'
    BY <1>17 DEF OpWrite, ramVars, SectorsInv, MountedInv, RamHeader
  <2> QED
    BY <1>17, <2>4, <2>5 DEF OpWrite, MoveInv, WrapInv, SyncInv, FormatInv
<1>cut. ASSUME Interrupted, pc' # "wrap_header1", pc \notin {"wrap_erase1", "wrap_header1"}
        PROVE  Recoverable' /\ SectorsInv'
  <2>1. CASE UNCHANGED <<flashVars, expected>>
    BY <1>cut, <1>same, <2>1 DEF flashVars, SectorsInv
  <2>2. ASSUME pc \in {"mv_erase", "mv_copy"}, data' = [data EXCEPT ![pos] = Garbage],
               UNCHANGED <<hdr, rec, expected>>
        PROVE  Recoverable' /\ SectorsInv'
    <3>1. L = LayoutAt(move_count, pos) /\ L1 = L
      BY <2>2, <1>ram DEF L, L1
    <3>2. Recoverable'
      BY <2>2, <1>reads, <1>stored, <3>1, ReadsDummy DEF TypeOK
    <3> QED
      BY <2>2, <3>2 DEF SectorsInv
  <2>3. ASSUME pc \in OpPcs, data' = [data EXCEPT ![Here] = Garbage],
               expected' = [expected EXCEPT ![op.addr] = Garbage], UNCHANGED <<hdr, rec>>
        PROVE  Recoverable' /\ SectorsInv'
    <3>1. L = LayoutAt(move_count, pos) /\ L1 = L
      BY <2>3, <1>ram DEF L, L1
    <3>2. Reads(data, expected, move_count, pos) /\ op.addr \in Addr
      BY <1>reads, <3>1 DEF TypeOK, Ops
    <3>3. Reads(data', expected', move_count, pos)
      BY <2>3, <3>2, ReadsUpdate DEF Here, TypeOK
    <3> QED
      BY <2>3, <1>stored, <3>1, <3>3 DEF SectorsInv
  <2>4. ASSUME NEW c \in Copy, NEW id \in Ids \cup {NoId}, StatePc(c),
               hdr' = [hdr EXCEPT ![c] = Broken(id)], rec' = [rec EXCEPT ![c] = NoRecords],
               UNCHANGED <<data, expected>>
        PROVE  Recoverable' /\ SectorsInv'
    <3>1. CASE c = 1
      <4>1. hdr'[2] = hdr[2] /\ ~ hdr'[1].ok
        BY <2>4, <3>1 DEF Broken, TypeOK, Copy
      <4>2. ~ Current(hdr[1]) /\ ~ Current(hdr[2])
        BY <1>cut, <2>4, <3>1 DEF StatePc, dst, SyncInv, FormatInv
      <4>3. Recoverable'
        BY <2>4, <4>1, <4>2, <1>reads, <1>stored, <1>fresh, <1>fresh1 DEF Current
      <4> QED
        BY <4>1, <4>2, <4>3 DEF SectorsInv, Current
    <3>2. CASE c = 2
      <4>1. hdr'[1] = hdr[1] /\ rec'[1] = rec[1] /\ ~ hdr'[2].ok
        BY <2>4, <3>2 DEF Broken, TypeOK, Copy
      <4>2. Current(hdr[1]) /\ rec[1] = NoRecords
        BY <1>cut, <2>4, <3>2 DEF StatePc, dst, SyncInv, FormatInv, WrapInv, RamHeader, Current
      <4>3. Recoverable'
        BY <2>4, <4>1, <4>2, <1>reads, <1>stored, <1>none, <1>none1
      <4> QED
        BY <4>1, <4>2, <4>3 DEF SectorsInv, Current
    <3> QED
      BY <3>1, <3>2 DEF Copy
  <2> QED
    BY <1>cut, <2>1, <2>2, <2>3, <2>4 DEF Interrupted
<1>18. CASE PowerFail
  <2>1. Recoverable' /\ SectorsInv' /\ pc' = "off"
    BY <1>18, <1>cut DEF PowerFail, PowerDown, OutsideWindows
  <2> QED
    BY <2>1 DEF MountedInv, MoveInv, WrapInv, SyncInv, FormatInv
<1>19. CASE Fault
  <2>1. pc \notin WrapPcs /\ pc # "mv_rec2" /\ pc \in BusyPcs
    BY <1>19 DEF Fault, OutsideWindows
  <2>2. Recoverable' /\ SectorsInv'
    BY <1>19, <1>cut, <2>1 DEF Fault, PowerDown
  <2>3. CASE pc \in InitPcs \/ op.kind = "flush"
    BY <1>19, <2>2, <2>3 DEF Fault, PowerDown, MountedInv, MoveInv, WrapInv, SyncInv, FormatInv
  <2>4. CASE ~ (pc \in InitPcs \/ op.kind = "flush")
    <3>1. pc \in OpPcs \cup MovePcs
      BY <2>1, <2>4 DEF BusyPcs, InitPcs
    <3>2. hdr' = hdr /\ rec' = rec
      BY <1>19, <3>1 DEF Fault, Interrupted, StatePc, flashVars
    <3>3. /\ pc' = "idle" /\ pos' = pos /\ move_count' = move_count /\ device_id' = device_id
      BY <1>19, <2>4 DEF Fault
    <3>4. MountedInv'
      BY <2>1, <3>1, <3>2, <3>3 DEF MountedInv, RamHeader
    <3> QED
      BY <2>2, <3>3, <3>4 DEF MoveInv, WrapInv, SyncInv, FormatInv
  <2> QED
    BY <2>3, <2>4
<1>20. CASE UNCHANGED vars
  <2>1. L1 = L
    BY <1>20 DEF vars, L, L1
  <2> QED
    BY <1>20, <1>same DEF vars, SectorsInv, MountedInv, MoveInv, WrapInv, SyncInv, FormatInv, RamHeader
<1> QED
  BY <1>1, <1>2, <1>3, <1>4, <1>5, <1>6, <1>7, <1>8, <1>9, <1>10, <1>11, <1>12,
     <1>13, <1>14, <1>15, <1>16, <1>17, <1>18, <1>19, <1>20
  DEF Next, Step, InitStep, MoveStep


-------------------------------------------------------------------------------
(* The initial states satisfy the invariant.                                 *)
LEMMA SafeInit == Init => SafeInv
<1> SUFFICES ASSUME Init PROVE SafeInv
  OBVIOUS
<1> USE ConfigAccepts DEF SafeInv
<1>1. ~ Current(hdr[1]) /\ ~ Current(hdr[2]) /\ (hdr[1].ok => hdr[2].ok)
  BY DEF Init, Broken, Copy, Current, CfgVersion
<1>2. SectorsInv
  BY <1>1 DEF Init, SectorsInv
<1>3. Recoverable
  <2>1. StoredLayout(hdr, rec) = LayoutAt(0, 0)
    BY <1>1, LayoutFresh
  <2>2. \A a \in Addr : calcAddr(0, 0, a) = a + 1
    <3>1. 0 \in Addr /\ 0 \in Page
      BY DEF Addr, Page
    <3> QED
      BY <3>1, CalcAddrCases DEF Rotated, Addr
  <2>3. Reads(data, expected, 0, 0) /\ expected \in [Addr -> Content]
    BY <2>2 DEF Reads, Init, Addr, Page
  <2> QED
    BY <2>1, <2>3, ContentsReads DEF Recoverable, StoredContents
<1> QED
  BY <1>2, <1>3 DEF Init, MountedInv, MoveInv, WrapInv, SyncInv, FormatInv,
                    MountedPcs, OpPcs, MovePcs, WrapPcs, SyncPcs, FmtPcs

(* The invariant implies that a mounted device reads back what was written.  *)
LEMMA SafeReadBack ==
  ASSUME TypeOK, IdInv, SafeInv
  PROVE  ReadBack
<1> SUFFICES ASSUME pc = "idle"
             PROVE  \A a \in Addr : data[calcAddr(move_count, pos, a)] = expected[a]
  BY DEF ReadBack
<1>1. /\ Current(hdr[1]) /\ hdr[2].ok /\ hdr[1].id \in Ids
      /\ hdr[1].move_count = move_count /\ hdr[1].id = device_id
  BY DEF SafeInv, MountedInv, MountedPcs, RamHeader, Current, IdInv, SyncPcs
<1>2. PICK q \in 0 .. max_pos :
        rec[1] = Records(device_id, q) /\ (q = pos \/ (pos = flash_size /\ q = max_pos))
  BY ConfigAccepts DEF SafeInv, MountedInv, MountedPcs, TypeOK, Page, max_pos
<1>3. StoredLayout(hdr, rec) = LayoutAt(move_count, IF q < max_pos THEN q ELSE max_pos - 1)
  BY <1>1, <1>2, LayoutRecords
<1>4. StoredLayout(hdr, rec) = LayoutAt(move_count, pos)
  BY <1>2, <1>3, ConfigAccepts DEF TypeOK, Page, max_pos
<1> QED
  BY <1>4, ContentsReads DEF SafeInv, Recoverable, StoredContents, TypeOK, Reads

(* Which call a step belongs to.                                             *)
LEMMA OpInvariant == Spec => []OpInv
<1> USE DEF OpInv, InitPcs, SyncPcs, FmtPcs, MovePcs, WrapPcs
<1>1. Init => OpInv
  BY DEF Init
<1>2. TypeOK /\ OpInv /\ [Next]_vars => OpInv'
  <2> SUFFICES ASSUME TypeOK, OpInv, [Next]_vars PROVE OpInv'
    OBVIOUS
  <2>1. CASE Mount
    BY <2>1 DEF Mount, MountGood, MountFormat, MountSync, StartFormat
  <2>2. CASE MountUnreadable
    BY <2>2 DEF MountUnreadable, StartFormat
  <2>3. CASE SyncErase \/ SyncHeader \/ SyncRecord
    BY <2>3 DEF SyncErase, SyncHeader, SyncRecord
  <2>4. CASE SyncDone
    BY <2>4 DEF SyncDone, PowerDown, StartFormat
  <2>5. CASE Format
    BY <2>5 DEF Format
  <2>6. ASSUME NEW a \in Addr, NEW b \in Addr, EraseRange(a, b)
        PROVE  OpInv'
    BY <2>6 DEF EraseRange, CountAccess
  <2>7. ASSUME NEW a \in Addr, NEW b \in Addr, NEW v \in Values, WriteRange(a, b, v)
        PROVE  OpInv'
    BY <2>7 DEF WriteRange
  <2>8. CASE Unmount
    BY <2>8 DEF Unmount, NoOp
  <2>9. CASE MoveErase \/ MoveCopy \/ MoveRecord1
    BY <2>9 DEF MoveErase, MoveCopy, MoveRecord1
  <2>10. CASE MoveRecord2
    BY <2>10 DEF MoveRecord2, UpdateReturns, PowerDown
  <2>11. CASE Wrap
    BY <2>11 DEF Wrap, UpdateReturns, PowerDown
  <2>12. CASE OpErase
    BY <2>12 DEF OpErase, CountAccess, TypeOK, Ops
  <2>13. CASE OpWrite
    BY <2>13 DEF OpWrite, TypeOK, Ops
  <2>14. CASE PowerFail \/ Fault
    BY <2>14 DEF PowerFail, Fault, PowerDown
  <2>15. CASE UNCHANGED vars
    BY <2>15 DEF vars
  <2> QED
    BY <2>1, <2>2, <2>3, <2>4, <2>5, <2>6, <2>7, <2>8, <2>9, <2>10, <2>11, <2>12,
       <2>13, <2>14, <2>15
    DEF Next, Step, InitStep, MoveStep
<1> QED
  BY <1>1, <1>2, TypeInvariant, PTL DEF Spec

(* The inductive invariant holds of every behaviour: at each step of a move, *)
(* of a turn, of a repair and of a format the state sectors determine the    *)
(* layout, while power does not fail during the replacement of state sector  *)
(* 1 and no flash operation fails after a move has been recorded.            *)
THEOREM SafeInvariant ==
  ASSUME SafeWindows
  PROVE  Spec => []IInv
<1>1. Init => SafeInv
  BY SafeInit
<1>2. /\ TypeOK /\ IdInv /\ SafeInv
      /\ (TypeOK /\ IdInv)'
      /\ [Next]_vars
      => SafeInv'
  BY SafeOutside, SafeStep
<1>3. TypeOK /\ IdInv /\ OpInv /\ SafeInv => IInv
  BY DEF IInv
<1> QED
  BY <1>1, <1>2, <1>3, TypeInvariant, OpInvariant, PTL DEF Spec

(* For every partition size, update rate and number of power failures: while *)
(* power does not fail during the replacement of state sector 1 and no flash *)
(* operation fails after a move has been recorded, the flash alone always    *)
(* determines what every logical page holds (calcAddr after init()).         *)
THEOREM AlwaysRecoverable ==
  ASSUME SafeWindows
  PROVE  Spec => []Recoverable
<1>1. IInv => Recoverable
  BY DEF IInv, SafeInv
<1> QED
  BY <1>1, SafeInvariant, PTL

(* Under the same conditions a mounted device reads back, at every logical   *)
(* page, what the completed calls left there.                                *)
THEOREM AlwaysReadsBack ==
  ASSUME SafeWindows
  PROVE  Spec => []ReadBack
<1>1. IInv => ReadBack
  BY SafeReadBack DEF IInv
<1> QED
  BY <1>1, SafeInvariant, PTL

-------------------------------------------------------------------------------
(* The abstract specification has the same cells.                            *)
LEMMA SameCells ==
  /\ NoOp = Device!Idle /\ Erased = Device!Erased /\ Garbage = Device!Garbage
  /\ Content = Device!Content
  /\ \A old, new : Program(old, new) = Device!Program(old, new)
  BY DEF NoOp, Device!Idle, Erased, Device!Erased, Garbage, Device!Garbage,
         Content, Device!Content, Program, Device!Program

(* Every step of the code is a step of the abstract array of pages, or none. *)
LEMMA StepRefines ==
  ASSUME IInv, IInv', [Next]_vars
  PROVE  [Device!Next]_<<StoredContents, op>>
<1>1. StoredContents = expected /\ StoredContents' = expected'
  BY DEF IInv, SafeInv, Recoverable
<1> HIDE DEF StoredContents
<1> SUFFICES \/ expected' = expected /\ op' = op
             \/ Device!Next
  BY <1>1
<1>2. CASE Mount \/ MountUnreadable \/ SyncErase \/ SyncHeader \/ SyncRecord \/ Format
  BY <1>2 DEF Mount, MountUnreadable, SyncErase, SyncHeader, SyncRecord, Format
<1>3. CASE SyncDone
  BY <1>3 DEF SyncDone, PowerDown, IInv, OpInv, InitPcs, SyncPcs
<1>4. CASE MoveErase \/ MoveCopy \/ MoveRecord1
  BY <1>4 DEF MoveErase, MoveCopy, MoveRecord1
<1>flush. ASSUME op.kind = "flush", op' = NoOp, expected' = expected
          PROVE  Device!Next
  BY <1>flush, <1>1, SameCells DEF Device!Next, Device!EndFlush
<1>5. CASE MoveRecord2
  BY <1>5, <1>flush DEF MoveRecord2, UpdateReturns, PowerDown
<1>6. CASE Wrap
  BY <1>6, <1>flush DEF Wrap, UpdateReturns, PowerDown
<1>7. ASSUME NEW a \in Addr, NEW b \in Addr, EraseRange(a, b)
      PROVE  Device!Next
  BY <1>7, <1>1, SameCells DEF EraseRange, IInv, OpInv, Device!Next, Device!Begin
<1>8. ASSUME NEW a \in Addr, NEW b \in Addr, NEW v \in Values, WriteRange(a, b, v)
      PROVE  Device!Next
  BY <1>8, <1>1, SameCells DEF WriteRange, IInv, OpInv, Device!Next, Device!Begin
<1>9. CASE Unmount
  BY <1>9, <1>1, SameCells DEF Unmount, IInv, OpInv, Device!Next, Device!Begin
<1>10. CASE OpErase
  BY <1>10, <1>1, SameCells DEF OpErase, IInv, OpInv, Device!Next, Device!ErasePage, Device!Advance
<1>11. CASE OpWrite
  BY <1>11, <1>1, SameCells DEF OpWrite, IInv, OpInv, Device!Next, Device!WritePage, Device!Advance
<1>12. CASE PowerFail \/ Fault
  <2>1. op' = NoOp
    BY <1>12 DEF PowerFail, Fault, PowerDown
  <2>2. \/ expected' = expected
        \/ pc \in OpPcs /\ expected' = [expected EXCEPT ![op.addr] = Garbage]
    BY <1>12 DEF PowerFail, Fault, Interrupted, flashVars
  <2>3. \/ op = NoOp /\ pc \notin OpPcs
        \/ op.kind = "flush" /\ pc \notin OpPcs
        \/ op.kind \in {"erase", "write"}
    BY <1>12 DEF PowerFail, Fault, IInv, OpInv, TypeOK, Pcs, BusyPcs, InitPcs, SyncPcs, FmtPcs,
                 MovePcs, WrapPcs, OpPcs
  <2>4. CASE op.kind \in {"erase", "write"}
    BY <2>1, <2>2, <2>4, <1>1, SameCells DEF Device!Next, Device!Abort
  <2> QED
    BY <2>1, <2>2, <2>3, <2>4, <1>flush
<1>13. CASE UNCHANGED vars
  BY <1>13 DEF vars
<1> QED
  BY <1>2, <1>3, <1>4, <1>5, <1>6, <1>7, <1>8, <1>9, <1>10, <1>11, <1>12, <1>13
  DEF Next, Step, InitStep, MoveStep

(* Wear levelling is invisible: under the same conditions, the pages that    *)
(* the flash determines behave as the plain array of Flash_Access, through   *)
(* moves, repairs, formats, power failures and errors.                       *)
THEOREM RefinesFlashAccess ==
  ASSUME SafeWindows
  PROVE  Spec => ImplementsFlashAccess
<1>1. Init /\ IInv => Device!Init
  <2> SUFFICES ASSUME Init, IInv PROVE Device!Init
    OBVIOUS
  <2>1. StoredContents = expected /\ expected \in [Addr -> Content]
    BY DEF IInv, SafeInv, Recoverable, TypeOK
  <2>2. op = Device!Idle
    BY SameCells DEF Init
  <2> QED
    BY <2>1, <2>2, SameCells DEF Device!Init
<1>2. IInv /\ IInv' /\ [Next]_vars => [Device!Next]_<<StoredContents, op>>
  BY StepRefines
<1> QED
  BY <1>1, <1>2, SafeInvariant, PTL DEF Spec, ImplementsFlashAccess, Device!Spec

-------------------------------------------------------------------------------
(* While init() copies records, both headers are valid and equal.            *)
CopyInv == pc = "sync_record" => hdr[1].ok /\ hdr[1] = hdr[2]

(* Each step keeps that.                                                     *)
LEMMA CopyStep ==
  ASSUME TypeOK, IdInv, CopyInv, [Next]_vars
  PROVE  CopyInv'
<1> SUFFICES ASSUME pc' = "sync_record" PROVE hdr'[1].ok /\ hdr'[1] = hdr'[2]
  BY DEF CopyInv
<1> USE DEF CopyInv
<1>1. CASE SyncHeader
  <2>1. pc = "sync_header" /\ hdr' = [hdr EXCEPT ![dst] = hdr[src]] /\ hdr[src].ok
    BY <1>1 DEF SyncHeader, IdInv, SyncPcs
  <2>2. dst \in Copy /\ src \in Copy /\ (dst = 1 => src = 2) /\ (dst = 2 => src = 1)
    BY DEF dst, src, Copy
  <2> QED
    BY <2>1, <2>2 DEF TypeOK, Copy
<1>2. CASE SyncRecord
  BY <1>2 DEF SyncRecord
<1>3. CASE SyncErase \/ SyncDone \/ Format
  BY <1>3 DEF SyncErase, SyncDone, Format, PowerDown, StartFormat
<1>4. CASE Mount \/ MountUnreadable \/ Unmount
  BY <1>4 DEF Mount, MountGood, MountFormat, MountSync, MountUnreadable, StartFormat, Unmount
<1>5. CASE MoveStep
  BY <1>5 DEF MoveStep, MoveErase, MoveCopy, MoveRecord1, MoveRecord2, Wrap, UpdateReturns, PowerDown
<1>6. CASE OpErase \/ OpWrite
  BY <1>6 DEF OpErase, OpWrite, CountAccess
<1>7. CASE \E a, b \in Addr : EraseRange(a, b)
  BY <1>7 DEF EraseRange, CountAccess
<1>8. CASE \E a, b \in Addr : \E v \in Values : WriteRange(a, b, v)
  BY <1>8 DEF WriteRange
<1>9. CASE PowerFail \/ Fault
  BY <1>9 DEF PowerFail, Fault, PowerDown, InitPcs, SyncPcs
<1>10. CASE UNCHANGED vars
  BY <1>10 DEF vars
<1> QED
  BY <1>1, <1>2, <1>3, <1>4, <1>5, <1>6, <1>7, <1>8, <1>9, <1>10 DEF Next, Step, InitStep

(* For every size of the partition, and whatever power failures and errors   *)
(* came before: where the copy loop of init() runs past the partition, init()*)
(* fails, but only once, since the headers it leaves are valid and equal.    *)
THEOREM RepairFailsOnce == Spec => InitFailsOnce
<1>1. Init => CopyInv
  BY DEF Init, CopyInv
<1>2. TypeOK /\ IdInv /\ CopyInv /\ [Next]_vars => CopyInv'
  BY CopyStep
<1>3. /\ TypeOK /\ CopyInv /\ [Next]_vars
      => [(pc \in InitPcs /\ pc' = "off" /\ powerFails' = powerFails /\ faults' = faults)
            => hdr'[1].ok /\ hdr'[1] = hdr'[2]]_vars
  <2> SUFFICES ASSUME TypeOK, CopyInv, Next, pc \in InitPcs, pc' = "off",
                      powerFails' = powerFails, faults' = faults
               PROVE  hdr'[1].ok /\ hdr'[1] = hdr'[2]
    OBVIOUS
  <2>1. powerFails \in Nat /\ faults \in Nat
    BY BoundAssumption DEF TypeOK
  <2> USE DEF InitPcs, SyncPcs, FmtPcs
  <2>2. CASE PowerFail \/ Fault
    BY <2>1, <2>2 DEF PowerFail, Fault
  <2>3. CASE SyncDone
    BY <2>3 DEF SyncDone, CopyInv
  <2>4. CASE SyncErase \/ SyncHeader \/ SyncRecord \/ Format
    BY <2>4 DEF SyncErase, SyncHeader, SyncRecord, Format
  <2>5. CASE Mount \/ MountUnreadable \/ Unmount \/ OpErase \/ OpWrite
    BY <2>5 DEF Mount, MountUnreadable, Unmount, OpErase, OpWrite
  <2>6. CASE MoveStep
    BY <2>6 DEF MoveStep, MoveErase, MoveCopy, MoveRecord1, MoveRecord2, Wrap
  <2>7. CASE \E a, b \in Addr : EraseRange(a, b)
    BY <2>7 DEF EraseRange
  <2>8. CASE \E a, b \in Addr : \E v \in Values : WriteRange(a, b, v)
    BY <2>8 DEF WriteRange
  <2> QED
    BY <2>2, <2>3, <2>4, <2>5, <2>6, <2>7, <2>8 DEF Next, Step, InitStep
<1> QED
  BY <1>1, <1>2, <1>3, TypeInvariant, PTL DEF Spec, InitFailsOnce

-------------------------------------------------------------------------------
(* One loss of power, at any moment.  If it comes while state sector 1 is    *)
(* being replaced, init() repairs it from sector 2 and goes on at the last   *)
(* page: until the next full turn the records do not tell where the dummy    *)
(* is, but the state in RAM is right.                                        *)
Torn ==
  /\ powerFails = 1 /\ struck
  /\ pc \in {"off"} \cup SyncPcs \cup MountedPcs \cup WrapPcs
  /\ pc = "off" => ~ hdr[1].ok
  /\ pc \in SyncPcs => job = "repair1" /\ (pc = "sync_record" => hdr[1] = hdr[2])
  /\ pc \in {"off"} \cup SyncPcs =>
       Current(hdr[2]) /\ Reads(data, expected, hdr[2].move_count, flash_size)
  /\ pc \in MountedPcs => pos = flash_size /\ Reads(data, expected, move_count, flash_size)
  /\ pc = "mv_copy" => data[pos] = Erased
  /\ pc \in {"mv_rec1", "mv_rec2"} => data[pos] = data[0]
  /\ pc \in WrapPcs => pos = 0 /\ Reads(data, expected, move_count, 0)
  /\ pc \in {"wrap_header1", "wrap_erase2", "wrap_header2"} => rec[1] = NoRecords
  /\ pc \in {"wrap_erase2", "wrap_header2"} => hdr[1] = RamHeader

(* The one loss of power.                                                    *)
LEMMA TornStart ==
  ASSUME TypeOK, IdInv, SafeInv, TypeOK', PowerFail, powerFails' = 1,
         pc \in {"wrap_erase1", "wrap_header1"}
  PROVE  SafeInv' \/ Torn'
<1> USE ConfigAccepts DEF SyncPcs, FmtPcs, MovePcs, WrapPcs, OpPcs, MountedPcs
<1>1. /\ pc' = "off" /\ Interrupted
  BY DEF PowerFail, PowerDown
<1>s. powerFails' = 1 /\ struck'
  BY Zenon DEF PowerFail, ReplacePcs
<1>2. /\ Current(hdr[2]) /\ pos = 0 /\ data[flash_size] = data[0]
      /\ pc = "wrap_erase1" => hdr[1] = hdr[2] /\ rec[1] = Records(hdr[1].id, max_pos)
      /\ pc = "wrap_header1" => ~ hdr[1].ok
  BY DEF SafeInv, WrapInv
<1>3. Reads(data, expected, hdr[2].move_count, flash_size)
  <2>1. flash_size = max_pos - 1 /\ max_pos \in 0 .. max_pos
    BY DEF max_pos
  <2>2. StoredLayout(hdr, rec) = LayoutAt(hdr[2].move_count, flash_size)
    <3>1. CASE pc = "wrap_erase1"
      <4>1. Current(hdr[1]) /\ hdr[2].ok /\ hdr[1].id \in Ids
        BY <1>2, <3>1 DEF Current, IdInv, Copy
      <4> QED
        BY <1>2, <2>1, <3>1, <4>1, LayoutRecords
    <3>2. CASE pc = "wrap_header1"
      BY <1>2, <2>1, <3>2, LayoutCopy
    <3> QED
      BY <3>1, <3>2
  <2> QED
    BY <2>2, ContentsReads DEF SafeInv, Recoverable, StoredContents, TypeOK
<1>4. CASE UNCHANGED <<flashVars, expected>>
  <2>1. CASE pc = "wrap_erase1"
    <3>1. hdr[1].ok /\ Recoverable' /\ SectorsInv'
      BY <1>2, <1>4, <2>1 DEF SafeInv, Recoverable, StoredContents, SectorsInv, flashVars, Current
    <3> QED
      BY <1>1, <3>1 DEF SafeInv, MountedInv, MoveInv, WrapInv, SyncInv, FormatInv
  <2>2. CASE pc = "wrap_header1"
    BY <1>1, <1>2, <1>3, <1>4, <1>s, <2>2 DEF Torn, flashVars
  <2> QED
    BY <2>1, <2>2
<1>5. ASSUME NEW c \in Copy, NEW id \in Ids \cup {NoId}, StatePc(c),
             hdr' = [hdr EXCEPT ![c] = Broken(id)], UNCHANGED <<data, expected>>
      PROVE  Torn'
  <2>1. c = 1
    BY <1>5 DEF StatePc
  <2>2. hdr'[2] = hdr[2] /\ ~ hdr'[1].ok
    BY <1>5, <2>1 DEF Broken, TypeOK, Copy
  <2> QED
    BY <1>1, <1>2, <1>3, <1>5, <1>s, <2>2 DEF Torn
<1> QED
  BY <1>1, <1>4, <1>5 DEF Interrupted, OpPcs

(* The repair, and the rest of the turn.                                     *)
LEMMA TornStep ==
  ASSUME ScanFits(2), TypeOK, IdInv, TypeOK', IdInv', Torn, Next,
         powerFails' = powerFails, faults' = faults
  PROVE  SafeInv' \/ Torn'
<1> USE ConfigAccepts DEF SyncPcs, FmtPcs, MovePcs, WrapPcs, OpPcs, MountedPcs
<1>0. /\ powerFails \in Nat /\ faults \in Nat /\ powerFails' = 1 /\ flash_size \in Page /\ 0 \in Page
      /\ flash_size # 0 /\ max_pos = flash_size + 1 /\ flash_size \in Int
  BY BoundAssumption DEF TypeOK, Torn, Page, max_pos
<1>1. CASE Mount
  BY <1>0, <1>1 DEF Mount, MountGood, MountFormat, MountSync, Torn, Current
<1>2. CASE MountUnreadable \/ PowerFail \/ Fault
  BY <1>0, <1>2 DEF MountUnreadable, PowerFail, Fault
<1>3. CASE SyncErase \/ SyncHeader
  <2>1. hdr'[2] = hdr[2] /\ (pc = "sync_header" => hdr'[1] = hdr[2])
    <3>p. pc \in {"sync_erase", "sync_header"}
      BY <1>3 DEF SyncErase, SyncHeader
    <3>1. dst = 1 /\ src = 2 /\ hdr \in [{1, 2} -> Header]
      BY <3>p DEF Torn, dst, src, TypeOK, Copy
    <3>2. CASE SyncErase
      BY <3>1, <3>2 DEF SyncErase
    <3>3. CASE SyncHeader
      BY <3>1, <3>3 DEF SyncHeader
    <3> QED
      BY <1>3, <3>2, <3>3
  <2> QED
    BY <1>0, <1>3, <2>1 DEF SyncErase, SyncHeader, Torn
<1>4. CASE SyncRecord
  BY <1>0, <1>4 DEF SyncRecord, Torn
<1>5. CASE SyncDone
  <2>1. dst = 1 /\ src = 2 /\ hdr[1] = hdr[2] /\ hdr[1].version = CfgVersion
    BY <1>5 DEF SyncDone, Torn, dst, src, Current
  <2>2. pc' = "idle" /\ pos' = flash_size /\ move_count' = hdr[2].move_count
        /\ UNCHANGED <<data, expected, struck>>
    BY <1>0, <1>5, <2>1 DEF SyncDone, RepairedPos, Torn
  <2>3. Reads(data, expected, hdr[2].move_count, flash_size)
    BY <1>5 DEF SyncDone, Torn
  <2> QED
    BY <1>0, <2>2, <2>3 DEF Torn
<1>6. CASE Format
  BY <1>6 DEF Format, Torn
<1>7. CASE \E a, b \in Addr : EraseRange(a, b)
  BY <1>0, <1>7 DEF EraseRange, CountAccess, Torn, flashVars
<1>8. CASE \E a, b \in Addr : \E v \in Values : WriteRange(a, b, v)
  BY <1>0, <1>8 DEF WriteRange, Torn, flashVars, ramVars
<1>9. CASE Unmount
  BY <1>0, <1>9 DEF Unmount, Torn, flashVars
<1>10. CASE MoveErase
  <2>1. Reads(data', expected', move_count', flash_size) /\ data'[pos] = Erased
    BY <1>0, <1>10, ReadsDummy DEF MoveErase, Torn, TypeOK, ramVars
  <2> QED
    BY <1>0, <1>10, <2>1 DEF MoveErase, Torn, ramVars
<1>11. CASE MoveCopy
  <2>1. NextPage(pos) = 0 /\ pos = flash_size /\ data[pos] = Erased
    BY <1>0, <1>11 DEF MoveCopy, Torn, NextPage
  <2>2. data' = [data EXCEPT ![pos] = data[0]]
    BY <1>11, <2>1 DEF MoveCopy, Program
  <2>3. Reads(data', expected', move_count', flash_size) /\ data'[pos] = data'[0]
    <3>1. PICK x : x = data[0]
      OBVIOUS
    <3>2. data' = [data EXCEPT ![flash_size] = x] /\ expected' = expected /\ move_count' = move_count
      BY <1>11, <2>1, <2>2, <3>1 DEF MoveCopy, ramVars
    <3>3. Reads(data, expected, move_count, flash_size) /\ data \in [Page -> Content]
          /\ move_count \in Addr
      BY <1>11 DEF MoveCopy, Torn, TypeOK
    <3>4. Reads(data', expected, move_count, flash_size)
      BY <1>0, <3>2, <3>3, ReadsDummy
    <3>5. data'[pos] = data'[0]
      BY <1>0, <2>1, <3>1, <3>2, <3>3
    <3> QED
      BY <3>2, <3>4, <3>5
  <2> QED
    BY <1>0, <1>11, <2>1, <2>3 DEF MoveCopy, Torn, ramVars
<1>12. CASE MoveRecord1
  BY <1>0, <1>12 DEF MoveRecord1, Torn, ramVars
<1>13. CASE MoveRecord2
  <2>1. pos = flash_size /\ data[flash_size] = data[0] /\ Reads(data, expected, move_count, flash_size)
    BY <1>13 DEF MoveRecord2, Torn
  <2>2. /\ pc' = "wrap_erase1" /\ pos' = 0 /\ move_count' = NextMoveCount(move_count)
        /\ UNCHANGED <<data, expected, struck>>
    BY <1>0, <1>13, <2>1 DEF MoveRecord2
  <2>3. Reads(data, expected, move_count', 0)
    BY <2>1, <2>2, ReadsWrap DEF TypeOK
  <2> QED
    BY <1>0, <2>2, <2>3 DEF Torn
<1>14. CASE Wrap
  <2>1. UNCHANGED <<data, expected>> /\ pos = 0 /\ Reads(data, expected, move_count, 0)
    BY <1>14 DEF Wrap, Torn
  <2>2. CASE pc = "wrap_erase1"
    <3>1. rec'[1] = NoRecords
      BY <1>14, <2>2 DEF Wrap, EraseState, TypeOK, Copy
    <3> QED
      BY <1>0, <1>14, <2>1, <2>2, <3>1 DEF Wrap, Torn, ramVars
  <2>3. CASE pc = "wrap_header1"
    <3>1. rec' = rec /\ hdr'[1] = RamHeader /\ RamHeader' = RamHeader
      BY <1>14, <2>3 DEF Wrap, WriteState, TypeOK, Copy, ramVars, RamHeader
    <3> QED
      BY <1>0, <1>14, <2>1, <2>3, <3>1 DEF Wrap, Torn, ramVars
  <2>4. CASE pc = "wrap_erase2"
    <3>1. rec'[1] = rec[1] /\ hdr'[1] = hdr[1] /\ RamHeader' = RamHeader
      BY <1>14, <2>4 DEF Wrap, EraseState, TypeOK, Copy, ramVars, RamHeader
    <3> QED
      BY <1>0, <1>14, <2>1, <2>4, <3>1 DEF Wrap, Torn, ramVars
  <2>5. CASE pc = "wrap_header2"
    <3>1. rec' = rec /\ rec'[1] = NoRecords /\ hdr'[1] = RamHeader /\ hdr'[2] = RamHeader
      BY <1>14, <2>5 DEF Wrap, WriteState, TypeOK, Copy, Torn
    <3>2. Current(hdr'[1]) /\ hdr'[1].move_count = move_count /\ hdr'[1].id \in Ids
          /\ hdr'[1].ok
      BY <3>1 DEF Current, RamHeader, CfgVersion, IdInv, Copy
    <3>3. Recoverable'
      <4>1. StoredLayout(hdr', rec') = LayoutAt(move_count, 0)
        BY <3>1, <3>2, LayoutNone
      <4> QED
        BY <2>1, <4>1, ContentsReads DEF Recoverable, StoredContents, TypeOK
    <3>4. SectorsInv'
      <4>1. rec'[1] = Records(hdr'[1].id, 0) /\ 0 \in 0 .. max_pos
        BY <3>1, RecordsZero DEF max_pos
      <4> QED
        BY <3>1, <3>2, <4>1 DEF SectorsInv
    <3>5. CASE op.kind = "flush"
      BY <1>14, <2>5, <3>3, <3>4, <3>5
         DEF Wrap, UpdateReturns, PowerDown, SafeInv, MountedInv, MoveInv, WrapInv, SyncInv, FormatInv
    <3>6. CASE op.kind # "flush"
      <4>1. pc' = "op_erase" /\ pos' = 0 /\ move_count' = move_count /\ device_id' = device_id
        BY <1>14, <2>1, <2>5, <3>6 DEF Wrap, UpdateReturns
      <4>2. MountedInv'
        BY <3>1, <4>1, RecordsZero DEF MountedInv, RamHeader
      <4> QED
        BY <3>3, <3>4, <4>1, <4>2 DEF SafeInv, MoveInv, WrapInv, SyncInv, FormatInv
    <3> QED
      BY <3>5, <3>6
  <2> QED
    BY <1>14, <2>2, <2>3, <2>4, <2>5 DEF Wrap
<1>15. CASE OpErase
  <2>1. pos = flash_size /\ Reads(data, expected, move_count, pos) /\ op.addr \in Addr
    BY <1>15 DEF OpErase, Torn, TypeOK, Ops
  <2>2. Reads(data', expected', move_count, pos)
    BY <1>15, <2>1, ReadsUpdate DEF OpErase, Here, TypeOK
  <2> QED
    BY <1>0, <1>15, <2>1, <2>2 DEF OpErase, CountAccess, Torn
<1>16. CASE OpWrite
  <2>1. pos = flash_size /\ Reads(data, expected, move_count, pos) /\ op.addr \in Addr
    BY <1>16 DEF OpWrite, Torn, TypeOK, Ops
  <2>2. data[Here] = expected[op.addr]
    BY <2>1 DEF Reads, Here
  <2>3. Reads(data', expected', move_count, pos)
    <3> DEFINE x == Program(data[Here], op.val)
    <3>1. data' = [data EXCEPT ![Here] = x] /\ expected' = [expected EXCEPT ![op.addr] = x]
      BY <1>16, <2>2 DEF OpWrite
    <3> HIDE DEF x
    <3> QED
      BY <2>1, <3>1, ReadsUpdate DEF Here, TypeOK
  <2> QED
    BY <1>0, <1>16, <2>1, <2>3 DEF OpWrite, Torn, ramVars
<1> QED
  BY <1>1, <1>2, <1>3, <1>4, <1>5, <1>6, <1>7, <1>8, <1>9, <1>10, <1>11, <1>12, <1>13, <1>14,
     <1>15, <1>16
  DEF Next, Step, InitStep, MoveStep

(* What holds while at most one power failure and no error has happened.     *)
OnceInv == powerFails <= 1 /\ faults = 0 /\ (struck => ScanFits(2)) => SafeInv \/ Torn

(* Each step keeps that.                                                     *)
LEMMA OnceStep ==
  ASSUME TypeOK, IdInv, OnceInv, TypeOK', IdInv', [Next]_vars
  PROVE  OnceInv'
<1> SUFFICES ASSUME powerFails' <= 1, faults' = 0, struck' => ScanFits(2) PROVE SafeInv' \/ Torn'
  BY DEF OnceInv, ScanFits
<1>1. powerFails \in Nat /\ faults \in Nat
  BY BoundAssumption DEF TypeOK
<1>2. \/ powerFails' = powerFails /\ faults' = faults /\ ~PowerFail /\ ~Fault /\ ~MountUnreadable
      \/ PowerFail /\ powerFails' = powerFails + 1 /\ faults' = faults
      \/ faults' = faults + 1
  <2>1. CASE UNCHANGED vars
    BY <1>1, <2>1 DEF vars, PowerFail, Fault, MountUnreadable
  <2>2. CASE PowerFail \/ Fault \/ MountUnreadable
    BY <2>2 DEF PowerFail, Fault, MountUnreadable
  <2>3. CASE Next /\ ~(PowerFail \/ Fault \/ MountUnreadable)
    BY <2>3 DEF Next, Step, InitStep, MoveStep, Mount, SyncErase, SyncHeader, SyncRecord, SyncDone,
      Format, MoveErase, MoveCopy, MoveRecord1, MoveRecord2, Wrap, OpErase, OpWrite, EraseRange,
      WriteRange, Unmount
  <2> QED
    BY <2>1, <2>2, <2>3
<1>3. faults = 0 /\ faults' = faults /\ powerFails <= 1 /\ ~Fault /\ ~MountUnreadable
      /\ (struck => ScanFits(2))
  <2>1. struck => struck'
    BY DEF Next, Step, InitStep, MoveStep, Mount, SyncErase, SyncHeader, SyncRecord, SyncDone,
      Format, MoveErase, MoveCopy, MoveRecord1, MoveRecord2, Wrap, OpErase, OpWrite, EraseRange,
      WriteRange, Unmount, PowerFail, Fault, MountUnreadable, vars
  <2> QED
    BY <1>1, <1>2, <2>1 DEF Fault, MountUnreadable
<1>4. CASE SafeInv /\ OutsideWindows
  BY <1>4, SafeStep
<1>5. CASE SafeInv /\ ~OutsideWindows
  <2>1. PowerFail /\ pc \in {"wrap_erase1", "wrap_header1"}
    BY <1>3, <1>5 DEF OutsideWindows
  <2>2. powerFails' = 1
    BY <1>1, <2>1 DEF PowerFail
  <2> QED
    BY <1>5, <2>1, <2>2, TornStart
<1>6. CASE Torn
  <2>1. powerFails' = powerFails
    BY <1>1, <1>2, <1>3, <1>6 DEF Torn
  <2>2. CASE Next
    BY <1>3, <1>6, <2>1, <2>2, TornStep DEF Torn
  <2>3. CASE UNCHANGED vars
    BY <1>6, <2>3 DEF vars, Torn, RamHeader
  <2> QED
    BY <2>2, <2>3
<1> QED
  BY <1>3, <1>4, <1>5, <1>6 DEF OnceInv

(* For every size of the partition, a single loss of power leaves every page *)
(* readable, whenever it comes: while sector 1 is replaced after a full turn *)
(* too, if init() can copy the records of sector 2.                          *)
THEOREM AlwaysReadsBackOnce == Spec => []ReadBackOnce
<1>1. Init => OnceInv
  BY SafeInit DEF OnceInv
<1>2. TypeOK /\ IdInv /\ OnceInv /\ (TypeOK /\ IdInv)' /\ [Next]_vars => OnceInv'
  BY OnceStep
<1>3. TypeOK /\ IdInv /\ OnceInv => ReadBackOnce
  <2> SUFFICES ASSUME TypeOK, IdInv, OnceInv, powerFails <= 1, faults = 0, struck => ScanFits(2) PROVE ReadBack
    BY DEF ReadBackOnce
  <2>1. CASE SafeInv
    BY <2>1, SafeReadBack
  <2>2. CASE Torn
    BY <2>2 DEF Torn, ReadBack, Reads, MountedPcs
  <2> QED
    BY <2>1, <2>2 DEF OnceInv
<1> QED
  BY <1>1, <1>2, <1>3, TypeInvariant, PTL DEF Spec
===============================================================================
