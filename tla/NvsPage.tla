------------------------------- MODULE NvsPage -------------------------------
(***************************************************************************)
(* The pages of non-volatile storage (components/nvs_flash/src/nvs_page.cpp  *)
(* and nvs_item_hash_list.cpp), as operators on a drive d: the flash pages,  *)
(* what the Page objects hold in RAM, the page lists of the PageManager, and *)
(* the flash operations carried out so far, in order.                        *)
(*                                                                           *)
(* Of an entry only its meaning is kept.  IsItem says that its checksum      *)
(* holds; data entries know the value they are a part of.  Old blobs without *)
(* index, decayed flash and failing flash operations are left out.           *)
(***************************************************************************)
EXTENDS Integers, Sequences, FiniteSets, SequencesExt

CONSTANTS
  ENTRY_COUNT,      \* entries in a page
  ENTRY_SIZE,       \* units of data in an entry
  ITEMS_PER_WORD,   \* entry states in a word of the entry state table
  PageCount         \* pages of the partition

ASSUME PageAssumption ==
  /\ {ENTRY_COUNT, ENTRY_SIZE, ITEMS_PER_WORD, PageCount} \subseteq Nat \ {0}
  /\ ENTRY_COUNT < 255

Pages == 0 .. PageCount - 1
Entries == 0 .. ENTRY_COUNT - 1
INVALID_ENTRY == 255
CHUNK_MAX_SIZE == ENTRY_SIZE * (ENTRY_COUNT - 1)
CHUNK_ANY == 255
VER_0_OFFSET == 0
VER_1_OFFSET == 128
VER_ANY == 255

ItemTypes == {"U", "SZ", "BLOB_DATA", "BLOB_IDX"}   \* U stands for the integers
isVariableLengthType(t) == t \in {"SZ", "BLOB_DATA"}

(* An entry.  For an index, size is the number of chunks and start the       *)
(* version; of a data entry, span is its place in the value.                 *)
Cell(type, key, chunk, span, size, val, start) ==
  [type |-> type, key |-> key, chunk |-> chunk, span |-> span, size |-> size,
   val |-> val, start |-> start]
Other(type) == Cell(type, "", 0, 0, 0, 0, 0)
Blank == Other("BLANK")
Torn == Other("TORN")
IsItem(c) == c.type \in ItemTypes

(* Values from AllOnes on are made of bytes 0xff.                            *)
AllOnes == 2
LooksBlank(c) == c.type = "BLANK" \/ (c.type = "DATA" /\ c.val >= AllOnes)

BlankPage == [state |-> "UNINITIALIZED", seq |-> 0,
              table |-> [e \in Entries |-> "EMPTY"], cell |-> [e \in Entries |-> Blank]]

(* A Page object; state and entry table are those of the flash page.         *)
NewPage == [seq |-> 0, next |-> INVALID_ENTRY, first |-> INVALID_ENTRY, used |-> 0, hash |-> <<>>]

Lesser(m, n) == IF m < n THEN m ELSE n

-------------------------------------------------------------------------------
(* Flash operations.                                                         *)

Program(old, new) == IF LooksBlank(old) THEN new ELSE Torn

ProgramCells(cell, at, cells) ==
  [e \in Entries |-> IF e \in at .. at + Len(cells) - 1
                     THEN Program(cell[e], cells[e - at + 1]) ELSE cell[e]]

Op(kind, p, at, to, what) == [kind |-> kind, page |-> p, at |-> at, to |-> to, what |-> what]

ApplyPage(f, op) ==
  CASE op.kind = "header" -> [f EXCEPT !.state = "ACTIVE", !.seq = op.at]
    [] op.kind = "state"  -> [f EXCEPT !.state = op.what]
    [] op.kind = "cells"  -> [f EXCEPT !.cell = ProgramCells(@, op.at, op.what)]
    [] op.kind = "table"  -> [f EXCEPT !.table =
                                [e \in Entries |-> IF e \in op.at .. op.to THEN op.what ELSE @[e]]]
    [] op.kind = "erase"  -> BlankPage

Apply(flash, op) == [flash EXCEPT ![op.page] = ApplyPage(@, op)]

(* What a loss of power during an operation may leave.  Words are written    *)
(* whole, a header and an erase leave a page that does not load.             *)
TornPages(f, op) ==
  CASE op.kind \in {"header", "erase"} -> {[BlankPage EXCEPT !.state = "CORRUPT"]}
    [] op.kind = "cells" ->
         {[f EXCEPT !.cell = ProgramCells(@, op.at, SubSeq(op.what, 1, n - 1) \o <<last>>)] :
            n \in 1 .. Len(op.what), last \in {Blank, Torn}}
    [] OTHER -> {}

Do(d, op) == [d EXCEPT !.flash = Apply(@, op), !.ops = Append(@, op)]

-------------------------------------------------------------------------------
(* The hash list of a page.                                                  *)

(* calculateCrc32WithoutValue: of namespace, key and chunk, not of the type. *)
Hash(d, key, chunk) == <<d.hash[key], chunk>>

HashInsert(d, p, item, at) ==
  [d EXCEPT !.ram[p].hash = Append(@, [hash |-> Hash(d, item.key, item.chunk), at |-> at])]

HashErase(hash, at) == SelectSeq(hash, LAMBDA h : h.at # at)

HashFind(d, p, start, key, chunk) ==
  LET found == SelectSeq(d.ram[p].hash, LAMBDA h : h.at >= start /\ h.hash = Hash(d, key, chunk))
  IN  IF found = <<>> THEN INVALID_ENTRY ELSE found[1].at

-------------------------------------------------------------------------------
(* The entry state table.                                                    *)

getWordIndex(e) == e \div ITEMS_PER_WORD

(* alterEntryRangeState: entries b .. e - 1, word by word from the last.     *)
alterEntryRangeState(d, p, b, e, state) ==
  LET hi == getWordIndex(e - 1)
      Word(w) == Op("table", p, IF w * ITEMS_PER_WORD > b THEN w * ITEMS_PER_WORD ELSE b,
                    Lesser((w + 1) * ITEMS_PER_WORD, e) - 1, state)
      words == [n \in 1 .. hi - getWordIndex(b) + 1 |-> Word(hi - n + 1)]
  IN  FoldLeft(Do, d, words)

alterEntryState(d, p, e, state) == Do(d, Op("table", p, e, e, state))

Written(d, p, e) == d.flash[p].table[e] = "WRITTEN"

(* updateFirstUsedEntry                                                      *)
FirstWritten(d, p, from, end) ==
  LET found == {e \in from .. Lesser(end, ENTRY_COUNT) - 1 : Written(d, p, e)}
  IN  IF found = {} THEN INVALID_ENTRY ELSE CHOOSE e \in found : \A g \in found : e <= g

EraseSpan(d, p, index, span) ==
  LET freed == {e \in index .. index + span - 1 : Written(d, p, e)}
      Forget1(x) ==
        [x EXCEPT !.ram[p] =
           [@ EXCEPT !.hash = HashErase(@, index), !.used = @ - Cardinality(freed),
                     !.first = IF index = @ THEN FirstWritten(x, p, index + span, d.ram[p].next)
                               ELSE @,
                     !.next = IF index + span > @ THEN index + span ELSE @]]
  IN  Forget1(alterEntryRangeState(d, p, index, index + span, "ERASED"))

eraseEntryAndSpan(d, p, index) ==
  EraseSpan(d, p, index, IF Written(d, p, index) /\ IsItem(d.flash[p].cell[index])
                         THEN d.flash[p].cell[index].span ELSE 1)

-------------------------------------------------------------------------------
(* Looking for an item.                                                      *)

(* The first item from `start' on that satisfies Match, as findItem walks.   *)
Walk(d, p, start, end, Match(_)) ==
  LET f == d.flash[p]
      walk[e \in 0 .. 2 * ENTRY_COUNT] ==
        IF e >= end THEN INVALID_ENTRY
        ELSE IF f.table[e] # "WRITTEN" \/ ~IsItem(f.cell[e]) THEN walk[e + 1]
        ELSE IF Match(f.cell[e]) THEN e
        ELSE walk[e + IF isVariableLengthType(f.cell[e].type) THEN f.cell[e].span ELSE 1]
  IN  IF start > ENTRY_COUNT THEN INVALID_ENTRY ELSE walk[start]

Readable(d, p) == d.flash[p].state \in {"ACTIVE", "FULL", "FREEING"}

Matches(c, type, key, chunk, start) ==
  /\ c.key = key
  /\ type = "BLOB_DATA" => chunk \in {CHUNK_ANY, c.chunk}
  /\ type = "BLOB_IDX" => c.chunk = CHUNK_ANY /\ start \in {VER_ANY, c.start}

(* findItem with a key: the entry, or INVALID_ENTRY if there is none or the  *)
(* first one is of another type.                                             *)
findItem(d, p, type, key, chunk, start) ==
  LET OfType(e) == IF e = INVALID_ENTRY \/ type \in {"ANY", d.flash[p].cell[e].type} THEN e
                   ELSE INVALID_ENTRY
      From(e) == Walk(d, p, e, Lesser(d.ram[p].next, ENTRY_COUNT),
                      LAMBDA c : Matches(c, type, key, chunk, start))
  IN  IF ~Readable(d, p) THEN INVALID_ENTRY
      ELSE OfType(From(IF type = "ANY" THEN d.ram[p].first
                       ELSE HashFind(d, p, d.ram[p].first, key, chunk)))

(* All items of a page, by their first entries, as repeated calls of         *)
(* findItem with NS_ANY find them.                                           *)
ItemsOf(d, p) ==
  LET end == Lesser(d.ram[p].next, ENTRY_COUNT)
      from[e \in 0 .. 2 * ENTRY_COUNT] ==
        LET g == Walk(d, p, e, end, LAMBDA c : TRUE)
        IN  IF g = INVALID_ENTRY THEN <<>> ELSE <<g>> \o from[g + d.flash[p].cell[g].span]
  IN  IF Readable(d, p) /\ d.ram[p].first # INVALID_ENTRY THEN from[d.ram[p].first] ELSE <<>>

(* eraseItem, if it is there.                                                *)
eraseItem(d, p, type, key, chunk, start) ==
  LET EraseAt(e) == IF e = INVALID_ENTRY THEN d ELSE eraseEntryAndSpan(d, p, e)
  IN  EraseAt(findItem(d, p, type, key, chunk, start))

-------------------------------------------------------------------------------
(* Writing.                                                                  *)

initialize(d, p) ==
  [Do(d, Op("header", p, d.ram[p].seq, 0, "")) EXCEPT !.ram[p].next = 0]

(* writeEntry and writeEntryData: the entries, then their states.            *)
WriteCells(d, p, cells) ==
  LET at == d.ram[p].next
      d1 == alterEntryRangeState(Do(d, Op("cells", p, at, 0, cells)), p, at, at + Len(cells),
                                 "WRITTEN")
  IN  [d1 EXCEPT !.ram[p] =
         [@ EXCEPT !.first = IF @ = INVALID_ENTRY THEN at ELSE @,
                   !.used = @ + Len(cells), !.next = @ + Len(cells)]]

(* The entries that n units of data from `from' on take up.                  *)
DataCells(item, from, n) ==
  [k \in 1 .. (n + ENTRY_SIZE - 1) \div ENTRY_SIZE |->
     Cell("DATA", item.key, item.chunk, from + k, 0, item.val, item.start)]

EntriesOf(n) == (n + ENTRY_SIZE - 1) \div ENTRY_SIZE

(* writeItem: an item with n units of data; whole entries of data are        *)
(* written together, the rest after them.                                    *)
WriteItem(d, p, item, n) ==
  LET whole == n \div ENTRY_SIZE
      Head1(x) == WriteCells(HashInsert(x, p, item, x.ram[p].next), p, <<item>>)
      Whole(x) == IF whole > 0 THEN WriteCells(x, p, DataCells(item, 0, whole * ENTRY_SIZE)) ELSE x
      Rest(x) == IF n % ENTRY_SIZE > 0 THEN WriteCells(x, p, DataCells(item, whole, n % ENTRY_SIZE))
                 ELSE x
  IN  IF isVariableLengthType(item.type) THEN Rest(Whole(Head1(d))) ELSE Head1(d)

writeItem(d, p, type, key, chunk, n, val, start) ==
  LET span == IF isVariableLengthType(type) THEN 1 + EntriesOf(n) ELSE 1
      Write(x) == IF x.flash[p].state = "FULL" \/ x.ram[p].next + span > ENTRY_COUNT
                  THEN [rc |-> "PAGE_FULL", d |-> x]
                  ELSE [rc |-> "OK", d |-> WriteItem(x, p, Cell(type, key, chunk, span, n, val, start), n)]
  IN  Write(IF d.flash[p].state = "UNINITIALIZED" THEN initialize(d, p) ELSE d)

(* Whether the data that follow an item in entry e are its own.              *)
DataIntact(d, p, e) ==
  LET c == d.flash[p].cell[e]
  IN  \A k \in 1 .. c.span - 1 :
        LET data == d.flash[p].cell[e + k]
        IN  data.type = "DATA" /\ data.key = c.key /\ data.chunk = c.chunk /\ data.val = c.val
            /\ data.span = k

(* copyItems, entry by entry, into page q.                                   *)
copyItems(d, p, q) ==
  LET f == d.flash[p]
      CopyItem(x, e) ==
        FoldLeft(LAMBDA y, k : WriteCells(y, q, <<f.cell[k]>>),
                 HashInsert(x, q, f.cell[e], x.ram[q].next),
                 [k \in 1 .. f.cell[e].span |-> e + k - 1])
  IN  IF d.ram[p].first = INVALID_ENTRY THEN d
      ELSE FoldLeft(CopyItem,
                    IF d.flash[q].state = "UNINITIALIZED" THEN initialize(d, q) ELSE d,
                    ItemsOf([d EXCEPT !.ram[p].next = INVALID_ENTRY], p))

erase(d, p) ==
  [Do(d, Op("erase", p, 0, 0, "")) EXCEPT !.ram[p] = [NewPage EXCEPT !.seq = @]]

alterPageState(d, p, state) == Do(d, Op("state", p, 0, 0, state))

getVarDataTailroom(d, p) ==
  CASE d.flash[p].state = "UNINITIALIZED" -> CHUNK_MAX_SIZE
    [] d.flash[p].state = "FULL" -> 0
    [] OTHER -> IF d.ram[p].next < ENTRY_COUNT - 1
                THEN (ENTRY_COUNT - d.ram[p].next - 1) * ENTRY_SIZE ELSE 0
===============================================================================
