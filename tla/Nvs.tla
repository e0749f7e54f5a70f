--------------------------------- MODULE Nvs ---------------------------------
(***************************************************************************)
(* Non-volatile storage: the PageManager and the Storage of a partition      *)
(* (components/nvs_flash/src/nvs_pagemanager.cpp, nvs_storage.cpp) on the    *)
(* pages of NvsPage, and a device that mounts the partition, sets, erases    *)
(* and loses its power in between.                                           *)
(*                                                                           *)
(* A call runs to its end, and flash and RAM are then what its operations    *)
(* leave; or the power goes at any of its flash operations, which may be     *)
(* carried out in part, and RAM is gone.  Of sequence numbers only the order *)
(* is kept, and of erased entries nothing.                                   *)
(***************************************************************************)
EXTENDS NvsPage, FiniteSetsExt

CONSTANTS
  Keys,       \* namespace and key
  SmallTail,  \* CHUNK_MAX_SIZE / 10: less room is no start for a blob
  Configs     \* what the device stores:
              \*   type: of each key, U, SZ or BLOB;  size: of each value, in units;
              \*   values: those each key is given;
              \*   ns: the keys of the namespace that may be erased as a whole;
              \*   hash: the hash of each key;  maxCuts: bound on cuts

Values == 1 .. AllOnes
None == 0           \* the key is not there
Damaged == -1       \* reading it fails with ESP_FAIL

ASSUME NvsAssumption ==
  /\ PageCount >= 3 /\ SmallTail \in Nat
  /\ \A c \in Configs :
       /\ c.type \in [Keys -> {"U", "SZ", "BLOB"}] /\ c.size \in [Values -> Nat \ {0}]
       /\ c.values \in [Keys -> SUBSET Values]
       /\ c.ns \subseteq Keys /\ DOMAIN c.hash = Keys /\ c.maxCuts \in Nat

VARIABLES
  config,     \* one of Configs
  mode,       \* off, on, or failed to mount
  flash,      \* the pages
  nvs,        \* mPages, mPageList, mFreePageList and mSeqNumber while on
  store,      \* for each key, the values that may be read
  refused,    \* the keys of blobs of which a set was refused
  cuts        \* calls that a loss of power cut short

vars == <<config, mode, flash, nvs, store, refused, cuts>>

-------------------------------------------------------------------------------
(* Loading a page: Page::load and mLoadEntryTable.                           *)

LoadCounts(d, p) ==
  LET written == {e \in Entries : Written(d, p, e)}
  IN  [d EXCEPT !.ram[p] =
         [NewPage EXCEPT !.seq = d.flash[p].seq, !.used = Cardinality(written),
                         !.first = FirstWritten(d, p, 0, ENTRY_COUNT)]]

(* The first empty entry; entries that were written after it was are erased. *)
LoadNextFree(d, p) ==
  LET f     == d.flash[p]
      empty == {e \in Entries : f.table[e] = "EMPTY"}
      next  == Min(empty)
      blank == {e \in next .. ENTRY_COUNT - 1 : LooksBlank(f.cell[e])}
      end   == IF blank = {} THEN ENTRY_COUNT ELSE Min(blank)
      Spoil(x, e) == [alterEntryState(x, p, e, "ERASED") EXCEPT
                        !.ram[p].used = IF Written(x, p, e) THEN @ - 1 ELSE @]
  IN  IF empty = {} THEN d
      ELSE [FoldLeft(Spoil, d, [n \in 1 .. end - next |-> next + n - 1]) EXCEPT !.ram[p].next = end]

AllWritten(d, p, e) == \A g \in e .. e + d.flash[p].cell[e].span - 1 : Written(d, p, g)

(* One entry of an active page; s is the drive, the entry of the next item   *)
(* and the last item that is whole.                                          *)
LoadActiveItem(d, p, e, c, double) ==
  IF isVariableLengthType(c.type) /\ ~AllWritten(d, p, e)
  THEN [d |-> eraseEntryAndSpan(d, p, e), at |-> e + c.span, last |-> INVALID_ENTRY]
  ELSE [d |-> IF double < e THEN eraseEntryAndSpan(d, p, double) ELSE d,
        at |-> e + IF isVariableLengthType(c.type) THEN c.span ELSE 1, last |-> e]

LoadActiveEntry(s, p, e) ==
  LET c  == s.d.flash[p].cell[e]
      d1 == HashInsert(s.d, p, c, e)
  IN  IF ~Written(s.d, p, e) THEN [s EXCEPT !.at = e + 1, !.last = INVALID_ENTRY]
      ELSE IF ~IsItem(c) THEN [d |-> eraseEntryAndSpan(s.d, p, e), at |-> e + 1, last |-> e]
      ELSE LoadActiveItem(d1, p, e, c, HashFind(d1, p, 0, c.key, c.chunk))

(* The last item is compared once more with the ones before it.              *)
LoadLastItem(d, p, last) ==
  LET c      == d.flash[p].cell[last]
      double == findItem(d, p, c.type, c.key, CHUNK_ANY, VER_ANY)
  IN  IF last # INVALID_ENTRY /\ IsItem(c) /\ double < last THEN eraseEntryAndSpan(d, p, double)
      ELSE d

LoadFullEntry(s, p, e) ==
  LET c  == s.d.flash[p].cell[e]
      d1 == HashInsert(s.d, p, c, e)
  IN  IF ~Written(s.d, p, e) THEN [s EXCEPT !.at = e + 1]
      ELSE IF ~IsItem(c) THEN [s EXCEPT !.d = eraseEntryAndSpan(@, p, e), !.at = e + 1]
      ELSE [s EXCEPT !.d = IF isVariableLengthType(c.type) /\ ~AllWritten(d1, p, e)
                           THEN eraseEntryAndSpan(d1, p, e) ELSE d1,
                     !.at = e + c.span]

LoadEntries(d, p, from, end, Load(_, _, _)) ==
  FoldLeft(LAMBDA s, e : IF e = s.at THEN Load(s, p, e) ELSE s,
           [d |-> d, at |-> from, last |-> INVALID_ENTRY],
           [n \in 1 .. Lesser(end, ENTRY_COUNT) |-> n - 1])

LoadActivePage(d, p) ==
  LET Rest(s) == LoadLastItem(s.d, p, s.last)
  IN  Rest(LoadEntries(d, p, 0, d.ram[p].next, LoadActiveEntry))

LoadPage(d, p) ==
  CASE d.flash[p].state = "ACTIVE" -> LoadActivePage(LoadNextFree(LoadCounts(d, p), p), p)
    [] d.flash[p].state \in {"FULL", "FREEING"} ->
         LoadEntries(LoadCounts(d, p), p, FirstWritten(d, p, 0, ENTRY_COUNT), ENTRY_COUNT,
                     LoadFullEntry).d
    [] OTHER -> [d EXCEPT !.ram[p] = NewPage]

-------------------------------------------------------------------------------
(* The PageManager.                                                          *)

Back(d) == Last(d.list)

Remove1(seq, p) == SelectSeq(seq, LAMBDA q : q # p)

activatePage(d) ==
  LET p  == Head(d.free)
      d1 == IF d.flash[p].state = "CORRUPT" THEN erase(d, p) ELSE d
  IN  IF d.free = <<>> THEN [rc |-> "NOT_ENOUGH_SPACE", d |-> d]
      ELSE [rc |-> "OK",
            d |-> [d1 EXCEPT !.free = Tail(@), !.list = Append(@, p), !.ram[p].seq = d.seq,
                             !.seq = @ + 1]]

(* Mutant: the page is erased before its items are copied.                   *)
MoveItemsEraseFirst(d, p) ==
  LET q  == Back(d)
      d1 == copyItems(d, p, q)
      n  == Len(d.ops)
      e  == Op("erase", p, 0, 0, "")
      d2 == [erase(d1, p) EXCEPT !.ops = SubSeq(d1.ops, 1, n) \o <<e>> \o SubSeq(d1.ops, n + 1, Len(d1.ops))]
  IN  [d2 EXCEPT !.list = Remove1(@, p), !.free = Append(@, p)]

(* Page p gives its items to the newest page and becomes free.               *)
MoveItems(d, p) ==
  LET d1 == erase(copyItems(d, p, Back(d)), p)
  IN  [d1 EXCEPT !.list = Remove1(@, p), !.free = Append(@, p)]

(* Mutant: the last free page is used up.                                    *)
requestNewPageLast(d) ==
  IF d.free = <<>> THEN [rc |-> "INVALID_STATE", d |-> d] ELSE activatePage(d)

Unused(d, i) == ENTRY_COUNT - d.ram[d.list[i]].used

(* The first of the pages with most unused entries.                          *)
MostUnused(d) ==
  CHOOSE i \in DOMAIN d.list : \A k \in DOMAIN d.list :
    Unused(d, i) > Unused(d, k) \/ (Unused(d, i) = Unused(d, k) /\ i <= k)

FreePage(d, p) == MoveItems(alterPageState(activatePage(d).d, p, "FREEING"), p)

(* Mutant: only the oldest page is looked at.                                *)
requestNewPageOldest(d) ==
  CASE d.free = <<>> -> [rc |-> "INVALID_STATE", d |-> d]
    [] Len(d.free) >= 2 -> activatePage(d)
    [] Len(d.free) = 1 /\ Unused(d, 1) = 0 -> [rc |-> "NOT_ENOUGH_SPACE", d |-> d]
    [] OTHER -> [rc |-> "OK", d |-> FreePage(d, Head(d.list))]

requestNewPage(d) ==
  LET i == MostUnused(d)
  IN  CASE d.free = <<>> -> [rc |-> "INVALID_STATE", d |-> d]
        [] Len(d.free) >= 2 -> activatePage(d)
        [] Len(d.free) = 1 /\ Unused(d, i) = 0 -> [rc |-> "NOT_ENOUGH_SPACE", d |-> d]
        [] OTHER -> [rc |-> "OK", d |-> FreePage(d, d.list[i])]

(* Mutant: the older item stays.                                             *)
EraseDoubleNot(d) == d

(* The last item of the last page replaces one of an earlier page, when the  *)
(* power went between the two.                                               *)
EraseDoubleOf(d, c) ==
  LET at == {i \in 1 .. Len(d.list) - 1 :
               /\ d.flash[d.list[i]].state # "FREEING"
               /\ findItem(d, d.list[i], c.type, c.key, c.chunk, VER_ANY) # INVALID_ENTRY}
      EraseIn(x) == IF x = {} THEN d ELSE eraseItem(d, d.list[Min(x)], c.type, c.key, c.chunk, VER_ANY)
  IN  EraseIn(at)

EraseDouble(d) ==
  LET EraseOld(items) == IF items = <<>> THEN d
                         ELSE EraseDoubleOf(d, d.flash[Back(d)].cell[Last(items)])
  IN  EraseOld(ItemsOf(d, Back(d)))

(* Mutant: the page stays as it is.                                          *)
FinishFreeingNot(d) == [rc |-> "OK", d |-> d]

(* The newest page, if it is active, holds part of a page being freed.       *)
EraseActive(d, q) ==
  IF d.flash[q].state = "ACTIVE"
  THEN [erase(d, q) EXCEPT !.list = Remove1(@, q), !.free = Append(@, q)] ELSE d

(* A page that was being freed is freed again, from the start.               *)
FinishFreeing(d) ==
  LET freeing == {p \in ToSet(d.list) : d.flash[p].state = "FREEING"}
      first == Min({i \in DOMAIN d.list : d.list[i] \in freeing})
      Freed(r) == IF r.rc # "OK" THEN r ELSE [r EXCEPT !.d = MoveItems(@, d.list[first])]
  IN  IF freeing = {} THEN [rc |-> "OK", d |-> d]
      ELSE Freed(activatePage(EraseActive(d, Back(d))))

(* load: the pages by their sequence numbers, then the repairs.              *)
ListPages(d, used) ==
  LET list == SetToSortSeq(used, LAMBDA p, q : d.flash[p].seq < d.flash[q].seq)
  IN  [d EXCEPT !.list = list, !.free = SetToSortSeq(Pages \ used, LAMBDA p, q : p < q),
                !.seq = IF used = {} THEN 0 ELSE d.flash[Last(list)].seq + 1]

LoadPages(d) ==
  LET Loaded(x) == ListPages(x, {p \in Pages : Readable(x, p)})
      NeedsFree(r) == IF r.rc = "OK" /\ r.d.free = <<>> THEN [r EXCEPT !.rc = "NO_FREE_PAGES"]
                      ELSE r
      Repaired(x) == IF x.list = <<>> THEN activatePage(x)
                     ELSE NeedsFree(FinishFreeing(EraseDouble(x)))
  IN  Repaired(Loaded(FoldLeft(LoadPage, d, [n \in 1 .. PageCount |-> n - 1])))

-------------------------------------------------------------------------------
(* The Storage.                                                              *)

(* findItem: the first page of the list that has the item, or none.          *)
PageOf(d, type, key, chunk, start) ==
  LET at == {i \in DOMAIN d.list : findItem(d, d.list[i], type, key, chunk, start) # INVALID_ENTRY}
  IN  IF at = {} THEN {} ELSE {d.list[Min(at)]}

ItemAt(d, p, type, key, chunk, start) == d.flash[p].cell[findItem(d, p, type, key, chunk, start)]

BlobIndices(d) ==
  UNION {{d.flash[p].cell[e] : e \in ToSet(ItemsOf(d, p))} : p \in ToSet(d.list)}

(* Mutant: the number of chunks is not looked at, nor their version.         *)
IsOrphanOfKey(c, indices) ==
  c.type = "BLOB_DATA" /\ ~\E x \in indices : x.type = "BLOB_IDX" /\ x.key = c.key

IsOrphan(c, indices) ==
  /\ c.type = "BLOB_DATA"
  /\ ~\E x \in indices : x.type = "BLOB_IDX" /\ x.key = c.key /\ c.chunk \in x.start .. x.start + x.size - 1

eraseOrphanDataBlobs(d) ==
  LET EraseIfOrphan(x, p, c, indices) ==
        IF IsOrphan(c, indices) THEN eraseItem(x, p, c.type, c.key, c.chunk, VER_ANY) ELSE x
      EraseIn(x, p, indices) ==
        FoldLeft(LAMBDA y, e : EraseIfOrphan(y, p, d.flash[p].cell[e], indices), x, ItemsOf(d, p))
      EraseAllBut(indices) == FoldLeft(LAMBDA x, p : EraseIn(x, p, indices), d, d.list)
  IN  EraseAllBut(BlobIndices(d))

(* init                                                                      *)
init(d) ==
  LET Cleaned(r) == IF r.rc = "OK" THEN [r EXCEPT !.d = eraseOrphanDataBlobs(@)] ELSE r
  IN  Cleaned(LoadPages(d))

(* readItem: what a get returns.                                             *)
DataAt(d, p, e) == IF DataIntact(d, p, e) THEN {d.flash[p].cell[e].val} ELSE {}

Chunk(d, key, c) ==
  UNION {DataAt(d, p, findItem(d, p, "BLOB_DATA", key, c, VER_ANY)) :
           p \in PageOf(d, "BLOB_DATA", key, c, VER_ANY)}

readMultiPageBlob(d, key, x) ==
  LET Value(read) == IF Cardinality(read) = 1 /\ {} \notin read THEN CHOOSE v \in UNION read : TRUE
                     ELSE Damaged
  IN  Value({Chunk(d, key, x.start + n) : n \in 0 .. x.size - 1})

One(S) == CHOOSE x \in S : TRUE

readItem(d, key) ==
  LET OrNone(S) == IF S = {} THEN None ELSE One(S)
      Get(t, p) == IF t = "BLOB_IDX"
                   THEN readMultiPageBlob(d, key, ItemAt(d, p, t, key, CHUNK_ANY, VER_ANY))
                   ELSE OrNone(DataAt(d, p, findItem(d, p, t, key, CHUNK_ANY, VER_ANY)))
      From(t, at) == IF at = {} THEN None ELSE Get(t, One(at))
      As(t) == From(t, PageOf(d, t, key, CHUNK_ANY, VER_ANY))
  IN  As(IF d.type[key] = "BLOB" THEN "BLOB_IDX" ELSE d.type[key])

(* The index first, then the chunks.                                         *)
EraseChunk(d, key, c) ==
  LET EraseIn(at) == IF at = {} THEN d ELSE eraseItem(d, One(at), "BLOB_DATA", key, c, VER_ANY)
  IN  EraseIn(PageOf(d, "BLOB_DATA", key, c, VER_ANY))

eraseMultiPageBlob(d, key, start) ==
  LET Chunks(p, x) ==
        FoldLeft(LAMBDA y, c : EraseChunk(y, key, c),
                 eraseItem(d, p, "BLOB_IDX", key, CHUNK_ANY, start),
                 [n \in 1 .. x.size |-> x.start + n - 1])
      EraseIn(at) ==
        IF at = {} THEN [rc |-> "NOT_FOUND", d |-> d]
        ELSE [rc |-> "OK",
              d |-> Chunks(One(at), ItemAt(d, One(at), "BLOB_IDX", key, CHUNK_ANY, start))]
  IN  EraseIn(PageOf(d, "BLOB_IDX", key, CHUNK_ANY, start))

(* The page is marked full and another one asked for.                        *)
NextPage(d) ==
  requestNewPage(IF d.flash[Back(d)].state # "FULL" THEN alterPageState(d, Back(d), "FULL") ELSE d)

(* The chunks are taken back after a failure, by their numbers from 0 on.    *)
EraseChunks(d, key, used, start) ==
  FoldLeft(LAMBDA x, i : eraseItem(x, used[i], "BLOB_DATA", key, i - 1, VER_ANY),
           d, [i \in DOMAIN used |-> i])

(* The rest of a blob, `left' units of n; b is the key, the value and where  *)
(* the version starts, used the pages of the chunks so far.                  *)
RECURSIVE WriteChunks(_, _, _, _, _)
WriteChunks(d, b, n, left, used) ==
  LET Fail(r, u) == [r EXCEPT !.d = EraseChunks(@, b.key, u, b.start)]
      WriteIndex(x, u) ==
        writeItem(x, Back(x), "BLOB_IDX", b.key, CHUNK_ANY, Len(u), b.val, b.start)
      Continue(r, size, u) ==
        IF r.rc # "OK" THEN Fail(r, u)
        ELSE IF left > size THEN WriteChunks(r.d, b, n, left - size, u)
        ELSE WriteIndex(r.d, u)
      GoOn(x, room, size) == IF left > size \/ room - size < ENTRY_SIZE THEN NextPage(x)
                             ELSE [rc |-> "OK", d |-> x]
      WriteChunk(room, size) ==
        Continue(GoOn(writeItem(d, Back(d), "BLOB_DATA", b.key, b.start + Len(used), size, b.val, 0).d,
                      room, size),
                 size, Append(used, Back(d)))
      StartElsewhere(r, room) ==
        IF r.rc # "OK" THEN r
        ELSE IF getVarDataTailroom(r.d, Back(r.d)) = room THEN [r EXCEPT !.rc = "NOT_ENOUGH_SPACE"]
        ELSE WriteChunks(r.d, b, n, left, used)
      In(room) ==
        IF used = <<>> /\ room < n /\ room < SmallTail THEN StartElsewhere(NextPage(d), room)
        ELSE IF room = 0 THEN Fail([rc |-> "NOT_ENOUGH_SPACE", d |-> d], used)
        ELSE WriteChunk(room, Lesser(left, room))
  IN  In(getVarDataTailroom(d, Back(d)))

writeMultiPageBlob(d, key, n, val, start) ==
  IF n > (PageCount - 1) * CHUNK_MAX_SIZE THEN [rc |-> "VALUE_TOO_LONG", d |-> d]
  ELSE WriteChunks(d, [key |-> key, val |-> val, start |-> start], n, n, <<>>)

(* The new blob has the other version; the old one is erased last.           *)
writeBlob(d, key, n, val) ==
  LET EraseOld(r, prev) ==
        IF r.rc = "OK" /\ prev # {} THEN eraseMultiPageBlob(r.d, key, One(prev)) ELSE r
      Start(prev) == IF prev = {VER_0_OFFSET} THEN VER_1_OFFSET ELSE VER_0_OFFSET
      Replace(prev) == EraseOld(writeMultiPageBlob(d, key, n, val, Start(prev)), prev)
  IN  Replace({ItemAt(d, p, "BLOB_IDX", key, CHUNK_ANY, VER_ANY).start :
                 p \in PageOf(d, "BLOB_IDX", key, CHUNK_ANY, VER_ANY)})

(* An integer or a string; at is the page of the old one.  If it was freed   *)
(* meanwhile, the old one is looked for again.                               *)
writeScalar(d, t, key, n, val, at) ==
  LET Write(x) == writeItem(x, Back(x), t, key, CHUNK_ANY, n, val, 0)
      Retry(r) == IF r.rc = "OK" THEN Write(r.d) ELSE r
      OrNextPage(r) == IF r.rc = "PAGE_FULL" THEN Retry(NextPage(r.d)) ELSE r
      Where(x) == IF Readable(x, One(at)) THEN at ELSE PageOf(x, t, key, CHUNK_ANY, VER_ANY)
      EraseOld(r) == IF r.rc # "OK" \/ at = {} THEN r
                     ELSE [r EXCEPT !.d = eraseItem(@, One(Where(@)), t, key, CHUNK_ANY, VER_ANY)]
  IN  EraseOld(OrNextPage(Write(d)))

(* Storage::writeItem: nothing is written if the value is there already.     *)
setItem(d, key, n, val) ==
  IF readItem(d, key) = val THEN [rc |-> "OK", d |-> d]
  ELSE IF d.type[key] = "BLOB" THEN writeBlob(d, key, n, val)
  ELSE writeScalar(d, d.type[key], key, n, val, PageOf(d, d.type[key], key, CHUNK_ANY, VER_ANY))

(* Storage::eraseItem with ItemType::ANY                                     *)
eraseKey(d, key) ==
  LET EraseIn(p, type) ==
        IF type \in {"BLOB_DATA", "BLOB_IDX"} THEN eraseMultiPageBlob(d, key, VER_ANY)
        ELSE [rc |-> "OK", d |-> eraseItem(d, p, "ANY", key, CHUNK_ANY, VER_ANY)]
      From(at) == IF at = {} THEN [rc |-> "NOT_FOUND", d |-> d]
                  ELSE EraseIn(One(at), ItemAt(d, One(at), "ANY", key, CHUNK_ANY, VER_ANY).type)
  IN  From(PageOf(d, "ANY", key, CHUNK_ANY, VER_ANY))

(* eraseNamespace: item by item, in the order of the pages.                  *)
eraseNamespace(d, ns) ==
  LET EraseOf(x, p) ==
        FoldLeft(LAMBDA y, e : IF d.flash[p].cell[e].key \in ns THEN eraseEntryAndSpan(y, p, e) ELSE y,
                 x, ItemsOf(d, p))
  IN  [rc |-> "OK", d |-> FoldLeft(EraseOf, d, d.list)]

-------------------------------------------------------------------------------
(* The device.                                                               *)

NoRam == [ram |-> [p \in Pages |-> NewPage], list |-> <<>>, free |-> <<>>, seq |-> 0]

Drive == [flash |-> flash, ram |-> nvs.ram, list |-> nvs.list, free |-> nvs.free,
          seq |-> nvs.seq, ops |-> <<>>, hash |-> config.hash, type |-> config.type]

(* Sequence numbers by their order, erased entries without content.          *)
Forget(f, Rank(_)) ==
  [p \in Pages |->
     [f[p] EXCEPT !.seq = Rank(@),
                  !.cell = [e \in Entries |-> IF f[p].table[e] = "ERASED" THEN Torn ELSE @[e]]]]

SeqsOf(f) == {f[p].seq : p \in {q \in Pages : f[q].state \in {"ACTIVE", "FULL", "FREEING"}}}

Completes(r) ==
  LET seqs == SeqsOf(r.d.flash) \cup {r.d.ram[p].seq : p \in ToSet(r.d.list)}
      Rank(s) == Cardinality({t \in seqs : t < s})
  IN  /\ mode' = "on"
      /\ flash' = Forget(r.d.flash, Rank) /\ UNCHANGED cuts
      /\ nvs' = [ram |-> [p \in Pages |-> [r.d.ram[p] EXCEPT !.seq =
                                             IF p \in ToSet(r.d.list) THEN Rank(@) ELSE 0]],
                 list |-> r.d.list, free |-> r.d.free, seq |-> Cardinality(seqs)]

(* What the flash may hold when the power goes during the operations.        *)
CutOutcomes(ops) ==
  LET Cut(f, op) == {f} \cup {[f EXCEPT ![op.page] = t] : t \in TornPages(f[op.page], op)}
  IN  FoldLeft(LAMBDA s, op : [now |-> Apply(s.now, op), cut |-> s.cut \cup Cut(s.now, op)],
               [now |-> flash, cut |-> {}], ops).cut

PowerFails(r) ==
  /\ cuts < config.maxCuts /\ cuts' = cuts + 1
  /\ \E f \in CutOutcomes(r.d.ops) :
       flash' = Forget(f, LAMBDA s : Cardinality({t \in SeqsOf(f) : t < s}))
  /\ mode' = "off" /\ nvs' = NoRam

(* The stored value of the keys ks becomes v.                                *)
Becomes(ks, v) == store' = [k \in Keys |-> IF k \in ks THEN {v} ELSE store[k]]
MayBecome(k, v) == store' = [store EXCEPT ![k] = @ \cup {v}]

(* nvs_flash_init_partition                                                  *)
Mount ==
  LET Mounted(r) ==
        \/ IF r.rc = "OK"
           THEN /\ Completes(r)
                /\ store' = [k \in Keys |-> LET Known(v) == IF v \in store[k] THEN {v} ELSE store[k]
                                            IN  Known(readItem(r.d, k))]
           ELSE mode' = "failed" /\ UNCHANGED <<flash, nvs, store, cuts>>
        \/ PowerFails(r) /\ UNCHANGED store
  IN  mode = "off" /\ Mounted(init(Drive)) /\ UNCHANGED <<config, refused>>

(* nvs_set_*; a blob of which a set was refused is not set again.            *)
Set(k, v) ==
  LET IsSet(r) ==
        \/ /\ Completes(r)
           /\ IF r.rc = "OK" THEN Becomes({k}, v) ELSE UNCHANGED store
           /\ refused' = IF r.rc # "OK" /\ config.type[k] = "BLOB" THEN refused \cup {k} ELSE refused
        \/ /\ PowerFails(r) /\ MayBecome(k, v) /\ UNCHANGED refused
  IN  /\ mode = "on" /\ k \notin refused
      /\ IsSet(setItem(Drive, k, config.size[v], v))
      /\ UNCHANGED config

(* nvs_erase_key                                                             *)
Erase(k) ==
  LET IsErased(r) ==
        \/ Completes(r) /\ IF r.rc = "OK" THEN Becomes({k}, None) ELSE UNCHANGED store
        \/ PowerFails(r) /\ MayBecome(k, None)
  IN  mode = "on" /\ IsErased(eraseKey(Drive, k)) /\ UNCHANGED <<config, refused>>

(* nvs_erase_all; when it is interrupted, a blob may have lost chunks and    *)
(* kept its index.                                                           *)
EraseAll ==
  LET MayHave(k) == store[k] \cup {None} \cup IF config.type[k] = "BLOB" THEN {Damaged} ELSE {}
      IsErased(r) ==
        \/ Completes(r) /\ Becomes(config.ns, None)
        \/ /\ PowerFails(r)
           /\ store' = [k \in Keys |-> IF k \in config.ns THEN MayHave(k) ELSE store[k]]
  IN  mode = "on" /\ IsErased(eraseNamespace(Drive, config.ns)) /\ UNCHANGED <<config, refused>>

(* nvs_flash_deinit, or the power goes between two calls.                    *)
PowerOff ==
  /\ mode = "on" /\ mode' = "off" /\ nvs' = NoRam
  /\ UNCHANGED <<config, flash, store, refused, cuts>>

Init ==
  /\ config \in Configs /\ mode = "off" /\ nvs = NoRam
  /\ flash = [p \in Pages |-> BlankPage]
  /\ store = [k \in Keys |-> {None}] /\ refused = {} /\ cuts = 0

Next ==
  \/ Mount \/ EraseAll \/ PowerOff
  \/ \E k \in Keys : Erase(k) \/ \E v \in config.values[k] : Set(k, v)

Spec == Init /\ [][Next]_vars

-------------------------------------------------------------------------------
(* Properties.                                                               *)

TypeOK ==
  /\ config \in Configs /\ mode \in {"off", "on", "failed"}
  /\ store \in [Keys -> SUBSET (Values \cup {None, Damaged})] /\ refused \subseteq Keys
  /\ \A p \in Pages :
       /\ flash[p].state \in {"UNINITIALIZED", "ACTIVE", "FULL", "FREEING", "CORRUPT"}
       /\ nvs.ram[p].used \in 0 .. ENTRY_COUNT

(* Every value that was set is read, through all updates, moves of pages and *)
(* losses of power; a value being set is there or the one before it.         *)
ReadsBack ==
  mode = "on" => \A k \in Keys \ refused : readItem(Drive, k) \in store[k]

(* The same, of blobs whose last set was refused too.                        *)
RefusalHarmless ==
  mode = "on" => \A k \in Keys : readItem(Drive, k) \in store[k]

(* Storage::debugCheck: no item is there twice, and the count of used        *)
(* entries is right.                                                         *)
NoDuplicates ==
  mode = "on" =>
    LET at == {<<p, e>> \in Pages \X Entries : p \in ToSet(nvs.list) /\ e \in ToSet(ItemsOf(Drive, p))}
        Id(x) == LET c == flash[x[1]].cell[x[2]] IN <<c.type, c.key, c.chunk>>
    IN  /\ \A x, y \in at : Id(x) = Id(y) => x = y \/ Id(x)[2] \in refused
        /\ \A p \in ToSet(nvs.list) :
             nvs.ram[p].used = FoldLeft(LAMBDA n, e : n + flash[p].cell[e].span, 0, ItemsOf(Drive, p))

(* The partition can always be mounted.                                      *)
MountSucceeds == mode # "failed"

(* Between calls at most one page is active, it is the newest one, no page   *)
(* is being freed, and every page is either used or free (nvs_flash.rst:210, *)
(* 217).                                                                     *)
PagesSettled ==
  mode = "on" =>
    /\ ToSet(nvs.list) \cap ToSet(nvs.free) = {} /\ ToSet(nvs.list) \cup ToSet(nvs.free) = Pages
    /\ \A p \in Pages : flash[p].state # "FREEING" /\ (flash[p].state = "ACTIVE" => p = Last(nvs.list))
    /\ nvs.free # <<>>

(* After a mount every chunk of a blob belongs to an index: what a set or an *)
(* erase left when the power went does not use up entries for good.          *)
NoOrphans ==
  [][mode = "off" /\ mode' = "on" =>
       LET items == {flash'[x[1]].cell[x[2]] :
                       x \in {y \in Pages \X Entries : flash'[y[1]].table[y[2]] = "WRITTEN"}}
       IN  \A c \in {i \in items : i.type = "BLOB_DATA"} :
             \E x \in items : /\ x.type = "BLOB_IDX" /\ x.key = c.key
                               /\ c.chunk - x.start \in 0 .. x.size - 1]_vars

(* An integer is refused only when every entry outside the spare page is in  *)
(* use.                                                                      *)
RefusedOnlyWhenFull ==
  mode = "on" =>
    \A k \in {x \in Keys : config.type[x] = "U"} : \A v \in config.values[k] :
      writeScalar(Drive, "U", k, 1, v, {}).rc # "OK" =>
        Len(nvs.free) = 1 /\ \A p \in ToSet(nvs.list) : nvs.ram[p].used = ENTRY_COUNT
===============================================================================
