------------------------------ MODULE RingBufOps ------------------------------
(***************************************************************************)
(* The functions of components/esp_ringbuf/ringbuf.c that run inside the     *)
(* critical section, as operators on a buffer record b.  Pointers are        *)
(* offsets from pucHead.                                                     *)
(*                                                                           *)
(* mem is the storage area.  A cell is the first byte of an item header, a   *)
(* byte of an item (the item it belongs to, or the byte itself in a byte     *)
(* buffer), or Junk: never written, or given back, so that the buffer may    *)
(* overwrite it at any time.  The fields item and part of a header are not   *)
(* in the code: they name the item for the properties.                       *)
(***************************************************************************)
EXTENDS Integers, Sequences

CONSTANTS
  Kind,      \* "nosplit", "allowsplit" or "byte"
  Size,      \* xSize
  Header,    \* rbHEADER_SIZE
  Align,     \* rbALIGN_MASK + 1
  Items, Junk

ASSUME KindAssumption == Kind \in {"nosplit", "allowsplit", "byte"}
ASSUME SizeAssumption ==
  /\ Size \in Nat \ {0} /\ Header \in Nat \ {0} /\ Align \in Nat \ {0}
  /\ Header % Align = 0 /\ Size >= 2 * Header
  /\ Kind # "byte" => Size % Align = 0
ASSUME JunkAssumption == Junk \notin Items

Offsets == 0 .. Size - 1

AlignSize(n) == ((n + Align - 1) \div Align) * Align

MaxItemSize ==
  IF Kind = "nosplit" THEN AlignSize(Size \div 2) - Header
  ELSE IF Kind = "allowsplit" THEN Size - 2 * Header
  ELSE Size

NewHeader(n, i, k) ==
  [len |-> n, written |-> FALSE, freed |-> FALSE, dummy |-> FALSE, split |-> FALSE,
   item |-> i, part |-> k]
Dummy == [NewHeader(0, Junk, 0) EXCEPT !.dummy = TRUE]

(* prvInitializeNewRingbuffer                                                *)
NewRingbuffer ==
  [acquire |-> 0, write |-> 0, read |-> 0, free |-> 0,
   full |-> FALSE, waiting |-> 0, mem |-> [o \in Offsets |-> Junk]]

-------------------------------------------------------------------------------
HasHeader(b, p) == b.mem[p] \notin Items \cup {Junk}
HeaderAt(b, p)  == IF HasHeader(b, p) THEN b.mem[p] ELSE NewHeader(0, Junk, 0)

Fill(mem, from, n, v) == [o \in Offsets |-> IF o \in from .. from + n - 1 THEN v ELSE mem[o]]

PutHeader(mem, p, h) == [Fill(mem, p, Header, Junk) EXCEPT ![p] = h]

(* What is left before pucTail cannot hold a header: start again at pucHead. *)
WrapAround(p) == IF Size - p < Header THEN 0 ELSE p

PastItem(b, p) ==
  IF HeaderAt(b, p).dummy THEN 0
  ELSE WrapAround(p + Header + AlignSize(HeaderAt(b, p).len))

(* Mutant: dummy items are not passed over.                                  *)
PassedNotDummies(h, done) == done

Passed(h, done) == done \/ h.dummy

(* The loops that advance pucWrite and pucFree: from p over dummies and      *)
(* items marked Done, not past stop.                                         *)
SkipItems(b, from, stop, Done(_)) ==
  LET skip[n \in Nat] ==                     \* n bounds the walk
        [p \in Offsets |->
           IF n > 0 /\ p # stop /\ Passed(HeaderAt(b, p), Done(HeaderAt(b, p)))
           THEN skip[n - 1][PastItem(b, p)]
           ELSE p]
  IN  skip[Size][from]

(* prvGetFreeSize                                                            *)
GetFreeSize(b) ==
  IF b.full THEN 0
  ELSE IF b.free - b.acquire <= 0 THEN b.free - b.acquire + Size ELSE b.free - b.acquire

(* Mutant: acquire = free is always taken for an empty buffer.               *)
CheckItemFitsDefaultNotFull(b, n) ==
  LET total == AlignSize(n) + Header
  IN  IF b.acquire = b.free THEN TRUE
      ELSE IF b.free > b.acquire THEN total <= b.free - b.acquire
      ELSE total <= Size - b.acquire \/ total <= b.free

(* Mutant: the second header of a split item is not counted.                 *)
CheckItemFitsDefaultOneHeader(b, n) ==
  LET total == AlignSize(n) + Header
  IN  IF b.acquire = b.free THEN ~b.full
      ELSE IF b.free > b.acquire THEN total <= b.free - b.acquire
      ELSE total <= Size - (b.acquire - b.free)

(* prvCheckItemFitsDefault                                                   *)
CheckItemFitsDefault(b, n) ==
  LET total == AlignSize(n) + Header
  IN  IF b.acquire = b.free THEN ~b.full
      ELSE IF b.free > b.acquire THEN total <= b.free - b.acquire
      ELSE \/ total <= Size - b.acquire
           \/ /\ Kind = "allowsplit"
              /\ total + Header <= Size - (b.acquire - b.free)
           \/ Kind # "allowsplit" /\ total <= b.free

(* Mutant: acquire = free is always taken for an empty buffer.               *)
CheckItemFitsByteBufferNotFull(b, n) ==
  IF b.acquire = b.free THEN TRUE
  ELSE IF b.free > b.acquire THEN n <= b.free - b.acquire
  ELSE n <= Size - (b.acquire - b.free)

(* prvCheckItemFitsByteBuffer                                                *)
CheckItemFitsByteBuffer(b, n) ==
  IF b.acquire = b.free THEN ~b.full
  ELSE IF b.free > b.acquire THEN n <= b.free - b.acquire
  ELSE n <= Size - (b.acquire - b.free)

CheckItemFits(b, n) ==
  IF Kind = "byte" THEN CheckItemFitsByteBuffer(b, n) ELSE CheckItemFitsDefault(b, n)

-------------------------------------------------------------------------------
(* prvAcquireItemNoSplit: where the header of an item of n bytes goes.       *)
AcquireStart(b, n) ==
  IF Size - b.acquire < AlignSize(n) + Header THEN 0 ELSE b.acquire

AcquireItem(b, i, n) ==
  LET start == AcquireStart(b, n)
      mem1  == IF start = b.acquire THEN b.mem ELSE PutHeader(b.mem, b.acquire, Dummy)
      next  == WrapAround(start + Header + AlignSize(n))
  IN  [b EXCEPT !.mem = Fill(PutHeader(mem1, start, NewHeader(n, i, 1)), start + Header, n, Junk),
                !.acquire = next,
                !.full = b.full \/ next = b.free]

(* prvSendItemDoneNoSplit for the item whose header is at p, after its owner *)
(* has filled it.                                                            *)
SendItemDone(b, p) ==
  LET h  == HeaderAt(b, p)
      b1 == [b EXCEPT !.mem = [Fill(b.mem, p + Header, h.len, h.item) EXCEPT
                                 ![p] = [h EXCEPT !.split = FALSE, !.written = TRUE]],
                      !.waiting = b.waiting + 1]
  IN  [b1 EXCEPT !.write = SkipItems(b1, b.write, b.acquire, LAMBDA g : g.written)]

(* prvCopyItemNoSplit                                                        *)
CopyItemNoSplit(b, i, n) == SendItemDone(AcquireItem(b, i, n), AcquireStart(b, n))

(* Store a whole item, or the part of one that goes to the head, at p.       *)
PutPart(mem, p, n, i, k) ==
  Fill(PutHeader(mem, p, NewHeader(n, i, k)), p + Header, n, i)

(* prvCopyItemAllowSplit                                                     *)
CopyItemAllowSplit(b, i, n) ==
  LET rem   == Size - b.acquire
      wraps == rem < AlignSize(n) + Header
      n1    == rem - Header                \* bytes in the first part
      split == wraps /\ n1 > 0
      n2    == IF split THEN n - n1 ELSE n
      used2 == IF split THEN AlignSize(n) - n1 ELSE AlignSize(n)
      p2    == IF wraps THEN 0 ELSE b.acquire
      mem1  == IF split
               THEN Fill(PutHeader(b.mem, b.acquire, [NewHeader(n1, i, 1) EXCEPT !.split = TRUE]),
                         b.acquire + Header, n1, i)
               ELSE IF wraps THEN PutHeader(b.mem, b.acquire, Dummy) ELSE b.mem
      next  == WrapAround(p2 + Header + used2)
  IN  [b EXCEPT !.mem = PutPart(mem1, p2, n2, i, IF split THEN 2 ELSE 1),
                !.acquire = next, !.write = next,
                !.full = b.full \/ next = b.free,
                !.waiting = b.waiting + (IF split THEN 2 ELSE 1)]

(* n bytes past p, round the end of the buffer.                              *)
Ahead(p, n) == IF p + n >= Size THEN p + n - Size ELSE p + n

(* prvCopyItemByteBuf: n bytes, the k-th being Byte(k), k from 0.            *)
CopyItemByteBuf(b, n, Byte(_)) ==
  LET next == Ahead(b.acquire, n)
      Index(o) == IF o >= b.acquire THEN o - b.acquire ELSE o - b.acquire + Size
  IN  [b EXCEPT !.mem = [o \in Offsets |-> IF Index(o) < n THEN Byte(Index(o)) ELSE b.mem[o]],
                !.acquire = next, !.write = next,
                !.full = b.full \/ next = b.free,
                !.waiting = b.waiting + n]

-------------------------------------------------------------------------------
(* prvCheckItemAvail                                                         *)
CheckItemAvail(b) ==
  /\ Kind = "byte" => b.read = b.free
  /\ b.waiting > 0 /\ (b.read # b.write \/ b.full)

(* prvGetItemDefault: where the header of the next item is.                  *)
GetItemStart(b) == IF HeaderAt(b, b.read).dummy THEN 0 ELSE b.read

GetItem(b) ==
  [b EXCEPT !.read = PastItem(b, GetItemStart(b)), !.waiting = b.waiting - 1]

(* Mutant: the end of the storage area is not looked at.                     *)
GetLenWaiting(b, max) == IF max = 0 \/ b.waiting <= max THEN b.waiting ELSE max

(* prvGetItemByteBuf: how many bytes the call returns.                       *)
GetLen(b, max) ==
  LET avail == IF b.read > b.write \/ b.full THEN Size - b.read ELSE b.write - b.read
  IN  IF max = 0 \/ avail <= max THEN avail ELSE max

GetBytes(b, max) ==
  [b EXCEPT !.read = Ahead(b.read, GetLen(b, max)), !.waiting = b.waiting - GetLen(b, max)]

(* The n bytes from `from' on, round the end of the buffer, are given back.  *)
GiveBack(mem, from, n) ==
  [o \in Offsets |-> IF (o - from) % Size < n THEN Junk ELSE mem[o]]

(* The loop of prvReturnItemDefault: where pucFree goes when an item has     *)
(* been marked free.                                                         *)
FreePointer(b) == SkipItems(b, b.free, b.read, LAMBDA g : g.freed)

(* Whether the full flag stays set.                                          *)
StillFull(b, free) == b.full /\ free = b.acquire /\ free # b.read

(* prvReturnItemDefault for the item whose header is at p.                   *)
ReturnItemDefault(b, p) ==
  LET b1   == [b EXCEPT !.mem[p] = [HeaderAt(b, p) EXCEPT !.split = FALSE, !.freed = TRUE]]
      free == FreePointer(b1)
      b2   == [b1 EXCEPT !.free = free, !.full = StillFull(b, free)]
  IN  [b2 EXCEPT !.mem = GiveBack(b1.mem, b.free, GetFreeSize(b2) - GetFreeSize(b))]

(* Mutant: what was not read is freed too.                                   *)
ReturnItemByteBufAll(b) == [b EXCEPT !.free = b.write, !.full = FALSE]

(* prvReturnItemByteBuf                                                      *)
ReturnItemByteBuf(b) == [b EXCEPT !.free = b.read, !.full = FALSE]

-------------------------------------------------------------------------------
(* Mutant: the header is not counted.                                        *)
GetCurMaxSizeNoHeader(b) ==
  IF b.full THEN 0
  ELSE LET n == IF b.acquire < b.free THEN b.free - b.acquire ELSE Size - b.acquire
       IN  IF n > MaxItemSize THEN MaxItemSize ELSE n

Clip(n) == IF n < 0 THEN 0 ELSE IF n > MaxItemSize THEN MaxItemSize ELSE n
Larger(m, n) == IF m > n THEN m ELSE n

(* prvGetCurMaxSizeNoSplit, prvGetCurMaxSizeAllowSplit,                      *)
(* prvGetCurMaxSizeByteBuf                                                   *)
GetCurMaxSize(b) ==
  IF b.full THEN 0
  ELSE IF Kind = "byte" THEN GetFreeSize(b)
  ELSE IF Kind = "nosplit"
  THEN Clip((IF b.acquire < b.free THEN b.free - b.acquire
             ELSE Larger(Size - b.acquire, b.free)) - Header)
  ELSE Clip(IF b.acquire = 0 /\ b.free = 0 THEN Size - Header
            ELSE IF b.acquire < b.free THEN b.free - b.acquire - Header
            ELSE b.free + Size - b.acquire - 2 * Header)
===============================================================================
