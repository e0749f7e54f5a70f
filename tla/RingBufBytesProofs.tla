-------------------------- MODULE RingBufBytesProofs --------------------------
(***************************************************************************)
(* Proofs about RingBufBytes, for every size of the storage area.  The       *)
(* conjunction of its invariants, with Filled, is inductive.  Each action is *)
(* treated in two steps: a lemma about the parts of the buffer (numbers and  *)
(* a function, no record), and one that puts the record together.            *)
(***************************************************************************)
EXTENDS RingBufBytes, TLAPS

Bytes == 0 .. Numbers - 1

(* ByteOrder adds to the numbers it finds: that they are numbers comes first.*)
Filled == \A k \in 0 .. Used - 1 : rb.mem[Ahead(rb.free, k)] \in Bytes

IInv == TypeOK /\ SpaceExact /\ ByteOrder /\ Filled

(* The facts about the constants that the proofs use: a byte buffer has no   *)
(* headers, and the numbers of its bytes go past its size.                   *)
LEMMA Constants ==
  /\ Size \in Nat /\ Size > 0
  /\ Kind = "byte"
  /\ MaxItemSize = Size
  /\ Numbers \in Nat /\ Numbers > 2 * Size
  /\ Offsets = 0 .. Size - 1
  BY SizeAssumption, BytesAssumption DEF MaxItemSize, Offsets

(* A pointer moved ahead by at most the size stays in the storage area.      *)
LEMMA AheadType ==
  ASSUME NEW p \in Offsets, NEW n \in 0 .. Size
  PROVE  Ahead(p, n) \in Offsets
  BY Constants DEF Ahead

(* Moving ahead twice is moving ahead by the sum, as long as that is no more *)
(* than one turn.                                                            *)
LEMMA AheadSum ==
  ASSUME NEW p \in Offsets, NEW m \in 0 .. Size, NEW n \in 0 .. Size, m + n <= Size
  PROVE  Ahead(Ahead(p, m), n) = Ahead(p, m + n)
  BY Constants DEF Ahead

(* Two distances of less than one turn lead to different places.             *)
LEMMA AheadInjective ==
  ASSUME NEW p \in Offsets, NEW m \in 0 .. Size - 1, NEW n \in 0 .. Size - 1,
         Ahead(p, m) = Ahead(p, n)
  PROVE  m = n
  BY Constants DEF Ahead

(* How far a place is behind the acquire pointer, which is u ahead of the    *)
(* free pointer: the places of the u stored bytes, and the free ones.        *)
Behind(a, p) == IF p >= a THEN p - a ELSE p - a + Size

(* A stored byte is that far behind.                                         *)
LEMMA BehindStored ==
  ASSUME NEW f \in Offsets, NEW u \in 0 .. Size, NEW k \in 0 .. u - 1
  PROVE  Behind(Ahead(f, u), Ahead(f, k)) = Size - u + k
  BY Constants DEF Ahead, Behind

(* A free place is that far behind.                                          *)
LEMMA BehindFree ==
  ASSUME NEW f \in Offsets, NEW u \in 0 .. Size, NEW k \in u .. Size - 1
  PROVE  Behind(Ahead(f, u), Ahead(f, k)) = k - u
  BY Constants DEF Ahead, Behind

(* The pointers meet when the buffer is empty or full, and their difference  *)
(* is the free space otherwise.                                              *)
LEMMA AheadDifference ==
  ASSUME NEW f \in Offsets, NEW u \in 0 .. Size
  PROVE  /\ Ahead(f, u) = f <=> u \in {0, Size}
         /\ Ahead(f, u) < f => f - Ahead(f, u) = Size - u
         /\ Ahead(f, u) > f => Ahead(f, u) - f = u
  BY Constants DEF Ahead

(* The number of a byte n later is the number of a byte.                     *)
LEMMA PlusType ==
  ASSUME NEW m \in 0 .. Numbers - 1, NEW n \in 0 .. Size
  PROVE  Plus(m, n) \in 0 .. Numbers - 1
  BY Constants DEF Plus

(* Counting on twice is counting on by the sum.                              *)
LEMMA PlusSum ==
  ASSUME NEW m \in 0 .. Numbers - 1, NEW j \in 0 .. Size, NEW k \in 0 .. Size
  PROVE  Plus(Plus(m, j), k) = Plus(m, j + k)
  BY Constants DEF Plus

(* Counting on as far from two numbers keeps them apart.                     *)
LEMMA PlusInjective ==
  ASSUME NEW m \in 0 .. Numbers - 1, NEW n \in 0 .. Numbers - 1, NEW k \in 0 .. Size,
         Plus(m, k) = Plus(n, k)
  PROVE  m = n
  BY Constants DEF Plus

(* A state whose fields are taken apart: SMT does arithmetic on the parts,   *)
(* and Zenon the records.                                                    *)
Buffers == [acquire : Offsets, write : Offsets, read : Offsets, free : Offsets,
            full : BOOLEAN, waiting : 0 .. Size, mem : [Offsets -> Bytes \cup {Junk}]]

(* The fields of a buffer that some of the functions assign.                 *)
WithSent(b, m, p, f, w) ==
  [b EXCEPT !.mem = m, !.acquire = p, !.write = p, !.full = f, !.waiting = w]
WithRead(b, p, w) == [b EXCEPT !.read = p, !.waiting = w]
WithFree(b, p)    == [b EXCEPT !.free = p, !.full = FALSE]

(* prvCopyItemByteBuf assigns these.                                         *)
LEMMA SetSent ==
  ASSUME NEW b \in Buffers, NEW m \in [Offsets -> Bytes \cup {Junk}],
         NEW p \in Offsets, NEW f \in BOOLEAN, NEW w \in 0 .. Size
  PROVE  LET c == WithSent(b, m, p, f, w) IN
         /\ c.acquire = p /\ c.write = p /\ c.read = b.read /\ c.free = b.free
         /\ c.full = f /\ c.waiting = w /\ c.mem = m /\ c \in Buffers
  BY Zenon DEF Buffers, WithSent

(* prvGetItemByteBuf assigns these.                                          *)
LEMMA SetRead ==
  ASSUME NEW b \in Buffers, NEW p \in Offsets, NEW w \in 0 .. Size
  PROVE  LET c == WithRead(b, p, w) IN
         /\ c.acquire = b.acquire /\ c.write = b.write /\ c.read = p /\ c.free = b.free
         /\ c.full = b.full /\ c.waiting = w /\ c.mem = b.mem /\ c \in Buffers
  BY Zenon DEF Buffers, WithRead

(* prvReturnItemByteBuf assigns these.                                       *)
LEMMA SetFree ==
  ASSUME NEW b \in Buffers, NEW p \in Offsets
  PROVE  LET c == WithFree(b, p) IN
         /\ c.acquire = b.acquire /\ c.write = b.write /\ c.read = b.read /\ c.free = p
         /\ c.full = FALSE /\ c.waiting = b.waiting /\ c.mem = b.mem /\ c \in Buffers
  BY Zenon DEF Buffers, WithFree

(* The buffer is created empty.                                              *)
LEMMA InitIInv == Init => IInv
  <1> SUFFICES ASSUME Init PROVE IInv
    OBVIOUS
  <1> USE Constants DEF Init, NewRingbuffer
  <1>1. TypeOK
    BY DEF TypeOK
  <1>2. SpaceExact
    BY DEF SpaceExact, Used, Ahead
  <1>3. ByteOrder
    BY DEF ByteOrder, Used, Plus
  <1>4. Filled
    BY DEF Filled, Used
  <1> QED BY <1>1, <1>2, <1>3, <1>4 DEF IInv

(* The invariant of the parts.  a, r, f are the offsets of pucAcquire,       *)
(* pucRead and pucFree, w the bytes waiting, h the bytes held, s and c the   *)
(* numbers of the next byte to be sent and received.                         *)
Parts(a, r, f, full, w, mem, s, c, h) ==
  /\ a \in Offsets /\ r \in Offsets /\ f \in Offsets /\ full \in BOOLEAN
  /\ w \in 0 .. Size /\ h \in 0 .. Size /\ s \in Bytes /\ c \in Bytes
  /\ mem \in [Offsets -> Bytes \cup {Junk}]
  /\ h + w <= Size
  /\ full <=> h + w = Size
  /\ r = Ahead(f, h)
  /\ a = Ahead(f, h + w)
  /\ Plus(c, w) = s
  /\ f + h <= Size
  /\ \A k \in 0 .. (h + w) - 1 : /\ mem[Ahead(f, k)] \in Bytes
                               /\ Plus(mem[Ahead(f, k)], h) = Plus(c, k)

TakenApart ==
  /\ rb \in Buffers /\ rb.write = rb.acquire
  /\ Parts(rb.acquire, rb.read, rb.free, rb.full, rb.waiting, rb.mem, sent, received, held)

(* The invariant says of the parts what Parts says.                          *)
LEMMA InParts == IInv <=> TakenApart
  <1>1. rb \in Buffers <=> rb \in [acquire : Offsets, write : Offsets, read : Offsets, free : Offsets,
                                   full : BOOLEAN, waiting : 0 .. Size,
                                   mem : [Offsets -> (0 .. Numbers - 1) \cup {Junk}]]
    BY Zenon DEF Buffers, Bytes
  <1>2. rb \in Buffers => /\ rb.acquire \in Offsets /\ rb.read \in Offsets /\ rb.free \in Offsets
                          /\ rb.full \in BOOLEAN /\ rb.waiting \in 0 .. Size
                          /\ rb.mem \in [Offsets -> Bytes \cup {Junk}]
    BY Zenon DEF Buffers
  <1>3. TypeOK <=> /\ rb \in Buffers /\ sent \in Bytes /\ received \in Bytes
                   /\ held \in 0 .. Size
    BY <1>1, Zenon DEF TypeOK, Bytes
  <1>4. ByteOrder /\ Filled <=>
          /\ Plus(received, rb.waiting) = sent /\ rb.free + held <= Size
          /\ \A k \in 0 .. (held + rb.waiting) - 1 :
               /\ rb.mem[Ahead(rb.free, k)] \in Bytes
               /\ Plus(rb.mem[Ahead(rb.free, k)], held) = Plus(received, k)
    BY Zenon DEF ByteOrder, Filled, Used
  <1>5. SpaceExact <=>
          /\ held + rb.waiting <= Size
          /\ rb.full <=> held + rb.waiting = Size
          /\ rb.read = Ahead(rb.free, held)
          /\ rb.acquire = Ahead(rb.free, held + rb.waiting) /\ rb.write = rb.acquire
    BY Zenon DEF SpaceExact, Used
  <1>6. ASSUME IInv
        PROVE  /\ rb \in Buffers /\ rb.write = rb.acquire
               /\ Parts(rb.acquire, rb.read, rb.free, rb.full, rb.waiting, rb.mem, sent, received, held)
    BY <1>2, <1>3, <1>4, <1>5, <1>6, Zenon DEF IInv, Parts
  <1>7. ASSUME rb \in Buffers, rb.write = rb.acquire,
               Parts(rb.acquire, rb.read, rb.free, rb.full, rb.waiting, rb.mem, sent, received, held)
        PROVE  IInv
    BY <1>2, <1>3, <1>4, <1>5, <1>7, Zenon DEF IInv, Parts
  <1> QED BY <1>6, <1>7 DEF TakenApart

(* What xCheckItemFits and xCheckItemAvail compute from the parts.           *)
FitsParts(a, f, full, n) ==
  IF a = f THEN ~full ELSE IF f > a THEN n <= f - a ELSE n <= Size - (a - f)

(* The pointers and the full flag tell whether n bytes fit.                  *)
LEMMA Fits ==
  ASSUME NEW a, NEW f \in Offsets, NEW full \in BOOLEAN, NEW u \in 0 .. Size,
         a = Ahead(f, u), full <=> u = Size, NEW n \in 1 .. Size
  PROVE  FitsParts(a, f, full, n) <=> n <= Size - u
  <1>1. a \in Offsets
    BY AheadType
  <1>2. CASE a = f
    <2>1. u = 0 \/ u = Size
      BY <1>2, AheadDifference
    <2>2. CASE u = 0
      <3>1. ~full
        BY <2>2, Constants
      <3> QED BY <1>2, <2>2, <3>1, Constants DEF FitsParts
    <2>3. CASE u = Size
      BY <1>2, <2>3, Constants DEF FitsParts
    <2> QED BY <2>1, <2>2, <2>3
  <1>3. CASE f > a
    BY <1>1, <1>3, AheadDifference, Constants DEF FitsParts
  <1>4. CASE f < a
    BY <1>1, <1>4, AheadDifference, Constants DEF FitsParts
  <1> QED BY <1>1, <1>2, <1>3, <1>4, Constants

LenParts(r, a, full, max) ==
  LET avail == IF r > a \/ full THEN Size - r ELSE a - r
  IN  IF max = 0 \/ avail <= max THEN avail ELSE max

(* What is received: some of the bytes waiting, up to the end of the storage *)
(* area, and at least one.                                                   *)
LEMMA Gets ==
  ASSUME NEW a, NEW f \in Offsets, NEW full \in BOOLEAN, NEW w \in 1 .. Size,
         a = Ahead(f, w), full <=> w = Size, NEW max \in 0 .. Size
  PROVE  LenParts(f, a, full, max) \in 1 .. w /\ f + LenParts(f, a, full, max) <= Size
  <1>1. a \in Offsets
    BY AheadType, Constants
  <1> DEFINE avail == IF f > a \/ full THEN Size - f ELSE a - f
  <1>2. avail \in 1 .. w /\ f + avail <= Size
    <2>1. CASE full
      BY <2>1, Constants
    <2>2. CASE ~full /\ f > a
      BY <1>1, <2>2, Constants DEF Ahead
    <2>3. CASE ~full /\ ~(f > a)
      <3>1. w < Size
        BY <2>3, Constants
      <3> QED BY <1>1, <2>3, <3>1, Constants DEF Ahead
    <2> QED BY <2>1, <2>2, <2>3
  <1>3. LenParts(f, a, full, max) = IF max = 0 \/ avail <= max THEN avail ELSE max
    BY DEF LenParts
  <1> HIDE DEF avail
  <1> QED BY <1>2, <1>3, Constants

Written(mem, a, n, s) ==
  [p \in Offsets |-> IF Behind(a, p) < n THEN Plus(s, Behind(a, p)) ELSE mem[p]]

(* Sending n bytes: the new bytes go behind the others.                      *)
LEMMA SendParts ==
  ASSUME NEW a, NEW r, NEW f, NEW full, NEW w, NEW mem, NEW s, NEW c, NEW h,
         Parts(a, r, f, full, w, mem, s, c, h),
         NEW n \in 1 .. Size, FitsParts(a, f, full, n),
         NEW next, next = Ahead(a, n),
         NEW new, new = Written(mem, a, n, s),
         NEW last, last = (full \/ next = f)
  PROVE  Parts(next, r, f, last, w + n, new, Plus(s, n), c, h)
  <1> DEFINE u == h + w
  <1> USE DEF Written
  <1>1. /\ a \in Offsets /\ r \in Offsets /\ f \in Offsets /\ full \in BOOLEAN
        /\ w \in 0 .. Size /\ h \in 0 .. Size /\ s \in Bytes /\ c \in Bytes
        /\ mem \in [Offsets -> Bytes \cup {Junk}]
        /\ u \in 0 .. Size /\ (full <=> u = Size)
        /\ r = Ahead(f, h) /\ a = Ahead(f, u) /\ Plus(c, w) = s /\ f + h <= Size
    BY Constants DEF Parts
  <1>2. n <= Size - u
    <2> HIDE DEF u
    <2> QED BY <1>1, Fits
  <1>3. u + n \in 1 .. Size /\ w + n \in 0 .. Size /\ h + (w + n) = u + n
    BY <1>1, <1>2, Constants
  <1>4. next = Ahead(f, u + n) /\ next \in Offsets
    <2> HIDE DEF u
    <2> QED BY <1>1, <1>2, <1>3, AheadSum, AheadType, Constants
  <1>5. last \in BOOLEAN /\ (last <=> u + n = Size)
    <2>1. next = f <=> u + n = Size
      <3> HIDE DEF u
      <3> QED BY <1>1, <1>3, <1>4, AheadDifference, Constants
    <2>2. ~full
      <3> HIDE DEF u
      <3> QED BY <1>1, <1>2, Constants
    <2> HIDE DEF u
    <2> QED BY <2>1, <2>2, Zenon
  <1>6. new \in [Offsets -> Bytes \cup {Junk}]
    <2>1. ASSUME NEW p \in Offsets, Behind(a, p) < n PROVE Plus(s, Behind(a, p)) \in Bytes
      <3>1. Behind(a, p) \in 0 .. Size
        <4>1. a \in Offsets
          BY <1>1
        <4> QED BY <4>1, Constants DEF Behind
      <3> QED BY <1>1, <3>1, PlusType DEF Bytes
    <2> QED BY <1>1, <2>1
  <1>7. Plus(c, w + n) = Plus(s, n) /\ Plus(s, n) \in Bytes
    BY <1>1, PlusSum, PlusType, Constants DEF Bytes
  <1>8. ASSUME NEW k \in 0 .. u - 1
        PROVE  new[Ahead(f, k)] = mem[Ahead(f, k)]
    <2> HIDE DEF u
    <2>0. k \in 0 .. Size
      BY <1>1, Constants
    <2>1. Ahead(f, k) \in Offsets
      BY <1>1, <2>0, AheadType
    <2>2. Behind(a, Ahead(f, k)) = Size - u + k
      BY <1>1, BehindStored
    <2>3. ~(Behind(a, Ahead(f, k)) < n)
      BY <1>1, <1>2, <2>2, Constants
    <2> QED BY <2>1, <2>3
  <1>9. ASSUME NEW k \in u .. u + n - 1
        PROVE  new[Ahead(f, k)] = Plus(s, k - u)
    <2> HIDE DEF u
    <2>0. k \in u .. Size - 1 /\ k \in 0 .. Size
      BY <1>1, <1>2, Constants
    <2>1. Ahead(f, k) \in Offsets
      BY <1>1, <2>0, AheadType
    <2>2. Behind(a, Ahead(f, k)) = k - u
      BY <1>1, <2>0, BehindFree
    <2>3. k - u < n
      BY <1>1
    <2> QED BY <2>1, <2>2, <2>3
  <1>10. ASSUME NEW k \in 0 .. u + n - 1
         PROVE  new[Ahead(f, k)] \in Bytes /\ Plus(new[Ahead(f, k)], h) = Plus(c, k)
    <2>1. CASE k \in 0 .. u - 1
      <3>1. mem[Ahead(f, k)] \in Bytes /\ Plus(mem[Ahead(f, k)], h) = Plus(c, k)
        BY <2>1 DEF Parts
      <3> QED BY <1>8, <2>1, <3>1
    <2>2. CASE k \in u .. u + n - 1
      <3>1. k - u \in 0 .. Size /\ k - w \in 0 .. Size /\ (k - u) + h = k - w /\ w + (k - w) = k
        BY <1>1, <1>3, <2>2, Constants
      <3>2. new[Ahead(f, k)] = Plus(s, k - u)
        BY <1>9, <2>2
      <3>3. Plus(s, k - u) \in Bytes
        BY <1>1, <3>1, PlusType DEF Bytes
      <3>4. Plus(Plus(s, k - u), h) = Plus(s, (k - u) + h)
        BY <1>1, <3>1, PlusSum DEF Bytes
      <3>5. Plus(Plus(c, w), k - w) = Plus(c, w + (k - w))
        BY <1>1, <3>1, PlusSum DEF Bytes
      <3> QED BY <1>1, <3>1, <3>2, <3>3, <3>4, <3>5
    <2> QED BY <1>1, <2>1, <2>2, Constants
  <1> QED BY <1>1, <1>3, <1>4, <1>5, <1>6, <1>7, <1>10 DEF Parts

(* Receiving l of the bytes waiting, up to the end of the storage area.      *)
LEMMA ReceiveParts ==
  ASSUME NEW a, NEW f, NEW full, NEW w, NEW mem, NEW s, NEW c,
         Parts(a, f, f, full, w, mem, s, c, 0), NEW l \in 1 .. w, f + l <= Size
  PROVE  Parts(a, Ahead(f, l), f, full, w - l, mem, s, Plus(c, l), l)
  <1>1. /\ a \in Offsets /\ f \in Offsets /\ full \in BOOLEAN
        /\ w \in 0 .. Size /\ s \in Bytes /\ c \in Bytes
        /\ mem \in [Offsets -> Bytes \cup {Junk}]
        /\ (full <=> w = Size) /\ a = Ahead(f, w) /\ Plus(c, w) = s
    BY Constants DEF Parts
  <1>2. w - l \in 0 .. Size /\ l \in 0 .. Size /\ l + (w - l) = w
    BY <1>1, Constants
  <1>3. Ahead(f, l) \in Offsets /\ Plus(c, l) \in Bytes
    BY <1>1, <1>2, AheadType, PlusType DEF Bytes
  <1>4. Plus(Plus(c, l), w - l) = s
    BY <1>1, <1>2, PlusSum DEF Bytes
  <1>5. ASSUME NEW k \in 0 .. w - 1
        PROVE  mem[Ahead(f, k)] \in Bytes /\ Plus(mem[Ahead(f, k)], l) = Plus(Plus(c, l), k)
    <2>1. mem[Ahead(f, k)] \in Bytes /\ Plus(mem[Ahead(f, k)], 0) = Plus(c, k)
      BY <1>1, Constants DEF Parts
    <2> DEFINE b == mem[Ahead(f, k)]
    <2>2. k \in 0 .. Size /\ 0 \in 0 .. Size /\ 0 + l = l /\ k + l = l + k
      BY <1>1, <1>2, Constants
    <2> HIDE DEF b
    <2>3. Plus(Plus(b, 0), l) = Plus(b, l)
      BY <1>2, <2>1, <2>2, PlusSum DEF Bytes, b
    <2>4. Plus(Plus(c, k), l) = Plus(Plus(c, l), k)
      BY <1>1, <1>2, <2>2, PlusSum DEF Bytes
    <2> QED BY <2>1, <2>3, <2>4 DEF b
  <1> QED BY <1>1, <1>2, <1>3, <1>4, <1>5 DEF Parts

(* Returning the bytes held: the others stay where they are.                 *)
LEMMA ReturnParts ==
  ASSUME NEW a, NEW r, NEW f, NEW full, NEW w, NEW mem, NEW s, NEW c, NEW h,
         Parts(a, r, f, full, w, mem, s, c, h), h > 0
  PROVE  Parts(a, r, r, FALSE, w, mem, s, c, 0)
  <1>1. /\ a \in Offsets /\ r \in Offsets /\ f \in Offsets
        /\ w \in 0 .. Size /\ h \in 0 .. Size /\ s \in Bytes /\ c \in Bytes
        /\ mem \in [Offsets -> Bytes \cup {Junk}]
        /\ h + w <= Size /\ r = Ahead(f, h) /\ a = Ahead(f, h + w) /\ Plus(c, w) = s
    BY Constants DEF Parts
  <1>2. a = Ahead(r, w) /\ r = Ahead(r, 0) /\ r + 0 <= Size /\ 0 \in 0 .. Size
    BY <1>1, AheadSum, Constants DEF Ahead
  <1>3. w # Size /\ 0 + w = w
    BY <1>1, Constants
  <1>4. ASSUME NEW k \in 0 .. w - 1
        PROVE  mem[Ahead(r, k)] \in Bytes /\ Plus(mem[Ahead(r, k)], 0) = Plus(c, k)
    <2> DEFINE b == mem[Ahead(r, k)]
    <2>1. h + k \in 0 .. h + w - 1 /\ k \in 0 .. Size /\ h + k <= Size /\ k + h = h + k
      BY <1>1, Constants
    <2>2. Ahead(r, k) = Ahead(f, h + k)
      BY <1>1, <2>1, AheadSum
    <2>3. b \in Bytes /\ Plus(b, h) = Plus(c, h + k)
      BY <2>1, <2>2 DEF Parts
    <2> HIDE DEF b
    <2>4. Plus(Plus(c, k), h) = Plus(c, h + k) /\ Plus(c, k) \in Bytes
      BY <1>1, <2>1, PlusSum, PlusType DEF Bytes
    <2>5. b = Plus(c, k)
      BY <1>1, <2>3, <2>4, PlusInjective DEF Bytes
    <2>6. Plus(b, 0) = b
      BY <2>3, Constants DEF Plus, Bytes
    <2> QED BY <2>3, <2>5, <2>6 DEF b
  <1> QED BY <1>1, <1>2, <1>3, <1>4 DEF Parts

(* xRingbufferSend keeps the invariant.                                      *)
LEMMA SendIInv ==
  ASSUME IInv, NEW n \in 1 .. Size, Send(n)
  PROVE  IInv'
  <1> DEFINE new == Written(rb.mem, rb.acquire, n, sent)
             next == Ahead(rb.acquire, n)
             full == rb.full \/ next = rb.free
  <1>1. /\ rb \in Buffers
        /\ Parts(rb.acquire, rb.read, rb.free, rb.full, rb.waiting, rb.mem, sent, received, held)
    BY InParts, Zenon DEF TakenApart
  <1>2. FitsParts(rb.acquire, rb.free, rb.full, n)
    BY Constants, Zenon DEF Send, CheckItemFits, CheckItemFitsByteBuffer, FitsParts
  <1>3. Parts(next, rb.read, rb.free, full, rb.waiting + n, new, Plus(sent, n), received, held)
    <2>1. /\ next = Ahead(rb.acquire, n)
          /\ new = Written(rb.mem, rb.acquire, n, sent)
          /\ full = (rb.full \/ next = rb.free)
      OBVIOUS
    <2> HIDE DEF new, next, full
    <2> QED BY <1>1, <1>2, <2>1, SendParts
  <1>4. rb' = WithSent(rb, new, next, full, rb.waiting + n)
    BY Zenon DEF Send, CopyItemByteBuf, Behind, WithSent, Written
  <1>5. sent' = Plus(sent, n) /\ received' = received /\ held' = held
    BY Zenon DEF Send
  <1> HIDE DEF new, next, full
  <1>6. /\ new \in [Offsets -> Bytes \cup {Junk}] /\ next \in Offsets
        /\ full \in BOOLEAN /\ rb.waiting + n \in 0 .. Size
    BY <1>3, Zenon DEF Parts
  <1>7. /\ rb'.acquire = next /\ rb'.write = next /\ rb'.read = rb.read /\ rb'.free = rb.free
        /\ rb'.full = full /\ rb'.waiting = rb.waiting + n /\ rb'.mem = new /\ rb' \in Buffers
    BY <1>1, <1>4, <1>6, SetSent
  <1>8. /\ rb' \in Buffers /\ rb'.write = rb'.acquire
        /\ Parts(rb'.acquire, rb'.read, rb'.free, rb'.full, rb'.waiting, rb'.mem,
                 sent', received', held')
    BY <1>3, <1>5, <1>7, Zenon
  <1>9. TakenApart'
    BY <1>8, Zenon DEF TakenApart
  <1> QED BY <1>9, InParts, PTL

(* xRingbufferReceive and xRingbufferReceiveUpTo keep the invariant: bytes   *)
(* are handed out only when the last ones have been returned.                *)
LEMMA ReceiveIInv ==
  ASSUME IInv, NEW max \in 0 .. Size, Receive(max)
  PROVE  IInv'
  <1> DEFINE l == GetLen(rb, max)
  <1>1. /\ rb \in Buffers /\ rb.write = rb.acquire
        /\ Parts(rb.acquire, rb.read, rb.free, rb.full, rb.waiting, rb.mem, sent, received, held)
    BY InParts, Zenon DEF TakenApart
  <1>2. /\ rb.read = rb.free /\ rb.waiting > 0 /\ (rb.read # rb.acquire \/ rb.full)
    BY <1>1, Constants, Zenon DEF Receive, CheckItemAvail
  <1>3. /\ rb.free \in Offsets /\ held \in 0 .. Size /\ rb.waiting \in 0 .. Size
        /\ held + rb.waiting <= Size /\ rb.free = Ahead(rb.free, held)
    BY <1>1, <1>2, Zenon DEF Parts
  <1>4. held = 0
    BY <1>2, <1>3, Constants DEF Ahead
  <1>5. /\ Parts(rb.acquire, rb.free, rb.free, rb.full, rb.waiting, rb.mem, sent, received, 0)
    BY <1>1, <1>2, <1>4, Zenon
  <1>6. l = LenParts(rb.free, rb.acquire, rb.full, max)
    BY <1>1, <1>2, Zenon DEF GetLen, LenParts
  <1>7. /\ rb.full \in BOOLEAN /\ rb.waiting \in 1 .. Size
        /\ rb.acquire = Ahead(rb.free, rb.waiting) /\ (rb.full <=> rb.waiting = Size)
    BY <1>2, <1>3, <1>5, Constants DEF Parts
  <1>8. l \in 1 .. rb.waiting /\ rb.free + l <= Size
    <2> HIDE DEF l
    <2> QED BY <1>3, <1>6, <1>7, Gets
  <1>9. Parts(rb.acquire, Ahead(rb.free, l), rb.free, rb.full, rb.waiting - l, rb.mem,
              sent, Plus(received, l), l)
    BY <1>5, <1>8, ReceiveParts, Zenon
  <1>10. /\ rb' = WithRead(rb, Ahead(rb.free, l), rb.waiting - l)
         /\ sent' = sent /\ received' = Plus(received, l) /\ held' = l
    BY <1>2, Zenon DEF Receive, GetBytes, WithRead
  <1> HIDE DEF l
  <1>11. Ahead(rb.free, l) \in Offsets /\ rb.waiting - l \in 0 .. Size
    BY <1>9, Zenon DEF Parts
  <1>12. /\ rb'.acquire = rb.acquire /\ rb'.write = rb.write /\ rb'.read = Ahead(rb.free, l)
         /\ rb'.free = rb.free /\ rb'.full = rb.full /\ rb'.waiting = rb.waiting - l
         /\ rb'.mem = rb.mem /\ rb' \in Buffers
    BY <1>1, <1>10, <1>11, SetRead, ZenonT(60)
  <1>13. /\ rb' \in Buffers /\ rb'.write = rb'.acquire
         /\ Parts(rb'.acquire, rb'.read, rb'.free, rb'.full, rb'.waiting, rb'.mem,
                  sent', received', held')
    BY <1>1, <1>9, <1>10, <1>12, Zenon
  <1>14. TakenApart'
    BY <1>13, Zenon DEF TakenApart
  <1> QED BY <1>14, InParts, PTL

(* vRingbufferReturnItem keeps the invariant.                                *)
LEMMA ReturnIInv ==
  ASSUME IInv, Return
  PROVE  IInv'
  <1>1. /\ rb \in Buffers /\ rb.write = rb.acquire
        /\ Parts(rb.acquire, rb.read, rb.free, rb.full, rb.waiting, rb.mem, sent, received, held)
    BY InParts, Zenon DEF TakenApart
  <1>2. Parts(rb.acquire, rb.read, rb.read, FALSE, rb.waiting, rb.mem, sent, received, 0)
    BY <1>1, ReturnParts, Zenon DEF Return
  <1>3. /\ rb' = WithFree(rb, rb.read)
        /\ sent' = sent /\ received' = received /\ held' = 0
    BY Zenon DEF Return, ReturnItemByteBuf, WithFree
  <1>4. rb.read \in Offsets
    BY <1>2, Zenon DEF Parts
  <1>5. /\ rb'.acquire = rb.acquire /\ rb'.write = rb.write /\ rb'.read = rb.read
        /\ rb'.free = rb.read /\ rb'.full = FALSE /\ rb'.waiting = rb.waiting
        /\ rb'.mem = rb.mem /\ rb' \in Buffers
    BY <1>1, <1>3, <1>4, SetFree, Zenon
  <1>6. /\ rb' \in Buffers /\ rb'.write = rb'.acquire
        /\ Parts(rb'.acquire, rb'.read, rb'.free, rb'.full, rb'.waiting, rb'.mem,
                 sent', received', held')
    BY <1>1, <1>2, <1>3, <1>5, Zenon
  <1>7. TakenApart'
    BY <1>6, Zenon DEF TakenApart
  <1> QED BY <1>7, InParts, PTL

(* The conjunction of the invariants holds always.                           *)
THEOREM Inductive == Spec => []IInv
  <1>1. ASSUME IInv, [Next]_vars PROVE IInv'
    <2>1. CASE \E n \in 1 .. Size : Send(n)
      BY <1>1, <2>1, SendIInv
    <2>2. CASE \E max \in 0 .. Size : Receive(max)
      BY <1>1, <2>2, ReceiveIInv
    <2>3. CASE Return
      BY <1>1, <2>3, ReturnIInv
    <2>4. CASE UNCHANGED vars
      BY <1>1, <2>4, Zenon DEF vars, IInv, TypeOK, SpaceExact, ByteOrder, Filled, Used
    <2> QED BY <1>1, <2>1, <2>2, <2>3, <2>4 DEF Next
  <1> QED BY InitIInv, <1>1, PTL DEF Spec

(* A full buffer is never taken for an empty one or the other way round, for *)
(* every size of the storage area.                                           *)
THEOREM AlwaysSpaceExact == Spec => []SpaceExact
  <1>1. IInv => SpaceExact
    BY DEF IInv
  <1> QED BY <1>1, Inductive, PTL

(* The bytes come out in the order they went in, none lost and none twice.   *)
THEOREM AlwaysByteOrder == Spec => []ByteOrder
  <1>1. IInv => ByteOrder
    BY DEF IInv
  <1> QED BY <1>1, Inductive, PTL

(* The types of the variables.                                               *)
THEOREM TypeCorrect == Spec => []TypeOK
  <1>1. IInv => TypeOK
    BY DEF IInv
  <1> QED BY <1>1, Inductive, PTL

(* A send is accepted exactly when its bytes fit, and the free size reported *)
(* is exactly what could be sent.                                            *)
THEOREM AlwaysFitsExactly == Spec => []FitsExactly
  <1>1. ASSUME IInv PROVE FitsExactly
    <2>1. /\ rb.acquire \in Offsets /\ rb.free \in Offsets /\ rb.full \in BOOLEAN
          /\ rb.waiting \in 0 .. Size /\ held \in 0 .. Size /\ held + rb.waiting <= Size
          /\ rb.acquire = Ahead(rb.free, held + rb.waiting)
          /\ (rb.full <=> held + rb.waiting = Size)
      BY <1>1, InParts, Zenon DEF Parts, TakenApart
    <2> DEFINE u == held + rb.waiting
    <2>2. u \in 0 .. Size
      BY <2>1, Constants
    <2>3. ASSUME NEW n \in 1 .. Size PROVE CheckItemFits(rb, n) <=> n <= Size - u
      <3>1. CheckItemFits(rb, n) <=> FitsParts(rb.acquire, rb.free, rb.full, n)
        BY Constants, Zenon DEF CheckItemFits, CheckItemFitsByteBuffer, FitsParts
      <3>2. FitsParts(rb.acquire, rb.free, rb.full, n) <=> n <= Size - u
        <4> HIDE DEF u
        <4> QED BY <2>1, <2>2, Fits DEF u
      <3> QED BY <3>1, <3>2
    <2>4. GetCurMaxSize(rb) = IF rb.full THEN 0 ELSE GetFreeSize(rb)
      BY Constants, Zenon DEF GetCurMaxSize
    <2>5. (IF rb.full THEN 0 ELSE GetFreeSize(rb)) = Size - u
      <3> DEFINE a == rb.acquire
                 f == rb.free
      <3>1. a \in Offsets /\ f \in Offsets /\ a = Ahead(f, u) /\ (rb.full <=> u = Size)
        BY <2>1
      <3>2. GetFreeSize(rb) = IF rb.full THEN 0
                              ELSE IF f - a <= 0 THEN f - a + Size ELSE f - a
        BY DEF GetFreeSize
      <3> HIDE DEF a, f, u
      <3>3. CASE rb.full
        BY <2>2, <3>1, <3>3, Constants
      <3>4. CASE ~rb.full
        <4>1. u < Size
          BY <2>2, <3>1, <3>4, Constants
        <4>2. (IF f - a <= 0 THEN f - a + Size ELSE f - a) = Size - u
          BY <2>2, <3>1, <4>1, Constants DEF Ahead
        <4> QED BY <3>2, <3>4, <4>2
      <3> QED BY <3>3, <3>4
    <2>6. u = Used
      BY DEF Used
    <2> HIDE DEF u
    <2> QED BY <2>3, <2>4, <2>5, <2>6 DEF FitsExactly
  <1> QED BY <1>1, Inductive, PTL

===============================================================================
