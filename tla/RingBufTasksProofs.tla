-------------------------- MODULE RingBufTasksProofs --------------------------
(***************************************************************************)
(* Proofs about RingBufTasks, for any tasks, item lengths and sizes: no      *)
(* wake-up is lost.  Of the storage only what the semaphores depend on is    *)
(* used: where the two pointers are that bound the free space, and when the  *)
(* full flag is set.                                                         *)
(***************************************************************************)
EXTENDS RingBufTasks, WellFoundedInduction, TLAPS

(* A set of naturals that has 0 and, with every number, the next one.        *)
LEMMA Induction ==
  ASSUME NEW S, 0 \in S, \A n \in Nat : n \in S => n + 1 \in S
  PROVE  \A n \in Nat : n \in S
  <1> DEFINE T == {n \in Nat : n \notin S}
             R == OpToRel(<, Nat)
  <1> SUFFICES ASSUME T # {} PROVE FALSE
    OBVIOUS
  <1>1. T \subseteq Nat /\ IsWellFoundedOn(R, Nat)
    BY NatLessThanWellFounded
  <1>2. PICK x \in T : \A y \in T : ~(<<y, x>> \in R)
    <2> HIDE DEF T, R
    <2> QED BY <1>1, WFMin
  <1>3. \A y \in Nat : y < x => <<y, x>> \in R
    BY <1>2 DEF OpToRel
  <1>4. x \in Nat /\ x \notin S
    BY <1>2
  <1>5. x # 0
    BY <1>4
  <1>6. x - 1 \in Nat /\ x - 1 < x /\ (x - 1) + 1 = x
    BY <1>4, <1>5
  <1>7. x - 1 \in S
    BY <1>2, <1>3, <1>6
  <1> QED BY <1>4, <1>6, <1>7

-------------------------------------------------------------------------------
(* Functions defined by recursion: f[0] is first, f[n + 1] is step[f[n]].    *)
(* The library's theorem about them is not for these provers.                *)
Iterates(f, m, first, step) ==
  f[0] = first /\ \A n \in 0 .. m - 1 : f[n + 1] = step[f[n]]

(* They exist up to any number.                                              *)
LEMMA IteratesExist ==
  ASSUME NEW X, NEW first \in X, NEW step \in [X -> X]
  PROVE  \A m \in Nat : \E f \in [0 .. m -> X] : Iterates(f, m, first, step)
  <1> DEFINE S == {m \in Nat : \E f \in [0 .. m -> X] : Iterates(f, m, first, step)}
  <1>1. 0 \in S
    <2> DEFINE f == [n \in 0 .. 0 |-> first]
    <2>1. f \in [0 .. 0 -> X] /\ f[0] = first
      OBVIOUS
    <2> HIDE DEF f
    <2>2. Iterates(f, 0, first, step)
      BY <2>1 DEF Iterates
    <2> QED BY <2>1, <2>2
  <1>2. ASSUME NEW m \in Nat, m \in S PROVE m + 1 \in S
    <2>1. PICK f \in [0 .. m -> X] : Iterates(f, m, first, step)
      BY <1>2
    <2> DEFINE g == [n \in 0 .. m + 1 |-> IF n <= m THEN f[n] ELSE step[f[m]]]
    <2>2. /\ g \in [0 .. m + 1 -> X]
          /\ \A n \in 0 .. m : g[n] = f[n]
          /\ g[m + 1] = step[f[m]]
      OBVIOUS
    <2> HIDE DEF g
    <2>3. Iterates(g, m + 1, first, step)
      <3>1. g[0] = first
        BY <2>1, <2>2 DEF Iterates
      <3>2. ASSUME NEW n \in 0 .. (m + 1) - 1 PROVE g[n + 1] = step[g[n]]
        <4>1. CASE n = m
          BY <2>2, <4>1
        <4>2. CASE n \in 0 .. m - 1
          <5>1. n + 1 \in 0 .. m /\ n \in 0 .. m
            BY <4>2
          <5> QED BY <2>1, <2>2, <4>2, <5>1 DEF Iterates
        <4> QED BY <4>1, <4>2
      <3> QED BY <3>1, <3>2 DEF Iterates
    <2> QED BY <2>2, <2>3
  <1> HIDE DEF S
  <1>3. \A m \in Nat : m \in S
    BY <1>1, <1>2, Induction
  <1> QED BY <1>3 DEF S

(* Two of them agree as far as both go.                                      *)
LEMMA IteratesAgree ==
  ASSUME NEW first, NEW step, NEW m \in Nat, NEW k \in Nat, NEW f, NEW g,
         Iterates(f, m, first, step), Iterates(g, k, first, step)
  PROVE  \A n \in Nat : n <= m /\ n <= k => f[n] = g[n]
  <1> DEFINE S == {n \in Nat : n <= m /\ n <= k => f[n] = g[n]}
  <1>1. 0 \in S
    BY DEF Iterates
  <1>2. ASSUME NEW n \in Nat, n \in S PROVE n + 1 \in S
    <2> SUFFICES ASSUME n + 1 <= m, n + 1 <= k PROVE f[n + 1] = g[n + 1]
      OBVIOUS
    <2>1. n \in 0 .. m - 1 /\ n \in 0 .. k - 1 /\ f[n] = g[n]
      BY <1>2
    <2> QED BY <2>1 DEF Iterates
  <1> HIDE DEF S
  <1>3. \A n \in Nat : n \in S
    BY <1>1, <1>2, Induction
  <1> QED BY <1>3 DEF S

(* So there is one for all numbers.                                          *)
LEMMA IterateExists ==
  ASSUME NEW X, NEW first \in X, NEW step \in [X -> X]
  PROVE  \E f \in [Nat -> X] : f[0] = first /\ \A n \in Nat : f[n + 1] = step[f[n]]
  <1> DEFINE W(m) == CHOOSE f \in [0 .. m -> X] : Iterates(f, m, first, step)
             F == [n \in Nat |-> W(n)[n]]
  <1>1. \A m \in Nat : W(m) \in [0 .. m -> X] /\ Iterates(W(m), m, first, step)
    BY IteratesExist
  <1> HIDE DEF W
  <1>2. F \in [Nat -> X] /\ \A n \in Nat : F[n] = W(n)[n]
    BY <1>1
  <1> HIDE DEF F
  <1>3. F[0] = first
    BY <1>1, <1>2 DEF Iterates
  <1>4. ASSUME NEW n \in Nat PROVE F[n + 1] = step[F[n]]
    <2>1. n + 1 \in Nat /\ n \in 0 .. (n + 1) - 1
      OBVIOUS
    <2>2. W(n + 1)[n + 1] = step[W(n + 1)[n]]
      BY <1>1, <2>1 DEF Iterates
    <2>3. PICK f, g : f = W(n + 1) /\ g = W(n)
      OBVIOUS
    <2>4. f[n] = g[n]
      BY <1>1, <2>1, <2>3, IteratesAgree
    <2> QED BY <1>2, <2>1, <2>2, <2>3, <2>4
  <1> QED BY <1>2, <1>3, <1>4

-------------------------------------------------------------------------------
(* What is needed of the storage: cells that look like headers have lengths. *)
Cell(v) == v \in Items \cup {Junk} \/ ("len" \in DOMAIN v /\ v.len \in Nat)
Cells(mem) == mem = [o \in Offsets |-> mem[o]] /\ \A o \in Offsets : Cell(mem[o])

(* The facts about the constants that the proofs use.                        *)
LEMMA Sizes ==
  /\ Size \in Nat /\ Size > 0 /\ Header \in Nat /\ Header > 0 /\ Align \in Nat /\ Align > 0
  /\ Offsets = 0 .. Size - 1 /\ 0 \in Offsets /\ Kind \in {"nosplit", "allowsplit", "byte"}
  /\ Items = Senders /\ Senders \cap Receivers = {}
  BY SizeAssumption, KindAssumption, TasksAssumption DEF Offsets

(* A quotient and its remainder.                                             *)
LEMMA Division ==
  ASSUME NEW m \in Int, NEW d \in Int, d > 0
  PROVE  m \div d \in Int /\ m % d \in 0 .. d - 1 /\ m = d * (m \div d) + (m % d)
  <1>1. m \div d \in Int /\ m % d \in 0 .. d - 1
    BY Z3
  <1>2. m = d * (m \div d) + (m % d)
    BY Z3
  <1> QED BY <1>1, <1>2

(* Multiples of the alignment.                                               *)
Aligned(x) == \E q \in Int : x = Align * q

(* Sums and differences of multiples are multiples.                          *)
LEMMA AlignedSum ==
  ASSUME NEW x, NEW y, Aligned(x), Aligned(y)
  PROVE  x \in Int /\ y \in Int /\ Aligned(x + y) /\ Aligned(x - y) /\ (x < y => x + Align <= y)
  <1>1. PICK q \in Int : x = Align * q
    BY DEF Aligned
  <1>2. PICK r \in Int : y = Align * r
    BY DEF Aligned
  <1>3. Align \in Int /\ Align > 0
    BY Sizes
  <1>4. x + y = Align * (q + r) /\ x - y = Align * (q - r) /\ x \in Int /\ y \in Int
    BY <1>1, <1>2, <1>3
  <1>5. q + r \in Int /\ q - r \in Int
    OBVIOUS
  <1>6. ASSUME x < y PROVE x + Align <= y
    <2>1. q < r
      <3> SUFFICES ASSUME r <= q PROVE FALSE
        OBVIOUS
      <3>1. Align * r <= Align * q
        BY <1>3
      <3> QED BY <1>1, <1>2, <1>4, <1>6, <3>1
    <2>2. Align * (q + 1) <= Align * r
      BY <1>3, <2>1
    <2>3. Align * (q + 1) = Align * q + Align
      BY <1>3
    <2> QED BY <1>1, <1>2, <2>2, <2>3
  <1> QED BY <1>4, <1>5, <1>6 DEF Aligned

(* The sizes that are multiples, in buffers of items.                        *)
LEMMA AlignedSizes ==
  ASSUME Kind # "byte"
  PROVE  Aligned(Size) /\ Aligned(Header) /\ Aligned(0)
  <1>1. Align \in Int /\ Align > 0 /\ Size \in Int /\ Header \in Int
    BY Sizes
  <1>2. Size % Align = 0 /\ Header % Align = 0
    BY SizeAssumption
  <1>3. /\ Size \div Align \in Int /\ Size = Align * (Size \div Align) + (Size % Align)
        /\ Header \div Align \in Int /\ Header = Align * (Header \div Align) + (Header % Align)
    BY <1>1, Division
  <1>4. PICK q, r : q = Size \div Align /\ r = Header \div Align
    OBVIOUS
  <1>5. q \in Int /\ r \in Int /\ Size = Align * q /\ Header = Align * r
    <2>1. Align * q \in Int /\ Align * r \in Int
      BY <1>1, <1>3, <1>4
    <2> QED BY <1>2, <1>3, <1>4, <2>1
  <1>6. 0 = Align * 0
    BY <1>1
  <1> QED BY <1>5, <1>6 DEF Aligned

(* Lengths are rounded up to a length.                                       *)
LEMMA AlignSizeType ==
  ASSUME NEW n \in Nat
  PROVE  /\ AlignSize(n) \in Nat /\ AlignSize(n) >= n
         /\ AlignSize(n) < n + Align /\ Aligned(AlignSize(n))
  <1>1. PICK m, q, r : m = n + Align - 1 /\ q = m \div Align /\ r = m % Align
    OBVIOUS
  <1>2. m \in Int /\ Align \in Int /\ Align > 0
    BY <1>1, Sizes
  <1>3. q \in Int /\ r \in 0 .. Align - 1 /\ m = Align * q + r
    BY <1>1, <1>2, Division
  <1>4. PICK x : x = q * Align
    OBVIOUS
  <1>5. q * Align \in Int /\ q * Align = Align * q
    BY <1>2, <1>3
  <1>6. x \in Int /\ m = x + r
    BY <1>3, <1>4, <1>5
  <1>7. x >= n /\ x < n + Align
    BY <1>1, <1>2, <1>3, <1>6
  <1>8. AlignSize(n) = x
    BY <1>1, <1>4 DEF AlignSize
  <1>9. Aligned(x)
    BY <1>3, <1>4, <1>5 DEF Aligned
  <1> QED BY <1>6, <1>7, <1>8, <1>9

(* Past the end of an item is a place for a header.                          *)
LEMMA WrapAroundType ==
  ASSUME NEW p \in Nat
  PROVE  WrapAround(p) \in Offsets /\ (Kind # "byte" /\ Aligned(p) => Aligned(WrapAround(p)))
  BY Sizes, AlignedSizes DEF WrapAround

(* The length in a header, or in what is taken for one.                      *)
LEMMA HeaderLen ==
  ASSUME NEW b, Cells(b.mem), NEW p \in Offsets
  PROVE  HeaderAt(b, p).len \in Nat
  <1>1. NewHeader(0, Junk, 0).len = 0
    BY DEF NewHeader
  <1> QED BY <1>1 DEF HeaderAt, HasHeader, Cells, Cell

(* The next item is in the storage area.                                     *)
LEMMA PastItemType ==
  ASSUME NEW b, Cells(b.mem), NEW p \in Offsets
  PROVE  PastItem(b, p) \in Offsets
  <1>1. HeaderAt(b, p).len \in Nat
    BY HeaderLen
  <1>2. PICK n : n = AlignSize(HeaderAt(b, p).len)
    OBVIOUS
  <1>3. n \in Nat
    BY <1>1, <1>2, AlignSizeType
  <1>4. p + Header + n \in Nat
    BY <1>3, Sizes
  <1>5. WrapAround(p + Header + n) \in Offsets
    BY <1>4, WrapAroundType
  <1> QED BY <1>2, <1>5, Sizes DEF PastItem

(* Wherever the loop of prvReturnItemDefault ends is in the storage area.    *)
LEMMA FreePointerType ==
  ASSUME NEW b, Cells(b.mem), b.free \in Offsets
  PROVE  FreePointer(b) \in Offsets
  <1> DEFINE Go(p) == p # b.read /\ Passed(HeaderAt(b, p), HeaderAt(b, p).freed)
             Def(f) == [n \in Nat |-> [p \in Offsets |->
                          IF n > 0 /\ p # b.read /\ Passed(HeaderAt(b, p), HeaderAt(b, p).freed)
                          THEN f[n - 1][PastItem(b, p)] ELSE p]]
             skip == CHOOSE f : f = Def(f)
             X == [Offsets -> Offsets]
             first == [p \in Offsets |-> p]
             step == [h \in X |-> [p \in Offsets |-> IF Go(p) THEN h[PastItem(b, p)] ELSE p]]
  <1>1. FreePointer(b) = skip[Size][b.free]
    BY DEF FreePointer, SkipItems
  <1>2. \A p \in Offsets : PastItem(b, p) \in Offsets
    BY PastItemType
  <1>3. first \in X /\ step \in [X -> X]
    <2> HIDE DEF Go
    <2> QED BY <1>2
  <1>4. PICK g \in [Nat -> X] : g[0] = first /\ \A n \in Nat : g[n + 1] = step[g[n]]
    <2> HIDE DEF X, first, step
    <2> QED BY <1>3, IterateExists
  <1>5. ASSUME NEW n \in Nat, NEW p \in Offsets
        PROVE  g[n][p] = IF n > 0 /\ Go(p) THEN g[n - 1][PastItem(b, p)] ELSE p
    <2> HIDE DEF Go
    <2>1. CASE n = 0
      BY <1>4, <2>1
    <2>2. CASE n > 0
      <3>1. n - 1 \in Nat /\ (n - 1) + 1 = n
        BY <2>2
      <3>2. g[n] = step[g[n - 1]] /\ g[n - 1] \in X
        BY <1>4, <3>1
      <3> QED BY <2>2, <3>2
    <2> QED BY <2>1, <2>2
  <1>6. g = Def(g)
    <2> SUFFICES \A n \in Nat : g[n] = Def(g)[n]
      BY <1>4
    <2> TAKE n \in Nat
    <2>1. g[n] \in X
      BY <1>4
    <2>2. \A p \in Offsets : g[n][p] = Def(g)[n][p]
      BY <1>5
    <2>3. Def(g)[n] = [p \in Offsets |-> Def(g)[n][p]]
      OBVIOUS
    <2>4. g[n] = [p \in Offsets |-> g[n][p]]
      BY <2>1
    <2> QED BY <2>2, <2>3, <2>4, Zenon
  <1>7. skip = Def(skip)
    <2> HIDE DEF Def
    <2> QED BY <1>6
  <1> HIDE DEF skip
  <1>8. \A n \in Nat, p \in Offsets :
          skip[n][p] = IF n > 0 /\ Go(p) THEN skip[n - 1][PastItem(b, p)] ELSE p
    <2>1. PICK s : s = skip
      OBVIOUS
    <2>2. s = Def(s)
      BY <1>7, <2>1
    <2>3. \A n \in Nat : s[n] = Def(s)[n]
      BY <2>2
    <2>4. \A n \in Nat, p \in Offsets :
            Def(s)[n][p] = IF n > 0 /\ Go(p) THEN s[n - 1][PastItem(b, p)] ELSE p
      OBVIOUS
    <2> HIDE DEF Go, Def
    <2> QED BY <2>1, <2>3, <2>4
  <1> DEFINE S == {n \in Nat : \A p \in Offsets : skip[n][p] \in Offsets}
  <1> HIDE DEF Go
  <1>9. 0 \in S
    BY <1>8
  <1>10. ASSUME NEW n \in Nat, n \in S PROVE n + 1 \in S
    <2>1. n + 1 \in Nat /\ n + 1 > 0 /\ (n + 1) - 1 = n
      OBVIOUS
    <2>2. \A p \in Offsets : skip[n + 1][p] = IF Go(p) THEN skip[n][PastItem(b, p)] ELSE p
      BY <1>8, <2>1
    <2> QED BY <1>2, <1>10, <2>2
  <1> HIDE DEF S
  <1>11. Size \in S
    BY <1>9, <1>10, Induction, Sizes
  <1> QED BY <1>1, <1>11 DEF S

(* Headers are cells, and stay so when a flag is set.                        *)
LEMMA HeaderCells ==
  /\ \A v \in Items \cup {Junk} : Cell(v)
  /\ \A n \in Nat : \A i, k : Cell(NewHeader(n, i, k)) /\ Cell([NewHeader(n, i, k) EXCEPT !.split = TRUE])
  /\ Cell(Dummy)
  /\ \A i, k : \A n : NewHeader(n, i, k).item = i
  <1>1. \A v \in Items \cup {Junk} : Cell(v)
    BY DEF Cell
  <1>2. ASSUME NEW n \in Nat, NEW i, NEW k
        PROVE  Cell(NewHeader(n, i, k)) /\ Cell([NewHeader(n, i, k) EXCEPT !.split = TRUE])
    BY Zenon DEF Cell, NewHeader
  <1>3. Cell(Dummy)
    <2>1. 0 \in Nat
      OBVIOUS
    <2> QED BY <2>1, Zenon DEF Cell, Dummy, NewHeader
  <1>4. \A i, k : \A n : NewHeader(n, i, k).item = i
    BY DEF NewHeader
  <1> QED BY <1>1, <1>2, <1>3, <1>4

(* What is found at a place is a header, or taken for an empty one.          *)
LEMMA FoundHeader ==
  ASSUME NEW b, Cells(b.mem), NEW p \in Offsets
  PROVE  /\ Cell([HeaderAt(b, p) EXCEPT !.split = FALSE, !.written = TRUE])
         /\ Cell([HeaderAt(b, p) EXCEPT !.split = FALSE, !.freed = TRUE])
  <1>1. PICK h : h = HeaderAt(b, p)
    OBVIOUS
  <1>2. "len" \in DOMAIN NewHeader(0, Junk, 0) /\ NewHeader(0, Junk, 0).len = 0
    BY Zenon DEF NewHeader
  <1>3. "len" \in DOMAIN h /\ h.len \in Nat
    BY <1>1, <1>2 DEF HeaderAt, HasHeader, Cells, Cell
  <1>4. /\ Cell([h EXCEPT !.split = FALSE, !.written = TRUE])
        /\ Cell([h EXCEPT !.split = FALSE, !.freed = TRUE])
    BY <1>3, Zenon DEF Cell
  <1> QED BY <1>1, <1>4

(* The ways the storage is written.                                          *)
LEMMA WriteCells ==
  ASSUME NEW mem, Cells(mem), NEW v, Cell(v)
  PROVE  /\ \A from, n : Cells(Fill(mem, from, n, v))
         /\ \A p \in Offsets : Cells([mem EXCEPT ![p] = v])
         /\ \A p \in Offsets : Cells(PutHeader(mem, p, v))
         /\ \A from, n : Cells(GiveBack(mem, from, n))
  <1>1. Cell(Junk)
    BY HeaderCells
  <1>2. ASSUME NEW m, Cells(m), NEW x, Cell(x), NEW from, NEW n
        PROVE  Cells(Fill(m, from, n, x))
    BY <1>2 DEF Cells, Fill
  <1>3. ASSUME NEW m, Cells(m), NEW p \in Offsets PROVE Cells([m EXCEPT ![p] = v])
    BY <1>3 DEF Cells
  <1>4. ASSUME NEW p \in Offsets PROVE Cells(PutHeader(mem, p, v))
    <2>1. PICK m : m = Fill(mem, p, Header, Junk)
      OBVIOUS
    <2>2. Cells([m EXCEPT ![p] = v])
      BY <1>1, <1>2, <1>3, <2>1
    <2> QED BY <2>1, <2>2 DEF PutHeader
  <1>5. ASSUME NEW from, NEW n PROVE Cells(GiveBack(mem, from, n))
    BY <1>1 DEF Cells, GiveBack
  <1> QED BY <1>2, <1>3, <1>4, <1>5

-------------------------------------------------------------------------------
Fields == {"acquire", "write", "read", "free", "full", "waiting", "mem"}
Shape(b) == b = [x \in Fields |-> b[x]]

(* The fields that the functions of the critical section assign.             *)
WithAcquired(b, m, p, f) == [b EXCEPT !.mem = m, !.acquire = p, !.full = f]
WithDone(b, m, w) == [b EXCEPT !.mem = m, !.waiting = w]
WithWrite(b, p) == [b EXCEPT !.write = p]
WithSent(b, m, p, f, w) ==
  [b EXCEPT !.mem = m, !.acquire = p, !.write = p, !.full = f, !.waiting = w]
WithRead(b, p, w) == [b EXCEPT !.read = p, !.waiting = w]
WithMem(b, m) == [b EXCEPT !.mem = m]
WithFree(b, p, f) == [b EXCEPT !.free = p, !.full = f]
WithFreed(b, p) == [b EXCEPT !.free = p, !.full = FALSE]

(* prvAcquireItemNoSplit assigns these.                                      *)
LEMMA SetAcquired ==
  ASSUME NEW b, Shape(b), NEW m, NEW p, NEW f, NEW c, c = WithAcquired(b, m, p, f)
  PROVE  /\ Shape(c) /\ c.acquire = p /\ c.write = b.write /\ c.read = b.read
         /\ c.free = b.free /\ c.full = f /\ c.waiting = b.waiting /\ c.mem = m
  BY Zenon DEF Shape, Fields, WithAcquired

(* prvSendItemDoneNoSplit assigns these first, then pucWrite.                *)
LEMMA SetDone ==
  ASSUME NEW b, Shape(b), NEW m, NEW w, NEW c, c = WithDone(b, m, w)
  PROVE  /\ Shape(c) /\ c.acquire = b.acquire /\ c.write = b.write /\ c.read = b.read
         /\ c.free = b.free /\ c.full = b.full /\ c.waiting = w /\ c.mem = m
  BY Zenon DEF Shape, Fields, WithDone

(* The loop that advances pucWrite.                                          *)
LEMMA SetWrite ==
  ASSUME NEW b, Shape(b), NEW p, NEW c, c = WithWrite(b, p)
  PROVE  /\ Shape(c) /\ c.acquire = b.acquire /\ c.write = p /\ c.read = b.read
         /\ c.free = b.free /\ c.full = b.full /\ c.waiting = b.waiting /\ c.mem = b.mem
  BY Zenon DEF Shape, Fields, WithWrite

(* prvCopyItemAllowSplit and prvCopyItemByteBuf assign these.                *)
LEMMA SetSent ==
  ASSUME NEW b, Shape(b), NEW m, NEW p, NEW f, NEW w, NEW c, c = WithSent(b, m, p, f, w)
  PROVE  /\ Shape(c) /\ c.acquire = p /\ c.write = p /\ c.read = b.read
         /\ c.free = b.free /\ c.full = f /\ c.waiting = w /\ c.mem = m
  BY Zenon DEF Shape, Fields, WithSent

(* prvGetItemDefault and prvGetItemByteBuf assign these.                     *)
LEMMA SetRead ==
  ASSUME NEW b, Shape(b), NEW p, NEW w, NEW c, c = WithRead(b, p, w)
  PROVE  /\ Shape(c) /\ c.acquire = b.acquire /\ c.write = b.write /\ c.read = p
         /\ c.free = b.free /\ c.full = b.full /\ c.waiting = w /\ c.mem = b.mem
  BY Zenon DEF Shape, Fields, WithRead

(* prvReturnItemDefault marks an item, then advances pucFree.                *)
LEMMA SetMem ==
  ASSUME NEW b, Shape(b), NEW m, NEW c, c = WithMem(b, m)
  PROVE  /\ Shape(c) /\ c.acquire = b.acquire /\ c.write = b.write /\ c.read = b.read
         /\ c.free = b.free /\ c.full = b.full /\ c.waiting = b.waiting /\ c.mem = m
  BY Zenon DEF Shape, Fields, WithMem

(* The loop that advances pucFree.                                           *)
LEMMA SetFree ==
  ASSUME NEW b, Shape(b), NEW p, NEW f, NEW c, c = WithFree(b, p, f)
  PROVE  /\ Shape(c) /\ c.acquire = b.acquire /\ c.write = b.write /\ c.read = b.read
         /\ c.free = p /\ c.full = f /\ c.waiting = b.waiting /\ c.mem = b.mem
  BY Zenon DEF Shape, Fields, WithFree

(* prvReturnItemByteBuf assigns these.                                       *)
LEMMA SetFreed ==
  ASSUME NEW b, Shape(b), NEW p, NEW c, c = WithFreed(b, p)
  PROVE  /\ Shape(c) /\ c.acquire = b.acquire /\ c.write = b.write /\ c.read = b.read
         /\ c.free = p /\ ~c.full /\ c.waiting = b.waiting /\ c.mem = b.mem
  BY Zenon DEF Shape, Fields, WithFreed

(* What is known of a buffer: where the free space begins and ends, and that *)
(* the full flag is only set when there is none.                             *)
Sound(b) ==
  /\ Shape(b) /\ Cells(b.mem)
  /\ b.acquire \in Offsets /\ b.free \in Offsets
  /\ b.full => b.acquire = b.free
  /\ Kind # "byte" => Aligned(b.acquire)
  /\ Kind = "byte" => b.read \in Offsets /\ b.write \in Offsets

(* A buffer into which an item fits is not full, and has free space.         *)
LEMMA FitsIsFree ==
  ASSUME NEW b, Sound(b), NEW n \in Nat, CheckItemFits(b, n)
  PROVE  ~b.full /\ GetFreeSize(b) > 0
  <1>1. ~b.full
    BY Sizes DEF Sound, CheckItemFits, CheckItemFitsByteBuffer, CheckItemFitsDefault
  <1> QED BY <1>1, Sizes DEF Sound, GetFreeSize

(* prvCopyItemNoSplit keeps a buffer sound.                                  *)
LEMMA CopyNoSplitSound ==
  ASSUME NEW b, Sound(b), Kind = "nosplit", NEW t \in Items, NEW n \in Nat, CheckItemFits(b, n),
         NEW c, c = CopyItemNoSplit(b, t, n)
  PROVE  Sound(c)
  <1>1. PICK start : start = AcquireStart(b, n)
    OBVIOUS
  <1>2. start \in Offsets /\ b.acquire \in Offsets /\ Cells(b.mem) /\ Shape(b) /\ ~b.full
    BY <1>1, FitsIsFree, Sizes DEF Sound, AcquireStart
  <1>3. PICK next : next = WrapAround(start + Header + AlignSize(n))
    OBVIOUS
  <1>4. next \in Offsets /\ Aligned(next)
    <2>1. PICK k : k = AlignSize(n)
      OBVIOUS
    <2>2. k \in Nat /\ Aligned(k) /\ Aligned(Header) /\ Aligned(start)
      BY <1>1, <2>1, AlignSizeType, AlignedSizes DEF Sound, AcquireStart
    <2>3. start + Header + k \in Nat
      BY <1>2, <2>2, Sizes
    <2>4. Aligned(start + Header + k)
      BY <2>2, AlignedSum
    <2> QED BY <1>3, <2>1, <2>3, <2>4, WrapAroundType
  <1>5. PICK m1 : m1 = IF start = b.acquire THEN b.mem ELSE PutHeader(b.mem, b.acquire, Dummy)
    OBVIOUS
  <1>6. Cells(m1)
    BY <1>2, <1>5, HeaderCells, WriteCells
  <1>7. PICK m2 : m2 = PutHeader(m1, start, NewHeader(n, t, 1))
    OBVIOUS
  <1>8. Cells(m2) /\ m2[start] = NewHeader(n, t, 1)
    <2>1. Cells(m2)
      BY <1>2, <1>6, <1>7, HeaderCells, WriteCells
    <2> QED BY <1>2, <1>7, <2>1 DEF PutHeader, Fill
  <1>9. PICK m3 : m3 = Fill(m2, start + Header, n, Junk)
    OBVIOUS
  <1>10. Cells(m3) /\ m3[start] = NewHeader(n, t, 1)
    <2>1. Cells(m3)
      BY <1>8, <1>9, HeaderCells, WriteCells
    <2>2. start \notin (start + Header) .. (start + Header) + n - 1
      BY <1>2, Sizes
    <2> QED BY <1>2, <1>8, <1>9, <2>1, <2>2 DEF Fill
  <1>11. PICK f : f = (b.full \/ next = b.free)
    OBVIOUS
  <1>12. PICK a : a = AcquireItem(b, t, n)
    OBVIOUS
  <1>13. a = WithAcquired(b, m3, next, f)
    BY <1>1, <1>3, <1>5, <1>7, <1>9, <1>11, <1>12, Zenon DEF AcquireItem, WithAcquired
  <1>14. /\ Shape(a) /\ a.acquire = next /\ a.write = b.write /\ a.read = b.read
         /\ a.free = b.free /\ a.full = f /\ a.mem = m3
    BY <1>2, <1>13, SetAcquired
  <1>15. PICK h : h = HeaderAt(a, start)
    OBVIOUS
  <1>16. h.item \in Items \cup {Junk}
    <2>1. NewHeader(n, t, 1).item = t /\ NewHeader(0, Junk, 0).item = Junk
      BY HeaderCells
    <2> QED BY <1>10, <1>14, <1>15, <2>1 DEF HeaderAt
  <1>17. PICK m4 : m4 = Fill(a.mem, start + Header, h.len, h.item)
    OBVIOUS
  <1>18. Cells(m4)
    BY <1>10, <1>14, <1>16, <1>17, HeaderCells, WriteCells
  <1>19. PICK g : g = [h EXCEPT !.split = FALSE, !.written = TRUE]
    OBVIOUS
  <1>20. Cell(g)
    BY <1>2, <1>10, <1>14, <1>15, <1>19, FoundHeader
  <1>21. PICK m5 : m5 = [m4 EXCEPT ![start] = g]
    OBVIOUS
  <1>22. Cells(m5)
    BY <1>2, <1>18, <1>20, <1>21, WriteCells
  <1>23. PICK d : d = WithDone(a, m5, a.waiting + 1)
    OBVIOUS
  <1>24. PICK p : p = SkipItems(d, a.write, a.acquire, LAMBDA x : x.written)
    OBVIOUS
  <1>25. c = WithWrite(d, p)
    <2>1. c = SendItemDone(a, start)
      BY <1>1, <1>12 DEF CopyItemNoSplit
    <2> QED BY <1>15, <1>17, <1>19, <1>21, <1>23, <1>24, <2>1, Zenon DEF SendItemDone, WithDone, WithWrite
  <1>26. /\ Shape(d) /\ d.acquire = next /\ d.free = b.free /\ d.full = f /\ d.mem = m5
    BY <1>14, <1>23, SetDone
  <1>27. /\ Shape(c) /\ c.acquire = next /\ c.free = b.free /\ c.full = f /\ c.mem = m5
    BY <1>25, <1>26, SetWrite
  <1> QED BY <1>2, <1>4, <1>11, <1>22, <1>27 DEF Sound

(* prvCopyItemAllowSplit keeps a buffer sound.                               *)
LEMMA CopyAllowSplitSound ==
  ASSUME NEW b, Sound(b), Kind = "allowsplit", NEW t \in Items, NEW n \in Nat, CheckItemFits(b, n),
         NEW c, c = CopyItemAllowSplit(b, t, n)
  PROVE  Sound(c)
  <1>1. b.acquire \in Offsets /\ Cells(b.mem) /\ Shape(b) /\ ~b.full
    BY FitsIsFree DEF Sound
  <1>2. PICK k : k = AlignSize(n)
    OBVIOUS
  <1>3. k \in Nat /\ k >= n /\ k < n + Align /\ Aligned(k)
    BY <1>2, AlignSizeType
  <1>4. PICK rem, n1 : rem = Size - b.acquire /\ n1 = rem - Header
    OBVIOUS
  <1>5. rem \in Nat /\ n1 \in Int /\ Aligned(n1) /\ Aligned(b.acquire) /\ Aligned(Header)
    <2>1. rem \in Nat /\ n1 \in Int
      BY <1>1, <1>4, Sizes
    <2>2. Aligned(b.acquire) /\ Aligned(Size) /\ Aligned(Header)
      BY AlignedSizes DEF Sound
    <2>3. Aligned(rem)
      BY <1>4, <2>2, AlignedSum
    <2> QED BY <1>4, <2>1, <2>2, <2>3, AlignedSum
  <1>6. PICK wraps : wraps = (rem < k + Header)
    OBVIOUS
  <1>7. PICK split : split = (wraps /\ n1 > 0)
    OBVIOUS
  <1>7a. (wraps <=> rem < k + Header) /\ (split <=> rem < k + Header /\ n1 > 0)
    BY <1>6, <1>7, Zenon
  <1>8. PICK n2, used2, p2 : /\ n2 = (IF split THEN n - n1 ELSE n)
                             /\ used2 = (IF split THEN k - n1 ELSE k)
                             /\ p2 = (IF wraps THEN 0 ELSE b.acquire)
    OBVIOUS
  <1>9. p2 \in Offsets /\ used2 \in Nat
    <2>1. p2 \in Offsets
      BY <1>1, <1>8, Sizes
    <2>2. split => k - n1 \in Nat
      BY <1>3, <1>4, <1>5, <1>7a, Sizes
    <2> QED BY <1>3, <1>8, <2>1, <2>2
  <1>10. PICK next : next = WrapAround(p2 + Header + used2)
    OBVIOUS
  <1>11. next \in Offsets /\ Aligned(next)
    <2>1. p2 + Header + used2 \in Nat
      BY <1>9, Sizes
    <2>2. Aligned(p2) /\ Aligned(used2)
      BY <1>3, <1>5, <1>8, AlignedSizes, AlignedSum
    <2>3. Aligned(p2 + Header)
      BY <1>5, <2>2, AlignedSum
    <2>4. Aligned(p2 + Header + used2)
      BY <2>2, <2>3, AlignedSum
    <2> QED BY <1>10, <2>1, <2>4, WrapAroundType
  <1>12. PICK h1 : h1 = [NewHeader(n1, t, 1) EXCEPT !.split = TRUE]
    OBVIOUS
  <1>13. PICK ma : ma = PutHeader(b.mem, b.acquire, h1)
    OBVIOUS
  <1>14. PICK m1 : m1 = IF split THEN Fill(ma, b.acquire + Header, n1, t)
                        ELSE IF wraps THEN PutHeader(b.mem, b.acquire, Dummy) ELSE b.mem
    OBVIOUS
  <1>15. Cells(m1)
    <2>1. CASE split
      <3>1. n1 \in Nat
        BY <1>5, <1>7a, <2>1
      <3>2. Cells(ma)
        BY <1>1, <1>12, <1>13, <3>1, HeaderCells, WriteCells
      <3> QED BY <1>14, <2>1, <3>2, HeaderCells, WriteCells
    <2>2. CASE ~split
      BY <1>1, <1>14, <2>2, HeaderCells, WriteCells
    <2> QED BY <2>1, <2>2
  <1>16. PICK m : m = PutPart(m1, p2, n2, t, IF split THEN 2 ELSE 1)
    OBVIOUS
  <1>17. n2 \in Nat
    <2>1. CASE split
      <3>1. n1 < k
        BY <1>3, <1>4, <1>5, <1>7a, <2>1, Sizes
      <3>2. n1 + Align <= k
        BY <1>3, <1>5, <3>1, AlignedSum
      <3> QED BY <1>3, <1>5, <1>8, <2>1, <3>2, Sizes
    <2> QED BY <1>8, <2>1
  <1>18. Cells(m)
    <2>1. PICK h2 : h2 = NewHeader(n2, t, IF split THEN 2 ELSE 1)
      OBVIOUS
    <2>2. Cell(h2)
      BY <1>17, <2>1, HeaderCells
    <2>3. PICK mb : mb = PutHeader(m1, p2, h2)
      OBVIOUS
    <2>4. Cells(mb)
      BY <1>9, <1>15, <2>2, <2>3, WriteCells
    <2>5. Cells(Fill(mb, p2 + Header, n2, t))
      BY <2>4, HeaderCells, WriteCells
    <2> QED BY <1>16, <2>1, <2>3, <2>5 DEF PutPart
  <1>19. PICK f, w : f = (b.full \/ next = b.free) /\ w = b.waiting + (IF split THEN 2 ELSE 1)
    OBVIOUS
  <1>20. c = WithSent(b, m, next, f, w)
    BY <1>2, <1>4, <1>6, <1>7, <1>8, <1>10, <1>12, <1>13, <1>14, <1>16, <1>19, Zenon
       DEF CopyItemAllowSplit, WithSent
  <1>21. Shape(c) /\ c.acquire = next /\ c.free = b.free /\ c.full = f /\ c.mem = m
    BY <1>1, <1>20, SetSent
  <1> QED BY <1>1, <1>11, <1>18, <1>19, <1>21 DEF Sound

(* prvCopyItemByteBuf keeps a buffer sound.                                  *)
LEMMA CopyByteBufSound ==
  ASSUME NEW b, Sound(b), Kind = "byte", NEW t \in Items, NEW n \in 0 .. Size, CheckItemFits(b, n),
         NEW c, c = CopyItemByteBuf(b, n, LAMBDA k : t)
  PROVE  Sound(c)
  <1>1. b.acquire \in Offsets /\ Cells(b.mem) /\ Shape(b) /\ ~b.full
    BY FitsIsFree DEF Sound
  <1>2. PICK next : next = Ahead(b.acquire, n)
    OBVIOUS
  <1>3. next \in Offsets
    BY <1>1, <1>2, Sizes DEF Ahead
  <1> DEFINE Index(o) == IF o >= b.acquire THEN o - b.acquire ELSE o - b.acquire + Size
  <1>4. PICK m : m = [o \in Offsets |-> IF Index(o) < n THEN t ELSE b.mem[o]]
    OBVIOUS
  <1>5. Cells(m)
    <2> HIDE DEF Index
    <2>1. Cell(t)
      BY HeaderCells
    <2> QED BY <1>1, <1>4, <2>1 DEF Cells
  <1>6. PICK f, w : f = (b.full \/ next = b.free) /\ w = b.waiting + n
    OBVIOUS
  <1>7. c = WithSent(b, m, next, f, w)
    BY <1>2, <1>4, <1>6, Zenon DEF CopyItemByteBuf, WithSent
  <1>8. /\ Shape(c) /\ c.acquire = next /\ c.write = next /\ c.read = b.read
        /\ c.free = b.free /\ c.full = f /\ c.mem = m
    BY <1>1, <1>7, SetSent
  <1> QED BY <1>1, <1>3, <1>5, <1>6, <1>8 DEF Sound

(* The lengths that are sent.                                                *)
LEMMA LengthType ==
  ASSUME NEW n \in Lengths
  PROVE  n \in Nat /\ (Kind = "byte" => n \in 0 .. Size)
  <1>1. n \in 1 .. MaxItemSize
    BY TasksAssumption
  <1>2. CASE Kind = "byte"
    BY <1>1, <1>2, Sizes DEF MaxItemSize
  <1>3. CASE Kind = "allowsplit"
    BY <1>1, <1>3, Sizes DEF MaxItemSize
  <1>4. CASE Kind = "nosplit"
    <2>1. PICK h : h = Size \div 2
      OBVIOUS
    <2>2. h \in Nat
      BY <2>1, Sizes
    <2>3. PICK k : k = AlignSize(h)
      OBVIOUS
    <2>4. k \in Nat
      BY <2>2, <2>3, AlignSizeType
    <2> QED BY <1>1, <1>4, <2>1, <2>3, <2>4, Sizes DEF MaxItemSize
  <1> QED BY <1>2, <1>3, <1>4, Sizes

(* Sending keeps a buffer sound, whatever its kind.                          *)
LEMMA CopySound ==
  ASSUME NEW b, Sound(b), NEW t \in Senders, NEW n \in Lengths, CheckItemFits(b, n),
         NEW c, c = Copy(b, t, n)
  PROVE  Sound(c)
  <1>1. t \in Items
    BY Sizes
  <1>2. CASE Kind = "nosplit"
    BY <1>1, <1>2, LengthType, CopyNoSplitSound DEF Copy
  <1>3. CASE Kind = "allowsplit"
    BY <1>1, <1>3, LengthType, CopyAllowSplitSound DEF Copy
  <1>4. CASE Kind = "byte"
    <2>1. c = CopyItemByteBuf(b, n, LAMBDA k : t)
      BY <1>4 DEF Copy
    <2> QED BY <1>1, <1>4, <2>1, LengthType, CopyByteBufSound
  <1> QED BY <1>2, <1>3, <1>4, Sizes

(* Free space is between the same pointers.                                  *)
SameSpace(b, c) == c.acquire = b.acquire /\ c.free = b.free /\ c.full = b.full

(* Then the same items fit.                                                  *)
LEMMA SameFits ==
  ASSUME NEW b, NEW c, SameSpace(b, c)
  PROVE  GetFreeSize(c) = GetFreeSize(b) /\ \A n : CheckItemFits(c, n) = CheckItemFits(b, n)
  BY Zenon DEF SameSpace, GetFreeSize, CheckItemFits, CheckItemFitsDefault, CheckItemFitsByteBuffer

(* prvGetItemDefault changes neither.                                        *)
LEMMA GetItemSound ==
  ASSUME NEW b, Sound(b), Kind # "byte", NEW c, c = GetItem(b)
  PROVE  Sound(c) /\ SameSpace(b, c)
  <1>1. PICK p, w : p = PastItem(b, GetItemStart(b)) /\ w = b.waiting - 1
    OBVIOUS
  <1>2. c = WithRead(b, p, w)
    BY <1>1, Zenon DEF GetItem, WithRead
  <1>3. /\ Shape(c) /\ c.acquire = b.acquire /\ c.free = b.free /\ c.full = b.full
        /\ c.mem = b.mem
    BY <1>2, SetRead DEF Sound
  <1> QED BY <1>3 DEF Sound, SameSpace

(* Nor does prvGetItemByteBuf.                                               *)
LEMMA GetBytesSound ==
  ASSUME NEW b, Sound(b), Kind = "byte", NEW c, c = GetBytes(b, 0)
  PROVE  Sound(c) /\ SameSpace(b, c)
  <1>1. PICK n : n = GetLen(b, 0)
    OBVIOUS
  <1>2. PICK p, w : p = Ahead(b.read, n) /\ w = b.waiting - n
    OBVIOUS
  <1>3. c = WithRead(b, p, w)
    BY <1>1, <1>2, Zenon DEF GetBytes, WithRead
  <1>4. b.read \in Offsets /\ b.write \in Offsets
    BY DEF Sound
  <1>5. p \in Offsets
    <2>1. n = IF b.read > b.write \/ b.full THEN Size - b.read ELSE b.write - b.read
      BY <1>1 DEF GetLen
    <2>2. n \in 0 .. Size - b.read
      BY <1>4, <2>1, Sizes
    <2> QED BY <1>2, <1>4, <2>2, Sizes DEF Ahead
  <1>6. /\ Shape(c) /\ c.acquire = b.acquire /\ c.free = b.free /\ c.full = b.full
        /\ c.mem = b.mem /\ c.read = p /\ c.write = b.write
    BY <1>3, SetRead DEF Sound
  <1> QED BY <1>4, <1>5, <1>6 DEF Sound, SameSpace

(* prvReturnItemDefault moves the end of the free space; it makes no item    *)
(* available.                                                                *)
LEMMA ReturnDefaultSound ==
  ASSUME NEW b, Sound(b), Kind # "byte", NEW p \in Offsets, NEW c, c = ReturnItemDefault(b, p)
  PROVE  Sound(c) /\ (CheckItemAvail(c) => CheckItemAvail(b))
  <1>1. PICK h : h = [HeaderAt(b, p) EXCEPT !.split = FALSE, !.freed = TRUE]
    OBVIOUS
  <1>2. PICK m1 : m1 = [b.mem EXCEPT ![p] = h]
    OBVIOUS
  <1>3. Cells(m1)
    BY <1>1, <1>2, FoundHeader, WriteCells DEF Sound
  <1>4. PICK b1 : b1 = WithMem(b, m1)
    OBVIOUS
  <1>5. /\ Shape(b1) /\ b1.acquire = b.acquire /\ b1.free = b.free /\ b1.full = b.full
        /\ b1.mem = m1 /\ b1.read = b.read /\ b1.write = b.write /\ b1.waiting = b.waiting
    BY <1>4, SetMem DEF Sound
  <1>6. b1 = [b EXCEPT !.mem[p] = h]
    BY <1>2, <1>4, Zenon DEF WithMem
  <1>7. PICK free : free = FreePointer(b1)
    OBVIOUS
  <1>8. free \in Offsets
    BY <1>3, <1>5, <1>7, FreePointerType DEF Sound
  <1>9. PICK f : f = StillFull(b, free)
    OBVIOUS
  <1>10. PICK b2 : b2 = WithFree(b1, free, f)
    OBVIOUS
  <1>11. /\ Shape(b2) /\ b2.acquire = b.acquire /\ b2.free = free /\ b2.full = f
         /\ b2.read = b.read /\ b2.write = b.write /\ b2.waiting = b.waiting
    BY <1>5, <1>10, SetFree
  <1>12. PICK m : m = GiveBack(b1.mem, b.free, GetFreeSize(b2) - GetFreeSize(b))
    OBVIOUS
  <1>13. Cells(m)
    BY <1>3, <1>5, <1>12, HeaderCells, WriteCells
  <1>14. c = WithMem(b2, m)
    BY <1>1, <1>6, <1>7, <1>9, <1>10, <1>12, Zenon DEF ReturnItemDefault, WithFree, WithMem
  <1>15. /\ Shape(c) /\ c.acquire = b.acquire /\ c.free = free /\ c.full = f
         /\ c.mem = m /\ c.read = b.read /\ c.write = b.write /\ c.waiting = b.waiting
    BY <1>11, <1>14, SetMem
  <1>16. f => b.full /\ free = b.acquire
    BY <1>9 DEF StillFull
  <1>17. Sound(c)
    BY <1>8, <1>13, <1>15, <1>16 DEF Sound
  <1>18. CheckItemAvail(c) => CheckItemAvail(b)
    BY <1>15, <1>16 DEF CheckItemAvail
  <1> QED BY <1>17, <1>18

(* prvReturnItemByteBuf too moves the end of the free space.                 *)
LEMMA ReturnByteBufSound ==
  ASSUME NEW b, Sound(b), Kind = "byte", NEW c, c = ReturnItemByteBuf(b)
  PROVE  Sound(c)
  <1>1. PICK p : p = b.read
    OBVIOUS
  <1>2. c = WithFreed(b, p)
    BY <1>1, Zenon DEF ReturnItemByteBuf, WithFreed
  <1>3. /\ Shape(c) /\ c.acquire = b.acquire /\ c.free = p /\ ~c.full
        /\ c.mem = b.mem /\ c.read = b.read /\ c.write = b.write
    BY <1>2, SetFreed DEF Sound
  <1> QED BY <1>1, <1>3 DEF Sound

-------------------------------------------------------------------------------
Calls == [pc : {"idle", "take", "crit", "give"}, len : Lengths \cup {0},
          give : SUBSET {"trans", "recv"}]

(* The task t is where pc says, with an item of n bytes, owing the           *)
(* semaphores g; the others are where they were.                             *)
Moved(new, old, t, pc, n, g) ==
  /\ new \in [Tasks -> Calls]
  /\ new[t].pc = pc /\ new[t].len = n /\ new[t].give = g
  /\ \A u \in Tasks : u # t => new[u] = old[u]

(* The ways a call goes on.                                                  *)
LEMMA CallMoves ==
  ASSUME NEW c \in [Tasks -> Calls], NEW t \in Tasks
  PROVE  /\ \A n \in Lengths : Moved([c EXCEPT ![t].pc = "take", ![t].len = n], c, t, "take", n, c[t].give)
         /\ \A p \in {"take", "crit"} :
              Moved([c EXCEPT ![t].pc = p], c, t, p, c[t].len, c[t].give)
         /\ \A g \in SUBSET {"trans", "recv"} :
              /\ Moved([c EXCEPT ![t].pc = "give", ![t].give = g], c, t, "give", c[t].len, g)
              /\ Moved([c EXCEPT ![t].give = g], c, t, c[t].pc, c[t].len, g)
         /\ Moved([c EXCEPT ![t] = Idle], c, t, "idle", 0, {})
  <1>1. \A n \in Lengths : Moved([c EXCEPT ![t].pc = "take", ![t].len = n], c, t, "take", n, c[t].give)
    BY DEF Moved, Calls
  <1>2. \A p \in {"take", "crit"} :
              Moved([c EXCEPT ![t].pc = p], c, t, p, c[t].len, c[t].give)
    BY DEF Moved, Calls
  <1>3. \A g \in SUBSET {"trans", "recv"} :
              /\ Moved([c EXCEPT ![t].pc = "give", ![t].give = g], c, t, "give", c[t].len, g)
    BY DEF Moved, Calls
  <1>4. \A g \in SUBSET {"trans", "recv"} :
              Moved([c EXCEPT ![t].give = g], c, t, c[t].pc, c[t].len, g)
    BY DEF Moved, Calls
  <1>5. Moved([c EXCEPT ![t] = Idle], c, t, "idle", 0, {})
    BY DEF Moved, Calls, Idle
  <1> QED BY <1>1, <1>2, <1>3, <1>4, <1>5
-------------------------------------------------------------------------------
(* Where the calls are, and what they are about.                             *)
CallsOK ==
  /\ call \in [Tasks -> Calls] /\ isr \in SUBSET {"trans", "recv"} /\ timeouts \in Nat
  /\ \A t \in Senders : call[t].pc \in {"take", "crit"} => call[t].len \in Lengths

(* A call or an interrupt is about to give the semaphore.                    *)
Owed(sem) == sem \in isr \/ \E t \in Tasks : call[t].pc = "give" /\ sem \in call[t].give

(* A wake-up for a receiver is there, is coming, or is being used.           *)
RecvWakeup == recvSem \/ Owed("recv") \/ \E r \in Receivers : call[r].pc = "crit"

(* An item that can be received has one.                                     *)
ItemAnnounced == Kind # "byte" /\ CheckItemAvail(rb) => RecvWakeup

(* A wake-up for a sender is there or is coming.                             *)
TransWakeup == transSem \/ Owed("trans")

(* The tasks inside xRingbufferSend that have not stored their item.         *)
Sending == {t \in Senders : call[t].pc \in {"take", "crit"}}

(* Free space has one, when nobody is there to take it; and so does space    *)
(* for the item of the only task that waits.                                 *)
SpaceAnnounced ==
  timeouts = 0 =>
    /\ Sending = {} /\ GetFreeSize(rb) > 0 => TransWakeup
    /\ \A t \in Senders :
         Sending = {t} /\ call[t].pc = "take" /\ CheckItemFits(rb, call[t].len) => TransWakeup

WakeInv == CallsOK /\ Sound(rb) /\ ItemAnnounced /\ SpaceAnnounced

(* The first state.                                                          *)
LEMMA InitWake == Init => WakeInv
  <1> SUFFICES ASSUME Init PROVE WakeInv
    OBVIOUS
  <1>1. /\ rb = NewRingbuffer /\ transSem = TRUE /\ call = [t \in Tasks |-> Idle]
        /\ isr = {} /\ timeouts = 0
    BY DEF Init
  <1>2. Idle \in Calls /\ Idle.pc = "idle"
    BY DEF Calls, Idle
  <1>3. CallsOK
    BY <1>1, <1>2 DEF CallsOK, Tasks
  <1>4. /\ rb.acquire = 0 /\ rb.free = 0 /\ rb.read = 0 /\ rb.write = 0 /\ rb.full = FALSE
        /\ rb.waiting = 0 /\ rb.mem = [o \in Offsets |-> Junk]
    BY <1>1 DEF NewRingbuffer
  <1>5. Sound(rb)
    <2>1. Shape(rb)
      BY <1>1, Zenon DEF NewRingbuffer, Shape, Fields
    <2>2. Cells(rb.mem)
      BY <1>4, HeaderCells DEF Cells
    <2>3. Kind # "byte" => Aligned(0)
      BY AlignedSizes
    <2> QED BY <1>4, <2>1, <2>2, <2>3, Sizes DEF Sound
  <1>6. ItemAnnounced /\ SpaceAnnounced
    BY <1>1, <1>4 DEF ItemAnnounced, CheckItemAvail, SpaceAnnounced, TransWakeup
  <1> QED BY <1>3, <1>5, <1>6 DEF WakeInv

(* The semaphores that a call or an interrupt gives after storing an item.   *)
LEMMA AfterSendGives ==
  ASSUME NEW b
  PROVE  /\ AfterSend(b) \in SUBSET {"trans", "recv"} /\ "recv" \in AfterSend(b)
         /\ GetFreeSize(b) > 0 => "trans" \in AfterSend(b)
  BY DEF AfterSend

(* Those of xRingbufferReceive.                                              *)
LEMMA AfterReceiveGives ==
  ASSUME NEW b
  PROVE  /\ AfterReceive(b) \in SUBSET {"trans", "recv"}
         /\ CheckItemAvail(b) => "recv" \in AfterReceive(b)
  BY DEF AfterReceive, CheckItemAvail

(* A call begins, waits, tries or gives up without a change of the buffer,   *)
(* or gives a semaphore.                                                     *)
LEMMA CallWake ==
  ASSUME WakeInv,
         \/ \E t \in Tasks : Takes(t) \/ TryAgain(t) \/ TimeOut(t) \/ Give(t)
         \/ \E t \in Senders, n \in Lengths : BeginSend(t, n)
         \/ \E r \in Receivers : BeginReceive(r)
  PROVE  WakeInv'
  <1>1. rb' = rb /\ isr' = isr
    BY DEF Takes, TakeTrans, TakeRecv, TryAgain, TimeOut, Give, BeginSend, BeginReceive
  <1>2. /\ call \in [Tasks -> Calls] /\ isr \in SUBSET {"trans", "recv"} /\ timeouts \in Nat
        /\ \A t \in Senders : call[t].pc \in {"take", "crit"} => call[t].len \in Lengths
    BY DEF WakeInv, CallsOK
  <1>3. Senders \subseteq Tasks /\ Receivers \subseteq Tasks /\ Senders \cap Receivers = {}
        /\ \A t \in Tasks : t \in Senders \/ t \in Receivers
    BY Sizes DEF Tasks
  <1>4. Sound(rb)' /\ (CheckItemAvail(rb)' <=> CheckItemAvail(rb))
        /\ GetFreeSize(rb)' = GetFreeSize(rb)
        /\ \A n : CheckItemFits(rb', n) = CheckItemFits(rb, n)
    BY <1>1 DEF WakeInv, Sound, CheckItemAvail, GetFreeSize
  <1>5. ItemAnnounced /\ SpaceAnnounced
    BY DEF WakeInv
  <1>6. ASSUME NEW t \in Senders, NEW n \in Lengths, BeginSend(t, n)
        PROVE  WakeInv'
    <2>1. /\ call' = [call EXCEPT ![t].pc = "take", ![t].len = n] /\ call[t].pc = "idle"
          /\ UNCHANGED <<transSem, recvSem, timeouts>>
      BY <1>6 DEF BeginSend, Idle
    <2>2. Moved(call', call, t, "take", n, call[t].give)
      BY <1>2, <1>3, <2>1, CallMoves
    <2>3. CallsOK'
      BY <1>1, <1>2, <1>3, <2>1, <2>2 DEF CallsOK, Moved
    <2>4. ItemAnnounced'
      BY <1>1, <1>3, <1>4, <1>5, <2>1, <2>2 DEF ItemAnnounced, RecvWakeup, Owed, Moved
    <2>5. Owed("trans") => Owed("trans")'
      BY <1>1, <1>3, <2>1, <2>2 DEF Owed, Moved
    <2>6. Sending' = Sending \cup {t}
      BY <1>3, <2>2 DEF Sending, Moved
    <2>7. t \notin Sending
      BY <2>1 DEF Sending
    <2>8. ASSUME timeouts' = 0, NEW u \in Senders, Sending' = {u}, CheckItemFits(rb, call[u].len)'
          PROVE  TransWakeup'
      <3>1. u = t /\ Sending = {} /\ call'[u].len = n
        BY <2>2, <2>6, <2>7, <2>8 DEF Moved
      <3>2. CheckItemFits(rb, n)
        BY <1>4, <2>8, <3>1
      <3>3. GetFreeSize(rb) > 0
        BY <3>2, FitsIsFree, LengthType DEF WakeInv
      <3> QED BY <1>5, <2>1, <2>5, <2>8, <3>1, <3>3 DEF SpaceAnnounced, TransWakeup
    <2>9. Sending' # {}
      BY <2>6
    <2>10. SpaceAnnounced'
      BY <2>8, <2>9 DEF SpaceAnnounced
    <2> QED BY <1>4, <2>3, <2>4, <2>10 DEF WakeInv
  <1>7. ASSUME NEW r \in Receivers, BeginReceive(r)
        PROVE  WakeInv'
    <2>1. /\ call' = [call EXCEPT ![r].pc = "take"] /\ call[r].pc = "idle"
          /\ UNCHANGED <<transSem, recvSem, timeouts>>
      BY <1>7 DEF BeginReceive, Idle
    <2>2. Moved(call', call, r, "take", call[r].len, call[r].give)
      BY <1>2, <1>3, <2>1, CallMoves
    <2>3. CallsOK'
      BY <1>1, <1>2, <1>3, <2>1, <2>2 DEF CallsOK, Moved
    <2>4. ItemAnnounced'
      BY <1>1, <1>3, <1>4, <1>5, <2>1, <2>2 DEF ItemAnnounced, RecvWakeup, Owed, Moved
    <2>5. Owed("trans") => Owed("trans")'
      BY <1>1, <1>3, <2>1, <2>2 DEF Owed, Moved
    <2>6. Sending' = Sending /\ \A t \in Senders : call'[t] = call[t]
      BY <1>3, <2>2 DEF Sending, Moved
    <2>7. SpaceAnnounced'
      BY <1>4, <1>5, <2>1, <2>5, <2>6 DEF SpaceAnnounced, TransWakeup
    <2> QED BY <1>4, <2>3, <2>4, <2>7 DEF WakeInv
  <1>8. ASSUME NEW t \in Tasks, TakeTrans(t)
        PROVE  WakeInv'
    <2>1. /\ call' = [call EXCEPT ![t].pc = "crit"] /\ call[t].pc = "take" /\ t \in Senders
          /\ UNCHANGED <<recvSem, timeouts>>
      BY <1>8 DEF TakeTrans
    <2>2. Moved(call', call, t, "crit", call[t].len, call[t].give)
      BY <1>2, <2>1, CallMoves
    <2>3. CallsOK'
      BY <1>1, <1>2, <1>3, <2>1, <2>2 DEF CallsOK, Moved
    <2>4. ItemAnnounced'
      BY <1>1, <1>3, <1>4, <1>5, <2>1, <2>2 DEF ItemAnnounced, RecvWakeup, Owed, Moved
    <2>5. Sending' = Sending /\ t \in Sending
      BY <1>3, <2>1, <2>2 DEF Sending, Moved
    <2>6. SpaceAnnounced'
      BY <2>2, <2>5 DEF SpaceAnnounced, Moved
    <2> QED BY <1>4, <2>3, <2>4, <2>6 DEF WakeInv
  <1>9. ASSUME NEW r \in Tasks, TakeRecv(r)
        PROVE  WakeInv'
    <2>1. /\ call' = [call EXCEPT ![r].pc = "crit"] /\ call[r].pc = "take" /\ r \in Receivers
          /\ UNCHANGED <<transSem, timeouts>>
      BY <1>9 DEF TakeRecv
    <2>2. Moved(call', call, r, "crit", call[r].len, call[r].give)
      BY <1>2, <2>1, CallMoves
    <2>3. CallsOK'
      BY <1>1, <1>2, <1>3, <2>1, <2>2 DEF CallsOK, Moved
    <2>4. ItemAnnounced'
      BY <2>1, <2>2 DEF ItemAnnounced, RecvWakeup, Moved
    <2>5. Owed("trans") => Owed("trans")'
      BY <1>1, <2>1, <2>2 DEF Owed, Moved
    <2>6. Sending' = Sending /\ \A t \in Senders : call'[t] = call[t]
      BY <1>3, <2>1, <2>2 DEF Sending, Moved
    <2>7. SpaceAnnounced'
      BY <1>4, <1>5, <2>1, <2>5, <2>6 DEF SpaceAnnounced, TransWakeup
    <2> QED BY <1>4, <2>3, <2>4, <2>7 DEF WakeInv
  <1>10. ASSUME NEW t \in Tasks, TryAgain(t)
         PROVE  WakeInv'
    <2>1. /\ call' = [call EXCEPT ![t].pc = "take"] /\ call[t].pc = "crit"
          /\ t \in Senders => ~CheckItemFits(rb, call[t].len)
          /\ t \notin Senders => ~CheckItemAvail(rb)
          /\ UNCHANGED <<transSem, recvSem, timeouts>>
      BY <1>10 DEF TryAgain
    <2>2. Moved(call', call, t, "take", call[t].len, call[t].give)
      BY <1>2, <2>1, CallMoves
    <2>3. CallsOK'
      BY <1>1, <1>2, <1>3, <2>1, <2>2 DEF CallsOK, Moved
    <2>4. ItemAnnounced'
      <3>1. CASE t \notin Senders
        BY <1>4, <2>1, <3>1 DEF ItemAnnounced
      <3>2. CASE t \in Senders
        BY <1>1, <1>3, <1>4, <1>5, <2>1, <2>2, <3>2 DEF ItemAnnounced, RecvWakeup, Owed, Moved
      <3> QED BY <3>1, <3>2
    <2>5. Owed("trans") => Owed("trans")'
      BY <1>1, <2>1, <2>2 DEF Owed, Moved
    <2>6. Sending' = Sending
      BY <1>3, <2>1, <2>2 DEF Sending, Moved
    <2>7. ASSUME timeouts' = 0, NEW u \in Senders, Sending' = {u}, call'[u].pc = "take",
                 CheckItemFits(rb, call[u].len)'
          PROVE  TransWakeup'
      <3>1. u # t
        BY <1>4, <2>1, <2>2, <2>7 DEF Moved
      <3>2. call'[u] = call[u]
        BY <1>3, <2>2, <3>1 DEF Moved
      <3> QED BY <1>4, <1>5, <2>1, <2>5, <2>6, <2>7, <3>2 DEF SpaceAnnounced, TransWakeup
    <2>8. SpaceAnnounced'
      BY <1>4, <1>5, <2>1, <2>5, <2>6, <2>7 DEF SpaceAnnounced, TransWakeup
    <2> QED BY <1>4, <2>3, <2>4, <2>8 DEF WakeInv
  <1>11. ASSUME NEW t \in Tasks, TimeOut(t)
         PROVE  WakeInv'
    <2>1. /\ call' = [call EXCEPT ![t] = Idle] /\ call[t].pc \in {"take", "crit"}
          /\ call[t].pc = "crit" /\ t \notin Senders => ~CheckItemAvail(rb)
          /\ recvSem' = recvSem /\ timeouts' = timeouts + 1
      BY <1>11 DEF TimeOut
    <2>2. Moved(call', call, t, "idle", 0, {})
      BY <1>2, <2>1, CallMoves
    <2>3. CallsOK'
      BY <1>1, <1>2, <1>3, <2>1, <2>2 DEF CallsOK, Moved
    <2>4. ItemAnnounced'
      <3>1. CASE t \notin Senders /\ call[t].pc = "crit"
        BY <1>4, <2>1, <3>1 DEF ItemAnnounced
      <3>2. CASE t \in Senders \/ call[t].pc = "take"
        BY <1>1, <1>3, <1>4, <1>5, <2>1, <2>2, <3>2 DEF ItemAnnounced, RecvWakeup, Owed, Moved
      <3> QED BY <2>1, <3>1, <3>2
    <2>5. SpaceAnnounced'
      BY <1>2, <2>1 DEF SpaceAnnounced
    <2> QED BY <1>4, <2>3, <2>4, <2>5 DEF WakeInv
  <1>12. ASSUME NEW t \in Tasks, Give(t)
         PROVE  WakeInv'
    <2>1. PICK due : due = call[t].give
      OBVIOUS
    <2>2. /\ call[t].pc = "give" /\ transSem' = (transSem \/ "trans" \in due)
          /\ IF due = {"trans", "recv"}
             THEN call' = [call EXCEPT ![t].give = {"recv"}] /\ UNCHANGED recvSem
             ELSE call' = [call EXCEPT ![t] = Idle] /\ recvSem' = (recvSem \/ "recv" \in due)
          /\ timeouts' = timeouts
      BY <1>12, <2>1 DEF Give
    <2>3. \/ Moved(call', call, t, "give", call[t].len, {"recv"}) /\ recvSem' = recvSem
          \/ /\ Moved(call', call, t, "idle", 0, {})
             /\ recvSem' = (recvSem \/ "recv" \in due)
      <3>1. CASE due = {"trans", "recv"}
        <4>1. {"recv"} \in SUBSET {"trans", "recv"}
          OBVIOUS
        <4>2. Moved([call EXCEPT ![t].give = {"recv"}], call, t, call[t].pc, call[t].len, {"recv"})
          BY <1>2, <4>1, CallMoves
        <4> QED BY <2>2, <3>1, <4>2
      <3>2. CASE due # {"trans", "recv"}
        <4>1. Moved([call EXCEPT ![t] = Idle], call, t, "idle", 0, {})
          BY <1>2, CallMoves
        <4> QED BY <2>2, <3>2, <4>1
      <3> QED BY <3>1, <3>2
    <2>4. CallsOK'
      BY <1>1, <1>2, <1>3, <2>2, <2>3 DEF CallsOK, Moved
    <2>5. RecvWakeup => RecvWakeup'
      BY <1>1, <1>3, <2>1, <2>2, <2>3 DEF RecvWakeup, Owed, Moved
    <2>6. TransWakeup => TransWakeup'
      BY <1>1, <1>3, <2>1, <2>2, <2>3 DEF TransWakeup, Owed, Moved
    <2>7. Sending' = Sending /\ \A u \in Sending : call'[u] = call[u]
      BY <1>3, <2>2, <2>3 DEF Sending, Moved
    <2>8. ItemAnnounced'
      BY <1>4, <1>5, <2>5 DEF ItemAnnounced
    <2>9. SpaceAnnounced'
      BY <1>4, <1>5, <2>2, <2>6, <2>7 DEF SpaceAnnounced
    <2> QED BY <1>4, <2>4, <2>8, <2>9 DEF WakeInv
  <1> QED BY <1>6, <1>7, <1>8, <1>9, <1>10, <1>11, <1>12 DEF Takes

(* An item is stored by a call.                                              *)
LEMMA SendWake ==
  ASSUME WakeInv, NEW t \in Tasks, SendFits(t)
  PROVE  WakeInv'
  <1>1. PICK b : b = rb'
    OBVIOUS
  <1>2. /\ t \in Senders /\ call[t].pc = "crit" /\ CheckItemFits(rb, call[t].len)
        /\ b = Copy(rb, t, call[t].len)
        /\ call' = [call EXCEPT ![t].pc = "give", ![t].give = AfterSend(b)]
        /\ UNCHANGED <<transSem, recvSem, isr, timeouts>>
    BY <1>1 DEF SendFits
  <1>3. /\ call \in [Tasks -> Calls] /\ isr \in SUBSET {"trans", "recv"} /\ timeouts \in Nat
        /\ \A u \in Senders : call[u].pc \in {"take", "crit"} => call[u].len \in Lengths
    BY DEF WakeInv, CallsOK
  <1>4. PICK g : g = AfterSend(b)
    OBVIOUS
  <1>5. g \in SUBSET {"trans", "recv"} /\ "recv" \in g /\ (GetFreeSize(b) > 0 => "trans" \in g)
    BY <1>4, AfterSendGives
  <1>6. Moved(call', call, t, "give", call[t].len, g)
    BY <1>2, <1>3, <1>4, <1>5, CallMoves
  <1>7. CallsOK'
    BY <1>2, <1>3, <1>6 DEF CallsOK, Moved, Tasks
  <1>8. Sound(b)
    BY <1>2, <1>3, CopySound DEF WakeInv
  <1>9. ItemAnnounced'
    BY <1>5, <1>6 DEF ItemAnnounced, RecvWakeup, Owed, Moved
  <1>10. GetFreeSize(b) > 0 => TransWakeup'
    BY <1>5, <1>6 DEF TransWakeup, Owed, Moved
  <1>11. ASSUME NEW u \in Senders, call'[u].pc = "take", CheckItemFits(b, call'[u].len)
         PROVE  TransWakeup'
    <2>1. call'[u].len \in Lengths
      BY <1>7, <1>11 DEF CallsOK
    <2> QED BY <1>8, <1>10, <1>11, <2>1, FitsIsFree, LengthType
  <1>12. SpaceAnnounced'
    BY <1>1, <1>10, <1>11 DEF SpaceAnnounced
  <1> QED BY <1>1, <1>7, <1>8, <1>9, <1>12 DEF WakeInv

(* An item is stored by an interrupt.                                        *)
LEMMA IsrWake ==
  ASSUME WakeInv, NEW t \in Senders, NEW n \in Lengths, SendFromISR(t, n)
  PROVE  WakeInv'
  <1>1. PICK b : b = rb'
    OBVIOUS
  <1>2. /\ CheckItemFits(rb, n) /\ b = Copy(rb, t, n) /\ isr' = AfterSend(b)
        /\ UNCHANGED <<transSem, recvSem, call, timeouts>>
    BY <1>1 DEF SendFromISR
  <1>3. /\ isr' \in SUBSET {"trans", "recv"} /\ "recv" \in isr'
        /\ GetFreeSize(b) > 0 => "trans" \in isr'
    BY <1>2, AfterSendGives
  <1>4. CallsOK'
    BY <1>2, <1>3 DEF WakeInv, CallsOK
  <1>5. Sound(b)
    BY <1>2, CopySound DEF WakeInv
  <1>6. ItemAnnounced'
    BY <1>3 DEF ItemAnnounced, RecvWakeup, Owed
  <1>7. GetFreeSize(b) > 0 => TransWakeup'
    BY <1>3 DEF TransWakeup, Owed
  <1>8. ASSUME NEW u \in Senders, call'[u].pc = "take", CheckItemFits(b, call'[u].len)
        PROVE  TransWakeup'
    <2>1. call'[u].len \in Lengths
      BY <1>4, <1>8 DEF CallsOK
    <2> QED BY <1>5, <1>7, <1>8, <2>1, FitsIsFree, LengthType
  <1>9. SpaceAnnounced'
    BY <1>1, <1>7, <1>8 DEF SpaceAnnounced
  <1> QED BY <1>1, <1>4, <1>5, <1>6, <1>9 DEF WakeInv

(* An interrupt gives its semaphores.                                        *)
LEMMA IsrGiveWake ==
  ASSUME WakeInv, GiveFromISR
  PROVE  WakeInv'
  <1>1. /\ transSem' = (transSem \/ "trans" \in isr) /\ recvSem' = (recvSem \/ "recv" \in isr)
        /\ isr' = {} /\ UNCHANGED <<rb, call, timeouts>>
    BY DEF GiveFromISR
  <1>2. CallsOK'
    BY <1>1 DEF WakeInv, CallsOK
  <1>3. /\ Sound(rb)' /\ (CheckItemAvail(rb)' <=> CheckItemAvail(rb))
        /\ GetFreeSize(rb)' = GetFreeSize(rb)
        /\ \A n : CheckItemFits(rb', n) = CheckItemFits(rb, n)
    BY <1>1 DEF WakeInv, Sound, CheckItemAvail, GetFreeSize
  <1>4. (RecvWakeup => RecvWakeup') /\ (TransWakeup => TransWakeup')
    BY <1>1 DEF RecvWakeup, TransWakeup, Owed
  <1>5. Sending' = Sending
    BY <1>1 DEF Sending
  <1>6. ItemAnnounced'
    BY <1>3, <1>4 DEF WakeInv, ItemAnnounced
  <1>7. SpaceAnnounced'
    BY <1>1, <1>3, <1>4, <1>5 DEF WakeInv, SpaceAnnounced
  <1> QED BY <1>2, <1>3, <1>6, <1>7 DEF WakeInv

(* An item is received.                                                      *)
LEMMA ReceiveWake ==
  ASSUME WakeInv, NEW r \in Receivers, ReceiveGets(r)
  PROVE  WakeInv'
  <1>1. PICK b : b = rb'
    OBVIOUS
  <1>2. /\ call[r].pc = "crit"
        /\ call' = [call EXCEPT ![r].pc = "give", ![r].give = AfterReceive(b)]
        /\ UNCHANGED <<transSem, recvSem, isr, timeouts>>
        /\ \/ Kind = "byte" /\ b = GetBytes(rb, 0)
           \/ Kind # "byte" /\ (b = GetItem(rb) \/ b = GetItem(GetItem(rb)))
    BY <1>1 DEF ReceiveGets
  <1>3. Sound(b) /\ SameSpace(rb, b)
    <2>1. Sound(rb)
      BY DEF WakeInv
    <2>2. CASE Kind = "byte"
      BY <1>2, <2>1, <2>2, GetBytesSound
    <2>3. CASE Kind # "byte" /\ b = GetItem(rb)
      BY <2>1, <2>3, GetItemSound
    <2>4. CASE Kind # "byte" /\ b = GetItem(GetItem(rb))
      <3>1. PICK c : c = GetItem(rb)
        OBVIOUS
      <3>2. Sound(c) /\ SameSpace(rb, c)
        BY <2>1, <2>4, <3>1, GetItemSound
      <3>3. Sound(b) /\ SameSpace(c, b)
        BY <2>4, <3>1, <3>2, GetItemSound
      <3> QED BY <3>2, <3>3 DEF SameSpace
    <2> QED BY <1>2, <2>2, <2>3, <2>4
  <1>4. /\ call \in [Tasks -> Calls] /\ isr \in SUBSET {"trans", "recv"} /\ timeouts \in Nat
        /\ r \in Tasks /\ r \notin Senders /\ Senders \subseteq Tasks
    BY Sizes DEF WakeInv, CallsOK, Tasks
  <1>5. PICK g : g = AfterReceive(b)
    OBVIOUS
  <1>6. g \in SUBSET {"trans", "recv"} /\ (CheckItemAvail(b) => "recv" \in g)
    BY <1>5, AfterReceiveGives
  <1>7. Moved(call', call, r, "give", call[r].len, g)
    BY <1>2, <1>4, <1>5, <1>6, CallMoves
  <1>8. Sending' = Sending /\ \A t \in Senders : call'[t] = call[t]
    BY <1>4, <1>7 DEF Sending, Moved
  <1>9. CallsOK'
    BY <1>2, <1>4, <1>7, <1>8 DEF WakeInv, CallsOK, Moved
  <1>10. ItemAnnounced'
    BY <1>1, <1>4, <1>6, <1>7 DEF ItemAnnounced, RecvWakeup, Owed, Moved
  <1>11. TransWakeup => TransWakeup'
    BY <1>2, <1>4, <1>7 DEF TransWakeup, Owed, Moved
  <1>12. GetFreeSize(b) = GetFreeSize(rb) /\ \A n : CheckItemFits(b, n) = CheckItemFits(rb, n)
    BY <1>3, SameFits
  <1>13. SpaceAnnounced'
    BY <1>1, <1>2, <1>8, <1>11, <1>12 DEF WakeInv, SpaceAnnounced
  <1> QED BY <1>1, <1>3, <1>9, <1>10, <1>13 DEF WakeInv

(* An item is returned.                                                      *)
LEMMA ReturnWake ==
  ASSUME WakeInv, NEW r \in Receivers, NEW p \in Offsets, Return(r, p)
  PROVE  WakeInv'
  <1>1. PICK b : b = rb'
    OBVIOUS
  <1>2. /\ call[r].pc = "idle" /\ AfterReturn = {"trans"}
        /\ call' = [call EXCEPT ![r].pc = "give", ![r].give = AfterReturn]
        /\ UNCHANGED <<transSem, recvSem, isr, timeouts>>
        /\ b = IF Kind = "byte" THEN ReturnItemByteBuf(rb) ELSE ReturnItemDefault(rb, p)
    BY <1>1 DEF Return, AfterReturn, Idle
  <1>3. Sound(b) /\ (Kind # "byte" /\ CheckItemAvail(b) => CheckItemAvail(rb))
    BY <1>2, ReturnByteBufSound, ReturnDefaultSound DEF WakeInv
  <1>4. /\ call \in [Tasks -> Calls] /\ isr \in SUBSET {"trans", "recv"} /\ timeouts \in Nat
        /\ r \in Tasks /\ r \notin Senders /\ Senders \subseteq Tasks /\ Receivers \subseteq Tasks
    BY Sizes DEF WakeInv, CallsOK, Tasks
  <1>5. {"trans"} \in SUBSET {"trans", "recv"}
    OBVIOUS
  <1>6. Moved(call', call, r, "give", call[r].len, {"trans"})
    BY <1>2, <1>4, <1>5, CallMoves
  <1>7. CallsOK'
    BY <1>2, <1>4, <1>6 DEF WakeInv, CallsOK, Moved
  <1>8. RecvWakeup => RecvWakeup'
    BY <1>2, <1>4, <1>6 DEF RecvWakeup, Owed, Moved
  <1>9. ItemAnnounced'
    BY <1>1, <1>3, <1>8 DEF WakeInv, ItemAnnounced
  <1>10. TransWakeup'
    BY <1>4, <1>6 DEF TransWakeup, Owed, Moved
  <1>11. SpaceAnnounced'
    BY <1>10 DEF SpaceAnnounced
  <1> QED BY <1>1, <1>3, <1>7, <1>9, <1>11 DEF WakeInv

(* WakeInv is an invariant.                                                  *)
LEMMA WakeInductive == Spec => []WakeInv
  <1>1. Init => WakeInv
    BY InitWake
  <1>2. WakeInv /\ [Next]_vars => WakeInv'
    <2> SUFFICES ASSUME WakeInv, [Next]_vars PROVE WakeInv'
      OBVIOUS
    <2>1. CASE UNCHANGED vars
      BY <2>1 DEF vars, WakeInv, CallsOK, Sound, ItemAnnounced, SpaceAnnounced, RecvWakeup,
         TransWakeup, Owed, Sending, CheckItemAvail, GetFreeSize
    <2>2. ASSUME NEW t \in Tasks, Runs(t) PROVE WakeInv'
      BY <2>2, CallWake, SendWake, ReceiveWake, ReturnWake DEF Runs
    <2>3. ASSUME NEW t \in Tasks, Takes(t) \/ TimeOut(t) PROVE WakeInv'
      BY <2>3, CallWake
    <2>4. ASSUME NEW t \in Senders, NEW n \in Lengths, BeginSend(t, n) \/ SendFromISR(t, n)
          PROVE  WakeInv'
      BY <2>4, CallWake, IsrWake
    <2>5. ASSUME NEW r \in Receivers, BeginReceive(r) PROVE WakeInv'
      BY <2>5, CallWake
    <2>6. CASE GiveFromISR
      BY <2>6, IsrGiveWake
    <2> QED BY <2>1, <2>2, <2>3, <2>4, <2>5, <2>6 DEF Next
  <1> QED BY <1>1, <1>2, PTL DEF Spec

(* No wake-up of a receiver is lost, in the buffers of items: when nobody    *)
(* can go on and a task waits in xRingbufferReceive, there is no item.       *)
THEOREM AlwaysNoItemMissed == ASSUME Kind # "byte" PROVE Spec => []NoItemMissed
  <1>1. WakeInv => NoItemMissed
    <2> SUFFICES ASSUME WakeInv, Quiet, NEW r \in Receivers, Waiting(r) PROVE ~CheckItemAvail(rb)
      BY DEF NoItemMissed
    <2>1. ~recvSem /\ isr = {} /\ \A t \in Tasks : call[t].pc \in {"idle", "take"}
      BY DEF Quiet, Waiting, Tasks
    <2>2. ~RecvWakeup
      BY <2>1 DEF RecvWakeup, Owed, Tasks
    <2> QED BY <2>2 DEF WakeInv, ItemAnnounced
  <1> QED BY <1>1, WakeInductive, PTL

(* No wake-up of the only task that waits in xRingbufferSend is lost, as     *)
(* long as no call has timed out: when nobody can go on, its item does not   *)
(* fit.                                                                      *)
THEOREM AlwaysNoSpaceMissed == Spec => []NoSpaceMissed
  <1>1. WakeInv => NoSpaceMissed
    <2> SUFFICES ASSUME WakeInv, Quiet, timeouts = 0, NEW t \in Senders,
                        {u \in Senders : Waiting(u)} = {t}
                 PROVE  ~CheckItemFits(rb, call[t].len)
      BY DEF NoSpaceMissed
    <2>1. call[t].pc = "take"
      BY DEF Waiting
    <2>2. ~transSem /\ isr = {} /\ \A u \in Tasks : call[u].pc \in {"idle", "take"}
      BY <2>1 DEF Quiet, Tasks
    <2>3. ~TransWakeup
      BY <2>2 DEF TransWakeup, Owed
    <2>4. Sending = {t}
      BY <2>2 DEF Sending, Waiting, Tasks
    <2> QED BY <2>1, <2>3, <2>4 DEF WakeInv, SpaceAnnounced
  <1> QED BY <1>1, WakeInductive, PTL
===============================================================================
