---------------------------- MODULE RingBufProofs ----------------------------
(***************************************************************************)
(* RingBuf for every size, alignment, set of items and set of lengths.  IInv *)
(* is inductive when the buffers are used as SafeUse says; it implies the    *)
(* invariants of RingBuf, and under it every step is a step of RingFifo.     *)
(*                                                                           *)
(* Lemmas are about a buffer b before and c after a function of the code.    *)
(* Operators named With* and *Of stand for terms that the provers cannot     *)
(* take apart and match at the same time.                                    *)
(***************************************************************************)
EXTENDS RingBufInv, WellFoundedInduction, FiniteSetTheorems, SequenceTheorems, TLAPS

-------------------------------------------------------------------------------
(*****************************************************************************)
(* Numbers: multiples of the alignment, and distances round the buffer.      *)
(*****************************************************************************)

(* A set of naturals that has 0 and, with every number, the next one.        *)
LEMMA Induction ==
  ASSUME NEW S, 0 \in S, \A n \in Nat : n \in S => n + 1 \in S
  PROVE  \A n \in Nat : n \in S
  <1> DEFINE T == {n \in Nat : n \notin S}
             R == OpToRel(<, Nat)
  <1> SUFFICES ASSUME T # {} PROVE FALSE
    OBVIOUS
  <1>1. T \subseteq Nat /\ IsWellFoundedOn(R, Nat)
    BY NatLessThanWellFounded
  <1>2. PICK x \in T : \A y \in T : ~(<<y, x>> \in R)
    <2> HIDE DEF T, R
    <2> QED BY <1>1, WFMin
  <1>3. \A y \in Nat : y < x => <<y, x>> \in R
    BY <1>2 DEF OpToRel
  <1>4. x \in Nat /\ x \notin S
    BY <1>2
  <1>5. x # 0
    BY <1>4
  <1>6. x - 1 \in Nat /\ x - 1 < x /\ (x - 1) + 1 = x
    BY <1>4, <1>5
  <1>7. x - 1 \in S
    BY <1>2, <1>3, <1>6
  <1> QED BY <1>4, <1>6, <1>7

(* A quotient and its remainder.                                             *)
LEMMA Division ==
  ASSUME NEW m \in Int, NEW d \in Int, d > 0
  PROVE  m \div d \in Int /\ m % d \in 0 .. d - 1 /\ m = d * (m \div d) + (m % d)
  <1>1. m \div d \in Int /\ m % d \in 0 .. d - 1
    BY Z3
  <1>2. m = d * (m \div d) + (m % d)
    BY Z3
  <1> QED BY <1>1, <1>2

(* Multiples of the alignment.                                               *)
Aligned(x) == \E q \in Int : x = Align * q

(* They are the numbers without remainder.                                   *)
LEMMA AlignedMod ==
  ASSUME NEW x \in Int
  PROVE  Aligned(x) <=> x % Align = 0
  <1>1. Align \in Int /\ Align > 0
    BY HeaderAssumption
  <1>2. PICK q, r : q = x \div Align /\ r = x % Align
    OBVIOUS
  <1>3. q \in Int /\ r \in 0 .. Align - 1 /\ x = Align * q + r
    BY <1>1, <1>2, Division
  <1>4. ASSUME r = 0 PROVE Aligned(x)
    <2>1. x = Align * q
      <3>1. Align * q \in Int
        BY <1>1, <1>3
      <3> QED BY <1>3, <1>4, <3>1
    <2> QED BY <1>3, <2>1 DEF Aligned
  <1>5. ASSUME Aligned(x) PROVE r = 0
    <2>1. PICK k \in Int : x = Align * k
      BY <1>5 DEF Aligned
    <2>2. PICK a, c, d : a = Align * k /\ c = Align * q /\ d = Align * (k - q)
      OBVIOUS
    <2>3. a \in Int /\ c \in Int /\ d \in Int /\ d = a - c
      BY <1>1, <1>3, <2>2
    <2>4. d = r
      BY <1>3, <2>1, <2>2, <2>3
    <2>5. k - q <= 0
      <3> SUFFICES ASSUME k - q >= 1 PROVE FALSE
        BY <1>3
      <3>1. Align * (k - q) >= Align
        BY <1>1, <1>3
      <3> QED BY <1>1, <1>3, <2>2, <2>4, <3>1
    <2>6. k - q >= 0
      <3> SUFFICES ASSUME k - q <= -1 PROVE FALSE
        BY <1>3
      <3>1. Align * (k - q) <= 0 - Align
        BY <1>1, <1>3
      <3> QED BY <1>1, <1>3, <2>2, <2>3, <2>4, <3>1
    <2>7. k - q = 0
      BY <1>3, <2>5, <2>6
    <2>8. Align * 0 = 0
      BY <1>1
    <2> QED BY <2>2, <2>4, <2>7, <2>8
  <1> QED BY <1>2, <1>4, <1>5

(* Sums and differences of multiples are multiples.                          *)
LEMMA AlignedSum ==
  ASSUME NEW x, NEW y, Aligned(x), Aligned(y)
  PROVE  x \in Int /\ y \in Int /\ Aligned(x + y) /\ Aligned(x - y) /\ (x < y => x + Align <= y)
  <1>1. PICK q \in Int : x = Align * q
    BY DEF Aligned
  <1>2. PICK r \in Int : y = Align * r
    BY DEF Aligned
  <1>3. Align \in Int /\ Align > 0
    BY HeaderAssumption
  <1>4. x + y = Align * (q + r) /\ x - y = Align * (q - r) /\ x \in Int /\ y \in Int
    BY <1>1, <1>2, <1>3
  <1>5. q + r \in Int /\ q - r \in Int
    OBVIOUS
  <1>6. ASSUME x < y PROVE x + Align <= y
    <2>1. q < r
      <3> SUFFICES ASSUME r <= q PROVE FALSE
        OBVIOUS
      <3>1. Align * r <= Align * q
        BY <1>3
      <3> QED BY <1>1, <1>2, <1>4, <1>6, <3>1
    <2>2. Align * (q + 1) <= Align * r
      BY <1>3, <2>1
    <2>3. Align * (q + 1) = Align * q + Align
      BY <1>3
    <2> QED BY <1>1, <1>2, <2>2, <2>3
  <1> QED BY <1>4, <1>5, <1>6 DEF Aligned

(* Lengths are rounded up.                                                   *)
LEMMA AlignSizeType ==
  ASSUME NEW n \in Nat
  PROVE  /\ AlignSize(n) \in Nat /\ AlignSize(n) >= n
         /\ AlignSize(n) < n + Align /\ Aligned(AlignSize(n))
  <1>1. PICK m, q, r : m = n + Align - 1 /\ q = m \div Align /\ r = m % Align
    OBVIOUS
  <1>2. m \in Int /\ Align \in Int /\ Align > 0
    BY <1>1, HeaderAssumption
  <1>3. q \in Int /\ r \in 0 .. Align - 1 /\ m = Align * q + r
    BY <1>1, <1>2, Division
  <1>4. PICK x : x = q * Align
    OBVIOUS
  <1>5. q * Align \in Int /\ q * Align = Align * q
    BY <1>2, <1>3
  <1>6. x \in Int /\ m = x + r
    BY <1>3, <1>4, <1>5
  <1>7. x >= n /\ x < n + Align
    BY <1>1, <1>2, <1>3, <1>6
  <1>8. AlignSize(n) = x
    BY <1>1, <1>4 DEF AlignSize
  <1>9. Aligned(x)
    BY <1>3, <1>4, <1>5 DEF Aligned
  <1> QED BY <1>6, <1>7, <1>8, <1>9

(* To the least multiple.                                                    *)
LEMMA AlignSizeLeast ==
  ASSUME NEW n \in Nat, NEW x \in Int, Aligned(x), n <= x
  PROVE  AlignSize(n) <= x
  <1>1. PICK y : y = AlignSize(n)
    OBVIOUS
  <1>2. y \in Nat /\ y < n + Align /\ Aligned(y) /\ Align \in Int
    BY <1>1, AlignSizeType, HeaderAssumption
  <1>3. x < y => x + Align <= y
    BY <1>2, AlignedSum
  <1> QED BY <1>1, <1>2, <1>3

(* The size of a storage area.                                               *)
Sz(s) == s \in Int /\ s >= 2 * Header /\ Aligned(s)

(* The sizes are positive numbers.                                           *)
LEMMA Sizes ==
  /\ Header \in Int /\ Header > 0 /\ Align \in Int /\ Align > 0 /\ Aligned(Header) /\ Aligned(0)
  /\ \A s : Sz(s) => s \in Int /\ s > 0 /\ Header <= s
  <1>1. Header \in Int /\ Header > 0 /\ Align \in Int /\ Align > 0 /\ Header % Align = 0
    BY HeaderAssumption
  <1>2. Aligned(Header)
    BY <1>1, AlignedMod
  <1>3. 0 = Align * 0
    BY <1>1
  <1>4. Aligned(0)
    BY <1>3 DEF Aligned
  <1> QED BY <1>1, <1>2, <1>4 DEF Sz

(* What a place for a header is, in terms of multiples.                      *)
LEMMA PlaceFacts ==
  ASSUME NEW s, Sz(s)
  PROVE  \A p : p \in Places(s) <=> p \in 0 .. s - 1 /\ Aligned(p) /\ p + Header <= s
  <1>1. \A p \in 0 .. s - 1 : Aligned(p) <=> p % Align = 0
    BY AlignedMod, Sizes
  <1> QED BY <1>1 DEF Places

(* A distance is less than the size, and two offsets have two distances.     *)
LEMMA DistFacts ==
  ASSUME NEW s \in Int, NEW f \in 0 .. s - 1, NEW p \in 0 .. s - 1
  PROVE  /\ Dist(s, f, p) \in 0 .. s - 1 /\ (Dist(s, f, p) = 0 <=> p = f)
         /\ \A q \in 0 .. s - 1 : Dist(s, f, p) = Dist(s, f, q) => p = q
  BY DEF Dist

(* The cells that are headers are header records, the others are not.        *)
LEMMA MemFacts ==
  ASSUME NEW s, NEW b, Layout(s, b)
  PROVE  /\ \A p \in Heads(s, b) : p \in 0 .. s - 1 /\ b.mem[p] \in HeaderRec
         /\ \A p \in 0 .. s - 1 : p \notin Heads(s, b) => b.mem[p] \in Items \cup {Junk}
         /\ \A p \in Heads(s, b) : HeaderAt(b, p) = b.mem[p]
  BY DEF Layout, Heads, HasHeader, HeaderAt

(* The extent of a header is a multiple, and holds the item.                 *)
LEMMA HeadExtent ==
  ASSUME NEW s, NEW b, NEW p, b.mem[p] \in HeaderRec
  PROVE  /\ Extent(b, p) \in Int /\ Extent(b, p) >= Header /\ Aligned(Extent(b, p))
         /\ b.mem[p].len \in Nat /\ b.mem[p].dummy \in BOOLEAN
         /\ ~b.mem[p].dummy => Extent(b, p) >= Header + b.mem[p].len
  <1>1. PICK h : h = b.mem[p]
    OBVIOUS
  <1>2. h.len \in Nat /\ h.dummy \in BOOLEAN
    BY <1>1 DEF HeaderRec
  <1>3. PICK n : n = AlignSize(h.len)
    OBVIOUS
  <1>4. n \in Nat /\ Aligned(n) /\ n >= h.len
    BY <1>2, <1>3, AlignSizeType
  <1>5. Aligned(Header + n) /\ Header + n \in Int
    BY <1>4, Sizes, AlignedSum
  <1>6. Extent(b, p) = IF h.dummy THEN Header ELSE Header + n
    BY <1>1, <1>3 DEF Extent
  <1> QED BY <1>1, <1>2, <1>4, <1>5, <1>6, Sizes

-------------------------------------------------------------------------------
(*****************************************************************************)
(* The layout, and what it means to add a header at pucAcquire.              *)
(*****************************************************************************)

(* Distances grow by one from offset to offset, up to the end of the area    *)
(* and up to pucFree.                                                        *)
LEMMA Straight ==
  ASSUME NEW s \in Int, NEW f \in 0 .. s - 1, NEW p \in 0 .. s - 1, NEW e \in Int,
         p + e <= s, Dist(s, f, p) + e <= s
  PROVE  \A o \in p .. p + e - 1 : o \in 0 .. s - 1 /\ Dist(s, f, o) = Dist(s, f, p) + (o - p)
  BY DEF Dist

(* What Layout says of the pointers and of every header.                     *)
LEMMA PointerFacts ==
  ASSUME NEW s, NEW b, Sz(s), Layout(s, b)
  PROVE  /\ b.free \in 0 .. s - 1 /\ b.acquire \in 0 .. s - 1 /\ b.full \in BOOLEAN
         /\ Aligned(b.free) /\ Aligned(b.acquire) /\ b.free + Header <= s /\ b.acquire + Header <= s
         /\ Used(s, b) \in 0 .. s /\ (~b.full => Used(s, b) = Far(s, b, b.acquire))
         /\ Far(s, b, b.acquire) \in 0 .. s - 1
         /\ (b.full => b.free = b.acquire /\ Used(s, b) = s)
  <1>1. /\ b.free \in 0 .. s - 1 /\ b.acquire \in 0 .. s - 1 /\ b.full \in BOOLEAN
        /\ Aligned(b.free) /\ Aligned(b.acquire) /\ b.free + Header <= s /\ b.acquire + Header <= s
    BY PlaceFacts DEF Layout
  <1>2. s \in Int /\ s > 0
    BY Sizes
  <1>3. Far(s, b, b.acquire) \in 0 .. s - 1
    BY <1>1, <1>2, DistFacts DEF Far
  <1>4. b.full => b.free = b.acquire
    BY DEF Layout
  <1> QED BY <1>1, <1>2, <1>3, <1>4 DEF Used

(* Everything that Layout says of one header.                                *)
LEMMA HeadFacts ==
  ASSUME NEW s, NEW b, Sz(s), Layout(s, b), NEW p \in Heads(s, b)
  PROVE  /\ p \in 0 .. s - 1 /\ Aligned(p) /\ p + Header <= s
         /\ b.mem[p] \in HeaderRec /\ HeaderAt(b, p) = b.mem[p]
         /\ Far(s, b, p) \in 0 .. s - 1 /\ (Far(s, b, p) = 0 <=> p = b.free)
         /\ Extent(b, p) \in Int /\ Extent(b, p) >= Header /\ Extent(b, p) > 0 /\ Aligned(Extent(b, p))
         /\ p + Extent(b, p) <= s /\ Far(s, b, p) + Extent(b, p) <= Used(s, b)
         /\ Far(s, b, p) < Used(s, b) /\ Linked(s, b, p)
         /\ b.mem[p].len \in Nat /\ b.mem[p].dummy \in BOOLEAN
  <1>1. p \in Places(s) /\ s \in Int
    BY Sizes DEF Layout
  <1>2. p \in 0 .. s - 1 /\ Aligned(p) /\ p + Header <= s
    BY <1>1, PlaceFacts
  <1>3. b.mem[p] \in HeaderRec /\ HeaderAt(b, p) = b.mem[p]
    BY MemFacts
  <1>4. Far(s, b, p) \in 0 .. s - 1 /\ (Far(s, b, p) = 0 <=> p = b.free)
    BY <1>1, <1>2, PointerFacts, DistFacts DEF Far
  <1>5. /\ Extent(b, p) \in Int /\ Extent(b, p) >= Header /\ Aligned(Extent(b, p))
        /\ b.mem[p].len \in Nat /\ b.mem[p].dummy \in BOOLEAN
    BY <1>3, HeadExtent
  <1>6. p + Extent(b, p) <= s /\ Far(s, b, p) + Extent(b, p) <= Used(s, b) /\ Linked(s, b, p)
    BY DEF Layout
  <1>7. Used(s, b) \in Int
    BY PointerFacts
  <1> QED BY <1>2, <1>3, <1>4, <1>5, <1>6, <1>7, Sizes

(* Different headers are at different distances.                             *)
LEMMA FarInjective ==
  ASSUME NEW s, NEW b, Sz(s), Layout(s, b), NEW p \in 0 .. s - 1, NEW q \in 0 .. s - 1,
         Far(s, b, p) = Far(s, b, q)
  PROVE  p = q
  <1>1. PICK f : f = b.free
    OBVIOUS
  <1>2. s \in Int /\ f \in 0 .. s - 1
    BY <1>1, Sizes, PointerFacts
  <1>3. Dist(s, f, p) = Dist(s, f, q)
    BY <1>1 DEF Far
  <1> QED BY <1>2, <1>3, DistFacts

(* Their extents do not overlap.                                             *)
LEMMA Apart ==
  ASSUME NEW s, NEW b, Sz(s), Layout(s, b), NEW p \in Heads(s, b), NEW q \in Heads(s, b)
  PROVE  Far(s, b, p) < Far(s, b, q) => Far(s, b, p) + Extent(b, p) <= Far(s, b, q)
  <1>1. PICK x : x = Past(s, b, p)
    OBVIOUS
  <1>2. Linked(s, b, p) /\ Far(s, b, p) \in Int /\ Far(s, b, q) \in Int /\ Extent(b, p) \in Int
    BY HeadFacts
  <1>3. CASE \A y \in Heads(s, b) : Far(s, b, y) <= Far(s, b, p)
    BY <1>2, <1>3
  <1>4. CASE /\ x \in Heads(s, b) /\ Far(s, b, p) + Extent(b, p) <= Far(s, b, x)
             /\ \A y \in Heads(s, b) : Far(s, b, y) <= Far(s, b, p) \/ Far(s, b, x) <= Far(s, b, y)
    <2>1. Far(s, b, x) \in Int
      BY <1>4, HeadFacts
    <2> QED BY <1>2, <1>4, <2>1
  <1> QED BY <1>1, <1>2, <1>3, <1>4 DEF Linked

(* Two items share no byte.                                                  *)
LEMMA Disjoint ==
  ASSUME NEW s, NEW b, Sz(s), Layout(s, b), NEW p \in Heads(s, b), NEW q \in Heads(s, b), p # q
  PROVE  \A o \in p .. p + Extent(b, p) - 1 : o \notin q .. q + Extent(b, q) - 1
  <1>1. PICK f, d, g, k, l, u :
          /\ f = b.free /\ d = Far(s, b, p) /\ g = Far(s, b, q) /\ k = Extent(b, p) /\ l = Extent(b, q)
          /\ u = Used(s, b)
    OBVIOUS
  <1>2. /\ s \in Int /\ f \in 0 .. s - 1 /\ p \in 0 .. s - 1 /\ q \in 0 .. s - 1
        /\ d \in Int /\ g \in Int /\ k \in Int /\ l \in Int /\ u \in 0 .. s
        /\ p + k <= s /\ q + l <= s /\ d + k <= u /\ g + l <= u
    BY <1>1, Sizes, PointerFacts, HeadFacts
  <1>3. d # g
    BY <1>1, <1>2, FarInjective
  <1>4. (d < g => d + k <= g) /\ (g < d => g + l <= d)
    BY <1>1, Apart
  <1>10. d = Dist(s, f, p) /\ g = Dist(s, f, q) /\ d + k <= s /\ g + l <= s
    BY <1>1, <1>2 DEF Far
  <1>5. \A o \in p .. p + k - 1 : Dist(s, f, o) = d + (o - p)
    BY <1>2, <1>10, Straight
  <1>6. \A o \in q .. q + l - 1 : Dist(s, f, o) = g + (o - q)
    BY <1>2, <1>10, Straight
  <1>7. ASSUME NEW o \in p .. p + k - 1, o \in q .. q + l - 1 PROVE FALSE
    <2>1. d + (o - p) = g + (o - q)
      BY <1>5, <1>6, <1>7
    <2> QED BY <1>2, <1>3, <1>4, <1>7, <2>1
  <1> QED BY <1>1, <1>7

(* b becomes c when a header, with its item, is put at pucAcquire.           *)
Pushed(s, b, c) ==
  /\ ~b.full /\ c.free = b.free
  /\ c.mem \in [0 .. s - 1 -> Items \cup {Junk} \cup HeaderRec]
  /\ c.mem[b.acquire] \in HeaderRec
  /\ b.acquire + Extent(c, b.acquire) <= s
  /\ Far(s, b, b.acquire) + Extent(c, b.acquire) <= s
  /\ c.mem[b.acquire].dummy => b.free <= b.acquire
  /\ \A o \in 0 .. s - 1 : o \notin b.acquire .. b.acquire + Extent(c, b.acquire) - 1 => c.mem[o] = b.mem[o]
  /\ \A o \in b.acquire + 1 .. b.acquire + Extent(c, b.acquire) - 1 : c.mem[o] \in Items \cup {Junk}
  /\ c.acquire = Past(s, c, b.acquire)
  /\ c.full \in BOOLEAN /\ (c.full <=> c.acquire = c.free)

(* Nothing of what was there is touched.                                     *)
LEMMA PushKeeps ==
  ASSUME NEW s, NEW b, NEW c, Sz(s), Layout(s, b), Pushed(s, b, c)
  PROVE  /\ \A x : Far(s, c, x) = Far(s, b, x)
         /\ Used(s, b) = Far(s, b, b.acquire)
         /\ b.acquire \notin Heads(s, b) /\ Heads(s, c) = Heads(s, b) \cup {b.acquire}
         /\ \A p \in Heads(s, b) : /\ Far(s, b, p) + Extent(b, p) <= Far(s, b, b.acquire)
                                   /\ \A o \in p .. p + Extent(b, p) - 1 : c.mem[o] = b.mem[o]
                                   /\ c.mem[p] = b.mem[p] /\ Extent(c, p) = Extent(b, p)
                                   /\ Past(s, c, p) = Past(s, b, p)
         /\ Extent(c, b.acquire) \in Int /\ Extent(c, b.acquire) >= Header
         /\ Aligned(Extent(c, b.acquire))
  <1> DEFINE a == b.acquire
             f == b.free
             e == Extent(c, a)
             u == Far(s, b, a)
  <1>1. \A x : Far(s, c, x) = Far(s, b, x)
    BY DEF Pushed, Far
  <1>2. Used(s, b) = u /\ ~b.full
    BY DEF Pushed, Used
  <1>3. /\ s \in Int /\ a \in 0 .. s - 1 /\ f \in 0 .. s - 1 /\ e \in Int /\ e >= Header /\ Aligned(e)
        /\ a + e <= s /\ u + e <= s /\ u \in Int /\ Header > 0 /\ Header \in Int
    BY Sizes, PointerFacts, HeadExtent DEF Pushed
  <1>4. \A o \in a .. a + e - 1 : o \in 0 .. s - 1 /\ Far(s, b, o) = u + (o - a)
    <2> HIDE DEF e
    <2> QED BY <1>3, Straight DEF Far
  <1>5. \A o \in 0 .. s - 1 : o \notin a .. a + e - 1 => c.mem[o] = b.mem[o]
    BY DEF Pushed
  <1>6. \A o \in a + 1 .. a + e - 1 : c.mem[o] \in Items \cup {Junk}
    BY DEF Pushed
  <1>7. c.mem[a] \in HeaderRec
    BY DEF Pushed
  <1> HIDE DEF e, u, a, f
  <1>8. ASSUME NEW p \in Heads(s, b)
        PROVE  /\ Far(s, b, p) + Extent(b, p) <= u
               /\ \A o \in p .. p + Extent(b, p) - 1 : o \in 0 .. s - 1 /\ o \notin a .. a + e - 1
               /\ p \in p .. p + Extent(b, p) - 1
    <2>1. PICK d, k : d = Far(s, b, p) /\ k = Extent(b, p)
      OBVIOUS
    <2>2. p \in 0 .. s - 1 /\ d \in Int /\ k \in Int /\ k > 0 /\ p + k <= s /\ d + k <= u
      BY <1>2, <2>1, HeadFacts
    <2>3. \A o \in p .. p + k - 1 : o \in 0 .. s - 1 /\ Far(s, b, o) = d + (o - p)
      <3>1. d + k <= s
        BY <1>3, <2>2, Sizes
      <3> QED BY <1>3, <2>1, <2>2, <3>1, Straight DEF Far, f
    <2>4. ASSUME NEW o \in p .. p + k - 1, o \in a .. a + e - 1 PROVE FALSE
      BY <1>3, <1>4, <2>2, <2>3, <2>4
    <2> QED BY <2>1, <2>2, <2>3, <2>4
  <1>9. ASSUME NEW p \in Heads(s, b)
        PROVE  /\ \A o \in p .. p + Extent(b, p) - 1 : c.mem[o] = b.mem[o]
               /\ c.mem[p] = b.mem[p] /\ Extent(c, p) = Extent(b, p)
               /\ Past(s, c, p) = Past(s, b, p)
    <2>1. \A o \in p .. p + Extent(b, p) - 1 : c.mem[o] = b.mem[o]
      BY <1>5, <1>8
    <2>2. c.mem[p] = b.mem[p]
      BY <1>8, <2>1
    <2>3. Extent(c, p) = Extent(b, p)
      BY <2>2 DEF Extent
    <2> QED BY <2>1, <2>2, <2>3 DEF Past
  <1>10. a \notin Heads(s, b)
    <2> SUFFICES ASSUME a \in Heads(s, b) PROVE FALSE
      OBVIOUS
    <2>1. a \in a .. a + e - 1
      BY <1>3
    <2> QED BY <1>8, <2>1
  <1>11. Heads(s, c) = Heads(s, b) \cup {a}
    <2>1. \A p \in 0 .. s - 1 : p \in Heads(s, b) <=> b.mem[p] \notin Items \cup {Junk}
      BY DEF Heads, HasHeader
    <2>2. \A p \in 0 .. s - 1 : p \in Heads(s, c) <=> c.mem[p] \notin Items \cup {Junk}
      BY DEF Heads, HasHeader
    <2>3. a \in Heads(s, c)
      BY <1>3, <1>7, <2>2, CellAssumption
    <2>4. ASSUME NEW p \in 0 .. s - 1, p # a PROVE p \in Heads(s, c) <=> p \in Heads(s, b)
      <3>1. CASE p \in a .. a + e - 1
        <4>1. p \in a + 1 .. a + e - 1
          BY <1>3, <2>4, <3>1
        <4>2. p \notin Heads(s, b)
          <5> SUFFICES ASSUME p \in Heads(s, b) PROVE FALSE
            OBVIOUS
          <5> QED BY <1>8, <3>1
        <4> QED BY <1>6, <2>2, <4>1, <4>2
      <3>2. CASE p \notin a .. a + e - 1
        BY <1>5, <2>1, <2>2, <3>2
      <3> QED BY <3>1, <3>2
    <2>5. Heads(s, b) \subseteq 0 .. s - 1 /\ Heads(s, c) \subseteq 0 .. s - 1
      BY DEF Heads
    <2> QED BY <1>3, <2>3, <2>4, <2>5
  <1> QED BY <1>1, <1>2, <1>3, <1>8, <1>9, <1>10, <1>11 DEF a, u, e

(* Where the next header goes.                                               *)
LEMMA PushAcquire ==
  ASSUME NEW s, NEW b, NEW c, Sz(s), Layout(s, b), Pushed(s, b, c)
  PROVE  /\ c.acquire \in Places(s) /\ c.full \in BOOLEAN
         /\ Far(s, b, b.acquire) + Extent(c, b.acquire) <= Used(s, c) /\ Used(s, c) \in 0 .. s
  <1>1. PICK a, f, e, n, d :
          a = b.acquire /\ f = b.free /\ e = Extent(c, a) /\ n = c.acquire /\ d = c.mem[a].dummy
    OBVIOUS
  <1>2. /\ s \in Int /\ a \in 0 .. s - 1 /\ f \in 0 .. s - 1 /\ f + Header <= s
        /\ Aligned(a) /\ Aligned(s) /\ Header \in Int /\ Header > 0 /\ Header <= s
    BY <1>1, Sizes, PointerFacts DEF Sz
  <1>3. e \in Int /\ e >= Header /\ Aligned(e)
    BY <1>1, PushKeeps
  <1>4. a + e <= s /\ Dist(s, f, a) + e <= s /\ (d => f <= a) /\ c.full \in BOOLEAN /\ (c.full <=> n = f)
    BY <1>1 DEF Pushed, Far
  <1>5. n = IF d \/ s - (a + e) < Header THEN 0 ELSE a + e
    BY <1>1 DEF Pushed, Past
  <1>6. Aligned(a + e) /\ Aligned(0)
    BY <1>2, <1>3, AlignedSum, Sizes
  <1>7. n \in 0 .. s - 1 /\ n + Header <= s /\ Aligned(n)
    BY <1>2, <1>3, <1>4, <1>5, <1>6
  <1>8. n \in Places(s)
    BY <1>7, PlaceFacts
  <1>9. d \in BOOLEAN
    BY <1>1, HeadExtent DEF Pushed
  <1>10. Dist(s, f, a) + e <= (IF n = f THEN s ELSE Dist(s, f, n))
    <2>1. CASE n = f
      BY <1>4, <2>1
    <2>2. CASE n = 0 /\ n # f
      <3>1. f <= a
        BY <1>2, <1>3, <1>4, <1>5, <1>9, <2>2 DEF Dist
      <3> QED BY <1>2, <1>3, <1>4, <2>2, <3>1 DEF Dist
    <2>3. CASE n # 0 /\ n # f
      <3>1. n = a + e
        BY <1>5, <1>9, <2>3
      <3> QED BY <1>2, <1>3, <1>4, <2>3, <3>1 DEF Dist
    <2> QED BY <2>1, <2>2, <2>3
  <1>11. Used(s, c) = IF n = f THEN s ELSE Dist(s, f, n)
    BY <1>1, <1>4 DEF Used, Far, Pushed
  <1>12. Dist(s, f, n) \in 0 .. s - 1
    BY <1>2, <1>7, DistFacts
  <1>13. Used(s, c) \in 0 .. s
    BY <1>2, <1>11, <1>12
  <1> QED BY <1>1, <1>4, <1>8, <1>10, <1>11, <1>13 DEF Far

(* The headers stay linked.                                                  *)
LEMMA PushLinked ==
  ASSUME NEW s, NEW b, NEW c, Sz(s), Layout(s, b), Pushed(s, b, c)
  PROVE  \A p \in Heads(s, c) : Linked(s, c, p)
  <1>1. PICK a : a = b.acquire
    OBVIOUS
  <1>2. /\ \A x : Far(s, c, x) = Far(s, b, x)
        /\ Heads(s, c) = Heads(s, b) \cup {a}
        /\ \A p \in Heads(s, b) : /\ Far(s, b, p) + Extent(b, p) <= Far(s, b, a)
                                  /\ Extent(c, p) = Extent(b, p) /\ Past(s, c, p) = Past(s, b, p)
    BY <1>1, PushKeeps
  <1>3. \A p \in Heads(s, b) : Far(s, b, p) \in Int /\ Extent(b, p) \in Int /\ Extent(b, p) > 0
    BY HeadFacts
  <1>4. Far(s, b, a) \in Int
    BY <1>1, PointerFacts
  <1>5. Linked(s, c, a)
    <2>1. Past(s, c, a) = c.acquire
      BY <1>1 DEF Pushed
    <2>2. \A x \in Heads(s, c) : Far(s, c, x) <= Far(s, c, a)
      BY <1>2, <1>3, <1>4
    <2> QED BY <2>1, <2>2 DEF Linked
  <1>6. ASSUME NEW p \in Heads(s, b) PROVE Linked(s, c, p)
    <2>1. PICK q : q = Past(s, b, p)
      OBVIOUS
    <2>2. q = Past(s, c, p)
      BY <1>2, <2>1
    <2>3. CASE q = b.acquire /\ \A x \in Heads(s, b) : Far(s, b, x) <= Far(s, b, p)
      <3>1. q \in Heads(s, c) /\ Far(s, c, p) + Extent(c, p) <= Far(s, c, q)
        BY <1>1, <1>2, <2>3
      <3>2. \A x \in Heads(s, c) : Far(s, c, x) <= Far(s, c, p) \/ Far(s, c, q) <= Far(s, c, x)
        BY <1>1, <1>2, <1>4, <2>3
      <3> QED BY <2>2, <3>1, <3>2 DEF Linked
    <2>4. CASE /\ q \in Heads(s, b) /\ Far(s, b, p) + Extent(b, p) <= Far(s, b, q)
               /\ \A x \in Heads(s, b) : Far(s, b, x) <= Far(s, b, p) \/ Far(s, b, q) <= Far(s, b, x)
      <3>1. q \in Heads(s, c) /\ Far(s, c, p) + Extent(c, p) <= Far(s, c, q)
        BY <1>2, <2>4
      <3>2. Far(s, b, q) <= Far(s, b, a)
        BY <1>2, <1>3, <1>4, <2>4
      <3>3. \A x \in Heads(s, c) : Far(s, c, x) <= Far(s, c, p) \/ Far(s, c, q) <= Far(s, c, x)
        BY <1>2, <2>4, <3>2
      <3> QED BY <2>2, <3>1, <3>3 DEF Linked
    <2>5. Linked(s, b, p)
      BY HeadFacts
    <2> QED BY <2>1, <2>3, <2>4, <2>5 DEF Linked
  <1> QED BY <1>2, <1>5, <1>6

(* A header put at pucAcquire keeps the layout.                              *)
LEMMA PushLayout ==
  ASSUME NEW s, NEW b, NEW c, Sz(s), Layout(s, b), Pushed(s, b, c)
  PROVE  Layout(s, c)
  <1>1. PICK a : a = b.acquire
    OBVIOUS
  <1>2. /\ \A x : Far(s, c, x) = Far(s, b, x)
        /\ Used(s, b) = Far(s, b, a)
        /\ Heads(s, c) = Heads(s, b) \cup {a}
        /\ \A p \in Heads(s, b) : Extent(c, p) = Extent(b, p)
        /\ Extent(c, a) \in Int /\ Extent(c, a) >= Header
    BY <1>1, PushKeeps
  <1>3. /\ c.acquire \in Places(s) /\ c.full \in BOOLEAN
        /\ Far(s, b, a) + Extent(c, a) <= Used(s, c) /\ Used(s, c) \in 0 .. s
    BY <1>1, PushAcquire
  <1>4. /\ c.free = b.free /\ c.mem \in [0 .. s - 1 -> Items \cup {Junk} \cup HeaderRec]
        /\ a + Extent(c, a) <= s /\ (c.full => c.free = c.acquire)
    BY <1>1 DEF Pushed
  <1>5. b.free \in Places(s) /\ a \in Places(s) /\ Heads(s, b) \subseteq Places(s)
    BY <1>1 DEF Layout
  <1>6. c.free \in Heads(s, c)
    BY <1>1, <1>2, <1>4 DEF Layout
  <1>7. \A p \in Heads(s, c) : Linked(s, c, p)
    BY PushLinked
  <1>8. Far(s, b, a) \in Int /\ Header \in Int /\ Header > 0 /\ s \in Int
    BY <1>1, PointerFacts, Sizes
  <1>9. ASSUME NEW p \in Heads(s, c)
        PROVE  p + Extent(c, p) <= s /\ Far(s, c, p) + Extent(c, p) <= Used(s, c)
    <2>1. CASE p = a
      BY <1>2, <1>3, <1>4, <2>1
    <2>2. CASE p \in Heads(s, b)
      <3>1. /\ p + Extent(b, p) <= s /\ Far(s, b, p) + Extent(b, p) <= Used(s, b)
            /\ Far(s, b, p) \in Int /\ Extent(b, p) \in Int
        BY <2>2, HeadFacts
      <3> QED BY <1>2, <1>3, <1>8, <2>2, <3>1
    <2> QED BY <1>2, <2>1, <2>2
  <1>10. Heads(s, c) # {} /\ Heads(s, c) \subseteq Places(s)
    BY <1>2, <1>5
  <1> QED BY <1>3, <1>4, <1>5, <1>6, <1>7, <1>9, <1>10 DEF Layout

(* b becomes c when headers are added after the last one.                    *)
Grown(s, b, c) ==
  /\ c.free = b.free /\ ~b.full /\ b.acquire \in Heads(s, c)
  /\ Heads(s, b) \subseteq Heads(s, c)
  /\ \A p \in Heads(s, c) \ Heads(s, b) : Used(s, b) <= Far(s, b, p)
  /\ \A p \in Heads(s, b) : \A o \in p .. p + Extent(b, p) - 1 : c.mem[o] = b.mem[o]

(* It leaves the headers and the items that were there alone.                *)
LEMMA PushGrown ==
  ASSUME NEW s, NEW b, NEW c, Sz(s), Layout(s, b), Pushed(s, b, c)
  PROVE  Grown(s, b, c)
  <1>1. /\ Used(s, b) = Far(s, b, b.acquire) /\ Heads(s, c) = Heads(s, b) \cup {b.acquire}
        /\ \A p \in Heads(s, b) : \A o \in p .. p + Extent(b, p) - 1 : c.mem[o] = b.mem[o]
    BY PushKeeps
  <1>2. Used(s, b) \in Int
    BY PointerFacts
  <1>3. \A p \in Heads(s, c) \ Heads(s, b) : Used(s, b) <= Far(s, b, p)
    BY <1>1, <1>2
  <1> QED BY <1>1, <1>3 DEF Grown, Pushed

(* What does not change when headers are added.                              *)
LEMMA GrownFacts ==
  ASSUME NEW s, NEW b, NEW c, Sz(s), Layout(s, b), Layout(s, c), Grown(s, b, c)
  PROVE  /\ \A x : Far(s, c, x) = Far(s, b, x)
         /\ Used(s, b) = Far(s, b, b.acquire) /\ Used(s, b) < Used(s, c)
         /\ \A p \in Heads(s, b) : /\ c.mem[p] = b.mem[p] /\ Extent(c, p) = Extent(b, p)
                                   /\ Past(s, c, p) = Past(s, b, p)
                                   /\ Far(s, b, p) < Used(s, b)
  <1>1. \A x : Far(s, c, x) = Far(s, b, x)
    BY DEF Far, Grown
  <1>2. Used(s, b) = Far(s, b, b.acquire)
    BY DEF Used, Grown
  <1>3. Used(s, b) < Used(s, c)
    <2>1. b.acquire \in Heads(s, c)
      BY DEF Grown
    <2> QED BY <1>1, <1>2, <2>1, HeadFacts
  <1>4. ASSUME NEW p \in Heads(s, b)
        PROVE  /\ c.mem[p] = b.mem[p] /\ Extent(c, p) = Extent(b, p)
               /\ Past(s, c, p) = Past(s, b, p) /\ Far(s, b, p) < Used(s, b)
    <2>1. p \in p .. p + Extent(b, p) - 1 /\ Far(s, b, p) < Used(s, b)
      <3>1. p \in Int /\ Extent(b, p) \in Int /\ Extent(b, p) > 0
        BY HeadFacts, Sizes
      <3> QED BY <3>1, HeadFacts
    <2>2. c.mem[p] = b.mem[p]
      BY <2>1 DEF Grown
    <2>3. Extent(c, p) = Extent(b, p)
      BY <2>2 DEF Extent
    <2> QED BY <2>1, <2>2, <2>3 DEF Past
  <1> QED BY <1>1, <1>2, <1>3, <1>4

(* Headers may be added one after the other.                                 *)
LEMMA GrownTwice ==
  ASSUME NEW s, NEW b, NEW m, NEW c, Sz(s), Layout(s, b), Layout(s, m), Layout(s, c),
         Grown(s, b, m), Grown(s, m, c)
  PROVE  Grown(s, b, c)
  <1>1. c.free = b.free /\ ~b.full /\ b.acquire \in Heads(s, c) /\ Heads(s, b) \subseteq Heads(s, c)
    BY DEF Grown
  <1>2. ASSUME NEW p \in Heads(s, c) \ Heads(s, b) PROVE Used(s, b) <= Far(s, b, p)
    <2>1. CASE p \in Heads(s, m)
      BY <1>2, <2>1 DEF Grown
    <2>2. CASE p \notin Heads(s, m)
      <3>1. Used(s, m) <= Far(s, m, p)
        BY <1>2, <2>2 DEF Grown
      <3>2. Far(s, m, p) = Far(s, b, p) /\ Used(s, b) < Used(s, m)
        BY GrownFacts
      <3>3. Used(s, b) \in Int /\ Used(s, m) \in Int
        BY PointerFacts, Sizes
      <3>4. Far(s, c, p) \in Int /\ Far(s, c, p) = Far(s, m, p)
        BY <1>2, HeadFacts, GrownFacts
      <3> QED BY <3>1, <3>2, <3>3, <3>4
    <2> QED BY <2>1, <2>2
  <1>3. ASSUME NEW p \in Heads(s, b), NEW o \in p .. p + Extent(b, p) - 1 PROVE c.mem[o] = b.mem[o]
    <2>1. p \in Heads(s, m) /\ Extent(m, p) = Extent(b, p)
      BY GrownFacts DEF Grown
    <2> QED BY <2>1 DEF Grown
  <1> QED BY <1>1, <1>2, <1>3 DEF Grown

-------------------------------------------------------------------------------
(*****************************************************************************)
(* The invariant of a buffer that has grown.                                 *)
(*****************************************************************************)

(* The entries that c has and b has not.                                     *)
NewEntries(s, b, c) == Entries(s, c) \ Heads(s, b)

(* The items of a buffer that has grown, and where the new ones are.         *)
LEMMA GrownEntries ==
  ASSUME NEW s, NEW b, NEW c, Sz(s), Layout(s, b), Layout(s, c), Grown(s, b, c)
  PROVE  /\ Entries(s, b) \subseteq Entries(s, c)
         /\ Entries(s, c) = Entries(s, b) \cup NewEntries(s, b, c)
         /\ Entries(s, b) \cap NewEntries(s, b, c) = {}
         /\ \A p \in NewEntries(s, b, c) : Used(s, b) <= Far(s, b, p)
  <1>1. \A p \in Heads(s, b) : c.mem[p] = b.mem[p]
    BY GrownFacts
  <1>2. /\ Heads(s, b) \subseteq Heads(s, c)
        /\ \A p \in Heads(s, c) \ Heads(s, b) : Used(s, b) <= Far(s, b, p)
    BY DEF Grown
  <1> QED BY <1>1, <1>2 DEF Entries, NewEntries

(* EntryInv for a buffer that has grown.                                     *)
LEMMA GrowEntryInv ==
  ASSUME NEW s, NEW b, NEW c, Sz(s), Layout(s, b), Layout(s, c), Grown(s, b, c),
         NEW A, NEW A2, NEW r \in Int, r <= Used(s, b), EntryInv(s, b, A, r),
         \A p \in Entries(s, b) : p \in A2 <=> p \in A,
         \A p \in NewEntries(s, b, c) :
           c.mem[p].item \in Items /\ ~c.mem[p].freed /\ (p \notin A2 => Contents(c, p))
  PROVE  EntryInv(s, c, A2, r)
  <1>1. ASSUME NEW p \in Entries(s, b)
        PROVE  /\ c.mem[p].item \in Items
               /\ Far(s, c, p) < r => p \notin A2
               /\ Far(s, c, p) >= r => ~c.mem[p].freed
               /\ p \notin A2 => Contents(c, p)
    <2>1. p \in Heads(s, b) /\ ~b.mem[p].dummy
      BY DEF Entries
    <2>2. c.mem[p] = b.mem[p] /\ Far(s, c, p) = Far(s, b, p)
      BY <2>1, GrownFacts
    <2>3. ASSUME Contents(b, p) PROVE Contents(c, p)
      <3>1. PICK h, n : h = b.mem[p] /\ n = h.len
        OBVIOUS
      <3>2. Extent(b, p) >= Header + n /\ n \in Nat /\ Extent(b, p) \in Int /\ p \in Int
        BY <2>1, <3>1, HeadFacts, HeadExtent, Sizes
      <3>3. \A o \in p + Header .. p + Header + n - 1 : o \in p .. p + Extent(b, p) - 1
        BY <3>2, Sizes
      <3>4. \A o \in p .. p + Extent(b, p) - 1 : c.mem[o] = b.mem[o]
        BY <2>1 DEF Grown
      <3> QED BY <2>2, <2>3, <3>1, <3>3, <3>4 DEF Contents
    <2> QED BY <2>2, <2>3 DEF EntryInv
  <1>2. ASSUME NEW p \in NewEntries(s, b, c)
        PROVE  /\ c.mem[p].item \in Items
               /\ Far(s, c, p) < r => p \notin A2
               /\ Far(s, c, p) >= r => ~c.mem[p].freed
               /\ p \notin A2 => Contents(c, p)
    <2>1. Far(s, c, p) = Far(s, b, p) /\ Used(s, b) <= Far(s, b, p) /\ Used(s, b) \in Int
      BY GrownFacts, GrownEntries, PointerFacts, Sizes
    <2>2. p \in Heads(s, c)
      BY DEF NewEntries, Entries
    <2>3. Far(s, c, p) \in Int
      BY <2>2, HeadFacts, Sizes
    <2>4. ~(Far(s, c, p) < r)
      BY <2>1, <2>3
    <2> QED BY <2>4
  <1>3. Entries(s, c) = Entries(s, b) \cup NewEntries(s, b, c)
    BY GrownEntries
  <1> QED BY <1>1, <1>2, <1>3 DEF EntryInv

(* What was received is what it was.                                         *)
LEMMA GrowHeld ==
  ASSUME NEW s, NEW b, NEW c, Sz(s), Layout(s, b), Layout(s, c), Grown(s, b, c),
         NEW r \in Int, r <= Used(s, b)
  PROVE  /\ ReceivedItems(s, c, r) = ReceivedItems(s, b, r)
         /\ \A p \in ReceivedItems(s, b, r) : HeldAt(c, p) = HeldAt(b, p)
  <1>1. \A p \in NewEntries(s, b, c) : ~(Far(s, c, p) < r)
    <2> TAKE p \in NewEntries(s, b, c)
    <2>1. Far(s, c, p) = Far(s, b, p) /\ Used(s, b) <= Far(s, b, p) /\ Used(s, b) \in Int
      BY GrownFacts, GrownEntries, PointerFacts, Sizes
    <2>2. p \in Heads(s, c)
      BY DEF NewEntries, Entries
    <2>3. Far(s, c, p) \in Int
      BY <2>2, HeadFacts, Sizes
    <2> QED BY <2>1, <2>3
  <1>2. \A p \in Entries(s, b) : c.mem[p] = b.mem[p] /\ Far(s, c, p) = Far(s, b, p)
    BY GrownFacts DEF Entries
  <1>3. Entries(s, c) = Entries(s, b) \cup NewEntries(s, b, c)
    BY GrownEntries
  <1>4. ReceivedItems(s, c, r) = ReceivedItems(s, b, r)
    BY <1>1, <1>2, <1>3 DEF ReceivedItems
  <1> QED BY <1>2, <1>4 DEF ReceivedItems, HeldAt

(* What a dummy or a first part needs to have after it.                      *)
Wrapped(s, b, p) ==
  b.mem[p].dummy \/ b.mem[p].split =>
    /\ 0 \in Entries(s, b) /\ Past(s, b, p) = 0 /\ Far(s, b, p) < Far(s, b, 0)
    /\ ~b.mem[p].dummy => b.mem[0].item = b.mem[p].item

(* WrapInv for a buffer that has grown.                                      *)
LEMMA GrowWrapInv ==
  ASSUME NEW s, NEW b, NEW c, Sz(s), Layout(s, b), Layout(s, c), Grown(s, b, c),
         WrapInv(s, b), \A p \in Heads(s, c) \ Heads(s, b) : Wrapped(s, c, p)
  PROVE  WrapInv(s, c)
  <1>1. ASSUME NEW p \in Heads(s, b) PROVE Wrapped(s, c, p)
    <2>1. c.mem[p] = b.mem[p] /\ Past(s, c, p) = Past(s, b, p)
      BY GrownFacts
    <2>2. \A x : Far(s, c, x) = Far(s, b, x)
      BY GrownFacts
    <2>3. 0 \in Entries(s, b) => 0 \in Entries(s, c) /\ c.mem[0] = b.mem[0]
      BY GrownFacts, GrownEntries DEF Entries
    <2>4. Wrapped(s, b, p)
      BY DEF WrapInv, Wrapped
    <2> QED BY <2>1, <2>2, <2>3, <2>4 DEF Wrapped
  <1> QED BY <1>1 DEF WrapInv, Wrapped

(* What is added was acquired: pucWrite stays.                               *)
LEMMA GrowWriteInv ==
  ASSUME NEW s, NEW b, NEW c, Sz(s), Layout(s, b), Layout(s, c), Grown(s, b, c),
         WrapInv(s, b), WrapInv(s, c), NEW A, WriteInv(s, b, A), c.write = b.write
  PROVE  WriteInv(s, c, A \cup NewEntries(s, b, c))
  <1>1. PICK N : N = NewEntries(s, b, c)
    OBVIOUS
  <1>2. /\ \A x : Far(s, c, x) = Far(s, b, x)
        /\ Used(s, b) = Far(s, b, b.acquire)
        /\ \A p \in Heads(s, b) : Far(s, b, p) < Used(s, b) /\ c.mem[p] = b.mem[p]
    BY GrownFacts
  <1>3. Used(s, b) \in Int
    BY PointerFacts, Sizes
  <1>4. b.acquire \in Heads(s, c) /\ Heads(s, b) \subseteq Heads(s, c)
    BY DEF Grown
  <1>5. b.write \in Heads(s, b) \cup {b.acquire} /\ A \subseteq Entries(s, b)
    BY DEF WriteInv
  <1>6. Entries(s, c) = Entries(s, b) \cup N
    BY <1>1, GrownEntries
  <1>7. First(c, c.write) \in A \cup N
    <2>1. CASE b.write # b.acquire
      <3>1. b.write \in Heads(s, b) /\ First(b, b.write) \in A
        BY <1>5, <2>1 DEF WriteInv
      <3>2. c.mem[c.write] = b.mem[b.write]
        BY <1>2, <3>1
      <3> QED BY <3>1, <3>2 DEF First
    <2>2. CASE b.write = b.acquire
      <3>1. b.acquire \notin Heads(s, b)
        BY <1>2, <1>3
      <3>2. CASE ~c.mem[b.acquire].dummy
        <4>1. b.acquire \in N
          BY <1>1, <1>4, <3>1, <3>2 DEF NewEntries, Entries
        <4> QED BY <2>2, <3>2, <4>1 DEF First
      <3>3. CASE c.mem[b.acquire].dummy
        <4>1. 0 \in Entries(s, c) /\ Far(s, c, b.acquire) < Far(s, c, 0)
          BY <1>4, <3>3 DEF WrapInv
        <4>2. Far(s, b, 0) \in Int
          BY <1>2, <4>1, HeadFacts, Sizes DEF Entries
        <4>3. 0 \notin Heads(s, b)
          BY <1>2, <1>3, <4>1, <4>2
        <4>4. 0 \in N
          BY <1>1, <4>1, <4>3 DEF NewEntries
        <4> QED BY <2>2, <3>3, <4>4 DEF First
      <3> QED BY <3>2, <3>3
    <2> QED BY <2>1, <2>2
  <1>8. c.write \in Heads(s, c) \cup {c.acquire} /\ A \cup N \subseteq Entries(s, c)
    BY <1>4, <1>5, <1>6
  <1> QED BY <1>1, <1>7, <1>8 DEF WriteInv

(* A pointer stays where it was when headers are added after it.             *)
LEMMA GrowPointer ==
  ASSUME NEW s, NEW b, NEW c, Sz(s), Layout(s, b), Layout(s, c), Grown(s, b, c),
         NEW x, NEW r \in Int, Pointer(s, b, x, r)
  PROVE  Pointer(s, c, x, r) /\ r <= Used(s, b)
  <1>1. Used(s, b) = Far(s, b, b.acquire) /\ \A y : Far(s, c, y) = Far(s, b, y)
    BY GrownFacts
  <1>2. b.acquire \in Heads(s, c) /\ Heads(s, b) \subseteq Heads(s, c)
    BY DEF Grown
  <1>3. \A p \in Heads(s, b) : Far(s, b, p) < Used(s, b) /\ Far(s, b, p) \in Int
    BY HeadFacts, Sizes
  <1>4. Used(s, b) \in Int
    BY PointerFacts, Sizes
  <1> QED BY <1>1, <1>2, <1>3, <1>4 DEF Pointer

(* The oldest item stays.                                                    *)
LEMMA GrowFirst ==
  ASSUME NEW s, NEW b, NEW c, Sz(s), Layout(s, b), Layout(s, c), Grown(s, b, c), WrapInv(s, b),
         Used(s, b) > 0
  PROVE  c.mem[First(c, c.free)] = b.mem[First(b, b.free)]
  <1>1. c.free = b.free /\ ~b.full
    BY DEF Grown
  <1>2. b.free # b.acquire
    <2> SUFFICES ASSUME b.free = b.acquire PROVE FALSE
      OBVIOUS
    <2>1. Used(s, b) = Far(s, b, b.free)
      BY <1>1, PointerFacts
    <2>2. b.free \in Int
      BY PointerFacts, Sizes
    <2> QED BY <2>1, <2>2 DEF Far, Dist
  <1>3. b.free \in Heads(s, b)
    BY <1>2 DEF Layout
  <1>4. b.mem[b.free].dummy => 0 \in Heads(s, b)
    BY <1>3 DEF WrapInv, Entries
  <1>5. \A p \in Heads(s, b) : c.mem[p] = b.mem[p]
    BY GrownFacts
  <1> QED BY <1>1, <1>3, <1>4, <1>5 DEF First

(* ReadInv when the new items are acquired and not complete.                 *)
LEMMA GrowReadInv ==
  ASSUME NEW s, NEW b, NEW c, Sz(s), Layout(s, b), Layout(s, c), Grown(s, b, c), WrapInv(s, b),
         NEW A, WriteInv(s, b, A), NEW r \in Int, ReadInv(s, b, A, r),
         c.write = b.write, c.read = b.read, c.waiting = b.waiting
  PROVE  ReadInv(s, c, A \cup NewEntries(s, b, c), r)
  <1>1. Pointer(s, c, c.read, r) /\ r <= Used(s, b)
    BY GrowPointer DEF ReadInv
  <1>2. NotPast(s, c, r)
    <2>1. b.write \in Heads(s, b) \cup {b.acquire} /\ (b.write # b.acquire => r <= Far(s, b, b.write))
      BY DEF WriteInv, ReadInv, NotPast
    <2>2. Used(s, b) = Far(s, b, b.acquire) /\ Far(s, c, b.write) = Far(s, b, b.write)
      BY GrownFacts
    <2> QED BY <1>1, <2>1, <2>2 DEF NotPast
  <1>3. WaitingItems(s, c, A \cup NewEntries(s, b, c), r) = WaitingItems(s, b, A, r)
    <2>1. Entries(s, c) = Entries(s, b) \cup NewEntries(s, b, c)
      BY GrownEntries
    <2>2. Entries(s, b) \cap NewEntries(s, b, c) = {}
      BY GrownEntries
    <2>3. \A x : Far(s, c, x) = Far(s, b, x)
      BY GrownFacts
    <2> QED BY <2>1, <2>2, <2>3 DEF WaitingItems
  <1>4. r > 0 => ~c.mem[First(c, c.free)].freed
    <2>1. Used(s, b) \in Int
      BY PointerFacts, Sizes
    <2>2. r > 0 => Used(s, b) > 0
      BY <1>1, <2>1
    <2> QED BY <2>2, GrowFirst DEF ReadInv
  <1> QED BY <1>1, <1>2, <1>3, <1>4 DEF ReadInv

(* What is not complete stays the last, with the new items.                  *)
LEMMA GrowOrder ==
  ASSUME NEW s, NEW b, NEW c, Sz(s), Layout(s, b), Layout(s, c), Grown(s, b, c),
         NEW A, A \subseteq Entries(s, b), OrderInv(s, b, A)
  PROVE  OrderInv(s, c, A \cup NewEntries(s, b, c))
  <1>1. PICK N : N = NewEntries(s, b, c)
    OBVIOUS
  <1>2. /\ \A x : Far(s, c, x) = Far(s, b, x)
        /\ \A p \in Heads(s, b) : Far(s, b, p) < Used(s, b)
    BY GrownFacts
  <1>3. Used(s, b) \in Int
    BY PointerFacts, Sizes
  <1>4. \A p \in Entries(s, c) : Far(s, b, p) \in Int
    BY <1>2, HeadFacts, Sizes DEF Entries
  <1>5. Entries(s, c) = Entries(s, b) \cup N /\ \A p \in N : Used(s, b) <= Far(s, b, p)
    BY <1>1, GrownEntries
  <1>6. ASSUME NEW p \in A \cup N, NEW q \in Entries(s, c), Far(s, c, p) <= Far(s, c, q)
        PROVE  q \in A \cup N
    <2>1. CASE q \in N
      BY <2>1
    <2>2. CASE q \in Entries(s, b)
      <3>1. Far(s, b, q) < Used(s, b) /\ Far(s, b, q) \in Int
        BY <1>2, <1>4, <2>2 DEF Entries
      <3>2. p \notin N
        <4> SUFFICES ASSUME p \in N PROVE FALSE
          OBVIOUS
        <4>1. Used(s, b) <= Far(s, b, p) /\ Far(s, b, p) \in Int
          BY <1>4, <1>5
        <4> QED BY <1>2, <1>3, <1>6, <3>1, <4>1
      <3> QED BY <1>2, <1>6, <2>2, <3>2 DEF OrderInv
    <2> QED BY <1>5, <2>1, <2>2
  <1> QED BY <1>1, <1>6 DEF OrderInv

(* When the new items fill the buffer and pucRead is at pucAcquire, nothing  *)
(* is held.                                                                  *)
LEMMA GrowFull ==
  ASSUME NEW s, NEW b, NEW c, Sz(s), Layout(s, b), Layout(s, c), Grown(s, b, c),
         NEW r, Pointer(s, b, b.read, r), NEW h, h = {HeldAt(b, p) : p \in ReceivedItems(s, b, r)},
         c.read = b.read, c.full, c.read = c.acquire
  PROVE  Cardinality(h) <= 1
  <1>1. b.read = b.free /\ b.free \in Int
    <2>1. c.free = c.acquire
      BY DEF Layout
    <2> QED BY <2>1, PointerFacts, Sizes DEF Grown
  <1>2. Far(s, b, b.free) = 0
    BY <1>1 DEF Far, Dist
  <1>3. r = 0
    <2>1. CASE r = Used(s, b) /\ b.read = b.acquire
      BY <1>1, <1>2, <2>1, GrownFacts
    <2>2. CASE b.read \in Heads(s, b) /\ r = Far(s, b, b.read)
      BY <1>1, <1>2, <2>2
    <2> QED BY <2>1, <2>2 DEF Pointer
  <1>4. \A p \in Heads(s, b) : ~(Far(s, b, p) < 0)
    <2> TAKE p \in Heads(s, b)
    <2>1. Far(s, b, p) \in 0 .. s - 1
      BY HeadFacts
    <2> QED BY <2>1, Sizes
  <1>5. ReceivedItems(s, b, r) = {}
    BY <1>3, <1>4 DEF ReceivedItems, Entries
  <1>6. h = {}
    BY <1>5
  <1> QED BY <1>6, FS_EmptySet

(* What is added was sent: pucWrite follows pucAcquire.                      *)
LEMMA GrowSent ==
  ASSUME NEW s, NEW b, NEW c, Sz(s), Layout(s, b), Layout(s, c), Grown(s, b, c), WrapInv(s, b),
         NEW r \in Int, ReadInv(s, b, {}, r),
         c.write = c.acquire, c.read = b.read,
         c.waiting = b.waiting + Cardinality(NewEntries(s, b, c))
  PROVE  WriteInv(s, c, {}) /\ ReadInv(s, c, {}, r)
  <1>1. PICK N : N = NewEntries(s, b, c)
    OBVIOUS
  <1>2. Pointer(s, c, c.read, r) /\ r <= Used(s, b)
    BY GrowPointer DEF ReadInv
  <1>3. Used(s, b) \in Int
    BY PointerFacts, Sizes
  <1>5. r > 0 => ~c.mem[First(c, c.free)].freed
    <2>1. r > 0 => Used(s, b) > 0
      BY <1>2, <1>3
    <2> QED BY <2>1, GrowFirst DEF ReadInv
  <1>7. WriteInv(s, c, {})
    BY DEF WriteInv
  <1>8. WaitingItems(s, c, {}, r) = WaitingItems(s, b, {}, r) \cup N
    <2>1. Entries(s, c) = Entries(s, b) \cup N
      BY <1>1, GrownEntries
    <2>2. \A x : Far(s, c, x) = Far(s, b, x)
      BY GrownFacts
    <2>3. ASSUME NEW p \in N PROVE Far(s, b, p) >= r
      <3>1. Used(s, b) <= Far(s, b, p)
        BY <1>1, GrownEntries
      <3>2. p \in Heads(s, c)
        BY <1>1 DEF NewEntries, Entries
      <3>3. Far(s, b, p) \in Int
        BY <2>2, <3>2, HeadFacts, Sizes
      <3> QED BY <1>2, <1>3, <3>1, <3>3
    <2> QED BY <2>1, <2>2, <2>3 DEF WaitingItems
  <1>9. WaitingItems(s, b, {}, r) \cap N = {}
    BY <1>1, GrownEntries DEF WaitingItems
  <1>10. IsFiniteSet(WaitingItems(s, b, {}, r)) /\ IsFiniteSet(N)
    <2>1. WaitingItems(s, b, {}, r) \subseteq 0 .. s - 1 /\ N \subseteq 0 .. s - 1
      BY <1>1 DEF WaitingItems, NewEntries, Entries, Heads
    <2>2. IsFiniteSet(0 .. s - 1)
      BY FS_Interval, Sizes
    <2> QED BY <2>1, <2>2, FS_Subset
  <1>11. Cardinality(WaitingItems(s, b, {}, r) \cup N) = Cardinality(WaitingItems(s, b, {}, r)) + Cardinality(N)
    <2>1. PICK W : W = WaitingItems(s, b, {}, r)
      OBVIOUS
    <2>2. Cardinality(W \cup N) = Cardinality(W) + Cardinality(N) - Cardinality(W \cap N)
      BY <1>10, <2>1, FS_Union
    <2>3. Cardinality(W \cap N) = 0
      BY <1>9, <2>1, FS_EmptySet
    <2>4. Cardinality(W) \in Nat /\ Cardinality(N) \in Nat
      BY <1>10, <2>1, FS_CardinalityType
    <2> QED BY <2>1, <2>2, <2>3, <2>4
  <1> QED BY <1>1, <1>2, <1>5, <1>7, <1>8, <1>11 DEF ReadInv, NotPast

-------------------------------------------------------------------------------
(*****************************************************************************)
(* Space: prvCheckItemFitsDefault.                                           *)
(*****************************************************************************)

(* The assumptions on a configuration.                                       *)
LEMMA ConfigFacts ==
  ASSUME NEW c \in Configs
  PROVE  /\ Sz(c.size) /\ c.size \in Int /\ c.kind \in {"nosplit", "allowsplit"} /\ c.lengths \subseteq Nat
         /\ c.maxHeld \in Nat \ {0} /\ c.acquiring \in BOOLEAN /\ c.inOrder \in BOOLEAN
         /\ c.patient \in BOOLEAN /\ c.leavesLast \in BOOLEAN /\ (c.acquiring => c.kind = "nosplit")
  <1>1. c.size \in Int /\ c.size % Align = 0 /\ c.size >= 2 * Header
    BY UseAssumption
  <1>2. Aligned(c.size)
    BY <1>1, AlignedMod
  <1> QED BY <1>1, <1>2, UseAssumption DEF Sz

(* Half of the buffer, rounded up.                                           *)
LEMMA HalfFacts ==
  ASSUME NEW s, Sz(s), NEW y, y = AlignSize(s \div 2)
  PROVE  /\ y \in Int /\ Aligned(y) /\ 2 * y <= s + Align /\ y <= s
         /\ \A x \in Int : Aligned(x) /\ s <= 2 * x => y <= x
  <1>1. PICK h : h = s \div 2
    OBVIOUS
  <1>2. s \in Int /\ s > 0 /\ Aligned(s) /\ Align \in Int /\ Align > 0
    BY Sizes DEF Sz
  <1>3. h \in Nat /\ 2 * h <= s /\ s <= 2 * h + 1
    BY <1>1, <1>2
  <1>4. y = AlignSize(h)
    BY <1>1
  <1>5. y \in Nat /\ y >= h /\ y < h + Align /\ Aligned(y)
    BY <1>3, <1>4, AlignSizeType
  <1>6. y <= s
    BY <1>2, <1>3, <1>4, AlignSizeLeast
  <1>7. Aligned(y + y) /\ Aligned(s + Align)
    <2>1. Aligned(Align)
      <3>1. Align = Align * 1
        BY <1>2
      <3> QED BY <3>1 DEF Aligned
    <2> QED BY <1>2, <1>5, <2>1, AlignedSum
  <1>8. y + y <= s + Align
    <2> SUFFICES ASSUME s + Align < y + y PROVE FALSE
      BY <1>2, <1>5
    <2>1. (s + Align) + Align <= y + y
      BY <1>7, AlignedSum
    <2> QED BY <1>2, <1>3, <1>5, <2>1
  <1>9. ASSUME NEW x \in Int, Aligned(x), s <= 2 * x PROVE y <= x
    <2>1. h <= x
      BY <1>2, <1>3, <1>9
    <2> QED BY <1>3, <1>4, <1>9, <2>1, AlignSizeLeast
  <1> QED BY <1>5, <1>6, <1>8, <1>9

(* An item that fits has room at pucAcquire, or at pucHead.                  *)
Wraps(s, b, n) == s - b.acquire < AlignSize(n) + Header

(* What prvCheckItemFitsDefault has found out when it says yes.              *)
LEMMA FitsFacts ==
  ASSUME config \in Configs, NEW b, Layout(config.size, b), NEW n \in Nat, CheckItemFits(b, n)
  PROVE  /\ ~b.full
         /\ ~Wraps(config.size, b, n) =>
              /\ b.acquire + (AlignSize(n) + Header) <= config.size
              /\ Far(config.size, b, b.acquire) + (AlignSize(n) + Header) <= config.size
         /\ Wraps(config.size, b, n) => b.free <= b.acquire
         /\ Wraps(config.size, b, n) /\ b.free # b.acquire =>
              IF config.kind = "nosplit" THEN AlignSize(n) + Header <= b.free
              ELSE AlignSize(n) + Header + Header <= config.size - (b.acquire - b.free)
  <1>1. PICK s, a, f, t : s = config.size /\ a = b.acquire /\ f = b.free /\ t = AlignSize(n) + Header
    OBVIOUS
  <1>2. /\ s \in Int /\ a \in 0 .. s - 1 /\ f \in 0 .. s - 1 /\ t \in Int /\ t > 0 /\ Header \in Int
        /\ Far(s, b, a) = Dist(s, f, a) /\ (b.full => a = f) /\ b.full \in BOOLEAN
        /\ config.kind \in {"nosplit", "allowsplit"}
    <2>1. Sz(s) /\ config.kind \in {"nosplit", "allowsplit"}
      BY <1>1, ConfigFacts
    <2>2. AlignSize(n) \in Nat
      BY AlignSizeType
    <2> QED BY <1>1, <2>1, <2>2, Sizes, PointerFacts DEF Far
  <1>3. IF a = f THEN ~b.full
        ELSE IF f > a THEN t <= f - a
        ELSE \/ t <= s - a
             \/ config.kind = "allowsplit" /\ t + Header <= s - (a - f)
             \/ config.kind # "allowsplit" /\ t <= f
    BY <1>1, <1>2 DEF CheckItemFits, CheckItemFitsDefault
  <1>4. Wraps(s, b, n) <=> s - a < t
    BY <1>1 DEF Wraps
  <1>5. ~b.full
    BY <1>2, <1>3
  <1>6. ASSUME ~(s - a < t) PROVE a + t <= s /\ Dist(s, f, a) + t <= s
    BY <1>2, <1>3, <1>6 DEF Dist
  <1>7. ASSUME s - a < t
        PROVE  /\ f <= a
               /\ f # a => IF config.kind = "nosplit" THEN t <= f ELSE t + Header <= s - (a - f)
    BY <1>2, <1>3, <1>7
  <1> QED BY <1>1, <1>2, <1>4, <1>5, <1>6, <1>7

(* An item that goes to pucHead has its space there.                         *)
LEMMA RoomNoSplit ==
  ASSUME config \in Configs, config.kind = "nosplit", NEW b, Layout(config.size, b), NEW n \in Nat,
         n <= MaxItemSize, CheckItemFits(b, n), Wraps(config.size, b, n)
  PROVE  0 < b.free /\ AlignSize(n) + Header <= b.free /\ b.free <= b.acquire
  <1>1. PICK s, a, f, t, y :
          /\ s = config.size /\ a = b.acquire /\ f = b.free /\ t = AlignSize(n) + Header
          /\ y = AlignSize(s \div 2)
    OBVIOUS
  <1>2. Sz(s)
    BY <1>1, ConfigFacts
  <1>3. /\ s \in Int /\ a \in 0 .. s - 1 /\ f \in 0 .. s - 1 /\ Aligned(a) /\ Aligned(s)
        /\ Header \in Int /\ Header > 0 /\ Aligned(Header) /\ Align \in Int
    BY <1>1, <1>2, Sizes, PointerFacts DEF Sz
  <1>4. y \in Int /\ Aligned(y) /\ 2 * y <= s + Align
    BY <1>1, <1>2, HalfFacts
  <1>5. n <= y - Header
    BY <1>1 DEF MaxItemSize
  <1>6. AlignSize(n) \in Nat /\ Aligned(AlignSize(n))
    BY AlignSizeType
  <1>7. y - Header \in Int /\ Aligned(y - Header)
    BY <1>3, <1>4, AlignedSum
  <1>8. AlignSize(n) <= y - Header
    BY <1>5, <1>7, AlignSizeLeast
  <1>9. t \in Int /\ t <= y /\ t > 0
    BY <1>1, <1>3, <1>4, <1>6, <1>8
  <1>10. Aligned(t) /\ Aligned(a + t)
    BY <1>1, <1>3, <1>6, AlignedSum
  <1>11. s - a < t
    BY <1>1 DEF Wraps
  <1>12. s + Align <= a + t
    <2>1. s < a + t
      BY <1>3, <1>9, <1>11
    <2> QED BY <1>3, <1>10, <2>1, AlignedSum
  <1>13. t <= a
    BY <1>3, <1>4, <1>9, <1>12
  <1>14. f <= a /\ (f # a => t <= f)
    BY <1>1, FitsFacts
  <1> QED BY <1>1, <1>3, <1>9, <1>13, <1>14

(* So has the second part of a split item.                                   *)
LEMMA RoomAllowSplit ==
  ASSUME config \in Configs, config.kind = "allowsplit", NEW b, Layout(config.size, b), NEW n \in Nat,
         n <= MaxItemSize, CheckItemFits(b, n), Wraps(config.size, b, n)
  PROVE  /\ 0 < b.free /\ b.free <= b.acquire
         /\ Header + (AlignSize(n) - (config.size - b.acquire - Header)) <= b.free
  <1>1. PICK s, a, f, m : s = config.size /\ a = b.acquire /\ f = b.free /\ m = AlignSize(n)
    OBVIOUS
  <1>2. Sz(s)
    BY <1>1, ConfigFacts
  <1>3. /\ s \in Int /\ a \in 0 .. s - 1 /\ f \in 0 .. s - 1 /\ Aligned(s)
        /\ Header \in Int /\ Header > 0 /\ Aligned(Header)
    BY <1>1, <1>2, Sizes, PointerFacts DEF Sz
  <1>4. m \in Nat
    BY <1>1, AlignSizeType
  <1>5. n <= s - 2 * Header
    BY <1>1 DEF MaxItemSize
  <1>6. Aligned((s - Header) - Header)
    <2>1. Aligned(s - Header)
      BY <1>3, AlignedSum
    <2> QED BY <1>3, <2>1, AlignedSum
  <1>7. m <= (s - Header) - Header
    BY <1>1, <1>3, <1>5, <1>6, AlignSizeLeast
  <1>8. s - a < m + Header
    BY <1>1 DEF Wraps
  <1>9. f <= a /\ (f # a => m + Header + Header <= s - (a - f))
    BY <1>1, FitsFacts
  <1> QED BY <1>1, <1>3, <1>4, <1>7, <1>8, <1>9

-------------------------------------------------------------------------------
(*****************************************************************************)
(* The cells that sending writes.                                            *)
(*****************************************************************************)

Cells == Items \cup {Junk} \cup HeaderRec

(* The fields of a new header.                                               *)
LEMMA NewHeaderType ==
  ASSUME NEW n \in Nat, NEW i \in Items \cup {Junk}, NEW k \in {0, 1, 2}
  PROVE  /\ NewHeader(n, i, k) \in HeaderRec
         /\ NewHeader(n, i, k).len = n /\ NewHeader(n, i, k).item = i /\ NewHeader(n, i, k).part = k
         /\ ~NewHeader(n, i, k).dummy /\ ~NewHeader(n, i, k).freed
         /\ ~NewHeader(n, i, k).written /\ ~NewHeader(n, i, k).split
  BY DEF NewHeader, HeaderRec

(* A header changes in one field.                                            *)
LEMMA HeaderSet ==
  ASSUME NEW h \in HeaderRec, NEW v \in BOOLEAN
  PROVE  /\ [h EXCEPT !.dummy = v] \in HeaderRec /\ [h EXCEPT !.split = v] \in HeaderRec
         /\ [h EXCEPT !.written = v] \in HeaderRec /\ [h EXCEPT !.freed = v] \in HeaderRec
  BY DEF HeaderRec

(* The fields of a dummy's header.                                           *)
LEMMA DummyType ==
  /\ Dummy \in HeaderRec /\ Dummy.dummy /\ ~Dummy.split
  <1>1. PICK h : h = NewHeader(0, Junk, 0)
    OBVIOUS
  <1>2. h \in HeaderRec /\ ~h.split
    BY <1>1, NewHeaderType
  <1>3. PICK g : g = [h EXCEPT !.dummy = TRUE]
    OBVIOUS
  <1>4. g \in HeaderRec
    BY <1>2, <1>3, HeaderSet
  <1>5. g.dummy /\ ~g.split
    BY <1>2, <1>3 DEF HeaderRec
  <1>6. Dummy = g
    BY <1>1, <1>3 DEF Dummy
  <1> QED BY <1>4, <1>5, <1>6

(* The header of the first part of a split item.                             *)
SplitHeader(n, i) == [NewHeader(n, i, 1) EXCEPT !.split = TRUE]

(* The fields of the header of a first part.                                 *)
LEMMA SplitHeaderType ==
  ASSUME NEW n \in Nat, NEW i \in Items
  PROVE  /\ SplitHeader(n, i) \in HeaderRec
         /\ SplitHeader(n, i).len = n /\ SplitHeader(n, i).item = i /\ SplitHeader(n, i).part = 1
         /\ ~SplitHeader(n, i).dummy /\ ~SplitHeader(n, i).freed /\ SplitHeader(n, i).split
         /\ ~SplitHeader(n, i).written
  <1>1. PICK h : h = NewHeader(n, i, 1)
    OBVIOUS
  <1>2. /\ h \in HeaderRec /\ h.len = n /\ h.item = i /\ h.part = 1
        /\ ~h.dummy /\ ~h.freed /\ ~h.written
    BY <1>1, NewHeaderType
  <1>3. PICK g : g = [h EXCEPT !.split = TRUE]
    OBVIOUS
  <1>4. g \in HeaderRec
    BY <1>2, <1>3, HeaderSet
  <1>5. /\ g.len = n /\ g.item = i /\ g.part = 1
        /\ ~g.dummy /\ ~g.freed /\ ~g.written /\ g.split
    BY <1>2, <1>3 DEF HeaderRec
  <1>6. SplitHeader(n, i) = g
    BY <1>1, <1>3 DEF SplitHeader
  <1> QED BY <1>4, <1>5, <1>6

(* A header at p, and n bytes v after it.                                    *)
PutCells(s, m, m2, p, h, n, v) ==
  /\ m2 \in [0 .. s - 1 -> Cells] /\ m2[p] = h
  /\ \A o \in 0 .. s - 1 : o \notin p .. p + Header + n - 1 => m2[o] = m[o]
  /\ \A o \in 0 .. s - 1 : o \in p + 1 .. p + Header - 1 => m2[o] = Junk
  /\ \A o \in 0 .. s - 1 : o \in p + Header .. p + Header + n - 1 => m2[o] = v

(* The cells when a header alone is written.                                 *)
LEMMA PutHeaderCells ==
  ASSUME config \in Configs, NEW s, s = config.size, NEW m \in [0 .. s - 1 -> Cells],
         NEW p \in 0 .. s - 1, NEW h \in HeaderRec
  PROVE  PutCells(s, m, PutHeader(m, p, h), p, h, 0, Junk)
  <1>1. s \in Int /\ Header \in Int /\ Header > 0 /\ p \in Int
    BY ConfigFacts, Sizes
  <1>2. PICK g : g = Fill(m, p, Header, Junk)
    OBVIOUS
  <1>3. g = [o \in 0 .. s - 1 |-> IF o \in p .. p + Header - 1 THEN Junk ELSE m[o]]
    BY <1>2 DEF Fill, Offsets
  <1>4. g \in [0 .. s - 1 -> Cells] /\ \A o \in 0 .. s - 1 : g[o] = IF o \in p .. p + Header - 1 THEN Junk ELSE m[o]
    BY <1>3 DEF Cells
  <1>5. PutHeader(m, p, h) = [g EXCEPT ![p] = h]
    BY <1>2 DEF PutHeader
  <1>6. PICK k : k = [g EXCEPT ![p] = h]
    OBVIOUS
  <1>7. k \in [0 .. s - 1 -> Cells] /\ k[p] = h /\ \A o \in 0 .. s - 1 : o # p => k[o] = g[o]
    BY <1>4, <1>6 DEF Cells
  <1>8. PutCells(s, m, k, p, h, 0, Junk)
    <2>1. \A o \in 0 .. s - 1 : o \notin p .. p + Header + 0 - 1 => k[o] = m[o]
      BY <1>1, <1>4, <1>7
    <2>2. \A o \in 0 .. s - 1 : o \in p + 1 .. p + Header - 1 => k[o] = Junk
      BY <1>1, <1>4, <1>7
    <2>3. \A o \in 0 .. s - 1 : o \in p + Header .. p + Header + 0 - 1 => k[o] = Junk
      BY <1>1
    <2> QED BY <1>7, <2>1, <2>2, <2>3 DEF PutCells
  <1> QED BY <1>5, <1>6, <1>8

(* The cells when a header and its item are written.                         *)
LEMMA PutItemCells ==
  ASSUME config \in Configs, NEW s, s = config.size, NEW m \in [0 .. s - 1 -> Cells],
         NEW p \in 0 .. s - 1, NEW h \in HeaderRec, NEW n \in Nat, NEW v \in Items \cup {Junk}
  PROVE  PutCells(s, m, Fill(PutHeader(m, p, h), p + Header, n, v), p, h, n, v)
  <1>1. s \in Int /\ Header \in Int /\ Header > 0 /\ p \in Int
    BY ConfigFacts, Sizes
  <1>2. PICK g : g = PutHeader(m, p, h)
    OBVIOUS
  <1>3. PutCells(s, m, g, p, h, 0, Junk)
    BY <1>2, PutHeaderCells
  <1>4. PICK k : k = Fill(g, p + Header, n, v)
    OBVIOUS
  <1>5. k = [o \in 0 .. s - 1 |-> IF o \in p + Header .. p + Header + n - 1 THEN v ELSE g[o]]
    BY <1>4 DEF Fill, Offsets
  <1>6. /\ g \in [0 .. s - 1 -> Cells] /\ g[p] = h
        /\ \A o \in 0 .. s - 1 : o \notin p .. p + Header + 0 - 1 => g[o] = m[o]
        /\ \A o \in 0 .. s - 1 : o \in p + 1 .. p + Header - 1 => g[o] = Junk
    BY <1>3 DEF PutCells
  <1>7. /\ k \in [0 .. s - 1 -> Cells]
        /\ \A o \in 0 .. s - 1 : k[o] = IF o \in p + Header .. p + Header + n - 1 THEN v ELSE g[o]
    BY <1>5, <1>6 DEF Cells
  <1>8. PutCells(s, m, k, p, h, n, v)
    <2>1. \A o \in 0 .. s - 1 : o \notin p .. p + Header + n - 1 => k[o] = m[o]
      BY <1>1, <1>6, <1>7
    <2>2. \A o \in 0 .. s - 1 : o \in p + 1 .. p + Header - 1 => k[o] = Junk
      BY <1>1, <1>6, <1>7
    <2>3. \A o \in 0 .. s - 1 : o \in p + Header .. p + Header + n - 1 => k[o] = v
      BY <1>7
    <2>4. k[p] = h
      BY <1>1, <1>6, <1>7
    <2> QED BY <1>7, <2>1, <2>2, <2>3, <2>4 DEF PutCells
  <1> QED BY <1>2, <1>4, <1>8

(* What a header takes.                                                      *)
Takes(h) == IF h.dummy THEN Header ELSE Header + AlignSize(h.len)

(* Writing a header and its item at pucAcquire pushes it.                    *)
LEMMA PutPushed ==
  ASSUME NEW s, Sz(s), NEW b, NEW c, Layout(s, b), ~b.full, NEW h \in HeaderRec, NEW n \in Nat, NEW v \in Items \cup {Junk},
         PutCells(s, b.mem, c.mem, b.acquire, h, n, v),
         h.dummy => n = 0, ~h.dummy => n = h.len,
         b.acquire + Takes(h) <= s, Far(s, b, b.acquire) + Takes(h) <= s, h.dummy => b.free <= b.acquire,
         c.free = b.free, c.full \in BOOLEAN, c.full <=> c.acquire = b.free,
         c.acquire = IF h.dummy \/ s - (b.acquire + Takes(h)) < Header THEN 0 ELSE b.acquire + Takes(h)
  PROVE  Pushed(s, b, c)
  <1>1. PICK a, e, m, k : a = b.acquire /\ e = Takes(h) /\ m = b.mem /\ k = c.mem
    OBVIOUS
  <1>2. s \in Int /\ a \in 0 .. s - 1 /\ Header \in Int /\ Header > 0
    BY <1>1, Sizes, PointerFacts
  <1>3. /\ k \in [0 .. s - 1 -> Cells] /\ k[a] = h
        /\ \A o \in 0 .. s - 1 : o \notin a .. a + Header + n - 1 => k[o] = m[o]
        /\ \A o \in 0 .. s - 1 : o \in a + 1 .. a + Header - 1 => k[o] = Junk
        /\ \A o \in 0 .. s - 1 : o \in a + Header .. a + Header + n - 1 => k[o] = v
    BY <1>1 DEF PutCells
  <1>4. h.len \in Nat /\ h.dummy \in BOOLEAN
    BY DEF HeaderRec
  <1>5. e \in Int /\ e >= Header + n
    <2>1. AlignSize(h.len) \in Nat /\ AlignSize(h.len) >= h.len
      BY <1>4, AlignSizeType
    <2> QED BY <1>1, <1>2, <1>4, <2>1 DEF Takes
  <1>6. Extent(c, a) = e
    BY <1>1, <1>3 DEF Extent, Takes
  <1>7. Past(s, c, a) = c.acquire
    BY <1>1, <1>3, <1>6 DEF Past
  <1>8. \A o \in 0 .. s - 1 : o \notin a .. a + e - 1 => k[o] = m[o]
    BY <1>2, <1>3, <1>5
  <1>9. ASSUME NEW o \in a + 1 .. a + e - 1 PROVE k[o] \in Items \cup {Junk}
    <2>1. o \in 0 .. s - 1
      BY <1>1, <1>2, <1>5
    <2>2. CASE o \in a + 1 .. a + Header - 1
      BY <1>3, <2>1, <2>2
    <2>3. CASE o \in a + Header .. a + Header + n - 1
      BY <1>3, <2>1, <2>3
    <2>4. CASE o > a + Header + n - 1
      <3>1. k[o] = m[o] /\ o \in Int
        BY <1>2, <1>3, <2>1, <2>4
      <3>2. o \notin Heads(s, b)
        <4> SUFFICES ASSUME o \in Heads(s, b) PROVE FALSE
          OBVIOUS
        <4>1. Far(s, b, o) < Used(s, b) /\ Used(s, b) = Far(s, b, a) /\ Far(s, b, a) \in Int
          BY <1>1, HeadFacts, PointerFacts, Sizes
        <4>2. Far(s, b, o) = Far(s, b, a) + (o - a)
          <5>1. PICK f : f = b.free
            OBVIOUS
          <5>2. f \in 0 .. s - 1 /\ a + e <= s /\ Dist(s, f, a) + e <= s
            BY <1>1, <5>1, PointerFacts DEF Far
          <5>3. o \in a .. a + e - 1
            BY <1>2, <1>5
          <5> QED BY <1>2, <1>5, <5>1, <5>2, <5>3, Straight DEF Far
        <4> QED BY <1>2, <4>1, <4>2
      <3> QED BY <1>1, <2>1, <3>1, <3>2, MemFacts
    <2> QED BY <1>2, <1>5, <2>1, <2>2, <2>3, <2>4
  <1>10. k \in [0 .. s - 1 -> Items \cup {Junk} \cup HeaderRec]
    BY <1>3 DEF Cells
  <1> QED BY <1>1, <1>3, <1>6, <1>7, <1>8, <1>9, <1>10 DEF Pushed

(* Two headers, the second at pucHead.                                       *)
LEMMA PushTwice ==
  ASSUME NEW s, NEW b, NEW m, NEW c, Sz(s), Layout(s, b), Pushed(s, b, m), m.acquire = 0, Pushed(s, m, c)
  PROVE  /\ Layout(s, c) /\ Grown(s, b, c)
         /\ Heads(s, c) = Heads(s, b) \cup {b.acquire, 0} /\ b.acquire # 0
         /\ b.acquire \notin Heads(s, b) /\ 0 \notin Heads(s, b)
         /\ c.mem[b.acquire] = m.mem[b.acquire]
         /\ \A o \in b.acquire .. b.acquire + Extent(m, b.acquire) - 1 : c.mem[o] = m.mem[o]
         /\ Past(s, c, b.acquire) = 0 /\ Far(s, c, b.acquire) < Far(s, c, 0)
  <1>1. PICK a : a = b.acquire
    OBVIOUS
  <1>2. Layout(s, m) /\ Grown(s, b, m)
    BY PushLayout, PushGrown
  <1>3. Layout(s, c) /\ Grown(s, m, c)
    BY <1>2, PushLayout, PushGrown
  <1>4. Grown(s, b, c)
    BY <1>2, <1>3, GrownTwice
  <1>5. a \notin Heads(s, b) /\ Heads(s, m) = Heads(s, b) \cup {a}
    BY <1>1, PushKeeps
  <1>6. /\ \A x : Far(s, c, x) = Far(s, m, x)
        /\ 0 \notin Heads(s, m) /\ Heads(s, c) = Heads(s, m) \cup {0}
        /\ \A p \in Heads(s, m) : /\ Far(s, m, p) + Extent(m, p) <= Far(s, m, 0)
                                  /\ \A o \in p .. p + Extent(m, p) - 1 : c.mem[o] = m.mem[o]
                                  /\ c.mem[p] = m.mem[p] /\ Past(s, c, p) = Past(s, m, p)
    BY <1>2, PushKeeps
  <1>7. Past(s, m, a) = 0
    BY <1>1 DEF Pushed
  <1>8. Far(s, c, a) < Far(s, c, 0)
    <2>1. a \in Heads(s, m) /\ 0 \in Heads(s, c)
      BY <1>5, <1>6
    <2>2. Far(s, m, a) \in Int /\ Extent(m, a) \in Int /\ Extent(m, a) > 0
      BY <1>2, <2>1, HeadFacts, Sizes
    <2>3. Far(s, c, 0) \in Int
      BY <1>3, <2>1, HeadFacts, Sizes
    <2> QED BY <1>6, <2>1, <2>2, <2>3
  <1> QED BY <1>1, <1>3, <1>4, <1>5, <1>6, <1>7, <1>8

-------------------------------------------------------------------------------
(*****************************************************************************)
(* prvAcquireItemNoSplit.                                                    *)
(*****************************************************************************)

WithAcquired(b, m, a, f) == [b EXCEPT !.mem = m, !.acquire = a, !.full = f]
WithSent(b, m, a, f, k) ==
  [b EXCEPT !.mem = m, !.acquire = a, !.write = a, !.full = f, !.waiting = k]

(* The fields that prvAcquireItemNoSplit sets.                               *)
LEMMA SetAcquired ==
  ASSUME NEW b, Shape(b), NEW m, NEW a, NEW f, NEW c, c = WithAcquired(b, m, a, f)
  PROVE  /\ Shape(c) /\ c.mem = m /\ c.acquire = a /\ c.full = f
         /\ c.write = b.write /\ c.read = b.read /\ c.free = b.free /\ c.waiting = b.waiting
  BY DEF Shape, Fields, WithAcquired

(* The fields that prvCopyItemAllowSplit sets.                               *)
LEMMA SetSent ==
  ASSUME NEW b, Shape(b), NEW m, NEW a, NEW f, NEW k, NEW c, c = WithSent(b, m, a, f, k)
  PROVE  /\ Shape(c) /\ c.mem = m /\ c.acquire = a /\ c.full = f /\ c.write = a /\ c.waiting = k
         /\ c.read = b.read /\ c.free = b.free
  BY DEF Shape, Fields, WithSent

(* The buffer after a dummy was put at pucAcquire.                           *)
WithDummy(b) == WithAcquired(b, PutHeader(b.mem, b.acquire, Dummy), 0, FALSE)

(* A dummy is pushed before pucAcquire goes to pucHead.                      *)
LEMMA DummyPushed ==
  ASSUME config \in Configs, NEW s, s = config.size, NEW b, Shape(b), Layout(s, b), ~b.full,
         0 < b.free, b.free <= b.acquire
  PROVE  Pushed(s, b, WithDummy(b)) /\ WithDummy(b).acquire = 0 /\ Layout(s, WithDummy(b))
         /\ WithDummy(b).mem = PutHeader(b.mem, b.acquire, Dummy) /\ WithDummy(b).free = b.free
         /\ WithDummy(b).mem[b.acquire] = Dummy
  <1>1. PICK m, a, k : m = WithDummy(b) /\ a = b.acquire /\ k = PutHeader(b.mem, a, Dummy)
    OBVIOUS
  <1>2. m.mem = k /\ m.acquire = 0 /\ m.full \in BOOLEAN /\ ~m.full /\ m.free = b.free
    <2>1. PICK f : f = FALSE
      OBVIOUS
    <2>2. m = WithAcquired(b, k, 0, f)
      BY <1>1, <2>1 DEF WithDummy
    <2>3. m.mem = k /\ m.acquire = 0 /\ m.full = f /\ m.free = b.free
      BY <2>2, SetAcquired
    <2>4. f \in BOOLEAN /\ ~f
      BY <2>1
    <2> QED BY <2>3, <2>4
  <1>3. Sz(s)
    BY ConfigFacts
  <1>4. /\ s \in Int /\ a \in 0 .. s - 1 /\ b.free \in 0 .. s - 1 /\ a + Header <= s
        /\ Header \in Int /\ Header > 0
    BY <1>1, <1>3, Sizes, PointerFacts
  <1>5. b.mem \in [0 .. s - 1 -> Cells] /\ Dummy \in HeaderRec /\ Dummy.dummy
    BY DummyType DEF Layout, Cells
  <1>6. PutCells(s, b.mem, m.mem, a, Dummy, 0, Junk)
    BY <1>1, <1>2, <1>4, <1>5, PutHeaderCells
  <1>7. Takes(Dummy) = Header
    BY <1>5 DEF Takes
  <1>8. a + Takes(Dummy) <= s /\ Far(s, b, a) + Takes(Dummy) <= s
    BY <1>1, <1>4, <1>7 DEF Far, Dist
  <1>9. Pushed(s, b, m)
    <2>1. m.full \in BOOLEAN /\ (m.full <=> m.acquire = b.free)
      BY <1>2, <1>4
    <2>2. m.acquire = IF Dummy.dummy \/ s - (a + Takes(Dummy)) < Header THEN 0 ELSE a + Takes(Dummy)
      BY <1>2, <1>5
    <2>3. 0 \in Nat /\ Junk \in Items \cup {Junk}
      OBVIOUS
    <2>4. Dummy.dummy => 0 = 0
      OBVIOUS
    <2>5. ~Dummy.dummy => 0 = Dummy.len
      BY <1>5
    <2> QED BY <1>1, <1>2, <1>3, <1>5, <1>6, <1>8, <2>1, <2>2, <2>3, <2>5, PutPushed
  <1>10. Layout(s, m)
    BY <1>3, <1>9, PushLayout
  <1>11. m.mem[a] = Dummy
    BY <1>6 DEF PutCells
  <1> QED BY <1>1, <1>2, <1>9, <1>10, <1>11

(* prvAcquireItemNoSplit.                                                    *)
AcquireNext(s, start, n) == IF s - (start + (Header + AlignSize(n))) < Header THEN 0 ELSE start + (Header + AlignSize(n))

(* The buffer after prvAcquireItemNoSplit, field by field.                   *)
LEMMA AcquireFields ==
  ASSUME config \in Configs, NEW s, s = config.size, NEW b, Shape(b), NEW i, NEW n \in Nat, NEW c, c = AcquireItem(b, i, n),
         NEW start, start = AcquireStart(b, n), start \in Int, ~b.full
  PROVE  /\ Shape(c) /\ c.write = b.write /\ c.read = b.read /\ c.free = b.free /\ c.waiting = b.waiting
         /\ c.mem = Fill(PutHeader(IF start = b.acquire THEN b.mem ELSE PutHeader(b.mem, b.acquire, Dummy),
                                   start, NewHeader(n, i, 1)), start + Header, n, Junk)
         /\ c.acquire = AcquireNext(s, start, n)
         /\ c.full \in BOOLEAN /\ (c.full <=> c.acquire = b.free)
  <1>1. PICK m, a, f :
          /\ m = Fill(PutHeader(IF start = b.acquire THEN b.mem ELSE PutHeader(b.mem, b.acquire, Dummy),
                                start, NewHeader(n, i, 1)), start + Header, n, Junk)
          /\ a = WrapAround(start + Header + AlignSize(n))
          /\ f = (b.full \/ a = b.free)
    OBVIOUS
  <1>2. c = WithAcquired(b, m, a, f)
    BY <1>1 DEF AcquireItem, WithAcquired
  <1>3. /\ Shape(c) /\ c.mem = m /\ c.acquire = a /\ c.full = f
        /\ c.write = b.write /\ c.read = b.read /\ c.free = b.free /\ c.waiting = b.waiting
    BY <1>2, SetAcquired
  <1>4. a = AcquireNext(s, start, n)
    <2>1. PICK x : x = AlignSize(n)
      OBVIOUS
    <2>2. x \in Int /\ Header \in Int
      BY <2>1, AlignSizeType, Sizes
    <2>3. start + Header + x = start + (Header + x)
      BY <2>2
    <2>4. a = IF s - (start + Header + x) < Header THEN 0 ELSE start + Header + x
      BY <1>1, <2>1 DEF WrapAround
    <2> QED BY <2>1, <2>3, <2>4 DEF AcquireNext
  <1>5. f \in BOOLEAN /\ (f <=> a = b.free)
    BY <1>1
  <1> QED BY <1>1, <1>3, <1>4, <1>5

(* prvAcquireItemNoSplit adds one item, and a dummy before it if it wraps.   *)
LEMMA AcquireGrown ==
  ASSUME config \in Configs, config.kind = "nosplit", NEW s, s = config.size,
         NEW b, Shape(b), Layout(s, b), NEW i \in Items, NEW n \in Nat,
         n <= MaxItemSize, CheckItemFits(b, n),
         NEW c, c = AcquireItem(b, i, n), NEW start, start = AcquireStart(b, n)
  PROVE  /\ Shape(c) /\ Layout(s, c) /\ Grown(s, b, c)
         /\ NewEntries(s, b, c) = {start} /\ c.mem[start] = NewHeader(n, i, 1)
         /\ \A p \in Heads(s, c) \ Heads(s, b) : Wrapped(s, c, p)
         /\ c.write = b.write /\ c.read = b.read /\ c.waiting = b.waiting
  <1>1. PICK a, f, h, t : a = b.acquire /\ f = b.free /\ h = NewHeader(n, i, 1) /\ t = AlignSize(n) + Header
    OBVIOUS
  <1>2. Sz(s)
    BY ConfigFacts
  <1>3. /\ s \in Int /\ a \in 0 .. s - 1 /\ f \in 0 .. s - 1 /\ Header \in Int /\ Header > 0
        /\ t \in Int /\ t = Header + AlignSize(n) /\ t >= Header
    BY <1>1, <1>2, Sizes, PointerFacts, AlignSizeType
  <1>4. ~b.full
    BY FitsFacts
  <1>5. start = IF Wraps(s, b, n) THEN 0 ELSE a
    BY <1>1 DEF AcquireStart, Wraps
  <1>6. start \in 0 .. s - 1
    BY <1>3, <1>5
  <1>7. /\ Shape(c) /\ c.write = b.write /\ c.read = b.read /\ c.free = f /\ c.waiting = b.waiting
        /\ c.mem = Fill(PutHeader(IF start = a THEN b.mem ELSE PutHeader(b.mem, a, Dummy), start, h),
                        start + Header, n, Junk)
        /\ c.acquire = AcquireNext(s, start, n)
        /\ c.full \in BOOLEAN /\ (c.full <=> c.acquire = f)
    <2>1. start \in Int
      BY <1>6
    <2> QED BY <1>1, <1>4, <2>1, AcquireFields
  <1>8. /\ h \in HeaderRec /\ ~h.dummy /\ ~h.split /\ h.len = n
    BY <1>1, NewHeaderType
  <1>9. Takes(h) = t
    BY <1>3, <1>8 DEF Takes
  <1>10. c.acquire = IF h.dummy \/ s - (start + Takes(h)) < Header THEN 0 ELSE start + Takes(h)
    BY <1>3, <1>7, <1>8, <1>9 DEF AcquireNext
  <1>11. CASE ~Wraps(s, b, n)
    <2>1. start = a /\ a + t <= s /\ Far(s, b, a) + t <= s
      BY <1>1, <1>5, <1>11, FitsFacts
    <2>2. b.mem \in [0 .. s - 1 -> Cells]
      BY DEF Layout, Cells
    <2>3. PutCells(s, b.mem, c.mem, a, h, n, Junk)
      <3>1. c.mem = Fill(PutHeader(b.mem, a, h), a + Header, n, Junk)
        BY <1>7, <2>1
      <3>2. Junk \in Items \cup {Junk}
        OBVIOUS
      <3> QED BY <1>3, <1>8, <2>2, <3>1, <3>2, PutItemCells
    <2>4. Pushed(s, b, c)
      BY <1>1, <1>2, <1>4, <1>7, <1>8, <1>9, <1>10, <2>1, <2>3, PutPushed
    <2>5. Layout(s, c) /\ Grown(s, b, c)
      BY <1>2, <2>4, PushLayout, PushGrown
    <2>6. a \notin Heads(s, b) /\ Heads(s, c) = Heads(s, b) \cup {a}
      BY <1>1, <1>2, <2>4, PushKeeps
    <2>7. c.mem[a] = h
      BY <2>3 DEF PutCells
    <2>8. NewEntries(s, b, c) = {a}
      BY <1>8, <2>6, <2>7 DEF NewEntries, Entries
    <2>9. Wrapped(s, c, a)
      BY <1>8, <2>7 DEF Wrapped
    <2> QED BY <1>1, <1>7, <2>1, <2>5, <2>6, <2>7, <2>8, <2>9
  <1>12. CASE Wraps(s, b, n)
    <2>1. start = 0 /\ 0 < f /\ t <= f /\ f <= a
      BY <1>1, <1>5, <1>12, RoomNoSplit
    <2>2. PICK m : m = WithDummy(b)
      OBVIOUS
    <2>3. /\ Pushed(s, b, m) /\ m.acquire = 0 /\ Layout(s, m) /\ m.mem = PutHeader(b.mem, a, Dummy)
          /\ m.free = f /\ m.mem[a] = Dummy
      BY <1>1, <1>4, <2>1, <2>2, DummyPushed
    <2>4. ~m.full
      <3>1. m.full <=> m.acquire = m.free
        BY <2>3 DEF Pushed
      <3>2. f # 0
        BY <1>3, <2>1
      <3> QED BY <2>3, <3>1, <3>2
    <2>5. m.mem \in [0 .. s - 1 -> Cells]
      BY <2>3 DEF Layout, Cells
    <2>6. start # a
      BY <1>3, <2>1
    <2>7. PutCells(s, m.mem, c.mem, 0, h, n, Junk)
      <3>1. c.mem = Fill(PutHeader(m.mem, 0, h), 0 + Header, n, Junk)
        BY <1>7, <2>1, <2>3, <2>6
      <3>2. Junk \in Items \cup {Junk} /\ 0 \in 0 .. s - 1
        BY <1>6, <2>1
      <3> QED BY <1>8, <2>5, <3>1, <3>2, PutItemCells
    <2>8. 0 + Takes(h) <= s /\ Far(s, m, 0) + Takes(h) <= s
      BY <1>3, <1>9, <2>1, <2>3 DEF Far, Dist
    <2>9. Pushed(s, m, c)
      BY <1>1, <1>2, <1>7, <1>8, <1>10, <2>1, <2>3, <2>4, <2>7, <2>8, PutPushed
    <2>10. /\ Layout(s, c) /\ Grown(s, b, c)
           /\ Heads(s, c) = Heads(s, b) \cup {a, 0} /\ a # 0
           /\ a \notin Heads(s, b) /\ 0 \notin Heads(s, b)
           /\ c.mem[a] = m.mem[a] /\ Past(s, c, a) = 0 /\ Far(s, c, a) < Far(s, c, 0)
      BY <1>1, <1>2, <2>3, <2>9, PushTwice
    <2>11. c.mem[0] = h
      BY <2>7 DEF PutCells
    <2>12. c.mem[a].dummy /\ ~c.mem[0].dummy /\ ~c.mem[0].split
      BY <1>8, <2>3, <2>10, <2>11, DummyType
    <2>13. NewEntries(s, b, c) = {0}
      BY <2>10, <2>12 DEF NewEntries, Entries
    <2>14. Wrapped(s, c, a) /\ Wrapped(s, c, 0)
      BY <2>10, <2>12 DEF Wrapped, Entries
    <2> QED BY <1>1, <1>7, <2>1, <2>10, <2>11, <2>13, <2>14
  <1> QED BY <1>11, <1>12

-------------------------------------------------------------------------------
(*****************************************************************************)
(* prvCopyItemAllowSplit.                                                    *)
(*****************************************************************************)

(* The rest of an item after an aligned first part.                          *)
LEMMA AlignSizeShift ==
  ASSUME NEW n \in Nat, NEW x \in Nat, Aligned(x), x <= n
  PROVE  AlignSize(n - x) = AlignSize(n) - x
  <1>1. PICK y, z : y = AlignSize(n - x) /\ z = AlignSize(n)
    OBVIOUS
  <1>2. n - x \in Nat
    OBVIOUS
  <1>3. y \in Nat /\ y >= n - x /\ Aligned(y) /\ z \in Nat /\ z >= n /\ Aligned(z)
    BY <1>1, <1>2, AlignSizeType
  <1>4. Aligned(y + x) /\ Aligned(z - x)
    BY <1>3, AlignedSum
  <1>5. z <= y + x
    <2>1. n <= y + x /\ y + x \in Int
      BY <1>3
    <2> QED BY <1>1, <1>4, <2>1, AlignSizeLeast
  <1>6. y <= z - x
    <2>1. n - x <= z - x /\ z - x \in Int
      BY <1>3
    <2> QED BY <1>1, <1>2, <1>4, <2>1, AlignSizeLeast
  <1> QED BY <1>1, <1>3, <1>5, <1>6

(* The buffer after the first part of a split item, of n bytes.              *)
WithPart(b, i, n) ==
  WithAcquired(b, Fill(PutHeader(b.mem, b.acquire, SplitHeader(n, i)), b.acquire + Header, n, i), 0, FALSE)

(* The first part of a split item is pushed before pucAcquire goes to        *)
(* pucHead.                                                                  *)
LEMMA PartPushed ==
  ASSUME config \in Configs, NEW s, s = config.size, NEW b, Shape(b), Layout(s, b), ~b.full,
         0 < b.free, b.free <= b.acquire, NEW i \in Items, NEW n, n = s - b.acquire - Header, n > 0,
         NEW m, m = WithPart(b, i, n)
  PROVE  /\ Pushed(s, b, m) /\ m.acquire = 0 /\ Layout(s, m)
         /\ m.mem = Fill(PutHeader(b.mem, b.acquire, SplitHeader(n, i)), b.acquire + Header, n, i)
         /\ m.free = b.free /\ m.mem[b.acquire] = SplitHeader(n, i) /\ Aligned(n) /\ n \in Nat
         /\ Extent(m, b.acquire) = Header + n /\ Contents(m, b.acquire)
  <1>1. PICK a, h, k : a = b.acquire /\ h = SplitHeader(n, i) /\ k = Fill(PutHeader(b.mem, a, h), a + Header, n, i)
    OBVIOUS
  <1>2. m.mem = k /\ m.acquire = 0 /\ m.full \in BOOLEAN /\ ~m.full /\ m.free = b.free
    <2>1. PICK f : f = FALSE
      OBVIOUS
    <2>2. m = WithAcquired(b, k, 0, f)
      BY <1>1, <2>1 DEF WithPart
    <2>3. m.mem = k /\ m.acquire = 0 /\ m.full = f /\ m.free = b.free
      BY <2>2, SetAcquired
    <2>4. f \in BOOLEAN /\ ~f
      BY <2>1
    <2> QED BY <2>3, <2>4
  <1>3. Sz(s)
    BY ConfigFacts
  <1>4. /\ s \in Int /\ a \in 0 .. s - 1 /\ b.free \in 0 .. s - 1 /\ a + Header <= s
        /\ Header \in Int /\ Header > 0 /\ Aligned(s) /\ Aligned(a) /\ Aligned(Header)
    BY <1>1, <1>3, Sizes, PointerFacts DEF Sz
  <1>5. n \in Nat /\ n = s - a - Header
    BY <1>1, <1>4
  <1>6. Aligned(n)
    <2>1. Aligned(s - a)
      BY <1>4, AlignedSum
    <2> QED BY <1>4, <1>5, <2>1, AlignedSum
  <1>7. b.mem \in [0 .. s - 1 -> Cells]
    BY DEF Layout, Cells
  <1>8. h \in HeaderRec /\ ~h.dummy /\ h.len = n /\ h.item = i
    BY <1>1, <1>5, SplitHeaderType
  <1>9. PutCells(s, b.mem, m.mem, a, h, n, i)
    BY <1>1, <1>2, <1>4, <1>5, <1>7, <1>8, PutItemCells
  <1>10. AlignSize(n) = n
    <2>1. AlignSize(n) \in Nat /\ AlignSize(n) >= n
      BY <1>5, AlignSizeType
    <2>2. AlignSize(n) <= n
      BY <1>5, <1>6, AlignSizeLeast
    <2> QED BY <1>5, <2>1, <2>2
  <1>11. Takes(h) = Header + n
    BY <1>8, <1>10 DEF Takes
  <1>12. /\ a + Takes(h) <= s /\ Far(s, b, a) + Takes(h) <= s /\ s - (a + Takes(h)) < Header
    BY <1>1, <1>4, <1>5, <1>11 DEF Far, Dist
  <1>13. Pushed(s, b, m)
    <2>1. m.full \in BOOLEAN /\ (m.full <=> m.acquire = b.free)
      BY <1>2, <1>4
    <2>2. m.acquire = IF h.dummy \/ s - (a + Takes(h)) < Header THEN 0 ELSE a + Takes(h)
      BY <1>2, <1>12
    <2> QED BY <1>1, <1>2, <1>3, <1>5, <1>8, <1>9, <1>12, <2>1, <2>2, PutPushed
  <1>14. Layout(s, m)
    BY <1>3, <1>13, PushLayout
  <1>15. m.mem[a] = h
    BY <1>9 DEF PutCells
  <1>16. Extent(m, a) = Header + n
    BY <1>8, <1>10, <1>15 DEF Extent
  <1>17. Contents(m, a)
    <2>1. \A o \in 0 .. s - 1 : o \in a + Header .. a + Header + n - 1 => m.mem[o] = i
      BY <1>9 DEF PutCells
    <2>2. \A o \in a + Header .. a + Header + n - 1 : o \in 0 .. s - 1
      BY <1>4, <1>5
    <2> QED BY <1>8, <1>15, <2>1, <2>2 DEF Contents
  <1> QED BY <1>1, <1>2, <1>5, <1>6, <1>13, <1>14, <1>15, <1>16, <1>17

(* prvCopyItemAllowSplit: a whole item at pucAcquire, a whole item at        *)
(* pucHead after a dummy, or two parts.                                      *)
CopyWhole(s, b, i, n) ==
  WithSent(b, PutPart(b.mem, b.acquire, n, i, 1), AcquireNext(s, b.acquire, n),
           AcquireNext(s, b.acquire, n) = b.free, b.waiting + 1)
CopyHead(s, b, i, n) ==
  WithSent(b, PutPart(PutHeader(b.mem, b.acquire, Dummy), 0, n, i, 1), AcquireNext(s, 0, n),
           AcquireNext(s, 0, n) = b.free, b.waiting + 1)
CopyParts(s, b, i, n, k) ==
  WithSent(b, PutPart(Fill(PutHeader(b.mem, b.acquire, SplitHeader(k, i)), b.acquire + Header, k, i),
                      0, n - k, i, 2),
           AcquireNext(s, 0, n - k), AcquireNext(s, 0, n - k) = b.free, b.waiting + 2)

(* Where pucAcquire goes.                                                    *)
LEMMA NextIs ==
  ASSUME config \in Configs, NEW p \in Int, NEW n \in Nat
  PROVE  WrapAround(p + Header + AlignSize(n)) = AcquireNext(config.size, p, n)
  <1>1. PICK x : x = AlignSize(n)
    OBVIOUS
  <1>2. x \in Int /\ Header \in Int
    BY <1>1, AlignSizeType, Sizes
  <1>3. p + Header + x = p + (Header + x)
    BY <1>2
  <1> QED BY <1>1, <1>3 DEF WrapAround, AcquireNext

(* prvCopyItemAllowSplit writes an item whole, at pucHead after a dummy, or  *)
(* in two parts.                                                             *)
LEMMA CopyCases ==
  ASSUME config \in Configs, NEW s, s = config.size, NEW b, Layout(s, b), ~b.full, NEW i, NEW n \in Nat,
         NEW k, k = s - b.acquire - Header
  PROVE  /\ k \in Nat
         /\ ~Wraps(s, b, n) => CopyItemAllowSplit(b, i, n) = CopyWhole(s, b, i, n)
         /\ Wraps(s, b, n) /\ k = 0 => CopyItemAllowSplit(b, i, n) = CopyHead(s, b, i, n)
         /\ Wraps(s, b, n) /\ k > 0 => k < n /\ CopyItemAllowSplit(b, i, n) = CopyParts(s, b, i, n, k)
  <1>1. PICK a, x : a = b.acquire /\ x = AlignSize(n)
    OBVIOUS
  <1>2. Sz(s)
    BY ConfigFacts
  <1>3. /\ s \in Int /\ a \in 0 .. s - 1 /\ a + Header <= s /\ Aligned(a) /\ Aligned(s)
        /\ Header \in Int /\ Header > 0 /\ Aligned(Header) /\ Align \in Int /\ Align > 0
    BY <1>1, <1>2, Sizes, PointerFacts DEF Sz
  <1>4. k \in Nat /\ k = s - a - Header
    BY <1>1, <1>3
  <1>5. Wraps(s, b, n) <=> s - a < x + Header
    BY <1>1 DEF Wraps
  <1>6. x \in Nat /\ x < n + Align /\ Aligned(x)
    BY <1>1, AlignSizeType
  <1>7. Aligned(k)
    <2>1. Aligned(s - a)
      BY <1>3, AlignedSum
    <2> QED BY <1>3, <1>4, <2>1, AlignedSum
  <1>8. ASSUME Wraps(s, b, n) PROVE k < n
    <2>1. k < x
      BY <1>3, <1>4, <1>5, <1>6, <1>8
    <2>2. k + Align <= x
      BY <1>6, <1>7, <2>1, AlignedSum
    <2> QED BY <1>3, <1>4, <1>6, <2>2
  <1>9. ASSUME ~Wraps(s, b, n) PROVE CopyItemAllowSplit(b, i, n) = CopyWhole(s, b, i, n)
    <2>1. ~(s - a < x + Header)
      BY <1>5, <1>9
    <2>2. PICK g : g = AcquireNext(s, a, n)
      OBVIOUS
    <2>3. WrapAround(a + Header + x) = g
      BY <1>1, <1>3, <2>2, NextIs
    <2>4. CopyItemAllowSplit(b, i, n) = [b EXCEPT !.mem = PutPart(b.mem, a, n, i, 1), !.acquire = g, !.write = g,
                                                 !.full = b.full \/ g = b.free, !.waiting = b.waiting + 1]
      BY <1>1, <2>1, <2>3 DEF CopyItemAllowSplit
    <2>5. (b.full \/ g = b.free) = (g = b.free)
      OBVIOUS
    <2> QED BY <1>1, <2>2, <2>4, <2>5 DEF CopyWhole, WithSent
  <1>10. ASSUME Wraps(s, b, n), k = 0 PROVE CopyItemAllowSplit(b, i, n) = CopyHead(s, b, i, n)
    <2>1. s - a < x + Header /\ ~(s - a - Header > 0)
      BY <1>4, <1>5, <1>10
    <2>2. PICK g : g = AcquireNext(s, 0, n)
      OBVIOUS
    <2>3. WrapAround(0 + Header + x) = g
      BY <1>1, <2>2, NextIs
    <2>4. CopyItemAllowSplit(b, i, n) = [b EXCEPT !.mem = PutPart(PutHeader(b.mem, a, Dummy), 0, n, i, 1),
                                                 !.acquire = g, !.write = g,
                                                 !.full = b.full \/ g = b.free, !.waiting = b.waiting + 1]
      BY <1>1, <2>1, <2>3 DEF CopyItemAllowSplit
    <2>5. (b.full \/ g = b.free) = (g = b.free)
      OBVIOUS
    <2> QED BY <1>1, <2>2, <2>4, <2>5 DEF CopyHead, WithSent
  <1>11. ASSUME Wraps(s, b, n), k > 0 PROVE CopyItemAllowSplit(b, i, n) = CopyParts(s, b, i, n, k)
    <2>1. s - a < x + Header /\ s - a - Header > 0
      BY <1>4, <1>5, <1>11
    <2>2. PICK g, y : g = AcquireNext(s, 0, n - k) /\ y = n - k
      OBVIOUS
    <2>3. y \in Nat /\ x - k = AlignSize(y)
      BY <1>1, <1>4, <1>7, <1>8, <1>11, <2>2, AlignSizeShift
    <2>4. WrapAround(0 + Header + (x - k)) = g
      BY <2>2, <2>3, NextIs
    <2>5. CopyItemAllowSplit(b, i, n) =
            [b EXCEPT !.mem = PutPart(Fill(PutHeader(b.mem, a, SplitHeader(k, i)), a + Header, k, i), 0, n - k, i, 2),
                      !.acquire = g, !.write = g, !.full = b.full \/ g = b.free, !.waiting = b.waiting + 2]
      BY <1>1, <1>4, <2>1, <2>4 DEF CopyItemAllowSplit, SplitHeader
    <2>6. (b.full \/ g = b.free) = (g = b.free)
      OBVIOUS
    <2> QED BY <1>1, <2>2, <2>5, <2>6 DEF CopyParts, WithSent
  <1> QED BY <1>4, <1>8, <1>9, <1>10, <1>11

(* What a sender adds: an item i, whole or in two parts.                     *)
NewParts(s, b, c) ==
  \/ \E p : NewEntries(s, b, c) = {p} /\ c.mem[p].part = 1
  \/ \E p, q : /\ NewEntries(s, b, c) = {p, q} /\ p # q /\ Far(s, c, p) < Far(s, c, q)
               /\ c.mem[p].part = 1 /\ c.mem[q].part = 2

Sent(s, b, c, i) ==
  /\ Shape(c) /\ Layout(s, c) /\ Grown(s, b, c)
  /\ \A p \in Heads(s, c) \ Heads(s, b) : Wrapped(s, c, p)
  /\ \A p \in NewEntries(s, b, c) : c.mem[p].item = i /\ ~c.mem[p].freed /\ Contents(c, p)
  /\ c.write = c.acquire /\ c.read = b.read
  /\ c.waiting = b.waiting + Cardinality(NewEntries(s, b, c))
  /\ NewParts(s, b, c)

(* SetSent with the flag xFull in terms of the pointers.                     *)
LEMMA SentFields ==
  ASSUME NEW b, Shape(b), NEW m, NEW g, NEW f \in BOOLEAN, f <=> g = b.free, NEW k, NEW c, c = WithSent(b, m, g, f, k)
  PROVE  /\ Shape(c) /\ c.mem = m /\ c.acquire = g /\ c.write = g /\ c.waiting = k
         /\ c.read = b.read /\ c.free = b.free
         /\ c.full \in BOOLEAN /\ (c.full <=> g = b.free)
  <1>1. /\ Shape(c) /\ c.mem = m /\ c.acquire = g /\ c.full = f /\ c.write = g /\ c.waiting = k
        /\ c.read = b.read /\ c.free = b.free
    BY SetSent
  <1> QED BY <1>1

(* A part that was put at the acquire pointer of m.                          *)
LEMMA PartPut ==
  ASSUME config \in Configs, NEW s, s = config.size, NEW m, Layout(s, m), ~m.full, NEW i \in Items, NEW n \in Nat,
         NEW k \in {1, 2}, NEW c, c.mem = PutPart(m.mem, m.acquire, n, i, k),
         c.acquire = AcquireNext(s, m.acquire, n), c.free = m.free,
         c.full \in BOOLEAN, c.full <=> c.acquire = m.free,
         m.acquire + (AlignSize(n) + Header) <= s, Far(s, m, m.acquire) + (AlignSize(n) + Header) <= s
  PROVE  Pushed(s, m, c) /\ c.mem[m.acquire] = NewHeader(n, i, k) /\ Contents(c, m.acquire)
  <1>1. PICK a, h, t : a = m.acquire /\ h = NewHeader(n, i, k) /\ t = AlignSize(n) + Header
    OBVIOUS
  <1>2. Sz(s)
    BY ConfigFacts
  <1>3. /\ s \in Int /\ a \in 0 .. s - 1 /\ Header \in Int /\ Header > 0
        /\ t \in Int /\ t = Header + AlignSize(n) /\ AlignSize(n) \in Nat /\ AlignSize(n) >= n
    BY <1>1, <1>2, Sizes, PointerFacts, AlignSizeType
  <1>4. h \in HeaderRec /\ ~h.dummy /\ h.len = n /\ h.item = i
    BY <1>1, NewHeaderType
  <1>5. m.mem \in [0 .. s - 1 -> Cells]
    BY DEF Layout, Cells
  <1>6. c.mem = Fill(PutHeader(m.mem, a, h), a + Header, n, i)
    BY <1>1 DEF PutPart
  <1>7. PutCells(s, m.mem, c.mem, a, h, n, i)
    BY <1>3, <1>4, <1>5, <1>6, PutItemCells
  <1>8. Takes(h) = t
    BY <1>3, <1>4 DEF Takes
  <1>9. c.acquire = IF h.dummy \/ s - (a + Takes(h)) < Header THEN 0 ELSE a + Takes(h)
    BY <1>1, <1>3, <1>4, <1>8 DEF AcquireNext
  <1>10. Pushed(s, m, c)
    BY <1>1, <1>2, <1>4, <1>7, <1>8, <1>9, PutPushed
  <1>11. c.mem[a] = h
    BY <1>7 DEF PutCells
  <1>12. Contents(c, a)
    <2>1. \A o \in 0 .. s - 1 : o \in a + Header .. a + Header + n - 1 => c.mem[o] = i
      BY <1>7 DEF PutCells
    <2>2. \A o \in a + Header .. a + Header + n - 1 : o \in 0 .. s - 1
      BY <1>1, <1>3
    <2> QED BY <1>4, <1>11, <2>1, <2>2 DEF Contents
  <1> QED BY <1>1, <1>10, <1>11, <1>12

(* prvCopyItemAllowSplit adds the item, whole or in two parts.               *)
LEMMA CopySent ==
  ASSUME config \in Configs, config.kind = "allowsplit", NEW s, s = config.size,
         NEW b, Shape(b), Layout(s, b), NEW i \in Items, NEW n \in Nat,
         n <= MaxItemSize, CheckItemFits(b, n), NEW c, c = CopyItemAllowSplit(b, i, n)
  PROVE  Sent(s, b, c, i)
  <1>1. PICK a, f, k : a = b.acquire /\ f = b.free /\ k = s - a - Header
    OBVIOUS
  <1>2. Sz(s) /\ ~b.full
    BY ConfigFacts, FitsFacts
  <1>3. /\ s \in Int /\ a \in 0 .. s - 1 /\ f \in 0 .. s - 1 /\ Header \in Int /\ Header > 0
        /\ a + Header <= s
    BY <1>1, <1>2, Sizes, PointerFacts
  <1>4. AlignSize(n) \in Nat
    BY AlignSizeType
  <1>5. /\ k \in Nat
        /\ ~Wraps(s, b, n) => c = CopyWhole(s, b, i, n)
        /\ Wraps(s, b, n) /\ k = 0 => c = CopyHead(s, b, i, n)
        /\ Wraps(s, b, n) /\ k > 0 => k < n /\ c = CopyParts(s, b, i, n, k)
    BY <1>1, <1>2, CopyCases
  <1>6. CASE ~Wraps(s, b, n)
    <2>1. /\ Shape(c) /\ c.mem = PutPart(b.mem, a, n, i, 1) /\ c.acquire = AcquireNext(s, a, n)
          /\ c.write = c.acquire /\ c.waiting = b.waiting + 1
          /\ c.read = b.read /\ c.free = b.free /\ c.full \in BOOLEAN /\ (c.full <=> c.acquire = b.free)
      <3>1. PICK m, g, w, x :
              m = PutPart(b.mem, a, n, i, 1) /\ g = AcquireNext(s, a, n) /\ w = b.waiting + 1 /\ x = (g = b.free)
        OBVIOUS
      <3>4. CopyWhole(s, b, i, n) = WithSent(b, m, g, x, w)
        BY <1>1, <3>1, Zenon DEF CopyWhole
      <3>2. c = WithSent(b, m, g, x, w)
        BY <1>5, <1>6, <3>4
      <3>3. /\ Shape(c) /\ c.mem = m /\ c.acquire = g /\ c.write = g /\ c.waiting = w
            /\ c.read = b.read /\ c.free = b.free /\ c.full \in BOOLEAN /\ (c.full <=> g = b.free)
        <4>1. x \in BOOLEAN /\ (x <=> g = b.free)
          BY <3>1
        <4> QED BY <3>2, <4>1, SentFields
      <3> QED BY <3>1, <3>3
    <2>2. a + (AlignSize(n) + Header) <= s /\ Far(s, b, a) + (AlignSize(n) + Header) <= s
      BY <1>1, <1>6, FitsFacts
    <2>3. Pushed(s, b, c) /\ c.mem[a] = NewHeader(n, i, 1) /\ Contents(c, a)
      BY <1>1, <1>2, <2>1, <2>2, PartPut
    <2>4. Layout(s, c) /\ Grown(s, b, c)
      BY <1>2, <2>3, PushLayout, PushGrown
    <2>5. a \notin Heads(s, b) /\ Heads(s, c) = Heads(s, b) \cup {a}
      BY <1>1, <1>2, <2>3, PushKeeps
    <2>6. ~c.mem[a].dummy /\ ~c.mem[a].split /\ c.mem[a].item = i /\ ~c.mem[a].freed /\ c.mem[a].part = 1
      BY <2>3, NewHeaderType
    <2>7. NewEntries(s, b, c) = {a}
      BY <2>5, <2>6 DEF NewEntries, Entries
    <2>8. Wrapped(s, c, a)
      BY <2>6 DEF Wrapped
    <2>9. Cardinality({a}) = 1
      BY FS_Singleton
    <2>10. NewParts(s, b, c)
      BY <2>6, <2>7 DEF NewParts
    <2>11. /\ \A p \in Heads(s, c) \ Heads(s, b) : Wrapped(s, c, p)
           /\ \A p \in NewEntries(s, b, c) : c.mem[p].item = i /\ ~c.mem[p].freed /\ Contents(c, p)
           /\ c.waiting = b.waiting + Cardinality(NewEntries(s, b, c))
      BY <2>1, <2>3, <2>5, <2>6, <2>7, <2>8, <2>9
    <2> QED BY <2>1, <2>4, <2>10, <2>11 DEF Sent
  <1>7. CASE Wraps(s, b, n) /\ k = 0
    <2>1. PICK m : m = WithDummy(b)
      OBVIOUS
    <2>2. /\ 0 < f /\ f <= a /\ Header + (AlignSize(n) - k) <= f
      BY <1>1, <1>7, RoomAllowSplit
    <2>3. /\ Pushed(s, b, m) /\ m.acquire = 0 /\ Layout(s, m) /\ m.mem = PutHeader(b.mem, a, Dummy)
          /\ m.free = f /\ m.mem[a] = Dummy
      BY <1>1, <1>2, <2>1, <2>2, DummyPushed
    <2>4. ~m.full
      <3>1. m.full <=> m.acquire = m.free
        BY <2>3 DEF Pushed
      <3>2. f # 0
        BY <1>3, <2>2
      <3> QED BY <2>3, <3>1, <3>2
    <2>5. /\ Shape(c) /\ c.mem = PutPart(m.mem, 0, n, i, 1) /\ c.acquire = AcquireNext(s, 0, n)
          /\ c.write = c.acquire /\ c.waiting = b.waiting + 1
          /\ c.read = b.read /\ c.free = f /\ c.full \in BOOLEAN /\ (c.full <=> c.acquire = f)
      <3>1. PICK g, h, w, x :
              g = AcquireNext(s, 0, n) /\ h = PutPart(m.mem, 0, n, i, 1) /\ w = b.waiting + 1 /\ x = (g = b.free)
        OBVIOUS
      <3>4. m.mem = PutHeader(b.mem, b.acquire, Dummy)
        BY <1>1, <2>3
      <3>5. CopyHead(s, b, i, n) = WithSent(b, h, g, x, w)
        BY <3>1, <3>4, Zenon DEF CopyHead
      <3>2. c = WithSent(b, h, g, x, w)
        BY <1>5, <1>7, <3>5
      <3>3. /\ Shape(c) /\ c.mem = h /\ c.acquire = g /\ c.write = g /\ c.waiting = w
            /\ c.read = b.read /\ c.free = b.free /\ c.full \in BOOLEAN /\ (c.full <=> g = b.free)
        <4>1. x \in BOOLEAN /\ (x <=> g = b.free)
          BY <3>1
        <4> QED BY <3>2, <4>1, SentFields
      <3> QED BY <1>1, <3>1, <3>3
    <2>6. 0 + (AlignSize(n) + Header) <= s /\ Far(s, m, 0) + (AlignSize(n) + Header) <= s
      BY <1>3, <1>4, <1>7, <2>2, <2>3 DEF Far, Dist
    <2>7. Pushed(s, m, c) /\ c.mem[0] = NewHeader(n, i, 1) /\ Contents(c, 0)
      BY <1>1, <2>3, <2>4, <2>5, <2>6, PartPut
    <2>8. /\ Layout(s, c) /\ Grown(s, b, c)
          /\ Heads(s, c) = Heads(s, b) \cup {a, 0} /\ a # 0
          /\ a \notin Heads(s, b) /\ 0 \notin Heads(s, b)
          /\ c.mem[a] = m.mem[a] /\ Past(s, c, a) = 0 /\ Far(s, c, a) < Far(s, c, 0)
      BY <1>1, <1>2, <2>3, <2>7, PushTwice
    <2>9. /\ c.mem[a].dummy /\ ~c.mem[0].dummy /\ ~c.mem[0].split /\ c.mem[0].item = i
          /\ ~c.mem[0].freed /\ c.mem[0].part = 1
      BY <2>3, <2>7, <2>8, DummyType, NewHeaderType
    <2>10. NewEntries(s, b, c) = {0}
      BY <2>8, <2>9 DEF NewEntries, Entries
    <2>11. Wrapped(s, c, a) /\ Wrapped(s, c, 0)
      BY <2>8, <2>9 DEF Wrapped, Entries
    <2>12. Cardinality({0}) = 1
      BY FS_Singleton
    <2>13. NewParts(s, b, c)
      BY <2>9, <2>10 DEF NewParts
    <2>14. /\ \A p \in Heads(s, c) \ Heads(s, b) : Wrapped(s, c, p)
           /\ \A p \in NewEntries(s, b, c) : c.mem[p].item = i /\ ~c.mem[p].freed /\ Contents(c, p)
           /\ c.waiting = b.waiting + Cardinality(NewEntries(s, b, c))
      BY <2>5, <2>7, <2>8, <2>9, <2>10, <2>11, <2>12
    <2> QED BY <2>5, <2>8, <2>13, <2>14 DEF Sent
  <1>8. CASE Wraps(s, b, n) /\ k > 0
    <2>1. PICK m, y : m = WithPart(b, i, k) /\ y = n - k
      OBVIOUS
    <2>2. /\ 0 < f /\ f <= a /\ Header + (AlignSize(n) - k) <= f
      BY <1>1, <1>8, RoomAllowSplit
    <2>3. /\ Pushed(s, b, m) /\ m.acquire = 0 /\ Layout(s, m)
          /\ m.mem = Fill(PutHeader(b.mem, a, SplitHeader(k, i)), a + Header, k, i)
          /\ m.free = f /\ m.mem[a] = SplitHeader(k, i) /\ Aligned(k)
          /\ Extent(m, a) = Header + k /\ Contents(m, a)
      BY <1>1, <1>2, <1>8, <2>1, <2>2, PartPushed
    <2>4. ~m.full
      <3>1. m.full <=> m.acquire = m.free
        BY <2>3 DEF Pushed
      <3>2. f # 0
        BY <1>3, <2>2
      <3> QED BY <2>3, <3>1, <3>2
    <2>5. y \in Nat /\ AlignSize(y) = AlignSize(n) - k
      BY <1>5, <1>8, <2>1, <2>3, AlignSizeShift
    <2>6. /\ Shape(c) /\ c.mem = PutPart(m.mem, 0, y, i, 2) /\ c.acquire = AcquireNext(s, 0, y)
          /\ c.write = c.acquire /\ c.waiting = b.waiting + 2
          /\ c.read = b.read /\ c.free = f /\ c.full \in BOOLEAN /\ (c.full <=> c.acquire = f)
      <3>1. PICK g, h, w, x :
              g = AcquireNext(s, 0, y) /\ h = PutPart(m.mem, 0, y, i, 2) /\ w = b.waiting + 2 /\ x = (g = b.free)
        OBVIOUS
      <3>4. m.mem = Fill(PutHeader(b.mem, b.acquire, SplitHeader(k, i)), b.acquire + Header, k, i)
        BY <1>1, <2>3
      <3>5. CopyParts(s, b, i, n, k) = WithSent(b, h, g, x, w)
        BY <2>1, <3>1, <3>4, Zenon DEF CopyParts
      <3>2. c = WithSent(b, h, g, x, w)
        BY <1>5, <1>8, <3>5
      <3>3. /\ Shape(c) /\ c.mem = h /\ c.acquire = g /\ c.write = g /\ c.waiting = w
            /\ c.read = b.read /\ c.free = b.free /\ c.full \in BOOLEAN /\ (c.full <=> g = b.free)
        <4>1. x \in BOOLEAN /\ (x <=> g = b.free)
          BY <3>1
        <4> QED BY <3>2, <4>1, SentFields
      <3> QED BY <1>1, <3>1, <3>3
    <2>7. 0 + (AlignSize(y) + Header) <= s /\ Far(s, m, 0) + (AlignSize(y) + Header) <= s
      BY <1>3, <1>4, <1>5, <2>2, <2>3, <2>5 DEF Far, Dist
    <2>8. Pushed(s, m, c) /\ c.mem[0] = NewHeader(y, i, 2) /\ Contents(c, 0)
      BY <1>1, <2>3, <2>4, <2>5, <2>6, <2>7, PartPut
    <2>9. /\ Layout(s, c) /\ Grown(s, b, c)
          /\ Heads(s, c) = Heads(s, b) \cup {a, 0} /\ a # 0
          /\ a \notin Heads(s, b) /\ 0 \notin Heads(s, b)
          /\ c.mem[a] = m.mem[a] /\ Past(s, c, a) = 0 /\ Far(s, c, a) < Far(s, c, 0)
          /\ \A o \in a .. a + Extent(m, a) - 1 : c.mem[o] = m.mem[o]
      BY <1>1, <1>2, <2>3, <2>8, PushTwice
    <2>10. /\ ~c.mem[0].dummy /\ ~c.mem[0].split /\ c.mem[0].item = i /\ ~c.mem[0].freed /\ c.mem[0].part = 2
      <3>1. 2 \in {0, 1, 2} /\ i \in Items \cup {Junk}
        OBVIOUS
      <3> QED BY <2>5, <2>8, <3>1, NewHeaderType
    <2>11. /\ ~c.mem[a].dummy /\ c.mem[a].item = i /\ ~c.mem[a].freed /\ c.mem[a].part = 1 /\ c.mem[a].len = k
      BY <1>5, <2>3, <2>9, SplitHeaderType
    <2>12. Contents(c, a)
      <3>1. \A o \in a + Header .. a + Header + k - 1 : o \in a .. a + Extent(m, a) - 1
        BY <1>3, <1>5, <2>3
      <3>2. m.mem[a].len = k /\ m.mem[a].item = i
        BY <2>9, <2>11
      <3> QED BY <2>3, <2>9, <2>11, <3>1, <3>2 DEF Contents
    <2>13. NewEntries(s, b, c) = {a, 0}
      BY <2>9, <2>10, <2>11 DEF NewEntries, Entries
    <2>14. Wrapped(s, c, a) /\ Wrapped(s, c, 0)
      BY <2>9, <2>10, <2>11 DEF Wrapped, Entries
    <2>15. Cardinality({a, 0}) = 2
      <3>1. Cardinality({0}) = 1 /\ IsFiniteSet({0})
        BY FS_Singleton
      <3>2. Cardinality({0} \cup {a}) = Cardinality({0}) + 1
        BY <2>9, <3>1, FS_AddElement
      <3>3. {0} \cup {a} = {a, 0}
        OBVIOUS
      <3> QED BY <3>1, <3>2, <3>3
    <2>16. NewParts(s, b, c)
      BY <2>9, <2>10, <2>11, <2>13 DEF NewParts
    <2>17. /\ \A p \in Heads(s, c) \ Heads(s, b) : Wrapped(s, c, p)
           /\ \A p \in NewEntries(s, b, c) : c.mem[p].item = i /\ ~c.mem[p].freed /\ Contents(c, p)
           /\ c.waiting = b.waiting + Cardinality(NewEntries(s, b, c))
      BY <2>6, <2>8, <2>9, <2>10, <2>11, <2>12, <2>13, <2>14, <2>15
    <2> QED BY <2>6, <2>9, <2>16, <2>17 DEF Sent
  <1> QED BY <1>5, <1>6, <1>7, <1>8

-------------------------------------------------------------------------------
(*****************************************************************************)
(* The loops over headers: SkipItems is a recursive function; that it        *)
(* exists, and where its walks end.                                          *)
(*****************************************************************************)

(* The library's theorem about them is not for these provers.                *)
Iterates(f, m, first, step) ==
  f[0] = first /\ \A n \in 0 .. m - 1 : f[n + 1] = step[f[n]]

(* They exist up to any number.                                              *)
LEMMA IteratesExist ==
  ASSUME NEW X, NEW first \in X, NEW step \in [X -> X]
  PROVE  \A m \in Nat : \E f \in [0 .. m -> X] : Iterates(f, m, first, step)
  <1> DEFINE S == {m \in Nat : \E f \in [0 .. m -> X] : Iterates(f, m, first, step)}
  <1>1. 0 \in S
    <2> DEFINE f == [n \in 0 .. 0 |-> first]
    <2>1. f \in [0 .. 0 -> X] /\ f[0] = first
      OBVIOUS
    <2> HIDE DEF f
    <2>2. Iterates(f, 0, first, step)
      BY <2>1 DEF Iterates
    <2> QED BY <2>1, <2>2
  <1>2. ASSUME NEW m \in Nat, m \in S PROVE m + 1 \in S
    <2>1. PICK f \in [0 .. m -> X] : Iterates(f, m, first, step)
      BY <1>2
    <2> DEFINE g == [n \in 0 .. m + 1 |-> IF n <= m THEN f[n] ELSE step[f[m]]]
    <2>2. /\ g \in [0 .. m + 1 -> X]
          /\ \A n \in 0 .. m : g[n] = f[n]
          /\ g[m + 1] = step[f[m]]
      OBVIOUS
    <2> HIDE DEF g
    <2>3. Iterates(g, m + 1, first, step)
      <3>1. g[0] = first
        BY <2>1, <2>2 DEF Iterates
      <3>2. ASSUME NEW n \in 0 .. (m + 1) - 1 PROVE g[n + 1] = step[g[n]]
        <4>1. CASE n = m
          BY <2>2, <4>1
        <4>2. CASE n \in 0 .. m - 1
          <5>1. n + 1 \in 0 .. m /\ n \in 0 .. m
            BY <4>2
          <5> QED BY <2>1, <2>2, <4>2, <5>1 DEF Iterates
        <4> QED BY <4>1, <4>2
      <3> QED BY <3>1, <3>2 DEF Iterates
    <2> QED BY <2>2, <2>3
  <1> HIDE DEF S
  <1>3. \A m \in Nat : m \in S
    BY <1>1, <1>2, Induction
  <1> QED BY <1>3 DEF S

(* Two of them agree as far as both go.                                      *)
LEMMA IteratesAgree ==
  ASSUME NEW first, NEW step, NEW m \in Nat, NEW k \in Nat, NEW f, NEW g,
         Iterates(f, m, first, step), Iterates(g, k, first, step)
  PROVE  \A n \in Nat : n <= m /\ n <= k => f[n] = g[n]
  <1> DEFINE S == {n \in Nat : n <= m /\ n <= k => f[n] = g[n]}
  <1>1. 0 \in S
    BY DEF Iterates
  <1>2. ASSUME NEW n \in Nat, n \in S PROVE n + 1 \in S
    <2> SUFFICES ASSUME n + 1 <= m, n + 1 <= k PROVE f[n + 1] = g[n + 1]
      OBVIOUS
    <2>1. n \in 0 .. m - 1 /\ n \in 0 .. k - 1 /\ f[n] = g[n]
      BY <1>2
    <2> QED BY <2>1 DEF Iterates
  <1> HIDE DEF S
  <1>3. \A n \in Nat : n \in S
    BY <1>1, <1>2, Induction
  <1> QED BY <1>3 DEF S

(* So there is one for all numbers.                                          *)
IterateOf(X, first, step, f) ==
  f \in [Nat -> X] /\ f[0] = first /\ \A n \in Nat : f[n + 1] = step[f[n]]

(* A function can be iterated: what recursion over numbers means.            *)
LEMMA IterateExists ==
  ASSUME NEW X, NEW first \in X, NEW step \in [X -> X]
  PROVE  \E f : IterateOf(X, first, step, f)
  <1> DEFINE W(m) == CHOOSE f \in [0 .. m -> X] : Iterates(f, m, first, step)
             F == [n \in Nat |-> W(n)[n]]
  <1>1. \A m \in Nat : W(m) \in [0 .. m -> X] /\ Iterates(W(m), m, first, step)
    BY IteratesExist
  <1> HIDE DEF W
  <1>2. F \in [Nat -> X] /\ \A n \in Nat : F[n] = W(n)[n]
    BY <1>1
  <1> HIDE DEF F
  <1>3. F[0] = first
    BY <1>1, <1>2 DEF Iterates
  <1>4. ASSUME NEW n \in Nat PROVE F[n + 1] = step[F[n]]
    <2>1. n + 1 \in Nat /\ n \in 0 .. (n + 1) - 1
      OBVIOUS
    <2>2. W(n + 1)[n + 1] = step[W(n + 1)[n]]
      BY <1>1, <2>1 DEF Iterates
    <2>3. PICK f, g : f = W(n + 1) /\ g = W(n)
      OBVIOUS
    <2>4. f[n] = g[n]
      BY <1>1, <2>1, <2>3, IteratesAgree
    <2> QED BY <1>2, <2>1, <2>2, <2>3, <2>4
  <1> QED BY <1>2, <1>3, <1>4 DEF IterateOf

(* The loops: a walk from p over the offsets of go, at most n steps.         *)
WalkOf(X, go, nx, g) ==
  /\ g \in [Nat -> [X -> X]]
  /\ \A n \in Nat, p \in X : g[n][p] = IF n > 0 /\ p \in go THEN g[n - 1][nx[p]] ELSE p

(* The walk that SkipItems defines exists.                                   *)
LEMMA WalkExists ==
  ASSUME NEW X, NEW go, NEW nx \in [X -> X]
  PROVE  \E g : WalkOf(X, go, nx, g)
  <1> DEFINE Y == [X -> X]
             first == [p \in X |-> p]
             next(h) == [p \in X |-> IF p \in go THEN h[nx[p]] ELSE p]
             step == [h \in Y |-> next(h)]
  <1>1. \A h \in Y : next(h) \in Y
    OBVIOUS
  <1>2. first \in Y /\ step \in [Y -> Y] /\ \A h \in Y : step[h] = next(h)
    <2> HIDE DEF next
    <2> QED BY <1>1
  <1>5. PICK g : IterateOf(Y, first, step, g)
    <2> HIDE DEF next
    <2>1. first \in Y /\ step \in [Y -> Y]
      BY <1>2
    <2> HIDE DEF Y, first, step
    <2> QED BY <2>1, IterateExists
  <1> HIDE DEF step
  <1>3. g \in [Nat -> Y] /\ g[0] = first /\ \A n \in Nat : g[n + 1] = step[g[n]]
    BY <1>5 DEF IterateOf
  <1>4. ASSUME NEW n \in Nat, NEW p \in X
        PROVE  g[n][p] = IF n > 0 /\ p \in go THEN g[n - 1][nx[p]] ELSE p
    <2>1. CASE n = 0
      BY <1>3, <2>1
    <2>2. CASE n > 0
      <3>1. n - 1 \in Nat /\ (n - 1) + 1 = n
        BY <2>2
      <3>2. PICK h : h = g[n - 1]
        OBVIOUS
      <3>3. g[n] = next(h)
        <4> HIDE DEF next, step, Y
        <4>1. g[(n - 1) + 1] = step[g[n - 1]] /\ g[n - 1] \in Y
          BY <1>3, <3>1
        <4>2. g[n] = step[h] /\ h \in Y
          BY <3>1, <3>2, <4>1
        <4> QED BY <1>2, <4>2
      <3>4. next(h)[p] = IF p \in go THEN h[nx[p]] ELSE p
        OBVIOUS
      <3> HIDE DEF next
      <3> QED BY <2>2, <3>2, <3>3, <3>4
    <2> QED BY <2>1, <2>2
  <1> QED BY <1>3, <1>4 DEF WalkOf

(* The next header is in the buffer.                                         *)
LEMMA PastItemType ==
  ASSUME config \in Configs, NEW s, s = config.size, NEW b, Layout(s, b), NEW p \in 0 .. s - 1
  PROVE  PastItem(b, p) \in 0 .. s - 1 /\ (p \in Heads(s, b) => PastItem(b, p) = Past(s, b, p))
  <1>1. PICK h, x : h = HeaderAt(b, p) /\ x = AlignSize(h.len)
    OBVIOUS
  <1>2. Sz(s)
    BY ConfigFacts
  <1>3. s \in Int /\ Header \in Int /\ Header > 0 /\ Header <= s
    BY <1>2, Sizes
  <1>4. h \in HeaderRec
    <2>1. CASE p \in Heads(s, b)
      BY <1>1, <2>1, MemFacts
    <2>2. CASE p \notin Heads(s, b)
      <3>1. h = NewHeader(0, Junk, 0)
        BY <1>1, <2>2 DEF Heads, HeaderAt
      <3> QED BY <3>1, NewHeaderType
    <2> QED BY <2>1, <2>2
  <1>5. h.len \in Nat /\ h.dummy \in BOOLEAN
    BY <1>4 DEF HeaderRec
  <1>6. x \in Nat
    BY <1>1, <1>5, AlignSizeType
  <1>7. PastItem(b, p) = IF h.dummy \/ s - (p + Header + x) < Header THEN 0 ELSE p + Header + x
    BY <1>1, <1>5 DEF PastItem, WrapAround
  <1>8. PastItem(b, p) \in 0 .. s - 1
    BY <1>3, <1>5, <1>6, <1>7
  <1>9. ASSUME p \in Heads(s, b) PROVE PastItem(b, p) = Past(s, b, p)
    <2>1. b.mem[p] = h
      BY <1>1, <1>9, MemFacts
    <2>2. p + Header + x = p + (Header + x)
      BY <1>3, <1>6
    <2>3. ~h.dummy => Extent(b, p) = Header + x
      BY <1>1, <2>1 DEF Extent
    <2> QED BY <1>5, <1>7, <2>1, <2>2, <2>3 DEF Past
  <1> QED BY <1>8, <1>9

(* The offsets whose headers the loops pass.                                 *)
WrittenAt(s, b) == {p \in 0 .. s - 1 : HeaderAt(b, p).written \/ HeaderAt(b, p).dummy}
FreedAt(s, b) == {p \in 0 .. s - 1 : HeaderAt(b, p).freed \/ HeaderAt(b, p).dummy}

(* The walk that f does: n steps from p, up to stop, over G.                 *)
Walk(s, b, f, stop, G) ==
  \A n \in Nat, p \in 0 .. s - 1 :
    f[n][p] = IF n > 0 /\ p # stop /\ p \in G THEN f[n - 1][PastItem(b, p)] ELSE p

(* Where they end.                                                           *)
PastWritten(b, from, stop) == SkipItems(b, from, stop, LAMBDA g : g.written)
PastFreed(b, from, stop) == SkipItems(b, from, stop, LAMBDA g : g.freed)

(* The loop that advances pucWrite is a walk.                                *)
LEMMA SkipWritten ==
  ASSUME config \in Configs, NEW s, s = config.size, NEW b, Layout(s, b), NEW from, NEW stop
  PROVE  \E f : Walk(s, b, f, stop, WrittenAt(s, b)) /\ PastWritten(b, from, stop) = f[s][from]
  <1>0. PICK X : X = 0 .. s - 1
    OBVIOUS
  <1> DEFINE Go(p) == Passed(HeaderAt(b, p), HeaderAt(b, p).written)
             Def(f) == [n \in Nat |-> [p \in X |->
                          IF n > 0 /\ p # stop /\ Go(p) THEN f[n - 1][PastItem(b, p)] ELSE p]]
             skip == CHOOSE f : f = Def(f)
             go == {p \in X : p # stop /\ Go(p)}
             nx == [p \in X |-> PastItem(b, p)]
  <1>1. PastWritten(b, from, stop) = skip[s][from]
    BY <1>0 DEF PastWritten, SkipItems, Offsets
  <1>2. nx \in [X -> X]
    BY <1>0, PastItemType
  <1>3. PICK g : WalkOf(X, go, nx, g)
    <2> HIDE DEF nx, go
    <2> QED BY <1>2, WalkExists
  <1>4. \A n \in Nat, p \in X : g[n][p] = Def(g)[n][p]
    <2> HIDE DEF Go
    <2> QED BY <1>3 DEF WalkOf
  <1>5. g = Def(g)
    <2> SUFFICES \A n \in Nat : g[n] = Def(g)[n]
      BY <1>3 DEF WalkOf
    <2> TAKE n \in Nat
    <2>1. g[n] \in [X -> X]
      BY <1>3 DEF WalkOf
    <2>2. Def(g)[n] = [p \in X |-> Def(g)[n][p]]
      OBVIOUS
    <2>3. g[n] = [p \in X |-> g[n][p]]
      BY <2>1
    <2> QED BY <1>4, <2>2, <2>3, Zenon
  <1>6. skip = Def(skip)
    <2> HIDE DEF Def
    <2> QED BY <1>5
  <1> HIDE DEF skip
  <1>7. PICK f : f = skip
    OBVIOUS
  <1>8. f = Def(f)
    BY <1>6, <1>7
  <1>9. \A n \in Nat : f[n] = Def(f)[n]
    BY <1>8
  <1>10. \A n \in Nat, p \in X :
          f[n][p] = IF n > 0 /\ p # stop /\ Go(p) THEN f[n - 1][PastItem(b, p)] ELSE p
    <2> HIDE DEF Go
    <2>1. \A n \in Nat, p \in X :
            Def(f)[n][p] = IF n > 0 /\ p # stop /\ Go(p) THEN f[n - 1][PastItem(b, p)] ELSE p
      OBVIOUS
    <2> HIDE DEF Def
    <2> QED BY <1>9, <2>1
  <1>11. \A p \in X : Go(p) <=> p \in WrittenAt(s, b)
    BY <1>0 DEF Passed, WrittenAt
  <1>12. Walk(s, b, f, stop, WrittenAt(s, b))
    <2> HIDE DEF Go
    <2> QED BY <1>0, <1>10, <1>11 DEF Walk
  <1> QED BY <1>1, <1>7, <1>12

(* The loop that advances pucFree is a walk.                                 *)
LEMMA SkipFreed ==
  ASSUME config \in Configs, NEW s, s = config.size, NEW b, Layout(s, b), NEW from, NEW stop
  PROVE  \E f : Walk(s, b, f, stop, FreedAt(s, b)) /\ PastFreed(b, from, stop) = f[s][from]
  <1>0. PICK X : X = 0 .. s - 1
    OBVIOUS
  <1> DEFINE Go(p) == Passed(HeaderAt(b, p), HeaderAt(b, p).freed)
             Def(f) == [n \in Nat |-> [p \in X |->
                          IF n > 0 /\ p # stop /\ Go(p) THEN f[n - 1][PastItem(b, p)] ELSE p]]
             skip == CHOOSE f : f = Def(f)
             go == {p \in X : p # stop /\ Go(p)}
             nx == [p \in X |-> PastItem(b, p)]
  <1>1. PastFreed(b, from, stop) = skip[s][from]
    BY <1>0 DEF PastFreed, SkipItems, Offsets
  <1>2. nx \in [X -> X]
    BY <1>0, PastItemType
  <1>3. PICK g : WalkOf(X, go, nx, g)
    <2> HIDE DEF nx, go
    <2> QED BY <1>2, WalkExists
  <1>4. \A n \in Nat, p \in X : g[n][p] = Def(g)[n][p]
    <2> HIDE DEF Go
    <2> QED BY <1>3 DEF WalkOf
  <1>5. g = Def(g)
    <2> SUFFICES \A n \in Nat : g[n] = Def(g)[n]
      BY <1>3 DEF WalkOf
    <2> TAKE n \in Nat
    <2>1. g[n] \in [X -> X]
      BY <1>3 DEF WalkOf
    <2>2. Def(g)[n] = [p \in X |-> Def(g)[n][p]]
      OBVIOUS
    <2>3. g[n] = [p \in X |-> g[n][p]]
      BY <2>1
    <2> QED BY <1>4, <2>2, <2>3, Zenon
  <1>6. skip = Def(skip)
    <2> HIDE DEF Def
    <2> QED BY <1>5
  <1> HIDE DEF skip
  <1>7. PICK f : f = skip
    OBVIOUS
  <1>8. f = Def(f)
    BY <1>6, <1>7
  <1>9. \A n \in Nat : f[n] = Def(f)[n]
    BY <1>8
  <1>10. \A n \in Nat, p \in X :
          f[n][p] = IF n > 0 /\ p # stop /\ Go(p) THEN f[n - 1][PastItem(b, p)] ELSE p
    <2> HIDE DEF Go
    <2>1. \A n \in Nat, p \in X :
            Def(f)[n][p] = IF n > 0 /\ p # stop /\ Go(p) THEN f[n - 1][PastItem(b, p)] ELSE p
      OBVIOUS
    <2> HIDE DEF Def
    <2> QED BY <1>9, <2>1
  <1>11. \A p \in X : Go(p) <=> p \in FreedAt(s, b)
    BY <1>0 DEF Passed, FreedAt
  <1>12. Walk(s, b, f, stop, FreedAt(s, b))
    <2> HIDE DEF Go
    <2> QED BY <1>0, <1>10, <1>11 DEF Walk
  <1> QED BY <1>1, <1>7, <1>12

(* Where a walk from the header x ends: at stop, or at the first header      *)
(* that is not passed.                                                       *)
WalkEnd(s, b, G, stop, y, x, z) ==
  \E d \in Int :
    /\ Pointer(s, b, z, d) /\ Far(s, b, x) <= d /\ d <= y
    /\ z = stop \/ (z \in Heads(s, b) /\ z \notin G /\ d = Far(s, b, z))
    /\ \A v \in Heads(s, b) : Far(s, b, x) <= Far(s, b, v) /\ Far(s, b, v) < d => v \in G

(* A walk stops at the first header that is not marked, or at the stop.      *)
LEMMA WalkEnds ==
  ASSUME config \in Configs, NEW s, s = config.size, NEW b, Layout(s, b), NEW f, NEW stop \in 0 .. s - 1, NEW G,
         Walk(s, b, f, stop, G), NEW y \in Int, Pointer(s, b, stop, y)
  PROVE  \A n \in Nat : \A x \in Heads(s, b) :
           Far(s, b, x) <= y /\ y - Far(s, b, x) <= n => WalkEnd(s, b, G, stop, y, x, f[n][x])
  <1> DEFINE S == {n \in Nat : \A x \in Heads(s, b) :
                     Far(s, b, x) <= y /\ y - Far(s, b, x) <= n => WalkEnd(s, b, G, stop, y, x, f[n][x])}
  <1>1. Sz(s)
    BY ConfigFacts
  <1>2. \A x \in Heads(s, b) : x \in 0 .. s - 1 /\ Far(s, b, x) \in Int /\ Far(s, b, x) < Used(s, b)
    BY <1>1, HeadFacts, Sizes
  <1>3. Used(s, b) \in Int
    BY <1>1, PointerFacts, Sizes
  <1>4. ASSUME NEW n \in Nat, NEW x \in Heads(s, b), x = stop \/ x \notin G, Far(s, b, x) <= y
        PROVE  WalkEnd(s, b, G, stop, y, x, f[n][x])
    <2>1. f[n][x] = x
      BY <1>2, <1>4 DEF Walk
    <2>2. Pointer(s, b, x, Far(s, b, x))
      BY DEF Pointer
    <2>3. /\ Far(s, b, x) \in Int
          /\ \A v \in Heads(s, b) : Far(s, b, x) <= Far(s, b, v) /\ Far(s, b, v) < Far(s, b, x) => v \in G
      BY <1>2
    <2>4. WalkEnd(s, b, G, stop, y, x, x)
      BY <1>2, <1>4, <2>2, <2>3 DEF WalkEnd
    <2> QED BY <2>1, <2>4
  <1>5. ASSUME NEW x \in Heads(s, b), x # stop, Far(s, b, x) <= y PROVE Far(s, b, x) < y
    <2>1. CASE y = Used(s, b)
      BY <1>2, <2>1
    <2>2. CASE stop \in Heads(s, b) /\ y = Far(s, b, stop)
      <3>1. Far(s, b, x) # Far(s, b, stop)
        BY <1>1, <1>2, <1>5, FarInjective
      <3> QED BY <1>2, <1>5, <2>2, <3>1
    <2> QED BY <2>1, <2>2 DEF Pointer
  <1>6. 0 \in S
    <2> SUFFICES ASSUME NEW x \in Heads(s, b), Far(s, b, x) <= y, y - Far(s, b, x) <= 0
                 PROVE  WalkEnd(s, b, G, stop, y, x, f[0][x])
      OBVIOUS
    <2>1. x = stop
      BY <1>2, <1>5
    <2> QED BY <1>4, <2>1
  <1>7. ASSUME NEW n \in Nat, n \in S PROVE n + 1 \in S
    <2> SUFFICES ASSUME NEW x \in Heads(s, b), Far(s, b, x) <= y, y - Far(s, b, x) <= n + 1
                 PROVE  WalkEnd(s, b, G, stop, y, x, f[n + 1][x])
      OBVIOUS
    <2>1. CASE x = stop \/ x \notin G
      BY <1>4, <2>1
    <2>2. CASE x # stop /\ x \in G
      <3>1. PICK w : w = Past(s, b, x)
        OBVIOUS
      <3>2. f[n + 1][x] = f[n][w]
        <4>1. PastItem(b, x) = w
          BY <1>2, <3>1, PastItemType
        <4>2. n + 1 \in Nat /\ n + 1 > 0 /\ (n + 1) - 1 = n
          OBVIOUS
        <4>3. f[n + 1][x] = f[(n + 1) - 1][PastItem(b, x)]
          BY <1>2, <2>2, <4>2 DEF Walk
        <4> QED BY <4>1, <4>2, <4>3
      <3>3. Far(s, b, x) < y
        BY <1>5, <2>2
      <3>4. CASE w = b.acquire /\ \A v \in Heads(s, b) : Far(s, b, v) <= Far(s, b, x)
        <4>1. y = Used(s, b) /\ stop = w
          BY <1>2, <3>3, <3>4 DEF Pointer
        <4>2. f[n][w] = w
          BY <4>1 DEF Walk
        <4>3. Pointer(s, b, w, y)
          BY <4>1
        <4>4. \A v \in Heads(s, b) : Far(s, b, x) <= Far(s, b, v) => v = x
          BY <1>1, <1>2, <3>4, FarInjective
        <4>5. WalkEnd(s, b, G, stop, y, x, w)
          BY <1>2, <2>2, <3>3, <4>1, <4>3, <4>4 DEF WalkEnd
        <4> QED BY <3>2, <4>2, <4>5
      <3>5. CASE /\ w \in Heads(s, b) /\ Far(s, b, x) + Extent(b, x) <= Far(s, b, w)
                 /\ \A v \in Heads(s, b) : Far(s, b, v) <= Far(s, b, x) \/ Far(s, b, w) <= Far(s, b, v)
        <4>1. Far(s, b, x) < Far(s, b, w) /\ Far(s, b, w) \in Int /\ Far(s, b, x) \in Int
          <5>1. Extent(b, x) \in Int /\ Extent(b, x) > 0
            BY <1>1, HeadFacts
          <5> QED BY <1>2, <3>5, <5>1
        <4>2. Far(s, b, w) <= y
          <5>1. CASE y = Used(s, b)
            BY <1>2, <1>3, <3>5, <5>1
          <5>2. CASE stop \in Heads(s, b) /\ y = Far(s, b, stop)
            BY <1>2, <3>3, <3>5, <5>2
          <5> QED BY <5>1, <5>2 DEF Pointer
        <4>3. y - Far(s, b, w) <= n
          BY <4>1
        <4>4. WalkEnd(s, b, G, stop, y, w, f[n][w])
          BY <1>7, <3>5, <4>2, <4>3
        <4>5. PICK z : z = f[n][w]
          OBVIOUS
        <4>6. PICK d \in Int :
                /\ Pointer(s, b, z, d) /\ Far(s, b, w) <= d /\ d <= y
                /\ z = stop \/ (z \in Heads(s, b) /\ z \notin G /\ d = Far(s, b, z))
                /\ \A v \in Heads(s, b) : Far(s, b, w) <= Far(s, b, v) /\ Far(s, b, v) < d => v \in G
          BY <4>4, <4>5 DEF WalkEnd
        <4>7. ASSUME NEW v \in Heads(s, b), Far(s, b, x) <= Far(s, b, v), Far(s, b, v) < d PROVE v \in G
          <5>1. CASE Far(s, b, w) <= Far(s, b, v)
            BY <4>6, <4>7, <5>1
          <5>2. CASE Far(s, b, v) <= Far(s, b, x)
            <6>1. Far(s, b, v) = Far(s, b, x)
              BY <1>2, <4>7, <5>2
            <6>2. v = x
              BY <1>1, <1>2, <6>1, FarInjective
            <6> QED BY <2>2, <6>2
          <5> QED BY <3>5, <5>1, <5>2
        <4>8. Far(s, b, x) <= d
          BY <4>1, <4>6
        <4>9. WalkEnd(s, b, G, stop, y, x, z)
          BY <4>6, <4>7, <4>8 DEF WalkEnd
        <4> QED BY <3>2, <4>5, <4>9
      <3>6. Linked(s, b, x)
        BY <1>1, HeadFacts
      <3> QED BY <3>1, <3>4, <3>5, <3>6 DEF Linked
    <2> QED BY <2>1, <2>2
  <1> HIDE DEF S
  <1>8. \A n \in Nat : n \in S
    BY <1>6, <1>7, Induction
  <1> QED BY <1>8 DEF S

-------------------------------------------------------------------------------
(*****************************************************************************)
(* prvSendItemDoneNoSplit.                                                   *)
(*****************************************************************************)

(* The headers of b and c are the same but for their flags.                  *)
SameHeads(s, b, c) ==
  /\ c.free = b.free /\ c.acquire = b.acquire /\ c.full = b.full
  /\ c.mem \in [0 .. s - 1 -> Items \cup {Junk} \cup HeaderRec]
  /\ Heads(s, c) = Heads(s, b)
  /\ \A p \in Heads(s, b) : /\ c.mem[p].dummy = b.mem[p].dummy /\ c.mem[p].len = b.mem[p].len
                            /\ c.mem[p].item = b.mem[p].item /\ c.mem[p].part = b.mem[p].part

(* Headers of the same extents at the same places have the same layout.      *)
LEMMA SameLayout ==
  ASSUME NEW s, NEW b, NEW c, Sz(s), Layout(s, b), SameHeads(s, b, c)
  PROVE  /\ Layout(s, c) /\ Entries(s, c) = Entries(s, b)
         /\ Used(s, c) = Used(s, b) /\ \A x : Far(s, c, x) = Far(s, b, x)
         /\ \A p \in Heads(s, b) : Extent(c, p) = Extent(b, p) /\ Past(s, c, p) = Past(s, b, p)
  <1>1. \A x : Far(s, c, x) = Far(s, b, x)
    BY DEF Far, SameHeads
  <1>2. Used(s, c) = Used(s, b)
    BY <1>1 DEF Used, SameHeads
  <1>3. \A p \in Heads(s, b) : Extent(c, p) = Extent(b, p)
    BY DEF Extent, SameHeads
  <1>4. \A p \in Heads(s, b) : Past(s, c, p) = Past(s, b, p)
    BY <1>3 DEF Past, SameHeads
  <1>5. Entries(s, c) = Entries(s, b)
    BY DEF Entries, SameHeads
  <1>6. ASSUME NEW p \in Heads(s, b) PROVE Linked(s, c, p)
    <2>1. Linked(s, b, p)
      BY DEF Layout
    <2>2. c.acquire = b.acquire /\ Heads(s, c) = Heads(s, b)
      BY DEF SameHeads
    <2>3. PICK q, e : q = Past(s, b, p) /\ e = Extent(b, p)
      OBVIOUS
    <2>4. q = Past(s, c, p) /\ e = Extent(c, p)
      BY <1>3, <1>4, <2>3
    <2>5. CASE q = b.acquire /\ \A x \in Heads(s, b) : Far(s, b, x) <= Far(s, b, p)
      BY <1>1, <2>2, <2>4, <2>5 DEF Linked
    <2>6. CASE /\ q \in Heads(s, b) /\ Far(s, b, p) + e <= Far(s, b, q)
               /\ \A x \in Heads(s, b) : Far(s, b, x) <= Far(s, b, p) \/ Far(s, b, q) <= Far(s, b, x)
      BY <1>1, <2>2, <2>4, <2>6 DEF Linked
    <2> QED BY <2>1, <2>3, <2>5, <2>6 DEF Linked
  <1>7. Layout(s, c)
    BY <1>1, <1>2, <1>3, <1>6 DEF Layout, SameHeads
  <1> QED BY <1>1, <1>2, <1>3, <1>4, <1>5, <1>7

(* When something is in use there is a header at pucFree.                    *)
LEMMA NotEmpty ==
  ASSUME NEW s, NEW b, Sz(s), Layout(s, b), Used(s, b) > 0
  PROVE  b.free \in Heads(s, b)
  <1> SUFFICES ASSUME Heads(s, b) = {} PROVE FALSE
    BY DEF Layout
  <1>1. b.free = b.acquire /\ ~b.full
    BY DEF Layout
  <1>2. Used(s, b) = Far(s, b, b.free) /\ b.free \in Int
    BY <1>1, PointerFacts, Sizes
  <1> QED BY <1>2 DEF Far, Dist

(* How far a pointer can be.                                                 *)
LEMMA PointerRange ==
  ASSUME NEW s, NEW b, Sz(s), Layout(s, b), NEW x, NEW r, Pointer(s, b, x, r)
  PROVE  r \in 0 .. Used(s, b) /\ r \in Int /\ x \in 0 .. s - 1 /\ (r > 0 => b.free \in Heads(s, b))
  <1>1. Used(s, b) \in 0 .. s /\ s \in Int
    BY PointerFacts, Sizes
  <1>2. r \in 0 .. Used(s, b)
    <2>1. CASE r = Used(s, b)
      BY <1>1, <2>1
    <2>2. CASE x \in Heads(s, b) /\ r = Far(s, b, x)
      <3>1. Far(s, b, x) \in 0 .. s - 1 /\ Far(s, b, x) < Used(s, b)
        BY <2>2, HeadFacts
      <3> QED BY <1>1, <2>2, <3>1
    <2> QED BY <2>1, <2>2 DEF Pointer
  <1>3. x \in 0 .. s - 1
    BY PointerFacts, HeadFacts DEF Pointer
  <1>4. r > 0 => Used(s, b) > 0
    BY <1>1, <1>2
  <1> QED BY <1>1, <1>2, <1>3, <1>4, NotEmpty

(* What depends on the headers alone.                                        *)
LEMMA SamePointers ==
  ASSUME NEW s, NEW b, NEW c, Sz(s), Layout(s, b), SameHeads(s, b, c)
  PROVE  /\ \A x, r : Pointer(s, c, x, r) <=> Pointer(s, b, x, r)
         /\ b.free \in Heads(s, b) => First(c, c.free) = First(b, b.free)
         /\ \A p \in Heads(s, b) : HeldAt(c, p) = HeldAt(b, p)
  <1>1. Heads(s, c) = Heads(s, b) /\ c.acquire = b.acquire /\ c.free = b.free
    BY DEF SameHeads
  <1>2. Used(s, c) = Used(s, b) /\ \A y : Far(s, c, y) = Far(s, b, y)
    BY SameLayout
  <1>3. \A x, r : Pointer(s, c, x, r) <=> Pointer(s, b, x, r)
    BY <1>1, <1>2 DEF Pointer
  <1>4. b.free \in Heads(s, b) => First(c, c.free) = First(b, b.free)
    BY <1>1 DEF First, SameHeads
  <1>5. \A p \in Heads(s, b) : HeldAt(c, p) = HeldAt(b, p)
    BY DEF HeldAt, SameHeads
  <1> QED BY <1>3, <1>4, <1>5

WithDone(b, m, k) == [b EXCEPT !.mem = m, !.waiting = k]
WithWrite(b, p) == [b EXCEPT !.write = p]

(* The fields that prvSendItemDoneNoSplit sets before its loop.              *)
LEMMA SetDone ==
  ASSUME NEW b, Shape(b), NEW m, NEW k, NEW c, c = WithDone(b, m, k)
  PROVE  /\ Shape(c) /\ c.mem = m /\ c.waiting = k /\ c.acquire = b.acquire /\ c.full = b.full
         /\ c.write = b.write /\ c.read = b.read /\ c.free = b.free
  BY DEF Shape, Fields, WithDone

(* Its loop sets pucWrite only.                                              *)
LEMMA SetWrite ==
  ASSUME NEW b, Shape(b), NEW p, NEW c, c = WithWrite(b, p)
  PROVE  /\ Shape(c) /\ c.write = p /\ c.mem = b.mem /\ c.acquire = b.acquire /\ c.full = b.full
         /\ c.waiting = b.waiting /\ c.read = b.read /\ c.free = b.free
  BY DEF Shape, Fields, WithWrite

(* The storage when the item at p is complete.                               *)
DoneMem(b, p) ==
  [Fill(b.mem, p + Header, b.mem[p].len, b.mem[p].item) EXCEPT
     ![p] = [b.mem[p] EXCEPT !.split = FALSE, !.written = TRUE]]

(* An item's bytes do not reach another header or its item.                  *)
LEMMA ItemCells ==
  ASSUME NEW s, NEW b, Sz(s), Layout(s, b), NEW p \in Entries(s, b)
  PROVE  /\ \A o \in p + Header .. p + Header + b.mem[p].len - 1 :
              o \in p .. p + Extent(b, p) - 1 /\ o \in 0 .. s - 1 /\ o # p
         /\ p \in p .. p + Extent(b, p) - 1
  <1>1. p \in Heads(s, b) /\ ~b.mem[p].dummy
    BY DEF Entries
  <1>2. PICK n, e : n = b.mem[p].len /\ e = Extent(b, p)
    OBVIOUS
  <1>3. /\ e >= Header + n /\ n \in Nat /\ e \in Int /\ p \in 0 .. s - 1 /\ p + e <= s /\ e > 0
        /\ s \in Int /\ Header \in Int /\ Header > 0
    BY <1>1, <1>2, HeadFacts, HeadExtent, Sizes
  <1> QED BY <1>2, <1>3

(* The cells when the item at p is complete.                                 *)
LEMMA DoneCells ==
  ASSUME config \in Configs, NEW s, s = config.size, NEW b, Layout(s, b), NEW p \in Entries(s, b),
         b.mem[p].item \in Items, NEW m, m = DoneMem(b, p)
  PROVE  /\ m \in [0 .. s - 1 -> Items \cup {Junk} \cup HeaderRec]
         /\ m[p] \in HeaderRec /\ m[p].written /\ ~m[p].split
         /\ m[p].len = b.mem[p].len /\ m[p].item = b.mem[p].item /\ m[p].part = b.mem[p].part
         /\ m[p].freed = b.mem[p].freed /\ m[p].dummy = b.mem[p].dummy
         /\ \A o \in p + Header .. p + Header + b.mem[p].len - 1 : m[o] = b.mem[p].item
         /\ \A o \in 0 .. s - 1 : o # p /\ o \notin p + Header .. p + Header + b.mem[p].len - 1 => m[o] = b.mem[o]
  <1>1. PICK h : h = b.mem[p]
    OBVIOUS
  <1>2. Sz(s)
    BY ConfigFacts
  <1>3. p \in Heads(s, b)
    BY DEF Entries
  <1>4. h \in HeaderRec /\ p \in 0 .. s - 1
    BY <1>1, <1>2, <1>3, HeadFacts
  <1>5. PICK g : g = [h EXCEPT !.split = FALSE]
    OBVIOUS
  <1>6. PICK k : k = [g EXCEPT !.written = TRUE]
    OBVIOUS
  <1>7. /\ g \in HeaderRec /\ ~g.split /\ g.len = h.len /\ g.item = h.item /\ g.part = h.part
        /\ g.freed = h.freed /\ g.dummy = h.dummy
    <2>1. g \in HeaderRec
      BY <1>4, <1>5, HeaderSet
    <2> QED BY <1>4, <1>5, <2>1 DEF HeaderRec
  <1>8. /\ k \in HeaderRec /\ k.written /\ ~k.split /\ k.len = h.len /\ k.item = h.item /\ k.part = h.part
        /\ k.freed = h.freed /\ k.dummy = h.dummy
    <2>1. k \in HeaderRec
      BY <1>6, <1>7, HeaderSet
    <2> QED BY <1>6, <1>7, <2>1 DEF HeaderRec
  <1>9. [h EXCEPT !.split = FALSE, !.written = TRUE] = k
    BY <1>5, <1>6
  <1>10. PICK f : f = Fill(b.mem, p + Header, h.len, h.item)
    OBVIOUS
  <1>11. f = [o \in 0 .. s - 1 |-> IF o \in p + Header .. p + Header + h.len - 1 THEN h.item ELSE b.mem[o]]
    BY <1>10 DEF Fill, Offsets
  <1>12. b.mem \in [0 .. s - 1 -> Cells]
    BY DEF Layout, Cells
  <1>13. /\ f \in [0 .. s - 1 -> Cells]
         /\ \A o \in 0 .. s - 1 : f[o] = IF o \in p + Header .. p + Header + h.len - 1 THEN h.item ELSE b.mem[o]
    BY <1>1, <1>11, <1>12 DEF Cells
  <1>14. m = [f EXCEPT ![p] = k]
    BY <1>1, <1>9, <1>10 DEF DoneMem
  <1>15. m \in [0 .. s - 1 -> Cells] /\ m[p] = k /\ \A o \in 0 .. s - 1 : o # p => m[o] = f[o]
    BY <1>4, <1>8, <1>13, <1>14 DEF Cells
  <1>16. \A o \in p + Header .. p + Header + h.len - 1 : o \in 0 .. s - 1 /\ o # p
    BY <1>1, <1>2, ItemCells
  <1>17. \A o \in p + Header .. p + Header + h.len - 1 : m[o] = h.item
    BY <1>13, <1>15, <1>16
  <1>18. \A o \in 0 .. s - 1 : o # p /\ o \notin p + Header .. p + Header + h.len - 1 => m[o] = b.mem[o]
    BY <1>13, <1>15
  <1>19. m \in [0 .. s - 1 -> Items \cup {Junk} \cup HeaderRec]
    BY <1>15 DEF Cells
  <1> QED BY <1>1, <1>8, <1>15, <1>17, <1>18, <1>19

(* Other headers and their items stay.                                       *)
LEMMA DoneHeads ==
  ASSUME config \in Configs, NEW s, s = config.size, NEW b, Layout(s, b), NEW p \in Entries(s, b),
         b.mem[p].item \in Items, NEW c, c.mem = DoneMem(b, p),
         c.free = b.free, c.acquire = b.acquire, c.full = b.full
  PROVE  /\ SameHeads(s, b, c)
         /\ \A q \in Heads(s, b) : q # p => /\ c.mem[q] = b.mem[q]
                                            /\ \A o \in q .. q + Extent(b, q) - 1 : c.mem[o] = b.mem[o]
  <1>1. PICK m, h : m = c.mem /\ h = b.mem[p]
    OBVIOUS
  <1>2. Sz(s)
    BY ConfigFacts
  <1>3. /\ m \in [0 .. s - 1 -> Items \cup {Junk} \cup HeaderRec]
        /\ m[p] \in HeaderRec /\ m[p].len = h.len /\ m[p].item = h.item /\ m[p].part = h.part
        /\ m[p].dummy = h.dummy
        /\ \A o \in p + Header .. p + Header + h.len - 1 : m[o] = h.item
        /\ \A o \in 0 .. s - 1 : o # p /\ o \notin p + Header .. p + Header + h.len - 1 => m[o] = b.mem[o]
    BY <1>1, DoneCells
  <1>4. p \in Heads(s, b)
    BY DEF Entries
  <1>5. /\ \A o \in p + Header .. p + Header + h.len - 1 : o \in p .. p + Extent(b, p) - 1
        /\ p \in p .. p + Extent(b, p) - 1
    BY <1>1, <1>2, ItemCells
  <1>6. ASSUME NEW q \in Heads(s, b), q # p
        PROVE  \A o \in q .. q + Extent(b, q) - 1 : m[o] = b.mem[o]
    <2> TAKE o \in q .. q + Extent(b, q) - 1
    <2>1. o \notin p .. p + Extent(b, p) - 1
      BY <1>2, <1>4, <1>6, Disjoint
    <2>2. o # p /\ o \notin p + Header .. p + Header + h.len - 1
      BY <1>5, <2>1
    <2>3. o \in 0 .. s - 1
      <3>1. q \in 0 .. s - 1 /\ Extent(b, q) \in Int /\ q + Extent(b, q) <= s /\ s \in Int
        BY <1>2, HeadFacts, Sizes
      <3> QED BY <3>1
    <2> QED BY <1>3, <2>2, <2>3
  <1>7. ASSUME NEW q \in Heads(s, b), q # p PROVE m[q] = b.mem[q]
    <2>1. q \in q .. q + Extent(b, q) - 1
      <3>1. q \in Int /\ Extent(b, q) \in Int /\ Extent(b, q) > 0
        BY <1>2, HeadFacts, Sizes
      <3> QED BY <3>1
    <2> QED BY <1>6, <1>7, <2>1
  <1>8. Heads(s, c) = Heads(s, b)
    <2>1. \A q \in 0 .. s - 1 : q \in Heads(s, b) <=> b.mem[q] \notin Items \cup {Junk}
      BY DEF Heads, HasHeader
    <2>2. \A q \in 0 .. s - 1 : q \in Heads(s, c) <=> m[q] \notin Items \cup {Junk}
      BY <1>1 DEF Heads, HasHeader
    <2>3. Heads(s, b) \subseteq 0 .. s - 1 /\ Heads(s, c) \subseteq 0 .. s - 1
      BY DEF Heads
    <2>4. p \in Heads(s, c)
      BY <1>3, <1>4, <2>2, <2>3, CellAssumption
    <2>5. ASSUME NEW q \in 0 .. s - 1, q # p PROVE q \in Heads(s, c) <=> q \in Heads(s, b)
      <3>1. CASE q \in p + Header .. p + Header + h.len - 1
        <4>1. q \notin Heads(s, c)
          BY <1>1, <1>3, <2>2, <3>1
        <4>2. q \notin Heads(s, b)
          <5> SUFFICES ASSUME q \in Heads(s, b) PROVE FALSE
            OBVIOUS
          <5>1. q \in p .. p + Extent(b, p) - 1
            BY <1>5, <3>1
          <5>2. q \in q .. q + Extent(b, q) - 1
            <6>1. q \in Int /\ Extent(b, q) \in Int /\ Extent(b, q) > 0
              BY <1>2, HeadFacts, Sizes
            <6> QED BY <6>1
          <5>3. \A o \in p .. p + Extent(b, p) - 1 : o \notin q .. q + Extent(b, q) - 1
            BY <1>2, <1>4, <2>5, Disjoint
          <5> QED BY <5>1, <5>2, <5>3
        <4> QED BY <4>1, <4>2
      <3>2. CASE q \notin p + Header .. p + Header + h.len - 1
        BY <1>3, <2>1, <2>2, <2>5, <3>2
      <3> QED BY <3>1, <3>2
    <2>6. \A q \in 0 .. s - 1 : q \in Heads(s, c) <=> q \in Heads(s, b)
      BY <1>4, <2>4, <2>5
    <2>7. PICK X, Y, Z : X = Heads(s, c) /\ Y = Heads(s, b) /\ Z = 0 .. s - 1
      OBVIOUS
    <2>8. X \subseteq Z /\ Y \subseteq Z /\ \A q \in Z : q \in X <=> q \in Y
      BY <2>3, <2>6, <2>7
    <2> QED BY <2>7, <2>8
  <1>9. \A q \in Heads(s, b) : /\ m[q].dummy = b.mem[q].dummy /\ m[q].len = b.mem[q].len
                               /\ m[q].item = b.mem[q].item /\ m[q].part = b.mem[q].part
    BY <1>1, <1>3, <1>7
  <1>10. SameHeads(s, b, c)
    BY <1>1, <1>3, <1>8, <1>9 DEF SameHeads
  <1> QED BY <1>1, <1>6, <1>7, <1>10

(* Distances of headers are less than the bytes in use.                      *)
LEMMA FarRange ==
  ASSUME NEW s, NEW b, Sz(s), Layout(s, b)
  PROVE  /\ \A p \in Heads(s, b) : /\ Far(s, b, p) \in Int /\ 0 <= Far(s, b, p)
                                   /\ Far(s, b, p) < Used(s, b)
         /\ Used(s, b) \in Int /\ 0 <= Used(s, b) /\ Used(s, b) <= s /\ s \in Int
  <1>1. Used(s, b) \in 0 .. s /\ s \in Int
    BY PointerFacts, Sizes
  <1>2. \A p \in Heads(s, b) : Far(s, b, p) \in 0 .. s - 1 /\ Far(s, b, p) < Used(s, b)
    BY HeadFacts
  <1> QED BY <1>1, <1>2

(* Where the loop of prvSendItemDoneNoSplit leaves pucWrite.                 *)
Advanced(b, c) == PastWritten(c, b.write, b.acquire)

(* prvSendItemDoneNoSplit marks the item, then advances pucWrite.            *)
LEMMA DoneIs ==
  ASSUME NEW s, NEW b, Sz(s), Layout(s, b), NEW p \in Heads(s, b),
         NEW c, c = WithDone(b, DoneMem(b, p), b.waiting + 1)
  PROVE  SendItemDone(b, p) = WithWrite(c, Advanced(b, c))
  <1>1. HeaderAt(b, p) = b.mem[p]
    BY HeadFacts
  <1> QED BY <1>1 DEF SendItemDone, WithWrite, Advanced, PastWritten, WithDone, DoneMem

(* pucWrite stops at the first item that is not complete.                    *)
LEMMA AdvancedAt ==
  ASSUME config \in Configs, NEW s, s = config.size, NEW b, Layout(s, b), NEW A, WriteInv(s, b, A),
         NEW c, SameHeads(s, b, c), NEW w, w = Advanced(b, c)
  PROVE  /\ w \in Heads(s, b) \cup {b.acquire}
         /\ w = b.acquire \/ (w \in Heads(s, b) /\ w \notin WrittenAt(s, c))
  <1>1. Sz(s)
    BY ConfigFacts
  <1>2. Layout(s, c) /\ Heads(s, c) = Heads(s, b) /\ Used(s, c) = Used(s, b)
        /\ \A x : Far(s, c, x) = Far(s, b, x)
    BY <1>1, SameLayout DEF SameHeads
  <1>3. c.acquire = b.acquire
    BY DEF SameHeads
  <1>4. PICK f : /\ Walk(s, c, f, b.acquire, WrittenAt(s, c))
                 /\ PastWritten(c, b.write, b.acquire) = f[s][b.write]
    BY <1>2, SkipWritten
  <1>5. w = f[s][b.write]
    BY <1>4 DEF Advanced
  <1>6. b.acquire \in 0 .. s - 1 /\ s \in Nat
    BY <1>1, PointerFacts, Sizes
  <1>7. CASE b.write = b.acquire
    <2>1. f[s][b.acquire] = b.acquire
      BY <1>4, <1>6 DEF Walk
    <2> QED BY <1>5, <1>7, <2>1
  <1>8. CASE b.write # b.acquire
    <2>1. b.write \in Heads(s, b)
      BY <1>8 DEF WriteInv
    <2>2. PICK y : y = Used(s, b)
      OBVIOUS
    <2>3. y \in Int /\ y <= s /\ Far(s, c, b.write) <= y /\ y - Far(s, c, b.write) <= s /\ Far(s, c, b.write) \in Int
      BY <1>1, <1>2, <2>1, <2>2, FarRange
    <2>4. Pointer(s, c, b.acquire, y)
      BY <1>2, <1>3, <2>2 DEF Pointer
    <2>5. WalkEnd(s, c, WrittenAt(s, c), b.acquire, y, b.write, w)
      BY <1>2, <1>4, <1>5, <1>6, <2>1, <2>3, <2>4, WalkEnds
    <2>6. w = b.acquire \/ (w \in Heads(s, c) /\ w \notin WrittenAt(s, c))
      BY <2>5 DEF WalkEnd
    <2> QED BY <1>2, <2>1, <2>6
  <1> QED BY <1>7, <1>8

(* The flags written tell which items are complete.                          *)
WrittenInv(s, b, A) == \A p \in Entries(s, b) : b.mem[p].written <=> p \notin A

(* c is b with the item at p completed.                                      *)
Completed(s, b, c, p) ==
  /\ Shape(c) /\ SameHeads(s, b, c) /\ c.read = b.read /\ c.waiting = b.waiting + 1
  /\ c.mem[p].written /\ ~c.mem[p].split /\ c.mem[p].freed = b.mem[p].freed /\ Contents(c, p)
  /\ \A q \in Heads(s, b) : q # p => /\ c.mem[q] = b.mem[q]
                                     /\ \A o \in q .. q + Extent(b, q) - 1 : c.mem[o] = b.mem[o]
  /\ c.write = b.acquire \/ c.write \in Heads(s, b) \ WrittenAt(s, c)

(* prvSendItemDoneNoSplit completes the item and does nothing else.          *)
LEMMA DoneCompleted ==
  ASSUME config \in Configs, NEW s, s = config.size, NEW b, Shape(b), Layout(s, b), NEW A, WriteInv(s, b, A),
         NEW p \in Entries(s, b), b.mem[p].item \in Items, NEW c, c = SendItemDone(b, p)
  PROVE  Completed(s, b, c, p)
  <1>1. Sz(s) /\ p \in Heads(s, b)
    BY ConfigFacts DEF Entries
  <1>2. PICK c1 : c1 = WithDone(b, DoneMem(b, p), b.waiting + 1)
    OBVIOUS
  <1>3. PICK w : w = Advanced(b, c1)
    OBVIOUS
  <1>4. c = WithWrite(c1, w)
    BY <1>1, <1>2, <1>3, DoneIs
  <1>5. /\ Shape(c1) /\ c1.mem = DoneMem(b, p) /\ c1.waiting = b.waiting + 1 /\ c1.acquire = b.acquire
        /\ c1.full = b.full /\ c1.write = b.write /\ c1.read = b.read /\ c1.free = b.free
    BY <1>2, SetDone
  <1>6. /\ Shape(c) /\ c.write = w /\ c.mem = c1.mem /\ c.acquire = c1.acquire /\ c.full = c1.full
        /\ c.waiting = c1.waiting /\ c.read = c1.read /\ c.free = c1.free
    BY <1>4, <1>5, SetWrite
  <1>7. SameHeads(s, b, c1)
    BY <1>5, DoneHeads
  <1>8. /\ w \in Heads(s, b) \cup {b.acquire}
        /\ w = b.acquire \/ (w \in Heads(s, b) /\ w \notin WrittenAt(s, c1))
    BY <1>3, <1>7, AdvancedAt
  <1>9. WrittenAt(s, c) = WrittenAt(s, c1)
    BY <1>6 DEF WrittenAt, HeaderAt, HasHeader
  <1>10. /\ SameHeads(s, b, c)
         /\ \A q \in Heads(s, b) : q # p => /\ c.mem[q] = b.mem[q]
                                            /\ \A o \in q .. q + Extent(b, q) - 1 : c.mem[o] = b.mem[o]
    BY <1>5, <1>6, DoneHeads
  <1>11. PICK m : m = c.mem
    OBVIOUS
  <1>12. /\ m[p].written /\ ~m[p].split /\ m[p].freed = b.mem[p].freed
         /\ m[p].len = b.mem[p].len /\ m[p].item = b.mem[p].item
         /\ \A o \in p + Header .. p + Header + b.mem[p].len - 1 : m[o] = b.mem[p].item
    BY <1>5, <1>6, <1>11, DoneCells
  <1>13. Contents(c, p)
    BY <1>11, <1>12 DEF Contents
  <1> QED BY <1>5, <1>6, <1>8, <1>9, <1>10, <1>11, <1>12, <1>13 DEF Completed

(* WriteInv when an item is completed.                                       *)
LEMMA CompletedWrite ==
  ASSUME NEW s, Sz(s), NEW b, Layout(s, b), NEW A, WriteInv(s, b, A), WrittenInv(s, b, A),
         NEW p \in A, NEW B, B = A \ {p}, NEW c, Completed(s, b, c, p)
  PROVE  WriteInv(s, c, B) /\ WrittenInv(s, c, B)
  <1>1. A \subseteq Entries(s, b) /\ p \in Entries(s, b) /\ Entries(s, b) \subseteq Heads(s, b)
    BY DEF WriteInv, Entries
  <1>2. PICK w : c.write = w
    OBVIOUS
  <1>3. SameHeads(s, b, c) /\ c.acquire = b.acquire
    BY DEF Completed, SameHeads
  <1>4. Layout(s, c) /\ Entries(s, c) = Entries(s, b) /\ Heads(s, c) = Heads(s, b)
    BY <1>3, SameLayout DEF SameHeads
  <1>5. WrittenInv(s, c, A \ {p})
    <2> SUFFICES ASSUME NEW q \in Entries(s, b) PROVE c.mem[q].written <=> q \notin A \ {p}
      BY <1>4 DEF WrittenInv
    <2>1. CASE q = p
      BY <2>1 DEF Completed
    <2>2. CASE q # p
      BY <1>1, <2>2 DEF Completed, WrittenInv
    <2> QED BY <2>1, <2>2
  <1>6. ASSUME w # b.acquire PROVE First(c, w) \in A \ {p}
    <2>1. w \in Heads(s, b) /\ w \notin WrittenAt(s, c)
      BY <1>2, <1>6 DEF Completed
    <2>2. w \in 0 .. s - 1 /\ HeaderAt(c, w) = c.mem[w]
      BY <1>4, <2>1, HeadFacts
    <2>3. ~c.mem[w].written /\ ~c.mem[w].dummy
      BY <2>1, <2>2 DEF WrittenAt
    <2>4. w \in Entries(s, c)
      BY <1>4, <2>1, <2>3 DEF Entries
    <2> QED BY <1>5, <2>3, <2>4 DEF WrittenInv, First
  <1>7. w \in Heads(s, b) \cup {b.acquire} /\ A \ {p} \subseteq Entries(s, b)
    BY <1>1, <1>2 DEF Completed
  <1>8. WriteInv(s, c, A \ {p})
    BY <1>2, <1>3, <1>4, <1>6, <1>7 DEF WriteInv
  <1> QED BY <1>5, <1>8

(* EntryInv and WrapInv when an item is completed.                           *)
LEMMA CompletedEntries ==
  ASSUME NEW s, Sz(s), NEW b, Layout(s, b), NEW A, NEW r \in Int, EntryInv(s, b, A, r), WrapInv(s, b),
         NEW p \in A, A \subseteq Entries(s, b), NEW B, B = A \ {p}, NEW c, Completed(s, b, c, p)
  PROVE  EntryInv(s, c, B, r) /\ WrapInv(s, c)
  <1>1. p \in A /\ p \in Entries(s, b) /\ Entries(s, b) \subseteq Heads(s, b)
    BY DEF Entries
  <1>2. SameHeads(s, b, c)
    BY DEF Completed
  <1>3. /\ Layout(s, c) /\ Entries(s, c) = Entries(s, b) /\ Heads(s, c) = Heads(s, b)
        /\ \A x : Far(s, c, x) = Far(s, b, x)
        /\ \A q \in Heads(s, b) : Past(s, c, q) = Past(s, b, q) /\ c.mem[q].item = b.mem[q].item
                                  /\ c.mem[q].dummy = b.mem[q].dummy
    BY <1>2, SameLayout DEF SameHeads
  <1>4. EntryInv(s, c, A \ {p}, r)
    <2> SUFFICES ASSUME NEW q \in Entries(s, b)
                 PROVE  /\ c.mem[q].item \in Items /\ (Far(s, b, q) < r => q \notin A \ {p})
                        /\ (Far(s, b, q) >= r => ~c.mem[q].freed) /\ (q \notin A \ {p} => Contents(c, q))
      BY <1>3 DEF EntryInv
    <2>1. c.mem[q].item \in Items /\ (Far(s, b, q) < r => q \notin A) /\ (Far(s, b, q) >= r => ~b.mem[q].freed)
          /\ (q \notin A => Contents(b, q))
      BY <1>1, <1>3 DEF EntryInv
    <2>2. CASE q = p
      BY <2>1, <2>2 DEF Completed
    <2>3. CASE q # p
      <3>1. c.mem[q] = b.mem[q] /\ \A o \in q .. q + Extent(b, q) - 1 : c.mem[o] = b.mem[o]
        BY <1>1, <2>3 DEF Completed
      <3>2. Contents(b, q) => Contents(c, q)
        <4>1. \A o \in q + Header .. q + Header + b.mem[q].len - 1 : o \in q .. q + Extent(b, q) - 1
          BY ItemCells
        <4> QED BY <3>1, <4>1 DEF Contents
      <3> QED BY <2>1, <2>3, <3>1, <3>2
    <2> QED BY <2>2, <2>3
  <1>5. WrapInv(s, c)
    <2> SUFFICES ASSUME NEW q \in Heads(s, b), c.mem[q].dummy \/ c.mem[q].split
                 PROVE  /\ 0 \in Entries(s, b) /\ Past(s, b, q) = 0 /\ Far(s, b, q) < Far(s, b, 0)
                        /\ ~b.mem[q].dummy => b.mem[0].item = b.mem[q].item
      <3>1. 0 \in Entries(s, b) => c.mem[0].item = b.mem[0].item
        BY <1>1, <1>3
      <3> QED BY <1>3, <3>1 DEF WrapInv
    <2>1. q # p
      BY <1>1, <1>3 DEF Completed, Entries
    <2>2. c.mem[q] = b.mem[q]
      BY <2>1 DEF Completed
    <2> QED BY <2>2 DEF WrapInv
  <1> QED BY <1>4, <1>5

(* ReadInv when an item is completed: one more is waiting.                   *)
LEMMA CompletedRead ==
  ASSUME NEW s, Sz(s), NEW b, Layout(s, b), NEW A, NEW r \in Int, EntryInv(s, b, A, r), WrapInv(s, b),
         ReadInv(s, b, A, r), A \subseteq Entries(s, b),
         NEW p, p \in A, NEW B, B = A \ {p}, NEW c, Completed(s, b, c, p), WriteInv(s, c, B)
  PROVE  /\ ReadInv(s, c, B, r) /\ ReceivedItems(s, c, r) = ReceivedItems(s, b, r)
  <1>1. p \in Entries(s, b) /\ Entries(s, b) \subseteq Heads(s, b)
    BY DEF Entries
  <1>2. SameHeads(s, b, c) /\ c.read = b.read /\ c.free = b.free
    BY DEF Completed, SameHeads
  <1>3. /\ Entries(s, c) = Entries(s, b) /\ \A x : Far(s, c, x) = Far(s, b, x)
    BY <1>2, SameLayout
  <1>4. \A q \in Heads(s, b) : c.mem[q].freed = b.mem[q].freed
    BY DEF Completed
  <1>5. ReceivedItems(s, c, r) = ReceivedItems(s, b, r)
    <2>1. \A q \in Entries(s, b) : c.mem[q].freed <=> b.mem[q].freed
      BY <1>1, <1>4
    <2> QED BY <1>3, <2>1 DEF ReceivedItems
  <1>7. Pointer(s, c, c.read, r)
    <2>1. Pointer(s, b, b.read, r)
      BY DEF ReadInv
    <2> QED BY <1>2, <2>1, SamePointers
  <1>6. NotPast(s, c, r)
    <2> SUFFICES ASSUME c.write # c.acquire PROVE r <= Far(s, c, c.write)
      BY DEF NotPast
    <2>1. c.write \in Heads(s, b) /\ c.write \notin WrittenAt(s, c)
      BY DEF Completed, SameHeads
    <2>2. c.write \in Heads(s, c) /\ Layout(s, c)
      BY <1>2, <2>1, SameLayout DEF SameHeads
    <2>3. ~c.mem[c.write].dummy
      BY <2>1, <2>2, HeadFacts DEF WrittenAt
    <2>4. c.write \in A
      BY <2>3 DEF WriteInv, First
    <2>5. ~(Far(s, b, c.write) < r)
      BY <2>4 DEF EntryInv
    <2> QED BY <1>3, <2>1, <2>5, FarRange
  <1>8. r > 0 => ~c.mem[First(c, c.free)].freed
    <2> SUFFICES ASSUME r > 0 PROVE ~c.mem[First(c, c.free)].freed
      OBVIOUS
    <2>1. b.free \in Heads(s, b)
      BY PointerRange DEF ReadInv
    <2>2. First(c, c.free) = First(b, b.free)
      BY <1>2, <2>1, SamePointers
    <2>3. First(b, b.free) \in Heads(s, b)
      BY <2>1 DEF First, WrapInv, Entries
    <2> QED BY <1>4, <2>2, <2>3 DEF ReadInv
  <1>9. PICK W : W = WaitingItems(s, b, A, r)
    OBVIOUS
  <1>10. WaitingItems(s, c, B, r) = W \cup {p} /\ p \notin W
    <2>1. Far(s, b, p) >= r
      BY <1>1, FarRange DEF EntryInv
    <2> QED BY <1>1, <1>3, <1>9, <2>1 DEF WaitingItems
  <1>11. IsFiniteSet(W)
    <2>1. W \subseteq 0 .. s - 1
      BY <1>9 DEF WaitingItems, Entries, Heads
    <2>2. IsFiniteSet(0 .. s - 1)
      BY FS_Interval, Sizes
    <2> QED BY <2>1, <2>2, FS_Subset
  <1>12. Cardinality(W \cup {p}) = Cardinality(W) + 1
    BY <1>10, <1>11, FS_AddElement
  <1>13. c.waiting = Cardinality(WaitingItems(s, c, B, r))
    <2>1. c.waiting = b.waiting + 1 /\ b.waiting = Cardinality(W)
      BY <1>9 DEF Completed, ReadInv
    <2> QED BY <1>10, <1>12, <2>1
  <1> QED BY <1>5, <1>6, <1>7, <1>8, <1>13 DEF ReadInv

-------------------------------------------------------------------------------
(*****************************************************************************)
(* Sending keeps the invariant.                                              *)
(*****************************************************************************)

(* The items held are the same when the same ones were received.             *)
LEMMA SameHeld ==
  ASSUME NEW s, NEW b, NEW c, NEW r, NEW h, h = {HeldAt(b, p) : p \in ReceivedItems(s, b, r)},
         ReceivedItems(s, c, r) = ReceivedItems(s, b, r),
         \A p \in ReceivedItems(s, b, r) : HeldAt(c, p) = HeldAt(b, p)
  PROVE  h = {HeldAt(c, p) : p \in ReceivedItems(s, c, r)}
  <1>1. PICK R : R = ReceivedItems(s, b, r)
    OBVIOUS
  <1>2. \A p \in R : HeldAt(c, p) = HeldAt(b, p)
    BY <1>1
  <1>3. {HeldAt(b, p) : p \in R} = {HeldAt(c, p) : p \in R}
    BY <1>2
  <1> QED BY <1>1, <1>3

(* What Append does to the elements.                                         *)
LEMMA RangeAppend ==
  ASSUME NEW S, NEW q \in Seq(S), NEW x \in S
  PROVE  /\ Append(q, x) \in Seq(S) /\ RangeOf(Append(q, x)) = RangeOf(q) \cup {x}
         /\ Len(Append(q, x)) = Len(q) + 1 /\ Append(q, x)[Len(q) + 1] = x
         /\ \A k \in 1 .. Len(q) : Append(q, x)[k] = q[k] /\ q[k] \in RangeOf(q)
  <1>1. PICK t : t = Append(q, x)
    OBVIOUS
  <1>2. /\ t \in Seq(S) /\ Len(t) = Len(q) + 1 /\ t[Len(q) + 1] = x
        /\ \A k \in 1 .. Len(q) : t[k] = q[k]
    BY <1>1
  <1>3. RangeOf(t) = RangeOf(q) \cup {x}
    <2>0. Len(q) \in Nat
      OBVIOUS
    <2>1. ASSUME NEW v \in RangeOf(t) PROVE v \in RangeOf(q) \cup {x}
      <3>1. PICK k \in 1 .. Len(t) : v = t[k]
        BY DEF RangeOf
      <3>2. CASE k = Len(q) + 1
        BY <1>2, <3>1, <3>2
      <3>3. CASE k # Len(q) + 1
        <4>1. k \in 1 .. Len(q)
          BY <1>2, <2>0, <3>1, <3>3
        <4> QED BY <1>2, <3>1, <4>1 DEF RangeOf
      <3> QED BY <3>2, <3>3
    <2>2. ASSUME NEW v \in RangeOf(q) PROVE v \in RangeOf(t)
      <3>1. PICK k \in 1 .. Len(q) : v = q[k]
        BY DEF RangeOf
      <3>2. k \in 1 .. Len(t)
        BY <1>2, <2>0
      <3> QED BY <1>2, <3>1, <3>2 DEF RangeOf
    <2>3. x \in RangeOf(t)
      <3>1. Len(q) + 1 \in 1 .. Len(t)
        BY <1>2, <2>0
      <3> QED BY <1>2, <3>1 DEF RangeOf
    <2> QED BY <2>1, <2>2, <2>3
  <1>4. \A k \in 1 .. Len(q) : q[k] \in RangeOf(q)
    BY DEF RangeOf
  <1> QED BY <1>1, <1>2, <1>3, <1>4

(* One sequence after the other.                                             *)
Cat(x, y) == x \o y

IsCat(x, y, z) ==
  /\ Len(z) = Len(x) + Len(y)
  /\ \A k \in 1 .. Len(x) : z[k] = x[k]
  /\ \A k \in 1 .. Len(y) : z[Len(x) + k] = y[k]

(* What concatenation does.                                                  *)
LEMMA CatFacts ==
  ASSUME NEW S, NEW x \in Seq(S), NEW y \in Seq(S)
  PROVE  Cat(x, y) \in Seq(S) /\ IsCat(x, y, Cat(x, y))
  <1>1. x \o y \in Seq(S)
    BY ConcatProperties
  <1>2. Len(x \o y) = Len(x) + Len(y)
    BY ConcatProperties
  <1>3. \A k \in 1 .. Len(x) + Len(y) : (x \o y)[k] = IF k <= Len(x) THEN x[k] ELSE y[k - Len(x)]
    BY ConcatProperties
  <1>4. Len(x) \in Nat /\ Len(y) \in Nat
    OBVIOUS
  <1>5. PICK z : z = x \o y
    OBVIOUS
  <1>6. z \in Seq(S) /\ Len(z) = Len(x) + Len(y)
        /\ \A k \in 1 .. Len(x) + Len(y) : z[k] = IF k <= Len(x) THEN x[k] ELSE y[k - Len(x)]
    BY <1>1, <1>2, <1>3, <1>5
  <1>7. ASSUME NEW k \in 1 .. Len(x) PROVE z[k] = x[k]
    BY <1>4, <1>6
  <1>8. ASSUME NEW k \in 1 .. Len(y) PROVE z[Len(x) + k] = y[k]
    <2>1. Len(x) + k \in 1 .. Len(x) + Len(y) /\ ~(Len(x) + k <= Len(x)) /\ (Len(x) + k) - Len(x) = k
      BY <1>4
    <2>2. z[Len(x) + k] = y[(Len(x) + k) - Len(x)]
      BY <1>6, <2>1
    <2> QED BY <2>1, <2>2
  <1>9. Cat(x, y) = z
    BY <1>5 DEF Cat
  <1>10. IsCat(x, y, z)
    BY <1>6, <1>7, <1>8 DEF IsCat
  <1> QED BY <1>6, <1>9, <1>10

(* t is q without its k-th element.                                          *)
Dropped(q, k, t) ==
  /\ Len(t) = Len(q) - 1
  /\ \A j \in 1 .. Len(t) : t[j] = IF j < k THEN q[j] ELSE q[j + 1]

Without(q, k) == SubSeq(q, 1, k - 1) \o SubSeq(q, k + 1, Len(q))

(* How the model takes an element out of a sequence.                         *)
LEMMA WithoutDrops ==
  ASSUME NEW S, NEW q \in Seq(S), NEW k \in 1 .. Len(q)
  PROVE  Without(q, k) \in Seq(S) /\ Dropped(q, k, Without(q, k))
  <1>1. Len(q) \in Nat
    OBVIOUS
  <1>2. PICK X, Y : X = SubSeq(q, 1, k - 1) /\ Y = SubSeq(q, k + 1, Len(q))
    OBVIOUS
  <1>3. X \in Seq(S) /\ Len(X) = k - 1 /\ \A j \in 1 .. k - 1 : X[j] = q[j]
    <2>1. 1 \in 1 .. Len(q) + 1 /\ k - 1 \in 1 - 1 .. Len(q)
      BY <1>1
    <2>2. X \in Seq(S) /\ Len(X) = k - 1
      BY <1>1, <1>2, <2>1, SubSeqProperties
    <2>3. \A j \in 1 .. k - 1 : X[j] = q[1 + j - 1]
      BY <1>1, <1>2, <2>1, <2>2, SubSeqProperties
    <2> QED BY <1>1, <2>2, <2>3
  <1>4. Y \in Seq(S) /\ Len(Y) = Len(q) - k /\ \A j \in 1 .. Len(q) - k : Y[j] = q[k + j]
    <2>1. k + 1 \in 1 .. Len(q) + 1 /\ Len(q) \in k + 1 - 1 .. Len(q)
      BY <1>1
    <2>2. Y \in Seq(S) /\ Len(Y) = Len(q) - k
      BY <1>1, <1>2, <2>1, SubSeqProperties
    <2>3. \A j \in 1 .. Len(q) - k : Y[j] = q[k + 1 + j - 1]
      BY <1>1, <1>2, <2>1, <2>2, SubSeqProperties
    <2> QED BY <1>1, <2>2, <2>3
  <1>5. PICK Z : Z = Cat(X, Y)
    OBVIOUS
  <1>6. Z \in Seq(S) /\ IsCat(X, Y, Z)
    BY <1>3, <1>4, <1>5, CatFacts
  <1>7. Len(Z) = Len(q) - 1 /\ (\A j \in 1 .. k - 1 : Z[j] = q[j]) /\ \A j \in 1 .. Len(q) - k : Z[(k - 1) + j] = q[k + j]
    BY <1>1, <1>3, <1>4, <1>6 DEF IsCat
  <1>8. \A j \in 1 .. Len(Z) : Z[j] = IF j < k THEN q[j] ELSE q[j + 1]
    <2> TAKE j \in 1 .. Len(Z)
    <2>1. CASE j < k
      <3>1. j \in 1 .. k - 1
        BY <1>1, <1>7, <2>1
      <3> QED BY <1>7, <2>1, <3>1
    <2>2. CASE ~(j < k)
      <3>1. PICK i : i = j - (k - 1)
        OBVIOUS
      <3>2. i \in 1 .. Len(q) - k /\ j = (k - 1) + i /\ j + 1 = k + i
        BY <1>1, <1>7, <2>2, <3>1
      <3> QED BY <1>7, <2>2, <3>2
    <2> QED BY <2>1, <2>2
  <1>9. Without(q, k) = Z
    BY <1>2, <1>5 DEF Without, Cat
  <1> QED BY <1>6, <1>7, <1>8, <1>9 DEF Dropped

(* There is one sequence without the k-th element.                           *)
LEMMA DroppedOnce ==
  ASSUME NEW S, NEW q, NEW k, NEW t \in Seq(S), NEW u \in Seq(S), Dropped(q, k, t), Dropped(q, k, u)
  PROVE  t = u
  <1>1. Len(t) = Len(u) /\ \A j \in 1 .. Len(t) : t[j] = u[j]
    BY DEF Dropped
  <1> QED BY <1>1, SeqEqual

(* The oldest of the items of A.                                             *)
Oldest(s, b, A, p) == p \in A /\ \A q \in A : Far(s, b, p) <= Far(s, b, q)

(* Completing one of the items of q leaves the others.                       *)
LEMMA RangeDropped ==
  ASSUME NEW s, NEW b, NEW q \in Seq(0 .. s - 1), SendingInv(s, b, q), NEW k \in 1 .. Len(q),
         \A j \in 1 .. Len(q) : Far(s, b, q[j]) \in Int, NEW t, Dropped(q, k, t)
  PROVE  /\ RangeOf(t) = RangeOf(q) \ {q[k]} /\ q[k] \in RangeOf(q)
         /\ SendingInv(s, b, t) /\ (k = 1 => Oldest(s, b, RangeOf(q), q[1]))
  <1>1. Len(q) \in Nat /\ Len(t) = Len(q) - 1 /\ \A j \in 1 .. Len(t) : t[j] = IF j < k THEN q[j] ELSE q[j + 1]
    BY DEF Dropped
  <1>2. \A j \in 1 .. Len(t) : j \in 1 .. Len(q) /\ j + 1 \in 1 .. Len(q)
    BY <1>1
  <1>3. \A i, j \in 1 .. Len(q) : i < j => Far(s, b, q[i]) < Far(s, b, q[j])
    BY DEF SendingInv
  <1>4. \A i, j \in 1 .. Len(q) : i # j => q[i] # q[j]
    <2>1. \A i, j \in 1 .. Len(q) : i < j => q[i] # q[j]
      BY <1>3
    <2> QED BY <1>1, <2>1
  <1>5. RangeOf(t) = RangeOf(q) \ {q[k]}
    <2>1. ASSUME NEW j \in 1 .. Len(t) PROVE t[j] \in RangeOf(q) \ {q[k]}
      <3>1. PICK i : i = (IF j < k THEN j ELSE j + 1)
        OBVIOUS
      <3>2. i \in 1 .. Len(q) /\ i # k /\ t[j] = q[i]
        BY <1>1, <1>2, <3>1
      <3> QED BY <1>4, <3>2 DEF RangeOf
    <2>2. ASSUME NEW v \in RangeOf(q), v # q[k] PROVE v \in RangeOf(t)
      <3>1. PICK i \in 1 .. Len(q) : v = q[i]
        BY DEF RangeOf
      <3>2. PICK j : j = (IF i < k THEN i ELSE i - 1)
        OBVIOUS
      <3>3. i # k
        BY <2>2, <3>1
      <3>4. j \in 1 .. Len(t) /\ i = IF j < k THEN j ELSE j + 1
        BY <1>1, <3>2, <3>3
      <3>5. v = t[j]
        BY <1>1, <3>1, <3>4
      <3> QED BY <3>4, <3>5 DEF RangeOf
    <2> QED BY <2>1, <2>2 DEF RangeOf
  <1>6. SendingInv(s, b, t)
    <2> SUFFICES ASSUME NEW i \in 1 .. Len(t), NEW j \in 1 .. Len(t), i < j
                 PROVE  Far(s, b, t[i]) < Far(s, b, t[j])
      BY DEF SendingInv
    <2>1. PICK u, v : u = (IF i < k THEN i ELSE i + 1) /\ v = (IF j < k THEN j ELSE j + 1)
      OBVIOUS
    <2>2. u \in 1 .. Len(q) /\ v \in 1 .. Len(q) /\ u < v
      BY <1>1, <1>2, <2>1
    <2>3. t[i] = q[u] /\ t[j] = q[v]
      BY <1>1, <2>1
    <2> QED BY <1>3, <2>2, <2>3
  <1>7. q[k] \in RangeOf(q)
    BY DEF RangeOf
  <1>8. ASSUME k = 1, NEW v \in RangeOf(q) PROVE Far(s, b, q[1]) <= Far(s, b, v)
    <2>1. PICK i \in 1 .. Len(q) : v = q[i]
      BY DEF RangeOf
    <2>2. Far(s, b, q[1]) \in Int /\ Far(s, b, q[i]) \in Int /\ 1 \in 1 .. Len(q)
      BY <1>8
    <2>3. i = 1 \/ 1 < i
      BY <1>1
    <2>4. CASE i = 1
      BY <2>1, <2>2, <2>4
    <2>5. CASE 1 < i
      BY <1>3, <2>1, <2>2, <2>5
    <2> QED BY <2>3, <2>4, <2>5
  <1> QED BY <1>5, <1>6, <1>7, <1>8 DEF Oldest

(* xRingbufferSendAcquire.                                                   *)
LEMMA AcquireInv ==
  ASSUME config \in Configs, config.kind = "nosplit", NEW b, NEW q, NEW h, StateInv(config, b, q, h),
         NEW i \in Items, NEW n \in Nat, n <= MaxItemSize, CheckItemFits(b, n),
         NEW c, c = AcquireItem(b, i, n),
         NEW start, start = AcquireStart(b, n)
  PROVE  StateInv(config, c, Append(q, start), h)
  <1>1. PICK s : s = config.size
    OBVIOUS
  <1>2. Sz(s)
    BY <1>1, ConfigFacts
  <1>3. Shape(b) /\ Layout(s, b) /\ WrapInv(s, b) /\ q \in Seq(0 .. s - 1) /\ SendingInv(s, b, q)
    BY <1>1 DEF StateInv
  <1>4. PICK r \in 0 .. s : BufInv(s, b, RangeOf(q), h, r)
    BY <1>1 DEF StateInv
  <1>5. EntryInv(s, b, RangeOf(q), r) /\ WriteInv(s, b, RangeOf(q)) /\ ReadInv(s, b, RangeOf(q), r)
        /\ h = {HeldAt(b, p) : p \in ReceivedItems(s, b, r)}
    BY <1>4 DEF BufInv
  <1>6. /\ Shape(c) /\ Layout(s, c) /\ Grown(s, b, c)
        /\ NewEntries(s, b, c) = {start} /\ c.mem[start] = NewHeader(n, i, 1)
        /\ \A p \in Heads(s, c) \ Heads(s, b) : Wrapped(s, c, p)
        /\ c.write = b.write /\ c.read = b.read /\ c.waiting = b.waiting
    BY <1>1, <1>3, AcquireGrown
  <1>7. /\ Entries(s, c) = Entries(s, b) \cup {start} /\ start \notin Entries(s, b)
        /\ Used(s, b) <= Far(s, b, start)
    BY <1>2, <1>3, <1>6, GrownEntries
  <1>8. start \in 0 .. s - 1 /\ start \in Heads(s, c)
    BY <1>7 DEF Entries, Heads
  <1>9. PICK t : t = Append(q, start)
    OBVIOUS
  <1>10. /\ t \in Seq(0 .. s - 1) /\ RangeOf(t) = RangeOf(q) \cup {start}
         /\ Len(t) = Len(q) + 1 /\ t[Len(q) + 1] = start
         /\ \A k \in 1 .. Len(q) : t[k] = q[k] /\ q[k] \in RangeOf(q)
    <2>1. PICK S : S = 0 .. s - 1
      OBVIOUS
    <2>2. q \in Seq(S) /\ start \in S
      BY <1>3, <1>8, <2>1
    <2>3. /\ t \in Seq(S) /\ RangeOf(t) = RangeOf(q) \cup {start}
          /\ Len(t) = Len(q) + 1 /\ t[Len(q) + 1] = start
          /\ \A k \in 1 .. Len(q) : t[k] = q[k] /\ q[k] \in RangeOf(q)
      BY <1>9, <2>2, RangeAppend
    <2> QED BY <2>1, <2>3
  <1>11. r \in Int /\ r <= Used(s, b)
    <2>1. r \in 0 .. Used(s, b) /\ r \in Int
      BY <1>2, <1>3, <1>5, PointerRange DEF ReadInv
    <2> QED BY <1>2, <1>3, <2>1, FarRange
  <1>12. ~c.mem[start].freed /\ ~c.mem[start].written /\ c.mem[start].item = i
    <2>1. i \in Items \cup {Junk} /\ 1 \in {0, 1, 2}
      OBVIOUS
    <2>2. ~NewHeader(n, i, 1).freed /\ ~NewHeader(n, i, 1).written /\ NewHeader(n, i, 1).item = i
      BY <2>1, NewHeaderType
    <2> QED BY <1>6, <2>2
  <1>13. EntryInv(s, c, RangeOf(t), r)
    <2>1. \A p \in Entries(s, b) : p \in RangeOf(t) <=> p \in RangeOf(q)
      BY <1>7, <1>10
    <2>2. \A p \in NewEntries(s, b, c) : c.mem[p].item \in Items /\ ~c.mem[p].freed /\ (p \notin RangeOf(t) => Contents(c, p))
      BY <1>6, <1>10, <1>12
    <2> QED BY <1>2, <1>3, <1>5, <1>6, <1>11, <2>1, <2>2, GrowEntryInv
  <1>14. WrapInv(s, c)
    BY <1>2, <1>3, <1>6, GrowWrapInv
  <1>15. WriteInv(s, c, RangeOf(t))
    <2>1. WriteInv(s, c, RangeOf(q) \cup NewEntries(s, b, c))
      BY <1>2, <1>3, <1>5, <1>6, <1>14, GrowWriteInv
    <2> QED BY <1>6, <1>10, <2>1
  <1>16. ReadInv(s, c, RangeOf(t), r)
    <2>1. ReadInv(s, c, RangeOf(q) \cup NewEntries(s, b, c), r)
      BY <1>2, <1>3, <1>5, <1>6, <1>11, GrowReadInv
    <2> QED BY <1>6, <1>10, <2>1
  <1>17. h = {HeldAt(c, p) : p \in ReceivedItems(s, c, r)}
    BY <1>2, <1>3, <1>5, <1>6, <1>11, GrowHeld, SameHeld
  <1>18. SendingInv(s, c, t)
    <2> SUFFICES ASSUME NEW j \in 1 .. Len(t), NEW k \in 1 .. Len(t), j < k
                 PROVE  Far(s, c, t[j]) < Far(s, c, t[k])
      BY DEF SendingInv
    <2>0. Len(q) \in Nat
      BY <1>3
    <2>1. \A x : Far(s, c, x) = Far(s, b, x)
      BY <1>2, <1>3, <1>6, GrownFacts
    <2>2. j \in 1 .. Len(q)
      BY <1>10, <2>0
    <2>3. CASE k \in 1 .. Len(q)
      BY <1>3, <1>10, <2>1, <2>2, <2>3 DEF SendingInv
    <2>4. CASE k \notin 1 .. Len(q)
      <3>1. k = Len(q) + 1
        BY <1>10, <2>0, <2>4
      <3>2. q[j] \in Heads(s, b)
        BY <1>5, <1>10, <2>2 DEF WriteInv, Entries
      <3>3. Far(s, b, q[j]) \in Int /\ Far(s, b, q[j]) < Used(s, b) /\ Used(s, b) \in Int
        BY <1>2, <1>3, <3>2, FarRange
      <3>4. Far(s, c, start) \in Int
        BY <1>2, <1>6, <1>8, FarRange
      <3>5. Far(s, b, q[j]) < Far(s, b, start)
        BY <1>7, <2>1, <3>3, <3>4
      <3> QED BY <1>10, <2>1, <2>2, <3>1, <3>5
    <2> QED BY <2>3, <2>4
  <1>19. UseInv(config, c, t, h)
    <2>1. UseInv(config, b, q, h)
      BY DEF StateInv
    <2>2. \A p \in Entries(s, c) : c.mem[p].written <=> p \notin RangeOf(t)
      <3> TAKE p \in Entries(s, c)
      <3>1. CASE p = start
        BY <1>10, <1>12, <3>1
      <3>2. CASE p # start
        <4>1. p \in Entries(s, b) /\ p \in Heads(s, b)
          BY <1>7, <3>2 DEF Entries
        <4>2. c.mem[p] = b.mem[p]
          BY <1>2, <1>3, <1>6, <4>1, GrownFacts
        <4> QED BY <1>1, <1>10, <2>1, <3>2, <4>1, <4>2 DEF UseInv
      <3> QED BY <3>1, <3>2
    <2>3. config.kind # "allowsplit"
      OBVIOUS
    <2>4. config.inOrder => OrderInv(s, c, RangeOf(t))
      <3>1. config.inOrder => OrderInv(s, b, RangeOf(q))
        BY <1>1, <2>1 DEF UseInv
      <3>2. RangeOf(q) \subseteq Entries(s, b)
        BY <1>5 DEF WriteInv
      <3>3. config.inOrder => OrderInv(s, c, RangeOf(q) \cup NewEntries(s, b, c))
        BY <1>2, <1>3, <1>6, <3>1, <3>2, GrowOrder
      <3> QED BY <1>6, <1>10, <3>3
    <2>5. c.full /\ c.read = c.acquire => Cardinality(h) <= 1
      <3>1. Pointer(s, b, b.read, r)
        BY <1>5 DEF ReadInv
      <3> QED BY <1>2, <1>3, <1>5, <1>6, <3>1, GrowFull
    <2> QED BY <1>1, <2>2, <2>3, <2>4, <2>5 DEF UseInv
  <1>20. BufInv(s, c, RangeOf(t), h, r)
    BY <1>13, <1>15, <1>16, <1>17 DEF BufInv
  <1> QED BY <1>1, <1>4, <1>6, <1>9, <1>10, <1>14, <1>18, <1>19, <1>20 DEF StateInv

(* xRingbufferSendComplete.                                                  *)
LEMMA CompleteInv ==
  ASSUME config \in Configs, config.kind = "nosplit", NEW b, NEW q, NEW h, StateInv(config, b, q, h),
         NEW k \in 1 .. Len(q), config.inOrder => k = 1, NEW c, c = SendItemDone(b, q[k]),
         NEW t \in Seq(0 .. config.size - 1), Dropped(q, k, t)
  PROVE  StateInv(config, c, t, h) /\ Completed(config.size, b, c, q[k])
  <1>1. PICK s : s = config.size
    OBVIOUS
  <1>2. Sz(s)
    BY <1>1, ConfigFacts
  <1>3. Shape(b) /\ Layout(s, b) /\ WrapInv(s, b) /\ q \in Seq(0 .. s - 1) /\ SendingInv(s, b, q)
    BY <1>1 DEF StateInv
  <1>4. PICK r \in 0 .. s : BufInv(s, b, RangeOf(q), h, r)
    BY <1>1 DEF StateInv
  <1>5. EntryInv(s, b, RangeOf(q), r) /\ WriteInv(s, b, RangeOf(q)) /\ ReadInv(s, b, RangeOf(q), r)
        /\ h = {HeldAt(b, p) : p \in ReceivedItems(s, b, r)} /\ RangeOf(q) \subseteq Entries(s, b)
    BY <1>4 DEF BufInv, WriteInv
  <1>6. UseInv(config, b, q, h)
    BY DEF StateInv
  <1>7. WrittenInv(s, b, RangeOf(q))
    BY <1>1, <1>6 DEF UseInv, WrittenInv
  <1>8. \A j \in 1 .. Len(q) : Far(s, b, q[j]) \in Int
    BY <1>2, <1>3, <1>5, FarRange DEF RangeOf, Entries
  <1>9. PICK p : p = q[k]
    OBVIOUS
  <1>10. /\ RangeOf(t) = RangeOf(q) \ {p} /\ p \in RangeOf(q)
         /\ SendingInv(s, b, t) /\ (k = 1 => Oldest(s, b, RangeOf(q), p))
    BY <1>3, <1>8, <1>9, RangeDropped
  <1>11. p \in Entries(s, b) /\ b.mem[p].item \in Items
    BY <1>5, <1>10 DEF EntryInv
  <1>12. Completed(s, b, c, p)
    BY <1>1, <1>3, <1>5, <1>9, <1>11, DoneCompleted
  <1>13. WriteInv(s, c, RangeOf(t)) /\ WrittenInv(s, c, RangeOf(t))
    BY <1>2, <1>3, <1>5, <1>7, <1>10, <1>12, CompletedWrite
  <1>14. r \in Int
    BY <1>2, Sizes
  <1>15. EntryInv(s, c, RangeOf(t), r) /\ WrapInv(s, c)
    BY <1>2, <1>3, <1>5, <1>10, <1>12, <1>14, CompletedEntries
  <1>16. SameHeads(s, b, c) /\ Shape(c) /\ c.read = b.read
    BY <1>12 DEF Completed
  <1>17. Layout(s, c) /\ Entries(s, c) = Entries(s, b) /\ \A x : Far(s, c, x) = Far(s, b, x)
    BY <1>2, <1>3, <1>16, SameLayout
  <1>18. ReadInv(s, c, RangeOf(t), r) /\ ReceivedItems(s, c, r) = ReceivedItems(s, b, r)
    BY <1>2, <1>3, <1>5, <1>10, <1>12, <1>13, <1>14, CompletedRead
  <1>19. h = {HeldAt(c, x) : x \in ReceivedItems(s, c, r)}
    <2>1. ReceivedItems(s, b, r) \subseteq Heads(s, b)
      BY DEF ReceivedItems, Entries
    <2>2. \A x \in Heads(s, b) : HeldAt(c, x) = HeldAt(b, x)
      BY <1>2, <1>3, <1>16, SamePointers
    <2> QED BY <1>5, <1>18, <2>1, <2>2, SameHeld
  <1>20. SendingInv(s, c, t)
    BY <1>10, <1>17 DEF SendingInv
  <1>21. config.inOrder => OrderInv(s, c, RangeOf(t))
    <2> SUFFICES ASSUME config.inOrder, NEW x \in RangeOf(t), NEW y \in Entries(s, b), Far(s, b, x) <= Far(s, b, y)
                 PROVE  y \in RangeOf(t)
      BY <1>17 DEF OrderInv
    <2>1. OrderInv(s, b, RangeOf(q)) /\ Oldest(s, b, RangeOf(q), p)
      BY <1>1, <1>6, <1>10 DEF UseInv
    <2>2. y \in RangeOf(q) /\ x \in RangeOf(q) /\ x # p
      BY <1>10, <2>1 DEF OrderInv
    <2>3. Far(s, b, p) <= Far(s, b, x)
      BY <2>1, <2>2 DEF Oldest
    <2>4. p \in Heads(s, b) /\ x \in Heads(s, b)
      BY <1>5, <1>10, <2>2 DEF Entries
    <2>5. Far(s, b, p) # Far(s, b, x)
      <3>1. p \in 0 .. s - 1 /\ x \in 0 .. s - 1
        BY <2>4 DEF Heads
      <3> QED BY <1>2, <1>3, <2>2, <3>1, FarInjective
    <2>6. y # p
      BY <1>2, <1>3, <2>3, <2>4, <2>5, FarRange
    <2> QED BY <1>10, <2>2, <2>6
  <1>22. UseInv(config, c, t, h)
    <2>1. c.full = b.full /\ c.acquire = b.acquire
      BY <1>16 DEF SameHeads
    <2>2. config.kind # "allowsplit"
      OBVIOUS
    <2> QED BY <1>1, <1>6, <1>13, <1>16, <1>21, <2>1, <2>2 DEF UseInv, WrittenInv
  <1>23. BufInv(s, c, RangeOf(t), h, r)
    BY <1>13, <1>15, <1>18, <1>19 DEF BufInv
  <1> QED BY <1>1, <1>4, <1>9, <1>12, <1>15, <1>16, <1>17, <1>20, <1>22, <1>23 DEF StateInv

(* xRingbufferSend on a no-split buffer: the item is acquired and completed. *)
LEMMA SendNoSplitParts ==
  ASSUME config \in Configs, config.kind = "nosplit", NEW b, NEW q, NEW h, StateInv(config, b, q, h),
         config.inOrder => q = <<>>,
         NEW i \in Items, NEW n \in Nat, n <= MaxItemSize, CheckItemFits(b, n),
         NEW c, c = CopyItemNoSplit(b, i, n),
         NEW m, m = AcquireItem(b, i, n), NEW start, start = AcquireStart(b, n), NEW t, t = Append(q, start)
  PROVE  StateInv(config, m, t, h) /\ StateInv(config, c, q, h) /\ Completed(config.size, m, c, start)
  <1>1. StateInv(config, m, t, h)
    BY AcquireInv
  <1>2. PICK S : S = 0 .. config.size - 1
    OBVIOUS
  <1>3. q \in Seq(S) /\ t \in Seq(S)
    BY <1>1, <1>2 DEF StateInv
  <1>4. Len(q) \in Nat /\ Len(t) = Len(q) + 1 /\ t[Len(t)] = start /\ \A j \in 1 .. Len(q) : t[j] = q[j]
    BY <1>3
  <1>5. PICK k : k = Len(t)
    OBVIOUS
  <1>6. Dropped(t, k, q) /\ k \in 1 .. Len(t) /\ t[k] = start
    BY <1>4, <1>5 DEF Dropped
  <1>7. config.inOrder => k = 1
    BY <1>4, <1>5
  <1>8. c = SendItemDone(m, t[k])
    BY <1>6 DEF CopyItemNoSplit
  <1>9. q \in Seq(0 .. config.size - 1)
    BY <1>2, <1>3
  <1>10. StateInv(config, c, q, h) /\ Completed(config.size, m, c, t[k])
    BY <1>1, <1>6, <1>7, <1>8, <1>9, CompleteInv
  <1> QED BY <1>1, <1>6, <1>10

(* xRingbufferSend on a no-split buffer keeps the invariant.                 *)
LEMMA SendNoSplitInv ==
  ASSUME config \in Configs, config.kind = "nosplit", NEW b, NEW q, NEW h, StateInv(config, b, q, h),
         config.inOrder => q = <<>>,
         NEW i \in Items, NEW n \in Nat, n <= MaxItemSize, CheckItemFits(b, n),
         NEW c, c = CopyItemNoSplit(b, i, n)
  PROVE  StateInv(config, c, q, h)
  <1>1. PICK m, start, t : m = AcquireItem(b, i, n) /\ start = AcquireStart(b, n) /\ t = Append(q, start)
    OBVIOUS
  <1> QED BY <1>1, SendNoSplitParts

(* The empty sequence has no elements.                                       *)
LEMMA EmptyRange ==
  ASSUME NEW S
  PROVE  RangeOf(<<>>) = {} /\ <<>> \in Seq(S)
  BY DEF RangeOf

(* xRingbufferSend on an allow-split buffer.                                 *)
LEMMA SendAllowSplitInv ==
  ASSUME config \in Configs, config.kind = "allowsplit", NEW b, NEW h, StateInv(config, b, <<>>, h),
         NEW i \in Items, NEW n \in Nat, n <= MaxItemSize, CheckItemFits(b, n),
         NEW c, c = CopyItemAllowSplit(b, i, n)
  PROVE  StateInv(config, c, <<>>, h)
  <1>1. PICK s : s = config.size
    OBVIOUS
  <1>2. Sz(s)
    BY <1>1, ConfigFacts
  <1>3. Shape(b) /\ Layout(s, b) /\ WrapInv(s, b)
    BY <1>1 DEF StateInv
  <1>4. PICK r \in 0 .. s : BufInv(s, b, {}, h, r)
    BY <1>1, EmptyRange DEF StateInv
  <1>5. EntryInv(s, b, {}, r) /\ WriteInv(s, b, {}) /\ ReadInv(s, b, {}, r)
        /\ h = {HeldAt(b, p) : p \in ReceivedItems(s, b, r)}
    BY <1>4 DEF BufInv
  <1>6. UseInv(config, b, <<>>, h)
    BY DEF StateInv
  <1>7. Sent(s, b, c, i)
    BY <1>1, <1>3, CopySent
  <1>8. /\ Shape(c) /\ Layout(s, c) /\ Grown(s, b, c)
        /\ \A p \in Heads(s, c) \ Heads(s, b) : Wrapped(s, c, p)
        /\ \A p \in NewEntries(s, b, c) : c.mem[p].item = i /\ ~c.mem[p].freed /\ Contents(c, p)
        /\ c.write = c.acquire /\ c.read = b.read
        /\ c.waiting = b.waiting + Cardinality(NewEntries(s, b, c))
    BY <1>7 DEF Sent
  <1>9. r \in Int /\ r <= Used(s, b)
    <2>1. r \in 0 .. Used(s, b) /\ r \in Int
      BY <1>2, <1>3, <1>5, PointerRange DEF ReadInv
    <2> QED BY <1>2, <1>3, <2>1, FarRange
  <1>10. EntryInv(s, c, {}, r)
    <2>1. PICK A : A = {}
      OBVIOUS
    <2>2. \A p \in NewEntries(s, b, c) : c.mem[p].item \in Items /\ ~c.mem[p].freed /\ (p \notin A => Contents(c, p))
      BY <1>8
    <2>3. EntryInv(s, b, A, r)
      BY <1>5, <2>1
    <2>4. EntryInv(s, c, A, r)
      BY <1>2, <1>3, <1>8, <1>9, <2>2, <2>3, GrowEntryInv
    <2> QED BY <2>1, <2>4
  <1>11. WriteInv(s, c, {}) /\ ReadInv(s, c, {}, r)
    BY <1>2, <1>3, <1>5, <1>8, <1>9, GrowSent
  <1>12. h = {HeldAt(c, p) : p \in ReceivedItems(s, c, r)}
    BY <1>2, <1>3, <1>5, <1>8, <1>9, GrowHeld, SameHeld
  <1>13. WrapInv(s, c)
    BY <1>2, <1>3, <1>8, GrowWrapInv
  <1>14. BufInv(s, c, {}, h, r)
    BY <1>10, <1>11, <1>12 DEF BufInv
  <1>15. SendingInv(s, c, <<>>)
    BY DEF SendingInv
  <1>16. UseInv(config, c, <<>>, h)
    <2>1. OrderInv(s, c, RangeOf(<<>>))
      BY EmptyRange DEF OrderInv
    <2>2. c.full /\ c.read = c.acquire => Cardinality(h) <= 1
      <3>1. Pointer(s, b, b.read, r)
        BY <1>5 DEF ReadInv
      <3> QED BY <1>2, <1>3, <1>5, <1>8, <3>1, GrowFull
    <2>3. config.kind # "nosplit"
      OBVIOUS
    <2> QED BY <1>1, <1>8, <2>1, <2>2, <2>3 DEF UseInv
  <1> QED BY <1>1, <1>4, <1>8, <1>13, <1>14, <1>15, <1>16, EmptyRange DEF StateInv

-------------------------------------------------------------------------------
(*****************************************************************************)
(* prvGetItemDefault: receiving keeps the invariant.                         *)
(*****************************************************************************)

(* The item that prvGetItemDefault returns.                                  *)
LEMMA OldestWaiting ==
  ASSUME NEW s, Sz(s), NEW b, Layout(s, b), WrapInv(s, b), NEW A,
         NEW r \in Int, Pointer(s, b, b.read, r), WaitingItems(s, b, A, r) # {},
         NEW x, x = First(b, b.read)
  PROVE  /\ b.read \in Heads(s, b) /\ r = Far(s, b, b.read) /\ x = GetItemStart(b)
         /\ x \in Entries(s, b) /\ x \in Heads(s, b) /\ Far(s, b, x) \in Int /\ r <= Far(s, b, x)
         /\ \A p \in Entries(s, b) : Far(s, b, p) < r \/ Far(s, b, x) <= Far(s, b, p)
  <1>1. PICK v \in Entries(s, b) : v \notin A /\ Far(s, b, v) >= r
    BY DEF WaitingItems
  <1>2. Entries(s, b) \subseteq Heads(s, b)
    BY DEF Entries
  <1>3. Far(s, b, v) < Used(s, b) /\ Far(s, b, v) \in Int /\ Used(s, b) \in Int
    BY <1>1, <1>2, FarRange
  <1>4. b.read \in Heads(s, b) /\ r = Far(s, b, b.read)
    BY <1>1, <1>3 DEF Pointer
  <1>5. HeaderAt(b, b.read) = b.mem[b.read]
    BY <1>4, HeadFacts
  <1>6. x = GetItemStart(b)
    BY <1>5 DEF GetItemStart, First
  <1>7. CASE ~b.mem[b.read].dummy
    <2>1. x = b.read /\ x \in Entries(s, b)
      BY <1>4, <1>7 DEF First, Entries
    <2>2. \A p \in Entries(s, b) : Far(s, b, p) < r \/ Far(s, b, x) <= Far(s, b, p)
      BY <1>2, <1>4, <2>1, FarRange
    <2> QED BY <1>2, <1>4, <1>6, <2>1, <2>2, FarRange
  <1>8. CASE b.mem[b.read].dummy
    <2>1. x = 0 /\ 0 \in Entries(s, b) /\ Past(s, b, b.read) = 0 /\ Far(s, b, b.read) < Far(s, b, 0)
      BY <1>4, <1>8 DEF First, WrapInv
    <2>2. Far(s, b, 0) \in Int /\ 0 \in Heads(s, b)
      BY <1>2, <2>1, FarRange
    <2>3. \A p \in Heads(s, b) : Far(s, b, p) <= Far(s, b, b.read) \/ Far(s, b, 0) <= Far(s, b, p)
      <3>1. Linked(s, b, b.read)
        BY <1>4, HeadFacts
      <3>2. ~(Far(s, b, 0) <= Far(s, b, b.read))
        BY <1>4, <2>1, <2>2
      <3> QED BY <2>1, <2>2, <3>1, <3>2 DEF Linked
    <2>4. \A p \in Entries(s, b) : Far(s, b, p) < r \/ Far(s, b, x) <= Far(s, b, p)
      <3> TAKE p \in Entries(s, b)
      <3>1. p # b.read /\ p \in Heads(s, b)
        BY <1>8 DEF Entries
      <3>2. Far(s, b, p) # Far(s, b, b.read)
        BY <1>4, <3>1, FarInjective DEF Heads
      <3>3. Far(s, b, p) \in Int
        BY <3>1, FarRange
      <3> QED BY <1>4, <2>1, <2>2, <2>3, <3>1, <3>2, <3>3
    <2> QED BY <1>4, <1>6, <2>1, <2>2, <2>4
  <1> QED BY <1>7, <1>8

(* It is complete when items are completed in order.                         *)
LEMMA OldestComplete ==
  ASSUME NEW s, Sz(s), NEW b, Layout(s, b), WrapInv(s, b), NEW A, OrderInv(s, b, A), A \subseteq Entries(s, b),
         NEW r \in Int, Pointer(s, b, b.read, r), WaitingItems(s, b, A, r) # {},
         NEW x, x = First(b, b.read)
  PROVE  x \notin A
  <1>1. PICK v \in Entries(s, b) : v \notin A /\ Far(s, b, v) >= r
    BY DEF WaitingItems
  <1>2. Far(s, b, v) \in Int
    BY <1>1, FarRange DEF Entries
  <1>3. \A p \in Entries(s, b) : Far(s, b, p) < r \/ Far(s, b, x) <= Far(s, b, p)
    BY OldestWaiting
  <1>4. Far(s, b, x) <= Far(s, b, v)
    BY <1>1, <1>2, <1>3
  <1> QED BY <1>1, <1>4 DEF OrderInv

(* How far the place after the item at x is.                                 *)
After(s, b, x, z, d) ==
  /\ Pointer(s, b, z, d) /\ d \in Int /\ Far(s, b, x) < d /\ d <= Used(s, b)
  /\ \A p \in Heads(s, b) : Far(s, b, p) <= Far(s, b, x) \/ d <= Far(s, b, p)

(* What comes after a header is a pointer that lies farther.                 *)
LEMMA AfterHead ==
  ASSUME NEW s, Sz(s), NEW b, Layout(s, b), NEW x \in Heads(s, b), NEW z, z = Past(s, b, x)
  PROVE  \E d \in Int : After(s, b, x, z, d)
  <1>1. Linked(s, b, x)
    BY HeadFacts
  <1>2. CASE z = b.acquire /\ \A p \in Heads(s, b) : Far(s, b, p) <= Far(s, b, x)
    <2>1. PICK d : d = Used(s, b)
      OBVIOUS
    <2>2. d \in Int /\ Far(s, b, x) < d
      BY <2>1, FarRange
    <2>3. After(s, b, x, z, d)
      BY <1>2, <2>1, <2>2 DEF After, Pointer
    <2> QED BY <2>2, <2>3
  <1>3. CASE /\ z \in Heads(s, b) /\ Far(s, b, x) + Extent(b, x) <= Far(s, b, z)
             /\ \A p \in Heads(s, b) : Far(s, b, p) <= Far(s, b, x) \/ Far(s, b, z) <= Far(s, b, p)
    <2>1. PICK d : d = Far(s, b, z)
      OBVIOUS
    <2>2. d \in Int /\ d < Used(s, b) /\ Used(s, b) \in Int /\ Far(s, b, x) \in Int
      BY <1>3, <2>1, FarRange
    <2>3. Extent(b, x) \in Int /\ Extent(b, x) > 0
      BY HeadFacts
    <2>4. After(s, b, x, z, d)
      BY <1>3, <2>1, <2>2, <2>3 DEF After, Pointer
    <2> QED BY <2>2, <2>4
  <1> QED BY <1>1, <1>2, <1>3 DEF Linked

(* pucRead and xItemsWaiting.                                                *)
WithRead(b, p, k) == [b EXCEPT !.read = p, !.waiting = k]

(* The fields that prvGetItemDefault sets.                                   *)
LEMMA SetRead ==
  ASSUME NEW b, Shape(b), NEW p, NEW k, NEW c, c = WithRead(b, p, k)
  PROVE  /\ Shape(c) /\ c.read = p /\ c.waiting = k /\ c.mem = b.mem /\ c.acquire = b.acquire /\ c.full = b.full
         /\ c.write = b.write /\ c.free = b.free
  BY DEF Shape, Fields, WithRead

(* c is b but for these two.                                                 *)
Got(b, c) == c.mem = b.mem /\ c.acquire = b.acquire /\ c.full = b.full /\ c.write = b.write /\ c.free = b.free

(* Receiving changes nothing that the layout depends on.                     *)
LEMMA GotSame ==
  ASSUME NEW s, NEW b, NEW c, Got(b, c)
  PROVE  /\ Heads(s, c) = Heads(s, b) /\ Entries(s, c) = Entries(s, b)
         /\ \A x : Far(s, c, x) = Far(s, b, x)
         /\ Used(s, c) = Used(s, b)
         /\ \A p : Past(s, c, p) = Past(s, b, p) /\ Extent(c, p) = Extent(b, p) /\ First(c, p) = First(b, p)
         /\ \A x, d : Pointer(s, c, x, d) <=> Pointer(s, b, x, d)
         /\ \A p : HeldAt(c, p) = HeldAt(b, p)
  <1> USE DEF Got
  <1>1. Heads(s, c) = Heads(s, b)
    BY DEF Heads, HasHeader
  <1>2. Entries(s, c) = Entries(s, b)
    BY <1>1 DEF Entries
  <1>3. \A x : Far(s, c, x) = Far(s, b, x)
    BY DEF Far
  <1>4. Used(s, c) = Used(s, b)
    BY <1>3 DEF Used
  <1>6. \A p : Extent(c, p) = Extent(b, p)
    BY DEF Extent
  <1>7. \A p : Past(s, c, p) = Past(s, b, p)
    BY <1>6 DEF Past
  <1>8. \A p : First(c, p) = First(b, p)
    BY DEF First
  <1>9. \A x, d : Pointer(s, c, x, d) <=> Pointer(s, b, x, d)
    BY <1>1, <1>3, <1>4 DEF Pointer
  <1>10. \A p : HeldAt(c, p) = HeldAt(b, p)
    BY DEF HeldAt
  <1> HIDE DEF Got
  <1> QED BY <1>1, <1>2, <1>3, <1>4, <1>6, <1>7, <1>8, <1>9, <1>10

(* So the layout is kept.                                                    *)
LEMMA GotInv ==
  ASSUME NEW s, Sz(s), NEW b, Layout(s, b), WrapInv(s, b), NEW c, Got(b, c)
  PROVE  /\ Layout(s, c) /\ WrapInv(s, c) /\ \A A : WriteInv(s, b, A) => WriteInv(s, c, A)
  <1>1. SameHeads(s, b, c)
    BY GotSame DEF Got, SameHeads, Layout
  <1>2. Layout(s, c)
    BY <1>1, SameLayout
  <1>3. WrapInv(s, c)
    BY GotSame DEF Got, WrapInv
  <1>4. \A A : WriteInv(s, b, A) => WriteInv(s, c, A)
    <2> SUFFICES ASSUME NEW A, WriteInv(s, b, A) PROVE WriteInv(s, c, A)
      OBVIOUS
    <2> QED BY GotSame DEF Got, WriteInv
  <1> QED BY <1>2, <1>3, <1>4

(* Nothing lies between pucRead and the item, or between the item and what   *)
(* follows.                                                                  *)
LEMMA TakenDistance ==
  ASSUME NEW s, Sz(s), NEW b, Layout(s, b), NEW r \in Int,
         NEW x \in Entries(s, b), r <= Far(s, b, x),
         \A p \in Entries(s, b) : Far(s, b, p) < r \/ Far(s, b, x) <= Far(s, b, p),
         NEW z, NEW d \in Int, After(s, b, x, z, d)
  PROVE  /\ \A p \in Entries(s, b) : Far(s, b, p) < d <=> Far(s, b, p) < r \/ p = x
         /\ r < d
  <1>1. x \in Heads(s, b) /\ Entries(s, b) \subseteq Heads(s, b)
    BY DEF Entries
  <1>2. Far(s, b, x) \in Int /\ Far(s, b, x) < d /\ Used(s, b) \in Int /\ d <= Used(s, b)
    BY <1>1, FarRange DEF After
  <1>3. ASSUME NEW p \in Entries(s, b) PROVE Far(s, b, p) < d <=> Far(s, b, p) < r \/ p = x
    <2>1. Far(s, b, p) \in Int /\ p \in Heads(s, b)
      BY <1>1, FarRange
    <2>2. Far(s, b, p) <= Far(s, b, x) \/ d <= Far(s, b, p)
      BY <2>1 DEF After
    <2>3. Far(s, b, p) = Far(s, b, x) => p = x
      BY <1>1, <2>1, FarInjective DEF Heads
    <2> QED BY <1>2, <2>1, <2>2, <2>3
  <1> QED BY <1>2, <1>3

(* Receiving the oldest waiting item.                                        *)
Taken(s, b, c, x, d) ==
  /\ Shape(c) /\ Got(b, c) /\ x = First(b, b.read) /\ x \in Entries(s, b)
  /\ c.read = Past(s, b, x) /\ After(s, b, x, c.read, d)

(* BufInv when the oldest waiting item is received.                          *)
LEMMA TakenInv ==
  ASSUME NEW s, Sz(s), NEW b, Layout(s, b), WrapInv(s, b), NEW A, NEW h, NEW r \in 0 .. s,
         BufInv(s, b, A, h, r), WaitingItems(s, b, A, r) # {},
         NEW c, NEW x, NEW d \in Int, Taken(s, b, c, x, d), x \notin A, c.waiting = b.waiting - 1
  PROVE  BufInv(s, c, A, h \cup {HeldAt(b, x)}, d) /\ d \in 0 .. s
  <1>1. EntryInv(s, b, A, r) /\ WriteInv(s, b, A) /\ ReadInv(s, b, A, r)
        /\ h = {HeldAt(b, p) : p \in ReceivedItems(s, b, r)}
    BY DEF BufInv
  <1>2. Got(b, c) /\ x = First(b, b.read) /\ After(s, b, x, c.read, d)
    BY DEF Taken
  <1>3. r \in Int /\ r >= 0 /\ s \in Int
    BY Sizes
  <1>4. /\ b.read \in Heads(s, b) /\ r = Far(s, b, b.read)
        /\ x \in Entries(s, b) /\ x \in Heads(s, b) /\ Far(s, b, x) \in Int /\ r <= Far(s, b, x)
        /\ \A p \in Entries(s, b) : Far(s, b, p) < r \/ Far(s, b, x) <= Far(s, b, p)
    <2>1. Pointer(s, b, b.read, r)
      BY <1>1 DEF ReadInv
    <2> QED BY <1>1, <1>2, <1>3, <2>1, OldestWaiting
  <1>5. /\ \A p \in Entries(s, b) : Far(s, b, p) < d <=> Far(s, b, p) < r \/ p = x
        /\ r < d
    BY <1>1, <1>2, <1>3, <1>4, TakenDistance
  <1>6. d \in 0 .. s
    BY <1>2, <1>3, <1>5, FarRange DEF After
  <1>7. \A p \in Entries(s, b) : Far(s, b, p) \in Int
    BY FarRange DEF Entries
  <1>8. Entries(s, c) = Entries(s, b) /\ \A y : Far(s, c, y) = Far(s, b, y)
    BY <1>2, GotSame
  <1>9. c.mem = b.mem /\ c.free = b.free
    BY <1>2 DEF Got
  <1>10. EntryInv(s, c, A, d)
    <2> SUFFICES ASSUME NEW p \in Entries(s, b)
                 PROVE  /\ b.mem[p].item \in Items /\ (Far(s, b, p) < d => p \notin A)
                        /\ (Far(s, b, p) >= d => ~b.mem[p].freed) /\ (p \notin A => Contents(b, p))
      <3>1. \A p : Contents(c, p) <=> Contents(b, p)
        BY <1>9 DEF Contents
      <3> QED BY <1>8, <1>9, <3>1 DEF EntryInv
    <2>1. /\ b.mem[p].item \in Items /\ (Far(s, b, p) < r => p \notin A)
          /\ (Far(s, b, p) >= r => ~b.mem[p].freed) /\ (p \notin A => Contents(b, p))
      BY <1>1 DEF EntryInv
    <2>2. Far(s, b, p) >= d => Far(s, b, p) >= r
      BY <1>3, <1>5, <1>7
    <2> QED BY <1>4, <1>5, <2>1, <2>2
  <1>11. WriteInv(s, c, A)
    BY <1>1, <1>2, GotInv
  <1>12. Pointer(s, c, c.read, d)
    BY <1>2, <1>5, GotSame DEF After
  <1>13. PICK W : W = WaitingItems(s, b, A, r)
    OBVIOUS
  <1>14. x \in W /\ WaitingItems(s, c, A, d) = W \ {x}
    <2>1. x \in W
      BY <1>4, <1>13 DEF WaitingItems
    <2>2. \A p \in Entries(s, b) : Far(s, b, p) >= d <=> Far(s, b, p) >= r /\ p # x
      BY <1>3, <1>5, <1>7
    <2> QED BY <1>8, <1>13, <2>1, <2>2 DEF WaitingItems
  <1>15. IsFiniteSet(W)
    <2>1. W \subseteq 0 .. s - 1
      BY <1>13 DEF WaitingItems, Entries, Heads
    <2>2. IsFiniteSet(0 .. s - 1)
      BY FS_Interval, Sizes
    <2> QED BY <2>1, <2>2, FS_Subset
  <1>16. c.waiting = Cardinality(WaitingItems(s, c, A, d))
    <2>1. Cardinality(W \ {x}) = Cardinality(W) - 1
      BY <1>14, <1>15, FS_RemoveElement
    <2> QED BY <1>1, <1>13, <1>14, <2>1 DEF ReadInv
  <1>22. ~b.mem[x].freed
    <2>1. Far(s, b, x) >= r
      BY <1>3, <1>4
    <2> QED BY <1>1, <1>4, <2>1 DEF EntryInv
  <1>17. ~c.mem[First(c, c.free)].freed
    <2>1. First(c, c.free) = First(b, b.free)
      BY <1>9 DEF First
    <2>2. CASE r > 0
      <3>1. ~b.mem[First(b, b.free)].freed
        BY <1>1, <2>2 DEF ReadInv
      <3> QED BY <1>9, <2>1, <3>1
    <2>3. CASE r = 0
      <3>1. b.read = b.free
        <4>1. b.read \in Heads(s, b) /\ Far(s, b, b.read) = 0
          BY <1>4, <2>3
        <4> QED BY <4>1, HeadFacts
      <3> QED BY <1>2, <1>9, <1>22, <2>1, <3>1
    <2> QED BY <1>3, <2>2, <2>3
  <1>23. NotPast(s, c, d)
    <2> SUFFICES ASSUME b.write # b.acquire PROVE d <= Far(s, b, b.write)
      BY <1>2, <1>8 DEF NotPast, Got
    <2>1. b.write \in Heads(s, b) /\ First(b, b.write) \in A /\ r <= Far(s, b, b.write)
      BY <1>1 DEF WriteInv, ReadInv, NotPast
    <2>2. Far(s, b, b.write) \in Int
      BY <2>1, FarRange
    <2> SUFFICES ASSUME Far(s, b, b.write) <= Far(s, b, x) PROVE FALSE
      BY <1>2, <2>1 DEF After
    <2>3. CASE ~b.mem[b.write].dummy
      <3>1. b.write \in A /\ b.write \in Entries(s, b)
        BY <2>1, <2>3 DEF First, Entries
      <3>2. ~(Far(s, b, b.write) < d)
        BY <1>10, <1>8, <3>1 DEF EntryInv
      <3> QED BY <1>2, <1>4, <2>2, <3>2 DEF After
    <2>4. CASE b.mem[b.write].dummy
      <3>1. 0 \in A /\ x # 0
        BY <2>1, <2>4 DEF First
      <3>2. x = b.read
        BY <1>2, <3>1 DEF First
      <3>3. Far(s, b, b.write) = Far(s, b, x)
        BY <1>4, <2>1, <2>2, <3>2
      <3>4. b.write = x
        BY <1>4, <2>1, <3>3, FarInjective DEF Heads
      <3> QED BY <1>4, <2>4, <3>4 DEF Entries
    <2> QED BY <2>3, <2>4
  <1>18. ReadInv(s, c, A, d)
    BY <1>12, <1>16, <1>17, <1>23 DEF ReadInv
  <1>19. ReceivedItems(s, c, d) = ReceivedItems(s, b, r) \cup {x}
    <2> QED BY <1>4, <1>5, <1>8, <1>9, <1>22 DEF ReceivedItems
  <1>20. h \cup {HeldAt(b, x)} = {HeldAt(c, p) : p \in ReceivedItems(s, c, d)}
    <2>1. \A p : HeldAt(c, p) = HeldAt(b, p)
      BY <1>2, GotSame
    <2>2. PICK R : R = ReceivedItems(s, b, r)
      OBVIOUS
    <2>3. h = {HeldAt(b, p) : p \in R}
      BY <1>1, <2>2
    <2> QED BY <1>19, <2>1, <2>2, <2>3
  <1>21. BufInv(s, c, A, h \cup {HeldAt(b, x)}, d)
    BY <1>10, <1>11, <1>18, <1>20 DEF BufInv
  <1> QED BY <1>6, <1>21

(* prvGetItemDefault receives the oldest waiting item.                       *)
LEMMA GetItemTaken ==
  ASSUME config \in Configs, NEW s, s = config.size, NEW b, Shape(b), Layout(s, b), WrapInv(s, b),
         NEW A, NEW h, NEW r \in 0 .. s,
         BufInv(s, b, A, h, r), WaitingItems(s, b, A, r) # {}, NEW c, c = GetItem(b)
  PROVE  /\ c.waiting = b.waiting - 1 /\ \E x, d : d \in Int /\ Taken(s, b, c, x, d)
         /\ HeaderAt(b, GetItemStart(b)) = b.mem[GetItemStart(b)] /\ GetItemStart(b) = First(b, b.read)
  <1>1. Sz(s)
    BY ConfigFacts
  <1>2. WriteInv(s, b, A) /\ Pointer(s, b, b.read, r) /\ r \in Int
    BY <1>1, Sizes DEF BufInv, ReadInv
  <1>3. PICK x : x = First(b, b.read)
    OBVIOUS
  <1>4. x = GetItemStart(b) /\ x \in Entries(s, b) /\ x \in Heads(s, b)
    BY <1>1, <1>2, <1>3, OldestWaiting
  <1>5. PICK z : z = PastItem(b, x)
    OBVIOUS
  <1>6. z = Past(s, b, x) /\ HeaderAt(b, x) = b.mem[x]
    BY <1>1, <1>4, <1>5, PastItemType, HeadFacts
  <1>7. PICK d \in Int : After(s, b, x, z, d)
    BY <1>1, <1>4, <1>6, AfterHead
  <1>8. c = WithRead(b, z, b.waiting - 1)
    BY <1>4, <1>5 DEF GetItem, WithRead
  <1>9. /\ Shape(c) /\ c.read = z /\ c.waiting = b.waiting - 1 /\ c.mem = b.mem /\ c.acquire = b.acquire
        /\ c.full = b.full /\ c.write = b.write /\ c.free = b.free
    BY <1>8, SetRead
  <1>10. Taken(s, b, c, x, d)
    BY <1>3, <1>4, <1>6, <1>7, <1>9 DEF Taken, Got
  <1> QED BY <1>3, <1>4, <1>6, <1>7, <1>9, <1>10

(* When xItemsWaiting is positive, there is an item to receive.              *)
LEMMA AvailWaiting ==
  ASSUME NEW s, NEW b, NEW A, NEW h, NEW r, BufInv(s, b, A, h, r), b.waiting > 0
  PROVE  WaitingItems(s, b, A, r) # {}
  <1>1. b.waiting = Cardinality(WaitingItems(s, b, A, r))
    BY DEF BufInv, ReadInv
  <1>2. Cardinality({}) = 0
    BY FS_EmptySet
  <1> QED BY <1>1, <1>2

(* What the state invariant says beyond BufInv.                              *)
LEMMA StateFacts ==
  ASSUME config \in Configs, NEW s, s = config.size, NEW b, NEW q, NEW h, StateInv(config, b, q, h)
  PROVE  /\ Sz(s) /\ Shape(b) /\ Layout(s, b) /\ WrapInv(s, b) /\ q \in Seq(0 .. s - 1)
         /\ SendingInv(s, b, q) /\ UseInv(config, b, q, h)
         /\ \E r \in 0 .. s : BufInv(s, b, RangeOf(q), h, r)
  BY ConfigFacts DEF StateInv

(* One item is received.                                                     *)
LEMMA TakenState ==
  ASSUME config \in Configs, NEW s, s = config.size, NEW b, NEW q, NEW h, StateInv(config, b, q, h),
         NEW r \in 0 .. s, BufInv(s, b, RangeOf(q), h, r), WaitingItems(s, b, RangeOf(q), r) # {},
         NEW c, NEW x, NEW d \in Int, Taken(s, b, c, x, d), c.waiting = b.waiting - 1,
         x \notin RangeOf(q), c.full /\ c.read = c.acquire => h = {}, NEW h2, h2 = h \cup {HeldAt(b, x)}
  PROVE  StateInv(config, c, q, h2) /\ d \in 0 .. s /\ BufInv(s, c, RangeOf(q), h2, d)
  <1>1. /\ Sz(s) /\ Shape(b) /\ Layout(s, b) /\ WrapInv(s, b) /\ q \in Seq(0 .. s - 1)
        /\ SendingInv(s, b, q) /\ UseInv(config, b, q, h)
    BY StateFacts
  <1>2. BufInv(s, c, RangeOf(q), h2, d) /\ d \in 0 .. s
    BY <1>1, TakenInv
  <1>3. Shape(c) /\ Got(b, c)
    BY DEF Taken
  <1>4. Layout(s, c) /\ WrapInv(s, c)
    BY <1>1, <1>3, GotInv
  <1>5. SendingInv(s, c, q)
    <2>1. \A y : Far(s, c, y) = Far(s, b, y)
      BY <1>3 DEF Got, Far
    <2> QED BY <1>1, <2>1 DEF SendingInv
  <1>6. c.full /\ c.read = c.acquire => Cardinality(h2) <= 1
    <2>1. Cardinality({HeldAt(b, x)}) = 1
      BY FS_Singleton
    <2>2. c.full /\ c.read = c.acquire => h2 = {HeldAt(b, x)}
      OBVIOUS
    <2> QED BY <2>1, <2>2
  <1>7. Entries(s, c) = Entries(s, b)
    BY <1>3, GotSame
  <1>8. UseInv(config, c, q, h2)
    <2>1. \A v : Far(s, c, v) = Far(s, b, v)
      BY <1>3, GotSame
    <2>2. OrderInv(s, b, RangeOf(q)) => OrderInv(s, c, RangeOf(q))
      BY <1>7, <2>1 DEF OrderInv
    <2>3. c.mem = b.mem /\ c.write = b.write /\ c.acquire = b.acquire
      BY <1>3 DEF Got
    <2> QED BY <1>1, <1>6, <1>7, <2>2, <2>3 DEF UseInv
  <1> QED BY <1>1, <1>2, <1>3, <1>4, <1>5, <1>8 DEF StateInv

(* The item at x is complete, and when pucRead comes to z and all of a full  *)
(* buffer is received, nothing else is held.                                 *)
MayTake(b, q, h, x, z) ==
  /\ config.inOrder \/ x \notin RangeOf(q)
  /\ b.full /\ z = b.acquire => h = {}

(* xRingbufferReceive.                                                       *)
LEMMA ReceiveInv ==
  ASSUME config \in Configs, NEW b, NEW q, NEW h, StateInv(config, b, q, h), b.waiting > 0,
         NEW c, c = GetItem(b), NEW x, x = GetItemStart(b),
         MayTake(b, q, h, x, c.read)
  PROVE  StateInv(config, c, q, h \cup {HeldAt(b, x)}) /\ HeaderAt(b, x) = b.mem[x]
  <1>1. PICK s : s = config.size
    OBVIOUS
  <1>2. /\ Shape(b) /\ Layout(s, b) /\ WrapInv(s, b)
        /\ UseInv(config, b, q, h) /\ Sz(s) /\ \E r \in 0 .. s : BufInv(s, b, RangeOf(q), h, r)
    BY <1>1, StateFacts
  <1>3. PICK r \in 0 .. s : BufInv(s, b, RangeOf(q), h, r)
    BY <1>2
  <1>4. WaitingItems(s, b, RangeOf(q), r) # {}
    BY <1>3, AvailWaiting
  <1>5. /\ c.waiting = b.waiting - 1 /\ \E y, d : d \in Int /\ Taken(s, b, c, y, d)
        /\ HeaderAt(b, x) = b.mem[x] /\ x = First(b, b.read)
    BY <1>1, <1>2, <1>3, <1>4, GetItemTaken
  <1>6. PICK y, d : d \in Int /\ Taken(s, b, c, y, d)
    BY <1>5
  <1>7. y = x
    BY <1>5, <1>6 DEF Taken
  <1>8. PICK h2 : h2 = h \cup {HeldAt(b, x)}
    OBVIOUS
  <1>9. x \notin RangeOf(q)
    <2> SUFFICES ASSUME config.inOrder PROVE x \notin RangeOf(q)
      BY DEF MayTake
    <2>1. OrderInv(s, b, RangeOf(q))
      BY <1>1, <1>2 DEF UseInv
    <2>2. RangeOf(q) \subseteq Entries(s, b) /\ Pointer(s, b, b.read, r) /\ r \in Int
      BY <1>2, <1>3, Sizes DEF BufInv, WriteInv, ReadInv
    <2> QED BY <1>2, <1>4, <1>5, <2>1, <2>2, OldestComplete
  <1>10. c.full /\ c.read = c.acquire => h = {}
    BY <1>6 DEF Taken, Got, MayTake
  <1>11. StateInv(config, c, q, h2)
    BY <1>1, <1>3, <1>4, <1>5, <1>6, <1>7, <1>8, <1>9, <1>10, TakenState
  <1> QED BY <1>5, <1>8, <1>11

(* After the first part of a split item the other part is waiting.           *)
LEMMA SecondPart ==
  ASSUME NEW s, Sz(s), NEW b, Layout(s, b), WrapInv(s, b), NEW c, NEW x, NEW d \in Int, Taken(s, b, c, x, d),
         b.mem[x].split
  PROVE  c.read = 0 /\ d = Far(s, b, 0) /\ First(c, c.read) = 0 /\ 0 \in WaitingItems(s, c, {}, d)
         /\ b.mem[0].item = b.mem[x].item
  <1>1. Got(b, c) /\ x \in Entries(s, b) /\ c.read = Past(s, b, x) /\ After(s, b, x, c.read, d)
    BY DEF Taken
  <1>2. /\ 0 \in Entries(s, b) /\ Past(s, b, x) = 0 /\ Far(s, b, x) < Far(s, b, 0)
        /\ b.mem[0].item = b.mem[x].item
    BY <1>1 DEF WrapInv, Entries
  <1>3. 0 \in Heads(s, b) /\ x \in Heads(s, b) /\ ~b.mem[0].dummy
    BY <1>1, <1>2 DEF Entries
  <1>4. Far(s, b, 0) < Used(s, b) /\ Far(s, b, 0) \in Int /\ Far(s, b, x) \in Int /\ Used(s, b) \in Int
    BY <1>3, FarRange
  <1>5. d <= Far(s, b, 0)
    BY <1>1, <1>2, <1>3, <1>4 DEF After
  <1>6. d = Far(s, b, 0)
    <2>1. c.read = 0 /\ Pointer(s, b, 0, d) /\ d <= Used(s, b)
      BY <1>1, <1>2 DEF After
    <2> QED BY <1>4, <1>5, <2>1 DEF Pointer
  <1>7. 0 \in WaitingItems(s, c, {}, d)
    <2>1. Entries(s, c) = Entries(s, b) /\ Far(s, c, 0) = Far(s, b, 0)
      BY <1>1, GotSame
    <2> QED BY <1>2, <1>4, <1>6, <2>1 DEF WaitingItems
  <1>8. First(c, c.read) = 0
    BY <1>1, <1>2 DEF First
  <1> QED BY <1>1, <1>2, <1>6, <1>7, <1>8

(* c after the first part of an item was received, e after the second.       *)
BothTaken(b, h, x, c, y, e) ==
  /\ StateInv(config, e, <<>>, h \cup {HeldAt(b, x), HeldAt(c, y)})
  /\ HeaderAt(b, x) = b.mem[x] /\ HeaderAt(c, y) = c.mem[y] /\ y = 0 /\ b.mem[0].item = b.mem[x].item
  /\ x \in Entries(config.size, b) /\ Past(config.size, b, x) = 0 /\ StateInv(config, c, <<>>, h \cup {HeldAt(b, x)})
  /\ c.waiting > 0

(* xRingbufferReceiveSplit for an item in two parts.                         *)
LEMMA ReceiveSplitInv ==
  ASSUME config \in Configs, NEW b, NEW h, StateInv(config, b, <<>>, h), b.waiting > 0,
         NEW x, x = GetItemStart(b), HeaderAt(b, x).split,
         NEW c, c = GetItem(b), NEW e, e = GetItem(c), NEW y, y = GetItemStart(c),
         ~(b.full /\ e.read = b.acquire)
  PROVE  BothTaken(b, h, x, c, y, e)
  <1>1. PICK s : s = config.size
    OBVIOUS
  <1>2. /\ Sz(s) /\ Shape(b) /\ Layout(s, b) /\ WrapInv(s, b)
        /\ \E r \in 0 .. s : BufInv(s, b, RangeOf(<<>>), h, r)
    BY <1>1, StateFacts
  <1>3. PICK r \in 0 .. s : BufInv(s, b, RangeOf(<<>>), h, r)
    BY <1>2
  <1>4. WaitingItems(s, b, RangeOf(<<>>), r) # {}
    BY <1>3, AvailWaiting
  <1>5. /\ c.waiting = b.waiting - 1 /\ \E v, d : d \in Int /\ Taken(s, b, c, v, d)
        /\ HeaderAt(b, x) = b.mem[x] /\ x = First(b, b.read)
    BY <1>1, <1>2, <1>3, <1>4, GetItemTaken
  <1>6. PICK v, d : d \in Int /\ Taken(s, b, c, v, d)
    BY <1>5
  <1>7. v = x
    BY <1>5, <1>6 DEF Taken
  <1>8. PICK h2 : h2 = h \cup {HeldAt(b, x)}
    OBVIOUS
  <1>9. /\ c.read = 0 /\ 0 \in WaitingItems(s, c, {}, d) /\ First(c, c.read) = 0 /\ b.mem[0].item = b.mem[x].item
    BY <1>2, <1>5, <1>6, <1>7, SecondPart
  <1>10. x \notin RangeOf(<<>>)
    BY EmptyRange
  <1>11. ~(c.full /\ c.read = c.acquire)
    <2> SUFFICES ASSUME c.full, c.read = c.acquire PROVE FALSE
      OBVIOUS
    <2>1. Got(b, c) /\ x \in Entries(s, b) /\ Past(s, b, x) = 0
      BY <1>6, <1>7, <1>9 DEF Taken
    <2>2. b.free = 0
      BY <1>2, <1>9, <2>1 DEF Layout, Got
    <2>3. Far(s, b, 0) = 0
      BY <2>2 DEF Far, Dist
    <2>4. Far(s, b, x) < Far(s, b, 0)
      BY <1>2, <1>5, <2>1 DEF WrapInv, Entries
    <2>5. Far(s, b, x) \in Int /\ 0 <= Far(s, b, x)
      BY <1>2, <2>1, FarRange DEF Entries
    <2> QED BY <2>3, <2>4, <2>5
  <1>12. StateInv(config, c, <<>>, h2) /\ d \in 0 .. s /\ BufInv(s, c, RangeOf(<<>>), h2, d)
    BY <1>1, <1>3, <1>4, <1>5, <1>6, <1>7, <1>8, <1>10, <1>11, TakenState
  <1>13. c.waiting > 0
    <2>1. PICK W : W = WaitingItems(s, c, {}, d)
      OBVIOUS
    <2>2. RangeOf(<<>>) = {}
      BY EmptyRange
    <2>3. c.waiting = Cardinality(W)
      BY <1>12, <2>1, <2>2 DEF BufInv, ReadInv
    <2>4. IsFiniteSet(W)
      <3>1. W \subseteq 0 .. s - 1
        BY <2>1 DEF WaitingItems, Entries, Heads
      <3>2. IsFiniteSet(0 .. s - 1)
        BY <1>2, FS_Interval, Sizes
      <3> QED BY <3>1, <3>2, FS_Subset
    <2>5. Cardinality(W) \in Nat /\ Cardinality(W) # 0
      BY <1>9, <2>1, <2>4, FS_EmptySet, FS_CardinalityType
    <2> QED BY <2>3, <2>5
  <1>14. y \notin RangeOf(<<>>)
    BY EmptyRange
  <1>15. ~(c.full /\ e.read = c.acquire)
    BY <1>6 DEF Taken, Got
  <1>16. StateInv(config, e, <<>>, h2 \cup {HeldAt(c, y)}) /\ HeaderAt(c, y) = c.mem[y]
    <2>1. PICK q : q = <<>>
      OBVIOUS
    <2>2. StateInv(config, c, q, h2)
      BY <1>12, <2>1
    <2>3. MayTake(c, q, h2, y, e.read)
      BY <1>14, <1>15, <2>1 DEF MayTake
    <2>4. StateInv(config, e, q, h2 \cup {HeldAt(c, y)}) /\ HeaderAt(c, y) = c.mem[y]
      BY <1>13, <2>2, <2>3, ReceiveInv
    <2> QED BY <2>1, <2>4
  <1>17. h2 \cup {HeldAt(c, y)} = h \cup {HeldAt(b, x), HeldAt(c, y)}
    BY <1>8
  <1>18. y = 0
    <2>1. Shape(c) /\ Layout(s, c) /\ WrapInv(s, c)
      BY <1>1, <1>12, StateFacts
    <2>2. WaitingItems(s, c, RangeOf(<<>>), d) # {}
      BY <1>9, EmptyRange
    <2>3. y = First(c, c.read)
      BY <1>1, <1>12, <2>1, <2>2, GetItemTaken
    <2> QED BY <1>9, <2>3
  <1>19. x \in Entries(s, b) /\ Past(s, b, x) = 0
    BY <1>6, <1>7, <1>9 DEF Taken
  <1> QED BY <1>1, <1>5, <1>8, <1>9, <1>12, <1>13, <1>16, <1>17, <1>18, <1>19 DEF BothTaken

-------------------------------------------------------------------------------
(*****************************************************************************)
(* prvReturnItemDefault: returning keeps the invariant.                      *)
(*****************************************************************************)

(* The storage when the item at p is marked free.                            *)
FreedMem(b, p) == [b.mem EXCEPT ![p] = [HeaderAt(b, p) EXCEPT !.split = FALSE, !.freed = TRUE]]
WithMem(b, m) == [b EXCEPT !.mem = m]

(* Only the storage is set.                                                  *)
LEMMA SetMem ==
  ASSUME NEW b, Shape(b), NEW m, NEW c, c = WithMem(b, m)
  PROVE  /\ Shape(c) /\ c.mem = m /\ c.acquire = b.acquire /\ c.full = b.full /\ c.waiting = b.waiting
         /\ c.write = b.write /\ c.read = b.read /\ c.free = b.free
  BY DEF Shape, Fields, WithMem

(* c is b with the item at p marked free.                                    *)
Marked(s, b, c, p) ==
  /\ Shape(c) /\ SameHeads(s, b, c) /\ c.read = b.read /\ c.write = b.write /\ c.waiting = b.waiting
  /\ c.mem[p].freed /\ ~c.mem[p].split /\ c.mem[p].written = b.mem[p].written
  /\ \A o \in 0 .. s - 1 : o # p => c.mem[o] = b.mem[o]

(* Marking an item as free changes its header only.                          *)
LEMMA FreedMarked ==
  ASSUME NEW s, Sz(s), NEW b, Shape(b), Layout(s, b), NEW p \in Heads(s, b),
         NEW c, c = WithMem(b, FreedMem(b, p))
  PROVE  Marked(s, b, c, p)
  <1>1. p \in 0 .. s - 1 /\ b.mem[p] \in HeaderRec /\ HeaderAt(b, p) = b.mem[p]
    BY HeadFacts
  <1>2. PICK h, m : h = b.mem[p] /\ m = c.mem
    OBVIOUS
  <1>3. PICK g : g = [h EXCEPT !.split = FALSE]
    OBVIOUS
  <1>4. PICK k : k = [g EXCEPT !.freed = TRUE]
    OBVIOUS
  <1>5. h \in HeaderRec
    BY <1>1, <1>2
  <1>6. /\ g \in HeaderRec /\ ~g.split /\ g.len = h.len /\ g.item = h.item /\ g.part = h.part
        /\ g.written = h.written /\ g.dummy = h.dummy
    <2>1. g \in HeaderRec
      BY <1>3, <1>5, HeaderSet
    <2> QED BY <1>3, <1>5, <2>1 DEF HeaderRec
  <1>7. /\ k \in HeaderRec /\ k.freed /\ ~k.split /\ k.len = h.len /\ k.item = h.item /\ k.part = h.part
        /\ k.written = h.written /\ k.dummy = h.dummy
    <2>1. k \in HeaderRec
      BY <1>4, <1>6, HeaderSet
    <2> QED BY <1>4, <1>6, <2>1 DEF HeaderRec
  <1>8. [h EXCEPT !.split = FALSE, !.freed = TRUE] = k
    BY <1>3, <1>4
  <1>9. /\ Shape(c) /\ m = [b.mem EXCEPT ![p] = k] /\ c.acquire = b.acquire /\ c.full = b.full
        /\ c.waiting = b.waiting /\ c.write = b.write /\ c.read = b.read /\ c.free = b.free
    <2>1. FreedMem(b, p) = [b.mem EXCEPT ![p] = k]
      BY <1>1, <1>2, <1>8 DEF FreedMem
    <2>2. /\ Shape(c) /\ c.mem = FreedMem(b, p) /\ c.acquire = b.acquire /\ c.full = b.full
          /\ c.waiting = b.waiting /\ c.write = b.write /\ c.read = b.read /\ c.free = b.free
      BY SetMem
    <2> QED BY <1>2, <2>1, <2>2
  <1>10. b.mem \in [0 .. s - 1 -> Cells]
    BY DEF Layout, Cells
  <1>11. m \in [0 .. s - 1 -> Cells] /\ m[p] = k /\ \A o \in 0 .. s - 1 : o # p => m[o] = b.mem[o]
    BY <1>1, <1>7, <1>9, <1>10 DEF Cells
  <1>12. Heads(s, c) = Heads(s, b)
    <2>1. k \notin Items \cup {Junk}
      BY <1>7, CellAssumption
    <2>2. \A q \in 0 .. s - 1 : m[q] \notin Items \cup {Junk} <=> b.mem[q] \notin Items \cup {Junk}
      BY <1>1, <1>5, <1>2, <1>11, <2>1, CellAssumption
    <2> QED BY <1>2, <2>2 DEF Heads, HasHeader
  <1>13. \A q \in Heads(s, b) : /\ m[q].dummy = b.mem[q].dummy /\ m[q].len = b.mem[q].len
                                /\ m[q].item = b.mem[q].item /\ m[q].part = b.mem[q].part
    BY <1>2, <1>7, <1>11 DEF Heads
  <1>14. SameHeads(s, b, c)
    BY <1>2, <1>9, <1>11, <1>12, <1>13 DEF SameHeads, Cells
  <1> QED BY <1>2, <1>7, <1>9, <1>11, <1>14 DEF Marked

(* ReadInv but for the oldest item.                                          *)
ReadPart(s, b, A, r) ==
  /\ Pointer(s, b, b.read, r) /\ NotPast(s, b, r)
  /\ b.waiting = Cardinality(WaitingItems(s, b, A, r))

(* The invariant when a received item is marked as free.                     *)
LEMMA MarkedInv ==
  ASSUME NEW s, Sz(s), NEW b, Layout(s, b), WrapInv(s, b), NEW A, NEW r \in Int,
         EntryInv(s, b, A, r), WriteInv(s, b, A), ReadPart(s, b, A, r),
         NEW p \in Entries(s, b), Far(s, b, p) < r, NEW c, Marked(s, b, c, p)
  PROVE  /\ Layout(s, c) /\ WrapInv(s, c) /\ EntryInv(s, c, A, r) /\ WriteInv(s, c, A) /\ ReadPart(s, c, A, r)
         /\ ReceivedItems(s, c, r) = ReceivedItems(s, b, r) \ {p}
  <1>1. p \in Heads(s, b) /\ Entries(s, b) \subseteq Heads(s, b) /\ Heads(s, b) \subseteq 0 .. s - 1
    BY DEF Entries, Heads
  <1>2. SameHeads(s, b, c) /\ c.read = b.read /\ c.write = b.write /\ c.waiting = b.waiting /\ c.acquire = b.acquire
    BY DEF Marked, SameHeads
  <1>3. /\ Layout(s, c) /\ Entries(s, c) = Entries(s, b) /\ Heads(s, c) = Heads(s, b)
        /\ Used(s, c) = Used(s, b) /\ \A x : Far(s, c, x) = Far(s, b, x)
    BY <1>2, SameLayout DEF SameHeads
  <1>4. \A q \in Heads(s, b) : Past(s, c, q) = Past(s, b, q) /\ c.mem[q].item = b.mem[q].item
                               /\ c.mem[q].dummy = b.mem[q].dummy
    BY <1>2, SameLayout DEF SameHeads
  <1>5. \A q \in Heads(s, b) : q # p => c.mem[q] = b.mem[q]
    BY <1>1 DEF Marked
  <1>6. WrapInv(s, c)
    <2> SUFFICES ASSUME NEW q \in Heads(s, b), c.mem[q].dummy \/ c.mem[q].split
                 PROVE  /\ 0 \in Entries(s, b) /\ Past(s, b, q) = 0 /\ Far(s, b, q) < Far(s, b, 0)
                        /\ ~b.mem[q].dummy => b.mem[0].item = b.mem[q].item
      <3>1. 0 \in Entries(s, b) => c.mem[0].item = b.mem[0].item
        BY <1>1, <1>4
      <3> QED BY <1>3, <1>4, <3>1 DEF WrapInv
    <2>1. q # p
      BY <1>1, <1>4 DEF Marked, Entries
    <2>2. c.mem[q] = b.mem[q]
      BY <1>5, <2>1
    <2> QED BY <2>2 DEF WrapInv
  <1>7. EntryInv(s, c, A, r)
    <2> SUFFICES ASSUME NEW q \in Entries(s, b)
                 PROVE  /\ c.mem[q].item \in Items /\ (Far(s, b, q) < r => q \notin A)
                        /\ (Far(s, b, q) >= r => ~c.mem[q].freed) /\ (q \notin A => Contents(c, q))
      BY <1>3 DEF EntryInv
    <2>1. c.mem[q].item \in Items /\ (Far(s, b, q) < r => q \notin A) /\ (Far(s, b, q) >= r => ~b.mem[q].freed)
          /\ (q \notin A => Contents(b, q))
      BY <1>1, <1>4 DEF EntryInv
    <2>2. Far(s, b, q) >= r => q # p
      BY <1>1, FarRange
    <2>3. Contents(b, q) => Contents(c, q)
      <3>1. \A o \in q + Header .. q + Header + b.mem[q].len - 1 : o \in q .. q + Extent(b, q) - 1 /\ o \in 0 .. s - 1 /\ o # q
        BY ItemCells
      <3>2. \A o \in q + Header .. q + Header + b.mem[q].len - 1 : o # p
        <4> SUFFICES ASSUME p \in q + Header .. q + Header + b.mem[q].len - 1 PROVE FALSE
          OBVIOUS
        <4>1. p # q /\ q \in Heads(s, b) /\ p \in q .. q + Extent(b, q) - 1
          BY <1>1, <3>1
        <4>2. p \in p .. p + Extent(b, p) - 1
          BY ItemCells
        <4>3. \A o \in p .. p + Extent(b, p) - 1 : o \notin q .. q + Extent(b, q) - 1
          BY <1>1, <4>1, Disjoint
        <4> QED BY <4>1, <4>2, <4>3
      <3>3. \A o \in q + Header .. q + Header + b.mem[q].len - 1 : c.mem[o] = b.mem[o]
        BY <3>1, <3>2 DEF Marked
      <3>4. c.mem[q].len = b.mem[q].len /\ c.mem[q].item = b.mem[q].item
        BY <1>1, <1>2 DEF SameHeads
      <3> QED BY <3>3, <3>4 DEF Contents
    <2> QED BY <1>1, <1>5, <2>1, <2>2, <2>3
  <1>8. \A q \in Heads(s, b) : First(c, q) = First(b, q)
    BY <1>4 DEF First
  <1>9. WriteInv(s, c, A)
    BY <1>2, <1>3, <1>8 DEF WriteInv
  <1>10. WaitingItems(s, c, A, r) = WaitingItems(s, b, A, r)
    BY <1>3 DEF WaitingItems
  <1>11. ReadPart(s, c, A, r)
    <2>1. Pointer(s, c, c.read, r)
      BY <1>2, SamePointers DEF ReadPart
    <2> QED BY <1>2, <1>3, <1>10, <2>1 DEF ReadPart, NotPast
  <1>12. ReceivedItems(s, c, r) = ReceivedItems(s, b, r) \ {p}
    <2>1. \A q \in Entries(s, b) : ~c.mem[q].freed <=> ~b.mem[q].freed /\ q # p
      BY <1>1, <1>5 DEF Marked
    <2> QED BY <1>3, <2>1 DEF ReceivedItems
  <1> QED BY <1>3, <1>6, <1>7, <1>9, <1>11, <1>12

(* The remainder of a difference of two offsets.                             *)
LEMMA Round ==
  ASSUME NEW s \in Int, s > 0, NEW f \in 0 .. s - 1, NEW o \in 0 .. s - 1
  PROVE  (o - f) % s = Dist(s, f, o)
  <1>1. PICK m : m = o - f
    OBVIOUS
  <1>2. m \in Int /\ m < s /\ -s < m
    BY <1>1
  <1>3. PICK q, v, a : q = m \div s /\ v = m % s /\ a = s * q
    OBVIOUS
  <1>4. q \in Int /\ v \in 0 .. s - 1 /\ m = a + v
    BY <1>2, <1>3, Division
  <1>5. a \in Int
    BY <1>3, <1>4
  <1>6. q >= 1 => a >= s
    BY <1>3, <1>4
  <1>7. q <= -2 => a <= -(2 * s)
    BY <1>3, <1>4
  <1>8. q = 0 \/ q = -1
    BY <1>2, <1>4, <1>5, <1>6, <1>7
  <1>9. q = 0 => a = 0
    BY <1>3
  <1>10. q = -1 => a = -s
    BY <1>3
  <1>11. v = IF m >= 0 THEN m ELSE m + s
    BY <1>2, <1>4, <1>5, <1>8, <1>9, <1>10
  <1>12. Dist(s, f, o) = IF m >= 0 THEN m ELSE m + s
    BY <1>1 DEF Dist
  <1> QED BY <1>1, <1>3, <1>11, <1>12

(* Distances from a place further on.                                        *)
LEMMA Rotate ==
  ASSUME NEW s \in Int, NEW f \in 0 .. s - 1, NEW g \in 0 .. s - 1, NEW p \in 0 .. s - 1
  PROVE  Dist(s, g, p) = IF Dist(s, f, p) >= Dist(s, f, g) THEN Dist(s, f, p) - Dist(s, f, g)
                         ELSE Dist(s, f, p) - Dist(s, f, g) + s
  BY DEF Dist

(* prvGetFreeSize is what is not in use.                                     *)
LEMMA FreeSizeIs ==
  ASSUME config \in Configs, NEW s, s = config.size, NEW b,
         b.free \in 0 .. s - 1, b.acquire \in 0 .. s - 1, b.full \in BOOLEAN
  PROVE  GetFreeSize(b) = s - Used(s, b)
  <1>1. s \in Int
    BY ConfigFacts
  <1>2. CASE b.full
    BY <1>1, <1>2 DEF GetFreeSize, Used
  <1>3. CASE ~b.full
    <2>1. PICK f, g : f = b.free /\ g = b.acquire
      OBVIOUS
    <2>2. Used(s, b) = Dist(s, f, g)
      BY <1>3, <2>1 DEF Used, Far
    <2>3. GetFreeSize(b) = IF f - g <= 0 THEN f - g + s ELSE f - g
      BY <1>3, <2>1 DEF GetFreeSize
    <2> QED BY <1>1, <2>1, <2>2, <2>3 DEF Dist
  <1> QED BY <1>2, <1>3

(* Where a pointer is, but for pucFree in a full buffer.                     *)
LEMMA PointerFar ==
  ASSUME NEW s, Sz(s), NEW b, Layout(s, b), NEW x, NEW d, Pointer(s, b, x, d), x # b.free
  PROVE  d = Far(s, b, x)
  <1>1. CASE x = b.acquire /\ d = Used(s, b)
    <2>1. ~b.full
      BY <1>1, PointerFacts
    <2> QED BY <1>1, <2>1 DEF Used
  <1> QED BY <1>1 DEF Pointer

(* pucFree goes to f, which is d bytes on.                                   *)
Moved(s, b, c, f, d) ==
  /\ c.free = f /\ c.acquire = b.acquire /\ ~c.full
  /\ d \in Int /\ 0 < d /\ f # b.free /\ Pointer(s, b, f, d)

(* b becomes c when what is nearer than d is given back, up to f.            *)
Popped(s, b, c, f, d) ==
  /\ Moved(s, b, c, f, d)
  /\ Shape(c) /\ c.free = f /\ c.acquire = b.acquire /\ c.read = b.read /\ c.write = b.write
  /\ c.waiting = b.waiting /\ c.full \in BOOLEAN /\ ~c.full
  /\ c.mem \in [0 .. s - 1 -> Items \cup {Junk} \cup HeaderRec]
  /\ \A o \in 0 .. s - 1 : c.mem[o] = IF Far(s, b, o) < d THEN Junk ELSE b.mem[o]
  /\ d \in Int /\ 0 < d /\ f # b.free /\ Pointer(s, b, f, d)

(* Distances from the new pucFree.                                           *)
LEMMA PoppedFar ==
  ASSUME NEW s, Sz(s), NEW b, Layout(s, b), NEW c, NEW f, NEW d, Moved(s, b, c, f, d)
  PROVE  /\ f \in 0 .. s - 1 /\ d = Far(s, b, f) /\ d <= Used(s, b) /\ d \in Int
         /\ \A p \in 0 .. s - 1 : Far(s, b, p) >= d => Far(s, c, p) = Far(s, b, p) - d
         /\ Used(s, c) = Used(s, b) - d
  <1>1. Pointer(s, b, f, d) /\ f # b.free /\ 0 < d /\ d \in Int /\ c.free = f /\ c.acquire = b.acquire /\ ~c.full
    BY DEF Moved
  <1>2. f \in 0 .. s - 1 /\ d <= Used(s, b)
    <2>1. d \in 0 .. Used(s, b) /\ f \in 0 .. s - 1 /\ Used(s, b) \in Int
      BY <1>1, PointerRange, FarRange
    <2> QED BY <2>1
  <1>3. d = Far(s, b, f)
    BY <1>1, PointerFar
  <1>4. s \in Int /\ b.free \in 0 .. s - 1 /\ b.acquire \in 0 .. s - 1
    BY PointerFacts, Sizes
  <1>5. \A p \in 0 .. s - 1 : Far(s, c, p) = IF Far(s, b, p) >= d THEN Far(s, b, p) - d ELSE Far(s, b, p) - d + s
    BY <1>1, <1>2, <1>3, <1>4, Rotate DEF Far
  <1>6. Used(s, c) = Far(s, c, b.acquire)
    BY <1>1 DEF Used
  <1>7. CASE b.full
    <2>1. Used(s, b) = s /\ b.acquire = b.free /\ Far(s, b, b.acquire) = 0
      BY <1>4, <1>7, PointerFacts DEF Far, Dist
    <2>2. Used(s, c) = s - d
      BY <1>1, <1>4, <1>5, <1>6, <2>1
    <2> QED BY <1>1, <1>2, <1>3, <1>5, <2>1, <2>2
  <1>8. CASE ~b.full
    <2>1. Used(s, b) = Far(s, b, b.acquire) /\ Far(s, b, b.acquire) \in Int
      BY <1>4, <1>8, PointerFacts
    <2>2. Used(s, c) = Used(s, b) - d
      BY <1>1, <1>2, <1>4, <1>5, <1>6, <2>1
    <2> QED BY <1>1, <1>2, <1>3, <1>5, <2>2
  <1>9. b.full \in BOOLEAN
    BY PointerFacts
  <1> QED BY <1>7, <1>8, <1>9

(* What is not given back stays.                                             *)
LEMMA PoppedHeads ==
  ASSUME NEW s, Sz(s), NEW b, Layout(s, b), NEW c, NEW f, NEW d, Popped(s, b, c, f, d)
  PROVE  /\ Heads(s, c) = {p \in Heads(s, b) : Far(s, b, p) >= d}
         /\ \A p \in Heads(s, c) : /\ c.mem[p] = b.mem[p] /\ Extent(c, p) = Extent(b, p)
                                   /\ Past(s, c, p) = Past(s, b, p)
                                   /\ \A o \in p .. p + Extent(b, p) - 1 : c.mem[o] = b.mem[o]
                                   /\ Far(s, c, p) = Far(s, b, p) - d
  <1>1. \A o \in 0 .. s - 1 : c.mem[o] = IF Far(s, b, o) < d THEN Junk ELSE b.mem[o]
    BY DEF Popped
  <1>2. d \in Int
    BY DEF Popped
  <1>3. s \in Int /\ b.free \in 0 .. s - 1
    BY PointerFacts, Sizes
  <1>4. \A o \in 0 .. s - 1 : Far(s, b, o) \in Int
    BY <1>3 DEF Far, Dist
  <1>5. Heads(s, c) = {p \in Heads(s, b) : Far(s, b, p) >= d}
    <2>1. ASSUME NEW p \in 0 .. s - 1
          PROVE  c.mem[p] \notin Items \cup {Junk} <=> b.mem[p] \notin Items \cup {Junk} /\ Far(s, b, p) >= d
      <3>1. CASE Far(s, b, p) < d
        <4>1. c.mem[p] = Junk
          BY <1>1, <3>1
        <4>2. ~(Far(s, b, p) >= d)
          BY <1>2, <1>4, <3>1
        <4> QED BY <4>1, <4>2
      <3>2. CASE ~(Far(s, b, p) < d)
        <4>1. c.mem[p] = b.mem[p]
          BY <1>1, <3>2
        <4>2. Far(s, b, p) >= d
          BY <1>2, <1>4, <3>2
        <4> QED BY <4>1, <4>2
      <3> QED BY <3>1, <3>2
    <2> QED BY <2>1 DEF Heads, HasHeader
  <1>6. ASSUME NEW p \in Heads(s, c)
        PROVE  /\ c.mem[p] = b.mem[p] /\ Extent(c, p) = Extent(b, p)
               /\ Past(s, c, p) = Past(s, b, p)
               /\ \A o \in p .. p + Extent(b, p) - 1 : c.mem[o] = b.mem[o]
               /\ Far(s, c, p) = Far(s, b, p) - d
    <2>1. p \in Heads(s, b) /\ Far(s, b, p) >= d
      BY <1>5
    <2>2. p \in 0 .. s - 1 /\ Extent(b, p) \in Int /\ Extent(b, p) > 0 /\ p + Extent(b, p) <= s
          /\ Far(s, b, p) + Extent(b, p) <= Used(s, b)
      BY <2>1, HeadFacts
    <2>3. c.mem[p] = b.mem[p]
      BY <1>1, <1>2, <1>4, <2>1, <2>2
    <2>4. Extent(c, p) = Extent(b, p)
      BY <2>3 DEF Extent
    <2>5. Past(s, c, p) = Past(s, b, p)
      BY <2>3, <2>4 DEF Past
    <2>6. \A o \in p .. p + Extent(b, p) - 1 : c.mem[o] = b.mem[o]
      <3> TAKE o \in p .. p + Extent(b, p) - 1
      <3>1. Far(s, b, p) + Extent(b, p) <= s
        BY <1>3, <1>4, <2>2, FarRange
      <3>2. o \in 0 .. s - 1 /\ Far(s, b, o) = Far(s, b, p) + (o - p)
        BY <1>3, <2>2, <3>1, Straight DEF Far
      <3>3. ~(Far(s, b, o) < d)
        BY <1>2, <1>4, <2>1, <2>2, <3>2
      <3> QED BY <1>1, <3>2, <3>3
    <2>7. Far(s, c, p) = Far(s, b, p) - d
      BY <2>1, <2>2, PoppedFar DEF Popped
    <2> QED BY <2>3, <2>4, <2>5, <2>6, <2>7
  <1> QED BY <1>5, <1>6

(* The layout when the headers up to the new pucFree are given back.         *)
LEMMA PoppedLayout ==
  ASSUME NEW s, Sz(s), NEW b, Layout(s, b), NEW c, NEW f, NEW d, Popped(s, b, c, f, d)
  PROVE  Layout(s, c)
  <1>1. /\ Pointer(s, b, f, d) /\ f # b.free /\ c.free = f /\ c.acquire = b.acquire /\ c.full \in BOOLEAN /\ ~c.full
        /\ c.mem \in [0 .. s - 1 -> Items \cup {Junk} \cup HeaderRec]
    BY DEF Popped
  <1>2. d = Far(s, b, f) /\ Used(s, c) = Used(s, b) - d /\ d \in Int /\ Used(s, b) \in Int
    <2>1. Moved(s, b, c, f, d)
      BY DEF Popped
    <2> QED BY <2>1, PoppedFar, FarRange
  <1>3. Heads(s, c) \subseteq Heads(s, b) /\ \A p \in Heads(s, b) : p \in Heads(s, c) <=> Far(s, b, p) >= d
    BY PoppedHeads
  <1>4. \A p \in Heads(s, b) : Far(s, b, p) \in Int /\ Far(s, b, p) < Used(s, b)
    BY FarRange
  <1>5. b.acquire \in Places(s) /\ Heads(s, b) \subseteq Places(s)
    BY DEF Layout
  <1>6. f \in Places(s)
    BY <1>1, <1>5 DEF Pointer
  <1>7. IF Heads(s, c) = {} THEN c.free = c.acquire ELSE c.free \in Heads(s, c)
    <2>1. CASE f \in Heads(s, b)
      BY <1>1, <1>2, <1>3, <1>4, <2>1
    <2>2. CASE f = b.acquire /\ d = Used(s, b)
      <3>1. Heads(s, c) = {}
        BY <1>2, <1>3, <1>4, <2>2
      <3> QED BY <1>1, <2>2, <3>1
    <2> QED BY <1>1, <2>1, <2>2 DEF Pointer
  <1>8. ASSUME NEW p \in Heads(s, c)
        PROVE  p + Extent(c, p) <= s /\ Far(s, c, p) + Extent(c, p) <= Used(s, c) /\ Linked(s, c, p)
    <2>1. /\ p \in Heads(s, b) /\ Far(s, b, p) >= d /\ Extent(c, p) = Extent(b, p)
          /\ Past(s, c, p) = Past(s, b, p) /\ Far(s, c, p) = Far(s, b, p) - d
      BY <1>3, PoppedHeads
    <2>2. /\ p + Extent(b, p) <= s /\ Far(s, b, p) + Extent(b, p) <= Used(s, b) /\ Linked(s, b, p)
          /\ Extent(b, p) \in Int /\ Extent(b, p) > 0
      BY <2>1, HeadFacts
    <2>3. Far(s, c, p) + Extent(c, p) <= Used(s, c)
      BY <1>2, <1>4, <2>1, <2>2
    <2>4. \A x \in Heads(s, c) : x \in Heads(s, b) /\ Far(s, c, x) = Far(s, b, x) - d /\ Far(s, b, x) \in Int
      BY <1>3, <1>4, PoppedHeads
    <2>5. PICK q : q = Past(s, b, p)
      OBVIOUS
    <2>6. CASE q = b.acquire /\ \A x \in Heads(s, b) : Far(s, b, x) <= Far(s, b, p)
      <3>1. \A x \in Heads(s, c) : Far(s, c, x) <= Far(s, c, p)
        BY <1>2, <2>1, <2>4, <2>6
      <3> QED BY <1>1, <2>1, <2>2, <2>3, <2>5, <2>6, <3>1 DEF Linked
    <2>7. CASE /\ q \in Heads(s, b) /\ Far(s, b, p) + Extent(b, p) <= Far(s, b, q)
               /\ \A x \in Heads(s, b) : Far(s, b, x) <= Far(s, b, p) \/ Far(s, b, q) <= Far(s, b, x)
      <3>1. q \in Heads(s, c)
        BY <1>2, <1>3, <1>4, <2>1, <2>2, <2>7
      <3>2. Far(s, c, q) = Far(s, b, q) - d /\ Far(s, b, q) \in Int
        BY <2>4, <3>1
      <3>3. Far(s, c, p) + Extent(c, p) <= Far(s, c, q)
        BY <1>2, <1>4, <2>1, <2>2, <2>7, <3>2
      <3>4. \A x \in Heads(s, c) : Far(s, c, x) <= Far(s, c, p) \/ Far(s, c, q) <= Far(s, c, x)
        BY <1>2, <2>1, <2>4, <2>7, <3>2
      <3>5. Linked(s, c, p)
        BY <2>1, <2>5, <3>1, <3>3, <3>4 DEF Linked
      <3> QED BY <2>1, <2>2, <2>3, <3>5
    <2> QED BY <2>2, <2>5, <2>6, <2>7 DEF Linked
  <1>9. Heads(s, c) \subseteq Places(s)
    BY <1>3, <1>5
  <1> QED BY <1>1, <1>5, <1>6, <1>7, <1>8, <1>9 DEF Layout

(* The invariant when only free items are given back.                        *)
LEMMA PoppedInv ==
  ASSUME NEW s, Sz(s), NEW b, Layout(s, b), WrapInv(s, b), NEW A, NEW r \in Int,
         EntryInv(s, b, A, r), WriteInv(s, b, A), ReadPart(s, b, A, r),
         NEW c, NEW f, NEW d, Popped(s, b, c, f, d), d <= r,
         \A v \in Entries(s, b) : Far(s, b, v) < d => b.mem[v].freed
  PROVE  /\ WrapInv(s, c) /\ EntryInv(s, c, A, r - d) /\ WriteInv(s, c, A) /\ ReadPart(s, c, A, r - d)
         /\ ReceivedItems(s, c, r - d) = ReceivedItems(s, b, r) /\ r - d \in 0 .. s
  <1>1. /\ c.free = f /\ c.acquire = b.acquire /\ c.read = b.read /\ c.write = b.write /\ c.waiting = b.waiting
    BY DEF Popped
  <1>2. d = Far(s, b, f) /\ Used(s, c) = Used(s, b) - d /\ d \in Int /\ Used(s, b) \in Int /\ d >= 0
    <2>1. d \in Int /\ 0 < d
      BY DEF Popped
    <2>2. d = Far(s, b, f) /\ Used(s, c) = Used(s, b) - d /\ Used(s, b) \in Int
      <3>1. Moved(s, b, c, f, d)
        BY DEF Popped
      <3> QED BY <3>1, PoppedFar, FarRange
    <2> QED BY <2>1, <2>2
  <1>3. Heads(s, c) \subseteq Heads(s, b) /\ \A p \in Heads(s, b) : p \in Heads(s, c) <=> Far(s, b, p) >= d
    BY PoppedHeads
  <1>4. \A p \in Heads(s, b) : Far(s, b, p) \in Int /\ Far(s, b, p) < Used(s, b)
    BY FarRange
  <1>5. \A p \in Heads(s, c) : /\ c.mem[p] = b.mem[p] /\ Past(s, c, p) = Past(s, b, p)
                               /\ Far(s, c, p) = Far(s, b, p) - d /\ Far(s, b, p) >= d
    BY <1>3, PoppedHeads
  <1>6. Entries(s, c) = {p \in Entries(s, b) : Far(s, b, p) >= d}
    <2>1. \A p : p \in Entries(s, c) <=> p \in Entries(s, b) /\ Far(s, b, p) >= d
      BY <1>3, <1>5 DEF Entries
    <2> QED BY <2>1
  <1>7. WrapInv(s, c)
    <2> SUFFICES ASSUME NEW p \in Heads(s, c), c.mem[p].dummy \/ c.mem[p].split
                 PROVE  /\ 0 \in Entries(s, c) /\ Past(s, c, p) = 0 /\ Far(s, c, p) < Far(s, c, 0)
                        /\ ~c.mem[p].dummy => c.mem[0].item = c.mem[p].item
      BY DEF WrapInv
    <2>1. p \in Heads(s, b) /\ c.mem[p] = b.mem[p] /\ Past(s, c, p) = Past(s, b, p)
          /\ Far(s, c, p) = Far(s, b, p) - d /\ Far(s, b, p) >= d
      BY <1>3, <1>5
    <2>2. /\ 0 \in Entries(s, b) /\ Past(s, b, p) = 0 /\ Far(s, b, p) < Far(s, b, 0)
          /\ ~b.mem[p].dummy => b.mem[0].item = b.mem[p].item
      BY <2>1 DEF WrapInv
    <2>3. 0 \in Heads(s, b) /\ Far(s, b, 0) \in Int /\ Far(s, b, p) \in Int
      BY <1>4, <2>1, <2>2 DEF Entries
    <2>4. Far(s, b, 0) >= d
      BY <1>2, <2>1, <2>2, <2>3
    <2>5. 0 \in Entries(s, c) /\ 0 \in Heads(s, c)
      BY <1>3, <1>6, <2>2, <2>3, <2>4
    <2>6. c.mem[0] = b.mem[0] /\ Far(s, c, 0) = Far(s, b, 0) - d
      BY <1>5, <2>5
    <2> QED BY <1>2, <2>1, <2>2, <2>3, <2>5, <2>6
  <1>8. \A p \in Entries(s, c) : /\ p \in Entries(s, b) /\ p \in Heads(s, c) /\ p \in Heads(s, b) /\ Far(s, b, p) \in Int
                                 /\ Far(s, c, p) = Far(s, b, p) - d /\ c.mem[p] = b.mem[p]
    BY <1>3, <1>4, <1>5, <1>6 DEF Entries
  <1>9. EntryInv(s, c, A, r - d)
    <2> SUFFICES ASSUME NEW p \in Entries(s, c)
                 PROVE  /\ c.mem[p].item \in Items /\ (Far(s, c, p) < r - d => p \notin A)
                        /\ (Far(s, c, p) >= r - d => ~c.mem[p].freed) /\ (p \notin A => Contents(c, p))
      BY DEF EntryInv
    <2>1. p \in Entries(s, b) /\ p \in Heads(s, c) /\ Far(s, b, p) \in Int /\ Far(s, c, p) = Far(s, b, p) - d /\ c.mem[p] = b.mem[p]
      BY <1>8
    <2>2. /\ b.mem[p].item \in Items /\ (Far(s, b, p) < r => p \notin A)
          /\ (Far(s, b, p) >= r => ~b.mem[p].freed) /\ (p \notin A => Contents(b, p))
      BY <2>1 DEF EntryInv
    <2>3. (Far(s, c, p) < r - d <=> Far(s, b, p) < r) /\ (Far(s, c, p) >= r - d <=> Far(s, b, p) >= r)
      BY <1>2, <2>1
    <2>4. Contents(b, p) => Contents(c, p)
      <3>1. \A o \in p + Header .. p + Header + b.mem[p].len - 1 : o \in p .. p + Extent(b, p) - 1
        BY <2>1, ItemCells
      <3>2. \A o \in p .. p + Extent(b, p) - 1 : c.mem[o] = b.mem[o]
        BY <2>1, PoppedHeads
      <3> QED BY <2>1, <3>1, <3>2 DEF Contents
    <2> QED BY <2>1, <2>2, <2>3, <2>4
  <1>10. Pointer(s, b, b.read, r) /\ NotPast(s, b, r) /\ b.waiting = Cardinality(WaitingItems(s, b, A, r))
    BY DEF ReadPart
  <1>11. b.write # b.acquire => b.write \in Heads(s, b) /\ b.write \in Heads(s, c) /\ r <= Far(s, b, b.write)
    <2> SUFFICES ASSUME b.write # b.acquire
                 PROVE  b.write \in Heads(s, b) /\ b.write \in Heads(s, c) /\ r <= Far(s, b, b.write)
      OBVIOUS
    <2>1. b.write \in Heads(s, b) /\ r <= Far(s, b, b.write)
      BY <1>10 DEF WriteInv, NotPast
    <2>2. Far(s, b, b.write) >= d
      BY <1>2, <1>4, <2>1
    <2> QED BY <1>3, <2>1, <2>2
  <1>14. WriteInv(s, c, A)
    <2>1. c.write \in Heads(s, c) \cup {c.acquire}
      BY <1>1, <1>11
    <2>2. A \subseteq Entries(s, c)
      <3> SUFFICES ASSUME NEW p \in A PROVE p \in Entries(s, c)
        OBVIOUS
      <3>1. p \in Entries(s, b) /\ p \in Heads(s, b)
        BY DEF WriteInv, Entries
      <3>2. ~(Far(s, b, p) < r)
        BY <3>1 DEF EntryInv
      <3>3. Far(s, b, p) >= d
        BY <1>2, <1>4, <3>1, <3>2
      <3> QED BY <1>6, <3>1, <3>3
    <2>3. c.write # c.acquire => First(c, c.write) \in A
      BY <1>1, <1>5, <1>11 DEF WriteInv, First
    <2> QED BY <2>1, <2>2, <2>3 DEF WriteInv
  <1>15. Pointer(s, c, c.read, r - d)
    <2>1. CASE r = Used(s, b) /\ b.read = b.acquire
      BY <1>1, <1>2, <2>1 DEF Pointer
    <2>2. CASE b.read \in Heads(s, b) /\ r = Far(s, b, b.read)
      <3>1. b.read \in Heads(s, c)
        BY <1>2, <1>3, <2>2
      <3> QED BY <1>1, <1>5, <2>2, <3>1 DEF Pointer
    <2> QED BY <1>10, <2>1, <2>2 DEF Pointer
  <1>16. WaitingItems(s, c, A, r - d) = WaitingItems(s, b, A, r)
    <2>1. \A p : p \in Entries(s, c) /\ Far(s, c, p) >= r - d <=> p \in Entries(s, b) /\ Far(s, b, p) >= r
      <3> TAKE p
      <3>1. CASE p \in Entries(s, c)
        BY <1>2, <1>8, <3>1
      <3>2. CASE p \notin Entries(s, c)
        <4>1. p \in Entries(s, b) => ~(Far(s, b, p) >= d) /\ Far(s, b, p) \in Int
          BY <1>4, <1>6, <3>2 DEF Entries
        <4> QED BY <1>2, <3>2, <4>1
      <3> QED BY <3>1, <3>2
    <2> QED BY <2>1 DEF WaitingItems
  <1>17. ReadPart(s, c, A, r - d)
    <2>1. NotPast(s, c, r - d)
      <3> SUFFICES ASSUME b.write # b.acquire PROVE r - d <= Far(s, c, b.write)
        BY <1>1 DEF NotPast
      <3>1. b.write \in Heads(s, b) /\ Far(s, c, b.write) = Far(s, b, b.write) - d /\ r <= Far(s, b, b.write)
        BY <1>5, <1>11
      <3> QED BY <1>2, <1>4, <3>1
    <2> QED BY <1>1, <1>10, <1>15, <1>16, <2>1 DEF ReadPart
  <1>18. ReceivedItems(s, c, r - d) = ReceivedItems(s, b, r)
    <2>1. \A p : p \in Entries(s, c) /\ ~c.mem[p].freed /\ Far(s, c, p) < r - d
                 <=> p \in Entries(s, b) /\ ~b.mem[p].freed /\ Far(s, b, p) < r
      <3> TAKE p
      <3>1. CASE p \in Entries(s, c)
        BY <1>2, <1>8, <3>1
      <3>2. CASE p \notin Entries(s, c)
        <4>1. p \in Entries(s, b) => ~(Far(s, b, p) >= d) /\ Far(s, b, p) \in Int
          BY <1>4, <1>6, <3>2 DEF Entries
        <4>2. p \in Entries(s, b) => b.mem[p].freed
          BY <1>2, <4>1
        <4> QED BY <3>2, <4>2
      <3> QED BY <3>1, <3>2
    <2> QED BY <2>1 DEF ReceivedItems
  <1>19. r - d \in 0 .. s
    <2>1. r \in 0 .. Used(s, b) /\ Used(s, b) <= s /\ s \in Int
      BY <1>10, PointerRange, FarRange
    <2> QED BY <1>2, <2>1
  <1> QED BY <1>7, <1>9, <1>14, <1>17, <1>18, <1>19

WithFree(b, f, g) == [b EXCEPT !.free = f, !.full = g]

(* The fields that prvReturnItemDefault sets.                                *)
LEMMA SetFree ==
  ASSUME NEW b, Shape(b), NEW f, NEW g, NEW c, c = WithFree(b, f, g)
  PROVE  /\ Shape(c) /\ c.free = f /\ c.full = g /\ c.mem = b.mem /\ c.acquire = b.acquire
         /\ c.waiting = b.waiting /\ c.write = b.write /\ c.read = b.read
  BY DEF Shape, Fields, WithFree

(* A buffer is given by its fields.                                          *)
LEMMA ShapeEqual ==
  ASSUME NEW b, NEW c, Shape(b), Shape(c), c.mem = b.mem, c.acquire = b.acquire, c.full = b.full,
         c.waiting = b.waiting, c.write = b.write, c.read = b.read, c.free = b.free
  PROVE  c = b
  <1>1. \A x \in Fields : c[x] = b[x]
    BY DEF Fields
  <1>2. [x \in Fields |-> c[x]] = [x \in Fields |-> b[x]]
    BY <1>1
  <1> QED BY <1>2 DEF Shape

(* What is given back.                                                       *)
LEMMA GivenBack ==
  ASSUME config \in Configs, NEW s, s = config.size, NEW f \in 0 .. s - 1, NEW m \in [0 .. s - 1 -> Cells],
         NEW n, NEW m2, m2 = GiveBack(m, f, n)
  PROVE  /\ m2 \in [0 .. s - 1 -> Cells]
         /\ \A o \in 0 .. s - 1 : m2[o] = IF Dist(s, f, o) < n THEN Junk ELSE m[o]
  <1>1. s \in Int /\ s > 0
    BY ConfigFacts, Sizes
  <1>2. m2 = [o \in 0 .. s - 1 |-> IF (o - f) % s < n THEN Junk ELSE m[o]]
    BY DEF GiveBack, Offsets
  <1>3. Junk \in Cells
    BY DEF Cells
  <1>4. m2 \in [0 .. s - 1 -> Cells]
    BY <1>2, <1>3
  <1>5. ASSUME NEW o \in 0 .. s - 1 PROVE m2[o] = IF Dist(s, f, o) < n THEN Junk ELSE m[o]
    <2>1. (o - f) % s = Dist(s, f, o)
      BY <1>1, Round
    <2>2. m2[o] = IF (o - f) % s < n THEN Junk ELSE m[o]
      BY <1>2
    <2> QED BY <2>1, <2>2
  <1> QED BY <1>4, <1>5

(* Where the loop of prvReturnItemDefault leaves pucFree.                    *)
FreeAt(b) == PastFreed(b, b.free, b.read)

(* c is b with pucFree at f, and what is before it given back.               *)
Returned(s, b, c, f) ==
  /\ Shape(c) /\ c.free = f /\ c.acquire = b.acquire /\ c.read = b.read /\ c.write = b.write
  /\ c.waiting = b.waiting
  /\ c.full \in BOOLEAN /\ (c.full <=> b.full /\ f = b.acquire /\ f # b.read)
  /\ c.mem \in [0 .. s - 1 -> Items \cup {Junk} \cup HeaderRec]
  /\ \A o \in 0 .. s - 1 : c.mem[o] = IF Far(s, b, o) < Used(s, b) - Used(s, c) THEN Junk ELSE b.mem[o]

(* The buffer after prvReturnItemDefault, field by field.                    *)
LEMMA ReturnFields ==
  ASSUME config \in Configs, NEW s, s = config.size, NEW b, Shape(b), Layout(s, b), NEW p \in Heads(s, b),
         NEW b1, b1 = WithMem(b, FreedMem(b, p)), NEW f, f = FreeAt(b1), f \in 0 .. s - 1,
         NEW c, c = ReturnItemDefault(b, p)
  PROVE  Returned(s, b1, c, f)
  <1>1. Sz(s)
    BY ConfigFacts
  <1>2. Marked(s, b, b1, p)
    BY <1>1, FreedMarked
  <1>3. Shape(b1) /\ SameHeads(s, b, b1) /\ b1.read = b.read
    BY <1>2 DEF Marked
  <1>4. Layout(s, b1) /\ Used(s, b1) = Used(s, b) /\ b1.full = b.full /\ b1.acquire = b.acquire /\ b1.free = b.free
    BY <1>1, <1>3, SameLayout DEF SameHeads
  <1>5. PICK g : g = StillFull(b, f)
    OBVIOUS
  <1>6. g \in BOOLEAN /\ (g <=> b1.full /\ f = b1.acquire /\ f # b1.read)
    <2>1. b.full \in BOOLEAN
      BY <1>1, PointerFacts
    <2> QED BY <1>3, <1>4, <1>5, <2>1 DEF StillFull
  <1>7. PICK b2 : b2 = WithFree(b1, f, g)
    OBVIOUS
  <1>8. /\ Shape(b2) /\ b2.free = f /\ b2.full = g /\ b2.mem = b1.mem /\ b2.acquire = b1.acquire
        /\ b2.waiting = b1.waiting /\ b2.write = b1.write /\ b2.read = b1.read
    BY <1>3, <1>7, SetFree
  <1>9. PICK n, m : n = GetFreeSize(b2) - GetFreeSize(b) /\ m = GiveBack(b1.mem, b.free, n)
    OBVIOUS
  <1>10. c = WithMem(b2, m)
    <2>1. b1 = [b EXCEPT !.mem[p] = [HeaderAt(b, p) EXCEPT !.split = FALSE, !.freed = TRUE]]
      BY DEF WithMem, FreedMem
    <2>2. f = FreePointer(b1)
      BY DEF FreeAt, PastFreed, FreePointer
    <2>3. b2 = [b1 EXCEPT !.free = f, !.full = StillFull(b, f)]
      BY <1>5, <1>7 DEF WithFree
    <2> QED BY <1>9, <2>1, <2>2, <2>3 DEF ReturnItemDefault, WithMem
  <1>11. /\ Shape(c) /\ c.mem = m /\ c.acquire = b2.acquire /\ c.full = b2.full /\ c.waiting = b2.waiting
         /\ c.write = b2.write /\ c.read = b2.read /\ c.free = b2.free
    BY <1>8, <1>10, SetMem
  <1>12. b.free \in 0 .. s - 1 /\ b.acquire \in 0 .. s - 1 /\ b.full \in BOOLEAN /\ s \in Int
    BY <1>1, PointerFacts, Sizes
  <1>13. GetFreeSize(b) = s - Used(s, b)
    BY <1>12, FreeSizeIs
  <1>14. GetFreeSize(b2) = s - Used(s, b2)
    BY <1>4, <1>6, <1>8, <1>12, FreeSizeIs
  <1>15. Used(s, c) = Used(s, b2)
    BY <1>11 DEF Used, Far
  <1>16. Used(s, b2) \in Int /\ Used(s, b) \in Int
    <2>1. Used(s, b2) = IF g THEN s ELSE Dist(s, f, b.acquire)
      BY <1>4, <1>6, <1>8 DEF Used, Far
    <2>2. Dist(s, f, b.acquire) \in Int
      BY <1>12 DEF Dist
    <2> QED BY <1>1, <1>12, <2>1, <2>2, FarRange
  <1>17. n = Used(s, b1) - Used(s, c)
    BY <1>4, <1>9, <1>12, <1>13, <1>14, <1>15, <1>16
  <1>18. b1.mem \in [0 .. s - 1 -> Cells]
    BY <1>4 DEF Layout, Cells
  <1>19. /\ m \in [0 .. s - 1 -> Cells]
         /\ \A o \in 0 .. s - 1 : m[o] = IF Dist(s, b.free, o) < n THEN Junk ELSE b1.mem[o]
    BY <1>9, <1>12, <1>18, GivenBack
  <1>20. /\ c.mem \in [0 .. s - 1 -> Items \cup {Junk} \cup HeaderRec]
         /\ \A o \in 0 .. s - 1 : c.mem[o] = IF Far(s, b1, o) < Used(s, b1) - Used(s, c) THEN Junk ELSE b1.mem[o]
    BY <1>4, <1>11, <1>17, <1>19 DEF Far, Cells
  <1> QED BY <1>6, <1>8, <1>11, <1>20 DEF Returned

(* pucFree stops at the first item that was not returned, or at pucRead.     *)
LEMMA FreeAtEnd ==
  ASSUME config \in Configs, NEW s, s = config.size, NEW b, Layout(s, b), NEW r \in Int,
         Pointer(s, b, b.read, r), r > 0, NEW f, f = FreeAt(b)
  PROVE  /\ f \in 0 .. s - 1
         /\ b.read = b.free => f = b.free
         /\ b.read # b.free =>
              \E d \in Int : /\ Pointer(s, b, f, d) /\ 0 <= d /\ d <= r
                             /\ (f = b.read /\ d = r) \/ (f \in Heads(s, b) /\ f \notin FreedAt(s, b) /\ d = Far(s, b, f))
                             /\ \A v \in Heads(s, b) : Far(s, b, v) < d => v \in FreedAt(s, b)
                             /\ d > 0 => f # b.free
                             /\ d = 0 => f = b.free
  <1>1. Sz(s)
    BY ConfigFacts
  <1>2. PICK g : Walk(s, b, g, b.read, FreedAt(s, b)) /\ PastFreed(b, b.free, b.read) = g[s][b.free]
    BY SkipFreed
  <1>3. f = g[s][b.free]
    BY <1>2 DEF FreeAt
  <1>4. b.free \in 0 .. s - 1 /\ s \in Nat
    BY <1>1, PointerFacts, Sizes
  <1>5. b.free \in Heads(s, b) /\ b.read \in 0 .. s - 1 /\ r <= Used(s, b)
    <2>1. r \in 0 .. Used(s, b) /\ b.read \in 0 .. s - 1 /\ b.free \in Heads(s, b)
      BY <1>1, PointerRange
    <2> QED BY <1>1, <2>1, FarRange
  <1>6. CASE b.read = b.free
    <2>1. g[s][b.free] = b.free
      BY <1>2, <1>4, <1>6 DEF Walk
    <2> QED BY <1>3, <1>4, <1>6, <2>1
  <1>7. CASE b.read # b.free
    <2>1. Far(s, b, b.free) = 0
      BY <1>1, <1>5, HeadFacts
    <2>2. Far(s, b, b.free) <= r /\ r - Far(s, b, b.free) <= s
      BY <1>1, <1>5, <2>1, FarRange
    <2>3. WalkEnd(s, b, FreedAt(s, b), b.read, r, b.free, f)
      BY <1>2, <1>3, <1>4, <1>5, <2>2, WalkEnds
    <2>4. PICK d \in Int :
            /\ Pointer(s, b, f, d) /\ Far(s, b, b.free) <= d /\ d <= r
            /\ f = b.read \/ (f \in Heads(s, b) /\ f \notin FreedAt(s, b) /\ d = Far(s, b, f))
            /\ \A v \in Heads(s, b) : Far(s, b, b.free) <= Far(s, b, v) /\ Far(s, b, v) < d => v \in FreedAt(s, b)
      BY <2>3 DEF WalkEnd
    <2>5. f = b.read => d = r
      <3>1. r = Far(s, b, b.read)
        BY <1>1, <1>7, PointerFar
      <3>2. f = b.read => d = Far(s, b, f)
        BY <1>1, <1>7, <2>4, PointerFar
      <3> QED BY <3>1, <3>2
    <2>6. \A v \in Heads(s, b) : Far(s, b, v) < d => v \in FreedAt(s, b)
      BY <1>1, <2>1, <2>4, FarRange
    <2>7. d > 0 => f # b.free
      <3> SUFFICES ASSUME d > 0, f = b.free PROVE FALSE
        OBVIOUS
      <3>1. f # b.read
        BY <1>7
      <3> QED BY <2>1, <2>4, <3>1
    <2>8. d = 0 => f = b.free
      <3> SUFFICES ASSUME d = 0 PROVE f = b.free
        OBVIOUS
      <3>1. f # b.read
        BY <2>5
      <3>2. f \in Heads(s, b) /\ Far(s, b, f) = 0
        BY <2>4, <3>1
      <3> QED BY <1>1, <3>2, HeadFacts
    <2>9. f \in 0 .. s - 1
      BY <1>1, <2>4, PointerRange
    <2>10. 0 <= d
      BY <2>1, <2>4
    <2> QED BY <1>7, <2>4, <2>5, <2>6, <2>7, <2>8, <2>9, <2>10
  <1> QED BY <1>6, <1>7

(* What the receivers hold when pucRead is at distance r.                   *)
HeldSet(s, b, r) == {HeldAt(b, p) : p \in ReceivedItems(s, b, r)}

(* The items held are finitely many, each at the header it names.            *)
LEMMA HeldFinite ==
  ASSUME NEW s, Sz(s), NEW b, NEW r, NEW h, h = HeldSet(s, b, r)
  PROVE  /\ IsFiniteSet(h) /\ Cardinality(h) \in Nat
         /\ \A x \in h : x.at \in ReceivedItems(s, b, r) /\ x = HeldAt(b, x.at)
  <1>1. PICK R : R = ReceivedItems(s, b, r)
    OBVIOUS
  <1>2. IsFiniteSet(R)
    <2>1. R \subseteq 0 .. s - 1
      BY <1>1 DEF ReceivedItems, Entries, Heads
    <2>2. IsFiniteSet(0 .. s - 1)
      BY FS_Interval, Sizes
    <2> QED BY <2>1, <2>2, FS_Subset
  <1>3. PICK f : f = [p \in R |-> HeldAt(b, p)]
    OBVIOUS
  <1>4. f \in Surjection(R, h)
    BY <1>1, <1>3 DEF Surjection, HeldSet
  <1>5. IsFiniteSet(h)
    BY <1>2, <1>4, FS_Surjection
  <1>6. \A x \in h : x.at \in R /\ x = HeldAt(b, x.at)
    <2> TAKE x \in h
    <2>1. PICK p \in R : x = HeldAt(b, p)
      BY <1>1 DEF HeldSet
    <2>2. x.at = p
      BY <2>1 DEF HeldAt
    <2> QED BY <2>1, <2>2
  <1> QED BY <1>1, <1>5, <1>6, FS_CardinalityType

(* When the item at p is no longer held.                                     *)
LEMMA HeldLess ==
  ASSUME NEW s, NEW b, NEW c, NEW r, NEW e, NEW p \in ReceivedItems(s, b, r),
         NEW h, h = HeldSet(s, b, r),
         ReceivedItems(s, c, e) = ReceivedItems(s, b, r) \ {p},
         \A q \in ReceivedItems(s, c, e) : HeldAt(c, q) = HeldAt(b, q)
  PROVE  h \ {HeldAt(b, p)} = HeldSet(s, c, e)
  <1>1. PICK R, T : R = ReceivedItems(s, b, r) /\ T = ReceivedItems(s, c, e)
    OBVIOUS
  <1>2. \A q, v : HeldAt(b, q) = HeldAt(b, v) => q = v
    BY DEF HeldAt
  <1>3. T = R \ {p} /\ \A q \in T : HeldAt(c, q) = HeldAt(b, q)
    BY <1>1
  <1>4. {HeldAt(c, q) : q \in T} = {HeldAt(b, q) : q \in T}
    BY <1>3
  <1>5. h \ {HeldAt(b, p)} = {HeldAt(b, q) : q \in R \ {p}}
    BY <1>1, <1>2 DEF HeldSet
  <1> QED BY <1>1, <1>3, <1>4, <1>5 DEF HeldSet

(* A full buffer whose items were all received is emptied.                   *)
LEMMA ReturnEmptied ==
  ASSUME config \in Configs, NEW s, s = config.size, NEW b, NEW q, NEW h, StateInv(config, b, q, h),
         NEW r \in 0 .. s, BufInv(s, b, RangeOf(q), h, r), r > 0, b.read = b.free,
         NEW x \in h, NEW p, p = x.at, NEW c, c = ReturnItemDefault(b, p)
  PROVE  h = {x} /\ StateInv(config, c, q, {}) /\ q = <<>> /\ Heads(s, c) = {}
  <1>1. /\ Sz(s) /\ Shape(b) /\ Layout(s, b) /\ WrapInv(s, b) /\ q \in Seq(0 .. s - 1)
        /\ SendingInv(s, b, q) /\ UseInv(config, b, q, h)
    BY StateFacts
  <1>2. EntryInv(s, b, RangeOf(q), r) /\ WriteInv(s, b, RangeOf(q)) /\ ReadInv(s, b, RangeOf(q), r)
        /\ h = HeldSet(s, b, r)
    BY DEF BufInv, HeldSet
  <1>3. r \in Int /\ s \in Int
    BY <1>1, Sizes
  <1>4. Pointer(s, b, b.read, r) /\ b.waiting = Cardinality(WaitingItems(s, b, RangeOf(q), r))
    BY <1>2 DEF ReadInv
  <1>5. r = Used(s, b) /\ b.read = b.acquire
    <2>1. ~(b.read \in Heads(s, b) /\ r = Far(s, b, b.read))
      <3> SUFFICES ASSUME b.read \in Heads(s, b), r = Far(s, b, b.read) PROVE FALSE
        OBVIOUS
      <3>1. Far(s, b, b.read) = 0
        BY <1>1, HeadFacts
      <3> QED BY <3>1
    <2> QED BY <1>4, <2>1 DEF Pointer
  <1>6. b.full /\ Used(s, b) = s
    <2>1. b.full \in BOOLEAN /\ b.free \in 0 .. s - 1
      BY <1>1, PointerFacts
    <2>2. ~b.full => Used(s, b) = 0
      BY <1>3, <1>5, <2>1 DEF Used, Far, Dist
    <2> QED BY <1>1, <1>5, <2>1, <2>2, PointerFacts
  <1>7. h = {x}
    <2>2. Cardinality(h) <= 1
      BY <1>1, <1>5, <1>6 DEF UseInv
    <2>3. IsFiniteSet(h) /\ Cardinality(h) \in Nat
      BY <1>1, <1>2, HeldFinite
    <2>4. Cardinality(h) # 0
      BY <2>3, FS_EmptySet
    <2>5. Cardinality(h) = 1
      BY <2>2, <2>3, <2>4
    <2>6. PICK y : h = {y}
      BY <2>3, <2>5, FS_Singleton
    <2> QED BY <2>6
  <1>8. \A v \in Entries(s, b) : Far(s, b, v) < r /\ Far(s, b, v) \in Int
    BY <1>1, <1>5, FarRange DEF Entries
  <1>9. RangeOf(q) = {} /\ q = <<>>
    <2>1. RangeOf(q) = {}
      BY <1>2, <1>8 DEF WriteInv, EntryInv
    <2>2. Len(q) = 0
      <3>1. Len(q) \in Nat
        BY <1>1
      <3>2. Len(q) > 0 => q[1] \in RangeOf(q)
        BY <3>1 DEF RangeOf
      <3> QED BY <2>1, <3>1, <3>2
    <2> QED BY <1>1, <2>1, <2>2
  <1>10. WaitingItems(s, b, RangeOf(q), r) = {}
    BY <1>3, <1>8 DEF WaitingItems
  <1>11. b.waiting = 0
    BY <1>4, <1>10, FS_EmptySet
  <1>12. b.write = b.acquire
    BY <1>2, <1>9 DEF WriteInv
  <1>13. p = x.at
    OBVIOUS
  <1>14. p \in ReceivedItems(s, b, r)
    BY <1>1, <1>2, <1>13, HeldFinite
  <1>15. p \in Heads(s, b)
    BY <1>14 DEF ReceivedItems, Entries
  <1>16. PICK b1, f : b1 = WithMem(b, FreedMem(b, p)) /\ f = FreeAt(b1)
    OBVIOUS
  <1>17. Marked(s, b, b1, p)
    BY <1>1, <1>15, <1>16, FreedMarked
  <1>18. SameHeads(s, b, b1) /\ b1.read = b.read /\ b1.write = b.write /\ b1.waiting = b.waiting
    BY <1>17 DEF Marked
  <1>19. Layout(s, b1) /\ Used(s, b1) = Used(s, b) /\ b1.full = b.full /\ b1.acquire = b.acquire /\ b1.free = b.free
    BY <1>1, <1>18, SameLayout DEF SameHeads
  <1>20. Pointer(s, b1, b1.read, r)
    BY <1>1, <1>4, <1>18, SamePointers
  <1>21. f = b.free /\ f \in 0 .. s - 1
    BY <1>3, <1>16, <1>18, <1>19, <1>20, FreeAtEnd
  <1>22. /\ Shape(c) /\ c.free = f /\ c.acquire = b1.acquire /\ c.read = b1.read /\ c.write = b1.write
         /\ c.waiting = b1.waiting
         /\ c.full \in BOOLEAN /\ (c.full <=> b1.full /\ f = b1.acquire /\ f # b1.read)
         /\ c.mem \in [0 .. s - 1 -> Items \cup {Junk} \cup HeaderRec]
         /\ \A o \in 0 .. s - 1 : c.mem[o] = IF Far(s, b1, o) < Used(s, b1) - Used(s, c) THEN Junk ELSE b1.mem[o]
    <2>1. Returned(s, b1, c, f)
      BY <1>1, <1>13, <1>15, <1>16, <1>21, ReturnFields
    <2> QED BY <2>1 DEF Returned
  <1>23. ~c.full /\ c.free = b.free /\ c.acquire = b.free /\ c.read = b.free /\ c.write = b.free /\ c.waiting = 0
    BY <1>5, <1>11, <1>12, <1>18, <1>19, <1>21, <1>22
  <1>24. Used(s, c) = 0
    BY <1>3, <1>21, <1>23 DEF Used, Far, Dist
  <1>25. \A o \in 0 .. s - 1 : c.mem[o] = Junk
    <2> TAKE o \in 0 .. s - 1
    <2>1. Far(s, b1, o) < s
      BY <1>3, <1>19, <1>21 DEF Far, Dist
    <2> QED BY <1>3, <1>6, <1>19, <1>22, <1>24, <2>1
  <1>26. Heads(s, c) = {} /\ Entries(s, c) = {}
    BY <1>25 DEF Heads, HasHeader, Entries
  <1>27. Layout(s, c)
    <2>1. b.free \in Places(s)
      BY <1>1 DEF Layout
    <2> QED BY <1>22, <1>23, <1>26, <2>1 DEF Layout
  <1>28. WrapInv(s, c)
    BY <1>26 DEF WrapInv
  <1>29. WriteInv(s, c, {})
    BY <1>23, <1>26 DEF WriteInv
  <1>30. EntryInv(s, c, {}, 0)
    BY <1>26 DEF EntryInv
  <1>31. ReadInv(s, c, {}, 0)
    <2>1. Pointer(s, c, c.read, 0)
      BY <1>23, <1>24 DEF Pointer
    <2>2. WaitingItems(s, c, {}, 0) = {}
      BY <1>26 DEF WaitingItems
    <2> QED BY <1>23, <2>1, <2>2, FS_EmptySet DEF ReadInv, NotPast
  <1>32. {} = {HeldAt(c, v) : v \in ReceivedItems(s, c, 0)}
    BY <1>7, <1>26 DEF ReceivedItems
  <1>33. BufInv(s, c, RangeOf(q), {}, 0) /\ 0 \in 0 .. s
    <2>1. RangeOf(q) = {} /\ 0 \in 0 .. s
      BY <1>1, <1>9, Sizes
    <2> QED BY <1>29, <1>30, <1>31, <1>32, <2>1 DEF BufInv
  <1>34. SendingInv(s, c, q)
    BY <1>9 DEF SendingInv
  <1>35. UseInv(config, c, q, {})
    <2>1. Cardinality({}) = 0
      BY <1>7, FS_EmptySet
    <2>2. OrderInv(s, c, RangeOf(q))
      BY <1>9 DEF OrderInv
    <2> QED BY <1>9, <1>23, <1>26, <2>1, <2>2 DEF UseInv
  <1>36. StateInv(config, c, q, {})
    BY <1>1, <1>22, <1>27, <1>28, <1>33, <1>34, <1>35 DEF StateInv
  <1> QED BY <1>7, <1>9, <1>26, <1>36

(* What of an item survives the return of another.                           *)
Kept(s, b, c, p) == c.mem[p].written = b.mem[p].written /\ HeldAt(c, p) = HeldAt(b, p)

(* pucFree is where it was.                                                  *)
LEMMA ReturnStays ==
  ASSUME NEW s, Sz(s), NEW b, Shape(b), Layout(s, b), NEW c, NEW f, f = b.free, b.read # b.free, Returned(s, b, c, f)
  PROVE  c = b
  <1>1. /\ Shape(c) /\ c.free = b.free /\ c.acquire = b.acquire /\ c.read = b.read /\ c.write = b.write
        /\ c.waiting = b.waiting
        /\ c.full \in BOOLEAN /\ (c.full <=> b.full /\ b.free = b.acquire /\ b.free # b.read)
        /\ c.mem \in [0 .. s - 1 -> Cells]
        /\ \A o \in 0 .. s - 1 : c.mem[o] = IF Far(s, b, o) < Used(s, b) - Used(s, c) THEN Junk ELSE b.mem[o]
    BY DEF Returned, Cells
  <1>2. b.full \in BOOLEAN /\ (b.full => b.free = b.acquire) /\ b.free \in 0 .. s - 1 /\ s \in Int
    BY PointerFacts, Sizes
  <1>3. c.full = b.full
    BY <1>1, <1>2
  <1>4. Used(s, c) = Used(s, b) /\ Used(s, b) \in Int
    BY <1>1, <1>3, FarRange DEF Used, Far
  <1>5. \A o \in 0 .. s - 1 : c.mem[o] = b.mem[o]
    <2> TAKE o \in 0 .. s - 1
    <2>1. Far(s, b, o) \in Int /\ Far(s, b, o) >= 0
      BY <1>2 DEF Far, Dist
    <2>2. ~(Far(s, b, o) < Used(s, b) - Used(s, c))
      BY <1>4, <2>1
    <2> QED BY <1>1, <2>2
  <1>6. b.mem \in [0 .. s - 1 -> Cells]
    BY DEF Layout, Cells
  <1>7. c.mem = b.mem
    <2>1. PICK X : X = 0 .. s - 1
      OBVIOUS
    <2>2. c.mem \in [X -> Cells] /\ b.mem \in [X -> Cells] /\ \A o \in X : c.mem[o] = b.mem[o]
      BY <1>1, <1>5, <1>6, <2>1
    <2> QED BY <2>2
  <1> QED BY <1>1, <1>3, <1>7, ShapeEqual

(* pucFree went on.                                                          *)
LEMMA ReturnPops ==
  ASSUME NEW s, Sz(s), NEW b, Layout(s, b), NEW c, NEW f, NEW d \in Int, Pointer(s, b, f, d), 0 < d, f # b.free,
         Returned(s, b, c, f)
  PROVE  Popped(s, b, c, f, d)
  <1>1. ~c.full
    <2>1. b.full => b.free = b.acquire
      BY PointerFacts
    <2> QED BY <2>1 DEF Returned
  <1>2. Moved(s, b, c, f, d)
    BY <1>1 DEF Moved, Returned
  <1>3. Used(s, c) = Used(s, b) - d /\ Used(s, b) \in Int
    BY <1>2, PoppedFar, FarRange
  <1>4. Used(s, b) - Used(s, c) = d
    BY <1>3
  <1> QED BY <1>1, <1>2, <1>4 DEF Popped, Returned

(* What is left is nearer by d, and what is gone was returned.               *)
Nearer(s, b, c, p, d) ==
  /\ d \in Int /\ 0 <= d /\ \A v \in Heads(s, c) : Far(s, c, v) = Far(s, b, v) - d
  /\ \A v \in Entries(s, b) \ Entries(s, c) : v = p \/ b.mem[v].freed
  /\ \A v \in Entries(s, c) : c.mem[v].freed <=> b.mem[v].freed \/ v = p

ReturnMoved(s, b, A, h, r, p, c) ==
  /\ Shape(c) /\ Layout(s, c) /\ WrapInv(s, c) /\ (c.full \in BOOLEAN /\ (c.full => c.read # c.acquire))
  /\ c.acquire = b.acquire /\ c.write = b.write
  /\ Entries(s, c) \subseteq Entries(s, b)
  /\ \A v \in Entries(s, c) : Kept(s, b, c, v)
  /\ \E d : Nearer(s, b, c, p, d) /\ r - d \in 0 .. s /\ BufInv(s, c, A, h \ {HeldAt(b, p)}, r - d)

(* vRingbufferReturnItem, when something is left.                            *)
LEMMA ReturnMoves ==
  ASSUME config \in Configs, NEW s, s = config.size, NEW b, NEW q, NEW h, StateInv(config, b, q, h),
         NEW r \in 0 .. s, BufInv(s, b, RangeOf(q), h, r), r > 0, b.read # b.free,
         NEW p \in ReceivedItems(s, b, r), NEW c, c = ReturnItemDefault(b, p)
  PROVE  ReturnMoved(s, b, RangeOf(q), h, r, p, c)
  <1>1. /\ Sz(s) /\ Shape(b) /\ Layout(s, b) /\ WrapInv(s, b)
    BY StateFacts
  <1>2. EntryInv(s, b, RangeOf(q), r) /\ WriteInv(s, b, RangeOf(q)) /\ ReadInv(s, b, RangeOf(q), r)
        /\ h = {HeldAt(b, v) : v \in ReceivedItems(s, b, r)}
    BY DEF BufInv
  <1>3. r \in Int /\ s \in Int
    BY <1>1, Sizes
  <1>4. ReadPart(s, b, RangeOf(q), r)
    BY <1>2 DEF ReadInv, ReadPart
  <1>5. p \in Entries(s, b) /\ p \in Heads(s, b) /\ Far(s, b, p) < r
    BY DEF ReceivedItems, Entries
  <1>6. PICK b1, f, A : b1 = WithMem(b, FreedMem(b, p)) /\ f = FreeAt(b1) /\ A = RangeOf(q)
    OBVIOUS
  <1>7. Marked(s, b, b1, p)
    BY <1>1, <1>5, <1>6, FreedMarked
  <1>8. /\ Layout(s, b1) /\ WrapInv(s, b1) /\ EntryInv(s, b1, A, r) /\ WriteInv(s, b1, A) /\ ReadPart(s, b1, A, r)
        /\ ReceivedItems(s, b1, r) = ReceivedItems(s, b, r) \ {p}
    BY <1>1, <1>2, <1>3, <1>4, <1>5, <1>6, <1>7, MarkedInv
  <1>9. SameHeads(s, b, b1) /\ Shape(b1) /\ b1.read = b.read /\ b1.write = b.write
    BY <1>7 DEF Marked
  <1>10. /\ b1.free = b.free /\ b1.acquire = b.acquire /\ b1.full = b.full /\ Heads(s, b1) = Heads(s, b)
         /\ Entries(s, b1) = Entries(s, b) /\ \A x : Far(s, b1, x) = Far(s, b, x)
    BY <1>1, <1>9, SameLayout DEF SameHeads
  <1>11. \A v \in Heads(s, b) : Kept(s, b, b1, v) /\ (b1.mem[v].freed <=> b.mem[v].freed \/ v = p)
    <2> TAKE v \in Heads(s, b)
    <2>1. HeldAt(b1, v) = HeldAt(b, v)
      BY <1>1, <1>9, SamePointers
    <2>2. v \in 0 .. s - 1
      BY DEF Heads
    <2> QED BY <1>7, <2>1, <2>2 DEF Marked, Kept
  <1>12. Pointer(s, b1, b1.read, r)
    BY <1>8 DEF ReadPart
  <1>13. /\ f \in 0 .. s - 1
         /\ \E d \in Int : /\ Pointer(s, b1, f, d) /\ 0 <= d /\ d <= r
                           /\ (f = b1.read /\ d = r) \/ (f \in Heads(s, b1) /\ f \notin FreedAt(s, b1) /\ d = Far(s, b1, f))
                           /\ \A v \in Heads(s, b1) : Far(s, b1, v) < d => v \in FreedAt(s, b1)
                           /\ d > 0 => f # b1.free
                           /\ d = 0 => f = b1.free
    <2>1. b1.read # b1.free
      BY <1>9, <1>10
    <2> QED BY <1>3, <1>6, <1>8, <1>12, <2>1, FreeAtEnd
  <1>14. PICK d \in Int : /\ Pointer(s, b1, f, d) /\ 0 <= d /\ d <= r
                          /\ (f = b1.read /\ d = r) \/ (f \in Heads(s, b1) /\ f \notin FreedAt(s, b1) /\ d = Far(s, b1, f))
                          /\ \A v \in Heads(s, b1) : Far(s, b1, v) < d => v \in FreedAt(s, b1)
                          /\ d > 0 => f # b1.free
                          /\ d = 0 => f = b1.free
    BY <1>13
  <1>15. Returned(s, b1, c, f)
    BY <1>1, <1>5, <1>6, <1>13, ReturnFields
  <1>16. \A v \in Heads(s, b1) : v \in 0 .. s - 1 /\ HeaderAt(b1, v) = b1.mem[v]
    BY <1>1, <1>8, HeadFacts
  <1>17. f \notin FreedAt(s, b1) /\ f \in Heads(s, b1) => ~b1.mem[f].freed /\ ~b1.mem[f].dummy
    BY <1>16 DEF FreedAt
  <1>18. \A v \in Entries(s, b1) : Far(s, b1, v) < d => b1.mem[v].freed
    BY <1>14, <1>16 DEF FreedAt, Entries
  <1>19. b.full \in BOOLEAN
    BY <1>1, PointerFacts
  <1>20. CASE d = 0
    <2>1. c = b1
      BY <1>1, <1>8, <1>9, <1>10, <1>14, <1>15, <1>20, ReturnStays
    <2>2. f = b1.free /\ f # b1.read
      BY <1>9, <1>10, <1>14, <1>20
    <2>3. ~b1.mem[First(b1, b1.free)].freed
      BY <1>14, <1>17, <2>2 DEF First
    <2>4. ReadInv(s, b1, A, r)
      BY <1>8, <2>3 DEF ReadInv, ReadPart
    <2>5. h \ {HeldAt(b, p)} = {HeldAt(b1, v) : v \in ReceivedItems(s, b1, r)}
      <3>1. \A v \in ReceivedItems(s, b1, r) : HeldAt(b1, v) = HeldAt(b, v)
        BY <1>10, <1>11 DEF ReceivedItems, Entries, Kept
      <3>2. h = HeldSet(s, b, r)
        BY <1>2 DEF HeldSet
      <3>3. h \ {HeldAt(b, p)} = HeldSet(s, b1, r)
        BY <1>8, <3>1, <3>2, HeldLess
      <3> QED BY <3>3 DEF HeldSet
    <2>6. BufInv(s, c, RangeOf(q), h \ {HeldAt(b, p)}, r - 0)
      BY <1>3, <1>6, <1>8, <2>1, <2>4, <2>5 DEF BufInv
    <2>7. \A v \in Heads(s, c) : Far(s, c, v) = Far(s, b, v) - 0
      BY <1>1, <1>10, <2>1, FarRange
    <2>8. \A v \in Entries(s, c) : Kept(s, b, c, v) /\ (c.mem[v].freed <=> b.mem[v].freed \/ v = p)
      BY <1>10, <1>11, <2>1 DEF Entries
    <2>9. r - 0 \in 0 .. s
      BY <1>3
    <2>10. Nearer(s, b, c, p, 0)
      BY <1>10, <2>1, <2>7, <2>8 DEF Nearer
    <2>11. b1.full => b1.read # b1.acquire
      BY <1>8, <1>9, <1>10 DEF Layout
    <2> QED BY <1>8, <1>9, <1>10, <1>19, <2>1, <2>6, <2>8, <2>9, <2>10, <2>11 DEF ReturnMoved
  <1>21. CASE d > 0
    <2>1. Popped(s, b1, c, f, d)
      BY <1>1, <1>8, <1>14, <1>15, <1>21, ReturnPops
    <2>2. Layout(s, c)
      BY <1>1, <1>8, <2>1, PoppedLayout
    <2>3. /\ WrapInv(s, c) /\ EntryInv(s, c, A, r - d) /\ WriteInv(s, c, A) /\ ReadPart(s, c, A, r - d)
          /\ ReceivedItems(s, c, r - d) = ReceivedItems(s, b1, r) /\ r - d \in 0 .. s
      BY <1>1, <1>3, <1>8, <1>14, <1>18, <2>1, PoppedInv
    <2>4. \A v \in Heads(s, c) : v \in Heads(s, b1) /\ c.mem[v] = b1.mem[v] /\ Far(s, c, v) = Far(s, b1, v) - d
      BY <1>1, <1>8, <2>1, PoppedHeads
    <2>5. r - d > 0 => ~c.mem[First(c, c.free)].freed
      <3> SUFFICES ASSUME r - d > 0 PROVE ~c.mem[First(c, c.free)].freed
        OBVIOUS
      <3>1. d # r
        BY <1>3
      <3>2. f \in Heads(s, b1) /\ f \notin FreedAt(s, b1) /\ d = Far(s, b1, f)
        BY <1>14, <3>1
      <3>3. ~b1.mem[f].freed /\ ~b1.mem[f].dummy
        BY <1>17, <3>2
      <3>4. c.free = f
        BY <2>1 DEF Popped
      <3>5. f \in Heads(s, c)
        <4>1. Far(s, b1, f) >= d
          BY <3>2
        <4>2. Heads(s, c) = {v \in Heads(s, b1) : Far(s, b1, v) >= d}
          BY <1>1, <1>8, <2>1, PoppedHeads
        <4> QED BY <3>2, <4>1, <4>2
      <3> QED BY <2>4, <3>3, <3>4, <3>5 DEF First
    <2>6. ReadInv(s, c, A, r - d)
      BY <2>3, <2>5 DEF ReadInv, ReadPart
    <2>7. \A v \in Entries(s, c) : v \in Heads(s, c) /\ v \in Entries(s, b) /\ v \in Heads(s, b)
      BY <1>10, <2>4 DEF Entries
    <2>8. \A v \in Entries(s, c) : Kept(s, b, c, v) /\ (c.mem[v].freed <=> b.mem[v].freed \/ v = p)
      BY <1>11, <2>4, <2>7 DEF Kept, HeldAt
    <2>9. h \ {HeldAt(b, p)} = {HeldAt(c, v) : v \in ReceivedItems(s, c, r - d)}
      <3>1. PICK e : e = r - d
        OBVIOUS
      <3>2. \A v \in ReceivedItems(s, c, e) : HeldAt(c, v) = HeldAt(b, v)
        BY <2>8 DEF ReceivedItems, Kept
      <3>3. ReceivedItems(s, c, e) = ReceivedItems(s, b, r) \ {p}
        BY <1>8, <2>3, <3>1
      <3>4. h = HeldSet(s, b, r)
        BY <1>2 DEF HeldSet
      <3>5. h \ {HeldAt(b, p)} = HeldSet(s, c, e)
        BY <3>2, <3>3, <3>4, HeldLess
      <3> QED BY <3>1, <3>5 DEF HeldSet
    <2>10. BufInv(s, c, RangeOf(q), h \ {HeldAt(b, p)}, r - d)
      BY <1>6, <2>3, <2>6, <2>9 DEF BufInv
    <2>11. \A v \in Heads(s, c) : Far(s, c, v) = Far(s, b, v) - d
      BY <1>10, <2>4
    <2>12. \A v \in Entries(s, b) \ Entries(s, c) : v = p \/ b.mem[v].freed
      <3> TAKE v \in Entries(s, b) \ Entries(s, c)
      <3>1. v \in Entries(s, b1) /\ v \in Heads(s, b1) /\ v \in Heads(s, b) /\ ~b1.mem[v].dummy
        BY <1>10 DEF Entries
      <3>2. v \notin Heads(s, c)
        BY <2>4, <3>1 DEF Entries
      <3>3. Far(s, b1, v) < d
        <4>1. Heads(s, c) = {x \in Heads(s, b1) : Far(s, b1, x) >= d}
          BY <1>1, <1>8, <2>1, PoppedHeads
        <4>2. Far(s, b1, v) \in Int
          BY <1>1, <1>8, <3>1, FarRange
        <4> QED BY <3>1, <3>2, <4>1, <4>2
      <3>4. b1.mem[v].freed
        BY <1>18, <3>1, <3>3
      <3> QED BY <1>11, <3>1, <3>4
    <2>13. Shape(c) /\ ~c.full /\ c.acquire = b.acquire /\ c.write = b.write
      BY <1>9, <1>10, <2>1 DEF Popped
    <2>14. Nearer(s, b, c, p, d)
      BY <1>14, <2>8, <2>11, <2>12 DEF Nearer
    <2>15. c.full \in BOOLEAN /\ (c.full => c.read # c.acquire)
      BY <1>1, <2>2, <2>13, PointerFacts
    <2> QED BY <2>2, <2>3, <2>7, <2>8, <2>10, <2>13, <2>14, <2>15 DEF ReturnMoved
  <1>22. d = 0 \/ d > 0
    BY <1>14
  <1> QED BY <1>20, <1>21, <1>22

(* vRingbufferReturnItem.                                                    *)
LEMMA ReturnInv ==
  ASSUME config \in Configs, NEW b, NEW q, NEW h, StateInv(config, b, q, h),
         NEW x \in h, NEW c, c = ReturnItemDefault(b, x.at)
  PROVE  StateInv(config, c, q, h \ {x})
  <1>1. PICK s, h2 : s = config.size /\ h2 = h \ {x}
    OBVIOUS
  <1>2. /\ Sz(s) /\ Shape(b) /\ Layout(s, b) /\ WrapInv(s, b) /\ q \in Seq(0 .. s - 1)
        /\ SendingInv(s, b, q) /\ UseInv(config, b, q, h)
        /\ \E r \in 0 .. s : BufInv(s, b, RangeOf(q), h, r)
    BY <1>1, StateFacts
  <1>3. PICK r \in 0 .. s : BufInv(s, b, RangeOf(q), h, r)
    BY <1>2
  <1>4. h = {HeldAt(b, p) : p \in ReceivedItems(s, b, r)} /\ WriteInv(s, b, RangeOf(q))
    BY <1>3 DEF BufInv
  <1>5. PICK p : p = x.at
    OBVIOUS
  <1>6. p \in ReceivedItems(s, b, r) /\ x = HeldAt(b, p) /\ IsFiniteSet(h) /\ Cardinality(h) \in Nat
    <2>1. h = HeldSet(s, b, r)
      BY <1>4 DEF HeldSet
    <2>2. IsFiniteSet(h) /\ Cardinality(h) \in Nat /\ \A y \in h : y.at \in ReceivedItems(s, b, r) /\ y = HeldAt(b, y.at)
      BY <1>2, <2>1, HeldFinite
    <2> QED BY <1>5, <2>2
  <1>7. r > 0
    <2>1. p \in Heads(s, b) /\ Far(s, b, p) < r
      BY <1>6 DEF ReceivedItems, Entries
    <2>2. r \in Int
      BY <1>2, Sizes
    <2> QED BY <1>2, <2>1, <2>2, FarRange
  <1>8. CASE b.read = b.free
    <2>0. c = ReturnItemDefault(b, p) /\ p = x.at
      BY <1>5
    <2>1. h = {x} /\ StateInv(config, c, q, {})
      BY <1>1, <1>3, <1>7, <1>8, <2>0, ReturnEmptied
    <2>2. h \ {x} = {}
      BY <2>1
    <2> QED BY <2>1, <2>2
  <1>9. CASE b.read # b.free
    <2>1. /\ Shape(c) /\ Layout(s, c) /\ WrapInv(s, c) /\ (c.full \in BOOLEAN /\ (c.full => c.read # c.acquire))
          /\ c.acquire = b.acquire /\ c.write = b.write
          /\ Entries(s, c) \subseteq Entries(s, b)
          /\ \A v \in Entries(s, c) : Kept(s, b, c, v)
          /\ \E d : Nearer(s, b, c, p, d) /\ r - d \in 0 .. s /\ BufInv(s, c, RangeOf(q), h \ {HeldAt(b, p)}, r - d)
      <3>1. c = ReturnItemDefault(b, p)
        BY <1>5
      <3>2. ReturnMoved(s, b, RangeOf(q), h, r, p, c)
        BY <1>1, <1>3, <1>6, <1>7, <1>9, <3>1, ReturnMoves
      <3> QED BY <3>2 DEF ReturnMoved
    <2>2. PICK d : Nearer(s, b, c, p, d) /\ r - d \in 0 .. s /\ BufInv(s, c, RangeOf(q), h2, r - d)
      BY <1>1, <1>6, <2>1
    <2>3. WriteInv(s, c, RangeOf(q))
      BY <2>2 DEF BufInv
    <2>4. \A k \in 1 .. Len(q) : q[k] \in Heads(s, c)
      BY <2>3 DEF WriteInv, RangeOf, Entries
    <2>5. \A k \in 1 .. Len(q) : q[k] \in Heads(s, b)
      BY <1>4 DEF WriteInv, RangeOf, Entries
    <2>6. SendingInv(s, c, q)
      <3> SUFFICES ASSUME NEW j \in 1 .. Len(q), NEW k \in 1 .. Len(q), j < k
                   PROVE  Far(s, c, q[j]) < Far(s, c, q[k])
        BY DEF SendingInv
      <3>1. Far(s, c, q[j]) = Far(s, b, q[j]) - d /\ Far(s, c, q[k]) = Far(s, b, q[k]) - d /\ d \in Int
        BY <2>2, <2>4 DEF Nearer
      <3>2. Far(s, b, q[j]) \in Int /\ Far(s, b, q[k]) \in Int
        BY <1>2, <2>5, FarRange
      <3>3. Far(s, b, q[j]) < Far(s, b, q[k])
        BY <1>2 DEF SendingInv
      <3> QED BY <3>1, <3>2, <3>3
    <2>7. UseInv(config, c, q, h2)
      <3>1. ~(c.full /\ c.read = c.acquire)
        BY <2>1
      <3>2. config.inOrder => OrderInv(s, c, RangeOf(q))
        <4> SUFFICES ASSUME config.inOrder, NEW u \in RangeOf(q), NEW v \in Entries(s, c),
                            Far(s, c, u) <= Far(s, c, v)
                     PROVE  v \in RangeOf(q)
          BY DEF OrderInv
        <4>1. u \in Heads(s, c) /\ v \in Heads(s, c)
          BY <2>3 DEF WriteInv, Entries
        <4>2. u \in Heads(s, b) /\ v \in Entries(s, b) /\ v \in Heads(s, b)
          BY <1>4, <2>1 DEF WriteInv, Entries
        <4>3. Far(s, b, u) \in Int /\ Far(s, b, v) \in Int
          BY <1>2, <4>2, FarRange
        <4>4. Far(s, c, u) = Far(s, b, u) - d /\ Far(s, c, v) = Far(s, b, v) - d /\ d \in Int
          BY <2>2, <4>1 DEF Nearer
        <4>5. Far(s, b, u) <= Far(s, b, v)
          BY <4>3, <4>4
        <4>6. OrderInv(s, b, RangeOf(q))
          BY <1>1, <1>2 DEF UseInv
        <4> QED BY <4>2, <4>5, <4>6 DEF OrderInv
      <3>3. config.kind = "nosplit" => \A v \in Entries(s, c) : c.mem[v].written <=> v \notin RangeOf(q)
        BY <1>1, <1>2, <2>1 DEF UseInv, Kept
      <3> QED BY <1>1, <1>2, <2>1, <3>1, <3>2, <3>3 DEF UseInv
    <2> QED BY <1>1, <1>2, <2>1, <2>2, <2>6, <2>7 DEF StateInv
  <1> QED BY <1>8, <1>9

(* prvInitializeNewRingbuffer.                                               *)
LEMMA InitInv ==
  ASSUME Init
  PROVE  IInv
  <1>1. PICK s : s = config.size
    OBVIOUS
  <1>2. config \in Configs /\ sending = <<>> /\ held = {} /\ rb = NewRingbuffer
    BY DEF Init
  <1>3. Sz(s)
    BY <1>1, <1>2, ConfigFacts
  <1>4. /\ rb.acquire = 0 /\ rb.write = 0 /\ rb.read = 0 /\ rb.free = 0 /\ rb.full = FALSE /\ rb.waiting = 0
        /\ rb.mem = [o \in 0 .. s - 1 |-> Junk] /\ Shape(rb)
    BY <1>1, <1>2 DEF NewRingbuffer, Offsets, Shape, Fields
  <1>5. Heads(s, rb) = {} /\ Entries(s, rb) = {}
    BY <1>4 DEF Heads, HasHeader, Entries
  <1>6. 0 \in Places(s)
    BY <1>3, PlaceFacts, Sizes
  <1>7. Layout(s, rb)
    BY <1>4, <1>5, <1>6 DEF Layout
  <1>8. Used(s, rb) = 0
    BY <1>4 DEF Used, Far, Dist
  <1>9. EntryInv(s, rb, {}, 0) /\ WriteInv(s, rb, {}) /\ WrapInv(s, rb)
    BY <1>4, <1>5 DEF EntryInv, WriteInv, WrapInv
  <1>10. ReadInv(s, rb, {}, 0)
    <2>1. Pointer(s, rb, rb.read, 0)
      BY <1>4, <1>8 DEF Pointer
    <2>2. WaitingItems(s, rb, {}, 0) = {}
      BY <1>5 DEF WaitingItems
    <2> QED BY <1>4, <2>1, <2>2, FS_EmptySet DEF ReadInv, NotPast
  <1>11. held = {HeldAt(rb, v) : v \in ReceivedItems(s, rb, 0)}
    BY <1>2, <1>5 DEF ReceivedItems
  <1>12. BufInv(s, rb, RangeOf(sending), held, 0) /\ 0 \in 0 .. s
    <2>1. RangeOf(sending) = {}
      BY <1>2, EmptyRange
    <2>2. 0 \in 0 .. s
      BY <1>3, Sizes
    <2> QED BY <1>9, <1>10, <1>11, <2>1, <2>2 DEF BufInv
  <1>13. SendingInv(s, rb, sending) /\ sending \in Seq(0 .. s - 1)
    BY <1>2 DEF SendingInv
  <1>14. UseInv(config, rb, sending, held)
    <2>1. Cardinality(held) = 0
      BY <1>2, FS_EmptySet
    <2>2. OrderInv(s, rb, RangeOf(sending)) /\ RangeOf(sending) = {}
      BY <1>2, EmptyRange DEF OrderInv
    <2> QED BY <1>1, <1>2, <1>4, <1>5, <2>1, <2>2 DEF UseInv
  <1> QED BY <1>1, <1>2, <1>4, <1>7, <1>9, <1>12, <1>13, <1>14 DEF IInv, StateInv

-------------------------------------------------------------------------------
(*****************************************************************************)
(* The invariant, for every step.                                            *)
(*****************************************************************************)

(* It is the same buffer that is used.                                       *)
LEMMA UseFacts ==
  ASSUME SafeUse, config \in Configs
  PROVE  /\ config.inOrder \/ config.patient
         /\ config.leavesLast
         /\ config.kind \in {"nosplit", "allowsplit"} /\ config.lengths \subseteq Nat
         /\ (config.acquiring => config.kind = "nosplit")
  <1>1. config.kind \in {"nosplit", "allowsplit"} /\ config.lengths \subseteq Nat
        /\ (config.acquiring => config.kind = "nosplit")
    BY ConfigFacts
  <1> QED BY <1>1 DEF SafeUse

(* xRingbufferSend keeps the invariant.                                      *)
LEMMA SendStep ==
  ASSUME SafeUse, IInv, NEW i \in Items, NEW n \in Lengths, Send(i, n)
  PROVE  StateInv(config, rb', sending', held')
  <1>1. config \in Configs /\ StateInv(config, rb, sending, held)
    BY DEF IInv
  <1>2. config.kind \in {"nosplit", "allowsplit"} /\ n \in Nat
    BY <1>1, UseFacts DEF Lengths
  <1>3. /\ (config.inOrder => sending = <<>>) /\ sending' = sending /\ held' = held
        /\ n <= MaxItemSize /\ CheckItemFits(rb, n)
    BY DEF Send, InOrder
  <1>4. PICK c : c = rb'
    OBVIOUS
  <1>5. CASE config.kind = "nosplit"
    <2>1. c = CopyItemNoSplit(rb, i, n)
      BY <1>4, <1>5 DEF Send
    <2>2. StateInv(config, c, sending, held)
      BY <1>1, <1>2, <1>3, <1>5, <2>1, SendNoSplitInv
    <2> QED BY <1>3, <1>4, <2>2
  <1>6. CASE config.kind = "allowsplit"
    <2>1. c = CopyItemAllowSplit(rb, i, n)
      BY <1>4, <1>6 DEF Send
    <2>2. sending = <<>>
      BY <1>1, <1>6 DEF StateInv, UseInv
    <2>3. StateInv(config, rb, <<>>, held)
      BY <1>1, <2>2
    <2>4. StateInv(config, c, <<>>, held)
      BY <1>1, <1>2, <1>3, <1>6, <2>1, <2>3, SendAllowSplitInv
    <2> QED BY <1>3, <1>4, <2>2, <2>4
  <1> QED BY <1>2, <1>5, <1>6

(* xRingbufferSendAcquire keeps the invariant.                               *)
LEMMA AcquireStep ==
  ASSUME SafeUse, IInv, NEW i \in Items, NEW n \in Lengths, SendAcquire(i, n)
  PROVE  StateInv(config, rb', sending', held')
  <1>1. config \in Configs /\ StateInv(config, rb, sending, held)
    BY DEF IInv
  <1>2. n \in Nat /\ config.kind = "nosplit"
    BY <1>1, UseFacts DEF Lengths, SendAcquire, Acquiring
  <1>3. PICK c, start : c = rb' /\ start = AcquireStart(rb, n)
    OBVIOUS
  <1>4. /\ sending' = Append(sending, start) /\ held' = held /\ n <= MaxItemSize /\ CheckItemFits(rb, n)
        /\ c = AcquireItem(rb, i, n)
    BY <1>3 DEF SendAcquire
  <1>5. StateInv(config, c, Append(sending, start), held)
    BY <1>1, <1>2, <1>3, <1>4, AcquireInv
  <1> QED BY <1>3, <1>4, <1>5

(* xRingbufferSendComplete keeps the invariant, and completes that item.     *)
LEMMA CompleteStep ==
  ASSUME SafeUse, IInv, NEW k \in DOMAIN sending, SendComplete(k)
  PROVE  /\ StateInv(config, rb', sending', held') /\ Completed(config.size, rb, rb', sending[k])
         /\ sending' = Without(sending, k) /\ k \in 1 .. Len(sending)
         /\ config.kind = "nosplit" /\ held' = held
  <1>1. config \in Configs /\ StateInv(config, rb, sending, held)
    BY DEF IInv
  <1>2. sending \in Seq(0 .. config.size - 1) /\ UseInv(config, rb, sending, held)
    BY <1>1 DEF StateInv
  <1>3. k \in 1 .. Len(sending) /\ (config.inOrder => k = 1)
    BY <1>2 DEF SendComplete, InOrder
  <1>4. config.kind = "nosplit"
    <2>1. sending # <<>>
      BY <1>3
    <2> QED BY <1>1, <1>2, <2>1, UseFacts DEF UseInv
  <1>5. PICK c, t : c = rb' /\ t = Without(sending, k)
    OBVIOUS
  <1>6. sending' = t /\ c = SendItemDone(rb, sending[k]) /\ held' = held
    BY <1>5 DEF SendComplete, Without
  <1>7. t \in Seq(0 .. config.size - 1) /\ Dropped(sending, k, t)
    BY <1>2, <1>3, <1>5, WithoutDrops
  <1>8. StateInv(config, c, t, held) /\ Completed(config.size, rb, c, sending[k])
    BY <1>1, <1>3, <1>4, <1>6, <1>7, CompleteInv
  <1> QED BY <1>3, <1>4, <1>5, <1>6, <1>8

(* xRingbufferReceive keeps the invariant.                                   *)
LEMMA ReceiveStep ==
  ASSUME SafeUse, IInv, Receive, NEW x, x = GetItemStart(rb)
  PROVE  /\ StateInv(config, rb', sending', held') /\ held' = held \cup {HeldAt(rb, x)}
         /\ rb' = GetItem(rb) /\ rb.waiting > 0 /\ sending' = sending
         /\ MayTake(rb, sending, held, x, rb'.read)
  <1>1. config \in Configs /\ StateInv(config, rb, sending, held)
    BY DEF IInv
  <1>2. rb.waiting > 0
    BY DEF Receive, CheckItemAvail
  <1>3. MayTake(rb, sending, held, x, rb'.read)
    <2>1. config.inOrder \/ x \notin RangeOf(sending)
      <3> SUFFICES ASSUME config.patient PROVE x \notin RangeOf(sending)
        BY <1>1, UseFacts
      <3>1. sending \in Seq(0 .. config.size - 1)
        BY <1>1 DEF StateInv
      <3>2. \A k \in DOMAIN sending : sending[k] # x
        BY DEF Receive, Patient
      <3> QED BY <3>1, <3>2 DEF RangeOf
    <2>2. rb.full /\ rb'.read = rb.acquire => held = {}
      BY <1>1, UseFacts DEF Receive, LeavesLast
    <2> QED BY <2>1, <2>2 DEF MayTake
  <1>4. PICK c : c = rb'
    OBVIOUS
  <1>5. c = GetItem(rb) /\ sending' = sending /\ held' = held \cup {Held(x)}
    BY <1>4 DEF Receive
  <1>6. StateInv(config, c, sending, held \cup {HeldAt(rb, x)}) /\ HeaderAt(rb, x) = rb.mem[x]
    <2>1. MayTake(rb, sending, held, x, c.read)
      BY <1>3, <1>4
    <2> QED BY <1>1, <1>2, <1>5, <2>1, ReceiveInv
  <1>7. Held(x) = HeldAt(rb, x)
    BY <1>6 DEF Held, HeldAt
  <1> QED BY <1>2, <1>3, <1>4, <1>5, <1>6, <1>7

(* xRingbufferReceiveSplit keeps the invariant.                              *)
LEMMA ReceiveSplitStep ==
  ASSUME SafeUse, IInv, ReceiveSplit
  PROVE  /\ StateInv(config, rb', sending', held') /\ sending = <<>> /\ sending' = <<>>
         /\ rb.waiting > 0 /\ HeaderAt(rb, GetItemStart(rb)).split
         /\ held' = held \cup {HeldAt(rb, GetItemStart(rb)), HeldAt(GetItem(rb), GetItemStart(GetItem(rb)))}
         /\ rb' = GetItem(GetItem(rb)) /\ ~(rb.full /\ rb'.read = rb.acquire)
  <1>1. config \in Configs /\ StateInv(config, rb, sending, held)
    BY DEF IInv
  <1>2. rb.waiting > 0 /\ config.kind = "allowsplit"
    BY DEF ReceiveSplit, CheckItemAvail
  <1>3. ~(rb.full /\ rb'.read = rb.acquire)
    BY <1>1, UseFacts DEF ReceiveSplit, LeavesLast
  <1>4. sending = <<>>
    BY <1>1, <1>2 DEF StateInv, UseInv
  <1>5. PICK x, c, y, e : x = GetItemStart(rb) /\ c = GetItem(rb) /\ y = GetItemStart(c) /\ e = GetItem(c)
    OBVIOUS
  <1>6. /\ rb' = e /\ sending' = sending /\ HeaderAt(rb, x).split
        /\ held' = held \cup {Held(x), Held(y)}
    BY <1>5 DEF ReceiveSplit
  <1>7. StateInv(config, rb, <<>>, held)
    BY <1>1, <1>4
  <1>8. /\ StateInv(config, e, <<>>, held \cup {HeldAt(rb, x), HeldAt(c, y)})
        /\ HeaderAt(rb, x) = rb.mem[x] /\ HeaderAt(c, y) = c.mem[y]
    <2>1. ~(rb.full /\ e.read = rb.acquire)
      BY <1>3, <1>6
    <2>2. BothTaken(rb, held, x, c, y, e)
      BY <1>1, <1>2, <1>5, <1>6, <1>7, <2>1, ReceiveSplitInv
    <2> QED BY <2>2 DEF BothTaken
  <1>9. c.mem = rb.mem
    BY <1>5 DEF GetItem
  <1>10. HeaderAt(c, y) = HeaderAt(rb, y)
    BY <1>9 DEF HeaderAt, HasHeader
  <1>11. Held(x) = HeldAt(rb, x) /\ Held(y) = HeldAt(c, y)
    BY <1>8, <1>10 DEF Held, HeldAt
  <1>12. held' = held \cup {HeldAt(rb, x), HeldAt(c, y)}
    BY <1>6, <1>11
  <1>13. StateInv(config, rb', sending', held')
    BY <1>4, <1>6, <1>8, <1>12
  <1> QED BY <1>2, <1>3, <1>4, <1>5, <1>6, <1>12, <1>13

(* vRingbufferReturnItem keeps the invariant.                                *)
LEMMA ReturnStep ==
  ASSUME IInv, NEW x \in held, Return(x)
  PROVE  StateInv(config, rb', sending', held')
  <1>1. config \in Configs /\ StateInv(config, rb, sending, held)
    BY DEF IInv
  <1>2. PICK c : c = rb'
    OBVIOUS
  <1>3. c = ReturnItemDefault(rb, x.at) /\ held' = held \ {x} /\ sending' = sending
    BY <1>2 DEF Return
  <1>4. StateInv(config, c, sending, held \ {x})
    BY <1>1, <1>3, ReturnInv
  <1> QED BY <1>2, <1>3, <1>4

(* Every step of the buffer preserves the invariant.                         *)
LEMMA StepInv ==
  ASSUME SafeUse, IInv, [Next]_vars
  PROVE  IInv'
  <1>1. config \in Configs
    BY DEF IInv
  <1>2. CASE UNCHANGED vars
    BY <1>2 DEF IInv, vars
  <1>3. CASE Next
    <2>1. config' = config
      BY <1>3 DEF Next
    <2>2. StateInv(config, rb', sending', held')
      <3>1. ASSUME NEW i \in Items, NEW n \in Lengths, Send(i, n) PROVE StateInv(config, rb', sending', held')
        BY <3>1, SendStep
      <3>2. ASSUME NEW i \in Items, NEW n \in Lengths, SendAcquire(i, n) PROVE StateInv(config, rb', sending', held')
        BY <3>2, AcquireStep
      <3>3. ASSUME NEW k \in DOMAIN sending, SendComplete(k) PROVE StateInv(config, rb', sending', held')
        BY <3>3, CompleteStep
      <3>4. ASSUME Receive PROVE StateInv(config, rb', sending', held')
        BY <3>4, ReceiveStep
      <3>5. ASSUME ReceiveSplit PROVE StateInv(config, rb', sending', held')
        BY <3>5, ReceiveSplitStep
      <3>6. ASSUME NEW x \in held, Return(x) PROVE StateInv(config, rb', sending', held')
        BY <3>6, ReturnStep
      <3> QED BY <1>3, <3>1, <3>2, <3>3, <3>4, <3>5, <3>6 DEF Next
    <2> QED BY <1>1, <2>1, <2>2 DEF IInv
  <1> QED BY <1>2, <1>3

(* IInv is an invariant of RingBuf when the buffers are used as SafeUse      *)
(* says: whatever the sizes, the alignment, the item lengths and the order   *)
(* of critical sections, the headers form one chain from pucFree to          *)
(* pucAcquire and the four pointers and xItemsWaiting agree with it.         *)
THEOREM Invariant ==
  ASSUME SafeUse
  PROVE  Spec => []IInv
  <1>1. Init => IInv
    BY InitInv
  <1>2. IInv /\ [Next]_vars => IInv'
    BY StepInv
  <1> QED BY <1>1, <1>2, PTL DEF Spec

(* The invariant implies Intact.                                             *)
LEMMA IntactInv ==
  ASSUME IInv
  PROVE  Intact
  <1>1. PICK s : s = config.size
    OBVIOUS
  <1>2. config \in Configs /\ StateInv(config, rb, sending, held)
    BY DEF IInv
  <1>3. Sz(s) /\ Layout(s, rb) /\ \E r \in 0 .. s : BufInv(s, rb, RangeOf(sending), held, r)
    BY <1>1, <1>2, StateFacts
  <1>4. PICK r : BufInv(s, rb, RangeOf(sending), held, r)
    BY <1>3
  <1>5. held = HeldSet(s, rb, r) /\ EntryInv(s, rb, RangeOf(sending), r)
    BY <1>4 DEF BufInv, HeldSet
  <1> SUFFICES ASSUME NEW h \in held
               PROVE  /\ HeaderAt(rb, h.at).item = h.item
                      /\ \A o \in h.at + Header .. h.at + Header + h.len - 1 : rb.mem[o] = h.item
    BY DEF Intact
  <1>6. PICK p : p \in ReceivedItems(s, rb, r) /\ h = HeldAt(rb, p)
    BY <1>3, <1>5, HeldFinite
  <1>7. h.at = p /\ h.item = rb.mem[p].item /\ h.len = rb.mem[p].len
    BY <1>6 DEF HeldAt
  <1>8. p \in Entries(s, rb) /\ p \in Heads(s, rb) /\ Far(s, rb, p) < r
    BY <1>6 DEF ReceivedItems, Entries
  <1>9. Contents(rb, p)
    BY <1>5, <1>8 DEF EntryInv
  <1>10. HeaderAt(rb, p) = rb.mem[p]
    BY <1>3, <1>8, HeadFacts
  <1> QED BY <1>7, <1>9, <1>10 DEF Contents

(* Intact holds in every reachable state, also in a full buffer of which     *)
(* several items are held, under SafeUse: nobody receives the last item of a *)
(* full buffer while holding another one (else vRingbufferReturnItem of      *)
(* either clears the flag that keeps both), and an item is not received      *)
(* before it is complete when items are completed out of order.              *)
THEOREM ItemsIntact ==
  ASSUME SafeUse
  PROVE  Spec => []Intact
  BY Invariant, IntactInv, PTL

-------------------------------------------------------------------------------
(*****************************************************************************)
(* Live is the enumeration of the items that were not returned.              *)
(*****************************************************************************)

(* The walk that collects: own[p], and what the walk from nx[p] collects.    *)
CollectOf(X, Y, own, nx, last, g) ==
  /\ g \in [Nat -> [X -> Seq(Y)]]
  /\ \A n \in Nat, p \in X : g[n][p] = Cat(own[p], IF n = 0 \/ p \in last THEN <<>> ELSE g[n - 1][nx[p]])

(* The function that Live defines by recursion exists.                       *)
LEMMA CollectExists ==
  ASSUME NEW X, NEW Y, NEW own \in [X -> Seq(Y)], NEW nx \in [X -> X], NEW last
  PROVE  \E g : CollectOf(X, Y, own, nx, last, g)
  <1> DEFINE Z == [X -> Seq(Y)]
             first == [p \in X |-> Cat(own[p], <<>>)]
             next(h) == [p \in X |-> Cat(own[p], IF p \in last THEN <<>> ELSE h[nx[p]])]
             step == [h \in Z |-> next(h)]
  <1>0. PICK E : E = <<>>
    OBVIOUS
  <1>1. E \in Seq(Y)
    BY <1>0
  <1>2. \A u, v \in Seq(Y) : Cat(u, v) \in Seq(Y)
    BY CatFacts
  <1>3. first \in Z
    BY <1>0, <1>1, <1>2
  <1>4. ASSUME NEW h \in Z PROVE next(h) \in Z
    <2> SUFFICES ASSUME NEW p \in X PROVE Cat(own[p], IF p \in last THEN <<>> ELSE h[nx[p]]) \in Seq(Y)
      OBVIOUS
    <2>1. h[nx[p]] \in Seq(Y) /\ own[p] \in Seq(Y)
      OBVIOUS
    <2>2. (IF p \in last THEN <<>> ELSE h[nx[p]]) \in Seq(Y)
      BY <1>0, <1>1, <2>1
    <2> QED BY <1>2, <2>1, <2>2
  <1>5. step \in [Z -> Z] /\ \A h \in Z : step[h] = next(h)
    <2> HIDE DEF next
    <2> QED BY <1>4
  <1>6. PICK g : IterateOf(Z, first, step, g)
    <2> HIDE DEF Z, first, step
    <2> QED BY <1>3, <1>5, IterateExists
  <1> HIDE DEF step
  <1>7. g \in [Nat -> Z] /\ g[0] = first /\ \A n \in Nat : g[n + 1] = step[g[n]]
    BY <1>6 DEF IterateOf
  <1>8. ASSUME NEW n \in Nat, NEW p \in X
        PROVE  g[n][p] = Cat(own[p], IF n = 0 \/ p \in last THEN <<>> ELSE g[n - 1][nx[p]])
    <2>1. CASE n = 0
      BY <1>7, <2>1
    <2>2. CASE n > 0
      <3>1. n - 1 \in Nat /\ (n - 1) + 1 = n /\ n # 0
        BY <2>2
      <3>2. PICK h : h = g[n - 1]
        OBVIOUS
      <3>3. g[n] = next(h)
        <4> HIDE DEF next, step, Z, first
        <4>1. g[(n - 1) + 1] = step[g[n - 1]] /\ g[n - 1] \in Z
          BY <1>7, <3>1
        <4>2. g[n] = step[h] /\ h \in Z
          BY <3>1, <3>2, <4>1
        <4> QED BY <1>5, <4>2
      <3>4. next(h)[p] = Cat(own[p], IF p \in last THEN <<>> ELSE h[nx[p]])
        OBVIOUS
      <3> HIDE DEF next
      <3>5. g[n][p] = Cat(own[p], IF p \in last THEN <<>> ELSE g[n - 1][nx[p]])
        BY <3>2, <3>3, <3>4
      <3> QED BY <3>1, <3>5
    <2> QED BY <2>1, <2>2
  <1>9. g \in [Nat -> [X -> Seq(Y)]]
    BY <1>7
  <1> HIDE DEF first, next, Z
  <1>10. \A n \in Nat, p \in X : g[n][p] = Cat(own[p], IF n = 0 \/ p \in last THEN <<>> ELSE g[n - 1][nx[p]])
    BY <1>8
  <1>11. CollectOf(X, Y, own, nx, last, g)
    BY <1>9, <1>10, Zenon DEF CollectOf
  <1> QED BY <1>11

(* The items that were not returned.                                         *)
LiveItems(s, b) == {p \in Entries(s, b) : ~b.mem[p].freed}

Own(b, p) == IF HeaderAt(b, p).dummy \/ HeaderAt(b, p).freed THEN <<>> ELSE <<p>>

ChainOf(s, b, g) ==
  \A n \in Nat, p \in 0 .. s - 1 :
    g[n][p] = Cat(Own(b, p), IF n = 0 \/ PastItem(b, p) = b.acquire THEN <<>> ELSE g[n - 1][PastItem(b, p)])

(* Live is what the walk from pucFree collects.                              *)
LEMMA LiveChain ==
  ASSUME IInv, NEW s, s = config.size
  PROVE  \E g : ChainOf(s, rb, g) /\ Live = IF rb.free = rb.acquire /\ ~rb.full THEN <<>> ELSE g[s][rb.free]
  <1>0. PICK X : X = 0 .. s - 1
    OBVIOUS
  <1> DEFINE Def(f) == [n \in Nat |-> [p \in X |->
                          Own(rb, p) \o (IF n = 0 \/ PastItem(rb, p) = rb.acquire THEN <<>>
                                         ELSE f[n - 1][PastItem(rb, p)])]]
             chain == CHOOSE f : f = Def(f)
             own == [p \in X |-> Own(rb, p)]
             nx == [p \in X |-> PastItem(rb, p)]
             last == {p \in X : PastItem(rb, p) = rb.acquire}
  <1>1. Live = IF rb.free = rb.acquire /\ ~rb.full THEN <<>> ELSE chain[s][rb.free]
    BY <1>0 DEF Live, Offsets, Own
  <1>2. config \in Configs /\ Layout(s, rb)
    BY DEF IInv, StateInv
  <1>3. nx \in [X -> X]
    BY <1>0, <1>2, PastItemType
  <1>4. own \in [X -> Seq(X)]
    BY DEF Own
  <1>5. PICK g : CollectOf(X, X, own, nx, last, g)
    <2> HIDE DEF own, nx, last
    <2> QED BY <1>3, <1>4, CollectExists
  <1>6. \A n \in Nat, p \in X : g[n][p] = Cat(Own(rb, p), IF n = 0 \/ PastItem(rb, p) = rb.acquire THEN <<>>
                                                          ELSE g[n - 1][PastItem(rb, p)])
    BY <1>5 DEF CollectOf
  <1>7. \A n \in Nat, p \in X : g[n][p] = Def(g)[n][p]
    BY <1>6 DEF Cat
  <1>8. g = Def(g)
    <2> SUFFICES \A n \in Nat : g[n] = Def(g)[n]
      BY <1>5 DEF CollectOf
    <2> TAKE n \in Nat
    <2>1. g[n] \in [X -> Seq(X)]
      BY <1>5 DEF CollectOf
    <2>2. Def(g)[n] = [p \in X |-> Def(g)[n][p]]
      OBVIOUS
    <2>3. g[n] = [p \in X |-> g[n][p]]
      BY <2>1
    <2> QED BY <1>7, <2>2, <2>3, Zenon
  <1>9. chain = Def(chain)
    <2> HIDE DEF Def
    <2> QED BY <1>8
  <1> HIDE DEF chain
  <1>10. PICK f : f = chain
    OBVIOUS
  <1>11. \A n \in Nat : f[n] = Def(f)[n]
    BY <1>9, <1>10
  <1>12. \A n \in Nat, p \in X :
           f[n][p] = Cat(Own(rb, p), IF n = 0 \/ PastItem(rb, p) = rb.acquire THEN <<>>
                                     ELSE f[n - 1][PastItem(rb, p)])
    <2>1. \A n \in Nat, p \in X :
            Def(f)[n][p] = Own(rb, p) \o (IF n = 0 \/ PastItem(rb, p) = rb.acquire THEN <<>>
                                          ELSE f[n - 1][PastItem(rb, p)])
      OBVIOUS
    <2> HIDE DEF Def
    <2> QED BY <1>11, <2>1 DEF Cat
  <1>13. ChainOf(s, rb, f)
    BY <1>0, <1>12 DEF ChainOf
  <1> QED BY <1>1, <1>10, <1>13

Ascending(s, b, L) == \A j, k \in 1 .. Len(L) : j < k => Far(s, b, L[j]) < Far(s, b, L[k])

(* L is what there is in S, the nearest first.                               *)
Enum(s, b, S, L) == L \in Seq(0 .. s - 1) /\ RangeOf(L) = S /\ Ascending(s, b, L)

(* Nothing is enumerated by the empty sequence.                              *)
LEMMA EnumEmpty ==
  ASSUME NEW s, NEW b
  PROVE  Enum(s, b, {}, <<>>)
  BY EmptyRange DEF Enum, Ascending

(* There is only one order.                                                  *)
LEMMA EnumAgree ==
  ASSUME NEW s, NEW b, NEW S, NEW L, NEW M, Enum(s, b, S, L), Enum(s, b, S, M),
         \A v \in S : Far(s, b, v) \in Int
  PROVE  Len(L) <= Len(M) /\ \A k \in 1 .. Len(L) : L[k] = M[k]
  <1> DEFINE U == {n \in Nat : n <= Len(L) => n <= Len(M) /\ \A k \in 1 .. n : L[k] = M[k]}
  <1>1. /\ Len(L) \in Nat /\ Len(M) \in Nat
        /\ \A k \in 1 .. Len(L) : L[k] \in S /\ Far(s, b, L[k]) \in Int
        /\ \A k \in 1 .. Len(M) : M[k] \in S /\ Far(s, b, M[k]) \in Int
    BY DEF Enum, RangeOf
  <1>2. 0 \in U
    BY <1>1
  <1>3. ASSUME NEW n \in Nat, n \in U PROVE n + 1 \in U
    <2> SUFFICES ASSUME n + 1 <= Len(L) PROVE n + 1 <= Len(M) /\ \A k \in 1 .. n + 1 : L[k] = M[k]
      OBVIOUS
    <2>1. n <= Len(M) /\ \A k \in 1 .. n : L[k] = M[k]
      BY <1>1, <1>3
    <2>2. n + 1 \in 1 .. Len(L)
      BY <1>1
    <2>3. PICK j \in 1 .. Len(M) : L[n + 1] = M[j]
      BY <1>1, <2>2 DEF Enum, RangeOf
    <2>4. j > n
      <3> SUFFICES ASSUME j <= n PROVE FALSE
        BY <1>1
      <3>1. L[j] = L[n + 1] /\ j \in 1 .. Len(L) /\ j < n + 1
        BY <1>1, <2>1, <2>3
      <3>2. Far(s, b, L[j]) < Far(s, b, L[n + 1])
        BY <2>2, <3>1 DEF Enum, Ascending
      <3> QED BY <1>1, <2>2, <3>1, <3>2
    <2>5. n + 1 <= Len(M) /\ n + 1 \in 1 .. Len(M)
      BY <1>1, <2>4
    <2>6. PICK i \in 1 .. Len(L) : M[n + 1] = L[i]
      BY <1>1, <2>5 DEF Enum, RangeOf
    <2>7. i > n
      <3> SUFFICES ASSUME i <= n PROVE FALSE
        BY <1>1
      <3>1. M[i] = M[n + 1] /\ i \in 1 .. Len(M) /\ i < n + 1
        BY <1>1, <2>1, <2>6
      <3>2. Far(s, b, M[i]) < Far(s, b, M[n + 1])
        BY <2>5, <3>1 DEF Enum, Ascending
      <3> QED BY <1>1, <2>5, <3>1, <3>2
    <2>8. i = n + 1
      <3> SUFFICES ASSUME i > n + 1 PROVE FALSE
        BY <1>1, <2>7
      <3>1. Far(s, b, L[n + 1]) < Far(s, b, L[i])
        BY <2>2 DEF Enum, Ascending
      <3>2. j = n + 1 \/ Far(s, b, M[n + 1]) < Far(s, b, M[j])
        BY <1>1, <2>4, <2>5 DEF Enum, Ascending
      <3>3. Far(s, b, M[n + 1]) <= Far(s, b, M[j])
        BY <1>1, <2>5, <3>2
      <3>4. Far(s, b, L[i]) <= Far(s, b, L[n + 1])
        BY <2>3, <2>6, <3>3
      <3> QED BY <1>1, <2>2, <3>1, <3>4
    <2>9. L[n + 1] = M[n + 1]
      BY <2>6, <2>8
    <2> QED BY <2>1, <2>5, <2>9
  <1> HIDE DEF U
  <1>4. \A n \in Nat : n \in U
    BY <1>2, <1>3, Induction
  <1>5. Len(L) \in U
    BY <1>1, <1>4
  <1> QED BY <1>1, <1>5 DEF U

(* There is one enumeration.                                                 *)
LEMMA EnumUnique ==
  ASSUME NEW s, NEW b, NEW S, NEW L, NEW M, Enum(s, b, S, L), Enum(s, b, S, M),
         \A v \in S : Far(s, b, v) \in Int
  PROVE  L = M
  <1>1. Len(L) <= Len(M) /\ \A k \in 1 .. Len(L) : L[k] = M[k]
    BY EnumAgree
  <1>2. Len(M) <= Len(L)
    BY EnumAgree
  <1>3. PICK X : X = 0 .. s - 1
    OBVIOUS
  <1>4. L \in Seq(X) /\ M \in Seq(X)
    BY <1>3 DEF Enum
  <1>5. Len(L) = Len(M)
    BY <1>1, <1>2, <1>4
  <1> QED BY <1>1, <1>4, <1>5, SeqEqual

(* One that is nearer than all of L goes first.                              *)
LEMMA EnumCons ==
  ASSUME NEW s, NEW b, NEW S, NEW L, Enum(s, b, S, L), NEW p \in 0 .. s - 1,
         \A v \in S : Far(s, b, p) < Far(s, b, v), NEW T, T = S \cup {p}
  PROVE  Enum(s, b, T, Cat(<<p>>, L))
  <1>1. PICK X, x, M : X = 0 .. s - 1 /\ x = <<p>> /\ M = Cat(x, L)
    OBVIOUS
  <1>2. x \in Seq(X) /\ Len(x) = 1 /\ x[1] = p /\ L \in Seq(X) /\ Len(L) \in Nat
    BY <1>1 DEF Enum
  <1>3. M \in Seq(X) /\ Len(M) = Len(x) + Len(L) /\ (\A k \in 1 .. Len(x) : M[k] = x[k])
        /\ \A k \in 1 .. Len(L) : M[Len(x) + k] = L[k]
    <2>1. M \in Seq(X) /\ IsCat(x, L, M)
      BY <1>1, <1>2, CatFacts
    <2> QED BY <2>1 DEF IsCat
  <1>4. Len(M) = 1 + Len(L) /\ M[1] = p /\ \A k \in 1 .. Len(L) : M[1 + k] = L[k]
    BY <1>2, <1>3
  <1>5. \A k \in 1 .. Len(M) : k = 1 \/ (k - 1 \in 1 .. Len(L) /\ M[k] = L[k - 1])
    <2> TAKE k \in 1 .. Len(M)
    <2>1. CASE k # 1
      <3>1. k - 1 \in 1 .. Len(L) /\ 1 + (k - 1) = k
        BY <1>2, <1>4, <2>1
      <3>2. M[1 + (k - 1)] = L[k - 1]
        BY <1>4, <3>1
      <3> QED BY <3>1, <3>2
    <2> QED BY <2>1
  <1>6. RangeOf(M) = T
    <2>1. \A v \in RangeOf(M) : v \in T
      <3> TAKE v \in RangeOf(M)
      <3>1. PICK k \in 1 .. Len(M) : v = M[k]
        BY DEF RangeOf
      <3> QED BY <1>4, <1>5, <3>1 DEF Enum, RangeOf
    <2>2. p \in RangeOf(M)
      BY <1>2, <1>4 DEF RangeOf
    <2>3. ASSUME NEW v \in S PROVE v \in RangeOf(M)
      <3>1. PICK k \in 1 .. Len(L) : v = L[k]
        BY DEF Enum, RangeOf
      <3>2. 1 + k \in 1 .. Len(M) /\ M[1 + k] = v
        BY <1>2, <1>4, <3>1
      <3> QED BY <3>2 DEF RangeOf
    <2> QED BY <2>1, <2>2, <2>3
  <1>7. Ascending(s, b, M)
    <2> SUFFICES ASSUME NEW j \in 1 .. Len(M), NEW k \in 1 .. Len(M), j < k
                 PROVE  Far(s, b, M[j]) < Far(s, b, M[k])
      BY DEF Ascending
    <2>1. k - 1 \in 1 .. Len(L) /\ M[k] = L[k - 1]
      BY <1>2, <1>4, <1>5
    <2>2. CASE j = 1
      <3>1. L[k - 1] \in S
        BY <2>1 DEF Enum, RangeOf
      <3> QED BY <1>4, <2>1, <2>2, <3>1
    <2>3. CASE j # 1
      <3>1. j - 1 \in 1 .. Len(L) /\ M[j] = L[j - 1] /\ j - 1 < k - 1
        BY <1>2, <1>4, <1>5, <2>3
      <3> QED BY <2>1, <3>1 DEF Enum, Ascending
    <2> QED BY <2>2, <2>3
  <1>8. Cat(<<p>>, L) = M
    BY <1>1
  <1> QED BY <1>1, <1>3, <1>6, <1>7, <1>8 DEF Enum

(* The empty sequence adds nothing.                                          *)
LEMMA CatEmpty ==
  ASSUME NEW S, NEW L \in Seq(S)
  PROVE  Cat(<<>>, L) = L
  BY DEF Cat

LiveFrom(s, b, d) == {v \in LiveItems(s, b) : d <= Far(s, b, v)}

(* The walk from the header x collects what is live from there on.           *)
LEMMA ChainEnum ==
  ASSUME config \in Configs, NEW s, s = config.size, NEW b, Layout(s, b), NEW g, ChainOf(s, b, g)
  PROVE  \A n \in Nat : \A x \in Heads(s, b) :
           Used(s, b) - Far(s, b, x) <= n => Enum(s, b, LiveFrom(s, b, Far(s, b, x)), g[n][x])
  <1> DEFINE S == {n \in Nat : \A x \in Heads(s, b) :
                     Used(s, b) - Far(s, b, x) <= n => Enum(s, b, LiveFrom(s, b, Far(s, b, x)), g[n][x])}
  <1>1. Sz(s)
    BY ConfigFacts
  <1>2. Used(s, b) \in Int /\ \A x \in Heads(s, b) : Far(s, b, x) \in Int /\ 0 <= Far(s, b, x) /\ Far(s, b, x) < Used(s, b)
    BY <1>1, FarRange
  <1>3. 0 \in S
    BY <1>2
  <1>4. ASSUME NEW n \in Nat, n \in S PROVE n + 1 \in S
    <2> SUFFICES ASSUME NEW x \in Heads(s, b), Used(s, b) - Far(s, b, x) <= n + 1
                 PROVE  Enum(s, b, LiveFrom(s, b, Far(s, b, x)), g[n + 1][x])
      OBVIOUS
    <2>1. /\ x \in 0 .. s - 1 /\ HeaderAt(b, x) = b.mem[x] /\ Extent(b, x) \in Int /\ Extent(b, x) > 0
          /\ Linked(s, b, x)
      BY <1>1, HeadFacts
    <2>2. PICK w, d : w = Past(s, b, x) /\ d = Far(s, b, x)
      OBVIOUS
    <2>3. PastItem(b, x) = w
      BY <2>1, <2>2, PastItemType
    <2>4. PICK M : M = IF w = b.acquire THEN <<>> ELSE g[n][w]
      OBVIOUS
    <2>5. g[n + 1][x] = Cat(Own(b, x), M)
      <3>1. n + 1 \in Nat /\ n + 1 # 0 /\ (n + 1) - 1 = n
        OBVIOUS
      <3>2. g[n + 1][x] = Cat(Own(b, x), IF n + 1 = 0 \/ PastItem(b, x) = b.acquire THEN <<>>
                                         ELSE g[(n + 1) - 1][PastItem(b, x)])
        BY <2>1, <3>1 DEF ChainOf
      <3> QED BY <2>3, <2>4, <3>1, <3>2
    <2>6. d \in Int /\ d < Used(s, b) /\ 0 <= d
      BY <1>2, <2>2
    <2>7. PICK T : T = {v \in LiveItems(s, b) : d < Far(s, b, v)}
      OBVIOUS
    <2>8. Enum(s, b, T, M)
      <3>1. CASE w = b.acquire
        <4>1. \A v \in Heads(s, b) : Far(s, b, v) <= d
          <5> SUFFICES ASSUME w \in Heads(s, b), d + Extent(b, x) <= Far(s, b, w) PROVE FALSE
            BY <2>1, <2>2 DEF Linked
          <5>1. b.full \in BOOLEAN /\ (~b.full => Used(s, b) = Far(s, b, b.acquire)) /\ (b.full => b.free = b.acquire)
            BY <1>1, PointerFacts
          <5>2. ~b.full => FALSE
            BY <1>2, <3>1, <5>1
          <5>3. Far(s, b, w) = 0
            BY <1>1, <3>1, <5>1, <5>2, HeadFacts
          <5> QED BY <2>1, <2>6, <5>3
        <4>2. T = {}
          BY <1>2, <2>6, <2>7, <4>1 DEF LiveItems, Entries
        <4> QED BY <2>4, <3>1, <4>2, EnumEmpty
      <3>2. CASE w # b.acquire
        <4>1. /\ w \in Heads(s, b) /\ d + Extent(b, x) <= Far(s, b, w)
              /\ \A v \in Heads(s, b) : Far(s, b, v) <= d \/ Far(s, b, w) <= Far(s, b, v)
          BY <2>1, <2>2, <3>2 DEF Linked
        <4>2. Used(s, b) - Far(s, b, w) <= n /\ d < Far(s, b, w)
          <5>1. Far(s, b, w) \in Int /\ Used(s, b) \in Int
            BY <1>2, <4>1
          <5>2. PICK e, u, l : e = Extent(b, x) /\ u = Used(s, b) /\ l = Far(s, b, w)
            OBVIOUS
          <5>3. u - d <= n + 1 /\ d + e <= l /\ e > 0 /\ e \in Int /\ u \in Int /\ l \in Int
            BY <2>1, <2>2, <4>1, <5>1, <5>2
          <5>4. u - l <= n /\ d < l
            BY <2>6, <5>3
          <5> QED BY <5>2, <5>4
        <4>3. Enum(s, b, LiveFrom(s, b, Far(s, b, w)), g[n][w])
          BY <1>4, <4>1, <4>2
        <4>4. LiveFrom(s, b, Far(s, b, w)) = T
          <5>1. \A v \in LiveItems(s, b) : v \in Heads(s, b) /\ Far(s, b, v) \in Int
            BY <1>2 DEF LiveItems, Entries
          <5>2. \A v \in LiveItems(s, b) : Far(s, b, w) <= Far(s, b, v) <=> d < Far(s, b, v)
            BY <1>2, <2>6, <4>1, <4>2, <5>1
          <5> QED BY <2>7, <5>2 DEF LiveFrom
        <4> QED BY <2>4, <3>2, <4>3, <4>4
      <3> QED BY <3>1, <3>2
    <2>9. \A v \in LiveItems(s, b) : v \in Heads(s, b) /\ (d <= Far(s, b, v) <=> d < Far(s, b, v) \/ v = x)
      <3> TAKE v \in LiveItems(s, b)
      <3>1. v \in Heads(s, b)
        BY DEF LiveItems, Entries
      <3>2. v \in 0 .. s - 1 /\ Far(s, b, v) \in Int
        BY <1>2, <3>1 DEF Heads
      <3>3. Far(s, b, v) = d => v = x
        BY <1>1, <2>1, <2>2, <3>2, FarInjective
      <3> QED BY <2>2, <2>6, <3>1, <3>2, <3>3
    <2>10. x \in LiveItems(s, b) <=> ~(b.mem[x].dummy \/ b.mem[x].freed)
      BY DEF LiveItems, Entries
    <2>11. CASE x \in LiveItems(s, b)
      <3>1. Own(b, x) = <<x>>
        BY <2>1, <2>10, <2>11 DEF Own
      <3>2. LiveFrom(s, b, d) = T \cup {x}
        BY <2>7, <2>9, <2>11 DEF LiveFrom
      <3>3. \A v \in T : Far(s, b, x) < Far(s, b, v)
        BY <2>2, <2>7
      <3>4. PICK V : V = T \cup {x}
        OBVIOUS
      <3>5. Enum(s, b, V, Cat(<<x>>, M))
        BY <2>1, <2>8, <3>3, <3>4, EnumCons
      <3> QED BY <2>2, <2>5, <3>1, <3>2, <3>4, <3>5
    <2>12. CASE x \notin LiveItems(s, b)
      <3>1. Own(b, x) = <<>>
        BY <2>1, <2>10, <2>12 DEF Own
      <3>2. LiveFrom(s, b, d) = T
        BY <2>7, <2>9, <2>12 DEF LiveFrom
      <3>3. PICK X : X = 0 .. s - 1
        OBVIOUS
      <3>4. M \in Seq(X)
        BY <2>8, <3>3 DEF Enum
      <3>5. Cat(<<>>, M) = M
        BY <3>4, CatEmpty
      <3> QED BY <2>2, <2>5, <2>8, <3>1, <3>2, <3>5
    <2> QED BY <2>11, <2>12
  <1> HIDE DEF S
  <1>5. \A n \in Nat : n \in S
    BY <1>3, <1>4, Induction
  <1> QED BY <1>5 DEF S

(* Live is what was not returned, the oldest first.                          *)
LEMMA LiveEnum ==
  ASSUME IInv
  PROVE  Enum(config.size, rb, LiveItems(config.size, rb), Live)
  <1>1. PICK s : s = config.size
    OBVIOUS
  <1>2. config \in Configs /\ Layout(s, rb) /\ Sz(s)
    BY <1>1, ConfigFacts DEF IInv, StateInv
  <1>3. PICK g : ChainOf(s, rb, g) /\ Live = IF rb.free = rb.acquire /\ ~rb.full THEN <<>> ELSE g[s][rb.free]
    BY <1>1, LiveChain
  <1>4. Used(s, rb) \in Int /\ Used(s, rb) <= s /\ s \in Int
        /\ \A x \in Heads(s, rb) : Far(s, rb, x) \in Int /\ 0 <= Far(s, rb, x) /\ Far(s, rb, x) < Used(s, rb)
    BY <1>2, FarRange
  <1>5. \A v \in LiveItems(s, rb) : v \in Heads(s, rb)
    BY DEF LiveItems, Entries
  <1>6. CASE rb.free = rb.acquire /\ ~rb.full
    <2>1. Used(s, rb) = 0
      <3>1. rb.free \in 0 .. s - 1
        BY <1>2, PointerFacts
      <3> QED BY <1>6, <3>1 DEF Used, Far, Dist
    <2>2. LiveItems(s, rb) = {}
      BY <1>4, <1>5, <2>1
    <2> QED BY <1>1, <1>3, <1>6, <2>2, EnumEmpty
  <1>7. CASE ~(rb.free = rb.acquire /\ ~rb.full)
    <2>1. rb.free \in Heads(s, rb)
      BY <1>2, <1>7 DEF Layout
    <2>2. Far(s, rb, rb.free) = 0
      BY <1>2, <2>1, HeadFacts
    <2>3. s \in Nat /\ Used(s, rb) - Far(s, rb, rb.free) <= s
      BY <1>2, <1>4, <2>2, Sizes
    <2>4. Enum(s, rb, LiveFrom(s, rb, Far(s, rb, rb.free)), g[s][rb.free])
      BY <1>1, <1>2, <1>3, <2>1, <2>3, ChainEnum
    <2>5. LiveFrom(s, rb, 0) = LiveItems(s, rb)
      BY <1>4, <1>5 DEF LiveFrom
    <2> QED BY <1>1, <1>3, <1>7, <2>2, <2>4, <2>5
  <1> QED BY <1>6, <1>7

-------------------------------------------------------------------------------
(*****************************************************************************)
(* What is stored, and what the code reports of it.                          *)
(*****************************************************************************)

(* What the state of an item says of where it is: s the size, r the distance *)
(* of pucRead.                                                               *)
Placed(s, b, q, h, r) ==
  /\ Sz(s) /\ Layout(s, b) /\ WrapInv(s, b) /\ r \in Int /\ 0 <= r
  /\ BufInv(s, b, RangeOf(q), h, r)

(* There is a distance for pucRead.                                          *)
LEMMA PlacedExists ==
  ASSUME IInv
  PROVE  \E r : Placed(config.size, rb, sending, held, r)
  <1>1. PICK s : s = config.size
    OBVIOUS
  <1>2. config \in Configs /\ StateInv(config, rb, sending, held)
    BY DEF IInv
  <1>3. Sz(s) /\ Layout(s, rb) /\ WrapInv(s, rb) /\ \E r \in 0 .. s : BufInv(s, rb, RangeOf(sending), held, r)
    BY <1>1, <1>2, StateFacts
  <1>4. PICK r \in 0 .. s : BufInv(s, rb, RangeOf(sending), held, r)
    BY <1>3
  <1>5. r \in Int /\ 0 <= r
    BY <1>3, Sizes
  <1> QED BY <1>1, <1>3, <1>4, <1>5 DEF Placed

(* What Status says, for any buffer.                                         *)
StatusOf(q, h, p) ==
  IF \E x \in h : x.at = p THEN "received"
  ELSE IF \E k \in DOMAIN q : q[k] = p THEN "acquired" ELSE "sent"

(* The state of a live item, from where it lies and whether it was acquired. *)
LEMMA StatusFacts ==
  ASSUME NEW s, NEW b, NEW q, q \in Seq(0 .. s - 1), NEW h, NEW r, Placed(s, b, q, h, r)
  PROVE  /\ \A p \in LiveItems(s, b) :
              StatusOf(q, h, p) = IF Far(s, b, p) < r THEN "received"
                                  ELSE IF p \in RangeOf(q) THEN "acquired" ELSE "sent"
         /\ WaitingItems(s, b, RangeOf(q), r) \subseteq LiveItems(s, b)
         /\ \A p \in LiveItems(s, b) :
              StatusOf(q, h, p) = "sent" <=> p \in WaitingItems(s, b, RangeOf(q), r)
  <1>1. h = HeldSet(s, b, r) /\ EntryInv(s, b, RangeOf(q), r) /\ Sz(s) /\ Layout(s, b) /\ r \in Int
    BY DEF Placed, BufInv, HeldSet
  <1>2. \A p \in Entries(s, b) : Far(s, b, p) \in Int
    BY <1>1, FarRange DEF Entries
  <1>3. \A p : (\E x \in h : x.at = p) <=> p \in ReceivedItems(s, b, r)
    <2>1. \A x \in h : x.at \in ReceivedItems(s, b, r)
      BY <1>1, HeldFinite
    <2>2. \A p \in ReceivedItems(s, b, r) : HeldAt(b, p) \in h /\ HeldAt(b, p).at = p
      BY <1>1 DEF HeldSet, HeldAt
    <2> QED BY <2>1, <2>2
  <1>4. \A p : (\E k \in DOMAIN q : q[k] = p) <=> p \in RangeOf(q)
    <2>1. DOMAIN q = 1 .. Len(q)
      OBVIOUS
    <2> QED BY <2>1 DEF RangeOf
  <1>5. \A p \in LiveItems(s, b) : p \in ReceivedItems(s, b, r) <=> Far(s, b, p) < r
    BY DEF LiveItems, ReceivedItems
  <1>6. \A p \in LiveItems(s, b) : p \in WaitingItems(s, b, RangeOf(q), r) <=> p \notin RangeOf(q) /\ ~(Far(s, b, p) < r)
    BY <1>1, <1>2 DEF LiveItems, WaitingItems
  <1>7. WaitingItems(s, b, RangeOf(q), r) \subseteq LiveItems(s, b)
    BY <1>1 DEF LiveItems, WaitingItems, EntryInv
  <1>8. \A p \in LiveItems(s, b) :
          StatusOf(q, h, p) = IF Far(s, b, p) < r THEN "received"
                              ELSE IF p \in RangeOf(q) THEN "acquired" ELSE "sent"
    BY <1>3, <1>4, <1>5 DEF StatusOf
  <1>9. \A p \in LiveItems(s, b) : StatusOf(q, h, p) = "sent" <=> p \in WaitingItems(s, b, RangeOf(q), r)
    BY <1>6, <1>8
  <1> QED BY <1>7, <1>8, <1>9

(* The entry for the item at p.                                              *)
EntryOf(b, q, h, p) == [item |-> b.mem[p].item, part |-> b.mem[p].part, st |-> StatusOf(q, h, p)]

(* Stored has one entry for each live item.                                  *)
LEMMA StoredFacts ==
  ASSUME IInv
  PROVE  /\ Live \in Seq(0 .. config.size - 1) /\ Len(Live) \in Nat
         /\ \A k \in 1 .. Len(Live) : Live[k] \in LiveItems(config.size, rb)
         /\ Stored = [k \in 1 .. Len(Live) |-> EntryOf(rb, sending, held, Live[k])]
  <1>1. PICK s : s = config.size
    OBVIOUS
  <1>2. Enum(s, rb, LiveItems(s, rb), Live)
    BY <1>1, LiveEnum
  <1>3. Layout(s, rb) /\ Sz(s)
    BY <1>1, ConfigFacts DEF IInv, StateInv
  <1>4. Live \in Seq(0 .. s - 1) /\ \A k \in 1 .. Len(Live) : Live[k] \in LiveItems(s, rb)
    BY <1>2 DEF Enum, RangeOf
  <1>5. DOMAIN Live = 1 .. Len(Live) /\ Len(Live) \in Nat
    BY <1>4
  <1>6. \A k \in 1 .. Len(Live) : HeaderAt(rb, Live[k]) = rb.mem[Live[k]]
    <2> TAKE k \in 1 .. Len(Live)
    <2>1. Live[k] \in Heads(s, rb)
      BY <1>4 DEF LiveItems, Entries
    <2> QED BY <1>3, <2>1, HeadFacts
  <1>7. \A p : Status(p) = StatusOf(sending, held, p)
    BY DEF Status, StatusOf
  <1>8. Stored = [k \in DOMAIN Live |-> [item |-> HeaderAt(rb, Live[k]).item, part |-> HeaderAt(rb, Live[k]).part,
                                         st |-> Status(Live[k])]]
    BY DEF Stored
  <1>9. Stored = [k \in 1 .. Len(Live) |-> EntryOf(rb, sending, held, Live[k])]
    BY <1>5, <1>6, <1>7, <1>8 DEF EntryOf
  <1> QED BY <1>1, <1>4, <1>5, <1>9

(* The invariant implies AvailableExactly.                                   *)
LEMMA AvailableInv ==
  ASSUME IInv
  PROVE  AvailableExactly
  <1>1. PICK s, A, L : s = config.size /\ A = RangeOf(sending) /\ L = Live
    OBVIOUS
  <1>2. PICK r : Placed(s, rb, sending, held, r)
    BY <1>1, PlacedExists
  <1>3. sending \in Seq(0 .. s - 1) /\ config \in Configs /\ config.kind \in {"nosplit", "allowsplit"}
    BY <1>1, ConfigFacts DEF IInv, StateInv
  <1>4. /\ \A p \in LiveItems(s, rb) :
             StatusOf(sending, held, p) = IF Far(s, rb, p) < r THEN "received"
                                          ELSE IF p \in A THEN "acquired" ELSE "sent"
        /\ WaitingItems(s, rb, A, r) \subseteq LiveItems(s, rb)
        /\ \A p \in LiveItems(s, rb) : StatusOf(sending, held, p) = "sent" <=> p \in WaitingItems(s, rb, A, r)
    BY <1>1, <1>2, <1>3, StatusFacts
  <1>5. Enum(s, rb, LiveItems(s, rb), L)
    BY <1>1, LiveEnum
  <1>6. /\ Len(L) \in Nat /\ \A k \in 1 .. Len(L) : L[k] \in LiveItems(s, rb)
        /\ DOMAIN Stored = 1 .. Len(L)
        /\ \A k \in 1 .. Len(L) : Stored[k] = EntryOf(rb, sending, held, L[k])
    BY <1>1, StoredFacts
  <1>7. /\ Sz(s) /\ Layout(s, rb) /\ WrapInv(s, rb) /\ r \in Int
        /\ BufInv(s, rb, A, held, r) /\ WriteInv(s, rb, A) /\ ReadInv(s, rb, A, r)
    BY <1>1, <1>2 DEF Placed, BufInv
  <1>8. \A p \in LiveItems(s, rb) : p \in Entries(s, rb) /\ p \in Heads(s, rb) /\ Far(s, rb, p) \in Int
    BY <1>7, FarRange DEF LiveItems, Entries
  <1>9. \A k \in 1 .. Len(L) : Stored[k].st = StatusOf(sending, held, L[k])
    BY <1>6 DEF EntryOf
  <1>10. ASSUME NEW p \in WaitingItems(s, rb, A, r)
         PROVE  \E k \in 1 .. Len(L) : L[k] = p /\ Stored[k].st = "sent"
    <2>1. PICK k \in 1 .. Len(L) : L[k] = p
      BY <1>4, <1>5 DEF Enum, RangeOf
    <2> QED BY <1>4, <1>6, <1>9, <2>1
  <1>11. ASSUME CheckItemAvail(rb) PROVE WaitingItems(s, rb, A, r) # {}
    BY <1>7, <1>11, AvailWaiting DEF CheckItemAvail
  <1>12. Pointer(s, rb, rb.read, r) /\ rb.waiting = Cardinality(WaitingItems(s, rb, A, r)) /\ A \subseteq Entries(s, rb)
    BY <1>7 DEF ReadInv, WriteInv
  <1>13. ASSUME InOrder, CheckItemAvail(rb)
         PROVE  \E k \in 1 .. Len(L) : Stored[k].st = "sent" /\ \A j \in 1 .. k - 1 : Stored[j].st = "received"
    <2>1. PICK x : x = First(rb, rb.read)
      OBVIOUS
    <2>2. OrderInv(s, rb, A)
      BY <1>1, <1>13 DEF IInv, StateInv, UseInv, InOrder
    <2>3. x \notin A
      BY <1>7, <1>11, <1>12, <1>13, <2>1, <2>2, OldestComplete
    <2>4. /\ x \in Entries(s, rb) /\ Far(s, rb, x) \in Int /\ r <= Far(s, rb, x)
          /\ \A p \in Entries(s, rb) : Far(s, rb, p) < r \/ Far(s, rb, x) <= Far(s, rb, p)
      BY <1>7, <1>11, <1>12, <1>13, <2>1, OldestWaiting
    <2>5. x \in WaitingItems(s, rb, A, r)
      BY <2>3, <2>4 DEF WaitingItems
    <2>6. PICK k \in 1 .. Len(L) : L[k] = x /\ Stored[k].st = "sent"
      BY <1>10, <2>5
    <2>7. ASSUME NEW j \in 1 .. k - 1 PROVE Stored[j].st = "received"
      <3>1. j \in 1 .. Len(L) /\ j < k
        BY <1>6
      <3>2. Far(s, rb, L[j]) < Far(s, rb, x)
        BY <1>5, <2>6, <3>1 DEF Enum, Ascending
      <3>3. L[j] \in LiveItems(s, rb) /\ L[j] \in Entries(s, rb) /\ Far(s, rb, L[j]) \in Int
        BY <1>6, <1>8, <3>1
      <3>4. Far(s, rb, L[j]) < r
        BY <2>4, <3>2, <3>3
      <3> QED BY <1>4, <1>9, <3>1, <3>3, <3>4
    <2> QED BY <2>6, <2>7
  <1>14. ASSUME NEW k \in 1 .. Len(L), Stored[k].st = "sent", \A j \in 1 .. k - 1 : Stored[j].st = "received"
         PROVE  CheckItemAvail(rb)
    <2>1. L[k] \in LiveItems(s, rb)
      BY <1>6
    <2>2. PICK x, W : x = L[k] /\ W = WaitingItems(s, rb, A, r)
      OBVIOUS
    <2>3. x \in W
      BY <1>4, <1>9, <1>14, <2>1, <2>2
    <2>4. x \in Entries(s, rb) /\ x \in Heads(s, rb) /\ x \notin A /\ r <= Far(s, rb, x) /\ Far(s, rb, x) \in Int
      BY <1>8, <2>1, <2>2, <2>3 DEF WaitingItems
    <2>5. rb.waiting > 0
      <3>1. IsFiniteSet(W)
        <4>1. W \subseteq 0 .. s - 1
          BY <2>2 DEF WaitingItems, Entries, Heads
        <4>2. IsFiniteSet(0 .. s - 1)
          BY <1>7, FS_Interval, Sizes
        <4> QED BY <4>1, <4>2, FS_Subset
      <3>2. Cardinality(W) \in Nat /\ Cardinality(W) # 0
        BY <2>3, <3>1, FS_EmptySet, FS_CardinalityType
      <3> QED BY <1>12, <2>2, <3>2
    <2>6. rb.read # rb.write \/ rb.full
      <3> SUFFICES ASSUME rb.read = rb.write, ~rb.full PROVE FALSE
        OBVIOUS
      <3>1. Used(s, rb) = Far(s, rb, rb.acquire) /\ Far(s, rb, x) < Used(s, rb) /\ Used(s, rb) \in Int
        BY <1>7, <2>4, FarRange DEF Used
      <3>2. rb.acquire \notin Heads(s, rb)
        BY <1>7, <3>1, FarRange
      <3>3. rb.write # rb.acquire
        BY <1>7, <1>12, <2>4, <3>1, <3>2 DEF Pointer
      <3>4. PICK y : y = First(rb, rb.read)
        OBVIOUS
      <3>5. y \in A
        BY <1>7, <3>3, <3>4 DEF WriteInv
      <3>6. WaitingItems(s, rb, A, r) # {}
        BY <2>2, <2>3
      <3>7. /\ y \in Entries(s, rb) /\ Far(s, rb, y) \in Int /\ r <= Far(s, rb, y)
            /\ \A p \in Entries(s, rb) : Far(s, rb, p) < r \/ Far(s, rb, y) <= Far(s, rb, p)
        BY <1>7, <1>12, <3>4, <3>6, OldestWaiting
      <3>8. Far(s, rb, y) <= Far(s, rb, x)
        BY <1>7, <2>4, <3>7
      <3>9. y \in LiveItems(s, rb)
        <4>1. EntryInv(s, rb, A, r)
          BY <1>7 DEF BufInv
        <4> QED BY <3>7, <4>1 DEF EntryInv, LiveItems
      <3>10. PICK j \in 1 .. Len(L) : L[j] = y
        BY <1>5, <3>9 DEF Enum, RangeOf
      <3>11. Stored[j].st = "acquired"
        BY <1>4, <1>7, <1>9, <3>5, <3>7, <3>9, <3>10
      <3>12. j > k
        BY <1>6, <1>14, <3>11
      <3>13. Far(s, rb, x) < Far(s, rb, y)
        BY <1>5, <2>2, <3>10, <3>12 DEF Enum, Ascending
      <3> QED BY <2>4, <3>7, <3>8, <3>13
    <2> QED BY <1>3, <2>5, <2>6 DEF CheckItemAvail
  <1>15. ASSUME CheckItemAvail(rb) PROVE \E k \in DOMAIN Stored : Stored[k].st = "sent"
    BY <1>6, <1>10, <1>11, <1>15
  <1> QED BY <1>6, <1>13, <1>14, <1>15 DEF AvailableExactly

(* The oldest item was not returned: when nothing is live, nothing is there. *)
LEMMA NothingLive ==
  ASSUME NEW s, NEW b, NEW q, NEW h, NEW r, Placed(s, b, q, h, r), LiveItems(s, b) = {}
  PROVE  Heads(s, b) = {} /\ Used(s, b) = 0
  <1>1. /\ Sz(s) /\ Layout(s, b) /\ WrapInv(s, b) /\ r \in Int /\ 0 <= r
        /\ EntryInv(s, b, RangeOf(q), r) /\ ReadInv(s, b, RangeOf(q), r)
    BY DEF Placed, BufInv
  <1>2. ASSUME Heads(s, b) # {} PROVE FALSE
    <2>1. b.free \in Heads(s, b)
      BY <1>1, <1>2 DEF Layout
    <2>2. PICK p : p = First(b, b.free)
      OBVIOUS
    <2>3. b.mem[b.free].dummy \in BOOLEAN
      BY <1>1, <2>1, HeadFacts
    <2>4. p \in Entries(s, b)
      <3>1. CASE b.mem[b.free].dummy
        BY <1>1, <2>1, <2>2, <3>1 DEF WrapInv, First
      <3>2. CASE ~b.mem[b.free].dummy
        BY <2>1, <2>2, <3>2 DEF First, Entries
      <3> QED BY <3>1, <3>2
    <2>5. Far(s, b, p) \in Int /\ 0 <= Far(s, b, p)
      BY <1>1, <2>4, FarRange DEF Entries
    <2>6. ~b.mem[p].freed
      <3>1. CASE r > 0
        BY <1>1, <2>2, <3>1 DEF ReadInv
      <3>2. CASE r = 0
        BY <1>1, <2>4, <2>5, <3>2 DEF EntryInv
      <3> QED BY <1>1, <3>1, <3>2
    <2> QED BY <2>4, <2>6 DEF LiveItems
  <1>3. Heads(s, b) = {}
    BY <1>2
  <1>4. b.free = b.acquire /\ ~b.full /\ b.free \in 0 .. s - 1
    BY <1>1, <1>3, PointerFacts DEF Layout
  <1>5. s \in Int
    BY <1>1, Sizes
  <1>6. Used(s, b) = 0
    BY <1>4, <1>5 DEF Used, Far, Dist
  <1> QED BY <1>3, <1>6

(* An item of the reported size fits.                                        *)
LEMMA ReportedFits ==
  ASSUME config \in Configs, NEW b, Layout(config.size, b), NEW n, n = GetCurMaxSize(b), n > 0
  PROVE  CheckItemFits(b, n)
  <1>1. PICK s, a, f : s = config.size /\ a = b.acquire /\ f = b.free
    OBVIOUS
  <1>2. Sz(s) /\ config.kind \in {"nosplit", "allowsplit"}
    BY <1>1, ConfigFacts
  <1>3. /\ s \in Int /\ a \in 0 .. s - 1 /\ f \in 0 .. s - 1 /\ Aligned(a) /\ Aligned(f) /\ Aligned(s)
        /\ Header \in Int /\ Header > 0 /\ Aligned(Header) /\ b.full \in BOOLEAN
    BY <1>1, <1>2, Sizes, PointerFacts DEF Sz
  <1>4. ~b.full
    BY DEF GetCurMaxSize
  <1>5. PICK m : m = MaxItemSize
    OBVIOUS
  <1>6. \A v \in Int : Clip(v) > 0 => Clip(v) \in Nat /\ Clip(v) <= v
    <2>1. m \in Int
      <3>1. PICK y : y = AlignSize(s \div 2)
        OBVIOUS
      <3>2. y \in Int
        BY <1>2, <3>1, HalfFacts
      <3> QED BY <1>1, <1>2, <1>3, <1>5, <3>1, <3>2 DEF MaxItemSize
    <2> QED BY <1>5, <2>1 DEF Clip
  <1>7. CASE a = f
    BY <1>1, <1>2, <1>4, <1>7 DEF CheckItemFits, CheckItemFitsDefault
  <1>8. CASE a < f
    <2>1. n = Clip((f - a) - Header)
      BY <1>1, <1>2, <1>3, <1>4, <1>8 DEF GetCurMaxSize
    <2>2. n \in Nat /\ n <= (f - a) - Header
      BY <1>3, <1>6, <2>1
    <2>3. PICK v : v = (f - a) - Header
      OBVIOUS
    <2>4. Aligned(v) /\ v \in Int
      BY <1>3, <2>3, AlignedSum
    <2>5. AlignSize(n) <= v
      BY <2>2, <2>3, <2>4, AlignSizeLeast
    <2>6. AlignSize(n) \in Nat
      BY <2>2, AlignSizeType
    <2>7. AlignSize(n) + Header <= f - a
      BY <1>3, <2>3, <2>5, <2>6
    <2> QED BY <1>1, <1>2, <1>3, <1>8, <2>7 DEF CheckItemFits, CheckItemFitsDefault
  <1>9. CASE f < a /\ config.kind = "nosplit"
    <2>1. PICK l : l = Larger(s - a, f)
      OBVIOUS
    <2>2. l \in Int /\ Aligned(l) /\ (l = s - a \/ l = f)
      <3>1. Aligned(s - a)
        BY <1>3, AlignedSum
      <3> QED BY <1>3, <2>1, <3>1 DEF Larger
    <2>3. n = Clip(l - Header)
      BY <1>1, <1>3, <1>4, <1>9, <2>1 DEF GetCurMaxSize
    <2>4. n \in Nat /\ n <= l - Header
      BY <1>3, <1>6, <2>2, <2>3
    <2>5. PICK v : v = l - Header
      OBVIOUS
    <2>6. Aligned(v) /\ v \in Int
      BY <1>3, <2>2, <2>5, AlignedSum
    <2>7. AlignSize(n) <= v
      BY <2>4, <2>5, <2>6, AlignSizeLeast
    <2>8. AlignSize(n) \in Nat
      BY <2>4, AlignSizeType
    <2>9. AlignSize(n) + Header <= l
      BY <1>3, <2>2, <2>5, <2>7, <2>8
    <2>10. AlignSize(n) + Header <= s - a \/ AlignSize(n) + Header <= f
      BY <2>2, <2>9
    <2> QED BY <1>1, <1>3, <1>9, <2>10 DEF CheckItemFits, CheckItemFitsDefault
  <1>10. CASE f < a /\ config.kind = "allowsplit"
    <2>1. PICK v : v = f + s - a - 2 * Header
      OBVIOUS
    <2>2. n = Clip(v)
      BY <1>1, <1>3, <1>4, <1>10, <2>1 DEF GetCurMaxSize
    <2>3. v = (f + s) - (a + (Header + Header)) /\ v \in Int
      BY <1>3, <2>1
    <2>4. Aligned(v)
      <3>1. Aligned(f + s) /\ Aligned(Header + Header)
        BY <1>3, AlignedSum
      <3>2. Aligned(a + (Header + Header))
        BY <1>3, <3>1, AlignedSum
      <3> QED BY <2>3, <3>1, <3>2, AlignedSum
    <2>5. n \in Nat /\ n <= v
      BY <1>6, <2>2, <2>3
    <2>6. AlignSize(n) <= v
      BY <2>3, <2>4, <2>5, AlignSizeLeast
    <2>7. AlignSize(n) \in Nat
      BY <2>5, AlignSizeType
    <2>8. (AlignSize(n) + Header) + Header <= s - (a - f)
      BY <1>3, <2>3, <2>6, <2>7
    <2> QED BY <1>1, <1>3, <1>10, <2>8 DEF CheckItemFits, CheckItemFitsDefault
  <1> QED BY <1>2, <1>3, <1>7, <1>8, <1>9, <1>10

(* Nothing longer fits a no-split buffer.                                    *)
LEMMA LongerDoesNotFit ==
  ASSUME config \in Configs, config.kind = "nosplit", NEW b, Layout(config.size, b),
         NEW n \in GetCurMaxSize(b) + 1 .. MaxItemSize, CheckItemFits(b, n)
  PROVE  FALSE
  <1>1. PICK s, a, f, y : s = config.size /\ a = b.acquire /\ f = b.free /\ y = AlignSize(s \div 2)
    OBVIOUS
  <1>2. Sz(s)
    BY <1>1, ConfigFacts
  <1>3. /\ s \in Int /\ s >= 2 * Header /\ a \in 0 .. s - 1 /\ f \in 0 .. s - 1 /\ Aligned(a) /\ Aligned(f) /\ Aligned(s)
        /\ Header \in Int /\ Header > 0 /\ Aligned(Header) /\ b.full \in BOOLEAN /\ (b.full => b.free = b.acquire)
    BY <1>1, <1>2, Sizes, PointerFacts DEF Sz
  <1>4. y \in Int /\ \A x \in Int : Aligned(x) /\ s <= 2 * x => y <= x
    BY <1>1, <1>2, HalfFacts
  <1>5. PICK m : m = MaxItemSize
    OBVIOUS
  <1>6. m = y - Header
    BY <1>1, <1>5 DEF MaxItemSize
  <1>7. ~b.full
    BY <1>3 DEF CheckItemFits, CheckItemFitsDefault
  <1>8. PICK l : l = IF a < f THEN f - a ELSE Larger(s - a, f)
    OBVIOUS
  <1>9. PICK g : g = GetCurMaxSize(b)
    OBVIOUS
  <1>10. g = Clip(l - Header)
    BY <1>1, <1>7, <1>8, <1>9 DEF GetCurMaxSize
  <1>11. l \in Int /\ Aligned(l)
    <2>1. Aligned(s - a) /\ Aligned(f - a)
      BY <1>3, AlignedSum
    <2> QED BY <1>3, <1>8, <2>1 DEF Larger
  <1>12. g \in Int /\ (l - Header >= m => g >= m) /\ (l - Header < m => g >= l - Header) /\ g >= 0
    <2>1. m \in Int /\ l - Header \in Int /\ m >= 0
      <3>1. y >= s \div 2
        BY <1>1, <1>3, AlignSizeType
      <3> QED BY <1>3, <1>4, <1>6, <1>11, <3>1
    <2> QED BY <1>5, <1>10, <2>1 DEF Clip
  <1>13. n \in Int /\ g + 1 <= n /\ n <= m /\ n \in Nat
    BY <1>4, <1>5, <1>6, <1>9, <1>12, <1>3
  <1>14. l - Header < m
    BY <1>3, <1>4, <1>6, <1>11, <1>12, <1>13
  <1>15. AlignSize(n) \in Nat /\ AlignSize(n) >= n
    BY <1>13, AlignSizeType
  <1>16. CASE a = f
    <2>1. s <= 2 * l
      BY <1>3, <1>8, <1>16 DEF Larger
    <2>2. y <= l
      BY <1>4, <1>11, <2>1
    <2> QED BY <1>3, <1>4, <1>6, <1>11, <1>14, <2>2
  <1>17. CASE a # f
    <2>1. AlignSize(n) + Header <= l
      BY <1>1, <1>3, <1>8, <1>15, <1>17 DEF CheckItemFits, CheckItemFitsDefault, Larger
    <2> QED BY <1>3, <1>11, <1>12, <1>13, <1>14, <1>15, <2>1
  <1> QED BY <1>16, <1>17

(* The invariant implies CurFreeSizeTrue.                                    *)
LEMMA CurFreeSizeInv ==
  ASSUME IInv
  PROVE  CurFreeSizeTrue
  <1>1. PICK s : s = config.size
    OBVIOUS
  <1>2. config \in Configs /\ Layout(s, rb) /\ Sz(s)
    BY <1>1, ConfigFacts DEF IInv, StateInv
  <1>3. ASSUME Stored = <<>> PROVE GetFreeSize(rb) = s
    <2>1. PICK r : Placed(s, rb, sending, held, r)
      BY <1>1, PlacedExists
    <2>2. LiveItems(s, rb) = {}
      <3>1. Enum(s, rb, LiveItems(s, rb), Live)
        BY <1>1, LiveEnum
      <3>2. DOMAIN Stored = 1 .. Len(Live) /\ Len(Live) \in Nat
        BY StoredFacts
      <3>3. DOMAIN Stored = {}
        BY <1>3
      <3>4. RangeOf(Live) = {}
        BY <3>2, <3>3 DEF RangeOf
      <3> QED BY <3>1, <3>4 DEF Enum
    <2>3. Used(s, rb) = 0
      BY <2>1, <2>2, NothingLive
    <2>4. GetFreeSize(rb) = s - Used(s, rb)
      BY <1>1, <1>2, FreeSizeIs, PointerFacts
    <2> QED BY <1>2, <2>3, <2>4, Sizes
  <1>4. GetCurMaxSize(rb) > 0 => CheckItemFits(rb, GetCurMaxSize(rb))
    BY <1>1, <1>2, ReportedFits
  <1>5. config.kind = "nosplit" => \A n \in GetCurMaxSize(rb) + 1 .. MaxItemSize : ~CheckItemFits(rb, n)
    BY <1>1, <1>2, LongerDoesNotFit
  <1> QED BY <1>1, <1>3, <1>4, <1>5 DEF CurFreeSizeTrue

(* AvailableExactly holds in every reachable state, in whatever order        *)
(* xRingbufferSendComplete is called: prvCheckItemAvail never misses the     *)
(* oldest item once it is complete, and never says yes when no item is; yes  *)
(* means that the oldest one is complete where items are completed in order. *)
THEOREM AvailabilityExact ==
  ASSUME SafeUse
  PROVE  Spec => []AvailableExactly
  BY Invariant, AvailableInv, PTL

(* CurFreeSizeTrue holds in every reachable state: what                      *)
(* xRingbufferGetCurFreeSize reports can be sent, a no-split buffer takes no *)
(* longer item, and all space comes back when everything was returned.       *)
THEOREM FreeSizeTrue ==
  ASSUME SafeUse
  PROVE  Spec => []CurFreeSizeTrue
  BY Invariant, CurFreeSizeInv, PTL

-------------------------------------------------------------------------------
(*****************************************************************************)
(* Rows of entries, and what each function of the code does to them.         *)
(*****************************************************************************)

(* What there is to know of a part in the buffer.                            *)
PartRec == [item : Items \cup {Junk}, part : {0, 1, 2}, st : {"sent", "acquired", "received"}]

(* What is stored, when the headers in L are live.                           *)
Row(b, q, h, L) == [k \in 1 .. Len(L) |-> EntryOf(b, q, h, L[k])]

RowIs(b, q, h, L, F) ==
  /\ F \in Seq(PartRec) /\ Len(F) = Len(L) /\ Len(L) \in Nat /\ DOMAIN F = 1 .. Len(L)
  /\ \A k \in 1 .. Len(L) : F[k] = EntryOf(b, q, h, L[k])

(* A row is a sequence of parts.                                             *)
LEMMA RowFacts ==
  ASSUME NEW s, NEW b, Sz(s), Layout(s, b), NEW q, NEW h, NEW L, L \in Seq(0 .. s - 1), RangeOf(L) \subseteq Heads(s, b)
  PROVE  RowIs(b, q, h, L, Row(b, q, h, L))
  <1>1. Len(L) \in Nat
    OBVIOUS
  <1>2. PICK F : F = Row(b, q, h, L)
    OBVIOUS
  <1>3. DOMAIN F = 1 .. Len(L) /\ \A k \in 1 .. Len(L) : F[k] = EntryOf(b, q, h, L[k])
    BY <1>2 DEF Row
  <1>4. \A k \in 1 .. Len(L) : EntryOf(b, q, h, L[k]) \in PartRec
    <2> TAKE k \in 1 .. Len(L)
    <2>1. L[k] \in Heads(s, b)
      BY DEF RangeOf
    <2>2. b.mem[L[k]] \in HeaderRec
      BY <2>1, HeadFacts
    <2>3. b.mem[L[k]].item \in Items \cup {Junk} /\ b.mem[L[k]].part \in {0, 1, 2}
      BY <2>2 DEF HeaderRec
    <2>4. StatusOf(q, h, L[k]) \in {"sent", "acquired", "received"}
      BY DEF StatusOf
    <2> QED BY <2>3, <2>4 DEF EntryOf, PartRec
  <1>5. F \in [1 .. Len(L) -> PartRec]
    <2>1. F = [k \in 1 .. Len(L) |-> EntryOf(b, q, h, L[k])]
      BY <1>2 DEF Row
    <2> QED BY <1>4, <2>1
  <1>6. F \in Seq(PartRec) /\ Len(F) = Len(L)
    BY <1>1, <1>5
  <1>7. RowIs(b, q, h, L, F)
    BY <1>1, <1>3, <1>6 DEF RowIs
  <1> QED BY <1>2, <1>7

(* Fs is what is stored in b.                                                *)
StoredIs(s, b, q, h, F) == \E L : Enum(s, b, LiveItems(s, b), L) /\ F = Row(b, q, h, L)

(* A live item is a header, nearer than the bytes in use.                    *)
LEMMA LiveHeads ==
  ASSUME NEW s, NEW b, Sz(s), Layout(s, b)
  PROVE  \A v \in LiveItems(s, b) : /\ v \in Entries(s, b) /\ v \in Heads(s, b) /\ v \in 0 .. s - 1 /\ ~b.mem[v].freed
                                    /\ Far(s, b, v) \in Int /\ 0 <= Far(s, b, v) /\ Far(s, b, v) < Used(s, b)
  BY FarRange DEF LiveItems, Entries, Heads

(* What is stored is determined by the buffer.                               *)
LEMMA StoredUnique ==
  ASSUME NEW s, NEW b, Sz(s), Layout(s, b), NEW q, NEW h, NEW F, NEW G, StoredIs(s, b, q, h, F), StoredIs(s, b, q, h, G)
  PROVE  F = G
  <1>1. PICK L : Enum(s, b, LiveItems(s, b), L) /\ F = Row(b, q, h, L)
    BY DEF StoredIs
  <1>2. PICK M : Enum(s, b, LiveItems(s, b), M) /\ G = Row(b, q, h, M)
    BY DEF StoredIs
  <1>3. \A v \in LiveItems(s, b) : Far(s, b, v) \in Int
    BY LiveHeads
  <1>4. L = M
    BY <1>1, <1>2, <1>3, EnumUnique
  <1> QED BY <1>1, <1>2, <1>4

(* Stored is what is stored in rb.                                           *)
LEMMA StoredNow ==
  ASSUME IInv
  PROVE  StoredIs(config.size, rb, sending, held, Stored)
  <1>1. Stored = Row(rb, sending, held, Live)
    BY StoredFacts DEF Row
  <1> QED BY <1>1, LiveEnum DEF StoredIs

(* The order is the same, d nearer.                                          *)
LEMMA EnumMove ==
  ASSUME NEW s, NEW b, NEW c, NEW S, NEW L, Enum(s, b, S, L), NEW d \in Int,
         \A v \in S : Far(s, b, v) \in Int /\ Far(s, c, v) = Far(s, b, v) - d
  PROVE  Enum(s, c, S, L)
  <1>1. \A k \in 1 .. Len(L) : L[k] \in S
    BY DEF Enum, RangeOf
  <1>2. Ascending(s, c, L)
    <2> SUFFICES ASSUME NEW j \in 1 .. Len(L), NEW k \in 1 .. Len(L), j < k
                 PROVE  Far(s, c, L[j]) < Far(s, c, L[k])
      BY DEF Ascending
    <2>1. Far(s, b, L[j]) < Far(s, b, L[k])
      BY DEF Enum, Ascending
    <2> QED BY <1>1, <2>1
  <1> QED BY <1>2 DEF Enum

(* One that is farther than all of L goes last.                              *)
LEMMA EnumSnoc ==
  ASSUME NEW s, NEW b, NEW S, NEW L, Enum(s, b, S, L), NEW x \in 0 .. s - 1,
         \A v \in S : Far(s, b, v) < Far(s, b, x), NEW T, T = S \cup {x}
  PROVE  Enum(s, b, T, Append(L, x))
  <1>1. PICK X, M : X = 0 .. s - 1 /\ M = Append(L, x)
    OBVIOUS
  <1>2. L \in Seq(X) /\ RangeOf(L) = S /\ x \in X
    BY <1>1 DEF Enum
  <1>3. /\ M \in Seq(X) /\ RangeOf(M) = RangeOf(L) \cup {x}
        /\ Len(M) = Len(L) + 1 /\ M[Len(L) + 1] = x
        /\ \A k \in 1 .. Len(L) : M[k] = L[k] /\ L[k] \in RangeOf(L)
    <2>1. L \in Seq(X) /\ x \in X /\ M = Append(L, x)
      BY <1>1, <1>2
    <2> QED BY <2>1, RangeAppend
  <1>4. Len(L) \in Nat
    BY <1>2
  <1>5. Ascending(s, b, M)
    <2> SUFFICES ASSUME NEW j \in 1 .. Len(M), NEW k \in 1 .. Len(M), j < k
                 PROVE  Far(s, b, M[j]) < Far(s, b, M[k])
      BY DEF Ascending
    <2>1. j \in 1 .. Len(L) /\ (k \in 1 .. Len(L) \/ k = Len(L) + 1)
      BY <1>3, <1>4
    <2>2. CASE k \in 1 .. Len(L)
      BY <1>3, <2>1, <2>2 DEF Enum, Ascending
    <2>3. CASE k = Len(L) + 1
      BY <1>2, <1>3, <2>1, <2>3
    <2> QED BY <2>1, <2>2, <2>3
  <1> QED BY <1>1, <1>2, <1>3, <1>5 DEF Enum

(* One of S may be left out.                                                 *)
LEMMA EnumDrop ==
  ASSUME NEW s, NEW b, NEW S, NEW L, Enum(s, b, S, L), NEW k \in 1 .. Len(L), NEW T, T = S \ {L[k]},
         \A v \in S : Far(s, b, v) \in Int
  PROVE  \E M : Enum(s, b, T, M) /\ Dropped(L, k, M)
  <1>1. PICK X, n : X = 0 .. s - 1 /\ n = Len(L) - 1
    OBVIOUS
  <1>2. L \in Seq(X) /\ Len(L) \in Nat /\ n \in Nat /\ \A j \in 1 .. Len(L) : L[j] \in X /\ L[j] \in S
    <2>1. L \in Seq(X)
      BY <1>1 DEF Enum
    <2>2. \A j \in 1 .. Len(L) : L[j] \in S
      BY DEF Enum, RangeOf
    <2>3. Len(L) \in Nat /\ \A j \in 1 .. Len(L) : L[j] \in X
      BY <2>1
    <2> QED BY <1>1, <2>1, <2>2, <2>3
  <1>3. PICK M : M = [j \in 1 .. n |-> IF j < k THEN L[j] ELSE L[j + 1]]
    OBVIOUS
  <1>4. \A j \in 1 .. n : j \in 1 .. Len(L) /\ j + 1 \in 1 .. Len(L)
    BY <1>1, <1>2
  <1>5. M \in [1 .. n -> X]
    BY <1>2, <1>3, <1>4
  <1>6. M \in Seq(X) /\ Len(M) = n
    BY <1>2, <1>5
  <1>7. Dropped(L, k, M)
    BY <1>1, <1>3, <1>6 DEF Dropped
  <1>8. \A i \in 1 .. Len(L), j \in 1 .. Len(L) : i # j => L[i] # L[j]
    <2>1. \A i \in 1 .. Len(L), j \in 1 .. Len(L) : i < j => L[i] # L[j]
      BY <1>2 DEF Enum, Ascending
    <2> QED BY <1>2, <2>1
  <1>9. RangeOf(M) = T
    <2>1. ASSUME NEW j \in 1 .. n PROVE M[j] \in T
      <3>1. CASE j < k
        <4>1. M[j] = L[j] /\ L[j] # L[k] /\ L[j] \in S
          BY <1>2, <1>3, <1>4, <1>8, <3>1
        <4> QED BY <4>1
      <3>2. CASE ~(j < k)
        <4>1. M[j] = L[j + 1] /\ j + 1 \in 1 .. Len(L) /\ j + 1 # k
          BY <1>2, <1>3, <1>4, <3>2
        <4> QED BY <1>2, <1>8, <4>1
      <3> QED BY <3>1, <3>2
    <2>2. ASSUME NEW v \in T PROVE \E j \in 1 .. n : v = M[j]
      <3>1. PICK i \in 1 .. Len(L) : v = L[i]
        BY DEF Enum, RangeOf
      <3>2. i # k
        BY <3>1
      <3>3. CASE i < k
        <4>1. i \in 1 .. n /\ M[i] = L[i]
          BY <1>1, <1>2, <1>3, <3>3
        <4> QED BY <3>1, <4>1
      <3>4. CASE i > k
        <4>1. i - 1 \in 1 .. n /\ ~(i - 1 < k) /\ (i - 1) + 1 = i
          BY <1>1, <1>2, <3>4
        <4>2. M[i - 1] = L[(i - 1) + 1]
          BY <1>3, <4>1
        <4> QED BY <3>1, <4>1, <4>2
      <3> QED BY <1>2, <3>2, <3>3, <3>4
    <2> QED BY <1>6, <2>1, <2>2 DEF RangeOf
  <1>10. Ascending(s, b, M)
    <2> SUFFICES ASSUME NEW i \in 1 .. n, NEW j \in 1 .. n, i < j PROVE Far(s, b, M[i]) < Far(s, b, M[j])
      BY <1>6 DEF Ascending
    <2>1. PICK u, v : u = (IF i < k THEN i ELSE i + 1) /\ v = (IF j < k THEN j ELSE j + 1)
      OBVIOUS
    <2>2. u \in 1 .. Len(L) /\ v \in 1 .. Len(L) /\ u < v
      BY <1>2, <1>4, <2>1
    <2>3. M[i] = L[u] /\ M[j] = L[v]
      BY <1>3, <2>1
    <2> QED BY <2>2, <2>3 DEF Enum, Ascending
  <1>11. Enum(s, b, T, M)
    BY <1>1, <1>6, <1>9, <1>10 DEF Enum
  <1> QED BY <1>7, <1>11

Longer(F, e, G) == G = Append(F, e)

(* A new item is stored last.                                                *)
LEMMA RowAppend ==
  ASSUME NEW s, NEW b, Sz(s), Layout(s, b), NEW q, NEW h, NEW L, L \in Seq(0 .. s - 1), RangeOf(L) \subseteq Heads(s, b),
         NEW x \in Heads(s, b), NEW M, Longer(L, x, M), NEW F, F = Row(b, q, h, L), NEW e, e = EntryOf(b, q, h, x)
  PROVE  Longer(F, e, Row(b, q, h, M))
  <1>1. PICK X, G : X = 0 .. s - 1 /\ G = Row(b, q, h, M) /\ M = Append(L, x)
    BY DEF Longer
  <1>2. L \in Seq(X) /\ x \in X
    BY <1>1 DEF Heads
  <1>3. M \in Seq(X) /\ RangeOf(M) = RangeOf(L) \cup {x} /\ Len(M) = Len(L) + 1 /\ M[Len(L) + 1] = x
        /\ \A k \in 1 .. Len(L) : M[k] = L[k] /\ L[k] \in RangeOf(L)
    <2>1. L \in Seq(X) /\ x \in X /\ M = Append(L, x)
      BY <1>1, <1>2
    <2> QED BY <2>1, RangeAppend
  <1>4. F \in Seq(PartRec) /\ Len(F) = Len(L) /\ Len(L) \in Nat /\ \A k \in 1 .. Len(L) : F[k] = EntryOf(b, q, h, L[k])
    <2>1. RowIs(b, q, h, L, F)
      BY <1>1, RowFacts
    <2> QED BY <2>1 DEF RowIs
  <1>5. M \in Seq(0 .. s - 1) /\ RangeOf(M) \subseteq Heads(s, b)
    BY <1>1, <1>3
  <1>6. G \in Seq(PartRec) /\ Len(G) = Len(M) /\ \A k \in 1 .. Len(M) : G[k] = EntryOf(b, q, h, M[k])
    <2>1. RowIs(b, q, h, M, G)
      BY <1>1, <1>5, RowFacts
    <2> QED BY <2>1 DEF RowIs
  <1>7. G[Len(L) + 1] = e /\ e \in PartRec
    <2>1. Len(L) + 1 \in 1 .. Len(M)
      BY <1>3, <1>4
    <2>2. G[Len(L) + 1] = e
      BY <1>1, <1>3, <1>6, <2>1
    <2> QED BY <1>6, <2>1, <2>2
  <1>8. PICK H : H = Append(F, e)
    OBVIOUS
  <1>9. H \in Seq(PartRec) /\ Len(H) = Len(F) + 1 /\ (\A k \in 1 .. Len(F) : H[k] = F[k]) /\ H[Len(F) + 1] = e
    BY <1>4, <1>7, <1>8, AppendProperties
  <1>10. \A k \in 1 .. Len(G) : G[k] = H[k]
    <2> TAKE k \in 1 .. Len(G)
    <2>1. CASE k \in 1 .. Len(L)
      <3>1. k \in 1 .. Len(M)
        BY <1>6
      <3> QED BY <1>3, <1>4, <1>6, <1>9, <2>1, <3>1
    <2>2. CASE k = Len(L) + 1
      BY <1>4, <1>7, <1>9, <2>2
    <2> QED BY <1>3, <1>4, <1>6, <2>1, <2>2
  <1>11. Len(G) = Len(H)
    BY <1>3, <1>4, <1>6, <1>9
  <1>12. G = H
    BY <1>6, <1>9, <1>10, <1>11, SeqEqual
  <1> QED BY <1>1, <1>8, <1>12 DEF Longer

(* The rows of b and c are the same when their entries are.                  *)
LEMMA RowSame ==
  ASSUME NEW b, NEW q, NEW h, NEW c, NEW q2, NEW h2, NEW L,
         \A v \in RangeOf(L) : EntryOf(c, q2, h2, v) = EntryOf(b, q, h, v)
  PROVE  Row(c, q2, h2, L) = Row(b, q, h, L)
  <1>1. \A k \in 1 .. Len(L) : EntryOf(c, q2, h2, L[k]) = EntryOf(b, q, h, L[k])
    BY DEF RangeOf
  <1> QED BY <1>1 DEF Row

(* c has the entries of b, and x after them.                                 *)
Added(s, b, q, h, c, q2, h2, x) ==
  /\ LiveItems(s, c) = LiveItems(s, b) \cup {x} /\ x \in 0 .. s - 1
  /\ \A v \in LiveItems(s, b) : /\ Far(s, c, v) = Far(s, b, v) /\ Far(s, c, v) < Far(s, c, x)
                                /\ EntryOf(c, q2, h2, v) = EntryOf(b, q, h, v)

(* An item after all others adds its entry to the row.                       *)
LEMMA AddedStored ==
  ASSUME NEW s, Sz(s), NEW b, Layout(s, b), NEW q, NEW h, NEW c, Layout(s, c), NEW q2, NEW h2, NEW x,
         Added(s, b, q, h, c, q2, h2, x), NEW F, StoredIs(s, b, q, h, F)
  PROVE  StoredIs(s, c, q2, h2, Append(F, EntryOf(c, q2, h2, x)))
  <1>1. PICK L : Enum(s, b, LiveItems(s, b), L) /\ F = Row(b, q, h, L)
    BY DEF StoredIs
  <1>2. \A v \in LiveItems(s, b) : Far(s, b, v) \in Int /\ Far(s, c, v) = Far(s, b, v) - 0
    BY LiveHeads DEF Added
  <1>3. Enum(s, c, LiveItems(s, b), L)
    BY <1>1, <1>2, EnumMove
  <1>4. PICK S, T : S = LiveItems(s, b) /\ T = LiveItems(s, c)
    OBVIOUS
  <1>5. T = S \cup {x} /\ x \in 0 .. s - 1 /\ \A v \in S : Far(s, c, v) < Far(s, c, x)
    BY <1>4 DEF Added
  <1>6. Enum(s, c, T, Append(L, x))
    BY <1>3, <1>4, <1>5, EnumSnoc
  <1>7. L \in Seq(0 .. s - 1) /\ RangeOf(L) = S
    BY <1>1, <1>4 DEF Enum
  <1>8. S \subseteq Heads(s, c) /\ x \in Heads(s, c)
    <2>1. T \subseteq Heads(s, c)
      BY <1>4, LiveHeads
    <2> QED BY <1>5, <2>1
  <1>9. Row(c, q2, h2, Append(L, x)) = Append(Row(c, q2, h2, L), EntryOf(c, q2, h2, x))
    <2>1. RangeOf(L) \subseteq Heads(s, c) /\ L \in Seq(0 .. s - 1) /\ x \in Heads(s, c)
      BY <1>7, <1>8
    <2>2. PICK M, R, e : M = Append(L, x) /\ R = Row(c, q2, h2, L) /\ e = EntryOf(c, q2, h2, x)
      OBVIOUS
    <2>3. Longer(L, x, M)
      BY <2>2 DEF Longer
    <2>4. Longer(R, e, Row(c, q2, h2, M))
      BY <2>1, <2>2, <2>3, RowAppend
    <2> QED BY <2>2, <2>4 DEF Longer
  <1>10. Row(c, q2, h2, L) = Row(b, q, h, L)
    <2>1. \A v \in RangeOf(L) : EntryOf(c, q2, h2, v) = EntryOf(b, q, h, v)
      BY <1>4, <1>7 DEF Added
    <2> QED BY <2>1, RowSame
  <1>11. Row(c, q2, h2, Append(L, x)) = Append(F, EntryOf(c, q2, h2, x))
    BY <1>1, <1>9, <1>10
  <1> QED BY <1>4, <1>6, <1>11 DEF StoredIs

(* Two ways to say that v is in a sequence.                                  *)
LEMMA RangeDomain ==
  ASSUME NEW S, NEW q \in Seq(S)
  PROVE  \A v : (\E k \in DOMAIN q : q[k] = v) <=> v \in RangeOf(q)
  <1>1. DOMAIN q = 1 .. Len(q)
    OBVIOUS
  <1> QED BY <1>1 DEF RangeOf

(* What is not live is not held.                                             *)
LEMMA HeldLive ==
  ASSUME NEW s, NEW b, NEW q, NEW h, NEW r, Placed(s, b, q, h, r)
  PROVE  \A x \in h : x.at \in LiveItems(s, b) /\ x.at \in Entries(s, b) /\ Far(s, b, x.at) < r /\ x = HeldAt(b, x.at)
  <1>1. h = HeldSet(s, b, r) /\ Sz(s)
    BY DEF Placed, BufInv, HeldSet
  <1>2. \A x \in h : x.at \in ReceivedItems(s, b, r) /\ x = HeldAt(b, x.at)
    BY <1>1, HeldFinite
  <1> QED BY <1>2 DEF ReceivedItems, LiveItems

(* The new headers of c come after those of b.                               *)
LEMMA GrownLive ==
  ASSUME NEW s, Sz(s), NEW b, Layout(s, b), NEW c, Layout(s, c), Grown(s, b, c),
         \A p \in NewEntries(s, b, c) : ~c.mem[p].freed
  PROVE  /\ LiveItems(s, c) = LiveItems(s, b) \cup NewEntries(s, b, c)
         /\ Entries(s, b) \cap NewEntries(s, b, c) = {}
         /\ \A v : Far(s, c, v) = Far(s, b, v)
         /\ \A v \in LiveItems(s, b) : c.mem[v] = b.mem[v]
         /\ \A v \in LiveItems(s, b), x \in NewEntries(s, b, c) : Far(s, c, v) < Far(s, c, x)
         /\ NewEntries(s, b, c) \subseteq 0 .. s - 1
  <1>1. /\ Entries(s, c) = Entries(s, b) \cup NewEntries(s, b, c)
        /\ Entries(s, b) \cap NewEntries(s, b, c) = {}
        /\ \A p \in NewEntries(s, b, c) : Used(s, b) <= Far(s, b, p)
    BY GrownEntries
  <1>2. \A p \in Heads(s, b) : c.mem[p] = b.mem[p]
    BY GrownFacts
  <1>3. \A v : Far(s, c, v) = Far(s, b, v)
    BY GrownFacts
  <1>4. \A v \in Entries(s, b) : c.mem[v] = b.mem[v]
    BY <1>2 DEF Entries
  <1>5. LiveItems(s, c) = LiveItems(s, b) \cup NewEntries(s, b, c)
    <2>1. PICK E, N : E = Entries(s, b) /\ N = NewEntries(s, b, c)
      OBVIOUS
    <2>2. Entries(s, c) = E \cup N /\ (\A v \in E : c.mem[v] = b.mem[v]) /\ \A v \in N : ~c.mem[v].freed
      BY <1>1, <1>4, <2>1
    <2>3. {v \in E \cup N : ~c.mem[v].freed} = {v \in E : ~b.mem[v].freed} \cup N
      BY <2>2
    <2> QED BY <2>1, <2>2, <2>3 DEF LiveItems
  <1>6. ASSUME NEW v \in LiveItems(s, b), NEW x \in NewEntries(s, b, c) PROVE Far(s, c, v) < Far(s, c, x)
    <2>1. Far(s, b, v) \in Int /\ Far(s, b, v) < Used(s, b) /\ Used(s, b) \in Int
      BY LiveHeads, FarRange
    <2>2. Used(s, b) <= Far(s, b, x)
      BY <1>1
    <2>3. Far(s, c, x) \in Int
      BY FarRange DEF NewEntries, Entries
    <2>4. Far(s, c, x) = Far(s, b, x) /\ Far(s, c, v) = Far(s, b, v)
      BY <1>3
    <2> QED BY <2>1, <2>2, <2>3, <2>4
  <1>7. NewEntries(s, b, c) \subseteq 0 .. s - 1
    BY DEF NewEntries, Entries, Heads
  <1>8. \A v \in LiveItems(s, b) : c.mem[v] = b.mem[v]
    BY <1>4 DEF LiveItems
  <1> QED BY <1>1, <1>3, <1>5, <1>6, <1>7, <1>8

NewPart(i, k, st) == [item |-> i, part |-> k, st |-> st]

(* The invariant, with the distance of pucRead.                              *)
LEMMA StatePlaced ==
  ASSUME config \in Configs, NEW s, s = config.size, NEW b, NEW q, NEW h, StateInv(config, b, q, h)
  PROVE  Sz(s) /\ Layout(s, b) /\ q \in Seq(0 .. s - 1) /\ \E r : Placed(s, b, q, h, r)
  <1>1. /\ Sz(s) /\ Layout(s, b) /\ WrapInv(s, b) /\ q \in Seq(0 .. s - 1)
        /\ \E r \in 0 .. s : BufInv(s, b, RangeOf(q), h, r)
    BY StateFacts
  <1>2. PICK r \in 0 .. s : BufInv(s, b, RangeOf(q), h, r)
    BY <1>1
  <1>3. r \in Int /\ 0 <= r
    BY <1>1, Sizes
  <1>4. Placed(s, b, q, h, r)
    BY <1>1, <1>2, <1>3 DEF Placed
  <1> QED BY <1>1, <1>4

(* Completing an item changes its flag written.                              *)
LEMMA CompletedLive ==
  ASSUME NEW s, Sz(s), NEW b, Layout(s, b), NEW c, NEW p \in Heads(s, b), Completed(s, b, c, p)
  PROVE  /\ Layout(s, c) /\ LiveItems(s, c) = LiveItems(s, b) /\ \A v : Far(s, c, v) = Far(s, b, v)
         /\ \A v \in LiveItems(s, b) : c.mem[v].item = b.mem[v].item /\ c.mem[v].part = b.mem[v].part
  <1>1. SameHeads(s, b, c) /\ c.mem[p].freed = b.mem[p].freed /\ \A v \in Heads(s, b) : v # p => c.mem[v] = b.mem[v]
    BY DEF Completed
  <1>2. Layout(s, c) /\ Entries(s, c) = Entries(s, b)
    BY <1>1, SameLayout
  <1>3. \A v : Far(s, c, v) = Far(s, b, v)
    BY <1>1, SameLayout
  <1>4. \A v \in Heads(s, b) : c.mem[v].freed = b.mem[v].freed
    BY <1>1
  <1>5. LiveItems(s, c) = LiveItems(s, b)
    BY <1>2, <1>4 DEF LiveItems, Entries
  <1>6. \A v \in LiveItems(s, b) : c.mem[v].item = b.mem[v].item /\ c.mem[v].part = b.mem[v].part
    BY <1>1 DEF SameHeads, LiveItems, Entries
  <1> QED BY <1>2, <1>3, <1>5, <1>6

(* c has the item i at x, after all that is live in b.                       *)
Joined(s, b, c, x, i) ==
  /\ Layout(s, c) /\ LiveItems(s, c) = LiveItems(s, b) \cup {x} /\ x \in 0 .. s - 1 /\ x \notin LiveItems(s, b)
  /\ \A v : Far(s, c, v) = Far(s, b, v)
  /\ \A v \in LiveItems(s, b) : /\ Far(s, c, v) < Far(s, c, x)
                                /\ c.mem[v].item = b.mem[v].item /\ c.mem[v].part = b.mem[v].part
  /\ x \in Heads(s, c) /\ c.mem[x].item = i /\ c.mem[x].part = 1

(* prvAcquireItemNoSplit adds an item after those that are live.             *)
LEMMA AcquireJoins ==
  ASSUME config \in Configs, config.kind = "nosplit", NEW s, s = config.size,
         NEW b, NEW q, NEW h, StateInv(config, b, q, h),
         NEW i \in Items, NEW n \in Nat, n <= MaxItemSize, CheckItemFits(b, n),
         NEW c, c = AcquireItem(b, i, n), NEW start, start = AcquireStart(b, n)
  PROVE  Joined(s, b, c, start, i)
  <1>1. Sz(s) /\ Layout(s, b) /\ Shape(b)
    BY StateFacts
  <1>4. /\ Layout(s, c) /\ Grown(s, b, c) /\ NewEntries(s, b, c) = {start} /\ c.mem[start] = NewHeader(n, i, 1)
    BY <1>1, AcquireGrown
  <1>5. ~c.mem[start].freed /\ c.mem[start].item = i /\ c.mem[start].part = 1
    <2>1. i \in Items \cup {Junk} /\ 1 \in {0, 1, 2}
      OBVIOUS
    <2>2. ~NewHeader(n, i, 1).freed /\ NewHeader(n, i, 1).item = i /\ NewHeader(n, i, 1).part = 1
      BY <2>1, NewHeaderType
    <2> QED BY <1>4, <2>2
  <1>6. \A p \in NewEntries(s, b, c) : ~c.mem[p].freed
    BY <1>4, <1>5
  <1>7. /\ LiveItems(s, c) = LiveItems(s, b) \cup NewEntries(s, b, c)
        /\ Entries(s, b) \cap NewEntries(s, b, c) = {}
        /\ \A v : Far(s, c, v) = Far(s, b, v)
        /\ \A v \in LiveItems(s, b) : c.mem[v] = b.mem[v]
        /\ \A v \in LiveItems(s, b), x \in NewEntries(s, b, c) : Far(s, c, v) < Far(s, c, x)
        /\ NewEntries(s, b, c) \subseteq 0 .. s - 1
    BY <1>1, <1>4, <1>6, GrownLive
  <1>8. start \in 0 .. s - 1 /\ start \notin Entries(s, b)
    BY <1>4, <1>7
  <1>9. start \in Heads(s, c)
    BY <1>4 DEF NewEntries, Entries
  <1>10. start \notin LiveItems(s, b)
    BY <1>8 DEF LiveItems
  <1> QED BY <1>4, <1>5, <1>7, <1>8, <1>9, <1>10 DEF Joined

(* The order is known when an item joins.                                    *)
LEMMA JoinedFifo ==
  ASSUME NEW s, NEW b, NEW q, NEW h, NEW r, Placed(s, b, q, h, r), NEW c, NEW x, NEW i, Joined(s, b, c, x, i),
         NEW q2, \A v \in LiveItems(s, b) : StatusOf(q2, h, v) = StatusOf(q, h, v),
         NEW st, st = (IF \E k \in DOMAIN q2 : q2[k] = x THEN "acquired" ELSE "sent"),
         NEW F, StoredIs(s, b, q, h, F), NEW e, e = NewPart(i, 1, st), NEW G, Longer(F, e, G)
  PROVE  StoredIs(s, c, q2, h, G)
  <1>1. Sz(s) /\ Layout(s, b) /\ Layout(s, c)
    BY DEF Placed, Joined
  <1>2. \A v \in LiveItems(s, b) : EntryOf(c, q2, h, v) = EntryOf(b, q, h, v)
    BY DEF EntryOf, Joined
  <1>3. EntryOf(c, q2, h, x) = e
    <2>1. \A y \in h : y.at # x
      BY HeldLive DEF Joined
    <2>2. StatusOf(q2, h, x) = st
      BY <2>1 DEF StatusOf
    <2>3. c.mem[x].item = i /\ c.mem[x].part = 1
      BY DEF Joined
    <2> QED BY <2>2, <2>3 DEF EntryOf, NewPart
  <1>4. Added(s, b, q, h, c, q2, h, x)
    BY <1>2 DEF Added, Joined
  <1>5. StoredIs(s, c, q2, h, Append(F, EntryOf(c, q2, h, x)))
    BY <1>1, <1>4, AddedStored
  <1> QED BY <1>3, <1>5 DEF Longer

(* Acquiring appends an entry.                                               *)
LEMMA AcquireFifo ==
  ASSUME config \in Configs, config.kind = "nosplit", NEW s, s = config.size,
         NEW b, NEW q, NEW h, StateInv(config, b, q, h),
         NEW i \in Items, NEW n \in Nat, n <= MaxItemSize, CheckItemFits(b, n),
         NEW c, c = AcquireItem(b, i, n), NEW start, start = AcquireStart(b, n), NEW q2, Longer(q, start, q2),
         NEW F, StoredIs(s, b, q, h, F), NEW e, e = NewPart(i, 1, "acquired"), NEW G, Longer(F, e, G)
  PROVE  StoredIs(s, c, q2, h, G)
  <1>1. Sz(s) /\ Layout(s, b) /\ q \in Seq(0 .. s - 1) /\ \E r : Placed(s, b, q, h, r)
    BY StatePlaced
  <1>2. PICK r : Placed(s, b, q, h, r)
    BY <1>1
  <1>3. Joined(s, b, c, start, i)
    BY AcquireJoins
  <1>4. start \in 0 .. s - 1 /\ start \notin LiveItems(s, b)
    BY <1>3 DEF Joined
  <1>9. q2 \in Seq(0 .. s - 1) /\ RangeOf(q2) = RangeOf(q) \cup {start}
    <2>1. PICK X : X = 0 .. s - 1
      OBVIOUS
    <2>2. q \in Seq(X) /\ start \in X
      BY <1>1, <1>4, <2>1
    <2>3. q2 \in Seq(X) /\ RangeOf(q2) = RangeOf(q) \cup {start}
      BY <2>2, RangeAppend DEF Longer
    <2> QED BY <2>1, <2>3
  <1>10. \A v : (\E k \in DOMAIN q : q[k] = v) <=> v \in RangeOf(q)
    BY <1>1, RangeDomain
  <1>11. \A v : (\E k \in DOMAIN q2 : q2[k] = v) <=> v \in RangeOf(q2)
    BY <1>9, RangeDomain
  <1>12. ASSUME NEW v \in LiveItems(s, b) PROVE StatusOf(q2, h, v) = StatusOf(q, h, v)
    <2>1. v # start
      BY <1>4
    <2>2. v \in RangeOf(q2) <=> v \in RangeOf(q)
      BY <1>9, <2>1
    <2>3. (\E k \in DOMAIN q : q[k] = v) <=> (\E k \in DOMAIN q2 : q2[k] = v)
      BY <1>10, <1>11, <2>2
    <2> QED BY <2>3, Zenon DEF StatusOf
  <1>13. \E k \in DOMAIN q2 : q2[k] = start
    BY <1>9, <1>11
  <1>14. PICK st : st = (IF \E k \in DOMAIN q2 : q2[k] = start THEN "acquired" ELSE "sent")
    OBVIOUS
  <1>15. st = "acquired"
    BY <1>13, <1>14
  <1>16. e = NewPart(i, 1, st)
    BY <1>15
  <1> QED BY <1>2, <1>3, <1>12, <1>14, <1>16, JoinedFifo

(* Sending to a no-split buffer acquires and completes.                      *)
LEMMA SendNoSplitFifo ==
  ASSUME config \in Configs, config.kind = "nosplit", NEW s, s = config.size,
         NEW b, NEW q, NEW h, StateInv(config, b, q, h), config.inOrder => q = <<>>,
         NEW i \in Items, NEW n \in Nat, n <= MaxItemSize, CheckItemFits(b, n),
         NEW c, c = CopyItemNoSplit(b, i, n),
         NEW F, StoredIs(s, b, q, h, F), NEW e, e = NewPart(i, 1, "sent"), NEW G, Longer(F, e, G)
  PROVE  StoredIs(s, c, q, h, G)
  <1>1. PICK m, start, t : m = AcquireItem(b, i, n) /\ start = AcquireStart(b, n) /\ t = Append(q, start)
    OBVIOUS
  <1>2. Sz(s) /\ Layout(s, b) /\ \E r : Placed(s, b, q, h, r)
    BY StatePlaced
  <1>3. PICK r : Placed(s, b, q, h, r)
    BY <1>2
  <1>4. Completed(s, m, c, start)
    BY <1>1, SendNoSplitParts
  <1>5. Joined(s, b, m, start, i)
    BY <1>1, AcquireJoins
  <1>6. start \in Heads(s, m) /\ Layout(s, m) /\ start \in LiveItems(s, m)
    BY <1>5 DEF Joined
  <1>7. /\ Layout(s, c) /\ LiveItems(s, c) = LiveItems(s, m) /\ \A v : Far(s, c, v) = Far(s, m, v)
        /\ \A v \in LiveItems(s, m) : c.mem[v].item = m.mem[v].item /\ c.mem[v].part = m.mem[v].part
    BY <1>2, <1>4, <1>6, CompletedLive
  <1>8. start \in Heads(s, c)
    BY <1>2, <1>6, <1>7, LiveHeads
  <1>9. Joined(s, b, c, start, i)
    BY <1>5, <1>6, <1>7, <1>8 DEF Joined
  <1>10. PICK st : st = (IF \E k \in DOMAIN q : q[k] = start THEN "acquired" ELSE "sent")
    OBVIOUS
  <1>11. st = "sent"
    <2>1. q \in Seq(0 .. s - 1) /\ WriteInv(s, b, RangeOf(q)) /\ EntryInv(s, b, RangeOf(q), r) /\ r \in Int
      BY <1>3 DEF Placed, BufInv, StateInv
    <2>2. \A v \in RangeOf(q) : v \in Entries(s, b) /\ Far(s, b, v) \in Int
      BY <1>2, <2>1, FarRange DEF WriteInv, Entries
    <2>3. RangeOf(q) \subseteq LiveItems(s, b)
      BY <2>1, <2>2 DEF EntryInv, LiveItems
    <2>4. start \notin RangeOf(q)
      BY <1>5, <2>3 DEF Joined
    <2> QED BY <1>10, <2>1, <2>4, RangeDomain
  <1>12. StoredIs(s, c, q, h, G)
    <2>1. e = NewPart(i, 1, st)
      BY <1>11
    <2> QED BY <1>3, <1>9, <1>10, <2>1, JoinedFifo
  <1> QED BY <1>12

(* F is the row of the headers in S.                                         *)
RowOf(s, b, q, h, S, F) == \E L : Enum(s, b, S, L) /\ F = Row(b, q, h, L)

(* The row does not change when order and entries do not.                    *)
LEMMA RowMove ==
  ASSUME NEW s, NEW b, NEW q, NEW h, NEW S, NEW F, RowOf(s, b, q, h, S, F), NEW c, NEW q2, NEW h2, NEW d \in Int,
         \A v \in S : Far(s, b, v) \in Int /\ Far(s, c, v) = Far(s, b, v) - d,
         \A v \in S : EntryOf(c, q2, h2, v) = EntryOf(b, q, h, v)
  PROVE  RowOf(s, c, q2, h2, S, F)
  <1>1. PICK L : Enum(s, b, S, L) /\ F = Row(b, q, h, L)
    BY DEF RowOf
  <1>2. Enum(s, c, S, L)
    BY <1>1, EnumMove
  <1>3. RangeOf(L) = S
    BY <1>1 DEF Enum
  <1>4. \A v \in RangeOf(L) : EntryOf(c, q2, h2, v) = EntryOf(b, q, h, v)
    BY <1>3
  <1>5. Row(c, q2, h2, L) = Row(b, q, h, L)
    BY <1>4, RowSame
  <1> QED BY <1>1, <1>2, <1>5 DEF RowOf

(* An item after all those of a row appends its entry.                       *)
LEMMA RowSnoc ==
  ASSUME NEW s, Sz(s), NEW b, Layout(s, b), NEW q, NEW h, NEW S, NEW F, RowOf(s, b, q, h, S, F), S \subseteq Heads(s, b),
         NEW x \in Heads(s, b), \A v \in S : Far(s, b, v) < Far(s, b, x), NEW T, T = S \cup {x},
         NEW e, e = EntryOf(b, q, h, x), NEW G, Longer(F, e, G)
  PROVE  RowOf(s, b, q, h, T, G)
  <1>1. PICK L : Enum(s, b, S, L) /\ F = Row(b, q, h, L)
    BY DEF RowOf
  <1>2. PICK M : M = Append(L, x)
    OBVIOUS
  <1>3. x \in 0 .. s - 1
    BY DEF Heads
  <1>4. Enum(s, b, T, M)
    BY <1>1, <1>2, <1>3, EnumSnoc
  <1>5. L \in Seq(0 .. s - 1) /\ RangeOf(L) \subseteq Heads(s, b)
    BY <1>1 DEF Enum
  <1>6. Longer(L, x, M)
    BY <1>2 DEF Longer
  <1>7. Longer(F, e, Row(b, q, h, M))
    BY <1>1, <1>5, <1>6, RowAppend
  <1>8. G = Row(b, q, h, M)
    BY <1>7 DEF Longer
  <1> QED BY <1>4, <1>8 DEF RowOf

(* What a send adds to the row: the item, whole or in two parts.             *)
Sends(F, i, G) ==
  \/ Longer(F, NewPart(i, 1, "sent"), G)
  \/ \E M : Longer(F, NewPart(i, 1, "sent"), M) /\ Longer(M, NewPart(i, 2, "sent"), G)

SendsTo(s, c, q, h, F, i) == \E G : StoredIs(s, c, q, h, G) /\ Sends(F, i, G)

(* Sending to an allow-split buffer appends one entry or two.                *)
LEMMA SendAllowSplitFifo ==
  ASSUME config \in Configs, config.kind = "allowsplit", NEW s, s = config.size,
         NEW b, NEW h, StateInv(config, b, <<>>, h),
         NEW i \in Items, NEW n \in Nat, n <= MaxItemSize, CheckItemFits(b, n),
         NEW c, c = CopyItemAllowSplit(b, i, n), NEW F, StoredIs(s, b, <<>>, h, F)
  PROVE  SendsTo(s, c, <<>>, h, F, i)
  <1>1. Sz(s) /\ Layout(s, b) /\ Shape(b)
    BY StateFacts
  <1>2. PICK r : Placed(s, b, <<>>, h, r)
    BY StatePlaced
  <1>3. Sent(s, b, c, i)
    BY <1>1, CopySent
  <1>4. /\ Layout(s, c) /\ Grown(s, b, c) /\ NewParts(s, b, c)
        /\ \A p \in NewEntries(s, b, c) : c.mem[p].item = i /\ ~c.mem[p].freed
    BY <1>3 DEF Sent
  <1>5. PICK S, N : S = LiveItems(s, b) /\ N = NewEntries(s, b, c)
    OBVIOUS
  <1>6. /\ LiveItems(s, c) = S \cup N
        /\ Entries(s, b) \cap N = {}
        /\ \A v : Far(s, c, v) = Far(s, b, v)
        /\ \A v \in S : c.mem[v] = b.mem[v]
        /\ \A v \in S, x \in N : Far(s, c, v) < Far(s, c, x)
        /\ N \subseteq 0 .. s - 1
    BY <1>1, <1>4, <1>5, GrownLive
  <1>7. \A v \in S : Far(s, b, v) \in Int /\ Far(s, c, v) = Far(s, b, v) - 0
    BY <1>1, <1>5, <1>6, LiveHeads
  <1>8. \A v \in S : EntryOf(c, <<>>, h, v) = EntryOf(b, <<>>, h, v)
    BY <1>6 DEF EntryOf
  <1>9. RowOf(s, c, <<>>, h, S, F)
    <2>1. RowOf(s, b, <<>>, h, S, F)
      BY <1>5 DEF StoredIs, RowOf
    <2> QED BY <1>7, <1>8, <2>1, RowMove
  <1>10. S \cup N \subseteq Heads(s, c)
    BY <1>1, <1>4, <1>6, LiveHeads
  <1>11. ASSUME NEW x \in N PROVE EntryOf(c, <<>>, h, x) = NewPart(i, c.mem[x].part, "sent")
    <2>1. x \notin Entries(s, b)
      BY <1>6
    <2>2. \A y \in h : y.at # x
      BY <1>2, <2>1, HeldLive
    <2>3. StatusOf(<<>>, h, x) = "sent"
      BY <2>2 DEF StatusOf
    <2>4. c.mem[x].item = i
      BY <1>4, <1>5
    <2> QED BY <2>3, <2>4 DEF EntryOf, NewPart
  <1>12. CASE \E p : N = {p} /\ c.mem[p].part = 1
    <2>1. PICK p : N = {p} /\ c.mem[p].part = 1
      BY <1>12
    <2>2. PICK e, G, T : e = NewPart(i, 1, "sent") /\ G = Append(F, e) /\ T = S \cup {p}
      OBVIOUS
    <2>3. e = EntryOf(c, <<>>, h, p)
      BY <1>11, <2>1, <2>2
    <2>4. p \in Heads(s, c) /\ S \subseteq Heads(s, c) /\ \A v \in S : Far(s, c, v) < Far(s, c, p)
      BY <1>6, <1>10, <2>1
    <2>5. Longer(F, e, G)
      BY <2>2 DEF Longer
    <2>6. RowOf(s, c, <<>>, h, T, G)
      BY <1>1, <1>4, <1>9, <2>2, <2>3, <2>4, <2>5, RowSnoc
    <2>7. StoredIs(s, c, <<>>, h, G)
      BY <1>6, <2>1, <2>2, <2>6 DEF RowOf, StoredIs
    <2>8. Sends(F, i, G)
      BY <2>2, <2>5 DEF Sends
    <2> QED BY <2>7, <2>8 DEF SendsTo
  <1>13. CASE \E p, q : /\ N = {p, q} /\ p # q /\ Far(s, c, p) < Far(s, c, q)
                        /\ c.mem[p].part = 1 /\ c.mem[q].part = 2
    <2>1. PICK p, q : /\ N = {p, q} /\ p # q /\ Far(s, c, p) < Far(s, c, q)
                      /\ c.mem[p].part = 1 /\ c.mem[q].part = 2
      BY <1>13
    <2>2. PICK e, M, f, G, T, U : /\ e = NewPart(i, 1, "sent") /\ M = Append(F, e) /\ T = S \cup {p}
                                  /\ f = NewPart(i, 2, "sent") /\ G = Append(M, f) /\ U = T \cup {q}
      OBVIOUS
    <2>3. e = EntryOf(c, <<>>, h, p) /\ f = EntryOf(c, <<>>, h, q)
      BY <1>11, <2>1, <2>2
    <2>4. p \in Heads(s, c) /\ S \subseteq Heads(s, c) /\ \A v \in S : Far(s, c, v) < Far(s, c, p)
      BY <1>6, <1>10, <2>1
    <2>5. q \in Heads(s, c) /\ T \subseteq Heads(s, c) /\ \A v \in T : Far(s, c, v) < Far(s, c, q)
      BY <1>6, <1>10, <2>1, <2>2
    <2>6. Longer(F, e, M) /\ Longer(M, f, G)
      BY <2>2 DEF Longer
    <2>7. RowOf(s, c, <<>>, h, T, M)
      BY <1>1, <1>4, <1>9, <2>2, <2>3, <2>4, <2>6, RowSnoc
    <2>8. RowOf(s, c, <<>>, h, U, G)
      BY <1>1, <1>4, <2>2, <2>3, <2>5, <2>6, <2>7, RowSnoc
    <2>9. LiveItems(s, c) = U
      BY <1>6, <2>1, <2>2
    <2>10. StoredIs(s, c, <<>>, h, G)
      BY <2>8, <2>9 DEF RowOf, StoredIs
    <2>11. Sends(F, i, G)
      BY <2>2, <2>6 DEF Sends
    <2> QED BY <2>10, <2>11 DEF SendsTo
  <1>14. (\E p : N = {p} /\ c.mem[p].part = 1)
         \/ \E p, q : N = {p, q} /\ p # q /\ Far(s, c, p) < Far(s, c, q) /\ c.mem[p].part = 1 /\ c.mem[q].part = 2
    BY <1>4, <1>5 DEF NewParts
  <1> QED BY <1>12, <1>13, <1>14

(* F has the entry of x at k.                                                *)
EntryAt(s, b, q, h, S, F, k, x) ==
  /\ F \in Seq(PartRec) /\ k \in 1 .. Len(F) /\ Len(F) \in Nat /\ F[k] = EntryOf(b, q, h, x)
  /\ \A j \in 1 .. Len(F) : \E v \in S : /\ F[j] = EntryOf(b, q, h, v) /\ (j < k => Far(s, b, v) < Far(s, b, x))
                                         /\ (j > k => Far(s, b, x) < Far(s, b, v))

Changed(F, k, f, G) ==
  /\ G \in Seq(PartRec) /\ Len(G) = Len(F) /\ G[k] = f
  /\ \A j \in 1 .. Len(F) : j # k => G[j] = F[j]

(* Only the entry of x changes.                                              *)
OnlyAt(s, b, q, h, S, x, c, q2, h2) ==
  /\ \A v : Far(s, c, v) = Far(s, b, v)
  /\ \A v \in S : v # x => EntryOf(c, q2, h2, v) = EntryOf(b, q, h, v)

RowChanged(s, b, q, h, S, F, x, c, q2, h2, f) ==
  \E k, G : EntryAt(s, b, q, h, S, F, k, x) /\ Changed(F, k, f, G) /\ RowOf(s, c, q2, h2, S, G)

(* When one item changes its entry, so does the row at one place.            *)
LEMMA RowChange ==
  ASSUME NEW s, Sz(s), NEW b, Layout(s, b), NEW q, NEW h, NEW S, S \subseteq Heads(s, b),
         NEW F, RowOf(s, b, q, h, S, F), NEW x \in S, NEW c, Layout(s, c), S \subseteq Heads(s, c), NEW q2, NEW h2,
         OnlyAt(s, b, q, h, S, x, c, q2, h2), NEW f, f = EntryOf(c, q2, h2, x)
  PROVE  RowChanged(s, b, q, h, S, F, x, c, q2, h2, f)
  <1>1. PICK L : Enum(s, b, S, L) /\ F = Row(b, q, h, L)
    BY DEF RowOf
  <1>2. L \in Seq(0 .. s - 1) /\ RangeOf(L) = S /\ Ascending(s, b, L) /\ Len(L) \in Nat
    BY <1>1 DEF Enum
  <1>3. PICK G : G = Row(c, q2, h2, L)
    OBVIOUS
  <1>4. F \in Seq(PartRec) /\ Len(F) = Len(L) /\ \A j \in 1 .. Len(L) : F[j] = EntryOf(b, q, h, L[j])
    <2>1. RangeOf(L) \subseteq Heads(s, b)
      BY <1>2
    <2>2. RowIs(b, q, h, L, F)
      BY <1>1, <1>2, <2>1, RowFacts
    <2> QED BY <2>2 DEF RowIs
  <1>5. G \in Seq(PartRec) /\ Len(G) = Len(L) /\ \A j \in 1 .. Len(L) : G[j] = EntryOf(c, q2, h2, L[j])
    <2>1. RangeOf(L) \subseteq Heads(s, c)
      BY <1>2
    <2>2. RowIs(c, q2, h2, L, G)
      BY <1>2, <1>3, <2>1, RowFacts
    <2> QED BY <2>2 DEF RowIs
  <1>6. \A j \in 1 .. Len(L) : L[j] \in S
    BY <1>2 DEF RangeOf
  <1>7. PICK k \in 1 .. Len(L) : x = L[k]
    BY <1>2 DEF RangeOf
  <1>8. \A j \in 1 .. Len(L) : Far(s, b, L[j]) \in Int
    BY <1>6, FarRange
  <1>9. \A j \in 1 .. Len(L) : /\ j < k => Far(s, b, L[j]) < Far(s, b, x)
                               /\ j > k => Far(s, b, x) < Far(s, b, L[j])
    BY <1>2, <1>7 DEF Ascending
  <1>10. \A j \in 1 .. Len(L) : j # k => L[j] # x
    <2> SUFFICES ASSUME NEW j \in 1 .. Len(L), j # k PROVE L[j] # x
      OBVIOUS
    <2>1. j < k \/ j > k
      BY <1>2
    <2> QED BY <1>8, <1>9, <2>1
  <1>11. EntryAt(s, b, q, h, S, F, k, x)
    BY <1>2, <1>4, <1>6, <1>7, <1>9 DEF EntryAt
  <1>12. Changed(F, k, f, G)
    BY <1>4, <1>5, <1>6, <1>7, <1>10 DEF Changed, OnlyAt
  <1>13. Enum(s, c, S, L)
    <2>1. Ascending(s, c, L)
      BY <1>2 DEF Ascending, OnlyAt
    <2> QED BY <1>2, <2>1 DEF Enum
  <1>14. RowOf(s, c, q2, h2, S, G)
    BY <1>3, <1>13 DEF RowOf
  <1> QED BY <1>11, <1>12, <1>14 DEF RowChanged

(* The first entry that is not received is.                                  *)
ReceivedOne(F, k, G) ==
  /\ F \in Seq(PartRec) /\ k \in 1 .. Len(F) /\ Len(F) \in Nat
  /\ \A j \in 1 .. k - 1 : F[j].st = "received"
  /\ \A j \in k .. Len(F) : F[j].st # "received"
  /\ F[k].st = "sent" /\ Changed(F, k, NewPart(F[k].item, F[k].part, "received"), G)

OneReceived(s, c, q, h, F, i) == \E k, G : StoredIs(s, c, q, h, G) /\ ReceivedOne(F, k, G) /\ F[k].item = i

(* prvGetItemDefault receives the first entry that is not received.          *)
LEMMA ReceiveFifo ==
  ASSUME config \in Configs, NEW s, s = config.size, NEW b, NEW q, NEW h, StateInv(config, b, q, h), b.waiting > 0,
         NEW c, c = GetItem(b), NEW x, x = GetItemStart(b), NEW h2, h2 = h \cup {HeldAt(b, x)},
         x \notin RangeOf(q), NEW F, StoredIs(s, b, q, h, F), NEW i, i = b.mem[x].item
  PROVE  OneReceived(s, c, q, h2, F, i)
  <1>1. /\ Sz(s) /\ Shape(b) /\ Layout(s, b) /\ WrapInv(s, b) /\ q \in Seq(0 .. s - 1)
        /\ \E r \in 0 .. s : BufInv(s, b, RangeOf(q), h, r)
    BY StateFacts
  <1>2. PICK A : A = RangeOf(q)
    OBVIOUS
  <1>3. PICK r \in 0 .. s : BufInv(s, b, A, h, r)
    BY <1>1, <1>2
  <1>4. r \in Int /\ 0 <= r
    BY <1>1, Sizes
  <1>5. Placed(s, b, q, h, r)
    BY <1>1, <1>2, <1>3, <1>4 DEF Placed
  <1>6. WaitingItems(s, b, A, r) # {}
    BY <1>3, AvailWaiting
  <1>7. /\ GetItemStart(b) = First(b, b.read) /\ \E y, d : d \in Int /\ Taken(s, b, c, y, d)
    BY <1>1, <1>3, <1>6, GetItemTaken
  <1>8. Got(b, c)
    BY <1>7 DEF Taken
  <1>9. /\ WriteInv(s, b, A) /\ Pointer(s, b, b.read, r) /\ EntryInv(s, b, A, r)
    BY <1>3 DEF BufInv, ReadInv
  <1>10. /\ x \in Entries(s, b) /\ x \in Heads(s, b) /\ Far(s, b, x) \in Int /\ r <= Far(s, b, x)
         /\ \A p \in Entries(s, b) : Far(s, b, p) < r \/ Far(s, b, x) <= Far(s, b, p)
         /\ x \notin A
    BY <1>1, <1>2, <1>4, <1>6, <1>7, <1>9, OldestWaiting
  <1>11. PICK S : S = LiveItems(s, b)
    OBVIOUS
  <1>12. x \in S /\ ~(Far(s, b, x) < r)
    <2>1. ~b.mem[x].freed
      BY <1>4, <1>9, <1>10 DEF EntryInv
    <2> QED BY <1>4, <1>10, <1>11, <2>1 DEF LiveItems
  <1>13. /\ Layout(s, c) /\ Entries(s, c) = Entries(s, b) /\ c.mem = b.mem /\ \A v : Far(s, c, v) = Far(s, b, v)
    <2>1. Layout(s, c)
      BY <1>1, <1>8, GotInv
    <2>2. Entries(s, c) = Entries(s, b) /\ \A v : Far(s, c, v) = Far(s, b, v)
      BY <1>8, GotSame
    <2> QED BY <1>8, <2>1, <2>2 DEF Got
  <1>14. LiveItems(s, c) = S
    BY <1>11, <1>13, Zenon DEF LiveItems
  <1>15. S \subseteq Heads(s, b) /\ S \subseteq Heads(s, c) /\ \A v \in S : v \in Entries(s, b) /\ Far(s, b, v) \in Int
    <2>1. S \subseteq Heads(s, c)
      BY <1>1, <1>13, <1>14, LiveHeads
    <2> QED BY <1>1, <1>11, <2>1, LiveHeads
  <1>16. \A p \in S : StatusOf(q, h, p) = IF Far(s, b, p) < r THEN "received"
                                          ELSE IF p \in A THEN "acquired" ELSE "sent"
    BY <1>1, <1>2, <1>5, <1>11, StatusFacts
  <1>17. StatusOf(q, h, x) = "sent"
    BY <1>10, <1>12, <1>16
  <1>18. \A v \in S : v # x => EntryOf(c, q, h2, v) = EntryOf(b, q, h, v)
    <2> SUFFICES ASSUME NEW v \in S, v # x PROVE EntryOf(c, q, h2, v) = EntryOf(b, q, h, v)
      OBVIOUS
    <2>1. HeldAt(b, x).at = x
      BY DEF HeldAt
    <2>2. (\E y \in h2 : y.at = v) <=> (\E y \in h : y.at = v)
      BY <2>1
    <2>3. StatusOf(q, h2, v) = StatusOf(q, h, v)
      BY <2>2, Zenon DEF StatusOf
    <2> QED BY <1>13, <2>3 DEF EntryOf
  <1>19. PICK f : f = EntryOf(c, q, h2, x)
    OBVIOUS
  <1>20. f = NewPart(b.mem[x].item, b.mem[x].part, "received")
    <2>1. HeldAt(b, x).at = x /\ HeldAt(b, x) \in h2
      BY DEF HeldAt
    <2>2. \E y \in h2 : y.at = x
      BY <2>1
    <2>3. StatusOf(q, h2, x) = "received"
      BY <2>2, Zenon DEF StatusOf
    <2> QED BY <1>13, <1>19, <2>3 DEF EntryOf, NewPart
  <1>21. RowOf(s, b, q, h, S, F)
    BY <1>11 DEF StoredIs, RowOf
  <1>22. PICK k, G : EntryAt(s, b, q, h, S, F, k, x) /\ Changed(F, k, f, G) /\ RowOf(s, c, q, h2, S, G)
    <2>1. OnlyAt(s, b, q, h, S, x, c, q, h2)
      BY <1>13, <1>18 DEF OnlyAt
    <2>2. Sz(s) /\ Layout(s, b) /\ Layout(s, c) /\ x \in S /\ S \subseteq Heads(s, b) /\ S \subseteq Heads(s, c)
      BY <1>1, <1>12, <1>13, <1>15
    <2>3. RowChanged(s, b, q, h, S, F, x, c, q, h2, f)
      BY <1>19, <1>21, <2>1, <2>2, RowChange
    <2> QED BY <2>3 DEF RowChanged
  <1>23. StoredIs(s, c, q, h2, G)
    BY <1>14, <1>22 DEF StoredIs, RowOf
  <1>24. /\ F \in Seq(PartRec) /\ k \in 1 .. Len(F) /\ Len(F) \in Nat /\ F[k] = EntryOf(b, q, h, x)
         /\ \A j \in 1 .. Len(F) : \E v \in S : /\ F[j] = EntryOf(b, q, h, v) /\ (j < k => Far(s, b, v) < Far(s, b, x))
                                                /\ (j > k => Far(s, b, x) < Far(s, b, v))
    BY <1>22 DEF EntryAt
  <1>25. F[k].item = b.mem[x].item /\ F[k].part = b.mem[x].part /\ F[k].st = "sent"
    BY <1>17, <1>24 DEF EntryOf
  <1>26. \A v : EntryOf(b, q, h, v).st = StatusOf(q, h, v)
    BY DEF EntryOf
  <1>27. ASSUME NEW j \in 1 .. k - 1 PROVE F[j].st = "received"
    <2>1. j \in 1 .. Len(F) /\ j < k
      BY <1>24
    <2>2. PICK v \in S : F[j] = EntryOf(b, q, h, v) /\ Far(s, b, v) < Far(s, b, x)
      BY <1>24, <2>1
    <2>3. Far(s, b, v) < r
      BY <1>10, <1>15, <2>2
    <2>4. StatusOf(q, h, v) = "received"
      BY <1>16, <2>3
    <2> QED BY <1>26, <2>2, <2>4
  <1>28. ASSUME NEW j \in k .. Len(F) PROVE F[j].st # "received"
    <2>1. CASE j = k
      BY <1>25, <2>1
    <2>2. CASE j > k
      <3>1. j \in 1 .. Len(F)
        BY <1>24
      <3>2. PICK v \in S : F[j] = EntryOf(b, q, h, v) /\ Far(s, b, x) < Far(s, b, v)
        BY <1>24, <2>2, <3>1
      <3>3. ~(Far(s, b, v) < r)
        BY <1>4, <1>10, <1>15, <3>2
      <3>4. StatusOf(q, h, v) # "received"
        BY <1>16, <3>3
      <3> QED BY <1>26, <3>2, <3>4
    <2> QED BY <1>24, <2>1, <2>2
  <1>29. Changed(F, k, NewPart(F[k].item, F[k].part, "received"), G)
    BY <1>20, <1>22, <1>25
  <1>30. ReceivedOne(F, k, G)
    BY <1>24, <1>25, <1>27, <1>28, <1>29 DEF ReceivedOne
  <1> QED BY <1>23, <1>25, <1>30 DEF OneReceived

CompletedOne(F, k, G) ==
  /\ F \in Seq(PartRec) /\ k \in 1 .. Len(F) /\ Len(F) \in Nat
  /\ F[k].st = "acquired" /\ Changed(F, k, NewPart(F[k].item, F[k].part, "sent"), G)

(* prvSendItemDoneNoSplit changes the entry of its item.                     *)
LEMMA CompleteFifo ==
  ASSUME config \in Configs, NEW s, s = config.size, NEW b, NEW q, NEW h, StateInv(config, b, q, h),
         NEW n \in 1 .. Len(q), NEW x, x = q[n], NEW c, Completed(s, b, c, x),
         NEW q2 \in Seq(0 .. s - 1), Dropped(q, n, q2),
         NEW F, StoredIs(s, b, q, h, F)
  PROVE  \E k, G : StoredIs(s, c, q2, h, G) /\ CompletedOne(F, k, G)
  <1>1. /\ Sz(s) /\ Layout(s, b) /\ q \in Seq(0 .. s - 1) /\ SendingInv(s, b, q)
    BY StateFacts
  <1>2. PICK r : Placed(s, b, q, h, r)
    BY StatePlaced
  <1>3. PICK A, S : A = RangeOf(q) /\ S = LiveItems(s, b)
    OBVIOUS
  <1>4. /\ WriteInv(s, b, A) /\ EntryInv(s, b, A, r) /\ r \in Int
    BY <1>2, <1>3 DEF Placed, BufInv
  <1>5. Len(q) \in Nat /\ \A k \in 1 .. Len(q) : q[k] \in A
    BY <1>1, <1>3 DEF RangeOf
  <1>6. A \subseteq Entries(s, b)
    BY <1>4 DEF WriteInv
  <1>7. \A v \in A : v \in Heads(s, b) /\ Far(s, b, v) \in Int
    BY <1>1, <1>6, FarRange DEF Entries
  <1>8. x \in A
    BY <1>5
  <1>9. x \in Entries(s, b) /\ x \in Heads(s, b) /\ ~(Far(s, b, x) < r) /\ ~b.mem[x].freed
    <2>1. x \in Entries(s, b) /\ x \in Heads(s, b) /\ Far(s, b, x) \in Int
      BY <1>6, <1>7, <1>8
    <2>2. ~(Far(s, b, x) < r)
      BY <1>4, <1>8, <2>1 DEF EntryInv
    <2>3. ~b.mem[x].freed
      BY <1>4, <2>1, <2>2 DEF EntryInv
    <2> QED BY <2>1, <2>2, <2>3
  <1>10. x \in S
    BY <1>3, <1>9 DEF LiveItems
  <1>11. q2 \in Seq(0 .. s - 1) /\ RangeOf(q2) = A \ {x}
    <2>1. \A k \in 1 .. Len(q) : Far(s, b, q[k]) \in Int
      BY <1>5, <1>7
    <2>2. RangeOf(q2) = RangeOf(q) \ {q[n]}
      BY <1>1, <2>1, RangeDropped
    <2> QED BY <1>3, <2>2
  <1>12. /\ Layout(s, c) /\ LiveItems(s, c) = S /\ \A v : Far(s, c, v) = Far(s, b, v)
         /\ \A v \in S : c.mem[v].item = b.mem[v].item /\ c.mem[v].part = b.mem[v].part
    BY <1>1, <1>3, <1>9, CompletedLive
  <1>13. S \subseteq Heads(s, b) /\ S \subseteq Heads(s, c)
    <2>1. S \subseteq Heads(s, c)
      BY <1>1, <1>12, LiveHeads
    <2> QED BY <1>1, <1>3, <2>1, LiveHeads
  <1>14. \A v : (\E k \in DOMAIN q : q[k] = v) <=> v \in A
    BY <1>1, <1>3, RangeDomain
  <1>15. \A v : (\E k \in DOMAIN q2 : q2[k] = v) <=> v \in RangeOf(q2)
    BY <1>11, RangeDomain
  <1>16. \A y \in h : y.at # x
    BY <1>2, <1>9, HeldLive
  <1>17. StatusOf(q, h, x) = "acquired"
    BY <1>8, <1>14, <1>16 DEF StatusOf
  <1>18. StatusOf(q2, h, x) = "sent"
    BY <1>11, <1>15, <1>16 DEF StatusOf
  <1>19. \A v \in S : v # x => EntryOf(c, q2, h, v) = EntryOf(b, q, h, v)
    <2> SUFFICES ASSUME NEW v \in S, v # x PROVE EntryOf(c, q2, h, v) = EntryOf(b, q, h, v)
      OBVIOUS
    <2>1. v \in RangeOf(q2) <=> v \in A
      BY <1>11
    <2>2. (\E k \in DOMAIN q : q[k] = v) <=> (\E k \in DOMAIN q2 : q2[k] = v)
      BY <1>14, <1>15, <2>1
    <2>3. StatusOf(q2, h, v) = StatusOf(q, h, v)
      BY <2>2, Zenon DEF StatusOf
    <2> QED BY <1>12, <2>3 DEF EntryOf
  <1>20. PICK f : f = EntryOf(c, q2, h, x)
    OBVIOUS
  <1>21. f = NewPart(b.mem[x].item, b.mem[x].part, "sent")
    BY <1>10, <1>12, <1>18, <1>20 DEF EntryOf, NewPart
  <1>22. RowOf(s, b, q, h, S, F)
    BY <1>3 DEF StoredIs, RowOf
  <1>23. PICK k, G : EntryAt(s, b, q, h, S, F, k, x) /\ Changed(F, k, f, G) /\ RowOf(s, c, q2, h, S, G)
    <2>1. OnlyAt(s, b, q, h, S, x, c, q2, h)
      BY <1>12, <1>19 DEF OnlyAt
    <2>2. Sz(s) /\ Layout(s, b) /\ Layout(s, c) /\ x \in S /\ S \subseteq Heads(s, b) /\ S \subseteq Heads(s, c)
      BY <1>1, <1>10, <1>12, <1>13
    <2>3. RowChanged(s, b, q, h, S, F, x, c, q2, h, f)
      BY <1>20, <1>22, <2>1, <2>2, RowChange
    <2> QED BY <2>3 DEF RowChanged
  <1>24. StoredIs(s, c, q2, h, G)
    BY <1>12, <1>23 DEF StoredIs, RowOf
  <1>25. F \in Seq(PartRec) /\ k \in 1 .. Len(F) /\ Len(F) \in Nat /\ F[k] = EntryOf(b, q, h, x)
    BY <1>23 DEF EntryAt
  <1>26. F[k].item = b.mem[x].item /\ F[k].part = b.mem[x].part /\ F[k].st = "acquired"
    BY <1>17, <1>25 DEF EntryOf
  <1>27. CompletedOne(F, k, G)
    BY <1>21, <1>23, <1>25, <1>26 DEF CompletedOne
  <1> QED BY <1>24, <1>27

(* An entry leaves the row.                                                  *)
RowDropped(s, b, q, h, T, F, x) ==
  \E k, G : /\ EntryAt(s, b, q, h, T \cup {x}, F, k, x) /\ Dropped(F, k, G) /\ G \in Seq(PartRec)
            /\ RowOf(s, b, q, h, T, G)

(* When an item leaves, the row loses one entry.                             *)
LEMMA RowDrop ==
  ASSUME NEW s, Sz(s), NEW b, Layout(s, b), NEW q, NEW h, NEW S, S \subseteq Heads(s, b),
         NEW F, RowOf(s, b, q, h, S, F), NEW x \in S, NEW T, T = S \ {x}
  PROVE  RowDropped(s, b, q, h, T, F, x)
  <1>1. PICK L : Enum(s, b, S, L) /\ F = Row(b, q, h, L)
    BY DEF RowOf
  <1>2. L \in Seq(0 .. s - 1) /\ RangeOf(L) = S /\ Ascending(s, b, L) /\ Len(L) \in Nat
    BY <1>1 DEF Enum
  <1>3. \A v \in S : Far(s, b, v) \in Int
    BY FarRange
  <1>4. PICK k \in 1 .. Len(L) : x = L[k]
    BY <1>2 DEF RangeOf
  <1>5. PICK M : Enum(s, b, T, M) /\ Dropped(L, k, M)
    BY <1>1, <1>3, <1>4, EnumDrop
  <1>6. M \in Seq(0 .. s - 1) /\ RangeOf(M) = T /\ Len(M) \in Nat
    BY <1>5 DEF Enum
  <1>7. PICK G : G = Row(b, q, h, M)
    OBVIOUS
  <1>8. F \in Seq(PartRec) /\ Len(F) = Len(L) /\ \A j \in 1 .. Len(L) : F[j] = EntryOf(b, q, h, L[j])
    <2>1. RangeOf(L) \subseteq Heads(s, b)
      BY <1>2
    <2>2. RowIs(b, q, h, L, F)
      BY <1>1, <1>2, <2>1, RowFacts
    <2> QED BY <2>2 DEF RowIs
  <1>9. G \in Seq(PartRec) /\ Len(G) = Len(M) /\ \A j \in 1 .. Len(M) : G[j] = EntryOf(b, q, h, M[j])
    <2>1. RangeOf(M) \subseteq Heads(s, b)
      BY <1>6
    <2>2. RowIs(b, q, h, M, G)
      BY <1>6, <1>7, <2>1, RowFacts
    <2> QED BY <2>2 DEF RowIs
  <1>10. \A j \in 1 .. Len(L) : L[j] \in T \cup {x}
    BY <1>2 DEF RangeOf
  <1>11. \A j \in 1 .. Len(L) : /\ j < k => Far(s, b, L[j]) < Far(s, b, x)
                                /\ j > k => Far(s, b, x) < Far(s, b, L[j])
    BY <1>2, <1>4 DEF Ascending
  <1>12. EntryAt(s, b, q, h, T \cup {x}, F, k, x)
    BY <1>2, <1>4, <1>8, <1>10, <1>11 DEF EntryAt
  <1>13. Dropped(F, k, G)
    <2>1. Len(M) = Len(L) - 1 /\ \A j \in 1 .. Len(M) : M[j] = IF j < k THEN L[j] ELSE L[j + 1]
      BY <1>5 DEF Dropped
    <2>2. ASSUME NEW j \in 1 .. Len(G) PROVE G[j] = IF j < k THEN F[j] ELSE F[j + 1]
      <3>1. j \in 1 .. Len(M) /\ j \in 1 .. Len(L) /\ j + 1 \in 1 .. Len(L)
        BY <1>2, <1>6, <1>9, <2>1
      <3>2. CASE j < k
        BY <1>8, <1>9, <2>1, <3>1, <3>2
      <3>3. CASE ~(j < k)
        BY <1>8, <1>9, <2>1, <3>1, <3>3
      <3> QED BY <3>2, <3>3
    <2> QED BY <1>8, <1>9, <2>1, <2>2 DEF Dropped
  <1>14. RowOf(s, b, q, h, T, G)
    BY <1>5, <1>7 DEF RowOf
  <1> QED BY <1>9, <1>12, <1>13, <1>14 DEF RowDropped

ReturnedOne(F, k, G) ==
  /\ F \in Seq(PartRec) /\ G \in Seq(PartRec) /\ k \in 1 .. Len(F) /\ Len(F) \in Nat
  /\ F[k].st = "received" /\ Dropped(F, k, G)

(* Only the item at p is no longer live.                                     *)
Gone(s, b, q, h, p, c, h2) ==
  /\ Layout(s, c) /\ LiveItems(s, c) = LiveItems(s, b) \ {p}
  /\ \E d \in Int : \A v \in LiveItems(s, c) : Far(s, c, v) = Far(s, b, v) - d
  /\ \A v \in LiveItems(s, c) : EntryOf(c, q, h2, v) = EntryOf(b, q, h, v)

(* prvReturnItemDefault takes one item away; the others keep their order.    *)
LEMMA ReturnGone ==
  ASSUME config \in Configs, NEW s, s = config.size, NEW b, NEW q, NEW h, StateInv(config, b, q, h),
         NEW x \in h, NEW p, p = x.at, NEW c, c = ReturnItemDefault(b, p), NEW h2, h2 = h \ {x}
  PROVE  Gone(s, b, q, h, p, c, h2)
  <1>1. /\ Sz(s) /\ Layout(s, b) /\ WrapInv(s, b) /\ \E r \in 0 .. s : BufInv(s, b, RangeOf(q), h, r)
    BY StateFacts
  <1>2. PICK r \in 0 .. s : BufInv(s, b, RangeOf(q), h, r)
    BY <1>1
  <1>3. r \in Int /\ 0 <= r
    BY <1>1, Sizes
  <1>4. Placed(s, b, q, h, r)
    BY <1>1, <1>2, <1>3 DEF Placed
  <1>5. \A y \in h : y.at \in LiveItems(s, b) /\ y.at \in Entries(s, b) /\ Far(s, b, y.at) < r /\ y = HeldAt(b, y.at)
    BY <1>4, HeldLive
  <1>6. p \in Entries(s, b) /\ p \in LiveItems(s, b) /\ Far(s, b, p) < r /\ x = HeldAt(b, p)
    BY <1>5
  <1>7. \A v \in Entries(s, b) : Far(s, b, v) \in Int /\ 0 <= Far(s, b, v) /\ Far(s, b, v) < Used(s, b)
    BY <1>1, FarRange DEF Entries
  <1>8. r > 0
    BY <1>3, <1>6, <1>7
  <1>9. p \in ReceivedItems(s, b, r)
    BY <1>6 DEF ReceivedItems, LiveItems
  <1>10. CASE b.read = b.free
    <2>0. c = ReturnItemDefault(b, p) /\ p = x.at /\ s = config.size
      OBVIOUS
    <2>1. h = {x} /\ StateInv(config, c, q, {}) /\ Heads(s, c) = {}
      <3>1. h = {x} /\ StateInv(config, c, q, {})
        BY <1>2, <1>8, <1>10, <2>0, ReturnEmptied
      <3>2. Heads(s, c) = {}
        BY <1>2, <1>8, <1>10, <2>0, ReturnEmptied
      <3> QED BY <3>1, <3>2
    <2>2. Layout(s, c)
      BY <2>1, StateFacts
    <2>3. LiveItems(s, c) = {}
      BY <2>1 DEF LiveItems, Entries
    <2>4. Pointer(s, b, b.read, r)
      BY <1>2 DEF BufInv, ReadInv
    <2>5. r = Used(s, b)
      <3>1. b.free \in 0 .. s - 1
        BY <1>1, PointerFacts
      <3>2. Far(s, b, b.free) = 0
        BY <1>1, <3>1, Sizes DEF Far, Dist
      <3> QED BY <1>8, <1>10, <2>4, <3>2 DEF Pointer
    <2>6. \A v \in LiveItems(s, b) : v = p
      <3> SUFFICES ASSUME NEW v \in LiveItems(s, b) PROVE v = p
        OBVIOUS
      <3>1. v \in Entries(s, b) /\ ~b.mem[v].freed
        BY DEF LiveItems
      <3>2. v \in ReceivedItems(s, b, r)
        BY <1>7, <2>5, <3>1 DEF ReceivedItems
      <3>3. HeldAt(b, v) \in h
        BY <1>2, <3>2 DEF BufInv
      <3>4. HeldAt(b, v) = x
        BY <2>1, <3>3
      <3>5. HeldAt(b, v).at = v
        BY DEF HeldAt
      <3> QED BY <3>4, <3>5
    <2>7. LiveItems(s, c) = LiveItems(s, b) \ {p}
      BY <2>3, <2>6
    <2> QED BY <2>2, <2>3, <2>7 DEF Gone
  <1>11. CASE b.read # b.free
    <2>1. ReturnMoved(s, b, RangeOf(q), h, r, p, c)
      BY <1>2, <1>8, <1>9, <1>11, ReturnMoves
    <2>2. /\ Layout(s, c) /\ Entries(s, c) \subseteq Entries(s, b)
          /\ \A v \in Entries(s, c) : Kept(s, b, c, v)
          /\ \E d : Nearer(s, b, c, p, d)
      BY <2>1 DEF ReturnMoved
    <2>3. PICK d : Nearer(s, b, c, p, d)
      BY <2>2
    <2>4. /\ d \in Int /\ \A v \in Heads(s, c) : Far(s, c, v) = Far(s, b, v) - d
          /\ \A v \in Entries(s, b) \ Entries(s, c) : v = p \/ b.mem[v].freed
          /\ \A v \in Entries(s, c) : c.mem[v].freed <=> b.mem[v].freed \/ v = p
      BY <2>3 DEF Nearer
    <2>5. \A v : v \in LiveItems(s, c) <=> v \in LiveItems(s, b) /\ v # p
      BY <2>2, <2>4 DEF LiveItems
    <2>6. LiveItems(s, c) = LiveItems(s, b) \ {p}
      BY <2>5
    <2>7. \A v \in LiveItems(s, c) : Far(s, c, v) = Far(s, b, v) - d
      BY <1>1, <2>2, <2>4, LiveHeads
    <2>8. ASSUME NEW v \in LiveItems(s, c) PROVE EntryOf(c, q, h2, v) = EntryOf(b, q, h, v)
      <3>1. v # p /\ v \in Entries(s, c)
        BY <2>5 DEF LiveItems
      <3>2. HeldAt(c, v) = HeldAt(b, v)
        BY <2>2, <3>1 DEF Kept
      <3>3. c.mem[v].item = b.mem[v].item /\ c.mem[v].part = b.mem[v].part
        <4>1. HeldAt(c, v).item = c.mem[v].item /\ HeldAt(c, v).part = c.mem[v].part
          BY DEF HeldAt
        <4>2. HeldAt(b, v).item = b.mem[v].item /\ HeldAt(b, v).part = b.mem[v].part
          BY DEF HeldAt
        <4> QED BY <3>2, <4>1, <4>2
      <3>4. (\E y \in h2 : y.at = v) <=> (\E y \in h : y.at = v)
        BY <3>1
      <3>5. StatusOf(q, h2, v) = StatusOf(q, h, v)
        BY <3>4, Zenon DEF StatusOf
      <3> QED BY <3>3, <3>5 DEF EntryOf
    <2> QED BY <2>2, <2>4, <2>6, <2>7, <2>8 DEF Gone
  <1> QED BY <1>10, <1>11

(* Returning an item removes its entry.                                      *)
LEMMA ReturnFifo ==
  ASSUME config \in Configs, NEW s, s = config.size, NEW b, NEW q, NEW h, StateInv(config, b, q, h),
         NEW x \in h, NEW p, p = x.at, NEW c, c = ReturnItemDefault(b, p), NEW h2, h2 = h \ {x},
         NEW F, StoredIs(s, b, q, h, F)
  PROVE  \E k, G : StoredIs(s, c, q, h2, G) /\ ReturnedOne(F, k, G)
  <1>1. Sz(s) /\ Layout(s, b)
    BY StateFacts
  <1>2. PICK r : Placed(s, b, q, h, r)
    BY StatePlaced
  <1>3. Gone(s, b, q, h, p, c, h2)
    BY ReturnGone
  <1>4. PICK S, T : S = LiveItems(s, b) /\ T = LiveItems(s, c)
    OBVIOUS
  <1>5. PICK d \in Int : \A v \in T : Far(s, c, v) = Far(s, b, v) - d
    BY <1>3, <1>4 DEF Gone
  <1>6. T = S \ {p} /\ \A v \in T : EntryOf(c, q, h2, v) = EntryOf(b, q, h, v)
    BY <1>3, <1>4 DEF Gone
  <1>7. p \in S
    BY <1>2, <1>4, HeldLive
  <1>8. S \subseteq Heads(s, b) /\ \A v \in S : Far(s, b, v) \in Int
    BY <1>1, <1>4, LiveHeads
  <1>9. RowOf(s, b, q, h, S, F)
    BY <1>4 DEF StoredIs, RowOf
  <1>10. RowDropped(s, b, q, h, T, F, p)
    BY <1>1, <1>6, <1>7, <1>8, <1>9, RowDrop
  <1>11. PICK k, G : /\ EntryAt(s, b, q, h, T \cup {p}, F, k, p) /\ Dropped(F, k, G) /\ G \in Seq(PartRec)
                     /\ RowOf(s, b, q, h, T, G)
    BY <1>10 DEF RowDropped
  <1>12. RowOf(s, c, q, h2, T, G)
    <2>1. \A v \in T : Far(s, b, v) \in Int /\ Far(s, c, v) = Far(s, b, v) - d
      BY <1>5, <1>6, <1>8
    <2>2. \A v \in T : EntryOf(c, q, h2, v) = EntryOf(b, q, h, v)
      BY <1>6
    <2>3. RowOf(s, b, q, h, T, G) /\ d \in Int
      BY <1>5, <1>11
    <2> QED BY <2>1, <2>2, <2>3, RowMove
  <1>13. StoredIs(s, c, q, h2, G)
    BY <1>4, <1>12 DEF StoredIs, RowOf
  <1>14. F \in Seq(PartRec) /\ k \in 1 .. Len(F) /\ Len(F) \in Nat /\ F[k] = EntryOf(b, q, h, p)
    BY <1>11 DEF EntryAt
  <1>15. F[k].st = "received"
    <2>1. \E y \in h : y.at = p
      OBVIOUS
    <2>2. StatusOf(q, h, p) = "received"
      BY <2>1, Zenon DEF StatusOf
    <2> QED BY <1>14, <2>2 DEF EntryOf
  <1>16. ReturnedOne(F, k, G)
    BY <1>11, <1>14, <1>15 DEF ReturnedOne
  <1> QED BY <1>13, <1>16

-------------------------------------------------------------------------------
(*****************************************************************************)
(* The refinement of RingFifo.                                               *)
(*****************************************************************************)

(* The state of an entry is set.                                             *)
LEMMA PartSet ==
  ASSUME NEW f \in PartRec, NEW st
  PROVE  [f EXCEPT !.st = st] = NewPart(f.item, f.part, st)
  BY DEF PartRec, NewPart

(* A sequence is a function.                                                 *)
LEMMA SeqFun ==
  ASSUME NEW F \in Seq(PartRec)
  PROVE  DOMAIN F = 1 .. Len(F) /\ Len(F) \in Nat /\ F = [j \in 1 .. Len(F) |-> F[j]] /\ \A j \in 1 .. Len(F) : F[j] \in PartRec
  OBVIOUS

(* The entry that changes, as Fifo!SendComplete writes it.                   *)
LEMMA CompletedIs ==
  ASSUME NEW F, NEW k, NEW G, CompletedOne(F, k, G)
  PROVE  k \in DOMAIN F /\ F[k].st = "acquired" /\ G = [F EXCEPT ![k].st = "sent"]
  <1>1. /\ F \in Seq(PartRec) /\ k \in 1 .. Len(F) /\ F[k].st = "acquired"
        /\ Changed(F, k, NewPart(F[k].item, F[k].part, "sent"), G)
    BY DEF CompletedOne
  <1>2. PICK f : f = NewPart(F[k].item, F[k].part, "sent")
    OBVIOUS
  <1>3. G \in Seq(PartRec) /\ Len(G) = Len(F) /\ G[k] = f /\ \A j \in 1 .. Len(F) : j # k => G[j] = F[j]
    BY <1>1, <1>2 DEF Changed
  <1>4. DOMAIN F = 1 .. Len(F) /\ F[k] \in PartRec /\ F = [j \in 1 .. Len(F) |-> F[j]]
    BY <1>1, SeqFun
  <1>5. G = [j \in 1 .. Len(F) |-> G[j]]
    BY <1>3, SeqFun
  <1>6. [F[k] EXCEPT !.st = "sent"] = f
    BY <1>2, <1>4, PartSet
  <1>7. [F EXCEPT ![k] = f] = [j \in 1 .. Len(F) |-> IF j = k THEN f ELSE F[j]]
    BY <1>1, <1>4
  <1>8. \A j \in 1 .. Len(F) : G[j] = IF j = k THEN f ELSE F[j]
    BY <1>3
  <1>9. G = [F EXCEPT ![k] = f]
    BY <1>5, <1>7, <1>8
  <1>10. [F EXCEPT ![k].st = "sent"] = [F EXCEPT ![k] = [F[k] EXCEPT !.st = "sent"]]
    BY <1>4
  <1> QED BY <1>1, <1>4, <1>6, <1>9, <1>10

(* The entry that leaves, as Fifo!Return writes it.                          *)
LEMMA DroppedIs ==
  ASSUME NEW F, NEW k, NEW G, ReturnedOne(F, k, G)
  PROVE  k \in DOMAIN F /\ F[k].st = "received" /\ G = SubSeq(F, 1, k - 1) \o SubSeq(F, k + 1, Len(F))
  <1>1. /\ F \in Seq(PartRec) /\ G \in Seq(PartRec) /\ k \in 1 .. Len(F)
        /\ F[k].st = "received" /\ Dropped(F, k, G)
    BY DEF ReturnedOne
  <1>2. PICK Z : Z = Without(F, k)
    OBVIOUS
  <1>3. Z \in Seq(PartRec) /\ Dropped(F, k, Z)
    BY <1>1, <1>2, WithoutDrops
  <1>4. G = Z
    BY <1>1, <1>3, DroppedOnce
  <1>5. k \in DOMAIN F
    BY <1>1
  <1> QED BY <1>1, <1>2, <1>4, <1>5 DEF Without

(* The entries k .. l of F are received.                                     *)
Receives(F, k, l, G) ==
  /\ k \in DOMAIN F /\ l \in DOMAIN F /\ k <= l
  /\ \A j \in 1 .. k - 1 : F[j].st = "received"
  /\ \A j \in k .. l : F[j].st = "sent" /\ F[j].item = F[k].item
  /\ G = [j \in DOMAIN F |-> IF j \in k .. l THEN [F[j] EXCEPT !.st = "received"] ELSE F[j]]

(* One entry is received, as Fifo!Receive writes it.                         *)
LEMMA ReceivesOne ==
  ASSUME NEW F, NEW k, NEW G, ReceivedOne(F, k, G)
  PROVE  Receives(F, k, k, G)
  <1>1. /\ F \in Seq(PartRec) /\ k \in 1 .. Len(F) /\ Len(F) \in Nat
        /\ \A j \in 1 .. k - 1 : F[j].st = "received"
        /\ F[k].st = "sent" /\ Changed(F, k, NewPart(F[k].item, F[k].part, "received"), G)
    BY DEF ReceivedOne
  <1>2. /\ G \in Seq(PartRec) /\ Len(G) = Len(F) /\ G[k] = NewPart(F[k].item, F[k].part, "received")
        /\ \A j \in 1 .. Len(F) : j # k => G[j] = F[j]
    BY <1>1 DEF Changed
  <1>3. DOMAIN F = 1 .. Len(F) /\ F[k] \in PartRec
    BY <1>1, SeqFun
  <1>4. [F[k] EXCEPT !.st = "received"] = G[k]
    BY <1>2, <1>3, PartSet
  <1>5. \A j : j \in k .. k <=> j = k
    BY <1>1
  <1>6. \A j \in 1 .. Len(F) : G[j] = IF j \in k .. k THEN [F[j] EXCEPT !.st = "received"] ELSE F[j]
    <2> TAKE j \in 1 .. Len(F)
    <2>1. CASE j = k
      BY <1>4, <1>5, <2>1
    <2>2. CASE j # k
      BY <1>2, <1>5, <2>2
    <2> QED BY <2>1, <2>2
  <1>7. G = [j \in 1 .. Len(F) |-> G[j]]
    BY <1>2, SeqFun
  <1>8. G = [j \in DOMAIN F |-> IF j \in k .. k THEN [F[j] EXCEPT !.st = "received"] ELSE F[j]]
    BY <1>3, <1>6, <1>7
  <1>9. k \in DOMAIN F /\ k <= k
    BY <1>1, <1>3
  <1>10. \A j \in k .. k : F[j].st = "sent" /\ F[j].item = F[k].item
    BY <1>1, <1>5
  <1> QED BY <1>1, <1>8, <1>9, <1>10 DEF Receives

(* Two entries that are received one after the other are next to each other. *)
LEMMA ReceivesTwo ==
  ASSUME NEW F, NEW k, NEW M, ReceivedOne(F, k, M), NEW l, NEW G, ReceivedOne(M, l, G), M[l].item = F[k].item
  PROVE  Receives(F, k, l, G)
  <1>1. /\ F \in Seq(PartRec) /\ k \in 1 .. Len(F) /\ Len(F) \in Nat /\ k \in Int
        /\ \A j \in 1 .. k - 1 : F[j].st = "received"
        /\ \A j \in k .. Len(F) : F[j].st # "received"
        /\ F[k].st = "sent" /\ Changed(F, k, NewPart(F[k].item, F[k].part, "received"), M)
    BY DEF ReceivedOne
  <1>2. /\ M \in Seq(PartRec) /\ Len(M) = Len(F) /\ M[k] = NewPart(F[k].item, F[k].part, "received")
        /\ \A j \in 1 .. Len(F) : j # k => M[j] = F[j]
    BY <1>1 DEF Changed
  <1>3. /\ l \in 1 .. Len(M) /\ l \in Int /\ \A j \in 1 .. l - 1 : M[j].st = "received"
        /\ M[l].st = "sent" /\ Changed(M, l, NewPart(M[l].item, M[l].part, "received"), G)
    BY DEF ReceivedOne
  <1>4. /\ G \in Seq(PartRec) /\ Len(G) = Len(M) /\ G[l] = NewPart(M[l].item, M[l].part, "received")
        /\ \A j \in 1 .. Len(M) : j # l => G[j] = M[j]
    BY <1>3 DEF Changed
  <1>5. M[k].st = "received"
    BY <1>2 DEF NewPart
  <1>6. l = k + 1
    <2>1. l # k
      BY <1>3, <1>5
    <2>2. ~(l < k)
      <3> SUFFICES ASSUME l < k PROVE FALSE
        OBVIOUS
      <3>1. l \in 1 .. k - 1 /\ l \in 1 .. Len(F)
        BY <1>1, <1>2, <1>3
      <3>2. M[l] = F[l] /\ F[l].st = "received"
        BY <1>1, <1>2, <2>1, <3>1
      <3> QED BY <1>3, <3>2
    <2>3. ~(l > k + 1)
      <3> SUFFICES ASSUME l > k + 1 PROVE FALSE
        OBVIOUS
      <3>1. k + 1 \in 1 .. l - 1 /\ k + 1 \in 1 .. Len(F) /\ k + 1 \in k .. Len(F) /\ k + 1 # k
        BY <1>1, <1>2, <1>3
      <3>2. M[k + 1] = F[k + 1]
        BY <1>2, <3>1
      <3>3. M[k + 1].st = "received"
        BY <1>3, <3>1
      <3>4. F[k + 1].st # "received"
        BY <1>1, <3>1
      <3> QED BY <3>2, <3>3, <3>4
    <2> QED BY <1>1, <1>3, <2>1, <2>2, <2>3
  <1>7. DOMAIN F = 1 .. Len(F) /\ F[k] \in PartRec /\ F[l] \in PartRec /\ l \in 1 .. Len(F) /\ l # k
    BY <1>1, <1>2, <1>3, <1>6, SeqFun
  <1>8. M[l] = F[l]
    BY <1>2, <1>7
  <1>9. [F[k] EXCEPT !.st = "received"] = G[k] /\ [F[l] EXCEPT !.st = "received"] = G[l]
    <2>1. G[k] = M[k]
      BY <1>1, <1>2, <1>4, <1>7
    <2>2. [F[k] EXCEPT !.st = "received"] = NewPart(F[k].item, F[k].part, "received")
      BY <1>7, PartSet
    <2>3. [F[l] EXCEPT !.st = "received"] = NewPart(F[l].item, F[l].part, "received")
      BY <1>7, PartSet
    <2> QED BY <1>2, <1>4, <1>8, <2>1, <2>2, <2>3
  <1>10. \A j \in 1 .. Len(F) : j \in k .. l <=> j = k \/ j = l
    BY <1>1, <1>6
  <1>11. \A j \in 1 .. Len(F) : G[j] = IF j \in k .. l THEN [F[j] EXCEPT !.st = "received"] ELSE F[j]
    <2> TAKE j \in 1 .. Len(F)
    <2>1. CASE j = k \/ j = l
      BY <1>9, <1>10, <2>1
    <2>2. CASE j # k /\ j # l
      BY <1>2, <1>4, <1>10, <2>2
    <2> QED BY <2>1, <2>2
  <1>12. G = [j \in 1 .. Len(F) |-> G[j]]
    BY <1>2, <1>4, SeqFun
  <1>13. G = [j \in DOMAIN F |-> IF j \in k .. l THEN [F[j] EXCEPT !.st = "received"] ELSE F[j]]
    BY <1>7, <1>11, <1>12
  <1>14. \A j \in k .. l : F[j].st = "sent" /\ F[j].item = F[k].item
    <2>1. \A j \in k .. l : j = k \/ j = l
      BY <1>1, <1>6
    <2> QED BY <1>1, <1>3, <1>8, <2>1
  <1>15. k <= l
    BY <1>1, <1>6
  <1> QED BY <1>1, <1>7, <1>13, <1>14, <1>15 DEF Receives

(* StoredNow for the next state.                                             *)
LEMMA StoredNext == IInv' => (StoredIs(config.size, rb, sending, held, Stored))'
  BY StoredNow, PTL

(* What is stored after a step.                                              *)
LEMMA StoredAfter ==
  ASSUME config \in Configs, config' = config, StateInv(config, rb', sending', held'),
         NEW G, StoredIs(config.size, rb', sending', held', G)
  PROVE  Stored' = G
  <1>1. PICK s, F : s = config.size /\ F = Stored'
    OBVIOUS
  <1>2. IInv'
    BY DEF IInv
  <1>3. StoredIs(s, rb', sending', held', F)
    BY <1>1, <1>2, StoredNext
  <1>4. Sz(s) /\ Layout(s, rb')
    BY <1>1, StateFacts
  <1>5. F = G
    BY <1>1, <1>3, <1>4, StoredUnique
  <1> QED BY <1>1, <1>5

(* An item that is not in use is not stored.                                 *)
LEMMA AbsentItem ==
  ASSUME IInv, NEW i, i \notin InUse
  PROVE  Fifo!Absent(i)
  <1>1. PICK s : s = config.size
    OBVIOUS
  <1>2. /\ \A k \in 1 .. Len(Live) : Live[k] \in LiveItems(s, rb)
        /\ Stored = [k \in 1 .. Len(Live) |-> EntryOf(rb, sending, held, Live[k])]
    BY <1>1, StoredFacts
  <1>3. ASSUME NEW k \in DOMAIN Stored PROVE Stored[k].item # i
    <2>1. k \in 1 .. Len(Live)
      BY <1>2
    <2>2. Stored[k] = EntryOf(rb, sending, held, Live[k])
      BY <1>2, <2>1
    <2>3. Stored[k].item = rb.mem[Live[k]].item
      BY <2>2 DEF EntryOf
    <2>4. Live[k] \in Offsets /\ HasHeader(rb, Live[k])
      BY <1>1, <1>2, <2>1 DEF LiveItems, Entries, Heads, Offsets
    <2>5. rb.mem[Live[k]].item \in InUse
      BY <2>4 DEF InUse
    <2> QED BY <2>3, <2>5
  <1> QED BY <1>3 DEF Fifo!Absent

(* What is stored is a sequence of parts.                                    *)
LEMMA StoredSeq ==
  ASSUME config \in Configs, NEW b, NEW q, NEW h, StateInv(config, b, q, h), NEW F, StoredIs(config.size, b, q, h, F)
  PROVE  F \in Seq(PartRec)
  <1>1. PICK s : s = config.size
    OBVIOUS
  <1>2. Sz(s) /\ Layout(s, b)
    BY <1>1, StateFacts
  <1>3. PICK L : Enum(s, b, LiveItems(s, b), L) /\ F = Row(b, q, h, L)
    BY <1>1 DEF StoredIs
  <1>4. L \in Seq(0 .. s - 1) /\ RangeOf(L) \subseteq Heads(s, b)
    BY <1>2, <1>3, LiveHeads DEF Enum
  <1>5. RowIs(b, q, h, L, F)
    BY <1>2, <1>3, <1>4, RowFacts
  <1> QED BY <1>5 DEF RowIs

(* Two parts are appended one after the other.                               *)
LEMMA SnocTwice ==
  ASSUME NEW S, NEW F \in Seq(S), NEW e \in S, NEW f \in S
  PROVE  Append(Append(F, e), f) = F \o <<e, f>>
  <1>1. PICK M, G, T : M = Append(F, e) /\ G = Append(M, f) /\ T = <<e, f>>
    OBVIOUS
  <1>2. M \in Seq(S) /\ Len(M) = Len(F) + 1 /\ (\A j \in 1 .. Len(F) : M[j] = F[j]) /\ M[Len(F) + 1] = e
    BY <1>1, AppendProperties
  <1>3. G \in Seq(S) /\ Len(G) = Len(M) + 1 /\ (\A j \in 1 .. Len(M) : G[j] = M[j]) /\ G[Len(M) + 1] = f
    BY <1>1, <1>2, AppendProperties
  <1>4. T \in Seq(S) /\ Len(T) = 2 /\ T[1] = e /\ T[2] = f
    BY <1>1
  <1>5. PICK Z : Z = Cat(F, T)
    OBVIOUS
  <1>6. Z \in Seq(S) /\ IsCat(F, T, Z)
    BY <1>4, <1>5, CatFacts
  <1>7. /\ Len(Z) = Len(F) + 2 /\ (\A j \in 1 .. Len(F) : Z[j] = F[j]) /\ Len(F) \in Nat
        /\ Z[Len(F) + 1] = e /\ Z[Len(F) + 2] = f
    BY <1>4, <1>6 DEF IsCat
  <1>8. \A j \in 1 .. Len(G) : G[j] = Z[j]
    <2> TAKE j \in 1 .. Len(G)
    <2>1. CASE j \in 1 .. Len(F)
      <3>1. j \in 1 .. Len(M)
        BY <1>2, <1>7, <2>1
      <3> QED BY <1>2, <1>3, <1>7, <2>1, <3>1
    <2>2. CASE j = Len(F) + 1
      <3>1. j \in 1 .. Len(M)
        BY <1>2, <1>7, <2>2
      <3> QED BY <1>2, <1>3, <1>7, <2>2, <3>1
    <2>3. CASE j = Len(F) + 2
      <3>1. j = Len(M) + 1
        BY <1>2, <1>7, <2>3
      <3> QED BY <1>3, <1>7, <2>3, <3>1
    <2> QED BY <1>2, <1>3, <1>7, <2>1, <2>2, <2>3
  <1>9. G = Z
    BY <1>2, <1>3, <1>6, <1>7, <1>8, SeqEqual
  <1> QED BY <1>1, <1>5, <1>9 DEF Cat

(* A step Send is a step Send of the FIFO.                                   *)
LEMMA SendFifo ==
  ASSUME SafeUse, IInv, config' = config, NEW i \in Items, NEW n \in Lengths, Send(i, n)
  PROVE  Fifo!Send(i)
  <1>1. PICK s, F : s = config.size /\ F = Stored
    OBVIOUS
  <1>2. /\ config \in Configs /\ StateInv(config, rb, sending, held) /\ StoredIs(s, rb, sending, held, F)
    BY <1>1, StoredNow DEF IInv
  <1>3. /\ i \notin InUse /\ n <= MaxItemSize /\ CheckItemFits(rb, n)
        /\ rb' = (IF config.kind = "nosplit" THEN CopyItemNoSplit(rb, i, n) ELSE CopyItemAllowSplit(rb, i, n))
        /\ (config.inOrder => sending = <<>>) /\ sending' = sending /\ held' = held
    BY DEF Send, InOrder
  <1>4. config.kind \in {"nosplit", "allowsplit"} /\ n \in Nat
    BY <1>2, UseFacts DEF Lengths
  <1>6. StateInv(config, rb', sending', held')
    BY SendStep
  <1>8. SendsTo(s, rb', sending, held, F, i)
    <2>1. CASE config.kind = "nosplit"
      <3>1. PICK c, e, G : c = rb' /\ e = NewPart(i, 1, "sent") /\ G = Append(F, e)
        OBVIOUS
      <3>2. c = CopyItemNoSplit(rb, i, n)
        BY <1>3, <2>1, <3>1
      <3>3. Longer(F, e, G)
        BY <3>1 DEF Longer
      <3>4. StoredIs(s, c, sending, held, G)
        BY <1>1, <1>2, <1>3, <1>4, <2>1, <3>1, <3>2, <3>3, SendNoSplitFifo
      <3>5. Sends(F, i, G)
        BY <3>1, <3>3 DEF Sends
      <3> QED BY <3>1, <3>4, <3>5 DEF SendsTo
    <2>2. CASE config.kind = "allowsplit"
      <3>1. PICK c : c = rb'
        OBVIOUS
      <3>2. c = CopyItemAllowSplit(rb, i, n)
        BY <1>3, <2>2, <3>1
      <3>3. sending = <<>>
        BY <1>2, <2>2 DEF StateInv, UseInv
      <3>4. StateInv(config, rb, <<>>, held) /\ StoredIs(s, rb, <<>>, held, F)
        BY <1>2, <3>3
      <3>5. SendsTo(s, c, <<>>, held, F, i)
        BY <1>1, <1>2, <1>3, <1>4, <2>2, <3>2, <3>4, SendAllowSplitFifo
      <3> QED BY <3>1, <3>3, <3>5
    <2> QED BY <1>4, <2>1, <2>2
  <1>9. PICK G : StoredIs(s, rb', sending, held, G) /\ Sends(F, i, G)
    BY <1>8 DEF SendsTo
  <1>10. Stored' = G
    <2>1. StoredIs(config.size, rb', sending', held', G)
      BY <1>1, <1>3, <1>9
    <2> QED BY <1>2, <1>6, <2>1, StoredAfter
  <1>11. Fifo!Absent(i)
    BY <1>3, AbsentItem
  <1>12. PICK e, f : e = NewPart(i, 1, "sent") /\ f = NewPart(i, 2, "sent")
    OBVIOUS
  <1>13. G = Append(F, e) \/ G = Append(Append(F, e), f)
    BY <1>9, <1>12 DEF Sends, Longer
  <1>14. Append(Append(F, e), f) = F \o <<e, f>>
    <2>1. F \in Seq(PartRec) /\ e \in PartRec /\ f \in PartRec
      <3>1. F \in Seq(PartRec)
        BY <1>1, <1>2, StoredSeq
      <3> QED BY <1>12, <3>1 DEF NewPart, PartRec
    <2> QED BY <2>1, SnocTwice
  <1>15. e = Fifo!Part(i, 1, "sent") /\ f = Fifo!Part(i, 2, "sent")
    BY <1>12 DEF Fifo!Part, NewPart
  <1> QED BY <1>1, <1>10, <1>11, <1>13, <1>14, <1>15 DEF Fifo!Send

(* A step SendAcquire is a step SendAcquire of the FIFO.                     *)
LEMMA SendAcquireFifo ==
  ASSUME SafeUse, IInv, config' = config, NEW i \in Items, NEW n \in Lengths, SendAcquire(i, n)
  PROVE  Fifo!SendAcquire(i)
  <1>1. PICK s, F, b, c, start, t : /\ s = config.size /\ F = Stored /\ b = rb /\ c = rb' /\ t = sending'
                                    /\ start = AcquireStart(rb, n)
    OBVIOUS
  <1>2. /\ config \in Configs /\ StateInv(config, b, sending, held) /\ StoredIs(s, b, sending, held, F)
    BY <1>1, StoredNow DEF IInv
  <1>3. /\ Acquiring /\ i \notin InUse /\ n <= MaxItemSize /\ CheckItemFits(b, n)
        /\ c = AcquireItem(b, i, n) /\ t = Append(sending, start) /\ held' = held
    BY <1>1 DEF SendAcquire
  <1>4. config.kind = "nosplit" /\ n \in Nat
    BY <1>2, <1>3, UseFacts DEF Lengths, Acquiring
  <1>5. StateInv(config, rb', sending', held')
    BY AcquireStep
  <1>6. PICK e, G : e = NewPart(i, 1, "acquired") /\ G = Append(F, e)
    OBVIOUS
  <1>7. Longer(F, e, G)
    BY <1>6 DEF Longer
  <1>8. StoredIs(s, c, t, held, G)
    <2>1. start = AcquireStart(b, n) /\ s = config.size /\ e = NewPart(i, 1, "acquired")
      BY <1>1, <1>6
    <2>2. n <= MaxItemSize /\ CheckItemFits(b, n) /\ c = AcquireItem(b, i, n) /\ Longer(sending, start, t)
      BY <1>3 DEF Longer
    <2> QED BY <1>2, <1>4, <1>7, <2>1, <2>2, AcquireFifo
  <1>9. Stored' = G
    <2>1. StoredIs(config.size, rb', sending', held', G)
      BY <1>1, <1>3, <1>8
    <2> QED BY <1>2, <1>5, <2>1, StoredAfter
  <1>10. Fifo!Absent(i)
    BY <1>3, AbsentItem
  <1>11. e = Fifo!Part(i, 1, "acquired")
    BY <1>6 DEF Fifo!Part, NewPart
  <1> QED BY <1>1, <1>6, <1>9, <1>10, <1>11 DEF Fifo!SendAcquire

(* A step SendComplete is a step SendComplete of the FIFO.                   *)
LEMMA SendCompleteFifo ==
  ASSUME SafeUse, IInv, config' = config, NEW j \in DOMAIN sending, SendComplete(j)
  PROVE  \E k \in DOMAIN Stored : Fifo!SendComplete(k)
  <1>1. PICK s, F, b, c, q, t, x : /\ s = config.size /\ F = Stored /\ b = rb /\ c = rb' /\ q = sending
                                   /\ t = sending' /\ x = sending[j]
    OBVIOUS
  <1>2. /\ config \in Configs /\ StateInv(config, b, q, held) /\ StoredIs(s, b, q, held, F)
    BY <1>1, StoredNow DEF IInv
  <1>3. /\ StateInv(config, rb', sending', held') /\ Completed(s, b, c, x)
        /\ t = Without(q, j) /\ j \in 1 .. Len(q) /\ held' = held
    BY <1>1, CompleteStep
  <1>4. PICK k, G : StoredIs(s, c, t, held, G) /\ CompletedOne(F, k, G)
    <2>1. q \in Seq(0 .. s - 1)
      BY <1>1, <1>2 DEF StateInv
    <2>2. t \in Seq(0 .. s - 1) /\ Dropped(q, j, t)
      BY <1>3, <2>1, WithoutDrops
    <2> QED BY <1>1, <1>2, <1>3, <2>2, CompleteFifo
  <1>5. Stored' = G
    <2>1. StoredIs(config.size, rb', sending', held', G)
      BY <1>1, <1>3, <1>4
    <2> QED BY <1>2, <1>3, <2>1, StoredAfter
  <1>6. k \in DOMAIN F /\ F[k].st = "acquired" /\ G = [F EXCEPT ![k].st = "sent"]
    BY <1>4, CompletedIs
  <1>7. Fifo!SendComplete(k)
    BY <1>1, <1>5, <1>6 DEF Fifo!SendComplete
  <1> QED BY <1>1, <1>6, <1>7

FifoReceives == \E k, l \in DOMAIN Stored : k <= l /\ Fifo!Receive(k, l)

(* What Receives says is a step Receive of the FIFO.                         *)
LEMMA ReceivesFifo ==
  ASSUME NEW F, F = Stored, NEW G, G = Stored', NEW k, NEW l, Receives(F, k, l, G)
  PROVE  FifoReceives
  <1>1. k \in DOMAIN F /\ l \in DOMAIN F /\ k <= l
    BY DEF Receives
  <1>2. Fifo!Receive(k, l)
    BY DEF Receives, Fifo!Receive
  <1> QED BY <1>1, <1>2 DEF FifoReceives

(* What is received is complete, when items are completed in order.          *)
LEMMA TakenComplete ==
  ASSUME config \in Configs, NEW b, NEW q, NEW h, StateInv(config, b, q, h), b.waiting > 0,
         NEW x, x = GetItemStart(b), config.inOrder \/ x \notin RangeOf(q)
  PROVE  x \notin RangeOf(q)
  <1> SUFFICES ASSUME config.inOrder PROVE x \notin RangeOf(q)
    OBVIOUS
  <1>1. PICK s, A : s = config.size /\ A = RangeOf(q)
    OBVIOUS
  <1>2. /\ Sz(s) /\ Layout(s, b) /\ WrapInv(s, b) /\ UseInv(config, b, q, h)
        /\ \E r \in 0 .. s : BufInv(s, b, A, h, r)
    BY <1>1, StateFacts
  <1>3. PICK r \in 0 .. s : BufInv(s, b, A, h, r)
    BY <1>2
  <1>4. r \in Int /\ WriteInv(s, b, A) /\ Pointer(s, b, b.read, r)
    BY <1>2, <1>3, Sizes DEF BufInv, ReadInv
  <1>5. OrderInv(s, b, A) /\ A \subseteq Entries(s, b)
    BY <1>1, <1>2, <1>4 DEF UseInv, WriteInv
  <1>6. WaitingItems(s, b, A, r) # {}
    BY <1>3, AvailWaiting
  <1>7. PICK y : y = First(b, b.read)
    OBVIOUS
  <1>8. y \notin A
    BY <1>2, <1>4, <1>5, <1>6, <1>7, OldestComplete
  <1>9. y = GetItemStart(b)
    BY <1>2, <1>4, <1>6, <1>7, OldestWaiting
  <1> QED BY <1>1, <1>8, <1>9

(* A step Receive is a step Receive of the FIFO.                             *)
LEMMA ReceiveOneFifo ==
  ASSUME SafeUse, IInv, config' = config, Receive
  PROVE  FifoReceives
  <1>1. PICK s, F, b, c, x, h : /\ s = config.size /\ F = Stored /\ b = rb /\ c = rb' /\ x = GetItemStart(rb)
                                /\ h = held'
    OBVIOUS
  <1>2. /\ config \in Configs /\ StateInv(config, b, sending, held) /\ StoredIs(s, b, sending, held, F)
    BY <1>1, StoredNow DEF IInv
  <1>3. /\ StateInv(config, rb', sending', held') /\ h = held \cup {HeldAt(b, x)}
        /\ c = GetItem(b) /\ b.waiting > 0 /\ sending' = sending
        /\ (config.inOrder \/ x \notin RangeOf(sending))
    BY <1>1, ReceiveStep DEF MayTake
  <1>4. PICK k, G : StoredIs(s, c, sending, h, G) /\ ReceivedOne(F, k, G)
    <2>1. x = GetItemStart(b)
      BY <1>1
    <2>2. PICK i : i = b.mem[x].item
      OBVIOUS
    <2>3. x \notin RangeOf(sending)
      BY <1>2, <1>3, <2>1, TakenComplete
    <2>4. OneReceived(s, c, sending, h, F, i)
      BY <1>1, <1>2, <1>3, <2>1, <2>2, <2>3, ReceiveFifo
    <2> QED BY <2>4 DEF OneReceived
  <1>5. Stored' = G
    <2>1. StoredIs(config.size, rb', sending', held', G)
      BY <1>1, <1>3, <1>4
    <2> QED BY <1>2, <1>3, <2>1, StoredAfter
  <1>6. Receives(F, k, k, G)
    BY <1>4, ReceivesOne
  <1> QED BY <1>1, <1>5, <1>6, ReceivesFifo

(* So is a step ReceiveSplit: it takes two neighbours.                       *)
LEMMA ReceiveSplitFifo ==
  ASSUME SafeUse, IInv, config' = config, ReceiveSplit
  PROVE  FifoReceives
  <1>1. PICK s, F, b, c, e, x, y : /\ s = config.size /\ F = Stored /\ b = rb /\ c = GetItem(rb) /\ e = rb'
                                   /\ x = GetItemStart(rb) /\ y = GetItemStart(GetItem(rb))
    OBVIOUS
  <1>2. /\ config \in Configs /\ StateInv(config, b, sending, held) /\ StoredIs(s, b, sending, held, F)
    BY <1>1, StoredNow DEF IInv
  <1>3. /\ StateInv(config, rb', sending', held') /\ sending = <<>> /\ sending' = <<>>
        /\ b.waiting > 0 /\ HeaderAt(b, x).split
        /\ held' = held \cup {HeldAt(b, x), HeldAt(c, y)}
        /\ e = GetItem(c) /\ c = GetItem(b) /\ x = GetItemStart(b) /\ y = GetItemStart(c)
        /\ ~(b.full /\ e.read = b.acquire)
    BY <1>1, ReceiveSplitStep
  <1>4. StateInv(config, b, <<>>, held) /\ StoredIs(s, b, <<>>, held, F)
    BY <1>2, <1>3
  <1>5. PICK h1, h2 : h1 = held \cup {HeldAt(b, x)} /\ h2 = h1 \cup {HeldAt(c, y)}
    OBVIOUS
  <1>6. h2 = held'
    BY <1>3, <1>5
  <1>7. BothTaken(b, held, x, c, y, e)
    BY <1>2, <1>3, <1>4, ReceiveSplitInv
  <1>8. StateInv(config, c, <<>>, h1) /\ c.waiting > 0 /\ y = 0 /\ b.mem[0].item = b.mem[x].item
    BY <1>5, <1>7 DEF BothTaken
  <1>9. PICK k, M : StoredIs(s, c, <<>>, h1, M) /\ ReceivedOne(F, k, M) /\ F[k].item = b.mem[x].item
    <2>1. PICK i : i = b.mem[x].item
      OBVIOUS
    <2>2. x \notin RangeOf(<<>>)
      BY DEF RangeOf
    <2>3. OneReceived(s, c, <<>>, h1, F, i)
      BY <1>1, <1>2, <1>3, <1>4, <1>5, <2>1, <2>2, ReceiveFifo
    <2> QED BY <2>1, <2>3 DEF OneReceived
  <1>10. PICK l, G : StoredIs(s, e, <<>>, h2, G) /\ ReceivedOne(M, l, G) /\ M[l].item = c.mem[y].item
    <2>1. PICK i : i = c.mem[y].item
      OBVIOUS
    <2>2. StateInv(config, c, <<>>, h1) /\ c.waiting > 0 /\ StoredIs(s, c, <<>>, h1, M)
      BY <1>8, <1>9
    <2>3. e = GetItem(c) /\ y = GetItemStart(c) /\ h2 = h1 \cup {HeldAt(c, y)} /\ s = config.size /\ config \in Configs
      BY <1>1, <1>2, <1>3, <1>5
    <2>4. y \notin RangeOf(<<>>)
      BY DEF RangeOf
    <2>5. OneReceived(s, e, <<>>, h2, M, i)
      BY <2>1, <2>2, <2>3, <2>4, ReceiveFifo
    <2> QED BY <2>1, <2>5 DEF OneReceived
  <1>11. c.mem[y].item = b.mem[x].item
    <2>1. c.mem = b.mem
      <3>1. Shape(b)
        BY <1>2 DEF StateInv
      <3>2. c = WithRead(b, PastItem(b, GetItemStart(b)), b.waiting - 1)
        BY <1>3 DEF GetItem, WithRead
      <3> QED BY <3>1, <3>2, SetRead
    <2> QED BY <1>8, <2>1
  <1>12. Receives(F, k, l, G)
    BY <1>9, <1>10, <1>11, ReceivesTwo
  <1>13. Stored' = G
    <2>1. StoredIs(config.size, rb', sending', held', G)
      BY <1>1, <1>3, <1>6, <1>10
    <2> QED BY <1>2, <1>3, <2>1, StoredAfter
  <1> QED BY <1>1, <1>12, <1>13, ReceivesFifo

(* A step Return is a step Return of the FIFO.                               *)
LEMMA ReturnItemFifo ==
  ASSUME SafeUse, IInv, config' = config, NEW x \in held, Return(x)
  PROVE  \E k \in DOMAIN Stored : Fifo!Return(k)
  <1>1. PICK s, F, b, c, p, h : s = config.size /\ F = Stored /\ b = rb /\ c = rb' /\ p = x.at /\ h = held'
    OBVIOUS
  <1>2. /\ config \in Configs /\ StateInv(config, b, sending, held) /\ StoredIs(s, b, sending, held, F)
    BY <1>1, StoredNow DEF IInv
  <1>3. c = ReturnItemDefault(b, p) /\ h = held \ {x} /\ sending' = sending
    BY <1>1 DEF Return
  <1>4. StateInv(config, rb', sending', held')
    BY ReturnStep
  <1>5. PICK k, G : StoredIs(s, c, sending, h, G) /\ ReturnedOne(F, k, G)
    BY <1>1, <1>2, <1>3, ReturnFifo
  <1>6. Stored' = G
    <2>1. StoredIs(config.size, rb', sending', held', G)
      BY <1>1, <1>3, <1>5
    <2> QED BY <1>2, <1>4, <2>1, StoredAfter
  <1>7. k \in DOMAIN F /\ F[k].st = "received" /\ G = SubSeq(F, 1, k - 1) \o SubSeq(F, k + 1, Len(F))
    BY <1>5, DroppedIs
  <1>8. Fifo!Return(k)
    BY <1>1, <1>6, <1>7 DEF Fifo!Return
  <1> QED BY <1>1, <1>7, <1>8

(* Every step is a step of the FIFO or leaves it unchanged.                  *)
LEMMA FifoStep ==
  ASSUME SafeUse, IInv, IInv', [Next]_vars
  PROVE  [Fifo!Next]_Stored
  <1>1. CASE UNCHANGED vars
    <2>1. config' = config /\ rb' = rb /\ sending' = sending /\ held' = held
      BY <1>1 DEF vars
    <2>2. config \in Configs /\ StateInv(config, rb', sending', held')
      BY <2>1 DEF IInv
    <2>3. StoredIs(config.size, rb', sending', held', Stored)
      BY <2>1, StoredNow
    <2>4. Stored' = Stored
      BY <2>1, <2>2, <2>3, StoredAfter
    <2> QED BY <2>4
  <1>2. CASE Next
    <2>1. config' = config
      BY <1>2 DEF Next
    <2>2. ASSUME NEW i \in Items, NEW n \in Lengths, Send(i, n) PROVE Fifo!Next
      BY <2>1, <2>2, SendFifo DEF Fifo!Next
    <2>3. ASSUME NEW i \in Items, NEW n \in Lengths, SendAcquire(i, n) PROVE Fifo!Next
      BY <2>1, <2>3, SendAcquireFifo DEF Fifo!Next
    <2>4. ASSUME NEW j \in DOMAIN sending, SendComplete(j) PROVE Fifo!Next
      BY <2>1, <2>4, SendCompleteFifo DEF Fifo!Next
    <2>5. ASSUME Receive PROVE Fifo!Next
      BY <2>1, <2>5, ReceiveOneFifo DEF Fifo!Next, FifoReceives
    <2>6. ASSUME ReceiveSplit PROVE Fifo!Next
      BY <2>1, <2>6, ReceiveSplitFifo DEF Fifo!Next, FifoReceives
    <2>7. ASSUME NEW x \in held, Return(x) PROVE Fifo!Next
      BY <2>1, <2>7, ReturnItemFifo DEF Fifo!Next
    <2> QED BY <1>2, <2>2, <2>3, <2>4, <2>5, <2>6, <2>7 DEF Next
  <1> QED BY <1>1, <1>2

(* At first the FIFO is empty.                                               *)
LEMMA FifoInit ==
  ASSUME Init, IInv
  PROVE  Fifo!Init
  <1>1. PICK s : s = config.size
    OBVIOUS
  <1>2. rb.free = rb.acquire /\ ~rb.full
    BY DEF Init, NewRingbuffer
  <1>3. Live = <<>>
    BY <1>2, LiveChain
  <1>4. Stored = [k \in 1 .. Len(Live) |-> EntryOf(rb, sending, held, Live[k])]
    BY StoredFacts
  <1>5. Stored = [k \in 1 .. 0 |-> EntryOf(rb, sending, held, Live[k])]
    BY <1>3, <1>4
  <1>6. Stored = <<>>
    BY <1>5
  <1> QED BY <1>6 DEF Fifo!Init

(* RingBuf implements RingFifo: seen through the headers from pucFree to     *)
(* pucAcquire, every critical section of ringbuf.c is a step of the strict   *)
(* FIFO that the documentation describes, or leaves it as it is.             *)
THEOREM RefinesFifo ==
  ASSUME SafeUse
  PROVE  Spec => ImplementsFifo
  <1>1. Init => IInv
    BY InitInv
  <1>2. Init /\ IInv => Fifo!Init
    BY FifoInit
  <1>3. IInv /\ IInv' /\ [Next]_vars => [Fifo!Next]_Stored
    BY FifoStep
  <1>4. Spec => []IInv
    BY Invariant
  <1> QED BY <1>1, <1>2, <1>3, <1>4, PTL DEF Spec, ImplementsFifo, Fifo!Spec
===============================================================================
