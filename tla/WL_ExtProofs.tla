------------------------------ MODULE WL_ExtProofs ------------------------------
(***************************************************************************)
(* Proofs about WL_Ext, for any number of sectors and any ratio of their     *)
(* sizes: erasing some FAT sectors keeps the ones beside them.               *)
(***************************************************************************)
EXTENDS WL_Ext, SequenceTheorems, TLAPS

(* Where FAT sector s is: the flash sector and the slot in it.               *)
Home(s) == s \div SizeFactor
Spot(s) == s % SizeFactor
Cell(s) == flash[Home(s)][Spot(s)]

(* s is one of the sectors that the piece p erases.                          *)
Covers(p, s) == Home(s) = p.base /\ ErasedSlot(p, Spot(s))

(* s has still to be erased by the call in progress.                         *)
Pending(s) == Covers(cur, s) \/ \E k \in 1 .. Len(todo) : Covers(todo[k], s)

(* The FAT sector that recover() erases by mistake.                          *)
Lost(s) == Mode = "safe" /\ powerFails > 0 /\ s = stateSector

(* x is what s should hold: when no call is in progress, during a call, and  *)
(* but for what the call has still to erase.                                 *)
Good(s, x) == expected[s] = Unknown \/ expected[s] = x \/ Lost(s)
Fine(s, x) == IF s \in asked THEN x = Erased ELSE Good(s, x)
Settled(s, x) == Pending(s) \/ Fine(s, x)

(* Any content will do for s.                                                *)
Free(s) == s \in asked \/ expected[s] = Unknown \/ Lost(s)

(* While a flash sector is rewritten, its FAT sectors are in the buffer.     *)
Rewriting == {"fit_erase", "fit_write", "fit_clear", "rec_erase", "rec_write"}
Value(s) == IF pc \in Rewriting /\ Home(s) = cur.base THEN buf[Spot(s)] ELSE Cell(s)

(* The pieces of an erase are in the part of the flash the user sees; one    *)
(* that goes through the buffer leaves something to write back.              *)
GoodPiece(p) ==
  /\ p \in Piece /\ p.base < UserSectors
  /\ p.kind = "fit" => p.count < SizeFactor
  /\ p.kind = "full" => p.shift = 0 /\ p.count = SizeFactor

InCall == pc \notin {"off", "idle"}

PhaseInv ==
  /\ ~InCall => asked = {} /\ todo = <<>>
  /\ pc \notin {"fit_write", "rec_write"} => i = 0
  /\ InCall => GoodPiece(cur) /\ \A k \in 1 .. Len(todo) : GoodPiece(todo[k])
  /\ InCall => \A s \in Fat : Pending(s) => Free(s)
  /\ pc = "full_erase" => cur.kind = "full" /\ asked # {}
  /\ pc \in FitPcs \cup RecoverPcs => cur.kind = "fit"
  /\ pc \in SavePcs \cup {"fit_clear"} \cup RecoverPcs => Mode = "safe"
  /\ pc \in RecoverPcs => asked = {}
  /\ InCall /\ asked = {} => Mode = "safe" /\ powerFails > 0 /\ todo = <<>>

RecordInv ==
  /\ Mode = "perf" \/ pc \in {"idle", "full_erase"} => record = NoPiece
  /\ pc \in {"fit_read"} \cup SavePcs /\ asked # {} => record = NoPiece
  /\ pc \in {"fit_erase", "fit_write", "fit_clear"} /\ Mode = "safe" => record = cur
  /\ pc \in {"state_erase", "state_write", "fit_erase", "fit_write", "fit_clear"} /\ Mode = "safe"
       => flash[dumpSector] = buf

(* The dump in the reserved sector is good for the record.                   *)
Rescue ==
  /\ Mode = "safe" /\ powerFails > 0 /\ GoodPiece(record) /\ record.kind = "fit"
  /\ \A s \in Fat : IF Home(s) # record.base THEN Good(s, Cell(s))
                    ELSE \/ expected[s] = Unknown \/ Lost(s)
                         \/ ~ErasedSlot(record, Spot(s)) /\ Good(s, flash[dumpSector][Spot(s)])

ContentInv ==
  /\ InCall => \A s \in Fat : Settled(s, Value(s))
  /\ pc \in SavePcs \cup {"fit_erase"} =>
       \A n \in Slot : ErasedSlot(cur, n) \/ buf[n] = flash[cur.base][n]
  /\ pc \in {"fit_write", "fit_clear", "rec_write"} =>
       \A n \in Slot : flash[cur.base][n] =
         IF ErasedSlot(cur, n) \/ (pc # "fit_clear" /\ n >= i) THEN Erased ELSE buf[n]
  /\ ~InCall /\ record = NoPiece => \A s \in Fat : Good(s, Cell(s))
  /\ pc = "off" /\ record # NoPiece => Rescue

(* The inductive invariant, with TypeOK.                                     *)
MInv == PhaseInv /\ RecordInv /\ ContentInv

-------------------------------------------------------------------------------
(* A quotient and its remainder.                                             *)
LEMMA Division ==
  ASSUME NEW m \in Int, NEW d \in Int, d > 0
  PROVE  m \div d \in Int /\ m % d \in 0 .. d - 1 /\ m = d * (m \div d) + (m % d)
  <1>1. m \div d \in Int /\ m % d \in 0 .. d - 1
    BY Z3
  <1>2. m = d * (m \div d) + (m % d)
    BY Z3
  <1> QED BY <1>1, <1>2

(* Products keep the order, and only they do.                                *)
LEMMA Products ==
  ASSUME NEW d \in Int, d > 0, NEW a \in Int, NEW b \in Int
  PROVE  d * a \in Int /\ d * b \in Int /\ (a < b => d * a + d <= d * b) /\ (a <= b <=> d * a <= d * b)
  <1>1. d * a \in Int /\ d * b \in Int
    OBVIOUS
  <1>2. ASSUME NEW x \in Int, NEW y \in Int, x < y PROVE d * x + d <= d * y
    <2>1. d * (x + 1) <= d * y
      BY <1>2
    <2>2. d * (x + 1) = d * x + d
      OBVIOUS
    <2> QED BY <2>1, <2>2
  <1>3. a < b => d * a + d <= d * b
    BY <1>2
  <1>4. b < a => d * b + d <= d * a
    BY <1>2
  <1>5. a = b => d * a = d * b
    OBVIOUS
  <1> QED BY <1>1, <1>3, <1>4, <1>5

(* There is only one quotient and one remainder.                             *)
LEMMA DivUnique ==
  ASSUME NEW d \in Int, d > 0, NEW q \in Int, NEW r \in 0 .. d - 1, NEW x, x = d * q + r
  PROVE  x \in Int /\ x \div d = q /\ x % d = r
  <1>1. PICK a, b : a = x \div d /\ b = x % d
    OBVIOUS
  <1>2. x \in Int
    BY Products
  <1>3. a \in Int /\ b \in 0 .. d - 1 /\ x = d * a + b
    BY <1>1, <1>2, Division
  <1>4. /\ d * a \in Int /\ d * q \in Int /\ (a < q => d * a + d <= d * q)
        /\ (q < a => d * q + d <= d * a)
    BY <1>3, Products
  <1>5. a = q
    BY <1>3, <1>4
  <1>6. b = r
    BY <1>3, <1>4, <1>5
  <1> QED BY <1>1, <1>2, <1>5, <1>6

(* The place of a FAT sector.                                                *)
LEMMA Place ==
  ASSUME NEW s \in Nat
  PROVE  /\ SizeFactor \in Int /\ SizeFactor > 0
         /\ Home(s) \in Int /\ Spot(s) \in Slot /\ Spot(s) \in 0 .. SizeFactor - 1
         /\ s = SizeFactor * Home(s) + Spot(s)
         /\ \A b \in Int : b <= Home(s) <=> SizeFactor * b <= s
  <1>1. SizeFactor \in Int /\ SizeFactor > 0
    BY ConfigAssumption
  <1>2. PICK d, h, p : d = SizeFactor /\ h = Home(s) /\ p = Spot(s)
    OBVIOUS
  <1>3. h \in Int /\ p \in 0 .. d - 1 /\ s = d * h + p /\ d \in Int /\ d > 0
    BY <1>1, <1>2, Division DEF Home, Spot
  <1>4. ASSUME NEW b \in Int PROVE b <= h <=> d * b <= s
    <2>1. /\ d * b \in Int /\ d * h \in Int /\ (b <= h <=> d * b <= d * h)
          /\ (h < b => d * h + d <= d * b)
      BY <1>3, Products
    <2> QED BY <1>3, <2>1
  <1> QED BY <1>1, <1>2, <1>3, <1>4 DEF Slot

(* Two FAT sectors do not share a place.                                     *)
LEMMA PlaceUnique ==
  ASSUME NEW s \in Nat, NEW t \in Nat, Home(s) = Home(t), Spot(s) = Spot(t)
  PROVE  s = t
  BY Place

(* What is known of a configuration.                                         *)
LEMMA Build ==
  ASSUME config \in Configs
  PROVE  /\ SizeFactor \in Int /\ SizeFactor > 0 /\ ChipSectors \in Int /\ ChipSectors > 2
         /\ UserSectors \in Int /\ UserSectors > 0 /\ UserSectors <= ChipSectors
         /\ Sector = 0 .. ChipSectors - 1 /\ Mode \in {"perf", "safe"}
         /\ MaxPowerFails \in Nat /\ MaxFaults \in Nat
         /\ (Mode = "safe" => UserSectors = ChipSectors - 2 /\ dumpSector \in Sector
                              /\ dumpSector >= UserSectors)
         /\ stateSector \in Nat /\ stateSector = ChipSectors - 2
         /\ Fat = 0 .. UserSectors * SizeFactor - 1 /\ UserSectors * SizeFactor \in Int
  <1>1. SizeFactor \in Int /\ SizeFactor > 0
    BY ConfigAssumption
  <1>2. ChipSectors \in Int /\ ChipSectors > 2 /\ Mode \in {"perf", "safe"}
        /\ MaxPowerFails \in Nat /\ MaxFaults \in Nat
    BY ConfigAssumption DEF ChipSectors, Mode, MaxPowerFails, MaxFaults
  <1>3. UserSectors \in Int /\ UserSectors > 0 /\ UserSectors <= ChipSectors
    BY <1>2 DEF UserSectors
  <1>4. UserSectors * SizeFactor \in Int
    BY <1>1, <1>3
  <1> QED BY <1>1, <1>2, <1>3, <1>4 DEF Sector, UserSectors, dumpSector, stateSector, Fat

(* A FAT sector is in the part of the flash the user sees.                   *)
LEMMA FatPlace ==
  ASSUME config \in Configs, NEW s \in Fat
  PROVE  /\ s \in Nat /\ Home(s) \in Sector /\ Home(s) \in Nat /\ Home(s) < UserSectors
         /\ Spot(s) \in Slot
  <1>1. s \in Nat /\ s < UserSectors * SizeFactor /\ UserSectors * SizeFactor \in Int
    BY Build
  <1>2. PICK d, u, h : d = SizeFactor /\ u = UserSectors /\ h = Home(s)
    OBVIOUS
  <1>3. d \in Int /\ d > 0 /\ u \in Int /\ u <= ChipSectors /\ ChipSectors \in Int
    BY <1>2, Build
  <1>4. h \in Int /\ \A b \in Int : b <= h <=> d * b <= s
    BY <1>1, <1>2, Place
  <1>5. u * d = d * u /\ s < u * d
    BY <1>1, <1>2, <1>3
  <1>6. h < u
    BY <1>1, <1>3, <1>4, <1>5
  <1>7. 0 <= h
    <2>1. 0 \in Int /\ d * 0 = 0
      BY <1>3
    <2> QED BY <1>1, <1>4, <2>1
  <1> QED BY <1>1, <1>2, <1>3, <1>4, <1>6, <1>7, Place, Build

-------------------------------------------------------------------------------
(* The three parts of an erase.                                              *)
Partial(at, count) == IF count # 0 THEN <<Fit(at, count)>> ELSE <<>>
Wholes(sector, m) == [k \in 1 .. m |-> Full(sector + k - 1)]
Joined(a, b, c) == a \o b \o c

(* The numbers that erase_range works with.                                  *)
First(start, n) ==
  IF SizeFactor - (start % SizeFactor) > n THEN n ELSE SizeFactor - (start % SizeFactor)
Post(start, n) == (n - First(start, n)) % SizeFactor
Whole(start, n) == First(start, n) = SizeFactor /\ start % SizeFactor = 0
Pre(start, n) == IF Whole(start, n) THEN 0 ELSE First(start, n)
Middle(start, n) ==
  (n - First(start, n) - Post(start, n) + (IF Whole(start, n) THEN SizeFactor ELSE 0)) \div SizeFactor

FirstWhole(start, pre) == (start + pre) \div SizeFactor

(* The parts make the sequence of pieces.                                    *)
LEMMA PiecesParts ==
  ASSUME NEW start, NEW n
  PROVE  Pieces(start, n) =
           Joined(Partial(start, Pre(start, n)),
                  Wholes(FirstWhole(start, Pre(start, n)), Middle(start, n)),
                  Partial(start + n - Post(start, n), Post(start, n)))
  BY DEF Pieces, Joined, Partial, Wholes, Pre, Middle, Post, Whole, First, FirstWhole

(* How the numbers fit together.                                             *)
Follow(start, n, d, pre, m, post, z) ==
  /\ d \in Int /\ d > 0
  /\ pre \in 0 .. d - 1 /\ m \in Nat /\ post \in 0 .. d - 1 /\ z \in Int
  /\ d * m \in Int /\ pre + d * m + post = n
  /\ Spot(start) + pre <= d
  /\ m > 0 \/ post > 0 => start + pre = d * z /\ start + n - post = d * (z + m)

(* The parts follow each other: the first one, if any, stays in a flash      *)
(* sector; the whole sectors begin where it ends; the last one begins a      *)
(* flash sector.                                                             *)
LEMMA Numbers ==
  ASSUME NEW start \in Nat, NEW n \in Nat, n > 0,
         NEW d, d = SizeFactor, NEW pre, pre = Pre(start, n), NEW m, m = Middle(start, n),
         NEW post, post = Post(start, n), NEW z, z = FirstWhole(start, pre)
  PROVE  Follow(start, n, d, pre, m, post, z)
  <1>1. d \in Int /\ d > 0
    BY Place
  <1>2. PICK q, r : q = Home(start) /\ r = Spot(start)
    OBVIOUS
  <1>3. q \in Int /\ r \in 0 .. d - 1 /\ start = d * q + r /\ r = start % SizeFactor
    BY <1>2, Place DEF Spot
  <1>4. PICK first : first = First(start, n)
    OBVIOUS
  <1>5. /\ first = (IF d - r > n THEN n ELSE d - r)
        /\ first \in 1 .. d /\ first <= n /\ r + first <= d /\ (first < n => r + first = d)
    <2>1. first = (IF d - r > n THEN n ELSE d - r)
      <3>1. SizeFactor = d /\ start % SizeFactor = r
        BY <1>3
      <3> QED BY <1>4, <3>1, Zenon DEF First
    <2> QED BY <1>1, <1>3, <2>1
  <1>6. PICK h : h = (n - first) \div d
    OBVIOUS
  <1>7. post = (n - first) % d
    BY <1>4 DEF Post
  <1>8. h \in Int /\ post \in 0 .. d - 1 /\ n - first = d * h + post
    <2>1. n - first \in Int
      BY <1>5
    <2>2. PICK x : x = n - first
      OBVIOUS
    <2>3. x \in Int /\ h = x \div d /\ post = x % d
      BY <1>6, <1>7, <2>1, <2>2
    <2>4. h \in Int /\ post \in 0 .. d - 1 /\ x = d * h + post
      BY <1>1, <2>3, Division
    <2> QED BY <2>2, <2>4
  <1>9. d * h \in Int /\ h >= 0
    <2>1. d * h \in Int /\ (h < 0 => d * h + d <= d * 0) /\ d * 0 = 0
      BY <1>1, <1>8, Products
    <2> QED BY <1>1, <1>5, <1>8, <2>1
  <1>10. PICK whole : whole = (first = d /\ r = 0)
    OBVIOUS
  <1>11. whole <=> first = d /\ r = 0
    BY <1>10, Zenon
  <1>12. Whole(start, n) <=> first = d /\ r = 0
    BY <1>3, <1>4 DEF Whole
  <1>13. CASE first = d /\ r = 0
    <2>1. pre = 0
      BY <1>12, <1>13 DEF Pre
    <2>2. m = (n - first - post + d) \div d
      BY <1>4, <1>12, <1>13 DEF Middle
    <2>3. n - first - post + d = d * (h + 1) + 0 /\ h + 1 \in Int /\ 0 \in 0 .. d - 1
          /\ d * (h + 1) = d * h + d
      BY <1>1, <1>5, <1>8, <1>9
    <2>4. m = h + 1
      BY <1>1, <2>2, <2>3, DivUnique
    <2>5. d * m = d * h + d
      BY <2>3, <2>4
    <2>6. z = q
      <3>1. start + pre = d * q + 0 /\ 0 \in 0 .. d - 1
        BY <1>1, <1>3, <1>13, <2>1
      <3>2. z = (start + pre) \div d
        BY DEF FirstWhole
      <3> QED BY <1>1, <1>3, <3>1, <3>2, DivUnique
    <2>7. d * (z + m) = d * q + d * m /\ d * q \in Int
      BY <1>1, <1>3, <1>9, <2>4, <2>6
    <2>8. start + n - post = d * (z + m)
      BY <1>1, <1>3, <1>5, <1>8, <1>9, <1>13, <2>5, <2>7
    <2>9. m \in Nat /\ d * m \in Int /\ pre + d * m + post = n
      BY <1>1, <1>5, <1>8, <1>9, <1>13, <2>1, <2>4, <2>5
    <2>10. start + pre = d * z /\ Spot(start) + pre <= d /\ pre \in 0 .. d - 1
      <3>1. start = d * q /\ d * q \in Int
        <4>1. PICK x : x = d * q
          OBVIOUS
        <4>2. x \in Int /\ start = x + r /\ r = 0
          BY <1>3, <1>13, <2>7, <4>1
        <4> QED BY <4>1, <4>2
      <3> QED BY <1>1, <1>2, <1>13, <2>1, <2>6, <3>1
    <2> QED BY <1>1, <1>3, <1>8, <2>6, <2>8, <2>9, <2>10 DEF Follow
  <1>14. CASE ~(first = d /\ r = 0)
    <2>1. pre = first
      BY <1>4, <1>12, <1>14 DEF Pre
    <2>2. m = (n - first - post + 0) \div d
      BY <1>4, <1>12, <1>14 DEF Middle
    <2>3. n - first - post + 0 = d * h + 0 /\ 0 \in 0 .. d - 1
      BY <1>1, <1>5, <1>8, <1>9
    <2>4. m = h
      BY <1>1, <1>8, <2>2, <2>3, DivUnique
    <2>5. pre \in 0 .. d - 1
      BY <1>1, <1>3, <1>5, <1>14, <2>1
    <2>6. z \in Int
      <3>1. start + pre \in Int
        BY <2>5
      <3> QED BY <1>1, <3>1, Division DEF FirstWhole
    <2>7. ASSUME m > 0 \/ post > 0
          PROVE  start + pre = d * z /\ start + n - post = d * (z + m)
      <3>1. first < n
        <4>1. m > 0 => d * m >= d
          <5>1. d * 1 = d /\ (1 <= m <=> d * 1 <= d * m)
            BY <1>1, <1>8, <2>4, Products
          <5> QED BY <1>1, <1>8, <1>9, <2>4, <5>1
        <4> QED BY <1>1, <1>5, <1>8, <1>9, <2>4, <2>7, <4>1
      <3>2. start + pre = d * (q + 1) + 0 /\ q + 1 \in Int /\ 0 \in 0 .. d - 1
        <4>1. d * (q + 1) = d * q + d /\ d * q \in Int
          BY <1>1, <1>3
        <4> QED BY <1>1, <1>3, <1>5, <2>1, <3>1, <4>1
      <3>3. z = q + 1
        BY <1>1, <3>2, DivUnique DEF FirstWhole
      <3>4. d * (z + m) = d * (q + 1) + d * h /\ d * (q + 1) \in Int
        BY <1>1, <1>3, <1>8, <2>4, <3>3
      <3>5. PICK x, y : x = d * (q + 1) /\ y = d * h
        OBVIOUS
      <3>6. x \in Int /\ y \in Int /\ start + pre = x /\ d * z = x
        BY <1>9, <3>2, <3>3, <3>4, <3>5
      <3>8. PICK w : w = d * (z + m)
        OBVIOUS
      <3>9. w = x + y
        BY <3>4, <3>5, <3>8
      <3>7. pre \in Int /\ n = pre + y + post /\ post \in Int
        BY <1>5, <1>8, <2>1, <2>5, <3>5, <3>6
      <3>10. start + n - post = w
        <4>1. x \in Int /\ y \in Int /\ start + pre = x
          BY <3>6
        <4>2. n - post = pre + y
          BY <3>7, <4>1
        <4>3. start + n - post = start + (n - post) /\ start + (pre + y) = (start + pre) + y
          BY <3>7, <4>1
        <4> QED BY <3>9, <4>1, <4>2, <4>3
      <3> QED BY <3>6, <3>8, <3>10
    <2>8. m \in Nat /\ d * m \in Int /\ pre + d * m + post = n
      <3>1. PICK y : y = d * h
        OBVIOUS
      <3>2. y \in Int /\ d * m = y /\ n - first = y + post
        BY <1>8, <1>9, <2>4, <3>1
      <3> QED BY <1>5, <1>8, <1>9, <2>1, <2>4, <3>2
    <2>9. Spot(start) + pre <= d
      BY <1>2, <1>5, <2>1
    <2> QED BY <1>1, <1>8, <2>5, <2>6, <2>7, <2>8, <2>9 DEF Follow
  <1> QED BY <1>13, <1>14

(* What holds of every piece p of the erase of n FAT sectors from start on.  *)
PieceOf(p, start, n) ==
  GoodPiece(p) /\ \A s \in Fat : Covers(p, s) => s \in start .. start + n - 1

(* What ps has to do with the sequences it is made of.                       *)
HasParts(ps, S, a, b, c) ==
  /\ ps \in Seq(S) /\ Len(ps) = Len(a) + Len(b) + Len(c)
  /\ \A k \in 1 .. Len(ps) : \/ \E j \in 1 .. Len(a) : ps[k] = a[j]
                             \/ \E j \in 1 .. Len(b) : ps[k] = b[j]
                             \/ \E j \in 1 .. Len(c) : ps[k] = c[j]
  /\ \A j \in 1 .. Len(a) : \E k \in 1 .. Len(ps) : ps[k] = a[j]
  /\ \A j \in 1 .. Len(b) : \E k \in 1 .. Len(ps) : ps[k] = b[j]
  /\ \A j \in 1 .. Len(c) : \E k \in 1 .. Len(ps) : ps[k] = c[j]

(* Three sequences one after the other.                                      *)
LEMMA JoinedFacts ==
  ASSUME NEW S, NEW a \in Seq(S), NEW b \in Seq(S), NEW c \in Seq(S), NEW ps, ps = Joined(a, b, c)
  PROVE  HasParts(ps, S, a, b, c)
  <1>1. PICK la, lb, lc, ab : la = Len(a) /\ lb = Len(b) /\ lc = Len(c) /\ ab = a \o b
    OBVIOUS
  <1>2. la \in Nat /\ lb \in Nat /\ lc \in Nat
    BY <1>1, LenProperties
  <1>3. /\ a \o b \in Seq(S) /\ Len(a \o b) = Len(a) + Len(b)
        /\ \A k \in 1 .. Len(a) + Len(b) :
             (a \o b)[k] = IF k <= Len(a) THEN a[k] ELSE b[k - Len(a)]
    BY ConcatProperties, Zenon
  <1>4. /\ ab \in Seq(S) /\ Len(ab) = la + lb
        /\ \A k \in 1 .. la + lb : ab[k] = IF k <= la THEN a[k] ELSE b[k - la]
    BY <1>1, <1>3, Zenon
  <1>5. /\ ab \o c \in Seq(S) /\ Len(ab \o c) = Len(ab) + Len(c)
        /\ \A k \in 1 .. Len(ab) + Len(c) :
             (ab \o c)[k] = IF k <= Len(ab) THEN ab[k] ELSE c[k - Len(ab)]
    BY <1>4, ConcatProperties, Zenon
  <1>6. ps = ab \o c
    BY <1>1, Zenon DEF Joined
  <1>7. /\ ps \in Seq(S) /\ Len(ps) = la + lb + lc
        /\ \A k \in 1 .. la + lb + lc : ps[k] = IF k <= la + lb THEN ab[k] ELSE c[k - (la + lb)]
    BY <1>1, <1>4, <1>5, <1>6, Zenon
  <1>8. ASSUME NEW k \in 1 .. la + lb + lc
        PROVE  \/ \E j \in 1 .. la : ps[k] = a[j]
               \/ \E j \in 1 .. lb : ps[k] = b[j]
               \/ \E j \in 1 .. lc : ps[k] = c[j]
    <2>1. CASE k <= la
      <3>1. k \in 1 .. la /\ k \in 1 .. la + lb /\ k <= la + lb
        BY <1>2, <2>1
      <3>2. ps[k] = a[k]
        BY <1>4, <1>7, <2>1, <3>1
      <3> QED BY <3>1, <3>2
    <2>2. CASE ~(k <= la) /\ k <= la + lb
      <3>1. k - la \in 1 .. lb /\ k \in 1 .. la + lb
        BY <1>2, <2>2
      <3>2. ps[k] = b[k - la]
        BY <1>4, <1>7, <2>2, <3>1
      <3> QED BY <3>1, <3>2
    <2>3. CASE ~(k <= la + lb)
      <3>1. k - (la + lb) \in 1 .. lc
        BY <1>2, <2>3
      <3>2. ps[k] = c[k - (la + lb)]
        BY <1>7, <2>3
      <3> QED BY <3>1, <3>2
    <2> QED BY <2>1, <2>2, <2>3
  <1>9. ASSUME NEW j \in 1 .. la PROVE \E k \in 1 .. la + lb + lc : ps[k] = a[j]
    <2>1. j \in 1 .. la + lb + lc /\ j \in 1 .. la + lb /\ j <= la /\ j <= la + lb
      BY <1>2
    <2>2. ps[j] = a[j]
      BY <1>4, <1>7, <2>1
    <2> QED BY <2>1, <2>2
  <1>10. ASSUME NEW j \in 1 .. lb PROVE \E k \in 1 .. la + lb + lc : ps[k] = b[j]
    <2>1. /\ la + j \in 1 .. la + lb + lc /\ la + j \in 1 .. la + lb /\ ~(la + j <= la)
          /\ la + j <= la + lb /\ (la + j) - la = j
      BY <1>2
    <2>2. ps[la + j] = b[j]
      BY <1>4, <1>7, <2>1
    <2> QED BY <2>1, <2>2
  <1>11. ASSUME NEW j \in 1 .. lc PROVE \E k \in 1 .. la + lb + lc : ps[k] = c[j]
    <2>1. /\ la + lb + j \in 1 .. la + lb + lc /\ ~(la + lb + j <= la + lb)
          /\ (la + lb + j) - (la + lb) = j
      BY <1>2
    <2>2. ps[la + lb + j] = c[j]
      BY <1>7, <2>1
    <2> QED BY <2>1, <2>2
  <1>12. Len(a) = la /\ Len(b) = lb /\ Len(c) = lc /\ Len(ps) = la + lb + lc /\ ps \in Seq(S)
    BY <1>1, <1>7, Zenon
  <1>13. \A k \in 1 .. Len(ps) :
           \/ \E j \in 1 .. Len(a) : ps[k] = a[j]
           \/ \E j \in 1 .. Len(b) : ps[k] = b[j]
           \/ \E j \in 1 .. Len(c) : ps[k] = c[j]
    BY <1>8, <1>12, Zenon
  <1>14. \A j \in 1 .. Len(a) : \E k \in 1 .. Len(ps) : ps[k] = a[j]
    BY <1>9, <1>12, Zenon
  <1>15. \A j \in 1 .. Len(b) : \E k \in 1 .. Len(ps) : ps[k] = b[j]
    BY <1>10, <1>12, Zenon
  <1>16. \A j \in 1 .. Len(c) : \E k \in 1 .. Len(ps) : ps[k] = c[j]
    BY <1>11, <1>12, Zenon
  <1> QED BY <1>12, <1>13, <1>14, <1>15, <1>16, Zenon DEF HasParts

(* A piece that goes through the buffer.                                     *)
LEMMA FitFacts ==
  ASSUME config \in Configs, NEW at \in Nat, NEW b \in Int, b >= 0, b < UserSectors, Home(at) = b,
         NEW count \in Int, count > 0, count < SizeFactor, Spot(at) + count <= SizeFactor
  PROVE  /\ GoodPiece(Fit(at, count)) /\ Fit(at, count).kind = "fit"
         /\ \A s \in Nat : Covers(Fit(at, count), s) <=> at <= s /\ s < at + count
  <1>1. PICK p : p = Fit(at, count)
    OBVIOUS
  <1>2. /\ p = [kind |-> "fit", base |-> b, shift |-> Spot(at), count |-> count]
    BY <1>1 DEF Fit, Home, Spot
  <1>3. p.kind = "fit" /\ p.base = b /\ p.shift = Spot(at) /\ p.count = count
    BY <1>2
  <1>4. /\ SizeFactor \in Int /\ SizeFactor > 0 /\ UserSectors \in Int /\ UserSectors <= ChipSectors
        /\ ChipSectors \in Int /\ Sector = 0 .. ChipSectors - 1
    BY Build
  <1>5. b \in Sector /\ Spot(at) \in Slot /\ count \in 1 .. SizeFactor
    BY <1>4, Place
  <1>6. p \in Piece
    BY <1>2, <1>5 DEF Piece
  <1>7. GoodPiece(p)
    BY <1>3, <1>6 DEF GoodPiece
  <1>8. ASSUME NEW s \in Nat PROVE Covers(p, s) <=> at <= s /\ s < at + count
    <2>1. PICK d, h, x, y : d = SizeFactor /\ h = Home(s) /\ x = Spot(s) /\ y = Spot(at)
      OBVIOUS
    <2>2. /\ d \in Int /\ d > 0 /\ h \in Int /\ x \in 0 .. d - 1 /\ y \in 0 .. d - 1
          /\ s = d * h + x /\ at = d * b + y
      BY <2>1, Place
    <2>3. Covers(p, s) <=> h = b /\ y <= x /\ x < y + count
      BY <1>3, <2>1 DEF Covers, ErasedSlot
    <2>4. /\ d * h \in Int /\ d * b \in Int /\ (h < b => d * h + d <= d * b)
          /\ (b < h => d * b + d <= d * h)
      BY <2>2, Products
    <2>5. y + count <= d
      BY <2>1
    <2>6. CASE h = b
      <3>1. d * h = d * b
        BY <2>6
      <3> QED BY <2>2, <2>3, <2>4, <2>6, <3>1
    <2>7. CASE h # b
      BY <2>2, <2>3, <2>4, <2>5, <2>7
    <2> QED BY <2>6, <2>7
  <1> QED BY <1>1, <1>3, <1>7, <1>8

(* A whole flash sector.                                                     *)
LEMMA FullFacts ==
  ASSUME config \in Configs, NEW b \in Int, b >= 0, b < UserSectors
  PROVE  /\ GoodPiece(Full(b)) /\ Full(b).kind = "full"
         /\ \A s \in Nat : Covers(Full(b), s) <=> Home(s) = b
  <1>1. PICK p : p = Full(b)
    OBVIOUS
  <1>2. p = [kind |-> "full", base |-> b, shift |-> 0, count |-> SizeFactor]
    BY <1>1 DEF Full
  <1>3. p.kind = "full" /\ p.base = b /\ p.shift = 0 /\ p.count = SizeFactor
    BY <1>2
  <1>4. /\ SizeFactor \in Int /\ SizeFactor > 0 /\ UserSectors \in Int /\ UserSectors <= ChipSectors
        /\ ChipSectors \in Int /\ Sector = 0 .. ChipSectors - 1
    BY Build
  <1>5. b \in Sector /\ 0 \in Slot /\ SizeFactor \in 1 .. SizeFactor
    BY <1>4 DEF Slot
  <1>6. p \in Piece
    BY <1>2, <1>5 DEF Piece
  <1>7. GoodPiece(p)
    BY <1>3, <1>6 DEF GoodPiece
  <1>8. ASSUME NEW s \in Nat PROVE Covers(p, s) <=> Home(s) = b
    <2>1. Spot(s) \in 0 .. SizeFactor - 1
      BY Place
    <2> QED BY <1>3, <1>4, <2>1 DEF Covers, ErasedSlot
  <1> QED BY <1>1, <1>3, <1>7, <1>8

(* erase_range erases what it was asked to, each piece in one flash sector,  *)
(* and no more: at the boundaries too.                                       *)
LEMMA PiecesFacts ==
  ASSUME config \in Configs, NEW start \in Fat, NEW n \in Nat, n > 0, start + n - 1 \in Fat,
         NEW ps, ps = Pieces(start, n)
  PROVE  /\ ps \in Seq(Piece) /\ Len(ps) > 0
         /\ \A k \in 1 .. Len(ps) : PieceOf(ps[k], start, n)
         /\ \A s \in start .. start + n - 1 : \E k \in 1 .. Len(ps) : Covers(ps[k], s)
  <1>1. PICK d, pre, m, post, u : /\ d = SizeFactor /\ pre = Pre(start, n) /\ m = Middle(start, n)
                                  /\ post = Post(start, n) /\ u = UserSectors
    OBVIOUS
  <1>2. PICK z : z = FirstWhole(start, pre)
    OBVIOUS
  <1>3. /\ start \in Nat /\ Fat = 0 .. u * d - 1 /\ u \in Int /\ u > 0 /\ u * d \in Int
        /\ d * u = u * d /\ start + n <= d * u
    <2>1. /\ start \in Nat /\ Fat = 0 .. u * d - 1 /\ u \in Int /\ u > 0 /\ u * d \in Int /\ d \in Int
      BY <1>1, Build
    <2>2. d * u = u * d
      BY <2>1
    <2> QED BY <2>1, <2>2
  <1>4. /\ d \in Int /\ d > 0
        /\ pre \in 0 .. d - 1 /\ m \in Nat /\ post \in 0 .. d - 1 /\ z \in Int
        /\ d * m \in Int /\ pre + d * m + post = n
        /\ Spot(start) + pre <= d
        /\ m > 0 \/ post > 0 => start + pre = d * z /\ start + n - post = d * (z + m)
    <2>1. start \in Nat
      BY <1>3
    <2>2. Follow(start, n, d, pre, m, post, z)
      BY <1>1, <1>2, <2>1, Numbers
    <2> QED BY <2>2 DEF Follow
  <1>5. PICK a, b, c, last : /\ a = Partial(start, pre) /\ b = Wholes(z, m)
                             /\ last = start + n - post /\ c = Partial(last, post)
    OBVIOUS
  <1>6. ps = Joined(a, b, c)
    BY <1>1, <1>2, <1>5, PiecesParts, Zenon
  <1>7. /\ last \in Int /\ last >= 0
    BY <1>3, <1>4, <1>5
  (* The sectors s of the range, by the piece that erases them.              *)
  <1>8. pre # 0 => /\ PieceOf(Fit(start, pre), start, n)
                   /\ \A s \in Nat : start <= s /\ s < start + pre => Covers(Fit(start, pre), s)
    <2> SUFFICES ASSUME pre # 0
                 PROVE  /\ PieceOf(Fit(start, pre), start, n)
                        /\ \A s \in Nat : start <= s /\ s < start + pre => Covers(Fit(start, pre), s)
      OBVIOUS
    <2>1. PICK p, h : p = Fit(start, pre) /\ h = Home(start)
      OBVIOUS
    <2>2. h \in Int /\ h >= 0 /\ h < u
      BY <1>1, <2>1, FatPlace
    <2>3. GoodPiece(p) /\ \A s \in Nat : Covers(p, s) <=> start <= s /\ s < start + pre
      <3>1. pre \in Int /\ pre > 0 /\ pre < SizeFactor /\ Spot(start) + pre <= SizeFactor
        BY <1>1, <1>4
      <3>2. h < UserSectors /\ Home(start) = h
        BY <1>1, <2>1, <2>2
      <3> QED BY <1>3, <2>1, <2>2, <3>1, <3>2, FitFacts
    <2>4. pre <= n
      <3>1. PICK y : y = d * m
        OBVIOUS
      <3>2. y \in Int /\ pre + y + post = n /\ y >= 0
        <4>1. y \in Int /\ pre + y + post = n
          BY <1>4, <3>1
        <4>2. d * 0 <= d * m /\ d * 0 = 0
          BY <1>4, Products
        <4> QED BY <3>1, <4>1, <4>2
      <3> QED BY <1>4, <3>2
    <2>5. \A s \in Fat : Covers(p, s) => s \in start .. start + n - 1
      <3> SUFFICES ASSUME NEW s \in Fat, Covers(p, s) PROVE s \in start .. start + n - 1
        OBVIOUS
      <3>1. s \in Nat
        BY FatPlace
      <3>2. start <= s /\ s < start + pre
        BY <2>3, <3>1
      <3> QED BY <1>3, <1>4, <2>4, <3>1, <3>2
    <2> QED BY <2>1, <2>3, <2>5 DEF PieceOf
  <1>9. ASSUME NEW k \in 1 .. m
        PROVE  /\ PieceOf(Full(z + k - 1), start, n)
               /\ \A s \in Nat : Home(s) = z + k - 1 => Covers(Full(z + k - 1), s)
    <2>1. PICK h : h = z + k - 1
      OBVIOUS
    <2>2. h \in Int /\ z <= h /\ h < z + m /\ m > 0
      BY <1>4, <2>1
    <2>3. start + pre = d * z /\ start + n - post = d * (z + m)
      BY <1>4, <2>2
    <2>4. PICK lo, hi, at, to : lo = d * z /\ hi = d * (z + m) /\ at = d * h /\ to = d * u
      OBVIOUS
    <2>5. /\ lo \in Int /\ hi \in Int /\ at \in Int /\ lo <= at /\ at + d <= hi
      BY <1>4, <2>2, <2>4, Products
    <2>6. lo = start + pre /\ hi = start + n - post /\ start + n <= to /\ to \in Int
      BY <1>3, <2>3, <2>4
    <2>7. h >= 0 /\ h < u
      <3>1. at >= 0 /\ at < to
        BY <1>3, <1>4, <2>5, <2>6
      <3>2. (0 <= h <=> d * 0 <= d * h) /\ (u <= h <=> d * u <= d * h) /\ d * 0 = 0
        BY <1>3, <1>4, <2>2, Products
      <3> QED BY <1>3, <2>2, <2>4, <2>5, <2>6, <3>1, <3>2
    <2>8. GoodPiece(Full(h)) /\ \A s \in Nat : Covers(Full(h), s) <=> Home(s) = h
      BY <1>1, <2>2, <2>7, FullFacts
    <2>9. \A s \in Fat : Covers(Full(h), s) => s \in start .. start + n - 1
      <3> SUFFICES ASSUME NEW s \in Fat, Covers(Full(h), s) PROVE s \in start .. start + n - 1
        OBVIOUS
      <3>1. s \in Nat
        BY FatPlace
      <3>2. Home(s) = h
        BY <2>8, <3>1
      <3>3. s = at + Spot(s) /\ Spot(s) \in 0 .. d - 1
        BY <1>1, <2>4, <3>1, <3>2, Place
      <3> QED BY <1>3, <1>4, <2>5, <2>6, <3>1, <3>3
    <2> QED BY <2>1, <2>8, <2>9 DEF PieceOf
  <1>10. post # 0 => /\ PieceOf(Fit(last, post), start, n)
                     /\ \A s \in Nat : last <= s /\ s < last + post => Covers(Fit(last, post), s)
    <2> SUFFICES ASSUME post # 0
                 PROVE  /\ PieceOf(Fit(last, post), start, n)
                        /\ \A s \in Nat : last <= s /\ s < last + post => Covers(Fit(last, post), s)
      OBVIOUS
    <2>1. PICK p, h : p = Fit(last, post) /\ h = z + m
      OBVIOUS
    <2>2. last = d * h + 0 /\ h \in Int /\ 0 \in 0 .. d - 1
      <3>1. last = d * h
        BY <1>4, <1>5, <2>1
      <3> QED BY <1>4, <1>7, <2>1, <3>1
    <2>3. Home(last) = h /\ Spot(last) = 0
      <3>1. last \div d = h /\ last % d = 0
        <4>1. d \in Int /\ d > 0
          BY <1>4
        <4>2. h \in Int /\ 0 \in 0 .. d - 1 /\ last = d * h + 0
          BY <2>2
        <4> QED BY <4>1, <4>2, DivUnique
      <3> QED BY <1>1, <3>1 DEF Home, Spot
    <2>4. h >= 0 /\ h < u
      <3>1. PICK at, to : at = d * h /\ to = d * u
        OBVIOUS
      <3>2. at = last /\ at \in Int /\ to \in Int /\ last + post <= to
        <4>1. at = last
          BY <1>7, <2>2, <3>1
        <4>2. last + post = start + n
          BY <1>3, <1>4, <1>5
        <4> QED BY <1>3, <1>7, <3>1, <4>1, <4>2
      <3>3. (0 <= h <=> d * 0 <= d * h) /\ (u <= h <=> d * u <= d * h) /\ d * 0 = 0
        BY <1>3, <1>4, <2>2, Products
      <3> QED BY <1>3, <1>4, <1>7, <2>2, <3>1, <3>2, <3>3
    <2>5. GoodPiece(p) /\ \A s \in Nat : Covers(p, s) <=> last <= s /\ s < last + post
      <3>1. post \in Int /\ post > 0 /\ post < SizeFactor /\ Spot(last) + post <= SizeFactor
        BY <1>1, <1>4, <2>3
      <3>2. h < UserSectors /\ last \in Nat /\ h \in Int /\ h >= 0
        BY <1>1, <1>7, <2>2, <2>4
      <3> QED BY <2>1, <2>3, <3>1, <3>2, FitFacts
    <2>6. \A s \in Fat : Covers(p, s) => s \in start .. start + n - 1
      <3> SUFFICES ASSUME NEW s \in Fat, Covers(p, s) PROVE s \in start .. start + n - 1
        OBVIOUS
      <3>1. s \in Nat
        BY FatPlace
      <3>2. last <= s /\ s < last + post
        BY <2>5, <3>1
      <3>3. start <= last /\ last + post = start + n
        <4>1. start + n - post = last
          BY <1>5
        <4>2. post <= n
          <5>1. PICK y : y = d * m
            OBVIOUS
          <5>2. y \in Int /\ pre + y + post = n /\ y >= 0
            <6>1. y \in Int /\ pre + y + post = n
              BY <1>4, <5>1
            <6>2. d * 0 <= d * m /\ d * 0 = 0
              BY <1>4, Products
            <6> QED BY <5>1, <6>1, <6>2
          <5> QED BY <1>4, <5>2
        <4> QED BY <1>3, <1>4, <1>7, <4>1, <4>2
      <3> QED BY <1>3, <1>4, <1>7, <3>1, <3>2, <3>3
    <2> QED BY <2>1, <2>5, <2>6 DEF PieceOf
  <1>11. a \in Seq(Piece) /\ b \in Seq(Piece) /\ c \in Seq(Piece) /\ Len(b) = m
         /\ \A k \in 1 .. m : b[k] = Full(z + k - 1)
    <2>1. a \in Seq(Piece)
      BY <1>5, <1>8 DEF PieceOf, GoodPiece, Partial
    <2>2. c \in Seq(Piece)
      BY <1>5, <1>10 DEF PieceOf, GoodPiece, Partial
    <2>3. \A k \in 1 .. m : Full(z + k - 1) \in Piece
      BY <1>9 DEF PieceOf, GoodPiece
    <2> QED BY <1>4, <1>5, <2>1, <2>2, <2>3 DEF Wholes
  <1>12. /\ Len(a) = (IF pre # 0 THEN 1 ELSE 0) /\ (pre # 0 => a[1] = Fit(start, pre))
         /\ Len(c) = (IF post # 0 THEN 1 ELSE 0) /\ (post # 0 => c[1] = Fit(last, post))
    <2>1. Len(a) = (IF pre # 0 THEN 1 ELSE 0) /\ (pre # 0 => a[1] = Fit(start, pre))
      BY <1>5 DEF Partial
    <2>2. Len(c) = (IF post # 0 THEN 1 ELSE 0) /\ (post # 0 => c[1] = Fit(last, post))
      BY <1>5 DEF Partial
    <2> QED BY <2>1, <2>2
  <1>13. /\ ps \in Seq(Piece) /\ Len(ps) = Len(a) + Len(b) + Len(c)
         /\ \A k \in 1 .. Len(ps) : \/ \E j \in 1 .. Len(a) : ps[k] = a[j]
                                    \/ \E j \in 1 .. Len(b) : ps[k] = b[j]
                                    \/ \E j \in 1 .. Len(c) : ps[k] = c[j]
         /\ \A j \in 1 .. Len(a) : \E k \in 1 .. Len(ps) : ps[k] = a[j]
         /\ \A j \in 1 .. Len(b) : \E k \in 1 .. Len(ps) : ps[k] = b[j]
         /\ \A j \in 1 .. Len(c) : \E k \in 1 .. Len(ps) : ps[k] = c[j]
    <2>1. HasParts(ps, Piece, a, b, c)
      BY <1>6, <1>11, JoinedFacts
    <2> QED BY <2>1, Zenon DEF HasParts
  <1>14. Len(ps) > 0
    <2>1. pre # 0 \/ m > 0 \/ post # 0
      <3>1. m = 0 => d * m = 0
        BY <1>4
      <3> QED BY <1>4, <3>1
    <2> QED BY <1>4, <1>11, <1>12, <1>13, <2>1
  <1>15. ASSUME NEW k \in 1 .. Len(ps) PROVE PieceOf(ps[k], start, n)
    <2>1. ASSUME NEW j \in 1 .. Len(a), ps[k] = a[j] PROVE PieceOf(ps[k], start, n)
      <3>1. pre # 0 /\ j = 1
        BY <1>12
      <3> QED BY <1>8, <1>12, <2>1, <3>1
    <2>2. ASSUME NEW j \in 1 .. Len(b), ps[k] = b[j] PROVE PieceOf(ps[k], start, n)
      BY <1>9, <1>11, <2>2
    <2>3. ASSUME NEW j \in 1 .. Len(c), ps[k] = c[j] PROVE PieceOf(ps[k], start, n)
      <3>1. post # 0 /\ j = 1
        BY <1>12
      <3> QED BY <1>10, <1>12, <2>3, <3>1
    <2> QED BY <1>13, <2>1, <2>2, <2>3
  <1>16. ASSUME NEW s \in start .. start + n - 1 PROVE \E k \in 1 .. Len(ps) : Covers(ps[k], s)
    <2>1. s \in Nat /\ start <= s /\ s < start + n
      BY <1>3
    <2>2. CASE s < start + pre
      <3>1. pre # 0
        BY <1>3, <1>4, <2>1, <2>2
      <3>2. Covers(a[1], s) /\ 1 \in 1 .. Len(a)
        BY <1>8, <1>12, <2>1, <2>2, <3>1
      <3> QED BY <1>13, <3>2
    <2>3. CASE ~(s < start + pre) /\ s < last
      <3>1. m > 0
        <4>1. m = 0 => d * m = 0
          BY <1>4
        <4> QED BY <1>3, <1>4, <1>5, <2>1, <2>3, <4>1
      <3>2. PICK lo, hi, h : lo = d * z /\ hi = d * (z + m) /\ h = Home(s)
        OBVIOUS
      <3>3. lo = start + pre /\ hi = last
        BY <1>4, <1>5, <3>1, <3>2
      <3>4. h \in Int /\ (z <= h <=> lo <= s) /\ (z + m <= h <=> hi <= s)
        <4>1. h \in Int /\ \A x \in Int : x <= h <=> d * x <= s
          BY <1>1, <2>1, <3>2, Place
        <4>2. z \in Int /\ z + m \in Int
          BY <1>4
        <4> QED BY <3>2, <4>1, <4>2
      <3>5. z <= h /\ h < z + m
        BY <1>3, <1>4, <1>7, <2>1, <2>3, <3>3, <3>4
      <3>6. h - z + 1 \in 1 .. m /\ z + (h - z + 1) - 1 = h
        BY <1>4, <3>4, <3>5
      <3>7. PICK j : j = h - z + 1
        OBVIOUS
      <3>8. j \in 1 .. m /\ Home(s) = z + j - 1
        BY <3>2, <3>6, <3>7
      <3>9. Covers(b[j], s) /\ j \in 1 .. Len(b)
        BY <1>9, <1>11, <2>1, <3>8
      <3> QED BY <1>13, <3>9
    <2>4. CASE ~(s < last)
      <3>1. s < last + post
        BY <1>3, <1>4, <1>5, <2>1
      <3>2. post # 0
        BY <1>4, <1>7, <2>1, <2>4, <3>1
      <3>3. Covers(c[1], s) /\ 1 \in 1 .. Len(c)
        BY <1>7, <1>10, <1>12, <2>1, <2>4, <3>1, <3>2
      <3> QED BY <1>13, <3>3
    <2> QED BY <2>2, <2>3, <2>4
  <1> QED BY <1>13, <1>14, <1>15, <1>16

-------------------------------------------------------------------------------
Flashes == [Sector -> [Slot -> Content]]
Expected == [Fat -> Content \cup {Unknown}]

(* A step leaves the configuration alone, and what it determines.            *)
LEMMA Same ==
  ASSUME config' = config
  PROVE  /\ Sector' = Sector /\ Fat' = Fat /\ Mode' = Mode /\ UserSectors' = UserSectors
         /\ stateSector' = stateSector /\ dumpSector' = dumpSector
         /\ MaxPowerFails' = MaxPowerFails /\ MaxFaults' = MaxFaults
         /\ Piece' = Piece /\ Record' = Record /\ Flashes' = Flashes /\ Expected' = Expected
  <1>1. /\ Sector' = Sector /\ Mode' = Mode /\ UserSectors' = UserSectors
        /\ stateSector' = stateSector /\ dumpSector' = dumpSector
        /\ MaxPowerFails' = MaxPowerFails /\ MaxFaults' = MaxFaults
    BY DEF Sector, Mode, UserSectors, stateSector, dumpSector, MaxPowerFails, MaxFaults, ChipSectors
  <1>2. Fat' = Fat /\ Piece' = Piece
    BY <1>1 DEF Fat, Piece, Slot
  <1> QED BY <1>1, <1>2 DEF Record, Flashes, Expected, Slot, Content, NoPiece, Unknown, Erased, Garbage

(* g is f with sector b holding x; g is f with slot m of sector b holding x. *)
PutSector(f, b, x, g) == g \in Flashes /\ g[b] = x /\ \A c \in Sector : c # b => g[c] = f[c]
PutSlot(f, b, m, x, g) ==
  /\ g \in Flashes /\ g[b][m] = x /\ \A k \in Slot : k # m => g[b][k] = f[b][k]
  /\ \A c \in Sector : c # b => g[c] = f[c]

(* What the flash holds when a sector is erased or written.                  *)
LEMMA SetSector ==
  ASSUME NEW f \in Flashes, NEW b \in Sector, NEW x \in [Slot -> Content], NEW g,
         g = [f EXCEPT ![b] = x]
  PROVE  PutSector(f, b, x, g)
  BY DEF Flashes, PutSector

(* The same for one slot of it.                                              *)
LEMMA SetSlot ==
  ASSUME NEW f \in Flashes, NEW b \in Sector, NEW m \in Slot, NEW x \in Content, NEW g,
         g = [f EXCEPT ![b][m] = x]
  PROVE  PutSlot(f, b, m, x, g)
  <1>1. g = [f EXCEPT ![b] = [f[b] EXCEPT ![m] = x]]
    OBVIOUS
  <1>2. PICK y : y = [f[b] EXCEPT ![m] = x]
    OBVIOUS
  <1>3. f[b] \in [Slot -> Content]
    BY DEF Flashes
  <1>4. y \in [Slot -> Content] /\ y[m] = x /\ \A k \in Slot : k # m => y[k] = f[b][k]
    BY <1>2, <1>3
  <1>5. g \in Flashes /\ g[b] = y /\ \A c \in Sector : c # b => g[c] = f[c]
    <2>1. g = [f EXCEPT ![b] = y]
      BY <1>1, <1>2
    <2> QED BY <1>4, <2>1 DEF Flashes
  <1> QED BY <1>4, <1>5 DEF PutSlot

(* Programming a cell leaves one of its contents.                            *)
LEMMA Programs ==
  ASSUME NEW old \in Content, NEW new \in Content
  PROVE  Program(old, new) \in Content /\ Program(Erased, new) = new
  BY DEF Program, Content

(* The contents of a blank sector and of a fresh buffer.                     *)
LEMMA Blanks ==
  /\ Blank \in [Slot -> Content] /\ \A k \in Slot : Blank[k] = Erased
  /\ Scrap \in [Slot -> Content] /\ [k \in Slot |-> Garbage] \in [Slot -> Content]
  /\ Erased \in Content /\ Garbage \in Content
  BY DEF Blank, Scrap, Content

(* Pieces, and what they tell of a sector.                                   *)
LEMMA PieceFields ==
  ASSUME config \in Configs, NEW p \in Record
  PROVE  p.base \in Sector
  <1>1. CASE p \in Piece
    BY <1>1 DEF Piece
  <1>2. CASE p = NoPiece
    BY <1>2, Build DEF NoPiece
  <1> QED BY <1>1, <1>2 DEF Record

(* The piece that recover() makes of the state sector.                       *)
LEMMA WrongPiece ==
  ASSUME config \in Configs, NEW p, p = Fit(stateSector, 1)
  PROVE  p \in Piece /\ p.kind = "fit"
  <1>1. PICK s, h, d : s = stateSector /\ h = Home(s) /\ d = SizeFactor
    OBVIOUS
  <1>2. s \in Nat /\ d \in Int /\ d > 0 /\ h \in Int /\ Spot(s) \in Slot
        /\ ChipSectors \in Int /\ s < ChipSectors /\ Sector = 0 .. ChipSectors - 1
    <2>1. s \in Nat /\ ChipSectors \in Int /\ s < ChipSectors /\ Sector = 0 .. ChipSectors - 1
      BY <1>1, Build
    <2> QED BY <1>1, <2>1, Place
  <1>3. \A b \in Int : b <= h <=> d * b <= s
    BY <1>1, <1>2, Place
  <1>4. h >= 0
    <2>1. 0 \in Int /\ d * 0 = 0
      BY <1>2
    <2> QED BY <1>2, <1>3, <2>1
  <1>5. h <= s
    <2> SUFFICES ASSUME ~(h <= s) PROVE FALSE
      OBVIOUS
    <2>1. s + 1 \in Int /\ s + 1 <= h
      BY <1>2
    <2>2. d * (s + 1) <= s
      BY <1>3, <2>1
    <2>3. 1 * (s + 1) <= d * (s + 1)
      BY <1>2
    <2> QED BY <1>2, <2>1, <2>2, <2>3
  <1>6. h \in Sector /\ 1 \in 1 .. SizeFactor
    BY <1>1, <1>2, <1>4, <1>5
  <1>7. p = [kind |-> "fit", base |-> h, shift |-> Spot(s), count |-> 1]
    BY <1>1 DEF Fit, Home, Spot
  <1> QED BY <1>2, <1>6, <1>7 DEF Piece

(* Going on with a call.                                                     *)
LEMMA NextPieceTyped ==
  ASSUME TypeOK, NextPiece
  PROVE  /\ pc' \in {"idle", "full_erase", "fit_read"} /\ cur' \in Record /\ todo' \in Seq(Piece)
         /\ asked' \subseteq Fat /\ expected' \in Expected
  <1>1. /\ todo \in Seq(Piece) /\ asked \subseteq Fat /\ expected \in Expected
    BY DEF TypeOK, Expected
  <1>2. CASE todo = <<>>
    <2>1. /\ pc' = "idle" /\ asked' = {} /\ cur' = NoPiece /\ todo' = todo
          /\ expected' = [s \in Fat |-> IF s \in asked THEN Erased ELSE expected[s]]
      BY <1>2 DEF NextPiece
    <2>2. expected' \in Expected
      BY <1>1, <2>1, Blanks DEF Expected
    <2> QED BY <1>1, <2>1, <2>2 DEF Record
  <1>3. CASE todo # <<>>
    <2>1. /\ StartPiece(Head(todo)) /\ todo' = Tail(todo) /\ asked' = asked /\ expected' = expected
      BY <1>3 DEF NextPiece
    <2>2. Head(todo) \in Piece /\ Tail(todo) \in Seq(Piece)
      BY <1>1, <1>3, HeadTailProperties
    <2> QED BY <1>1, <2>1, <2>2 DEF StartPiece, Record
  <1> QED BY <1>2, <1>3

(* What an interrupted call leaves.                                          *)
LEMMA CutShortTyped ==
  ASSUME TypeOK, CutShort
  PROVE  /\ flash' \in Flashes /\ record' \in Record /\ expected' \in Expected
         /\ asked' = {} /\ todo' = <<>> /\ i' = 0 /\ cur' = NoPiece
  <1>1. /\ config \in Configs /\ flash \in Flashes /\ record \in Record /\ cur \in Record
        /\ expected \in Expected /\ i \in 0 .. SizeFactor /\ pc \in Pcs
    BY DEF TypeOK, Flashes, Expected
  <1>2. asked' = {} /\ todo' = <<>> /\ i' = 0 /\ cur' = NoPiece
    BY DEF CutShort
  <1>3. expected' \in Expected
    <2>1. PICK S : expected' = [s \in Fat |-> IF s \in S THEN Unknown ELSE expected[s]]
      BY Zenon DEF CutShort
    <2> QED BY <1>1, <2>1 DEF Expected
  <1>4. cur.base \in Sector
    BY <1>1, PieceFields
  <1>6. flash' \in Flashes /\ record' \in Record
    <2>1. CASE flash' = flash /\ record' = record
      BY <1>1, <2>1
    <2>2. CASE flash' = [flash EXCEPT ![cur.base] = [k \in Slot |-> Garbage]] /\ record' = record
      <3>1. PICK x, g : x = [k \in Slot |-> Garbage] /\ g = [flash EXCEPT ![cur.base] = x]
        OBVIOUS
      <3>2. x \in [Slot -> Content]
        BY <3>1, Blanks
      <3>3. g \in Flashes
        BY <1>1, <1>4, <3>1, <3>2, SetSector DEF PutSector
      <3> QED BY <1>1, <2>2, <3>1, <3>3
    <2>3. CASE flash' = [flash EXCEPT ![dumpSector] = [k \in Slot |-> Garbage]] /\ record' = record
      <3>1. PICK x, g : x = [k \in Slot |-> Garbage] /\ g = [flash EXCEPT ![dumpSector] = x]
        OBVIOUS
      <3>2. x \in [Slot -> Content]
        BY <3>1, Blanks
      <3>3. dumpSector \in Sector
        BY <1>1, Build DEF dumpSector
      <3>4. g \in Flashes
        BY <1>1, <3>1, <3>2, <3>3, SetSector DEF PutSector
      <3> QED BY <1>1, <2>3, <3>1, <3>4
    <2>4. CASE record' = NoPiece /\ flash' = flash
      BY <1>1, <2>4 DEF Record
    <2>5. CASE /\ i < SizeFactor /\ flash' = [flash EXCEPT ![cur.base][i] = Garbage]
               /\ record' = record
      <3>1. i \in Slot
        BY <1>1, <2>5, Build DEF Slot
      <3>2. PICK m, g : m = i /\ g = [flash EXCEPT ![cur.base][m] = Garbage]
        OBVIOUS
      <3>3. g \in Flashes
        BY <1>1, <1>4, <3>1, <3>2, Blanks, SetSlot DEF PutSlot
      <3> QED BY <1>1, <2>5, <3>2, <3>3
    <2> QED BY <2>1, <2>2, <2>3, <2>4, <2>5, Zenon DEF CutShort, Interrupted
  <1> QED BY <1>2, <1>3, <1>6

(* Type correctness is inductive.                                            *)
LEMMA TypeStep ==
  ASSUME TypeOK, Next
  PROVE  TypeOK'
  <1>1. /\ config' = config
        /\ \/ Mount \/ Unmount \/ (\E s \in Fat, v \in Values : Write(s, v))
           \/ (\E s \in Fat, n \in 1 .. UserSectors * SizeFactor : EraseRange(s, n))
           \/ Step \/ PowerFail \/ Fault
    BY DEF Next
  <1>2. /\ config \in Configs /\ flash \in Flashes /\ record \in Record /\ buf \in [Slot -> Content]
        /\ pc \in Pcs /\ cur \in Record /\ todo \in Seq(Piece) /\ i \in 0 .. SizeFactor
        /\ asked \subseteq Fat /\ expected \in Expected
        /\ powerFails \in 0 .. MaxPowerFails /\ faults \in 0 .. MaxFaults
    BY DEF TypeOK, Flashes, Expected
  <1>3. /\ SizeFactor \in Int /\ SizeFactor > 0 /\ dumpSector \in Sector
        /\ MaxPowerFails \in Nat /\ MaxFaults \in Nat
    BY <1>2, Build, SMTT(30) DEF dumpSector
  <1>4. cur.base \in Sector
    BY <1>2, PieceFields
  <1> SUFFICES /\ flash' \in Flashes /\ record' \in Record /\ buf' \in [Slot -> Content]
               /\ pc' \in Pcs /\ cur' \in Record /\ todo' \in Seq(Piece) /\ i' \in 0 .. SizeFactor
               /\ asked' \subseteq Fat /\ expected' \in Expected
               /\ powerFails' \in 0 .. MaxPowerFails /\ faults' \in 0 .. MaxFaults
    <2>1. ASSUME /\ flash' \in Flashes /\ record' \in Record /\ buf' \in [Slot -> Content]
                 /\ pc' \in Pcs /\ cur' \in Record /\ todo' \in Seq(Piece) /\ i' \in 0 .. SizeFactor
                 /\ asked' \subseteq Fat /\ expected' \in Expected
                 /\ powerFails' \in 0 .. MaxPowerFails /\ faults' \in 0 .. MaxFaults
          PROVE  TypeOK'
      <3>1. /\ config' \in Configs /\ flash' \in Flashes' /\ record' \in Record'
            /\ cur' \in Record' /\ todo' \in Seq(Piece') /\ asked' \subseteq Fat'
            /\ expected' \in Expected' /\ powerFails' \in 0 .. MaxPowerFails'
            /\ faults' \in 0 .. MaxFaults'
        BY <1>1, <1>2, <2>1, Same
      <3> QED BY <2>1, <3>1 DEF TypeOK, Flashes, Expected
    <2> QED BY <2>1
  <1>5. CASE Mount
    <2>1. flash[dumpSector] \in [Slot -> Content]
      BY <1>2, <1>3 DEF Flashes
    <2>2. UNCHANGED <<flash, record, todo, i, asked, expected, powerFails, faults>>
      BY <1>5 DEF Mount
    <2>3. /\ buf' \in [Slot -> Content] /\ cur' \in Record /\ pc' \in {"rec_erase", "idle"}
      BY <1>2, <1>5, <2>1 DEF Mount
    <2> QED BY <1>2, <2>2, <2>3 DEF Pcs, RecoverPcs
  <1>6. CASE Unmount
    <2>1. buf' = Scrap /\ pc' = "off"
          /\ UNCHANGED <<flash, record, cur, todo, i, asked, expected, powerFails, faults>>
      BY <1>6 DEF Unmount
    <2> QED BY <1>2, <2>1, Blanks DEF Pcs
  <1>7. ASSUME NEW s \in Fat, NEW v \in Values, Write(s, v)
        PROVE  flash' \in Flashes /\ expected' \in Expected
               /\ UNCHANGED <<record, buf, pc, cur, todo, i, asked, powerFails, faults>>
    <2>1. PICK h, m, x, g : /\ h = s \div SizeFactor /\ m = s % SizeFactor
                            /\ x = Program(flash[h][m], v)
                            /\ g = [flash EXCEPT ![h][m] = x]
      OBVIOUS
    <2>2. h \in Sector /\ m \in Slot
      BY <1>2, <2>1, FatPlace DEF Home, Spot
    <2>3. x \in Content
      <3>1. flash[h][m] \in Content /\ v \in Content
        BY <1>2, <2>2 DEF Flashes, Content
      <3> QED BY <2>1, <3>1, Programs
    <2>4. flash' = g
      BY <1>7, <2>1 DEF Write
    <2>5. g \in Flashes
      BY <1>2, <2>1, <2>2, <2>3, SetSlot DEF PutSlot
    <2>6. PICK y : y = IF expected[s] = Unknown THEN expected[s] ELSE Program(expected[s], v)
      OBVIOUS
    <2>7. y \in Content \cup {Unknown}
      <3>1. expected[s] \in Content \cup {Unknown} /\ v \in Content
        BY <1>2 DEF Expected, Content
      <3> QED BY <2>6, <3>1, Programs
    <2>8. expected' = [expected EXCEPT ![s] = y]
      BY <1>7, <2>6 DEF Write
    <2>9. expected' \in Expected
      BY <1>2, <2>7, <2>8 DEF Expected
    <2> QED BY <1>7, <2>4, <2>5, <2>9 DEF Write
  <1>8. ASSUME NEW s \in Fat, NEW n \in 1 .. UserSectors * SizeFactor, EraseRange(s, n)
        PROVE  /\ pc' \in {"full_erase", "fit_read"} /\ cur' \in Record /\ todo' \in Seq(Piece)
               /\ asked' \subseteq Fat
               /\ UNCHANGED <<flash, record, buf, i, expected, powerFails, faults>>
    <2>1. n \in Nat /\ n > 0 /\ s + n - 1 \in Fat
      <3>1. UserSectors * SizeFactor \in Int
        BY <1>2, Build
      <3> QED BY <1>8, <3>1 DEF EraseRange
    <2>2. PICK ps : ps = Pieces(s, n)
      OBVIOUS
    <2>3. ps \in Seq(Piece) /\ Len(ps) > 0
      BY <1>2, <2>1, <2>2, PiecesFacts
    <2>4. Head(ps) \in Piece /\ Tail(ps) \in Seq(Piece)
      <3>1. ps # <<>>
        BY <2>3
      <3> QED BY <2>3, <3>1, HeadTailProperties
    <2>5. /\ StartPiece(Head(ps)) /\ todo' = Tail(ps) /\ asked' = s .. s + n - 1
          /\ UNCHANGED <<flash, record, buf, i, expected, powerFails, faults>>
      BY <1>8, <2>2 DEF EraseRange
    <2>6. s .. s + n - 1 \subseteq Fat
      <3>1. UserSectors * SizeFactor \in Int /\ Fat = 0 .. UserSectors * SizeFactor - 1
        BY <1>2, Build
      <3>2. PICK top : top = UserSectors * SizeFactor
        OBVIOUS
      <3>3. Fat = 0 .. top - 1 /\ top \in Int
        BY <3>1, <3>2
      <3> QED BY <2>1, <3>3
    <2> QED BY <2>4, <2>5, <2>6 DEF StartPiece, Record
  <1>9. CASE FullErase
    <2>1. /\ NextPiece /\ UNCHANGED <<record, buf, i, powerFails, faults>>
          /\ flash' = [flash EXCEPT ![cur.base] = Blank]
      BY <1>9 DEF FullErase
    <2>2. flash' \in Flashes
      BY <1>2, <1>4, <2>1, Blanks DEF Flashes
    <2>3. /\ pc' \in {"idle", "full_erase", "fit_read"} /\ cur' \in Record /\ todo' \in Seq(Piece)
          /\ asked' \subseteq Fat /\ expected' \in Expected
      BY <2>1, NextPieceTyped
    <2> QED BY <1>2, <2>1, <2>2, <2>3 DEF Pcs, FitPcs
  <1>10. CASE FitRead
    <2>1. /\ buf' = [m \in Slot |-> IF ErasedSlot(cur, m) THEN buf[m] ELSE flash[cur.base][m]]
          /\ pc' \in {"dump_erase", "fit_erase"}
          /\ UNCHANGED <<flash, record, cur, todo, i, asked, expected, powerFails, faults>>
      BY <1>10 DEF FitRead
    <2>2. buf' \in [Slot -> Content]
      BY <1>2, <1>4, <2>1 DEF Flashes
    <2> QED BY <1>2, <2>1, <2>2 DEF Pcs, FitPcs, SavePcs
  <1>11. CASE Save
    <2>1. UNCHANGED <<buf, cur, todo, i, asked, expected, powerFails, faults>>
          /\ pc' \in {"dump_write", "state_erase", "state_write", "fit_erase"}
      BY <1>11 DEF Save
    <2>2. flash' \in Flashes /\ record' \in Record
      BY <1>2, <1>3, <1>11, Blanks DEF Save, Flashes, Record
    <2> QED BY <1>2, <2>1, <2>2 DEF Pcs, FitPcs, SavePcs
  <1>12. CASE EraseBase
    <2>1. UNCHANGED <<record, buf, cur, todo, i, asked, expected, powerFails, faults>>
          /\ pc' \in {"fit_write", "rec_write"} /\ flash' = [flash EXCEPT ![cur.base] = Blank]
      BY <1>12 DEF EraseBase
    <2>2. flash' \in Flashes
      BY <1>2, <1>4, <2>1, Blanks DEF Flashes
    <2> QED BY <1>2, <2>1, <2>2 DEF Pcs, FitPcs, RecoverPcs
  <1>13. CASE WriteBack
    <2>1. /\ i < SizeFactor /\ i' = i + 1
          /\ UNCHANGED <<record, buf, pc, cur, todo, asked, expected, powerFails, faults>>
      BY <1>13 DEF WriteBack
    <2>2. i \in Slot /\ i' \in 0 .. SizeFactor
      BY <1>2, <1>3, <2>1 DEF Slot
    <2>3. PICK m, x, g : m = i /\ x = Program(flash[cur.base][m], buf[m])
                         /\ g = [flash EXCEPT ![cur.base][m] = x]
      OBVIOUS
    <2>4. x \in Content
      <3>1. flash[cur.base][m] \in Content /\ buf[m] \in Content
        BY <1>2, <1>4, <2>2, <2>3 DEF Flashes
      <3> QED BY <2>3, <3>1, Programs
    <2>5. g \in Flashes
      BY <1>2, <1>4, <2>2, <2>3, <2>4, SetSlot DEF PutSlot
    <2>6. flash' = flash \/ flash' = g
      BY <1>13, <2>3 DEF WriteBack
    <2> QED BY <1>2, <2>1, <2>2, <2>5, <2>6
  <1>14. CASE FitWritten
    <2>1. /\ i' = 0 /\ UNCHANGED <<flash, record, buf, powerFails, faults>>
          /\ \/ pc' = "fit_clear" /\ UNCHANGED <<cur, todo, asked, expected>>
             \/ NextPiece
      BY <1>14, Zenon DEF FitWritten
    <2>2. 0 \in 0 .. SizeFactor
      BY <1>3
    <2>3. /\ pc' \in {"idle", "full_erase", "fit_read", "fit_clear"} /\ cur' \in Record
          /\ todo' \in Seq(Piece) /\ asked' \subseteq Fat /\ expected' \in Expected
      BY <1>2, <2>1, NextPieceTyped
    <2> QED BY <1>2, <2>1, <2>2, <2>3 DEF Pcs, FitPcs
  <1>15. CASE FitClear
    <2>1. NextPiece /\ record' = NoPiece /\ UNCHANGED <<flash, buf, i, powerFails, faults>>
      BY <1>15 DEF FitClear
    <2>2. /\ pc' \in {"idle", "full_erase", "fit_read"} /\ cur' \in Record /\ todo' \in Seq(Piece)
          /\ asked' \subseteq Fat /\ expected' \in Expected
      BY <2>1, NextPieceTyped
    <2> QED BY <1>2, <2>1, <2>2 DEF Pcs, FitPcs, Record
  <1>16. CASE RecoverClear
    <2>1. /\ StartPiece(Fit(stateSector, 1)) /\ i' = 0
          /\ UNCHANGED <<flash, record, buf, todo, asked, expected, powerFails, faults>>
      BY <1>16 DEF RecoverClear
    <2>2. cur' \in Piece /\ pc' \in {"full_erase", "fit_read"} /\ 0 \in 0 .. SizeFactor
      BY <1>2, <1>3, <2>1, WrongPiece DEF StartPiece
    <2> QED BY <1>2, <2>1, <2>2 DEF Pcs, FitPcs, Record
  <1>17. CASE PowerFail
    <2>1. /\ CutShort /\ buf' = Scrap /\ pc' = "off" /\ powerFails < MaxPowerFails
          /\ powerFails' = powerFails + 1 /\ faults' = faults
      BY <1>17 DEF PowerFail
    <2>2. /\ flash' \in Flashes /\ record' \in Record /\ expected' \in Expected
          /\ asked' = {} /\ todo' = <<>> /\ i' = 0 /\ cur' = NoPiece
      BY <2>1, CutShortTyped
    <2>3. powerFails' \in 0 .. MaxPowerFails /\ 0 \in 0 .. SizeFactor
      BY <1>2, <1>3, <2>1
    <2>4. <<>> \in Seq(Piece) /\ NoPiece \in Record
      BY DEF Record
    <2> QED BY <1>2, <2>1, <2>2, <2>3, <2>4, Blanks DEF Pcs
  <1>18. CASE Fault
    <2>1. /\ CutShort /\ (buf' = Scrap \/ buf' = buf) /\ pc' \in {"off", "idle"}
          /\ faults < MaxFaults /\ faults' = faults + 1 /\ powerFails' = powerFails
      BY <1>18 DEF Fault
    <2>2. /\ flash' \in Flashes /\ record' \in Record /\ expected' \in Expected
          /\ asked' = {} /\ todo' = <<>> /\ i' = 0 /\ cur' = NoPiece
      BY <2>1, CutShortTyped
    <2>3. faults' \in 0 .. MaxFaults /\ 0 \in 0 .. SizeFactor
      BY <1>2, <1>3, <2>1
    <2>4. <<>> \in Seq(Piece) /\ NoPiece \in Record
      BY DEF Record
    <2> QED BY <1>2, <2>1, <2>2, <2>3, <2>4, Blanks DEF Pcs
  <1>19. CASE \E s \in Fat, v \in Values : Write(s, v)
    BY <1>2, <1>7, <1>19
  <1>20. CASE \E s \in Fat, n \in 1 .. UserSectors * SizeFactor : EraseRange(s, n)
    <2>1. {"full_erase", "fit_read"} \subseteq Pcs
      BY DEF Pcs, FitPcs
    <2> QED BY <1>2, <1>8, <1>20, <2>1
  <1> QED BY <1>1, <1>5, <1>6, <1>9, <1>10, <1>11, <1>12, <1>13, <1>14, <1>15, <1>16, <1>17,
             <1>18, <1>19, <1>20 DEF Step

(* Type correctness, for all configurations.                                 *)
THEOREM TypeCorrect == Spec => []TypeOK
  <1>1. Init => TypeOK
    <2> SUFFICES ASSUME Init PROVE TypeOK
      OBVIOUS
    <2>1. config \in Configs
      BY DEF Init
    <2>2. SizeFactor \in Int /\ SizeFactor > 0 /\ MaxPowerFails \in Nat /\ MaxFaults \in Nat
      BY <2>1, Build
    <2>3. flash \in [Sector -> [Slot -> Content]] /\ buf \in [Slot -> Content]
      BY Blanks DEF Init
    <2>4. expected \in [Fat -> Content \cup {Unknown}]
      BY Blanks DEF Init
    <2>5. todo \in Seq(Piece) /\ cur \in Record /\ record \in Record /\ pc \in Pcs
      BY DEF Init, Record, Pcs
    <2>6. i \in 0 .. SizeFactor /\ powerFails \in 0 .. MaxPowerFails /\ faults \in 0 .. MaxFaults
      BY <2>2 DEF Init
    <2> QED BY <2>1, <2>3, <2>4, <2>5, <2>6 DEF Init, TypeOK
  <1>2. TypeOK /\ [Next]_vars => TypeOK'
    <2> SUFFICES ASSUME TypeOK, [Next]_vars PROVE TypeOK'
      OBVIOUS
    <2>1. CASE Next
      BY <2>1, TypeStep
    <2>2. CASE UNCHANGED vars
      <3>1. /\ config' = config
            /\ UNCHANGED <<flash, record, buf, pc, cur, todo, i, asked, expected, powerFails, faults>>
        BY <2>2 DEF vars
      <3>2. /\ config' \in Configs /\ flash' \in Flashes' /\ record' \in Record'
            /\ cur' \in Record' /\ todo' \in Seq(Piece') /\ asked' \subseteq Fat'
            /\ expected' \in Expected' /\ powerFails' \in 0 .. MaxPowerFails'
            /\ faults' \in 0 .. MaxFaults'
        BY <3>1, Same DEF TypeOK, Flashes, Expected
      <3>3. buf' \in [Slot -> Content] /\ pc' \in Pcs /\ i' \in 0 .. SizeFactor
        BY <3>1 DEF TypeOK
      <3> QED BY <3>2, <3>3 DEF TypeOK, Flashes, Expected
    <2> QED BY <2>1, <2>2
  <1> QED BY <1>1, <1>2, PTL DEF Spec

-------------------------------------------------------------------------------
(* The runs with safety mode have no failing calls of the flash: after one   *)
(* the transaction may stay open (see WL_Ext_Safe.cpp:139).                  *)
NoFaultsWhenSafe == \A c \in Configs : c.mode = "safe" => c.faults = 0

(* In safety mode power fails once: while recover() clears the transaction   *)
(* the dump is replaced before the record (see WL_Ext_Safe.cpp:103).         *)
OneLossWhenSafe == \A c \in Configs : c.mode = "safe" => c.powerFails <= 1

(* When the transaction is closed, and who may open it.                      *)
Closed ==
  /\ Mode = "perf" \/ pc \in {"idle", "full_erase"} => record = NoPiece
  /\ pc \in SavePcs \cup {"fit_clear"} \cup RecoverPcs => Mode = "safe"

(* In safety mode no call of the flash fails.                                *)
LEMMA SafeNoFault ==
  ASSUME NoFaultsWhenSafe, TypeOK, Fault
  PROVE  Mode = "perf"
  <1>1. config \in Configs /\ faults \in 0 .. MaxFaults /\ faults < MaxFaults
    BY DEF TypeOK, Fault
  <1>2. Mode \in {"perf", "safe"} /\ MaxFaults \in Nat
    BY <1>1, Build
  <1>3. Mode = "safe" => MaxFaults = 0
    BY <1>1 DEF NoFaultsWhenSafe, Mode, MaxFaults
  <1> QED BY <1>1, <1>2, <1>3

(* Each step keeps that.                                                     *)
LEMMA ClosedStep ==
  ASSUME NoFaultsWhenSafe, TypeOK, Closed, Next
  PROVE  Closed'
  <1>1. config' = config /\ Mode' = Mode /\ Mode \in {"perf", "safe"} /\ config \in Configs
    BY Same, Build DEF Next, TypeOK
  <1>2. CASE Mount
    BY <1>1, <1>2 DEF Mount, Closed, SavePcs, RecoverPcs
  <1>3. CASE Unmount
    BY <1>1, <1>3 DEF Unmount, Closed, SavePcs, RecoverPcs
  <1>4. CASE \E s \in Fat, v \in Values : Write(s, v)
    BY <1>1, <1>4 DEF Write, Closed, SavePcs, RecoverPcs
  <1>5. CASE \E s \in Fat, n \in 1 .. UserSectors * SizeFactor : EraseRange(s, n)
    <2>1. pc = "idle" /\ record' = record /\ pc' \in {"fit_read", "full_erase"}
      BY <1>5 DEF EraseRange, StartPiece
    <2> QED BY <1>1, <2>1 DEF Closed, SavePcs, RecoverPcs
  <1>6. NextPiece => pc' \in {"idle", "fit_read", "full_erase"}
    BY NextPieceTyped
  <1>7. CASE FullErase
    <2>1. pc = "full_erase" /\ record' = record /\ pc' \in {"idle", "fit_read", "full_erase"}
      BY <1>6, <1>7 DEF FullErase
    <2> QED BY <1>1, <2>1 DEF Closed, SavePcs, RecoverPcs
  <1>8. CASE FitRead
    BY <1>1, <1>8 DEF FitRead, Closed, SavePcs, RecoverPcs
  <1>9. CASE Save
    BY <1>1, <1>9 DEF Save, Closed, SavePcs, RecoverPcs
  <1>10. CASE EraseBase
    BY <1>1, <1>10 DEF EraseBase, Closed, SavePcs, RecoverPcs
  <1>11. CASE WriteBack
    BY <1>1, <1>11 DEF WriteBack, Closed, SavePcs, RecoverPcs
  <1>12. CASE FitWritten
    <2>1. record' = record
          /\ \/ Mode = "safe" /\ pc' = "fit_clear"
             \/ Mode = "perf" /\ pc' \in {"idle", "fit_read", "full_erase"}
      BY <1>1, <1>6, <1>12 DEF FitWritten
    <2> QED BY <1>1, <2>1 DEF Closed, SavePcs, RecoverPcs
  <1>13. CASE FitClear
    <2>1. record' = NoPiece /\ pc' \in {"idle", "fit_read", "full_erase"}
      BY <1>6, <1>13 DEF FitClear
    <2> QED BY <1>1, <2>1 DEF Closed, SavePcs, RecoverPcs
  <1>14. CASE RecoverClear
    <2>1. pc = "rec_write" /\ record' = record /\ pc' = "fit_read"
      BY <1>1, <1>14, WrongPiece DEF RecoverClear, StartPiece
    <2> QED BY <1>1, <2>1 DEF Closed, SavePcs, RecoverPcs
  <1>15. CutShort => record' \in {record, NoPiece}
    BY DEF CutShort, Interrupted
  <1>16. CASE PowerFail
    <2>1. record' \in {record, NoPiece} /\ pc' = "off"
      BY <1>15, <1>16 DEF PowerFail
    <2> QED BY <1>1, <2>1 DEF Closed, SavePcs, RecoverPcs
  <1>17. CASE Fault
    <2>1. record' \in {record, NoPiece} /\ pc' \in {"off", "idle"} /\ Mode = "perf"
      BY <1>15, <1>17, SafeNoFault DEF Fault
    <2> QED BY <1>1, <2>1 DEF Closed, SavePcs, RecoverPcs
  <1> QED BY <1>2, <1>3, <1>4, <1>5, <1>7, <1>8, <1>9, <1>10, <1>11, <1>12, <1>13, <1>14, <1>16,
             <1>17 DEF Next, Step

(* No transaction is open between calls, however often power fails: the next *)
(* mount has nothing to write over newer data.                               *)
THEOREM AlwaysTransactionClosed ==
  ASSUME NoFaultsWhenSafe
  PROVE  Spec => []TransactionClosed
  <1>1. Init => Closed
    BY DEF Init, Closed, SavePcs, RecoverPcs
  <1>2. TypeOK /\ Closed /\ [Next]_vars => Closed'
    <2> SUFFICES ASSUME TypeOK, Closed, [Next]_vars PROVE Closed'
      OBVIOUS
    <2>1. CASE Next
      BY <2>1, ClosedStep
    <2>2. CASE UNCHANGED vars
      BY <2>2 DEF vars, Closed, Mode
    <2> QED BY <2>1, <2>2
  <1>3. Closed => TransactionClosed
    BY DEF Closed, TransactionClosed
  <1> QED BY <1>1, <1>2, <1>3, TypeCorrect, PTL DEF Spec

-------------------------------------------------------------------------------
(* When the call goes on, what it has to do and what the sectors should hold *)
(* stay the same.                                                            *)
LEMMA Frame ==
  ASSUME UNCHANGED <<config, cur, todo, asked, expected, powerFails>>
  PROVE  /\ \A s, x : Settled(s, x)' <=> Settled(s, x)
         /\ \A s : (Pending(s)' <=> Pending(s)) /\ (Free(s)' <=> Free(s))
         /\ \A p : GoodPiece(p)' <=> GoodPiece(p)
  <1>1. \A p : GoodPiece(p)' <=> GoodPiece(p)
    BY Same DEF GoodPiece
  <1>2. \A s : Lost(s)' <=> Lost(s)
    BY Same DEF Lost
  <1>3. \A s : (Pending(s)' <=> Pending(s)) /\ (Free(s)' <=> Free(s))
    BY <1>2 DEF Pending, Free, Covers, ErasedSlot, Home, Spot, Unknown
  <1>4. \A s, x : Settled(s, x)' <=> Settled(s, x)
    BY <1>2, <1>3 DEF Settled, Fine, Good, Unknown, Erased
  <1> QED BY <1>1, <1>3, <1>4

(* A sector that is good stays good while what is expected of it does not    *)
(* change.                                                                   *)
LEMMA StaysGood ==
  ASSUME TypeOK, config' = config, powerFails' \in {powerFails, powerFails + 1},
         NEW s, NEW x, Good(s, x),
         expected'[s] = expected[s] \/ expected'[s] = Unknown
  PROVE  Good(s, x)'
  <1>1. powerFails \in Nat
    BY Build DEF TypeOK
  <1>2. Lost(s) => Lost(s)'
    BY <1>1, Same DEF Lost
  <1> QED BY <1>2 DEF Good, Unknown

(* No call is in progress, and none has to be finished.                      *)
LEMMA RestNext ==
  ASSUME config' = config, pc' \in {"idle", "off"}, asked' = {}, todo' = <<>>, i' = 0,
         record' = NoPiece, \A s \in Fat : Good(s, Cell(s))'
  PROVE  MInv'
  <1>1. Fat' = Fat /\ Mode' = Mode
    BY Same
  <1>2. PhaseInv'
    BY DEF PhaseInv, InCall, FitPcs, RecoverPcs, SavePcs
  <1>3. RecordInv'
    BY DEF RecordInv, FitPcs, RecoverPcs, SavePcs
  <1>4. ContentInv'
    BY <1>1 DEF ContentInv, InCall, RecoverPcs, SavePcs
  <1> QED BY <1>2, <1>3, <1>4 DEF MInv

(* A piece p is about to be erased.                                          *)
LEMMA StartNext ==
  ASSUME config' = config, NEW p, cur' = p, GoodPiece(p),
         pc' = IF p.kind = "fit" THEN "fit_read" ELSE "full_erase",
         \A k \in 1 .. Len(todo') : GoodPiece(todo'[k]), i' = 0,
         asked' = {} => Mode = "safe" /\ powerFails' > 0 /\ todo' = <<>> /\ p.kind = "fit",
         asked' # {} => record' = NoPiece, Mode = "perf" => record' = NoPiece,
         \A s \in Fat : Pending(s)' => Free(s)',
         \A s \in Fat : Settled(s, Cell(s))'
  PROVE  MInv'
  <1>1. Fat' = Fat /\ Mode' = Mode
    BY Same
  <1>2. p.kind \in {"fit", "full"} /\ (pc' = "full_erase" <=> p.kind = "full")
        /\ (pc' = "fit_read" <=> p.kind = "fit") /\ pc' \in {"fit_read", "full_erase"}
    BY DEF GoodPiece, Piece
  <1>3. \A x : GoodPiece(x)' <=> GoodPiece(x)
    BY Same DEF GoodPiece
  <1>4. PhaseInv'
    <2>1. InCall' /\ pc' \notin {"fit_write", "rec_write"} /\ pc' \notin RecoverPcs
          /\ pc' \notin SavePcs \cup {"fit_clear"}
      BY <1>2 DEF InCall, RecoverPcs, SavePcs
    <2>2. GoodPiece(cur)' /\ \A k \in 1 .. Len(todo') : GoodPiece(todo[k])'
      BY <1>3
    <2>3. (pc = "full_erase" => cur.kind = "full" /\ asked # {})'
      BY <1>2
    <2>4. (pc \in FitPcs \cup RecoverPcs => cur.kind = "fit")'
      BY <1>2, <2>1 DEF FitPcs
    <2>5. (InCall /\ asked = {} => Mode = "safe" /\ powerFails > 0 /\ todo = <<>>)'
      BY <1>1
    <2> QED BY <1>1, <2>1, <2>2, <2>3, <2>4, <2>5 DEF PhaseInv
  <1>5. RecordInv'
    BY <1>1, <1>2 DEF RecordInv, SavePcs
  <1>6. ContentInv'
    <2>1. \A s \in Fat : Value(s)' = Cell(s)'
      BY <1>2 DEF Value, Rewriting
    <2> QED BY <1>1, <1>2, <2>1 DEF ContentInv, InCall, SavePcs
  <1> QED BY <1>4, <1>5, <1>6 DEF MInv

(* Mounting: with nothing to recover, and with a transaction to finish.      *)
LEMMA MountStep ==
  ASSUME TypeOK, MInv, config' = config, Mount
  PROVE  MInv'
  <1>1. /\ pc = "off" /\ asked = {} /\ todo = <<>> /\ i = 0
        /\ UNCHANGED <<flash, record, todo, i, asked, expected, powerFails, faults>>
    BY DEF MInv, PhaseInv, InCall, Mount
  <1>2. config \in Configs /\ Mode \in {"perf", "safe"} /\ Fat' = Fat /\ Mode' = Mode
    BY Build, Same DEF TypeOK
  <1>3. \A s : Lost(s)' <=> Lost(s)
    BY <1>1, Same DEF Lost
  <1>4. \A s, x : Good(s, x)' <=> Good(s, x)
    BY <1>1, <1>3 DEF Good, Unknown
  <1>5. CASE record = NoPiece
    <2>1. pc' = "idle"
      BY <1>5 DEF Mount
    <2>2. \A s \in Fat : Good(s, Cell(s))
      BY <1>1, <1>5 DEF MInv, ContentInv, InCall
    <2>3. \A s \in Fat : Good(s, Cell(s))'
      BY <1>1, <1>4, <2>2 DEF Cell, Home, Spot
    <2> QED BY <1>1, <1>5, <2>1, <2>3, RestNext
  <1>6. CASE record # NoPiece
    <2>1. Mode = "safe"
      BY <1>2, <1>6 DEF MInv, RecordInv
    <2>2. buf' = flash[dumpSector] /\ cur' = record /\ pc' = "rec_erase"
      BY <1>6, <2>1 DEF Mount
    <2>3. Rescue
      BY <1>1, <1>6 DEF MInv, ContentInv
    <2>4. \A p : GoodPiece(p)' <=> GoodPiece(p)
      BY Same DEF GoodPiece
    <2>5. \A s : Pending(s)' <=> Covers(record, s)
      <3>1. Len(todo') = 0
        BY <1>1
      <3> QED BY <2>2, <3>1 DEF Pending, Covers, ErasedSlot, Home, Spot
    <2>6. \A s \in Fat : Pending(s)' => Free(s)'
      BY <1>1, <1>3, <2>3, <2>5 DEF Rescue, Free, Covers, Unknown
    <2>7. \A s \in Fat : Settled(s, Value(s))'
      <3> SUFFICES ASSUME NEW s \in Fat PROVE Settled(s, Value(s))'
        OBVIOUS
      <3>1. PICK x : x = Value(s)'
        OBVIOUS
      <3>2. x = IF Home(s) = record.base THEN flash[dumpSector][Spot(s)] ELSE Cell(s)
        BY <1>1, <2>2, <3>1 DEF Value, Rewriting, Cell, Home, Spot
      <3>3. Covers(record, s) \/ Good(s, x)
        BY <2>3, <3>2 DEF Rescue, Covers, Good
      <3>4. Settled(s, x)'
        BY <1>1, <1>4, <2>5, <3>3 DEF Settled, Fine
      <3> QED BY <3>1, <3>4 DEF Settled, Fine, Good, Pending, Covers, ErasedSlot, Home, Spot
    <2>8. PhaseInv'
      <3>1. GoodPiece(cur)' /\ cur'.kind = "fit" /\ powerFails' > 0
        BY <1>1, <2>2, <2>3, <2>4 DEF Rescue
      <3>2. Len(todo') = 0 /\ todo' = <<>> /\ asked' = {} /\ i' = 0
        BY <1>1
      <3> QED BY <1>2, <2>1, <2>2, <2>6, <3>1, <3>2
              DEF PhaseInv, InCall, SavePcs, RecoverPcs, FitPcs
    <2>9. RecordInv'
      BY <1>2, <2>1, <2>2 DEF RecordInv, SavePcs
    <2>10. ContentInv'
      BY <1>2, <2>2, <2>7 DEF ContentInv, InCall, SavePcs
    <2> QED BY <2>8, <2>9, <2>10 DEF MInv
  <1> QED BY <1>5, <1>6

(* Unmounting.                                                               *)
LEMMA UnmountStep ==
  ASSUME TypeOK, MInv, config' = config, Unmount
  PROVE  MInv'
  <1>1. /\ pc = "idle" /\ asked = {} /\ todo = <<>> /\ i = 0 /\ record = NoPiece /\ pc' = "off"
        /\ UNCHANGED <<flash, record, todo, i, asked, expected, powerFails, faults>>
    BY DEF MInv, PhaseInv, RecordInv, InCall, Unmount
  <1>2. \A s : Lost(s)' <=> Lost(s)
    BY <1>1, Same DEF Lost
  <1>3. \A s \in Fat : Good(s, Cell(s))
    BY <1>1 DEF MInv, ContentInv, InCall
  <1>4. \A s \in Fat : Good(s, Cell(s))'
    BY <1>1, <1>2, <1>3 DEF Good, Cell, Home, Spot, Unknown
  <1> QED BY <1>1, <1>4, RestNext

(* Writing a FAT sector between calls.                                       *)
LEMMA WriteStep ==
  ASSUME TypeOK, MInv, config' = config, NEW t \in Fat, NEW v \in Values, Write(t, v)
  PROVE  MInv'
  <1>1. /\ pc = "idle" /\ asked = {} /\ todo = <<>> /\ i = 0 /\ record = NoPiece
        /\ UNCHANGED <<record, buf, pc, cur, todo, i, asked, powerFails, faults>>
    BY DEF MInv, PhaseInv, RecordInv, InCall, Write
  <1>2. config \in Configs /\ flash \in Flashes /\ expected \in Expected
    BY DEF TypeOK, Flashes, Expected
  <1>3. PICK h, m, x, g : /\ h = Home(t) /\ m = Spot(t) /\ x = Program(flash[h][m], v)
                          /\ g = [flash EXCEPT ![h][m] = x]
    OBVIOUS
  <1>4. h \in Sector /\ m \in Slot /\ t \in Nat
    BY <1>2, <1>3, FatPlace
  <1>5. x \in Content
    <2>1. flash[h][m] \in Content /\ v \in Content
      BY <1>2, <1>4 DEF Flashes, Content
    <2> QED BY <1>3, <2>1, Programs
  <1>6. flash' = g
    BY <1>3 DEF Write, Home, Spot
  <1>7. /\ g[h][m] = x /\ \A k \in Slot : k # m => g[h][k] = flash[h][k]
        /\ \A c \in Sector : c # h => g[c] = flash[c]
    <2>1. PICK f : f = flash
      OBVIOUS
    <2>2. f \in Flashes /\ g = [f EXCEPT ![h][m] = x]
      BY <1>2, <1>3, <2>1
    <2>3. /\ g[h][m] = x /\ \A k \in Slot : k # m => g[h][k] = f[h][k]
          /\ \A c \in Sector : c # h => g[c] = f[c]
      <3>1. PutSlot(f, h, m, x, g)
        BY <1>4, <1>5, <2>2, SetSlot
      <3> QED BY <3>1 DEF PutSlot
    <2> QED BY <2>1, <2>3
  <1>8. PICK y : y = IF expected[t] = Unknown THEN expected[t] ELSE Program(expected[t], v)
    OBVIOUS
  <1>9. expected' = [expected EXCEPT ![t] = y]
    BY <1>8 DEF Write
  <1>10. expected'[t] = y /\ \A s \in Fat : s # t => expected'[s] = expected[s]
    BY <1>2, <1>9 DEF Expected
  <1>11. \A s \in Fat : Good(s, Cell(s))
    BY <1>1 DEF MInv, ContentInv, InCall
  <1>12. \A s : Lost(s)' <=> Lost(s)
    BY <1>1, Same DEF Lost
  <1>13. ASSUME NEW s \in Fat PROVE Good(s, Cell(s))'
    <2>1. PICK z : z = Cell(s)'
      OBVIOUS
    <2>2. z = g[Home(s)][Spot(s)]
      BY <1>6, <2>1 DEF Cell, Home, Spot
    <2>3. s \in Nat /\ Home(s) \in Sector /\ Spot(s) \in Slot
      BY <1>2, FatPlace
    <2>4. CASE s = t
      <3>1. z = x
        BY <1>3, <1>7, <2>2, <2>4
      <3>2. expected[t] = Unknown \/ expected[t] = flash[h][m] \/ Lost(t)
        BY <1>3, <1>11 DEF Good, Cell
      <3>3. expected'[s] = Unknown \/ expected'[s] = z \/ Lost(s)'
        BY <1>3, <1>8, <1>10, <1>12, <2>4, <3>1, <3>2
      <3> QED BY <2>1, <3>3 DEF Good, Unknown
    <2>5. CASE s # t
      <3>1. Home(s) # h \/ Spot(s) # m
        BY <1>3, <1>4, <2>3, <2>5, PlaceUnique
      <3>2. z = Cell(s)
        <4>1. CASE Home(s) # h
          BY <1>7, <2>2, <2>3, <4>1 DEF Cell
        <4>2. CASE Home(s) = h
          BY <1>7, <2>2, <2>3, <3>1, <4>2 DEF Cell
        <4> QED BY <4>1, <4>2
      <3>3. expected'[s] = Unknown \/ expected'[s] = z \/ Lost(s)'
        BY <1>10, <1>11, <1>12, <2>5, <3>2 DEF Good
      <3> QED BY <2>1, <3>3 DEF Good, Unknown
    <2> QED BY <2>4, <2>5
  <1> QED BY <1>1, <1>13, RestNext

(* The first piece of an erase.                                              *)
LEMMA EraseStep ==
  ASSUME TypeOK, MInv, config' = config, NEW t \in Fat,
         NEW n \in 1 .. UserSectors * SizeFactor, EraseRange(t, n)
  PROVE  MInv'
  <1>1. /\ pc = "idle" /\ asked = {} /\ i = 0 /\ record = NoPiece
        /\ UNCHANGED <<flash, record, buf, i, expected, powerFails, faults>>
    BY DEF MInv, PhaseInv, RecordInv, InCall, EraseRange
  <1>2. config \in Configs
    BY DEF TypeOK
  <1>3. n \in Nat /\ n > 0 /\ t + n - 1 \in Fat /\ t \in Nat
    <2>1. UserSectors * SizeFactor \in Int /\ t \in Nat
      BY <1>2, Build, FatPlace
    <2> QED BY <2>1 DEF EraseRange
  <1>4. PICK ps : ps = Pieces(t, n)
    OBVIOUS
  <1>5. /\ ps \in Seq(Piece) /\ Len(ps) > 0
        /\ \A k \in 1 .. Len(ps) : PieceOf(ps[k], t, n)
        /\ \A s \in t .. t + n - 1 : \E k \in 1 .. Len(ps) : Covers(ps[k], s)
    BY <1>2, <1>3, <1>4, PiecesFacts
  <1>6. PICK p, td, m : p = Head(ps) /\ td = Tail(ps) /\ m = Len(ps)
    OBVIOUS
  <1>7. /\ m \in Nat /\ m > 0 /\ p = ps[1] /\ Len(td) = m - 1
        /\ \A k \in 1 .. m - 1 : td[k] = ps[k + 1]
    <2>1. ps # <<>> /\ m \in Nat
      BY <1>5, <1>6, LenProperties
    <2> QED BY <1>5, <1>6, <2>1, HeadTailProperties
  <1>8. /\ cur' = p /\ todo' = td /\ asked' = t .. t + n - 1
        /\ pc' = IF p.kind = "fit" THEN "fit_read" ELSE "full_erase"
    BY <1>4, <1>6 DEF EraseRange, StartPiece
  <1>9. GoodPiece(p) /\ \A k \in 1 .. Len(td) : GoodPiece(td[k])
    <2>1. 1 \in 1 .. m /\ \A k \in 1 .. m - 1 : k + 1 \in 1 .. m
      BY <1>7
    <2> QED BY <1>5, <1>6, <1>7, <2>1 DEF PieceOf
  <1>10. asked' # {}
    <2>1. t \in t .. t + n - 1
      BY <1>3
    <2> QED BY <1>8, <2>1
  <1>11. \A s : Pending(s)' <=> Covers(p, s) \/ \E k \in 1 .. Len(td) : Covers(td[k], s)
    BY <1>8 DEF Pending, Covers, ErasedSlot, Home, Spot
  <1>12. ASSUME NEW s \in Fat, Pending(s)' PROVE Free(s)'
    <2>1. \E k \in 1 .. m : Covers(ps[k], s)
      <3>1. CASE Covers(p, s)
        <4>1. 1 \in 1 .. m /\ Covers(ps[1], s)
          BY <1>7, <3>1
        <4> QED BY <4>1
      <3>2. ASSUME NEW k \in 1 .. Len(td), Covers(td[k], s) PROVE \E j \in 1 .. m : Covers(ps[j], s)
        <4>1. k + 1 \in 1 .. m /\ td[k] = ps[k + 1]
          BY <1>7
        <4> QED BY <3>2, <4>1
      <3> QED BY <1>11, <1>12, <3>1, <3>2
    <2>2. s \in t .. t + n - 1
      BY <1>5, <1>6, <2>1 DEF PieceOf
    <2> QED BY <1>8, <2>2 DEF Free
  <1>13. ASSUME NEW s \in Fat PROVE Settled(s, Cell(s))'
    <2>1. CASE s \in asked'
      <3>1. PICK k \in 1 .. m : Covers(ps[k], s)
        BY <1>5, <1>6, <1>8, <2>1
      <3>2. CASE k = 1
        BY <1>7, <1>11, <3>1, <3>2 DEF Settled
      <3>3. CASE k # 1
        <4>1. k - 1 \in 1 .. Len(td) /\ td[k - 1] = ps[k]
          <5>1. k - 1 \in 1 .. m - 1 /\ (k - 1) + 1 = k
            BY <1>7, <3>3
          <5> QED BY <1>7, <5>1
        <4>2. Covers(td[k - 1], s)
          BY <3>1, <4>1
        <4>3. Pending(s)'
          BY <1>11, <4>1, <4>2
        <4> QED BY <4>3 DEF Settled
      <3> QED BY <3>2, <3>3
    <2>2. CASE s \notin asked'
      <3>1. Good(s, Cell(s))
        BY <1>1 DEF MInv, ContentInv, InCall
      <3>2. Lost(s)' <=> Lost(s)
        BY <1>1, Same DEF Lost
      <3>3. Good(s, Cell(s))'
        BY <1>1, <3>1, <3>2 DEF Good, Cell, Home, Spot, Unknown
      <3> QED BY <2>2, <3>3 DEF Settled, Fine
    <2> QED BY <2>1, <2>2
  <1> QED BY <1>1, <1>8, <1>9, <1>10, <1>12, <1>13, StartNext

-------------------------------------------------------------------------------
(* A step inside a piece keeps the phase of the call.                        *)
LEMMA GoesOn ==
  ASSUME PhaseInv, UNCHANGED <<config, cur, todo, asked, expected, powerFails>>,
         \/ pc \in FitPcs /\ pc' \in FitPcs
         \/ pc \in RecoverPcs /\ pc' \in RecoverPcs,
         pc' \in SavePcs \cup {"fit_clear"} => Mode = "safe",
         pc' \notin {"fit_write", "rec_write"} => i' = 0,
         RecordInv', \A s \in Fat : Settled(s, Value(s)'),
         pc' \in SavePcs \cup {"fit_erase"} =>
           \A n \in Slot : ErasedSlot(cur, n) \/ buf'[n] = flash'[cur.base][n],
         pc' \in {"fit_write", "fit_clear", "rec_write"} =>
           \A n \in Slot : flash'[cur.base][n] =
             IF ErasedSlot(cur, n) \/ (pc' # "fit_clear" /\ n >= i') THEN Erased ELSE buf'[n]
  PROVE  MInv'
  <1>1. InCall /\ InCall' /\ Fat' = Fat /\ Mode' = Mode
    BY Same DEF InCall, FitPcs, RecoverPcs, SavePcs
  <1>2. \A s, x : Settled(s, x)' <=> Settled(s, x)
    BY Frame
  <1>3. \A s : (Pending(s)' <=> Pending(s)) /\ (Free(s)' <=> Free(s))
    BY Frame
  <1>4. \A p : GoodPiece(p)' <=> GoodPiece(p)
    BY Frame
  <1>5. PhaseInv'
    <2>1. GoodPiece(cur)' /\ \A k \in 1 .. Len(todo') : GoodPiece(todo[k])'
      BY <1>1, <1>4 DEF PhaseInv
    <2>2. \A s \in Fat : Pending(s)' => Free(s)'
      BY <1>1, <1>3 DEF PhaseInv
    <2>3. pc' # "full_erase" /\ cur'.kind = "fit"
      BY DEF PhaseInv, FitPcs, RecoverPcs, SavePcs
    <2>4. (InCall /\ asked = {} => Mode = "safe" /\ powerFails > 0 /\ todo = <<>>)'
      BY <1>1 DEF PhaseInv
    <2>5. pc' \in RecoverPcs => asked' = {} /\ Mode' = "safe"
      BY <1>1 DEF PhaseInv, FitPcs, RecoverPcs, SavePcs
    <2> QED BY <1>1, <2>1, <2>2, <2>3, <2>4, <2>5 DEF PhaseInv
  <1>6. ContentInv'
    <2>1. \A s \in Fat : Settled(s, Value(s))'
      <3> SUFFICES ASSUME NEW s \in Fat PROVE Settled(s, Value(s))'
        OBVIOUS
      <3>1. PICK x : x = Value(s)'
        OBVIOUS
      <3>2. Settled(s, x)'
        BY <1>2, <3>1
      <3> QED BY <3>1, <3>2 DEF Settled, Fine, Good, Pending, Covers, ErasedSlot, Home, Spot
    <2>2. (pc \in SavePcs \cup {"fit_erase"} =>
             \A n \in Slot : ErasedSlot(cur, n) \/ buf[n] = flash[cur.base][n])'
      BY DEF ErasedSlot, Slot
    <2>3. (pc \in {"fit_write", "fit_clear", "rec_write"} =>
             \A n \in Slot : flash[cur.base][n] =
               IF ErasedSlot(cur, n) \/ (pc # "fit_clear" /\ n >= i) THEN Erased ELSE buf[n])'
      BY DEF ErasedSlot, Slot, Erased
    <2>4. pc' # "off"
      BY <1>1 DEF InCall
    <2> QED BY <1>1, <2>1, <2>2, <2>3, <2>4 DEF ContentInv
  <1> QED BY <1>5, <1>6 DEF MInv

(* Where a piece lies, and that the reserved sectors are elsewhere.          *)
LEMMA Bases ==
  ASSUME TypeOK, MInv, InCall
  PROVE  /\ config \in Configs /\ cur \in Piece /\ cur.base \in Sector
         /\ Mode = "safe" => dumpSector \in Sector /\ cur.base # dumpSector
         /\ \A s \in Fat : /\ s \in Nat /\ Home(s) \in Sector /\ Spot(s) \in Slot
                           /\ Mode = "safe" => Home(s) # dumpSector
  <1>1. config \in Configs /\ GoodPiece(cur)
    BY DEF TypeOK, MInv, PhaseInv
  <1>2. cur \in Piece /\ cur.base \in Sector /\ cur.base < UserSectors
    BY <1>1 DEF GoodPiece, Piece
  <1>3. /\ UserSectors \in Int /\ Sector = 0 .. ChipSectors - 1 /\ ChipSectors \in Int
        /\ Mode = "safe" => dumpSector \in Sector /\ dumpSector >= UserSectors
    BY <1>1, Build
  <1>4. Mode = "safe" => cur.base # dumpSector
    BY <1>2, <1>3
  <1>5. \A s \in Fat : s \in Nat /\ Home(s) \in Sector /\ Spot(s) \in Slot /\ Home(s) < UserSectors
    BY <1>1, FatPlace
  <1>6. ASSUME NEW s \in Fat, Mode = "safe" PROVE Home(s) # dumpSector
    BY <1>3, <1>5, <1>6
  <1> QED BY <1>1, <1>2, <1>3, <1>4, <1>5, <1>6

(* Reading the sectors to keep.                                              *)
LEMMA FitReadStep ==
  ASSUME TypeOK, MInv, config' = config, FitRead
  PROVE  MInv'
  <1>1. /\ pc = "fit_read" /\ UNCHANGED <<flash, record, cur, todo, i, asked, expected, powerFails>>
        /\ buf' = [n \in Slot |-> IF ErasedSlot(cur, n) THEN buf[n] ELSE flash[cur.base][n]]
        /\ pc' = IF Mode = "safe" THEN "dump_erase" ELSE "fit_erase"
    BY DEF FitRead
  <1>2. /\ InCall /\ PhaseInv /\ i' = 0 /\ Mode \in {"perf", "safe"} /\ Mode' = Mode
        /\ dumpSector' = dumpSector /\ config \in Configs
    BY <1>1, Same, Build DEF MInv, PhaseInv, InCall, TypeOK
  <1>3. \A n \in Slot : ErasedSlot(cur, n) \/ buf'[n] = flash'[cur.base][n]
    BY <1>1
  <1>4. \A s \in Fat : Settled(s, Value(s)')
    <2> SUFFICES ASSUME NEW s \in Fat PROVE Settled(s, Value(s)')
      OBVIOUS
    <2>1. Settled(s, Cell(s)) /\ Value(s) = Cell(s)
      BY <1>1, <1>2 DEF MInv, ContentInv, Value, Rewriting
    <2>2. Spot(s) \in Slot
      BY <1>2, Bases
    <2>3. PICK x : x = Value(s)'
      OBVIOUS
    <2>4. x = Cell(s) \/ Covers(cur, s)
      <3>1. x = IF pc' = "fit_erase" /\ Home(s) = cur.base THEN buf'[Spot(s)] ELSE Cell(s)
        BY <1>1, <2>3 DEF Value, Rewriting, Cell, Home, Spot
      <3> QED BY <1>3, <2>2, <1>1, <3>1 DEF Covers, Cell
    <2>5. Settled(s, x)
      BY <2>1, <2>4 DEF Settled, Pending
    <2> QED BY <2>3, <2>5
  <1>5. RecordInv'
    BY <1>1, <1>2 DEF RecordInv, MInv, SavePcs
  <1>6. pc' \in {"dump_erase", "fit_erase"} /\ pc \in FitPcs /\ pc' \in FitPcs
        /\ (pc' = "dump_erase" => Mode = "safe")
    BY <1>1, <1>2 DEF FitPcs, SavePcs
  <1>7. pc' \in SavePcs \cup {"fit_clear"} => Mode = "safe"
    BY <1>6 DEF SavePcs
  <1>8. pc' \notin {"fit_write", "fit_clear", "rec_write"}
    BY <1>6
  <1>9. UNCHANGED <<config, cur, todo, asked, expected, powerFails>>
    BY <1>1
  <1> QED BY <1>2, <1>3, <1>4, <1>5, <1>6, <1>7, <1>8, <1>9, GoesOn

(* Saving the buffer and opening the transaction.                            *)
LEMMA SaveStep ==
  ASSUME TypeOK, MInv, config' = config, Save
  PROVE  MInv'
  <1>1. /\ pc \in SavePcs /\ UNCHANGED <<buf, cur, todo, i, asked, expected, powerFails>>
        /\ pc' \in {"dump_write", "state_erase", "state_write", "fit_erase"}
    BY DEF Save, SavePcs
  <1>2. /\ InCall /\ PhaseInv /\ i' = 0 /\ Mode = "safe" /\ Mode' = "safe"
        /\ dumpSector' = dumpSector /\ flash \in Flashes /\ buf \in [Slot -> Content]
    BY <1>1, Same DEF MInv, PhaseInv, InCall, TypeOK, Flashes, SavePcs
  <1>3. /\ cur.base \in Sector /\ dumpSector \in Sector /\ cur.base # dumpSector
        /\ \A s \in Fat : Home(s) \in Sector /\ Spot(s) \in Slot /\ Home(s) # dumpSector
    BY <1>2, Bases
  <1>4. /\ \A c \in Sector : c # dumpSector => flash'[c] = flash[c]
        /\ pc = "dump_write" => flash'[dumpSector] = buf
        /\ pc \in {"state_erase", "state_write"} => flash' = flash
    <2>1. CASE pc = "dump_erase" /\ flash' = [flash EXCEPT ![dumpSector] = Blank]
      <3>1. PICK x, g : x = Blank /\ g = [flash EXCEPT ![dumpSector] = x]
        OBVIOUS
      <3>2. \A c \in Sector : c # dumpSector => g[c] = flash[c]
        <4>1. PutSector(flash, dumpSector, x, g)
          BY <1>2, <1>3, <3>1, Blanks, SetSector
        <4> QED BY <4>1 DEF PutSector
      <3> QED BY <2>1, <3>1, <3>2
    <2>2. CASE pc = "dump_write" /\ flash' = [flash EXCEPT ![dumpSector] = buf]
      <3>1. PICK g : g = [flash EXCEPT ![dumpSector] = buf]
        OBVIOUS
      <3>2. g[dumpSector] = buf /\ \A c \in Sector : c # dumpSector => g[c] = flash[c]
        <4>1. PutSector(flash, dumpSector, buf, g)
          BY <1>2, <1>3, <3>1, SetSector
        <4> QED BY <4>1 DEF PutSector
      <3> QED BY <2>2, <3>1, <3>2
    <2>3. CASE pc \in {"state_erase", "state_write"} /\ flash' = flash
      BY <2>3
    <2> QED BY <2>1, <2>2, <2>3 DEF Save
  <1>5. RecordInv'
    <2>1. pc' # "idle" /\ pc' # "full_erase" /\ pc' # "fit_read"
          /\ (pc' \in SavePcs => pc' \in {"dump_write", "state_erase", "state_write"})
      BY <1>1 DEF SavePcs
    <2>2. pc' \in SavePcs /\ asked # {} => record' = NoPiece
      <3>1. asked # {} => record = NoPiece
        BY <1>1 DEF MInv, RecordInv
      <3> QED BY <3>1 DEF Save, SavePcs
    <2>3. pc' = "fit_erase" => record' = cur
      BY DEF Save
    <2>4. pc' \in {"state_erase", "state_write", "fit_erase"} => flash'[dumpSector] = buf
      <3>1. pc \in {"state_erase", "state_write"} => flash[dumpSector] = buf
        BY <1>2 DEF MInv, RecordInv
      <3> QED BY <1>4, <3>1 DEF Save
    <2> QED BY <1>1, <1>2, <2>1, <2>2, <2>3, <2>4 DEF RecordInv
  <1>6. \A n \in Slot : ErasedSlot(cur, n) \/ buf'[n] = flash'[cur.base][n]
    <2>1. \A n \in Slot : ErasedSlot(cur, n) \/ buf[n] = flash[cur.base][n]
      BY <1>1 DEF MInv, ContentInv
    <2> QED BY <1>1, <1>3, <1>4, <2>1
  <1>7. \A s \in Fat : Settled(s, Value(s)')
    <2> SUFFICES ASSUME NEW s \in Fat PROVE Settled(s, Value(s)')
      OBVIOUS
    <2>1. Settled(s, Cell(s)) /\ Value(s) = Cell(s)
      BY <1>1, <1>2 DEF MInv, ContentInv, Value, Rewriting, SavePcs
    <2>2. PICK x : x = Value(s)'
      OBVIOUS
    <2>3. flash'[Home(s)][Spot(s)] = Cell(s)
      BY <1>3, <1>4 DEF Cell
    <2>4. x = Cell(s) \/ Covers(cur, s)
      <3>1. x = IF pc' = "fit_erase" /\ Home(s) = cur.base THEN buf'[Spot(s)]
                ELSE flash'[Home(s)][Spot(s)]
        BY <1>1, <2>2 DEF Value, Rewriting, Cell, Home, Spot
      <3> QED BY <1>3, <1>6, <2>3, <3>1 DEF Covers
    <2>5. Settled(s, x)
      BY <2>1, <2>4 DEF Settled, Pending
    <2> QED BY <2>2, <2>5
  <1>8. pc \in FitPcs /\ pc' \in FitPcs
    BY <1>1 DEF FitPcs, SavePcs
  <1>9. pc' \notin {"fit_write", "fit_clear", "rec_write"}
    BY <1>1
  <1>10. UNCHANGED <<config, cur, todo, asked, expected, powerFails>>
    BY <1>1
  <1> QED BY <1>2, <1>5, <1>6, <1>7, <1>8, <1>9, <1>10, GoesOn

(* Erasing the flash sector whose other FAT sectors are in the buffer.       *)
LEMMA EraseBaseStep ==
  ASSUME TypeOK, MInv, config' = config, EraseBase
  PROVE  MInv'
  <1>1. /\ UNCHANGED <<record, buf, cur, todo, i, asked, expected, powerFails>>
        /\ \/ pc = "fit_erase" /\ pc' = "fit_write"
           \/ pc = "rec_erase" /\ pc' = "rec_write"
    BY DEF EraseBase
  <1>2. /\ InCall /\ PhaseInv /\ i = 0 /\ i' = 0 /\ Mode' = Mode
        /\ dumpSector' = dumpSector /\ flash \in Flashes
    BY <1>1, Same DEF MInv, PhaseInv, InCall, TypeOK, Flashes
  <1>3. /\ cur.base \in Sector /\ (Mode = "safe" => dumpSector \in Sector /\ cur.base # dumpSector)
        /\ \A s \in Fat : Home(s) \in Sector /\ Spot(s) \in Slot
    BY <1>2, Bases
  <1>4. /\ \A k \in Slot : flash'[cur.base][k] = Erased
        /\ \A c \in Sector : c # cur.base => flash'[c] = flash[c]
    <2>1. PICK x, g : x = Blank /\ g = [flash EXCEPT ![cur.base] = x]
      OBVIOUS
    <2>2. g[cur.base] = x /\ \A c \in Sector : c # cur.base => g[c] = flash[c]
      <3>1. PutSector(flash, cur.base, x, g)
        BY <1>2, <1>3, <2>1, Blanks, SetSector
      <3> QED BY <3>1 DEF PutSector
    <2>3. flash' = g
      BY <2>1 DEF EraseBase
    <2> QED BY <2>1, <2>2, <2>3, Blanks
  <1>5. RecordInv'
    <2>1. pc = "fit_erase" /\ Mode = "safe" => record = cur /\ flash[dumpSector] = buf
      BY DEF MInv, RecordInv
    <2>2. Mode = "perf" => record = NoPiece
      BY DEF MInv, RecordInv
    <2> QED BY <1>1, <1>2, <1>3, <1>4, <2>1, <2>2 DEF RecordInv, SavePcs
  <1>6. \A s \in Fat : Settled(s, Value(s)')
    <2> SUFFICES ASSUME NEW s \in Fat PROVE Settled(s, Value(s)')
      OBVIOUS
    <2>1. Settled(s, Value(s))
      BY <1>2 DEF MInv, ContentInv
    <2>2. PICK x : x = Value(s)'
      OBVIOUS
    <2>3. x = IF Home(s) = cur.base THEN buf[Spot(s)] ELSE flash'[Home(s)][Spot(s)]
      BY <1>1, <2>2 DEF Value, Rewriting, Cell, Home, Spot
    <2>4. Value(s) = IF Home(s) = cur.base THEN buf[Spot(s)] ELSE flash[Home(s)][Spot(s)]
      BY <1>1 DEF Value, Rewriting, Cell
    <2>5. x = Value(s)
      BY <1>3, <1>4, <2>3, <2>4
    <2> QED BY <2>1, <2>2, <2>5
  <1>7. \A n \in Slot : n >= i'
    BY <1>2, ConfigAssumption DEF Slot
  <1>8. /\ \/ pc \in FitPcs /\ pc' \in FitPcs
           \/ pc \in RecoverPcs /\ pc' \in RecoverPcs
        /\ pc' \notin SavePcs \cup {"fit_erase", "fit_clear"}
    BY <1>1 DEF FitPcs, SavePcs, RecoverPcs
  <1>9. UNCHANGED <<config, cur, todo, asked, expected, powerFails>>
    BY <1>1
  <1>10. \A n \in Slot : flash'[cur.base][n] =
           IF ErasedSlot(cur, n) \/ (pc' # "fit_clear" /\ n >= i') THEN Erased ELSE buf'[n]
    BY <1>4, <1>7, <1>8
  <1> QED BY <1>2, <1>5, <1>6, <1>8, <1>9, <1>10, GoesOn

(* Writing one FAT sector back.                                              *)
LEMMA WriteBackStep ==
  ASSUME TypeOK, MInv, config' = config, WriteBack
  PROVE  MInv'
  <1>1. /\ UNCHANGED <<record, buf, pc, cur, todo, asked, expected, powerFails>>
        /\ pc \in {"fit_write", "rec_write"} /\ i < SizeFactor /\ i' = i + 1
    BY DEF WriteBack
  <1>2. /\ InCall /\ PhaseInv /\ Mode' = Mode /\ i \in Slot /\ i \in Nat
        /\ dumpSector' = dumpSector /\ flash \in Flashes /\ buf \in [Slot -> Content]
    <2>1. i \in 0 .. SizeFactor /\ SizeFactor \in Int
      BY ConfigAssumption DEF TypeOK
    <2> QED BY <1>1, <2>1, Same DEF MInv, InCall, TypeOK, Flashes, Slot
  <1>3. /\ cur.base \in Sector /\ (Mode = "safe" => dumpSector \in Sector /\ cur.base # dumpSector)
        /\ \A s \in Fat : Home(s) \in Sector /\ Spot(s) \in Slot
    BY <1>2, Bases
  <1>4. \A n \in Slot : flash[cur.base][n] =
          IF ErasedSlot(cur, n) \/ n >= i THEN Erased ELSE buf[n]
    BY <1>1 DEF MInv, ContentInv
  <1>5. /\ \A k \in Slot : k # i => flash'[cur.base][k] = flash[cur.base][k]
        /\ flash'[cur.base][i] = IF ErasedSlot(cur, i) THEN Erased ELSE buf[i]
        /\ \A c \in Sector : c # cur.base => flash'[c] = flash[c]
    <2>1. flash[cur.base][i] = Erased
      BY <1>2, <1>4
    <2>2. CASE ErasedSlot(cur, i)
      BY <2>1, <2>2 DEF WriteBack
    <2>3. CASE ~ErasedSlot(cur, i)
      <3>1. PICK b, m, x, f, g : /\ b = cur.base /\ m = i /\ f = flash
                                 /\ x = Program(f[b][m], buf[m]) /\ g = [f EXCEPT ![b][m] = x]
        OBVIOUS
      <3>2. flash' = g
        BY <2>3, <3>1 DEF WriteBack
      <3>3. x = buf[i] /\ x \in Content
        BY <1>2, <2>1, <3>1, Programs
      <3>4. f \in Flashes /\ b \in Sector /\ m \in Slot
        BY <1>2, <1>3, <3>1
      <3>5. /\ g[b][m] = x /\ \A k \in Slot : k # m => g[b][k] = f[b][k]
            /\ \A c \in Sector : c # b => g[c] = f[c]
        <4>1. PutSlot(f, b, m, x, g)
          BY <3>1, <3>3, <3>4, SetSlot
        <4> QED BY <4>1 DEF PutSlot
      <3> QED BY <2>3, <3>1, <3>2, <3>3, <3>5
    <2> QED BY <2>2, <2>3
  <1>6. \A n \in Slot : flash'[cur.base][n] =
          IF ErasedSlot(cur, n) \/ (pc' # "fit_clear" /\ n >= i') THEN Erased ELSE buf'[n]
    <2> SUFFICES ASSUME NEW n \in Slot
                 PROVE  flash'[cur.base][n] = IF ErasedSlot(cur, n) \/ n >= i + 1 THEN Erased ELSE buf[n]
      BY <1>1
    <2>1. n \in Int
      BY DEF Slot
    <2>2. CASE n = i
      BY <1>2, <1>5, <2>1, <2>2
    <2>3. CASE n # i
      <3>1. n >= i + 1 <=> n >= i
        BY <1>2, <2>1, <2>3
      <3> QED BY <1>4, <1>5, <2>3, <3>1
    <2> QED BY <2>2, <2>3
  <1>7. RecordInv'
    <2>1. pc = "fit_write" /\ Mode = "safe" => record = cur /\ flash[dumpSector] = buf
      BY DEF MInv, RecordInv
    <2>2. Mode = "perf" => record = NoPiece
      BY DEF MInv, RecordInv
    <2> QED BY <1>1, <1>2, <1>3, <1>5, <2>1, <2>2 DEF RecordInv, SavePcs
  <1>8. \A s \in Fat : Settled(s, Value(s)')
    <2> SUFFICES ASSUME NEW s \in Fat PROVE Settled(s, Value(s)')
      OBVIOUS
    <2>1. Settled(s, Value(s))
      BY <1>2 DEF MInv, ContentInv
    <2>2. PICK x : x = Value(s)'
      OBVIOUS
    <2>3. x = IF Home(s) = cur.base THEN buf[Spot(s)] ELSE flash'[Home(s)][Spot(s)]
      BY <1>1, <2>2 DEF Value, Rewriting, Cell, Home, Spot
    <2>4. Value(s) = IF Home(s) = cur.base THEN buf[Spot(s)] ELSE flash[Home(s)][Spot(s)]
      BY <1>1 DEF Value, Rewriting, Cell
    <2>5. x = Value(s)
      BY <1>3, <1>5, <2>3, <2>4
    <2> QED BY <2>1, <2>2, <2>5
  <1>9. /\ \/ pc \in FitPcs /\ pc' \in FitPcs
           \/ pc \in RecoverPcs /\ pc' \in RecoverPcs
        /\ pc' \notin SavePcs \cup {"fit_erase", "fit_clear"} /\ pc' \in {"fit_write", "rec_write"}
    BY <1>1 DEF FitPcs, SavePcs, RecoverPcs
  <1>10. UNCHANGED <<config, cur, todo, asked, expected, powerFails>>
    BY <1>1
  <1> QED BY <1>2, <1>6, <1>7, <1>8, <1>9, <1>10, GoesOn

-------------------------------------------------------------------------------
(* What a finished piece has done to the FAT sector s that now holds x.      *)
Done(s, x) == IF Covers(cur, s) THEN x = Erased ELSE Settled(s, x)

(* A piece is done: the call returns, or goes on with the next one.          *)
LEMMA PieceDone ==
  ASSUME TypeOK, MInv, InCall, NextPiece, config' = config, i' = 0, record' = NoPiece,
         powerFails' = powerFails, \A s \in Fat : Done(s, Cell(s)')
  PROVE  MInv'
  <1>1. config \in Configs /\ todo \in Seq(Piece) /\ asked \subseteq Fat /\ Fat' = Fat
    BY Same DEF TypeOK
  <1>2. /\ GoodPiece(cur) /\ \A k \in 1 .. Len(todo) : GoodPiece(todo[k])
        /\ \A s \in Fat : Pending(s) => Free(s)
        /\ asked = {} => todo = <<>>
    BY DEF MInv, PhaseInv
  <1>3. \A s : Lost(s)' <=> Lost(s)
    BY Same DEF Lost
  <1>4. CASE todo = <<>>
    <2>1. /\ pc' = "idle" /\ asked' = {} /\ todo' = <<>>
          /\ expected' = [s \in Fat |-> IF s \in asked THEN Erased ELSE expected[s]]
      BY <1>4 DEF NextPiece
    <2>2. ASSUME NEW s \in Fat PROVE Good(s, Cell(s))'
      <3>1. PICK x : x = Cell(s)'
        OBVIOUS
      <3>2. Done(s, x) /\ (Pending(s) <=> Covers(cur, s))
        <4>1. Len(todo) = 0
          BY <1>4
        <4> QED BY <3>1, <4>1 DEF Pending
      <3>3. (s \in asked => x = Erased) /\ (s \notin asked => Good(s, x))
        BY <1>2, <3>2 DEF Done, Settled, Fine, Free, Good
      <3>4. expected'[s] = Unknown \/ expected'[s] = x \/ Lost(s)'
        BY <1>3, <2>1, <3>3 DEF Good
      <3> QED BY <3>1, <3>4 DEF Good, Unknown
    <2> QED BY <2>1, <2>2, RestNext
  <1>5. CASE todo # <<>>
    <2>1. PICK p, td, m : p = Head(todo) /\ td = Tail(todo) /\ m = Len(todo)
      OBVIOUS
    <2>2. /\ cur' = p /\ todo' = td /\ asked' = asked /\ expected' = expected
          /\ pc' = IF p.kind = "fit" THEN "fit_read" ELSE "full_erase"
      BY <1>5, <2>1 DEF NextPiece, StartPiece
    <2>3. /\ m \in Nat /\ m > 0 /\ p = todo[1] /\ Len(td) = m - 1
          /\ \A k \in 1 .. m - 1 : td[k] = todo[k + 1]
      <3>1. m \in Nat
        BY <1>1, <2>1, LenProperties
      <3> QED BY <1>1, <1>5, <2>1, <3>1, HeadTailProperties
    <2>4. GoodPiece(p) /\ \A k \in 1 .. Len(td) : GoodPiece(td[k])
      <3>1. 1 \in 1 .. m /\ \A k \in 1 .. m - 1 : k + 1 \in 1 .. m
        BY <2>3
      <3> QED BY <1>2, <2>1, <2>3, <3>1
    <2>5. \A s : Pending(s)' <=> Covers(p, s) \/ \E k \in 1 .. Len(td) : Covers(td[k], s)
      BY <2>2 DEF Pending, Covers, ErasedSlot, Home, Spot
    <2>6. ASSUME NEW s PROVE Pending(s) <=> Covers(cur, s) \/ Pending(s)'
      <3>1. ASSUME NEW k \in 1 .. m, Covers(todo[k], s) PROVE Pending(s)'
        <4>1. CASE k = 1
          BY <2>3, <2>5, <3>1, <4>1
        <4>2. CASE k # 1
          <5>1. k - 1 \in 1 .. m - 1 /\ (k - 1) + 1 = k
            BY <2>3, <4>2
          <5>2. k - 1 \in 1 .. Len(td) /\ td[k - 1] = todo[k]
            BY <2>3, <5>1
          <5>3. Covers(td[k - 1], s)
            BY <3>1, <5>2
          <5> QED BY <2>5, <5>2, <5>3
        <4> QED BY <4>1, <4>2
      <3>2. CASE Covers(p, s)
        <4>1. 1 \in 1 .. m /\ Covers(todo[1], s)
          BY <2>3, <3>2
        <4> QED BY <2>1, <2>5, <3>2, <4>1 DEF Pending
      <3>3. ASSUME NEW k \in 1 .. Len(td), Covers(td[k], s) PROVE Pending(s)
        <4>1. k + 1 \in 1 .. m /\ td[k] = todo[k + 1]
          BY <2>3
        <4>2. Covers(todo[k + 1], s)
          BY <3>3, <4>1
        <4> QED BY <2>1, <4>1, <4>2 DEF Pending
      <3>4. Pending(s) => Covers(cur, s) \/ Pending(s)'
        BY <2>1, <3>1 DEF Pending
      <3>5. Covers(cur, s) => Pending(s)
        BY DEF Pending
      <3> QED BY <2>5, <3>2, <3>3, <3>4, <3>5
    <2>7. \A s : Free(s)' <=> Free(s)
      BY <1>3, <2>2 DEF Free, Unknown
    <2>8. \A s \in Fat : Pending(s)' => Free(s)'
      BY <1>2, <2>6, <2>7
    <2>9. ASSUME NEW s \in Fat PROVE Settled(s, Cell(s))'
      <3>1. PICK x : x = Cell(s)'
        OBVIOUS
      <3>2. Done(s, x)
        BY <3>1
      <3>3. Pending(s)' \/ Fine(s, x)
        <4>1. CASE Covers(cur, s)
          BY <1>2, <2>6, <3>2, <4>1 DEF Done, Free, Fine, Good
        <4>2. CASE ~Covers(cur, s)
          BY <2>6, <3>2, <4>2 DEF Done, Settled
        <4> QED BY <4>1, <4>2
      <3>4. Fine(s, x) => Fine(s, x)'
        BY <1>3, <2>2 DEF Fine, Good, Unknown, Erased
      <3>5. Pending(s)' \/ Fine(s, x)'
        BY <3>3, <3>4
      <3> QED BY <3>1, <3>5 DEF Settled, Fine, Good, Erased, Unknown
    <2>10. asked' # {}
      BY <1>2, <1>5, <2>2
    <2> QED BY <2>2, <2>4, <2>8, <2>9, <2>10, StartNext
  <1> QED BY <1>4, <1>5

(* Erasing a whole flash sector.                                             *)
LEMMA FullEraseStep ==
  ASSUME TypeOK, MInv, config' = config, FullErase
  PROVE  MInv'
  <1>1. /\ pc = "full_erase" /\ NextPiece /\ UNCHANGED <<record, buf, i, powerFails>>
    BY DEF FullErase
  <1>2. /\ InCall /\ i' = 0 /\ record' = NoPiece /\ flash \in Flashes
        /\ GoodPiece(cur) /\ cur.kind = "full"
    BY <1>1 DEF MInv, PhaseInv, RecordInv, InCall, TypeOK, Flashes
  <1>3. cur.base \in Sector /\ \A s \in Fat : Home(s) \in Sector /\ Spot(s) \in Slot
    BY <1>2, Bases
  <1>4. /\ \A k \in Slot : flash'[cur.base][k] = Erased
        /\ \A c \in Sector : c # cur.base => flash'[c] = flash[c]
    <2>1. PICK x, g : x = Blank /\ g = [flash EXCEPT ![cur.base] = x]
      OBVIOUS
    <2>2. PutSector(flash, cur.base, x, g)
      BY <1>2, <1>3, <2>1, Blanks, SetSector
    <2>3. flash' = g
      BY <2>1 DEF FullErase
    <2> QED BY <2>1, <2>2, <2>3, Blanks DEF PutSector
  <1>5. ASSUME NEW s \in Fat PROVE Done(s, Cell(s)')
    <2>1. Cell(s)' = flash'[Home(s)][Spot(s)]
      BY DEF Cell, Home, Spot
    <2>2. Settled(s, Cell(s))
      <3>1. Value(s) = Cell(s)
        BY <1>1 DEF Value, Rewriting
      <3> QED BY <1>2, <3>1 DEF MInv, ContentInv
    <2>3. CASE Home(s) = cur.base
      <3>1. Covers(cur, s)
        BY <1>2, <1>3, <2>3, ConfigAssumption DEF GoodPiece, Covers, ErasedSlot, Slot
      <3> QED BY <1>3, <1>4, <2>1, <2>3, <3>1 DEF Done
    <2>4. CASE Home(s) # cur.base
      <3>1. Cell(s)' = Cell(s) /\ ~Covers(cur, s)
        BY <1>3, <1>4, <2>1, <2>4 DEF Cell, Covers
      <3> QED BY <2>2, <3>1 DEF Done
    <2> QED BY <2>3, <2>4
  <1> QED BY <1>1, <1>2, <1>5, PieceDone

(* When all sectors of the buffer are back, the flash holds what it should.  *)
LEMMA WrittenBack ==
  ASSUME TypeOK, MInv, (pc \in {"fit_write", "rec_write"} /\ i = SizeFactor) \/ pc = "fit_clear"
  PROVE  \A s \in Fat : IF Covers(cur, s) THEN Cell(s) = Erased ELSE Cell(s) = Value(s)
  <1> SUFFICES ASSUME NEW s \in Fat
               PROVE  IF Covers(cur, s) THEN Cell(s) = Erased ELSE Cell(s) = Value(s)
    OBVIOUS
  <1>1. InCall /\ pc \in Rewriting
    BY DEF InCall, Rewriting
  <1>2. Spot(s) \in Slot /\ Spot(s) \in Int /\ ~(Spot(s) >= SizeFactor)
    <2>1. Spot(s) \in Slot
      BY <1>1, Bases
    <2> QED BY <2>1, ConfigAssumption DEF Slot
  <1>3. CASE Home(s) = cur.base
    <2>1. \A n \in Slot : flash[cur.base][n] =
            IF ErasedSlot(cur, n) \/ (pc # "fit_clear" /\ n >= i) THEN Erased ELSE buf[n]
      BY DEF MInv, ContentInv
    <2> QED BY <1>1, <1>2, <1>3, <2>1 DEF Covers, Cell, Value
  <1>4. CASE Home(s) # cur.base
    BY <1>4 DEF Covers, Value
  <1> QED BY <1>3, <1>4

(* So the piece is done.                                                     *)
LEMMA FitDone ==
  ASSUME TypeOK, MInv, flash' = flash,
         (pc = "fit_write" /\ i = SizeFactor) \/ pc = "fit_clear"
  PROVE  \A s \in Fat : Done(s, Cell(s)')
  <1> SUFFICES ASSUME NEW s \in Fat PROVE Done(s, Cell(s)')
    OBVIOUS
  <1>1. Cell(s)' = Cell(s)
    BY DEF Cell, Home, Spot
  <1>2. IF Covers(cur, s) THEN Cell(s) = Erased ELSE Cell(s) = Value(s)
    BY WrittenBack
  <1>3. Settled(s, Value(s))
    BY DEF MInv, ContentInv, InCall
  <1> QED BY <1>1, <1>2, <1>3 DEF Done

(* The last sector is back.                                                  *)
LEMMA FitWrittenStep ==
  ASSUME TypeOK, MInv, config' = config, FitWritten
  PROVE  MInv'
  <1>1. /\ pc = "fit_write" /\ i = SizeFactor /\ i' = 0
        /\ UNCHANGED <<flash, record, buf, powerFails>>
    BY DEF FitWritten
  <1>2. /\ InCall /\ PhaseInv /\ Mode \in {"perf", "safe"} /\ Mode' = Mode
        /\ dumpSector' = dumpSector /\ config \in Configs
    BY <1>1, Same, Build DEF MInv, InCall, TypeOK
  <1>3. CASE Mode = "perf"
    <2>1. NextPiece /\ record' = NoPiece
      BY <1>1, <1>3 DEF FitWritten, MInv, RecordInv
    <2>2. \A s \in Fat : Done(s, Cell(s)')
      BY <1>1, FitDone
    <2> QED BY <1>1, <1>2, <2>1, <2>2, PieceDone
  <1>4. CASE Mode = "safe"
    <2>1. pc' = "fit_clear" /\ UNCHANGED <<cur, todo, asked, expected>>
      BY <1>4 DEF FitWritten
    <2>2. ASSUME NEW n \in Slot
          PROVE  flash'[cur.base][n] =
             IF ErasedSlot(cur, n) \/ (pc' # "fit_clear" /\ n >= i') THEN Erased ELSE buf'[n]
      <3>1. ~(n >= i)
        BY <1>1, ConfigAssumption DEF Slot
      <3>2. flash[cur.base][n] =
             IF ErasedSlot(cur, n) \/ (pc # "fit_clear" /\ n >= i) THEN Erased ELSE buf[n]
        BY <1>1 DEF MInv, ContentInv
      <3> QED BY <1>1, <2>1, <3>1, <3>2
    <2>3. RecordInv'
      <3>1. record = cur /\ flash[dumpSector] = buf
        BY <1>1, <1>4 DEF MInv, RecordInv
      <3> QED BY <1>1, <1>2, <1>4, <2>1, <3>1 DEF RecordInv, SavePcs
    <2>4. ASSUME NEW s \in Fat PROVE Settled(s, Value(s)')
      <3>1. Value(s)' = Value(s)
        BY <1>1, <2>1 DEF Value, Rewriting, Cell, Home, Spot
      <3>2. Settled(s, Value(s))
        BY <1>2 DEF MInv, ContentInv
      <3> QED BY <3>1, <3>2
    <2>5. pc \in FitPcs /\ pc' \in FitPcs /\ pc' \notin SavePcs \cup {"fit_erase"}
      BY <1>1, <2>1 DEF FitPcs, SavePcs
    <2>6. UNCHANGED <<config, cur, todo, asked, expected, powerFails>>
      BY <1>1, <2>1
    <2> QED BY <1>1, <1>2, <1>4, <2>2, <2>3, <2>4, <2>5, <2>6, GoesOn
  <1> QED BY <1>2, <1>3, <1>4

(* The transaction is closed.                                                *)
LEMMA FitClearStep ==
  ASSUME TypeOK, MInv, config' = config, FitClear
  PROVE  MInv'
  <1>1. pc = "fit_clear" /\ NextPiece /\ record' = NoPiece /\ UNCHANGED <<flash, buf, i, powerFails>>
    BY DEF FitClear
  <1>2. InCall /\ i' = 0
    BY <1>1 DEF MInv, PhaseInv, InCall
  <1>3. \A s \in Fat : Done(s, Cell(s)')
    BY <1>1, FitDone
  <1> QED BY <1>1, <1>2, <1>3, PieceDone

(* recover() is about to close the transaction by way of the FAT sector that *)
(* has the number of the state sector.                                       *)
LEMMA RecoverClearStep ==
  ASSUME TypeOK, MInv, config' = config, RecoverClear
  PROVE  MInv'
  <1>1. PICK p, d, q, h : p = Fit(stateSector, 1) /\ d = SizeFactor /\ q = stateSector /\ h = Home(q)
    OBVIOUS
  <1>2. /\ pc = "rec_write" /\ i = SizeFactor /\ i' = 0 /\ cur' = p
        /\ pc' = IF p.kind = "fit" THEN "fit_read" ELSE "full_erase"
        /\ UNCHANGED <<flash, record, buf, todo, asked, expected, powerFails>>
    BY <1>1 DEF RecoverClear, StartPiece
  <1>3. /\ InCall /\ config \in Configs /\ GoodPiece(cur) /\ cur.kind = "fit"
        /\ asked = {} /\ todo = <<>> /\ Mode = "safe" /\ powerFails > 0
        /\ \A s \in Fat : Pending(s) => Free(s)
    BY <1>2 DEF MInv, PhaseInv, InCall, TypeOK, RecoverPcs
  <1>4. /\ d \in Int /\ d >= 2 /\ q \in Nat /\ q > 0 /\ q = UserSectors
    <2>1. cur.count \in 1 .. SizeFactor /\ cur.count < SizeFactor
      BY <1>3 DEF GoodPiece, Piece
    <2>2. SizeFactor \in Int
      BY ConfigAssumption
    <2>3. /\ ChipSectors \in Int /\ ChipSectors > 2 /\ stateSector = ChipSectors - 2
          /\ UserSectors = ChipSectors - 2
      BY <1>3, Build
    <2> QED BY <1>1, <2>1, <2>2, <2>3
  <1>5. h \in Int /\ Spot(q) \in 0 .. d - 1 /\ \A b \in Int : b <= h <=> d * b <= q
    BY <1>1, <1>4, Place
  <1>6. h >= 0
    <2>1. 0 \in Int /\ d * 0 = 0
      BY <1>4
    <2> QED BY <1>4, <1>5, <2>1
  <1>7. h < UserSectors
    <2> SUFFICES ASSUME ~(h < q) PROVE FALSE
      BY <1>4
    <2>1. q \in Int /\ q <= h
      BY <1>4, <1>5
    <2>2. d * q <= q
      BY <1>5, <2>1
    <2>3. 2 * q <= d * q
      BY <1>4
    <2>4. PICK z : z = d * q
      OBVIOUS
    <2>5. z \in Int
      BY <1>4, <2>4
    <2> QED BY <1>4, <2>2, <2>3, <2>4, <2>5
  <1>8. 1 < SizeFactor /\ 1 > 0 /\ Spot(q) + 1 <= SizeFactor
    BY <1>1, <1>4, <1>5
  <1>9. GoodPiece(p) /\ p.kind = "fit" /\ \A s \in Nat : Covers(p, s) <=> q <= s /\ s < q + 1
    BY <1>1, <1>3, <1>4, <1>5, <1>6, <1>7, <1>8, FitFacts
  <1>10. \A s : Lost(s)' <=> Lost(s)
    BY <1>2, Same DEF Lost
  <1>11. ASSUME NEW s \in Fat, Pending(s)' PROVE Free(s)'
    <2>1. Covers(p, s)
      <3>1. Len(todo') = 0
        BY <1>2, <1>3
      <3> QED BY <1>2, <1>11, <3>1 DEF Pending, Covers, ErasedSlot, Home, Spot
    <2>2. s \in Nat
      BY <1>3, Bases
    <2>3. s = stateSector
      BY <1>1, <1>4, <1>9, <2>1, <2>2
    <2> QED BY <1>3, <1>10, <2>3 DEF Free, Lost
  <1>12. ASSUME NEW s \in Fat PROVE Settled(s, Cell(s))'
    <2>1. IF Covers(cur, s) THEN Cell(s) = Erased ELSE Cell(s) = Value(s)
      BY <1>2, WrittenBack
    <2>2. Settled(s, Value(s))
      BY <1>3 DEF MInv, ContentInv
    <2>3. Good(s, Cell(s))
      <3>1. CASE Pending(s)
        BY <1>3, <3>1 DEF Free, Good
      <3>2. CASE ~Pending(s)
        BY <1>3, <2>1, <2>2, <3>2 DEF Settled, Fine, Pending
      <3> QED BY <3>1, <3>2
    <2>4. Good(s, Cell(s))'
      BY <1>2, <1>10, <2>3 DEF Good, Cell, Home, Spot, Unknown
    <2> QED BY <1>2, <1>3, <2>4 DEF Settled, Fine
  <1>13. /\ \A k \in 1 .. Len(todo') : GoodPiece(todo'[k])
         /\ asked' = {} /\ todo' = <<>> /\ powerFails' > 0
    <2>1. Len(todo') = 0 /\ todo' = <<>>
      BY <1>2, <1>3
    <2> QED BY <1>2, <1>3, <2>1
  <1> QED BY <1>2, <1>3, <1>9, <1>11, <1>12, <1>13, StartNext

-------------------------------------------------------------------------------
(* What a call that is cut short leaves expected of the FAT sectors.         *)
LEMMA CutExpected ==
  ASSUME TypeOK, CutShort, NEW s \in Fat
  PROVE  /\ expected'[s] = expected[s] \/ expected'[s] = Unknown
         /\ s \in asked => expected'[s] = Unknown
         /\ Mode = "perf" /\ pc \in FitPcs /\ cur \in Piece /\ Home(s) = cur.base
              => expected'[s] = Unknown
  <1>1. PICK S : /\ expected' = [t \in Fat |-> IF t \in S THEN Unknown ELSE expected[t]]
                 /\ S = asked \cup IF Mode = "perf" /\ pc \in FitPcs THEN SectorFat(cur) ELSE {}
    BY Zenon DEF CutShort
  <1>2. expected'[s] = IF s \in S THEN Unknown ELSE expected[s]
    BY <1>1
  <1>3. ASSUME Mode = "perf", pc \in FitPcs, Home(s) = cur.base PROVE s \in S
    <2>1. config \in Configs
      BY DEF TypeOK
    <2>2. s \in Nat /\ Spot(s) \in Slot
      BY <2>1, FatPlace
    <2>3. SizeFactor \in Int /\ Home(s) \in Int /\ s = SizeFactor * Home(s) + Spot(s)
      BY <2>2, Place
    <2>4. s = cur.base * SizeFactor + Spot(s)
      BY <1>3, <2>3
    <2>5. s \in SectorFat(cur)
      BY <2>2, <2>4 DEF SectorFat
    <2> QED BY <1>1, <1>3, <2>5
  <1> QED BY <1>1, <1>2, <1>3

(* What it leaves in the flash and of the record.                            *)
LEMMA CutFlash ==
  ASSUME TypeOK, CutShort
  PROVE  /\ record' = record \/ (record' = NoPiece /\ flash' = flash /\ pc \in {"state_erase", "fit_clear"})
         /\ \A c \in Sector : flash'[c] # flash[c] =>
              \/ c = cur.base /\ pc \in {"fit_erase", "rec_erase", "full_erase", "fit_write", "rec_write"}
              \/ c = dumpSector /\ pc \in {"dump_erase", "dump_write"}
  <1>1. /\ config \in Configs /\ flash \in Flashes /\ cur \in Record /\ i \in 0 .. SizeFactor
    BY DEF TypeOK, Flashes
  <1>2. cur.base \in Sector /\ dumpSector \in Sector
    BY <1>1, PieceFields, Build DEF dumpSector
  <1>3. CASE flash' = flash /\ record' = record
    BY <1>3
  <1>4. CASE /\ pc \in {"fit_erase", "rec_erase", "full_erase"} /\ record' = record
             /\ flash' = [flash EXCEPT ![cur.base] = [k \in Slot |-> Garbage]]
    <2>1. PICK x, g : x = [k \in Slot |-> Garbage] /\ g = [flash EXCEPT ![cur.base] = x]
      OBVIOUS
    <2>2. x \in [Slot -> Content]
      BY <2>1, Blanks
    <2>3. PutSector(flash, cur.base, x, g)
      BY <1>1, <1>2, <2>1, <2>2, SetSector
    <2>4. flash' = g
      BY <1>4, <2>1
    <2> QED BY <1>4, <2>3, <2>4 DEF PutSector
  <1>5. CASE /\ pc \in {"dump_erase", "dump_write"} /\ record' = record
             /\ flash' = [flash EXCEPT ![dumpSector] = [k \in Slot |-> Garbage]]
    <2>1. PICK x, g : x = [k \in Slot |-> Garbage] /\ g = [flash EXCEPT ![dumpSector] = x]
      OBVIOUS
    <2>2. x \in [Slot -> Content]
      BY <2>1, Blanks
    <2>3. PutSector(flash, dumpSector, x, g)
      BY <1>1, <1>2, <2>1, <2>2, SetSector
    <2>4. flash' = g
      BY <1>5, <2>1
    <2> QED BY <1>5, <2>3, <2>4 DEF PutSector
  <1>6. CASE pc \in {"state_erase", "fit_clear"} /\ record' = NoPiece /\ flash' = flash
    BY <1>6
  <1>7. CASE /\ pc \in {"fit_write", "rec_write"} /\ i < SizeFactor /\ record' = record
             /\ flash' = [flash EXCEPT ![cur.base][i] = Garbage]
    <2>1. PICK f, b, m, x, g : /\ f = flash /\ b = cur.base /\ m = i /\ x = Garbage
                               /\ g = [f EXCEPT ![b][m] = x]
      OBVIOUS
    <2>2. f \in Flashes /\ b \in Sector /\ m \in Slot /\ x \in Content
      BY <1>1, <1>2, <1>7, <2>1, Blanks, ConfigAssumption DEF Slot
    <2>3. PutSlot(f, b, m, x, g)
      BY <2>1, <2>2, SetSlot
    <2>4. flash' = g
      BY <1>7, <2>1
    <2>5. \A c \in Sector : c # b => g[c] = f[c]
      BY <2>3 DEF PutSlot
    <2> QED BY <1>7, <2>1, <2>4, <2>5
  <1> QED BY <1>3, <1>4, <1>5, <1>6, <1>7, Zenon DEF CutShort, Interrupted

(* The values that the cut call leaves behind are the ones it should.        *)
LEMMA CutValues ==
  ASSUME TypeOK, MInv, InCall, CutShort, config' = config,
         powerFails' \in {powerFails, powerFails + 1}, NEW s \in Fat, NEW x,
         x = Value(s) \/ Pending(s)
  PROVE  /\ Good(s, x)'
         /\ Pending(s) => (expected'[s] = Unknown \/ Lost(s)')
  <1>1. /\ expected'[s] = expected[s] \/ expected'[s] = Unknown
        /\ s \in asked => expected'[s] = Unknown
    BY CutExpected
  <1>2. Lost(s) => Lost(s)'
    <2>1. powerFails \in Nat
      BY Build DEF TypeOK
    <2> QED BY <2>1, Same DEF Lost
  <1>3. Pending(s) => (expected'[s] = Unknown \/ Lost(s)')
    BY <1>1, <1>2 DEF MInv, PhaseInv, Free
  <1>4. CASE Pending(s)
    BY <1>3, <1>4 DEF Good, Unknown
  <1>5. CASE ~Pending(s)
    <2>1. Fine(s, x)
      BY <1>5 DEF MInv, ContentInv, Settled
    <2>2. CASE s \in asked
      BY <1>1, <1>3, <2>2 DEF Good, Unknown
    <2>3. CASE s \notin asked
      <3>1. Good(s, x)
        BY <2>1, <2>3 DEF Fine
      <3> QED BY <1>1, <1>2, <1>3, <3>1 DEF Good, Unknown
    <2> QED BY <2>2, <2>3
  <1> QED BY <1>3, <1>4, <1>5

(* In performance mode, a call cut short leaves what it did not work on.     *)
LEMMA CutPerf ==
  ASSUME TypeOK, MInv, InCall, CutShort, config' = config, Mode = "perf",
         powerFails' \in {powerFails, powerFails + 1}, pc' \in {"idle", "off"}
  PROVE  MInv'
  <1>1. /\ pc \in FitPcs \cup {"full_erase"} /\ pc \notin SavePcs \cup {"fit_clear"}
        /\ record' = NoPiece /\ asked' = {} /\ todo' = <<>> /\ i' = 0
    <2>1. record = NoPiece
      BY DEF MInv, RecordInv
    <2>2. pc \in Pcs /\ pc \notin {"off", "idle"} /\ pc \notin SavePcs \cup {"fit_clear"} \cup RecoverPcs
      BY DEF MInv, PhaseInv, InCall, TypeOK
    <2>3. pc \in FitPcs \cup {"full_erase"}
      BY <2>2 DEF Pcs
    <2> QED BY <2>1, <2>2, <2>3, CutFlash, CutShortTyped
  <1>2. cur \in Piece /\ \A s \in Fat : Home(s) \in Sector /\ Spot(s) \in Slot
    BY Bases
  <1>3. ASSUME NEW s \in Fat PROVE Good(s, Cell(s))'
    <2>1. PICK x : x = Cell(s)'
      OBVIOUS
    <2>2. x = flash'[Home(s)][Spot(s)]
      BY <2>1 DEF Cell, Home, Spot
    <2>3. CASE Home(s) = cur.base
      <3>1. CASE pc \in FitPcs
        <4>1. expected'[s] = Unknown
          BY <1>2, <2>3, <3>1, CutExpected
        <4> QED BY <4>1 DEF Good, Unknown
      <3>2. CASE pc = "full_erase"
        <4>1. GoodPiece(cur) /\ cur.kind = "full"
          BY <3>2 DEF MInv, PhaseInv, InCall
        <4>2. Covers(cur, s)
          BY <1>2, <2>3, <4>1, ConfigAssumption DEF GoodPiece, Covers, ErasedSlot, Slot
        <4>3. Good(s, x)'
          BY <4>2, CutValues DEF Pending
        <4> QED BY <2>1, <4>3 DEF Good
      <3> QED BY <1>1, <3>1, <3>2
    <2>4. CASE Home(s) # cur.base
      <3>1. flash'[Home(s)] = flash[Home(s)]
        BY <1>1, <1>2, <2>4, CutFlash DEF SavePcs
      <3>2. x = Value(s)
        BY <2>2, <2>4, <3>1 DEF Value, Cell
      <3>3. Good(s, x)'
        BY <3>2, CutValues
      <3> QED BY <2>1, <3>3 DEF Good
    <2> QED BY <2>3, <2>4
  <1> QED BY <1>1, <1>3, RestNext

(* In safety mode, a first loss of power leaves the sectors in place, or in  *)
(* the dump with a record that tells so.                                     *)
LEMMA CutSafe ==
  ASSUME TypeOK, MInv, InCall, CutShort, config' = config, Mode = "safe",
         powerFails = 0, powerFails' = 1, pc' = "off"
  PROVE  MInv'
  <1>1. /\ asked # {} /\ pc \in FitPcs \cup {"full_erase"} /\ GoodPiece(cur)
        /\ asked' = {} /\ todo' = <<>> /\ i' = 0 /\ config \in Configs
    <2>1. pc \in Pcs /\ pc \notin {"off", "idle"} /\ asked # {} /\ config \in Configs
      BY DEF MInv, PhaseInv, InCall, TypeOK
    <2>2. pc \notin RecoverPcs
      BY <2>1 DEF MInv, PhaseInv
    <2>3. pc \in FitPcs \cup {"full_erase"}
      BY <2>1, <2>2 DEF Pcs
    <2> QED BY <2>1, <2>3, CutShortTyped DEF MInv, PhaseInv
  <1>2. /\ cur \in Piece /\ cur.base \in Sector /\ dumpSector \in Sector /\ cur.base # dumpSector
        /\ \A s \in Fat : Home(s) \in Sector /\ Spot(s) \in Slot /\ Home(s) # dumpSector
    BY Bases
  <1>3. CASE pc \in {"fit_read", "full_erase"} \cup SavePcs
    <2>1. record' = NoPiece
      <3>1. record = NoPiece
        BY <1>1, <1>3 DEF MInv, RecordInv
      <3> QED BY <3>1, CutFlash
    <2>2. ASSUME NEW s \in Fat PROVE Good(s, Cell(s))'
      <3>1. PICK x : x = Cell(s)'
        OBVIOUS
      <3>2. x = flash'[Home(s)][Spot(s)]
        BY <3>1 DEF Cell, Home, Spot
      <3>3. CASE Home(s) = cur.base /\ pc = "full_erase"
        <4>1. cur.kind = "full"
          BY <3>3 DEF MInv, PhaseInv
        <4>2. Covers(cur, s)
          BY <1>1, <1>2, <3>3, <4>1, ConfigAssumption DEF GoodPiece, Covers, ErasedSlot, Slot
        <4>3. Good(s, x)'
          BY <4>2, CutValues DEF Pending
        <4> QED BY <3>1, <4>3 DEF Good
      <3>4. CASE Home(s) # cur.base \/ pc # "full_erase"
        <4>1. flash'[Home(s)] = flash[Home(s)]
          BY <1>2, <1>3, <3>4, CutFlash DEF SavePcs
        <4>2. x = Value(s)
          BY <1>3, <3>2, <4>1 DEF Value, Cell, Rewriting, SavePcs
        <4>3. Good(s, x)'
          BY <4>2, CutValues
        <4> QED BY <3>1, <4>3 DEF Good
      <3> QED BY <3>3, <3>4
    <2> QED BY <1>1, <2>1, <2>2, RestNext
  <1>4. CASE pc = "fit_clear" /\ record' = NoPiece
    <2>1. flash' = flash
      <3>1. record = cur /\ cur # NoPiece
        BY <1>1, <1>4 DEF MInv, RecordInv, GoodPiece, Piece, NoPiece
      <3> QED BY <1>4, <3>1, CutFlash
    <2>2. ASSUME NEW s \in Fat PROVE Good(s, Cell(s))'
      <3>1. PICK x : x = Cell(s)'
        OBVIOUS
      <3>2. x = Cell(s)
        BY <2>1, <3>1 DEF Cell, Home, Spot
      <3>3. IF Covers(cur, s) THEN Cell(s) = Erased ELSE Cell(s) = Value(s)
        BY <1>4, WrittenBack
      <3>4. x = Value(s) \/ Pending(s)
        BY <3>2, <3>3 DEF Pending
      <3>5. Good(s, x)'
        BY <3>4, CutValues
      <3> QED BY <3>1, <3>5 DEF Good
    <2> QED BY <1>1, <1>4, <2>2, RestNext
  <1>5. CASE pc \in {"fit_erase", "fit_write", "fit_clear"} /\ record' # NoPiece
    <2>1. record = cur /\ flash[dumpSector] = buf /\ cur.kind = "fit"
      BY <1>5 DEF MInv, RecordInv, PhaseInv, FitPcs
    <2>2. record' = cur /\ flash'[dumpSector] = buf
      BY <1>2, <1>5, <2>1, CutFlash
    <2>3. Fat' = Fat /\ Mode' = "safe" /\ dumpSector' = dumpSector /\ GoodPiece(record)'
      <3>1. GoodPiece(record') => GoodPiece(record)'
        BY Same DEF GoodPiece
      <3> QED BY <1>1, <2>2, <3>1, Same
    <2>4. ASSUME NEW s \in Fat
          PROVE  (IF Home(s) # record.base THEN Good(s, Cell(s))
                  ELSE \/ expected[s] = Unknown \/ Lost(s)
                       \/ ~ErasedSlot(record, Spot(s)) /\ Good(s, flash[dumpSector][Spot(s)]))'
      <3>1. CASE Home(s) # cur.base
        <4>1. PICK x : x = Cell(s)'
          OBVIOUS
        <4>2. flash'[Home(s)] = flash[Home(s)]
          BY <1>2, <1>5, <3>1, CutFlash
        <4>3. x = Value(s)
          BY <3>1, <4>1, <4>2 DEF Value, Cell, Home, Spot
        <4>4. Good(s, x)'
          BY <4>3, CutValues
        <4>5. Good(s, Cell(s))'
          BY <4>1, <4>4 DEF Good
        <4> QED BY <2>2, <3>1, <4>5 DEF Home
      <3>2. CASE Home(s) = cur.base
        <4>1. PICK x : x = flash[dumpSector]'[Spot(s)]
          OBVIOUS
        <4>2. x = buf[Spot(s)] /\ Value(s) = x
          BY <1>5, <2>2, <2>3, <3>2, <4>1 DEF Value, Rewriting
        <4>3. Good(s, x)' /\ (Pending(s) => (expected'[s] = Unknown \/ Lost(s)'))
          BY <4>2, CutValues
        <4>4. Good(s, flash[dumpSector][Spot(s)])'
          BY <4>1, <4>3 DEF Good, Spot
        <4>5. ErasedSlot(cur, Spot(s)) => expected'[s] = Unknown \/ Lost(s)'
          BY <3>2, <4>3 DEF Pending, Covers
        <4> QED BY <2>2, <3>2, <4>4, <4>5 DEF Home, Spot, ErasedSlot, Unknown
      <3> QED BY <3>1, <3>2
    <2>5. Rescue'
      BY <2>1, <2>2, <2>3, <2>4 DEF Rescue
    <2>6. PhaseInv'
      BY <1>1 DEF PhaseInv, InCall, FitPcs, RecoverPcs, SavePcs
    <2>7. RecordInv'
      BY <2>3 DEF RecordInv, FitPcs, RecoverPcs, SavePcs
    <2>8. ContentInv'
      BY <1>5, <2>5 DEF ContentInv, InCall, RecoverPcs, SavePcs
    <2> QED BY <2>6, <2>7, <2>8 DEF MInv
  <1>6. pc \in {"fit_read", "full_erase"} \cup SavePcs \/ pc \in {"fit_erase", "fit_write", "fit_clear"}
    BY <1>1 DEF FitPcs
  <1>7. pc \in {"fit_erase", "fit_write"} => record' # NoPiece
    <2>1. pc \in {"fit_erase", "fit_write"} => record = cur /\ cur # NoPiece
      BY <1>1 DEF MInv, RecordInv, GoodPiece, Piece, NoPiece
    <2> QED BY <2>1, CutFlash
  <1> QED BY <1>3, <1>4, <1>5, <1>6, <1>7

(* Power fails.                                                              *)
LEMMA PowerFailStep ==
  ASSUME OneLossWhenSafe, TypeOK, MInv, config' = config, PowerFail
  PROVE  MInv'
  <1>1. /\ pc # "off" /\ powerFails < MaxPowerFails /\ CutShort
        /\ pc' = "off" /\ powerFails' = powerFails + 1
    BY DEF PowerFail
  <1>2. config \in Configs /\ Mode \in {"perf", "safe"} /\ powerFails \in Nat /\ MaxPowerFails \in Nat
    BY Build DEF TypeOK
  <1>3. CASE pc = "idle"
    <2>1. asked' = {} /\ todo' = <<>> /\ i' = 0
      BY <1>1, CutShortTyped
    <2>2. flash' = flash /\ record' = record /\ record = NoPiece
      BY <1>1, <1>3 DEF CutShort, Interrupted, MInv, RecordInv
    <2>3. ASSUME NEW s \in Fat PROVE Good(s, Cell(s))'
      <3>1. PICK x : x = Cell(s)
        OBVIOUS
      <3>2. Good(s, x)
        BY <1>3, <2>2, <3>1 DEF MInv, ContentInv, InCall
      <3>3. expected'[s] = expected[s] \/ expected'[s] = Unknown
        BY <1>1, CutExpected
      <3>4. Good(s, x)'
        BY <1>1, <3>2, <3>3, StaysGood
      <3>5. Cell(s)' = x
        BY <2>2, <3>1 DEF Cell, Home, Spot
      <3> QED BY <3>4, <3>5 DEF Good
    <2> QED BY <1>1, <2>1, <2>2, <2>3, RestNext
  <1>4. CASE pc # "idle" /\ Mode = "perf"
    BY <1>1, <1>4, CutPerf DEF InCall
  <1>5. CASE pc # "idle" /\ Mode = "safe"
    <2>1. MaxPowerFails <= 1
      BY <1>2, <1>5 DEF OneLossWhenSafe, MaxPowerFails, Mode
    <2>2. powerFails = 0 /\ powerFails' = 1
      BY <1>1, <1>2, <2>1
    <2> QED BY <1>1, <1>5, <2>2, CutSafe DEF InCall
  <1> QED BY <1>2, <1>3, <1>4, <1>5

(* A call of the flash fails.                                                *)
LEMMA FaultStep ==
  ASSUME NoFaultsWhenSafe, TypeOK, MInv, config' = config, Fault
  PROVE  MInv'
  <1>1. Mode = "perf"
    BY SafeNoFault
  <1>2. InCall /\ CutShort /\ powerFails' = powerFails /\ pc' \in {"idle", "off"}
    BY DEF Fault, InCall
  <1> QED BY <1>1, <1>2, CutPerf

-------------------------------------------------------------------------------
(* Each step keeps the invariant.                                            *)
LEMMA MStep ==
  ASSUME NoFaultsWhenSafe, OneLossWhenSafe, TypeOK, MInv, Next
  PROVE  MInv'
  <1>1. config' = config
    BY DEF Next
  <1>2. CASE Mount
    BY <1>1, <1>2, MountStep
  <1>3. CASE Unmount
    BY <1>1, <1>3, UnmountStep
  <1>4. ASSUME NEW s \in Fat, NEW v \in Values, Write(s, v) PROVE MInv'
    BY <1>1, <1>4, WriteStep
  <1>5. ASSUME NEW s \in Fat, NEW n \in 1 .. UserSectors * SizeFactor, EraseRange(s, n) PROVE MInv'
    BY <1>1, <1>5, EraseStep
  <1>6. CASE Step
    <2>1. CASE FullErase
      BY <1>1, <2>1, FullEraseStep
    <2>2. CASE FitRead
      BY <1>1, <2>2, FitReadStep
    <2>3. CASE Save
      BY <1>1, <2>3, SaveStep
    <2>4. CASE EraseBase
      BY <1>1, <2>4, EraseBaseStep
    <2>5. CASE WriteBack
      BY <1>1, <2>5, WriteBackStep
    <2>6. CASE FitWritten
      BY <1>1, <2>6, FitWrittenStep
    <2>7. CASE FitClear
      BY <1>1, <2>7, FitClearStep
    <2>8. CASE RecoverClear
      BY <1>1, <2>8, RecoverClearStep
    <2> QED BY <1>6, <2>1, <2>2, <2>3, <2>4, <2>5, <2>6, <2>7, <2>8 DEF Step
  <1>7. CASE PowerFail
    BY <1>1, <1>7, PowerFailStep
  <1>8. CASE Fault
    BY <1>1, <1>8, FaultStep
  <1> QED BY <1>2, <1>3, <1>4, <1>5, <1>6, <1>7, <1>8 DEF Next

(* Whenever a call can be made, every FAT sector but the one recover()       *)
(* erases by mistake holds what the completed calls left in it: whatever the *)
(* size of the partition and the ratio of the sector sizes, however often    *)
(* power and the flash fail in performance mode, and after a loss of power   *)
(* in safety mode.                                                           *)
THEOREM AlwaysKeepsOtherData ==
  ASSUME NoFaultsWhenSafe, OneLossWhenSafe
  PROVE  Spec => []KeepsOtherData
  <1>1. Init => MInv
    <2> SUFFICES ASSUME Init PROVE MInv
      OBVIOUS
    <2>1. PhaseInv
      BY DEF Init, PhaseInv, InCall, FitPcs, RecoverPcs, SavePcs
    <2>2. RecordInv
      BY DEF Init, RecordInv, FitPcs, RecoverPcs, SavePcs
    <2>3. ASSUME NEW s \in Fat PROVE Good(s, Cell(s))
      <3>1. config \in Configs
        BY DEF Init
      <3>2. Home(s) \in Sector /\ Spot(s) \in Slot
        BY <3>1, FatPlace
      <3>3. flash[Home(s)] = Blank /\ expected[s] = Erased
        BY <3>2 DEF Init
      <3>4. Cell(s) = Erased
        BY <3>2, <3>3, Blanks DEF Cell
      <3> QED BY <3>3, <3>4 DEF Good
    <2>4. ContentInv
      BY <2>3 DEF Init, ContentInv, InCall, RecoverPcs, SavePcs
    <2> QED BY <2>1, <2>2, <2>4 DEF MInv
  <1>2. TypeOK /\ MInv /\ [Next]_vars => MInv'
    <2> SUFFICES ASSUME TypeOK, MInv, [Next]_vars PROVE MInv'
      OBVIOUS
    <2>1. CASE Next
      BY <2>1, MStep
    <2>2. CASE UNCHANGED vars
      <3>1. /\ config' = config
            /\ UNCHANGED <<flash, record, buf, pc, cur, todo, i, asked, expected, powerFails, faults>>
        BY <2>2 DEF vars
      <3> QED BY <3>1 DEF MInv, PhaseInv, RecordInv, ContentInv, Rescue, InCall, GoodPiece, Pending,
                Free, Settled, Fine, Good, Lost, Value, Cell, Covers, Home, Spot, ErasedSlot, Piece,
                Slot, Sector, Fat, UserSectors, ChipSectors, Mode, dumpSector, stateSector, Rewriting,
                SavePcs, RecoverPcs, FitPcs, NoPiece, Unknown, Erased
    <2> QED BY <2>1, <2>2
  <1>3. MInv => KeepsOtherData
    <2> SUFFICES ASSUME MInv, pc = "idle", NEW s \in Fat
                 PROVE  Holds(s) \/ (Mode = "safe" /\ powerFails > 0 /\ s = stateSector)
      BY DEF KeepsOtherData
    <2>1. Good(s, Cell(s))
      BY DEF MInv, RecordInv, ContentInv, InCall
    <2> QED BY <2>1 DEF Good, Lost, Cell, Home, Spot, Holds
  <1> QED BY <1>1, <1>2, <1>3, TypeCorrect, PTL DEF Spec
===============================================================================
