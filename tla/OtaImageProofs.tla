---------------------------- MODULE OtaImageProofs ----------------------------
(***************************************************************************)
(* Proofs about OtaImage, for any sizes of sectors, blocks and partitions:   *)
(* the image arrives in the partition as it was sent.                        *)
(***************************************************************************)
EXTENDS OtaImage, FiniteSetTheorems, SequenceTheorems, TLAPS

(* A part of the stream that starts at unit w, with units taken from S.      *)
Part(s, w, S) == s \in Seq(S) /\ \A k \in 1 .. Len(s) : s[k] = w + k - 1

(* The end of the sector w is in; w itself at the end of one.                *)
Ceil(w) == IF w % Sector = 0 THEN w ELSE (w \div Sector + 1) * Sector

(* A handle to which the stream is written: what was written is the          *)
(* beginning of the stream, what is kept is the next part of it, and the     *)
(* flash after it is erased, when sectors are erased as they are reached up  *)
(* to the end of the sector.                                                 *)
Streamed ==
  /\ sent = wrote + Len(partial)
  /\ Part(partial, wrote, Units)
  /\ \A u \in 0 .. wrote - 1 : flash[u] = u
  /\ Encrypted => wrote % Block = 0
  /\ \A u \in Units : u >= wrote /\ (Sequential => u < Ceil(wrote)) => flash[u] = Blank

(* A handle to which packets are written at offsets.                         *)
Scattered ==
  /\ ~Sequential /\ sent = 0 /\ partial = <<>> /\ wrote = Cardinality(placed)
  /\ \A u \in Units : flash[u] = IF u \in placed THEN u ELSE Blank

HandleInv ==
  /\ open => (placed = {} /\ Streamed) \/ (placed # {} /\ Scattered)
  /\ result = "ENDED" => ~open

IInv == TypeOK /\ HandleInv

(* Images that need no last block written from the handle, when sectors are  *)
(* erased ahead of encrypted data.                                           *)
PaddedWhereNeeded == \A c \in Configs : c.sequential /\ c.encrypted => c.padded

(* Images that leave a unit of the partition, when sectors are erased ahead. *)
UnitToSpare == \A c \in Configs : c.sequential => c.maxImage < Sector * c.sectors

-------------------------------------------------------------------------------
(* A quotient and its remainder.                                             *)
LEMMA Division ==
  ASSUME NEW m \in Int, NEW d \in Int, d > 0
  PROVE  m \div d \in Int /\ m % d \in 0 .. d - 1 /\ m = d * (m \div d) + (m % d)
  <1>1. m \div d \in Int /\ m % d \in 0 .. d - 1
    BY Z3
  <1>2. m = d * (m \div d) + (m % d)
    BY Z3
  <1> QED BY <1>1, <1>2

(* x is a multiple of d.                                                     *)
Multiple(x, d) == \E q \in Int : x = d * q

(* The number just before a multiple, and other sums.                        *)
LEMMA MultipleSum ==
  ASSUME NEW d \in Int, d > 0, NEW x, NEW y, Multiple(x, d), Multiple(y, d)
  PROVE  /\ x \in Int /\ y \in Int /\ Multiple(x + y, d) /\ Multiple(x - y, d) /\ Multiple(d, d)
         /\ x < y => x + d <= y
  <1>1. PICK q \in Int : x = d * q
    BY DEF Multiple
  <1>2. PICK r \in Int : y = d * r
    BY DEF Multiple
  <1>3. /\ x + y = d * (q + r) /\ x - y = d * (q - r) /\ x \in Int /\ y \in Int /\ d = d * 1
    BY <1>1, <1>2
  <1>4. q + r \in Int /\ q - r \in Int
    OBVIOUS
  <1>5. ASSUME x < y PROVE x + d <= y
    <2>1. q < r
      <3> SUFFICES ASSUME r <= q PROVE FALSE
        OBVIOUS
      <3>1. d * r <= d * q
        OBVIOUS
      <3> QED BY <1>1, <1>2, <1>3, <1>5, <3>1
    <2>2. d * (q + 1) <= d * r
      BY <2>1
    <2>3. d * (q + 1) = d * q + d
      OBVIOUS
    <2> QED BY <1>1, <1>2, <2>2, <2>3
  <1>6. Multiple(x + y, d)
    BY <1>3, <1>4 DEF Multiple
  <1>7. Multiple(x - y, d)
    BY <1>3, <1>4 DEF Multiple
  <1>8. Multiple(d, d)
    <2> SUFFICES \E q1 \in Int : d = d * q1
      BY DEF Multiple
    <2> WITNESS 1 \in Int
    <2> QED BY <1>3
  <1> QED BY <1>3, <1>5, <1>6, <1>7, <1>8

(* A number without its remainder is a multiple; a multiple has none.        *)
LEMMA MultipleRest ==
  ASSUME NEW d \in Int, d > 0, NEW x \in Int
  PROVE  Multiple(x - (x % d), d) /\ (x % d = 0 <=> Multiple(x, d)) /\ x % d \in 0 .. d - 1
  <1>1. PICK q, r : q = x \div d /\ r = x % d
    OBVIOUS
  <1>2. q \in Int /\ r \in 0 .. d - 1 /\ x = d * q + r
    BY <1>1, Division
  <1>3. d * q \in Int
    BY <1>2
  <1>4. x - r = d * q
    BY <1>2, <1>3
  <1>5. Multiple(x - r, d)
    BY <1>2, <1>4 DEF Multiple
  <1>6. r = 0 => Multiple(x, d)
    BY <1>2, <1>3, <1>5
  <1>7. ASSUME Multiple(x, d) PROVE r = 0
    <2>1. PICK a : a = x - r
      OBVIOUS
    <2>2. a \in Int /\ (a < x => a + d <= x)
      BY <1>5, <1>7, <2>1, MultipleSum
    <2> QED BY <1>2, <2>1, <2>2
  <1> QED BY <1>1, <1>2, <1>5, <1>6, <1>7

-------------------------------------------------------------------------------
(* What is known of a configuration.                                         *)
LEMMA Build ==
  ASSUME config \in Configs
  PROVE  /\ Sector \in Int /\ Sector > 0 /\ Block \in Int /\ Block > 0 /\ Multiple(Sector, Block)
         /\ Size \in Nat /\ Size > 0 /\ Multiple(Size, Sector) /\ Multiple(Size, Block)
         /\ MaxImage \in 0 .. Size /\ MaxWrite \in Nat /\ Units = 0 .. Size - 1
         /\ {Encrypted, Sequential, Padded} \subseteq BOOLEAN
  <1>1. /\ Sector \in Int /\ Sector > 0 /\ Block \in Int /\ Block > 0 /\ Sector % Block = 0
        /\ Sectors \in Int /\ Sectors > 0 /\ MaxWrite \in Nat
        /\ {Encrypted, Sequential, Padded} \subseteq BOOLEAN
        /\ MaxImage \in 0 .. Size
    BY ImageAssumption DEF Sectors, MaxImage, MaxWrite, Encrypted, Sequential, Padded, Size
  <1>2. Size \in Int /\ Size > 0
    <2>1. Sector * Sectors \in Int /\ Sector * Sectors > 0
      BY <1>1
    <2> QED BY <2>1 DEF Size
  <1>3. Multiple(Size, Sector)
    BY <1>1 DEF Multiple, Size
  <1>4. Multiple(Sector, Block)
    BY <1>1, MultipleRest
  <1>5. Multiple(Size, Block)
    <2>1. PICK q \in Int : Sector = Block * q
      BY <1>4 DEF Multiple
    <2>2. Size = Block * (q * Sectors) /\ q * Sectors \in Int
      BY <1>1, <2>1 DEF Size
    <2> QED BY <2>2 DEF Multiple
  <1> QED BY <1>1, <1>2, <1>3, <1>4, <1>5 DEF Units

(* The end of the last sector esp_ota_write erases for size more units.      *)
EraseEnd(w, size) == ((w + size) \div Sector + 1) * Sector

(* The least multiple not below w.                                           *)
LEMMA CeilFacts ==
  ASSUME Sector \in Int, Sector > 0, NEW w \in Nat
  PROVE  /\ Ceil(w) \in Nat /\ w <= Ceil(w) /\ Multiple(Ceil(w), Sector)
         /\ \A e : Multiple(e, Sector) /\ w <= e => Ceil(w) <= e
  <1>1. PICK q, r : q = w \div Sector /\ r = w % Sector
    OBVIOUS
  <1>2. q \in Int /\ r \in 0 .. Sector - 1 /\ w = Sector * q + r
    BY <1>1, Division
  <1>3. PICK x : x = Sector * q
    OBVIOUS
  <1>4. x \in Int /\ w = x + r /\ (q + 1) * Sector = x + Sector /\ Multiple(x, Sector)
    BY <1>2, <1>3 DEF Multiple
  <1>5. Ceil(w) = IF r = 0 THEN x ELSE x + Sector
    BY <1>1, <1>2, <1>4 DEF Ceil
  <1>6. Multiple(x + Sector, Sector)
    BY <1>4, MultipleSum
  <1>7. ASSUME NEW e, Multiple(e, Sector), w <= e PROVE Ceil(w) <= e
    <2>1. e \in Int /\ (x < e => x + Sector <= e)
      BY <1>4, <1>7, MultipleSum
    <2> QED BY <1>2, <1>4, <1>5, <1>7, <2>1
  <1>8. Ceil(w) \in Nat /\ w <= Ceil(w) /\ Multiple(Ceil(w), Sector)
    BY <1>2, <1>4, <1>5, <1>6
  <1> QED BY <1>7, <1>8

(* Both cases of esp_ota_write erase from the end of the sector it is in to  *)
(* the end of the one that the new data reaches.                             *)
LEMMA EraseFacts ==
  ASSUME Sector \in Int, Sector > 0, wrote \in Nat, NEW size \in Nat
  PROVE  /\ EraseFrom = Ceil(wrote)
         /\ EraseEnd(wrote, size) \in Nat /\ Multiple(EraseEnd(wrote, size), Sector)
         /\ wrote + size < EraseEnd(wrote, size) /\ EraseEnd(wrote, size) <= wrote + size + Sector
         /\ Ceil(wrote) <= EraseEnd(wrote, size)
         /\ EraseSize(size) = EraseEnd(wrote, size) - Ceil(wrote)
  <1>1. PICK q, r, p, s : /\ q = wrote \div Sector /\ r = wrote % Sector
                          /\ p = (wrote + size) \div Sector /\ s = (wrote + size) % Sector
    OBVIOUS
  <1>2. /\ q \in Int /\ r \in 0 .. Sector - 1 /\ wrote = Sector * q + r
        /\ p \in Int /\ s \in 0 .. Sector - 1 /\ wrote + size = Sector * p + s
    <2>1. wrote + size \in Int /\ wrote \in Int
      OBVIOUS
    <2>2. q \in Int /\ r \in 0 .. Sector - 1 /\ wrote = Sector * q + r
      BY <1>1, <2>1, Division
    <2>3. p \in Int /\ s \in 0 .. Sector - 1 /\ wrote + size = Sector * p + s
      BY <1>1, <2>1, Division
    <2> QED BY <2>2, <2>3
  <1>3. PICK x, y : x = Sector * q /\ y = Sector * p
    OBVIOUS
  <1>4. /\ x \in Int /\ y \in Int /\ wrote = x + r /\ wrote + size = y + s
        /\ (q + 1) * Sector = x + Sector /\ (p + 1) * Sector = y + Sector
        /\ (p - q) * Sector = y - x /\ (p - q + 1) * Sector = y - x + Sector
    BY <1>2, <1>3
  <1>5. EraseFrom = Ceil(wrote)
    BY DEF EraseFrom, Ceil
  <1>6. Ceil(wrote) = IF r = 0 THEN x ELSE x + Sector
    BY <1>1, <1>2, <1>4 DEF Ceil
  <1>7. EraseEnd(wrote, size) = y + Sector
    BY <1>1, <1>4 DEF EraseEnd
  <1>8. EraseSize(size) = IF r = 0 THEN y - x + Sector ELSE y - x
    BY <1>1, <1>4 DEF EraseSize
  <1>9. Multiple(y, Sector) /\ Multiple(y + Sector, Sector)
    <2>1. Multiple(y, Sector)
      BY <1>2, <1>3 DEF Multiple
    <2> QED BY <2>1, MultipleSum
  <1>10. Ceil(wrote) <= y + Sector
    <2>1. wrote <= y + Sector
      BY <1>2, <1>4
    <2> QED BY <1>9, <2>1, CeilFacts
  <1>11. y + Sector \in Nat /\ wrote + size < y + Sector /\ y + Sector <= wrote + size + Sector
    BY <1>2, <1>4
  <1>12. EraseSize(size) = (y + Sector) - Ceil(wrote)
    BY <1>2, <1>4, <1>6, <1>8
  <1>13. PICK e : e = y + Sector
    OBVIOUS
  <1> QED BY <1>5, <1>7, <1>9, <1>10, <1>11, <1>12, <1>13

-------------------------------------------------------------------------------
(* What esp_ota_write has, what it writes and what it keeps.                 *)
Joint(kept, from, size) == kept \o Stream(from, size)
First(data, n) == SubSeq(data, 1, n)
Rest(data, n) == SubSeq(data, n + 1, Len(data))

(* All the units of the stream from unit from on, size of them.              *)
Within(from, size, S) == \A k \in 1 .. size : from + k - 1 \in S

(* The units kept in the handle and the next ones are a part of the stream.  *)
LEMMA Joined ==
  ASSUME NEW w \in Nat, NEW size \in Nat, NEW S, NEW kept, Part(kept, w, S),
         NEW sum, sum = w + Len(kept), Within(sum, size, S),
         NEW data, data = Joint(kept, sum, size)
  PROVE  Part(data, w, S) /\ Len(data) = Len(kept) + size
  <1>1. kept \in Seq(S) /\ \A k \in 1 .. Len(kept) : kept[k] = w + k - 1
    BY DEF Part
  <1>2. PICK m : m = Len(kept)
    OBVIOUS
  <1>3. m \in Nat
    BY <1>1, <1>2, LenProperties
  <1>4. PICK next : next = Stream(sum, size)
    OBVIOUS
  <1>5. next \in Seq(S) /\ Len(next) = size /\ \A k \in 1 .. size : next[k] = sum + k - 1
    BY <1>4 DEF Stream, Within
  <1>6. /\ kept \o next \in Seq(S) /\ Len(kept \o next) = Len(kept) + Len(next)
        /\ \A i \in 1 .. Len(kept) + Len(next) :
             (kept \o next)[i] = IF i <= Len(kept) THEN kept[i] ELSE next[i - Len(kept)]
    BY <1>1, <1>5, ConcatProperties, Zenon
  <1>7. /\ data \in Seq(S) /\ Len(data) = m + size
        /\ \A i \in 1 .. m + size : data[i] = IF i <= m THEN kept[i] ELSE next[i - m]
    BY <1>2, <1>4, <1>5, <1>6, Zenon DEF Joint
  <1>8. ASSUME NEW k \in 1 .. m + size PROVE data[k] = w + k - 1
    <2>1. CASE k <= m
      <3>1. k \in 1 .. m
        BY <1>3, <2>1
      <3> QED BY <1>1, <1>2, <1>7, <2>1, <3>1
    <2>2. CASE ~(k <= m)
      <3>1. k - m \in 1 .. size /\ sum + (k - m) - 1 = w + k - 1
        BY <1>2, <1>3, <2>2
      <3>2. data[k] = next[k - m]
        BY <1>7, <2>2, Zenon
      <3>3. next[k - m] = sum + (k - m) - 1
        BY <1>5, <3>1, Zenon
      <3> QED BY <3>1, <3>2, <3>3
    <2> QED BY <2>1, <2>2
  <1> QED BY <1>2, <1>7, <1>8 DEF Part

(* The beginning and the rest of a part of the stream.                       *)
LEMMA Cut ==
  ASSUME NEW w \in Nat, NEW S, NEW data, Part(data, w, S),
         NEW n \in Nat, n <= Len(data),
         NEW head, head = First(data, n), NEW rest, rest = Rest(data, n)
  PROVE  Part(head, w, S) /\ Len(head) = n
         /\ Part(rest, w + n, S) /\ Len(rest) = Len(data) - n
  <1>1. data \in Seq(S) /\ \A k \in 1 .. Len(data) : data[k] = w + k - 1
    BY DEF Part
  <1>2. PICK m : m = Len(data)
    OBVIOUS
  <1>3. m \in Nat /\ n <= m /\ \A k \in 1 .. m : data[k] \in S
    BY <1>1, <1>2, LenProperties
  <1>4. /\ \A i \in 1 .. n : data[i] \in S
        /\ \A i \in n + 1 .. m : data[i] \in S
    BY <1>3
  <1>5. /\ head \in Seq(S) /\ Len(head) = (IF 1 <= n THEN n - 1 + 1 ELSE 0)
        /\ \A i \in 1 .. n - 1 + 1 : head[i] = data[1 + i - 1]
    BY <1>4, SubSeqProperties DEF First
  <1>6. Len(head) = n
    BY <1>5
  <1>7. \A k \in 1 .. n : head[k] = w + k - 1
    <2> TAKE k \in 1 .. n
    <2>1. k \in 1 .. m /\ k \in 1 .. n - 1 + 1 /\ 1 + k - 1 = k
      BY <1>3
    <2> QED BY <1>1, <1>2, <1>5, <2>1
  <1>8. rest = SubSeq(data, n + 1, m) /\ n + 1 \in Int /\ m \in Int
    BY <1>2, <1>3 DEF Rest
  <1>9. /\ rest \in Seq(S) /\ Len(rest) = (IF n + 1 <= m THEN m - (n + 1) + 1 ELSE 0)
        /\ \A i \in 1 .. m - (n + 1) + 1 : rest[i] = data[(n + 1) + i - 1]
    BY <1>4, <1>8, SubSeqProperties
  <1>10. Len(rest) = m - n
    BY <1>3, <1>9
  <1>11. \A k \in 1 .. m - n : rest[k] = (w + n) + k - 1
    <2> TAKE k \in 1 .. m - n
    <2>1. /\ k \in 1 .. m - (n + 1) + 1 /\ n + k \in 1 .. m /\ (n + 1) + k - 1 = n + k
          /\ w + (n + k) - 1 = (w + n) + k - 1
      BY <1>3
    <2>2. rest[k] = data[n + k]
      BY <1>9, <2>1
    <2> QED BY <1>1, <1>2, <2>1, <2>2
  <1> QED BY <1>2, <1>5, <1>6, <1>7, <1>9, <1>10, <1>11 DEF Part

(* A remainder is not above the number.                                      *)
LEMMA RestBelow ==
  ASSUME NEW m \in Nat, NEW d \in Int, d > 0
  PROVE  m % d <= m
  <1>1. PICK q, r : q = m \div d /\ r = m % d
    OBVIOUS
  <1>2. q \in Int /\ r \in 0 .. d - 1 /\ m = d * q + r
    BY <1>1, Division
  <1>3. q >= 0
    <2> SUFFICES ASSUME q <= -1 PROVE FALSE
      BY <1>2
    <2>1. d * q <= -d /\ d * q \in Int
      BY <1>2
    <2> QED BY <1>2, <2>1
  <1>4. d * q >= 0 /\ d * q \in Int
    BY <1>2, <1>3
  <1>5. r <= m
    BY <1>2, <1>4
  <1> QED BY <1>1, <1>5

(* The units esp_ota_write writes now and those it keeps: together the ones  *)
(* of the stream that come next.                                             *)
LEMMA AppendFacts ==
  ASSUME TypeOK, Streamed, NEW size \in Nat, sent + size <= MaxImage,
         NEW data, data = Joint(partial, sent, size),
         NEW n, n = Len(data) - Keep(data),
         NEW head, head = First(data, n), NEW rest, rest = Rest(data, n)
  PROVE  /\ n \in Nat /\ wrote + n <= Size /\ sent + size = wrote + n + Len(rest)
         /\ Part(head, wrote, Units) /\ Len(head) = n
         /\ Part(rest, wrote + n, Units) /\ Len(rest) < Block
         /\ IF Encrypted THEN (wrote + n) % Block = 0 ELSE rest = <<>>
  <1>1. /\ wrote \in Nat /\ sent \in Nat /\ (~Encrypted => partial = <<>>)
        /\ partial \in Seq(Units) /\ sent = wrote + Len(partial) /\ Part(partial, wrote, Units)
        /\ (Encrypted => wrote % Block = 0)
    BY Build DEF TypeOK, Streamed
  <1>2. /\ Block \in Int /\ Block > 0 /\ Size \in Nat /\ MaxImage \in 0 .. Size
        /\ Units = 0 .. Size - 1 /\ Encrypted \in BOOLEAN
    BY Build DEF TypeOK
  <1>3. PICK w, sum, top, block, old : /\ w = wrote /\ sum = sent /\ top = Size /\ block = Block
                                       /\ old = Len(partial)
    OBVIOUS
  <1>4. /\ w \in Nat /\ old \in Nat /\ sum = w + old /\ top \in Nat /\ sum + size <= top
        /\ block \in Int /\ block > 0
    <2>1. old \in Nat
      BY <1>1, <1>3, LenProperties
    <2> QED BY <1>1, <1>2, <1>3, <2>1
  <1>5. Within(sum, size, Units)
    <2>1. \A k \in 1 .. size : sum + k - 1 \in 0 .. top - 1
      BY <1>4
    <2> QED BY <1>2, <1>3, <2>1 DEF Within
  <1>6. Part(data, w, Units) /\ Len(data) = Len(partial) + size
    <2>1. PICK kept, S : kept = partial /\ S = Units
      OBVIOUS
    <2>2. /\ Part(kept, w, S) /\ sum = w + Len(kept) /\ data = Joint(kept, sum, size)
          /\ Within(sum, size, S)
      BY <1>1, <1>3, <1>5, <2>1
    <2>3. w \in Nat
      BY <1>4
    <2>4. Part(data, w, S) /\ Len(data) = Len(kept) + size
      BY <2>2, <2>3, Joined
    <2> QED BY <2>1, <2>4
  <1>7. PICK len, keep : len = Len(data) /\ keep = Keep(data)
    OBVIOUS
  <1>8. len = old + size /\ len \in Nat
    BY <1>3, <1>4, <1>6, <1>7
  <1>9. keep = (IF Encrypted THEN len % block ELSE 0) /\ n = len - keep
    BY <1>3, <1>7 DEF Keep
  <1>10. keep \in 0 .. block - 1 /\ keep <= len
    <2>1. len % block \in 0 .. block - 1 /\ len % block <= len
      <3>1. len \in Int /\ block \in Int /\ block > 0
        BY <1>4, <1>8
      <3>2. len % block \in 0 .. block - 1
        BY <3>1, MultipleRest
      <3> QED BY <1>8, <3>1, <3>2, RestBelow
    <2> QED BY <1>4, <1>8, <1>9, <2>1
  <1>11. n \in Nat /\ n <= len
    BY <1>8, <1>9, <1>10
  <1>12. /\ Part(head, w, Units) /\ Len(head) = n
         /\ Part(rest, w + n, Units) /\ Len(rest) = Len(data) - n
    <2>1. w \in Nat /\ n \in Nat /\ n <= Len(data)
      BY <1>4, <1>7, <1>11
    <2>2. PICK S : S = Units
      OBVIOUS
    <2>3. Part(data, w, S)
      BY <1>6, <2>2
    <2>4. /\ Part(head, w, S) /\ Len(head) = n
          /\ Part(rest, w + n, S) /\ Len(rest) = Len(data) - n
      BY <2>1, <2>3, Cut
    <2> QED BY <2>2, <2>4
  <1>13. Len(rest) = keep
    BY <1>7, <1>8, <1>9, <1>10, <1>12
  <1>14. ~Encrypted => rest = <<>>
    <2> SUFFICES ASSUME ~Encrypted PROVE rest = <<>>
      OBVIOUS
    <2>1. Len(rest) = 0 /\ rest \in Seq(Units)
      BY <1>9, <1>12, <1>13 DEF Part
    <2> QED BY <2>1, EmptySeq
  <1>15. Encrypted => (wrote + n) % Block = 0
    <2> SUFFICES ASSUME Encrypted PROVE (w + n) % block = 0
      BY <1>3
    <2>1. Multiple(w, block)
      BY <1>1, <1>3, <1>4, MultipleRest
    <2>2. Multiple(n, block)
      <3>1. n = len - (len % block) /\ len \in Int
        BY <1>8, <1>9
      <3> QED BY <1>4, <3>1, MultipleRest
    <2>3. Multiple(w + n, block) /\ w + n \in Int
      BY <1>4, <1>11, <2>1, <2>2, MultipleSum
    <2> QED BY <1>4, <2>3, MultipleRest
  <1>16. w + n <= top /\ sum + size = w + n + keep /\ keep < block
    <2>1. /\ w \in Nat /\ old \in Nat /\ sum = w + old /\ top \in Nat /\ sum + size <= top
          /\ block \in Int /\ len = old + size /\ n = len - keep /\ keep \in 0 .. block - 1
          /\ keep <= len
      BY <1>4, <1>8, <1>9, <1>10
    <2> QED BY <2>1
  <1> QED BY <1>2, <1>3, <1>11, <1>12, <1>13, <1>14, <1>15, <1>16

(* What the flash may hold.                                                  *)
Contents == [Units -> Units \cup {Old, Blank, Spoilt}]

(* Erasing and writing leave contents.                                       *)
LEMMA WriteTyped ==
  ASSUME config \in Configs, NEW f \in Contents, NEW w \in Nat, NEW data \in Seq(Units),
         NEW g, g = WriteUnits(f, w, data)
  PROVE  g \in Contents
  <1>1. PICK m : m = Len(data)
    OBVIOUS
  <1>2. m \in Nat /\ \A k \in 1 .. m : data[k] \in Units
    BY <1>1, LenProperties
  <1>3. Units \subseteq Int
    BY Build
  <1>4. g = [u \in Units |-> IF u \in w .. w + m - 1
                             THEN IF f[u] = Blank THEN data[u - w + 1] ELSE Spoilt
                             ELSE f[u]]
    BY <1>1 DEF WriteUnits
  <1>5. ASSUME NEW u \in Units PROVE g[u] \in Units \cup {Old, Blank, Spoilt}
    <2>1. u \in w .. w + m - 1 => u - w + 1 \in 1 .. m
      BY <1>2, <1>3
    <2> QED BY <1>2, <1>4, <2>1 DEF Contents
  <1> QED BY <1>4, <1>5 DEF Contents

(* Erasing and writing leave contents.                                       *)
LEMMA EraseTyped ==
  ASSUME NEW f \in Contents, NEW from, NEW size
  PROVE  EraseRange(f, from, size) \in Contents
  BY DEF EraseRange, Contents

(* Writing a part of the stream on erased flash puts it there and changes    *)
(* nothing else.                                                             *)
LEMMA WriteFacts ==
  ASSUME config \in Configs, NEW f, NEW w \in Nat, NEW data, Part(data, w, Units),
         NEW n, n = Len(data), \A u \in Units : w <= u /\ u < w + n => f[u] = Blank,
         NEW g, g = WriteUnits(f, w, data)
  PROVE  /\ \A u \in Units : w <= u /\ u < w + n => g[u] = u
         /\ \A u \in Units : ~(w <= u /\ u < w + n) => g[u] = f[u]
  <1>2. n \in Nat /\ \A k \in 1 .. n : data[k] = w + k - 1
    BY LenProperties DEF Part
  <1>3. Units \subseteq Int
    BY Build
  <1>4. g = [u \in Units |-> IF u \in w .. w + n - 1
                             THEN IF f[u] = Blank THEN data[u - w + 1] ELSE Spoilt
                             ELSE f[u]]
    BY DEF WriteUnits
  <1>5. ASSUME NEW u \in Units, w <= u, u < w + n PROVE g[u] = u
    <2>1. u \in w .. w + n - 1 /\ u - w + 1 \in 1 .. n /\ w + (u - w + 1) - 1 = u
      BY <1>2, <1>3, <1>5
    <2>2. f[u] = Blank
      BY <1>5
    <2>3. g[u] = data[u - w + 1]
      BY <1>4, <2>1, <2>2
    <2> QED BY <1>2, <2>1, <2>3
  <1>6. ASSUME NEW u \in Units, ~(w <= u /\ u < w + n) PROVE g[u] = f[u]
    <2>1. u \notin w .. w + n - 1
      BY <1>2, <1>3, <1>6
    <2> QED BY <1>4, <2>1
  <1> QED BY <1>5, <1>6

(* Erasing ahead: after it the flash is erased from what was written to the  *)
(* end of the sector the new data reaches.                                   *)
ErasedTo(f, e) == \A u \in Units : u >= wrote /\ (Sequential => u < e) => f[u] = Blank

(* What the flash is when esp_ota_write has erased ahead.                    *)
Erased(size) ==
  IF Sequential /\ EraseSize(size) > 0 THEN EraseRange(flash, EraseFrom, EraseSize(size)) ELSE flash

(* Erasing ahead keeps what was written.                                     *)
LEMMA EraseAhead ==
  ASSUME TypeOK, Streamed, NEW size \in Nat, NEW f, f = Erased(size),
         NEW e, e = EraseEnd(wrote, size)
  PROVE  /\ f \in Contents /\ ErasedTo(f, e)
         /\ \A u \in Units : u < wrote => f[u] = flash[u]
  <1>1. /\ Sector \in Int /\ Sector > 0 /\ wrote \in Nat /\ Units \subseteq Int
        /\ flash \in Contents /\ Sequential \in BOOLEAN
    BY Build DEF TypeOK, Contents
  <1>2. PICK w, from, gap : w = wrote /\ from = Ceil(wrote) /\ gap = EraseSize(size)
    OBVIOUS
  <1>3. /\ EraseFrom = from /\ e \in Nat /\ w + size < e /\ from <= e /\ gap = e - from
    BY <1>1, <1>2, EraseFacts
  <1>4. from \in Nat /\ w <= from
    BY <1>1, <1>2, CeilFacts
  <1>5. \A u \in Units : u >= w /\ (Sequential => u < from) => flash[u] = Blank
    BY <1>2 DEF Streamed
  <1>6. CASE Sequential /\ gap > 0
    <2>1. f = EraseRange(flash, from, gap)
      BY <1>2, <1>3, <1>6 DEF Erased
    <2>2. f = [u \in Units |-> IF u \in from .. from + gap - 1 THEN Blank ELSE flash[u]]
      BY <2>1 DEF EraseRange
    <2>3. \A u \in Units : u >= w /\ u < e => f[u] = Blank
      <3> SUFFICES ASSUME NEW u \in Units, u >= w, u < e PROVE f[u] = Blank
        OBVIOUS
      <3>1. CASE u < from
        BY <1>1, <1>2, <1>3, <1>4, <1>5, <2>2, <3>1
      <3>2. CASE ~(u < from)
        <4>1. u \in from .. from + gap - 1
          BY <1>1, <1>3, <1>4, <3>2
        <4> QED BY <2>2, <4>1
      <3> QED BY <3>1, <3>2
    <2>4. \A u \in Units : u < w => f[u] = flash[u]
      <3> SUFFICES ASSUME NEW u \in Units, u < w PROVE f[u] = flash[u]
        OBVIOUS
      <3>1. u \notin from .. from + gap - 1
        BY <1>1, <1>2, <1>3, <1>4
      <3> QED BY <2>2, <3>1
    <2>5. f \in Contents
      BY <1>1, <2>1, EraseTyped
    <2> QED BY <1>2, <1>6, <2>3, <2>4, <2>5 DEF ErasedTo
  <1>7. CASE ~(Sequential /\ gap > 0)
    <2>1. f = flash
      BY <1>2, <1>7 DEF Erased
    <2>2. Sequential => e = from
      BY <1>3, <1>4, <1>7
    <2> QED BY <1>1, <1>2, <1>5, <2>1, <2>2 DEF ErasedTo
  <1> QED BY <1>6, <1>7

(* The new data ends where the flash is erased, and so does its sector.      *)
LEMMA ReachedErased ==
  ASSUME config \in Configs, NEW w \in Nat, NEW size \in Nat, NEW e, Multiple(e, Sector),
         w + size < e, NEW n \in Nat,
         IF Encrypted THEN (w + n) % Block = 0 /\ n < size + Block ELSE n = size
  PROVE  w + n <= e /\ Ceil(w + n) <= e
  <1>1. /\ Sector \in Int /\ Sector > 0 /\ Block \in Int /\ Block > 0 /\ Multiple(Sector, Block)
    BY Build
  <1>2. e \in Int
    BY <1>1, MultipleSum
  <1>3. PICK x : x = w + n
    OBVIOUS
  <1>4. x \in Nat
    BY <1>3
  <1>5. x <= e
    <2>1. CASE Encrypted
      <3>1. Multiple(x, Block)
        BY <1>1, <1>3, <1>4, <2>1, MultipleRest
      <3>2. Multiple(e, Block)
        <4>1. PICK q \in Int : e = Sector * q
          BY DEF Multiple
        <4>2. PICK r \in Int : Sector = Block * r
          BY <1>1 DEF Multiple
        <4>3. e = Block * (r * q) /\ r * q \in Int
          BY <1>1, <4>1, <4>2
        <4> QED BY <4>3 DEF Multiple
      <3>3. e < x => e + Block <= x
        BY <1>1, <3>1, <3>2, MultipleSum
      <3> QED BY <1>1, <1>2, <1>3, <1>4, <2>1, <3>3
    <2>2. CASE ~Encrypted
      BY <1>2, <1>3, <2>2
    <2> QED BY <2>1, <2>2
  <1>6. Ceil(x) <= e
    BY <1>1, <1>4, <1>5, CeilFacts
  <1> QED BY <1>3, <1>5, <1>6

(* A step leaves the configuration alone, and what it determines.            *)
LEMMA Same ==
  ASSUME config' = config
  PROVE  /\ Units' = Units /\ Size' = Size /\ MaxImage' = MaxImage /\ Encrypted' = Encrypted
         /\ Sequential' = Sequential /\ Padded' = Padded /\ Contents' = Contents
  BY DEF Units, Size, Sectors, MaxImage, Encrypted, Sequential, Padded, Contents, Old, Blank, Spoilt

(* The invariant after a step that leaves a handle with a stream.            *)
LEMMA StreamAfter ==
  ASSUME TypeOK, config' = config, NEW f \in Contents, flash' = f,
         open' \in BOOLEAN, result' \in {"OK", "INVALID_ARG", "INVALID_SIZE", "VALIDATE_FAILED"},
         placed' = {}, NEW w \in 0 .. Size, wrote' = w,
         NEW s \in 0 .. MaxImage, sent' = s,
         NEW p, partial' = p, Part(p, w, Units), Len(p) < Block, s = w + Len(p),
         IF Encrypted THEN w % Block = 0 ELSE p = <<>>,
         \A u \in Units : u < w => f[u] = u,
         \A u \in Units : u >= w /\ (Sequential => u < Ceil(w)) => f[u] = Blank
  PROVE  IInv'
  <1>1. TypeOK'
    <2>1. /\ config' \in Configs /\ flash' \in Contents' /\ wrote' \in 0 .. Size'
          /\ sent' \in 0 .. MaxImage'
      BY Same DEF TypeOK
    <2>2. partial' \in Seq(Units') /\ Len(partial') < Block /\ (~Encrypted' => partial' = <<>>)
      BY Same DEF Part
    <2> QED BY <2>1, <2>2 DEF TypeOK, Contents
  <1>2. Streamed'
    <2>1. sent' = wrote' + Len(partial') /\ Part(partial', wrote', Units')
      BY Same
    <2>2. \A u \in 0 .. wrote' - 1 : flash'[u] = u
      <3>1. Size \in Nat /\ Units = 0 .. Size - 1
        BY Build DEF TypeOK
      <3>2. \A u \in 0 .. w - 1 : u \in Units /\ u < w
        BY <3>1
      <3> QED BY <3>2
    <2>3. Encrypted' => wrote' % Block = 0
      BY Same
    <2>4. \A u \in Units' : u >= wrote' /\ (Sequential' => u < Ceil(wrote')) => flash'[u] = Blank
      BY Same
    <2> QED BY <2>1, <2>2, <2>3, <2>4 DEF Streamed, Part, Ceil, Blank
  <1> QED BY <1>1, <1>2 DEF IInv, HandleInv

(* esp_ota_begin starts an empty stream.                                     *)
LEMMA BeginStep ==
  ASSUME IInv, config' = config, Begin
  PROVE  IInv'
  <1>1. /\ Sector \in Int /\ Sector > 0 /\ Block \in Int /\ Block > 0 /\ Size \in Nat
        /\ MaxImage \in 0 .. Size /\ Units = 0 .. Size - 1 /\ Sequential \in BOOLEAN
    BY Build DEF IInv, TypeOK
  <1>2. PICK f : f = flash'
    OBVIOUS
  <1>3. f = IF Sequential THEN [u \in Units |-> IF flash[u] = Blank THEN Blank ELSE Old]
            ELSE EraseRange(flash, 0, Size)
    BY <1>2 DEF Begin
  <1>4. f \in Contents
    <2>1. flash \in Contents
      BY DEF IInv, TypeOK, Contents
    <2>2. CASE Sequential
      BY <1>3, <2>2 DEF Contents
    <2>3. CASE ~Sequential
      BY <1>3, <2>1, <2>3, EraseTyped
    <2> QED BY <2>2, <2>3
  <1>5. 0 % Block = 0 /\ 0 % Sector = 0
    <2>1. \A d \in Int : Multiple(0, d)
      <3> SUFFICES ASSUME NEW d \in Int PROVE \E q \in Int : 0 = d * q
        BY DEF Multiple
      <3> WITNESS 0 \in Int
      <3> QED OBVIOUS
    <2> QED BY <1>1, <2>1, MultipleRest
  <1>6. Ceil(0) = 0
    BY <1>5 DEF Ceil
  <1>7. \A u \in Units : u >= 0 /\ (Sequential => u < Ceil(0)) => f[u] = Blank
    <2> SUFFICES ASSUME NEW u \in Units, u >= 0, Sequential => u < 0 PROVE f[u] = Blank
      BY <1>6
    <2>1. u \in Int /\ ~Sequential
      BY <1>1
    <2>2. u \in 0 .. 0 + Size - 1
      BY <1>1
    <2> QED BY <1>3, <2>1, <2>2 DEF EraseRange
  <1>8. \A u \in Units : u < 0 => f[u] = u
    BY <1>1
  <1>9. Part(<<>>, 0, Units) /\ Len(<<>>) = 0
    BY DEF Part
  <1>10. 0 \in 0 .. Size /\ 0 \in 0 .. MaxImage /\ 0 = 0 + Len(<<>>) /\ Len(<<>>) < Block
    BY <1>1, <1>9
  <1>11. /\ open' \in BOOLEAN
         /\ result' \in {"OK", "INVALID_ARG", "INVALID_SIZE", "VALIDATE_FAILED"}
         /\ placed' = {} /\ wrote' = 0 /\ sent' = 0 /\ partial' = <<>>
    BY DEF Begin
  <1>12. TypeOK
    BY DEF IInv
  <1> QED BY <1>2, <1>4, <1>5, <1>7, <1>8, <1>9, <1>10, <1>11, <1>12, StreamAfter

(* A handle to which nothing was written with an offset holds a stream.      *)
LEMMA HoldsStream ==
  ASSUME IInv, open, placed = {}
  PROVE  TypeOK /\ Streamed
  BY DEF IInv, HandleInv

(* esp_ota_write when the erase succeeds: the stream is longer.              *)
LEMMA WriteStep ==
  ASSUME IInv, config' = config, NEW size \in Nat, open, placed = {}, sent + size <= MaxImage,
         flash' = AppendData(Erased(size), size).flash,
         wrote' = AppendData(Erased(size), size).wrote,
         partial' = AppendData(Erased(size), size).partial,
         sent' = sent + size, result' = "OK", UNCHANGED <<open, placed>>
  PROVE  IInv'
  <1>1. TypeOK /\ Streamed
    BY HoldsStream
  <1>2. /\ Sector \in Int /\ Sector > 0 /\ Block \in Int /\ Block > 0 /\ Size \in Nat
        /\ MaxImage \in 0 .. Size /\ Units = 0 .. Size - 1 /\ Sequential \in BOOLEAN
        /\ Encrypted \in BOOLEAN
    BY <1>1, Build DEF TypeOK
  <1>3. PICK data : data = Joint(partial, sent, size)
    OBVIOUS
  <1>4. PICK n : n = Len(data) - Keep(data)
    OBVIOUS
  <1>5. PICK head, rest : head = First(data, n) /\ rest = Rest(data, n)
    OBVIOUS
  <1>6. PICK f, e : f = Erased(size) /\ e = EraseEnd(wrote, size)
    OBVIOUS
  <1>7. PICK g : g = WriteUnits(f, wrote, head)
    OBVIOUS
  <1>8. flash' = g /\ wrote' = wrote + n /\ partial' = rest
    BY <1>3, <1>4, <1>5, <1>6, <1>7, Zenon DEF AppendData, Joint, First, Rest
  <1>9. /\ n \in Nat /\ wrote + n <= Size /\ sent + size = wrote + n + Len(rest)
        /\ Part(head, wrote, Units) /\ Len(head) = n
        /\ Part(rest, wrote + n, Units) /\ Len(rest) < Block
        /\ IF Encrypted THEN (wrote + n) % Block = 0 ELSE rest = <<>>
    BY <1>1, <1>3, <1>4, <1>5, AppendFacts
  <1>10. PICK w, x, s, kept, old : /\ w = wrote /\ x = wrote + n /\ s = sent + size
                                   /\ kept = Len(rest) /\ old = Len(partial)
    OBVIOUS
  <1>11. /\ w \in Nat /\ x \in Nat /\ x = w + n /\ kept \in Nat /\ old \in Nat /\ old < Block
         /\ s = x + kept /\ s = w + old + size /\ x <= Size /\ s \in 0 .. MaxImage
    <2>1. wrote \in Nat /\ sent \in Nat /\ partial \in Seq(Units) /\ Len(partial) < Block
      BY <1>1, <1>2 DEF TypeOK
    <2>2. old \in Nat /\ kept \in Nat
      BY <1>9, <1>10, <2>1, LenProperties DEF Part
    <2>3. sent = wrote + Len(partial)
      BY <1>1 DEF Streamed
    <2> QED BY <1>2, <1>9, <1>10, <2>1, <2>2, <2>3
  <1>12. /\ f \in Contents /\ ErasedTo(f, e)
         /\ \A u \in Units : u < wrote => f[u] = flash[u]
    BY <1>1, <1>6, EraseAhead
  <1>13. Multiple(e, Sector) /\ w + size < e
    BY <1>2, <1>6, <1>10, <1>11, EraseFacts
  <1>14. IF Encrypted THEN (w + n) % Block = 0 /\ n < size + Block ELSE n = size
    <2>1. CASE Encrypted
      <3>1. n < size + Block
        BY <1>2, <1>9, <1>11
      <3> QED BY <1>9, <1>10, <2>1, <3>1
    <2>2. CASE ~Encrypted
      <3>1. partial = <<>> /\ rest = <<>>
        BY <1>1, <1>9, <2>2 DEF TypeOK
      <3>2. old = 0 /\ kept = 0
        BY <1>10, <3>1, EmptySeq
      <3> QED BY <1>9, <1>11, <2>2, <3>2
    <2> QED BY <2>1, <2>2
  <1>15. x <= e /\ Ceil(x) <= e /\ e \in Int /\ Ceil(x) \in Int
    <2>1. config \in Configs
      BY <1>1 DEF TypeOK
    <2>2. x <= e /\ Ceil(x) <= e
      BY <1>9, <1>11, <1>13, <1>14, <2>1, ReachedErased
    <2>3. e \in Int /\ Ceil(x) \in Int
      BY <1>2, <1>11, <1>13, MultipleSum, CeilFacts
    <2> QED BY <2>2, <2>3
  <1>16. Sequential \in BOOLEAN /\ \A u \in Units : u >= w /\ (Sequential => u < e) => f[u] = Blank
    BY <1>2, <1>10, <1>12 DEF ErasedTo
  <1>17. /\ \A u \in Units : w <= u /\ u < x => g[u] = u
         /\ \A u \in Units : ~(w <= u /\ u < x) => g[u] = f[u]
    <2>1. config \in Configs
      BY <1>1 DEF TypeOK
    <2>2. \A u \in Units : w <= u /\ u < w + n => f[u] = Blank
      BY <1>2, <1>11, <1>15, <1>16
    <2>3. Part(head, w, Units) /\ n = Len(head) /\ g = WriteUnits(f, w, head)
      BY <1>7, <1>9, <1>10
    <2> QED BY <1>11, <2>1, <2>2, <2>3, WriteFacts, SMTT(30)
  <1>18. \A u \in Units : u < x => g[u] = u
    <2> SUFFICES ASSUME NEW u \in Units, u < x PROVE g[u] = u
      OBVIOUS
    <2>1. u \in Int /\ u >= 0
      BY <1>2
    <2>2. CASE u >= w
      BY <1>11, <1>17, <2>1, <2>2
    <2>3. CASE u < w
      <3>1. u \in 0 .. wrote - 1
        BY <1>10, <1>11, <2>1, <2>3
      <3>2. flash[u] = u
        BY <1>1, <3>1 DEF Streamed
      <3>3. f[u] = flash[u]
        BY <1>10, <1>12, <2>3
      <3>4. g[u] = f[u]
        BY <1>11, <1>17, <2>1, <2>3
      <3> QED BY <3>2, <3>3, <3>4
    <2> QED BY <1>11, <2>1, <2>2, <2>3
  <1>19. \A u \in Units : u >= x /\ (Sequential => u < Ceil(x)) => g[u] = Blank
    <2> SUFFICES ASSUME NEW u \in Units, u >= x, Sequential => u < Ceil(x) PROVE g[u] = Blank
      OBVIOUS
    <2>1. u \in Int
      BY <1>2
    <2>2. u >= w /\ ~(w <= u /\ u < x) /\ (Sequential => u < e)
      BY <1>9, <1>11, <1>15, <2>1
    <2> QED BY <1>16, <1>17, <2>2
  <1>20. g \in Contents
    <2>1. config \in Configs /\ wrote \in Nat /\ head \in Seq(Units)
      BY <1>1, <1>9, <1>10, <1>11 DEF TypeOK, Part
    <2> QED BY <1>7, <1>12, <2>1, WriteTyped
  <1>21. /\ x \in 0 .. Size /\ wrote' = x /\ sent' = s /\ partial' = rest /\ flash' = g
         /\ open' \in BOOLEAN /\ placed' = {}
         /\ Part(rest, x, Units) /\ Len(rest) < Block /\ s = x + Len(rest)
         /\ IF Encrypted THEN x % Block = 0 ELSE rest = <<>>
    BY <1>1, <1>2, <1>8, <1>9, <1>10, <1>11 DEF TypeOK
  <1>22. result' \in {"OK", "INVALID_ARG", "INVALID_SIZE", "VALIDATE_FAILED"}
    OBVIOUS
  <1> QED BY <1>1, <1>11, <1>18, <1>19, <1>20, <1>21, <1>22, StreamAfter

(* A step that only ends with an error, or only gives the handle up.         *)
LEMMA OnlyResult ==
  ASSUME IInv, config' = config, UNCHANGED <<flash, wrote, partial, sent, placed>>,
         open' \in BOOLEAN, open' => open,
         result' \in {"OK", "INVALID_ARG", "INVALID_SIZE", "VALIDATE_FAILED"}
  PROVE  IInv'
  <1>1. TypeOK'
    <2>1. /\ config' \in Configs /\ flash' \in Contents' /\ wrote' \in 0 .. Size'
          /\ sent' \in 0 .. MaxImage' /\ partial' \in Seq(Units') /\ Len(partial') < Block
          /\ (~Encrypted' => partial' = <<>>) /\ placed' \subseteq Units'
      BY Same DEF IInv, TypeOK, Contents
    <2> QED BY <2>1 DEF TypeOK, Contents
  <1>2. Streamed => Streamed'
    BY Same DEF Streamed, Part, Ceil, Blank
  <1>3. Scattered => Scattered'
    BY Same DEF Scattered, Blank
  <1> QED BY <1>1, <1>2, <1>3 DEF IInv, HandleInv

(* Data without the magic byte: sectors are erased that hold nothing yet.    *)
LEMMA NoMagicStep ==
  ASSUME IInv, config' = config, NEW size \in Nat, WriteNoMagic(size)
  PROVE  IInv'
  <1>1. TypeOK /\ Streamed /\ wrote = 0 /\ partial = <<>> /\ placed = {} /\ open
    BY HoldsStream DEF WriteNoMagic
  <1>2. /\ Sector \in Int /\ Sector > 0 /\ Block \in Int /\ Block > 0 /\ Size \in Nat
        /\ MaxImage \in 0 .. Size /\ Units = 0 .. Size - 1 /\ Sequential \in BOOLEAN
    BY <1>1, Build DEF TypeOK
  <1>3. PICK f : f = flash'
    OBVIOUS
  <1>4. f = IF Sequential THEN EraseRange(flash, 0, EraseSize(size)) ELSE flash
    BY <1>3 DEF WriteNoMagic
  <1>5. f \in Contents
    <2>1. flash \in Contents
      BY <1>1 DEF TypeOK, Contents
    <2> QED BY <1>4, <2>1, EraseTyped
  <1>6. 0 % Block = 0 /\ Ceil(0) = 0
    <2>1. \A d \in Int : Multiple(0, d)
      <3> SUFFICES ASSUME NEW d \in Int PROVE \E q \in Int : 0 = d * q
        BY DEF Multiple
      <3> WITNESS 0 \in Int
      <3> QED OBVIOUS
    <2>2. 0 % Block = 0 /\ 0 % Sector = 0
      BY <1>2, <2>1, MultipleRest
    <2> QED BY <2>2 DEF Ceil
  <1>7. \A u \in Units : u >= 0 /\ (Sequential => u < Ceil(0)) => f[u] = Blank
    <2> SUFFICES ASSUME NEW u \in Units, u >= 0, Sequential => u < 0 PROVE f[u] = Blank
      BY <1>6
    <2>1. u \in Int /\ ~Sequential
      BY <1>2
    <2>2. f = flash /\ u >= wrote
      BY <1>1, <1>4, <2>1
    <2> QED BY <1>1, <2>1, <2>2 DEF Streamed
  <1>8. \A u \in Units : u < 0 => f[u] = u
    BY <1>2
  <1>9. Part(<<>>, 0, Units) /\ Len(<<>>) = 0
    BY DEF Part
  <1>10. 0 \in 0 .. Size /\ 0 \in 0 .. MaxImage /\ 0 = 0 + Len(<<>>) /\ Len(<<>>) < Block
    BY <1>2, <1>9
  <1>11. sent = 0
    BY <1>1, <1>9 DEF Streamed
  <1>12. /\ open' \in BOOLEAN
         /\ result' \in {"OK", "INVALID_ARG", "INVALID_SIZE", "VALIDATE_FAILED"}
         /\ placed' = {} /\ wrote' = 0 /\ sent' = 0 /\ partial' = <<>>
    BY <1>1, <1>11 DEF WriteNoMagic
  <1> QED BY <1>1, <1>3, <1>5, <1>6, <1>7, <1>8, <1>9, <1>10, <1>12, StreamAfter

(* A handle that no stream was written to can take packets.                  *)
LEMMA TakesPackets ==
  ASSUME IInv, open, sent = 0, ~Sequential
  PROVE  TypeOK /\ Scattered
  <1>1. TypeOK
    BY DEF IInv
  <1>2. /\ Size \in Nat /\ Units = 0 .. Size - 1 /\ wrote \in Nat /\ partial \in Seq(Units)
    BY <1>1, Build DEF TypeOK
  <1>3. ASSUME placed = {}, Streamed PROVE Scattered
    <2>1. Len(partial) \in Nat
      BY <1>2, LenProperties
    <2>2. wrote = 0 /\ Len(partial) = 0
      BY <1>2, <1>3, <2>1 DEF Streamed
    <2>3. partial = <<>>
      BY <1>2, <2>2, EmptySeq
    <2>4. \A u \in Units : u >= wrote
      BY <1>2, <2>2
    <2>5. \A u \in Units : flash[u] = Blank
      BY <1>3, <2>4 DEF Streamed
    <2>6. Cardinality({}) = 0
      BY FS_EmptySet
    <2> QED BY <1>3, <2>2, <2>3, <2>5, <2>6 DEF Scattered
  <1> QED BY <1>1, <1>3 DEF IInv, HandleInv

(* esp_ota_write_with_offset of a packet that does not overlap another.      *)
LEMMA PacketStep ==
  ASSUME IInv, config' = config, open, sent = 0, ~Sequential,
         NEW offset \in Units, NEW size \in Nat, size > 0, Inside(offset, size), (offset .. offset + size - 1) \cap placed = {},
         flash' = WriteUnits(flash, offset, Stream(offset, size)), wrote' = wrote + size,
         placed' = placed \cup (offset .. offset + size - 1), result' = "OK",
         UNCHANGED <<open, partial, sent>>
  PROVE  IInv'
  <1>1. TypeOK /\ Scattered
    BY TakesPackets
  <1>2. /\ config \in Configs /\ Size \in Nat /\ Units = 0 .. Size - 1 /\ MaxImage \in 0 .. Size
        /\ offset \in Nat /\ placed \subseteq Units /\ flash \in Contents
    BY <1>1, Build DEF TypeOK, Contents
  <1>3. PICK here, top : here = offset .. offset + size - 1 /\ top = Size
    OBVIOUS
  <1>4. offset + size <= top /\ top \in Nat
    BY <1>2, <1>3 DEF Inside
  <1>5. here \subseteq Units /\ offset \in here
    BY <1>2, <1>3, <1>4
  <1>6. PICK data, g, more : data = Stream(offset, size) /\ g = WriteUnits(flash, offset, data)
                             /\ more = placed \cup here
    OBVIOUS
  <1>7. Part(data, offset, Units) /\ Len(data) = size
    <2>1. \A k \in 1 .. size : offset + k - 1 \in Units
      BY <1>2, <1>4, <1>3
    <2> QED BY <1>6, <2>1 DEF Stream, Part
  <1>8. \A u \in Units : u \in here <=> offset <= u /\ u < offset + size
    BY <1>2, <1>3
  <1>9. \A u \in Units : offset <= u /\ u < offset + size => flash[u] = Blank
    BY <1>1, <1>3, <1>8 DEF Scattered
  <1>10. /\ \A u \in Units : offset <= u /\ u < offset + size => g[u] = u
         /\ \A u \in Units : ~(offset <= u /\ u < offset + size) => g[u] = flash[u]
    BY <1>2, <1>6, <1>7, <1>9, WriteFacts
  <1>11. g \in Contents
    <2>1. data \in Seq(Units)
      BY <1>7 DEF Part
    <2> QED BY <1>2, <1>6, <2>1, WriteTyped
  <1>12. \A u \in Units : g[u] = IF u \in more THEN u ELSE Blank
    BY <1>1, <1>6, <1>8, <1>10 DEF Scattered
  <1>13. IsFiniteSet(Units) /\ Cardinality(Units) = top
    <2>1. 0 \in Int /\ top - 1 \in Int
      BY <1>4
    <2>2. IsFiniteSet(0 .. top - 1)
          /\ Cardinality(0 .. top - 1) = (IF 0 > top - 1 THEN 0 ELSE (top - 1) - 0 + 1)
      BY <2>1, FS_Interval
    <2> QED BY <1>2, <1>3, <1>4, <2>2
  <1>14. IsFiniteSet(here) /\ Cardinality(here) = size
    <2>1. offset \in Int /\ offset + size - 1 \in Int
      BY <1>2
    <2>2. /\ IsFiniteSet(offset .. offset + size - 1)
          /\ Cardinality(offset .. offset + size - 1)
               = (IF offset > offset + size - 1 THEN 0 ELSE (offset + size - 1) - offset + 1)
      BY <2>1, FS_Interval
    <2> QED BY <1>2, <1>3, <2>2
  <1>15. IsFiniteSet(placed) /\ Cardinality(placed) \in Nat
    BY <1>2, <1>13, FS_Subset, FS_CardinalityType
  <1>16. Cardinality(more) = Cardinality(placed) + size /\ IsFiniteSet(more)
    <2>1. Cardinality(placed \cap here) = 0
      <3>1. placed \cap here = {}
        BY <1>3
      <3> QED BY <3>1, FS_EmptySet
    <2>2. /\ IsFiniteSet(placed \cup here)
          /\ Cardinality(placed \cup here)
               = Cardinality(placed) + Cardinality(here) - Cardinality(placed \cap here)
      BY <1>14, <1>15, FS_Union
    <2> QED BY <1>6, <1>14, <1>15, <2>1, <2>2
  <1>17. Cardinality(more) <= top
    <2>1. more \subseteq Units
      BY <1>2, <1>5, <1>6
    <2> QED BY <1>13, <2>1, FS_Subset
  <1>18. /\ flash' = g /\ placed' = more /\ wrote' = Cardinality(more) /\ wrote' \in 0 .. Size
    <2>1. wrote = Cardinality(placed)
      BY <1>1 DEF Scattered
    <2>2. wrote' = Cardinality(more)
      BY <1>16, <2>1
    <2>3. Cardinality(more) \in 0 .. Size
      BY <1>3, <1>4, <1>15, <1>16, <1>17
    <2> QED BY <1>3, <1>6, <2>2, <2>3
  <1>19. TypeOK'
    <2>1. /\ config' \in Configs /\ flash' \in Contents' /\ wrote' \in 0 .. Size'
          /\ sent' \in 0 .. MaxImage'
      BY <1>1, <1>11, <1>18, Same DEF TypeOK
    <2>2. /\ partial' \in Seq(Units') /\ Len(partial') < Block /\ (~Encrypted' => partial' = <<>>)
          /\ open' \in BOOLEAN
      BY <1>1, Same DEF TypeOK
    <2>3. placed' \subseteq Units'
      BY <1>2, <1>5, <1>6, <1>18, Same
    <2> QED BY <2>1, <2>2, <2>3 DEF TypeOK, Contents
  <1>20. Scattered'
    <2>1. ~Sequential' /\ sent' = 0 /\ partial' = <<>>
      BY <1>1, Same DEF Scattered
    <2>3. wrote' = Cardinality(placed')
      BY <1>18, Zenon
    <2>2. \A u \in Units' : flash'[u] = IF u \in placed' THEN u ELSE Blank
      BY <1>12, <1>18, Same
    <2> QED BY <2>1, <2>2, <2>3 DEF Scattered, Blank
  <1>21. placed' # {}
    BY <1>5, <1>6, <1>18
  <1> QED BY <1>19, <1>20, <1>21 DEF IInv, HandleInv

(* The last block from the handle: there is room for it.                     *)
LEMMA LastBlock ==
  ASSUME IInv, open, partial # <<>>
  PROVE  placed = {} /\ Streamed /\ Encrypted /\ wrote + Block <= Size /\ Len(partial) > 0
         /\ wrote + Len(partial) <= Size
  <1>1. TypeOK
    BY DEF IInv
  <1>2. /\ Block \in Int /\ Block > 0 /\ Size \in Nat /\ Multiple(Size, Block)
        /\ MaxImage \in 0 .. Size /\ Encrypted \in BOOLEAN
        /\ wrote \in Nat /\ partial \in Seq(Units) /\ sent \in Nat /\ sent <= MaxImage
    BY <1>1, Build DEF TypeOK
  <1>3. placed = {} /\ Streamed
    BY DEF IInv, HandleInv, Scattered
  <1>4. Encrypted /\ wrote % Block = 0
    BY <1>1, <1>2, <1>3 DEF TypeOK, Streamed
  <1>5. Len(partial) \in Nat \ {0}
    BY <1>2, EmptySeq
  <1>6. PICK m : m = Len(partial)
    OBVIOUS
  <1>7. m \in Nat /\ m > 0 /\ wrote + m <= Size
    BY <1>2, <1>3, <1>5, <1>6 DEF Streamed
  <1>8. Multiple(wrote, Block)
    BY <1>2, <1>4, MultipleRest
  <1>9. wrote < Size => wrote + Block <= Size
    BY <1>2, <1>8, MultipleSum
  <1>10. wrote + Block <= Size
    BY <1>2, <1>7, <1>9
  <1> QED BY <1>3, <1>4, <1>6, <1>7, <1>10

(* esp_ota_end                                                               *)
LEMMA EndStep ==
  ASSUME IInv, config' = config, End
  PROVE  IInv'
  <1>1. TypeOK /\ open
    BY DEF IInv, End
  <1>2. /\ config \in Configs /\ Block \in Int /\ Block > 0 /\ Size \in Nat /\ wrote \in 0 .. Size
        /\ flash \in Contents /\ partial \in Seq(Units)
    BY <1>1, Build DEF TypeOK, Contents
  <1>3. flash' \in Contents /\ wrote' \in 0 .. Size /\ (partial' = partial \/ partial' = <<>>)
    <2>1. CASE wrote = 0
      BY <1>2, <2>1 DEF End
    <2>2. CASE wrote # 0 /\ partial = <<>>
      BY <1>2, <2>2 DEF End, Flush
    <2>3. CASE wrote # 0 /\ partial # <<>>
      <3>1. wrote + Block <= Size
        BY <1>1, <2>3, LastBlock
      <3>2. flash' = WriteUnits(flash, wrote, partial) /\ wrote' = wrote + Block /\ partial' = <<>>
        BY <2>3 DEF End, Flush
      <3>3. PICK g : g = WriteUnits(flash, wrote, partial)
        OBVIOUS
      <3>4. g \in Contents
        BY <1>2, <3>3, WriteTyped
      <3> QED BY <1>2, <3>1, <3>2, <3>3, <3>4
    <2> QED BY <2>1, <2>2, <2>3
  <1>4. TypeOK'
    <2>1. config' \in Configs /\ flash' \in Contents' /\ wrote' \in 0 .. Size'
      BY <1>2, <1>3, Same
    <2>2. partial' \in Seq(Units') /\ Len(partial') < Block /\ (~Encrypted' => partial' = <<>>)
      <3>1. partial \in Seq(Units) /\ Len(partial) < Block /\ (~Encrypted => partial = <<>>)
        BY <1>1 DEF TypeOK
      <3>2. <<>> \in Seq(Units) /\ Len(<<>>) < Block
        BY <1>2, EmptySeq
      <3> QED BY <1>3, <3>1, <3>2, Same
    <2>3. sent' \in 0 .. MaxImage' /\ placed' \subseteq Units' /\ open' \in BOOLEAN
      BY <1>1, Same DEF End, TypeOK
    <2>4. result' \in {"OK", "ENDED", "INVALID_ARG", "INVALID_SIZE", "VALIDATE_FAILED"}
      BY DEF End
    <2> QED BY <2>1, <2>2, <2>3, <2>4 DEF TypeOK, Contents
  <1>5. ~open'
    BY DEF End
  <1> QED BY <1>4, <1>5 DEF IInv, HandleInv

(* The initial states.                                                       *)
LEMMA InitHolds ==
  ASSUME Init
  PROVE  IInv
  <1>1. config \in Configs
    BY DEF Init
  <1>2. Size \in Nat /\ MaxImage \in 0 .. Size /\ Block \in Int /\ Block > 0
    BY <1>1, Build
  <1>3. <<>> \in Seq(Units) /\ Len(<<>>) < Block
    BY <1>2, EmptySeq
  <1>4. TypeOK
    <2>1. flash \in [Units -> Units \cup {Old, Blank, Spoilt}]
      BY DEF Init
    <2>2. wrote \in 0 .. Size /\ sent \in 0 .. MaxImage
      BY <1>2 DEF Init
    <2>3. partial \in Seq(Units) /\ Len(partial) < Block /\ (~Encrypted => partial = <<>>)
      BY <1>3 DEF Init
    <2>4. open \in BOOLEAN /\ placed \subseteq Units /\ result = "OK"
      BY DEF Init
    <2> QED BY <1>1, <2>1, <2>2, <2>3, <2>4 DEF TypeOK
  <1>5. ~open /\ result # "ENDED"
    BY DEF Init
  <1> QED BY <1>4, <1>5 DEF IInv, HandleInv

(* Every step keeps the invariant, and only esp_ota_end gives "ENDED".       *)
LEMMA StepKeeps ==
  ASSUME IInv, Next
  PROVE  IInv' /\ (result' = "ENDED" => End)
  <1>1. config' = config
    BY DEF Next
  <1>2. MaxWrite \in Nat
    BY Build DEF IInv, TypeOK
  <1>3. CASE Begin
    BY <1>1, <1>3, BeginStep DEF Begin
  <1>4. CASE End
    BY <1>1, <1>4, EndStep
  <1>5. CASE Abort
    <2>1. /\ UNCHANGED <<flash, wrote, partial, sent, placed>>
          /\ open' \in BOOLEAN /\ (open' => open) /\ result' = "OK"
      BY <1>5 DEF Abort
    <2> QED BY <1>1, <2>1, OnlyResult
  <1>6. ASSUME NEW size \in 0 .. MaxWrite, Write(size)
        PROVE  IInv' /\ (result' = "ENDED" => End)
    <2>1. size \in Nat
      BY <1>2
    <2>2. CASE result' = "INVALID_SIZE" /\ UNCHANGED <<flash, open, wrote, partial, sent, placed>>
      <3>1. open' \in BOOLEAN /\ (open' => open)
        BY <2>2 DEF IInv, TypeOK
      <3> QED BY <1>1, <2>2, <3>1, OnlyResult
    <2>3. CASE /\ flash' = AppendData(Erased(size), size).flash
               /\ wrote' = AppendData(Erased(size), size).wrote
               /\ partial' = AppendData(Erased(size), size).partial
               /\ sent' = sent + size /\ result' = "OK" /\ UNCHANGED <<open, placed>>
      <3>1. open /\ placed = {} /\ sent + size <= MaxImage
        BY <1>6 DEF Write
      <3> QED BY <1>1, <2>1, <2>3, <3>1, WriteStep
    <2> QED BY <1>6, <2>2, <2>3, Zenon DEF Write, Refuse, Erased
  <1>7. ASSUME NEW size \in 0 .. MaxWrite, WriteNoMagic(size)
        PROVE  IInv' /\ (result' = "ENDED" => End)
    <2>1. size \in Nat /\ result' = "VALIDATE_FAILED"
      BY <1>2, <1>7 DEF WriteNoMagic
    <2> QED BY <1>1, <1>7, <2>1, NoMagicStep
  <1>8. ASSUME NEW size \in 0 .. MaxWrite, NEW offset \in Units, WriteWithOffset(offset, size)
        PROVE  IInv' /\ (result' = "ENDED" => End)
    <2>1. size \in Nat
      BY <1>2
    <2>2. /\ open /\ sent = 0 /\ ~Sequential /\ size > 0 /\ Inside(offset, size)
          /\ (offset .. offset + size - 1) \cap placed = {}
      BY <1>8 DEF WriteWithOffset
    <2>3. CASE result' = "INVALID_ARG" /\ UNCHANGED <<flash, open, wrote, partial, sent, placed>>
      <3>1. open' \in BOOLEAN /\ (open' => open)
        BY <2>3 DEF IInv, TypeOK
      <3> QED BY <1>1, <2>3, <3>1, OnlyResult
    <2>4. CASE /\ flash' = WriteUnits(flash, offset, Stream(offset, size))
               /\ wrote' = wrote + size
               /\ placed' = placed \cup offset .. offset + size - 1
               /\ result' = "OK" /\ UNCHANGED <<open, partial, sent>>
      BY <1>1, <2>1, <2>2, <2>4, PacketStep
    <2> QED BY <1>8, <2>3, <2>4, Zenon DEF WriteWithOffset, Refuse
  <1> QED BY <1>3, <1>4, <1>5, <1>6, <1>7, <1>8 DEF Next

(* Doing nothing keeps the invariant.                                        *)
LEMMA StutterKeeps ==
  ASSUME IInv, UNCHANGED vars
  PROVE  IInv'
  <1>1. config' = config /\ UNCHANGED <<flash, wrote, partial, sent, placed, open, result>>
    BY DEF vars
  <1>2. CASE result # "ENDED"
    <2>1. /\ open' \in BOOLEAN /\ (open' => open)
          /\ result' \in {"OK", "INVALID_ARG", "INVALID_SIZE", "VALIDATE_FAILED"}
      BY <1>1, <1>2 DEF IInv, TypeOK
    <2> QED BY <1>1, <2>1, OnlyResult
  <1>3. CASE result = "ENDED"
    <2>1. ~open' /\ open' \in BOOLEAN /\ result' = "ENDED"
      BY <1>1, <1>3 DEF IInv, HandleInv, TypeOK
    <2>2. TypeOK'
      <3>1. /\ config' \in Configs /\ flash' \in Contents' /\ wrote' \in 0 .. Size'
            /\ sent' \in 0 .. MaxImage' /\ partial' \in Seq(Units') /\ Len(partial') < Block
            /\ (~Encrypted' => partial' = <<>>) /\ placed' \subseteq Units'
        BY <1>1, Same DEF IInv, TypeOK, Contents
      <3> QED BY <2>1, <3>1 DEF TypeOK, Contents
    <2> QED BY <2>1, <2>2 DEF IInv, HandleInv
  <1> QED BY <1>2, <1>3

(* The invariant, of every behaviour: whatever is written, in whatever       *)
(* pieces, by either function, with or without encryption.                   *)
LEMMA AlwaysIInv == Spec => []IInv
  <1>1. Init => IInv
    BY InitHolds
  <1>2. IInv /\ [Next]_vars => IInv'
    BY StepKeeps, StutterKeeps
  <1> QED BY <1>1, <1>2, PTL DEF Spec

(* Type correctness: in particular wrote_size never exceeds the partition,   *)
(* and less than a block is kept in the handle.                              *)
THEOREM TypeCorrect == Spec => []TypeOK
  <1>1. IInv => TypeOK
    BY DEF IInv
  <1> QED BY <1>1, AlwaysIInv, PTL

(* What esp_ota_end leaves in the partition.                                 *)
LEMMA EndCompletes ==
  ASSUME PaddedWhereNeeded, IInv, config' = config, End, result' = "ENDED"
  PROVE  ImageComplete'
  <1>1. TypeOK /\ open /\ wrote # 0 /\ flash' = Flush(flash) /\ sent' = sent /\ placed' = placed
        /\ (Padded => partial = <<>>)
    BY DEF IInv, End
  <1>2. /\ config \in Configs /\ Size \in Nat /\ Units = 0 .. Size - 1 /\ wrote \in 0 .. Size
        /\ partial \in Seq(Units) /\ placed \subseteq Units
        /\ {Encrypted, Sequential, Padded} \subseteq BOOLEAN
        /\ MaxImage \in 0 .. Size /\ sent \in 0 .. MaxImage
    BY <1>1, Build DEF TypeOK
  <1>3. CASE partial = <<>>
    <2>1. flash' = flash
      BY <1>1, <1>3 DEF Flush
    <2>2. CASE placed = {} /\ Streamed
      <3>1. sent = wrote
        BY <1>2, <1>3, <2>2, EmptySeq DEF Streamed
      <3> QED BY <1>1, <2>1, <2>2, <3>1 DEF Streamed, ImageComplete
    <2>3. CASE placed # {} /\ Scattered
      <3>1. \A u \in 0 .. sent - 1 : FALSE
        BY <2>3 DEF Scattered
      <3>2. \A u \in placed : flash[u] = u
        BY <1>2, <2>3 DEF Scattered
      <3> QED BY <1>1, <2>1, <3>1, <3>2 DEF ImageComplete
    <2> QED BY <1>1, <2>2, <2>3 DEF IInv, HandleInv
  <1>4. CASE partial # <<>>
    <2>1. placed = {} /\ Streamed /\ Encrypted /\ wrote + Len(partial) <= Size /\ Len(partial) > 0
      BY <1>1, <1>4, LastBlock
    <2>2. ~Sequential
      BY <1>1, <1>2, <1>4, <2>1 DEF PaddedWhereNeeded, Sequential, Encrypted, Padded
    <2>3. PICK g, w, m : g = WriteUnits(flash, wrote, partial) /\ w = wrote /\ m = Len(partial)
      OBVIOUS
    <2>4. flash' = g
      BY <1>1, <1>4, <2>3 DEF Flush
    <2>5. w \in Nat /\ m \in Nat /\ sent = w + m /\ w + m <= Size
      BY <1>2, <2>1, <2>3, LenProperties DEF Streamed
    <2>6. \A u \in Units : w <= u /\ u < w + m => flash[u] = Blank
      BY <1>2, <2>1, <2>2, <2>3, <2>5 DEF Streamed
    <2>7. /\ \A u \in Units : w <= u /\ u < w + m => g[u] = u
          /\ \A u \in Units : ~(w <= u /\ u < w + m) => g[u] = flash[u]
      <3>1. Part(partial, w, Units) /\ m = Len(partial) /\ g = WriteUnits(flash, w, partial)
        BY <2>1, <2>3 DEF Streamed
      <3> QED BY <1>2, <2>5, <2>6, <3>1, WriteFacts, SMTT(30)
    <2>8. \A u \in 0 .. sent - 1 : g[u] = u
      <3> TAKE u \in 0 .. sent - 1
      <3>1. u \in Units /\ u \in Int /\ u >= 0 /\ u < w + m
        BY <1>2, <2>5
      <3>2. CASE u >= w
        BY <2>5, <2>7, <3>1, <3>2
      <3>3. CASE u < w
        <4>1. u \in 0 .. wrote - 1
          BY <2>3, <2>5, <3>1, <3>3
        <4>2. flash[u] = u
          BY <2>1, <4>1 DEF Streamed
        <4> QED BY <2>5, <2>7, <3>1, <3>3, <4>2
      <3> QED BY <2>5, <3>1, <3>2, <3>3
    <2> QED BY <1>1, <2>1, <2>4, <2>8 DEF ImageComplete
  <1> QED BY <1>3, <1>4

(* After esp_ota_end the whole image is in the partition, for any sizes of   *)
(* sectors, blocks, partitions and calls: nothing that was sent is lost,     *)
(* overwritten, or written on flash that was not erased.                     *)
THEOREM AlwaysImageComplete ==
  ASSUME PaddedWhereNeeded
  PROVE  Spec => []ImageComplete
  <1>1. Init => ImageComplete
    BY DEF Init, ImageComplete
  <1>2. IInv /\ ImageComplete /\ [Next]_vars => ImageComplete'
    <2> SUFFICES ASSUME IInv, ImageComplete, [Next]_vars, result' = "ENDED" PROVE ImageComplete'
      BY DEF ImageComplete
    <2>1. CASE Next
      <3>1. End /\ config' = config
        BY <2>1, StepKeeps DEF Next
      <3> QED BY <3>1, EndCompletes
    <2>2. CASE UNCHANGED vars
      BY <2>2 DEF vars, ImageComplete
    <2> QED BY <2>1, <2>2
  <1> QED BY <1>1, <1>2, AlwaysIInv, PTL DEF Spec

(* The range that esp_ota_write erases ahead stays in the partition.         *)
LEMMA ErasesInside ==
  ASSUME UnitToSpare, TypeOK, Streamed, Sequential, NEW size \in Nat, sent + size <= MaxImage
  PROVE  Inside(EraseFrom, EraseSize(size))
  <1>1. /\ Sector \in Int /\ Sector > 0 /\ Size \in Nat /\ Multiple(Size, Sector)
        /\ MaxImage \in 0 .. Size /\ wrote \in Nat /\ sent \in Nat /\ partial \in Seq(Units)
    BY Build DEF TypeOK
  <1>2. MaxImage < Size
    BY DEF UnitToSpare, TypeOK, Sequential, MaxImage, Size, Sectors
  <1>3. wrote <= sent
    <2>1. Len(partial) \in Nat
      BY <1>1, LenProperties
    <2> QED BY <1>1, <2>1 DEF Streamed
  <1>4. PICK e, from, gap, w, last : /\ e = EraseEnd(wrote, size) /\ from = Ceil(wrote)
                                     /\ gap = EraseSize(size) /\ w = wrote /\ last = Size
    OBVIOUS
  <1>5. /\ EraseFrom = from /\ e \in Nat /\ Multiple(e, Sector) /\ e <= w + size + Sector
        /\ gap = e - from
    BY <1>1, <1>4, EraseFacts
  <1>6. from \in Nat
    BY <1>1, <1>4, CeilFacts
  <1>7. w + size < last /\ w \in Nat /\ last \in Nat /\ Multiple(last, Sector)
    BY <1>1, <1>2, <1>3, <1>4
  <1>8. e <= last
    <2>1. last < e => last + Sector <= e
      BY <1>1, <1>5, <1>7, MultipleSum
    <2> QED BY <1>1, <1>5, <1>7, <2>1
  <1>9. from + gap <= last
    BY <1>5, <1>6, <1>7, <1>8
  <1> QED BY <1>4, <1>5, <1>9 DEF Inside

(* An image that fits in the partition with a unit to spare is not refused   *)
(* half way by esp_ota_write, in whatever pieces it comes.                   *)
THEOREM AlwaysNotRefused ==
  ASSUME UnitToSpare
  PROVE  Spec => []NotRefused
  <1>1. Init => NotRefused
    BY DEF Init, NotRefused
  <1>2. IInv /\ NotRefused /\ [Next]_vars => NotRefused'
    <2> SUFFICES ASSUME IInv, NotRefused, [Next]_vars PROVE NotRefused'
      OBVIOUS
    <2>1. ASSUME NEW size \in 0 .. MaxWrite, Write(size) PROVE NotRefused'
      <3>1. open /\ placed = {} /\ sent + size <= MaxImage
        BY <2>1 DEF Write
      <3>2. TypeOK /\ Streamed
        BY <3>1, HoldsStream
      <3>3. size \in Nat
        BY <3>2, Build DEF TypeOK
      <3>4. Sequential => Inside(EraseFrom, EraseSize(size))
        BY <3>1, <3>2, <3>3, ErasesInside
      <3>5. result' = "OK"
        BY <2>1, <3>4, Zenon DEF Write
      <3> QED BY <3>5 DEF NotRefused
    <2>2. CASE UNCHANGED vars
      BY <2>2 DEF vars, NotRefused
    <2> QED BY <2>1, <2>2 DEF Next, Begin, End, Abort, WriteNoMagic, WriteWithOffset, Refuse,
                              NotRefused
  <1> QED BY <1>1, <1>2, AlwaysIInv, PTL DEF Spec
===============================================================================
