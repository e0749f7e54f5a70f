------------------------------- MODULE OtaProofs -------------------------------
(***************************************************************************)
(* Proofs about Ota, for every number of slots, every build and every        *)
(* sequence number: first what holds of every application, then, with        *)
(* rollback and for an application that follows the procedure, that the      *)
(* application that worked is always there to go back to.                    *)
(***************************************************************************)
EXTENDS OtaInv, TLAPS, WellFoundedInduction, SequenceTheorems

-------------------------------------------------------------------------------
(* The build.                                                                *)

(* What is known of a build.                                                 *)
LEMMA Build ==
  ASSUME config \in Configs
  PROVE  /\ N \in Nat /\ N > 0 /\ MaxVersion \in Nat /\ MaxSeq \in Nat /\ MaxSeq >= N
         /\ HasFactory \in BOOLEAN /\ Rollback \in BOOLEAN /\ AntiRollback \in BOOLEAN
         /\ AntiRollback => Rollback /\ ~HasFactory
         /\ Slots = 0 .. N - 1 /\ FACTORY_INDEX = -1 /\ NoPartition = -2
         /\ Slots \subseteq Partitions /\ Partitions \subseteq -1 .. N - 1
         /\ HasFactory <=> FACTORY_INDEX \in Partitions
         /\ NoPartition \notin Partitions
  <1>1. /\ config.n \in Nat \ {0} /\ config.maxVersion \in Nat /\ config.maxSeq \in Nat
        /\ config.maxSeq >= config.n
        /\ config.factory \in BOOLEAN /\ config.rollback \in BOOLEAN
        /\ config.antiRollback \in BOOLEAN
        /\ config.antiRollback => config.rollback /\ ~config.factory
    BY OtaAssumption
  <1> QED
    BY <1>1 DEF N, MaxVersion, MaxSeq, HasFactory, Rollback, AntiRollback, Slots,
       FACTORY_INDEX, NoPartition, Partitions

-------------------------------------------------------------------------------
(* Numbers.                                                                  *)

(* A non-empty set of natural numbers has a least element.                   *)
LEMMA LeastNatural ==
  ASSUME NEW T \in SUBSET Nat, T # {}
  PROVE  \E n \in T : \A m \in T : n <= m
  <1>1. \A m, k \in Nat : <<m, k>> \notin OpToRel(<, Nat) => k <= m
    BY DEF OpToRel
  <1>2. PICK n \in T : \A m \in T : ~(<<m, n>> \in OpToRel(<, Nat))
    BY NatLessThanWellFounded, WFMin
  <1>3. \A m \in T : n <= m
    BY <1>1, <1>2, Zenon
  <1> QED BY <1>3

(* Adding a multiple does not change the remainder.                          *)
LEMMA RemainderOfMultiple ==
  ASSUME NEW n \in Nat, n > 0, NEW q \in Nat, NEW r \in 0 .. n - 1
  PROVE  (r + n * q) % n = r
  BY SMT

(* The while loop ends: it returns a number that is not smaller and that is  *)
(* base modulo N.                                                            *)
LEMMA SeqFromReaches ==
  ASSUME config \in Configs, NEW base \in 0 .. N - 1, NEW seq \in Nat
  PROVE  \E i \in Nat : SeqFrom(base, seq) = base + N * i /\ seq <= base + N * i
  <1>1. N \in Nat /\ N > 0
    BY Build
  <1> DEFINE T == {i \in 0 .. seq : seq <= base + i * N}
             P(i) == seq <= base + i * N /\ \A j \in 0 .. i - 1 : seq > base + j * N
  <1>2. seq <= base + seq * N
    BY <1>1
  <1>3. T \in SUBSET Nat /\ seq \in T
    BY <1>2
  <1>4. PICK i \in T : \A j \in T : i <= j
    <2> HIDE DEF T
    <2> QED BY <1>3, LeastNatural
  <1>5. i \in 0 .. seq /\ P(i)
    <2>1. \A j \in 0 .. i - 1 : j \in 0 .. seq /\ j < i
      BY <1>4
    <2>2. \A j \in 0 .. i - 1 : j * N \in Nat
      BY <1>1, <2>1
    <2> QED BY <1>1, <1>4, <2>1, <2>2
  <1> DEFINE c == CHOOSE k \in 0 .. seq : P(k)
  <1>6. c \in 0 .. seq /\ P(c)
    <2> HIDE DEF P
    <2> QED BY <1>5, Zenon
  <1>7. SeqFrom(base, seq) = base + N * c
    BY DEF SeqFrom
  <1>8. c * N = N * c
    <2> HIDE DEF c
    <2> QED BY <1>1, <1>6
  <1> HIDE DEF c
  <1> QED BY <1>6, <1>7, <1>8

(* The next sequence number of a slot selects that slot and is not below the *)
(* number it starts from.                                                    *)
LEMMA NextSeqSelects ==
  ASSUME config \in Configs, NEW slot \in Slots, NEW seq \in Nat
  PROVE  /\ NextSeq(slot, seq) \in Nat /\ NextSeq(slot, seq) >= seq
         /\ (NextSeq(slot, seq) - 1) % N = slot
  <1>1. N \in Nat /\ N > 0 /\ slot \in 0 .. N - 1
    BY Build
  <1> DEFINE base == (slot + 1) % N
  <1>2. base = IF slot + 1 = N THEN 0 ELSE slot + 1
    BY <1>1
  <1>3. base \in 0 .. N - 1
    BY <1>1, <1>2
  <1>4. PICK i \in Nat : NextSeq(slot, seq) = base + N * i /\ seq <= base + N * i
    <2> HIDE DEF base
    <2> QED BY <1>3, SeqFromReaches DEF NextSeq, base
  <1> HIDE DEF base
  <1>5. N * i \in Nat
    BY <1>1
  <1>6. (base + N * i - 1) % N = slot
    <2>1. CASE slot + 1 # N
      <3>1. base + N * i - 1 = slot + N * i
        BY <1>1, <1>2, <1>5, <2>1
      <3> QED BY <1>1, <3>1, RemainderOfMultiple
    <2>2. CASE slot + 1 = N /\ i = 0
      BY <1>1, <1>2, <2>2
    <2>3. CASE slot + 1 = N /\ i # 0
      <3>1. i - 1 \in Nat
        BY <2>3
      <3>2. N * i = N + N * (i - 1)
        BY <1>1
      <3>3. base + N * i - 1 = slot + N * (i - 1)
        BY <1>1, <1>2, <2>3, <3>1, <3>2
      <3> QED BY <1>1, <3>1, <3>3, RemainderOfMultiple
    <2> QED BY <2>1, <2>2, <2>3
  <1> QED BY <1>3, <1>4, <1>5, <1>6

-------------------------------------------------------------------------------
(* The bootloader's search.                                                  *)

(* If some partition loads, the search returns one that does, and none that  *)
(* loads comes before it.                                                    *)
LEMMA LoadFinds ==
  ASSUME config \in Configs, NEW start \in -1 .. N - 1, NEW img, NEW fuse,
         NEW p \in Partitions, Loads(p, img, fuse)
  PROVE  LET q == LoadBootImage(start, img, fuse) IN
         /\ q \in Partitions /\ Loads(q, img, fuse)
         /\ LoadRank(start, q) <= LoadRank(start, p)
  <1> DEFINE bootable == {q \in Partitions : Loads(q, img, fuse)}
             T == {LoadRank(start, q) : q \in bootable}
             First(q) == \A r \in bootable : LoadRank(start, q) <= LoadRank(start, r)
  <1>1. \A q \in Partitions : q \in Int /\ q >= -1
    BY Build
  <1>2. T \in SUBSET Nat
    BY <1>1, Build DEF LoadRank
  <1>3. p \in bootable /\ T # {}
    OBVIOUS
  <1>4. PICK n \in T : \A m \in T : n <= m
    <2> HIDE DEF T
    <2> QED BY <1>2, <1>3, LeastNatural
  <1>5. PICK q \in bootable : First(q)
    BY <1>4
  <1>6. LoadBootImage(start, img, fuse) = CHOOSE r \in bootable : First(r)
    BY <1>3 DEF LoadBootImage
  <1>7. (CHOOSE r \in bootable : First(r)) \in bootable /\ First(CHOOSE r \in bootable : First(r))
    <2> HIDE DEF First, bootable
    <2> QED BY <1>5, Zenon
  <1> QED BY <1>3, <1>6, <1>7

(* A start index that loads is taken.                                        *)
LEMMA LoadStart ==
  ASSUME config \in Configs, NEW start \in Partitions, NEW img, NEW fuse,
         Loads(start, img, fuse)
  PROVE  LoadBootImage(start, img, fuse) = start
  <1>1. start \in -1 .. N - 1
    BY Build
  <1> DEFINE q == LoadBootImage(start, img, fuse)
  <1>2. q \in Partitions /\ LoadRank(start, q) <= LoadRank(start, start)
    BY <1>1, LoadFinds
  <1> HIDE DEF q
  <1>3. q \in Int /\ q >= -1
    BY <1>2, Build
  <1>4. q = start
    BY <1>1, <1>2, <1>3 DEF LoadRank
  <1> QED BY <1>4 DEF q

-------------------------------------------------------------------------------
(* Types.                                                                    *)

(* Entries and their fields.                                                 *)
LEMMA EntryTypes ==
  ASSUME config \in Configs
  PROVE  /\ Erased \in Entries
         /\ \A e \in Entries : e.seq \in -1 .. MaxSeq /\ e.state \in States /\ e.crc \in BOOLEAN
         /\ \A seq \in -1 .. MaxSeq, state \in States : Entry(seq, state) \in Entries
         /\ \A e \in Entries, s \in States : [e EXCEPT !.state = s] \in Entries
         /\ \A e \in Entries : [e EXCEPT !.crc = FALSE] \in Entries
         /\ \A e \in Entries : [e EXCEPT !.crc = FALSE, !.state = "UNDEFINED"] \in Entries
  <1>1. Erased \in Entries
    BY Build DEF Erased, Entries, UINT32_MAX, States
  <1>2. \A seq \in -1 .. MaxSeq, state \in States : Entry(seq, state) \in Entries
    BY Zenon DEF Entry, Entries
  <1>3. "UNDEFINED" \in States
    BY DEF States
  <1> QED BY <1>1, <1>2, <1>3, Zenon DEF Entries

(* Flash operations.                                                         *)
LEMMA OpTypes ==
  ASSUME config \in Configs
  PROVE  /\ \A i \in {0, 1} : EraseSector(i) \in OtaOps
         /\ \A i \in {0, 1}, e \in Entries : WriteEntry(i, e) \in OtaOps
         /\ \A p \in Slots : Wipe(p) \in Ops
         /\ \A v \in 0 .. MaxVersion : Burn(v) \in Ops
         /\ OtaOps \subseteq Ops
         /\ <<>> \in Seq(Ops)
         /\ \A i \in {0, 1}, e \in Entries : Rewrite(i, e) \in Seq(Ops)
  <1>1. \A i \in {0, 1} : EraseSector(i) \in OtaOps
    BY EntryTypes, Zenon DEF EraseSector, OtaOps
  <1>2. \A i \in {0, 1}, e \in Entries : WriteEntry(i, e) \in OtaOps
    BY Zenon DEF WriteEntry, OtaOps
  <1>3. \A p \in Slots : Wipe(p) \in Ops
    BY Zenon DEF Wipe, Ops
  <1>4. \A v \in 0 .. MaxVersion : Burn(v) \in Ops
    BY Zenon DEF Burn, Ops
  <1>5. OtaOps \subseteq Ops
    BY DEF Ops
  <1>6. \A i \in {0, 1}, e \in Entries : Rewrite(i, e) \in Seq(Ops)
    <2> HIDE DEF OtaOps, Ops
    <2> QED BY <1>1, <1>2, <1>5 DEF Rewrite
  <1> QED BY <1>1, <1>2, <1>3, <1>4, <1>5, <1>6

(* Which entry is active.                                                    *)
LEMMA ActiveTypes ==
  ASSUME NEW d, NEW valid \in [{0, 1} -> BOOLEAN]
  PROVE  /\ SelectOtadata(d, valid) \in {-1, 0, 1}
         /\ SelectOtadata(d, valid) # -1 => valid[SelectOtadata(d, valid)]
         /\ SelectOtadata(d, valid) = -1 <=> ~valid[0] /\ ~valid[1]
  BY DEF SelectOtadata

(* The valid entries of the data, and its active entry.                      *)
LEMMA ActiveEntry ==
  ASSUME NEW d
  PROVE  /\ Active(d) \in {-1, 0, 1}
         /\ Active(d) # -1 => SelectValid(d[Active(d)])
         /\ Active(d) = -1 <=> ~SelectValid(d[0]) /\ ~SelectValid(d[1])
  <1>1. [i \in {0, 1} |-> SelectValid(d[i])] \in [{0, 1} -> BOOLEAN]
    BY DEF SelectValid
  <1> QED BY <1>1, ActiveTypes DEF Active

(* A valid entry has a number, and its slot exists.                          *)
LEMMA ValidEntry ==
  ASSUME config \in Configs, NEW e \in Entries, SelectValid(e)
  PROVE  e.seq \in Nat /\ SlotOf(e) \in Slots
  <1>1. e.seq \in -1 .. MaxSeq /\ e.seq # -1
    BY EntryTypes DEF SelectValid, SelectInvalid, UINT32_MAX
  <1>2. N \in Nat /\ N > 0 /\ MaxSeq \in Nat /\ Slots = 0 .. N - 1
    BY Build
  <1> QED BY <1>1, <1>2 DEF SlotOf

(* The bootloader's copy of the entries: an entry is valid there only if it  *)
(* is in flash, and has the same number.                                     *)
LEMMA Aborted ==
  ASSUME config \in Configs, NEW d \in [{0, 1} -> Entries]
  PROVE  /\ AbortPending(d) \in [{0, 1} -> Entries]
         /\ \A i \in {0, 1} : /\ AbortPending(d)[i].seq = d[i].seq
                              /\ SelectValid(AbortPending(d)[i]) => SelectValid(d[i])
                              /\ SelectValid(AbortPending(d)[i]) <=>
                                   SelectValid(d[i]) /\ ~(Rollback /\ d[i].state = "PENDING_VERIFY")
                              /\ d[i].state # "PENDING_VERIFY" => AbortPending(d)[i] = d[i]
  <1>1. "ABORTED" \in States
    BY DEF States
  <1>2. \A i \in {0, 1} : [d[i] EXCEPT !.state = "ABORTED"] \in Entries
    BY <1>1, EntryTypes
  <1>3. AbortPending(d) \in [{0, 1} -> Entries]
    BY <1>2 DEF AbortPending
  <1>4. ASSUME NEW i \in {0, 1}
        PROVE  /\ [d[i] EXCEPT !.state = "ABORTED"].seq = d[i].seq
               /\ [d[i] EXCEPT !.state = "ABORTED"].state = "ABORTED"
    BY Zenon DEF Entries
  <1> QED BY <1>3, <1>4 DEF AbortPending, SelectValid, SelectInvalid

(* What a boot selects.                                                      *)
LEMMA BootTypes ==
  ASSUME config \in Configs, NEW d \in [{0, 1} -> Entries], NEW img, NEW fuse
  PROVE  /\ BootEntry(d, img, fuse) \in {-1, 0, 1}
         /\ BootEntry(d, img, fuse) # -1 =>
              /\ SelectValid(d[BootEntry(d, img, fuse)])
              /\ AntiRollback =>
                   CheckSecureVersion(img[SlotOf(d[BootEntry(d, img, fuse)])].version, fuse)
         /\ StartIndex(d, BootEntry(d, img, fuse)) \in -1 .. N - 1
         /\ BootEntry(d, img, fuse) # -1 =>
              StartIndex(d, BootEntry(d, img, fuse)) = SlotOf(d[BootEntry(d, img, fuse)])
  <1>1. [i \in {0, 1} |-> SelectValid(d[i])
           /\ CheckSecureVersion(img[SlotOf(d[i])].version, fuse)] \in [{0, 1} -> BOOLEAN]
    BY DEF SelectValid, CheckSecureVersion
  <1>2. /\ BootEntry(d, img, fuse) \in {-1, 0, 1}
        /\ BootEntry(d, img, fuse) # -1 => SelectValid(d[BootEntry(d, img, fuse)])
        /\ BootEntry(d, img, fuse) # -1 /\ AntiRollback =>
             CheckSecureVersion(img[SlotOf(d[BootEntry(d, img, fuse)])].version, fuse)
    BY <1>1, ActiveTypes, ActiveEntry, Build DEF BootEntry
  <1> DEFINE entry == BootEntry(d, img, fuse)
  <1>3. entry # -1 => SlotOf(d[entry]) \in Slots /\ d[entry] \in Entries
    BY <1>2, ValidEntry
  <1>4. entry # -1 => StartIndex(d, entry) = SlotOf(d[entry])
    BY DEF StartIndex
  <1>5. entry = -1 => StartIndex(d, entry) \in {0, -1}
    BY DEF StartIndex, FACTORY_INDEX
  <1> QED BY <1>2, <1>3, <1>4, <1>5, Build

(* The eFuse as the bootloader burns it before it loads anything.            *)
Burnt(d, entry, img, fuse) ==
  IF AntiRollback /\ entry # -1 /\ d[entry].state = "VALID"
  THEN UpdateSecureVersion(img[SlotOf(d[entry])].version, fuse) ELSE fuse

(* A boot taken apart.                                                       *)
LEMMA BootParts ==
  ASSUME NEW d, NEW img, NEW fuse
  PROVE  LET b == BootDecision(d, img, fuse)
             a == AbortPending(d)
             entry == BootEntry(a, img, fuse)
         IN  /\ b.d = a /\ b.entry = entry /\ b.efuse = Burnt(a, entry, img, fuse)
             /\ b.part = LoadBootImage(StartIndex(a, entry), img, Burnt(a, entry, img, fuse))
             /\ BootChoice(d, img, fuse) = b.part
  BY DEF BootDecision, Burnt, BootChoice

(* Versions                                                                  *)
LEMMA BurntTypes ==
  ASSUME config \in Configs, NEW d \in [{0, 1} -> Entries], NEW img \in [Partitions -> Images],
         NEW fuse \in 0 .. MaxVersion
  PROVE  LET entry == BootEntry(d, img, fuse)
             burnt == Burnt(d, entry, img, fuse)
         IN  /\ burnt \in fuse .. MaxVersion
             /\ burnt = fuse \/ (/\ AntiRollback /\ entry # -1 /\ d[entry].state = "VALID"
                                 /\ burnt = img[SlotOf(d[entry])].version)
             /\ AntiRollback /\ entry # -1 =>
                  CheckSecureVersion(img[SlotOf(d[entry])].version, burnt)
  <1> DEFINE entry == BootEntry(d, img, fuse)
             v == img[SlotOf(d[entry])].version
  <1>1. entry # -1 => v \in -1 .. MaxVersion
    BY BootTypes, ValidEntry, Build DEF Images
  <1>2. entry # -1 /\ AntiRollback => v # -1 /\ v >= fuse
    BY BootTypes DEF CheckSecureVersion, NoDescription
  <1>3. Burnt(d, entry, img, fuse) = IF AntiRollback /\ entry # -1 /\ d[entry].state = "VALID"
                                     THEN IF v > fuse THEN v ELSE fuse ELSE fuse
    BY DEF Burnt, UpdateSecureVersion
  <1> HIDE DEF entry, v
  <1>4. /\ Burnt(d, entry, img, fuse) \in fuse .. MaxVersion
        /\ Burnt(d, entry, img, fuse) = fuse \/ (/\ AntiRollback /\ entry # -1
                                                 /\ d[entry].state = "VALID"
                                                 /\ Burnt(d, entry, img, fuse) = v)
        /\ AntiRollback /\ entry # -1 => CheckSecureVersion(v, Burnt(d, entry, img, fuse))
    BY <1>1, <1>2, <1>3, Build DEF CheckSecureVersion, NoDescription
  <1> QED BY <1>4 DEF entry, v

(* If the entry a boot selects names p, and p loads, then p is booted.       *)
LEMMA BootOfEntry ==
  ASSUME config \in Configs, NEW d \in [{0, 1} -> Entries], NEW img \in [Partitions -> Images],
         NEW fuse \in 0 .. MaxVersion,
         LET entry == BootEntry(AbortPending(d), img, fuse)
         IN  entry # -1 /\ img[SlotOf(AbortPending(d)[entry])].ok
  PROVE  BootChoice(d, img, fuse) = SlotOf(AbortPending(d)[BootEntry(AbortPending(d), img, fuse)])
  <1> DEFINE a == AbortPending(d)
             entry == BootEntry(a, img, fuse)
             burnt == Burnt(a, entry, img, fuse)
             p == SlotOf(a[entry])
  <1>1. a \in [{0, 1} -> Entries]
    BY Aborted
  <1>2. SelectValid(a[entry]) /\ entry \in {0, 1} /\ StartIndex(a, entry) = p
    BY <1>1, BootTypes
  <1>3. p \in Partitions
    BY <1>1, <1>2, ValidEntry, Build
  <1>4. AntiRollback => CheckSecureVersion(img[p].version, burnt)
    BY <1>1, BurntTypes
  <1>5. Loads(p, img, burnt)
    BY <1>4 DEF Loads, CheckAntiRollback
  <1>6. LoadBootImage(p, img, burnt) = p
    <2> HIDE DEF burnt, p
    <2> QED BY <1>3, <1>5, LoadStart
  <1> QED BY <1>2, <1>6, BootParts

(* esp_rewrite_ota_data: when the entry has been replaced, the bootloader    *)
(* starts the slot that was asked for.  The new number may equal that of the *)
(* other entry, but only if that one names the same slot.                    *)
LEMMA SetBootChoice ==
  ASSUME config \in Configs, NEW d \in [{0, 1} -> Entries], NEW img \in [Partitions -> Images],
         NEW fuse \in 0 .. MaxVersion, NEW p \in Slots, img[p].ok,
         AntiRollback => CheckSecureVersion(img[p].version, fuse),
         RewriteEntry(d, p).seq <= MaxSeq
  PROVE  /\ RewriteSector(d) \in {0, 1} /\ RewriteEntry(d, p) \in Entries
         /\ BootChoice(Rewritten(d, RewriteSector(d), RewriteEntry(d, p)), img, fuse) = p
  <1> DEFINE i == RewriteSector(d)
             e == RewriteEntry(d, p)
             k == Active(d)
             dd == Rewritten(d, i, e)
             a == AbortPending(dd)
             entry == BootEntry(a, img, fuse)
  <1>1. i \in {0, 1} /\ k \in {-1, 0, 1} /\ (k # -1 => i = 1 - k) /\ (k = -1 => i = 0)
    BY ActiveEntry DEF RewriteSector
  <1>2. k # -1 => d[k] \in Entries /\ SelectValid(d[k]) /\ d[k].seq \in Nat
    BY <1>1, ActiveEntry, ValidEntry
  <1>3. ~SelectValid(d[1 - i]) \/ (1 - i = k)
    BY <1>1, ActiveEntry
  <1>4. /\ e.crc = TRUE /\ e.state \in {"NEW", "UNDEFINED"}
        /\ e.seq = IF k = -1 THEN p + 1 ELSE NextSeq(p, d[k].seq)
    BY DEF RewriteEntry, Entry, NewState
  <1>5. e.seq \in Nat /\ SlotOf(e) = p /\ (k # -1 => e.seq >= d[k].seq)
    <2>1. N \in Nat /\ N > 0 /\ p \in 0 .. N - 1
      BY Build
    <2>2. CASE k = -1
      <3>1. e.seq = p + 1
        BY <1>4, <2>2
      <3>2. (p + 1 - 1) % N = p
        BY <2>1
      <3> QED BY <2>1, <2>2, <3>1, <3>2 DEF SlotOf
    <2>3. CASE k # -1
      BY <1>2, <1>4, <2>3, NextSeqSelects DEF SlotOf
    <2> QED BY <2>2, <2>3
  <1>6. e \in Entries
    <2>1. MaxSeq \in Nat
      BY Build
    <2>2. e.seq \in -1 .. MaxSeq
      BY <1>5, <2>1
    <2>3. e = Entry(e.seq, e.state) /\ e.state \in States
      BY <1>4 DEF RewriteEntry, Entry, States
    <2> QED BY <2>2, <2>3, EntryTypes
  <1>7. SelectValid(e)
    BY <1>4, <1>5 DEF SelectValid, SelectInvalid, UINT32_MAX
  <1> HIDE DEF e, i, k
  <1>8. dd \in [{0, 1} -> Entries] /\ dd[i] = e /\ dd[1 - i] = d[1 - i] /\ i \in {0, 1} /\ 1 - i \in {0, 1}
    BY <1>1, <1>6 DEF Rewritten
  <1> HIDE DEF dd
  <1>9. /\ a \in [{0, 1} -> Entries] /\ a[i] = e
        /\ a[1 - i].seq = d[1 - i].seq /\ (SelectValid(a[1 - i]) => 1 - i = k)
    BY <1>3, <1>4, <1>8, Aborted
  <1> HIDE DEF a
  <1>10. SelectValid(a[1 - i]) => a[1 - i].seq \in Nat /\ e.seq >= a[1 - i].seq
    BY <1>2, <1>5, <1>8, <1>9
  <1>11. AntiRollback => CheckSecureVersion(img[SlotOf(a[i])].version, fuse)
    BY <1>5, <1>9
  <1>12. entry \in {0, 1} /\ SlotOf(a[entry]) = p
    <2>1. SelectValid(a[i])
      BY <1>7, <1>9
    <2>2. ASSUME NEW valid \in [{0, 1} -> BOOLEAN], valid[i], valid[1 - i] => SelectValid(a[1 - i])
          PROVE  /\ SelectOtadata(a, valid) \in {0, 1}
                 /\ SlotOf(a[SelectOtadata(a, valid)]) = p
      <3>1. valid[1 - i] => e.seq >= a[1 - i].seq /\ a[1 - i].seq \in Nat
        BY <1>10, <2>2
      <3>2. SelectOtadata(a, valid) \in {i, 1 - i}
             /\ (SelectOtadata(a, valid) = 1 - i => a[1 - i].seq = e.seq)
        BY <1>5, <1>8, <1>9, <2>2, <3>1 DEF SelectOtadata
      <3> QED BY <1>5, <1>8, <1>9, <3>2 DEF SlotOf
    <2>3. [j \in {0, 1} |-> SelectValid(a[j])] \in [{0, 1} -> BOOLEAN]
      BY DEF SelectValid
    <2>4. [j \in {0, 1} |-> SelectValid(a[j]) /\ CheckSecureVersion(img[SlotOf(a[j])].version, fuse)]
            \in [{0, 1} -> BOOLEAN]
      BY DEF SelectValid, CheckSecureVersion
    <2>5. CASE AntiRollback
      BY <1>8, <1>11, <2>1, <2>2, <2>4, <2>5 DEF BootEntry
    <2>6. CASE ~AntiRollback
      BY <1>8, <2>1, <2>2, <2>3, <2>6 DEF BootEntry, Active
    <2> QED BY <2>5, <2>6
  <1>13. BootChoice(dd, img, fuse) = p
    BY <1>8, <1>12, BootOfEntry DEF a
  <1> QED BY <1>6, <1>8, <1>13 DEF e, i, dd

(* Formatting the OTA data selects the factory application.                  *)
LEMMA FormatChoice ==
  ASSUME config \in Configs, NEW d \in [{0, 1} -> Entries], NEW img, NEW fuse,
         HasFactory, img[FACTORY_INDEX].ok, d[0] = Erased, d[1] = Erased
  PROVE  BootChoice(d, img, fuse) = FACTORY_INDEX
  <1>1. ~AntiRollback /\ FACTORY_INDEX \in Partitions
    BY Build
  <1>2. \A i \in {0, 1} : AbortPending(d)[i] = Erased
    <2>1. Erased.state # "PENDING_VERIFY"
      BY DEF Erased
    <2> QED BY <2>1, Aborted
  <1>3. ~SelectValid(Erased)
    BY DEF SelectValid, SelectInvalid, Erased
  <1>4. BootEntry(AbortPending(d), img, fuse) = -1
    BY <1>1, <1>2, <1>3, ActiveEntry DEF BootEntry
  <1>5. StartIndex(AbortPending(d), -1) = FACTORY_INDEX
    BY DEF StartIndex
  <1>6. Loads(FACTORY_INDEX, img, fuse)
    BY <1>1 DEF Loads, CheckAntiRollback
  <1> QED BY <1>1, <1>4, <1>5, <1>6, LoadStart, BootParts DEF Burnt

-------------------------------------------------------------------------------
(* The type invariant.                                                       *)

(* The build never changes, and with it the sets that depend on it.          *)
LEMMA SameBuild ==
  ASSUME config' = config
  PROVE  /\ N' = N /\ Slots' = Slots /\ Partitions' = Partitions /\ MaxVersion' = MaxVersion
         /\ MaxSeq' = MaxSeq /\ Rollback' = Rollback /\ AntiRollback' = AntiRollback
         /\ HasFactory' = HasFactory /\ Liberties' = Liberties
         /\ Entries' = Entries /\ Images' = Images /\ Ops' = Ops /\ Calls' = Calls
         /\ Updates' = Updates
  BY DEF N, Slots, Partitions, MaxVersion, MaxSeq, Rollback, AntiRollback, HasFactory, Liberties,
     Entries, Images, Ops, OtaOps, Calls, Updates

(* The first operation of a list, and the others.                            *)
LEMMA OpsLeft ==
  ASSUME todo \in Seq(Ops), todo # <<>>
  PROVE  Head(todo) \in Ops /\ Tail(todo) \in Seq(Ops)
  BY HeadTailProperties

(* Partitions, the image of which changes.                                   *)
LEMMA ImageTypes ==
  ASSUME config \in Configs
  PROVE  /\ NoImage \in Images
         /\ \A v \in 0 .. MaxVersion, ok \in BOOLEAN : [version |-> v, ok |-> ok] \in Images
         /\ \A g \in Images : g.version \in -1 .. MaxVersion /\ g.ok \in BOOLEAN
  BY Build DEF NoImage, NoDescription, Images

(* Flash operations and resets.                                              *)
LEMMA FlashTypes ==
  ASSUME TypeOK, UNCHANGED config, FlashStep
  PROVE  TypeOK'
  <1>1. config \in Configs /\ todo \in Seq(Ops) /\ todo # <<>>
    BY DEF TypeOK, FlashStep
  <1>2. Head(todo) \in Ops /\ Tail(todo) \in Seq(Ops)
    BY <1>1, OpsLeft
  <1> DEFINE op == Head(todo)
  <1>3. /\ op.op \in {"erase", "write"} => op.at \in {0, 1} /\ op.entry \in Entries
        /\ op.op = "wipe" => op.at \in Slots
        /\ op.op = "burn" => op.at \in 0 .. MaxVersion
    <2> HIDE DEF op
    <2> QED BY <1>2 DEF Ops, OtaOps, op
  <1> HIDE DEF op
  <1>4. otadata' \in [{0, 1} -> Entries]
    BY <1>3 DEF TypeOK, FlashStep, op
  <1>5. image' \in [Partitions -> Images]
    BY <1>1, <1>3, ImageTypes, Build DEF TypeOK, FlashStep, op
  <1>6. efuse' \in 0 .. MaxVersion
    BY <1>1, <1>3, Build DEF TypeOK, FlashStep, op, UpdateSecureVersion
  <1>7. todo' \in Seq(Ops) /\ UNCHANGED <<config, mode, running, call, handle, ghosts>>
    BY <1>2 DEF FlashStep
  <1> QED BY <1>4, <1>5, <1>6, <1>7, SameBuild DEF TypeOK, ghosts

(* Calls and handles.                                                        *)
LEMMA CallTypes ==
  ASSUME config \in Configs
  PROVE  /\ Idle \in Calls /\ NoHandle \in Updates
         /\ \A fn \in {"none", "boot", "set_boot", "mark_valid", "mark_invalid", "erase_last"},
               p \in Partitions \cup {NoPartition} : [fn |-> fn, part |-> p] \in Calls
         /\ \A c \in Calls : c.part \in Partitions \cup {NoPartition}
         /\ \A p \in Slots, v \in 0 .. MaxVersion, lazy \in BOOLEAN, stage \in 0 .. 2 :
               [part |-> p, version |-> v, lazy |-> lazy, stage |-> stage] \in Updates
  <1>1. 0 \in 0 .. MaxVersion /\ 0 \in 0 .. 2
    BY Build
  <1> QED BY <1>1, Zenon DEF Idle, NoHandle, Calls, Updates

(* What the bootloader loads.                                                *)
LEMMA LoadTypes ==
  ASSUME config \in Configs, NEW start \in -1 .. N - 1, NEW img \in [Partitions -> Images],
         NEW fuse \in 0 .. MaxVersion
  PROVE  LET q == LoadBootImage(start, img, fuse) IN
         /\ q \in Partitions \cup {NoPartition}
         /\ q \in Partitions => /\ Loads(q, img, fuse)
                                /\ AntiRollback => img[q].version \in fuse .. MaxVersion
         /\ q = NoPartition <=> \A p \in Partitions : ~Loads(p, img, fuse)
  <1> DEFINE q == LoadBootImage(start, img, fuse)
  <1>1. CASE \A p \in Partitions : ~Loads(p, img, fuse)
    <2>1. q = NoPartition
      BY <1>1 DEF LoadBootImage
    <2> QED BY <1>1, <2>1, Build
  <1>2. CASE \E p \in Partitions : Loads(p, img, fuse)
    <2>1. q \in Partitions /\ Loads(q, img, fuse)
      BY <1>2, LoadFinds
    <2> HIDE DEF q
    <2>2. img[q].version \in -1 .. MaxVersion
      BY <2>1, ImageTypes
    <2>3. AntiRollback => img[q].version \in fuse .. MaxVersion
      BY <2>1, <2>2, Build DEF Loads, CheckAntiRollback, CheckSecureVersion
    <2> QED BY <1>2, <2>1, <2>3, Build DEF q
  <1> QED BY <1>1, <1>2

(* Power failures.                                                           *)
LEMMA ResetTypes ==
  ASSUME TypeOK, UNCHANGED config, Reset
  PROVE  TypeOK'
  <1>1. config \in Configs /\ todo \in Seq(Ops) /\ otadata \in [{0, 1} -> Entries]
    BY DEF TypeOK
  <1>2. otadata' \in [{0, 1} -> Entries]
    <2>1. CASE otadata' = otadata
      BY <1>1, <2>1
    <2>2. CASE /\ todo # <<>>
               /\ \E e \in Torn(Head(todo)) : otadata' = [otadata EXCEPT ![Head(todo).at] = e]
      <3> DEFINE op == Head(todo)
      <3>1. PICK e \in Torn(op) : otadata' = [otadata EXCEPT ![op.at] = e]
        BY <2>2
      <3>2. op \in Ops
        BY <1>1, <2>2, OpsLeft
      <3> HIDE DEF op
      <3>3. op.op \in {"erase", "write"} => op.at \in {0, 1} /\ op.entry \in Entries
        BY <3>2 DEF Ops, OtaOps
      <3>4. e \in Entries /\ op.at \in {0, 1}
        <4>1. CASE op.op = "erase"
          <5>1. otadata[op.at] \in Entries /\ e = [otadata[op.at] EXCEPT !.crc = FALSE]
            BY <1>1, <3>1, <3>3, <4>1 DEF Torn
          <5> QED BY <1>1, <3>3, <4>1, <5>1, EntryTypes
        <4>2. CASE op.op = "write"
          <5>1. \/ e = [op.entry EXCEPT !.crc = FALSE]
                \/ e = [op.entry EXCEPT !.crc = FALSE, !.state = "UNDEFINED"]
            BY <3>1, <4>2 DEF Torn
          <5> QED BY <1>1, <3>3, <4>2, <5>1, EntryTypes
        <4>3. op.op = "erase" \/ op.op = "write"
          BY <3>1 DEF Torn
        <4> QED BY <4>1, <4>2, <4>3
      <3> QED BY <1>1, <3>1, <3>4
    <2> QED BY <2>1, <2>2 DEF Reset
  <1>3. /\ Idle \in Calls /\ NoHandle \in Updates /\ <<>> \in Seq(Ops) /\ NoPartition = NoPartition'
        /\ NoPartition \notin Partitions
    BY <1>1, CallTypes, OpTypes, Build DEF NoPartition
  <1> QED BY <1>2, <1>3, SameBuild DEF TypeOK, Reset

(* The list of flash operations of a boot, in the order of the code.         *)
LEMMA BootShape ==
  ASSUME Boot
  PROVE  LET a == AbortPending(otadata)
             entry == BootEntry(a, image, efuse)
             burnt == Burnt(a, entry, image, efuse)
             p == LoadBootImage(StartIndex(a, entry), image, burnt)
         IN  /\ todo' = (IF a[0] # otadata[0] THEN Rewrite(0, a[0]) ELSE <<>>)
                        \o (IF a[1] # otadata[1] THEN Rewrite(1, a[1]) ELSE <<>>)
                        \o MarkPending(a, entry)
                        \o (IF burnt # efuse THEN <<Burn(burnt)>> ELSE <<>>)
                        \o SetActualOtaSeq(a, p)
             /\ call' = [fn |-> "boot", part |-> p]
             /\ p = BootChoice(otadata, image, efuse)
  <1> DEFINE a == AbortPending(otadata)
             entry == BootEntry(a, image, efuse)
             burnt == Burnt(a, entry, image, efuse)
             p == LoadBootImage(StartIndex(a, entry), image, burnt)
             b == BootDecision(otadata, image, efuse)
  <1>1. /\ b.d = a /\ b.entry = entry /\ b.efuse = burnt /\ b.part = p
        /\ BootChoice(otadata, image, efuse) = b.part
    BY BootParts
  <1>2. /\ todo' = (IF b.d[0] # otadata[0] THEN Rewrite(0, b.d[0]) ELSE <<>>)
                   \o (IF b.d[1] # otadata[1] THEN Rewrite(1, b.d[1]) ELSE <<>>)
                   \o MarkPending(b.d, b.entry)
                   \o (IF b.efuse # efuse THEN <<Burn(b.efuse)>> ELSE <<>>)
                   \o SetActualOtaSeq(b.d, b.part)
        /\ call' = [fn |-> "boot", part |-> b.part]
    BY Zenon DEF Boot
  <1> HIDE DEF b, a, entry, burnt, p
  <1>3. /\ todo' = (IF a[0] # otadata[0] THEN Rewrite(0, a[0]) ELSE <<>>)
                   \o (IF a[1] # otadata[1] THEN Rewrite(1, a[1]) ELSE <<>>)
                   \o MarkPending(a, entry)
                   \o (IF burnt # efuse THEN <<Burn(burnt)>> ELSE <<>>)
                   \o SetActualOtaSeq(a, p)
        /\ call' = [fn |-> "boot", part |-> p]
        /\ p = BootChoice(otadata, image, efuse)
    BY <1>1, <1>2
  <1> QED BY <1>3, Zenon DEF a, entry, burnt, p

(* A boot aborts what is pending, marks what is new, burns what is valid and *)
(* fills empty OTA data.                                                     *)
LEMMA BootOps ==
  ASSUME TypeOK, UNCHANGED config, Boot
  PROVE  /\ todo' \in Seq(Ops) /\ call' \in Calls
         /\ call' = [fn |-> "boot", part |-> BootChoice(otadata, image, efuse)]
         /\ \A j \in 1 .. Len(todo') :
              /\ todo'[j].op # "wipe"
              /\ todo'[j].op = "burn" =>
                   /\ AntiRollback
                   /\ call'.part \in Partitions => todo'[j].at <= image[call'.part].version
         /\ call'.part \in Partitions => Runnable(call'.part)
  <1>1. /\ config \in Configs /\ otadata \in [{0, 1} -> Entries]
        /\ image \in [Partitions -> Images] /\ efuse \in 0 .. MaxVersion
    BY DEF TypeOK
  <1> DEFINE a == AbortPending(otadata)
             entry == BootEntry(a, image, efuse)
             burnt == Burnt(a, entry, image, efuse)
             p == LoadBootImage(StartIndex(a, entry), image, burnt)
             Ab(i) == IF a[i] # otadata[i] THEN Rewrite(i, a[i]) ELSE <<>>
             fuse == IF burnt # efuse THEN <<Burn(burnt)>> ELSE <<>>
             Allowed == {op \in Ops : /\ op.op # "wipe"
                                      /\ op.op = "burn" => /\ AntiRollback
                                                           /\ p \in Partitions => op.at <= image[p].version}
  <1>2. /\ todo' = Ab(0) \o Ab(1) \o MarkPending(a, entry) \o fuse \o SetActualOtaSeq(a, p)
        /\ call' = [fn |-> "boot", part |-> p]
        /\ p = BootChoice(otadata, image, efuse)
    BY BootShape
  <1>3. a \in [{0, 1} -> Entries]
    BY <1>1, Aborted
  <1>4. entry \in {-1, 0, 1} /\ StartIndex(a, entry) \in -1 .. N - 1
    BY <1>1, <1>3, BootTypes
  <1>5. burnt \in efuse .. MaxVersion
    BY <1>1, <1>3, BurntTypes
  <1>6. burnt \in 0 .. MaxVersion
    <2> HIDE DEF burnt
    <2> QED BY <1>1, <1>5, Build
  <1>7. /\ p \in Partitions \cup {NoPartition}
        /\ p \in Partitions => Loads(p, image, burnt)
        /\ p \in Partitions /\ AntiRollback => image[p].version \in burnt .. MaxVersion
    <2> HIDE DEF burnt, entry, a
    <2> QED BY <1>1, <1>4, <1>6, LoadTypes
  <1>8. burnt = efuse \/ AntiRollback
    BY <1>1, <1>3, BurntTypes
  <1> HIDE DEF a, entry, burnt, p
  <1>9. \A i \in {0, 1}, e \in Entries : Rewrite(i, e) \in Seq(Allowed)
    <2>1. OtaOps \subseteq Allowed
      BY <1>1, OpTypes DEF OtaOps
    <2>2. \A i \in {0, 1}, e \in Entries : EraseSector(i) \in OtaOps /\ WriteEntry(i, e) \in OtaOps
      BY <1>1, OpTypes
    <2> HIDE DEF Allowed
    <2> QED BY <2>1, <2>2 DEF Rewrite
  <1>10. ASSUME NEW v \in 0 .. MaxVersion, AntiRollback,
                p \in Partitions => v <= image[p].version
         PROVE  <<Burn(v)>> \in Seq(Allowed)
    <2>1. Burn(v) \in Ops /\ Burn(v).op = "burn" /\ Burn(v).at = v
      BY <1>1, OpTypes DEF Burn
    <2>2. Burn(v) \in Allowed
      BY <1>10, <2>1
    <2> HIDE DEF Allowed
    <2> QED BY <2>2
  <1>11. <<>> \in Seq(Allowed)
    <2> HIDE DEF Allowed
    <2> QED OBVIOUS
  <1>12. Ab(0) \in Seq(Allowed) /\ Ab(1) \in Seq(Allowed)
    <2> HIDE DEF Allowed
    <2> QED BY <1>1, <1>3, <1>9, <1>11
  <1>13. MarkPending(a, entry) \in Seq(Allowed)
    <2>1. "PENDING_VERIFY" \in States
      BY DEF States
    <2>2. entry # -1 => entry \in {0, 1} /\ [a[entry] EXCEPT !.state = "PENDING_VERIFY"] \in Entries
      BY <1>1, <1>3, <1>4, <2>1, EntryTypes
    <2> HIDE DEF Allowed
    <2> QED BY <1>9, <1>11, <2>2 DEF MarkPending
  <1>14. fuse \in Seq(Allowed)
    <2>1. CASE burnt = efuse
      BY <1>11, <2>1
    <2>2. CASE burnt # efuse
      <3>1. p \in Partitions => burnt <= image[p].version
        BY <1>1, <1>6, <1>7, <1>8, <2>2, Build
      <3>2. <<Burn(burnt)>> \in Seq(Allowed)
        BY <1>6, <1>8, <1>10, <2>2, <3>1
      <3> QED BY <2>2, <3>2
    <2> QED BY <2>1, <2>2
  <1>15. SetActualOtaSeq(a, p) \in Seq(Allowed)
    <2>1. CASE ~(p \in Slots /\ InitialContents(a))
      BY <1>11, <2>1 DEF SetActualOtaSeq
    <2>2. CASE p \in Slots /\ InitialContents(a)
      <3>1. p + 1 \in -1 .. MaxSeq /\ "VALID" \in States /\ p \in Partitions
        BY <1>1, <2>2, Build DEF States
      <3>2. Rewrite(0, Entry(p + 1, "VALID")) \in Seq(Allowed)
        BY <1>1, <1>9, <3>1, EntryTypes
      <3>3. AntiRollback => image[p].version \in 0 .. MaxVersion
        BY <1>1, <1>6, <1>7, <3>1, Build
      <3>4. (IF AntiRollback THEN <<Burn(image[p].version)>> ELSE <<>>) \in Seq(Allowed)
        <4>1. CASE AntiRollback
          <5>1. image[p].version <= image[p].version
            BY <1>1, <3>3, <4>1, Build
          <5>2. <<Burn(image[p].version)>> \in Seq(Allowed)
            BY <1>10, <3>3, <4>1, <5>1
          <5> QED BY <4>1, <5>2
        <4>2. CASE ~AntiRollback
          BY <1>11, <4>2
        <4> QED BY <4>1, <4>2
      <3> HIDE DEF Allowed
      <3> QED BY <2>2, <3>2, <3>4, ConcatProperties DEF SetActualOtaSeq
    <2> QED BY <2>1, <2>2
  <1>16. call' \in Calls /\ call'.part = p
    BY <1>1, <1>2, <1>7, CallTypes
  <1> HIDE DEF Ab, fuse, Allowed
  <1>17. Ab(0) \o Ab(1) \in Seq(Allowed)
    BY <1>12, ConcatProperties
  <1>18. Ab(0) \o Ab(1) \o MarkPending(a, entry) \in Seq(Allowed)
    BY <1>13, <1>17, ConcatProperties
  <1>19. Ab(0) \o Ab(1) \o MarkPending(a, entry) \o fuse \in Seq(Allowed)
    BY <1>14, <1>18, ConcatProperties
  <1>20. todo' \in Seq(Allowed)
    BY <1>2, <1>15, <1>19, ConcatProperties
  <1>21. /\ todo' \in Seq(Ops)
         /\ \A j \in 1 .. Len(todo') :
              /\ todo'[j].op # "wipe"
              /\ todo'[j].op = "burn" =>
                   AntiRollback /\ (p \in Partitions => todo'[j].at <= image[p].version)
    <2>1. \A j \in 1 .. Len(todo') : todo'[j] \in Allowed
      BY <1>20, ElementOfSeq
    <2>2. Allowed \subseteq Ops
      BY DEF Allowed
    <2>3. todo' \in Seq(Ops)
      BY <1>20, <2>2
    <2> QED BY <2>1, <2>3 DEF Allowed
  <1>22. p \in Partitions => Runnable(p)
    BY <1>1, <1>5, <1>6, <1>7, Build DEF Runnable, Loads, CheckAntiRollback
  <1> QED BY <1>2, <1>16, <1>21, <1>22

(* The bootloader starts, and starts an application.                         *)
LEMMA BootLoaderTypes ==
  ASSUME TypeOK, UNCHANGED config, Boot \/ StartApp
  PROVE  TypeOK'
  <1>1. config \in Configs
    BY DEF TypeOK
  <1>2. CASE Boot
    <2>1. todo' \in Seq(Ops) /\ call' \in Calls
      BY <1>2, BootOps
    <2> QED BY <1>2, <2>1, SameBuild DEF TypeOK, Boot, flash, ghosts, NoPartition
  <1>3. CASE StartApp
    <2>1. call.part \in Partitions \cup {NoPartition} /\ Idle \in Calls
      BY <1>1, CallTypes DEF TypeOK
    <2>2. NoPartition' = NoPartition /\ NoPartition \notin Partitions
      BY <1>1, Build DEF NoPartition
    <2>3. (mode' = "app") = (running' # NoPartition) /\ mode' \in {"off", "boot", "app"}
      BY <1>3 DEF StartApp
    <2>4. /\ running' \in Partitions \cup {NoPartition} /\ good' \in Partitions \cup {NoPartition}
          /\ tried' \subseteq Partitions /\ call' \in Calls
      BY <1>3, <2>1 DEF StartApp, TypeOK
    <2>5. UNCHANGED <<otadata, image, efuse, todo, handle, updated, target, switch, confirmed>>
      BY <1>3 DEF StartApp, flash
    <2> QED BY <2>2, <2>3, <2>4, <2>5, SameBuild DEF TypeOK
  <1> QED BY <1>2, <1>3

(* Downloads.                                                                *)
LEMMA DownloadTypes ==
  ASSUME TypeOK, UNCHANGED config,
         (\E p \in Slots, lazy \in BOOLEAN : OtaBegin(p, lazy)) \/ OtaWrite \/ OtaEnd \/ OtaAbort
  PROVE  TypeOK'
  <1>1. config \in Configs /\ NoPartition' = NoPartition /\ Slots \subseteq Partitions
    BY Build DEF TypeOK, NoPartition
  <1>2. NoHandle \in Updates
    BY <1>1, CallTypes
  <1>3. ASSUME NEW p \in Slots, NEW lazy \in BOOLEAN, OtaBegin(p, lazy)
        PROVE  TypeOK'
    <2>1. handle' \in Updates
      <3>1. PICK v \in 0 .. MaxVersion :
              handle' = [part |-> p, version |-> v, lazy |-> lazy, stage |-> 0]
        BY <1>3 DEF OtaBegin
      <3>2. 0 \in 0 .. 2
        OBVIOUS
      <3> QED BY <1>1, <3>1, <3>2, CallTypes
    <2>2. image' \in [Partitions -> Images]
      BY <1>1, <1>3, ImageTypes DEF OtaBegin, TypeOK
    <2>3. /\ confirmed' \subseteq Partitions /\ tried' \subseteq Partitions
          /\ switch' \subseteq Partitions /\ target' \in Partitions \cup {NoPartition}
      BY <1>3 DEF OtaBegin, ForgetImage, TypeOK
    <2>4. UNCHANGED <<otadata, efuse, mode, running, todo, call, updated, good>>
      BY <1>3 DEF OtaBegin
    <2> QED BY <1>1, <2>1, <2>2, <2>3, <2>4, SameBuild DEF TypeOK
  <1>4. CASE OtaWrite
    <2>1. handle' \in Updates /\ handle.version \in 0 .. MaxVersion
      <3>1. handle \in Updates /\ handle.stage + 1 \in 0 .. 2
        BY <1>4 DEF OtaWrite, TypeOK, Updates
      <3>2. [handle EXCEPT !.stage = handle.stage + 1] \in Updates
        BY <3>1, Zenon DEF Updates
      <3> QED BY <1>4, <3>1, <3>2 DEF OtaWrite, Updates
    <2>2. image' \in [Partitions -> Images]
      <3>1. PICK ok \in BOOLEAN :
              image' = [image EXCEPT ![handle.part] =
                          [version |-> handle.version, ok |-> ok /\ handle.stage = 1]]
        BY <1>4 DEF OtaWrite
      <3>2. [version |-> handle.version, ok |-> ok /\ handle.stage = 1] \in Images
        BY <1>1, <2>1, ImageTypes
      <3> QED BY <3>1, <3>2 DEF TypeOK
    <2>3. /\ confirmed' \subseteq Partitions /\ tried' \subseteq Partitions
          /\ switch' \subseteq Partitions /\ target' \in Partitions \cup {NoPartition}
      BY <1>4 DEF OtaWrite, ForgetImage, TypeOK
    <2>4. UNCHANGED <<otadata, efuse, mode, running, todo, call, updated, good>>
      BY <1>4 DEF OtaWrite
    <2> QED BY <1>1, <2>1, <2>2, <2>3, <2>4, SameBuild DEF TypeOK
  <1>5. CASE OtaEnd
    <2>1. handle.part \in Partitions \cup {NoPartition}
      BY <1>1 DEF TypeOK, Updates
    <2> QED BY <1>1, <1>2, <1>5, <2>1, SameBuild DEF TypeOK, OtaEnd, flash
  <1>6. CASE OtaAbort
    BY <1>1, <1>2, <1>6, SameBuild DEF TypeOK, OtaAbort, flash, ghosts
  <1> QED BY <1>3, <1>4, <1>5, <1>6

(* What a call that starts leaves alone.                                     *)
LEMMA StartTypes ==
  ASSUME TypeOK, UNCHANGED config, todo' \in Seq(Ops), call' \in Calls,
         UNCHANGED <<flash, mode, running, handle>>,
         {updated', target', good'} \subseteq Partitions \cup {NoPartition},
         switch' \subseteq Partitions, confirmed' \subseteq Partitions, tried' \subseteq Partitions
  PROVE  TypeOK'
  BY SameBuild DEF TypeOK, flash, NoPartition

(* Where the OTA data and the running application make a boot go.            *)
LEMMA ChoiceTypes ==
  ASSUME TypeOK
  PROVE  /\ BootChoice(otadata, image, efuse) \in Partitions \cup {NoPartition}
         /\ LET b == BootDecision(otadata, image, efuse)
            IN  b.part \in Partitions => image[b.part].ok
         /\ ~AntiRollback /\ (\E p \in Partitions : image[p].ok) =>
              BootChoice(otadata, image, efuse) # NoPartition
  <1>1. /\ config \in Configs /\ otadata \in [{0, 1} -> Entries]
        /\ image \in [Partitions -> Images] /\ efuse \in 0 .. MaxVersion
    BY DEF TypeOK
  <1> DEFINE a == AbortPending(otadata)
             entry == BootEntry(a, image, efuse)
             burnt == Burnt(a, entry, image, efuse)
  <1>2. a \in [{0, 1} -> Entries]
    BY <1>1, Aborted
  <1>3. StartIndex(a, entry) \in -1 .. N - 1
    BY <1>1, <1>2, BootTypes
  <1>4. burnt \in 0 .. MaxVersion
    <2>1. burnt \in efuse .. MaxVersion
      BY <1>1, <1>2, BurntTypes
    <2> HIDE DEF burnt
    <2> QED BY <1>1, <2>1, Build
  <1>5. LET q == LoadBootImage(StartIndex(a, entry), image, burnt)
        IN  /\ q \in Partitions \cup {NoPartition} /\ (q \in Partitions => image[q].ok)
            /\ ~AntiRollback /\ (\E p \in Partitions : image[p].ok) => q # NoPartition
    <2> HIDE DEF burnt, entry, a
    <2> QED BY <1>1, <1>3, <1>4, LoadTypes DEF Loads, CheckAntiRollback
  <1> QED BY <1>5, BootParts

(* Calls that change the OTA data.                                           *)
LEMMA SetBootTypes ==
  ASSUME TypeOK, UNCHANGED config, SetBootFactory \/ \E p \in Slots : SetBoot(p)
  PROVE  TypeOK'
  <1>1. /\ config \in Configs /\ Slots \subseteq Partitions /\ mode \in {"off", "boot", "app"}
        /\ (mode = "app") = (running # NoPartition) /\ running \in Partitions \cup {NoPartition}
    BY Build DEF TypeOK
  <1>2. BootChoice(otadata, image, efuse) \in Partitions \cup {NoPartition}
    BY ChoiceTypes
  <1>3. CASE SetBootFactory
    <2>1. FACTORY_INDEX \in Partitions /\ running \in Partitions
      BY <1>1, <1>3, Build DEF SetBootFactory, Ready
    <2>2. todo' \in Seq(Ops)
      <3>1. EraseSector(0) \in Ops /\ EraseSector(1) \in Ops
        BY <1>1, OpTypes
      <3> QED BY <1>3, <3>1 DEF SetBootFactory, Start
    <2>3. call' \in Calls
      BY <1>1, <1>3, <2>1, CallTypes DEF SetBootFactory, Start
    <2>4. switch' \subseteq Partitions
      <3>1. BootChoice(otadata, image, efuse) # NoPartition
        BY <1>1, <1>3, <2>1, ChoiceTypes, Build DEF SetBootFactory
      <3> QED BY <1>2, <1>3, <2>1, <3>1 DEF SetBootFactory
    <2> QED BY <1>3, <2>2, <2>3, <2>4, StartTypes DEF SetBootFactory, TypeOK
  <1>4. ASSUME NEW p \in Slots, SetBoot(p)
        PROVE  TypeOK'
    <2>1. p \in Partitions /\ running \in Partitions
      BY <1>1, <1>4 DEF SetBoot, Ready
    <2>2. CASE AntiRollback /\ ~CheckSecureVersion(image[p].version, efuse)
      <3>1. /\ Start("set_boot", NoPartition, <<Wipe(p)>>) /\ ForgetImage(p)
            /\ updated' = NoPartition /\ UNCHANGED <<flash, mode, running, handle, good>>
        BY <1>4, <2>2 DEF SetBoot
      <3>2. todo' \in Seq(Ops) /\ call' \in Calls
        <4>1. Wipe(p) \in Ops
          BY <1>1, OpTypes
        <4> QED BY <1>1, <3>1, <4>1, CallTypes DEF Start
      <3> QED BY <3>1, <3>2, StartTypes DEF ForgetImage, TypeOK
    <2>3. CASE ~(AntiRollback /\ ~CheckSecureVersion(image[p].version, efuse))
      <3>1. /\ Start("set_boot", p, Rewrite(RewriteSector(otadata), RewriteEntry(otadata, p)))
            /\ switch' = {BootChoice(otadata, image, efuse), running, p} \ {NoPartition}
            /\ tried' = tried \ {p} /\ target' = NoPartition /\ UNCHANGED confirmed
            /\ updated' = NoPartition /\ UNCHANGED <<flash, mode, running, handle, good>>
        BY <1>4, <2>3 DEF SetBoot
      <3>2. RewriteSector(otadata) \in {0, 1} /\ RewriteEntry(otadata, p) \in Entries
        <4>1. /\ otadata \in [{0, 1} -> Entries] /\ image \in [Partitions -> Images]
              /\ efuse \in 0 .. MaxVersion /\ image[p].ok /\ RewriteEntry(otadata, p).seq <= MaxSeq
          BY <1>4 DEF SetBoot, TypeOK
        <4> QED BY <1>1, <2>3, <4>1, SetBootChoice
      <3>3. todo' \in Seq(Ops) /\ call' \in Calls
        BY <1>1, <2>1, <3>1, <3>2, OpTypes, CallTypes DEF Start
      <3>4. switch' \subseteq Partitions
        BY <1>2, <2>1, <3>1
      <3> QED BY <3>1, <3>3, <3>4, StartTypes DEF TypeOK
    <2> QED BY <2>2, <2>3
  <1> QED BY <1>3, <1>4

(* Marking, erasing, returning.                                              *)
LEMMA MarkTypes ==
  ASSUME TypeOK, UNCHANGED config, MarkValid \/ MarkInvalid \/ EraseLast \/ Return
  PROVE  TypeOK'
  <1>1. /\ config \in Configs /\ Slots \subseteq Partitions /\ otadata \in [{0, 1} -> Entries]
        /\ (mode = "app") = (running # NoPartition) /\ running \in Partitions \cup {NoPartition}
        /\ image \in [Partitions -> Images] /\ confirmed \subseteq Partitions
        /\ NoPartition' = NoPartition
    BY Build DEF TypeOK, NoPartition
  <1> DEFINE i == Active(otadata)
  <1>2. i \in {-1, 0, 1} /\ {"VALID", "INVALID"} \subseteq States
    BY ActiveEntry DEF States
  <1>3. CASE MarkValid
    <2>1. running \in Partitions /\ i \in {0, 1}
      BY <1>1, <1>2, <1>3 DEF MarkValid, Ready
    <2> DEFINE burn == IF AntiRollback /\ image[running].version # NoDescription
                       THEN <<Burn(image[running].version)>> ELSE <<>>
    <2>2. /\ call' = [fn |-> "mark_valid", part |-> running]
          /\ todo' = Rewrite(i, [otadata[i] EXCEPT !.state = "VALID"]) \o burn
          /\ confirmed' = confirmed \cup {running} /\ target' = NoPartition /\ switch' = {}
          /\ UNCHANGED <<flash, mode, running, handle, updated, good, tried>>
      BY <1>3 DEF MarkValid, Start
    <2>3. Rewrite(i, [otadata[i] EXCEPT !.state = "VALID"]) \in Seq(Ops)
      <3> HIDE DEF i
      <3> QED BY <1>1, <1>2, <2>1, EntryTypes, OpTypes
    <2>4. burn \in Seq(Ops)
      <3>1. image[running].version # NoDescription => image[running].version \in 0 .. MaxVersion
        BY <1>1, <2>1, ImageTypes, Build DEF NoDescription
      <3>2. image[running].version # NoDescription => Burn(image[running].version) \in Ops
        BY <1>1, <3>1, OpTypes
      <3> QED BY <3>2
    <2>5. todo' \in Seq(Ops) /\ call' \in Calls
      <3> HIDE DEF burn, i
      <3> QED BY <1>1, <2>1, <2>2, <2>3, <2>4, ConcatProperties, CallTypes
    <2> QED BY <2>1, <2>2, <2>5, StartTypes DEF TypeOK
  <1>4. CASE MarkInvalid
    <2>1. running \in Partitions /\ i \in {0, 1}
      BY <1>1, <1>2, <1>4 DEF MarkInvalid, Ready
    <2>2. /\ call' = [fn |-> "mark_invalid", part |-> running]
          /\ todo' = Rewrite(i, [otadata[i] EXCEPT !.state = "INVALID"])
          /\ target' = NoPartition /\ switch' = {}
          /\ UNCHANGED <<flash, mode, running, handle, updated, confirmed, good, tried>>
      BY <1>4 DEF MarkInvalid, Start
    <2>3. Rewrite(i, [otadata[i] EXCEPT !.state = "INVALID"]) \in Seq(Ops)
      <3> HIDE DEF i
      <3> QED BY <1>1, <1>2, <2>1, EntryTypes, OpTypes
    <2>4. todo' \in Seq(Ops) /\ call' \in Calls
      BY <1>1, <2>1, <2>2, <2>3, CallTypes
    <2> QED BY <2>2, <2>4, StartTypes DEF TypeOK
  <1>5. CASE EraseLast
    <2> DEFINE j == 1 - i
               p == SlotOf(otadata[j])
    <2>1. /\ i # -1 /\ otadata[j].seq # UINT32_MAX
          /\ Start("erase_last", p, <<Wipe(p), EraseSector(j)>>) /\ ForgetImage(p)
          /\ UNCHANGED <<flash, mode, running, handle, updated, good>>
      BY <1>5 DEF EraseLast
    <2>2. j \in {0, 1}
      BY <1>2, <2>1
    <2>3. p \in Slots
      <3> HIDE DEF j
      <3>1. otadata[j].seq \in -1 .. MaxSeq /\ otadata[j].seq # -1
        BY <1>1, <2>1, <2>2, EntryTypes DEF UINT32_MAX
      <3> QED BY <1>1, <3>1, Build, SMTT(30) DEF SlotOf
    <2> HIDE DEF j, p
    <2>4. todo' \in Seq(Ops) /\ call' \in Calls
      <3>1. Wipe(p) \in Ops /\ EraseSector(j) \in Ops
        BY <1>1, <2>2, <2>3, OpTypes
      <3> QED BY <1>1, <2>1, <2>3, <3>1, CallTypes DEF Start
    <2> QED BY <2>1, <2>4, StartTypes DEF TypeOK, ForgetImage
  <1>6. CASE Return
    <2>1. Idle \in Calls /\ call.part \in Partitions \cup {NoPartition} /\ NoHandle \in Updates
      BY <1>1, CallTypes DEF TypeOK
    <2>2. running \in Partitions
      BY <1>1, <1>6 DEF Return
    <2>3. /\ target' \in Partitions \cup {NoPartition} /\ good' \in Partitions \cup {NoPartition}
          /\ updated' \in Partitions \cup {NoPartition} /\ handle' \in Updates
          /\ running' \in Partitions \cup {NoPartition} /\ mode' \in {"off", "boot", "app"}
          /\ (mode' = "app") = (running' # NoPartition)
      BY <1>1, <1>6, <2>1, <2>2 DEF Return, TypeOK
    <2>4. call' \in Calls /\ UNCHANGED <<otadata, image, efuse, todo, switch, confirmed, tried>>
      BY <1>6, <2>1 DEF Return, flash
    <2> QED BY <1>1, <2>3, <2>4, SameBuild DEF TypeOK
  <1> QED BY <1>3, <1>4, <1>5, <1>6

(* The initial states have the right types.                                  *)
LEMMA InitTypes ==
  ASSUME Init
  PROVE  TypeOK
  <1>1. config \in Configs
    BY DEF Init
  <1>2. FirstPartition \in Partitions
    BY <1>1, Build DEF FirstPartition
  <1>3. 0 \in 0 .. MaxVersion /\ NoPartition \notin Partitions
    BY <1>1, Build
  <1>4. otadata \in [{0, 1} -> Entries] /\ image \in [Partitions -> Images]
    BY <1>1, <1>3, EntryTypes, ImageTypes DEF Init
  <1>5. call \in Calls /\ handle \in Updates /\ todo \in Seq(Ops)
    BY <1>1, CallTypes, OpTypes DEF Init
  <1> QED BY <1>1, <1>2, <1>3, <1>4, <1>5 DEF Init, TypeOK

(* Every step keeps the types.                                               *)
LEMMA NextTypes ==
  ASSUME TypeOK, [Next]_vars
  PROVE  TypeOK'
  <1>1. CASE UNCHANGED vars
    BY <1>1, SameBuild DEF TypeOK, vars, flash, machine, ghosts, NoPartition
  <1>2. CASE Next
    BY <1>2, FlashTypes, ResetTypes, BootLoaderTypes, DownloadTypes, SetBootTypes, MarkTypes
       DEF Next
  <1> QED BY <1>1, <1>2

(* Every variable keeps its type: in particular no sequence number, version  *)
(* or slot leaves the range the entries and the partition table have.        *)
THEOREM TypeCorrect == Spec => []TypeOK
  <1>1. Init => TypeOK
    BY InitTypes
  <1>2. TypeOK /\ [Next]_vars => TypeOK'
    BY NextTypes
  <1> QED BY <1>1, <1>2, PTL DEF Spec

-------------------------------------------------------------------------------
(* The bootloader's decision from one state to the next.                     *)

(* The first partition of a set that load_boot_image tries.                  *)
FirstOf(start, bootable) ==
  CHOOSE p \in bootable : \A q \in bootable : LoadRank(start, p) <= LoadRank(start, q)

(* The bootloader decides by the contents of the flash alone: on the same    *)
(* build, and the build does not change, the same contents give the same     *)
(* decision.                                                                 *)
LEMMA DecisionNext ==
  ASSUME UNCHANGED config, NEW d, NEW img, NEW fuse
  PROVE  /\ BootDecision(d, img, fuse)' = BootDecision(d, img, fuse)
         /\ BootChoice(d, img, fuse)' = BootChoice(d, img, fuse)
  <1> DEFINE a == AbortPending(d)
             entry == BootEntry(a, img, fuse)
             burnt == Burnt(a, entry, img, fuse)
             start == StartIndex(a, entry)
             B(f) == {q \in Partitions : Loads(q, img, f)}
  <1>1. a' = a
    BY SameBuild DEF AbortPending
  <1>2. entry' = entry
    BY <1>1, SameBuild DEF BootEntry, Active, SlotOf
  <1>3. burnt' = burnt
    BY <1>1, <1>2, SameBuild DEF Burnt, SlotOf
  <1>4. start' = start
    BY <1>1, <1>2, SameBuild DEF StartIndex, SlotOf
  <1>5. ASSUME NEW s, NEW f
        PROVE  LoadBootImage(s, img, f)' = LoadBootImage(s, img, f)
    <2>1. B(f)' = B(f)
      BY SameBuild DEF Loads, CheckAntiRollback
    <2>2. LoadBootImage(s, img, f) = IF B(f) = {} THEN NoPartition ELSE FirstOf(s, B(f))
      BY DEF LoadBootImage, FirstOf
    <2>3. LoadBootImage(s, img, f)' = IF B(f)' = {} THEN NoPartition ELSE FirstOf(s, B(f)')
      BY DEF LoadBootImage, FirstOf, NoPartition
    <2> QED BY <2>1, <2>2, <2>3
  <1>6. LoadBootImage(start, img, burnt)' = LoadBootImage(start, img, burnt)
    BY <1>3, <1>4, <1>5
  <1>7. BootDecision(d, img, fuse) = [d |-> a, entry |-> entry, efuse |-> burnt,
                                      part |-> LoadBootImage(start, img, burnt)]
    BY DEF BootDecision, Burnt
  <1>8. BootDecision(d, img, fuse)' = [d |-> a', entry |-> entry', efuse |-> burnt',
                                       part |-> LoadBootImage(start, img, burnt)']
    BY DEF BootDecision, Burnt
  <1>9. BootDecision(d, img, fuse)' = BootDecision(d, img, fuse)
    BY <1>1, <1>2, <1>3, <1>6, <1>7, <1>8
  <1> QED BY <1>9 DEF BootChoice

-------------------------------------------------------------------------------
(* esp_ota_set_boot_partition takes effect.                                  *)

(* The entries after an operation on them.                                   *)
Applied(d, op) == [d EXCEPT ![op.at] = op.entry]

(* What a boot would start after the operations that are left.               *)
ChoiceAfter(ops, p) ==
  \/ ops = <<>> /\ BootChoice(otadata, image, efuse) = p
  \/ \E op \in OtaOps : ops = <<op>> /\ BootChoice(Applied(otadata, op), image, efuse) = p
  \/ \E op1, op2 \in OtaOps :
       /\ ops = <<op1, op2>>
       /\ BootChoice(Applied(Applied(otadata, op1), op2), image, efuse) = p

(* The call that selects a partition has at most two operations left, and    *)
(* when they are done the bootloader starts that partition.                  *)
SettingInv ==
  call.fn = "set_boot" /\ call.part # NoPartition => ChoiceAfter(todo, call.part)

(* While the promise of the call is in force, nothing is being written.      *)
TargetInv ==
  target # NoPartition =>
    mode = "app" /\ call = Idle /\ todo = <<>> /\ BootChoice(otadata, image, efuse) = target

(* Steps that leave the flash and the list alone.                            *)
LEMMA ChoiceKept ==
  ASSUME UNCHANGED <<config, flash>>, NEW ops, NEW p
  PROVE  ChoiceAfter(ops, p)' = ChoiceAfter(ops, p)
  <1>1. UNCHANGED <<config, otadata, image, efuse>>
    BY DEF flash
  <1>2. OtaOps' = OtaOps
    BY <1>1, SameBuild DEF OtaOps
  <1>3. \A d, img, fuse : BootChoice(d, img, fuse)' = BootChoice(d, img, fuse)
    BY <1>1, DecisionNext
  <1>4. BootChoice(otadata, image, efuse)' = BootChoice(otadata, image, efuse)
    BY <1>1, <1>3
  <1>5. \A op : BootChoice(Applied(otadata, op), image, efuse)' =
                 BootChoice(Applied(otadata, op), image, efuse)
    BY <1>1, <1>3
  <1>6. \A op1, op2 : BootChoice(Applied(Applied(otadata, op1), op2), image, efuse)' =
                       BootChoice(Applied(Applied(otadata, op1), op2), image, efuse)
    BY <1>1, <1>3
  <1> QED BY <1>2, <1>4, <1>5, <1>6 DEF ChoiceAfter

(* An operation on the entries is one less to do.                            *)
LEMMA SettingFlash ==
  ASSUME UNCHANGED config, FlashStep, SettingInv
  PROVE  SettingInv'
  <1>1. SUFFICES ASSUME call.fn = "set_boot", call.part # NoPartition
                 PROVE  ChoiceAfter(todo, call.part)'
    BY DEF FlashStep, SettingInv, NoPartition
  <1>2. ChoiceAfter(todo, call.part) /\ todo # <<>> /\ todo' = Tail(todo) /\ call' = call
    BY <1>1 DEF SettingInv, FlashStep
  <1>3. OtaOps' = OtaOps
    BY SameBuild DEF OtaOps
  <1>4. \A d, img, fuse : BootChoice(d, img, fuse)' = BootChoice(d, img, fuse)
    BY DecisionNext
  <1>5. ASSUME Head(todo) \in OtaOps
        PROVE  otadata' = Applied(otadata, Head(todo)) /\ image' = image /\ efuse' = efuse
    <2>1. Head(todo).op \in {"erase", "write"}
      BY <1>5 DEF OtaOps
    <2> QED BY <2>1 DEF FlashStep, Applied
  <1>6. ASSUME NEW op \in OtaOps, todo = <<op>>,
               BootChoice(Applied(otadata, op), image, efuse) = call.part
        PROVE  ChoiceAfter(todo, call.part)'
    <2>1. Head(todo) = op /\ todo' = <<>>
      BY <1>2, <1>6
    <2>2. otadata' = Applied(otadata, op) /\ image' = image /\ efuse' = efuse
      BY <1>5, <1>6, <2>1
    <2>3. BootChoice(otadata, image, efuse)' = BootChoice(Applied(otadata, op), image, efuse)
      BY <1>4, <2>2
    <2> QED BY <1>2, <1>6, <2>1, <2>3 DEF ChoiceAfter
  <1>7. ASSUME NEW op1 \in OtaOps, NEW op2 \in OtaOps, todo = <<op1, op2>>,
               BootChoice(Applied(Applied(otadata, op1), op2), image, efuse) = call.part
        PROVE  ChoiceAfter(todo, call.part)'
    <2>1. Head(todo) = op1 /\ todo' = <<op2>>
      BY <1>2, <1>7
    <2>2. otadata' = Applied(otadata, op1) /\ image' = image /\ efuse' = efuse
      BY <1>5, <1>7, <2>1
    <2>3. BootChoice(Applied(otadata, op2), image, efuse)' =
            BootChoice(Applied(Applied(otadata, op1), op2), image, efuse)
      BY <1>4, <2>2
    <2> QED BY <1>2, <1>3, <1>7, <2>1, <2>3 DEF ChoiceAfter
  <1> QED BY <1>2, <1>6, <1>7 DEF ChoiceAfter

(* The call begins.                                                          *)
LEMMA SettingStarts ==
  ASSUME TypeOK, UNCHANGED config, SetBootFactory \/ \E p \in Slots : SetBoot(p)
  PROVE  SettingInv' /\ TargetInv'
  <1>1. /\ config \in Configs /\ otadata \in [{0, 1} -> Entries]
        /\ image \in [Partitions -> Images] /\ efuse \in 0 .. MaxVersion
    BY DEF TypeOK
  <1>2. TargetInv'
    BY DEF SetBootFactory, SetBoot, ForgetImage, TargetInv, NoPartition
  <1>3. UNCHANGED <<config, flash>>
    BY DEF SetBootFactory, SetBoot
  <1>4. ASSUME NEW op1 \in OtaOps, NEW op2 \in OtaOps, todo' = <<op1, op2>>, NEW p,
               call' = [fn |-> "set_boot", part |-> p],
               BootChoice(Applied(Applied(otadata, op1), op2), image, efuse) = p
        PROVE  SettingInv'
    <2>1. call'.part = p
      BY <1>4
    <2>2. ChoiceAfter(<<op1, op2>>, p)
      BY <1>4 DEF ChoiceAfter
    <2>3. ChoiceAfter(<<op1, op2>>, p)'
      BY <1>3, <2>2, ChoiceKept
    <2>4. ChoiceAfter(todo, call.part)'
      BY <1>4, <2>1, <2>3
    <2> QED BY <2>4 DEF SettingInv
  <1>5. CASE SetBootFactory
    <2>1. /\ HasFactory /\ image[FACTORY_INDEX].ok
          /\ call' = [fn |-> "set_boot", part |-> FACTORY_INDEX]
          /\ todo' = <<EraseSector(0), EraseSector(1)>>
      BY <1>5 DEF SetBootFactory, Start
    <2>2. EraseSector(0) \in OtaOps /\ EraseSector(1) \in OtaOps /\ Erased \in Entries
      BY <1>1, OpTypes, EntryTypes
    <2> DEFINE d == Applied(Applied(otadata, EraseSector(0)), EraseSector(1))
    <2>3. d = [otadata EXCEPT ![0] = Erased, ![1] = Erased]
      BY DEF Applied, EraseSector
    <2>4. d \in [{0, 1} -> Entries] /\ d[0] = Erased /\ d[1] = Erased
      BY <1>1, <2>2, <2>3
    <2> HIDE DEF d
    <2>5. BootChoice(d, image, efuse) = FACTORY_INDEX
      BY <1>1, <2>1, <2>4, FormatChoice
    <2> QED BY <1>2, <1>4, <2>1, <2>2, <2>5 DEF d
  <1>6. ASSUME NEW p \in Slots, SetBoot(p)
        PROVE  SettingInv'
    <2>1. CASE AntiRollback /\ ~CheckSecureVersion(image[p].version, efuse)
      BY <1>6, <2>1 DEF SetBoot, Start, SettingInv, NoPartition
    <2>2. CASE ~(AntiRollback /\ ~CheckSecureVersion(image[p].version, efuse))
      <3> DEFINE i == RewriteSector(otadata)
                 e == RewriteEntry(otadata, p)
                 d == Applied(Applied(otadata, EraseSector(i)), WriteEntry(i, e))
      <3>1. /\ call' = [fn |-> "set_boot", part |-> p]
            /\ todo' = <<EraseSector(i), WriteEntry(i, e)>>
        BY <1>6, <2>2 DEF SetBoot, Start, Rewrite
      <3>2. /\ i \in {0, 1} /\ e \in Entries
            /\ BootChoice(Rewritten(otadata, i, e), image, efuse) = p
        <4>1. image[p].ok /\ RewriteEntry(otadata, p).seq <= MaxSeq
          BY <1>6 DEF SetBoot
        <4>2. AntiRollback => CheckSecureVersion(image[p].version, efuse)
          BY <2>2
        <4> QED BY <1>1, <4>1, <4>2, SetBootChoice
      <3>3. EraseSector(i) \in OtaOps /\ WriteEntry(i, e) \in OtaOps
        <4> HIDE DEF i, e
        <4> QED BY <1>1, <3>2, OpTypes
      <3>4. d = Rewritten(otadata, i, e)
        <4>1. /\ EraseSector(i).at = i /\ EraseSector(i).entry = Erased
              /\ WriteEntry(i, e).at = i /\ WriteEntry(i, e).entry = e
          BY DEF EraseSector, WriteEntry
        <4> HIDE DEF i, e
        <4> QED BY <1>1, <3>2, <4>1 DEF Applied, Rewritten
      <3> HIDE DEF d
      <3>5. BootChoice(d, image, efuse) = p
        BY <3>2, <3>4
      <3> HIDE DEF i, e
      <3> QED BY <1>4, <3>1, <3>3, <3>5 DEF d
    <2> QED BY <2>1, <2>2
  <1> QED BY <1>2, <1>5, <1>6

(* Every step keeps both.                                                    *)
LEMMA SettingNext ==
  ASSUME TypeOK, SettingInv, TargetInv, [Next]_vars
  PROVE  SettingInv' /\ TargetInv'
  <1>1. ASSUME UNCHANGED <<config, flash>>
        PROVE  /\ BootChoice(otadata, image, efuse)' = BootChoice(otadata, image, efuse)
               /\ UNCHANGED <<todo, call>> => SettingInv'
    <2>1. UNCHANGED <<config, otadata, image, efuse>>
      BY <1>1 DEF flash
    <2>2. BootChoice(otadata, image, efuse)' = BootChoice(otadata, image, efuse)
      BY <2>1, DecisionNext
    <2>3. ASSUME UNCHANGED <<todo, call>>
          PROVE  SettingInv'
      <3>1. ChoiceAfter(todo, call.part)' = ChoiceAfter(todo, call.part)
        BY <1>1, <2>3, ChoiceKept
      <3> QED BY <2>3, <3>1 DEF SettingInv, NoPartition
    <2> QED BY <2>2, <2>3
  <1>2. Idle.fn = "none"
    BY DEF Idle
  <1>3. ASSUME UNCHANGED <<config, flash, todo, call, target, mode>>
        PROVE  SettingInv' /\ TargetInv'
    BY <1>1, <1>3 DEF TargetInv, NoPartition, Idle
  <1>4. CASE UNCHANGED vars
    BY <1>3, <1>4 DEF vars, machine, ghosts
  <1>5. ASSUME UNCHANGED config, FlashStep
        PROVE  SettingInv' /\ TargetInv'
    BY <1>5, SettingFlash DEF FlashStep, TargetInv, ghosts, NoPartition
  <1>6. ASSUME UNCHANGED config, Reset
        PROVE  SettingInv' /\ TargetInv'
    BY <1>2, <1>6 DEF Reset, SettingInv, TargetInv, NoPartition
  <1>7. ASSUME UNCHANGED config, Boot
        PROVE  SettingInv' /\ TargetInv'
    BY <1>7 DEF Boot, SettingInv, TargetInv, NoPartition, ghosts
  <1>8. ASSUME UNCHANGED config, StartApp
        PROVE  SettingInv' /\ TargetInv'
    BY <1>2, <1>8 DEF StartApp, SettingInv, TargetInv, NoPartition
  <1>9. ASSUME UNCHANGED config, NEW p \in Slots, NEW lazy \in BOOLEAN, OtaBegin(p, lazy)
        PROVE  SettingInv' /\ TargetInv'
    <2>1. CASE lazy
      BY <1>3, <1>9, <2>1 DEF OtaBegin, flash
    <2>2. CASE ~lazy
      BY <1>2, <1>9, <2>2 DEF OtaBegin, ForgetImage, Ready, SettingInv, TargetInv, NoPartition
    <2> QED BY <2>1, <2>2
  <1>10. ASSUME UNCHANGED config, OtaWrite
         PROVE  SettingInv' /\ TargetInv'
    BY <1>2, <1>10 DEF OtaWrite, ForgetImage, Ready, SettingInv, TargetInv, NoPartition
  <1>11. ASSUME UNCHANGED config, OtaEnd \/ OtaAbort
         PROVE  SettingInv' /\ TargetInv'
    BY <1>3, <1>11 DEF OtaEnd, OtaAbort, ghosts
  <1>12. ASSUME UNCHANGED config, MarkValid \/ MarkInvalid \/ EraseLast
         PROVE  SettingInv' /\ TargetInv'
    <2>1. call'.fn # "set_boot" /\ target' = NoPartition
      BY <1>12 DEF MarkValid, MarkInvalid, EraseLast, Start, ForgetImage
    <2> QED BY <2>1 DEF SettingInv, TargetInv, NoPartition
  <1>13. ASSUME UNCHANGED config, Return
         PROVE  SettingInv' /\ TargetInv'
    <2>1. SettingInv'
      BY <1>2, <1>13 DEF Return, SettingInv
    <2>2. UNCHANGED <<config, flash>> /\ todo' = <<>> /\ call' = Idle /\ call # Idle
      BY <1>13 DEF Return
    <2>3. CASE call.fn = "set_boot" /\ call.part # NoPartition
      <3>1. BootChoice(otadata, image, efuse) = call.part
        BY <1>13, <2>3 DEF Return, SettingInv, ChoiceAfter
      <3> QED BY <1>1, <1>13, <2>1, <2>2, <2>3, <3>1 DEF Return, TargetInv, Idle, NoPartition
    <2>4. CASE ~(call.fn = "set_boot" /\ call.part # NoPartition)
      <3>1. target' = NoPartition
        BY <1>13, <2>2, <2>4 DEF Return, TargetInv
      <3> QED BY <2>1, <3>1 DEF TargetInv, NoPartition
    <2> QED BY <2>3, <2>4
  <1>14. CASE Next
    BY <1>5, <1>6, <1>7, <1>8, <1>9, <1>10, <1>11, <1>12, <1>13, <1>14, SettingStarts DEF Next
  <1> QED BY <1>4, <1>14

(* When esp_ota_set_boot_partition has returned ESP_OK and nothing changed   *)
(* since, a restart boots that partition, on every build, whatever the       *)
(* entries, the images and the application's conduct were before.            *)
THEOREM AlwaysSetBootTakesEffect == Spec => []SetBootTakesEffect
  <1>1. Init => TypeOK /\ SettingInv /\ TargetInv
    BY InitTypes DEF Init, SettingInv, TargetInv, Idle
  <1>2. TypeOK /\ SettingInv /\ TargetInv /\ [Next]_vars => (TypeOK /\ SettingInv /\ TargetInv)'
    BY NextTypes, SettingNext
  <1>3. TargetInv => SetBootTakesEffect
    BY DEF TargetInv, SetBootTakesEffect
  <1> QED BY <1>1, <1>2, <1>3, PTL DEF Spec

-------------------------------------------------------------------------------
(* What runs can be booted.                                                  *)

(* The rest of a list.                                                       *)
LEMMA ListTail ==
  ASSUME todo \in Seq(Ops), todo # <<>>
  PROVE  /\ Len(todo) \in Nat /\ 1 \in 1 .. Len(todo) /\ Head(todo) = todo[1]
         /\ Len(Tail(todo)) = Len(todo) - 1
         /\ \A j \in 1 .. Len(Tail(todo)) : Tail(todo)[j] = todo[j + 1] /\ j + 1 \in 1 .. Len(todo)
  <1>1. Len(todo) \in Nat /\ Len(todo) # 0
    BY EmptySeq, LenProperties
  <1> QED BY <1>1, HeadTailProperties

(* A flash operation spares partition p if the list does.                    *)
LEMMA FlashSpares ==
  ASSUME TypeOK, UNCHANGED config, FlashStep, NEW p \in Partitions,
         Runnable(p), SparesPartition(p)
  PROVE  /\ Runnable(p)' /\ SparesPartition(p)' /\ image'[p] = image[p]
         /\ \A j \in 1 .. Len(todo') : todo'[j] = todo[j + 1] /\ j + 1 \in 1 .. Len(todo)
  <1>1. /\ config \in Configs /\ todo \in Seq(Ops) /\ todo # <<>> /\ todo' = Tail(todo)
        /\ image \in [Partitions -> Images] /\ efuse \in 0 .. MaxVersion
    BY DEF TypeOK, FlashStep
  <1>2. /\ Head(todo) = todo[1] /\ 1 \in 1 .. Len(todo) /\ Head(todo) \in Ops
        /\ \A j \in 1 .. Len(todo') : todo'[j] = todo[j + 1] /\ j + 1 \in 1 .. Len(todo)
    BY <1>1, ListTail, OpsLeft
  <1> DEFINE op == Head(todo)
  <1>3. /\ op.op = "wipe" => op.at # p
        /\ op.op = "burn" => AntiRollback /\ op.at <= image[p].version /\ op.at \in 0 .. MaxVersion
    <2>1. op.op = "burn" => op.at \in 0 .. MaxVersion
      <3> HIDE DEF op
      <3> QED BY <1>2 DEF Ops, OtaOps, op
    <2> QED BY <1>2, <2>1 DEF SparesPartition
  <1>4. image'[p] = image[p]
    BY <1>1, <1>3 DEF FlashStep
  <1>5. efuse' = efuse \/ (efuse' = op.at /\ op.op = "burn")
    BY DEF FlashStep, UpdateSecureVersion
  <1>6. Runnable(p)'
    BY <1>3, <1>4, <1>5, SameBuild DEF Runnable
  <1>7. SparesPartition(p)'
    BY <1>2, <1>4, SameBuild DEF SparesPartition
  <1> QED BY <1>2, <1>4, <1>6, <1>7

(* A call from the application that does not touch its own image.            *)
LEMMA RunStarts ==
  ASSUME TypeOK, RunInv, UNCHANGED <<config, flash, mode, running>>, mode = "app",
         call'.fn # "boot", call' # Idle \/ todo' = <<>>, handle'.part # running,
         \A j \in 1 .. Len(todo') :
           /\ todo'[j].op = "wipe" => todo'[j].at # running
           /\ todo'[j].op = "burn" => AntiRollback /\ todo'[j].at <= image[running].version
  PROVE  RunInv'
  <1>1. UNCHANGED <<image, efuse>> /\ mode' = "app"
    BY DEF flash
  <1>2. Runnable(running)' /\ SparesPartition(running)'
    BY <1>1, SameBuild DEF RunInv, Runnable, SparesPartition
  <1>3. (\E p \in Partitions : image[p].ok)'
    BY <1>1, SameBuild DEF RunInv
  <1>4. (call = Idle)' => (todo = <<>>)'
    BY DEF Idle, NoPartition
  <1> QED BY <1>1, <1>2, <1>3, <1>4 DEF RunInv

(* An image other than the running one changes.                              *)
LEMMA RunDownloads ==
  ASSUME TypeOK, RunInv, UNCHANGED <<config, efuse, mode, running, todo, call>>, mode = "app",
         handle'.part # running, image'[running] = image[running]
  PROVE  RunInv'
  <1>1. running \in Partitions
    BY DEF TypeOK
  <1>2. Runnable(running)' /\ SparesPartition(running)'
    BY SameBuild DEF RunInv, Runnable, SparesPartition
  <1>3. (\E p \in Partitions : image[p].ok)'
    BY <1>1, <1>2, SameBuild DEF Runnable
  <1>4. (call = Idle)' => (todo = <<>>)'
    BY DEF RunInv, Idle, NoPartition
  <1> QED BY <1>2, <1>3, <1>4 DEF RunInv

(* Flash operations, resets and the bootloader.                              *)
LEMMA RunBoots ==
  ASSUME TypeOK, RunInv, UNCHANGED config, FlashStep \/ Reset \/ Boot \/ StartApp
  PROVE  RunInv'
  <1>1. /\ config \in Configs /\ todo \in Seq(Ops) /\ image \in [Partitions -> Images]
        /\ (mode = "app") = (running # NoPartition) /\ running \in Partitions \cup {NoPartition}
        /\ mode \in {"off", "boot", "app"} /\ call.part \in Partitions \cup {NoPartition}
        /\ NoPartition' = NoPartition /\ Idle' = Idle /\ NoHandle' = NoHandle
        /\ NoPartition \notin Partitions
    BY CallTypes, Build DEF TypeOK, NoPartition, Idle, NoHandle
  <1>2. CASE FlashStep
    <2>1. todo # <<>> /\ todo' = Tail(todo) /\ UNCHANGED <<mode, running, call, handle, updated>>
      BY <1>2 DEF FlashStep, ghosts
    <2>2. ASSUME mode = "app"
          PROVE  RunInv'
      <3>1. running \in Partitions
        BY <1>1, <2>2
      <3>2. Runnable(running)' /\ SparesPartition(running)' /\ handle'.part # running'
        <4>1. Runnable(running) /\ SparesPartition(running) /\ handle.part # running
          BY <2>2 DEF RunInv
        <4>2. /\ image'[running].ok /\ (AntiRollback' => image'[running].version >= efuse')
              /\ \A j \in 1 .. Len(todo') :
                   /\ todo'[j].op = "wipe" => todo'[j].at # running
                   /\ todo'[j].op = "burn" => AntiRollback' /\ todo'[j].at <= image'[running].version
          BY <1>2, <3>1, <4>1, FlashSpares DEF Runnable, SparesPartition
        <4> QED BY <2>1, <4>1, <4>2 DEF Runnable, SparesPartition
      <3>3. (\E p \in Partitions : image[p].ok)'
        BY <2>1, <3>1, <3>2, SameBuild DEF Runnable
      <3> QED BY <1>1, <2>1, <2>2, <3>2, <3>3 DEF RunInv
    <2>3. ASSUME mode = "boot"
          PROVE  RunInv'
      <3>1. /\ \A j \in 1 .. Len(todo) : todo[j].op # "wipe"
            /\ \A j \in 1 .. Len(todo') : todo'[j] = todo[j + 1] /\ j + 1 \in 1 .. Len(todo)
            /\ Head(todo).op # "wipe"
        BY <1>1, <2>1, <2>3, ListTail DEF RunInv
      <3>2. image' = image
        BY <1>2, <3>1 DEF FlashStep
      <3>3. call.part # NoPartition => Runnable(call.part)' /\ SparesPartition(call.part)'
        <4> SUFFICES ASSUME call.part # NoPartition
                     PROVE  Runnable(call.part)' /\ SparesPartition(call.part)'
          OBVIOUS
        <4>1. call.part \in Partitions /\ Runnable(call.part) /\ SparesPartition(call.part)
          BY <1>1, <2>3 DEF RunInv
        <4>2. /\ image'[call.part].ok /\ (AntiRollback' => image'[call.part].version >= efuse')
              /\ \A j \in 1 .. Len(todo') :
                   /\ todo'[j].op = "wipe" => todo'[j].at # call.part
                   /\ todo'[j].op = "burn" => AntiRollback' /\ todo'[j].at <= image'[call.part].version
          BY <1>2, <4>1, FlashSpares DEF Runnable, SparesPartition
        <4> QED BY <2>1, <4>2 DEF Runnable, SparesPartition
      <3>4. (\E p \in Partitions : image[p].ok)'
        BY <3>2, SameBuild DEF RunInv
      <3> QED BY <1>1, <2>1, <2>3, <3>1, <3>3, <3>4 DEF RunInv
    <2>4. mode # "off"
      BY <2>1 DEF RunInv
    <2> QED BY <1>1, <2>2, <2>3, <2>4
  <1>3. CASE Reset
    <2>1. (\E p \in Partitions : image[p].ok)'
      BY <1>3, SameBuild DEF Reset, RunInv
    <2>2. Idle.fn # "boot"
      BY DEF Idle
    <2> QED BY <1>1, <1>3, <2>1, <2>2 DEF Reset, RunInv
  <1>4. CASE Boot
    <2> DEFINE p == call'.part
    <2>1. /\ \A j \in 1 .. Len(todo') :
               /\ todo'[j].op # "wipe"
               /\ todo'[j].op = "burn" =>
                    AntiRollback /\ (p \in Partitions => todo'[j].at <= image[p].version)
          /\ p \in Partitions => Runnable(p)
      BY <1>4, BootOps, Zenon
    <2>2. p \in Partitions \cup {NoPartition} /\ call'.fn = "boot" /\ call' # Idle /\ mode' = "boot"
      BY <1>1, <1>4, BootOps, CallTypes DEF Boot, Idle
    <2>3. UNCHANGED <<image, efuse, running, handle, updated>> /\ mode = "off"
      BY <1>4 DEF Boot, flash, ghosts
    <2>4. call'.part # NoPartition => Runnable(call.part)' /\ SparesPartition(call.part)'
      <3> HIDE DEF p
      <3>1. p \in Partitions => image[p].ok /\ (AntiRollback => image[p].version >= efuse)
        BY <2>1 DEF Runnable
      <3>2. p # NoPartition =>
              /\ image'[p].ok /\ (AntiRollback' => image'[p].version >= efuse')
              /\ \A j \in 1 .. Len(todo') :
                   /\ todo'[j].op = "wipe" => todo'[j].at # p
                   /\ todo'[j].op = "burn" => AntiRollback' /\ todo'[j].at <= image'[p].version
        BY <2>1, <2>2, <2>3, <3>1, SameBuild
      <3> QED BY <3>2 DEF Runnable, SparesPartition, p
    <2>5. (\E x \in Partitions : image[x].ok)'
      BY <2>3, SameBuild DEF RunInv
    <2>6. \A j \in 1 .. Len(todo') : todo'[j].op # "wipe"
      BY <2>1
    <2> QED BY <1>1, <2>2, <2>3, <2>4, <2>5, <2>6 DEF RunInv
  <1>5. CASE StartApp
    <2>1. /\ todo' = <<>> /\ call' = Idle /\ running' = call.part /\ mode = "boot"
          /\ mode' = (IF call.part = NoPartition THEN "off" ELSE "app")
          /\ UNCHANGED <<image, efuse, handle, updated>> /\ handle = NoHandle /\ updated = NoPartition
      BY <1>5 DEF StartApp, flash, RunInv
    <2>2. call.part # NoPartition => Runnable(call.part)
      BY <2>1 DEF RunInv
    <2>3. (\E p \in Partitions : image[p].ok)'
      BY <2>1, SameBuild DEF RunInv
    <2>4. mode' = "app" => Runnable(running)' /\ SparesPartition(running)' /\ handle'.part # running'
      BY <1>1, <2>1, <2>2, SameBuild DEF Runnable, SparesPartition, NoHandle
    <2>5. Idle.fn # "boot"
      BY DEF Idle
    <2> QED BY <1>1, <2>1, <2>3, <2>4, <2>5 DEF RunInv
  <1> QED BY <1>2, <1>3, <1>4, <1>5

(* Every step keeps what runs bootable.                                      *)
LEMMA RunNext ==
  ASSUME TypeOK, RunInv, [Next]_vars
  PROVE  RunInv'
  <1>1. /\ config \in Configs /\ image \in [Partitions -> Images]
        /\ (mode = "app") = (running # NoPartition) /\ running \in Partitions \cup {NoPartition}
        /\ mode \in {"off", "boot", "app"} /\ NoPartition \notin Partitions
    BY Build DEF TypeOK
  <1>2. NoHandle.part = NoPartition /\ Idle.fn = "none"
    BY DEF NoHandle, Idle
  <1>3. /\ \A i : EraseSector(i).op = "erase" /\ (\A e : WriteEntry(i, e).op = "write")
        /\ \A p : Wipe(p).op = "wipe" /\ Wipe(p).at = p
        /\ \A v : Burn(v).op = "burn" /\ Burn(v).at = v
    BY DEF EraseSector, WriteEntry, Wipe, Burn
  <1>4. CASE UNCHANGED vars
    BY <1>4, SameBuild DEF vars, flash, machine, ghosts, RunInv, Runnable, SparesPartition,
       NoPartition, NoHandle, Idle
  <1>5. ASSUME UNCHANGED config, NEW p \in Slots, NEW lazy \in BOOLEAN, OtaBegin(p, lazy)
        PROVE  RunInv'
    <2>1. handle'.part = p /\ p # running /\ mode = "app"
      BY <1>5 DEF OtaBegin, MayUpdate, Ready
    <2>2. image'[running] = image[running] /\ UNCHANGED <<config, efuse, mode, running, todo, call>>
      BY <1>1, <1>5, <2>1 DEF OtaBegin
    <2> QED BY <2>1, <2>2, RunDownloads
  <1>6. ASSUME UNCHANGED config, OtaWrite
        PROVE  RunInv'
    <2>1. handle'.part = handle.part /\ handle.part # running /\ mode = "app"
      BY <1>6 DEF OtaWrite, Ready, RunInv, TypeOK, Updates
    <2>2. image'[running] = image[running] /\ UNCHANGED <<config, efuse, mode, running, todo, call>>
      BY <1>1, <1>6, <2>1 DEF OtaWrite
    <2> QED BY <2>1, <2>2, RunDownloads
  <1>7. ASSUME UNCHANGED config, OtaEnd \/ OtaAbort
        PROVE  RunInv'
    <2>1. /\ handle' = NoHandle /\ mode = "app" /\ UNCHANGED <<config, flash, mode, running, todo, call>>
      BY <1>7 DEF OtaEnd, OtaAbort, Ready
    <2>2. handle'.part # running
      BY <1>1, <1>2, <2>1
    <2> QED BY <2>1, <2>2, RunDownloads DEF flash
  <1>8. ASSUME UNCHANGED <<config, flash, mode, running, handle>>, mode = "app", NEW fn, NEW q,
               fn \in {"set_boot", "mark_valid", "mark_invalid", "erase_last"},
               call' = [fn |-> fn, part |-> q],
               \A j \in 1 .. Len(todo') :
                 /\ todo'[j].op = "wipe" => todo'[j].at # running
                 /\ todo'[j].op = "burn" => AntiRollback /\ todo'[j].at <= image[running].version
        PROVE  RunInv'
    <2>1. handle'.part # running
      BY <1>8 DEF RunInv
    <2>2. call'.fn # "boot" /\ call' # Idle
      BY <1>8 DEF Idle
    <2> QED BY <1>8, <2>1, <2>2, RunStarts
  <1>9. ASSUME UNCHANGED config, SetBootFactory
        PROVE  RunInv'
    <2>1. todo' = <<EraseSector(0), EraseSector(1)>>
      BY <1>9 DEF SetBootFactory, Start
    <2>2. \A j \in 1 .. Len(todo') : todo'[j].op = "erase"
      BY <1>3, <2>1
    <2> QED BY <1>8, <1>9, <2>2 DEF SetBootFactory, Start, Ready
  <1>10. ASSUME UNCHANGED config, NEW p \in Slots, SetBoot(p)
         PROVE  RunInv'
    <2>1. CASE AntiRollback /\ ~CheckSecureVersion(image[p].version, efuse)
      <3>1. todo' = <<Wipe(p)>>
        BY <1>10, <2>1 DEF SetBoot, Start
      <3>2. p # running
        <4>1. AntiRollback => image[running].version >= efuse
          BY <1>10 DEF SetBoot, Ready, RunInv, Runnable
        <4>2. efuse \in 0 .. MaxVersion
          BY DEF TypeOK
        <4> QED BY <1>1, <2>1, <4>1, <4>2, Build DEF CheckSecureVersion, NoDescription
      <3>3. \A j \in 1 .. Len(todo') : todo'[j].op = "wipe" /\ todo'[j].at # running
        BY <1>3, <3>1, <3>2
      <3> QED BY <1>8, <1>10, <2>1, <3>3 DEF SetBoot, Start, Ready
    <2>2. CASE ~(AntiRollback /\ ~CheckSecureVersion(image[p].version, efuse))
      <3>1. todo' = <<EraseSector(RewriteSector(otadata)),
                      WriteEntry(RewriteSector(otadata), RewriteEntry(otadata, p))>>
        BY <1>10, <2>2 DEF SetBoot, Start, Rewrite
      <3>2. \A j \in 1 .. Len(todo') : todo'[j].op \in {"erase", "write"}
        BY <1>3, <3>1
      <3> QED BY <1>8, <1>10, <2>2, <3>2 DEF SetBoot, Start, Ready
    <2> QED BY <2>1, <2>2
  <1>11. ASSUME UNCHANGED config, MarkValid
         PROVE  RunInv'
    <2> DEFINE i == Active(otadata)
               e == [otadata[i] EXCEPT !.state = "VALID"]
               v == image[running].version
    <2>1. \/ todo' = <<EraseSector(i), WriteEntry(i, e)>> \o <<>>
          \/ AntiRollback /\ v # NoDescription /\ todo' = <<EraseSector(i), WriteEntry(i, e)>> \o <<Burn(v)>>
      BY <1>11 DEF MarkValid, Start, Rewrite
    <2>2. mode = "app" /\ running \in Partitions
      BY <1>1, <1>11 DEF MarkValid, Ready
    <2>3. v <= v
      BY <1>1, <2>2, ImageTypes, Build
    <2> HIDE DEF i, e, v
    <2>4. \A j \in 1 .. Len(todo') : /\ todo'[j].op # "wipe"
                                     /\ todo'[j].op = "burn" => AntiRollback /\ todo'[j].at <= v
      BY <1>3, <2>1, <2>3
    <2>5. /\ call' = [fn |-> "mark_valid", part |-> running]
          /\ UNCHANGED <<config, flash, mode, running, handle>>
      BY <1>11 DEF MarkValid, Start
    <2> QED BY <1>8, <2>2, <2>4, <2>5 DEF v
  <1>12. ASSUME UNCHANGED config, MarkInvalid
         PROVE  RunInv'
    <2>1. todo' = <<EraseSector(Active(otadata)),
                    WriteEntry(Active(otadata), [otadata[Active(otadata)] EXCEPT !.state = "INVALID"])>>
      BY <1>12 DEF MarkInvalid, Start, Rewrite
    <2>2. \A j \in 1 .. Len(todo') : todo'[j].op \in {"erase", "write"}
      BY <1>3, <2>1
    <2> QED BY <1>8, <1>12, <2>2 DEF MarkInvalid, Start, Ready
  <1>13. ASSUME UNCHANGED config, EraseLast
         PROVE  RunInv'
    <2> DEFINE p == SlotOf(otadata[1 - Active(otadata)])
    <2>1. todo' = <<Wipe(p), EraseSector(1 - Active(otadata))>> /\ p # running
      BY <1>13 DEF EraseLast, Start
    <2>2. \A j \in 1 .. Len(todo') : /\ todo'[j].op \in {"wipe", "erase"}
                                     /\ todo'[j].op = "wipe" => todo'[j].at # running
      <3> HIDE DEF p
      <3> QED BY <1>3, <2>1
    <2> QED BY <1>8, <1>13, <2>2 DEF EraseLast, Start, Ready
  <1>14. ASSUME UNCHANGED config, Return
         PROVE  RunInv'
    <2>1. /\ mode = "app" /\ todo' = <<>> /\ call' = Idle /\ UNCHANGED <<config, flash, image, efuse>>
      BY <1>14 DEF Return, flash
    <2>2. (\E p \in Partitions : image[p].ok)'
      BY <2>1, SameBuild DEF RunInv
    <2>3. CASE call.fn = "mark_invalid"
      <3>1. mode' = "off" /\ handle' = NoHandle /\ updated' = NoPartition
        BY <1>14, <2>3 DEF Return
      <3> QED BY <1>2, <2>1, <2>2, <3>1 DEF RunInv, Idle, NoHandle, NoPartition
    <2>4. CASE call.fn # "mark_invalid"
      <3>1. UNCHANGED <<mode, running, handle>>
        BY <1>14, <2>4 DEF Return
      <3>2. handle'.part # running /\ call'.fn # "boot"
        BY <1>2, <2>1, <3>1 DEF RunInv
      <3> QED BY <1>14, <2>1, <3>1, <3>2, RunStarts
    <2> QED BY <2>3, <2>4
  <1>15. CASE Next
    BY <1>5, <1>6, <1>7, <1>9, <1>10, <1>11, <1>12, <1>13, <1>14, <1>15, RunBoots DEF Next
  <1> QED BY <1>4, <1>15

(* The initial states.                                                       *)
LEMMA RunInit ==
  ASSUME Init
  PROVE  RunInv
  <1>1. config \in Configs
    BY DEF Init
  <1>2. FirstPartition \in Partitions
    BY <1>1, Build DEF FirstPartition
  <1>3. image[FirstPartition].ok
    BY <1>2 DEF Init
  <1> QED BY <1>2, <1>3 DEF Init, RunInv, Idle

(* On a build without anti-rollback, the application may do what it likes,   *)
(* power may fail anywhere, and the bootloader still finds an image; with    *)
(* anti-rollback, no application below the eFuse's version runs.  The rest   *)
(* of AlwaysBootable and VersionsHold is about orderly applications.         *)
THEOREM AlwaysRunnable ==
  Spec => []/\ ~AntiRollback => NeverBricked
            /\ AntiRollback /\ mode = "app" => image[running].version >= efuse
  <1> DEFINE P == /\ ~AntiRollback => NeverBricked
                  /\ AntiRollback /\ mode = "app" => image[running].version >= efuse
  <1>1. Init => TypeOK /\ RunInv
    BY InitTypes, RunInit
  <1>2. TypeOK /\ RunInv /\ [Next]_vars => (TypeOK /\ RunInv)'
    BY NextTypes, RunNext
  <1>3. TypeOK /\ RunInv => P
    <2> SUFFICES ASSUME TypeOK, RunInv
                 PROVE  P
      OBVIOUS
    <2>1. ~AntiRollback => NeverBricked
      BY ChoiceTypes DEF NeverBricked, RunInv
    <2> QED BY <2>1 DEF RunInv, Runnable
  <1> QED BY <1>1, <1>2, <1>3, PTL DEF Spec

-------------------------------------------------------------------------------
(* The switch without rollback.                                              *)

(* Without a factory application, starting below the first slot is the same  *)
(* as starting at it.                                                        *)
LEMMA SameStart ==
  ASSUME config \in Configs, ~HasFactory, NEW img \in [Partitions -> Images],
         NEW fuse \in 0 .. MaxVersion
  PROVE  LoadBootImage(0, img, fuse) = LoadBootImage(-1, img, fuse)
  <1> DEFINE q == LoadBootImage(0, img, fuse)
             r == LoadBootImage(-1, img, fuse)
  <1>1. 0 \in -1 .. N - 1 /\ -1 \in -1 .. N - 1
    BY Build
  <1>2. CASE \A p \in Partitions : ~Loads(p, img, fuse)
    BY <1>1, <1>2, LoadTypes
  <1>3. CASE \E p \in Partitions : Loads(p, img, fuse)
    <2>1. /\ q \in Partitions /\ Loads(q, img, fuse)
          /\ r \in Partitions /\ Loads(r, img, fuse)
      BY <1>1, <1>3, LoadFinds
    <2>2. LoadRank(0, q) <= LoadRank(0, r) /\ LoadRank(-1, r) <= LoadRank(-1, q)
      BY <1>1, <2>1, LoadFinds
    <2>3. q \in 0 .. N - 1 /\ r \in 0 .. N - 1 /\ N \in Nat
      BY <2>1, Build DEF Partitions, FACTORY_INDEX
    <2> HIDE DEF q, r
    <2>4. q = r
      BY <2>2, <2>3 DEF LoadRank
    <2> QED BY <2>4 DEF q, r
  <1> QED BY <1>2, <1>3

(* Without rollback, the choice depends on the number of the active entry.   *)
LEMMA PlainChoice ==
  ASSUME config \in Configs, ~Rollback, NEW d \in [{0, 1} -> Entries],
         NEW dd \in [{0, 1} -> Entries], NEW img \in [Partitions -> Images],
         NEW fuse \in 0 .. MaxVersion, Active(d) = Active(dd),
         Active(d) # -1 => d[Active(d)].seq = dd[Active(d)].seq
  PROVE  BootChoice(d, img, fuse) = BootChoice(dd, img, fuse)
  <1>1. ~AntiRollback
    BY Build
  <1>2. ASSUME NEW c \in [{0, 1} -> Entries]
        PROVE  /\ AbortPending(c) = c /\ BootEntry(c, img, fuse) = Active(c)
               /\ BootChoice(c, img, fuse) = LoadBootImage(StartIndex(c, Active(c)), img, fuse)
    <2>1. AbortPending(c) = c
      BY DEF AbortPending
    <2>2. BootEntry(c, img, fuse) = Active(c)
      BY <1>1 DEF BootEntry
    <2>3. Burnt(c, Active(c), img, fuse) = fuse
      BY <1>1 DEF Burnt
    <2> QED BY <2>1, <2>2, <2>3, BootParts
  <1>3. CASE Active(d) # -1
    <2>1. StartIndex(d, Active(d)) = StartIndex(dd, Active(dd))
      BY <1>3 DEF StartIndex, SlotOf
    <2> QED BY <1>2, <2>1
  <1>4. CASE Active(d) = -1
    <2>1. /\ StartIndex(d, -1) \in {0, -1} /\ StartIndex(dd, -1) \in {0, -1}
          /\ HasFactory => StartIndex(d, -1) = -1 /\ StartIndex(dd, -1) = -1
      BY DEF StartIndex, FACTORY_INDEX
    <2> QED BY <1>2, <1>4, <2>1, SameStart
  <1> QED BY <1>3, <1>4

(* An entry that is not active may lose its checksum.                        *)
LEMMA PlainTorn ==
  ASSUME config \in Configs, ~Rollback, NEW d \in [{0, 1} -> Entries],
         NEW img \in [Partitions -> Images], NEW fuse \in 0 .. MaxVersion,
         NEW i \in {0, 1}, i # Active(d), NEW x \in Entries, ~x.crc
  PROVE  BootChoice(Rewritten(d, i, x), img, fuse) = BootChoice(d, img, fuse)
  <1> DEFINE dd == Rewritten(d, i, x)
  <1>1. dd \in [{0, 1} -> Entries] /\ dd[i] = x /\ \A j \in {0, 1} \ {i} : dd[j] = d[j]
    BY DEF Rewritten
  <1> HIDE DEF dd
  <1>2. ~SelectValid(dd[i])
    BY <1>1 DEF SelectValid
  <1>3. Active(d) = Active(dd) /\ (Active(d) # -1 => d[Active(d)] = dd[Active(d)])
    <2>1. CASE i = 0
      BY <1>1, <1>2, <2>1 DEF Active, SelectOtadata
    <2>2. CASE i = 1
      BY <1>1, <1>2, <2>2 DEF Active, SelectOtadata
    <2> QED BY <2>1, <2>2
  <1>4. BootChoice(d, img, fuse) = BootChoice(dd, img, fuse)
    BY <1>1, <1>3, PlainChoice
  <1> QED BY <1>4 DEF dd

(* Steps that change nothing of it.                                          *)
LEMMA PlainKept ==
  ASSUME PlainInv, UNCHANGED <<config, flash, switch>>, todo' = todo \/ todo' = <<>>
  PROVE  PlainInv'
  <1> SUFFICES ASSUME Plain', switch' # {}
               PROVE  PlainInv'
    BY DEF PlainInv
  <1>0. UNCHANGED <<config, otadata, image, efuse, switch>>
    BY DEF flash
  <1>1. UNCHANGED <<otadata, image, efuse>> /\ Plain /\ switch # {} /\ switch' = switch
    <2>1. Plain
      BY <1>0 DEF Plain, Rollback, Liberties
    <2> QED BY <1>0, <2>1
  <1>2. \A d, img, fuse : BootChoice(d, img, fuse)' = BootChoice(d, img, fuse)
    BY <1>0, DecisionNext
  <1>3. BootChoice(otadata, image, efuse)' \in switch'
    BY <1>1, <1>2 DEF PlainInv
  <1>4. CASE todo' = <<>>
    <2>1. Len(todo') = 0
      BY <1>4
    <2> QED BY <1>3, <2>1 DEF PlainInv
  <1>5. CASE todo' = todo
    <2>1. PICK i \in {0, 1} : \A j \in 1 .. Len(todo) :
            /\ todo[j].op \in {"erase", "write"} /\ todo[j].at = i
            /\ \A x \in Entries : ~x.crc \/ x = todo[j].entry =>
                 BootChoice(Rewritten(otadata, i, x), image, efuse) \in switch
      BY <1>1 DEF PlainInv
    <2>2. \A x : BootChoice(Rewritten(otadata, i, x), image, efuse)' =
                 BootChoice(Rewritten(otadata, i, x), image, efuse)
      BY <1>1, <1>2
    <2>3. \A j \in 1 .. Len(todo') :
            /\ todo'[j].op \in {"erase", "write"} /\ todo'[j].at = i
            /\ \A x \in Entries' : ~x.crc \/ x = todo'[j].entry =>
                 BootChoice(Rewritten(otadata, i, x), image, efuse)' \in switch'
      BY <1>0, <1>1, <1>5, <2>1, <2>2, SameBuild
    <2> QED BY <1>3, <2>3 DEF PlainInv
  <1> QED BY <1>4, <1>5

(* A torn entry has no checksum.                                             *)
LEMMA TornEntries ==
  ASSUME TypeOK, NEW op \in Ops, NEW e \in Torn(op)
  PROVE  /\ op.op \in {"erase", "write"} /\ op.at \in {0, 1} /\ e \in Entries /\ ~e.crc
         /\ op.op = "erase" => e.seq = otadata[op.at].seq /\ e.state = otadata[op.at].state
         /\ op.op = "write" => e.seq = op.entry.seq
  <1>1. config \in Configs /\ otadata \in [{0, 1} -> Entries]
    BY DEF TypeOK
  <1>2. op.op \in {"erase", "write"}
    BY DEF Torn
  <1>3. op.at \in {0, 1} /\ op.entry \in Entries
    BY <1>2 DEF Ops, OtaOps
  <1>4. \A x \in Entries :
          LET y == [x EXCEPT !.crc = FALSE]
              z == [x EXCEPT !.crc = FALSE, !.state = "UNDEFINED"]
          IN  /\ y \in Entries /\ z \in Entries /\ y.crc = FALSE /\ z.crc = FALSE
              /\ y.seq = x.seq /\ z.seq = x.seq /\ y.state = x.state
    <2> SUFFICES ASSUME NEW x \in Entries
                 PROVE  LET y == [x EXCEPT !.crc = FALSE]
                            z == [x EXCEPT !.crc = FALSE, !.state = "UNDEFINED"]
                        IN  /\ y \in Entries /\ z \in Entries /\ y.crc = FALSE /\ z.crc = FALSE
                            /\ y.seq = x.seq /\ z.seq = x.seq /\ y.state = x.state
      OBVIOUS
    <2>1. [x EXCEPT !.crc = FALSE] \in Entries /\ [x EXCEPT !.crc = FALSE, !.state = "UNDEFINED"] \in Entries
      BY <1>1, EntryTypes
    <2> QED BY <2>1, Zenon DEF Entries
  <1>5. CASE op.op = "erase"
    <2>1. e = [otadata[op.at] EXCEPT !.crc = FALSE] /\ otadata[op.at] \in Entries
      BY <1>1, <1>3, <1>5 DEF Torn
    <2> QED BY <1>2, <1>3, <1>4, <1>5, <2>1
  <1>6. CASE op.op = "write"
    <2>1. \/ e = [op.entry EXCEPT !.crc = FALSE]
          \/ e = [op.entry EXCEPT !.crc = FALSE, !.state = "UNDEFINED"]
      BY <1>6 DEF Torn
    <2> QED BY <1>2, <1>3, <1>4, <1>6, <2>1
  <1> QED BY <1>2, <1>5, <1>6

(* What a reset leaves of the entries.                                       *)
LEMMA ResetLeaves ==
  ASSUME TypeOK, Reset
  PROVE  \/ otadata' = otadata
         \/ /\ todo # <<>> /\ 1 \in 1 .. Len(todo)
            /\ todo[1].op \in {"erase", "write"} /\ todo[1].at \in {0, 1}
            /\ \E e \in Entries : ~e.crc /\ otadata' = Rewritten(otadata, todo[1].at, e)
  <1>1. todo \in Seq(Ops)
    BY DEF TypeOK
  <1> SUFFICES ASSUME todo # <<>>,
                      \E e \in Torn(Head(todo)) : otadata' = [otadata EXCEPT ![Head(todo).at] = e]
               PROVE  /\ 1 \in 1 .. Len(todo)
                      /\ todo[1].op \in {"erase", "write"} /\ todo[1].at \in {0, 1}
                      /\ \E e \in Entries : ~e.crc /\ otadata' = Rewritten(otadata, todo[1].at, e)
    BY DEF Reset
  <1>2. /\ Head(todo) = todo[1] /\ Head(todo) \in Ops /\ 1 \in 1 .. Len(todo)
    BY <1>1, ListTail, OpsLeft
  <1>3. PICK e \in Torn(todo[1]) : otadata' = Rewritten(otadata, todo[1].at, e)
    BY <1>2 DEF Rewritten
  <1> QED BY <1>2, <1>3, TornEntries

(* An operation on the sector, or a power failure in it.                     *)
LEMMA PlainFlash ==
  ASSUME TypeOK, PlainInv, UNCHANGED config, FlashStep \/ Reset
  PROVE  PlainInv'
  <1> SUFFICES ASSUME Plain', switch' # {}
               PROVE  PlainInv'
    BY DEF PlainInv
  <1>1. /\ config \in Configs /\ todo \in Seq(Ops) /\ otadata \in [{0, 1} -> Entries]
        /\ Entries' = Entries /\ switch' = switch
    BY SameBuild DEF TypeOK, FlashStep, Reset, ghosts
  <1>2. Plain
    BY DEF Plain, Rollback, Liberties
  <1>3. /\ BootChoice(otadata, image, efuse) \in switch
        /\ \E i \in {0, 1} : \A j \in 1 .. Len(todo) :
             /\ todo[j].op \in {"erase", "write"} /\ todo[j].at = i
             /\ \A x \in Entries : ~x.crc \/ x = todo[j].entry =>
                  BootChoice(Rewritten(otadata, i, x), image, efuse) \in switch
    BY <1>1, <1>2 DEF PlainInv
  <1>4. PICK i \in {0, 1} : \A j \in 1 .. Len(todo) :
             /\ todo[j].op \in {"erase", "write"} /\ todo[j].at = i
             /\ \A x \in Entries : ~x.crc \/ x = todo[j].entry =>
                  BootChoice(Rewritten(otadata, i, x), image, efuse) \in switch
    BY <1>3
  <1>5. \A d, img, fuse : BootChoice(d, img, fuse)' = BootChoice(d, img, fuse)
    BY DecisionNext
  <1>6. CASE FlashStep
    <2>1. /\ todo # <<>> /\ todo' = Tail(todo) /\ Head(todo) = todo[1] /\ 1 \in 1 .. Len(todo)
          /\ todo[1] \in Ops
          /\ \A j \in 1 .. Len(todo') : todo'[j] = todo[j + 1] /\ j + 1 \in 1 .. Len(todo)
      BY <1>1, <1>6, ListTail, OpsLeft DEF FlashStep
    <2>2. todo[1].op \in {"erase", "write"} /\ todo[1].at = i /\ todo[1].entry \in Entries
      BY <1>4, <2>1 DEF Ops, OtaOps
    <2>3. otadata' = Rewritten(otadata, i, todo[1].entry) /\ UNCHANGED <<image, efuse>>
      BY <1>6, <2>1, <2>2 DEF FlashStep, Rewritten
    <2>4. BootChoice(otadata, image, efuse)' \in switch'
      BY <1>1, <1>4, <1>5, <2>1, <2>2, <2>3
    <2>5. ASSUME NEW x
          PROVE  BootChoice(Rewritten(otadata, i, x), image, efuse)' =
                 BootChoice(Rewritten(otadata, i, x), image, efuse)
      <3>1. Rewritten(otadata', i, x) = Rewritten(otadata, i, x)
        BY <1>1, <2>3 DEF Rewritten
      <3> QED BY <1>5, <2>3, <3>1
    <2>6. \A j \in 1 .. Len(todo') :
            /\ todo'[j].op \in {"erase", "write"} /\ todo'[j].at = i
            /\ \A x \in Entries' : ~x.crc \/ x = todo'[j].entry =>
                 BootChoice(Rewritten(otadata, i, x), image, efuse)' \in switch'
      BY <1>1, <1>4, <2>1, <2>5
    <2> QED BY <2>4, <2>6 DEF PlainInv
  <1>7. CASE Reset
    <2>1. todo' = <<>> /\ Len(todo') = 0 /\ UNCHANGED <<image, efuse>>
      BY <1>7 DEF Reset
    <2>2. BootChoice(otadata', image, efuse) \in switch
      <3>1. CASE otadata' = otadata
        BY <1>3, <3>1
      <3>2. CASE /\ todo # <<>> /\ 1 \in 1 .. Len(todo)
                 /\ \E e \in Entries : ~e.crc /\ otadata' = Rewritten(otadata, todo[1].at, e)
        BY <1>4, <3>2
      <3> QED BY <1>7, <3>1, <3>2, ResetLeaves
    <2>3. BootChoice(otadata, image, efuse)' \in switch'
      BY <1>1, <1>5, <2>1, <2>2
    <2> QED BY <2>1, <2>3 DEF PlainInv
  <1> QED BY <1>6, <1>7

(* The bootloader fills empty OTA data with what it starts anyway.           *)
LEMMA PlainBoot ==
  ASSUME TypeOK, PlainInv, UNCHANGED config, Boot
  PROVE  PlainInv'
  <1> SUFFICES ASSUME Plain', switch' # {}
               PROVE  PlainInv'
    BY DEF PlainInv
  <1>1. /\ config \in Configs /\ otadata \in [{0, 1} -> Entries] /\ efuse \in 0 .. MaxVersion
        /\ image \in [Partitions -> Images] /\ UNCHANGED <<otadata, image, efuse, switch>>
    BY DEF TypeOK, Boot, flash, ghosts
  <1>2. Plain /\ ~Rollback
    BY DEF Plain, Rollback, Liberties
  <1>3. ~AntiRollback
    BY <1>1, <1>2, Build
  <1> DEFINE p == BootChoice(otadata, image, efuse)
             x0 == Entry(p + 1, "VALID")
  <1>4. AbortPending(otadata) = otadata /\ p \in switch
    BY <1>1, <1>2 DEF AbortPending, PlainInv
  <1>5. todo' = <<>> \o <<>> \o <<>> \o <<>> \o SetActualOtaSeq(otadata, p)
    <2> DEFINE entry == BootEntry(otadata, image, efuse)
    <2>1. MarkPending(otadata, entry) = <<>>
      BY <1>2 DEF MarkPending
    <2>2. Burnt(otadata, entry, image, efuse) = efuse
      BY <1>3 DEF Burnt
    <2> QED BY <1>4, <2>1, <2>2, BootShape
  <1>6. \A d, img, fuse : BootChoice(d, img, fuse)' = BootChoice(d, img, fuse)
    BY DecisionNext
  <1>7. BootChoice(otadata, image, efuse)' \in switch'
    BY <1>1, <1>4, <1>6
  <1> HIDE DEF p
  <1>8. CASE ~(p \in Slots /\ InitialContents(otadata))
    <2>1. Len(todo') = 0
      BY <1>5, <1>8 DEF SetActualOtaSeq
    <2> QED BY <1>7, <2>1 DEF PlainInv
  <1>9. CASE p \in Slots /\ InitialContents(otadata)
    <2>1. todo' = <<EraseSector(0), WriteEntry(0, x0)>>
      BY <1>3, <1>5, <1>9 DEF SetActualOtaSeq, Rewrite
    <2>2. ~SelectValid(otadata[0]) /\ ~SelectValid(otadata[1]) /\ Active(otadata) = -1
      BY <1>9, ActiveEntry DEF InitialContents, NotWritten, SelectValid, SelectInvalid
    <2>3. \A x \in Entries : ~x.crc => BootChoice(Rewritten(otadata, 0, x), image, efuse) \in switch
      BY <1>1, <1>2, <1>4, <2>2, PlainTorn DEF p
    <2>4. BootChoice(Rewritten(otadata, 0, x0), image, efuse) \in switch
      <3> DEFINE d == Rewritten(otadata, 0, x0)
      <3>1. /\ x0 \in Entries /\ x0.crc = TRUE /\ x0.seq = p + 1 /\ x0.state = "VALID"
            /\ p \in 0 .. N - 1 /\ N \in Nat
        <4>1. p + 1 \in -1 .. MaxSeq /\ "VALID" \in States /\ p \in 0 .. N - 1 /\ N \in Nat
          BY <1>1, <1>9, Build DEF States
        <4> QED BY <1>1, <4>1, EntryTypes DEF Entry
      <3>2. SelectValid(x0) /\ SlotOf(x0) = p
        <4>1. (p + 1 - 1) % N = p
          BY <3>1
        <4> QED BY <3>1, <4>1 DEF SelectValid, SelectInvalid, UINT32_MAX, SlotOf
      <3> HIDE DEF x0
      <3>3. d \in [{0, 1} -> Entries] /\ d[0] = x0 /\ d[1] = otadata[1]
        BY <1>1, <3>1 DEF Rewritten
      <3> HIDE DEF d
      <3>4. AbortPending(d) = d
        BY <1>2, <3>3 DEF AbortPending
      <3>5. BootEntry(d, image, efuse) = 0
        BY <1>3, <2>2, <3>2, <3>3 DEF BootEntry, Active, SelectOtadata
      <3>6. image[p].ok
        BY <1>1, <1>9, ChoiceTypes, BootParts, Build DEF p
      <3>7. BootChoice(d, image, efuse) = p
        BY <1>1, <3>2, <3>3, <3>4, <3>5, <3>6, BootOfEntry
      <3> QED BY <1>4, <3>7 DEF d
    <2>5. \A x : BootChoice(Rewritten(otadata, 0, x), image, efuse)' =
                 BootChoice(Rewritten(otadata, 0, x), image, efuse)
      BY <1>1, <1>6
    <2> HIDE DEF x0
    <2>6. /\ EraseSector(0).op = "erase" /\ EraseSector(0).at = 0 /\ EraseSector(0).entry = Erased
          /\ WriteEntry(0, x0).op = "write" /\ WriteEntry(0, x0).at = 0 /\ WriteEntry(0, x0).entry = x0
          /\ ~Erased.crc
      BY DEF EraseSector, WriteEntry, Erased
    <2>7. \A j \in 1 .. Len(todo') :
            /\ todo'[j].op \in {"erase", "write"} /\ todo'[j].at = 0
            /\ todo'[j].entry = Erased \/ todo'[j].entry = x0
      BY <2>1, <2>6
    <2>8. \A j \in 1 .. Len(todo') : \A x \in Entries' : ~x.crc \/ x = todo'[j].entry =>
            BootChoice(Rewritten(otadata, 0, x), image, efuse)' \in switch'
      BY <1>1, <2>3, <2>4, <2>5, <2>6, <2>7, SameBuild
    <2> QED BY <1>7, <2>7, <2>8 DEF PlainInv
  <1> QED BY <1>8, <1>9

(* The switch begins.                                                        *)
LEMMA PlainSetBoot ==
  ASSUME TypeOK, RunInv, UNCHANGED config, NEW p \in Slots, SetBoot(p)
  PROVE  PlainInv'
  <1> SUFFICES ASSUME Plain', switch' # {}
               PROVE  PlainInv'
    BY DEF PlainInv
  <1>1. /\ config \in Configs /\ otadata \in [{0, 1} -> Entries] /\ efuse \in 0 .. MaxVersion
        /\ image \in [Partitions -> Images] /\ UNCHANGED <<otadata, image, efuse>>
        /\ image[p].ok /\ RewriteEntry(otadata, p).seq <= MaxSeq
    BY DEF TypeOK, SetBoot, flash
  <1>2. Plain /\ ~Rollback
    BY DEF Plain, Rollback, Liberties
  <1>3. ~AntiRollback
    BY <1>1, <1>2, Build
  <1>4. /\ todo' = <<EraseSector(RewriteSector(otadata)),
                     WriteEntry(RewriteSector(otadata), RewriteEntry(otadata, p))>>
        /\ switch' = {BootChoice(otadata, image, efuse), running, p} \ {NoPartition}
    BY <1>3 DEF SetBoot, Start, Rewrite
  <1>5. BootChoice(otadata, image, efuse) # NoPartition
    BY <1>3, ChoiceTypes DEF RunInv
  <1>6. p # NoPartition
    BY <1>1, Build
  <1>7. BootChoice(otadata, image, efuse) \in switch' /\ p \in switch'
    BY <1>4, <1>5, <1>6
  <1>8. PICK i, e : /\ i \in {0, 1} /\ i = RewriteSector(otadata)
                   /\ e = RewriteEntry(otadata, p)
    BY <1>1, <1>3, SetBootChoice
  <1>9. i # Active(otadata)
    BY <1>8, ActiveEntry DEF RewriteSector
  <1>10. BootChoice(Rewritten(otadata, i, e), image, efuse) = p
    BY <1>1, <1>3, <1>8, SetBootChoice
  <1>11. \A x \in Entries : ~x.crc \/ x = e =>
           BootChoice(Rewritten(otadata, i, x), image, efuse) \in switch'
    BY <1>1, <1>2, <1>7, <1>8, <1>9, <1>10, PlainTorn
  <1>12. \A d, img, fuse : BootChoice(d, img, fuse)' = BootChoice(d, img, fuse)
    BY DecisionNext
  <1>13. /\ BootChoice(otadata, image, efuse)' \in switch'
         /\ \A x : BootChoice(Rewritten(otadata, i, x), image, efuse)' =
                   BootChoice(Rewritten(otadata, i, x), image, efuse)
    BY <1>1, <1>7, <1>12
  <1>14. /\ EraseSector(i).op = "erase" /\ EraseSector(i).at = i /\ EraseSector(i).entry = Erased
         /\ WriteEntry(i, e).op = "write" /\ WriteEntry(i, e).at = i /\ WriteEntry(i, e).entry = e
         /\ ~Erased.crc
    BY DEF EraseSector, WriteEntry, Erased
  <1>15. \A j \in 1 .. Len(todo') :
           /\ todo'[j].op \in {"erase", "write"} /\ todo'[j].at = i
           /\ todo'[j].entry = Erased \/ todo'[j].entry = e
    BY <1>4, <1>8, <1>14
  <1>16. \A j \in 1 .. Len(todo') : \A x \in Entries' : ~x.crc \/ x = todo'[j].entry =>
           BootChoice(Rewritten(otadata, i, x), image, efuse)' \in switch'
    BY <1>8, <1>11, <1>13, <1>14, <1>15, SameBuild
  <1> QED BY <1>8, <1>13, <1>15, <1>16 DEF PlainInv

(* Every step keeps the switch atomic.                                       *)
LEMMA PlainNext ==
  ASSUME TypeOK, RunInv, PlainInv, [Next]_vars
  PROVE  PlainInv'
  <1>1. ASSUME UNCHANGED <<config, flash, switch>>, todo' = todo \/ todo' = <<>>
        PROVE  PlainInv'
    BY <1>1, PlainKept
  <1>2. ASSUME switch' = {}
        PROVE  PlainInv'
    BY <1>2 DEF PlainInv
  <1>3. CASE UNCHANGED vars
    BY <1>1, <1>3 DEF vars, machine, ghosts
  <1>4. ASSUME UNCHANGED config, StartApp \/ OtaEnd \/ OtaAbort \/ Return
        PROVE  PlainInv'
    BY <1>1, <1>4 DEF StartApp, OtaEnd, OtaAbort, Return, ghosts
  <1>5. ASSUME UNCHANGED config, NEW p \in Slots, NEW lazy \in BOOLEAN, OtaBegin(p, lazy)
        PROVE  PlainInv'
    BY <1>1, <1>2, <1>5 DEF OtaBegin, ForgetImage, flash
  <1>6. ASSUME UNCHANGED config, OtaWrite \/ MarkValid \/ MarkInvalid \/ EraseLast
        PROVE  PlainInv'
    BY <1>2, <1>6 DEF OtaWrite, MarkValid, MarkInvalid, EraseLast, ForgetImage
  <1>7. ASSUME UNCHANGED config, SetBootFactory
        PROVE  PlainInv'
    <2>1. ~Plain'
      BY <1>7 DEF SetBootFactory, Plain, Liberties
    <2> QED BY <2>1 DEF PlainInv
  <1>8. CASE Next
    BY <1>4, <1>5, <1>6, <1>7, <1>8, PlainFlash, PlainBoot, PlainSetBoot DEF Next
  <1> QED BY <1>3, <1>8

-------------------------------------------------------------------------------
(* The base: the application that worked last, according to the entries.     *)

(* Where the base is.                                                        *)
LEMMA BaseTypes ==
  ASSUME TypeOK
  PROVE  /\ BaseIndex \in {-1, 0, 1} /\ BasePart \in Partitions
         /\ BaseIndex # -1 => /\ Settled(otadata[BaseIndex]) /\ SelectValid(otadata[BaseIndex])
                              /\ otadata[BaseIndex].state = "VALID"
                              /\ otadata[BaseIndex].seq \in Nat
                              /\ BasePart = SlotOf(otadata[BaseIndex]) /\ BasePart \in Slots
         /\ BaseIndex = -1 <=> ~Settled(otadata[0]) /\ ~Settled(otadata[1])
         /\ BaseIndex = -1 => BasePart = FirstPartition
         /\ \A i \in {0, 1} : BaseIndex # -1 /\ Settled(otadata[i]) =>
                                otadata[i].seq <= otadata[BaseIndex].seq
  <1>1. config \in Configs /\ otadata \in [{0, 1} -> Entries]
    BY DEF TypeOK
  <1>2. [i \in {0, 1} |-> Settled(otadata[i])] \in [{0, 1} -> BOOLEAN]
    BY DEF Settled
  <1>3. /\ BaseIndex \in {-1, 0, 1}
        /\ BaseIndex # -1 => Settled(otadata[BaseIndex])
        /\ BaseIndex = -1 <=> ~Settled(otadata[0]) /\ ~Settled(otadata[1])
    BY <1>2, ActiveTypes DEF BaseIndex
  <1>4. BaseIndex # -1 => SelectValid(otadata[BaseIndex]) /\ otadata[BaseIndex].state = "VALID"
    BY <1>3 DEF Settled
  <1>5. BaseIndex # -1 => otadata[BaseIndex].seq \in Nat /\ SlotOf(otadata[BaseIndex]) \in Slots
    BY <1>1, <1>3, <1>4, ValidEntry
  <1>6. BaseIndex = -1 => BasePart = FirstPartition /\ BasePart \in Partitions
    BY <1>1, Build DEF BasePart, FirstPartition
  <1>7. BaseIndex # -1 => BasePart = SlotOf(otadata[BaseIndex])
    BY DEF BasePart
  <1>8. \A i \in {0, 1} : Settled(otadata[i]) => otadata[i].seq \in Nat
    BY <1>1, ValidEntry DEF Settled
  <1>9. \A i \in {0, 1} : BaseIndex # -1 /\ Settled(otadata[i]) =>
                            otadata[i].seq <= otadata[BaseIndex].seq
    BY <1>3, <1>8 DEF BaseIndex, SelectOtadata
  <1> QED BY <1>1, <1>3, <1>4, <1>5, <1>6, <1>7, <1>9, Build

(* The slot of an entry depends on the build only.                           *)
LEMMA SameSlot ==
  ASSUME UNCHANGED config
  PROVE  /\ \A e : SlotOf(e)' = SlotOf(e)
         /\ FirstPartition' = FirstPartition /\ NoPartition' = NoPartition
         /\ NoHandle' = NoHandle /\ Idle' = Idle
  BY SameBuild DEF SlotOf, FirstPartition, FACTORY_INDEX, NoPartition, NoHandle, Idle

(* The base stays when the entries do.                                       *)
LEMMA BaseSame ==
  ASSUME UNCHANGED <<config, otadata>>
  PROVE  /\ BaseIndex' = BaseIndex /\ BasePart' = BasePart
         /\ \A e : Above(e)' = Above(e)
  <1>1. BaseIndex' = BaseIndex
    BY DEF BaseIndex
  <1> QED BY <1>1, SameSlot DEF BasePart, Above

(* The base stays when another entry is rewritten, unless by a valid one.    *)
LEMMA BaseKept ==
  ASSUME TypeOK, UNCHANGED config, NEW i \in {0, 1}, NEW x \in Entries, i # BaseIndex,
         ~Settled(x), otadata' = Rewritten(otadata, i, x)
  PROVE  /\ BaseIndex' = BaseIndex /\ BasePart' = BasePart
         /\ BaseIndex # -1 => otadata'[BaseIndex] = otadata[BaseIndex]
         /\ \A e : Above(e)' = Above(e)
         /\ otadata'[i] = x /\ \A j \in {0, 1} : j # i => otadata'[j] = otadata[j]
  <1>1. otadata \in [{0, 1} -> Entries]
    BY DEF TypeOK
  <1>2. otadata'[i] = x /\ \A j \in {0, 1} : j # i => otadata'[j] = otadata[j]
    BY <1>1 DEF Rewritten
  <1>3. BaseIndex' = BaseIndex
    <2>1. CASE i = 0
      BY <1>2, <2>1 DEF BaseIndex, SelectOtadata
    <2>2. CASE i = 1
      BY <1>2, <2>2 DEF BaseIndex, SelectOtadata
    <2> QED BY <2>1, <2>2
  <1>4. BaseIndex # -1 => otadata'[BaseIndex] = otadata[BaseIndex]
    BY <1>2, BaseTypes
  <1> QED BY <1>2, <1>3, <1>4, SameSlot DEF BasePart, Above

(* The base moves to a valid entry with a greater number.                    *)
LEMMA BaseMoves ==
  ASSUME TypeOK, UNCHANGED config, NEW i \in {0, 1}, NEW x \in Entries, i # BaseIndex,
         Settled(x), Above(x), otadata' = Rewritten(otadata, i, x)
  PROVE  /\ BaseIndex' = i /\ BasePart' = SlotOf(x)
         /\ otadata'[i] = x /\ \A j \in {0, 1} : j # i => otadata'[j] = otadata[j]
  <1>1. config \in Configs /\ otadata \in [{0, 1} -> Entries]
    BY DEF TypeOK
  <1>2. otadata'[i] = x /\ \A j \in {0, 1} : j # i => otadata'[j] = otadata[j]
    BY <1>1 DEF Rewritten
  <1>3. x.seq \in Nat
    BY <1>1, ValidEntry DEF Settled
  <1>4. 1 - i \in {0, 1} /\ 1 - i # i
    OBVIOUS
  <1>5. Settled(otadata[1 - i]) => 1 - i = BaseIndex /\ x.seq > otadata[1 - i].seq
                                   /\ otadata[1 - i].seq \in Nat
    BY <1>4, BaseTypes DEF Above
  <1>6. BaseIndex' = i
    <2>1. CASE i = 0
      BY <1>2, <1>3, <1>5, <2>1 DEF BaseIndex, SelectOtadata
    <2>2. CASE i = 1
      BY <1>2, <1>3, <1>5, <2>2 DEF BaseIndex, SelectOtadata
    <2> QED BY <2>1, <2>2
  <1> QED BY <1>2, <1>6, SameSlot DEF BasePart

(* There is one entry besides the base: if it is new or pending, the other   *)
(* one is the base or is empty.                                              *)
LEMMA OneOther ==
  ASSUME TypeOK, EntriesInv, NEW i \in {0, 1}, Trial(otadata[i]) \/ Pending(otadata[i])
  PROVE  /\ i # BaseIndex
         /\ BaseIndex = 1 - i \/ (BaseIndex = -1 /\ i = 0 /\ ~otadata[1].crc)
         /\ SelectValid(otadata[i]) /\ otadata[i].seq \in Nat /\ SlotOf(otadata[i]) \in Slots
         /\ \A j \in {0, 1} : Trial(otadata[j]) \/ Pending(otadata[j]) => j = i
         /\ ~(Trial(otadata[i]) /\ Pending(otadata[i]))
  <1>1. config \in Configs /\ otadata \in [{0, 1} -> Entries]
    BY DEF TypeOK
  <1>2. SelectValid(otadata[i]) /\ otadata[i].crc
    BY DEF Trial, Pending, SelectValid
  <1>3. otadata[i].seq \in Nat /\ SlotOf(otadata[i]) \in Slots
    BY <1>1, <1>2, ValidEntry
  <1>4. i # BaseIndex
    BY BaseTypes DEF Trial, Pending
  <1>5. BaseIndex = 1 - i \/ (BaseIndex = -1 /\ i = 0 /\ ~otadata[1].crc)
    BY <1>2, <1>4, BaseTypes DEF EntriesInv
  <1>6. \A j \in {0, 1} : Trial(otadata[j]) \/ Pending(otadata[j]) => j = i
    BY <1>5, BaseTypes DEF Trial, Pending, SelectValid
  <1> QED BY <1>2, <1>3, <1>4, <1>5, <1>6 DEF Trial, Pending

(* The active entry: the one that is new or pending, else the base.          *)
LEMMA ActiveIs ==
  ASSUME TypeOK, EntriesInv
  PROVE  /\ \A i \in {0, 1} : (Trial(otadata[i]) \/ Pending(otadata[i])) /\ Above(otadata[i]) =>
              Active(otadata) = i
         /\ (\A i \in {0, 1} : ~Trial(otadata[i]) /\ ~Pending(otadata[i])) =>
              Active(otadata) = BaseIndex
  <1>1. ASSUME NEW i \in {0, 1}, Trial(otadata[i]) \/ Pending(otadata[i]), Above(otadata[i])
        PROVE  Active(otadata) = i
    <2>1. /\ SelectValid(otadata[i]) /\ otadata[i].seq \in Nat
          /\ BaseIndex = 1 - i \/ (BaseIndex = -1 /\ i = 0 /\ ~otadata[1].crc)
      BY <1>1, OneOther
    <2>2. SelectValid(otadata[1 - i]) => /\ otadata[1 - i].seq \in Nat
                                         /\ otadata[i].seq > otadata[1 - i].seq
      BY <1>1, <2>1, BaseTypes DEF Above, SelectValid
    <2>3. CASE i = 0
      BY <2>1, <2>2, <2>3 DEF Active, SelectOtadata
    <2>4. CASE i = 1
      BY <2>1, <2>2, <2>4 DEF Active, SelectOtadata
    <2> QED BY <2>3, <2>4
  <1>2. ASSUME \A i \in {0, 1} : ~Trial(otadata[i]) /\ ~Pending(otadata[i])
        PROVE  Active(otadata) = BaseIndex
    <2>1. \A i \in {0, 1} : SelectValid(otadata[i]) = Settled(otadata[i])
      BY <1>2 DEF EntriesInv, Trial, Pending, Settled, SelectValid
    <2>2. [i \in {0, 1} |-> SelectValid(otadata[i])] = [i \in {0, 1} |-> Settled(otadata[i])]
      BY <2>1
    <2> QED BY <2>2 DEF Active, BaseIndex
  <1> QED BY <1>1, <1>2

(* What a boot chooses: the new application if there is one, else the base.  *)
LEMMA OrderChoice ==
  ASSUME TypeOK, Rollback, EntriesInv, BaseInv, TrialInv
  PROVE  LET a == AbortPending(otadata)
             entry == BootEntry(a, image, efuse)
         IN  /\ \A i \in {0, 1} : Trial(otadata[i]) =>
                  /\ BootChoice(otadata, image, efuse) = SlotOf(otadata[i])
                  /\ entry = i /\ a[i] = otadata[i] /\ Burnt(a, entry, image, efuse) = efuse
             /\ (\A i \in {0, 1} : ~Trial(otadata[i])) =>
                  /\ BootChoice(otadata, image, efuse) = BasePart
                  /\ entry = BaseIndex
                  /\ entry = -1 => Burnt(a, entry, image, efuse) = efuse
                  /\ entry # -1 => /\ a[entry] = otadata[entry]
                                   /\ AntiRollback => Burnt(a, entry, image, efuse) =
                                                        image[BasePart].version
                                   /\ ~AntiRollback => Burnt(a, entry, image, efuse) = efuse
  <1>1. /\ config \in Configs /\ otadata \in [{0, 1} -> Entries]
        /\ image \in [Partitions -> Images] /\ efuse \in 0 .. MaxVersion
    BY DEF TypeOK
  <1> DEFINE a == AbortPending(otadata)
             entry == BootEntry(a, image, efuse)
             burnt == Burnt(a, entry, image, efuse)
  <1>2. /\ a \in [{0, 1} -> Entries]
        /\ \A i \in {0, 1} :
             /\ a[i].seq = otadata[i].seq
             /\ SelectValid(a[i]) <=> SelectValid(otadata[i]) /\ ~Pending(otadata[i])
             /\ otadata[i].state # "PENDING_VERIFY" => a[i] = otadata[i]
    BY <1>1, Aborted DEF Pending
  <1> HIDE DEF a
  <1>3. \A p \in Partitions : Runnable(p) =>
          Loads(p, image, efuse) /\ (AntiRollback => CheckSecureVersion(image[p].version, efuse))
    BY <1>1, Build DEF Runnable, Loads, CheckAntiRollback, CheckSecureVersion, NoDescription
  <1>4. ASSUME NEW i \in {0, 1}, SelectValid(a[i]), a[i] = otadata[i],
               SlotOf(otadata[i]) \in Slots, Runnable(SlotOf(otadata[i])),
               SelectValid(a[1 - i]) => /\ a[1 - i].seq \in Nat /\ a[i].seq \in Nat
                                        /\ a[i].seq > a[1 - i].seq \/ (a[i].seq = a[1 - i].seq /\ i = 0)
        PROVE  /\ entry = i /\ BootChoice(otadata, image, efuse) = SlotOf(otadata[i])
    <2>1. AntiRollback => CheckSecureVersion(image[SlotOf(a[i])].version, efuse)
      BY <1>1, <1>3, <1>4, Build
    <2>2. ASSUME NEW valid \in [{0, 1} -> BOOLEAN], valid[i], valid[1 - i] => SelectValid(a[1 - i])
          PROVE  SelectOtadata(a, valid) = i
      <3>1. CASE i = 0
        BY <1>4, <2>2, <3>1 DEF SelectOtadata
      <3>2. CASE i = 1
        BY <1>4, <2>2, <3>2 DEF SelectOtadata
      <3> QED BY <3>1, <3>2
    <2>3. [j \in {0, 1} |-> SelectValid(a[j])] \in [{0, 1} -> BOOLEAN]
      BY DEF SelectValid
    <2>4. [j \in {0, 1} |-> SelectValid(a[j]) /\ CheckSecureVersion(image[SlotOf(a[j])].version, efuse)]
            \in [{0, 1} -> BOOLEAN]
      BY DEF SelectValid, CheckSecureVersion
    <2>5. entry = i
      <3>0. 1 - i \in {0, 1}
        OBVIOUS
      <3>1. CASE AntiRollback
        BY <1>4, <2>1, <2>2, <2>4, <3>0, <3>1 DEF BootEntry
      <3>2. CASE ~AntiRollback
        BY <1>4, <2>2, <2>3, <3>0, <3>2 DEF BootEntry, Active
      <3> QED BY <3>1, <3>2
    <2>6. image[SlotOf(a[entry])].ok /\ entry # -1
      BY <1>4, <2>5 DEF Runnable
    <2>7. BootChoice(otadata, image, efuse) = SlotOf(a[entry])
      BY <1>1, <2>6, BootOfEntry DEF a
    <2> QED BY <1>4, <2>5, <2>7
  <1>5. ASSUME NEW i \in {0, 1}, Trial(otadata[i])
        PROVE  /\ BootChoice(otadata, image, efuse) = SlotOf(otadata[i])
               /\ entry = i /\ a[i] = otadata[i] /\ burnt = efuse
    <2>1. /\ SelectValid(otadata[i]) /\ otadata[i].state = "NEW" /\ ~Pending(otadata[i])
      BY <1>5 DEF Trial, Pending
    <2>2. a[i] = otadata[i] /\ SelectValid(a[i])
      BY <1>2, <2>1
    <2>3. /\ SlotOf(otadata[i]) \in Slots /\ otadata[i].seq \in Nat
          /\ BaseIndex = 1 - i \/ (BaseIndex = -1 /\ i = 0 /\ ~otadata[1].crc)
      BY <1>5, OneOther
    <2>4. Above(otadata[i]) /\ Runnable(SlotOf(otadata[i]))
      BY <1>5 DEF TrialInv, Fresh
    <2>5. SelectValid(a[1 - i]) => a[1 - i].seq \in Nat /\ a[i].seq > a[1 - i].seq
      <3>1. CASE BaseIndex = 1 - i
        BY <1>2, <2>2, <2>4, <3>1, BaseTypes DEF Above
      <3>2. CASE BaseIndex = -1 /\ i = 0 /\ ~otadata[1].crc
        BY <1>2, <3>2 DEF SelectValid
      <3> QED BY <2>3, <3>1, <3>2
    <2>6. BootChoice(otadata, image, efuse) = SlotOf(otadata[i]) /\ entry = i
      BY <1>4, <2>2, <2>3, <2>4, <2>5
    <2>7. burnt = efuse
      BY <2>1, <2>2, <2>6 DEF Burnt
    <2> QED BY <2>2, <2>6, <2>7
  <1>6. ASSUME \A i \in {0, 1} : ~Trial(otadata[i])
        PROVE  /\ BootChoice(otadata, image, efuse) = BasePart
               /\ entry = BaseIndex
               /\ entry = -1 => burnt = efuse
               /\ entry # -1 => /\ a[entry] = otadata[entry]
                                /\ AntiRollback => burnt = image[BasePart].version
                                /\ ~AntiRollback => burnt = efuse
    <2>1. \A i \in {0, 1} : SelectValid(a[i]) = Settled(otadata[i])
      BY <1>2, <1>6 DEF EntriesInv, Trial, Pending, Settled, SelectValid
    <2>2. BasePart \in Partitions /\ Runnable(BasePart)
      BY BaseTypes DEF BaseInv
    <2>3. CASE BaseIndex # -1
      <3> DEFINE i == BaseIndex
      <3>1. /\ i \in {0, 1} /\ Settled(otadata[i]) /\ otadata[i].state = "VALID"
            /\ BasePart = SlotOf(otadata[i]) /\ BasePart \in Slots
        BY <2>3, BaseTypes
      <3>2. a[i] = otadata[i] /\ SelectValid(a[i]) /\ a[i].seq \in Nat
        BY <1>2, <2>1, <3>1, BaseTypes
      <3>3. SelectValid(a[1 - i]) => /\ a[1 - i].seq \in Nat
                                     /\ a[i].seq > a[1 - i].seq \/ (a[i].seq = a[1 - i].seq /\ i = 0)
        <4>1. ASSUME SelectValid(a[1 - i])
              PROVE  /\ a[1 - i].seq \in Nat
                     /\ a[i].seq > a[1 - i].seq \/ (a[i].seq = a[1 - i].seq /\ i = 0)
          <5>1. Settled(otadata[1 - i]) /\ 1 - i \in {0, 1}
            BY <2>1, <3>1, <4>1
          <5>2. otadata[1 - i].seq \in Nat
            BY <1>1, <5>1, ValidEntry DEF Settled
          <5>3. otadata[0].seq \in Nat /\ otadata[1].seq \in Nat /\ Settled(otadata[0]) /\ Settled(otadata[1])
            BY <3>1, <3>2, <5>1, <5>2
          <5>4. BaseIndex = IF otadata[0].seq >= otadata[1].seq THEN 0 ELSE 1
            BY <5>3 DEF BaseIndex, SelectOtadata
          <5> QED BY <1>2, <3>1, <5>3, <5>4
        <4> QED BY <4>1
      <3> HIDE DEF i
      <3>4. entry = i /\ BootChoice(otadata, image, efuse) = SlotOf(otadata[i])
        BY <1>4, <2>2, <3>1, <3>2, <3>3
      <3>5. /\ AntiRollback => burnt = image[BasePart].version
            /\ ~AntiRollback => burnt = efuse
        <4>1. AntiRollback => image[BasePart].version >= efuse /\ image[BasePart].version \in Int
          BY <1>1, <2>2, ImageTypes, Build DEF Runnable
        <4>2. burnt = IF AntiRollback THEN UpdateSecureVersion(image[BasePart].version, efuse) ELSE efuse
          BY <3>1, <3>2, <3>4 DEF Burnt
        <4>3. efuse \in Int
          BY <1>1, Build
        <4> QED BY <4>1, <4>2, <4>3 DEF UpdateSecureVersion
      <3> QED BY <2>3, <3>1, <3>2, <3>4, <3>5 DEF i
    <2>4. CASE BaseIndex = -1
      <3>1. ~SelectValid(a[0]) /\ ~SelectValid(a[1])
        BY <2>1, <2>4, BaseTypes
      <3>2. entry = -1
        <4>1. CASE AntiRollback
          <5>1. [j \in {0, 1} |-> SelectValid(a[j]) /\ CheckSecureVersion(image[SlotOf(a[j])].version, efuse)]
                  \in [{0, 1} -> BOOLEAN]
            BY DEF SelectValid, CheckSecureVersion
          <5> QED BY <3>1, <4>1, <5>1, ActiveTypes DEF BootEntry
        <4>2. CASE ~AntiRollback
          BY <3>1, <4>2, ActiveEntry DEF BootEntry
        <4> QED BY <4>1, <4>2
      <3>3. burnt = efuse
        BY <3>2 DEF Burnt
      <3>4. StartIndex(a, -1) \in {-1, 0} /\ (HasFactory => StartIndex(a, -1) = -1)
        BY DEF StartIndex, FACTORY_INDEX
      <3>5. BasePart = FirstPartition /\ Loads(BasePart, image, efuse)
        BY <1>3, <2>2, <2>4, BaseTypes
      <3> DEFINE start == StartIndex(a, -1)
                 q == LoadBootImage(start, image, efuse)
      <3>6. start \in -1 .. N - 1
        BY <1>1, <3>4, Build
      <3>7. q \in Partitions /\ LoadRank(start, q) <= LoadRank(start, BasePart)
        BY <1>1, <2>2, <3>5, <3>6, LoadFinds
      <3> HIDE DEF start, q
      <3>8. q = FirstPartition
        <4>1. CASE HasFactory
          <5>1. q \in Int /\ q >= -1 /\ FirstPartition = -1 /\ start = -1
            BY <1>1, <3>4, <3>7, <4>1, Build DEF FirstPartition, FACTORY_INDEX, start
          <5> QED BY <3>5, <3>7, <5>1 DEF LoadRank
        <4>2. CASE ~HasFactory
          <5>1. q \in 0 .. N - 1 /\ FirstPartition = 0 /\ start \in {-1, 0} /\ N \in Nat
            BY <1>1, <3>4, <3>7, <4>2, Build DEF FirstPartition, Partitions, start
          <5> QED BY <3>5, <3>7, <5>1 DEF LoadRank
        <4> QED BY <4>1, <4>2
      <3>9. BootChoice(otadata, image, efuse) = q
        BY <3>2, <3>3, BootParts DEF a, q, start
      <3> QED BY <2>4, <3>2, <3>3, <3>5, <3>8, <3>9
    <2> QED BY <2>3, <2>4
  <1> QED BY <1>5, <1>6 DEF a

-------------------------------------------------------------------------------
(* Ordered, action by action.                                                *)

(* What stays of an entry that is not valid any more, or is the same.        *)
LEMMA OrderOff ==
  ASSUME TypeOK, Ordered, UNCHANGED <<config, image, efuse, switch, confirmed, good, tried>>,
         BaseIndex' = BaseIndex, BasePart' = BasePart, \A e : Above(e)' = Above(e),
         \A i \in {0, 1} : otadata'[i] = otadata[i] \/ ~otadata'[i].crc,
         mode' = "off", todo' = <<>>, handle' = NoHandle, updated' = NoPartition
  PROVE  Ordered'
  <1>1. /\ \A i \in {0, 1} : SelectValid(otadata'[i]) => otadata'[i] = otadata[i]
        /\ \A i \in {0, 1} : Trial(otadata'[i]) => otadata'[i] = otadata[i] /\ Trial(otadata[i])
    BY DEF Trial, SelectValid
  <1>2. EntriesInv'
    BY <1>1 DEF Ordered, EntriesInv
  <1>3. \A p : Runnable(p)' = Runnable(p)
    BY SameBuild DEF Runnable
  <1>4. BaseInv'
    BY <1>3 DEF Ordered, BaseInv
  <1>5. \A p : Fresh(p)' = Fresh(p)
    BY <1>3 DEF Fresh
  <1>6. TrialInv'
    BY <1>1, <1>5, SameSlot DEF Ordered, TrialInv
  <1>7. PendingInv' /\ AppInv' /\ BootInv' /\ OpsInv'
    BY DEF PendingInv, AppInv, BootInv, OpsInv
  <1>8. UpdateInv'
    BY SameSlot DEF Ordered, UpdateInv, NoHandle
  <1> QED BY <1>2, <1>4, <1>6, <1>7, <1>8 DEF Ordered

(* A power failure leaves the base, whatever operation it tears.             *)
LEMMA OrderReset ==
  ASSUME TypeOK, Ordered, UNCHANGED config, Reset
  PROVE  Ordered'
  <1>1. /\ UNCHANGED <<config, image, efuse, switch, confirmed, good, tried>>
        /\ mode' = "off" /\ todo' = <<>> /\ handle' = NoHandle /\ updated' = NoPartition
    BY DEF Reset
  <1>2. CASE otadata' = otadata
    <2>1. BaseIndex' = BaseIndex /\ BasePart' = BasePart /\ \A e : Above(e)' = Above(e)
      BY <1>2, BaseSame
    <2> QED BY <1>1, <1>2, <2>1, OrderOff
  <1>3. CASE /\ todo # <<>> /\ 1 \in 1 .. Len(todo)
             /\ todo[1].op \in {"erase", "write"} /\ todo[1].at \in {0, 1}
             /\ \E e \in Entries : ~e.crc /\ otadata' = Rewritten(otadata, todo[1].at, e)
    <2>1. PICK e \in Entries : ~e.crc /\ otadata' = Rewritten(otadata, todo[1].at, e)
      BY <1>3
    <2>2. todo[1].at # BaseIndex
      BY <1>3 DEF Ordered, OpsInv, KillOp, TrialOp, SettleOp, BurnOp, WipeOp
    <2>3. ~Settled(e)
      BY <2>1 DEF Settled, SelectValid
    <2>4. /\ BaseIndex' = BaseIndex /\ BasePart' = BasePart /\ \A x : Above(x)' = Above(x)
          /\ otadata'[todo[1].at] = e
          /\ \A j \in {0, 1} : j # todo[1].at => otadata'[j] = otadata[j]
      BY <1>3, <2>1, <2>2, <2>3, BaseKept
    <2>5. \A i \in {0, 1} : otadata'[i] = otadata[i] \/ ~otadata'[i].crc
      BY <2>1, <2>4
    <2> QED BY <1>1, <2>4, <2>5, OrderOff
  <1> QED BY <1>2, <1>3, ResetLeaves

(* What the entries say when the flash does not change.                      *)
LEMMA SameFlash ==
  ASSUME UNCHANGED <<config, flash>>
  PROVE  /\ otadata' = otadata /\ image' = image /\ efuse' = efuse
         /\ BaseIndex' = BaseIndex /\ BasePart' = BasePart
         /\ \A e : Above(e)' = Above(e)
         /\ \A p : Runnable(p)' = Runnable(p)
         /\ EntriesInv' = EntriesInv
  <1>1. otadata' = otadata /\ image' = image /\ efuse' = efuse
    BY DEF flash
  <1>2. BaseIndex' = BaseIndex /\ BasePart' = BasePart /\ \A e : Above(e)' = Above(e)
    BY <1>1, BaseSame
  <1>3. \A p : Runnable(p)' = Runnable(p)
    BY <1>1, SameBuild DEF Runnable
  <1>4. EntriesInv' = EntriesInv
    BY <1>1, <1>2 DEF EntriesInv
  <1> QED BY <1>1, <1>2, <1>3, <1>4

(* The bootloader has done its work: the base starts, or the new application *)
(* of a pending entry.                                                       *)
LEMMA OrderStart ==
  ASSUME TypeOK, RunInv, Ordered, UNCHANGED config, StartApp
  PROVE  Ordered'
  <1>1. /\ UNCHANGED <<config, flash>> /\ UNCHANGED <<todo, handle, updated, switch, confirmed>>
        /\ call.fn = "boot" /\ todo = <<>> /\ call' = Idle /\ running' = call.part
        /\ mode' = IF call.part = NoPartition THEN "off" ELSE "app"
        /\ good' = IF call.part \in confirmed THEN call.part ELSE good
    BY DEF StartApp
  <1>2. /\ mode = "boot" /\ handle = NoHandle /\ updated = NoPartition
        /\ Len(todo) = 0 /\ config \in Configs
    BY <1>1 DEF RunInv, TypeOK
  <1>3. /\ otadata' = otadata /\ BasePart' = BasePart /\ EntriesInv'
        /\ \A e : Above(e)' = Above(e)
        /\ \A p : Runnable(p)' = Runnable(p)
    BY <1>1, SameFlash DEF Ordered
  <1>4. BasePart \in Partitions /\ BasePart \in confirmed /\ NoPartition \notin Partitions
    BY <1>2, BaseTypes, Build DEF Ordered, BaseInv
  <1>5. \/ call.part = BasePart
        \/ /\ call.part \in Partitions \ (confirmed \cup tried) /\ good = BasePart
           /\ \E i \in {0, 1} : Pending(otadata[i]) /\ SlotOf(otadata[i]) = call.part
    BY <1>2 DEF Ordered, BootInv
  <1>6. mode' = "app"
    BY <1>1, <1>4, <1>5
  <1>7. \A i \in {0, 1} : ~Trial(otadata[i])
    <2>1. SUFFICES ASSUME NEW i \in {0, 1}, Trial(otadata[i]) PROVE FALSE
      OBVIOUS
    <2>2. call.part \notin confirmed
      BY <1>2, <2>1 DEF Ordered, TrialInv, Fresh
    <2>3. PICK j \in {0, 1} : Pending(otadata[j])
      BY <1>4, <1>5, <2>2
    <2> QED BY <2>1, <2>3, OneOther DEF Ordered
  <1>8. BaseInv'
    BY <1>1, <1>3 DEF Ordered, BaseInv
  <1>9. TrialInv'
    BY <1>3, <1>7 DEF TrialInv
  <1>10. PendingInv'
    <2>1. ASSUME NEW i \in {0, 1}, Pending(otadata[i])
          PROVE  SlotOf(otadata[i]) = call.part /\ Above(otadata[i]) /\ call.part # BasePart
      BY <1>2, <1>4, <2>1 DEF Ordered, PendingInv
    <2> QED BY <1>1, <1>3, <1>6, <2>1, SameSlot DEF PendingInv
  <1>11. AppInv'
    BY <1>1, <1>2, <1>3, <1>4, <1>5, SameSlot DEF AppInv
  <1>12. BootInv' /\ OpsInv'
    BY <1>1, <1>2, <1>6 DEF BootInv, OpsInv
  <1>13. UpdateInv'
    BY <1>1, <1>2, <1>3, SameSlot DEF Ordered, UpdateInv, NoHandle
  <1> QED BY <1>3, <1>8, <1>9, <1>10, <1>11, <1>12, <1>13 DEF Ordered

(* An application that may call: it is the base, or it runs on trial and its *)
(* entry is pending.                                                         *)
LEMMA ReadyRuns ==
  ASSUME TypeOK, RunInv, Ordered, Ready
  PROVE  /\ mode = "app" /\ call = Idle /\ todo = <<>> /\ running \in Partitions
         /\ call.fn = "none" /\ BasePart \in confirmed
         /\ running = BasePart => good = running /\ \A i \in {0, 1} : ~Pending(otadata[i])
         /\ running # BasePart =>
              /\ running \notin confirmed /\ good = BasePart
              /\ handle = NoHandle /\ updated = NoPartition
              /\ \A i \in {0, 1} : ~Trial(otadata[i])
              /\ \E i \in {0, 1} : /\ Pending(otadata[i]) /\ Above(otadata[i])
                                   /\ SlotOf(otadata[i]) = running /\ Active(otadata) = i
  <1>1. mode = "app" /\ call = Idle /\ call.fn = "none"
    BY DEF Ready, Idle
  <1>2. todo = <<>> /\ running \in Partitions /\ BasePart \in confirmed
    BY <1>1 DEF RunInv, TypeOK, Ordered, BaseInv
  <1>3. running = BasePart => good = running /\ \A i \in {0, 1} : ~Pending(otadata[i])
    BY <1>1 DEF Ordered, AppInv, PendingInv
  <1>4. ASSUME running # BasePart
        PROVE  /\ running \notin confirmed /\ good = BasePart
               /\ handle = NoHandle /\ updated = NoPartition
               /\ \A i \in {0, 1} : ~Trial(otadata[i])
               /\ \E i \in {0, 1} : /\ Pending(otadata[i]) /\ Above(otadata[i])
                                    /\ SlotOf(otadata[i]) = running /\ Active(otadata) = i
    <2>1. /\ running \notin confirmed /\ good = BasePart
          /\ handle = NoHandle /\ updated = NoPartition
          /\ \E i \in {0, 1} : Pending(otadata[i])
      BY <1>1, <1>4 DEF Ordered, AppInv
    <2>2. PICK i \in {0, 1} : Pending(otadata[i])
      BY <2>1
    <2>3. SlotOf(otadata[i]) = running /\ Above(otadata[i])
      BY <1>1, <2>2 DEF Ordered, PendingInv
    <2>4. Active(otadata) = i
      BY <2>2, <2>3, ActiveIs DEF Ordered
    <2>5. \A j \in {0, 1} : ~Trial(otadata[j])
      BY <1>1, <1>4 DEF Ordered, TrialInv
    <2> QED BY <2>1, <2>2, <2>3, <2>4, <2>5
  <1> QED BY <1>1, <1>2, <1>3, <1>4

(* If the base runs and is the partition that is set to boot, no application *)
(* is waiting for its trial.                                                 *)
LEMMA SelectedRuns ==
  ASSUME TypeOK, RunInv, Ordered, Ready, running = BasePart, Selected
  PROVE  /\ \A i \in {0, 1} : ~Trial(otadata[i]) /\ ~Pending(otadata[i])
         /\ Active(otadata) = BaseIndex
  <1>1. \A i \in {0, 1} : ~Pending(otadata[i])
    BY ReadyRuns
  <1>2. ASSUME NEW i \in {0, 1}, Trial(otadata[i]) PROVE FALSE
    <2>1. Above(otadata[i]) /\ SlotOf(otadata[i]) \notin confirmed
      BY <1>2 DEF Ordered, TrialInv, Fresh
    <2>2. Active(otadata) = i
      BY <1>2, <2>1, ActiveIs DEF Ordered
    <2>3. BootPartition(otadata) = SlotOf(otadata[i])
      BY <2>2 DEF BootPartition
    <2> QED BY <2>1, <2>3, ReadyRuns DEF Selected
  <1> QED BY <1>1, <1>2, ActiveIs DEF Ordered

(* Another partition than the base gets a new image, while nothing is on     *)
(* trial.                                                                    *)
LEMMA OrderImage ==
  ASSUME TypeOK, RunInv, Ordered, Ready,
         UNCHANGED <<config, otadata, efuse, mode, running, todo, call, updated, good>>,
         running = BasePart, \A i \in {0, 1} : ~Trial(otadata[i]) /\ ~Pending(otadata[i]),
         NEW p \in Slots, p # running, \A q \in Partitions : q # p => image'[q] = image[q],
         handle'.part = p, handle'.stage > 0 => p \notin confirmed',
         confirmed' \subseteq confirmed, confirmed \subseteq confirmed' \cup {p},
         switch' = switch \/ switch' = {}
  PROVE  Ordered'
  <1>1. /\ mode = "app" /\ todo = <<>> /\ running \in Partitions
        /\ good = running /\ BasePart \in confirmed /\ Len(todo) = 0
    BY ReadyRuns
  <1>2. /\ BaseIndex' = BaseIndex /\ BasePart' = BasePart /\ EntriesInv'
    BY BaseSame DEF Ordered, EntriesInv
  <1>3. BaseInv'
    BY <1>1, <1>2, SameBuild DEF Ordered, BaseInv, Runnable
  <1>4. TrialInv' /\ PendingInv' /\ BootInv' /\ OpsInv'
    BY <1>1 DEF TrialInv, PendingInv, BootInv, OpsInv
  <1>5. AppInv'
    BY <1>1, <1>2 DEF AppInv
  <1>6. UpdateInv'
    BY <1>1, <1>2, SameSlot, SameBuild DEF Ordered, UpdateInv
  <1> QED BY <1>2, <1>3, <1>4, <1>5, <1>6 DEF Ordered

(* esp_ota_begin refuses an application on trial; the partition it takes is  *)
(* another than the base.                                                    *)
LEMMA OrderBegin ==
  ASSUME TypeOK, RunInv, Ordered, Orderly, Rollback, UNCHANGED config,
         NEW p \in Slots, NEW lazy \in BOOLEAN, OtaBegin(p, lazy)
  PROVE  Ordered'
  <1>1. /\ Ready /\ MayUpdate(p) /\ Selected /\ p # running
        /\ UNCHANGED <<config, otadata, efuse, mode, running, todo, call, updated, good>>
        /\ image \in [Partitions -> Images]
    BY DEF OtaBegin, Orderly, MayUpdate, TypeOK
  <1>2. running = BasePart
    <2>1. SUFFICES ASSUME running # BasePart PROVE FALSE
      OBVIOUS
    <2>2. PICK i \in {0, 1} : Pending(otadata[i]) /\ SlotOf(otadata[i]) = running
      BY <1>1, <2>1, ReadyRuns
    <2>3. running \in Slots /\ (i = 0 \/ (i = 1 /\ BaseIndex = 0)) /\ otadata[i].crc
          /\ otadata[i].state = "PENDING_VERIFY"
      BY <2>2, OneOther DEF Ordered, Pending, SelectValid
    <2>4. i = 1 => SlotOf(otadata[0]) # running
      BY <2>1, <2>3, BaseTypes
    <2>5. StatePartition(otadata, running) = "PENDING_VERIFY"
      BY <2>2, <2>3, <2>4 DEF StatePartition
    <2> QED BY <1>1, <2>5 DEF MayUpdate
  <1>3. \A i \in {0, 1} : ~Trial(otadata[i]) /\ ~Pending(otadata[i])
    BY <1>1, <1>2, SelectedRuns
  <1>4. handle'.part = p /\ handle'.stage = 0
    BY DEF OtaBegin
  <1>5. /\ confirmed' \subseteq confirmed /\ confirmed \subseteq confirmed' \cup {p}
        /\ switch' = switch \/ switch' = {}
    BY DEF OtaBegin, ForgetImage
  <1>6. \A q \in Partitions : q # p => image'[q] = image[q]
    BY <1>1 DEF OtaBegin
  <1> QED BY <1>1, <1>2, <1>3, <1>4, <1>5, <1>6, OrderImage

(* The handle of an update is the base's; no application waits for a trial.  *)
LEMMA HandleRuns ==
  ASSUME TypeOK, RunInv, Ordered, Ready, handle # NoHandle
  PROVE  /\ running = BasePart /\ \A i \in {0, 1} : ~Trial(otadata[i]) /\ ~Pending(otadata[i])
         /\ handle.part \in Slots /\ handle.part # running
         /\ handle.stage > 0 => handle.part \notin confirmed
  <1>1. mode = "app" /\ running = BasePart /\ \A i \in {0, 1} : ~Pending(otadata[i])
    BY ReadyRuns
  <1>2. \A i \in {0, 1} : ~Trial(otadata[i])
    BY <1>1 DEF Ordered, TrialInv
  <1>3. handle.part \in Slots /\ (handle.stage > 0 => handle.part \notin confirmed)
    BY DEF Ordered, UpdateInv
  <1>4. handle.part # running
    BY <1>1 DEF RunInv
  <1> QED BY <1>1, <1>2, <1>3, <1>4

(* esp_ota_write                                                             *)
LEMMA OrderWrite ==
  ASSUME TypeOK, RunInv, Ordered, UNCHANGED config, OtaWrite
  PROVE  Ordered'
  <1>1. /\ Ready /\ handle # NoHandle /\ handle \in Updates
        /\ UNCHANGED <<config, otadata, efuse, mode, running, todo, call, updated, good>>
        /\ image \in [Partitions -> Images]
    BY DEF OtaWrite, TypeOK
  <1>2. handle'.part = handle.part
    BY <1>1 DEF OtaWrite, Updates
  <1>3. /\ confirmed' = confirmed \ {handle.part} /\ switch' = {}
    BY DEF OtaWrite, ForgetImage
  <1>4. \A q \in Partitions : q # handle.part => image'[q] = image[q]
    BY <1>1 DEF OtaWrite
  <1> QED BY <1>1, <1>2, <1>3, <1>4, HandleRuns, OrderImage

(* esp_ota_end and esp_ota_abort                                             *)
LEMMA OrderEnd ==
  ASSUME TypeOK, RunInv, Ordered, UNCHANGED config, OtaEnd \/ OtaAbort
  PROVE  Ordered'
  <1>1. /\ Ready /\ handle # NoHandle /\ UNCHANGED <<config, flash>> /\ handle' = NoHandle
        /\ UNCHANGED <<mode, running, todo, call, switch, confirmed, good>>
        /\ updated' = updated \/ (updated' = handle.part /\ handle.stage > 0)
    BY DEF OtaEnd, OtaAbort, ghosts
  <1>2. /\ running = BasePart /\ \A i \in {0, 1} : ~Trial(otadata[i]) /\ ~Pending(otadata[i])
        /\ handle.part # running /\ (handle.stage > 0 => handle.part \notin confirmed)
        /\ mode = "app" /\ todo = <<>> /\ good = running /\ Len(todo) = 0
    BY <1>1, HandleRuns, ReadyRuns
  <1>3. /\ otadata' = otadata /\ BasePart' = BasePart /\ EntriesInv'
        /\ \A p : Runnable(p)' = Runnable(p)
    BY <1>1, SameFlash DEF Ordered
  <1>4. BaseInv'
    BY <1>1, <1>3 DEF Ordered, BaseInv
  <1>5. TrialInv' /\ PendingInv' /\ BootInv' /\ OpsInv'
    BY <1>1, <1>2, <1>3 DEF TrialInv, PendingInv, BootInv, OpsInv
  <1>6. AppInv'
    BY <1>1, <1>2, <1>3 DEF AppInv
  <1>7. UpdateInv'
    BY <1>1, <1>2, <1>3, SameSlot DEF Ordered, UpdateInv, NoHandle
  <1> QED BY <1>3, <1>4, <1>5, <1>6, <1>7 DEF Ordered

(* A call begins: the entries, the images and what runs are as before.       *)
LEMMA OrderCall ==
  ASSUME TypeOK, Ordered, UNCHANGED <<config, flash>>, UNCHANGED <<mode, running>>, mode = "app",
         \A i \in {0, 1} : ~Trial(otadata[i]), BasePart \in confirmed',
         AppInv', UpdateInv', OpsInv'
  PROVE  Ordered'
  <1>1. /\ otadata' = otadata /\ BasePart' = BasePart /\ EntriesInv'
        /\ \A e : Above(e)' = Above(e)
        /\ \A p : Runnable(p)' = Runnable(p)
    BY SameFlash DEF Ordered
  <1>2. BaseInv'
    BY <1>1 DEF Ordered, BaseInv
  <1>3. TrialInv' /\ BootInv'
    BY <1>1 DEF TrialInv, BootInv
  <1>4. PendingInv'
    BY <1>1, SameSlot DEF Ordered, PendingInv
  <1> QED BY <1>1, <1>2, <1>3, <1>4 DEF Ordered

(* The erasure of a sector other than the base's.                            *)
LEMMA ErasureKills ==
  ASSUME NEW i \in {0, 1}, i # BaseIndex'
  PROVE  KillOp(EraseSector(i))'
  <1>1. /\ EraseSector(i).op = "erase" /\ EraseSector(i).at = i /\ EraseSector(i).entry = Erased
        /\ ~Erased.crc
    BY DEF EraseSector, Erased
  <1>2. ~SelectValid(Erased)
    BY <1>1 DEF SelectValid
  <1>3. EraseSector(i)' = EraseSector(i)
    BY DEF EraseSector
  <1> QED BY <1>1, <1>2, <1>3 DEF KillOp, Settled, Trial, Pending

(* esp_ota_mark_app_invalid_rollback_and_reboot: only on trial.              *)
LEMMA OrderMarkInvalid ==
  ASSUME TypeOK, RunInv, Ordered, Orderly, UNCHANGED config, MarkInvalid
  PROVE  Ordered'
  <1>1. /\ Ready /\ running \notin confirmed /\ UNCHANGED <<config, flash>>
        /\ UNCHANGED <<mode, running, handle, updated, confirmed, good>> /\ switch' = {}
        /\ call' = [fn |-> "mark_invalid", part |-> running]
        /\ todo' = Rewrite(Active(otadata), [otadata[Active(otadata)] EXCEPT !.state = "INVALID"])
    BY DEF MarkInvalid, Orderly, Start
  <1>2. /\ mode = "app" /\ running # BasePart /\ good = BasePart /\ BasePart \in confirmed
        /\ handle = NoHandle /\ updated = NoPartition
        /\ \A i \in {0, 1} : ~Trial(otadata[i])
    BY <1>1, ReadyRuns
  <1>3. PICK i \in {0, 1} : Pending(otadata[i]) /\ Active(otadata) = i
    BY <1>1, <1>2, ReadyRuns
  <1>4. i # BaseIndex /\ (BaseIndex = -1 => i = 0)
    BY <1>3, OneOther DEF Ordered
  <1>5. BaseIndex' = BaseIndex /\ BasePart' = BasePart
    BY <1>1, SameFlash
  <1>6. PICK e : e = [otadata[i] EXCEPT !.state = "INVALID"]
    OBVIOUS
  <1>7. ~SelectValid(e)
    <2>1. otadata[i] \in Entries
      BY DEF TypeOK
    <2>2. e.state = "INVALID"
      BY <1>6, <2>1 DEF Entries
    <2> QED BY <2>2 DEF SelectValid, SelectInvalid
  <1>8. todo' = <<EraseSector(i), WriteEntry(i, e)>>
    BY <1>1, <1>3, <1>6 DEF Rewrite
  <1>9. KillOp(EraseSector(i))'
    BY <1>4, <1>5, ErasureKills
  <1>10. todo'[1] = EraseSector(i) /\ todo'[2] = WriteEntry(i, e) /\ Len(todo') = 2
    BY <1>8
  <1>11. KillOp(todo[2])'
    <2>1. todo'[2].op = "write" /\ todo'[2].at = i /\ todo'[2].entry = e
      BY <1>10 DEF WriteEntry
    <2> QED BY <1>4, <1>5, <1>7, <2>1 DEF KillOp, Settled, Trial, Pending
  <1>12. KillOp(todo[1])'
    BY <1>9, <1>10 DEF KillOp, EraseSector
  <1>13. OpsInv'
    <2>1. \A j \in 1 .. Len(todo') : j = 1 \/ j = 2
      BY <1>10
    <2> QED BY <1>11, <1>12, <2>1 DEF OpsInv
  <1>14. AppInv'
    BY <1>1, <1>2, <1>5, SameSlot DEF AppInv
  <1>15. UpdateInv'
    BY <1>1, <1>2, SameSlot DEF UpdateInv, NoHandle
  <1> QED BY <1>1, <1>2, <1>13, <1>14, <1>15, OrderCall

(* esp_ota_mark_app_valid_cancel_rollback: only on trial.  The base moves    *)
(* when the entry is written.                                                *)
LEMMA OrderMarkValid ==
  ASSUME TypeOK, RunInv, Ordered, Orderly, Rollback, UNCHANGED config, MarkValid
  PROVE  Ordered'
  <1> DEFINE burn == IF AntiRollback /\ image[running].version # NoDescription
                     THEN <<Burn(image[running].version)>> ELSE <<>>
  <1>1. /\ Ready /\ Selected /\ UNCHANGED <<config, flash>>
        /\ UNCHANGED <<mode, running, handle, updated, good>>
        /\ confirmed' = confirmed \cup {running} /\ switch' = {}
        /\ call' = [fn |-> "mark_valid", part |-> running]
        /\ Active(otadata) # -1 /\ otadata[Active(otadata)].state # "VALID"
        /\ todo' = Rewrite(Active(otadata), [otadata[Active(otadata)] EXCEPT !.state = "VALID"])
                   \o burn
    BY DEF MarkValid, Orderly, Start
  <1> HIDE DEF burn
  <1>2. mode = "app" /\ running # BasePart
    <2>1. ASSUME running = BasePart PROVE FALSE
      <3>1. Active(otadata) = BaseIndex
        BY <1>1, <2>1, SelectedRuns
      <3> QED BY <1>1, <3>1, BaseTypes
    <2> QED BY <1>1, <2>1, ReadyRuns
  <1>3. /\ good = BasePart /\ BasePart \in confirmed /\ handle = NoHandle /\ updated = NoPartition
        /\ \A i \in {0, 1} : ~Trial(otadata[i])
    BY <1>1, <1>2, ReadyRuns
  <1>4. PICK i \in {0, 1} : /\ Pending(otadata[i]) /\ Above(otadata[i])
                            /\ SlotOf(otadata[i]) = running /\ Active(otadata) = i
    BY <1>1, <1>2, ReadyRuns
  <1>5. i # BaseIndex /\ (BaseIndex = -1 => i = 0)
    BY <1>4, OneOther DEF Ordered
  <1>6. /\ otadata' = otadata /\ BaseIndex' = BaseIndex /\ BasePart' = BasePart
        /\ \A e : Above(e)' = Above(e)
        /\ \A p : Runnable(p)' = Runnable(p)
    BY <1>1, SameFlash
  <1>7. PICK e : e = [otadata[i] EXCEPT !.state = "VALID"]
    OBVIOUS
  <1>8. e.seq = otadata[i].seq /\ e.state = "VALID" /\ e.crc = otadata[i].crc
    <2>1. otadata[i] \in Entries
      BY DEF TypeOK
    <2> QED BY <1>7, <2>1 DEF Entries
  <1>9. Settled(e) /\ Above(e) /\ SlotOf(e) = running
    BY <1>4, <1>8 DEF Settled, Pending, SelectValid, SelectInvalid, Above, SlotOf
  <1>10. todo' = <<EraseSector(i), WriteEntry(i, e)>> \o burn
    BY <1>1, <1>4, <1>7 DEF Rewrite
  <1>11. /\ \/ burn = <<>>
            \/ burn = <<Burn(image[running].version)>> /\ AntiRollback
    BY DEF burn
  <1>12. /\ todo'[1] = EraseSector(i) /\ todo'[2] = WriteEntry(i, e)
         /\ Len(todo') = 2 \/ (Len(todo') = 3 /\ AntiRollback /\ todo'[3].op = "burn")
    BY <1>10, <1>11 DEF Burn
  <1>13. todo'[2].op = "write" /\ todo'[2].at = i /\ todo'[2].entry = e
    BY <1>12 DEF WriteEntry
  <1>14. SettlingIn(2)'
    BY <1>9, <1>13 DEF SettlingIn
  <1>15. KillOp(todo[1])'
    <2>1. KillOp(EraseSector(i))'
      BY <1>5, <1>6, ErasureKills
    <2> QED BY <1>12, <2>1 DEF KillOp, EraseSector
  <1>16. SettleOp(2)'
    <2>1. \A k \in 2 + 1 .. Len(todo') : todo'[k].op = "burn"
      BY <1>12
    <2>2. running \in Partitions /\ Runnable(running)
      BY <1>1, <1>2, ReadyRuns DEF RunInv
    <2>3. SlotOf(todo[2].entry)' = running
      BY <1>9, <1>13, SameSlot
    <2> QED BY <1>1, <1>2, <1>3, <1>5, <1>6, <1>9, <1>13, <1>14, <2>1, <2>2, <2>3 DEF SettleOp
  <1>17. Len(todo') = 3 => BurnOp(3)'
    <2>1. \E k \in 1 .. 3 - 1 : SettlingIn(k)'
      BY <1>14
    <2> QED BY <1>1, <1>3, <1>6, <1>12, <2>1, SameBuild DEF BurnOp
  <1>18. OpsInv'
    <2>1. \A j \in 1 .. Len(todo') : j = 1 \/ j = 2 \/ (j = 3 /\ Len(todo') = 3)
      <3>1. Len(todo') = 2 \/ Len(todo') = 3
        BY <1>12
      <3>2. \A n \in {2, 3} : \A j \in 1 .. n : j = 1 \/ j = 2 \/ (j = 3 /\ n = 3)
        OBVIOUS
      <3> QED BY <3>1, <3>2
    <2> QED BY <1>15, <1>16, <1>17, <2>1 DEF OpsInv
  <1>19. AppInv'
    <2>1. \E j \in 1 .. Len(todo') : SettlingIn(j)'
      BY <1>12, <1>14
    <2> QED BY <1>1, <1>2, <1>3, <1>6, <2>1, SameSlot DEF AppInv
  <1>20. UpdateInv'
    BY <1>1, <1>3, SameSlot DEF UpdateInv, NoHandle
  <1> QED BY <1>1, <1>2, <1>3, <1>18, <1>19, <1>20, OrderCall

(* esp_ota_erase_last_boot_app_partition: from the base, the other one.      *)
LEMMA OrderEraseLast ==
  ASSUME TypeOK, RunInv, Ordered, Orderly, Rollback, UNCHANGED config, EraseLast
  PROVE  Ordered'
  <1> DEFINE i == 1 - Active(otadata)
             p == SlotOf(otadata[i])
  <1>1. /\ Ready /\ Selected /\ running \in confirmed /\ UNCHANGED <<config, flash>>
        /\ UNCHANGED <<mode, running, handle, updated, good>>
        /\ confirmed' = confirmed \ {p} /\ switch' = {}
        /\ call' = [fn |-> "erase_last", part |-> p]
        /\ Active(otadata) # -1 /\ p # running
        /\ todo' = <<Wipe(p), EraseSector(i)>>
    BY DEF EraseLast, Orderly, Start, ForgetImage
  <1>2. /\ running = BasePart /\ mode = "app" /\ good = running /\ BasePart \in confirmed
    BY <1>1, ReadyRuns
  <1>3. /\ \A j \in {0, 1} : ~Trial(otadata[j]) /\ ~Pending(otadata[j])
        /\ Active(otadata) = BaseIndex
    BY <1>1, <1>2, SelectedRuns
  <1>4. i \in {0, 1} /\ i # BaseIndex
    BY <1>1, <1>3, BaseTypes
  <1>5. /\ otadata' = otadata /\ BaseIndex' = BaseIndex /\ BasePart' = BasePart
    BY <1>1, SameFlash
  <1>6. PICK q, k : q = p /\ k = i
    OBVIOUS
  <1> HIDE DEF i, p
  <1>7. todo'[1] = Wipe(q) /\ todo'[2] = EraseSector(k) /\ Len(todo') = 2
    BY <1>1, <1>6
  <1>8. WipeOp(todo[1])'
    <2>1. todo'[1].op = "wipe" /\ todo'[1].at = q
      BY <1>7 DEF Wipe
    <2> QED BY <1>1, <1>2, <1>3, <1>5, <1>6, <2>1 DEF WipeOp
  <1>9. KillOp(todo[2])'
    <2>1. KillOp(EraseSector(k))'
      BY <1>4, <1>5, <1>6, ErasureKills
    <2> QED BY <1>7, <2>1 DEF KillOp, EraseSector
  <1>10. OpsInv'
    <2>1. \A j \in 1 .. Len(todo') : j = 1 \/ j = 2
      BY <1>7
    <2> QED BY <1>8, <1>9, <2>1 DEF OpsInv
  <1>11. AppInv'
    BY <1>1, <1>2, <1>5 DEF AppInv
  <1>12. UpdateInv'
    BY <1>1, <1>6, SameSlot, SameBuild DEF Ordered, UpdateInv
  <1> QED BY <1>1, <1>2, <1>3, <1>6, <1>10, <1>11, <1>12, OrderCall

(* The entry that esp_rewrite_ota_data writes when the active one is the     *)
(* base: new, in the other sector, and above the base.                       *)
LEMMA TrialEntry ==
  ASSUME TypeOK, Rollback, Active(otadata) = BaseIndex, NEW p \in Slots, p # BasePart
  PROVE  /\ RewriteSector(otadata) \in {0, 1} /\ RewriteSector(otadata) # BaseIndex
         /\ BaseIndex = -1 => RewriteSector(otadata) = 0
         /\ Trial(RewriteEntry(otadata, p)) /\ Above(RewriteEntry(otadata, p))
         /\ SlotOf(RewriteEntry(otadata, p)) = p
  <1>1. config \in Configs /\ N \in Nat /\ N > 0 /\ p \in 0 .. N - 1
    BY Build DEF TypeOK
  <1>2. BaseIndex \in {-1, 0, 1}
    BY BaseTypes
  <1>3. /\ RewriteSector(otadata) \in {0, 1} /\ RewriteSector(otadata) # BaseIndex
        /\ BaseIndex = -1 => RewriteSector(otadata) = 0
    BY <1>2 DEF RewriteSector
  <1> DEFINE seq == IF Active(otadata) = -1 THEN p + 1 ELSE NextSeq(p, otadata[Active(otadata)].seq)
  <1>4. seq \in Nat /\ (seq - 1) % N = p
    <2>1. CASE BaseIndex = -1
      BY <1>1, <2>1
    <2>2. CASE BaseIndex # -1
      BY <1>1, <2>2, BaseTypes, NextSeqSelects
    <2> QED BY <2>1, <2>2
  <1>5. BaseIndex # -1 => seq > otadata[BaseIndex].seq
    <2>1. SUFFICES ASSUME BaseIndex # -1 PROVE seq > otadata[BaseIndex].seq
      OBVIOUS
    <2>2. otadata[BaseIndex].seq \in Nat /\ (otadata[BaseIndex].seq - 1) % N = BasePart
      BY <2>1, BaseTypes DEF SlotOf
    <2>3. seq >= otadata[BaseIndex].seq
      BY <1>1, <2>1, <2>2, NextSeqSelects
    <2>4. seq # otadata[BaseIndex].seq
      BY <1>4, <2>2
    <2> QED BY <1>4, <2>2, <2>3, <2>4
  <1>6. PICK s : s = seq
    OBVIOUS
  <1>7. RewriteEntry(otadata, p) = [seq |-> s, state |-> "NEW", crc |-> TRUE]
    BY <1>6 DEF RewriteEntry, Entry, NewState
  <1> HIDE DEF seq
  <1>8. PICK e : e = RewriteEntry(otadata, p)
    OBVIOUS
  <1>9. e.seq = s /\ e.state = "NEW" /\ e.crc
    BY <1>7, <1>8
  <1>10. Trial(e)
    BY <1>4, <1>6, <1>9 DEF Trial, SelectValid, SelectInvalid, UINT32_MAX
  <1>11. Above(e)
    BY <1>5, <1>6, <1>9 DEF Above
  <1>12. SlotOf(e) = p
    BY <1>4, <1>6, <1>9 DEF SlotOf
  <1> QED BY <1>3, <1>8, <1>10, <1>11, <1>12

(* esp_ota_set_boot_partition: from the base, for the updated partition.     *)
LEMMA OrderSetBoot ==
  ASSUME TypeOK, RunInv, Ordered, Orderly, Rollback, UNCHANGED config, NEW p \in Slots, SetBoot(p)
  PROVE  Ordered'
  <1>1. /\ Ready /\ Selected /\ p = updated /\ handle = NoHandle /\ image[p].ok
        /\ UNCHANGED <<config, flash>> /\ UNCHANGED <<mode, running, handle, good>>
        /\ updated' = NoPartition /\ config \in Configs /\ image \in [Partitions -> Images]
        /\ efuse \in 0 .. MaxVersion
    BY DEF SetBoot, Orderly, TypeOK
  <1>2. p # NoPartition /\ p \in Partitions /\ NoPartition \notin Partitions
    BY <1>1, Build
  <1>3. /\ mode = "app" /\ running = BasePart /\ good = running /\ BasePart \in confirmed
        /\ p # running /\ p \notin confirmed /\ running \in Partitions
    BY <1>1, <1>2, ReadyRuns DEF Ordered, UpdateInv
  <1>4. /\ \A j \in {0, 1} : ~Trial(otadata[j]) /\ ~Pending(otadata[j])
        /\ Active(otadata) = BaseIndex
    BY <1>1, <1>3, SelectedRuns
  <1>5. /\ otadata' = otadata /\ BaseIndex' = BaseIndex /\ BasePart' = BasePart
        /\ \A e : Above(e)' = Above(e)
        /\ \A q : Runnable(q)' = Runnable(q)
    BY <1>1, SameFlash
  <1>6. AppInv'
    BY <1>1, <1>3, <1>5 DEF AppInv
  <1>7. CASE AntiRollback /\ ~CheckSecureVersion(image[p].version, efuse)
    <2>1. /\ call' = [fn |-> "set_boot", part |-> NoPartition] /\ todo' = <<Wipe(p)>>
          /\ confirmed' = confirmed \ {p} /\ switch' = {}
      BY <1>7 DEF SetBoot, Start, ForgetImage
    <2>2. todo'[1] = Wipe(p) /\ Len(todo') = 1
      BY <2>1
    <2>3. todo'[1].op = "wipe" /\ todo'[1].at = p
      BY <2>2 DEF Wipe
    <2>4. WipeOp(todo[1])'
      BY <1>1, <1>3, <1>4, <1>5, <2>1, <2>3, SameSlot DEF WipeOp
    <2>5. OpsInv'
      BY <2>2, <2>4 DEF OpsInv
    <2>6. UpdateInv'
      BY <1>1, <2>1, SameSlot DEF UpdateInv, NoHandle
    <2> QED BY <1>1, <1>3, <1>4, <1>6, <2>1, <2>5, <2>6, OrderCall
  <1>8. CASE ~(AntiRollback /\ ~CheckSecureVersion(image[p].version, efuse))
    <2>1. PICK i, e : i = RewriteSector(otadata) /\ e = RewriteEntry(otadata, p)
      OBVIOUS
    <2>2. /\ call' = [fn |-> "set_boot", part |-> p] /\ todo' = Rewrite(i, e)
          /\ confirmed' = confirmed /\ tried' = tried \ {p}
          /\ switch' = {BootChoice(otadata, image, efuse), running, p} \ {NoPartition}
      BY <1>8, <2>1 DEF SetBoot, Start
    <2>3. /\ i \in {0, 1} /\ i # BaseIndex /\ (BaseIndex = -1 => i = 0)
          /\ Trial(e) /\ Above(e) /\ SlotOf(e) = p
      BY <1>3, <1>4, <2>1, TrialEntry
    <2>4. todo'[1] = EraseSector(i) /\ todo'[2] = WriteEntry(i, e) /\ Len(todo') = 2
      BY <2>2 DEF Rewrite
    <2>5. todo'[2].op = "write" /\ todo'[2].at = i /\ todo'[2].entry = e
      BY <2>4 DEF WriteEntry
    <2>6. KillOp(todo[1])'
      <3>1. KillOp(EraseSector(i))'
        BY <1>5, <2>3, ErasureKills
      <3> QED BY <2>4, <3>1 DEF KillOp, EraseSector
    <2>7. Runnable(p)
      BY <1>1, <1>8 DEF Runnable, CheckSecureVersion
    <2>8. p \in switch' /\ BasePart \in switch'
      BY <1>2, <1>3, <2>2
    <2>9. TrialOp(todo[2])'
      <3>1. SlotOf(todo[2].entry)' = p
        BY <2>3, <2>5, SameSlot
      <3>2. Fresh(call.part)'
        BY <1>3, <1>5, <2>2, <2>7 DEF Fresh
      <3> QED BY <1>1, <1>3, <1>5, <2>2, <2>3, <2>5, <2>8, <3>1, <3>2, SameSlot DEF TrialOp
    <2>10. OpsInv'
      <3>1. \A j \in 1 .. Len(todo') : j = 1 \/ j = 2
        BY <2>4
      <3> QED BY <2>6, <2>9, <3>1 DEF OpsInv
    <2>11. UpdateInv'
      BY <1>1, <1>5, <2>8, SameSlot DEF UpdateInv, NoHandle
    <2> QED BY <1>1, <1>3, <1>4, <1>6, <2>2, <2>10, <2>11, OrderCall
  <1> QED BY <1>7, <1>8

(* A call has done its work: a confirmed application is the base.            *)
LEMMA OrderReturn ==
  ASSUME TypeOK, RunInv, Ordered, UNCHANGED config, Return
  PROVE  Ordered'
  <1>1. /\ mode = "app" /\ call # Idle /\ todo = <<>> /\ call' = Idle /\ todo' = <<>>
        /\ UNCHANGED <<config, flash>> /\ UNCHANGED <<switch, confirmed, tried>>
        /\ good' = IF call.fn = "mark_valid" THEN running ELSE good
    BY DEF Return
  <1>2. /\ otadata' = otadata /\ image' = image /\ efuse' = efuse
        /\ BaseIndex' = BaseIndex /\ BasePart' = BasePart /\ EntriesInv'
        /\ \A e : Above(e)' = Above(e)
        /\ \A p : Runnable(p)' = Runnable(p)
    BY <1>1, SameFlash DEF Ordered
  <1>3. CASE call.fn = "mark_invalid"
    <2>1. mode' = "off" /\ handle' = NoHandle /\ updated' = NoPartition /\ good' = good
      BY <1>1, <1>3 DEF Return
    <2> QED BY <1>1, <1>2, <2>1, OrderOff
  <1>4. CASE call.fn # "mark_invalid"
    <2>1. UNCHANGED <<mode, running, handle, updated>>
      BY <1>4 DEF Return
    <2>2. running = BasePart
      BY <1>1, <1>4 DEF Ordered, AppInv
    <2>3. good' = running
      BY <1>1, <2>2 DEF Ordered, AppInv
    <2>4. BaseInv'
      BY <1>1, <1>2 DEF Ordered, BaseInv
    <2>5. \A p : Fresh(p)' = Fresh(p)
      BY <1>1, <1>2 DEF Fresh
    <2>6. TrialInv'
      BY <1>1, <1>2, <2>1, <2>2, <2>3, <2>5, SameSlot DEF Ordered, TrialInv
    <2>7. PendingInv'
      BY <1>1, <1>2, <2>1, SameSlot DEF Ordered, PendingInv
    <2>8. AppInv'
      BY <1>2, <2>1, <2>2, <2>3 DEF AppInv
    <2>9. BootInv' /\ OpsInv'
      BY <1>1, <2>1 DEF BootInv, OpsInv
    <2>10. UpdateInv'
      BY <1>1, <1>2, <2>1, SameSlot, SameBuild DEF Ordered, UpdateInv
    <2> QED BY <1>2, <2>4, <2>6, <2>7, <2>8, <2>9, <2>10 DEF Ordered
  <1> QED BY <1>3, <1>4

(* The elements of a concatenation.                                          *)
LEMMA ConcatElements ==
  ASSUME NEW S, NEW s \in Seq(S), NEW t \in Seq(S)
  PROVE  /\ \A j \in 1 .. Len(s \o t) :
              \/ j \in 1 .. Len(s) /\ (s \o t)[j] = s[j]
              \/ j - Len(s) \in 1 .. Len(t) /\ (s \o t)[j] = t[j - Len(s)]
         /\ \A j \in 1 .. Len(s) : j \in 1 .. Len(s \o t) /\ (s \o t)[j] = s[j]
         /\ \A j \in 1 .. Len(t) : Len(s) + j \in 1 .. Len(s \o t) /\ (s \o t)[Len(s) + j] = t[j]
  <1>1. Len(s) \in Nat /\ Len(t) \in Nat /\ Len(s \o t) = Len(s) + Len(t)
    BY ConcatProperties, LenProperties
  <1>2. \A i \in 1 .. Len(s) + Len(t) :
          (s \o t)[i] = IF i <= Len(s) THEN s[i] ELSE t[i - Len(s)]
    BY <1>1, ConcatProperties
  <1>3. PICK u, m, n : u = s \o t /\ m = Len(s) /\ n = Len(t)
    OBVIOUS
  <1>4. /\ m \in Nat /\ n \in Nat /\ Len(u) = m + n
        /\ \A i \in 1 .. m + n : u[i] = IF i <= m THEN s[i] ELSE t[i - m]
    BY <1>1, <1>2, <1>3, Zenon
  <1>5. ASSUME NEW j \in 1 .. Len(u)
        PROVE  (j \in 1 .. m /\ u[j] = s[j]) \/ (j - m \in 1 .. n /\ u[j] = t[j - m])
    BY <1>4
  <1>6. ASSUME NEW j \in 1 .. m PROVE j \in 1 .. Len(u) /\ u[j] = s[j]
    BY <1>4
  <1>7. ASSUME NEW j \in 1 .. n PROVE m + j \in 1 .. Len(u) /\ u[m + j] = t[j]
    <2>1. m + j \in 1 .. m + n /\ ~(m + j <= m) /\ (m + j) - m = j
      BY <1>4
    <2> QED BY <1>4, <2>1
  <1> QED BY <1>3, <1>5, <1>6, <1>7, Zenon

(* The operations that abort what is pending and mark what is new, after     *)
(* which the bootloader goes on.                                             *)
LEMMA BootKills ==
  ASSUME TypeOK, Rollback, EntriesInv, BaseInv, TrialInv, UNCHANGED config, Boot
  PROVE  LET a == AbortPending(otadata)
             entry == BootEntry(a, image, efuse)
             Ab(i) == IF a[i] # otadata[i] THEN Rewrite(i, a[i]) ELSE <<>>
         IN  \E h \in Seq(Ops) :
             /\ h = Ab(0) \o Ab(1) \o MarkPending(a, entry)
             /\ \A j \in 1 .. Len(h) : KillOp(h[j])'
             /\ \A i \in {0, 1} : Pending(otadata[i]) =>
                  \E j \in 1 .. Len(h) : /\ h[j].op = "write" /\ h[j].at = i
                                         /\ h[j].entry.state = "ABORTED"
             /\ \A i \in {0, 1} : Trial(otadata[i]) =>
                  h # <<>> /\ h[Len(h)].op = "write" /\ Pending(h[Len(h)].entry)
  <1>1. /\ config \in Configs /\ otadata \in [{0, 1} -> Entries]
        /\ UNCHANGED <<config, flash>> /\ mode' = "boot" /\ confirmed' = confirmed
        /\ call'.part = BootChoice(otadata, image, efuse)
    BY BootOps DEF TypeOK, Boot, ghosts
  <1>2. /\ otadata' = otadata /\ BaseIndex' = BaseIndex /\ BasePart' = BasePart
        /\ \A e : Above(e)' = Above(e)
    BY <1>1, SameFlash
  <1> DEFINE a == AbortPending(otadata)
             entry == BootEntry(a, image, efuse)
             Ab(i) == IF a[i] # otadata[i] THEN Rewrite(i, a[i]) ELSE <<>>
             M == MarkPending(a, entry)
             h == Ab(0) \o Ab(1) \o M
             K == {op \in Ops : KillOp(op)'}
  <1>3. /\ a \in [{0, 1} -> Entries]
        /\ \A i \in {0, 1} : otadata[i].state # "PENDING_VERIFY" => a[i] = otadata[i]
        /\ \A i \in {0, 1} : SelectValid(a[i]) => otadata[i].state # "PENDING_VERIFY"
    BY <1>1, Aborted
  <1>4. ASSUME NEW i \in {0, 1}, otadata[i].state = "PENDING_VERIFY"
        PROVE  a[i].state = "ABORTED" /\ a[i].crc = otadata[i].crc
    BY <1>1, <1>4 DEF AbortPending, Entries
  <1>5. /\ entry \in {-1, 0, 1}
        /\ \A i \in {0, 1} : Trial(otadata[i]) =>
             entry = i /\ a[i] = otadata[i] /\ BootChoice(otadata, image, efuse) = SlotOf(otadata[i])
        /\ (\A i \in {0, 1} : ~Trial(otadata[i])) =>
             entry = BaseIndex /\ (entry # -1 => a[entry] = otadata[entry])
    <2>1. entry \in {-1, 0, 1}
      BY <1>1, <1>3, BootTypes
    <2> QED BY <2>1, OrderChoice
  <1> HIDE DEF a, entry, K
  <1>6. \A i \in {0, 1} : i # BaseIndex => EraseSector(i) \in K
    BY <1>1, <1>2, ErasureKills, OpTypes DEF K
  <1>7. \A i \in {0, 1} : /\ Ab(i) \in Seq(K)
                          /\ Ab(i) = <<>> \/ Ab(i) = <<EraseSector(i), WriteEntry(i, a[i])>>
                          /\ otadata[i].state = "PENDING_VERIFY" =>
                               Ab(i) = <<EraseSector(i), WriteEntry(i, a[i])>>
    <2>1. SUFFICES ASSUME NEW i \in {0, 1}
                   PROVE  /\ Ab(i) \in Seq(K)
                          /\ Ab(i) = <<>> \/ Ab(i) = <<EraseSector(i), WriteEntry(i, a[i])>>
                          /\ otadata[i].state = "PENDING_VERIFY" =>
                               Ab(i) = <<EraseSector(i), WriteEntry(i, a[i])>>
      OBVIOUS
    <2>2. CASE a[i] = otadata[i]
      BY <1>4, <2>2
    <2>3. CASE a[i] # otadata[i]
      <3>1. otadata[i].state = "PENDING_VERIFY"
        BY <1>3, <2>3
      <3>2. i # BaseIndex
        BY <3>1, BaseTypes
      <3>3. /\ ~SelectValid(a[i]) /\ (BaseIndex = -1 /\ i = 1 => ~a[i].crc) /\ a[i] \in Entries
        BY <1>3, <1>4, <3>1 DEF EntriesInv
      <3>4. /\ WriteEntry(i, a[i]).op = "write" /\ WriteEntry(i, a[i]).at = i
            /\ WriteEntry(i, a[i]).entry = a[i]
        BY DEF WriteEntry
      <3>5. PICK op : op = WriteEntry(i, a[i])
        OBVIOUS
      <3>6. op \in K
        <4>1. KillOp(op)'
          BY <1>2, <3>2, <3>3, <3>4, <3>5 DEF KillOp, Settled, Trial, Pending
        <4> QED BY <1>1, <3>3, <3>5, <4>1, OpTypes DEF K
      <3> QED BY <1>6, <2>3, <3>2, <3>5, <3>6 DEF Rewrite
    <2> QED BY <2>2, <2>3
  <1>8. /\ M \in Seq(K)
        /\ (\A i \in {0, 1} : ~Trial(otadata[i])) => M = <<>>
        /\ \A i \in {0, 1} : Trial(otadata[i]) =>
             /\ Len(M) = 2 /\ M[2].op = "write" /\ Pending(M[2].entry)
    <2>1. ASSUME \A i \in {0, 1} : ~Trial(otadata[i])
          PROVE  M = <<>>
      <3>1. entry # -1 => a[entry].state = "VALID"
        BY <1>5, <2>1, BaseTypes
      <3> QED BY <3>1 DEF MarkPending
    <2>2. ASSUME NEW i \in {0, 1}, Trial(otadata[i])
          PROVE  M \in Seq(K) /\ Len(M) = 2 /\ M[2].op = "write" /\ Pending(M[2].entry)
      <3>1. entry = i /\ a[i] = otadata[i] /\ otadata[i].state = "NEW" /\ otadata[i] \in Entries
        BY <1>1, <1>5, <2>2 DEF Trial
      <3>2. PICK e : e = [otadata[i] EXCEPT !.state = "PENDING_VERIFY"]
        OBVIOUS
      <3>3. e.seq = otadata[i].seq /\ e.state = "PENDING_VERIFY" /\ e.crc = otadata[i].crc
        BY <3>1, <3>2 DEF Entries
      <3>4. e \in Entries
        BY <1>1, <3>1, <3>2, EntryTypes DEF States
      <3>5. Pending(e) /\ Above(e) /\ SlotOf(e) = SlotOf(otadata[i])
        BY <2>2, <3>3 DEF TrialInv, Trial, Pending, SelectValid, SelectInvalid, Above, SlotOf
      <3>6. i # BaseIndex /\ (BaseIndex = -1 => i = 0)
        BY <2>2, OneOther
      <3>7. PICK op : op = WriteEntry(i, e)
        OBVIOUS
      <3>8. op.op = "write" /\ op.at = i /\ op.entry = e
        BY <3>7 DEF WriteEntry
      <3>9. op \in K
        <4>1. ~Settled(e) /\ ~Trial(e)
          BY <3>3 DEF Settled, Trial
        <4>2. SlotOf(op.entry)' = call'.part
          BY <1>1, <1>5, <2>2, <3>5, <3>8, SameSlot
        <4>3. call'.part \notin confirmed
          BY <1>1, <1>5, <2>2 DEF TrialInv, Fresh
        <4>4. KillOp(op)'
          BY <1>1, <1>2, <3>5, <3>6, <3>8, <4>1, <4>2, <4>3 DEF KillOp
        <4> QED BY <1>1, <3>4, <3>7, <4>4, OpTypes DEF K
      <3>10. M = <<EraseSector(i), op>>
        BY <3>1, <3>2, <3>7 DEF MarkPending, Rewrite
      <3> QED BY <1>6, <3>5, <3>6, <3>8, <3>9, <3>10
    <2>3. <<>> \in Seq(K)
      OBVIOUS
    <2> HIDE DEF M
    <2> QED BY <2>1, <2>2, <2>3
  <1> HIDE DEF M, Ab
  <1>9. Ab(0) \o Ab(1) \in Seq(K)
    BY <1>7, ConcatProperties
  <1>10. h \in Seq(K)
    BY <1>8, <1>9, ConcatProperties
  <1>11. h \in Seq(Ops)
    BY <1>10 DEF K
  <1>12. ASSUME NEW i \in {0, 1}, Pending(otadata[i])
         PROVE  \E j \in 1 .. Len(h) : /\ h[j].op = "write" /\ h[j].at = i
                                        /\ h[j].entry.state = "ABORTED"
    <2>1. otadata[i].state = "PENDING_VERIFY"
      BY <1>12 DEF Pending
    <2>2. PICK op : op = WriteEntry(i, a[i])
      OBVIOUS
    <2>3. op.op = "write" /\ op.at = i /\ op.entry.state = "ABORTED"
      BY <1>4, <2>1, <2>2 DEF WriteEntry
    <2>4. Ab(i) \in Seq(K) /\ Len(Ab(i)) = 2 /\ Ab(i)[2] = op /\ 2 \in 1 .. Len(Ab(i))
      BY <1>7, <2>1, <2>2
    <2>5. \E j \in 1 .. Len(Ab(0) \o Ab(1)) : (Ab(0) \o Ab(1))[j] = op
      <3>1. CASE i = 0
        BY <1>7, <2>4, <3>1, ConcatElements
      <3>2. CASE i = 1
        <4>1. Ab(0) \in Seq(K) /\ Ab(1) \in Seq(K) /\ 2 \in 1 .. Len(Ab(1)) /\ Ab(1)[2] = op
          BY <1>7, <2>4, <3>2
        <4>2. /\ Len(Ab(0)) + 2 \in 1 .. Len(Ab(0) \o Ab(1))
              /\ (Ab(0) \o Ab(1))[Len(Ab(0)) + 2] = op
          BY <4>1, ConcatElements
        <4> QED BY <4>2
      <3> QED BY <3>1, <3>2
    <2>6. \E j \in 1 .. Len(h) : h[j] = op
      BY <1>8, <1>9, <2>5, ConcatElements
    <2> QED BY <2>3, <2>6
  <1>13. ASSUME NEW i \in {0, 1}, Trial(otadata[i])
         PROVE  h # <<>> /\ h[Len(h)].op = "write" /\ Pending(h[Len(h)].entry)
    <2>1. 2 \in 1 .. Len(M) /\ M[2].op = "write" /\ Pending(M[2].entry)
      BY <1>8, <1>13
    <2>2. M \in Seq(K)
      BY <1>8
    <2>3. Len(Ab(0) \o Ab(1)) + 2 \in 1 .. Len(h) /\ h[Len(Ab(0) \o Ab(1)) + 2] = M[2]
      BY <1>9, <2>1, <2>2, ConcatElements
    <2>4. Len(h) = Len(Ab(0) \o Ab(1)) + 2 /\ Len(Ab(0) \o Ab(1)) \in Nat
      <3>1. Len(M) = 2
        BY <1>8, <1>13
      <3>2. Len(h) = Len(Ab(0) \o Ab(1)) + Len(M)
        BY <1>9, <2>2, ConcatProperties
      <3>3. Len(Ab(0) \o Ab(1)) \in Nat
        BY <1>9, LenProperties
      <3> QED BY <3>1, <3>2, <3>3
    <2>5. h # <<>>
      BY <2>4
    <2> QED BY <2>1, <2>3, <2>4, <2>5
  <1> HIDE DEF h
  <1>14. PICK g : g = h
    OBVIOUS
  <1>15. \A j \in 1 .. Len(g) : KillOp(g[j])'
    <2>1. SUFFICES ASSUME NEW j \in 1 .. Len(g) PROVE KillOp(g[j])'
      OBVIOUS
    <2>2. g[j] \in K
      BY <1>10, <1>14, <2>1, ElementOfSeq
    <2> QED BY <2>2 DEF K
  <1>16. /\ g \in Seq(Ops) /\ g = h /\ \A j \in 1 .. Len(g) : KillOp(g[j])'
         /\ \A i \in {0, 1} : Pending(otadata[i]) =>
              \E j \in 1 .. Len(g) : /\ g[j].op = "write" /\ g[j].at = i
                                     /\ g[j].entry.state = "ABORTED"
         /\ \A i \in {0, 1} : Trial(otadata[i]) =>
              g # <<>> /\ g[Len(g)].op = "write" /\ Pending(g[Len(g)].entry)
    BY <1>11, <1>12, <1>13, <1>14, <1>15
  <1> QED BY <1>16, Zenon DEF h, M, Ab, entry, a

(* The whole list of a boot.  On a trial there is nothing more to do; else   *)
(* the eFuse follows the base, or empty OTA data gets the first entry.       *)
LEMMA BootList ==
  ASSUME TypeOK, Rollback, EntriesInv, BaseInv, TrialInv, UNCHANGED config, Boot
  PROVE  \E h, t \in Seq(Ops) :
           /\ todo' = h \o t
           /\ \A j \in 1 .. Len(h) : KillOp(h[j])'
           /\ \A i \in {0, 1} : Pending(otadata[i]) =>
                \E j \in 1 .. Len(h) : /\ h[j].op = "write" /\ h[j].at = i
                                       /\ h[j].entry.state = "ABORTED"
           /\ \A i \in {0, 1} : Trial(otadata[i]) =>
                h # <<>> /\ h[Len(h)].op = "write" /\ Pending(h[Len(h)].entry)
           /\ \/ t = <<>>
              \/ /\ \A i \in {0, 1} : ~Trial(otadata[i])
                 /\ \/ AntiRollback /\ t = <<Burn(image[BasePart].version)>>
                    \/ /\ BaseIndex = -1 /\ BasePart = 0
                       /\ t[1] = EraseSector(0) /\ t[2] = WriteEntry(0, Entry(1, "VALID"))
                       /\ \/ Len(t) = 2
                          \/ Len(t) = 3 /\ AntiRollback /\ t[3] = Burn(image[BasePart].version)
  <1>1. /\ config \in Configs /\ otadata \in [{0, 1} -> Entries]
        /\ image \in [Partitions -> Images] /\ efuse \in 0 .. MaxVersion
    BY DEF TypeOK
  <1> DEFINE a == AbortPending(otadata)
             entry == BootEntry(a, image, efuse)
             burnt == Burnt(a, entry, image, efuse)
             p == LoadBootImage(StartIndex(a, entry), image, burnt)
             Ab(i) == IF a[i] # otadata[i] THEN Rewrite(i, a[i]) ELSE <<>>
             fuse == IF burnt # efuse THEN <<Burn(burnt)>> ELSE <<>>
             first == SetActualOtaSeq(a, p)
  <1>2. /\ todo' = Ab(0) \o Ab(1) \o MarkPending(a, entry) \o fuse \o first
        /\ p = BootChoice(otadata, image, efuse)
    BY BootShape
  <1>3. PICK h \in Seq(Ops) :
          /\ h = Ab(0) \o Ab(1) \o MarkPending(a, entry)
          /\ \A j \in 1 .. Len(h) : KillOp(h[j])'
          /\ \A i \in {0, 1} : Pending(otadata[i]) =>
               \E j \in 1 .. Len(h) : /\ h[j].op = "write" /\ h[j].at = i
                                      /\ h[j].entry.state = "ABORTED"
          /\ \A i \in {0, 1} : Trial(otadata[i]) =>
               h # <<>> /\ h[Len(h)].op = "write" /\ Pending(h[Len(h)].entry)
    BY BootKills
  <1>4. /\ \A i \in {0, 1} : Trial(otadata[i]) => entry = i /\ a[i] = otadata[i] /\ burnt = efuse
        /\ (\A i \in {0, 1} : ~Trial(otadata[i])) =>
             /\ p = BasePart /\ entry = BaseIndex
             /\ entry = -1 => burnt = efuse
             /\ entry # -1 => /\ a[entry] = otadata[entry]
                              /\ AntiRollback => burnt = image[BasePart].version
                              /\ ~AntiRollback => burnt = efuse
    BY <1>2, OrderChoice
  <1> HIDE DEF a, entry, burnt, p, Ab
  <1>5. todo' = h \o fuse \o first
    BY <1>2, <1>3
  <1>6. \A i \in {0, 1} : a[i] = otadata[i] /\ SelectValid(otadata[i]) => first = <<>>
    BY DEF SetActualOtaSeq, InitialContents, NotWritten, SelectValid, SelectInvalid
  <1>7. BasePart \in Partitions /\ Runnable(BasePart)
    BY BaseTypes DEF BaseInv
  <1>8. AntiRollback => Burn(image[BasePart].version) \in Ops
    <2>1. AntiRollback => image[BasePart].version \in 0 .. MaxVersion
      BY <1>1, <1>7, ImageTypes, Build DEF Runnable
    <2> QED BY <1>1, <2>1, OpTypes
  <1>9. CASE \E i \in {0, 1} : Trial(otadata[i])
    <2>1. fuse = <<>> /\ first = <<>>
      BY <1>4, <1>6, <1>9 DEF Trial
    <2>2. todo' = h \o <<>> /\ <<>> \in Seq(Ops)
      BY <1>3, <1>5, <2>1, ConcatEmptySeq
    <2> QED BY <1>3, <2>2
  <1>10. CASE (\A i \in {0, 1} : ~Trial(otadata[i])) /\ BaseIndex # -1
    <2>1. entry \in {0, 1} /\ first = <<>>
      BY <1>4, <1>6, <1>10, BaseTypes
    <2>2. fuse = <<>> \/ (AntiRollback /\ fuse = <<Burn(image[BasePart].version)>>)
      BY <1>4, <1>10, <2>1
    <2>3. fuse \in Seq(Ops)
      BY <1>8, <2>2
    <2>4. todo' = h \o fuse
      BY <1>3, <1>5, <2>1, <2>3, ConcatProperties, ConcatEmptySeq
    <2> HIDE DEF fuse
    <2> QED BY <1>3, <1>10, <2>2, <2>3, <2>4
  <1>11. CASE (\A i \in {0, 1} : ~Trial(otadata[i])) /\ BaseIndex = -1
    <2>1. fuse = <<>> /\ p = BasePart
      BY <1>4, <1>11
    <2>2. todo' = h \o first
      BY <1>3, <1>5, <2>1, ConcatEmptySeq
    <2>3. CASE ~(p \in Slots /\ InitialContents(a))
      <3>1. first = <<>> /\ <<>> \in Seq(Ops)
        BY <2>3 DEF SetActualOtaSeq
      <3> QED BY <1>3, <2>2, <3>1
    <2>4. CASE p \in Slots /\ InitialContents(a)
      <3>1. BasePart = 0
        BY <1>1, <1>11, <2>1, <2>4, BaseTypes, Build DEF FirstPartition
      <3>2. first = <<EraseSector(0), WriteEntry(0, Entry(1, "VALID"))>>
                    \o (IF AntiRollback THEN <<Burn(image[BasePart].version)>> ELSE <<>>)
        BY <2>1, <2>4, <3>1 DEF SetActualOtaSeq, Rewrite
      <3>3. /\ first[1] = EraseSector(0) /\ first[2] = WriteEntry(0, Entry(1, "VALID"))
            /\ \/ Len(first) = 2
               \/ Len(first) = 3 /\ AntiRollback /\ first[3] = Burn(image[BasePart].version)
        <4>1. PICK x, y, z : /\ x = EraseSector(0) /\ y = WriteEntry(0, Entry(1, "VALID"))
                             /\ z = Burn(image[BasePart].version)
          OBVIOUS
        <4> HIDE DEF first
        <4>2. first = <<x, y>> \o (IF AntiRollback THEN <<z>> ELSE <<>>)
          BY <3>2, <4>1
        <4>3. /\ first[1] = x /\ first[2] = y
              /\ Len(first) = 2 \/ (Len(first) = 3 /\ AntiRollback /\ first[3] = z)
          BY <4>2
        <4> QED BY <4>1, <4>3
      <3>4. EraseSector(0) \in Ops /\ WriteEntry(0, Entry(1, "VALID")) \in Ops
        <4>1. 1 \in -1 .. MaxSeq /\ "VALID" \in States
          BY <1>1, Build DEF States
        <4> QED BY <1>1, <4>1, OpTypes, EntryTypes
      <3>5. first \in Seq(Ops)
        <4>1. <<EraseSector(0), WriteEntry(0, Entry(1, "VALID"))>> \in Seq(Ops)
          BY <3>4
        <4>2. (IF AntiRollback THEN <<Burn(image[BasePart].version)>> ELSE <<>>) \in Seq(Ops)
          BY <1>8
        <4> HIDE DEF first
        <4> QED BY <3>2, <4>1, <4>2, ConcatProperties
      <3> HIDE DEF first
      <3> QED BY <1>3, <1>11, <2>2, <3>1, <3>3, <3>5
    <2> QED BY <2>3, <2>4
  <1> QED BY <1>9, <1>10, <1>11, BaseTypes

(* The bootloader decides: on the base, or on the new application, whose     *)
(* entry it is about to mark.                                                *)
LEMMA OrderBoot ==
  ASSUME TypeOK, RunInv, Ordered, Rollback, UNCHANGED config, Boot
  PROVE  Ordered'
  <1>1. /\ UNCHANGED <<config, flash>> /\ mode = "off" /\ mode' = "boot" /\ config \in Configs
        /\ UNCHANGED <<running, handle, updated, switch, confirmed, good, tried>>
        /\ call'.part = BootChoice(otadata, image, efuse) /\ call'.fn = "boot"
        /\ handle = NoHandle /\ updated = NoPartition
    BY BootOps DEF TypeOK, Boot, ghosts, RunInv
  <1>2. /\ otadata' = otadata /\ BaseIndex' = BaseIndex /\ BasePart' = BasePart /\ EntriesInv'
        /\ image' = image
        /\ \A e : Above(e)' = Above(e)
        /\ \A p : Runnable(p)' = Runnable(p)
    BY <1>1, SameFlash DEF Ordered
  <1>3. PICK h, t \in Seq(Ops) :
           /\ todo' = h \o t
           /\ \A j \in 1 .. Len(h) : KillOp(h[j])'
           /\ \A i \in {0, 1} : Pending(otadata[i]) =>
                \E j \in 1 .. Len(h) : /\ h[j].op = "write" /\ h[j].at = i
                                       /\ h[j].entry.state = "ABORTED"
           /\ \A i \in {0, 1} : Trial(otadata[i]) =>
                h # <<>> /\ h[Len(h)].op = "write" /\ Pending(h[Len(h)].entry)
           /\ \/ t = <<>>
              \/ /\ \A i \in {0, 1} : ~Trial(otadata[i])
                 /\ \/ AntiRollback /\ t = <<Burn(image[BasePart].version)>>
                    \/ /\ BaseIndex = -1 /\ BasePart = 0
                       /\ t[1] = EraseSector(0) /\ t[2] = WriteEntry(0, Entry(1, "VALID"))
                       /\ \/ Len(t) = 2
                          \/ Len(t) = 3 /\ AntiRollback /\ t[3] = Burn(image[BasePart].version)
    BY BootList DEF Ordered
  <1>4. /\ \A i \in {0, 1} : Trial(otadata[i]) => call'.part = SlotOf(otadata[i])
        /\ (\A i \in {0, 1} : ~Trial(otadata[i])) => call'.part = BasePart
    BY <1>1, OrderChoice DEF Ordered
  <1>5. /\ \A j \in 1 .. Len(todo') :
             \/ j \in 1 .. Len(h) /\ todo'[j] = h[j]
             \/ j - Len(h) \in 1 .. Len(t) /\ todo'[j] = t[j - Len(h)]
        /\ \A j \in 1 .. Len(h) : j \in 1 .. Len(todo') /\ todo'[j] = h[j]
        /\ \A j \in 1 .. Len(t) : Len(h) + j \in 1 .. Len(todo') /\ todo'[Len(h) + j] = t[j]
        /\ Len(h) \in Nat /\ Len(t) \in Nat /\ Len(todo') = Len(h) + Len(t)
    BY <1>3, ConcatElements, ConcatProperties, LenProperties
  <1>6. BaseInv' /\ AppInv' /\ UpdateInv'
    BY <1>1, <1>2, SameSlot DEF Ordered, BaseInv, AppInv, UpdateInv, NoHandle
  <1>7. \A p : Fresh(p)' = Fresh(p)
    BY <1>1, <1>2 DEF Fresh
  <1>8. TrialInv'
    BY <1>1, <1>2, <1>4, <1>7, SameSlot DEF Ordered, TrialInv
  <1>9. PendingInv'
    <2>1. ASSUME NEW i \in {0, 1}, Pending(otadata[i])
          PROVE  \E j \in 1 .. Len(todo') : /\ todo'[j].op = "write" /\ todo'[j].at = i
                                            /\ todo'[j].entry.state = "ABORTED"
      BY <1>3, <1>5, <2>1
    <2> QED BY <1>1, <1>2, <2>1 DEF PendingInv
  <1>10. BootInv'
    <2>1. ASSUME NEW i \in {0, 1}, Trial(otadata[i])
          PROVE  /\ call'.part \in Partitions \ (confirmed \cup tried) /\ good = BasePart
                 /\ todo' # <<>> /\ PendingIn(Len(todo))'
      <3>1. SlotOf(otadata[i]) \in Slots
        BY <2>1, OneOther DEF Ordered
      <3>2. call'.part \in Partitions \ (confirmed \cup tried) /\ good = BasePart
        BY <1>1, <1>4, <2>1, <3>1, Build DEF Ordered, TrialInv, Fresh
      <3>3. /\ t = <<>> /\ h # <<>>
            /\ h[Len(h)].op = "write" /\ Pending(h[Len(h)].entry)
        BY <1>3, <2>1
      <3>4. todo' = h
        BY <1>3, <3>3, ConcatEmptySeq
      <3> QED BY <3>2, <3>3, <3>4 DEF PendingIn
    <2> QED BY <1>1, <1>2, <1>4, <2>1, SameBuild DEF BootInv
  <1>11. ASSUME NEW j \in 1 .. Len(h)
         PROVE  KillOp(todo[j])'
    <2>1. KillOp(h[j])' /\ todo'[j] = h[j]
      BY <1>3, <1>5
    <2> QED BY <2>1 DEF KillOp
  <1>12. ASSUME NEW j \in 1 .. Len(t), NEW k, k = Len(h) + j
         PROVE  KillOp(todo[k])' \/ SettleOp(k)' \/ BurnOp(k)'
    <2>1. /\ k \in 1 .. Len(todo') /\ todo'[k] = t[j]
      BY <1>5, <1>12
    <2>2. /\ \A i \in {0, 1} : ~Trial(otadata[i]) /\ call'.part = BasePart
          /\ t # <<>>
      BY <1>3, <1>4, <1>12
    <2>3. ASSUME AntiRollback, t[j] = Burn(image[BasePart].version)
          PROVE  BurnOp(k)'
      <3>1. todo'[k].op = "burn" /\ todo'[k].at = image[BasePart].version
        BY <2>1, <2>3 DEF Burn
      <3>2. image[BasePart].version <= image[BasePart].version
        <4>1. image[BasePart].version \in Int
          BY <1>1, BaseTypes, ImageTypes DEF TypeOK
        <4> QED BY <4>1
      <3> QED BY <1>1, <1>2, <2>2, <2>3, <3>1, <3>2, SameBuild DEF BurnOp
    <2>4. CASE AntiRollback /\ t = <<Burn(image[BasePart].version)>>
      BY <1>12, <2>3, <2>4
    <2>5. CASE /\ BaseIndex = -1 /\ BasePart = 0
               /\ t[1] = EraseSector(0) /\ t[2] = WriteEntry(0, Entry(1, "VALID"))
               /\ \/ Len(t) = 2
                  \/ Len(t) = 3 /\ AntiRollback /\ t[3] = Burn(image[BasePart].version)
      <3>1. /\ t[1] = EraseSector(0) /\ t[2] = WriteEntry(0, Entry(1, "VALID"))
            /\ Len(t) = 2 \/ (Len(t) = 3 /\ AntiRollback /\ t[3] = Burn(image[BasePart].version))
        BY <2>5
      <3>2. j = 1 \/ j = 2 \/ (j = 3 /\ Len(t) = 3)
        <4>1. Len(t) = 2 \/ Len(t) = 3
          BY <3>1
        <4>2. \A n \in {2, 3} : \A m \in 1 .. n : m = 1 \/ m = 2 \/ (m = 3 /\ n = 3)
          OBVIOUS
        <4> QED BY <1>12, <4>1, <4>2
      <3>3. CASE j = 1
        <4>1. KillOp(EraseSector(0))'
          BY <1>2, <2>5, ErasureKills
        <4>2. todo'[k] = EraseSector(0)
          BY <2>1, <3>1, <3>3
        <4>3. KillOp(todo[k])'
          BY <4>1, <4>2 DEF KillOp, EraseSector
        <4> QED BY <4>3
      <3>4. CASE j = 3
        BY <2>3, <3>1, <3>2, <3>4
      <3>5. CASE j = 2
        <4>1. PICK e : e = Entry(1, "VALID")
          OBVIOUS
        <4>2. e.seq = 1 /\ e.state = "VALID" /\ e.crc
          BY <4>1 DEF Entry
        <4>3. todo'[k].op = "write" /\ todo'[k].at = 0 /\ todo'[k].entry = e
          BY <2>1, <3>1, <3>5, <4>1 DEF WriteEntry
        <4>4. Settled(e)
          BY <4>2 DEF Settled, SelectValid, SelectInvalid, UINT32_MAX
        <4>5. SlotOf(e) = BasePart
          BY <1>1, <2>5, <4>2, Build DEF SlotOf
        <4>6. Above(e)
          BY <2>5 DEF Above
        <4>7. \A m \in k + 1 .. Len(todo') : todo'[m].op = "burn"
          <5>1. SUFFICES ASSUME NEW m \in k + 1 .. Len(todo') PROVE todo'[m].op = "burn"
            OBVIOUS
          <5>2. m = Len(h) + 3 /\ 3 \in 1 .. Len(t) /\ Len(t) = 3
            <6>1. CASE Len(t) = 2
              BY <1>5, <1>12, <3>5, <5>1, <6>1
            <6>2. CASE Len(t) = 3
              BY <1>5, <1>12, <3>5, <5>1, <6>2
            <6> QED BY <3>1, <6>1, <6>2
          <5>3. todo'[m] = t[3]
            BY <1>5, <5>2
          <5> QED BY <3>1, <5>2, <5>3 DEF Burn
        <4>8. SettlingIn(k)'
          BY <4>3, <4>4 DEF SettlingIn
        <4>9. SlotOf(todo[k].entry)' = BasePart
          BY <4>3, <4>5, SameSlot
        <4>10. BasePart \in confirmed' /\ Runnable(BasePart)
          BY <1>1 DEF Ordered, BaseInv
        <4>11. SettleOp(k)'
          BY <1>1, <1>2, <2>2, <2>5, <4>3, <4>6, <4>7, <4>8, <4>9, <4>10 DEF SettleOp
        <4> QED BY <4>11
      <3> QED BY <3>2, <3>3, <3>4, <3>5
    <2> QED BY <1>3, <2>2, <2>4, <2>5
  <1>13. OpsInv'
    <2>1. SUFFICES ASSUME NEW k \in 1 .. Len(todo')
                   PROVE  KillOp(todo[k])' \/ SettleOp(k)' \/ BurnOp(k)'
      BY DEF OpsInv
    <2>2. CASE k \in 1 .. Len(h)
      BY <1>11, <2>2
    <2>3. CASE k - Len(h) \in 1 .. Len(t)
      <3>1. k = Len(h) + (k - Len(h))
        BY <1>5
      <3> QED BY <1>12, <2>3, <3>1
    <2> QED BY <1>5, <2>2, <2>3
  <1> QED BY <1>2, <1>6, <1>8, <1>9, <1>10, <1>13, Zenon DEF Ordered

(* A flash operation is done, the base stays: the others remain as they are. *)
LEMMA OpsShift ==
  ASSUME TypeOK, UNCHANGED config, FlashStep, ~SettlingIn(1),
         BaseIndex' = BaseIndex, BasePart' = BasePart, \A e : Above(e)' = Above(e)
  PROVE  /\ Len(todo) \in Nat /\ Len(todo') = Len(todo) - 1 /\ 1 \in 1 .. Len(todo)
         /\ \A j \in 1 .. Len(todo') : todo'[j] = todo[j + 1] /\ j + 1 \in 1 .. Len(todo)
         /\ \A j \in 1 .. Len(todo) : j # 1 => todo'[j - 1] = todo[j] /\ j - 1 \in 1 .. Len(todo')
         /\ UNCHANGED <<mode, running, call, handle, updated, switch, confirmed, good, tried>>
         /\ \A j \in 1 .. Len(todo') :
              /\ KillOp(todo[j + 1]) => KillOp(todo[j])'
              /\ TrialOp(todo[j + 1]) /\ Fresh(call.part)' => TrialOp(todo[j])'
              /\ /\ SettleOp(j + 1) /\ Runnable(SlotOf(todo[j].entry))'
                 /\ \A i \in {0, 1} : ~Trial(otadata'[i])
                 => SettleOp(j)'
              /\ /\ BurnOp(j + 1) /\ image'[BasePart] = image[BasePart]
                 /\ \A i \in {0, 1} : ~Trial(otadata'[i])
                 => BurnOp(j)'
              /\ WipeOp(todo[j + 1]) /\ (\A i \in {0, 1} : ~Trial(otadata'[i])) => WipeOp(todo[j])'
  <1>1. todo \in Seq(Ops) /\ todo # <<>> /\ todo' = Tail(todo) /\ config \in Configs
    BY DEF TypeOK, FlashStep
  <1>2. UNCHANGED <<mode, running, call, handle, updated, switch, confirmed, good, tried>>
    BY DEF FlashStep, ghosts
  <1>3. /\ Len(todo) \in Nat /\ Len(todo') = Len(todo) - 1 /\ 1 \in 1 .. Len(todo)
        /\ \A j \in 1 .. Len(todo') : todo'[j] = todo[j + 1] /\ j + 1 \in 1 .. Len(todo)
    BY <1>1, ListTail
  <1>4. \A j \in 1 .. Len(todo) : j # 1 => todo'[j - 1] = todo[j] /\ j - 1 \in 1 .. Len(todo')
    <2>1. SUFFICES ASSUME NEW j \in 1 .. Len(todo), j # 1
                   PROVE  todo'[j - 1] = todo[j] /\ j - 1 \in 1 .. Len(todo')
      OBVIOUS
    <2>2. j - 1 \in 1 .. Len(todo') /\ (j - 1) + 1 = j
      BY <1>3, <2>1
    <2>3. todo'[j - 1] = todo[(j - 1) + 1]
      BY <1>3, <2>2
    <2> QED BY <2>2, <2>3
  <1>5. SUFFICES ASSUME NEW j \in 1 .. Len(todo')
                 PROVE  /\ KillOp(todo[j + 1]) => KillOp(todo[j])'
                        /\ TrialOp(todo[j + 1]) /\ Fresh(call.part)' => TrialOp(todo[j])'
                        /\ /\ SettleOp(j + 1) /\ Runnable(SlotOf(todo[j].entry))'
                           /\ \A i \in {0, 1} : ~Trial(otadata'[i])
                           => SettleOp(j)'
                        /\ /\ BurnOp(j + 1) /\ image'[BasePart] = image[BasePart]
                           /\ \A i \in {0, 1} : ~Trial(otadata'[i])
                           => BurnOp(j)'
                        /\ WipeOp(todo[j + 1]) /\ (\A i \in {0, 1} : ~Trial(otadata'[i])) =>
                             WipeOp(todo[j])'
    BY <1>2, <1>3, <1>4
  <1>6. todo'[j] = todo[j + 1] /\ j + 1 \in 1 .. Len(todo) /\ j \in Nat
    BY <1>3
  <1>7. KillOp(todo[j + 1]) => KillOp(todo[j])'
    BY <1>2, <1>6, SameSlot DEF KillOp
  <1>8. TrialOp(todo[j + 1]) /\ Fresh(call.part)' => TrialOp(todo[j])'
    BY <1>2, <1>6, SameSlot DEF TrialOp
  <1>9. WipeOp(todo[j + 1]) /\ (\A i \in {0, 1} : ~Trial(otadata'[i])) => WipeOp(todo[j])'
    BY <1>2, <1>6, SameSlot DEF WipeOp
  <1>10. ASSUME SettleOp(j + 1), Runnable(SlotOf(todo[j].entry))',
                \A i \in {0, 1} : ~Trial(otadata'[i])
         PROVE  SettleOp(j)'
    <2>1. SettlingIn(j)'
      BY <1>6, <1>10 DEF SettleOp, SettlingIn
    <2>2. \A k \in j + 1 .. Len(todo') : todo'[k].op = "burn"
      <3>1. SUFFICES ASSUME NEW k \in j + 1 .. Len(todo') PROVE todo'[k].op = "burn"
        OBVIOUS
      <3>2. k \in 1 .. Len(todo') /\ k + 1 \in (j + 1) + 1 .. Len(todo)
        BY <1>3, <1>6, <3>1
      <3> QED BY <1>3, <1>10, <3>2 DEF SettleOp
    <2>3. SlotOf(todo[j].entry)' = SlotOf(todo[j + 1].entry)
      BY <1>6, SameSlot
    <2> QED BY <1>2, <1>6, <1>10, <2>1, <2>2, <2>3 DEF SettleOp
  <1>11. ASSUME BurnOp(j + 1), image'[BasePart] = image[BasePart],
                \A i \in {0, 1} : ~Trial(otadata'[i])
         PROVE  BurnOp(j)'
    <2>1. ASSUME NEW k \in 1 .. (j + 1) - 1, SettlingIn(k)
          PROVE  k - 1 \in 1 .. j - 1 /\ SettlingIn(k - 1)'
      <3>1. k # 1 /\ k \in 1 .. Len(todo)
        BY <1>3, <1>5, <2>1
      <3>2. k - 1 \in 1 .. j - 1 /\ todo'[k - 1] = todo[k]
        BY <1>4, <1>6, <2>1, <3>1
      <3> QED BY <2>1, <3>2 DEF SettlingIn
    <2>2. (\E k \in 1 .. (j + 1) - 1 : SettlingIn(k)) => \E k \in 1 .. j - 1 : SettlingIn(k)'
      BY <2>1
    <2> QED BY <1>2, <1>6, <1>11, <2>2, SameBuild DEF BurnOp
  <1> QED BY <1>7, <1>8, <1>9, <1>10, <1>11

(* The rest of the invariant, when a flash operation leaves the base and     *)
(* what is new.                                                              *)
LEMMA FlashKept ==
  ASSUME TypeOK, RunInv, Ordered, UNCHANGED config, FlashStep, ~SettlingIn(1),
         BaseIndex' = BaseIndex, BasePart' = BasePart, \A e : Above(e)' = Above(e),
         NEW i \in {0, 1},
         \/ otadata' = otadata /\ todo[1].op \notin {"erase", "write"}
         \/ /\ otadata'[1 - i] = otadata[1 - i] /\ todo[1].at = i /\ otadata'[i] = todo[1].entry
            /\ Pending(todo[1].entry) => /\ mode = "boot" /\ SlotOf(todo[1].entry) = call.part
                                         /\ call.part \notin confirmed /\ Above(todo[1].entry)
  PROVE  PendingInv' /\ AppInv' /\ BootInv' /\ UpdateInv'
  <1>1. /\ Len(todo) \in Nat /\ Len(todo') = Len(todo) - 1 /\ 1 \in 1 .. Len(todo)
        /\ \A j \in 1 .. Len(todo) : j # 1 => todo'[j - 1] = todo[j] /\ j - 1 \in 1 .. Len(todo')
        /\ UNCHANGED <<mode, running, call, handle, updated, switch, confirmed, good, tried>>
    BY OpsShift
  <1>2. todo # <<>> /\ call # Idle
    BY DEF FlashStep, RunInv
  <1>3. PendingInv'
    <2>1. ASSUME NEW k \in {0, 1}, Pending(otadata'[k])
          PROVE  /\ mode = "app" => /\ SlotOf(otadata'[k]) = running /\ Above(otadata'[k])
                                    /\ running # BasePart
                 /\ mode = "boot" =>
                      \/ \E j \in 1 .. Len(todo') : /\ todo'[j].op = "write" /\ todo'[j].at = k
                                                    /\ todo'[j].entry.state = "ABORTED"
                      \/ /\ SlotOf(otadata'[k]) = call.part /\ Above(otadata'[k])
                         /\ call.part \notin confirmed
      <3>1. CASE /\ k = i /\ otadata'[i] = todo[1].entry
                 /\ Pending(todo[1].entry) => /\ mode = "boot" /\ SlotOf(todo[1].entry) = call.part
                                              /\ call.part \notin confirmed /\ Above(todo[1].entry)
        BY <2>1, <3>1
      <3>2. CASE otadata'[k] = otadata[k] /\ (todo[1].op # "write" \/ todo[1].at # k)
        <4>1. \A j \in 1 .. Len(todo) : todo[j].op = "write" /\ todo[j].at = k => j # 1
          BY <3>2
        <4> QED BY <1>1, <2>1, <3>2, <4>1 DEF Ordered, PendingInv
      <3> QED BY <2>1, <3>1, <3>2
    <2> QED BY <1>1, <2>1, SameSlot DEF PendingInv
  <1>4. AppInv'
    <2>1. (\E j \in 1 .. Len(todo) : SettlingIn(j)) => \E j \in 1 .. Len(todo') : SettlingIn(j)'
      BY <1>1 DEF SettlingIn
    <2> QED BY <1>1, <1>2, <2>1, SameSlot DEF Ordered, AppInv
  <1>5. BootInv'
    <2>1. CASE mode # "boot" \/ call.part = BasePart
      BY <1>1, <2>1 DEF BootInv
    <2>2. CASE mode = "boot" /\ call.part # BasePart
      <3>1. /\ call.part \in Partitions \ (confirmed \cup tried) /\ good = BasePart
            /\ PendingIn(Len(todo))
        BY <1>2, <2>2 DEF Ordered, BootInv
      <3>2. CASE Len(todo) = 1
        <4>1. todo' = <<>>
          <5>1. todo' \in Seq(Ops)
            BY <1>2, OpsLeft DEF TypeOK, FlashStep
          <5> QED BY <1>1, <3>2, <5>1, EmptySeq
        <4>2. Pending(otadata'[i]) /\ SlotOf(otadata'[i]) = call.part
          BY <3>1, <3>2 DEF PendingIn
        <4> QED BY <1>1, <3>1, <4>1, <4>2, SameSlot, SameBuild DEF BootInv
      <3>3. CASE Len(todo) # 1
        <4>1. Len(todo) \in 1 .. Len(todo) /\ Len(todo') = Len(todo) - 1 /\ Len(todo') > 0
          BY <1>1, <3>3
        <4>2. todo'[Len(todo')] = todo[Len(todo)] /\ todo' # <<>>
          BY <1>1, <3>3, <4>1
        <4>3. PendingIn(Len(todo))'
          BY <3>1, <4>2 DEF PendingIn
        <4> QED BY <1>1, <3>1, <4>2, <4>3, SameBuild DEF BootInv
      <3> QED BY <3>2, <3>3
    <2> QED BY <2>1, <2>2
  <1>6. UpdateInv'
    BY <1>1, SameSlot, SameBuild DEF Ordered, UpdateInv
  <1> QED BY <1>3, <1>4, <1>5, <1>6

(* What a flash operation does, by its kind.                                 *)
LEMMA FlashKinds ==
  ASSUME TypeOK, FlashStep
  PROVE  /\ todo # <<>> /\ 1 \in 1 .. Len(todo) /\ todo[1] \in Ops
         /\ todo[1].op \in {"erase", "write"} =>
              /\ todo[1].at \in {0, 1} /\ todo[1].entry \in Entries
              /\ otadata' = Rewritten(otadata, todo[1].at, todo[1].entry)
              /\ image' = image /\ efuse' = efuse
         /\ todo[1].op = "wipe" =>
              /\ otadata' = otadata /\ efuse' = efuse
              /\ image' = [image EXCEPT ![todo[1].at] = NoImage]
         /\ todo[1].op = "burn" =>
              /\ todo[1].at \in 0 .. MaxVersion /\ otadata' = otadata /\ image' = image
              /\ efuse' = UpdateSecureVersion(todo[1].at, efuse)
  <1>1. todo \in Seq(Ops) /\ todo # <<>>
    BY DEF TypeOK, FlashStep
  <1>2. 1 \in 1 .. Len(todo) /\ Head(todo) = todo[1] /\ todo[1] \in Ops
    BY <1>1, ListTail, OpsLeft
  <1>3. PICK op : op = todo[1]
    OBVIOUS
  <1>4. /\ op.op \in {"erase", "write"} => op.at \in {0, 1} /\ op.entry \in Entries
        /\ op.op = "burn" => op.at \in 0 .. MaxVersion
    BY <1>2, <1>3 DEF Ops, OtaOps
  <1>5. /\ op.op \in {"erase", "write"} =>
              /\ otadata' = [otadata EXCEPT ![op.at] = op.entry] /\ image' = image /\ efuse' = efuse
        /\ op.op = "wipe" => /\ otadata' = otadata /\ efuse' = efuse
                             /\ image' = [image EXCEPT ![op.at] = NoImage]
        /\ op.op = "burn" => /\ otadata' = otadata /\ image' = image
                             /\ efuse' = UpdateSecureVersion(op.at, efuse)
    <2>1. Head(todo) = op
      BY <1>2, <1>3
    <2>2. /\ otadata' = IF op.op \in {"erase", "write"}
                        THEN [otadata EXCEPT ![op.at] = op.entry] ELSE otadata
          /\ image' = IF op.op = "wipe" THEN [image EXCEPT ![op.at] = NoImage] ELSE image
          /\ efuse' = IF op.op = "burn" THEN UpdateSecureVersion(op.at, efuse) ELSE efuse
      BY <2>1 DEF FlashStep
    <2> QED BY <2>2
  <1>6. [otadata EXCEPT ![op.at] = op.entry] = Rewritten(otadata, op.at, op.entry)
    BY Zenon DEF Rewritten
  <1> QED BY <1>1, <1>2, <1>3, <1>4, <1>5, <1>6

(* An entry other than the base is erased or marked.                         *)
LEMMA FlashKill ==
  ASSUME TypeOK, RunInv, Ordered, UNCHANGED config, FlashStep, KillOp(todo[1])
  PROVE  Ordered'
  <1>1. PICK i, x : i = todo[1].at /\ x = todo[1].entry
    OBVIOUS
  <1>2. /\ i \in {0, 1} /\ x \in Entries /\ otadata' = Rewritten(otadata, i, x)
        /\ image' = image /\ efuse' = efuse
        /\ i # BaseIndex /\ ~Settled(x) /\ ~Trial(x) /\ ~SettlingIn(1)
        /\ SelectValid(x) => Pending(x)
        /\ BaseIndex = -1 /\ i = 1 => ~x.crc
    BY <1>1, FlashKinds DEF KillOp, SettlingIn
  <1>3. /\ BaseIndex' = BaseIndex /\ BasePart' = BasePart /\ \A e : Above(e)' = Above(e)
        /\ otadata'[i] = x /\ \A j \in {0, 1} : j # i => otadata'[j] = otadata[j]
    BY <1>2, BaseKept
  <1>4. UNCHANGED <<mode, running, call, handle, updated, switch, confirmed, good, tried>>
    BY <1>2, <1>3, OpsShift
  <1>5. EntriesInv'
    BY <1>2, <1>3 DEF Ordered, EntriesInv, Pending
  <1>6. \A p : Runnable(p)' = Runnable(p) /\ Fresh(p)' = Fresh(p)
    BY <1>2, <1>4, SameBuild DEF Runnable, Fresh
  <1>7. BaseInv'
    BY <1>3, <1>4, <1>6 DEF Ordered, BaseInv
  <1>8. TrialInv'
    BY <1>2, <1>3, <1>4, <1>6, SameSlot DEF Ordered, TrialInv
  <1>9. PendingInv' /\ AppInv' /\ BootInv' /\ UpdateInv'
    <2>1. Pending(x) => /\ mode = "boot" /\ SlotOf(x) = call.part
                        /\ call.part \notin confirmed /\ Above(x)
      BY <1>1 DEF KillOp
    <2>2. otadata'[1 - i] = otadata[1 - i]
      BY <1>2, <1>3
    <2> QED BY <1>1, <1>2, <1>3, <2>1, <2>2, FlashKept
  <1>10. OpsInv'
    <2>1. SUFFICES ASSUME NEW j \in 1 .. Len(todo')
                   PROVE  \/ KillOp(todo[j])' \/ TrialOp(todo[j])' \/ SettleOp(j)'
                          \/ BurnOp(j)' \/ WipeOp(todo[j])'
      BY DEF OpsInv
    <2>2. j + 1 \in 1 .. Len(todo) /\ todo'[j] = todo[j + 1]
      BY <1>2, <1>3, <2>1, OpsShift
    <2>3. TrialOp(todo[j + 1]) => Fresh(call.part)'
      BY <1>4, <1>6 DEF TrialOp, Fresh
    <2>4. ASSUME \A k \in {0, 1} : ~Trial(otadata[k])
          PROVE  \A k \in {0, 1} : ~Trial(otadata'[k])
      BY <1>2, <1>3, <2>4
    <2>5. SettleOp(j + 1) => Runnable(SlotOf(todo[j].entry))'
      BY <1>6, <2>2, SameSlot DEF SettleOp
    <2>6. KillOp(todo[j + 1]) \/ TrialOp(todo[j + 1]) \/ SettleOp(j + 1) \/ BurnOp(j + 1)
          \/ WipeOp(todo[j + 1])
      BY <2>2 DEF Ordered, OpsInv
    <2>7. CASE KillOp(todo[j + 1])
      BY <1>2, <1>3, <2>1, <2>7, OpsShift
    <2>8. CASE TrialOp(todo[j + 1])
      BY <1>2, <1>3, <2>1, <2>3, <2>8, OpsShift
    <2>9. CASE SettleOp(j + 1)
      BY <1>2, <1>3, <2>1, <2>4, <2>5, <2>9, OpsShift DEF SettleOp
    <2>10. CASE BurnOp(j + 1)
      BY <1>2, <1>3, <2>1, <2>4, <2>10, OpsShift DEF BurnOp
    <2>11. CASE WipeOp(todo[j + 1])
      BY <1>2, <1>3, <2>1, <2>4, <2>11, OpsShift DEF WipeOp
    <2> QED BY <2>6, <2>7, <2>8, <2>9, <2>10, <2>11
  <1> QED BY <1>5, <1>7, <1>8, <1>9, <1>10 DEF Ordered

(* The entry of a new application is written: it is not the base yet.        *)
LEMMA FlashTrial ==
  ASSUME TypeOK, RunInv, Ordered, UNCHANGED config, FlashStep, TrialOp(todo[1])
  PROVE  Ordered'
  <1>1. PICK i, x : i = todo[1].at /\ x = todo[1].entry
    OBVIOUS
  <1>2. /\ i \in {0, 1} /\ x \in Entries /\ otadata' = Rewritten(otadata, i, x)
        /\ image' = image /\ efuse' = efuse
        /\ i # BaseIndex /\ Trial(x) /\ Above(x) /\ (BaseIndex = -1 => i = 0)
        /\ mode = "app" /\ call.fn = "set_boot" /\ call.part = SlotOf(x) /\ Fresh(call.part)
        /\ running = BasePart /\ handle = NoHandle /\ (switch # {} => call.part \in switch)
    BY <1>1, FlashKinds DEF TrialOp
  <1>3. /\ ~Settled(x) /\ ~Pending(x) /\ ~SettlingIn(1) /\ x.state = "NEW" /\ SelectValid(x)
    BY <1>1, <1>2 DEF Trial, Settled, Pending, SettlingIn
  <1>4. /\ BaseIndex' = BaseIndex /\ BasePart' = BasePart /\ \A e : Above(e)' = Above(e)
        /\ otadata'[i] = x /\ \A j \in {0, 1} : j # i => otadata'[j] = otadata[j]
    BY <1>2, <1>3, BaseKept
  <1>5. UNCHANGED <<mode, running, call, handle, updated, switch, confirmed, good, tried>>
    BY <1>3, <1>4, OpsShift
  <1>6. EntriesInv'
    BY <1>2, <1>3, <1>4 DEF Ordered, EntriesInv
  <1>7. \A p : Runnable(p)' = Runnable(p) /\ Fresh(p)' = Fresh(p)
    BY <1>2, <1>5, SameBuild DEF Runnable, Fresh
  <1>8. BaseInv'
    BY <1>4, <1>5, <1>7 DEF Ordered, BaseInv
  <1>9. good = BasePart
    BY <1>2 DEF Ordered, AppInv
  <1>10. TrialInv'
    <2>1. ASSUME NEW j \in {0, 1}, Trial(otadata'[j])
          PROVE  /\ Above(otadata'[j]) /\ Fresh(SlotOf(otadata'[j]))
                 /\ switch # {} => SlotOf(otadata'[j]) \in switch
      <3>1. CASE j = i
        BY <1>2, <1>4, <3>1
      <3>2. CASE j # i
        BY <1>4, <2>1, <3>2 DEF Ordered, TrialInv
      <3> QED BY <3>1, <3>2
    <2> QED BY <1>2, <1>4, <1>5, <1>7, <1>9, <2>1, SameSlot DEF TrialInv
  <1>11. PendingInv' /\ AppInv' /\ BootInv' /\ UpdateInv'
    <2>1. otadata'[1 - i] = otadata[1 - i]
      BY <1>2, <1>4
    <2> QED BY <1>1, <1>2, <1>3, <1>4, <2>1, FlashKept
  <1>12. OpsInv'
    <2>1. SUFFICES ASSUME NEW j \in 1 .. Len(todo')
                   PROVE  KillOp(todo[j])' \/ TrialOp(todo[j])'
      BY DEF OpsInv
    <2>2. j + 1 \in 1 .. Len(todo) /\ todo'[j] = todo[j + 1]
      BY <1>3, <1>4, <2>1, OpsShift
    <2>3. call.part # NoPartition
      BY <1>2, ValidEntry, Build DEF Trial, TypeOK
    <2>4. ~SettleOp(j + 1) /\ ~BurnOp(j + 1) /\ ~WipeOp(todo[j + 1])
      BY <1>2, <2>3 DEF SettleOp, BurnOp, WipeOp
    <2>5. KillOp(todo[j + 1]) \/ TrialOp(todo[j + 1])
      BY <2>2, <2>4 DEF Ordered, OpsInv
    <2>6. Fresh(call.part)'
      BY <1>2, <1>5, <1>7 DEF Fresh
    <2> QED BY <1>3, <1>4, <2>1, <2>5, <2>6, OpsShift
  <1> QED BY <1>6, <1>8, <1>10, <1>11, <1>12 DEF Ordered

(* The entry of a confirmed application is written: it becomes the base.     *)
LEMMA FlashSettle ==
  ASSUME TypeOK, RunInv, Ordered, UNCHANGED config, FlashStep, SettleOp(1)
  PROVE  Ordered'
  <1>1. PICK i, x : i = todo[1].at /\ x = todo[1].entry
    OBVIOUS
  <1>2. /\ i \in {0, 1} /\ x \in Entries /\ otadata' = Rewritten(otadata, i, x)
        /\ image' = image /\ efuse' = efuse
        /\ i # BaseIndex /\ Settled(x) /\ Above(x) /\ (BaseIndex = -1 => i = 0)
        /\ SlotOf(x) \in confirmed /\ Runnable(SlotOf(x))
        /\ \A j \in {0, 1} : ~Trial(otadata[j])
        /\ \/ mode = "app" /\ call.fn = "mark_valid" /\ SlotOf(x) = running /\ switch = {}
           \/ mode = "boot" /\ call.part = BasePart /\ SlotOf(x) = BasePart
    BY <1>1, FlashKinds DEF SettleOp, SettlingIn
  <1>3. /\ BaseIndex' = i /\ BasePart' = SlotOf(x)
        /\ otadata'[i] = x /\ \A j \in {0, 1} : j # i => otadata'[j] = otadata[j]
    BY <1>2, BaseMoves
  <1>4. UNCHANGED <<mode, running, call, handle, updated, switch, confirmed, good, tried>>
    BY DEF FlashStep, ghosts
  <1>5. \A p : Runnable(p)' = Runnable(p)
    BY <1>2, SameBuild DEF Runnable
  <1>6. EntriesInv'
    BY <1>2, <1>3 DEF Ordered, EntriesInv, Settled
  <1>7. BaseInv'
    BY <1>2, <1>3, <1>4, <1>5 DEF BaseInv
  <1>8. \A j \in {0, 1} : ~Trial(otadata'[j]) /\ ~Pending(otadata'[j])
    <2>1. SUFFICES ASSUME NEW j \in {0, 1}, Pending(otadata[j]), j # i PROVE FALSE
      BY <1>2, <1>3 DEF Settled, Trial, Pending
    <2>2. j # BaseIndex /\ (BaseIndex = 1 - j \/ (BaseIndex = -1 /\ j = 0))
      BY <2>1, OneOther DEF Ordered
    <2> QED BY <1>2, <2>1, <2>2
  <1>9. TrialInv' /\ PendingInv'
    BY <1>8 DEF TrialInv, PendingInv
  <1>10. AppInv'
    BY <1>2, <1>3, <1>4 DEF AppInv
  <1>11. BootInv'
    BY <1>2, <1>3, <1>4 DEF BootInv
  <1>12. UpdateInv'
    BY <1>2, <1>3, <1>4, SameSlot, SameBuild DEF Ordered, UpdateInv
  <1>13. OpsInv'
    <2>1. SUFFICES ASSUME NEW j \in 1 .. Len(todo') PROVE BurnOp(j)'
      BY DEF OpsInv
    <2>2. /\ j + 1 \in 1 .. Len(todo) /\ j + 1 \in 1 + 1 .. Len(todo) /\ todo'[j] = todo[j + 1]
      <3>1. todo \in Seq(Ops) /\ todo # <<>> /\ todo' = Tail(todo)
        BY DEF TypeOK, FlashStep
      <3>2. j + 1 \in 1 .. Len(todo) /\ todo'[j] = todo[j + 1] /\ Len(todo) \in Nat
        BY <2>1, <3>1, ListTail
      <3> QED BY <2>1, <3>2
    <2>3. todo[j + 1].op = "burn"
      BY <2>2 DEF SettleOp
    <2>4. BurnOp(j + 1)
      BY <2>2, <2>3 DEF Ordered, OpsInv, KillOp, TrialOp, SettleOp, SettlingIn, WipeOp
    <2>5. todo[j + 1].at <= image[SlotOf(x)].version
      <3>1. CASE mode = "app" /\ SlotOf(x) = running
        BY <2>2, <2>3, <3>1 DEF RunInv, SparesPartition
      <3>2. CASE mode = "boot" /\ SlotOf(x) = BasePart
        BY <2>4, <3>2 DEF BurnOp, RunInv
      <3> QED BY <1>2, <3>1, <3>2
    <2> QED BY <1>2, <1>3, <1>4, <1>8, <2>2, <2>4, <2>5, SameBuild DEF BurnOp
  <1> QED BY <1>6, <1>7, <1>9, <1>10, <1>11, <1>12, <1>13 DEF Ordered

(* The eFuse is burnt: to no more than the version of the base.              *)
LEMMA FlashBurn ==
  ASSUME TypeOK, RunInv, Ordered, UNCHANGED config, FlashStep, BurnOp(1)
  PROVE  Ordered'
  <1>1. /\ otadata' = otadata /\ image' = image /\ efuse' = UpdateSecureVersion(todo[1].at, efuse)
        /\ todo[1].op = "burn" /\ todo[1].at \in 0 .. MaxVersion
        /\ ~SettlingIn(1) /\ call.fn \in {"boot", "mark_valid"}
        /\ \A i \in {0, 1} : ~Trial(otadata[i])
        /\ todo[1].at <= image[BasePart].version
    BY FlashKinds DEF BurnOp, SettlingIn
  <1>2. /\ BaseIndex' = BaseIndex /\ BasePart' = BasePart /\ \A e : Above(e)' = Above(e)
    BY <1>1, BaseSame
  <1>3. UNCHANGED <<mode, running, call, handle, updated, switch, confirmed, good, tried>>
    BY <1>1, <1>2, OpsShift
  <1>4. EntriesInv'
    BY <1>1, <1>2 DEF Ordered, EntriesInv
  <1>5. BaseInv'
    BY <1>1, <1>2, <1>3, SameBuild DEF Ordered, BaseInv, Runnable, UpdateSecureVersion
  <1>6. TrialInv'
    BY <1>1 DEF TrialInv
  <1>7. PendingInv' /\ AppInv' /\ BootInv' /\ UpdateInv'
    BY <1>1, <1>2, FlashKept
  <1>8. RunInv'
    BY RunBoots
  <1>9. OpsInv'
    <2>1. SUFFICES ASSUME NEW j \in 1 .. Len(todo')
                   PROVE  KillOp(todo[j])' \/ SettleOp(j)' \/ BurnOp(j)'
      BY DEF OpsInv
    <2>2. j + 1 \in 1 .. Len(todo) /\ todo'[j] = todo[j + 1]
      BY <1>1, <1>2, <2>1, OpsShift
    <2>3. ~TrialOp(todo[j + 1]) /\ ~WipeOp(todo[j + 1])
      BY <1>1 DEF TrialOp, WipeOp
    <2>4. KillOp(todo[j + 1]) \/ SettleOp(j + 1) \/ BurnOp(j + 1)
      BY <2>2, <2>3 DEF Ordered, OpsInv
    <2>5. \A i \in {0, 1} : ~Trial(otadata'[i])
      BY <1>1
    <2>6. ASSUME SettleOp(j + 1) PROVE Runnable(SlotOf(todo[j].entry))'
      <3>1. SlotOf(todo[j].entry)' = SlotOf(todo[j + 1].entry)
        BY <2>2, SameSlot
      <3>2. CASE mode = "app" /\ SlotOf(todo[j + 1].entry) = running
        BY <1>3, <1>8, <3>1, <3>2 DEF RunInv
      <3>3. CASE SlotOf(todo[j + 1].entry) = BasePart
        BY <1>2, <1>5, <3>1, <3>3 DEF BaseInv
      <3> QED BY <2>6, <3>2, <3>3 DEF SettleOp
    <2>7. CASE KillOp(todo[j + 1])
      BY <1>1, <1>2, <2>1, <2>7, OpsShift
    <2>8. CASE SettleOp(j + 1)
      BY <1>1, <1>2, <2>1, <2>5, <2>6, <2>8, OpsShift
    <2>9. CASE BurnOp(j + 1)
      BY <1>1, <1>2, <2>1, <2>5, <2>9, OpsShift
    <2> QED BY <2>4, <2>7, <2>8, <2>9
  <1> QED BY <1>4, <1>5, <1>6, <1>7, <1>9 DEF Ordered

(* A partition other than the base is erased.                                *)
LEMMA FlashWipe ==
  ASSUME TypeOK, RunInv, Ordered, UNCHANGED config, FlashStep, WipeOp(todo[1])
  PROVE  Ordered'
  <1>1. /\ otadata' = otadata /\ image' = [image EXCEPT ![todo[1].at] = NoImage] /\ efuse' = efuse
        /\ todo[1].op = "wipe" /\ todo[1].at # BasePart /\ ~SettlingIn(1)
        /\ call.fn = "erase_last" \/ (call.fn = "set_boot" /\ call.part = NoPartition)
        /\ mode = "app" /\ image \in [Partitions -> Images]
        /\ \A i \in {0, 1} : ~Trial(otadata[i])
    BY FlashKinds DEF WipeOp, SettlingIn, TypeOK
  <1>2. /\ BaseIndex' = BaseIndex /\ BasePart' = BasePart /\ \A e : Above(e)' = Above(e)
        /\ BasePart \in Partitions
    BY <1>1, BaseSame, BaseTypes
  <1>3. UNCHANGED <<mode, running, call, handle, updated, switch, confirmed, good, tried>>
    BY <1>1, <1>2, OpsShift
  <1>4. EntriesInv'
    BY <1>1, <1>2 DEF Ordered, EntriesInv
  <1>5. image'[BasePart] = image[BasePart]
    BY <1>1, <1>2
  <1>6. BaseInv'
    BY <1>1, <1>2, <1>3, <1>5, SameBuild DEF Ordered, BaseInv, Runnable
  <1>7. TrialInv'
    BY <1>1 DEF TrialInv
  <1>8. PendingInv' /\ AppInv' /\ BootInv' /\ UpdateInv'
    BY <1>1, <1>2, FlashKept
  <1>9. OpsInv'
    <2>1. SUFFICES ASSUME NEW j \in 1 .. Len(todo')
                   PROVE  KillOp(todo[j])' \/ WipeOp(todo[j])'
      BY DEF OpsInv
    <2>2. j + 1 \in 1 .. Len(todo) /\ todo'[j] = todo[j + 1]
      BY <1>1, <1>2, <2>1, OpsShift
    <2>3. ~TrialOp(todo[j + 1])
      <3>1. SUFFICES ASSUME TrialOp(todo[j + 1]) PROVE FALSE
        OBVIOUS
      <3>2. todo[j + 1] \in Ops /\ todo[j + 1].op = "write"
        BY <2>2, <3>1, ElementOfSeq DEF TypeOK, TrialOp
      <3>3. todo[j + 1].entry \in Entries
        BY <3>2 DEF Ops, OtaOps
      <3>4. call.part \in Slots
        BY <3>1, <3>3, ValidEntry DEF TypeOK, TrialOp, Trial
      <3> QED BY <1>1, <3>1, <3>4, Build DEF TypeOK, TrialOp
    <2>4. ~SettleOp(j + 1) /\ ~BurnOp(j + 1)
      BY <1>1 DEF SettleOp, BurnOp
    <2>5. KillOp(todo[j + 1]) \/ WipeOp(todo[j + 1])
      BY <2>2, <2>3, <2>4 DEF Ordered, OpsInv
    <2>6. \A i \in {0, 1} : ~Trial(otadata'[i])
      BY <1>1
    <2> QED BY <1>1, <1>2, <2>1, <2>5, <2>6, OpsShift
  <1> QED BY <1>4, <1>6, <1>7, <1>8, <1>9 DEF Ordered

(* One flash operation of any call.                                          *)
LEMMA OrderFlash ==
  ASSUME TypeOK, RunInv, Ordered, UNCHANGED config, FlashStep
  PROVE  Ordered'
  <1>1. KillOp(todo[1]) \/ TrialOp(todo[1]) \/ SettleOp(1) \/ BurnOp(1) \/ WipeOp(todo[1])
    BY FlashKinds DEF Ordered, OpsInv
  <1> QED BY <1>1, FlashKill, FlashTrial, FlashSettle, FlashBurn, FlashWipe

-------------------------------------------------------------------------------
(* What follows for the application and the bootloader.                      *)

(* A new device: the base is the application installed in the factory.       *)
LEMMA OrderInit ==
  ASSUME Init
  PROVE  Ordered
  <1>1. /\ config \in Configs /\ otadata = [i \in {0, 1} |-> Erased] /\ efuse = 0
        /\ image = [p \in Partitions |-> IF p = FirstPartition
                                         THEN [version |-> 0, ok |-> TRUE] ELSE NoImage]
        /\ mode = "off" /\ todo = <<>> /\ handle = NoHandle /\ updated = NoPartition
        /\ switch = {} /\ confirmed = {FirstPartition}
    BY DEF Init
  <1>2. \A i \in {0, 1} : otadata[i] = Erased /\ ~otadata[i].crc
    BY <1>1 DEF Erased
  <1>3. \A i \in {0, 1} : ~SelectValid(otadata[i])
    BY <1>2 DEF SelectValid
  <1>4. BasePart \in Partitions /\ BasePart = FirstPartition
    BY <1>3, InitTypes, BaseTypes DEF Settled
  <1>5. EntriesInv
    BY <1>2, <1>3 DEF EntriesInv
  <1>6. BaseInv
    BY <1>1, <1>4 DEF BaseInv, Runnable
  <1>7. TrialInv /\ PendingInv /\ AppInv /\ BootInv /\ OpsInv
    BY <1>1, <1>3 DEF TrialInv, PendingInv, AppInv, BootInv, OpsInv, Trial, Pending
  <1>8. UpdateInv
    BY <1>1 DEF UpdateInv, NoHandle
  <1> QED BY <1>5, <1>6, <1>7, <1>8 DEF Ordered

(* Nothing happens.                                                          *)
LEMMA OrderStutters ==
  ASSUME Ordered, UNCHANGED vars
  PROVE  Ordered'
  <1>1. /\ UNCHANGED <<config, flash>> /\ UNCHANGED <<mode, running, todo, call, handle>>
        /\ UNCHANGED <<updated, switch, confirmed, good, tried>>
    BY DEF vars, machine, ghosts
  <1>2. /\ otadata' = otadata /\ image' = image /\ BaseIndex' = BaseIndex /\ BasePart' = BasePart
        /\ EntriesInv'
        /\ \A e : Above(e)' = Above(e)
        /\ \A p : Runnable(p)' = Runnable(p)
    BY <1>1, SameFlash DEF Ordered
  <1>3. BaseInv'
    BY <1>1, <1>2 DEF Ordered, BaseInv
  <1>4. \A p : Fresh(p)' = Fresh(p)
    BY <1>1, <1>2 DEF Fresh
  <1>5. TrialInv'
    BY <1>1, <1>2, <1>4, SameSlot DEF Ordered, TrialInv
  <1>6. PendingInv'
    BY <1>1, <1>2, SameSlot DEF Ordered, PendingInv
  <1>7. \A j : SettlingIn(j)' = SettlingIn(j) /\ PendingIn(j)' = PendingIn(j)
    BY <1>1 DEF SettlingIn, PendingIn
  <1>8. AppInv'
    BY <1>1, <1>2, <1>7, SameSlot DEF Ordered, AppInv
  <1>9. BootInv'
    BY <1>1, <1>2, <1>7, SameSlot, SameBuild DEF Ordered, BootInv
  <1>10. UpdateInv'
    BY <1>1, <1>2, SameSlot, SameBuild DEF Ordered, UpdateInv
  <1>11. OpsInv'
    <2>1. \A op : /\ KillOp(op)' = KillOp(op) /\ WipeOp(op)' = WipeOp(op)
      BY <1>1, <1>2, SameSlot DEF KillOp, WipeOp
    <2>2. \A op : TrialOp(op)' = TrialOp(op)
      BY <1>1, <1>2, <1>4, SameSlot DEF TrialOp
    <2>3. \A j : BurnOp(j)' = BurnOp(j)
      BY <1>1, <1>2, <1>7, SameBuild DEF BurnOp
    <2>4. \A j : SettleOp(j)' = SettleOp(j)
      BY <1>1, <1>2, <1>7, SameSlot DEF SettleOp
    <2> QED BY <1>1, <2>1, <2>2, <2>3, <2>4 DEF Ordered, OpsInv
  <1> QED BY <1>2, <1>3, <1>5, <1>6, <1>8, <1>9, <1>10, <1>11 DEF Ordered

(* OrderInv is inductive, given the types and RunInv.                        *)
LEMMA OrderNext ==
  ASSUME TypeOK, RunInv, OrderInv, [Next]_vars
  PROVE  OrderInv'
  <1>1. SUFFICES ASSUME Orderly', Rollback' PROVE Ordered'
    BY DEF OrderInv
  <1>2. UNCHANGED config
    BY DEF Next, vars
  <1>3. Orderly /\ Rollback
    BY <1>1, <1>2, SameBuild DEF Orderly
  <1>4. Ordered
    BY <1>3 DEF OrderInv
  <1>5. CASE UNCHANGED vars
    BY <1>4, <1>5, OrderStutters
  <1>6. CASE FlashStep
    BY <1>2, <1>4, <1>6, OrderFlash
  <1>7. CASE Reset
    BY <1>2, <1>4, <1>7, OrderReset
  <1>8. CASE Boot
    BY <1>2, <1>3, <1>4, <1>8, OrderBoot
  <1>9. CASE StartApp
    BY <1>2, <1>4, <1>9, OrderStart
  <1>10. CASE \E p \in Slots, lazy \in BOOLEAN : OtaBegin(p, lazy)
    BY <1>2, <1>3, <1>4, <1>10, OrderBegin
  <1>11. CASE OtaWrite
    BY <1>2, <1>4, <1>11, OrderWrite
  <1>12. CASE OtaEnd \/ OtaAbort
    BY <1>2, <1>4, <1>12, OrderEnd
  <1>13. CASE SetBootFactory
    BY <1>3, <1>13 DEF SetBootFactory, Orderly
  <1>14. CASE \E p \in Slots : SetBoot(p)
    BY <1>2, <1>3, <1>4, <1>14, OrderSetBoot
  <1>15. CASE MarkValid
    BY <1>2, <1>3, <1>4, <1>15, OrderMarkValid
  <1>16. CASE MarkInvalid
    BY <1>2, <1>3, <1>4, <1>16, OrderMarkInvalid
  <1>17. CASE EraseLast
    BY <1>2, <1>3, <1>4, <1>17, OrderEraseLast
  <1>18. CASE Return
    BY <1>2, <1>4, <1>18, OrderReturn
  <1> QED BY <1>5, <1>6, <1>7, <1>8, <1>9, <1>10, <1>11, <1>12, <1>13, <1>14, <1>15, <1>16, <1>17,
             <1>18 DEF Next

(* The three invariants hold of every behaviour: what runs can be booted,    *)
(* the switch without rollback has two ends, and with rollback the base is   *)
(* always there.                                                             *)
THEOREM AlwaysInvariant == Spec => [](TypeOK /\ RunInv /\ PlainInv /\ OrderInv)
  <1>1. Init => TypeOK /\ RunInv /\ PlainInv /\ OrderInv
    BY InitTypes, RunInit, OrderInit DEF OrderInv, PlainInv, Init
  <1>2. TypeOK /\ RunInv /\ PlainInv /\ OrderInv /\ [Next]_vars =>
          (TypeOK /\ RunInv /\ PlainInv /\ OrderInv)'
    BY NextTypes, RunNext, PlainNext, OrderNext
  <1> QED BY <1>1, <1>2, PTL DEF Spec

(* The bootloader always finds an image that verifies and that the eFuse     *)
(* allows: whatever the application does without anti-rollback, and with it  *)
(* for an orderly one.                                                       *)
THEOREM AlwaysBoots == Spec => []AlwaysBootable
  <1>1. TypeOK /\ RunInv /\ PlainInv /\ OrderInv => AlwaysBootable
    <2>1. SUFFICES ASSUME TypeOK, RunInv, OrderInv, AntiRollback => Orderly
                   PROVE  BootChoice(otadata, image, efuse) # NoPartition
      BY DEF AlwaysBootable, NeverBricked
    <2>2. CASE ~AntiRollback
      BY <2>1, <2>2, ChoiceTypes DEF RunInv
    <2>3. CASE AntiRollback
      <3>1. Rollback /\ NoPartition \notin Partitions /\ Slots \subseteq Partitions
        BY <2>1, <2>3, Build DEF TypeOK
      <3>2. Ordered
        BY <2>1, <2>3, <3>1 DEF OrderInv
      <3>3. CASE \E i \in {0, 1} : Trial(otadata[i])
        BY <2>1, <3>1, <3>2, <3>3, OrderChoice, OneOther DEF Ordered
      <3>4. CASE \A i \in {0, 1} : ~Trial(otadata[i])
        BY <2>1, <3>1, <3>2, <3>4, OrderChoice, BaseTypes DEF Ordered
      <3> QED BY <3>3, <3>4
    <2> QED BY <2>2, <2>3
  <1> QED BY <1>1, AlwaysInvariant, PTL

(* From esp_ota_set_boot_partition on, power failures included, what boots   *)
(* is the old or the new partition, or the one that asked.                   *)
THEOREM AlwaysAtomicSwitch == Spec => []AtomicSwitch
  <1>1. TypeOK /\ RunInv /\ PlainInv /\ OrderInv => AtomicSwitch
    <2>1. SUFFICES ASSUME TypeOK, RunInv, PlainInv, OrderInv, switch # {},
                          Orderly \/ (~Rollback /\ Liberties \subseteq {"set_again"})
                   PROVE  BootChoice(otadata, image, efuse) \in switch
      BY DEF AtomicSwitch
    <2>2. CASE ~Rollback
      <3>1. Plain
        BY <2>1, <2>2 DEF Plain, Orderly
      <3> QED BY <2>1, <3>1 DEF PlainInv
    <2>3. CASE Rollback /\ Orderly
      <3>1. Ordered
        BY <2>1, <2>3 DEF OrderInv
      <3>2. CASE \E i \in {0, 1} : Trial(otadata[i])
        BY <2>1, <2>3, <3>1, <3>2, OrderChoice DEF Ordered, TrialInv
      <3>3. CASE \A i \in {0, 1} : ~Trial(otadata[i])
        BY <2>1, <2>3, <3>1, <3>3, OrderChoice DEF Ordered, UpdateInv
      <3> QED BY <3>2, <3>3
    <2> QED BY <2>1, <2>2, <2>3
  <1> QED BY <1>1, AlwaysInvariant, PTL

(* While an application on trial runs, a reset at any moment goes back to    *)
(* the application that worked last.                                         *)
THEOREM AlwaysRollsBack == Spec => []RollsBack
  <1>1. TypeOK /\ RunInv /\ PlainInv /\ OrderInv => RollsBack
    <2>1. SUFFICES ASSUME TypeOK, OrderInv, Orderly, Rollback, mode = "app", running \notin confirmed
                   PROVE  BootChoice(otadata, image, efuse) = good
      BY DEF RollsBack
    <2>2. Ordered
      BY <2>1 DEF OrderInv
    <2>3. running # BasePart
      BY <2>1, <2>2 DEF Ordered, BaseInv
    <2>4. good = BasePart /\ \A i \in {0, 1} : ~Trial(otadata[i])
      BY <2>1, <2>2, <2>3 DEF Ordered, AppInv, TrialInv
    <2> QED BY <2>1, <2>2, <2>4, OrderChoice DEF Ordered
  <1> QED BY <1>1, AlwaysInvariant, PTL

(* An entry that the bootloader selects as VALID names an application that   *)
(* has declared itself to work.                                              *)
THEOREM AlwaysValidMeansConfirmed == Spec => []ValidMeansConfirmed
  <1>1. TypeOK /\ RunInv /\ PlainInv /\ OrderInv => ValidMeansConfirmed
    <2> DEFINE b == BootDecision(otadata, image, efuse)
               a == AbortPending(otadata)
               entry == BootEntry(a, image, efuse)
    <2>1. SUFFICES ASSUME TypeOK, OrderInv, Orderly, Rollback, b.entry # -1,
                          b.d[b.entry].state = "VALID"
                   PROVE  SlotOf(b.d[b.entry]) \in confirmed
      BY DEF ValidMeansConfirmed
    <2>2. Ordered
      BY <2>1 DEF OrderInv
    <2>3. b.d = a /\ b.entry = entry
      BY BootParts
    <2>4. /\ \A i \in {0, 1} : Trial(otadata[i]) => entry = i /\ a[i] = otadata[i]
          /\ (\A i \in {0, 1} : ~Trial(otadata[i])) =>
               entry = BaseIndex /\ (entry # -1 => a[entry] = otadata[entry])
      BY <2>1, <2>2, OrderChoice DEF Ordered
    <2> HIDE DEF b, a, entry
    <2>5. \A i \in {0, 1} : ~Trial(otadata[i])
      BY <2>1, <2>3, <2>4 DEF Trial
    <2>6. SlotOf(a[entry]) = BasePart
      BY <2>1, <2>3, <2>4, <2>5, BaseTypes
    <2> QED BY <2>2, <2>3, <2>6 DEF Ordered, BaseInv
  <1> QED BY <1>1, AlwaysInvariant, PTL

(* With anti-rollback no application below the eFuse's version runs, and the *)
(* eFuse never passes the version of an application that worked.             *)
THEOREM AlwaysVersionsHold == Spec => []VersionsHold
  <1>1. TypeOK /\ RunInv /\ PlainInv /\ OrderInv => VersionsHold
    <2>1. SUFFICES ASSUME TypeOK, RunInv, OrderInv, AntiRollback
                   PROVE  /\ mode = "app" => image[running].version >= efuse
                          /\ Orderly => \E p \in confirmed : image[p].ok /\ image[p].version >= efuse
      BY DEF VersionsHold
    <2>2. Rollback
      BY <2>1, Build DEF TypeOK
    <2>3. mode = "app" => image[running].version >= efuse
      BY <2>1 DEF RunInv, Runnable
    <2>4. Orderly => BasePart \in confirmed /\ Runnable(BasePart)
      BY <2>1, <2>2 DEF OrderInv, Ordered, BaseInv
    <2> QED BY <2>1, <2>3, <2>4 DEF Runnable
  <1> QED BY <1>1, AlwaysInvariant, PTL

(* An application that was started unconfirmed is not started again unless   *)
(* it was confirmed or set again.                                            *)
THEOREM NeverSecondTrial == Spec => NoSecondTrial
  <1>1. TypeOK /\ RunInv /\ PlainInv /\ OrderInv /\ [Next]_vars =>
          [Orderly /\ Rollback /\ mode = "boot" /\ mode' = "app" /\ running' \notin confirmed =>
             running' \notin tried]_vars
    <2>1. SUFFICES ASSUME TypeOK, RunInv, OrderInv, Next, Orderly, Rollback,
                          mode = "boot", mode' = "app", running' \notin confirmed
                   PROVE  running' \notin tried
      OBVIOUS
    <2>2. StartApp
      BY <2>1 DEF Next, FlashStep, Reset, Boot, OtaBegin, OtaWrite, OtaEnd, OtaAbort, Ready,
         SetBootFactory, SetBoot, MarkValid, MarkInvalid, EraseLast, Return
    <2>3. running' = call.part
      BY <2>2 DEF StartApp
    <2>4. Ordered
      BY <2>1 DEF OrderInv
    <2>5. call.part # BasePart
      BY <2>1, <2>3, <2>4 DEF Ordered, BaseInv
    <2> QED BY <2>1, <2>3, <2>4, <2>5 DEF Ordered, BootInv
  <1> QED BY <1>1, AlwaysInvariant, PTL DEF Spec, NoSecondTrial
================================================================================
