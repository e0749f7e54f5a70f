------------------------------ MODULE RingBufInv ------------------------------
(***************************************************************************)
(* The inductive invariant of RingBuf.  A buffer b of s bytes is measured    *)
(* from pucFree: the headers lie one after the other at growing distances    *)
(* up to pucAcquire, and the read and write pointers are at two of these     *)
(* distances.  Because the same offset is distance 0 and distance s when     *)
(* the buffer is full, the distance r of pucRead cannot be computed from the *)
(* offsets, and the invariant says that there is one.                        *)
(***************************************************************************)
EXTENDS RingBuf

(* Where a header may be: aligned, with all of it before pucTail.            *)
Places(s) == {p \in 0 .. s - 1 : p % Align = 0 /\ p + Header <= s}

HeaderRec == [len : Nat, written : BOOLEAN, freed : BOOLEAN, dummy : BOOLEAN, split : BOOLEAN,
              item : Items \cup {Junk}, part : {0, 1, 2}]

(* A header is told from the bytes of an item.                               *)
ASSUME CellAssumption ==
  Junk \notin Items /\ \A v \in Items \cup {Junk} : v \notin HeaderRec

(* How far p is from f, going forward.                                       *)
Dist(s, f, p) == IF p >= f THEN p - f ELSE p - f + s
Far(s, b, p) == Dist(s, b.free, p)

(* The bytes that are not free.                                              *)
Used(s, b) == IF b.full THEN s ELSE Far(s, b, b.acquire)

Heads(s, b) == {p \in 0 .. s - 1 : HasHeader(b, p)}
Entries(s, b) == {p \in Heads(s, b) : ~b.mem[p].dummy}

(* The bytes that the header at p and its item take, and what comes next.    *)
Extent(b, p) == IF b.mem[p].dummy THEN Header ELSE Header + AlignSize(b.mem[p].len)
Past(s, b, p) ==
  IF b.mem[p].dummy \/ s - (p + Extent(b, p)) < Header THEN 0 ELSE p + Extent(b, p)

(* What comes after p is the nearest header, or pucAcquire after the last.   *)
Linked(s, b, p) ==
  LET q == Past(s, b, p)
  IN  \/ q = b.acquire /\ \A x \in Heads(s, b) : Far(s, b, x) <= Far(s, b, p)
      \/ /\ q \in Heads(s, b) /\ Far(s, b, p) + Extent(b, p) <= Far(s, b, q)
         /\ \A x \in Heads(s, b) : Far(s, b, x) <= Far(s, b, p) \/ Far(s, b, q) <= Far(s, b, x)

Layout(s, b) ==
  /\ b.free \in Places(s) /\ b.acquire \in Places(s) /\ b.full \in BOOLEAN
  /\ b.mem \in [0 .. s - 1 -> Items \cup {Junk} \cup HeaderRec]
  /\ Heads(s, b) \subseteq Places(s)
  /\ b.full => b.free = b.acquire /\ Heads(s, b) # {}
  /\ IF Heads(s, b) = {} THEN b.free = b.acquire ELSE b.free \in Heads(s, b)
  /\ \A p \in Heads(s, b) :
       p + Extent(b, p) <= s /\ Far(s, b, p) + Extent(b, p) <= Used(s, b) /\ Linked(s, b, p)

-------------------------------------------------------------------------------
(* The bytes of the item at p are those of its sender.                       *)
Contents(b, p) == \A o \in p + Header .. p + Header + b.mem[p].len - 1 : b.mem[o] = b.mem[p].item

(* A is the set of the items acquired and not completed.  They were not      *)
(* received, what was not received was not returned, and what is complete    *)
(* has its bytes.                                                            *)
EntryInv(s, b, A, r) ==
  \A p \in Entries(s, b) :
    /\ b.mem[p].item \in Items
    /\ Far(s, b, p) < r => p \notin A
    /\ Far(s, b, p) >= r => ~b.mem[p].freed
    /\ p \notin A => Contents(b, p)

(* A dummy, or the first part of a split item, has an item at pucHead after  *)
(* it, the other part.                                                       *)
WrapInv(s, b) ==
  \A p \in Heads(s, b) : b.mem[p].dummy \/ b.mem[p].split =>
    /\ 0 \in Entries(s, b) /\ Past(s, b, p) = 0 /\ Far(s, b, p) < Far(s, b, 0)
    /\ ~b.mem[p].dummy => b.mem[0].item = b.mem[p].item

(* The item at p, or the one at pucHead that the dummy at p stands for.      *)
First(b, p) == IF b.mem[p].dummy THEN 0 ELSE p

(* pucWrite is at an item that is not complete, or at pucAcquire; in a       *)
(* buffer that was full it may then be past items that are not complete.     *)
WriteInv(s, b, A) ==
  /\ b.write \in Heads(s, b) \cup {b.acquire}
  /\ A \subseteq Entries(s, b)
  /\ b.write # b.acquire => First(b, b.write) \in A

(* An offset x and a distance r name the same place.                         *)
Pointer(s, b, x, r) ==
  \/ r = Used(s, b) /\ x = b.acquire
  \/ x \in Heads(s, b) /\ r = Far(s, b, x)

WaitingItems(s, b, A, r) == {p \in Entries(s, b) \ A : Far(s, b, p) >= r}

(* pucRead has not passed the item that pucWrite is at.                      *)
NotPast(s, b, r) == b.write # b.acquire => r <= Far(s, b, b.write)

(* xItemsWaiting counts the complete items that were not received, and the   *)
(* oldest item was not returned.                                             *)
ReadInv(s, b, A, r) ==
  /\ Pointer(s, b, b.read, r) /\ NotPast(s, b, r)
  /\ b.waiting = Cardinality(WaitingItems(s, b, A, r))
  /\ r > 0 => ~b.mem[First(b, b.free)].freed

ReceivedItems(s, b, r) == {p \in Entries(s, b) : ~b.mem[p].freed /\ Far(s, b, p) < r}

HeldAt(b, p) == [at |-> p, item |-> b.mem[p].item, part |-> b.mem[p].part, len |-> b.mem[p].len]

BufInv(s, b, A, h, r) ==
  /\ EntryInv(s, b, A, r) /\ WriteInv(s, b, A) /\ ReadInv(s, b, A, r)
  /\ h = {HeldAt(b, p) : p \in ReceivedItems(s, b, r)}

-------------------------------------------------------------------------------
RangeOf(q) == {q[k] : k \in 1 .. Len(q)}

(* Items are acquired one after the other.                                   *)
SendingInv(s, b, q) ==
  \A j, k \in 1 .. Len(q) : j < k => Far(s, b, q[j]) < Far(s, b, q[k])

(* Completed in order, the items that are not complete are the last ones.    *)
OrderInv(s, b, A) ==
  \A p \in A : \A q \in Entries(s, b) : Far(s, b, p) <= Far(s, b, q) => q \in A

(* What depends on the kind of buffer and on how it is used.                 *)
UseInv(c, b, q, h) ==
  /\ c.kind = "allowsplit" => b.write = b.acquire /\ q = <<>>
  /\ c.kind = "nosplit" => \A p \in Entries(c.size, b) : b.mem[p].written <=> p \notin RangeOf(q)
  /\ c.inOrder => OrderInv(c.size, b, RangeOf(q))
  /\ b.full /\ b.read = b.acquire => Cardinality(h) <= 1

Fields == {"acquire", "write", "read", "free", "full", "waiting", "mem"}
Shape(b) == b = [x \in Fields |-> b[x]]

StateInv(c, b, q, h) ==
  /\ Shape(b) /\ Layout(c.size, b) /\ WrapInv(c.size, b) /\ q \in Seq(0 .. c.size - 1)
  /\ \E r \in 0 .. c.size : BufInv(c.size, b, RangeOf(q), h, r)
  /\ SendingInv(c.size, b, q)
  /\ UseInv(c, b, q, h)

IInv == config \in Configs /\ StateInv(config, rb, sending, held)

(* How a buffer may be used so that what the documentation says of it holds: *)
(* items are completed in the order they were acquired, or else none is      *)
(* received before it is complete; and nobody receives the last item of a    *)
(* full buffer while another one is held.                                    *)
SafeUse == \A c \in Configs : (c.inOrder \/ c.patient) /\ c.leavesLast
===============================================================================
