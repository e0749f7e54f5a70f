-------------------------------- MODULE RingBuf --------------------------------
(***************************************************************************)
(* A no-split or allow-split ring buffer and its users.  Every action is one *)
(* critical section of components/esp_ringbuf/ringbuf.c, so that tasks and   *)
(* interrupts (the FromISR functions do the same under the same spinlock)    *)
(* interleave in every order.  What the semaphores add is in RingBufTasks.   *)
(*                                                                           *)
(* Users keep the rules of ringbuf.h: SendComplete once for every acquired   *)
(* item, ReturnItem once for every received one.                             *)
(***************************************************************************)
EXTENDS Integers, Sequences, FiniteSets

CONSTANTS
  Header, Align,   \* rbHEADER_SIZE, rbALIGN_MASK + 1
  Items, Junk,
  Configs          \* the buffers, and the ways of using them, to look at

ASSUME HeaderAssumption ==
  Header \in Nat \ {0} /\ Align \in Nat \ {0} /\ Header % Align = 0
(* xRingbufferCreate rounds the size up to the alignment; xMaxItemSize needs *)
(* room for two headers.                                                     *)
ASSUME UseAssumption ==
  \A c \in Configs :
    /\ c.kind \in {"nosplit", "allowsplit"}
    /\ c.size \in Nat /\ c.size % Align = 0 /\ c.size >= 2 * Header
    /\ c.lengths \subseteq Nat /\ c.maxHeld \in Nat \ {0}
    /\ {c.acquiring, c.inOrder, c.patient, c.leavesLast} \subseteq BOOLEAN
    /\ c.acquiring => c.kind = "nosplit"

VARIABLE config   \* one of Configs; it never changes

Lengths == config.lengths       \* item lengths that are sent
Acquiring == config.acquiring   \* whether SendAcquire is used
MaxHeld == config.maxHeld       \* items the receivers hold at a time
InOrder == config.inOrder       \* whether items are completed in the order they were acquired
Patient == config.patient       \* whether receivers leave an item until it is complete
LeavesLast == config.leavesLast \* whether a full buffer is not received to the end by who holds another item

INSTANCE RingBufOps WITH Kind <- config.kind, Size <- config.size

VARIABLES
  rb,        \* the Ringbuffer_t
  sending,   \* headers of items acquired and not completed, oldest first
  held       \* items received and not returned: header, item, part, length

vars == <<config, rb, sending, held>>

Held(p) == [at |-> p, item |-> HeaderAt(rb, p).item, part |-> HeaderAt(rb, p).part,
            len |-> HeaderAt(rb, p).len]

InUse == {rb.mem[o].item : o \in {p \in Offsets : HasHeader(rb, p)}} \cup {h.item : h \in held}

TypeOK ==
  /\ config \in Configs
  /\ {rb.acquire, rb.write, rb.read, rb.free} \subseteq {o \in Offsets : o % Align = 0}
  /\ rb.waiting \in 0 .. config.size \div Header
  /\ sending \in Seq(Offsets)
  /\ \A h \in held : h.at \in Offsets /\ h.item \in Items /\ h.len \in 0 .. MaxItemSize

Init == config \in Configs /\ rb = NewRingbuffer /\ sending = <<>> /\ held = {}

-------------------------------------------------------------------------------
(* xRingbufferSend, xRingbufferSendFromISR                                   *)
Send(i, n) ==
  /\ InOrder => sending = <<>>
  /\ i \notin InUse /\ n <= MaxItemSize
  /\ CheckItemFits(rb, n)
  /\ rb' = IF config.kind = "nosplit" THEN CopyItemNoSplit(rb, i, n) ELSE CopyItemAllowSplit(rb, i, n)
  /\ UNCHANGED <<sending, held>>

(* xRingbufferSendAcquire                                                    *)
SendAcquire(i, n) ==
  /\ Acquiring
  /\ i \notin InUse /\ n <= MaxItemSize
  /\ CheckItemFits(rb, n)
  /\ rb' = AcquireItem(rb, i, n)
  /\ sending' = Append(sending, AcquireStart(rb, n))
  /\ UNCHANGED held

(* xRingbufferSendComplete                                                   *)
SendComplete(k) ==
  /\ InOrder => k = 1
  /\ rb' = SendItemDone(rb, sending[k])
  /\ sending' = SubSeq(sending, 1, k - 1) \o SubSeq(sending, k + 1, Len(sending))
  /\ UNCHANGED held

(* xRingbufferReceive, xRingbufferReceiveFromISR: one item, or one part.     *)
Receive ==
  /\ Cardinality(held) < MaxHeld
  /\ CheckItemAvail(rb)
  /\ Patient => \A k \in DOMAIN sending : sending[k] # GetItemStart(rb)
  /\ held' = held \cup {Held(GetItemStart(rb))}
  /\ rb' = GetItem(rb)
  /\ LeavesLast /\ rb.full /\ rb'.read = rb.acquire => held = {}
  /\ UNCHANGED sending

(* xRingbufferReceiveSplit, xRingbufferReceiveSplitFromISR, for an item in   *)
(* two parts; for a whole one they do what Receive does.                     *)
ReceiveSplit ==
  /\ config.kind = "allowsplit" /\ Cardinality(held) < MaxHeld
  /\ CheckItemAvail(rb) /\ HeaderAt(rb, GetItemStart(rb)).split
  /\ held' = held \cup {Held(GetItemStart(rb)), Held(GetItemStart(GetItem(rb)))}
  /\ rb' = GetItem(GetItem(rb))
  /\ LeavesLast => ~(rb.full /\ rb'.read = rb.acquire)
  /\ UNCHANGED sending

(* vRingbufferReturnItem, vRingbufferReturnItemFromISR                       *)
Return(h) ==
  /\ h \in held
  /\ rb' = ReturnItemDefault(rb, h.at)
  /\ held' = held \ {h}
  /\ UNCHANGED sending

Next ==
  /\ UNCHANGED config
  /\ \/ \E i \in Items, n \in Lengths : Send(i, n) \/ SendAcquire(i, n)
     \/ \E k \in DOMAIN sending : SendComplete(k)
     \/ Receive \/ ReceiveSplit
     \/ \E h \in held : Return(h)

Spec == Init /\ [][Next]_vars

-------------------------------------------------------------------------------
(* The headers of the items that were not returned, oldest first, read from  *)
(* pucFree to pucAcquire header by header.                                   *)
Live ==
  LET chain[n \in Nat] ==                    \* n bounds the walk
        [p \in Offsets |->
           LET h == HeaderAt(rb, p)
               q == PastItem(rb, p)
           IN  (IF h.dummy \/ h.freed THEN <<>> ELSE <<p>>)
               \o (IF n = 0 \/ q = rb.acquire THEN <<>> ELSE chain[n - 1][q])]
  IN  IF rb.free = rb.acquire /\ ~rb.full THEN <<>> ELSE chain[config.size][rb.free]

Status(p) ==
  IF \E h \in held : h.at = p THEN "received"
  ELSE IF \E k \in DOMAIN sending : sending[k] = p THEN "acquired" ELSE "sent"

Stored ==
  [k \in DOMAIN Live |-> [item |-> HeaderAt(rb, Live[k]).item, part |-> HeaderAt(rb, Live[k]).part,
                          st |-> Status(Live[k])]]

Fifo == INSTANCE RingFifo WITH fifo <- Stored

(* The storage area, its headers and pointers behave as the strict FIFO that *)
(* the documentation describes, with items filled and returned in any order  *)
(* and dummy items and splits at the end of the buffer.                      *)
ImplementsFifo == Fifo!Spec

(* An item in the hands of a receiver is what its sender wrote: it was not   *)
(* handed out before it was complete, and its space is not handed out again  *)
(* before it is returned.                                                    *)
Intact ==
  \A h \in held :
    /\ HeaderAt(rb, h.at).item = h.item
    /\ \A o \in h.at + Header .. h.at + Header + h.len - 1 : rb.mem[o] = h.item

(* In whatever order items are completed: if the oldest item that was not    *)
(* received has been sent, xItemsWaiting, the pointers and the full flag     *)
(* tell so; and they offer nothing when nothing has been sent.  That what is *)
(* offered is complete is only true when items are completed in order: else  *)
(* a younger item that was sent is counted while the oldest is not complete. *)
AvailableExactly ==
  LET sent == {k \in DOMAIN Stored : Stored[k].st = "sent"}
      next == {k \in sent : \A j \in 1 .. k - 1 : Stored[j].st = "received"}
  IN  /\ next # {} => CheckItemAvail(rb)
      /\ CheckItemAvail(rb) => sent # {}
      /\ InOrder /\ CheckItemAvail(rb) => next # {}

(* xRingbufferGetCurFreeSize: an item of the reported size can be sent; in a *)
(* no-split buffer a larger one cannot.  When everything was returned, all   *)
(* of the space is free again.                                               *)
CurFreeSizeTrue ==
  /\ Stored = <<>> => GetFreeSize(rb) = config.size
  /\ GetCurMaxSize(rb) > 0 => CheckItemFits(rb, GetCurMaxSize(rb))
  /\ config.kind = "nosplit" =>
       \A n \in GetCurMaxSize(rb) + 1 .. MaxItemSize : ~CheckItemFits(rb, n)
===============================================================================
