------------------------------- MODULE RingFifo -------------------------------
(***************************************************************************)
(* What an item ring buffer promises (docs/en/api-reference/system/          *)
(* freertos_additions.rst and freertos/ringbuf.h): a strict FIFO of items.   *)
(* Space is acquired in order and may be filled in any order; an item is     *)
(* received only after all earlier ones, and only once it has been sent;     *)
(* received items are returned in any order.  An allow-split buffer may      *)
(* store an item in two parts.                                               *)
(***************************************************************************)
EXTENDS Naturals, Sequences

CONSTANT Items

VARIABLE fifo      \* the parts in the buffer, oldest first

Part(i, k, s) == [item |-> i, part |-> k, st |-> s]

Init == fifo = <<>>

Absent(i) == \A k \in DOMAIN fifo : fifo[k].item # i

Send(i) ==
  /\ Absent(i)
  /\ fifo' \in {Append(fifo, Part(i, 1, "sent")), fifo \o <<Part(i, 1, "sent"), Part(i, 2, "sent")>>}

SendAcquire(i) == Absent(i) /\ fifo' = Append(fifo, Part(i, 1, "acquired"))

SendComplete(k) == fifo[k].st = "acquired" /\ fifo' = [fifo EXCEPT ![k].st = "sent"]

(* The parts k .. l are received together.                                   *)
Receive(k, l) ==
  /\ \A j \in 1 .. k - 1 : fifo[j].st = "received"
  /\ \A j \in k .. l : fifo[j].st = "sent" /\ fifo[j].item = fifo[k].item
  /\ fifo' = [j \in DOMAIN fifo |-> IF j \in k .. l THEN [fifo[j] EXCEPT !.st = "received"] ELSE fifo[j]]

Return(k) ==
  /\ fifo[k].st = "received"
  /\ fifo' = SubSeq(fifo, 1, k - 1) \o SubSeq(fifo, k + 1, Len(fifo))

Next ==
  \/ \E i \in Items : Send(i) \/ SendAcquire(i)
  \/ \E k \in DOMAIN fifo : SendComplete(k) \/ Return(k)
  \/ \E k, l \in DOMAIN fifo : k <= l /\ Receive(k, l)

Spec == Init /\ [][Next]_fifo
===============================================================================
