----------------------------- MODULE RingBufBytes -----------------------------
(***************************************************************************)
(* A byte buffer of components/esp_ringbuf/ringbuf.c and its users.  Every   *)
(* action is one critical section.  The bytes sent are numbered modulo       *)
(* Numbers, which is more than the buffer holds, so that order, loss and     *)
(* duplication can be told.                                                  *)
(***************************************************************************)
EXTENDS RingBufOps

CONSTANT Numbers

ASSUME BytesAssumption == Kind = "byte" /\ Items = {} /\ Numbers \in Nat /\ Numbers > 2 * Size
ASSUME JunkIsNoByte == Junk \notin 0 .. Numbers - 1

VARIABLES
  rb,         \* the Ringbuffer_t
  sent,       \* number of the next byte to be sent
  received,   \* number of the next byte to be received
  held        \* bytes retrieved and not returned

vars == <<rb, sent, received, held>>

Plus(m, n) == IF m + n >= Numbers THEN m + n - Numbers ELSE m + n

TypeOK ==
  /\ rb \in [acquire : Offsets, write : Offsets, read : Offsets, free : Offsets,
             full : BOOLEAN, waiting : 0 .. Size,
             mem : [Offsets -> (0 .. Numbers - 1) \cup {Junk}]]
  /\ sent \in 0 .. Numbers - 1 /\ received \in 0 .. Numbers - 1
  /\ held \in 0 .. Size

Init == rb = NewRingbuffer /\ sent = 0 /\ received = 0 /\ held = 0

(* xRingbufferSend, xRingbufferSendFromISR; 0 bytes have no effect.          *)
Send(n) ==
  /\ n \in 1 .. MaxItemSize
  /\ CheckItemFits(rb, n)
  /\ rb' = CopyItemByteBuf(rb, n, LAMBDA k : Plus(sent, k))
  /\ sent' = Plus(sent, n)
  /\ UNCHANGED <<received, held>>

(* xRingbufferReceive (max = 0), xRingbufferReceiveUpTo, and from ISRs.      *)
Receive(max) ==
  /\ CheckItemAvail(rb)
  /\ rb' = GetBytes(rb, max)
  /\ held' = GetLen(rb, max)
  /\ received' = Plus(received, GetLen(rb, max))
  /\ UNCHANGED sent

(* vRingbufferReturnItem, vRingbufferReturnItemFromISR                       *)
Return ==
  /\ held > 0
  /\ rb' = ReturnItemByteBuf(rb)
  /\ held' = 0
  /\ UNCHANGED <<sent, received>>

Next == \/ \E n \in 1 .. Size : Send(n)
        \/ \E max \in 0 .. Size : Receive(max)
        \/ Return

Spec == Init /\ [][Next]_vars

-------------------------------------------------------------------------------
Used == held + rb.waiting

(* The pointers and the full flag say exactly how much is stored and where:  *)
(* a full buffer is never taken for an empty one or the other way round.     *)
SpaceExact ==
  /\ Used <= Size
  /\ rb.full <=> Used = Size
  /\ rb.read = Ahead(rb.free, held)
  /\ rb.acquire = Ahead(rb.free, Used) /\ rb.write = rb.acquire

(* A send is accepted exactly when its bytes fit in what is neither waiting  *)
(* nor held by the receiver, and GetCurFreeSize reports that number.         *)
FitsExactly ==
  /\ \A n \in 1 .. Size : CheckItemFits(rb, n) <=> n <= Size - Used
  /\ GetCurMaxSize(rb) = Size - Used

(* The bytes come out in the order they went in, none lost, none twice: the  *)
(* area from pucFree on holds the consecutive numbers up to the last sent,   *)
(* first those the receiver holds, in one contiguous piece.                  *)
ByteOrder ==
  /\ Plus(received, rb.waiting) = sent
  /\ rb.free + held <= Size
  /\ \A k \in 0 .. Used - 1 :
       Plus(rb.mem[Ahead(rb.free, k)], held) = Plus(received, k)
===============================================================================
