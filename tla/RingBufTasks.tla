----------------------------- MODULE RingBufTasks -----------------------------
(***************************************************************************)
(* Tasks that block in the functions of components/esp_ringbuf/ringbuf.c.    *)
(* The buffer is governed by two binary semaphores: TransSem is given when   *)
(* space is freed or left, RecvSem when an item arrives or is left.  A call  *)
(* takes its semaphore, tries inside the critical section, and on failure    *)
(* waits for the semaphore again until its ticks have passed.  Giving        *)
(* happens after the critical section, in steps of its own.                  *)
(*                                                                           *)
(* Items are not told apart here: cell contents are the sending task.        *)
(***************************************************************************)
EXTENDS RingBufOps, FiniteSets

CONSTANTS
  Senders, Receivers,
  Teams,         \* who uses a buffer together, and how many calls may time out (a bound)
  Lengths,       \* item lengths that are sent
  Isr,           \* whether an interrupt sends too
  MaxSends       \* bound: sends in a behaviour

ASSUME TasksAssumption ==
  /\ Senders \cap Receivers = {} /\ Senders = Items
  /\ \A m \in Teams : m.tasks \subseteq Senders \cup Receivers /\ m.timeouts \in Nat
  /\ Lengths \subseteq 1 .. MaxItemSize /\ Isr \in BOOLEAN
  /\ MaxSends \in Nat

VARIABLES
  team,                \* one of Teams; it never changes
  rb,
  transSem, recvSem,   \* whether each semaphore is available
  call,                \* each task's call: where it is, the length, the semaphores to give
  got,                 \* each receiver: the headers it has not returned
  isr,                 \* semaphores an interrupt has still to give
  sends, timeouts

vars == <<team, rb, transSem, recvSem, call, got, isr, sends, timeouts>>
Tasks == Senders \cup Receivers

Idle == [pc |-> "idle", len |-> 0, give |-> {}]

TypeOK ==
  /\ team \in Teams
  /\ {rb.acquire, rb.write, rb.read, rb.free} \subseteq Offsets /\ rb.waiting \in 0 .. Size
  /\ transSem \in BOOLEAN /\ recvSem \in BOOLEAN
  /\ call \in [Tasks -> [pc : {"idle", "take", "crit", "give"}, len : 0 .. Size,
                         give : SUBSET {"trans", "recv"}]]
  /\ got \in [Receivers -> SUBSET Offsets]
  /\ isr \in SUBSET {"trans", "recv"}
  /\ sends \in 0 .. MaxSends /\ timeouts \in 0 .. team.timeouts

Init ==
  /\ team \in Teams
  /\ rb = NewRingbuffer /\ transSem = TRUE /\ recvSem = FALSE
  /\ call = [t \in Tasks |-> Idle] /\ got = [r \in Receivers |-> {}]
  /\ isr = {} /\ sends = 0 /\ timeouts = 0

Copy(b, t, n) ==
  CASE Kind = "nosplit"    -> CopyItemNoSplit(b, t, n)
    [] Kind = "allowsplit" -> CopyItemAllowSplit(b, t, n)
    [] Kind = "byte"       -> CopyItemByteBuf(b, n, LAMBDA k : t)

-------------------------------------------------------------------------------
(* Mutant: only the receiver is notified.                                    *)
AfterSendRecvOnly(b) == {"recv"}

(* The semaphores that xRingbufferSend gives after it has stored an item.    *)
AfterSend(b) == {"recv"} \cup (IF GetFreeSize(b) > 0 THEN {"trans"} ELSE {})

(* Mutant: the semaphore is given back when the buffer is empty only.        *)
AfterReceiveLast(b) == IF b.waiting = 0 THEN {"recv"} ELSE {}

(* The semaphore that prvReceiveGeneric gives back.                          *)
AfterReceive(b) == IF b.waiting > 0 THEN {"recv"} ELSE {}

(* xRingbufferSend and xRingbufferReceive are called.                        *)
BeginSend(t, n) ==
  /\ t \in team.tasks /\ call[t] = Idle /\ sends < MaxSends
  /\ call' = [call EXCEPT ![t].pc = "take", ![t].len = n]
  /\ sends' = sends + 1
  /\ UNCHANGED <<team, rb, transSem, recvSem, got, isr, timeouts>>

BeginReceive(r) ==
  /\ r \in team.tasks /\ call[r] = Idle /\ got[r] = {}
  /\ call' = [call EXCEPT ![r].pc = "take"]
  /\ UNCHANGED <<team, rb, transSem, recvSem, got, isr, sends, timeouts>>

TakeTrans(t) ==
  /\ t \in Senders /\ call[t].pc = "take"
  /\ transSem /\ transSem' = FALSE
  /\ call' = [call EXCEPT ![t].pc = "crit"]
  /\ UNCHANGED <<team, rb, recvSem, got, isr, sends, timeouts>>

TakeRecv(r) ==
  /\ r \in Receivers /\ call[r].pc = "take"
  /\ recvSem /\ recvSem' = FALSE
  /\ call' = [call EXCEPT ![r].pc = "crit"]
  /\ UNCHANGED <<team, rb, transSem, got, isr, sends, timeouts>>

(* The critical section of xRingbufferSend, when the item fits.              *)
SendFits(t) ==
  /\ t \in Senders /\ call[t].pc = "crit"
  /\ CheckItemFits(rb, call[t].len)
  /\ rb' = Copy(rb, t, call[t].len)
  /\ call' = [call EXCEPT ![t].pc = "give", ![t].give = AfterSend(rb')]
  /\ UNCHANGED <<team, transSem, recvSem, got, isr, sends, timeouts>>

(* The critical section of prvReceiveGeneric, when there is an item.         *)
ReceiveGets(r) ==
  /\ r \in Receivers /\ call[r].pc = "crit"
  /\ CheckItemAvail(rb)
  /\ IF Kind = "byte"
     THEN rb' = GetBytes(rb, 0) /\ got' = [got EXCEPT ![r] = {rb.read}]
     ELSE IF HeaderAt(rb, GetItemStart(rb)).split
     THEN /\ rb' = GetItem(GetItem(rb))
          /\ got' = [got EXCEPT ![r] = {GetItemStart(rb), GetItemStart(GetItem(rb))}]
     ELSE rb' = GetItem(rb) /\ got' = [got EXCEPT ![r] = {GetItemStart(rb)}]
  /\ call' = [call EXCEPT ![r].pc = "give", ![r].give = AfterReceive(rb')]
  /\ UNCHANGED <<team, transSem, recvSem, isr, sends, timeouts>>

(* The critical sections when the item does not fit or there is none: wait   *)
(* for the semaphore again.                                                  *)
TryAgain(t) ==
  /\ call[t].pc = "crit"
  /\ IF t \in Senders THEN ~CheckItemFits(rb, call[t].len) ELSE ~CheckItemAvail(rb)
  /\ call' = [call EXCEPT ![t].pc = "take"]
  /\ UNCHANGED <<team, rb, transSem, recvSem, got, isr, sends, timeouts>>

(* The ticks run out while the task waits, or have run out when it finds     *)
(* that its attempt failed: then the semaphore it took is not given back.    *)
TimeOut(t) ==
  /\ timeouts < team.timeouts
  /\ \/ call[t].pc = "take" /\ (IF t \in Senders THEN ~transSem ELSE ~recvSem)
     \/ call[t].pc = "crit" /\ (IF t \in Senders THEN ~CheckItemFits(rb, call[t].len)
                                ELSE ~CheckItemAvail(rb))
  /\ call' = [call EXCEPT ![t] = Idle]
  /\ timeouts' = timeouts + 1
  /\ UNCHANGED <<team, rb, transSem, recvSem, got, isr, sends>>

(* Give one of the semaphores that are due; the call returns with the last.  *)
Give(t) ==
  /\ call[t].pc = "give"
  /\ LET due == call[t].give
     IN  /\ transSem' = (transSem \/ "trans" \in due)
         /\ IF due = {"trans", "recv"}
            THEN call' = [call EXCEPT ![t].give = {"recv"}] /\ UNCHANGED recvSem
            ELSE call' = [call EXCEPT ![t] = Idle] /\ recvSem' = (recvSem \/ "recv" \in due)
  /\ UNCHANGED <<team, rb, got, isr, sends, timeouts>>

(* Mutant: the receivers are notified instead of the senders.                *)
AfterReturnRecv == {"recv"}

(* The semaphore given when an item has been returned.                       *)
AfterReturn == {"trans"}

(* vRingbufferReturnItem: one item, then TransSem.                           *)
Return(r, p) ==
  /\ call[r] = Idle /\ p \in got[r]
  /\ rb' = IF Kind = "byte" THEN ReturnItemByteBuf(rb) ELSE ReturnItemDefault(rb, p)
  /\ got' = [got EXCEPT ![r] = @ \ {p}]
  /\ call' = [call EXCEPT ![r].pc = "give", ![r].give = AfterReturn]
  /\ UNCHANGED <<team, transSem, recvSem, isr, sends, timeouts>>

(* xRingbufferSendFromISR: no semaphore is taken, the same ones are given.   *)
SendFromISR(t, n) ==
  /\ Isr /\ isr = {} /\ t \in team.tasks /\ sends < MaxSends
  /\ CheckItemFits(rb, n)
  /\ rb' = Copy(rb, t, n) /\ isr' = AfterSend(rb')
  /\ sends' = sends + 1
  /\ UNCHANGED <<team, transSem, recvSem, call, got, timeouts>>

GiveFromISR ==
  /\ isr # {}
  /\ transSem' = (transSem \/ "trans" \in isr) /\ recvSem' = (recvSem \/ "recv" \in isr)
  /\ isr' = {}
  /\ UNCHANGED <<team, rb, call, got, sends, timeouts>>

Runs(t)  == SendFits(t) \/ TryAgain(t) \/ Give(t)
            \/ (t \in Receivers /\ (ReceiveGets(t) \/ \E p \in Offsets : Return(t, p)))
Takes(t) == TakeTrans(t) \/ TakeRecv(t)

Next ==
  \/ \E t \in Tasks : Runs(t) \/ Takes(t) \/ TimeOut(t)
  \/ \E t \in Senders, n \in Lengths : BeginSend(t, n) \/ SendFromISR(t, n)
  \/ \E r \in Receivers : BeginReceive(r)
  \/ GiveFromISR

Spec == Init /\ [][Next]_vars

GoesOn ==
  \/ \E t \in Tasks : Runs(t) \/ Takes(t)
  \/ \E r \in Receivers : BeginReceive(r)
  \/ GiveFromISR

(* The scheduler does not idle while some task or interrupt can go on, and   *)
(* receivers come back for more.                                             *)
FairSpec == Spec /\ WF_vars(GoesOn)

-------------------------------------------------------------------------------
(* Nobody can go on: every call waits for a semaphore that is not given.     *)
Quiet ==
  /\ isr = {}
  /\ \A t \in Senders : call[t].pc = "idle" \/ (call[t].pc = "take" /\ ~transSem)
  /\ \A r \in Receivers : call[r].pc = "idle" \/ (call[r].pc = "take" /\ ~recvSem)

Waiting(t) == call[t].pc = "take"

(* No wake-up of a receiver is lost: a receiver does not sleep while there   *)
(* is an item it could have.                                                 *)
NoItemMissed == Quiet /\ (\E r \in Receivers : Waiting(r)) => ~CheckItemAvail(rb)

(* Nor of a sender: the only task that waits to send does not sleep while    *)
(* its item fits.  (Of several, the documentation promises this to the one   *)
(* with the highest priority only; and a sender that times out takes the     *)
(* wake-up with it.)                                                         *)
NoSpaceMissed ==
  Quiet /\ timeouts = 0 =>
    \A t \in Senders :
      {u \in Senders : Waiting(u)} = {t} => ~CheckItemFits(rb, call[t].len)

(* Every send that may wait for ever is done in the end, as long as          *)
(* receivers keep receiving and returning.                                   *)
SendsEnd ==
  \A t \in Senders : (call[t].pc # "idle") ~> (call[t].pc = "idle" \/ timeouts > 0)
===============================================================================
