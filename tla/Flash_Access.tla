----------------------------- MODULE Flash_Access -----------------------------
(***************************************************************************)
(* The promise of the Flash_Access interface to its user, as the callers of  *)
(* wl_erase_range, wl_write and wl_unmount rely on it: an array of pages.    *)
(* A call works through its range page by page, in order.  A call that is    *)
(* cut short, by an error or by the loss of power, leaves the pages it has   *)
(* passed as they should be, the page it was at as it was or spoiled, and    *)
(* every other page untouched.                                               *)
(***************************************************************************)
EXTENDS Integers, FlashCells

CONSTANT Addr        \* the pages the user sees

VARIABLES
  contents,          \* what each page reads as
  call               \* the call in progress, with the page it is at

Idle == [kind |-> "none", addr |-> 0, last |-> 0, val |-> Erased]

Init == contents \in [Addr -> Content] /\ call = Idle

Begin ==
  /\ call = Idle
  /\ \/ \E a, b \in Addr : call' = [kind |-> "erase", addr |-> a, last |-> b, val |-> Erased]
     \/ \E a, b \in Addr, v \in Values :
          call' = [kind |-> "write", addr |-> a, last |-> b, val |-> v]
     \/ call' = [Idle EXCEPT !.kind = "flush"]
  /\ UNCHANGED contents

Advance == call' = IF call.addr < call.last THEN [call EXCEPT !.addr = @ + 1] ELSE Idle

ErasePage ==
  /\ call.kind = "erase"
  /\ contents' = [contents EXCEPT ![call.addr] = Erased]
  /\ Advance

WritePage ==
  /\ call.kind = "write"
  /\ contents' = [contents EXCEPT ![call.addr] = Program(@, call.val)]
  /\ Advance

Abort ==
  /\ call.kind \in {"erase", "write"}
  /\ \/ UNCHANGED contents
     \/ contents' = [contents EXCEPT ![call.addr] = Garbage]
  /\ call' = Idle

EndFlush == call.kind = "flush" /\ call' = Idle /\ UNCHANGED contents

Next == Begin \/ ErasePage \/ WritePage \/ Abort \/ EndFlush

Spec == Init /\ [][Next]_<<contents, call>>
===============================================================================
