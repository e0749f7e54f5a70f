----------------------------- MODULE MCWL_Flash -----------------------------
(* Instances of WL_Flash for TLC.                                          *)
EXTENDS WL_FlashInv

AllPcs == Pcs

(* Everywhere but while state sector 1 is being replaced after a full turn. *)
OutsideWindow == Pcs \ ReplacePcs

(* Everywhere but where updateWL has already recorded the move.            *)
RetriedFaults == BusyPcs \ (WrapPcs \cup {"mv_rec2"})
=============================================================================
