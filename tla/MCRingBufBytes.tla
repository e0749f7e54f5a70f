--------------------------- MODULE MCRingBufBytes ---------------------------
(* An instance of RingBufBytes for TLC.                                       *)
EXTENDS RingBufBytes
===============================================================================
