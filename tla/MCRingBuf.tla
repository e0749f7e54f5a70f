------------------------------ MODULE MCRingBuf ------------------------------
(* Instances of RingBuf for TLC; items are interchangeable.                   *)
EXTENDS RingBufInv, TLC

Symmetry == Permutations(Items)

Config(kind, size, lengths, acquiring, maxHeld, inOrder, patient, leavesLast) ==
  [kind |-> kind, size |-> size, lengths |-> lengths, acquiring |-> acquiring,
   maxHeld |-> maxHeld, inOrder |-> inOrder,
   patient |-> patient, leavesLast |-> leavesLast]

(* No-split: items completed in any order, and in order.  Allow-split: items *)
(* that are split.                                                           *)
MCConfigs == {Config("nosplit", 20, {0, 1, 3, 6}, TRUE, 3, FALSE, TRUE, TRUE),
              Config("nosplit", 20, {0, 1, 3, 6}, TRUE, 3, TRUE, FALSE, TRUE),
              Config("allowsplit", 18, {0, 1, 5, 10}, FALSE, 3, TRUE, FALSE, TRUE)}

(* They are used as the proofs of RingBufProofs require.                     *)
ASSUME MCUse == SafeUse
===============================================================================
