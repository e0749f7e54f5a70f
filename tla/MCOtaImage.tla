------------------------------ MODULE MCOtaImage ------------------------------
(* Instances of OtaImage for TLC.                                             *)
EXTENDS OtaImage

Config(sectors, encrypted, sequential, padded, maxImage, maxWrite) ==
  [sectors |-> sectors, encrypted |-> encrypted, sequential |-> sequential,
   padded |-> padded, maxImage |-> maxImage, maxWrite |-> maxWrite]

(* Erasing ahead with and without encryption, and erasing all at the start.  *)
MCConfigs == {Config(3, TRUE, TRUE, TRUE, 23, 9),
              Config(3, FALSE, TRUE, FALSE, 23, 9),
              Config(2, TRUE, FALSE, FALSE, 16, 5),
              Config(2, FALSE, FALSE, FALSE, 9, 5)}
================================================================================
