--------------------------------- MODULE MCOta ---------------------------------
(* Instances of Ota for TLC.                                                  *)
EXTENDS OtaInv

Config(n, factory, rollback, antiRollback, liberties, maxVersion, maxSeq) ==
  [n |-> n, factory |-> factory, rollback |-> rollback, antiRollback |-> antiRollback,
   liberties |-> liberties, maxVersion |-> maxVersion, maxSeq |-> maxSeq]

(* Applications that follow the procedure of the docs, on every kind of      *)
(* build, and applications that do not.                                      *)
MCConfigs ==
  {Config(2, TRUE, TRUE, FALSE, {}, 0, 5),
   Config(3, FALSE, TRUE, FALSE, {}, 0, 7),
   Config(2, FALSE, TRUE, TRUE, {}, 2, 5),
   Config(2, FALSE, FALSE, FALSE, {"set_again"}, 0, 3),
   Config(2, FALSE, TRUE, FALSE, {"set_again", "invalidate", "erase_early"}, 0, 2),
   Config(2, FALSE, TRUE, FALSE, {"rewrite", "confirm_late", "invalidate", "erase_early"}, 0, 3),
   Config(2, TRUE, TRUE, FALSE, {"factory", "confirm_late", "invalidate", "erase_early"}, 0, 3)}
================================================================================
