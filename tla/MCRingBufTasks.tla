--------------------------- MODULE MCRingBufTasks ---------------------------
(* Instances of RingBufTasks for TLC.                                         *)
EXTENDS RingBufTasks

CONSTANTS s1, s2, r1, r2

(* Two tasks that send and one that receives, the other way round, and one of *)
(* each that may give up.                                                     *)
MCTeams == {[tasks |-> {s1, s2, r1}, timeouts |-> 0],
            [tasks |-> {s1, r1, r2}, timeouts |-> 0],
            [tasks |-> {s1, r1}, timeouts |-> 1]}
===============================================================================
