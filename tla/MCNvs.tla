-------------------------------- MODULE MCNvs --------------------------------
(* Instances of Nvs: an integer and a string with two losses of power, an    *)
(* integer and a blob with one, a blob alone with two.                       *)
EXTENDS Nvs

Config(type, values, ns, maxCuts) ==
  [type |-> [a |-> "U", b |-> type], values |-> [a |-> values, b |-> {1, 2}], size |-> <<3, 2>>,
   ns |-> ns, hash |-> [k \in Keys |-> k], maxCuts |-> maxCuts]

MCKeys == {"a", "b"}

MCConfigs == {Config("SZ", {1}, {"b"}, 2), Config("BLOB", {1}, {}, 1), Config("BLOB", {}, {"b"}, 2)}

(* No loss of power: a blob is updated until there is no room.               *)
FullConfigs == {Config("BLOB", {1, 2}, {}, 0)}
===============================================================================
