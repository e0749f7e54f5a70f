------------------------------- MODULE MCWL_Ext -------------------------------
(* Instances of WL_Ext for TLC.                                              *)
EXTENDS WL_Ext

Config(mode, sectors, cuts, errors) ==
  [mode |-> mode, sectors |-> sectors, powerFails |-> cuts, faults |-> errors]

(* Performance mode with an error of the flash, safety mode with a loss of   *)
(* power.                                                                    *)
MCConfigs == {Config("perf", 3, 0, 1), Config("safe", 4, 1, 0)}

SafeConfigs == {Config("safe", 4, 1, 0)}
===============================================================================
