------------------------------ MODULE MCWL_Api ------------------------------
(* An instance of WL_Api for TLC: three tasks and three partitions for two    *)
(* entries of the table.                                                      *)
EXTENDS WL_Api
===============================================================================
