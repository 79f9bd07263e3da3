------------------------------ MODULE MCFDListTest ------------------------------
(* Instantiates FDListTest with a limit of ten descriptors, so the test's *)
(* eight dummy numbers are all descriptors the process may hold, and      *)
(* every inherited table over them is an initial state: holes above the   *)
(* lowest free descriptor, a table full up to the limit, stdin closed.    *)
EXTENDS FDListTest
================================================================================
