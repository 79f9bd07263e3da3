--------------------------- MODULE MCPolicyParser ---------------------------
(* Instantiates PolicyParser with a two-unit buffer and every file of up   *)
(* to five units: empty, shorter than, equal to and a multiple of the     *)
(* buffer, with a bad unit in any chunk, complete or not.                  *)
EXTENDS PolicyParser

MCDocuments == [units : UNION {[1..k -> {"ok", "bad"}] : k \in 0..5},
                complete : BOOLEAN]
=============================================================================
