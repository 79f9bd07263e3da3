------------------------ MODULE MCTransmissionPolicy ------------------------
(* Instantiates TransmissionPolicy with one peer name besides the        *)
(* driver's, one value per string field and two message types.           *)
EXTENDS TransmissionPolicy

MCBusNames == {DriverName, "com.example"}

MCValues == {"v"}

MCEntryTypes == {0, 1}

(* Rules set no field or exactly one of the four. *)
MCRuleFields ==
  {[f \in Fields |-> NULL]} \cup
  {[f \in Fields |-> IF f = g THEN "v" ELSE NULL] : g \in Fields}

(* Requests: every field "v" or absent, type 1 or 2. *)
MCRequests == [Fields -> MCValues \cup {NULL}] \X {1, 2}

(* The driver, a peer owning nothing, and a peer that is the primary      *)
(* resp. a queued (secondary) owner of com.example.                       *)
MCSubjects == {Driver, <<>>,
               <<[name |-> "com.example", primary |-> TRUE]>>,
               <<[name |-> "com.example", primary |-> FALSE]>>}

MCPriorities == 1..2
=============================================================================
