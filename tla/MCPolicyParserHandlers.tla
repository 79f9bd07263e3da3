----------------------- MODULE MCPolicyParserHandlers -----------------------
(* Instantiates PolicyParserHandlers with the root element of a policy    *)
(* file, the three printed elements and one other (such as <limit>).      *)
EXTENDS PolicyParserHandlers

MCNames == {"busconfig", "policy", "deny", "allow", "limit"}
=============================================================================
