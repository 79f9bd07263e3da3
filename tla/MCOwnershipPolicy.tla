-------------------------- MODULE MCOwnershipPolicy --------------------------
(* Instantiates OwnershipPolicy over short names from the alphabet        *)
(* {a, b, .}: enough for "a.b" against "ab", "a.bb" and "a..b".           *)
EXTENDS OwnershipPolicy

Alphabet == {"a", "b", "."}

(* Rule keys: a name, a dotted extension of it, and a non-dotted one. *)
MCKeys == {<<"a">>, <<"a", ".", "b">>, <<"a", "b">>}

(* The names asked about: every non-empty name of up to four bytes, so   *)
(* each key is met with every byte or dotted byte after it.               *)
MCQueryNames == UNION {[1..k -> Alphabet] : k \in 1..4}

MCPriorities == 1..3
=============================================================================
