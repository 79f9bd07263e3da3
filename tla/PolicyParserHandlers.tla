------------------------- MODULE PolicyParserHandlers -------------------------
(***************************************************************************)
(* The expat element handlers of src/policy.c (policy_parser_handler_start *)
(* and _end with the policy / deny / allow printers).  Each call of        *)
(* policy_parse starts from POLICY_PARSER_NULL, so level = 0 and           *)
(* needs_linebreak = FALSE.  expat calls the start handler for each start  *)
(* tag and the end handler for each end tag of a well-formed document; the *)
(* model keeps expat's stack of open elements ("open") to generate only    *)
(* those event sequences: one root element, end tags matching start tags,  *)
(* nothing after the root is closed.                                       *)
(*                                                                         *)
(* What the handlers print is a sequence of lines, kept as tokens:         *)
(* "blank" (the "\n" of needs_linebreak), "policy" ("<policy ...>"),      *)
(* "deny" / "allow" (a rule header with its attribute lines) and          *)
(* "/policy".  The attributes themselves are left out.                    *)
(***************************************************************************)
EXTENDS Naturals, Sequences

CONSTANTS
  Names,        \* element names the document may use
  MaxElements   \* bound: start tags in the document

ASSUME /\ {"policy", "deny", "allow"} \subseteq Names
       /\ MaxElements \in Nat

VARIABLES
  level,            \* parser->level
  needs_linebreak,  \* parser->needs_linebreak
  out,              \* the lines printed to stderr, as tokens
  open,             \* expat: the names of the open elements, outermost first
  started           \* expat: start tags reported so far

vars == <<level, needs_linebreak, out, open, started>>

Token == {"blank", "policy", "deny", "allow", "/policy"}

-----------------------------------------------------------------------------
(* The "\n" printed first when needs_linebreak is set. *)
Linebreak == IF needs_linebreak THEN <<"blank">> ELSE <<>>

(* policy_parser_handler_policy: "<policy ...>" on a line of its own. *)
policy_parser_handler_policy ==
  /\ out' = out \o Linebreak \o <<"policy">>
  /\ needs_linebreak' = FALSE

(* policy_parser_handler_deny / _allow: the rule's header and attributes. *)
policy_parser_handler_rule(name) ==
  /\ out' = out \o Linebreak \o <<name>>
  /\ needs_linebreak' = TRUE

(* Mutant: the level counted only for the elements that are printed. *)
handler_start_counting_printed_only(name) ==
  IF \/ level = 1 /\ name = "policy"
     \/ level = 2 /\ name \in {"deny", "allow"}
  THEN /\ level' = level + 1
       /\ IF name = "policy" THEN policy_parser_handler_policy
          ELSE policy_parser_handler_rule(name)
  ELSE UNCHANGED <<level, out, needs_linebreak>>

(***************************************************************************)
(* policy_parser_handler_start: switch on the level before the increment; *)
(* a <policy> at level 1 and a <deny> / <allow> at level 2 are printed,    *)
(* any other element only counts.                                          *)
(***************************************************************************)
policy_parser_handler_start(name) ==
  /\ level' = level + 1
  /\ IF \/ level = 1 /\ name = "policy"
        \/ level = 2 /\ name \in {"deny", "allow"}
     THEN IF name = "policy" THEN policy_parser_handler_policy
          ELSE policy_parser_handler_rule(name)
     ELSE UNCHANGED <<out, needs_linebreak>>

(* Mutant: the strcmp(name, "policy") of the end handler dropped. *)
handler_end_any_name(name) ==
  /\ level' = level - 1
  /\ IF level - 1 = 1
     THEN out' = out \o <<"/policy">> /\ needs_linebreak' = TRUE
     ELSE UNCHANGED <<out, needs_linebreak>>

(* policy_parser_handler_end: "</policy>" when a level-1 policy closes. *)
policy_parser_handler_end(name) ==
  /\ level' = level - 1
  /\ IF level - 1 = 1 /\ name = "policy"
     THEN out' = out \o <<"/policy">> /\ needs_linebreak' = TRUE
     ELSE UNCHANGED <<out, needs_linebreak>>

-----------------------------------------------------------------------------
(* policy_parse: policy_parser_init on PolicyParser parser = NULL. *)
Init ==
  /\ level = 0
  /\ needs_linebreak = FALSE
  /\ out = <<>>
  /\ open = <<>>
  /\ started = 0

(* expat reports a start tag: inside the root, or the root itself. *)
StartElement(name) ==
  /\ started < MaxElements
  /\ open # <<>> \/ started = 0
  /\ policy_parser_handler_start(name)
  /\ open' = Append(open, name)
  /\ started' = started + 1

(* expat reports the end tag of the innermost open element. *)
EndElement ==
  /\ open # <<>>
  /\ policy_parser_handler_end(open[Len(open)])
  /\ open' = SubSeq(open, 1, Len(open) - 1)
  /\ UNCHANGED started

(* Once the root element is closed no handler runs again: the model stops. *)
Next == (\E name \in Names : StartElement(name)) \/ EndElement

Spec == Init /\ [][Next]_vars

-----------------------------------------------------------------------------
TypeOK ==
  /\ level \in Nat
  /\ needs_linebreak \in BOOLEAN
  /\ out \in Seq(Token)
  /\ open \in Seq(Names)
  /\ started \in 0..MaxElements

(* The printed lines of one kind. *)
Count(tokens, t) == Len(SelectSeq(tokens, LAMBDA x : x = t))

(***************************************************************************)
(* The listing's <policy> blocks are balanced: in every prefix of what the *)
(* handlers printed, "</policy>" lines never outnumber "<policy" lines,    *)
(* and at most one block is open; once the document is over every block    *)
(* is closed.  The start handler prints by the level before its increment, *)
(* the end handler by the level after its decrement and the name.          *)
(***************************************************************************)
PolicyListingBalanced ==
  /\ \A k \in 0..Len(out) :
       LET pre == SubSeq(out, 1, k)
       IN  Count(pre, "policy") - Count(pre, "/policy") \in {0, 1}
  /\ (started > 0 /\ open = <<>>) =>
       Count(out, "policy") = Count(out, "/policy")

=============================================================================
