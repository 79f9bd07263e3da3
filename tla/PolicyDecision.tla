---------------------------- MODULE PolicyDecision ----------------------------
(***************************************************************************)
(* The decision primitive of src/policy.c, PolicyDecision: a deny flag and *)
(* a priority, and the reference reading of a policy the spec gives        *)
(* (section 8, priority monotonicity): the decision is that of the         *)
(* highest-priority matching rule, ties going to the rule declared last,   *)
(* and allow when no rule matches.  The policy modules extend it.          *)
(***************************************************************************)
EXTENDS Naturals, Sequences

(* PolicyDecision decision = {}: allow at priority 0. *)
NeutralDecision == [deny |-> FALSE, priority |-> 0]

(***************************************************************************)
(* The deny flag of the reference decision for a history "rules" (a        *)
(* sequence of records with fields deny and priority, in declaration       *)
(* order) and a request, given the rule-matches-request predicate.         *)
(***************************************************************************)
ReferenceDeny(rules, Matches(_)) ==
  LET M == {i \in DOMAIN rules : Matches(rules[i])}
      best == CHOOSE i \in M :
                \A j \in M : \/ rules[j].priority < rules[i].priority
                             \/ rules[j].priority = rules[i].priority /\ j <= i
  IN  IF M = {} THEN NeutralDecision.deny ELSE rules[best].deny

(* The caller's contract on the priorities it hands out: the loader's     *)
(* rule counter makes every priority of one document distinct.            *)
PriorityIsFresh(rules, priority) ==
  \A i \in DOMAIN rules : rules[i].priority # priority
=============================================================================
