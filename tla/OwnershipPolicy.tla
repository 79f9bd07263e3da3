--------------------------- MODULE OwnershipPolicy ---------------------------
(***************************************************************************)
(* The ownership policy of src/policy.c: which peer may own which bus      *)
(* name.  The policy keeps a wildcard decision and two red-black trees of  *)
(* entries keyed by name: "names" (exact names) and "prefixes" (dotted     *)
(* prefixes).  Each tree is modelled as the set of its entries; a lookup   *)
(* is the set of entries the tree's comparator reports equal, so a broken  *)
(* comparator shows up as a wrong lookup.                                  *)
(*                                                                         *)
(* A bus name is a sequence of one-character strings.  This is the one     *)
(* place where the model keeps names as strings: the prefix scan of        *)
(* ownership_policy_check_allowed works byte by byte, and what a property  *)
(* must tell apart is "a.b" from "a.bc" and "ab".                          *)
(*                                                                         *)
(* The variable "rules" is a history variable: the sequence of rules the   *)
(* caller handed to the policy since it was last initialised.  No code     *)
(* keeps it; the properties compare the code's decision with the decision  *)
(* of the spec's reference rule computed from it.                          *)
(***************************************************************************)
EXTENDS PolicyDecision, SequencesExt, FiniteSets

CONSTANTS
  Keys,               \* names and prefixes the caller adds rules for
  QueryNames,         \* the (non-empty) names the check is asked about
  Priorities,         \* the priorities the caller hands out
  MaxRules,           \* bound: rules added between two initialisations
  DistinctPriorities  \* TRUE: the caller never hands out a priority twice

ASSUME /\ \A n \in QueryNames \cup Keys : n \in Seq(STRING) /\ Len(n) > 0
       /\ Priorities \subseteq Nat
       /\ MaxRules \in Nat
       /\ DistinctPriorities \in BOOLEAN

VARIABLES
  wildcard,  \* policy->wildcard: the decision for every name
  names,     \* policy->names: entries keyed by an exact name
  prefixes,  \* policy->prefixes: entries keyed by a dotted prefix
  rules      \* history: <<kind, key, deny, priority>> records, in call order

vars == <<wildcard, names, prefixes, rules>>

Decision == [deny : BOOLEAN, priority : Priorities \cup {0}]
Entry == [name : Keys, decision : [deny : BOOLEAN, priority : Priorities]]
Rule == [kind : {"wildcard", "name", "prefix"}, key : Keys \cup {<<>>},
         deny : BOOLEAN, priority : Priorities]

-----------------------------------------------------------------------------
(* Mutant: the decision never filled in, zero from a zeroed heap. *)
entry_new_without_decision(name, deny, priority) ==
  [name |-> name, decision |-> NeutralDecision]

(* ownership_policy_entry_new: the new entry, the name copied with it. *)
ownership_policy_entry_new(name, deny, priority) ==
  [name |-> name, decision |-> [deny |-> deny, priority |-> priority]]

ownership_policy_entry_compare(stringn, entry) ==
  /\ Len(entry.name) >= stringn.n
  /\ \A i \in 1..stringn.n : entry.name[i] = stringn.string[i]
  /\ Len(entry.name) = stringn.n

(* c_rbtree_find_entry / c_rbtree_find_slot with that comparator. *)
ownership_policy_find(tree, stringn) ==
  {e \in tree : ownership_policy_entry_compare(stringn, e)}

(* ownership_policy_set_wildcard: a lower priority leaves it alone. *)
ownership_policy_set_wildcard(deny, priority) ==
  IF wildcard.priority > priority THEN wildcard
  ELSE [deny |-> deny, priority |-> priority]

(***************************************************************************)
(* ownership_policy_add_entry: the tree after adding (name, deny,          *)
(* priority).  An existing entry is overwritten only by a strictly higher  *)
(* priority; otherwise a new entry is linked in.                           *)
(***************************************************************************)
ownership_policy_add_entry(tree, name, deny, priority) ==
  LET found == ownership_policy_find(tree, [string |-> name, n |-> Len(name)])
      e == CHOOSE x \in found : TRUE
  IN  IF found = {}
      THEN tree \cup {ownership_policy_entry_new(name, deny, priority)}
      ELSE IF e.decision.priority < priority
           THEN (tree \ {e}) \cup
                {[e EXCEPT !.decision = [deny |-> deny, priority |-> priority]]}
           ELSE tree

(* ownership_policy_update_decision: an entry at least as high wins. *)
ownership_policy_update_decision(tree, stringn, decision) ==
  LET found == ownership_policy_find(tree, stringn)
      e == CHOOSE x \in found : TRUE
  IN  IF found = {} \/ e.decision.priority < decision.priority
      THEN decision ELSE e.decision

(***************************************************************************)
(* strchrnul(name + from, '.') as an offset into name: the first '.' at or *)
(* after offset "from", else the offset of the terminating NUL.  Offset j  *)
(* holds the byte name[j + 1].                                             *)
(***************************************************************************)
strchrnul_dot(name, from) ==
  LET dots == {j \in from..(Len(name) - 1) : name[j + 1] = "."}
  IN  IF dots = {} THEN Len(name) ELSE Min(dots)

(***************************************************************************)
(* The do/while loop of ownership_policy_check_allowed: from the dot at    *)
(* offset "dot", look up the prefix ending at the next dot (or at the end  *)
(* of the name), and go on while that was not the end.                     *)
(***************************************************************************)
RECURSIVE ownership_policy_scan_prefixes(_, _, _)
ownership_policy_scan_prefixes(name, dot, decision) ==
  LET next == strchrnul_dot(name, dot + 1)
      d == ownership_policy_update_decision(prefixes,
                                            [string |-> name, n |-> next],
                                            decision)
  IN  IF next < Len(name) THEN ownership_policy_scan_prefixes(name, next, d)
      ELSE d

(* The decision ownership_policy_check_allowed computes: the wildcard,    *)
(* then the exact name, then each dotted prefix from the shortest.         *)
ownership_policy_decision(name) ==
  LET byName == ownership_policy_update_decision(
                  names, [string |-> name, n |-> Len(name)], wildcard)
  IN  IF prefixes = {} THEN byName
      ELSE ownership_policy_scan_prefixes(name, 0, byName)

(* ownership_policy_check_allowed: TRUE iff it returns ACCESS_DENIED. *)
ownership_policy_check_allowed(name) == ownership_policy_decision(name).deny

-----------------------------------------------------------------------------
(* The caller's side of each add: the bound, and (if the caller hands out *)
(* distinct priorities) a priority not handed out before.                 *)
CanAdd(priority) ==
  /\ Len(rules) < MaxRules
  /\ DistinctPriorities => PriorityIsFresh(rules, priority)

Record(kind, key, deny, priority) ==
  rules' = Append(rules, [kind |-> kind, key |-> key,
                          deny |-> deny, priority |-> priority])

(* ownership_policy_init: an empty policy, wildcard allow at priority 0. *)
ownership_policy_init ==
  /\ wildcard = NeutralDecision
  /\ names = {}
  /\ prefixes = {}

Init == ownership_policy_init /\ rules = <<>>

SetWildcard(deny, priority) ==
  /\ CanAdd(priority)
  /\ wildcard' = ownership_policy_set_wildcard(deny, priority)
  /\ Record("wildcard", <<>>, deny, priority)
  /\ UNCHANGED <<names, prefixes>>

(* ownership_policy_add_name *)
AddName(name, deny, priority) ==
  /\ CanAdd(priority)
  /\ names' = ownership_policy_add_entry(names, name, deny, priority)
  /\ Record("name", name, deny, priority)
  /\ UNCHANGED <<wildcard, prefixes>>

(* ownership_policy_add_prefix *)
AddPrefix(prefix, deny, priority) ==
  /\ CanAdd(priority)
  /\ prefixes' = ownership_policy_add_entry(prefixes, prefix, deny, priority)
  /\ Record("prefix", prefix, deny, priority)
  /\ UNCHANGED <<wildcard, names>>

(* ownership_policy_deinit: free every entry of both trees, then init. *)
Deinit ==
  /\ wildcard' = NeutralDecision
  /\ names' = {}
  /\ prefixes' = {}
  /\ rules' = <<>>

Next ==
  \/ \E deny \in BOOLEAN, priority \in Priorities :
       \/ SetWildcard(deny, priority)
       \/ \E key \in Keys : AddName(key, deny, priority)
       \/ \E key \in Keys : AddPrefix(key, deny, priority)
  \/ Deinit

Spec == Init /\ [][Next]_vars

-----------------------------------------------------------------------------
(* Reference semantics, from the spec (sections 3, 4.3 and 8).             *)

(* A prefix rule P covers the name N iff N = P or N starts with P ".". *)
PrefixCovers(p, n) == n = p \/ IsPrefix(p \o <<".">>, n)

RuleMatches(r, n) ==
  \/ r.kind = "wildcard"
  \/ r.kind = "name" /\ r.key = n
  \/ r.kind = "prefix" /\ PrefixCovers(r.key, n)

-----------------------------------------------------------------------------
TypeOK ==
  /\ wildcard \in Decision
  /\ names \subseteq Entry
  /\ prefixes \subseteq Entry
  /\ rules \in Seq(Rule)

(***************************************************************************)
(* Priority monotonicity and prefix correctness: after any sequence of     *)
(* set_wildcard / add_name / add_prefix calls, ownership_policy_check_     *)
(* allowed denies a name exactly when the highest-priority rule matching   *)
(* it (exact name, a prefix P with N = P or N = P "." ..., or the          *)
(* wildcard) is a deny rule.  It is about the interplay of add_entry's     *)
(* overwrite guard, the comparator's length check and the strchrnul scan.  *)
(***************************************************************************)
OwnershipDecisionIsHighestPriority ==
  \A n \in QueryNames : ownership_policy_check_allowed(n) =
                           ReferenceDeny(rules, LAMBDA r : RuleMatches(r, n))

=============================================================================
