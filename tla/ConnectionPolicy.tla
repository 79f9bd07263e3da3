--------------------------- MODULE ConnectionPolicy ---------------------------
(***************************************************************************)
(* The connection policy of src/policy.c: which peer, by uid and groups,   *)
(* may connect.  It keeps a uid wildcard, a gid wildcard and two           *)
(* red-black trees of entries keyed by uid resp. gid (uid_tree, gid_tree), *)
(* each modelled as the set of its entries; a lookup is the set of entries *)
(* the comparator reports equal.                                           *)
(*                                                                         *)
(* connection_policy_entry_new receives the uid but never stores it: the   *)
(* entry comes from calloc, so entry->uid is 0 for every entry.  The model *)
(* keeps that.  When several entries compare equal (all have uid 0), the   *)
(* one a lookup reaches depends on the tree's shape; the model picks one   *)
(* with CHOOSE, and the properties checked do not depend on which.         *)
(*                                                                         *)
(* "rules" is a history variable (the rules handed to the policy since it  *)
(* was initialised); no code keeps it.                                     *)
(***************************************************************************)
EXTENDS PolicyDecision, FiniteSets

CONSTANTS
  Uids,               \* uids rules are added for
  Gids,               \* gids rules are added for
  Peers,              \* the peers asked about: records [uid, gids]
  Priorities,         \* the priorities the caller hands out
  MaxRules,           \* bound: rules added between two initialisations
  DistinctPriorities  \* TRUE: the caller never hands out a priority twice

ASSUME /\ Uids \cup Gids \subseteq Nat
       /\ \A p \in Peers : p.uid \in Nat /\ p.gids \subseteq Nat
       /\ Priorities \subseteq Nat
       /\ MaxRules \in Nat
       /\ DistinctPriorities \in BOOLEAN

VARIABLES
  uid_wildcard,  \* policy->uid_wildcard
  gid_wildcard,  \* policy->gid_wildcard
  uid_tree,      \* policy->uid_tree: entries added by add_uid
  gid_tree,      \* policy->gid_tree: entries added by add_gid
  rules          \* history: [kind, key, deny, priority], in call order

vars == <<uid_wildcard, gid_wildcard, uid_tree, gid_tree, rules>>

Decision == [deny : BOOLEAN, priority : Priorities \cup {0}]
Entry == [uid : Nat, decision : [deny : BOOLEAN, priority : Priorities]]
RuleKinds == {"uid_wildcard", "gid_wildcard", "uid", "gid"}

-----------------------------------------------------------------------------
(* Mutant: the decision never filled in, zero from a zeroed heap. *)
entry_new_without_decision(uid, deny, priority) ==
  [uid |-> 0, decision |-> NeutralDecision]

(* connection_policy_entry_new: calloc'd, the decision set, uid not set. *)
connection_policy_entry_new(uid, deny, priority) ==
  [uid |-> 0, decision |-> [deny |-> deny, priority |-> priority]]

(* connection_policy_entry_compare(tree, &uid, entry) = 0 *)
connection_policy_entry_compare(uid, entry) == uid = entry.uid

connection_policy_find(tree, uid) ==
  {e \in tree : connection_policy_entry_compare(uid, e)}

(* connection_policy_set_uid_wildcard / _set_gid_wildcard *)
connection_policy_set_wildcard(wildcard, deny, priority) ==
  IF wildcard.priority > priority THEN wildcard
  ELSE [deny |-> deny, priority |-> priority]

(* connection_policy_add_entry: the tree after adding (uid, deny, priority) *)
connection_policy_add_entry(tree, uid, deny, priority) ==
  LET found == connection_policy_find(tree, uid)
      e == CHOOSE x \in found : TRUE
  IN  IF found = {}
      THEN tree \cup {connection_policy_entry_new(uid, deny, priority)}
      ELSE IF e.decision.priority < priority
           THEN (tree \ {e}) \cup
                {[e EXCEPT !.decision = [deny |-> deny, priority |-> priority]]}
           ELSE tree

(* connection_policy_update_decision: an entry at least as high wins. *)
connection_policy_update_decision(tree, uid, decision) ==
  LET found == connection_policy_find(tree, uid)
      e == CHOOSE x \in found : TRUE
  IN  IF found = {} \/ e.decision.priority < decision.priority
      THEN decision ELSE e.decision

(* Mutant: the lower of the two wildcards taken as the start. *)
check_from_lower_wildcard(uid) ==
  LET start == IF uid_wildcard.priority < gid_wildcard.priority
               THEN uid_wildcard ELSE gid_wildcard
  IN  connection_policy_update_decision(uid_tree, uid, start).deny

(***************************************************************************)
(* connection_policy_check_allowed(policy, uid): TRUE iff ACCESS_DENIED.   *)
(* The higher wildcard (the gid one on a tie), then the uid tree.  The     *)
(* groups are not consulted ("XXX: check the groups too").                 *)
(***************************************************************************)
connection_policy_check_allowed(uid) ==
  LET start == IF uid_wildcard.priority > gid_wildcard.priority
               THEN uid_wildcard ELSE gid_wildcard
  IN  connection_policy_update_decision(uid_tree, uid, start).deny

-----------------------------------------------------------------------------
CanAdd(priority) ==
  /\ Len(rules) < MaxRules
  /\ DistinctPriorities => PriorityIsFresh(rules, priority)

Record(kind, key, deny, priority) ==
  rules' = Append(rules, [kind |-> kind, key |-> key,
                          deny |-> deny, priority |-> priority])

(* connection_policy_init *)
Init ==
  /\ uid_wildcard = NeutralDecision
  /\ gid_wildcard = NeutralDecision
  /\ uid_tree = {}
  /\ gid_tree = {}
  /\ rules = <<>>

SetUidWildcard(deny, priority) ==
  /\ CanAdd(priority)
  /\ uid_wildcard' = connection_policy_set_wildcard(uid_wildcard, deny, priority)
  /\ Record("uid_wildcard", 0, deny, priority)
  /\ UNCHANGED <<gid_wildcard, uid_tree, gid_tree>>

SetGidWildcard(deny, priority) ==
  /\ CanAdd(priority)
  /\ gid_wildcard' = connection_policy_set_wildcard(gid_wildcard, deny, priority)
  /\ Record("gid_wildcard", 0, deny, priority)
  /\ UNCHANGED <<uid_wildcard, uid_tree, gid_tree>>

(* connection_policy_add_uid *)
AddUid(uid, deny, priority) ==
  /\ CanAdd(priority)
  /\ uid_tree' = connection_policy_add_entry(uid_tree, uid, deny, priority)
  /\ Record("uid", uid, deny, priority)
  /\ UNCHANGED <<uid_wildcard, gid_wildcard, gid_tree>>

(* connection_policy_add_gid: the gid goes in as (uid_t)gid. *)
AddGid(gid, deny, priority) ==
  /\ CanAdd(priority)
  /\ gid_tree' = connection_policy_add_entry(gid_tree, gid, deny, priority)
  /\ Record("gid", gid, deny, priority)
  /\ UNCHANGED <<uid_wildcard, gid_wildcard, uid_tree>>

(* connection_policy_deinit: free both trees' entries, then init. *)
Deinit ==
  /\ uid_wildcard' = NeutralDecision
  /\ gid_wildcard' = NeutralDecision
  /\ uid_tree' = {}
  /\ gid_tree' = {}
  /\ rules' = <<>>

Next ==
  \/ \E deny \in BOOLEAN, priority \in Priorities :
       \/ SetUidWildcard(deny, priority)
       \/ SetGidWildcard(deny, priority)
       \/ \E uid \in Uids : AddUid(uid, deny, priority)
       \/ \E gid \in Gids : AddGid(gid, deny, priority)
  \/ Deinit

Spec == Init /\ [][Next]_vars

-----------------------------------------------------------------------------
(* Reference semantics, from the spec (sections 4.2 and 8). *)
RuleMatches(r, peer) ==
  \/ r.kind \in {"uid_wildcard", "gid_wildcard"}
  \/ r.kind = "uid" /\ r.key = peer.uid
  \/ r.kind = "gid" /\ r.key \in peer.gids

TypeOK ==
  /\ uid_wildcard \in Decision
  /\ gid_wildcard \in Decision
  /\ uid_tree \subseteq Entry
  /\ gid_tree \subseteq Entry
  /\ rules \in Seq([kind : RuleKinds, key : Nat,
                    deny : BOOLEAN, priority : Priorities])

(***************************************************************************)
(* Priority monotonicity (spec section 8): connection_policy_check_allowed *)
(* denies a peer exactly when the highest-priority rule matching it (a     *)
(* wildcard, its uid, one of its gids) is a deny rule.  The code keys      *)
(* every entry by uid 0 and never looks at the groups.                     *)
(***************************************************************************)
ConnectionDecisionIsHighestPriority ==
  \A p \in Peers :
    connection_policy_check_allowed(p.uid) =
      ReferenceDeny(rules, LAMBDA r : RuleMatches(r, p))

(***************************************************************************)
(* Context precedence for wildcard rules (spec scenario S5): when the      *)
(* highest-priority rule handed to the policy is a wildcard rule (a        *)
(* mandatory <deny/>), every peer gets its decision, whatever uid or gid   *)
(* rules were added before or after it.  It is about the choice between    *)
(* the two wildcards and the priority guards of add_entry/update_decision. *)
(***************************************************************************)
TopWildcardDecidesEveryPeer ==
  \A i \in DOMAIN rules :
    (/\ rules[i].kind \in {"uid_wildcard", "gid_wildcard"}
     /\ \A j \in DOMAIN rules : j # i => rules[j].priority < rules[i].priority)
    => \A p \in Peers : connection_policy_check_allowed(p.uid) = rules[i].deny
=============================================================================
