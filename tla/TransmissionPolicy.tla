-------------------------- MODULE TransmissionPolicy --------------------------
(***************************************************************************)
(* The transmission policy of src/policy.c: may a message with a given     *)
(* interface, member, error name, path and type pass between a subject and *)
(* its peer.  Entries are kept in lists: one list per bus name in a        *)
(* red-black tree of TransmissionPolicyByName nodes (policy_by_name_tree), *)
(* and one list of wildcard entries (wildcard_entry_list).                 *)
(*                                                                         *)
(* Two reads of uninitialised heap memory are modelled as nondeterministic *)
(* choices among the outcomes a build can produce:                         *)
(*  - transmission_policy_entry_new sets entry->interface and ->member to  *)
(*    NULL when absent but leaves ->error and ->path as malloc returned    *)
(*    them: NULL, or a non-NULL pointer (Garbage) no request field equals  *)
(*    (a crash on dereferencing it is not modelled);                      *)
(*  - transmission_policy_by_name_new copies strlen(name) bytes, without   *)
(*    the NUL, so the stored name is terminated only if the next heap byte *)
(*    happens to be 0; an unterminated name never compares equal to a     *)
(*    lookup key, so lookups and later adds miss that node.               *)
(* UninitPointers and TailIsNul are the outcomes a build can give; with    *)
(* zero-filled fresh heap they are {NULL} and {TRUE}.                      *)
(*                                                                         *)
(* A request is a record of four optional strings and a type; a subject is *)
(* Driver (the broker itself) or the sequence of ownerships [name,        *)
(* primary] of a peer, in the order of its ownership tree.  "rules" is a  *)
(* history variable: the rules added since initialisation.                 *)
(***************************************************************************)
EXTENDS PolicyDecision, SequencesExt, FiniteSets

CONSTANTS
  NULL,            \* an absent optional string
  Garbage,         \* an uninitialised non-NULL char pointer
  Driver,          \* subject NULL: the driver is the other endpoint
  DriverName,      \* "org.freedesktop.DBus"
  BusNames,        \* bus names rules are keyed by
  Values,          \* values of interface, member, error and path
  EntryTypes,      \* message types of rules; 0 is any type
  RuleFields,      \* the field combinations rules are added with
  Requests,        \* the requests the check is asked about
  Subjects,        \* the subjects the check is asked about
  Priorities,      \* the priorities the caller hands out
  MaxRules,        \* bound: rules added between two initialisations
  UninitPointers,  \* outcomes of reading an unset entry->error / ->path
  TailIsNul,       \* outcomes of "the byte after a copied name is NUL"
  MallocMayFail,   \* TRUE: malloc of an entry may fail with ENOMEM
  DistinctPriorities

Fields == {"interface", "member", "error", "path"}

(* transmission_policy_entry_new stores NULL for these when absent. *)
NulledWhenAbsent == {"interface", "member"}

ASSUME /\ {NULL, Garbage} \cap Values = {}
       /\ DriverName \in BusNames
       /\ 0 \in EntryTypes
       /\ RuleFields \subseteq [Fields -> Values \cup {NULL}]
       /\ Requests \subseteq [Fields -> Values \cup {NULL}] \X (Nat \ {0})
       /\ UninitPointers \subseteq {NULL, Garbage} /\ UninitPointers # {}
       /\ TailIsNul \subseteq BOOLEAN /\ TailIsNul # {}
       /\ MallocMayFail \in BOOLEAN /\ DistinctPriorities \in BOOLEAN

VARIABLES
  policy_by_name_tree,  \* sequence of by-name nodes [name, terminated, entries]
  wildcard_entry_list,  \* sequence of entries
  rules                 \* history: [name, fields, type, deny, priority]

vars == <<policy_by_name_tree, wildcard_entry_list, rules>>

Decision == [deny : BOOLEAN, priority : Priorities \cup {0}]
Entry == [fields : [Fields -> Values \cup {NULL, Garbage}],
          type : EntryTypes,
          decision : [deny : BOOLEAN, priority : Priorities]]
ByName == [name : BusNames, terminated : BOOLEAN, entries : Seq(Entry)]

-----------------------------------------------------------------------------
(* Mutant: the decision never filled in, zero from a zeroed heap. *)
entry_new_without_decision(fields, type, deny, priority, unset) ==
  [fields |-> [f \in Fields |->
                 IF fields[f] # NULL \/ f \in NulledWhenAbsent THEN fields[f]
                 ELSE unset[f]],
   type |-> type,
   decision |-> NeutralDecision]

(***************************************************************************)
(* transmission_policy_entry_new: the entry for the given optional fields, *)
(* "unset" giving what ->error and ->path hold when they are absent.       *)
(***************************************************************************)
transmission_policy_entry_new(fields, type, deny, priority, unset) ==
  [fields |-> [f \in Fields |->
                 IF fields[f] # NULL \/ f \in NulledWhenAbsent THEN fields[f]
                 ELSE unset[f]],
   type |-> type,
   decision |-> [deny |-> deny, priority |-> priority]]

(* transmission_policy_by_name_new: a node with the name copied without NUL *)
transmission_policy_by_name_new(name, terminated, entries) ==
  [name |-> name, terminated |-> terminated, entries |-> entries]

(* transmission_policy_by_name_compare(tree, name, node) = 0: strcmp sees *)
(* the stored name end where the key does only if it is terminated.       *)
transmission_policy_by_name_compare(name, node) ==
  node.name = name /\ node.terminated

transmission_policy_find(name) ==
  {i \in DOMAIN policy_by_name_tree :
     transmission_policy_by_name_compare(name, policy_by_name_tree[i])}

(* The per-field test of transmission_policy_update_decision: an entry's   *)
(* non-NULL field needs a non-NULL, equal request field.                   *)
FieldMatches(entryValue, requestValue) ==
  entryValue = NULL \/ (requestValue # NULL /\ entryValue = requestValue)

(***************************************************************************)
(* One iteration of the loop of transmission_policy_update_decision: skip  *)
(* an entry of lower priority than the decision so far, or one whose       *)
(* fields or type do not match; otherwise take its decision.               *)
(***************************************************************************)
transmission_policy_entry_apply(request, decision, entry) ==
  IF \/ entry.decision.priority < decision.priority
     \/ \E f \in Fields : ~FieldMatches(entry.fields[f], request[1][f])
     \/ entry.type # 0 /\ entry.type # request[2]
  THEN decision
  ELSE entry.decision

transmission_policy_update_decision(list, request, decision) ==
  FoldLeft(LAMBDA d, e : transmission_policy_entry_apply(request, d, e),
           decision, list)

transmission_policy_update_decision_by_name(name, request, decision) ==
  LET found == transmission_policy_find(name)
  IN  IF found = {} THEN decision
      ELSE transmission_policy_update_decision(
             policy_by_name_tree[CHOOSE i \in found : TRUE].entries,
             request, decision)

(* Mutant: the name_ownership_is_primary() filter dropped. *)
check_including_queued_owners(subject, request) ==
  LET byName ==
        IF subject = Driver
        THEN transmission_policy_update_decision_by_name(
               DriverName, request, NeutralDecision)
        ELSE FoldLeft(LAMBDA d, o :
                        transmission_policy_update_decision_by_name(
                          o.name, request, d),
                      NeutralDecision, subject)
  IN  transmission_policy_update_decision(wildcard_entry_list, request,
                                          byName).deny

(***************************************************************************)
(* The decision transmission_policy_check_allowed computes: the lists of   *)
(* the names the subject primary-owns (of "org.freedesktop.DBus" for the   *)
(* driver), then the wildcard list, from the neutral decision.             *)
(***************************************************************************)
transmission_policy_decision(subject, request) ==
  LET byName ==
        IF subject = Driver
        THEN transmission_policy_update_decision_by_name(
               DriverName, request, NeutralDecision)
        ELSE FoldLeft(LAMBDA d, o :
                        IF o.primary
                        THEN transmission_policy_update_decision_by_name(
                               o.name, request, d)
                        ELSE d,
                      NeutralDecision, subject)
  IN  transmission_policy_update_decision(wildcard_entry_list, request, byName)

(* transmission_policy_check_allowed: TRUE iff ACCESS_DENIED. *)
transmission_policy_check_allowed(subject, request) ==
  transmission_policy_decision(subject, request).deny

-----------------------------------------------------------------------------
CanAdd(priority) ==
  /\ Len(rules) < MaxRules
  /\ DistinctPriorities => PriorityIsFresh(rules, priority)

(* transmission_policy_init *)
Init ==
  /\ policy_by_name_tree = <<>>
  /\ wildcard_entry_list = <<>>
  /\ rules = <<>>

(***************************************************************************)
(* tranmsission_policy_add_entry(policy, name, ...): find or create the    *)
(* by-name node for a name (the wildcard list for NULL), then append the   *)
(* new entry to its list.  If the entry's malloc fails, a node created for *)
(* it stays in the tree, empty, and the call returns ENOMEM.               *)
(***************************************************************************)
tranmsission_policy_add_entry(name, fields, type, deny, priority) ==
  /\ CanAdd(priority)
  /\ \E unset \in [Fields \ NulledWhenAbsent -> UninitPointers],
        oom \in IF MallocMayFail THEN BOOLEAN ELSE {FALSE},
        tail \in TailIsNul :
       LET entry == transmission_policy_entry_new(fields, type, deny,
                                                  priority, unset)
           new == IF oom THEN <<>> ELSE <<entry>>
           found == transmission_policy_find(name)
       IN  /\ IF name = NULL
              THEN /\ wildcard_entry_list' = wildcard_entry_list \o new
                   /\ UNCHANGED policy_by_name_tree
              ELSE /\ policy_by_name_tree' =
                        IF found # {}
                        THEN [policy_by_name_tree EXCEPT
                                ![CHOOSE i \in found : TRUE].entries = @ \o new]
                        ELSE Append(policy_by_name_tree,
                                    transmission_policy_by_name_new(name, tail, new))
                   /\ UNCHANGED wildcard_entry_list
           /\ rules' = IF oom THEN rules
                       ELSE Append(rules, [name |-> name, fields |-> fields,
                                           type |-> type, deny |-> deny,
                                           priority |-> priority])

(* transmission_policy_deinit: free every node and entry, then init. *)
Deinit ==
  /\ policy_by_name_tree' = <<>>
  /\ wildcard_entry_list' = <<>>
  /\ rules' = <<>>

Next ==
  \/ \E name \in BusNames \cup {NULL},
        fields \in RuleFields,
        type \in EntryTypes, deny \in BOOLEAN, priority \in Priorities :
       tranmsission_policy_add_entry(name, fields, type, deny, priority)
  \/ Deinit

Spec == Init /\ [][Next]_vars

-----------------------------------------------------------------------------
(* Reference semantics, from the spec (sections 4.4 and 8). *)

(* The names whose rules apply to a subject. *)
SubjectNames(subject) ==
  IF subject = Driver THEN {DriverName}
  ELSE {subject[i].name : i \in {j \in DOMAIN subject : subject[j].primary}}

RuleMatches(r, subject, request) ==
  /\ r.name = NULL \/ r.name \in SubjectNames(subject)
  /\ \A f \in Fields : r.fields[f] = NULL \/ r.fields[f] = request[1][f]
  /\ r.type = 0 \/ r.type = request[2]

TypeOK ==
  /\ policy_by_name_tree \in Seq(ByName)
  /\ wildcard_entry_list \in Seq(Entry)
  /\ rules \in Seq([name : BusNames \cup {NULL},
                    fields : [Fields -> Values \cup {NULL}],
                    type : EntryTypes, deny : BOOLEAN,
                    priority : Priorities])

(***************************************************************************)
(* Priority monotonicity and wildcard-field neutrality (spec section 8):   *)
(* for every subject and request, transmission_policy_check_allowed        *)
(* denies exactly when the highest-priority rule that applies (a rule for *)
(* a name the subject primary-owns, or a wildcard rule, whose present      *)
(* fields equal the request's and whose type is 0 or the request's) is a   *)
(* deny rule.  It is about the by-name lookup, the per-entry field tests,  *)
(* the priority skip and the order the lists are folded in.                *)
(***************************************************************************)
TransmissionDecisionIsHighestPriority ==
  \A s \in Subjects, q \in Requests :
    transmission_policy_check_allowed(s, q) =
      ReferenceDeny(rules, LAMBDA r : RuleMatches(r, s, q))

=============================================================================
