# TLA+ models of the dbus-broker policy core

This directory holds TLA+ models of `src/src/policy.c` and the TLC configurations
that check them. That file is the policy core of dbus-broker: three stores of
allow/deny rules, and the reader for the XML policy file. Every module is
translated from the C source. `PROJECT.json` maps each definition to the lines it
models. It also lists the runs, the mutants that show each property can fail,
the findings and the hazards.

## 1. The system

### Parts and how they interact

| Part | Code | State |
|---|---|---|
| Decision | `PolicyDecision {deny, priority}` | a value; `{}` is allow at priority 0 |
| Ownership policy | `ownership_policy_*` (policy.c 27-172) | `wildcard` decision; `names` and `prefixes` red-black trees of `{name, decision}` |
| Connection policy | `connection_policy_*` (175-307) | `uid_wildcard`, `gid_wildcard`; `uid_tree`, `gid_tree` of `{uid, decision}` |
| Transmission policy | `transmission_policy_*`, `tranmsission_policy_add_entry` (310-532) | `policy_by_name_tree` of by-name nodes, each with an entry list; `wildcard_entry_list` |
| Policy file parser | `policy_parser_*`, `policy_parse` (535-692) | an expat parser, a FILE, a 1024-byte buffer |
| Name registry, peers | `name.h`, `peer.h` (not in the repository) | read only: a peer's ownerships and whether each is primary |
| FD list test | `src/util/test-fdlist.c` | the process's descriptor table; an `FDList`, `prev`, `p[2]`; tests `util/fdlist`, whose code is not in the repository |

The three stores do not share state. A loader, described in spec.md but with no
code here, would call their add operations with priorities
`base << 32 | counter` that rise with declaration order. The broker then calls
`*_check_allowed`, and a decision starts from the neutral `{allow, 0}`. An
entry replaces the decision so far when its priority is at least as high. The
parser's element handlers only print the document, so nothing yet connects
the parser to the stores.

The FD list test is a separate program. `main` runs `test_setup`,
`test_dummy` and `test_consumer` in turn, against the kernel's allocation of
the lowest free descriptor and whatever descriptors the process inherited.

### Behaviours that are hard to test

Everything is single-threaded, so there is no interleaving. What is hard to test:
- Orders of add calls with equal or crossing priorities.
- The byte-level edges of the prefix scan and of the comparators.
- Heap contents the code reads uninitialised: `entry->error` and `entry->path`,
  and the byte after a copied by-name key.
- An allocation failing halfway through an add.
- `fread` stopping short with an error.
- File lengths at multiples of the buffer size.
- The early return paths of `policy_parse`, and `XML_ParserCreate` failing.
- For the FD list test, the descriptor table it inherits, and the descriptor
  limit.

## 2. Modules

| Module | Models | State (VARIABLES) | Actions |
|---|---|---|---|
| `PolicyDecision` | the decision value and the spec's reference rule | none | none |
| `OwnershipPolicy` | ownership policy | `wildcard`, `names`, `prefixes`, history `rules` | `SetWildcard`, `AddName`, `AddPrefix`, `Deinit` |
| `ConnectionPolicy` | connection policy | `uid_wildcard`, `gid_wildcard`, `uid_tree`, `gid_tree`, `rules` | `SetUidWildcard`, `SetGidWildcard`, `AddUid`, `AddGid`, `Deinit` |
| `TransmissionPolicy` | transmission policy | `policy_by_name_tree`, `wildcard_entry_list`, `rules` | `tranmsission_policy_add_entry`, `Deinit` |
| `PolicyParser` | `policy_parse` control flow | `pc`, `doc`, `opened`, `pos`, `ferr`, `xmlError`, `parser`, `printed`, `ret` | `policy_parser_init`, `policy_parser_parse_file_open`, `policy_parser_parse_file_read`, `policy_parser_finalize` |
| `PolicyParserHandlers` | the expat element handlers | `level`, `needs_linebreak`, printed lines `out`; expat's `open` stack and `started` count | `StartElement` (`policy_parser_handler_start`), `EndElement` (`policy_parser_handler_end`) |
| `FDListTest` | `test-fdlist.c` | `pc`, `fds`, `fds0` (the inherited table), `l`, `i`, `prev`, `p` | `test_setup`, `test_dummy` (one loop iteration), `test_consumer_create`, `_truncate`, `_reopen`, `_free` |

Each `MC*` module sets the constants to small sets for TLC.

How the model abstracts the code:
- **Trees are sets or sequences.** A red-black tree is the set of its entries.
  The transmission tree is a sequence, because a node with an unterminated key
  stays alongside later nodes for the same name. A lookup is the set of entries
  the C comparator reports equal, so a broken comparator shows up as a wrong
  lookup, not as a wrong tree shape.
- **Checks are operators.** `*_check_allowed` has no side effects, so each is
  an operator that the properties evaluate for every query.
- **The prefix scan is recursive.** In the ownership policy it is a RECURSIVE
  operator that follows the `strchrnul` loop over names kept as byte
  sequences. The byte level matters: `"a"` must be told apart from `"ab"`, and
  `"a.b"` from `"ab"`.
- **A history variable records the rules.** `rules` lists the rules added
  since the last `init`/`deinit`, in call order. No code keeps it. The
  properties compare the code's decision with `ReferenceDeny`, the spec's
  definition: the highest-priority matching rule decides, ties go to the latest
  rule, and with no match the answer is allow.
- **The caller's contract is a constant.** `DistinctPriorities` says whether
  the caller never reuses a priority. The spec's loader counter guarantees
  this, so the passing runs assume it. `MaxRules` bounds the adds between two
  `init`s.
- **Undefined behaviour is a choice among outcomes.** `UninitPointers` is the
  set of values `malloc`'s leftovers can give an unset `char *`: NULL, or a
  non-NULL `Garbage` that equals no request field. `TailIsNul` is the set of
  values of the byte after an unterminated name. A zero-filled heap gives
  `{NULL}` and `{TRUE}`.
- **Allocation failure.** `MallocMayFail` lets the entry's `malloc` fail in
  `tranmsission_policy_add_entry`. A by-name node created just before the
  failure then stays in the tree, empty, as it does in the code.
- **The parser reads units, not bytes.** The file is a sequence of "ok"/"bad"
  units plus a `complete` flag. The buffer is `BufferSize` units. The loop only
  compares a read's length with the buffer's size, so 2 units keep every case:
  shorter, equal, multiple, and a trailing 0-byte read.
- **Expat is a rule about chunks.** A bad unit fails the chunk that holds it.
  An incomplete or empty document fails at finalisation.
- **fread fails where the model says so.** `ReadLengths` gives each fread a
  full read, or (when `ReadMayFail`) a short read with `ferror` set.
- **Failed allocations in the ownership and connection stores are stutters.**
  If `ownership_policy_entry_new` or `connection_policy_entry_new` fails, the
  call returns ENOMEM and the store is unchanged. That is a stuttering step, so
  it needs no action of its own. In the transmission store a failure can leave
  an empty node behind, so there it is modelled.
- **Handlers see well-formed event streams.** `PolicyParserHandlers` drives the
  handlers with the start and end events expat reports for a well-formed
  document: one root, end tags matching start tags. Each printed line is a
  token, and attributes are left out.
- **A NULL parser fails every parse.** `ParserCreateMayFail` lets
  `XML_ParserCreate` return NULL. policy.c does not check the result. Since
  expat 2.2 its API functions test their parser against NULL: `XML_Parse`
  returns `XML_STATUS_ERROR`, and `XML_ParserFree` does nothing. So the model
  treats a NULL parser as one on which every parse fails. Older expat would
  crash instead.
- **fdlist is taken from the test's comments.** `util/fdlist` is not in the
  repository. A list holds the descriptors it is given, in order. A list made
  by `fdlist_new_consume_fds` closes the descriptors that `fdlist_truncate` or
  `fdlist_free` drop. A list made by `fdlist_new_with_fds` closes none.
  `epoll_create1` returns the lowest free descriptor below `MaxFd`, as POSIX
  requires, or -1 (EMFILE). A failed `assert` aborts the process (`NDEBUG` is
  undefined at line 5).
- **Printing is counted.** `printed` counts calls of
  `policy_print_parsing_error`; the message is not formatted.

## 3. Runs

| Run | cfg | Expect | What it shows |
|---|---|---|---|
| ownership_priority | MCOwnershipPolicy.cfg | pass | After any 3 rules with distinct priorities from 1..3, over keys `a`, `a.b`, `ab`, the check agrees with the reference for every non-empty name of up to 4 bytes over `{a, b, .}`, before and after deinit. |
| ownership_ties | MCOwnershipPolicyTies.cfg | violation | If a priority is reused, an earlier name rule beats a later wildcard rule of the same priority. |
| connection_wildcard | MCConnectionPolicy.cfg | pass | `TopWildcardDecidesEveryPeer`: a wildcard rule of the top priority decides every peer, with uids and gids in {0,1}. |
| connection_rules | MCConnectionPolicyRules.cfg | violation | This run uses uid and gid rules, peers with groups, and priorities from 0. The check does not follow the highest-priority matching rule, for three reasons: uid rules are stored under uid 0, gid rules are never read, and a priority-0 uid wildcard loses its tie. Each alone violates the property. |
| transmission_priority | MCTransmissionPolicy.cfg | pass | On a zeroed heap, with entry malloc failure allowed, the check agrees with the reference for the driver, for the primary and queued owners of a name and for a peer owning nothing, over every request, including after an ENOMEM add that leaves an empty by-name node. |
| transmission_heap_contents | MCTransmissionPolicyHeap.cfg | violation | With a non-zero heap, the check depends on bytes the code never set. A rule without an `error` or `path` field stops matching. A non-NUL byte after a copied by-name key hides that name's rules. |
| parser_read_loop | MCPolicyParser.cfg | pass | For files of 0-5 units, the whole file reaches expat before finalisation, unless a read or the parse failed. `policy_parse` always returns. |
| parser_failure_reported | MCPolicyParserParseFailureReported.cfg | violation | `policy_parse` returns 0 after a failed load. The failure can be a NULL `XML_Parser` (TLC's trace), a malformed file, or a read error after a partial read. |
| parser_leak | MCPolicyParserParserFreedOnReturn.cfg | violation | The errno and EIO returns skip `policy_parser_deinit`. |
| handlers_listing | MCPolicyParserHandlers.cfg | pass | For every well-formed document of up to 5 elements, the printed `<policy>` blocks are balanced and never nested. |
| fdlist_test | MCFDListTest.cfg | pass | Over every inherited table below a limit of 10 descriptors, the test passes exactly when the lowest free descriptor and the two above it are free (`TestOutcomeDecidedByFdTable`). A passing test leaves the table as it found it (`TestRestoresFdTable`). |

Each passing run finishes within about a minute; transmission_priority is the
longest. The project has eleven runs. Where several code paths answer
the same question wrongly, one violation run covers them all. TLC shows one
trace, and narrower cfgs (fewer rule kinds, or no priority 0) were used to
confirm that each cause violates the property on its own.

### Bounds

Rules:
- Priorities 1..3 with up to 3 rules give every relative order of a wildcard,
  a name and a prefix rule.
- The passing runs leave out priority 0, because the loader's tiers start at
  `1 << 32`. connection_rules includes it: at priority 0 the connection
  check's tie rule (`>` at line 297) favours the never-set gid wildcard.

Ownership keys:
- `a`, `a.b` and `ab` give a prefix with a dotted child and a non-dotted
  sibling.
- The names asked about are every non-empty name of up to 4 bytes over
  `{a, b, .}` (120 names). Each key is met followed by every byte and every
  dotted byte, which is what a broken comparator or prefix scan would confuse.

Transmission:
- There are two bus names: the driver's name and one other.
- Each rule sets no field or exactly one of the four. `interface` and
  `member` are stored as NULL when absent; `error` and `path` are left as
  malloc returned them, so both code paths are met.
- Requests are every combination of the four fields set to "v" or absent,
  for each of the two names.
- The subjects are the driver, the primary and the queued (non-primary)
  owner of a name, and a peer owning nothing.
- Up to 2 rules with priorities 1..2. Three rules multiply the states past
  what a run of a few minutes reaches, and two already give every order of a
  wildcard and a by-name entry.

Parser:
- Documents have 0 to 5 units, which covers lengths 0, 1, 2 (= buffer), 3, 4
  (= 2 buffers) and 5.
- Read failures can stop any read short.

FD list test:
- `MaxFd = 10` puts all eight dummy numbers below the limit.
- Every one of the 1024 subsets of 0..9 is an inherited table. These include
  tables with stdin closed, holes above the lowest free descriptor, and
  tables full up to the limit.

Handlers:
- Five elements reach a `<policy>` inside the root with two rules, so the
  blank-line separation is exercised.
- They also reach a nested `<policy>`, and rules at level 3.

### Fairness

`policy_parse` runs on one thread and never blocks, so each of its steps is
weakly fair once enabled. A read that fails is the environment's choice, so
only `ReadWithoutError` carries fairness. `ParseTerminates` then says the loop
ends. It does not rely on the disk failing.

The stores have no liveness property. Their operations are calls made by a
caller, and nothing in them must eventually happen.

### Mutants

Each property of a passing run has a mutant in `PROJECT.json`. A mutant is a
plausible bug in the mapped code that TLC catches under the run's own cfg:
- a comparator without its length check;
- the check starting from the lower wildcard;
- the `name_ownership_is_primary` filter dropped;
- a loop without `while`, or with `<=` in the loop condition;
- XML_Parse fed the whole buffer;
- entries with no decision stored;
- the end handler without its `strcmp(name, "policy")`;
- a start handler that counts only the elements it prints;
- in the FD list test:
  - the descriptor limit checked with `<=`;
  - `close(prev)` moved before the reopen;
  - `close(prev)` forgotten;
  - the dummy lists made consuming. The test's own assertions still pass on
    this mutant, but `TestRestoresFdTable` fails. The test cannot see a list
    that closes descriptors it does not own.

## 4. Findings

Details are in `PROJECT.json`. The shortest traces:
- **Ownership ties (spec divergence).** `AddName(a, allow, 1)` then
  `SetWildcard(deny, 1)`: the code allows `a`, but the spec says the later
  rule (deny) wins.
- **Connection uid never stored (code bug).** `connection_policy_entry_new`
  never assigns `entry->uid`. Every entry is keyed by uid 0 (root).
- **Connection groups never checked (spec gap).** `gid_tree` is filled but
  never read (`XXX: check the groups too`, line 304). A deny rule for a peer's
  group has no effect. The spec lists the question as open.
- **Unset error/path fields (code bug).** `transmission_policy_entry_new`
  leaves `error` and `path` uninitialised when they are absent.
- **Unterminated by-name key (code bug).** `transmission_policy_by_name_new`
  does not NUL-terminate the key it copies.
- **Failed loads return 0.** One run, `parser_failure_reported`, covers
  three code paths:
  - `XML_ParserCreate` returning NULL (line 609, unchecked): every parse
    fails, the error is printed, and `policy_parse` returns 0. This is the
    trace TLC shows.
  - A malformed file: the error is printed, and 0 is returned.
  - A short read with an error: it is treated as end of file.
- **Parser leaked.** The parser is leaked on the errno and EIO returns.
- **Priority 0 tie (code bug, connection_rules).** `set_uid_wildcard(deny, 0)` is ignored, because the tie
  between the wildcards goes to the gid wildcard (line 297), not to the newer
  rule. Only a priority of 0 reaches this.
- **Missing file diagnosed (no run).** A missing file is finalised as an empty parse, and
  the "no element found" diagnostic prints a NULL filename (lines 627 and 660).
  The spec says a missing file is an empty document, not an error.
- **Rules outside a policy listed (no run).** The start handler lists a
  `<deny>`/`<allow>` at level 2 whatever its parent is (line 588), so one
  under a top-level `<deny>` is printed with no `<policy>` open. The handlers
  only print, and spec section 9 says the loader's rejection of such
  elements is not implemented, so there is no promise of the code to check
  the listing against.

## 5. Not modelled

- **The loader's rule mapping.** Spec sections 4.5 and 5: contexts,
  `base << 32 | counter`, the dispatch of attributes to stores, and discarding
  a failed load. It has no code in the repository, because the handlers only
  print. A module for it would be translated from the spec's words, not from
  code. What the stores give any loader is stated by the reference checks of
  the priority runs, and the loader's `DistinctPriorities` contract by the
  runs with ties.
- **Send/receive direction and the broker's reload.** The spec's two
  transmission policies per direction, and the atomic swap of policy sets, are
  caller-side. `policy.c` has one `TransmissionPolicy` and no swap.
- **Composing the parser with the handlers.** The handlers never change what
  `policy_parse` returns, so the two parser modules are kept apart.
- **Expat's grammar.** It is abstracted as described above.
- **The empty-name out-of-bounds read** in `ownership_policy_check_allowed`
  (line 165). The broker only asks about valid names.
- **Crashes of pre-2.2 expat on a NULL parser.** The model assumes expat's
  NULL checks (see section 2).
- **The content of the missing-file diagnostic.** It prints a NULL filename.
- **`util/fdlist` itself.** Its code is not in the repository. The test's
  model takes fdlist's behaviour from the test's comments. An allocation
  failure inside fdlist is left out, because it would abort the test for a
  reason unrelated to descriptors.

## 6. Plan for further work

1. Done:
   - `PolicyDecision`, the three stores, `PolicyParser` and their runs.
   - `PolicyParserHandlers`.
   - `XML_ParserCreate` failure, and `FDListTest`.
   - The merged violation runs `connection_rules` and
     `transmission_heap_contents`.
2. Larger instances where time allows:
   - ownership over longer keys and more rules, to probe the comparator against
     the tree order;
   - transmission with two names owned by one subject, to check the order in
     which ownerships are folded.
3. The remaining hazards without a property:
   - the empty-name read at line 165, which the broker's name validation rules
     out;
   - the missing-file diagnostic at line 627, which needs a run of its own
     (the question is what is printed, not what is returned).
