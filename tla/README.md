# Stars AD Permission Analyzer: specifications

Stars answers one question, *what may this account do with this path?*, for a
single object (`analyze`) or a whole tree (`scan`), and it says when it cannot
know. This directory holds TLA+ models of the parts of the program that decide
that answer, explain it, keep it and show it: the principal resolver and the
readers of remote lists, the permission engine with its explanation, the
directory walker, the scan pipeline, the risk rules, the reports, and the window
of the GUI with its worker thread and scan history. TLC checks them on small
instances; TLAPS proves the safety properties of the permission engine, the walker,
the scan pipeline, the window, the resolver, the remote reads, the reports and the
findings for every instance.
`PROJECT.json` maps every definition to the source lines it models and lists
runs, mutants, findings and hazards.

## 1. Inventory

Paths are under `crates/`.

| Component | State | Operations | Talks to | What is hard | What makes it correct |
|---|---|---|---|---|---|
| Access token and local groups (`permission_engine/engine.rs`, `analysis/local_groups.rs`) | none; values passed on | build the token, expand local groups one level, UAC filtering from policies | reads target's group table and registry; feeds share and NTFS evaluation | the real token is known only up to the logon; reads fail partly | every token Windows may build is enclosed |
| Permission evaluation (`permission_engine`) | granted / denied bits per walk, provenance per ACE | stored-order walk, two bounding walks, owner rights, combination, diagnostics | share status and local groups in, `EffectivePermission` out | order of ACEs, uncertain trustees in Allow and Deny, several markers at once | shown mask and bounds agree with Windows' access check |
| Share evaluation (`share_scanner/scanner.rs`, `analysis/share.rs`) | as above, over the share DACL | `share_token`, `evaluate_share_dacl` | permission engine | a second token built apart from the first | same rules as NTFS |
| Determinability (`core/model.rs`) | diagnostics of a result | `uncertainty`, `effective_upper_bound` | exporters, risk rules, GUI | markers of different layers combine | no marker means exact; the upper bound is never exceeded |
| Directory walker (`fs_scanner/walker.rs`, `file_id.rs`, `cancel.rs`) | work stack, active chain, first paths, cancel flag | visit, leave, report, cancel | `on_item` callback | links, failing probes, cancel from another thread | no loop, no silent skip, honest errors |
| Security descriptor reader (`fs_scanner/acl.rs`) | cache keyed by a hash of the bytes | read, parse ACE, DACL and descriptor | walker, engine | colliding hashes, ACEs of unknown types | cached and fresh parses agree; what was not understood is counted |
| CLI scan (`cli/main.rs`) | channel, transaction, partial file | `run_scan`, other subcommands | walker thread, database, export file | two tasks, errors at every step, Ctrl-C, kill | whole runs or marked ones, whole exports or none, it ends |
| Scan history (`persistence/scan_store.rs`, `db.rs`, `migrations.rs`) | SQLite file, one write lock | begin, add, commit, roll back, delete, load | CLI, GUI, delta | several processes, lock held for hours | runs appear atomically |
| Delta (`persistence/delta.rs`) | none | compare two runs | GUI, CLI | runs deleted between click and answer, partial runs, duplicate paths | a delta is a change between runs that exist |
| CSV export (`exporter/csv.rs`) | `<target>.partial` and its handle | create, write, finish, drop | CLI | crash, second process | the target is a complete export |
| Reports and surfaces (`exporter`, `cli/output.rs`, `gui/tabs`) | none | render a result, a list, a stored run | CLI, GUI | seven surfaces, each with its own idea of what needs attention | no surface states as a fact what is not one |
| Explanation and graph (`permission_engine/engine.rs`, `viz`) | none; a function of the finished evaluation | steps, trace, nodes and edges | GUI, reports | which memberships may be left out, uncertain ACEs | every decided bit leads back to the account; nothing is stated that the evaluation did not find |
| Principal resolver (`ad_resolver`) | LDAP connections, caches | resolve name or SID, memberships with routes, cross-check with tokenGroups, trusts, Selective Authentication | engine | fallbacks, hidden and foreign objects, a directory that changes between two reads | every gap leaves a marker |
| Readers of remote lists (`ad_resolver/ldap_client.rs`, `local_groups.rs`, `enumerate.rs`, `uac_policy.rs`, `share_scanner`) | position in the list | page, range, single call | servers and domain controllers | failing pages, endless "more data", limits, time-outs | a list without a mark is whole |
| DFS (`analysis/dfs.rs`, `share_scanner/dfs.rs`) | none | choose the folder target | engine, walker | several targets, no answer of the client | the evaluated target is the one used, or one of several and marked so |
| Risk engine (`risk_engine/rules.rs`) | findings per rule | evaluate all, accumulate | CLI, GUI | streaming and batch forms | both give the same findings |
| GUI (`gui/worker.rs`, `main.rs`, `tabs/`) | request and event queues, wake-ups, tab state, one cancel token, one database connection | 15 requests, their events | everything above | answers to an older click, cancel races, a worker that dies, a locked database | what is shown belongs together, and every button comes back |
| Update manager (`update_manager`) | none | verify manifest, compare versions | GUI, CLI | downgrade, clock | only a newer, signed version |
| Validation, visualisation, Win32 wrappers (`validation`, `viz`, `win_safe`) | none | parse, draw, free | all | text | unit tests cover them |

## 2. Modules

| Module | Models | EXTENDS / INSTANCE |
|---|---|---|
| `AccessToken` | token, local groups, UAC, policies: pure operators named like the Rust functions | |
| `PermissionEngine` | one analysis: local groups, share, NTFS, result | `AccessToken` |
| `AccessCheck` | what Windows may really do (abstract), the properties of a result, the inductive invariant | `PermissionEngine` |
| `Explanation` | steps, trace and permission graph of a finished result | `AccessCheck` |
| `PermissionEngineProofs`, `AccessCheckProofs`, `ResultProofs` | theorems | the above, `TLAPS` |
| `TreeWalk` | `walk_dir` and `walk_tree_streaming` | |
| `ScanHistory` | abstract: what a reader of the database may rely on | |
| `ScanPipeline` | `run_scan`, walk task, channel, `ScanWriter`, `CsvFileWriter`, kill and restart | `H == INSTANCE ScanHistory` |
| `ScanStore` | the comparison of two stored runs | |
| `RequestService` | abstract: what a tab may rely on when it hands a request to the worker | |
| `GuiWorker` | tabs, request and event queues, wake-ups, pump, worker, cancel token, history | `ScanStore`; `RS == INSTANCE RequestService` |
| `TreeWalkProofs`, `ScanPipelineProofs`, `GuiWorkerProofs` | theorems | the module of the name, `TLAPS` |
| `SharedHistory` | the two windows composed with a CLI scan and a long reader | `GuiWorker` |
| `Directory` | the directory as LDAP searches see it; assembling memberships and routes | |
| `Trusts` | domains beyond the configured one, SID filtering, Selective Authentication | `Directory` |
| `PrincipalResolver` | from what was typed to an account and its groups | `Trusts` |
| `RemoteReads` | paged, ranged and single reads of lists on other machines | |
| `PrincipalResolverProofs`, `AuditProofs` | theorems about the resolver, the remote reads, the surfaces and the findings | the module of the name, `TLAPS` |
| `Results` | one result, its markers, uncertainty and upper bound | |
| `RiskRules` | the six rules | `Results` |
| `Surfaces` | console, CSV, JSON, HTML, window, lists, stored rows | `RiskRules` |
| `Audit` | the composition: reads, descriptors, results, rules, surfaces, store | `RemoteReads`, `Surfaces` |
| `MC...` | the small instances | |

### PermissionEngine

A request (`in`) carries the account as resolved, what the target answered
(policies, group table, share DACL), the object and the markers of other layers.
Access masks are sets of bits; GENERIC bits are expanded where the code does it.
`pc` follows `evaluate()`: `local` (collect_local_groups), `share`
(resolve_share_mask_status_explained), up to three share walks, `ntfs`, up to
three NTFS walks (the shown one and the two of logon_dependent_bounds),
`combine`, `done`. Every walk is a loop of one ACE per step, all six of them
instances of `WalkAce(w)` with the two match sets the code passes as closures
(`allow_matches`, `deny_matches`). The early returns (no share context, NULL
DACL, nothing uncertain) are separate disjuncts or targets of `pc`. The markers
are reduced to the layer they make uncertain (`uncertain_layer`), with the one
exception the code makes: an undeterminable logon does not matter when nothing
is granted and nothing else is open.

### AccessCheck

A *world* fixes what the request leaves open: the logon SIDs, Everyone for an
anonymous token, UAC filtering, the fate of Cryptographic Operators, Selective
Authentication. `Possible(w)` removes the worlds the lab measurements in
`docs/adr/0065`, `0070` to `0072`, `0076` and `0079` exclude. `Accessible` is the
declarative access check: a bit is granted by an applicable Allow that no
applicable Deny for the bit precedes. Nothing here uses the engine's walks.
These definitions are marked external: they describe Windows.

### Explanation

Everything is a function of the finished evaluation: which steps
`build_explanation` writes, which groups and ACE outcomes `trace_groups` keeps,
which memberships it collapses into "not listed", and the nodes, edges and looks
of `permission_graph_with`. A trustee outside the token is classified at the first
of its outcomes, as the loop of `trace_groups` does. A text is reduced to what it
claims (granted, denied, taken away, not applied, open). `ExplanationIsTrue` is the conjunction of four
parts: the bounds are named, the routes lead to the account, what is not listed
could be removed from the token without changing the result, and the steps agree
with the evaluation. `OwnerStepIsTrue` holds the owner step against every possible
world: what it calls granted is granted there, what it does not mention or calls
suppressed is not, and what it calls UNCERTAIN is granted exactly where User Account
Control leaves the owner group enabled. One case is excluded (section 5).

### TreeWalk

The stack, chain and first-path map of the code are variables; the head of
`stack` is its top. A disk has a node per object and a listing per directory, so
a link can lead anywhere, over SMB also one whose reparse flag the client does
not see. A probe may lose the identity or the final path of a directory listed
as `flaky`. `MaxPath` stands for the longest path Windows opens: it ends the
descent through a cycle whose identity is unknown. `Cancel` is another thread.

### ScanPipeline

`tree[p]` is what the walk would deliver; `Diagnostic` items belong to the visit
of the item before them, and the token is read only between visits. Files are
identities (`names` maps `<target>` and `<target>.partial` to them), so that
truncating a file someone else has open, renaming and removing by name behave as
they do on disk. The transaction is `written` and `lock`; readers see `history`.
`Fail(p)` is any step that returns an error together with everything the early
return drops; `Crash(p)` is a kill; `OtherProgram` creates the target.
`Overlap` says whether two scans may run at the same time.

### GuiWorker, RequestService, SharedHistory

Clicks, worker steps and pump steps are the three kinds of actions of the window
(`Window`), and `OtherWindow` is a second window of the program which deletes runs
from the same database at any moment; the UI thread
and the worker share the request queue, the event queue, the wake-ups of the
event loop and one cancellation token. Requests are numbered, and a run stored
for request *n* has number *n*, so that a property can say which request a row, a
note or a panel belongs to. A scan is many worker steps (before the walk, the
walk, one row at a time, done, persist, notify); other requests are one or a few.
Tabs that ask one question and show one answer are one family, of which two
members are instantiated: `analyze`, whose button is disabled while it runs, and
`identities`, whose button is not. The database is `store` (what is committed),
`lock` and the connection of the worker; `View` is what the worker reads inside a
transaction it has left open. Any COMMIT may fail, a scan may be rejected, the
worker may never start or die. `RequestService` says in four actions what a tab
needs; `ServesInOrder` is the refinement, with the queue of requests as `waiting`
and the final events of the event queue as `answered`. `SharedHistory` adds a CLI
scan and a long reader on the same database file.

`compare_scans` reads two targets and two lists of rows outside a transaction. The
model makes this two steps, `CompareTargets` and `CompareRows`, between which the
second window can delete. A finer split has no further outcome: a run that goes
between the two targets is either not found or goes before the rows are read, and one
that goes between the two lists of rows is either read whole or read as empty, in
which order two runs are deleted does not matter. The history variable `elsewhere`
remembers, for each run the second window deleted, how the worker may have read it:
with its rows, and as empty only if it went while the worker stood between the two
steps of a comparison of this run.

### Directory, Trusts, PrincipalResolver

The directories of all domains are one graph over the account (node 0) and groups
1..N. What a connection sees of it follows from the domain it is bound to, its
base, and whether it is a Global Catalog (which lists no members of domain-local
groups); groups can be hidden, untyped, without a SID, or unreadable. `Layers` is the
search "in chain", layer by layer, as a recursive function; `dist` and `chain_to` are the
shortest routes of the code. `pc` follows the pipeline: front end, lookup by SID, LSA,
a trusted domain's own controller, the entry, the closure, the cross-check with
`tokenGroups`, resource groups, the result, the check of the target. Each read is
one step which may fail; `DirectoryChanges` may come between any two.
`RealGroups` says what Windows puts into the token (marked external) and is
written without the resolver's operators. `IsDirectory` and `AreTrusts` say which
directories and trusts there are.

### RemoteReads and Audit

One behaviour of `RemoteReads` is one job, a sequence of calls; `srv` is what the
other machine really has (`IsServer`). Every answer may fail, time out, be empty, or
announce more data without end; `Kept` is the filter the code applies to an answer. `Audit` takes the outcome of the job (which groups, share,
policies or targets are known and what is marked), evaluates objects through the
descriptor cache, collects findings result by result, puts them on the surfaces,
stores and reloads them. `Outcomes(k)` are the results the gaps leave open.
The decision over a DACL is the first match per right here, because the walks
themselves are `AccessCheck`'s subject; the question of `Audit` is what a reader
is told when the token, the DACL, the share or the target may be another one.

## 3. Runs

| Run | Expect | Shows |
|---|---|---|
| `access_check` | pass, 58,149 states | walks are access checks; bounds, exactness, upper bound, provenance, SYNCHRONIZE note and explanation hold against every possible world |
| `tree_walk` | pass, 246,700 states | active chain, named routes, single enumeration, no silent skip, duplicates listed, partial walks reported, termination |
| `scan_pipeline` | pass, 396,710 states | the pipeline implements `ScanHistory`; exports are whole, their run is stored, failed scans leave nothing, across a kill and a second scan; every scan ends |
| `gui_window` | pass, 816,719 states | beside a second window that deletes runs: rows, reports, deltas and panels belong to the request they are shown for; a Cancel stops its own scan only; the window implements `RequestService`; every button comes back |
| `resolve` | pass, 127,938 states | a token without a marker is whole; routes exist; Orphaned is proven; a decided logon check is the controller's |
| `audit` | pass, 338,857 states | a list without a mark is whole; no surface overclaims, live or reloaded; findings are sound and, where the data is known, complete |
| `bounds_owner`, `refused_logon`, `duplicate_at_depth_limit`, `scan_overlap`, `delete_commit`, `fsp_lookup` | violation | the findings of section 6 |

**Bounds.** *access_check*: eleven kinds of accounts (domain, migrated,
Cryptographic Operators, organization SID, console administrator, the same with a
migrated group, local and built-in administrator under twelve policy combinations, unspecified logon, Guest,
anonymous under three policies), each with every DACL of up to two ACEs over the
trustees that matter to it (three where an uncertain SID meets a certain one, one
for the local administrators, whose variety lies in the policies),
two overlapping masks, one of them generic, plus an inherit-only ACE. A decision
about a bit involves at most one Allow and the Denies before it, and an
uncertain trustee matters only against a certain one, so two ACEs reach every
kind of interaction and three every order of them; the proofs remove the bound. *tree_walk*: three directories and a file, flat
and nested, one link per directory to any directory, every order of entries, a
flaky directory, 18 failing disks; limits none and 2; paths up to 5 names. A
cycle, a duplicate and both in one tree all occur. *scan_pipeline*: two processes one after the other, a walk of an object, a
diagnostic and an error, four combinations of options, a channel of one slot, so
it is full as soon as the consumer is one item behind; two scans are enough for
any pair of owners of one partial file. *gui_window*: two clicks that send a
request, or deletions of the second window, plus a reload of the history, two check
marks, two stored runs and a tree of one object. One click and one deletion are
enough to delete a run before, during and after its comparison. Every race of the window is between a request and the one before
it, which two requests give, and between a row of a scan and its end; deleting a
run needs a second one to be left. *resolve*: every graph of three groups (a
direct, a nested and a second route), each kind of gap, each kind of input, two
forests with a root and a child; a fourth group exceeds `MaxTokenSids`. *audit*: 47 jobs;
lists shorter and longer than a page, the limits of pages, rounds, the client and
the targets, entries that cannot be read; eight objects of which two share each
hash, two results per scan, one damaged column per stored row.

**Fairness.** `TreeWalk`: weak fairness of the walker's step, which is a running
thread; none for `Cancel`. `ScanPipeline`: weak fairness of the two tasks of a
process, a tokio main task and a blocking thread, neither of which can starve the
other; none for starting, cancelling, killing or other programs. `Fail` is part
of the fair main task because SQLite gives up waiting for the write lock.
`PermissionEngine` is sequential and has no liveness property.
`GuiWorker`: weak fairness of the worker thread, which blocks only in `recv`, and
of the pump, which the UI event loop runs whenever a wake-up is pending; none for
clicks, for cancelling, for the death of the worker or for other processes. A
request whose worker died is not claimed to be answered. The resolver and `Audit`
are sequential; they have no liveness property because every call has a time-out
or a bound, which is a step there.

## 4. Proofs

Each theorem holds for every value of the constants that satisfies the named
assumptions. Each states a property one of the runs checks, so TLC shows it on the
small instance with its mutants and TLAPS for all of them. The inductive invariants
stand in the component's module, where TLC checked them before they were proved.

| Module | Theorem | States |
|---|---|---|
| `PermissionEngineProofs` | `TypeCorrect` | `TypeOK` of an evaluation |
| `AccessCheckProofs` | `WalksAreAccessChecksAlways`, `BoundsContainAccessCheckAlways` | the six walks are access checks; every possible world lies within the bounds |
| `ResultProofs` | `ProvenanceIsExactAlways`, `ExactIsExactAlways`, `UpperBoundIsSafeAlways`, `SynchronizeGapIsRealAlways`, `ExplanationIsTrueAlways` | what a finished result says of itself is true, and so is how it is explained |
| `ScanPipelineProofs` | `PipelineTypeCorrect`, `HistoryIsNeverSilentlyPartial` (refinement of `ScanHistory`), `ExportIsWholeAlways`, `ExportedRunIsInHistoryAlways`, `FailedScanLeavesNoExportAlways` | any number of scans, walks of any length |
| `TreeWalkProofs` | `WalkTypeCorrect`, `ChainIsActivePathAlways`, `EnumeratedOnceAlways`, `NoSilentSkipAlways`, `PartialIsReportedAlways`, `RoutesAreNamedRightlyAlways`, `DuplicateContentIsListedAlways` | any disk, links, failures, limits |
| `GuiWorkerProofs` | `WindowTypeCorrect`, `ServesInOrderAlways` (refinement of `RequestService`), `TabsShowLatestAlways`, `PanelIsTrueAlways`, `RowsAreOfThisScanAlways`, `ShownScanIsStoredAlways`, `CancelIsOfThisScanAlways`, `DeltaIsRealAlways` | any number of clicks, tabs, stored runs and objects |
| `PrincipalResolverProofs` | `ResolutionTypeCorrect`, `TokenIsWholeOrMarkedAlways`, `RoutesAreRealAlways`, `OrphanedIsProvenAlways`, `LogonDecisionIsCertainAlways` | any number of groups, any membership graph, trusts, DACL of the target |
| `AuditProofs` | `UnmarkedIsTrueAlways`, `AuditTypeCorrect`, `NeverOverclaimsAlways`, `FindingsAreSoundAlways` | lists of any length, any page size and limits; any number of objects, ACEs, groups and results |

### The permission engine

Assumptions: `SidAssumption` (guest and filtered SIDs are SIDs and not well-known
ones, and no domain group UAC filters is one of the SIDs the kind of logon decides),
`RightsAssumption` (the named bits are rights, generic bits are apart and
map to rights), `InputsAssumption` (every input satisfies `IsInput`; among others,
an anonymous account is not listed as a member of Everyone, the memberships of an
account do not name Authenticated Users, the groups of the server's table have
different SIDs, and only a share whose ACL could be read has ACEs). Sets of SIDs and
rights and the lengths of DACLs are arbitrary.

The invariant is `EvaluationInv == StageInv /\ \A w \in Walks : WalkInv(w)`.
`WalkInv` says what a walk has decided about the ACEs before its position: decided
bits are granted or denied and never both, every granted bit has an Allow that no
Deny precedes, every denied bit a Deny that no Allow precedes. `StageInv` says
which walks are complete at which stage and what became of their outcome. At the
end of a walk `WalkInv` gives both inclusions of `Accessible` (lemma
`CompleteWalk`). The bounds follow in three steps: the token facts (the certain
SIDs are in every real token, and what is in a real token and matches an ACE is
certain, deny-only or uncertain), the monotonicity of `Accessible` in the Allow set
and its antitonicity in the Deny set, and the owner bits on either side. When no
walk was made, or both gave the same mask, the shown walk lies between them.

`ResultInv` adds what the result is made of: `ShareInv` (which share walks were
made, and that a share reported as evaluated had equal bounds), `ProvenanceInv`
(the ACEs before the position are explained by what each decided first, and the
contributions add up to the mask), and that a finished result is the combination of
both. Exactness then needs that the share walk encloses every possible token as
well (`ShareMatchesEnclose`, `EvaluatedShareIsExact`): the share token is built
apart from the NTFS one, so this is a second argument and not the first one again.

`ExplanationIsTrue` is about the presentations of a finished result and follows from
`ResultInv` part by part. That the bounds are named needs the closed form of the loop
that counts the bits a share took away (`ShareBitsAre`, by induction over the finite set
of rights). For the routes, an ACE that decided a bit names a trustee of a box
(`DecidedLeads`), and the edges that are drawn connect each box to the account. That what is not listed could
be removed from the token rests on `NamedAreKept` (a group an ACE names, by its SID or a
historical one, stays a box) and `SameTrustees` (two tokens that agree on every named
trustee have equal walks). The steps agree with the evaluation one by one
(`TextsAgree`). For the owner step, an owner among the certain SIDs is the account in
every world and one that is neither certain nor filtered in none (`OwnerCovered`), and
an owner group that may be filtered is enabled exactly in the worlds that do not filter
(`FilteredOwner`, `OwnerStepAgrees`). The
first form of the property was false and the attempt to prove it showed why: see
historical SIDs of filtered groups in section 6.

### The scan pipeline

Assumption `PipelineAssumption`: processes are apart from the markers for "nobody",
"no file" and "another program's file", walks are sequences, the channel has a
slot. `PipelineInv` says of each scan that written rows, channel and the item in
hand are consecutive items of its walk; with the end of the walk known before the
note and the COMMIT, a commit publishes a whole run or a marked prefix. That is a
step of `ScanHistory`; every other step leaves what readers see alone. This needs no
bound on how many scans overlap.

The export theorems assume `~ Overlap`; with overlapping scans they are false, which
is the run `scan_overlap`. `ExportInv` is `OneScan` (one scan runs at a time),
`NamesInv`, `WriterInv` (the open handle is on the file that is named
`<target>.partial`, at its end, and the file holds the rows of the objects consumed
so far), `PartialInv` and `TargetInv` (whose rows may stand under which name). The
auxiliary variable `kept` and `ObjectRows`, which says which rows a file must hold
without building them by recursion, exist so that this can be proved.

### The walk

Assumption `WalkAssumption`: every disk satisfies `IsDisk`: the root has a name, names
differ within a directory, an object has one real path, and no real path leads through
a link the client does not see. `ActiveInv` generalises "the chain is the active path" from the top of
the stack to every piece of work in it: the number of Leaves below it is its depth,
and the frame at that level is its parent. Counting Leaves (`Level`) needs
cardinality lemmas for what a push and a pop do to it. `CanonicalInv` (derived
canonical paths are the real ones on a local disk) and `SeenInv` (what was
enumerated is remembered under its key) give single enumeration; `PendingInv`
(every entry of an enumerated directory is told or on the stack) and `EndInv` give
the absence of silent skips, since an uncancelled walk ends with an empty stack.

That a duplicate is reported under the route where its content really is needs that a
canonical path leads to one object only. `LeadInv` says what a derived path is: the real
path of some object followed by names of listings, through at most one hidden link to
begin with. Two such decompositions of one path end at the same object, because a real
path never continues through a hidden link and names are unique. `FrameInv` then gives
every remembered key the object whose row stands under its path (and, without a depth
limit, whose content does), and `RouteInv` that no route is walked twice.

### The window

Assumption `GuiAssumption`: bounds are numbers, stored runs have numbers no request
of this window gets, and the kinds of requests are apart. `StepKinds` sorts every
step into eight groups (a tab asks, the worker answers, tells progress, finishes a
scan, starts, dies; the pump sees an event; everything else), and each invariant is
shown for each group:

* `ShapeInv`, `QueueInv`, `BoundInv`: fields, numbered channels, counters. Answers
  carry smaller numbers than waiting requests, in order; a request is in the
  channel exactly until its answer is. `ServesInOrder` follows by simulation: a click
  that asks is `Accept`, the final event of a handler `Answer`, the pump taking it
  `See`, a worker that never starts `Vanish`; the rest stutters.
* `TabInv`, `PanelInv`: the latest request of its kind waits, is in flight, or its
  answer is shown. Without the middle case the settled property is not inductive.
* `ScanInv`: while a scan is asked for, walked or in flight, everything about a scan
  in both channels is of the scan the tab started, and its summary comes last. It is
  what makes clearing the lists and resetting the token at Start safe.
* `RowsInv`: rows on screen followed by rows in flight are the rows the worker has
  evaluated; after the scan they are what it remembers. `ExportInv`: an export for
  the scan on screen is served after that scan.
* `StoredInv`: nothing is stored under the number of a waiting request, so a commit
  replaces no run. `CancelInv`: the token is set exactly if Cancel was clicked for
  this scan. `DeltaInv`: what a comparison reads, and has read, of its two runs is
  something they held for the worker (`ReadAs`), or the news that one of them was
  deleted by this window is still in flight *behind* it.

The steps of the window are sorted and proved apart from those of the second window
(`Window`, `SecondWindow`). The latter touches the store, `elsewhere` and the count of
clicks only: no invariant about tabs and channels sees it (`OtherKeepsCore`), deleting
makes nothing true of the store that was false (`OtherKeepsStored`), and a deletion adds
to `ReadAs` what it takes from the store (`OtherKeepsDelta`).

The requests of a kind (`Of`) and their ranks are defined by cardinality and not by
recursion so that they can be proved about.

### The resolver

Assumption `CasesAssumption`: the directories are well formed (`IsDirectory`: among
others, the primary group is a global security group of the account's own domain), a
computer has security groups only, a base that is a whole domain leaves nothing of what
the connection serves outside, a forest trust leads to another forest, and at most one
trust leads to a domain (`AreTrusts`).

* *Stages.* `ResolveInv` (`DirInv`, `MissInv`, `UnderInv`): the directory changes only in
  the memberships of the account and in its being there, an answer exists when the
  pipeline has ended and not before, and where the base is a whole domain a miss there
  means that the account is gone. This is `OrphanedIsProven`.
* *Closure of a graph.* `Layers` is characterised as the smallest set of groups that
  contains the first ones and is closed under visible memberships: after as many layers
  as there are groups a further one adds nothing, because each that adds something raises
  the number of groups reached (lemmas `LayersSettle`, `ReachedIs`). `dist` and `chain_to` are shown
  to give, for a group in the closure, a route of edges of minimal length. With this
  `assemble_memberships` is read as a statement about the graph: which groups it keeps,
  and when it leaves a gap.
* *One answer about several reads.* `MemberInv` relates the resolution under construction
  to what a directory that stood still would have said (`ReadInv`), and each membership
  to a route in the directory before or after the change (`IsRoute`). An answer without
  a gap then agrees with `tokenGroups` (`AnswerInv`), or, where these are withheld, with
  the graph. `TokenIsWholeOrMarked` for accounts of the domain and `RoutesAreReal` follow.
* *Through a trust.* `CrossInv` and `TrustedInv` (`LogonInv`): the trust the resolver
  picked leads to the account's domain, what it let cross is what passes, and the groups
  added so far are those of the SIDs already asked about. The token of a union of SIDs is
  the union of their tokens, and the token of a SID in the configured domain stays in that
  domain, so the loop over SIDs, whatever its order, ends with `RealGroups`. A decided
  Selective Authentication check is then the decision for the real token, with or without
  the SIDs only the logon adds, because a check in which such a SID could matter stays
  undecided.

The proofs of this module corrected the model of what is outside the code in several
places: a Global Catalog bind holds no members of domain-local groups, the SAM API lists
security groups only, and a logon passes a trust of the configured domain itself or a
forest trust of its root, never another trust some other domain of the forest holds.

### The remote reads

Assumptions `RemoteAssumption` (page size, limits and rounds are positive) and
`JobsAssumption` (`IsServer`: a local SID that is rewritten as foreign is none of BUILTIN,
groups whose scope admits none have no members in other domains, a DFS path that leads
back to itself is its own target and one that is a link has the targets of its list).
`ReadInv` says that the part of a list read so far is the front of what the server has,
up to the position the next call asks for (`GotInv`), that a finished call which reports
success returned all of it (`OutsInv`), that each row is the one of the entry at its
position or its identity is among the gaps (`RowsInv`), and that calls follow the plan of
the job (`CallsInv`). `ListInv` says the property of a list that has been returned. `Audit` extends these steps; its own steps leave the read alone, so the
theorem is about the composition.

### Results, surfaces and findings

`NeverOverclaims` and `FindingsAreSound` compare what a reader sees with `Outcomes(k)`,
every result the gaps leave open; `AuditInv` is the invariant that carries this from the
answer of another machine to the last table. Its parts:

* `ReturnedInv`: a list is open, returned or failed, and a failed one is marked. With
  `ListInv` this is all the later stages know of the reads.
* `FactsInv`, from `Begin` on: without a token marker and with the local groups read, the
  token is the real one (`TokenKnown`); another target implies an open
  `DfsTargetEvaluated`; a share that is applied without unread entries gives its own mask;
  an account state that is stated is the account's. `BeginFacts` proves it job by job.
* `CacheInv`: an entry of the descriptor cache is the parse of some object with its bytes.
  Bytes decide the parse (`BytesDecide`), so a hit equals a fresh read even when two
  objects share a hash (`CachedIs`).
* `PermsInv`: each result is the evaluation of its own object's descriptor with the facts
  of the run, and the accumulator holds, rule by rule, the findings of all of them in
  order. The step appends one result and its findings (`FlatAppend`).
* `StoreInv`: a stored row is its result with some columns damaged, a loaded one is what
  `into_permission` leaves of it.

The argument then goes over values, not steps. A result with no uncertain layer has one
outcome only (`KnownOutcomes`); each of the seven live pages states a value that is the
computed one or empty and asks for attention when a layer is uncertain (`PagesAre`), the marker colours
agree (`ColoursAgree`), a loaded row that lost a column is marked, unreadable or keeps its markers
(`LoadedIsTrue`), and lists, headers and trustee tables are treated one by one
(`ListingTrue`, `HeaderTrue`, `TrusteesWhole`). For the findings each rule is described by
what makes it fire (`EvaluateIs`), every outcome lies below the upper bound of the result
(`OutcomesAreBounded`), and what the rules say of that bound covers all below it
(`BoundIsCovered`).

Assumptions, besides those of the reads: `AuditAssumption` and, in `IsServer`, that the
shares of one server differ in their names. `AuditAssumption` says that the ACEs of an
object are a list and, with `IsAnswer`, what the resolver's answer must keep: groups it
lacks come with a token marker, and an account state it gives is the account's. The first
half is `TokenIsWholeOrMarkedAlways` for the accounts that theorem claims (section 5); the
second is a premise here.

The proof corrected the model in one place: `DfsMarker` had no marker whenever a path was
evaluated as it was asked, also when the folder's other targets are unknown, where the code
keeps an open one (`analysis/src/dfs.rs:139`). The run did not show it because no job had a
folder without a target in use; one has now.

### Only model-checked

* Liveness (`WalkTerminates`, `ScanEnds`, `EveryRequestAnswered`): fairness is
  outside what the prover supports. Every other property of the passing runs is a
  theorem.
* The six violation runs, which refute by counterexample.

## 5. Preconditions worth knowing

`BoundsContainAccessCheck`, `ExactIsExact`, `UpperBoundIsSafe` and
`SynchronizeGapIsReal` exclude an owner that is itself a group held only for some
logons (`OwnerKnown`), because the code gets that case wrong (run
`bounds_owner`). The bounds and the upper bound are only claimed when no ACE was
unsupported and no group is missing, as in the code: those results carry a marker
that says so. `DuplicateContentIsListed` is claimed for walks without a depth
limit; with one, see `duplicate_at_depth_limit`. `EnumeratedOnce` allows a second
listing whose row says that the identity was unknown.

`ExplanationIsTrue` shares `OwnerKnown`, and where the owner is a group that may be
filtered and an OWNER RIGHTS ACE is present it does not claim that the owner step is
true (`~ has_owner_rights_ace` in `OwnerStepIsTrue`); see section 6. Its routes leave out a Deny decided on a
SID that is held deny-only and is no membership itself (S-1-5-114, a historical
SID of a filtered group), for which see below.
`TokenIsWholeOrMarked` claims a token from a trusted domain only where the
configured base is a whole domain, not read through a Global Catalog, and the account
comes from another forest (`SeenFromDomain`, see `fsp_lookup`); so does
`LogonDecisionIsCertain`. For an account of the configured domain without the
controller's `tokenGroups` it claims the groups of the configured domain only, as far as
`memberOf` can be read, the directory stands still, and every group is shown with its
route. `UnmarkedIsTrue` and `NeverOverclaims` exclude answers nobody could tell from a
whole one (`Undetectable`: a lone group name that leads to a foreign alias, members in a
sibling domain or without `objectSid`, a trust object without a partner, a DFS path
nothing answers for), and `NeverOverclaims` the share overlay of the trustee list, for
which see below. `DeltaIsReal` lets a run read as empty that the second window deleted
between the reads of the comparison (the set with the empty list in `SecondWindow`).
`ShownScanIsStored` and `TabsShowLatest` speak of a window in which
nothing is under way (`Settled`).

## 6. Findings

1. `bounds_owner`: an owner group held only for some logons is in neither bound
   (`engine.rs:120`), against the comment at `engine.rs:1178`.
2. `refused_logon`: `effective_upper_bound` (`model.rs:1343`) ignores a refused
   logon as soon as any other marker is set, against `model.rs:1801`.
3. `duplicate_at_depth_limit`: a directory first met at `max_depth` is never
   listed (`walker.rs:781`), against `walker.rs:16`.
4. `scan_overlap`: two scans share `<target>.partial` (`csv.rs:151`), against ADR
   0086.
5. `delete_commit`: a deletion whose COMMIT is refused while another process
   reads returns without ROLLBACK (`scan_store.rs:141`). Its transaction and the
   write lock stay with the window, against the comment at `scan_store.rs:101`
   ("either everything is gone or nothing"). The database uses the default
   rollback journal, in which readers hold up a COMMIT.
6. `fsp_lookup`: a SID without an object under the configured base is taken as
   proof that it is in no group there (`trusted.rs:372`). Domains of one forest
   have no Foreign Security Principals, and a base that is an OU does not contain
   theirs, so domain-local groups are missing without a gap, against
   `docs/features-and-limitations.md:266`.

Two more are stated as exceptions of a passing property, and each is reproduced by
dropping its exception:

* The owner step is UNCERTAIN, "READ_CONTROL + WRITE_DAC are granted implicitly only
  while it is enabled (elevated session)" (`engine.rs:2337`), also if an OWNER RIGHTS ACE
  is in the DACL. `owner_rights_ace_present` (`engine.rs:84`) asks for a certain owner
  first, and an owner group that may be filtered is never one (`engine.rs:57`), so the
  filter of that step never removes it. The comment at `engine.rs:82` says that such an
  ACE "REPLACES the implicit grant", and `logon_dependent_bounds` does suppress it
  (`engine.rs:1216`). Without `~ has_owner_rights_ace`, `access_check` shows a console
  administrator, an object owned by Administrators and one ACE for S-1-3-4.
* A run the second window deletes after both targets were read (`delta.rs:215`) and
  before its rows are (`delta.rs:224`) is compared as empty, and the window reports that
  everything was removed or added. This is what `run_target` was added against
  (`delta.rs:183`: "before this guard, comparing against an unknown id silently read as
  'everything was removed'"). Without the empty list in `SecondWindow`, `gui_window`
  shows it.

Seen while modelling, without a run:

*Files and history.* Between the last look at the target and the rename
(`csv.rs:184-190`) a file of another program is overwritten without `--force`,
although the user guide says "An existing file is never overwritten silently". The
CSV of a cancelled scan carries no mark in the file itself. A JSON or HTML report
that cannot be written to its end stays truncated at its target. A failed consumer
does not stop the walk, although the comment at `main.rs:1730` says a closed
receiver does; the walk runs to its end unread. Comparing with a cancelled run
reports the paths it did not reach as removed. Rows stored before the diagnostics
column existed reload as exact.

*Explanations and surfaces.* A deny-only S-1-5-114 without a membership gets no
group node; an Allow for it is explained as not applied under certain filtering
and still enters the bounds. A historical SID of a filtered group is deny-only as
well and is no box of its own, so a Deny decided on it has no route to the account
(`engine.rs:2515-2581`). An ACE that names a historical SID of a group is
drawn as implicit. The CSV exports of groups and members carry no diagnostics. The
share overlay of the trustee list (`trustees.rs:35-77`) drops the number of
unsupported ACEs and an empty DACL. An owner SID that cannot be read is only
logged (`acl.rs:128-148`). The scan header states the share right as a fact for a
DFS path with other targets open, and calls the groups of a local account complete
when they have gaps. `row_severity` (`worker.rs:446`) says a SAM-fallback row stays
neutral; the code returns 1. `BROAD_GROUP_WRITE` looks only at the SIDs that
contributed to the shown result.

*Resolver and readers.* `assemble_memberships` drops a group reached only through a
distribution group if it can follow the route inside the search base
(`resolver.rs:926`). A route from the distribution group through a group outside the
base is not followed, so the group behind it stays, without a gap and, when
`tokenGroups` are withheld, uncontradicted; the comment at `resolver.rs:1087` calls such
a membership certain. For an account of a trusted domain the groups in the configured
domain are read through the configured connection, which may be a Global Catalog bind
that holds no members of domain-local groups, and the result says
`resolved_via_global_catalog: false` (`trusted.rs:432`), against `principal.rs:269`.
The members view skips members without `objectSid` and
does not see members of a sibling domain or outside an OU base, without a marker.
Withheld `tokenGroups` mean no cross-check and no gap. `served_domain_sid` caches
failures, and `check_for_target` ignores gaps. For an account of a trusted domain
the size limit of a token is applied to the groups of each read, never to their
sum (`trusted.rs:375`). The enumeration of users and groups
has no bound on "more data". A DFS path that cannot be opened and for which the
client has no answer is evaluated as given, without a marker.

*Window.* Scan rows reach the window only after the walk, although
`tabs/scan.rs:4` calls them streamed, and the evaluation after the walk cannot be
cancelled. A request sent just before the worker dies is lost. A failed load of
one run's errors can close the panel of a later one. `export_report` documents
"last scan/analysis", but an analysis never becomes the last one.

## 7. Not modelled

* The wording of steps, reports and console output, markup, and the placement of
  boxes in the graph: what a text states is kept, how it says it is not.
* Command-line parsing and input validation: decisions about characters.
* The update manager: one request and pure checks (version order, SHA-256,
  Ed25519) with no step that interleaves with another.
* Database migrations: a linear list of DDL statements, each in a transaction.
* Win32 wrappers: release of memory and handles, no protocol.
* View models, themes and suggestions of the GUI that keep no state of a request.
* The bytes of descriptors and trust records: parsing is modelled from the ACEs
  and records they hold; an owner that cannot be read is left out.

## 8. Plan

Modelling is done as far as the code keeps state or decides something that
properties can tell apart, and every safety and action property of the passing runs
is proved. What would come next follows the code:

1. A change to a handler is a change to its action; the lemma of that action is the
   first to fail, and names the conjunct of the invariant it breaks.
2. The resolver and `Audit` are composed through `IsAnswer`. A new kind of marker or input
   belongs there first.
3. The six violation runs turn into theorems once the code of section 6 is fixed; the
   exclusions of section 5, those of the owner step and of the second window among them,
   then go with them.
