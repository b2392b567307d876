# Verification of Axiom Insight

Axiom Insight reads Go source, builds an intermediate document of functions,
endpoints, dependencies and call edges, plans observability definitions from it
(metrics, spans, logs), and writes them as YAML (`si generate`) or as a Grafana
dashboard (`si dashboard`). This directory holds TLA+ modules translated from
that code, the TLC runs that check them on small instances, and the theorems
TLAPS checks about them. `PROJECT.json` ties every definition to the lines it
models, every property to the run that checks it and to a mutated definition
that breaks it, and lists the hazards and findings in full.

All paths below are relative to the repository's root.

## 1. The system

```
 Go source --goanalyzer--> analyzer result --semantic--> IR document
                                                            |
 si.yaml, flags --policy resolution--> Policy --------> planner.Plan
                                                            |  one GenerationPlan
                        +-----------------------------------+
                        v                                   v
             generator renderers                  dashboard catalog -> queries ->
             metrics/otel/logging.yaml            panels, layout, IDs -> JSON model
                        |                                   |
             generator/commit                     commitDashboardFile
             (several files, journal)             (one file, no journal)
```

The stages of one command are a sequence in one goroutine. Two things make them
concurrent: several commands may run on the same output directory, where the
file system is their only shared state; and the context a caller passes to the
planner may be cancelled by another goroutine at any time. Commands also fail
in the middle: any file system call may return an error, the process may be
killed between two calls, and the machine may lose power.

| component | state it keeps | operations | what is hard | what makes it correct |
|---|---|---|---|---|
| file commit (`generator/commit`, end of `executeGenerate`) | lock file, temporary, backup and target files; per run the journal and the rollback result | Prepare, Commit, rollback, Cleanup | concurrent runs, a failure at any of about a dozen calls a target, kill, power loss, leftovers of dead runs | no truncated target, rollback restores, success means published, one writer at a time, a dead run does not block for ever |
| dashboard commit (`commitDashboardFile`) | lock, temporary file, target | inspect, lock, write, sync, rename, sync the directory | the same, and the file is looked at three times | atomic and durable replacement, mutual exclusion, no leftovers, only the owner unlocks |
| planner (`generator/planner`) | index of the document, plan items by signal, violations, diagnostics, report | validate, seven sub-planners, cross-check, budget, strict mode, final validation | cancellation anywhere, checks spread over many stages, malformed documents | complete plan or none, sound IDs, limits on the merged plan, distinct names |
| CLI (`cmd/si-cli`) | stage and report of a run | scan, generate, dashboard | order of stages, exit codes, reports after failures | no file is touched before every signal is rendered |
| policy resolution (`generator/policy`) | resolved Policy and digest | defaults, file and flags merged | precedence, per-field presence | flags over file over defaults, digest equal exactly for equal policies |
| naming (`generator/naming`) | none | normalise, disambiguate, estimate, limit | collisions, truncation | names unique, deterministic, within length |
| renderers (`generator/render.go`, `validate.go`) | none | validate, render, decode back | checks the planner does not make | what is rendered decodes to the same document |
| plan IR validation (`ir/v1/generation_validate.go`) | none | validate | many kinds of target | IDs and targets of a valid plan |
| Go source analyzer (`compiler/goanalyzer`) | functions with their bodies, objects, endpoints, dependencies, edges, diagnostics | load and filter packages, collect functions, resolve calls, adapters, dependency rules | calls that cannot be resolved, test variants of a package, assignments read in order, partial input | what the code does is in the result or in a diagnostic, static targets are real |
| semantic conversion (`compiler/semantic`) | IDs and the converted lists | convert, check uniqueness | identities made of what an entity says, not of where it is | every reference resolves, only true duplicates are refused |
| dashboard catalog (`dashboard/builder.go`, `catalog.go`) | items with their metrics, spans and capabilities | map every endpoint and dependency | agreement with the planner on kinds, labels and span targets | every entity has an item or a diagnostic |
| dashboard queries and panels (`query`, `overview`, `category`) | queries, panels, rows | build, validate, limit | four builders that leave out what they cannot build | queries select series that exist, omissions are reported |
| dashboard IDs and layout (`ids.go`, `layout.go`) | IDs of a row, cursor of the grid | allocate, place, stack | hashes that collide, panels of different sizes | unique positive IDs, no overlap |

Interactions. The analyzer hands a document to the planner through the
semantic conversion. The commit stages share only the file system. The planner calls
its sub-planners in a fixed order and merges what they return; naming is called
by the sub-planners on their own items only. The renderers and the dashboard
catalog receive the finished plan and check it again, by rules of their own: the
places where the rules of the two sides differ are where a command fails late.

## 2. The modules

| module | models | lines of the code |
|---|---|---|
| `FileCommit` | the commit stage of `si generate`, one action per file system call | `generator/commit/commit.go`, `cmd/si-cli/generate.go` from the hand-over of the targets |
| `AllOrNothing` | abstract: a set of files is replaced as a whole or not at all | what the package promises |
| `MCFileCommit` | instance for TLC: symmetry, sets of failing calls | |
| `FileCommitProofs`, `RollbackProofs` | theorems about `FileCommit` | |
| `DashboardCommit` | the commit stage of `si dashboard` | `cmd/si-cli/dashboard.go` |
| `AtomicFile` | abstract: one file replaced atomically, persisted some time later, a power loss falling back to the last persisted version | |
| `DashboardCommitProofs` | theorems about `DashboardCommit`, the refinement included | |
| `AnalyzedDocument` | the document between analyzer and planner, and which of its references dangle | `ir/v1` types as used, `planner/validate.go`, `index.go` |
| `PlanItems` | what each sub-planner makes of one entity, series estimate, disambiguation | the seven sub-planners, `naming/collision.go`, `naming/cardinality.go`, the IDs |
| `Plans` | the sub-planners, what they walk, and the complete plan of a well-formed document | composites, wiring |
| `Planner` | `Planner.Plan` as stages that look at the context where the code does | `planner.go`, `validate.go`, `index.go`, `ir/v1/generation_validate.go` |
| `Answer` | abstract: a request is answered at most once, completely or with a refusal | what a caller of the planner relies on |
| `GeneratePipeline` | the planner followed by the renderers' validation and the hand-over to the commit stage | `executeGenerate`, `generator/validate.go` |
| `MCGenerate` | documents, policies and wirings for TLC | |
| `PlanFacts` | lemmas about the items of a plan, for the proofs of planner and dashboard | |
| `PlannerProofs` | theorems about `Planner` | |
| `Catalog` | items of the dashboard with references, capabilities, category and diagnostics | `dashboard/builder.go`, `catalog.go` |
| `Queries` | the queries built for an item or a family of items, and their validator | `dashboard/query`, `dashboard/overview` |
| `Panels` | the overview row and the rows of HTTP and RPC, Kafka and the other dependencies | `dashboard/overview`, `dashboard/category` |
| `DashboardPipeline` | catalog, rows, IDs, grid, limits, strict mode and last validation, in their order | `dashboard/pipeline`, `ids.go`, `layout.go`, `executeDashboard` |
| `MCDashboard` | documents, policies and hashes for TLC | |
| `DashboardProofs` | theorems about `DashboardPipeline` | |
| `GoCalls` | what one call becomes: edge, endpoint, dependency; the identities | `goanalyzer/functions.go`, `endpoints.go`, `dependencies.go`, `semantic/model.go` |
| `Scan` | one analysis from the configuration to the document | `goanalyzer/analyze.go`, `functions.go`, `semantic/convert.go`, `cmd/si-cli/main.go` |
| `MCScan` | sources, loader results and configurations for TLC | |
| `Lists`, `ListFacts` | lists as loops build them, and the facts about them and about recursion on a position that proofs cite | |
| `ScanProofs` | theorems about `Scan` | |

### FileCommit

State: the directory (`lock` and, for every target, the managed, temporary and
backup entry), where a file is a record of who wrote it and how far it got
(partial, complete, synced); for every run its program counter, position in the
target list, journal, the results of commit, rollback and clean-up; and history
(what was there when the run began) that only properties read. One action is one
file system call with the early return, fall-through or jump its error causes:
`AcquireLock` (mkdir and exclusive create, `commit.go:121-134`), `CheckTarget`
(135-157), `CreateTemp`, `WriteTemp`, `SyncTemp` (`writeTemp`), `StatTarget`,
`BackupTarget`, `ReplaceTarget` (188-200), `RollbackEntry` in reverse order from
the entry before the failing one (217-244), `SweepTemp`, `SweepBackup`,
`RemoveLock` (`Cleanup`, 246-263). The clean-up that `executeGenerate` also runs
after a refused Prepare (`generate.go:272-273`) is part of the model. `Kill` ends
a run between any two calls; `PowerLoss` also ends all others and may lose the
bytes of every file not synced. `Mode` says whether runs may overlap.

### DashboardCommit

The same style with one target, so the model can be finer: the unlocked
inspection for the report, `commitDashboardFile`'s own inspection before and
after it takes the lock, the loop of short writes (`writeDashboardBytes`), the
sync of the file, the rename and the sync of the directory. `cur` is the
directory as processes see it and `disk` what a power loss leaves, which may lag
behind entry by entry until `SyncDir`; `Flush` lets the kernel write an entry
early. The deferred removals of the temporary file and of the lock run in the
order Go runs them.

### PlanItems, Planner, GeneratePipeline

A document is a record of lists of functions, endpoints, dependencies and call
edges with IDs, as the decoder leaves it: nothing says that IDs are unique or
that references resolve. `pc` is the stage of `Plan` and `at` the position in
the list it walks; the context is looked at before every entity and between
stages, at the places the code does it. Items keep what the later stages tell
apart: ID, target and its kind, family, operation, name, name parts and number of
series. Names are tuples of parts; texts, units, attributes and log fields
are left out, except that a policy may redact a field, which counts as one
diagnostic. `GeneratePipeline` renders the enabled signals after the plan; a
refusal by a renderer ends the run before any file is touched.

### Catalog, Queries, Panels, DashboardPipeline

The dashboard is built by pure functions over the plan, so their data lives in
operators (`BuildCatalog`, `RateQuery`, `FamilyQuery`, `BuildOverview`,
`EndpointRow`, `KafkaRow`, `DependencyRow`, ...) and their order in the actions of
`DashboardPipeline`: the catalog, the overview row, which is given IDs and places
before any other row is planned, the four category builders (HTTP, RPC, Kafka,
dependencies), then IDs and grid of their rows, stacking, limits, strict mode, the
last validation. `TakeID` is one attempt of `resolveIDs`, with the hash as a
constant operator, so that collisions and the value zero can be asked for.
`PlacePanel` is one step of `placePanels`. A builder returns what it built, its
diagnostics and its error, and an error ends the call at that stage. A query
keeps what its validator and its meaning depend on (metric, matchers, labels it
sums by, rate, denominator); its PromQL text does not matter to any property.

### GoCalls, Scan

Each stage of the analysis walks one list, and one action handles one entry:
`ReadConfig`, `LoadPackages` (variants merged, exclusions applied), `CollectPackage`,
`CollectFunction`, `CollectCall`, `CollectEndpoint`, `CollectDependency`, then
`ToIR`. What the type checker and the syntax tree say of a call (what its callee
denotes, whether a text is constant, what is assigned to which variable) is an
input record, and what the code makes of it (resolution, adapters in use,
rules for requests and connections, identities, diagnostics) is the model.

### How the modules compose

`Scan` ends with a `Document`; `DocumentsArePlannable` states that it passes the
reference check of `AnalyzedDocument`, which is the one `Planner` runs.
`GeneratePipeline` EXTENDS `Planner`, and its final state `"ready"` is the initial
state of one run of `FileCommit` (the targets are the rendered signals; a plan of
the renderers is never partial, so the commit stage needs to know only how many
there are, its constant `N`). `DashboardPipeline` starts from `CompletePlan` of
`Plans`, which `CompleteOrNothing` shows to be the only plan the planner lets
out, and its final state `"built"` is the initial state of one run of `DashboardCommit`.

## 3. What the runs check

| run | instance | result |
|---|---|---|
| `commit_faults` | four serial runs, two targets, one run without `--force`, any two calls failing, up to two kills or power losses | holds: type, no truncated target, rollback restores what it does not report, originals stay recoverable, success publishes all, a refused run touches nothing, leftovers have a reported cause, a crash costs at most two later runs |
| `commit_atomic` | two overlapping runs, two failing calls other than the journal's own (backup, replacement, restore, undo, stat) | holds: one writer until a run is turned away by the lock; implements `AllOrNothing`; every run ends |
| `commit_overlap` | three overlapping runs, nothing fails | **violated**: two runs commit at once |
| `commit_lost` | one run, one failing rename | **violated**: the previous file is neither restored nor reported |
| `dashboard_commit` | three overlapping runs, one without `--force`, two failing calls, one crash | holds: mutual exclusion, no truncation, durable success, no residue, failure reports, only the owner unlocks, every run ends, implements `AtomicFile` |
| `planner` | documents of up to two entities a kind, seven policies, two wirings, cancellation anywhere | holds: sound plans, limits, exact strict plans, distinct names, invalid documents refused, complete or nothing, early cancellation fails |
| `planner_names` | the same, followed by the renderers | **violated**: a plan the renderer refuses for a repeated name |
| `dashboard` | documents of up to four entities, planner and dashboard policies, tight limits, four kinds of hash | holds: type, nothing overlaps, failures are explained, everything is shown or reported, queries of complete entities reach their series, strict dashboards are complete, the call ends |
| `dashboard_labels` | the same code on an endpoint with a method and no route | **violated**: a query selects an operation no series carries |
| `scan` | every pair of calls in one function and in two, chains, literals, calls between and after assignments, methods of one name, loader results, configurations | holds: type, scans fail only on twins, nothing is lost silently, documents are plannable, targets are those of what a call is passed where that can be read |
| `scan_chains` | one function with a chain of two calls | **violated**: unresolved calls end the scan |
| `scan_stale` | one variable given a request or a connection, then another that cannot be read, and a call with it | **violated**: the target of the first is called static |

### The six disagreements

* **The refused run unlocks.** `executeGenerate` runs `Cleanup` after every
  failed `Prepare`, and `Cleanup` removes `commit.lock` without knowing whose it
  is (`commit.go:258`). A second run that is turned away removes the first run's
  lock, and a third starts to commit beside it. The package comment and
  `README.md:191` promise that concurrent generations fail fast. The same
  clean-up is what lets the tool recover from the stale lock of a killed run
  (`CrashCostsTwoRuns`), so the two promises are kept by one line that breaks the
  first: `SoleWriterUntilRefusal` states what remains.
* **The failing entry is not rolled back.** Rollback starts at the entry before
  the failing one, whose backup `Cleanup` then deletes. `RollbackRestores` and
  `OriginalsRecoverable` state what does hold of all other failures.
* **Names collide across families.** Names are disambiguated among dependency
  metrics and inside each span family, not among endpoint metrics nor across
  families; the renderer, which checks the whole signal, then fails the command.
  `DistinctNames` states what the planner does provide.
* **An operation is derived twice.** The catalog names the operation of an HTTP
  endpoint after its method alone (`dashboard/builder.go:431`); the planner
  falls back to `http` when either method or route is missing. The panels of such an
  endpoint filter by an operation that no series carries and stay empty.
  `CompleteQueriesReachTheirSeries` states that all queries on metrics no such
  endpoint has do reach series. The exception is by metric and not by endpoint, because
  a complete and an incomplete gRPC endpoint of one function share their metrics, and the
  breakdown over that family asks for the operations of both.
* **A chain of unresolved calls ends the scan.** The ID of a call edge is made of
  caller, callee, resolution and start of the call (`semantic/model.go:188-194`), and
  the calls of a chain `a.F().G()` start at one place. Two unresolved ones get one
  ID, which the conversion refuses. The stories promise that calls which cannot be
  resolved do not interrupt the scan. `FailsOnlyOnTwins` states exactly which
  code has this effect.
* **A stale binding is called static.** The analyzer binds the requests and connections
  of a body before it looks at the calls (`dependencies.go:69-70`), and an assignment
  it cannot read leaves the binding before it in place (`dependencies.go:499`). A call
  with the variable is then reported with the first target, as static and without a
  diagnostic, where the stories forbid to make up a target and ask for an empty one.
  `TargetsAreHeld` states when the target is right: what the call is passed can be
  read when the call is reached, and its variable is not assigned to after it.

### Bounds, and why they are enough

*Runs.* Three overlapping runs are needed for the run that is turned away, the
one whose lock it removes, and the one that gets in (`commit_overlap`); that a
single writer remains until then needs two, and is a theorem for any number.
Serially, a dead run leaves at most a lock, temporary files and backups, and
two later runs clear them; four runs allow a run without `--force`, two crashes,
one of them during the recovery of the other, and the runs that recover. The
account behind `CrashCostsTwoRuns` is proved for any number of runs and crashes.
*Targets.* Two let one entry be committed, and one fail, be prepared or not yet
be reached, which are all the positions rollback distinguishes; overlapping runs
that only contend for the lock use one.
*Faults.* Two failing calls are a failure and a failure of its undo or
clean-up; more only repeat these.
*Dashboard size.* Two write units give a full and a short write; a
write of nothing is the failing case of the loop (`dashboard.go:686`).
*Documents.* Two entities of a kind let IDs, names and targets collide; the
lists are given in the wrong order on purpose, and malformed documents repeat or
omit an ID, share one between kinds, or refer to nothing. The policies turn each
option on, and set limits that a single sub-planner or only the union of two exceeds.
The wirings are all sub-planners and metrics only.
*Dashboards.* Up to four entities put two in a row, two rows in a family, and more
than the limits hold; the limits of the code are constants of the model, lowered
(3 targets a panel, 18 overview queries, 14 panels and 15 queries a category, 2
operations in a breakdown) so that each is met and each is exceeded. Texts are
either fit for names and matchers or not (`Uncontrolled`). The hashes are distinct,
collide twice within a row, collide between two rows, or come out zero.
*Sources.* What happens to a call depends on at most one other: the one in the same
chain, of the same identity, in the enclosing literal, or of the same function.
Therefore every pair of some fifty calls stands together in one function, and
pairs are put apart in two functions, in chains and in literals. Bindings are
followed through three assignments over two variables, with the call between
or after them: enough for a chain, a variable overwritten before the call or after
it, by what can be read and by what cannot, and an assignment out of order. The configurations are the
pairs of eight files, the one of the root and the one of `--config`.

### Fairness

`FairSpec` of both commit modules is weak fairness of each started run's next
step: a run is a process with nothing to wait for, because no call blocks and a
taken lock is an error and not a wait. Nothing is assumed of `Kill`, `PowerLoss`
or the start of runs, and a run that is killed has ended. `DashboardPipeline`
states weak fairness of its next step: it is one sequential call that
never waits. `Terminates` is worth stating there because the rehash of a panel
ID is a loop without a bound in the code. No liveness is stated of the planner and the
scan: their stages walk finite lists and never wait.

Deadlock is checked, except in the two runs of the dashboard and the three of the scan,
which model one call that returns and has no further step.

## 4. What is proved

Every theorem holds for all values of the constants under the named assumptions
next to their declaration (the set of runs is arbitrary, `N` is a positive
number, bounds on faults and crashes are natural numbers, documents are records
of finite lists).

**`FileCommitProofs`.** `TypeCorrect` in both modes. For serial runs, `NeverTruncated` and
`SuccessIsComplete`. Neither is inductive: that a rename puts a complete file in
place depends on where the run is between create, write, sync and rename, and on
nobody else having touched the temporary file. `SerialInv` says this: the types
(`TypeInv`), at most one run is active (`Serial`), a run still in its preparation
has not failed (`Fresh`), only temporary names ever hold half-written files
(`HalfOnlyTemp`), and the temporary file of a run's current target and the
targets before it are as far as its program counter says (`RunInv`). The assumption
`Mode = "serial"` is necessary: `commit_overlap` shows two runs past the lock.
`SoleWriter` needs no such assumption: as long as no run was turned away, the lock
is held while some run is past it, and only its holder removes it (`LockInv`; in
the clean-up it is the journal that tells a holder from a refused run).

**`RollbackProofs`.** For serial runs, `RefusalIsClean`, `RollbackIsExact`,
`OriginalsSurvive`, `CleanupIsComplete`, and, when no crash happens and none of the
calls the journal relies on fails, `AllOrNothingHolds`. The invariants describe every
target by its position relative to the loop of `Commit` and to the reverse loop of
rollback: not reached, at hand, replaced, restored. That the sweep misses
nothing follows because the entries opened are a prefix of the list. `ExactInv`
adds for the refinement that the journal tells the truth about what existed, that
targets yet to be rolled back are published, and that all others are as they were.

Its last part is `Recovery`: any number of serial runs, kills and power losses, no
failing call: at most two forced runs fail for each crash. The argument is an
account. `Debt` counts the failed forced runs, the temporary files that no run is
going to sweep, and one for a lock that nobody will remove. A crash adds at most
two to it (the temporary file of the target at hand and the lock); a failed run
moves one unit from what is left behind to what has failed, because it removes
what it fails on; no other step adds to it.

**`DashboardCommitProofs`.** `TypeCorrect`, `Exclusion`, `Untruncated`, `Durable`,
`OwnerUnlocks`, `Swept`, `FailureExplained` and `Refinement`, with no restriction on
concurrency, faults or crashes. The argument follows the lock: a run past
`AcquireLock` owns the lock entry, hence at most one is; hence the temporary file is
its own and what it renamed is what it wrote and synced. `Swept` and
`FailureExplained` add how many calls have failed at each program
counter, and who published the target a run finds. The refinement maps
`cur.target` and `disk.target` to the abstract file and its durable version, and
shows that each step is a replacement, a persist, a loss or a stutter.

**`PlannerProofs`.** `Soundness` (a plan that leaves the planner has unique IDs and one
kind of entity for each target), `Budget` (`BudgetInv` carries the limits from
the check to the end), `Cancellation` (a cancellation before the last signal
begins ends in a refusal) and `Validation` (`IndexInv`: what the index holds is
what the lists up to the current position hold, so an empty set of violations
means unique IDs and resolved references).

By `Completeness` the planner implements `Answer`, so a
caller gets the plan of all enabled and wired signals or none. Its invariant
`AnswerInv` adds to `IndexInv` that `plan` is at every stage a function of the
input and the stage (`PlanAt`), and `part` of the input and the position.

`TypeCorrect`, `Names` and `Strictness` follow. Items are a function of
their entity (`PlanFacts`), so two items of one family with one resolved name
belong to one entity, and the suffix that resolves a collision is the ID that tells
entities apart. `StrictInv` says that as long as nothing was reported, everything
the planner has walked is exactly planned. The type invariant needs that names
are made of words of the document and of the mapping tables.

**`ListFacts`.** No theorem about the system, only what the proofs about lists rest
on. The library's induction theorems take an operator, so induction is stated here
for a set instead: a set with 0 and the successors of its members has every natural
number (`NatSetInduction`), because the finite sets `0..n` are well-founded. From it follow
that a function defined by recursion on a position exists and is what its equation says,
and that `FlattenSeq` and `Kept` have exactly the elements of their parts, in order.

**`ScanProofs`.** All five invariants of the scan, for sources of any size, from
`InputsAssumption` alone: inputs have their types, and each function a number of its own, as
the type checker gives each an object. None of the five is inductive; what they say of a converted scan
must be known of every list in every stage. `IInv` has one part for each: the position lies in the
list of its stage (`PositionInv`), the adapters in use are those asked for unless the
configuration is reported (`ConfigInv`), one variant of each package is kept
(`PackagesInv`), every function seen has its own identity, real and with its body, or is missing
because a same one came before it or the function around it is missing (`FunctionsInv`),
the edges, endpoints and dependencies are what the first `at - 1` sites give
(`EdgesInv`, `EndpointsInv`, `DependenciesInv`), a function lists exactly what names it
(`Listed`), diagnostics have known codes (`DiagnosticsInv`), and the conversion decided by
the uniqueness of identities (`OutcomeInv`). `SpecIInv` says that it is an invariant. `ScanFailsOnlyOnTwins`
then has to read the parts of an edge or of an endpoint back from its identity, which is
possible because the optional parts are told apart by their number.
`ScanTargetsAreHeld` compares two walks over the assignments of a body, that of the
analysis, which skips what it cannot read, and that of the program (`Held`). By induction,
after `n` of them whatever a variable holds that can be read is what the analysis has bound
(`HeldIsBound`). The analysis goes on to the end of the body, and a variable
keeps its binding as long as it is not assigned to (`BindingStays`).

**`DashboardProofs`.** All six invariants of the dashboard: `DashboardTypeOK`, `Geometry`,
`FailuresExplained`, `ItemsShown`, `SeriesReached`, `StrictComplete`. The data of this
component is in pure functions, so most of the argument is about one input, level by level:

* what the plan has for an entity (from `PlanFacts`): an owner's metrics are of four purposes,
  of one type each, and equal names mean equal types and attributes;
* the items of the catalog (`GoodItem`): they exist exactly for the entities with a category,
  client calls among them if the policy asks for these; their metrics and spans are those planned for them, and their operation is the constant of
  the metrics unless the endpoint is incomplete;
* the queries of an item (`ItemQuery`) and of a family (`FamilyQuery`): each has the key its
  panel expects, is accepted by the validator (`ValidatePlan`, `ValidateOverviewPlan`), and
  reaches a series unless its metric has an incomplete owner. That no query of a builder is
  refused, which is the hard part of `FailuresExplained`, follows because matchers use the
  attributes of the metric and controlled values only (`Fit`);
* the builders: each answers (`Answers`) with rows of sound panels or a limit, and, if it
  answers, serves the items it is due (`Serves`): an item is on a panel by one of its metrics,
  its span in a link, or a diagnostic names it. The four builders are due all items between them.

`PipelineInv` then has five parts. `GridInv` is about the geometry: what is placed lies above
the cursor's line or to the left of the cursor on it, and never reaches below
the height of the line; a finished row has a lowest block, so `Max` is its lower edge; stacked
rows end above `top`. `PositionInv` ties stage, position and number of rendered rows.
`IDsInv` says that panels at hand have the IDs of their keys, and that these are natural numbers. `ContentInv`
says that the panels so far are sound and serve the items of the overview and of the
first `step - 1` builders, and that a strict call past its checks has no warning. The fifth part
is `FailuresAreExplained` itself, since a reason has to be kept after the step that failed.

The theorems rest on two assumptions. `InputsAssumption`: documents are
lists of entities that pass the planner's own validation, names and operations are normalized and
therefore fit for a query (`naming/normalize.go`), the service has a name, and the plan is sound, which is
`PlanIsSound`, proved of whatever leaves `Planner`. `UncontrolledAssumption`: the words of the
mapping tables ("count", "http", "sql", ...) are fit for names. The hash is arbitrary within its 31 bits (`ids.go:147`).

Only model-checked:

* liveness (`EveryRunEnds` of both commits, `Terminates`) and everything about
  ENABLED, which these provers cannot treat;
* `PublishesAllOrNothing` for overlapping runs (the theorem is about serial ones).

The properties of the six runs that expect a violation are false and have no theorem.

## 5. What is not modelled, and what to know about the models

*Commit stages.* Users who edit files while a command runs; two `generate` runs
that select different signals; the durability of directory entries in
`FileCommit` (the code syncs no directory there) and of the created output
directory in `DashboardCommit`. An `Lstat` error other than absence is read as
absence by `commit.go:188`, and this is modelled. Two observations that no
document contradicts: after a crash the lock of `si dashboard` stays until a
user removes it, unlike that of `si generate`; and a run reports failure
("target changed during commit", `dashboard.go:305-306`) although it published
its file, when another run replaced the target between its two looks
(`FailedAfterPublishing` states exactly when). One
disagreement has no run of its own, because it shows in a single step of the model: a kill between the
backup (`BackupTarget`, `commit.go:191`) and the replacement (`ReplaceTarget`, `commit.go:195`)
leaves no file under the managed name, and no later run moves the backup back, where the package
comment (`doc.go:17-19`) speaks of complete old and new files only. The previous content
is then in the backup (`OriginalsRecoverable`).

*Planner.* Attributes, log fields, units, span events and the wording of the
report; sorting of items (the plan is a set of items per signal); logging status and overlap checks;
character-level normalisation; the truncation
of names. Diagnostics are warnings only, because no sub-planner can produce one
of error level. On a cancellation in the middle of the cross-check the code
returns the violations found so far and its caller takes them for all
(`planner.go:285-356`): the model allows any subset, and `ValidatePlan` is what
keeps `PlanIsSound`. Today's `main` calls the command without a cancellable
context (`main.go:116`), so cancellation concerns other callers of the package.

*Dashboard.* PromQL and JSON text, titles, units, legends, the text of Tempo links,
provenance, the dashboard's UID, and the report of differences to the file in place. Of the last
validation, identifiers of rows, lengths of titles and descriptions, the links, the second
decoding and the parse of each query (`category/panels.go:147`) are left out: they look at text. The
diagnostic of an operation unfit for a link (`kafka.go:440-445`) is left out because planned
operations are normalized (`InputsAssumption`). Observations beside the
finding: error ratios count the statuses `5[0-9]{2}|error` (`query/types.go:14`), where
`docs/jira/phase-2-jira-stories.md:143` has `error|timeout|cancelled|unknown`; panel IDs are unique in a row only, so a clash
between rows is met by the last validation as RENDER_ERROR and no rehash; spans of call
edges, which the planner emits under its internal-calls option, make the catalog fail
(`builder.go:245`); span names with braces or a receiver are dropped from links;
strict mode needs gauges, because the overview has a panel for them; an unfit
service name drops every link; and an overview beyond its query limit fails the call
instead of being cut. Strict mode does not
report every missing link: with tracing switched off, an endpoint lacks its span with a diagnostic, while the
rows of dependencies have no links and say nothing (`category/kafka.go:429` continues
without one). `StrictDashboardsAreComplete` therefore asks dependencies for links to planned spans only.

*Scan.* The walk over the syntax tree and the type checker; function literals in
package-level variables, which the analyzer never visits; source locations with
the conversion's diagnostics of missing ones (`convert.go:239-260`), which the analyzer never
causes since it gives every entity its place; sorting and summary counts; reports and exit codes. One
list of files with their functions stands for the syntax of a package, whose lists of compiled
and of other files count for the choice of a variant only. A body is read as a straight line: its
assignments and calls are in one order, without branches, loops or parallel assignment, and a request
whose fields are changed after it was made keeps its target. Observations beside the finding:
one handler registered twice for one method and route fails the whole scan
(`FailsOnlyOnTwins`); a second function with the same package name, receiver and name
is dropped without a diagnostic; an `--exclude` pattern that meets one file drops
its package; the command line accepts the adapter name `robfig/cron/v3`, which the
analyzer reads as INVALID_CONFIG and drops all adapters; an empty `--config` file makes
the analyzer read the file of the source root; with `--include-tests`, calls into a
package whose test variant was kept become unresolved; and generated gRPC clients
inside the project are no dependencies.

*Policy resolution.* Generation policy and dashboard policy are merged field by field,
flags over `si.yaml` over defaults, each field by one line
(`generator/policy/policy.go:126-127`), and a digest is taken of the result: pure
functions without state, which a model would restate. The other modules range
over their outcomes. Read beside the rule: quantiles of the file are used only
if the file itself enables summaries (`policy.go:225-229`); an error path indexes the
list after normalisation, not the one the user wrote; only the first YAML document of
the file is read.

*Elsewhere.* Generated protobuf code, test fixtures, the release script and the
gRPC adapters of the analyzer plugins have no state or logic of their own. Character-level
naming, the attribute allowlist and the renderers' YAML are conversions of text
with no property about them here.

## 6. Plan

Done, in order of importance:

1. `FileCommit`, `AllOrNothing`: the one place where a run can destroy a user's files.
2. `DashboardCommit`, `AtomicFile`: the second one.
3. `AnalyzedDocument`, `PlanItems`, `Plans`, `Planner`, `Answer`, `GeneratePipeline`: the
   core of the program.
4. `Catalog`, `Queries`, `Panels`, `DashboardPipeline`: what a dashboard shows of a plan.
5. `GoCalls`, `Scan`: what documents the planner really receives.
6. Theorems for every invariant of the two commit stages, of the planner, of the scan and of
   the dashboard.

Left:

* `PublishesAllOrNothing` as a theorem for overlapping runs, under the assumption that no
  run is turned away by the lock;
* the reports and exit codes of the three commands, and the precedence of policies.
