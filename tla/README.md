# Cartographer in TLA+

TLA+ models of the controllers of Cartographer, TLC runs that check them on
small instances, and TLAPS proofs. The reference is the Go code under `src/`;
`PROJECT.json` maps every definition to the lines it models.

## The system

Cartographer is a Kubernetes controller. A *workload* is selected by a *supply
chain* (labels and selectors), which lists resources; each resource names a
template, or options of which one is chosen. Reconciling the workload stamps
every template into an object, with the outputs of earlier resources as inputs,
applies the object with the workload's service account, reads its output and
records all of it in the workload's status. Deliverables and deliveries are the
same thing on the delivery side, where a deployment template passes its input on
once it is deployed; runnables create a new immutable object (a *run*) per change
of their inputs. `cartotest` stamps templates offline and compares the result
with files.

| component | state | operations | correct when | module |
|---|---|---|---|---|
| `conditions` ConditionManager | previous and collected conditions, status, reason, changed | New, Add, Finalize | the top level condition summarises the others; a skipped status write loses nothing | ConditionManager |
| `tracker/dependency` | key -> owner -> lease, under a mutex | Track, Lookup, ClearTracked | a change of a dependency finds every owner that depends on it, and nobody else | DependencyTracker |
| `controllers` workload | none; the status on the API server | Reconcile | objects are neither leaked nor deleted in use; the status tells the truth; every change is acted on in the end | WorkloadReconciler |
| `controllers` deliverable | the same | Reconcile | what is passed on is deployed, besides | DeliverableReconciler |
| `controllers` supply chain, delivery | none | Reconcile | Ready exactly when all templates exist | BlueprintReconciler |
| `controllers` runnable, `realizer/runnable`, `gc` | runs on the cluster, outputs in the status | Reconcile, Realize, Cleanup | no run without a cause; outputs come from the latest success; retention keeps the newest | RunnableReconciler, ImmutableRuns, RunLedger |
| `realizer` | outputs and statuses of one reconciliation | Realize, Do | one failing resource does not disturb the others | the reconcilers, BlueprintPipeline |
| `repository` and its cache | last submitted and persisted objects | Ensure*, Get*, List*, Delete, StatusUpdate | an object is created or patched exactly when it differs | the reconcilers, ImmutableRuns |
| `satoken` | tokens by account | GetServiceAccountToken, Cleanup | never hands out an expired token or that of an earlier account | TokenManager |
| `mapper`, `enqueuer`, `cmd` | none | event -> requests | whoever used what has changed is woken | WakeUps |
| `selector` | none | pure | the most specific match, or none | Selectors |
| webhooks | none | validation | what is admitted can be realized | Admission |
| `templates`, `eval`, params, inputs | none | pure | every value comes from where the documentation says | Templating |
| `stamp`, `healthcheck`, `statuses`, `errors`, `events` | none | pure | the report of an owner is honest | Reports, BlueprintPipeline |
| `testing` (cartotest) | the suite | build, run, report | PASS only if every test holds with its own supply chain and what its path gives it | Cartotest |

Interaction: informers deliver events; `mapper` and `enqueuer` look the changed
key up in the dependency tracker and put its owners in the work queue; a worker
reconciles an owner (one worker per owner at a time, several owners at once);
the reconciliation reads from the informer caches, writes to the API server,
renews its entries in the tracker, and ends with a status update that the API
server refuses when the owner has a newer version. Blueprint reconcilers write
the Ready condition that the reconcilers of owners read.

What is hard: edits, events and restarts between any two API calls of a
reconciliation; stale copies in the informer cache; one resource, one deletion
or one watch of several failing; errors that are retried and errors that wait
for an event; leases that must outlive reconciliations that return early;
objects whose controllers are still busy with the previous input; create calls
whose answer is lost; tokens that are refreshed twice. The `hazards` of
`PROJECT.json` list these at their lines, with the properties about them.

## Modules

### Shared state under concurrency

* `ConditionManager` (`pkg/conditions/condition_manager.go`). `persisted` is the
  list in the owner's status, `conditions`, `status`, `reason`, `changed` are the
  fields of the struct. Any number of reconciliations run one after the other;
  `WriteStatus` is the caller, which writes the list or not (it has other
  reasons to write, and the write may fail). Messages travel with reasons and
  are left out. `added` is a history variable.
* `DependencyTracker` (`pkg/tracker/dependency/tracker.go`). `mapping` is the map;
  owners call it as the reconcilers do: clear, then track key by key
  (workload, deliverable, runnable), track only (supply chain, delivery), return
  early, or clear because the owner is gone. Each call is one step, as it holds
  the mutex; steps of different owners interleave, and `Lookup` and the clock
  come between. `Tick` lets no owner go unreconciled longer than the resync
  period. `last`, `deps`, `started` and `missed` are history.
* `TokenManager` (`pkg/satoken/token_manager.go`). `tokens` is the cache, `calls` the
  callers: `GetServiceAccountToken` is `get` under the read lock, the request to
  the API server is open until `CreateToken` or `CreateTokenFails`, `SetToken` is
  `set` under the write lock. Time is relative (`left` until expiry), so it never
  ends. `Cleanup`, `NewManager` (a restart), and a service account that is deleted
  and created again under another UID come in between. A call may hold an
  account of its informer cache that is gone already.

### Reconcilers

* `WorkloadReconciler` (`pkg/controllers/workload_reconciler.go`, `common.go`,
  `pkg/realizer`, and what it uses of `repository`, `statuses`, `errors`,
  `mapper`). One workload. The API server is `wl`, `sel`, `tmpls`, `sa`,
  `allowed`, `objs`; the manager is `cache`, `events`, `queue`, `tracked`,
  `watching`; a reconciliation is `pc` and `rec`, one step per group of API calls.

  | step | action | code |
  |---|---|---|
  | idle | `GetWorkload`, `WorkloadGone`, `GetWorkloadFails` | Reconcile, 81-95 |
  | select | `GetSupplyChain` | getSupplyChainsForWorkload, readiness |
  | account | `GetServiceAccount` | account, token, client, 126-148 |
  | realize | `DoWithoutTemplate`, `DoStampFails`, `DoMutable`, one per resource | Realize, Do, doMutable, doPassthrough |
  | realize (end) | `ClearTracked` | trackDependencies, first call |
  | track | `TrackDependencies` | trackDependencies, the rest |
  | orphans | `FindOrphans` | cleanupOrphanedObjects, first loop |
  | delete | `DeleteOrphan`, then `WatchStamped` | second loop; StampedTracker.Watch |
  | update | `StatusUpdated`, `StatusUpdateFails`, `StatusUnchanged` | completeReconciliation |

  `Fault` marks a call that fails. `DeliverOwner`, `DeliverEvent`, `Resync` and
  `Restart` are controller-runtime; the actions under "Users and other
  controllers" are everybody else. A read of a template, a chain or an account
  goes to an informer cache: an edit in the model is the moment it reaches that
  cache, its event is delivered later. The workload itself has a cached copy of
  its own, because the conflict check is made against the API server.

  Left out: messages, inputs and times of a status (a status that differs in them
  alone is one more write with the same content), the healthy condition (in
  `Reports`), the supply chain reference, the immutable lifecycle (in
  `DeliverableReconciler`), lease expiry (in `DependencyTracker`). Objects are
  named after what the template stamps and each is a kind of its own, since
  watches are per kind. `excused` is history: an object whose reference could not
  be written (conflict, crash, failed call) or whose clean-up was given up. The
  code leaks those, and the orphan property says that it leaks no others.

* `RunnableReconciler` (`pkg/controllers/runnable_reconciler.go`,
  `pkg/realizer/runnable`, `templates/cluster_run_template.go`, and the immutable
  half of the repository). `runs` is every run there ever was with what became of
  it; `submitted` is the repository's cache. The steps are `GetRunnable` (with
  ClearTracked), `GetServiceAccount` (with the rest of trackDependencies, which
  comes before any read), `Stamp` (template, resolveSelector, Stamp),
  `EnsureImmutableObject`, `ListRuns`, `DeleteRun` (one per run), `WatchRuns` and
  the status update; a list that fails leaves a stamped object whose kind is
  watched all the same. A create call may fail after it has taken effect. A
  reconciliation that fails hands on no outputs, and the status loses them.
  The spec of a run (`SpecOf`) is the template's name, what the template stamps
  (`stamps` of its content), the input and the selected object: a run is created when
  any of them differs from what the repository's cache holds. The other half of a
  content (`kind`) says whether it can be stamped and what is read from a success.
  `causes` counts what calls for a run: a change of the runnable, of what a template
  stamps (`Changes`) or of the selected object, a run deleted or edited, a restart, a
  lost answer, a tie that costs the newest run. `excused` names why a settled
  runnable need not be up to date.
* `ImmutableRuns`: what runnables and immutable templates share, as operators: the
  hits of the cache, retention (a set of possible sets to delete, since the sort
  is unstable and creation times are seconds) and the latest success.
* `RunLedger`: the abstract specification of a runnable. Runs start and end; one
  is retired only if another one of its template that ended the same way and is not
  older has not been retired; an output is published only of a success, and not of
  an older one while the one published before is present; or it is withdrawn.
  `RunnableReconciler` implements it (`Ledger == INSTANCE RunLedger WITH ...`, property `KeepsLedger`).
* `BlueprintReconciler` (`delivery_reconciler.go`, `supplychain_reconciler.go`): the
  templates of the blueprint are read and tracked one after the other, then the
  Ready condition is written. `missed` marks the window between reading and
  tracking, in which an event finds nobody.
* `DeliverableReconciler` (`deliverable_reconciler.go`, doMutable and doImmutable,
  `DeploymentPassThroughReader`, both equivalence tests), composed with
  `BlueprintReconciler`. A delivery with a source and a deployment; the controller
  of the deployment objects begins with a generation and ends with it later, and
  the object may be patched in between. `deployed` is what was really deployed,
  `lost` the objects whose reference did not reach the status. The informer of the
  deliverable is up to date here (it is behind in `WorkloadReconciler`).

### Rules

The reconcilers above abstract contents to outcomes. These modules are about the
contents, and follow the sequential part of a reconciliation.

* `Selectors`: requirements, labels, expressions, scores and ties
  (`pkg/selector`, `repository/selector_matcher.go`), the choice of the blueprint and
  of an option.
* `Admission`: the webhooks, by verdict. The order of checks and the messages are
  left out. A field of a selector is compared with the allowed prefixes by
  characters, as validPath does (`HasPrefix`), so that `envFrom` goes for `env`.
* `Templating`: the merge of parameters, inputs, context and stamping, the labels of
  what is stamped, and the reader, lifecycle and retention policy of every kind of
  template. A template is the set of tags it interpolates, each a path that the
  context holds or not.
* `Reports`: output readers, readiness of deployments, health rules, errors and
  their classes, conditions and statuses.
* `BlueprintPipeline`: composes these. A case is submitted, admitted, selected and
  realized resource by resource, with the fate of each object (applied with some
  contents, rejected, forbidden, template gone, ytt fails, list fails, a kind the
  REST mapper does not know) chosen by TLC, and reported; a second reconciliation
  starts from the status that the first left, perhaps with an edited owner. Its
  service account is the owner's, the blueprint's or the default one, in the
  namespace that goes with it (`AccountOf`). `repo` is the repository's cache of
  mutable objects: `EnsureMutable` applies an object unless what was submitted and
  what was persisted are both unchanged, and `Meddle` edits or deletes the stamped
  objects, or restarts the manager, between two reconciliations. `EventsFor` are the
  events of the recorder.
* `WakeUps`: `Execute` and `registerControllers` step by step (`boot`: log level, schemes,
  controllers, webhooks), the informer
  caches (`seen`), the map functions of the three controllers, EnqueueTracked, and
  the order in which each controller reads, clears and tracks.
* `Cartotest` (`pkg/testing`): a tree of directories becomes tests, a copy of the
  parent's test at a time; the compare options are cells that copies share; tests
  run in any order; a nil pointer ends everything.
* `Optional` declares `Nil`, the value of what is not there.

`MCRules` composes conditions, tracker, tokens, wake-ups, the pipeline and cartotest:
a behaviour picks a `topic` and the variables of the others stay as they are. They
share operators (`Cartotest` stamps with `Templating` and selects with `Selectors`)
and no state.

`MC*.tla` give the constants values; each `.cfg` is one run. The run `rules` has a row per
topic below.

## Runs

| run | checks | shows |
|---|---|---|
| conditions_changed (violation) | `ChangedMeansChanged` | with a repeated type an unchanged list is reported as changed |
| workload_edits | `SettledIsTracked`, `StampedHasTemplate`, `NoUnexplainedOrphan`, `DeletesOnlyReplaced` | two edits of chain and templates anywhere in a reconciliation |
| workload_faults | `SubmittedMeansApplied`, `SettledIsObserved`, `DeletedIsForgotten`, `NoUnexplainedOrphan` | one edit of any kind and one fault or restart anywhere |
| workload_converges | `Converges` | the workload is realized, or gone with its objects, in the end |
| orphan_of_missing_template (violation) | `OrphanOfMissingTemplateIsDeleted` | an object whose template was deleted too is leaked |
| handled_errors (violation) | `HandledErrorIsWatched` | a missing service account is waited for, but not watched |
| runnable | `RunsAreExplained`, `SettledIsCurrent`, `OutputsAreLatest`, `RetentionHolds`, `KeepsLedger`, `Converges` | no run without a cause, no missed change, retention and outputs in spite of ties, restarts and lost answers; the refinement of `RunLedger` |
| delivery | `BlueprintIsRight`, `ReportedIsDeployed`, `NoForgottenDeployment`, `OrphansAreUnused`, `Converges` | a mutable deployment reports only what it deployed; the clean-up under both lifecycles; the delivery's Ready condition |
| deployed_input (violation) | `InputIsDeployed` | an immutable deployment reports an input that is not deployed |
| rules, conditions | `TopLevelIsWorst`, `TopLevelIsExplained`, `SkippedWriteLosesNothing`, `TransitionTimeIsKept`, `NoSpuriousChange` | the summary, the changed result and the times are right over successive reconciliations |
| rules, tracker | `NoEmptySets`, `ClearedLeavesNoTrace`, `DependenciesStayTracked`, `LookupIsExact` | lookups are exact, nothing is left behind, leases last |
| rules, tokens and wake-ups | `TokenIsUsable`, `WakesUsers` | concurrent callers get usable tokens; whoever used what has changed is woken |
| rules, pipeline and cartotest | `SelectsMostSpecific`, `AdmittedIsRealizable`, `ReportIsHonest`, `SuiteIsHonest` | the rules against reference definitions from their documentation, and the reports against what was done |
| option_errors (violation) | `OptionErrorIsHandled` | an owner that no option suits, or several, reports UnknownError and is retried |
| inherited_chain (violation) | `PassUsesInheritedChain` | cartotest passes a test without using the supply chain of the directory above |

Two of the passing properties say exactly what the code does also where a test or a
comment says otherwise, and violation runs of their own show the difference:
`ReportIsHonest` with option_errors, `SuiteIsHonest` with inherited_chain.

`TypeOK` is checked once per state machine of a reconciler, `ConditionsTypes` and
`TrackerTypes` for conditions and tracker. Every property has a mutant in
`PROJECT.json`: a plausible bug, defined next to the operator it replaces, with which
the property fails.

### Bounds

* Conditions: `MaxAdds = 2` with a condition type that can repeat is what it takes
  for one condition to disturb another; two reconciliations are enough for one to
  start from what the other wrote, and the clock only separates old from new.
* Tracker: two keys and two owners, and a clock of four with a resync of one and a
  lease of two, so that leases expire, are renewed and are pruned.
* Workload: two resources, two templates and two objects, so that an object can
  move between resources and one resource can depend on the other; two edits
  suffice for a resource to change and its template to go; `EditKinds` selects the
  kinds of edits of a run, and `MaxTroubles` bounds edits and faults together (one
  for the liveness run, where every kind of trouble is tried alone).
* Runnable: two run templates whose objects have one key in the repository's cache
  (the same generateName), so that one template's submission displaces the
  other's; retention of one success and one failure, so that any second run is a
  candidate for deletion; six runs, which no scenario uses up, and at most two in
  one second, which is what a tie takes. An edited template stamps something else,
  or the same and is read otherwise, or cannot be stamped (`MCContents`), and the
  selected object has two values. `Scenarios` says which troubles come
  together, each at most once: a change of the input with a fault, a switch of
  the template, a run deleted or edited, a template edited or deleted, an account
  lost or forbidden, the selected object changed, and the runnable deleted.
* Delivery: a source and two deployment templates, with a mutable or an immutable
  lifecycle; two revisions, so that one can be taken for the other; four deployment
  objects; ten scenarios, among them a push with a fault, a push or a change of the
  delivery with a failed deployment, an edited template with a push, and a new
  delivery whose templates are not there yet.
* Rules: `MCCases` enumerates selectors of every shape against owners with and
  without the labels and fields, every combination of parameters on four levels,
  every health rule on objects with every condition, references that are right,
  forward, to themselves or to nowhere, options, and deliveries with every
  readiness rule; two reconciliations. Tokens: two callers (symmetric; they
  are the model values of the tracker's owners, since no behaviour is about both), a
  life of four or two, a latency of one, a jitter of one, the account created twice; an
  answer of the API server takes less than half of the shortest life. Wake-ups: one
  owner (owners are looked up independently; sharing is in `DependencyTracker`), two
  changes in the cluster. Cartotest: trees of two levels below the root with two
  tests, which is what sharing takes, and single tests. The violation runs about
  rules take the cases with options and a tree whose root has the supply chain.

Deadlock checking is off where the system may stop: the runs that delete an owner,
after which nothing is left to do, and `rules` with the two violation runs of its
module, where a case is over once it is reported.

### Fairness

`FairSpec` of `WorkloadReconciler` and `Spec` of `RunnableReconciler` and
`DeliverableReconciler`: a worker that has taken an owner from the queue goes on
(`Reconcile`, and `BlueprintSteps` for the delivery, which has a work queue of its
own), controller-runtime delivers every event, `Resync` is the informer's ten hour
resync that `utils.DefaultResyncTime` counts on, the garbage collector runs, and
controllers of stamped objects report a first output and end what they have begun.
That a run ends is not assumed. Edits and faults are not fair and bounded.
`Converges` needs `Resync`: events that arrive between reading a template and
tracking it are lost, and so are those a settled error waits for without tracking.

## Findings

1. An orphan whose template is gone is leaked. The branch that should delete it
   waits for a NotFound that `GetTemplate` never returns; the unit test passes
   because its fake does return it.
2. Handled errors are to "wait until it is called to reconcile again via
   informers", but a missing service account is not tracked, and neither is a
   template that fails to stamp when the resource had another one before.
3. `MissingPassThroughInputCondition` repeats the type `SupplyChainReady`, so that
   `changed` is always true and the status is written in every reconciliation.
4. An immutable deployment template judges its criteria on the latest object that
   succeeded and passes the current input on: after a push the new revision counts
   as deployed before it is.
5. The errors of options (none or several match) are wrapped twice
   (`realizer/component.go:96`, `:163`), and the type switches that build conditions
   and classify errors do not unwrap: the owner reports UnknownError and is retried.
   The unit tests of both reconcilers have a condition of its own and no retry; they
   hand in the error unwrapped.
6. cartotest puts a mock supply chain in place of the one that a test takes over from
   the directory above (`cli-case.go:221`, which makes the branch at 231 dead). The
   repository's test `tests/templates/options/option1` is about such a chain, and
   passes whatever it says.

## Observations

Met while modelling; the models follow the code, and no run is about them.

* A pass through that has a previous status keeps the previous RealizedResource
  (`realizer/realizer.go:131`): the template, the object and the outputs of the template
  that the resource had before, while it passes on another output. The API calls
  them "Outputs that were passed between the templates" (`workload.go:145`).
  `ReportIsHonest` says exactly that they are kept.
* With two sources declared and one of them available, `$(source)$` is the one that
  is available; the documentation speaks of a single declared source.
* A chain of nothing but pass throughs is never Ready. OwnerHealthCondition looks its
  previous condition up under "Healthy" instead of "ResourcesHealthy"
  (`healthcheck.go:43`).
* The mapper compares the group of a role reference with the empty string
  (`map_functions.go:144`); the API server fills the group in, so that a change of a
  role wakes nobody, and `WakesUsers` says nothing of roles. Neither do bindings that
  name users or groups wake anybody.
* Workloads and deliverables read first, then clear, then track: an event in between
  is lost (`slipped` in `WakeUps`, exempted in `WakesUsers`). Runnables have no such
  window.
* The validation of a template that has a health rule returns before it checks the
  retention policy (`common_validations.go:206`).
* cartotest: compare options are shared between sibling directories, so that a test
  can pass or fail by the options of its neighbour (`OptionsInForce` says which count,
  and `SuiteIsHonest` that these do); a workload without labels
  is matched although the controller refuses it, and supply chains are not
  validated; a test without workload or expected object, and a parameter with
  neither value nor default, end the run with a panic.
* The webhooks are registered only when `--cert-dir` is given (`cmd.go:91`).

## Proofs

Every theorem is about the specification that TLC checks, for every value of the
constants; a proof module extends the module it is about and adds an inductive
invariant, which implies the properties.

`ConditionManagerProofs`: the type invariant and the five safety properties of the
run, for every set of types, reasons and conditions and any bound. The inductive
invariant relates the fields to the history `added`: `status` is the worst so far,
`reason` explains it, every collected condition is `Stamped` from what was added,
and `changed` is false only if nothing differed. The properties themselves speak
of finalized states only and are not inductive.

`DependencyTrackerProofs`: the type invariant, the three invariants and
`LookupIsExact` for every set of keys and owners, assuming `Lease >= 2 * Resync`,
which every `SetupWithManager` provides. The inductive invariant says that an
entry of the map is `last + Lease` whenever it is there and that an entry may be
missing only after its lease ran out, that a tracked dependency is as young as
the owner's latest tracking reconciliation, and that this one is at most
`missed + 1` resync periods ago.

`TokenManagerProofs`: `TokenIsUsable`, for any number of concurrent callers and any
number of accounts of the name, assuming that an answer of the API server takes
less than half of the shortest life (`TokenAssumption`). What makes it inductive:
a token cached under a UID was issued to that account or a later one, because the
account is read before the token is asked for; and a token that a call has been
granted is at most as old as the call has waited.

`WakeUpsProofs`: `WakesUsers`, for any owners and any number of changes. An owner will
read again, or has slipped through the window before tracking, or *agrees*: it
has read what the informers hold now (nothing is said of the contents of roles, whose
changes wake nobody), and the rights as the API server has them
or as they were before a change whose event is on its way. That there are two
possible views of each kind of binding, and not one, is what the property does
not say; `EventsWake` is the lemma about the map functions.

`RunnableReconcilerProofs`, for any templates, inputs, scenarios and bounds:

* `TypesAreCorrect`: `TypeOK`.
* `EveryRunIsCalledFor`: `RunsAreExplained`. The count of runs is not inductive: the
  invariant `Paid` adds to it the runs that are still owed (`Debt`: generations that no
  reconciliation has read, and one when the selected object or what the template
  stamps has changed since it was read; `Open`: one more unless the latest run serves
  the spec that will be read next, or the template cannot be stamped), and the sum
  never exceeds the causes.
* `LedgerIsKept`: the refinement `KeepsLedger`. A run that is doomed has an heir of its
  template and outcome that is not older, and that is neither retired nor doomed
  itself (`DoomedHaveHeirs`, from the definition of `Retained`), and the output in the
  hands of a reconciliation is not older than
  the one its copy of the status has (`OutputIsNewest`). Every step then maps to a
  step of `RunLedger` or changes nothing in it.
* `SettledIsUpToDate`, `OutputsAreOfTheLatest`, `RetentionIsKept`: `SettledIsCurrent`,
  `OutputsAreLatest` and `RetentionHolds`, from one invariant in two parts. `Follows`: a
  reconciliation that nothing in the queue will follow works with the informer's
  copy, and has tracked the account and the template before it read them.
  `Current`: in a `Quiet` state (nothing in the queue, no event of a tracked object
  under way, nothing to excuse), what the reconciliation has found out is so now:
  the content and the selected object, then the run, then what `ListRuns` computed.
  While the kind of the runs is watched, every change of a run, also a deletion
  by the cleanup itself, ends the quiet; before, all that is known is that the
  cleanup leaves one run (`CleanupSpares`), so that the first watch reports one and
  the reconciliation that set it up is never the last. `OthersAreHeard` is the
  lemma that no step of another actor makes a stale reconciliation the last one.

`WorkloadReconcilerProofs`, for any selections, templates, objects, edits and faults.
One inductive invariant in six parts implies all seven invariants of the two
workload runs and the action property:

* `Types`, down to the fields of the reconciliation's record;
* `Versions`: a synced copy is the workload; what a reconciliation has read is the
  workload as long as it is `fresh`, and the informer's copy unless the workload
  is in the queue; a workload that is gone is tracked by nobody;
* `Pairs`: an object is never recorded without its template;
* `Progress`: at each step, what the earlier ones have established (`Staged`); the
  resources done so far, each without error or with the error in the condition,
  and applied with the generation of the copy (`Listed`); and that the list is the
  one selected now or another reconciliation is to come (`Selected`);
* `Cleaning`: a resource that had an object has one, and every object on the
  cluster is excused, referred to by the status, or by the reconciliation in
  progress;
* `Settlement`: what the settled workload promises, carried from the last status
  update to the next event.

`TypesAreCorrect`, `TemplateIsRecorded`, `DeletedAreForgotten`, `SettledAreObserved`,
`SettledAreTracked`, `SubmittedAreApplied`, `OrphansAreExplained` and
`OnlyReplacedAreDeleted` follow.

`DeliverableReconcilerProofs`, for any templates, contents, revisions, objects and
scenarios, about the deliverable reconciler composed with that of the delivery:

* `DeliveryConditionIsRight`: `BlueprintIsRight`. The invariant `Blueprint` follows a
  reconciliation template by template: what it has read so far is as it is now,
  or a change is pending among the events of what is tracked, or the delivery is
  in the queue again, or the change fell into the window (`missed`). A new list of
  references is a new generation, which no copy has yet.
* `ReportedAreDeployed`: `ReportedIsDeployed`. `Sound` says what an object reports: its
  controller works on the spec as long as the observed generation is the current
  one, health `True` and the reported revision are about something that was
  deployed. `DeploymentErrorFacts` is the lemma about outputReady, and `Referred`
  carries its result through the reconciliation into the status.
* `NothingIsForgotten`: `NoForgottenDeployment`. `Covered` says at each step who still
  refers to a mutable object: the status, the reconciliation, or the orphans that
  it is about to delete. It needs that the status cannot change during a
  reconciliation and that a resource never loses its object (`Staged`).
* `OnlyUnusedAreDeleted`: `OrphansAreUnused`. An object has the lifecycle of its template
  until the template is edited, which happens at most once (the bound
  `Scenarios`); an orphan of a template in use is then only found after the edit.
* `TypesAreCorrect`: `TypeOK`.

The assumptions on the constants keep `None` apart from the values it stands in
for, and the key of the service account apart from the templates.

`RulesProofs`, for any cases and any trees:

* `MostSpecificIsSelected`: `SelectsMostSpecific`, for any number of blueprints and
  options with selectors of any size. `BestSelectorLoop` shows that the loop of
  BestSelectorMatchIndices has a value after every turn, which takes that a
  recursive function over the turns exists (`LoopHasValues`), and
  `BestSelectorMatchIndicesFinds` by induction over the turns what the last value
  is: the position of the strictly best selector, or several, or the first that
  cannot be judged; with several, two suit the owner and none that suits asks for more
  (`EquallyBest`). `FitMeans` relates a fit to the documented meaning of a selector
  and needs what the webhooks keep out (`ValidatedIsJudgeable`). The invariant `Chosen`
  carries the choices through the pipeline. `CasesAssumption` says that lists are
  lists and labels finitely many.
* `ReportTellsTheTruth`: `ReportIsHonest`, for any blueprint, templates and stamped
  objects and any number of reconciliations, edits, deletions and restarts. The
  invariant `Honest` says that every turn of Realize leaves an entry (`Entry`, for all
  of them `Told`) that agrees with what Do returned, that what the status said before
  is older than this reconciliation (`KnownBefore`), and that every object on the API
  server is one of the resource that its key names (`KeptObjects`), without which an
  object that is left alone could be reported under another name. `DoIsRight` covers
  every way out of Do and the class of its error: `Classified` says exactly which are
  retried, for those of the readers and for all others (`ReadersFail`,
  `ErrorsAreClassified`). `OutputsMove` says that the outputs of a status are those of
  this reconciliation and that their times move with their values.
  `HealthMeans` relates the health
  condition to the documented meaning of the rule, `KeptStatus` and `NewStatus` the
  status of a turn to what was known before (kept as it was when there is no object,
  in a pass through as in an error), `OwnerIsReady` the owner's conditions to
  those of its resources. It needs the templates to be of the kind that the resource
  names, from the webhooks and the blueprint's own conditions (`ReadyHasTemplates`,
  `TemplateOfTheResource`). Its hypothesis `NilIsNoRecord`, that Nil is none of the
  records it stands in for, ranges over all values and so is not an assumption that
  TLC could evaluate; a model value satisfies it.
* `AdmittedCanBeRealized`: `AdmittedIsRealizable`, for any blueprints, templates, owners
  and any number of parameters, inputs, tags, reconciliations, edits and restarts,
  under the same hypothesis. `AssignAllAssigns` says by induction over the turns what a
  loop of assignments to a map leaves in it; from it follow what Merge gives
  (`MergeGives`, with the check of the webhook that a parameter has a value or a
  default) and what the inputs of a resource are (`InputsAre`, `GenerateGives`).
  `TagIsFilled` and `TagIsUnfilled` follow a tag into the context. The invariant
  `Realized` says of every turn so far that its result is realizable, that its output
  is of the kind of its resource (`OfKind`), and that what it saw are outputs of
  resources before it (`Produced`). The second part is what the argument turns on:
  the webhook of a supply chain compares kinds by name (`ReferencesSuit`), so a
  resource that has put out anything has put out what its reader asks for, and a
  missing input means that there is no output yet. Deliveries are not checked like
  that, and the property says less of them (`Missing`). `Realized` also says that the
  cache holds what was submitted (`CacheIsSubmitted`): an object that is left alone
  since it is unchanged then has the spec that was stamped in this reconciliation.
  `CasesAssumption` adds that a tag leads to a parameter, an input or the owner
  (`WellFormedTag`) and that a template has its fields (`WellFormedTemplate`).
* `SuiteTellsTheTruth`: `SuiteIsHonest`, for trees of any depth and breadth. `BuiltWell` says
  of every test built so far that it holds what its path specifies and the supply
  chain of its own directory (`TestIs`; `InEffectStep` is the step from a directory to
  its parent), that its options are those that were allocated for the topmost
  directory of the path that has any (`PointerIs`), and that what is allocated holds
  the last word of all that wrote to it (`OptionsAre`). The writers are exactly the
  directories below that topmost one (`PointersAreShared`), siblings included, so that
  a test is judged by `OptionsInForce` (`OptionsCount`).
  `PassIsAsController` compares the choice of cartotest with that of the controller.
  `TreesAssumption` puts a directory after its parent.

Sets of natural numbers have a least element (from the library's theorem on
well-founded relations): that is the induction over turns and over the path of a
directory.

The proof of `HealthMeans` brought out what the runs did not reach: an unhealthy
requirement on a field that leads to several values is not an error but no match
(anyUnhealthyMatchCondition drops the error of Matches), so that such an object can
be reported as healthy. `HealthyBy` says so with `Comparable`; the documentation does
not speak of the case.

Only model-checked are the three `Converges`: liveness under fairness is out of the
prover's reach.

No module has a RECURSIVE operator.

## Plan

The system is modelled, and every safety property that a run checks is proved;
liveness stays with TLC.

## Not modelled

* Generated code: deepcopy methods and the counterfeiter fakes (about half of the
  lines under `pkg/`).
* Helpers no controller calls (`utils/service_account.go`, `kubeconfigrestricted.go`).
* Logging, messages of errors and conditions, the text of cartotest's report.
* Flags, ports, profiling and health endpoints of the command.
* What ytt does with a template, and the conversion of numbers in the context:
  a ytt template stamps or fails.
