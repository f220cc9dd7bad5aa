------------------------- MODULE WorkloadReconciler -------------------------
(***************************************************************************)
(* pkg/controllers/workload_reconciler.go with the realizer it drives      *)
(* (pkg/realizer/realizer.go, component.go, statuses) and the helpers of   *)
(* pkg/controllers/common.go: one workload, the supply chain that selects  *)
(* it, the templates the chain names, and the objects stamped out of them. *)
(*                                                                         *)
(* A reconciliation is a sequence of steps, one per group of API calls, so *)
(* that users, other controllers, informer events and a restart can come   *)
(* between any two of them.  The deliverable reconciler has the same       *)
(* control flow with a delivery in place of the supply chain.              *)
(*                                                                         *)
(* Abstractions: the templates have the default, mutable lifecycle; the    *)
(* conditions of the owner are reduced to the reason of the first          *)
(* condition that is not true, those of a resource to the error of its     *)
(* submission; an object is named after the template that stamps it, and   *)
(* every object name is a kind of its own.                                 *)
(***************************************************************************)
EXTENDS Naturals, Sequences, FiniteSets

CONSTANTS
    Names,          \* resource names
    Templates,      \* template names
    Objects,        \* names of stamped objects
    Selections,     \* what the workload's labels can select: [why, list]
    Contents,       \* what a template can hold: [obj, ok]
    FirstContents,  \* the templates at the start: Templates -> Contents
    PassThrough,    \* in place of a template: the option passes its input on
    NoMatch,        \* in place of a template: not exactly one option matches
    None,
    MaxGen,         \* bound: generations of the workload
    MaxOut,         \* bound: outputs an object reports one after the other
    EditKinds,      \* bound: the kinds of changes that are made
    MaxEdits,       \* bound: changes made by users and other controllers
    MaxFaults,      \* bound: failed API calls and restarts
    MaxTroubles     \* bound: edits and faults together

ASSUME BoundsAssumption ==
    /\ MaxGen \in Nat \ {0} /\ MaxOut \in Nat \ {0}
    /\ MaxEdits \in Nat /\ MaxFaults \in Nat /\ MaxTroubles \in Nat
    /\ EditKinds \subseteq {"owner", "deletion", "selection", "template", "account",
                            "object", "output"}

VARIABLES
    \* the API server
    wl,             \* the workload: [exists, gen, status]
    sel,            \* what GetSupplyChainsForWorkload leads to: [why, list]
    tmpls,          \* template -> content, or None
    sa,             \* does the service account exist?
    allowed,        \* may it apply the stamped objects?
    objs,           \* object name -> [spec, out], or None
    \* the manager: informers, work queue, dependency tracker
    cache,          \* the informer's copy of wl
    synced,         \* is that copy the latest version?
    events,         \* changes whose informer event is not delivered yet
    queue,          \* is the workload in the work queue?
    tracked,        \* keys the DependencyTracker holds for the workload
    watching,       \* kinds the StampedTracker watches
    \* the reconciliation
    pc, rec,
    \* bounds and history
    edits, faults,
    excused         \* objects whose reference was lost, see Excuse below

api == <<wl, sel, tmpls, sa, allowed, objs>>
manager == <<cache, synced, events, queue, tracked, watching>>
vars == <<api, manager, pc, rec, edits, faults, excused>>

SA == "ServiceAccount"
SC == "ClusterSupplyChain"

Outs == 1..MaxOut

\* Reasons, by what IsUnhandledError and WrapUnhandledError make of the error.
HandledReasons ==
    {"WorkloadLabelsMissing", "SupplyChainNotFound", "MultipleSupplyChainMatches",
     "SupplyChainNotReady", "ServiceAccountNotFound", "ServiceAccountTokenError",
     "TemplateStampFailure", "TemplateRejectedForbidden", "MissingValueAtPath",
     "MissingPassThroughInput"}
\* An error of option matching is wrapped with %w, so that the type switch of
\* IsUnhandledErrorType takes its default branch.
UnhandledReasons ==
    {"Unknown", "ResourceRealizerBuilderError", "TemplateObjectRetrievalFailure",
     "TemplateRejectedByAPIServer", "UnknownError"}
Reasons == HandledReasons \cup UnhandledReasons

\* Reasons of reconciliations that find no supply chain that is ready.
SelectionReasons ==
    {"WorkloadLabelsMissing", "SupplyChainNotFound", "MultipleSupplyChainMatches",
     "SupplyChainNotReady"}

\* A resource of a supply chain.  The webhook refuses a chain that has a name
\* twice; a pass through names the input that it passes on.
Resources ==
    [name : Names, tmpl : Templates \cup {PassThrough, NoMatch}, needs : Names \cup {None}]

IsSelection(s) ==
    /\ s.why \in SelectionReasons \cup {"Ready"}
    /\ s.list \in Seq(Resources)
    /\ \A i, j \in DOMAIN s.list : i # j => s.list[i].name # s.list[j].name
    /\ \A i \in DOMAIN s.list : s.list[i].tmpl = PassThrough => s.list[i].needs # None

ASSUME InstanceAssumption ==
    /\ \A s \in Selections : IsSelection(s)
    /\ Contents \subseteq [obj : Objects, ok : BOOLEAN]
    /\ FirstContents \in [Templates -> Contents \cup {None}]
    /\ {PassThrough, NoMatch} \cap Templates = {}
    /\ None \notin Templates \cup Objects \cup Reasons

\* v1alpha1.ResourceStatus: RealizedResource and the submission's error.
ResourceStatus ==
    [stamped : Objects \cup {None}, tmpl : Templates \cup {None},
     out : Outs \cup {None}, err : Reasons \cup {None}]

IsStatusList(f) ==
    DOMAIN f \subseteq Names /\ \A n \in DOMAIN f : f[n] \in ResourceStatus

IsStatus(s) ==
    s.gen \in 0..MaxGen /\ s.cond \in Reasons \cup {"ResourcesSubmitted", None} /\ IsStatusList(s.res)

IsWorkload(w) == w.exists \in BOOLEAN /\ w.gen \in 1..MaxGen /\ IsStatus(w.status)

Steps == {"select", "account", "realize", "track", "orphans", "delete", "update"}

TypeOK ==
    /\ IsWorkload(wl) /\ IsWorkload(cache)
    /\ sel \in Selections
    /\ tmpls \in [Templates -> Contents \cup {None}]
    /\ sa \in BOOLEAN /\ allowed \in BOOLEAN /\ synced \in BOOLEAN /\ queue \in BOOLEAN
    /\ events \subseteq Templates \cup Objects \cup {SA, SC}
    /\ tracked \subseteq Templates \cup {SA}
    /\ watching \subseteq Objects
    /\ excused \subseteq Objects
    /\ edits \in 0..MaxEdits /\ faults \in 0..MaxFaults
    /\ pc \in Steps \cup {"idle"}
    /\ pc = "idle" => rec = None
    /\ pc # "idle" =>
          /\ IsWorkload(rec.snap) /\ IsStatusList(rec.cur)
          /\ rec.orphans \subseteq Objects
          /\ rec.cond \in Reasons \cup {None}

NoStatus == [gen |-> 0, cond |-> None, res |-> [n \in {} |-> None]]

Init ==
    /\ wl = [exists |-> TRUE, gen |-> 1, status |-> NoStatus]
    /\ sel \in Selections
    /\ tmpls = FirstContents
    /\ sa = TRUE /\ allowed = TRUE
    /\ objs = [n \in Objects |-> None]
    /\ cache = [exists |-> FALSE, gen |-> 1, status |-> NoStatus]
    /\ synced = FALSE
    /\ events = {} /\ queue = FALSE /\ tracked = {} /\ watching = {}
    /\ pc = "idle" /\ rec = None
    /\ edits = 0 /\ faults = 0 /\ excused = {}

-----------------------------------------------------------------------------
\* The objects a status list refers to.
Refs(res) == {res[n].stamped : n \in DOMAIN res} \ {None}

\* A reconciliation whose result does not reach the status, or that does not
\* reach an orphan, loses the reference to what it stamped or had to delete.
Excuse(lost) == excused' = excused \cup lost

Edit(kind) ==
    /\ kind \in EditKinds
    /\ edits < MaxEdits /\ edits + faults < MaxTroubles
    /\ edits' = edits + 1

Fault ==
    /\ faults < MaxFaults /\ edits + faults < MaxTroubles
    /\ faults' = faults + 1

\* A new version of the workload: what a reconciliation in flight has read is
\* no longer the latest, and the informer's copy is out of date.
NewVersion(w) ==
    /\ wl' = w
    /\ synced' = FALSE
    /\ rec' = IF pc = "idle" THEN None ELSE [rec EXCEPT !.fresh = FALSE]

\* The change of an object is seen if its kind is watched.
ObjectEvent(n) == IF n \in watching THEN events \cup {n} ELSE events

-----------------------------------------------------------------------------
\* Users and other controllers.
EditOwner ==
    /\ Edit("owner") /\ wl.exists /\ wl.gen < MaxGen
    /\ NewVersion([wl EXCEPT !.gen = @ + 1])
    /\ UNCHANGED <<sel, tmpls, sa, allowed, objs, cache, events, queue, tracked,
                   watching, pc, faults, excused>>

\* The stamped objects have an owner reference to the workload.
DeleteOwner ==
    /\ Edit("deletion") /\ wl.exists
    /\ NewVersion([wl EXCEPT !.exists = FALSE])
    /\ UNCHANGED <<sel, tmpls, sa, allowed, objs, cache, events, queue, tracked,
                   watching, pc, faults, excused>>

CollectGarbage ==
    /\ ~wl.exists
    /\ \E n \in Objects : objs[n] # None
    /\ objs' = [n \in Objects |-> None]
    /\ UNCHANGED <<wl, sel, tmpls, sa, allowed, manager, pc, rec, edits, faults, excused>>

EditSelection(s) ==
    /\ Edit("selection") /\ s # sel
    /\ sel' = s
    /\ events' = events \cup {SC}
    /\ UNCHANGED <<wl, tmpls, sa, allowed, objs, cache, synced, queue, tracked,
                   watching, pc, rec, faults, excused>>

EditTemplate(t, c) ==
    /\ Edit("template") /\ c # tmpls[t]
    /\ tmpls' = [tmpls EXCEPT ![t] = c]
    /\ events' = events \cup {t}
    /\ UNCHANGED <<wl, sel, sa, allowed, objs, cache, synced, queue, tracked,
                   watching, pc, rec, faults, excused>>

\* The service account, or a role binding that names it (the mapper turns the
\* binding's event into one of its subject).
EditAccount ==
    /\ Edit("account")
    /\ \/ sa' = ~sa /\ UNCHANGED allowed
       \/ allowed' = ~allowed /\ UNCHANGED sa
    /\ events' = events \cup {SA}
    /\ UNCHANGED <<wl, sel, tmpls, objs, cache, synced, queue, tracked, watching,
                   pc, rec, faults, excused>>

RemoveObject(n) ==
    /\ Edit("object") /\ objs[n] # None
    /\ objs' = [objs EXCEPT ![n] = None]
    /\ events' = ObjectEvent(n)
    /\ UNCHANGED <<wl, sel, tmpls, sa, allowed, cache, synced, queue, tracked,
                   watching, pc, rec, faults, excused>>

\* The controller of a stamped object reports its first output, or a new one.
Output(n, v) ==
    /\ objs[n] # None
    /\ \/ objs[n].out = None /\ v = 1 /\ UNCHANGED edits
       \/ objs[n].out # None /\ v = objs[n].out + 1 /\ Edit("output")
    /\ objs' = [objs EXCEPT ![n].out = v]
    /\ events' = ObjectEvent(n)
    /\ UNCHANGED <<wl, sel, tmpls, sa, allowed, cache, synced, queue, tracked,
                   watching, pc, rec, faults, excused>>

-----------------------------------------------------------------------------
\* controller-runtime.  For(&Workload{}) has no predicate: every new version,
\* the one this controller wrote included, is enqueued.
DeliverOwner ==
    /\ ~synced
    /\ cache' = wl
    /\ synced' = TRUE
    /\ queue' = TRUE
    /\ UNCHANGED <<api, events, tracked, watching, pc, rec, edits, faults, excused>>

\* EnqueueTracked and ServiceAccountToWorkloadRequests look the key up;
\* ClusterSupplyChainToWorkloadRequests lists every workload; the watch of a
\* stamped object enqueues its owner.
Enqueues(k) ==
    \/ k \in tracked
    \/ k = SC /\ cache.exists
    \/ k \in Objects

DeliverEvent(k) ==
    /\ k \in events
    /\ events' = events \ {k}
    /\ queue' = (queue \/ Enqueues(k))
    /\ UNCHANGED <<api, cache, synced, tracked, watching, pc, rec, edits, faults, excused>>

\* The informer's periodic resync, every ten hours.
Resync ==
    /\ pc = "idle" /\ ~queue /\ cache.exists
    /\ queue' = TRUE
    /\ UNCHANGED <<api, cache, synced, events, tracked, watching, pc, rec, edits,
                   faults, excused>>

\* The controller stops anywhere and starts again with empty memory; listing
\* the workloads enqueues every one of them.
Restart ==
    /\ Fault
    /\ pc' = "idle" /\ rec' = None
    /\ cache' = wl /\ synced' = TRUE /\ queue' = wl.exists
    /\ events' = {} /\ tracked' = {} /\ watching' = {}
    /\ Excuse(IF pc = "idle" THEN {} ELSE Refs(rec.cur))
    /\ UNCHANGED <<api, edits>>

-----------------------------------------------------------------------------
\* Reconcile: GetWorkload reads the informer's copy.
GetWorkloadFails ==
    /\ pc = "idle" /\ queue
    /\ Fault
    /\ UNCHANGED <<api, manager, pc, rec, edits, excused>>

\* Mutant: a workload that is gone keeps its entries in the tracker.
WorkloadGoneKeepsTracking ==
    /\ pc = "idle" /\ queue /\ ~cache.exists
    /\ queue' = FALSE
    /\ UNCHANGED <<api, cache, synced, events, tracked, watching, pc, rec, edits,
                   faults, excused>>

WorkloadGone ==
    /\ pc = "idle" /\ queue /\ ~cache.exists
    /\ queue' = FALSE
    /\ tracked' = {}
    /\ UNCHANGED <<api, cache, synced, events, watching, pc, rec, edits, faults, excused>>

GetWorkload ==
    /\ pc = "idle" /\ queue /\ cache.exists
    /\ queue' = FALSE
    /\ pc' = "select"
    /\ rec' = [snap |-> cache, fresh |-> synced, list |-> <<>>, i |-> 1,
               cur |-> [n \in {} |-> None], outs |-> [n \in Names |-> None],
               cond |-> None, full |-> FALSE, requeue |-> FALSE, orphans |-> {}]
    /\ UNCHANGED <<api, cache, synced, events, tracked, watching, edits, faults, excused>>

\* completeReconciliation is next, without resource statuses.
GiveUp(reason) ==
    /\ pc' = "update"
    /\ rec' = [rec EXCEPT !.cond = reason, !.requeue = (reason \in UnhandledReasons)]

\* getSupplyChainsForWorkload and the supply chain's readiness.
GetSupplyChain ==
    /\ pc = "select"
    /\ \/ Fault /\ GiveUp("Unknown")
       \/ sel.why # "Ready" /\ GiveUp(sel.why) /\ UNCHANGED faults
       \/ /\ sel.why = "Ready"
          /\ pc' = "account"
          /\ rec' = [rec EXCEPT !.list = sel.list]
          /\ UNCHANGED faults
    /\ UNCHANGED <<api, manager, edits, excused>>

\* The service account, its token and the client built from it.
GetServiceAccount ==
    /\ pc = "account"
    /\ \/ ~sa /\ GiveUp("ServiceAccountNotFound") /\ UNCHANGED faults
       \/ Fault /\ \E reason \in {"ServiceAccountNotFound", "ServiceAccountTokenError",
                                  "ResourceRealizerBuilderError"} : GiveUp(reason)
       \/ /\ sa
          /\ pc' = "realize"
          /\ rec' = [rec EXCEPT !.full = TRUE]
          /\ UNCHANGED faults
    /\ UNCHANGED <<api, manager, edits, excused>>

-----------------------------------------------------------------------------
\* Realize: one resource after the other, all of them even after an error.
Resource == rec.list[rec.i]
Realizing == pc = "realize" /\ rec.i <= Len(rec.list)

\* Mutant: a resource that fails is recorded without its previous object.
RealizedResourceForgetful(x, template, object, out) ==
    [stamped |-> object, tmpl |-> template, out |-> out]

\* Mutant: the object alone is carried over from the previous status.
RealizedResourceMerged(x, template, object, out) ==
    [stamped |-> IF object = None /\ x.name \in DOMAIN rec.snap.status.res
                 THEN rec.snap.status.res[x.name].stamped ELSE object,
     tmpl |-> template, out |-> out]

\* The middle of Realize's loop: without a new object (or template) whatever
\* was recorded for the resource stays recorded.
RealizedResource(x, template, object, out) ==
    IF (object = None \/ template = None) /\ x.name \in DOMAIN rec.snap.status.res
    THEN [f \in {"stamped", "tmpl", "out"} |-> rec.snap.status.res[x.name][f]]
    ELSE [stamped |-> object, tmpl |-> template, out |-> out]

\* resourceStatuses.Add and the bookkeeping of the first error.
Done(x, template, object, out, err) ==
    LET r == RealizedResource(x, template, object, out)
        s == [stamped |-> r.stamped, tmpl |-> r.tmpl, out |-> r.out, err |-> err]
    IN  /\ rec' = [rec EXCEPT
                     !.i = @ + 1,
                     !.outs[x.name] = out,
                     !.cond = IF @ = None THEN err ELSE @,
                     !.cur = [n \in DOMAIN @ \cup {x.name} |->
                                IF n = x.name THEN s ELSE @[n]]]
        /\ UNCHANGED <<wl, sel, tmpls, sa, allowed, cache, synced, queue, tracked,
                       watching, pc, edits>>

\* Do, up to the template: no single matching option, a pass through, a
\* template that is not there or cannot be read.
DoWithoutTemplate ==
    /\ Realizing
    /\ LET x == Resource IN
       \/ /\ x.tmpl = NoMatch
          /\ Done(x, None, None, None, "UnknownError")
          /\ UNCHANGED faults
       \/ /\ x.tmpl = PassThrough
          /\ LET out == rec.outs[x.needs]
             IN  Done(x, None, None, out,
                      IF out = None THEN "MissingPassThroughInput" ELSE None)
          /\ UNCHANGED faults
       \/ /\ x.tmpl \in Templates /\ tmpls[x.tmpl] = None
          /\ Done(x, None, None, None, "UnknownError")
          /\ UNCHANGED faults
       \/ /\ x.tmpl \in Templates
          /\ Fault
          /\ Done(x, None, None, None, "TemplateObjectRetrievalFailure")
    /\ UNCHANGED <<objs, events, excused>>

Found(x) == x.tmpl \in Templates /\ tmpls[x.tmpl] # None

\* Stamp evaluates the template, which refers to the inputs it declares.
Stamps(x) == tmpls[x.tmpl].ok /\ (x.needs # None => rec.outs[x.needs] # None)

\* The template cannot be stamped, or one of its inputs is not there yet.
DoStampFails ==
    /\ Realizing
    /\ LET x == Resource IN
       /\ Found(x) /\ ~Stamps(x)
       /\ Done(x, x.tmpl, None, None, "TemplateStampFailure")
    /\ UNCHANGED <<objs, events, faults, excused>>

SpecOf(x) ==
    [tmpl |-> x.tmpl, gen |-> rec.snap.gen,
     input |-> IF x.needs = None THEN None ELSE rec.outs[x.needs]]

\* Mutant: an object that is there is never patched.
AppliedOnce(n, spec) ==
    IF objs[n] = None THEN [objs EXCEPT ![n] = [spec |-> spec, out |-> None]] ELSE objs

\* EnsureMutableObjectExistsOnCluster: create, patch, or (when the cache shows
\* that nothing changed) leave alone.
Applied(n, spec) ==
    [objs EXCEPT ![n] = [spec |-> spec, out |-> IF @ = None THEN None ELSE @.out]]

\* doMutable.  The API server may reject the object; a failed call may all the
\* same have been carried out.
DoMutable ==
    /\ Realizing
    /\ LET x == Resource IN
       /\ Found(x) /\ Stamps(x)
       /\ LET n == tmpls[x.tmpl].obj
              after == Applied(n, SpecOf(x))
              seen == IF after = objs THEN events ELSE ObjectEvent(n)
          IN
          \/ /\ ~allowed
             /\ Done(x, x.tmpl, None, None, "TemplateRejectedForbidden")
             /\ UNCHANGED <<objs, events, faults, excused>>
          \/ /\ Fault
             /\ Done(x, x.tmpl, None, None, "TemplateRejectedByAPIServer")
             /\ \/ UNCHANGED <<objs, events, excused>>
                \/ allowed /\ objs' = after /\ events' = seen /\ Excuse({n})
          \/ /\ allowed
             /\ objs' = after /\ events' = seen
             /\ Done(x, x.tmpl, n, after[n].out,
                     IF after[n].out = None THEN "MissingValueAtPath" ELSE None)
             /\ UNCHANGED <<faults, excused>>

-----------------------------------------------------------------------------
\* Reconcile goes on after Realize, with reconcileErr set or not, and
\* trackDependencies starts by clearing: events that arrive before it tracks
\* anything again find nothing.
ClearTracked ==
    /\ pc = "realize" /\ rec.i > Len(rec.list)
    /\ tracked' = {}
    /\ rec' = [rec EXCEPT !.requeue = (rec.cond \in UnhandledReasons),
                          !.outs = [n \in Names |-> None]]
    /\ pc' = "track"
    /\ UNCHANGED <<api, cache, synced, events, queue, watching, edits, faults, excused>>

\* Mutant: the templates of resources that have an error are not tracked.
DependenciesOfGood(cur) ==
    {SA} \cup ({cur[n].tmpl : n \in {m \in DOMAIN cur : cur[m].err = None}} \ {None})

\* Mutant: a resource without a template is not skipped.
DependenciesOfAll(cur) == {SA} \cup {cur[n].tmpl : n \in DOMAIN cur}

Dependencies(cur) == {SA} \cup ({cur[n].tmpl : n \in DOMAIN cur} \ {None})

TrackDependencies ==
    /\ pc = "track"
    /\ tracked' = tracked \cup Dependencies(rec.cur)
    /\ pc' = "orphans"
    /\ UNCHANGED <<api, cache, synced, events, queue, watching, rec, edits, faults,
                   excused>>

\* Mutant: an object is an orphan when its resource now has another one.
OrphansByResource(prev, cur) ==
    {prev[n].stamped : n \in {m \in DOMAIN prev :
        m \in DOMAIN cur /\ cur[m].stamped # prev[m].stamped}} \ {None}

\* mutableEquivalenceTest: a previous object is an orphan when no current
\* resource refers to it.
Orphans(prev, cur) == Refs(prev) \ Refs(cur)

\* getEquivalenceTest needs the template of every previous resource.  When one
\* is gone (GetTemplate answers nil without an error, and NewReaderFromAPI
\* fails) or cannot be read, cleanupOrphanedObjects returns before deleting
\* anything, and the error is only logged.
FindOrphans ==
    /\ pc = "orphans"
    /\ LET prev == rec.snap.status.res
           orphans == Orphans(prev, rec.cur)
           stampedFrom == {prev[n].tmpl : n \in {m \in DOMAIN prev : prev[m].stamped # None}}
       IN
       \/ /\ \A t \in stampedFrom : tmpls[t] # None
          /\ rec' = [rec EXCEPT !.orphans = orphans]
          /\ pc' = "delete"
          /\ UNCHANGED <<faults, excused>>
       \/ /\ \/ UNCHANGED faults /\ \E t \in stampedFrom : tmpls[t] = None
             \/ Fault /\ stampedFrom # {}
          /\ Excuse(orphans)
          /\ pc' = "delete"
          /\ UNCHANGED rec
    /\ UNCHANGED <<api, manager, edits>>

\* Two previous resources had been stamped as the same object: the list of
\* orphans has it twice.
Repeated(n) ==
    LET prev == rec.snap.status.res
    IN  \E x, y \in DOMAIN prev : x # y /\ prev[x].stamped = n /\ prev[y].stamped = n

\* The objects are deleted one by one, until one cannot be: an orphan that is
\* not there any more is an error as well.
DeleteOrphan(n) ==
    /\ pc = "delete" /\ n \in rec.orphans
    /\ \/ /\ objs[n] # None
          /\ objs' = [objs EXCEPT ![n] = None]
          /\ events' = ObjectEvent(n)
          /\ rec' = IF Repeated(n) THEN rec ELSE [rec EXCEPT !.orphans = @ \ {n}]
          /\ excused' = excused \ {n}
          /\ UNCHANGED faults
       \/ /\ \/ objs[n] = None /\ UNCHANGED faults
             \/ Fault
          /\ Excuse(rec.orphans)
          /\ rec' = [rec EXCEPT !.orphans = {}]
          /\ UNCHANGED <<objs, events>>
    /\ UNCHANGED <<wl, sel, tmpls, sa, allowed, cache, synced, queue, tracked,
                   watching, pc, edits>>

\* StampedTracker.Watch for every stamped object.  A new watch starts with an
\* event for each object there is; a failed one is an unhandled error.
WatchStamped ==
    /\ pc = "delete" /\ rec.orphans = {}
    /\ \E failed \in SUBSET Refs(rec.cur) :
          /\ \/ failed = {} /\ UNCHANGED faults
             \/ failed # {} /\ Fault
          /\ LET started == (Refs(rec.cur) \ failed) \ watching
             IN  /\ watching' = watching \cup started
                 /\ events' = events \cup {n \in started : objs[n] # None}
          /\ rec' = [rec EXCEPT !.requeue = (@ \/ failed # {})]
    /\ pc' = "update"
    /\ UNCHANGED <<api, cache, synced, queue, tracked, edits, excused>>

-----------------------------------------------------------------------------
\* completeReconciliation.
NewStatus ==
    [gen |-> rec.snap.gen,
     cond |-> IF rec.cond = None THEN "ResourcesSubmitted" ELSE rec.cond,
     res |-> IF rec.full THEN rec.cur ELSE rec.snap.status.res]

\* Mutant: the resources are compared only when every one was submitted.
StatusChangedWhenGood ==
    \/ NewStatus.cond # rec.snap.status.cond
    \/ rec.snap.status.gen # rec.snap.gen
    \/ rec.cond = None /\ NewStatus.res # rec.snap.status.res

\* Finalize's changed result (always true for an empty condition list and when
\* MissingPassThroughInputCondition repeats a type), a new generation, or
\* resourceStatuses.IsChanged.
StatusChanged ==
    \/ NewStatus.cond # rec.snap.status.cond
    \/ rec.cond \in {"Unknown", "MissingPassThroughInput"}
    \/ rec.snap.status.gen # rec.snap.gen
    \/ NewStatus.res # rec.snap.status.res

\* Mutant: every error is taken for a handled one.
RequeueNever == FALSE

\* The returned error: of the update, or an unhandled one.
Requeue == rec.requeue

EndOfReconcile == pc' = "idle" /\ rec' = None

\* An update that changes nothing makes no new version.
StatusUpdated ==
    /\ pc = "update" /\ StatusChanged
    /\ rec.fresh /\ wl.exists
    /\ EndOfReconcile
    /\ IF NewStatus = wl.status THEN UNCHANGED <<wl, synced>>
       ELSE wl' = [wl EXCEPT !.status = NewStatus] /\ synced' = FALSE
    /\ queue' = (queue \/ Requeue)
    /\ excused' = excused \ Refs(NewStatus.res)
    /\ UNCHANGED <<sel, tmpls, sa, allowed, objs, cache, events, tracked, watching,
                   edits, faults>>

\* A conflict with a newer version, a deleted workload, a failed call.
StatusUpdateFails ==
    /\ pc = "update" /\ StatusChanged
    /\ \/ ~(rec.fresh /\ wl.exists) /\ UNCHANGED faults
       \/ Fault
    /\ EndOfReconcile
    /\ queue' = TRUE
    /\ Excuse(Refs(rec.cur))
    /\ UNCHANGED <<api, cache, synced, events, tracked, watching, edits>>

StatusUnchanged ==
    /\ pc = "update" /\ ~StatusChanged
    /\ EndOfReconcile
    /\ queue' = (queue \/ Requeue)
    /\ Excuse(IF rec.fresh THEN {} ELSE Refs(rec.cur))
    /\ UNCHANGED <<api, cache, synced, events, tracked, watching, edits, faults>>

-----------------------------------------------------------------------------
Environment ==
    \/ EditOwner \/ DeleteOwner \/ EditAccount \/ CollectGarbage
    \/ \E s \in Selections : EditSelection(s)
    \/ \E t \in Templates, c \in Contents \cup {None} : EditTemplate(t, c)
    \/ \E n \in Objects : RemoveObject(n)
    \/ \E n \in Objects, v \in Outs : Output(n, v)

Runtime ==
    \/ DeliverOwner \/ Resync \/ Restart
    \/ \E k \in events : DeliverEvent(k)

Reconcile ==
    \/ GetWorkloadFails \/ WorkloadGone \/ GetWorkload
    \/ GetSupplyChain \/ GetServiceAccount
    \/ DoWithoutTemplate \/ DoStampFails \/ DoMutable
    \/ ClearTracked \/ TrackDependencies
    \/ FindOrphans \/ \E n \in Objects : DeleteOrphan(n)
    \/ WatchStamped
    \/ StatusUpdated \/ StatusUpdateFails \/ StatusUnchanged

Next == Environment \/ Runtime \/ Reconcile

Spec == Init /\ [][Next]_vars

\* Events are delivered, the queue is worked off, the resync period ends and
\* the controllers of the stamped objects report something.  Edits and faults
\* are finite in number.
Fairness ==
    /\ WF_vars(Reconcile)
    /\ WF_vars(DeliverOwner)
    /\ \A k \in Templates \cup Objects \cup {SA, SC} : WF_vars(DeliverEvent(k))
    /\ WF_vars(Resync)
    /\ \A n \in Objects : WF_vars(Output(n, 1))
    /\ WF_vars(CollectGarbage)

FairSpec == Spec /\ Fairness
-----------------------------------------------------------------------------
\* Nothing is under way or about to be, except for events still to be delivered.
Settled == pc = "idle" /\ ~queue /\ synced /\ wl.exists

\* Reasons of reconciliations that return before Realize.
EarlyReasons ==
    {"Unknown", "WorkloadLabelsMissing", "SupplyChainNotFound",
     "MultipleSupplyChainMatches", "SupplyChainNotReady", "ServiceAccountNotFound",
     "ServiceAccountTokenError", "ResourceRealizerBuilderError"}

(* Every stamped object is found again: once a workload has settled, an     *)
(* object on the cluster is named in its status, whatever was renamed,      *)
(* reordered, dropped from the chain or failed in between.  The exceptions  *)
(* are the reconciliations that could not write the status, or gave up      *)
(* cleaning (cleanupOrphanedObjects logs the error and goes on).            *)
NoUnexplainedOrphan ==
    Settled => \A n \in Objects :
        objs[n] # None => n \in Refs(wl.status.res) \cup excused

(* cleanupOrphanedObjects deletes an object only when its resource is no    *)
(* longer in the chain or has another object now, and never one that some   *)
(* resource has just been realized as.  A resource that failed in this      *)
(* reconciliation keeps its object.                                         *)
DeletesOnlyReplaced ==
    [][\A n \in Objects : (DeleteOrphan(n) /\ objs'[n] # objs[n]) =>
          /\ n \notin Refs(rec.cur)
          /\ \A x \in DOMAIN rec.cur \cap DOMAIN rec.snap.status.res :
                rec.snap.status.res[x].stamped = n => rec.cur[x].stamped # None]_vars

(* A workload whose resources are reported submitted at its current         *)
(* generation has been stamped at it: every templated resource's object     *)
(* carries that generation (its spec was patched, not found in a cache),    *)
(* unless somebody removed the object.  A reconciliation from an outdated   *)
(* copy of the workload may undo it for a while, never for good.            *)
SubmittedMeansApplied ==
    (Settled /\ SC \notin events /\ wl.status.cond = "ResourcesSubmitted" /\ wl.status.gen = wl.gen) =>
        \A i \in DOMAIN sel.list :
            LET x == sel.list[i] IN
            (x.tmpl \in Templates /\ x.name \in DOMAIN wl.status.res) =>
                LET n == wl.status.res[x.name].stamped
                IN  n # None /\ (objs[n] # None => objs[n].spec.gen = wl.gen)

(* A workload never settles on an old generation, nor on an error that is   *)
(* to be retried.                                                           *)
SettledIsObserved ==
    Settled => wl.status.gen = wl.gen /\ wl.status.cond \notin UnhandledReasons

(* What a settled workload's status was computed from is tracked, so that   *)
(* the next change of it is not missed: the service account and the         *)
(* template of every resource, the ones with an error included.             *)
SettledIsTracked ==
    (Settled /\ wl.status.cond \notin EarlyReasons) =>
        /\ SA \in tracked
        /\ \A n \in DOMAIN wl.status.res : wl.status.res[n].tmpl \in tracked \cup {None}

(* A deleted workload leaves no entry in the dependency tracker, also when  *)
(* it was deleted in the middle of a reconciliation.                        *)
DeletedIsForgotten ==
    (pc = "idle" /\ ~queue /\ synced /\ ~wl.exists) => tracked = {}

(* Whatever is recorded with a stamped object has its template, too:        *)
(* getEquivalenceTest dereferences TemplateRef without a check.             *)
StampedHasTemplate ==
    \A res \in {wl.status.res, cache.status.res}
                 \cup (IF pc = "idle" THEN {} ELSE {rec.cur, rec.snap.status.res}) :
        \A n \in DOMAIN res : res[n].stamped # None => res[n].tmpl # None

-----------------------------------------------------------------------------
\* The object a resource should have been stamped as.
Clash == \E i, j \in DOMAIN sel.list :
    /\ i # j
    /\ {sel.list[i].tmpl, sel.list[j].tmpl} \subseteq Templates
    /\ tmpls[sel.list[i].tmpl] # None /\ tmpls[sel.list[j].tmpl] # None
    /\ tmpls[sel.list[i].tmpl].obj = tmpls[sel.list[j].tmpl].obj

Realizable(x) ==
    /\ x.tmpl \in Templates
    /\ tmpls[x.tmpl] # None
    /\ tmpls[x.tmpl].ok

\* The output of the resource named in needs, when that resource is templated.
Upstream(x) ==
    {objs[tmpls[y.tmpl].obj].out : y \in {z \in {sel.list[i] : i \in DOMAIN sel.list} :
        z.name = x.needs /\ Realizable(z) /\ objs[tmpls[z.tmpl].obj] # None}} \ {None}

InSync ==
    \/ /\ sel.why # "Ready"
       /\ wl.status.cond = sel.why
    \/ /\ sel.why = "Ready" /\ ~sa
       /\ wl.status.cond = "ServiceAccountNotFound"
    \/ /\ sel.why = "Ready" /\ sa
       /\ \A i \in DOMAIN sel.list :
             LET x == sel.list[i]
                 n == tmpls[x.tmpl].obj
             IN  (Realizable(x) /\ allowed /\ (x.needs = None \/ Upstream(x) # {})) =>
                 /\ objs[n] # None
                 /\ objs[n].spec.tmpl = x.tmpl
                 /\ objs[n].spec.gen = wl.gen
                 /\ x.needs # None => objs[n].spec.input \in Upstream(x)
                 /\ x.name \in DOMAIN wl.status.res
                 /\ wl.status.res[x.name].stamped = n

(* The workload converges: after the last edit and the last failed call,    *)
(* either it is gone, and its objects with it, or in the end its status     *)
(* says why it cannot be realized or every resource whose template, inputs  *)
(* and permissions are there is stamped from the current template, the      *)
(* current generation and the current output of the resource before it.    *)
(* Two templates that stamp one object are excluded: they overwrite each    *)
(* other.                                                                   *)
Converges ==
    <>[](IF wl.exists THEN Clash \/ InSync
         ELSE \A n \in Objects : objs[n] = None)

-----------------------------------------------------------------------------
(* workload_reconciler_test.go, "when previous resource was stamped from a  *)
(* template that is no longer on cluster", "deletes the orphaned objects":  *)
(* not with the repository, whose GetTemplate does not return NotFound.     *)
OrphanOfMissingTemplateIsDeleted ==
    [][FindOrphans =>
          \A n \in DOMAIN rec.snap.status.res :
             LET p == rec.snap.status.res[n] IN
             (p.stamped # None /\ tmpls[p.tmpl] = None /\ p.stamped \notin Refs(rec.cur))
                 => p.stamped \in rec'.orphans]_vars

(* pkg/errors/unhandled.go: with a handled error the reconciler "will not   *)
(* requeue, and wait until it is called to reconcile again via informers".  *)
(* Two such errors are about something the dependency tracker does not hold *)
(* afterwards, so that its informer calls nobody: a missing service         *)
(* account, and a template that cannot be stamped when the resource was     *)
(* realized from another template before.                                   *)
HandledErrorIsWatched ==
    Settled =>
        /\ wl.status.cond = "ServiceAccountNotFound" => SA \in tracked
        /\ (SC \notin events /\ wl.status.cond \notin EarlyReasons) =>
              \A i \in DOMAIN sel.list :
                 LET x == sel.list[i] IN
                 (/\ x.tmpl \in Templates
                  /\ x.name \in DOMAIN wl.status.res
                  /\ wl.status.res[x.name].err = "TemplateStampFailure") => x.tmpl \in tracked
=============================================================================
