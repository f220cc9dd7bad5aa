------------------------- MODULE RunnableReconciler -------------------------
(***************************************************************************)
(* pkg/controllers/runnable_reconciler.go with pkg/realizer/runnable, its  *)
(* gc, the run template of pkg/templates and the part of pkg/repository    *)
(* that keeps immutable objects: one runnable, the run templates it can    *)
(* name, and its runs.                                                     *)
(*                                                                         *)
(* A reconciliation is a sequence of steps, one per API call or group of   *)
(* calls.  The spec of a run is the template's name, what the template     *)
(* stamps, the input and the selected object; two templates never stamp    *)
(* the same spec.  The conditions of the runnable are the reason of        *)
(* RunTemplateReady and the status of StampedObjectCondition (None when it *)
(* is not added).                                                          *)
(***************************************************************************)
EXTENDS ImmutableRuns

CONSTANTS
    RunTemplates,
    KeyOf,          \* template -> key of its objects in the repository's cache
    Specs,          \* what the runnable's spec can be: [tmpl, input]
    FirstSpec,
    Contents,       \* what a run template can hold: [kind, stamps]
    FirstContent,   \* what they hold at the start
    Selectable,     \* what the selector can resolve to; None: not one object
    FirstSelected,
    None,
    MaxSuccessfulRuns, MaxFailedRuns,
    Scenarios,      \* bound: which kinds of trouble come together, each at most once
    MaxRuns         \* bound: runs ever created

\* A template can be stamped and read, declares no outputs, has a path that
\* is not on the object, or cannot be stamped.
Kinds == {"good", "noOutputs", "badPath", "broken"}

\* The CRD has validation:Minimum:=1 on both numbers.
ASSUME RetentionAssumption ==
    MaxSuccessfulRuns \in Nat \ {0} /\ MaxFailedRuns \in Nat \ {0}

ASSUME InstanceAssumption ==
    /\ \A c \in Contents : DOMAIN c = {"kind", "stamps"} /\ c.kind \in Kinds
    /\ FirstContent \in Contents
    /\ FirstSpec \in Specs /\ FirstSelected \in Selectable
    /\ \A s \in Specs : s.tmpl \in RunTemplates
    /\ "ServiceAccount" \notin RunTemplates
    /\ MaxRuns \in Nat
    /\ \A S \in Scenarios : S \subseteq {"input", "switch", "deletion", "template", "account",
                                         "selected", "run", "fault"}

VARIABLES
    \* the API server
    rn,             \* the runnable: [exists, gen, spec, status]
    rts,            \* run template -> content, or None
    account,        \* the service account: "ok", "missing" or "forbidden"
    selected,       \* what the selector resolves to
    runs,           \* every run there ever was, see ImmutableRuns
    \* the manager
    cache, synced, events, queue, tracked,
    watching,       \* is the kind of the runs watched?
    submitted,      \* the repository's cache: key -> spec, or None
    \* the reconciliation
    pc, rec,
    \* bounds and history
    troubles,       \* the kinds of trouble there were: troubles and restarts
    causes,         \* what a new run was called for by
    excused         \* why a settled runnable may not be up to date

api == <<rn, rts, account, selected, runs>>
manager == <<cache, synced, events, queue, tracked, watching, submitted>>
history == <<troubles, causes, excused>>
vars == <<api, manager, pc, rec, history>>

SA == "ServiceAccount"

RunIds == 1..MaxRuns
RunSpecs == [tmpl : RunTemplates, body : {c.stamps : c \in Contents},
             input : {s.input : s \in Specs}, sel : Selectable]
Health == {"True", "False", "Unknown"}

Reasons ==
    {"Ready", "ServiceAccountError", "ServiceAccountTokenError", "ClientBuilderError",
     "RunTemplateNotFound", "TemplateStampFailure", "StampedObjectRejectedByAPIServer",
     "FailedToListCreatedObjects", "OutputPathNotSatisfied"}

IsRunnable(r) ==
    /\ r.exists \in BOOLEAN /\ r.gen \in 1..3 /\ r.spec \in Specs
    /\ r.status.gen \in 0..3
    /\ r.status.reason \in Reasons \cup {None}
    /\ r.status.run \in Health \cup {None}
    /\ r.status.out \in RunIds \cup {None}

Steps == {"account", "stamp", "ensure", "list", "gc", "update"}

TypeOK ==
    /\ IsRunnable(rn) /\ IsRunnable(cache)
    /\ rts \in [RunTemplates -> Contents \cup {None}]
    /\ account \in {"ok", "missing", "forbidden"}
    /\ selected \in Selectable \cup {None}
    /\ Len(runs) <= MaxRuns
    /\ \A i \in DOMAIN runs :
          /\ runs[i].spec \in RunSpecs /\ runs[i].edited \in BOOLEAN
          /\ runs[i].created \in 1..MaxRuns /\ runs[i].health \in Health
          /\ runs[i].fate \in {"kept", "retired", "discarded"}
    /\ synced \in BOOLEAN /\ queue \in BOOLEAN /\ watching \in BOOLEAN
    /\ events \subseteq RunTemplates \cup {SA}
    /\ tracked \subseteq RunTemplates \cup {SA}
    /\ DOMAIN submitted = {KeyOf[t] : t \in RunTemplates}
    /\ \A k \in DOMAIN submitted : submitted[k] \in RunSpecs \cup {None}
    /\ pc \in Steps \cup {"idle"}
    /\ pc = "idle" => rec = None
    /\ pc # "idle" =>
          /\ IsRunnable(rec.snap) /\ rec.content \in Contents \cup {None}
          /\ rec.run \in RunIds \cup {None} /\ rec.doomed \subseteq DOMAIN runs
          /\ rec.out \in DOMAIN runs \cup {None}
    /\ troubles \subseteq UNION Scenarios /\ causes \in Nat
    /\ excused \subseteq {"selection", "transient", "deletion", "unwatched"}

NoStatus == [gen |-> 0, reason |-> None, run |-> None, out |-> None]

Init ==
    /\ rn = [exists |-> TRUE, gen |-> 1, spec |-> FirstSpec, status |-> NoStatus]
    /\ rts = [t \in RunTemplates |-> FirstContent]
    /\ account = "ok" /\ selected = FirstSelected
    /\ runs = <<>>
    /\ cache = [rn EXCEPT !.exists = FALSE]
    /\ synced = FALSE /\ events = {} /\ queue = FALSE /\ tracked = {} /\ watching = FALSE
    /\ submitted = [k \in {KeyOf[t] : t \in RunTemplates} |-> None]
    /\ pc = "idle" /\ rec = None
    /\ troubles = {} /\ causes = 1 /\ excused = {}

-----------------------------------------------------------------------------
Edit(kind) ==
    /\ kind \notin troubles
    /\ \E S \in Scenarios : troubles \cup {kind} \subseteq S
    /\ troubles' = troubles \cup {kind}
Fault == Edit("fault")
Cause == causes' = causes + 1
Excuse(why) == excused' = excused \cup {why}

\* A change of a run is seen if their kind is watched.  Its owner is enqueued at
\* once: the runs are not read from an informer cache, so that a later delivery
\* only means one more reconciliation.
RunEvent == queue' = (queue \/ watching)

NewVersion(r) ==
    /\ rn' = r
    /\ synced' = FALSE
    /\ rec' = IF pc = "idle" THEN None ELSE [rec EXCEPT !.fresh = FALSE]

\* Runs of the runnable that are there; those with the template's label.
Kept == {i \in DOMAIN runs : runs[i].fate = "kept"}
Labelled(t) == {i \in Kept : runs[i].spec.tmpl = t}

-----------------------------------------------------------------------------
\* Users and other controllers.
EditRunnable(s) ==
    /\ Edit(IF s.tmpl = rn.spec.tmpl THEN "input" ELSE "switch")
    /\ rn.exists /\ s # rn.spec
    /\ NewVersion([rn EXCEPT !.gen = @ + 1, !.spec = s])
    /\ Cause
    /\ UNCHANGED <<rts, account, selected, runs, cache, events, queue, tracked,
                   watching, submitted, pc, excused>>

DeleteRunnable ==
    /\ Edit("deletion") /\ rn.exists
    /\ NewVersion([rn EXCEPT !.exists = FALSE])
    /\ UNCHANGED <<rts, account, selected, runs, cache, events, queue, tracked,
                   watching, submitted, pc, causes, excused>>

\* The new content stamps something else than the old one did; that of a
\* template which could not be stamped is something else, too.
Stampable(c) == c # None /\ c.kind # "broken"
Changes(old, new) == Stampable(new) /\ (~Stampable(old) \/ old.stamps # new.stamps)

EditTemplate(t, c) ==
    /\ Edit("template") /\ c # rts[t]
    /\ rts' = [rts EXCEPT ![t] = c]
    /\ events' = events \cup {t}
    /\ causes' = IF Changes(rts[t], c) THEN causes + 1 ELSE causes
    /\ UNCHANGED <<rn, account, selected, runs, cache, synced, queue, tracked,
                   watching, submitted, pc, rec, excused>>

\* The service account or a role binding that names it.
EditAccount(a) ==
    /\ Edit("account") /\ a # account
    /\ account' = a
    /\ events' = events \cup {SA}
    /\ UNCHANGED <<rn, rts, selected, runs, cache, synced, queue, tracked, watching,
                   submitted, pc, rec, causes, excused>>

\* Nobody watches what a runnable's selector selects.
EditSelected(v) ==
    /\ Edit("selected") /\ v # selected
    /\ selected' = v
    /\ Cause /\ Excuse("selection")
    /\ UNCHANGED <<rn, rts, account, runs, manager, pc, rec>>

\* Somebody changes the spec of a run, to cancel it for example.
EditRun(i) ==
    /\ Edit("run") /\ i \in Kept /\ ~runs[i].edited
    /\ runs' = [runs EXCEPT ![i].edited = TRUE]
    /\ RunEvent /\ Cause
    /\ UNCHANGED <<rn, rts, account, selected, cache, synced, events, tracked, watching,
                   submitted, pc, rec, excused>>

\* Before the first watch of its kind nobody hears of it.
RemoveRun(i) ==
    /\ Edit("run") /\ i \in Kept
    /\ runs' = [runs EXCEPT ![i].fate = "discarded"]
    /\ RunEvent /\ Cause
    /\ excused' = IF watching THEN excused ELSE excused \cup {"unwatched"}
    /\ UNCHANGED <<rn, rts, account, selected, cache, synced, events, tracked, watching,
                   submitted, pc, rec>>

\* The controller of the runs.
RunEnds(i, s) ==
    /\ i \in Kept /\ runs[i].health = "Unknown"
    /\ runs' = [runs EXCEPT ![i].health = s]
    /\ RunEvent
    /\ UNCHANGED <<rn, rts, account, selected, cache, synced, events, tracked, watching,
                   submitted, pc, rec, history>>

-----------------------------------------------------------------------------
\* controller-runtime, as in WorkloadReconciler.
DeliverOwner ==
    /\ ~synced
    /\ cache' = rn
    /\ synced' = TRUE /\ queue' = TRUE
    /\ UNCHANGED <<api, events, tracked, watching, submitted, pc, rec, history>>

\* EnqueueTracked and ServiceAccountToRunnableRequests look the key up.
DeliverEvent(k) ==
    /\ k \in events
    /\ events' = events \ {k}
    /\ queue' = (queue \/ k \in tracked)
    /\ UNCHANGED <<api, cache, synced, tracked, watching, submitted, pc, rec, history>>

\* The resync comes after ten hours, in which everything else is delivered.
Resync ==
    /\ pc = "idle" /\ ~queue /\ cache.exists /\ synced /\ events = {}
    /\ queue' = TRUE
    /\ UNCHANGED <<api, cache, synced, events, tracked, watching, submitted, pc, rec,
                   history>>

\* The controller starts again with empty memory.
Restart ==
    /\ Fault
    /\ pc' = "idle" /\ rec' = None
    /\ cache' = rn /\ synced' = TRUE /\ queue' = rn.exists
    /\ events' = {} /\ tracked' = {} /\ watching' = FALSE
    /\ submitted' = [k \in DOMAIN submitted |-> None]
    /\ Cause
    /\ UNCHANGED <<api, excused>>

-----------------------------------------------------------------------------
\* Reconcile.
GetRunnableFails ==
    /\ pc = "idle" /\ queue
    /\ Fault
    /\ UNCHANGED <<api, manager, pc, rec, causes, excused>>

RunnableGone ==
    /\ pc = "idle" /\ queue /\ ~cache.exists
    /\ queue' = FALSE /\ tracked' = {}
    /\ UNCHANGED <<api, cache, synced, events, watching, submitted, pc, rec, history>>

\* GetRunnable, and the first call of trackDependencies.
GetRunnable ==
    /\ pc = "idle" /\ queue /\ cache.exists
    /\ queue' = FALSE /\ tracked' = {}
    /\ pc' = "account"
    /\ rec' = [snap |-> cache, fresh |-> synced, content |-> None, sel |-> None,
               run |-> None, health |-> "Unknown", doomed |-> {}, reason |-> "Ready",
               early |-> FALSE, requeue |-> FALSE, out |-> None]
    /\ excused' = excused \cap {"selection"}
    /\ UNCHANGED <<api, cache, synced, events, watching, submitted, troubles, causes>>

\* Mutant: the service account alone.
TrackAccountOnly == tracked' = {SA}

\* The rest of trackDependencies, before anything is read.
TrackDependencies == tracked' = {SA, rec.snap.spec.tmpl}

UnhandledReasons ==
    {"ClientBuilderError", "RunTemplateNotFound", "FailedToListCreatedObjects"}

\* An error before there is a stamped object.
FailWith(reason, early, requeue) ==
    /\ pc' = "update"
    /\ rec' = [rec EXCEPT !.reason = reason, !.early = early, !.requeue = requeue]

\* The account, its token and the client.  A call that fails on the way is
\* taken for a missing account or a bad token: a handled error.
GetServiceAccount ==
    /\ pc = "account"
    /\ TrackDependencies
    /\ \/ /\ account = "missing"
          /\ FailWith("ServiceAccountError", TRUE, FALSE)
          /\ UNCHANGED <<troubles, excused>>
       \/ /\ Fault /\ Excuse("transient")
          /\ \E reason \in {"ServiceAccountError", "ServiceAccountTokenError",
                            "ClientBuilderError"} :
                FailWith(reason, TRUE, reason \in UnhandledReasons)
       \/ /\ account # "missing"
          /\ pc' = "stamp"
          /\ UNCHANGED <<rec, troubles, excused>>
    /\ UNCHANGED <<api, cache, synced, events, queue, watching, submitted, causes>>

GetRunTemplate == rts[rec.snap.spec.tmpl]

\* The run template, the one object that resolveSelector must find, and Stamp.
\* A template that cannot be read is an unhandled error, and all others are
\* handled, that of a failed call of resolveSelector, too.
Stamp ==
    /\ pc = "stamp"
    /\ LET content == GetRunTemplate IN
       \/ /\ \/ content = None /\ UNCHANGED troubles
             \/ Fault
          /\ FailWith("RunTemplateNotFound", FALSE, TRUE)
          /\ UNCHANGED excused
       \/ /\ content # None /\ (selected = None \/ ~Stampable(content))
          /\ FailWith("TemplateStampFailure", FALSE, FALSE)
          /\ excused' = excused \ {"selection"}
          /\ UNCHANGED troubles
       \/ /\ content # None
          /\ Fault /\ Excuse("transient")
          /\ FailWith("TemplateStampFailure", FALSE, FALSE)
       \/ /\ Stampable(content) /\ selected # None
          /\ rec' = [rec EXCEPT !.content = content, !.sel = selected]
          /\ pc' = "ensure"
          /\ excused' = excused \ {"selection"}
          /\ UNCHANGED troubles
    /\ UNCHANGED <<api, manager, causes>>

\* Mutant: the selected object is not in the templating context.
SpecOfUnselected(s, sel, content) ==
    [tmpl |-> s.tmpl, body |-> content.stamps, input |-> s.input, sel |-> None]

SpecOf(s, sel, content) ==
    [tmpl |-> s.tmpl, body |-> content.stamps, input |-> s.input, sel |-> sel]

\* A new run, in the same second as the one before or later; at most two in
\* a second.
Created(spec) ==
    \E later \in 0..1 :
        LET last == IF runs = <<>> THEN 0 ELSE runs[Len(runs)].created IN
        /\ later = 0 => runs # <<>> /\ Cardinality({i \in DOMAIN runs : runs[i].created = last}) < 2
        /\ runs' = Append(runs, [spec |-> spec, edited |-> FALSE, created |-> last + later,
                                 health |-> "Unknown", fate |-> "kept"])

\* Mutant: what is created is not put in the cache.
CacheSetForgotten(spec) == UNCHANGED submitted

CacheSet(spec) == submitted' = [submitted EXCEPT ![KeyOf[spec.tmpl]] = spec]

\* EnsureImmutableObjectExistsOnCluster lists the runs by the runnable's label
\* alone, and creates a run unless the cache shows that it is there.  A failed
\* call may all the same have created it.
EnsureImmutableObject ==
    /\ pc = "ensure"
    /\ LET spec == SpecOf(rec.snap.spec, rec.sel, rec.content)
           hits == Hits(submitted[KeyOf[spec.tmpl]], spec, runs, Kept)
       IN
       \/ /\ \E i \in hits : rec' = [rec EXCEPT !.run = i, !.health = runs[i].health]
          /\ pc' = "list"
          /\ UNCHANGED <<api, manager, history>>
       \/ /\ hits = {} /\ account # "forbidden"
          /\ Len(runs) < MaxRuns /\ Created(spec) /\ CacheSet(spec)
          /\ RunEvent
          /\ rec' = [rec EXCEPT !.run = Len(runs')]
          /\ pc' = "list"
          /\ UNCHANGED <<rn, rts, account, selected, cache, synced, events, tracked,
                         watching, history>>
       \/ /\ hits = {} /\ account = "forbidden"
          /\ FailWith("StampedObjectRejectedByAPIServer", FALSE, FALSE)
          /\ UNCHANGED <<api, manager, history>>
       \/ /\ Fault
          /\ FailWith("StampedObjectRejectedByAPIServer", FALSE, TRUE)
          /\ UNCHANGED <<api, manager, causes, excused>>
       \/ /\ Fault /\ hits = {} /\ account # "forbidden"
          /\ Len(runs) < MaxRuns /\ Created(spec)
          /\ RunEvent
          /\ rec' = [rec EXCEPT !.reason = "StampedObjectRejectedByAPIServer",
                                !.requeue = TRUE]
          /\ pc' = "update"
          /\ Cause
          /\ UNCHANGED <<rn, rts, account, selected, cache, synced, events, tracked,
                         watching, submitted, excused>>

-----------------------------------------------------------------------------
\* Mutant: the outputs of a run that has not succeeded will do.
OutputsOfAny(content, listed, before) ==
    IF listed = {} THEN {before} ELSE {i \in listed : \A j \in listed : runs[j].created <= runs[i].created}

\* GetLatestSuccessfulOutput, and what Realize makes of an empty one: without a
\* success or without declared outputs the outputs of the status are kept.
OutputsOf(content, listed, before) ==
    LET latest == LatestSuccessful(runs, listed) IN
    CASE latest = {} -> {before}
      [] latest # {} /\ content.kind = "noOutputs" -> {before}
      [] latest # {} /\ content.kind = "badPath" -> {None}
      [] OTHER -> latest

\* The second list is by the labels of the runnable and of the template, and
\* everything else in Realize is computed from it.  When it fails, there is a
\* stamped object all the same, and its kind will be watched.
ListRuns ==
    /\ pc = "list"
    /\ LET listed == Labelled(rec.snap.spec.tmpl) IN
       \/ /\ Fault
          /\ rec' = [rec EXCEPT !.reason = "FailedToListCreatedObjects", !.requeue = TRUE]
       \/ /\ \E doomed \in CleanupRunnableStampedObjects(runs, listed, MaxSuccessfulRuns,
                                                         MaxFailedRuns),
                out \in OutputsOf(rec.content, listed, rec.snap.status.out) :
                rec' = [rec EXCEPT !.doomed = doomed, !.out = out,
                           !.reason = IF /\ rec.content.kind = "badPath"
                                         /\ LatestSuccessful(runs, listed) # {}
                                      THEN "OutputPathNotSatisfied" ELSE "Ready"]
          /\ UNCHANGED troubles
    /\ pc' = "gc"
    /\ UNCHANGED <<api, manager, causes, excused>>

\* No run of the template is newer, and another one is as new: which of them
\* is deleted depends on the order of the list.
Tied(i) == \A j \in Labelled(runs[i].spec.tmpl) : runs[j].created <= runs[i].created

\* The runs are deleted one by one; an error is only logged.
DeleteRun(i) ==
    /\ pc = "gc" /\ i \in rec.doomed
    /\ rec' = [rec EXCEPT !.doomed = @ \ {i}]
    /\ \/ /\ runs[i].fate = "kept"
          /\ runs' = [runs EXCEPT ![i].fate = "retired"]
          /\ RunEvent
          /\ causes' = IF Tied(i) THEN causes + 1 ELSE causes
          /\ UNCHANGED <<troubles, excused>>
       \/ /\ runs[i].fate # "kept"
          /\ UNCHANGED <<runs, queue, history>>
       \/ /\ Fault /\ Excuse("deletion")
          /\ UNCHANGED <<runs, queue, causes>>
    /\ UNCHANGED <<rn, rts, account, selected, cache, synced, events, tracked, watching,
                   submitted, pc>>

\* StampedTracker.Watch.
WatchRuns ==
    /\ pc = "gc" /\ rec.doomed = {}
    /\ pc' = "update"
    /\ \/ /\ watching' = TRUE
          /\ queue' = (queue \/ (~watching /\ Kept # {}))
          /\ UNCHANGED <<rec, troubles>>
       \/ /\ Fault
          /\ rec' = [rec EXCEPT !.requeue = TRUE]
          /\ UNCHANGED <<watching, queue>>
    /\ UNCHANGED <<api, cache, synced, events, tracked, submitted, causes, excused>>

-----------------------------------------------------------------------------
\* completeReconciliation.
\* Mutant: the observed generation is the one observed before.
NewStatusUnobserved ==
    [gen |-> rec.snap.status.gen, reason |-> rec.reason, out |-> rec.out,
     run |-> IF rec.early THEN None ELSE rec.health]

NewStatus ==
    [gen |-> rec.snap.gen, reason |-> rec.reason, out |-> rec.out,
     run |-> IF rec.early THEN None ELSE rec.health]

StatusChanged == NewStatus # rec.snap.status

EndOfReconcile == pc' = "idle" /\ rec' = None

StatusUpdated ==
    /\ pc = "update" /\ StatusChanged
    /\ rec.fresh /\ rn.exists
    /\ EndOfReconcile
    /\ rn' = [rn EXCEPT !.status = NewStatus] /\ synced' = FALSE
    /\ queue' = (queue \/ rec.requeue)
    /\ UNCHANGED <<rts, account, selected, runs, cache, events, tracked, watching,
                   submitted, history>>

StatusUpdateFails ==
    /\ pc = "update" /\ StatusChanged
    /\ \/ ~(rec.fresh /\ rn.exists) /\ UNCHANGED troubles
       \/ Fault
    /\ EndOfReconcile
    /\ queue' = TRUE
    /\ UNCHANGED <<api, cache, synced, events, tracked, watching, submitted,
                   causes, excused>>

StatusUnchanged ==
    /\ pc = "update" /\ ~StatusChanged
    /\ EndOfReconcile
    /\ queue' = (queue \/ rec.requeue)
    /\ UNCHANGED <<api, cache, synced, events, tracked, watching, submitted, history>>

-----------------------------------------------------------------------------
Environment ==
    \/ DeleteRunnable
    \/ \E s \in Specs : EditRunnable(s)
    \/ \E t \in RunTemplates, c \in Contents \cup {None} : EditTemplate(t, c)
    \/ \E a \in {"ok", "missing", "forbidden"} : EditAccount(a)
    \/ \E v \in Selectable \cup {None} : EditSelected(v)
    \/ \E i \in DOMAIN runs : EditRun(i) \/ RemoveRun(i)
    \/ \E i \in DOMAIN runs, s \in {"True", "False"} : RunEnds(i, s)

Runtime == DeliverOwner \/ Resync \/ Restart \/ \E k \in events : DeliverEvent(k)

Reconcile ==
    \/ GetRunnableFails \/ RunnableGone \/ GetRunnable
    \/ GetServiceAccount \/ Stamp \/ EnsureImmutableObject
    \/ ListRuns \/ \E i \in DOMAIN runs : DeleteRun(i)
    \/ WatchRuns
    \/ StatusUpdated \/ StatusUpdateFails \/ StatusUnchanged

Next == Environment \/ Runtime \/ Reconcile

Fairness ==
    /\ WF_vars(Reconcile)
    /\ WF_vars(DeliverOwner)
    /\ \A k \in RunTemplates \cup {SA} : WF_vars(DeliverEvent(k))
    /\ WF_vars(Resync)

Spec == Init /\ [][Next]_vars /\ Fairness
-----------------------------------------------------------------------------
Settled == pc = "idle" /\ ~queue /\ synced /\ rn.exists /\ events = {}

\* The newest runs that succeeded, one or two of the same second.
Successes ==
    LET good == {i \in Labelled(rn.spec.tmpl) : runs[i].health = "True"}
    IN  {i \in good : \A j \in good : runs[j].created <= runs[i].created}

Realizable ==
    /\ account = "ok" /\ selected # None
    /\ Stampable(rts[rn.spec.tmpl])

(* Every run was called for.  A run is a build or a test that costs minutes: *)
(* a new one is created only because the runnable, what a template stamps or *)
(* the selected object changed, somebody deleted or edited the run, the      *)
(* controller was restarted, the answer to a create call was lost, or two    *)
(* runs of the same second made the cleanup delete the newest.  An edit of a *)
(* template that leaves alone what it stamps is none of these causes.        *)
RunsAreExplained == Len(runs) <= causes

(* No change is missed: the runnable tracks its account and its template     *)
(* before it reads them, so once it has settled and can be realized, it      *)
(* reports what the template as it is now makes of its runs, and the run     *)
(* that it stamps is there.  Excused are the selected object, which nobody   *)
(* watches, a run deleted before the first watch, and failed calls that are  *)
(* treated like a missing account or a bad template and are not retried.     *)
SettledIsCurrent ==
    (Settled /\ Realizable /\ excused \subseteq {"deletion"}) =>
        /\ rn.status.gen = rn.gen
        /\ rn.status.reason = IF rts[rn.spec.tmpl].kind = "badPath" /\ Successes # {}
                              THEN "OutputPathNotSatisfied" ELSE "Ready"
        /\ \E i \in Kept : /\ runs[i].spec = SpecOf(rn.spec, selected, rts[rn.spec.tmpl])
                           /\ ~runs[i].edited

(* The outputs of a settled runnable are those of the newest run of its      *)
(* template that succeeded, deletions by the cleanup included.               *)
OutputsAreLatest ==
    (Settled /\ Realizable /\ excused \subseteq {"deletion"}
        /\ rts[rn.spec.tmpl].kind = "good" /\ Successes # {}) => rn.status.out \in Successes

(* The retention policy holds for the runs of the current template once the  *)
(* runnable has settled, unless a deletion failed (it is not retried).       *)
RetentionHolds ==
    (Settled /\ Realizable /\ excused = {}) =>
        /\ Cardinality(WithHealth(runs, Labelled(rn.spec.tmpl), "True")) <= MaxSuccessfulRuns
        /\ Cardinality(WithHealth(runs, Labelled(rn.spec.tmpl), "False")) <= MaxFailedRuns

\* The runs and the outputs of the status, as RunLedger sees them.
Ledger == INSTANCE RunLedger WITH
    ledger <- [i \in DOMAIN runs |->
                  [tmpl |-> runs[i].spec.tmpl, created |-> runs[i].created,
                   end |-> runs[i].health, fate |-> runs[i].fate]],
    published <- rn.status.out,
    Seconds <- 1..MaxRuns

(* The runnable keeps the promises of RunLedger: it retires a run only for   *)
(* another one that ended the same way and is not older, and publishes the   *)
(* output of a success, never of an older one than before.                   *)
KeepsLedger == Ledger!Spec

(* After the last change and the last failed call the runnable is up to date *)
(* for good, the changes of the selected object and the errors that are not  *)
(* retried included: the resync sees to that.                                *)
Converges ==
    <>[](rn.exists /\ Realizable =>
            /\ rn.status.gen = rn.gen
            /\ rn.status.reason \in {"Ready", "OutputPathNotSatisfied"}
            /\ \E i \in Kept : runs[i].spec = SpecOf(rn.spec, selected, rts[rn.spec.tmpl])
            /\ rts[rn.spec.tmpl].kind = "good" /\ Successes # {} => rn.status.out \in Successes)
=============================================================================
