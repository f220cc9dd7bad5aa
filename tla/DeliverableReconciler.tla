------------------------ MODULE DeliverableReconciler ------------------------
(***************************************************************************)
(* pkg/controllers/deliverable_reconciler.go composed with the reconciler  *)
(* of its delivery (BlueprintReconciler): one deliverable, one delivery of *)
(* two resources, and what is stamped out of them.  The first resource is  *)
(* a source, whose object reports a revision.  The second has a            *)
(* ClusterDeploymentTemplate: its object deploys the revision, and the     *)
(* resource passes it on once the template's criteria say that it is       *)
(* deployed (DeploymentPassThroughReader of pkg/stamp).  The template has  *)
(* the mutable lifecycle, one object that is patched, or the immutable     *)
(* one, a new object per revision (doImmutable of pkg/realizer).           *)
(*                                                                         *)
(* The parts this reconciler has in common with the one of workloads (a    *)
(* chain that changes, options, pass throughs, the steps inside            *)
(* trackDependencies) are modelled in WorkloadReconciler.                  *)
(***************************************************************************)
EXTENDS BlueprintReconciler, ImmutableRuns

CONSTANTS
    SourceTemplate,
    DeploymentTemplates,
    DeploymentContents,  \* what they can hold: [life, ready, rule]
    FirstDeployment,     \* the one the delivery names at the start
    FirstContents,       \* what they may hold at the start
    MaxSuccessfulRuns, MaxFailedRuns,
    MaxRev,              \* bound: revisions of the source
    MaxDeps,             \* bound: deployment objects ever created
    Scenarios            \* bound: which kinds of trouble come together, each at most once

\* life: the lifecycle; ready: observedMatches or observedCompletion; rule: is
\* there a health rule (on the condition Succeeded) or none?
DeploymentContent ==
    [life : {"mutable", "immutable"}, ready : {"matches", "completion"}, rule : BOOLEAN]

ASSUME DeliverableAssumption ==
    /\ Templates = DeploymentTemplates \cup {SourceTemplate}
    /\ SourceTemplate \notin DeploymentTemplates
    /\ FirstDeployment \in DeploymentTemplates /\ FirstContents \subseteq DeploymentContents
    /\ DeploymentContents \subseteq DeploymentContent
    /\ MaxSuccessfulRuns \in Nat \ {0} /\ MaxFailedRuns \in Nat \ {0}
    /\ MaxRev \in Nat \ {0} /\ MaxDeps \in Nat
    /\ \A S \in Scenarios : S \subseteq {"push", "chain", "labels", "blueprint", "template",
                                         "source", "account", "failure", "deletion", "fault", "new"}
    /\ None \notin Nat \cup Templates \cup DeploymentContents
    /\ "ServiceAccount" \notin Templates

VARIABLES
    \* the API server
    dl,          \* the deliverable: [exists, gen, labels, status]
    account,     \* does the service account exist?
    src,         \* the source object: None, or [out]
    deps,        \* every deployment object there ever was, see Deployment below
    \* the manager
    queue, tracked,
    watching,    \* kinds of stamped objects that are watched
    submitted,   \* the repository's cache of immutable objects: template -> spec
    \* the reconciliation
    pc, rec,
    \* bounds and history
    troubles,
    deployed,    \* <<object, revision>>: was deployed by it at some time
    lost         \* objects whose reference did not reach the status

owner == <<dl, account, src, deps>>
manager == <<events, queue, tracked, watching, submitted>>
history == <<troubles, deployed, lost>>
vars == <<blueprintVars, tmpls, owner, manager, pc, rec, history>>

SA == "ServiceAccount"
SourceObject == 0
SourceContent == [life |-> "mutable", ready |-> "source", rule |-> FALSE]
Revs == 1..MaxRev
DepIds == 1..MaxDeps

Steps == {"select", "account", "source", "deployment", "list", "gc", "track", "orphans",
          "delete", "update"}

\* getDeliveriesForDeliverable: what the labels lead to.
Labels == {"match", "DeliverableLabelsMissing", "DeliveryNotFound", "MultipleDeliveryMatches"}

HandledReasons ==
    (Labels \ {"match"}) \cup BlueprintReasons \cup
    {"ServiceAccountError", "ServiceAccountTokenError", "MissingValueAtPath",
     "TemplateStampFailure", "ConditionNotMet", "FailedConditionMet", "NoOutput"}
UnhandledReasons ==
    {"ListFailed", "ResourceRealizerBuilderError", "TemplateObjectRetrievalFailure",
     "TemplateRejectedByAPIServer", "UnknownError"}

ASSUME NoneAssumption == None \notin HandledReasons \cup UnhandledReasons /\ None # SourceContent

\* A RealizedResource; known says that the status has an entry for the resource.
IsResource(r) ==
    /\ r.stamped \in DepIds \cup {SourceObject, None}
    /\ r.tmpl \in Templates \cup {None} /\ r.out \in Revs \cup {None}
    /\ r.known \in BOOLEAN

IsDeliverable(d) ==
    /\ d.exists \in BOOLEAN /\ d.gen \in 1..2 /\ d.labels \in Labels
    /\ d.status.gen \in 0..2
    /\ d.status.cond \in HandledReasons \cup UnhandledReasons \cup {"Submitted", None}
    /\ IsResource(d.status.src) /\ IsResource(d.status.dep)

\* A deployment object.  Its controller works on the generation it has
\* observed and reports the condition Succeeded (health) and the revision it
\* has deployed last (rev).
IsDeployment(o) ==
    /\ o.spec \in Revs /\ o.tmpl \in DeploymentTemplates /\ o.life \in {"mutable", "immutable"}
    /\ o.gen \in Nat \ {0} /\ o.obs \in 0..o.gen /\ o.doing \in Revs \cup {None}
    /\ o.health \in {"True", "False", "Unknown"} /\ o.rev \in Revs \cup {None}
    /\ o.created \in Nat /\ ~o.edited /\ o.fate \in {"kept", "deleted"}

TypeOK ==
    /\ BlueprintTypeOK
    /\ tmpls \in [Templates -> DeploymentContents \cup {SourceContent, None}]
    /\ IsDeliverable(dl)
    /\ account \in BOOLEAN /\ queue \in BOOLEAN
    /\ src = None \/ src.out \in Revs \cup {None}
    /\ Len(deps) <= MaxDeps /\ \A i \in DOMAIN deps : IsDeployment(deps[i])
    /\ events \subseteq Templates \cup {SA} /\ tracked \subseteq Templates \cup {SA}
    /\ watching \subseteq {"source", "deployment"}
    /\ submitted \in [DeploymentTemplates -> Revs \cup {None}]
    /\ pc \in Steps \cup {"idle"}
    /\ pc = "idle" => rec = None
    /\ pc # "idle" =>
          /\ IsResource(rec.src) /\ IsResource(rec.dep)
          /\ rec.doomed \cup rec.orphans \subseteq DOMAIN deps
    /\ deployed \subseteq DepIds \X Revs /\ lost \subseteq DOMAIN deps

NoResource == [known |-> FALSE, stamped |-> None, tmpl |-> None, out |-> None]
NoStatus == [gen |-> 0, cond |-> None, src |-> NoResource, dep |-> NoResource]

\* A deliverable that was just created, for a delivery that is ready; or a
\* delivery that was just created, its templates perhaps not, and no
\* deliverable yet.
Init ==
    /\ \E new \in BOOLEAN :
          /\ BlueprintInit(<<SourceTemplate, FirstDeployment>>, new)
          /\ dl = [exists |-> ~new, gen |-> 1, labels |-> "match", status |-> NoStatus]
          /\ troubles = IF new THEN {"new"} ELSE {}
    /\ \E c \in IF dl.exists THEN FirstContents ELSE FirstContents \cup {None} :
          tmpls = [t \in Templates |-> IF t = SourceTemplate THEN SourceContent ELSE c]
    /\ account = TRUE /\ src = None /\ deps = <<>>
    /\ events = {} /\ queue = dl.exists /\ tracked = {} /\ watching = {}
    /\ submitted = [d \in DeploymentTemplates |-> None]
    /\ pc = "idle" /\ rec = None
    /\ deployed = {} /\ lost = {}

-----------------------------------------------------------------------------
Edit(kind) ==
    /\ kind \notin troubles
    /\ \E S \in Scenarios : troubles \cup {kind} \subseteq S /\ ("new" \in S => "new" \in troubles)
    /\ troubles' = troubles \cup {kind}
Fault == Edit("fault")

Kept == {i \in DOMAIN deps : deps[i].fate = "kept"}

\* Stamped objects are not read from an informer's cache: a change of one that
\* is watched enqueues its owner at once.
StampedEvent(kind) == queue' = (queue \/ kind \in watching)

\* So does a change of the deliverable; an informer that is behind is part of
\* WorkloadReconciler.
NewVersion(d) ==
    /\ dl' = d /\ queue' = TRUE
    /\ rec' = IF pc = "idle" THEN None ELSE [rec EXCEPT !.fresh = FALSE]

\* Users.  A change of labels makes no new generation.
EditDeliverable(labels, spec) ==
    /\ Edit("labels") /\ dl.exists /\ (spec \/ labels # dl.labels)
    /\ NewVersion([dl EXCEPT !.labels = labels, !.gen = IF spec THEN @ + 1 ELSE @])
    /\ UNCHANGED <<blueprintVars, tmpls, account, src, deps, events, tracked,
                   watching, submitted, pc, deployed, lost>>

DeleteDeliverable ==
    /\ Edit("deletion") /\ dl.exists
    /\ NewVersion([dl EXCEPT !.exists = FALSE])
    /\ UNCHANGED <<blueprintVars, tmpls, account, src, deps, events, tracked,
                   watching, submitted, pc, deployed, lost>>

\* The delivery is deleted, or names another deployment template.
EditDelivery ==
    /\ bp.exists
    /\ \/ Edit("blueprint") /\ BlueprintChanged([bp EXCEPT !.exists = FALSE])
       \/ /\ Edit("chain")
          /\ \E d \in DeploymentTemplates \ {bp.refs[2]} :
                BlueprintChanged([bp EXCEPT !.refs[2] = d, !.gen = @ + 1])
    /\ UNCHANGED <<tmpls, owner, manager, pc, rec, deployed, lost>>

\* One that the delivery names; the others concern nobody.
EditTemplate(t, c) ==
    /\ \E i \in DOMAIN bp.refs : t = bp.refs[i]
    /\ Edit(IF t = SourceTemplate THEN "source" ELSE "template") /\ c # tmpls[t]
    /\ tmpls' = [tmpls EXCEPT ![t] = c]
    /\ TemplateChanged(t)
    /\ UNCHANGED <<owner, queue, tracked, watching, submitted, pc, rec,
                   deployed, lost>>

EditAccount ==
    /\ Edit("account")
    /\ account' = ~account
    /\ events' = events \cup {SA}
    /\ UNCHANGED <<blueprintVars, tmpls, dl, src, deps, queue, tracked,
                   watching, submitted, pc, rec, deployed, lost>>

\* The controller of the source reports a revision, and later the ones that
\* are pushed.
ReportRevision(first) ==
    /\ src # None /\ first = (src.out = None)
    /\ IF first THEN src' = [src EXCEPT !.out = 1] /\ UNCHANGED troubles
       ELSE Edit("push") /\ src.out < MaxRev /\ src' = [src EXCEPT !.out = @ + 1]
    /\ StampedEvent("source")
    /\ UNCHANGED <<blueprintVars, tmpls, dl, account, deps, events, tracked,
                   watching, submitted, pc, rec, deployed, lost>>

\* The controller of the deployment objects begins with a generation and ends
\* with it; the object may be patched in between.
BeginDeployment(i) ==
    /\ i \in Kept /\ deps[i].obs # deps[i].gen
    /\ deps' = [deps EXCEPT ![i].obs = deps[i].gen, ![i].doing = deps[i].spec,
                            ![i].health = "Unknown"]
    /\ StampedEvent("deployment")
    /\ UNCHANGED <<blueprintVars, tmpls, dl, account, src, events, tracked,
                   watching, submitted, pc, rec, history>>

EndDeployment(i) ==
    /\ i \in Kept /\ deps[i].obs # 0 /\ deps[i].health = "Unknown"
    /\ \/ /\ deps' = [deps EXCEPT ![i].health = "True", ![i].rev = deps[i].doing]
          /\ deployed' = deployed \cup {<<i, deps[i].doing>>}
          /\ UNCHANGED troubles
       \/ /\ Edit("failure")
          /\ deps' = [deps EXCEPT ![i].health = "False"]
          /\ UNCHANGED deployed
    /\ StampedEvent("deployment")
    /\ UNCHANGED <<blueprintVars, tmpls, dl, account, src, events, tracked,
                   watching, submitted, pc, rec, lost>>

-----------------------------------------------------------------------------
\* controller-runtime, as in WorkloadReconciler.
DeliverEvent(k) ==
    /\ \/ k \in Templates /\ DeliverTemplate(k)
       \/ k = SA /\ k \in events /\ events' = events \ {k} /\ UNCHANGED blueprintVars
    /\ queue' = (queue \/ k \in tracked)
    /\ UNCHANGED <<tmpls, owner, tracked, watching, submitted, pc, rec, history>>

\* ClusterDeliveryToDeliverableRequests lists every deliverable.
DeliverDelivery ==
    /\ DeliverBlueprint
    /\ queue' = (queue \/ dl.exists)
    /\ UNCHANGED <<tmpls, owner, events, tracked, watching, submitted, pc, rec,
                   history>>

Idle == pc = "idle" /\ ~queue /\ events = {}

\* The resync comes after ten hours, in which everything else is done.
Quiet ==
    /\ Idle /\ (src # None => src.out # None)
    /\ \A i \in Kept : deps[i].obs = deps[i].gen /\ deps[i].health # "Unknown"

Resync ==
    /\ Quiet /\ (dl.exists \/ bp.exists)
    /\ queue' = dl.exists
    /\ ResyncBlueprint
    /\ UNCHANGED <<tmpls, owner, events, tracked, watching, submitted, pc, rec,
                   history>>

\* The objects that the reconciliation has just been about.
InFlight == IF pc = "idle" THEN {} ELSE {rec.dep.stamped} \ {None}

Restart ==
    /\ Fault
    /\ RestartBlueprint
    /\ pc' = "idle" /\ rec' = None
    /\ queue' = dl.exists
    /\ events' = {} /\ tracked' = {} /\ watching' = {}
    /\ submitted' = [d \in DeploymentTemplates |-> None]
    /\ lost' = lost \cup InFlight
    /\ UNCHANGED <<tmpls, owner, deployed>>

\* The steps of the delivery's reconciler, on their own.
BlueprintSteps ==
    /\ \/ BlueprintGone \/ GetBlueprint \/ TrackTemplate
       \/ ReadTemplate(FALSE) \/ UpdateBlueprint(FALSE)
    /\ UNCHANGED <<tmpls, owner, manager, pc, rec, history>>

BlueprintFaults ==
    /\ Fault
    /\ ReadTemplate(TRUE) \/ UpdateBlueprint(TRUE)
    /\ UNCHANGED <<tmpls, owner, manager, pc, rec, deployed, lost>>

-----------------------------------------------------------------------------
\* Reconcile.
GetDeliverableFails ==
    /\ pc = "idle" /\ queue
    /\ Fault
    /\ UNCHANGED <<blueprintVars, tmpls, owner, manager, pc, rec, deployed, lost>>

DeliverableGone ==
    /\ pc = "idle" /\ queue /\ ~dl.exists
    /\ queue' = FALSE /\ tracked' = {}
    /\ UNCHANGED <<blueprintVars, tmpls, owner, events, watching, submitted,
                   pc, rec, history>>

GetDeliverable ==
    /\ pc = "idle" /\ queue /\ dl.exists
    /\ queue' = FALSE
    /\ pc' = "select"
    /\ rec' = [snap |-> dl, fresh |-> TRUE, tmpl |-> None, content |-> None,
               src |-> dl.status.src, dep |-> dl.status.dep, input |-> None,
               cond |-> None, requeue |-> FALSE, doomed |-> {}, orphans |-> {}]
    /\ UNCHANGED <<blueprintVars, tmpls, owner, events, tracked, watching,
                   submitted, history>>

GiveUp(reason) ==
    /\ pc' = "update"
    /\ rec' = [rec EXCEPT !.cond = reason, !.requeue = (reason \in UnhandledReasons)]

\* getDeliveriesForDeliverable and isDeliveryReady, which reads the condition
\* of whatever generation the delivery's reconciler has observed.
GetDelivery ==
    /\ pc = "select"
    /\ LET why == IF rec.snap.labels = "match" /\ ~bcache.exists THEN "DeliveryNotFound"
                  ELSE rec.snap.labels
       IN
       \/ Fault /\ why # "DeliverableLabelsMissing" /\ GiveUp("ListFailed")
       \/ why # "match" /\ GiveUp(why) /\ UNCHANGED troubles
       \/ /\ why = "match" /\ bcache.status.ready # "Ready"
          /\ GiveUp(IF bcache.status.ready = None THEN "Unknown" ELSE bcache.status.ready)
          /\ UNCHANGED troubles
       \/ /\ why = "match" /\ bcache.status.ready = "Ready"
          /\ pc' = "account"
          /\ rec' = [rec EXCEPT !.tmpl = bcache.refs[2]]
          /\ UNCHANGED troubles
    /\ UNCHANGED <<blueprintVars, tmpls, owner, manager, deployed, lost>>

GetServiceAccount ==
    /\ pc = "account"
    /\ \/ ~account /\ GiveUp("ServiceAccountError") /\ UNCHANGED troubles
       \/ Fault /\ \E reason \in {"ServiceAccountError", "ServiceAccountTokenError",
                                  "ResourceRealizerBuilderError"} : GiveUp(reason)
       \/ account /\ pc' = "source" /\ UNCHANGED <<rec, troubles>>
    /\ UNCHANGED <<blueprintVars, tmpls, owner, manager, deployed, lost>>

-----------------------------------------------------------------------------
\* Realize.  The realized resource stays what it was when nothing was stamped,
\* and the first error is the one that is reported.
Realized(previous, t, object, out) ==
    IF object = None /\ previous.known THEN previous
    ELSE [known |-> TRUE, stamped |-> object, tmpl |-> t, out |-> out]

FirstError(err) == IF rec.cond = None THEN err ELSE rec.cond

\* The source: GetTemplate, Stamp, doMutable.
DoSource ==
    /\ pc = "source"
    /\ pc' = "deployment"
    /\ LET done(t, object, out, err) ==
              rec' = [rec EXCEPT !.src = Realized(rec.snap.status.src, t, object, out),
                                 !.input = out, !.cond = err]
       IN
       \/ /\ tmpls[SourceTemplate] = None
          /\ done(None, None, None, "UnknownError")
          /\ UNCHANGED <<src, queue, troubles>>
       \/ /\ Fault
          /\ \/ done(None, None, None, "TemplateObjectRetrievalFailure")
             \/ done(SourceTemplate, None, None, "TemplateRejectedByAPIServer")
          /\ UNCHANGED <<src, queue>>
       \/ /\ tmpls[SourceTemplate] # None
          /\ src' = IF src = None THEN [out |-> None] ELSE src
          /\ done(SourceTemplate, SourceObject, src'.out,
                  IF src'.out = None THEN "MissingValueAtPath" ELSE None)
          /\ IF src = None THEN StampedEvent("source") ELSE UNCHANGED queue
          /\ UNCHANGED troubles
    /\ UNCHANGED <<blueprintVars, tmpls, dl, account, deps, events, tracked,
                   watching, submitted, deployed, lost>>

\* The deployment resource is done with.
DoneDeployment(t, object, out, err) ==
    rec' = [rec EXCEPT !.dep = Realized(rec.snap.status.dep, t, object, out),
                       !.cond = FirstError(err)]

\* No template, or it cannot be read; or its input is not there yet.
DoWithoutObject ==
    /\ pc = "deployment"
    /\ pc' = "track"
    /\ \/ /\ tmpls[rec.tmpl] = None
          /\ DoneDeployment(None, None, None, "UnknownError")
          /\ UNCHANGED troubles
       \/ /\ Fault
          /\ DoneDeployment(None, None, None, "TemplateObjectRetrievalFailure")
       \/ /\ tmpls[rec.tmpl] # None /\ rec.input = None
          /\ DoneDeployment(rec.tmpl, None, None, "TemplateStampFailure")
          /\ UNCHANGED troubles
    /\ UNCHANGED <<blueprintVars, tmpls, owner, manager, deployed, lost>>

Stampable == tmpls[rec.tmpl] # None /\ rec.input # None

\* Mutant: the condition may be that of the object before it was patched.
DeploymentErrorOfAnyGeneration(c, o) ==
    CASE c.ready = "matches" -> IF o.rev = o.spec THEN None ELSE "ConditionNotMet"
      [] o.obs = 0 -> "TemplateStampFailure"
      [] o.health = "False" -> "FailedConditionMet"
      [] o.health = "Unknown" -> "ConditionNotMet"
      [] OTHER -> None

\* outputReady: why the object does not count as deployed, or None.
DeploymentError(c, o) ==
    CASE c.ready = "matches" -> IF o.rev = o.spec THEN None ELSE "ConditionNotMet"
      [] o.obs = 0 -> "TemplateStampFailure"
      [] o.obs # o.gen -> "ConditionNotMet"
      [] o.health = "False" -> "FailedConditionMet"
      [] o.health = "Unknown" -> "ConditionNotMet"
      [] OTHER -> None

\* Output of the DeploymentPassThroughReader: the input, once the object that
\* is looked at is ready.
Output(t, c, stamped, seen) ==
    LET err == IF seen = None THEN "NoOutput" ELSE DeploymentError(c, seen)
    IN  DoneDeployment(t, stamped, IF err = None THEN rec.input ELSE None, err)

NewDeployment(c) ==
    [spec |-> rec.input, edited |-> FALSE, created |-> Len(deps) + 1, health |-> "Unknown",
     fate |-> "kept", tmpl |-> rec.tmpl, life |-> c.life, gen |-> 1, obs |-> 0,
     doing |-> None, rev |-> None]

\* The API server rejects the object, or the call fails (and may still have
\* been carried out).
ApplyFails(after) ==
    /\ Fault
    /\ DoneDeployment(rec.tmpl, None, None, "TemplateRejectedByAPIServer")
    /\ pc' = "track"
    /\ \/ UNCHANGED <<deps, queue, lost>>
       \/ /\ deps' = after /\ StampedEvent("deployment")
          /\ lost' = lost \cup (DOMAIN after \ DOMAIN deps)

\* doMutable: create the object, or patch it when the input has changed.
DoMutable ==
    /\ pc = "deployment" /\ Stampable /\ tmpls[rec.tmpl].life = "mutable"
    /\ LET c == tmpls[rec.tmpl]
           mine == {i \in Kept : deps[i].tmpl = rec.tmpl /\ deps[i].life = "mutable"}
           i == IF mine = {} THEN Len(deps) + 1 ELSE CHOOSE j \in mine : TRUE
           after == IF mine = {} THEN Append(deps, NewDeployment(c))
                    ELSE IF deps[i].spec = rec.input THEN deps
                    ELSE [deps EXCEPT ![i].spec = rec.input, ![i].gen = @ + 1]
       IN
       /\ mine = {} => Len(deps) < MaxDeps
       /\ \/ ApplyFails(after)
          \/ /\ deps' = after
             /\ Output(rec.tmpl, c, i, after[i])
             /\ IF after = deps THEN UNCHANGED queue ELSE StampedEvent("deployment")
             /\ pc' = "track"
             /\ UNCHANGED <<troubles, lost>>
    /\ UNCHANGED <<blueprintVars, tmpls, dl, account, src, events, tracked,
                   watching, submitted, deployed>>

\* What is listed has the labels of the resource and of the template.
Listed(t) == {i \in Kept : deps[i].tmpl = t /\ deps[i].life = "immutable"}

\* The cache tells objects apart by those labels, which differ in the template.
BuildOwnerDiscriminant(t) == t

\* doImmutable, EnsureImmutableObjectExistsOnCluster.
EnsureImmutable ==
    /\ pc = "deployment" /\ Stampable /\ tmpls[rec.tmpl].life = "immutable"
    /\ LET c == tmpls[rec.tmpl]
           key == BuildOwnerDiscriminant(rec.tmpl)
           hits == Hits(submitted[key], rec.input, deps, Listed(rec.tmpl))
           after == Append(deps, NewDeployment(c))
           ensured(i) == /\ rec' = [rec EXCEPT !.content = c, !.dep.stamped = i]
                         /\ pc' = "list"
       IN
       \/ /\ \E i \in hits : ensured(i)
          /\ UNCHANGED <<deps, queue, submitted, troubles, lost>>
       \/ /\ hits = {} /\ Len(deps) < MaxDeps
          /\ \/ /\ ensured(Len(deps) + 1)
                /\ deps' = after /\ StampedEvent("deployment")
                /\ submitted' = [submitted EXCEPT ![key] = rec.input]
                /\ UNCHANGED <<troubles, lost>>
             \/ ApplyFails(after) /\ UNCHANGED submitted
    /\ UNCHANGED <<blueprintVars, tmpls, dl, account, src, events, tracked,
                   watching, deployed>>

\* DetermineStampedObjectHealth: without a rule every object is healthy.
Examined(c) == [i \in DOMAIN deps |->
    [deps[i] EXCEPT !.health = IF c.rule THEN @ ELSE "True"]]

\* The rest of doImmutable: the output is that of the latest healthy object,
\* and older ones are deleted.
ListImmutable ==
    /\ pc = "list"
    /\ LET c == rec.content
           runs == Examined(c)
           listed == Listed(rec.tmpl)
           latest == LatestSuccessful(runs, listed)
           i == rec.dep.stamped
       IN
       \/ /\ Fault
          /\ DoneDeployment(rec.tmpl, None, None, "UnknownError")
          /\ pc' = "track"
          /\ lost' = lost \cup {i}
       \/ /\ \E doomed \in CleanupRunnableStampedObjects(runs, listed, MaxSuccessfulRuns,
                                                         MaxFailedRuns) :
                LET err == IF latest = {} THEN "NoOutput"
                           ELSE DeploymentError(c, deps[CHOOSE j \in latest : TRUE])
                IN  rec' = [rec EXCEPT
                              !.doomed = doomed,
                              !.dep = [known |-> TRUE, stamped |-> i, tmpl |-> rec.tmpl,
                                       out |-> IF err = None THEN rec.input ELSE None],
                              !.cond = FirstError(err)]
          /\ pc' = "gc"
          /\ UNCHANGED <<troubles, lost>>
    /\ UNCHANGED <<blueprintVars, tmpls, owner, manager, deployed>>

\* CleanupRunnableStampedObjects only logs an error.
DeleteRuns ==
    /\ pc = "gc"
    /\ pc' = "track"
    /\ rec' = [rec EXCEPT !.doomed = {}]
    /\ \/ /\ deps' = [i \in DOMAIN deps |->
                        IF i \in rec.doomed THEN [deps[i] EXCEPT !.fate = "deleted"] ELSE deps[i]]
          /\ IF deps' = deps THEN UNCHANGED queue ELSE StampedEvent("deployment")
          /\ UNCHANGED troubles
       \/ Fault /\ rec.doomed # {} /\ UNCHANGED <<deps, queue>>
    /\ UNCHANGED <<blueprintVars, tmpls, dl, account, src, events, tracked,
                   watching, submitted, deployed, lost>>

-----------------------------------------------------------------------------
\* After Realize.
TrackDependencies ==
    /\ pc = "track"
    /\ tracked' = {SA} \cup ({rec.src.tmpl, rec.dep.tmpl} \ {None})
    /\ rec' = [rec EXCEPT !.requeue = (rec.cond \in UnhandledReasons)]
    /\ pc' = "orphans"
    /\ UNCHANGED <<blueprintVars, tmpls, owner, events, queue, watching,
                   submitted, history>>

\* Mutant: objects are compared by name under every lifecycle.
EquivalentByName(i) == rec.dep.stamped = i

\* Mutant: the lifecycle the previous object was stamped under is not looked at.
EquivalentByTemplate(i) ==
    IF tmpls[rec.snap.status.dep.tmpl].life = "mutable"
    THEN rec.dep.stamped = i
    ELSE deps[i].fate = "kept" /\ rec.dep.tmpl = rec.snap.status.dep.tmpl

\* getEquivalenceTest: may the previous object stay?  Under the immutable
\* lifecycle a resource has many objects, which belong together by template
\* and resource, unless the object is labelled as a mutable one.
Equivalent(i) ==
    IF tmpls[rec.snap.status.dep.tmpl].life = "mutable" \/ deps[i].life = "mutable"
    THEN rec.dep.stamped = i
    ELSE deps[i].fate = "kept" /\ rec.dep.tmpl = rec.snap.status.dep.tmpl

\* cleanupOrphanedObjects, up to the deletion: nothing is deleted when the
\* template of a previous resource is gone or a call fails.
FindOrphans ==
    /\ pc = "orphans"
    /\ pc' = "delete"
    /\ LET i == rec.snap.status.dep.stamped
           t == rec.snap.status.dep.tmpl
       IN
       \/ /\ i # None => (tmpls[t] # None /\ tmpls[SourceTemplate] # None)
          /\ rec' = [rec EXCEPT !.orphans = IF i = None \/ (rec.dep.stamped # None /\ Equivalent(i))
                                            THEN {} ELSE {i}]
          /\ UNCHANGED <<troubles, lost>>
       \/ /\ i # None
          /\ \/ UNCHANGED troubles /\ (tmpls[t] = None \/ tmpls[SourceTemplate] = None)
             \/ Fault
          /\ lost' = lost \cup {i}
          /\ UNCHANGED rec
    /\ UNCHANGED <<blueprintVars, tmpls, owner, manager, deployed>>

DeleteOrphan(i) ==
    /\ pc = "delete" /\ i \in rec.orphans
    /\ rec' = [rec EXCEPT !.orphans = {}]
    /\ \/ /\ deps[i].fate = "kept"
          /\ deps' = [deps EXCEPT ![i].fate = "deleted"]
          /\ StampedEvent("deployment")
          /\ UNCHANGED <<troubles, lost>>
       \/ /\ deps[i].fate # "kept"
          /\ UNCHANGED <<deps, queue, troubles, lost>>
       \/ /\ Fault /\ lost' = lost \cup {i}
          /\ UNCHANGED <<deps, queue>>
    /\ UNCHANGED <<blueprintVars, tmpls, dl, account, src, events, tracked,
                   watching, submitted, pc, deployed>>

\* StampedTracker.Watch: a new watch starts with an event per object.
WatchStamped ==
    /\ pc = "delete" /\ rec.orphans = {}
    /\ pc' = "update"
    /\ LET kinds == {k \in {"source", "deployment"} :
                        (IF k = "source" THEN rec.src ELSE rec.dep).stamped # None}
       IN
       \/ /\ watching' = watching \cup kinds
          /\ queue' = (queue \/ kinds \ watching # {})
          /\ UNCHANGED <<rec, troubles>>
       \/ /\ Fault /\ kinds # {}
          /\ rec' = [rec EXCEPT !.requeue = TRUE]
          /\ UNCHANGED <<watching, queue>>
    /\ UNCHANGED <<blueprintVars, tmpls, owner, events, tracked, submitted,
                   deployed, lost>>

-----------------------------------------------------------------------------
\* completeReconciliation.
\* Mutant: a reconciliation that gives up leaves no condition of its own.
NewStatusOfGood ==
    [gen |-> rec.snap.gen,
     cond |-> IF rec.cond = None THEN "Submitted" ELSE rec.snap.status.cond,
     src |-> rec.src, dep |-> rec.dep]

\* Mutant: the generation that is observed is the one of the spec it is about
\* to see.
NewStatusAhead ==
    [gen |-> rec.snap.gen + 1, cond |-> None, src |-> rec.src, dep |-> rec.dep]

NewStatus ==
    [gen |-> rec.snap.gen,
     cond |-> IF rec.cond = None THEN "Submitted" ELSE rec.cond,
     src |-> rec.src, dep |-> rec.dep]

\* An empty list of conditions always counts as changed.
StatusChanged == NewStatus # rec.snap.status \/ rec.cond = "ListFailed"

\* An update that changes nothing makes no new version.
StatusUpdated ==
    /\ pc = "update" /\ StatusChanged
    /\ rec.fresh /\ dl.exists
    /\ pc' = "idle" /\ rec' = None
    /\ dl' = [dl EXCEPT !.status = NewStatus]
    /\ queue' = (queue \/ rec.requeue \/ dl' # dl)
    /\ lost' = lost \ {NewStatus.dep.stamped}
    /\ UNCHANGED <<blueprintVars, tmpls, account, src, deps, events, tracked, watching,
                   submitted, troubles, deployed>>

StatusUpdateFails ==
    /\ pc = "update" /\ StatusChanged
    /\ \/ ~(rec.fresh /\ dl.exists) /\ UNCHANGED troubles
       \/ Fault
    /\ pc' = "idle" /\ rec' = None
    /\ queue' = TRUE
    /\ lost' = lost \cup InFlight
    /\ UNCHANGED <<blueprintVars, tmpls, owner, events, tracked, watching,
                   submitted, deployed>>

StatusUnchanged ==
    /\ pc = "update" /\ ~StatusChanged
    /\ pc' = "idle" /\ rec' = None
    /\ queue' = (queue \/ rec.requeue)
    /\ lost' = IF rec.fresh THEN lost ELSE lost \cup InFlight
    /\ UNCHANGED <<blueprintVars, tmpls, owner, events, tracked, watching,
                   submitted, troubles, deployed>>

-----------------------------------------------------------------------------
Environment ==
    \/ \E l \in Labels, spec \in BOOLEAN : EditDeliverable(l, spec)
    \/ DeleteDeliverable \/ EditDelivery \/ EditAccount \/ \E first \in BOOLEAN : ReportRevision(first)
    \/ \E t \in DeploymentTemplates, c \in DeploymentContents \cup {None} : EditTemplate(t, c)
    \/ \E c \in {SourceContent, None} : EditTemplate(SourceTemplate, c)
    \/ \E i \in DOMAIN deps : BeginDeployment(i) \/ EndDeployment(i)

Runtime ==
    \/ DeliverDelivery \/ Resync \/ Restart
    \/ \E k \in events : DeliverEvent(k)

Reconcile ==
    \/ GetDeliverableFails \/ DeliverableGone \/ GetDeliverable
    \/ GetDelivery \/ GetServiceAccount \/ DoSource
    \/ DoWithoutObject \/ DoMutable \/ EnsureImmutable \/ ListImmutable \/ DeleteRuns
    \/ TrackDependencies \/ FindOrphans \/ \E i \in DOMAIN deps : DeleteOrphan(i)
    \/ WatchStamped
    \/ StatusUpdated \/ StatusUpdateFails \/ StatusUnchanged

Next == Environment \/ Runtime \/ BlueprintSteps \/ BlueprintFaults \/ Reconcile
\* The informers and the resync of controller-runtime, both work queues and
\* the controllers of the stamped objects keep going; edits and faults need not
\* happen.
Informers == DeliverDelivery \/ \E k \in events : DeliverEvent(k)
Controllers == ReportRevision(TRUE) \/ \E i \in DOMAIN deps : BeginDeployment(i) \/ EndDeployment(i)

Fairness ==
    /\ WF_vars(Reconcile) /\ WF_vars(BlueprintSteps)
    /\ WF_vars(Informers) /\ WF_vars(Resync) /\ WF_vars(Controllers)

Spec == Init /\ [][Next]_vars /\ Fairness

-----------------------------------------------------------------------------
Reported == dl.status.dep

(* A revision that the status of the deployment resource names, and that is  *)
(* passed on to the resources after it, has been deployed by the object      *)
(* behind it: DeploymentPassThroughReader hands the current input through,   *)
(* so the criteria must be read from an object that has seen this input, and *)
(* not from what it said of the one before.                                  *)
ReportedIsDeployed ==
    (Reported.out # None /\ deps[Reported.stamped].life = "mutable") =>
        <<Reported.stamped, Reported.out>> \in deployed

(* The same for every lifecycle: "SucceededCondition, when matched,          *)
(* indicates that the input was successfully deployed".                      *)
InputIsDeployed ==
    Reported.out # None =>
        \E i \in DOMAIN deps : deps[i].tmpl = Reported.tmpl /\ <<i, Reported.out>> \in deployed

Settled == Idle /\ dl.exists

(* No object with the mutable lifecycle is forgotten: once the deliverable   *)
(* has settled, cleanupOrphanedObjects has deleted every one that the status *)
(* does not name, after the delivery has switched to another template or the *)
(* template to another lifecycle.  The exceptions are objects whose name     *)
(* never reached the status, or whose clean-up was cut short.                *)
NoForgottenDeployment ==
    Settled =>
        \A i \in Kept \ lost : deps[i].life = "mutable" => i = dl.status.dep.stamped

(* cleanupOrphanedObjects leaves the objects of an immutable template alone  *)
(* as long as the resource uses it, and the template is still what it was    *)
(* when the object was stamped: all of them but the newest differ from what  *)
(* was just stamped, and they are for the retention policy to delete.        *)
OrphansAreUnused ==
    [][\A i \in DOMAIN deps :
          (DeleteOrphan(i) /\ deps'[i].fate # deps[i].fate) =>
              ~(deps[i].life = "immutable" /\ deps[i].tmpl = rec.dep.tmpl
                    /\ tmpls[rec.dep.tmpl] = rec.content)]_vars

\* What the status says once nothing changes any more.
Expected ==
    CASE ~dl.exists -> TRUE
      [] dl.labels # "match" -> dl.status.cond = dl.labels
      [] ~bp.exists -> dl.status.cond = "DeliveryNotFound"
      [] \E i \in DOMAIN bp.refs : tmpls[bp.refs[i]] = None ->
            dl.status.cond = "TemplatesNotFound"
      [] ~account -> dl.status.cond = "ServiceAccountError"
      [] OTHER ->
            /\ src # None /\ Reported.tmpl = bp.refs[2]
            /\ Reported.stamped \in Kept
            /\ deps[Reported.stamped].spec = src.out
            /\ deps[Reported.stamped].health = "True" =>
                  dl.status.cond = "Submitted" /\ Reported.out = src.out

(* Whatever single trouble there was, a change at any step, a failed call, a *)
(* failed deployment or a restart, the deliverable ends up with the status   *)
(* that the labels, the delivery, the templates, the account and the source  *)
(* call for, and with the latest revision deployed.                          *)
Converges == <>[]Expected
=============================================================================
