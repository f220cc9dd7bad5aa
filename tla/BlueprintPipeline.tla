------------------------- MODULE BlueprintPipeline -------------------------
(***************************************************************************)
(* What becomes of a blueprint: it is admitted, chosen for an owner, its   *)
(* resources are realized one after the other (Realize and Do of           *)
(* pkg/realizer), and the owner's status reports the result.  A second     *)
(* reconciliation starts from the status that the first one has left.      *)
(*                                                                         *)
(* This is the sequential part of a reconciliation in the detail that      *)
(* WorkloadReconciler and DeliverableReconciler leave out: the contents of *)
(* selectors, templates, parameters, inputs and conditions.                *)
(***************************************************************************)
EXTENDS Reports

CONSTANTS
    Cases,      \* bound: [blueprints, owners, templates, fates, accounts], see MCRules
    MaxRounds   \* bound: reconciliations

\* An owner has something, perhaps nothing, at every path that the JSON path
\* parser accepts; the lists of a selector are lists and its labels are finitely
\* many.
WellFormedSelector(s, owners) ==
    /\ s = Selector(s.labels, s.exprs, s.fields)
    /\ IsFiniteSet(s.labels) /\ s.exprs \in Seq(ToSet(s.exprs)) /\ s.fields \in Seq(ToSet(s.fields))
    /\ \A i \in DOMAIN s.fields : \A o \in ToSet(owners) :
          LET path == s.fields[i].key
          IN ValidJsonPath(path) => path \in DOMAIN o.fields /\ o.fields[path] \in Seq(ToSet(o.fields[path]))

\* A tag leads to a parameter, an input or the owner.
WellFormedTag(tag) ==
    \/ Len(tag.path) = 2 /\ tag.path[1] \in {"params", "sources", "images", "configs"}
    \/ /\ Len(tag.path) = 1
       /\ tag.path[1] \in {"source", "image", "config", "deployment", "workload", "deliverable"}

WellFormedResource(r, owners) ==
    /\ r.options \in Seq(ToSet(r.options)) /\ r.params \in Seq(ToSet(r.params))
    /\ r.sources \in Seq(ToSet(r.sources)) /\ r.images \in Seq(ToSet(r.images))
    /\ r.configs \in Seq(ToSet(r.configs))
    /\ \A i \in DOMAIN r.options : WellFormedSelector(r.options[i].selector, owners)

WellFormedTemplate(t) ==
    /\ {"kind", "rule", "life", "retention", "form", "ns", "params", "tags"} \subseteq DOMAIN t
    /\ t.params \in Seq(ToSet(t.params)) /\ \A tag \in t.tags : WellFormedTag(tag)

ASSUME CasesAssumption ==
    \A c \in Cases :
        /\ c.blueprints \in Seq(ToSet(c.blueprints))
        /\ c.owners \in Seq(ToSet(c.owners)) /\ c.owners # <<>>
        /\ \A o \in ToSet(c.owners) : o.name # Nil /\ o.params \in Seq(ToSet(o.params))
        /\ \A b \in ToSet(c.blueprints) :
              /\ WellFormedSelector(b.selector, c.owners)
              /\ b.params \in Seq(ToSet(b.params)) /\ b.resources \in Seq(ToSet(b.resources))
              /\ \A r \in DOMAIN b.resources : WellFormedResource(b.resources[r], c.owners)
        /\ \A t \in DOMAIN c.templates :
              /\ WellFormedTemplate(c.templates[t])
              /\ \A fate \in c.fates[t] : \A path \in DOMAIN fate.fields :
                    fate.fields[path] \in Seq(ToSet(fate.fields[path]))

\* What is not there is no error.
ASSUME NilAssumption ==
    \A forbidden, stamped \in BOOLEAN : \A type \in ErrorTypes, cause \in ErrorCauses :
        Error(type, cause, forbidden, stamped) # Nil

VARIABLES
    given,      \* the case, Nil before it is chosen
    stage,      \* "submit", "choose", "realize", "reported" or why it ended
    chain,      \* the chosen blueprint
    round,      \* the number of the reconciliation
    outs,       \* the outputs of this reconciliation
    done,       \* what Do returned for each resource so far
    statuses,   \* of the resources and the owner: [previous, current, owner]
    firstError,
    said,       \* the events of this reconciliation
    report,     \* the owner's conditions, and whether it is retried
    repo        \* the stamped objects on the API server, and the cache of the
                \* repository: [objects, cache], by the key of the object

pipelineVars == <<given, stage, chain, round, outs, done, statuses, firstError, said, report, repo>>

\* The repository of a controller that has just started.
NewRepository == [objects |-> <<>>, cache |-> <<>>]

PipelineInit ==
    /\ given = Nil /\ stage = "submit" /\ chain = Nil /\ round = 1
    /\ outs = <<>> /\ done = <<>> /\ statuses = [previous |-> <<>>, current |-> <<>>, owner |-> <<>>]
    /\ firstError = Nil /\ said = {} /\ report = Nil /\ repo = NewRepository

Owner == given.owners[round]
Resource == chain.resources[Len(done) + 1]

\* What the webhooks let in.
AdmittedBlueprints ==
    ElementsAt(given.blueprints, {i \in DOMAIN given.blueprints : AdmitBlueprint(given.blueprints[i])})
AdmittedTemplates == {t \in DOMAIN given.templates : AdmitTemplate(given.templates[t])}

\* The names of the templates of a resource, as the blueprint reconcilers look
\* them up.
TemplateNames(resource) ==
    ({resource.tmpl} \cup {resource.options[i].name : i \in DOMAIN resource.options}) \ {Nil}

TemplatesFound(c) ==
    \A r \in DOMAIN c.resources :
        \A t \in TemplateNames(c.resources[r]) :
            t \in AdmittedTemplates /\ given.templates[t].kind = c.resources[r].kind

\* The status that the reconciler of the blueprint has written, which the
\* reconcilers of the owners look at.
BlueprintConditions(c) ==
    Finalize("Ready", <<IF TemplatesFound(c) THEN Condition("TemplatesReady", "True", "Ready")
                        ELSE Condition("TemplatesReady", "False", "TemplatesNotFound")>>)

GetSupplyChainReadyCondition(supplyChain) == ConditionWithType(BlueprintConditions(supplyChain), "Ready")
GetDeliveryReadyCondition(delivery) == ConditionWithType(BlueprintConditions(delivery), "Ready")
IsSupplyChainReady(supplyChain) == GetSupplyChainReadyCondition(supplyChain).status = "True"
IsDeliveryReady(delivery) == GetDeliveryReadyCondition(delivery).status = "True"
IsBlueprintReady(c) == IF c.kind = "ClusterSupplyChain" THEN IsSupplyChainReady(c) ELSE IsDeliveryReady(c)

\* The account that the owner is realized with: the owner's, the blueprint's,
\* or the default one.  Only the blueprint can name another namespace.
ServiceAccountFor(owner, ref) ==
    CASE owner.account # Nil                               -> ServiceAccountRef(owner.account, owner.ns)
      [] owner.account = Nil /\ ref = Nil                  -> ServiceAccountRef("default", owner.ns)
      [] owner.account = Nil /\ ref # Nil /\ ref.ns = Nil -> ServiceAccountRef(ref.name, owner.ns)
      [] owner.account = Nil /\ ref # Nil /\ ref.ns # Nil -> ref

ServiceAccountForWorkload(workload, supplyChain) == ServiceAccountFor(workload, supplyChain.account)
ServiceAccountForDeliverable(deliverable, delivery) == ServiceAccountFor(deliverable, delivery.account)
AccountOf(owner, c) ==
    IF c.kind = "ClusterSupplyChain" THEN ServiceAccountForWorkload(owner, c) ELSE ServiceAccountForDeliverable(owner, c)

\* GetServiceAccount finds it.
GetServiceAccount(account) == account \in given.accounts

\* A user submits blueprints, templates and an owner.
SubmitAll ==
    /\ stage = "submit"
    /\ \E c \in Cases : given' = c
    /\ stage' = "choose"
    /\ UNCHANGED <<chain, round, outs, done, statuses, firstError, said, report, repo>>

\* The start of the owner's Reconcile.
ChooseBlueprint ==
    /\ stage = "choose"
    /\ \E found \in {GetSupplyChain(Owner, AdmittedBlueprints)} :
          /\ chain' = found.chain
          /\ stage' = IF found.err # "none" THEN found.err
                      ELSE IF ~IsBlueprintReady(found.chain) THEN "NotReady"
                      ELSE IF ~GetServiceAccount(AccountOf(Owner, found.chain)) THEN "ServiceAccountNotFound"
                      ELSE "realize"
    /\ outs' = <<>> /\ done' = <<>> /\ said' = {} /\ firstError' = Nil /\ report' = Nil
    /\ UNCHANGED <<given, round, statuses, repo>>

\* What happens outside: the template is gone, ytt fails, the API server
\* refuses the object or the list, or the object is there with these contents,
\* beside the older objects of an immutable template; its kind may be unknown to
\* the cached discovery of the API server.
Fate(what, fields, conds, born, older) ==
    [what |-> what, fields |-> fields, conds |-> conds, born |-> born, older |-> older]
NoFate == Fate("none", <<>>, <<>>, 0, <<>>)

-----------------------------------------------------------------------------
\* EnsureMutableObjectExistsOnCluster: an object that was last submitted as it
\* is now, and has the spec that the API server made of it then, is left alone.
\* The name of the resource stands for the kind and the name of its object.
GetKey(stamped) == <<stamped.ns, stamped.labels.resource>>

GetUnstructured(stamped) ==
    IF GetKey(stamped) \in DOMAIN repo.objects THEN repo.objects[GetKey(stamped)] ELSE Nil

\* Mutation: what the API server has is not compared with what it had.
UnchangedSubmission(submitted, existing) ==
    GetKey(submitted) \in DOMAIN repo.cache /\ repo.cache[GetKey(submitted)].submitted = submitted

\* An object without a spec never counts as unchanged.
UnchangedSinceCached(submitted, existing) ==
    /\ GetKey(submitted) \in DOMAIN repo.cache
    /\ repo.cache[GetKey(submitted)].submitted = submitted
    /\ existing.hasSpec /\ repo.cache[GetKey(submitted)].persisted.hasSpec
    /\ existing.spec = repo.cache[GetKey(submitted)].persisted.spec

\* What is on the API server afterwards, and whether it was written.
EnsureMutable(stamped) ==
    LET existing == GetUnstructured(stamped)
    IN IF existing # Nil /\ UnchangedSinceCached(stamped, existing)
       THEN [object |-> existing, applied |-> FALSE] ELSE [object |-> stamped, applied |-> TRUE]

\* createUnstructured and patchUnstructured: the object, the cache, the event.
Written(stamped) ==
    [objects |-> Put(repo.objects, GetKey(stamped), stamped),
     cache   |-> Put(repo.cache, GetKey(stamped), [submitted |-> stamped, persisted |-> stamped])]

AppliedEvent(resource) == [reason |-> "StampedObjectApplied", resource |-> resource.name, names |-> TRUE]

-----------------------------------------------------------------------------
\* What Do returns: the template (Nil when it was not read), the object, the
\* output and the error.
Refused(template, err) == [template |-> template, object |-> Nil, out |-> Nil, err |-> err]
Returned(template, object, read, isStamped) ==
    [template |-> template, object |-> object, out |-> read.out,
     err |-> IF read.err = "none" THEN Nil ELSE Error("RetrieveOutputError", read.err, FALSE, isStamped)]

ApplyError(fate) == Error("ApplyStampedObjectError", "API", fate.what = "forbidden", TRUE)

\* The object that the reader reads is the one on the API server.
DoMutable(template, object, fate, deployment) ==
    LET ensured == [object EXCEPT !.stamped = EnsureMutable(@).object]
    IN IF fate.what \in {"rejected", "forbidden"} THEN Refused(template, ApplyError(fate))
       ELSE Returned(template, ensured, ReadOutput(template, ensured, deployment), TRUE)

DoImmutable(template, object, fate, deployment) ==
    LET latest == LatestSuccessfulObject(template.rule, <<object>> \o fate.older)
    IN IF fate.what \in {"rejected", "forbidden"} THEN Refused(template, ApplyError(fate))
       ELSE IF fate.what = "listFails"
            THEN Refused(template, Error("ListCreatedObjectsError", "API", FALSE, FALSE))
       ELSE Returned(template, object, ReadOutput(template, latest, deployment), TRUE)

DoPassThrough(resource, pass) == Returned(Nil, Nil, NewPassThroughReader(resource, pass, outs), FALSE)

\* The second half of Do, for what was stamped, Nil for an error.
DoStamped(template, stamped, fate, deployment) ==
    LET object == [stamped |-> stamped, fields |-> fate.fields, conds |-> fate.conds, born |-> fate.born]
    IN IF stamped = Nil THEN Refused(template, Error("StampError", "stamp", FALSE, FALSE))
       ELSE IF IsImmutable(template) THEN DoImmutable(template, object, fate, deployment)
       ELSE DoMutable(template, object, fate, deployment)

\* What is stamped for a resource, Nil for an error.
StampFromTemplate(template, resource, fate) ==
    Stamp(template, Generate(template, chain, resource, Owner, outs), Owner,
          ResourceLabels(Owner, chain, resource, template), fate.what # "yttFails")

\* Did Do write a mutable object?  (The cache of the immutable ones is in
\* ImmutableRuns.)
Applies(resource, result, fate) ==
    /\ result.template # Nil /\ ~IsImmutable(result.template) /\ result.object # Nil
    /\ EnsureMutable(StampFromTemplate(result.template, resource, fate)).applied

\* Do, for what GetTemplateNameFromResource has chosen.
Do(resource, chosen, fate) ==
    LET template == NewReaderFromAPI(given.templates[chosen.tmpl])
    IN IF chosen.err # "none" THEN Refused(Nil, Error(chosen.err, "option", FALSE, FALSE))
       ELSE IF chosen.pass # Nil THEN DoPassThrough(resource, chosen.pass)
       ELSE IF fate.what = "gone" THEN Refused(Nil, Error("GetTemplateError", "API", FALSE, FALSE))
       ELSE DoStamped(template, StampFromTemplate(template, resource, fate), fate, GetDeployment(resource, outs))

\* Output (common.go); its name is the key under which it is kept.
OutputStatus(digest, since) == [digest |-> digest, since |-> since]

\* The values of an output by name (generateResourceOutput).
OutputValues(out) ==
    IF out = Nil THEN <<>>
    ELSE IF out.source # Nil THEN ("url" :> out.source.url) @@ ("revision" :> out.source.revision)
    ELSE IF out.image # Nil THEN "image" :> out.image
    ELSE IF out.config # Nil THEN "config" :> out.config ELSE <<>>

\* getOutputs: the digest of each value, and the reconciliation in which it came.
GetOutputs(previous, out) ==
    LET values == OutputValues(out)
        kept(n) == n \in DOMAIN previous /\ previous[n].digest = values[n]
    IN [n \in DOMAIN values |-> OutputStatus(values[n], IF kept(n) THEN previous[n].since ELSE round)]

\* generateRealizedResource.
RealizedResource(resource, result, previousOutputs) ==
    [tmpl    |-> IF result.template # Nil THEN result.tmpl ELSE Nil,
     kind    |-> IF result.template # Nil THEN resource.kind ELSE Nil,
     stamped |-> IF result.object # Nil THEN result.object.stamped.labels.resource ELSE Nil,
     inputs  |-> {resource.sources[i].resource : i \in DOMAIN resource.sources} \cup
                 {resource.images[i].resource : i \in DOMAIN resource.images} \cup
                 {resource.configs[i].resource : i \in DOMAIN resource.configs} \cup ({resource.deployment} \ {Nil}),
     outputs |-> IF result.template # Nil \/ result.pass THEN GetOutputs(previousOutputs, result.out) ELSE <<>>]

StatusNamed(list, name) ==
    LET found == {i \in DOMAIN list : list[i].name = name}
    IN IF found = {} THEN Nil ELSE list[CHOOSE i \in found : TRUE]

PreviousStatus(name) == StatusNamed(statuses.previous, name)

\* The turn of the loop of Realize after Do: what is reported of the resource.
\* Without an object, or without a template, what was known before is kept.
ResourceStatus(resource, result) ==
    LET previous == PreviousStatus(resource.name)
        keep     == (result.object = Nil \/ result.template = Nil) /\ previous # Nil
        realized == IF keep THEN previous.realized
                    ELSE RealizedResource(resource, result, IF previous = Nil THEN <<>> ELSE previous.realized.outputs)
        before   == IF keep THEN ConditionWithType(previous.conds, "Healthy") ELSE Nil
        further  == IF keep THEN (IF before = Nil THEN <<>> ELSE <<before>>)
                    ELSE IF result.template = Nil THEN <<>>
                    ELSE <<DetermineHealthCondition(result.template.rule, realized, result.object)>>
    IN [name |-> resource.name, realized |-> realized,
        conds |-> CreateConditions(chain.kind, result.err, result.pass, further)]

\* Does the API server know the kind of the object?  An event that would name
\* an object of an unknown kind is dropped.
GetQualifiedResource(fate) == fate.what # "unmapped"

\* The events of Realize: about which resource, and naming which object.
EventsFor(status, result) ==
    LET previous == PreviousStatus(status.name)
        before   == IF previous = Nil THEN <<>> ELSE previous.realized.outputs
        event(reason) == [reason |-> reason, resource |-> status.name, names |-> result.object # Nil]
    IN (IF before # status.realized.outputs
        THEN {IF result.pass THEN [event("ResourceOutputChanged") EXCEPT !.names = TRUE]
              ELSE event("ResourceOutputChanged")} ELSE {}) \cup
       (IF "Healthy" \in ChangedConditionTypes(previous, status.conds)
        THEN {event("ResourceHealthyStatusChanged")} ELSE {})

\* What is known of a resource after its turn: what Do returned and for which
\* template or pass through, with the parameters and the outputs it saw.
Result(d, resource, chosen) ==
    [template |-> d.template, object |-> d.object, out |-> d.out, err |-> d.err,
     tmpl |-> chosen.tmpl, pass |-> chosen.pass # Nil, seen |-> outs,
     params |-> IF d.template = Nil THEN Nil ELSE MergeParams(d.template, chain.params, resource.params, Owner.params)]

\* One turn of Realize.
RealizeResource ==
    /\ stage = "realize" /\ Len(done) < Len(chain.resources)
    /\ \E chosen \in {GetTemplateNameFromResource(Owner, Resource)} :
       \E fate \in IF chosen.tmpl = Nil THEN {NoFate} ELSE given.fates[chosen.tmpl] :
       \E result \in {Result(Do(Resource, chosen, fate), Resource, chosen)} :
       \E status \in {ResourceStatus(Resource, result)} :
         /\ done' = Append(done, result)
         /\ outs' = Put(outs, Resource.name, result.out)
         /\ statuses' = [statuses EXCEPT !.current = Append(@, status)]
         /\ said' = IF result.object # Nil /\ ~GetQualifiedResource(fate) THEN said
                    ELSE said \cup EventsFor(status, result) \cup
                         (IF Applies(Resource, result, fate) THEN {AppliedEvent(Resource)} ELSE {})
         /\ repo' = IF Applies(Resource, result, fate) THEN Written(result.object.stamped) ELSE repo
         /\ firstError' = IF firstError = Nil THEN result.err ELSE firstError
    /\ UNCHANGED <<given, stage, chain, round, report>>

\* The end of the owner's Reconcile: its conditions, and what becomes of the
\* error.
ReportOwner ==
    /\ stage = "realize" /\ Len(done) = Len(chain.resources)
    /\ report' = [conds   |-> OwnerConditions(chain.kind, firstError, statuses.current),
                  retried |-> firstError # Nil /\ IsUnhandledErrorType(firstError)]
    /\ stage' = "reported"
    /\ UNCHANGED <<given, chain, round, outs, done, statuses, firstError, said, repo>>

\* completeReconciliation: is there something to write?
StatusWritten ==
    \/ round = 1 \/ Owner # given.owners[round - 1]   \* another generation
    \/ ResourceConditionsChanged(statuses.owner, report.conds)
    \/ StatusesChanged(statuses.previous, statuses.current)

\* What becomes of an object that is edited.
Edited(object) ==
    [object EXCEPT !.spec = [tag \in DOMAIN @ |-> Nil], !.labels = [@ EXCEPT !.tmpl = "edited"]]

\* Between two reconciliations: somebody edits or deletes a stamped object, or
\* the controller restarts with an empty cache.  Bound: once.
Meddle ==
    /\ stage = "reported" /\ round < MaxRounds /\ round < Len(given.owners)
    /\ \A k \in DOMAIN repo.cache : k \in DOMAIN repo.objects /\ repo.objects[k] = repo.cache[k].persisted
    /\ \/ \E k \in DOMAIN repo.objects : repo' = [repo EXCEPT !.objects = Put(@, k, Edited(@[k]))]
       \/ \E k \in DOMAIN repo.objects : repo' = [repo EXCEPT !.objects = [j \in DOMAIN @ \ {k} |-> @[j]]]
       \/ repo' = [repo EXCEPT !.cache = <<>>]
    /\ UNCHANGED <<given, stage, chain, round, outs, done, statuses, firstError, said, report>>

\* The owner is reconciled again, perhaps edited in the meantime.
NextRound ==
    /\ stage = "reported" /\ round < MaxRounds /\ round < Len(given.owners)
    /\ round' = round + 1 /\ stage' = "choose"
    /\ statuses' = [previous |-> IF StatusWritten THEN statuses.current ELSE statuses.previous,
                    owner    |-> IF StatusWritten THEN report.conds ELSE statuses.owner,
                    current  |-> <<>>]
    /\ UNCHANGED <<given, chain, outs, done, firstError, said, report, repo>>

PipelineNext ==
    SubmitAll \/ ChooseBlueprint \/ RealizeResource \/ ReportOwner \/ Meddle \/ NextRound
-----------------------------------------------------------------------------
\* What a selector means, by its documentation: every requirement is met.  A
\* null is there for a comparison and not there for Exists.
Satisfied(req, fields) ==
    LET found == {fields[req.key][i] : i \in DOMAIN fields[req.key]}
    IN CASE req.op = "In"     -> found # {} /\ found \subseteq req.values
         [] req.op = "NotIn"  -> found # {} /\ found \cap req.values = {}
         [] req.op = "Exists" -> found \ {Nil} # {}
         [] OTHER             -> found \ {Nil} = {}

Suits(owner, s) ==
    LabelsMatch(s, owner.labels) /\ \A i \in DOMAIN s.fields : Satisfied(s.fields[i], owner.fields)

\* A field that leads to several values cannot be compared.
Ambiguous(owner, s) == \E i \in DOMAIN s.fields : Len(owner.fields[s.fields[i].key]) > 1

StrictlyBest(owner, s, others) ==
    Suits(owner, s) /\ \A o \in others : o # s /\ Suits(owner, o) => Specificity(o) < Specificity(s)

\* Two of the blueprints suit the owner, and none that suits asks for more.
EquallySpecific(owner, blueprints) ==
    \E i, j \in DOMAIN blueprints :
        /\ i # j
        /\ \A k \in {i, j} :
              /\ Suits(owner, blueprints[k].selector)
              /\ \A m \in DOMAIN blueprints :
                    Suits(owner, blueprints[m].selector) =>
                        Specificity(blueprints[m].selector) <= Specificity(blueprints[k].selector)

\* The blueprint that is chosen for an owner suits it and asks for more than
\* any other admitted one that suits it; there is none only when none suits,
\* several ask for as much, or a field cannot be compared.  The same holds for
\* the option of a resource (BestSelectorMatchIndices with the webhooks, which
\* keep out the selectors it cannot judge).
SelectsMostSpecific ==
    stage \notin {"submit", "choose"} =>
        LET admitted == {c.selector : c \in ToSet(AdmittedBlueprints)}
            suiting  == {s \in admitted : Suits(Owner, s)}
        IN /\ chain # Nil => StrictlyBest(Owner, chain.selector, admitted)
           /\ stage = "NotFound" => suiting = {}
           /\ stage = "MultipleMatches" => EquallySpecific(Owner, AdmittedBlueprints)
           /\ stage = "ListFailed" => \E s \in admitted : Ambiguous(Owner, s)
           /\ \A i \in DOMAIN done :
                LET options == chain.resources[i].options
                    all     == {options[j].selector : j \in DOMAIN options}
                IN options # <<>> =>
                     IF done[i].err # Nil /\ done[i].err.type = "wrapError"
                     THEN ~\E s \in all : StrictlyBest(Owner, s, all) /\ \A o \in all : ~Ambiguous(Owner, o)
                     ELSE \E j \in DOMAIN options :
                            /\ done[i].tmpl = options[j].name
                            /\ StrictlyBest(Owner, options[j].selector, all)

\* The parameter hierarchy: a value of the resource or of the blueprint, then
\* the owner, then the defaults, those of the resource first.  Of several
\* entries of one level the last one counts.
NamesIn(list) == {list[i].name : i \in DOMAIN list}
LastNamed(list, n) ==
    list[CHOOSE i \in DOMAIN list : list[i].name = n /\ \A j \in DOMAIN list : list[j].name = n => j <= i]

ParamInForce(defaults, overrides, ownerParams, n) ==
    IF n \in NamesIn(overrides) /\ LastNamed(overrides, n).value # Nil THEN LastNamed(overrides, n).value
    ELSE IF n \in NamesIn(ownerParams) THEN LastNamed(ownerParams, n).value
    ELSE IF n \in NamesIn(overrides) THEN LastNamed(overrides, n).default
    ELSE LastNamed(defaults, n).default

ParamsInForce(params, defaults, overrides, ownerParams) ==
    /\ ~params.panic
    /\ DOMAIN params.params = NamesIn(defaults) \cup NamesIn(overrides) \cup NamesIn(ownerParams)
    /\ \A n \in DOMAIN params.params : params.params[n] = ParamInForce(defaults, overrides, ownerParams, n)

\* The list of a resource that refers to outputs of a kind.
Lists == [source |-> "sources", image |-> "images", config |-> "configs"]

\* Is there an output of the kind?  In a supply chain there is one as soon as
\* anything has come out of the resource, since the references were checked.
HasOutput(seen, name, field) == name \in DOMAIN seen /\ seen[name] # Nil /\ seen[name][field] # Nil
Absent(seen, name) == name \notin DOMAIN seen \/ seen[name] \in {Nil, NoOutput}
Missing(kind, seen, name, field) ==
    IF kind = "ClusterSupplyChain" THEN Absent(seen, name) ELSE ~HasOutput(seen, name, field)

\* An input is the output that the last reference of its name leads to, of
\* those that lead to any.
Suppliers(refs, seen, field, path) ==
    {j \in DOMAIN refs : HasOutput(seen, refs[j].resource, field) /\ (Len(path) = 2 => refs[j].name = path[2])}

SuppliedBy(refs, seen, field, path, value) ==
    \E j \in Suppliers(refs, seen, field, path) :
        /\ \A k \in Suppliers(refs, seen, field, path) : k <= j
        /\ value = seen[refs[j].resource][field]

\* What a stamped object holds where its template has a tag.
FilledIn(resource, d, tag, value) ==
    /\ tag.path[1] = "params" => tag.path[2] \in DOMAIN d.params.params /\ value = d.params.params[tag.path[2]]
    /\ \A field \in DOMAIN Lists :
          tag.path[1] \in {field, Lists[field]} =>
             SuppliedBy(resource[Lists[field]], d.seen, field, tag.path, value)

\* The only reasons why a tag cannot be filled in although the blueprint was
\* admitted: it names nothing that the resource declares, or a null, or an
\* input whose resource has no output (yet).
Unfilled(resource, d, tag) ==
    \/ /\ tag.path[1] = "params"
       /\ tag.path[2] \notin DOMAIN d.params.params \/ (~tag.whole /\ d.params.params[tag.path[2]] = Nil)
    \/ tag.path[1] = "deployment" /\ ~tag.whole
    \/ \E field \in DOMAIN Lists :
          LET refs == resource[Lists[field]]
          IN \/ /\ tag.path[1] = Lists[field]
                /\ \A i \in DOMAIN refs : refs[i].name = tag.path[2] => Absent(d.seen, refs[i].resource)
             \/ /\ tag.path[1] = field
                /\ Len(refs) # 1 \/ Absent(d.seen, refs[1].resource)

\* What Do returned for a resource of a blueprint.
Realizable(c, owner, r, d) ==
    /\ d.params # Nil => ParamsInForce(d.params, d.template.params, c.params \o r.params, owner.params)
    /\ d.pass /\ d.err # Nil =>
         \E field \in DOMAIN Lists : \E j \in DOMAIN r[Lists[field]] :
            Missing(c.kind, d.seen, r[Lists[field]][j].resource, field)
    /\ d.object # Nil =>
         \A tag \in DOMAIN d.object.stamped.spec : FilledIn(r, d, tag, d.object.stamped.spec[tag])
    /\ d.err # Nil /\ d.err.type = "StampError" /\ c.kind = "ClusterSupplyChain" =>
         d.template.form = "ytt" \/ \E tag \in d.template.tags : Unfilled(r, d, tag)

\* The account of another namespace is used only for an owner that names none,
\* by a blueprint that names that namespace.
AccountIsAllowed(owner, c) ==
    LET account == AccountOf(owner, c)
    IN /\ account \in given.accounts
       /\ account.ns # owner.ns => owner.account = Nil /\ c.account = account

\* What was admitted can be realized: no parameter is left without a value and
\* each has the value of the highest level that sets it; an object holds these
\* values and the outputs that the resources it refers to had in this very
\* reconciliation; it cannot be stamped, or an input passed through, only for
\* want of the output of a resource that comes before, or because of what the
\* template itself asks for; and it is realized with an account that exists and
\* that the owner is given (webhooks, Merge, Generate, Stamp, doPassthrough).
AdmittedIsRealizable ==
    stage \in {"realize", "reported"} =>
        /\ AccountIsAllowed(Owner, chain)
        /\ \A i \in DOMAIN done :
              /\ Realizable(chain, Owner, chain.resources[i], done[i])
              /\ \A name \in DOMAIN done[i].seen : \E j \in 1..(i - 1) :
                    chain.resources[j].name = name /\ done[i].seen[name] = done[j].out

\* A field that leads to several values makes nothing unhealthy.
Comparable(req, fields) ==
    /\ req.op \in FieldSelectorOperators
    /\ req.key \in DOMAIN fields /\ Len(fields[req.key]) <= 1

\* Is the object healthy by the documentation of the rule?
HealthyBy(d) ==
    LET rule == GetHealthRule(d.template)
    IN CASE rule = Nil -> d.template.kind = "ClusterTemplate" \/ d.out # Nil
         [] rule # Nil /\ rule.always # Nil -> TRUE
         [] rule # Nil /\ rule.always = Nil /\ rule.single # Nil -> ObjectCondition(d.object, rule.single) = "True"
         [] OTHER ->
              LET c(m) == {m.conds[i] : i \in DOMAIN m.conds}
                  f(m) == {m.fields[i] : i \in DOMAIN m.fields}
                  holds(k) == k.type \in DOMAIN d.object.conds /\ d.object.conds[k.type] = k.status
              IN /\ ~\E k \in c(rule.multi.unhealthy) : holds(k)
                 /\ ~\E q \in f(rule.multi.unhealthy) :
                       Comparable(q, d.object.fields) /\ Satisfied(q, d.object.fields)
                 /\ \A k \in c(rule.multi.healthy) : holds(k)
                 /\ \A q \in f(rule.multi.healthy) : Satisfied(q, d.object.fields)

\* What the status says of the outputs: exactly those that the resource had in
\* this reconciliation, and the time of one moves exactly when its value does.
OutputsAreTold(outputs, out, before) ==
    LET values == OutputValues(out)
        old    == IF before = Nil THEN <<>> ELSE before.realized.outputs
    IN /\ DOMAIN outputs = DOMAIN values
       /\ \A n \in DOMAIN outputs :
             /\ outputs[n].digest = values[n]
             /\ outputs[n].since = round <=> ~(n \in DOMAIN old /\ old[n].digest = values[n])

\* The owner reports Ready only when every resource was submitted in this
\* reconciliation, its output was read and it is healthy by its own rule; a
\* resource with an object, and one of which nothing was known, is reported with
\* the outputs it had in this reconciliation, whose times move with their values;
\* a resource without an object is reported exactly as it was before: one that
\* could not be submitted still refers to its object, and one that has become a
\* pass through still shows the outputs of the template it had; no event speaks of
\* an object that is not there; and the owner is retried exactly when its first
\* error came from the API server, unless that was a refusal, or from choosing
\* among options (OptionErrorIsHandled says what the tests of the reconcilers have
\* of those).  (Realize, ResourceStatuses, the health check, the conditions and the classes
\* of errors.)
ReportIsHonest ==
    stage = "reported" =>
        /\ \A e \in said : e.names
        /\ report.retried <=>
             \E j \in DOMAIN done :
                /\ done[j].err # Nil /\ \A k \in 1..(j - 1) : done[k].err = Nil
                /\ done[j].err.cause \in {"API", "option"} /\ ~done[j].err.forbidden
        /\ \A i \in DOMAIN done :
             LET d      == done[i]
                 now    == statuses.current[i]
                 before == PreviousStatus(now.name)
             IN /\ Last(report.conds).status = "True" =>
                     /\ d.err = Nil
                     /\ ~d.pass => HealthyBy(d) /\ now.realized.tmpl = d.tmpl /\ now.realized.stamped = now.name
                /\ ConditionWithType(now.conds, "Ready").status = "True" => d.err = Nil
                /\ IF d.object = Nil /\ before # Nil THEN now.realized = before.realized
                   ELSE OutputsAreTold(now.realized.outputs, d.out, before)

\* An owner for which no option, or more than one, can be chosen reports so and
\* is not retried, as the tests of the reconcilers have it
\* (workload_reconciler_test.go, deliverable_reconciler_test.go).  The code wraps
\* the error twice, and neither the conditions nor the classes of errors unwrap
\* it (findMatchingTemplateName, Do).
OptionErrorIsHandled ==
    stage = "reported" /\ firstError # Nil /\ firstError.cause = "option" =>
        /\ ~report.retried
        /\ ConditionWithType(report.conds, "ResourcesSubmitted").reason \in
             {"ResolveTemplateOptionsError", "TemplateOptionsMatchError"}
=============================================================================
