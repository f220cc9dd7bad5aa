------------------------------ MODULE Reports ------------------------------
(***************************************************************************)
(* From the submitted object back to the status of the owner: the output   *)
(* readers (pkg/stamp), the health rules (pkg/realizer/healthcheck), the   *)
(* errors and their classes (pkg/errors), the conditions (pkg/conditions)  *)
(* and the statuses of the resources (pkg/realizer/statuses).              *)
(*                                                                         *)
(* An object: [stamped, fields, conds, born]: what was stamped, what its   *)
(* paths lead to, the status of its conditions by type, and its time of    *)
(* creation.  A condition: [type, status, reason].                         *)
(***************************************************************************)
EXTENDS Templating

Condition(type, status, reason) == [type |-> type, status |-> status, reason |-> reason]

\* ConditionWithType over a list of conditions, Nil when there is none.
ConditionWithType(conds, type) ==
    LET found == {i \in DOMAIN conds : conds[i].type = type}
    IN IF found = {} THEN Nil ELSE conds[CHOOSE i \in found : \A j \in found : i <= j]

\* The same over the conditions of an object (ExtractConditions).
ObjectCondition(object, type) == IF type \in DOMAIN object.conds THEN object.conds[type] ELSE Nil

\* A condition manager that got the conditions in this order, finalized: the
\* last False gives the reason, the first Unknown when there is no False.
Finalize(type, conds) ==
    LET falses   == {i \in DOMAIN conds : conds[i].status = "False"}
        unknowns == {i \in DOMAIN conds : conds[i].status = "Unknown"}
    IN CASE conds = <<>> -> <<Condition(type, "Unknown", "Unknown")>>
         [] falses # {} ->
              Append(conds, Condition(type, "False", conds[CHOOSE i \in falses : \A j \in falses : i >= j].reason))
         [] falses = {} /\ unknowns # {} ->
              Append(conds, Condition(type, "Unknown", conds[CHOOSE i \in unknowns : \A j \in unknowns : i <= j].reason))
         [] OTHER -> Append(conds, Condition(type, "True", "Ready"))

-----------------------------------------------------------------------------
\* The output readers.  The error is the type of the error, "none" for none.
Failed(err) == [err |-> err, out |-> Nil]
Read(out) == [err |-> "none", out |-> out]

\* Where a template of each kind says that its output is (SourceTemplateSpec,
\* ImageTemplateSpec, ConfigTemplateSpec).
SourceTemplatePaths(template) == [url |-> template.paths[1], revision |-> template.paths[2]]
ImageTemplatePaths(template) == [image |-> template.paths[1]]
ConfigTemplatePaths(template) == [config |-> template.paths[1]]

SourceOutput(template, object) ==
    LET url      == EvaluateJsonPath(SourceTemplatePaths(template).url, object.fields)
        revision == EvaluateJsonPath(SourceTemplatePaths(template).revision, object.fields)
    IN IF url.err # "none" \/ revision.err # "none" THEN Failed("JsonPathError")
       ELSE Read([NoOutput EXCEPT !.source = [url |-> url.value, revision |-> revision.value]])

ImageOutput(template, object) ==
    LET image == EvaluateJsonPath(ImageTemplatePaths(template).image, object.fields)
    IN IF image.err # "none" THEN Failed("JsonPathError")
       ELSE Read([NoOutput EXCEPT !.image = image.value])

ConfigOutput(template, object) ==
    LET config == EvaluateJsonPath(ConfigTemplatePaths(template).config, object.fields)
    IN IF config.err # "none" THEN Failed("JsonPathError")
       ELSE Read([NoOutput EXCEPT !.config = config.value])

ObservedMatchesReady(template, object) ==
    LET input  == EvaluateJsonPath(template.paths[1], object.fields)
        output == EvaluateJsonPath(template.paths[2], object.fields)
    IN IF input.err = "none" /\ output.err = "none" /\ input.value = output.value
       THEN "none" ELSE "DeploymentConditionError"

\* paths: metadata.generation, status.observedGeneration, the failed key, the
\* succeeded key.  There may be no failed key; both expect the value "True".
ObservedCompletionReady(template, object) ==
    LET at(i) == EvaluateJsonPath(template.paths[i], object.fields)
    IN CASE at(1).err # "none"                       -> "JsonPathError"
         [] at(1).err = "none" /\ at(2).err # "none" -> "ObservedGenerationError"
         [] OTHER ->
              IF at(2).value # at(1).value THEN "DeploymentConditionError"
              ELSE IF template.paths[3] # Nil /\ at(3).err = "invalid" THEN "JsonPathError"
              ELSE IF template.paths[3] # Nil /\ at(3).value = "True" THEN "DeploymentFailedConditionMetError"
              ELSE IF at(4).err # "none" \/ at(4).value # "True" THEN "DeploymentConditionError"
              ELSE "none"

DeploymentOutput(template, object, deployment) ==
    LET ready == IF "completion" \in template.ready THEN ObservedCompletionReady(template, object)
                 ELSE ObservedMatchesReady(template, object)
    IN IF ready # "none" THEN Failed(ready)
       ELSE IF deployment = Nil THEN Failed("NoInput")
       ELSE Read([NoOutput EXCEPT !.source = deployment])

\* NewReader and Output of what it returns; object is Nil for an immutable
\* template without a successful object.
ReadOutput(template, object, deployment) ==
    CASE template.kind = "ClusterTemplate" -> Read(NoOutput)
      [] template.kind # "ClusterTemplate" /\ object = Nil ->
           Failed(IF template.kind = "ClusterDeploymentTemplate" THEN "NoInput" ELSE "JsonPathError")
      [] template.kind = "ClusterSourceTemplate" /\ object # Nil     -> SourceOutput(template, object)
      [] template.kind = "ClusterImageTemplate" /\ object # Nil      -> ImageOutput(template, object)
      [] template.kind = "ClusterConfigTemplate" /\ object # Nil     -> ConfigOutput(template, object)
      [] template.kind = "ClusterDeploymentTemplate" /\ object # Nil ->
           DeploymentOutput(template, object, deployment)

\* The pass through readers: one input of the resource is its output.
PassThroughOutput(inputs, pass, field) ==
    IF pass \notin DOMAIN inputs THEN Failed("NoInput")
    ELSE Read([NoOutput EXCEPT ![field] = inputs[pass]])

\* NewPassThroughReader, and Output of the reader that it returns.
NewPassThroughReader(resource, pass, outs) ==
    CASE resource.kind = "ClusterSourceTemplate"     -> PassThroughOutput(GetSources(resource, outs), pass, "source")
      [] resource.kind = "ClusterImageTemplate"      -> PassThroughOutput(GetImages(resource, outs), pass, "image")
      [] resource.kind = "ClusterConfigTemplate"     -> PassThroughOutput(GetConfigs(resource, outs), pass, "config")
      [] resource.kind = "ClusterTemplate"           -> Read(NoOutput)
      [] resource.kind = "ClusterDeploymentTemplate" -> Failed("NoInput")

-----------------------------------------------------------------------------
Healthy(status, reason) == Condition("Healthy", status, reason)

SingleConditionType(type, object) ==
    LET status == ObjectCondition(object, type)
    IN Healthy(IF status \in {"True", "False"} THEN status ELSE "Unknown", "Condition")

\* Does the object have the condition, with the status?
MatchesCondition(cond, object) == cond.type \in DOMAIN object.conds /\ object.conds[cond.type] = cond.status

\* Mutation: the fields of an unhealthy rule are not looked at.
AnyUnhealthyByCondition(rule, object) ==
    IF \E i \in DOMAIN rule.conds : MatchesCondition(rule.conds[i], object)
    THEN Healthy("False", "MatchedCondition") ELSE Nil

\* Any requirement of the rule is met; the conditions come first.
AnyUnhealthy(rule, object) ==
    LET cond  == \E i \in DOMAIN rule.conds : MatchesCondition(rule.conds[i], object)
        field == \E i \in DOMAIN rule.fields : Matches(rule.fields[i], object.fields) = "match"
    IN IF cond THEN Healthy("False", "MatchedCondition")
       ELSE IF field THEN Healthy("False", "MatchedField") ELSE Nil

AllHealthy(rule, object) ==
    IF /\ \A i \in DOMAIN rule.conds : MatchesCondition(rule.conds[i], object)
       /\ \A i \in DOMAIN rule.fields : Matches(rule.fields[i], object.fields) = "match"
    THEN Healthy("True", IF rule.conds # <<>> THEN "MatchedCondition" ELSE "MatchedField") ELSE Nil

\* The first of them that says something.
FirstVerdict(unhealthy, healthy) ==
    IF unhealthy # Nil THEN unhealthy
    ELSE IF healthy # Nil THEN healthy ELSE Healthy("Unknown", "NoMatchesFulfilled")

MultiMatch(multi, object) ==
    FirstVerdict(AnyUnhealthy(multi.unhealthy, object), AllHealthy(multi.healthy, object))

\* The template of a realized resource; a reference that was never filled in is
\* of no kind.
IsClusterTemplate(realized) == realized.kind = "ClusterTemplate"

\* DetermineHealthCondition; realized has the outputs, the kind of the
\* template and whether there is a stamped object.
DetermineHealthCondition(rule, realized, object) ==
    CASE rule = Nil /\ DOMAIN realized.outputs # {} -> Healthy("True", "OutputsAvailable")
      [] rule = Nil /\ DOMAIN realized.outputs = {} /\ IsClusterTemplate(realized) ->
           IF realized.stamped # Nil THEN Healthy("True", "AlwaysHealthy")
           ELSE Healthy("Unknown", "NoStampedObject")
      [] rule = Nil /\ DOMAIN realized.outputs = {} /\ ~IsClusterTemplate(realized) ->
           Healthy("Unknown", "OutputNotAvailable")
      [] rule # Nil /\ object = Nil ->
           Healthy("Unknown", IF rule.always # Nil THEN "NoStampedObject" ELSE "Unknown")
      [] rule # Nil /\ object # Nil ->
           IF rule.always # Nil THEN Healthy("True", "AlwaysHealthy")
           ELSE IF rule.single # Nil THEN SingleConditionType(rule.single, object)
           ELSE MultiMatch(rule.multi, object)

\* DetermineStampedObjectHealth, for the objects of an immutable template.
DetermineStampedObjectHealth(rule, object) ==
    IF rule = Nil \/ rule.always # Nil THEN "True"
    ELSE IF rule.single # Nil THEN SingleConditionType(rule.single, object).status
    ELSE MultiMatch(rule.multi, object).status

\* GetLatestSuccessfulObjFromExaminedObject: the youngest healthy one, the
\* first of several that were born at the same time.
Latest(objects, good) ==
    LET latest == {i \in good : \A j \in good : objects[i].born >= objects[j].born}
    IN IF good = {} THEN Nil ELSE objects[CHOOSE i \in latest : \A j \in latest : i <= j]

LatestSuccessfulObject(rule, objects) ==
    Latest(objects, {i \in DOMAIN objects : DetermineStampedObjectHealth(rule, objects[i]) = "True"})

-----------------------------------------------------------------------------
\* An error of Do: its type, the type of the error inside it, whether the API
\* server said Forbidden, and whether it carries a stamped object.
Error(type, cause, forbidden, stamped) ==
    [type |-> type, cause |-> cause, forbidden |-> forbidden, stamped |-> stamped]

\* The errors that Do returns (errors.go), one of them a plain wrapper, and what
\* is inside them.
ErrorTypes ==
    {"GetTemplateError", "StampError", "ApplyStampedObjectError", "ListCreatedObjectsError",
     "RetrieveOutputError", "wrapError"}
ErrorCauses ==
    {"API", "option", "stamp", "JsonPathError", "NoInput", "ObservedGenerationError", "DeploymentConditionError",
     "DeploymentFailedConditionMetError"}

\* IsUnhandledErrorType, a type switch that does not unwrap.
IsUnhandledErrorType(err) ==
    CASE err.type = "ApplyStampedObjectError" -> ~err.forbidden
      [] err.type \in {"StampError", "RetrieveOutputError", "ResolveTemplateOptionError",
                       "TemplateOptionsMatchError"} -> FALSE
      [] OTHER -> TRUE

SubmittedType(isOwner) == IF isOwner THEN "ResourcesSubmitted" ELSE "ResourceSubmitted"

\* ResourceSubmittedCondition of a resource, ResourcesSubmittedCondition of the owner.
ResourcesSubmitted(isOwner, isPassThrough) ==
    Condition(SubmittedType(isOwner), "True",
              IF isPassThrough /\ ~isOwner THEN "PassThrough" ELSE "ResourceSubmissionComplete")

BlueprintReadyCondition(blueprintKind) ==
    Condition(IF blueprintKind = "ClusterSupplyChain" THEN "SupplyChainReady" ELSE "DeliveryReady", "True", "Ready")

\* The conditions of the errors that both kinds of owner know.
ErrorCondition(isOwner, err) ==
    LET because(reason) == Condition(SubmittedType(isOwner), "False", reason)
    IN CASE err.type = "GetTemplateError"           -> because("TemplateObjectRetrievalFailure")
         [] err.type = "StampError"                 -> because("TemplateStampFailure")
         [] err.type = "ApplyStampedObjectError"    -> because("TemplateRejectedByAPIServer")
         [] err.type = "ResolveTemplateOptionError" -> because("ResolveTemplateOptionsError")
         [] err.type = "TemplateOptionsMatchError"  -> because("TemplateOptionsMatchError")
         [] OTHER                                   -> because("UnknownError")

MissingValue(isOwner, err) ==
    IF ~err.stamped THEN Condition("SupplyChainReady", "False", "PassThrough")
    ELSE Condition(SubmittedType(isOwner), "Unknown", "MissingValueAtPath")

AddConditionForResourceSubmittedWorkload(isOwner, err) ==
    CASE err.type = "ListCreatedObjectsError" ->
           Condition(SubmittedType(isOwner), "False", "FailedToListCreatedObjects")
      [] err.type = "RetrieveOutputError"     -> MissingValue(isOwner, err)
      [] OTHER                                -> ErrorCondition(isOwner, err)

\* The conditions of deployments have the type of the owner's condition even
\* in the status of a resource.
AddConditionForResourceSubmittedDeliverable(isOwner, err) ==
    IF err.type # "RetrieveOutputError" THEN ErrorCondition(isOwner, err)
    ELSE CASE err.cause = "ObservedGenerationError" ->
                Condition("ResourcesSubmitted", "False", "TemplateStampFailure")
           [] err.cause = "DeploymentFailedConditionMetError" ->
                Condition("ResourcesSubmitted", "False", "FailedConditionMet")
           [] err.cause = "DeploymentConditionError" ->
                Condition("ResourcesSubmitted", "Unknown", "ConditionNotMet")
           [] err.cause = "JsonPathError" -> MissingValue(isOwner, err)
           [] OTHER -> Condition(SubmittedType(isOwner), "False", "UnknownError")

AddCondition(blueprintKind, isOwner, err) ==
    IF blueprintKind = "ClusterSupplyChain"
    THEN AddConditionForResourceSubmittedWorkload(isOwner, err)
    ELSE AddConditionForResourceSubmittedDeliverable(isOwner, err)

-----------------------------------------------------------------------------
\* createConditions: the conditions of one resource in this reconciliation.
CreateConditions(blueprintKind, err, isPassThrough, further) ==
    LET submitted == IF err # Nil THEN AddCondition(blueprintKind, FALSE, err)
                     ELSE ResourcesSubmitted(FALSE, isPassThrough)
    IN Finalize("Ready", <<submitted>> \o further)

\* conditionChanged, for the condition of one type in a list of conditions.
ConditionChanged(previous, cond) ==
    LET before == IF previous = Nil THEN Nil ELSE ConditionWithType(previous.conds, cond.type)
    IN IF before # Nil THEN before.status # cond.status ELSE cond.status # "Unknown"

ChangedConditionTypes(previous, conds) ==
    {conds[i].type : i \in {j \in DOMAIN conds : ConditionChanged(previous, conds[j])}}

\* IsChanged, with the flag conditionsChanged of a resource: a condition is new
\* or differs from the one of its type before.  One that is gone is no change.
ResourceConditionsChanged(before, now) ==
    \E i \in DOMAIN now : ConditionWithType(before, now[i].type) # now[i]

StatusesChanged(previous, current) ==
    LET named(list, name) == {i \in DOMAIN list : list[i].name = name}
    IN \/ \E i \in DOMAIN previous : named(current, previous[i].name) = {}
       \/ \E i \in DOMAIN current :
             \A j \in named(previous, current[i].name) :
                \/ ResourceConditionsChanged(previous[j].conds, current[i].conds)
                \/ previous[j].realized # current[i].realized

\* OwnerHealthCondition: the worst of the resources' Healthy conditions.
OwnerHealthCondition(statuses) ==
    LET all     == [i \in DOMAIN statuses |-> ConditionWithType(statuses[i].conds, "Healthy")]
        healths == ElementsAt(all, {i \in DOMAIN all : all[i] # Nil})
    IN Condition("ResourcesHealthy", Last(Finalize("ResourcesHealthy", healths)).status, "HealthyConditionRule")

\* The end of the owner's Reconcile: its conditions from the first error and
\* the statuses of the resources.
OwnerConditions(blueprintKind, firstError, statuses) ==
    Finalize("Ready",
        <<BlueprintReadyCondition(blueprintKind),
          IF firstError # Nil THEN AddCondition(blueprintKind, TRUE, firstError)
          ELSE ResourcesSubmitted(TRUE, FALSE),
          OwnerHealthCondition(statuses)>>)
=============================================================================
