----------------------------- MODULE Templating -----------------------------
(***************************************************************************)
(* From a resource of a blueprint to the object that is submitted: the     *)
(* parameters, the inputs, the templating context and the stamper          *)
(* (pkg/realizer/{params,inputs,outputs,context}.go, pkg/templates).       *)
(*                                                                         *)
(* An output: [source, image, config], each Nil when absent.  A context    *)
(* has an entry for each name that a template can use; params, sources,    *)
(* images and configs are maps themselves.  A template's tags are what it  *)
(* interpolates: [path, whole], the path of one name or, into one of these *)
(* maps, of two; whole says that the tag is the whole leaf, which then     *)
(* takes the value as it is.                                               *)
(***************************************************************************)
EXTENDS Admission

NoOutput == [source |-> Nil, image |-> Nil, config |-> Nil]

\* What a map holds after an assignment.
Put(f, key, value) == [k \in DOMAIN f \cup {key} |-> IF k = key THEN value ELSE f[k]]

\* A loop that assigns to a map, in the turns at these positions.
Assignment(name, value) == [name |-> name, value |-> value]

AssignAll(map, list, at) ==
    LET upTo[i \in 0..Len(list)] ==
          IF i = 0 THEN map
          ELSE IF i \in at THEN Put(upTo[i - 1], list[i].name, list[i].value) ELSE upTo[i - 1]
    IN upTo[Len(list)]

\* The defaults of the template.
DefaultParams(params) ==
    LET list == [i \in DOMAIN params |-> Assignment(params[i].name, params[i].default)]
    IN AssignAll(<<>>, list, DOMAIN list)

\* The overrides of the blueprint or of the resource.  Without a value and
\* without a default, the code dereferences a nil pointer.
OverrideParams(map, overrides) ==
    LET list == [i \in DOMAIN overrides |->
                   Assignment(overrides[i].name,
                              IF overrides[i].value # Nil THEN overrides[i].value ELSE overrides[i].default)]
    IN AssignAll(map, list, DOMAIN list)

ProtectedFromOwnerOverride(overrides) ==
    LET list == [i \in DOMAIN overrides |-> Assignment(overrides[i].name, overrides[i].value # Nil)]
    IN AssignAll(<<>>, list, DOMAIN list)

OwnerCanOverride(protected, key) == key \notin DOMAIN protected \/ ~protected[key]

\* Merge: the defaults of the template, the blueprint, the resource, the owner.
MergeParams(template, blueprintParams, resourceParams, ownerParams) ==
    LET overrides == blueprintParams \o resourceParams
        protected == ProtectedFromOwnerOverride(overrides)
    IN [params |-> AssignAll(OverrideParams(DefaultParams(template.params), overrides), ownerParams,
                             {i \in DOMAIN ownerParams : OwnerCanOverride(protected, ownerParams[i].name)}),
        panic  |-> \E i \in DOMAIN overrides : overrides[i].value = Nil /\ overrides[i].default = Nil]

\* Outputs: what the resources before this one have produced.
GetOutput(outs, resource, field) ==
    IF resource \notin DOMAIN outs \/ outs[resource] = Nil THEN Nil ELSE outs[resource][field]

\* GetSources, GetImages, GetConfigs: the references whose resource has an
\* output of the kind, under the name of the reference; the last one wins.
Inputs(refs, outs, field) ==
    LET value(i) == GetOutput(outs, refs[i].resource, field)
    IN AssignAll(<<>>, [i \in DOMAIN refs |-> Assignment(refs[i].name, value(i))],
                 {i \in DOMAIN refs : value(i) # Nil})

GetSources(resource, outs) == Inputs(resource.sources, outs, "source")
GetImages(resource, outs) == Inputs(resource.images, outs, "image")
GetConfigs(resource, outs) == Inputs(resource.configs, outs, "config")

GetDeployment(resource, outs) ==
    IF resource.deployment = Nil THEN Nil ELSE GetOutput(outs, resource.deployment, "source")

\* The only input of its kind is also known by the name of the kind; Nil when
\* there is no such entry in the context.
OnlyOne(inputs) ==
    IF Cardinality(DOMAIN inputs) = 1 THEN inputs[CHOOSE n \in DOMAIN inputs : TRUE] ELSE Nil

\* Generate.
Generate(template, blueprint, resource, owner, outs) ==
    LET sources == GetSources(resource, outs)
        images  == GetImages(resource, outs)
        configs == GetConfigs(resource, outs)
    IN [workload |-> owner.name, deliverable |-> owner.name,
        params |-> MergeParams(template, blueprint.params, resource.params, owner.params).params,
        sources |-> sources, images |-> images, configs |-> configs,
        deployment |-> GetDeployment(resource, outs),
        source |-> OnlyOne(sources), image |-> OnlyOne(images), config |-> OnlyOne(configs)]

\* Does a path lead to something, and to what?
HasValueAt(context, path) ==
    /\ path[1] \in DOMAIN context
    /\ IF Len(path) = 2 THEN path[2] \in DOMAIN context[path[1]]
       ELSE path[1] \in {"source", "image", "config"} => context[path[1]] # Nil

ValueAt(context, path) == IF Len(path) = 2 THEN context[path[1]][path[2]] ELSE context[path[1]]

\* InterpolateLeafNode: a missing path is an error, and so is a nil value in
\* the middle of a string.
Interpolates(tag, context) ==
    HasValueAt(context, tag.path) /\ (tag.whole \/ ValueAt(context, tag.path) # Nil)

Interpolate(template, context) == [tag \in template.tags |-> ValueAt(context, tag.path)]

\* The labels of an object, under keys that name the kinds of the owner and of
\* the blueprint.  The template is named by the reference, which is empty for a
\* resource with options.
BuildWorkloadResourceLabeler(owner, blueprint, resource, template) ==
    [workload |-> owner.name, namespace |-> owner.ns, supplyChain |-> blueprint.name,
     resource |-> resource.name, kind |-> resource.kind, tmpl |-> resource.tmpl, life |-> template.life]

BuildDeliverableResourceLabeler(owner, blueprint, resource, template) ==
    [deliverable |-> owner.name, namespace |-> owner.ns, delivery |-> blueprint.name,
     resource |-> resource.name, kind |-> resource.kind, tmpl |-> resource.tmpl, life |-> template.life]

ResourceLabels(owner, blueprint, resource, template) ==
    IF blueprint.kind = "ClusterSupplyChain"
    THEN BuildWorkloadResourceLabeler(owner, blueprint, resource, template)
    ELSE BuildDeliverableResourceLabeler(owner, blueprint, resource, template)

\* Stamp.  ytt is a process of its own, which may fail or run out of time.
Stamp(template, context, owner, labels, yttRuns) ==
    LET fails == \/ template.form \notin {"template", "ytt"}
                 \/ template.form = "ytt" /\ ~yttRuns
                 \/ \E tag \in template.tags : ~Interpolates(tag, context)
                 \/ template.ns
    IN IF fails THEN Nil
       ELSE [ns |-> owner.ns, owner |-> owner.name, labels |-> labels, hasSpec |-> template.hasSpec,
             spec |-> Interpolate(template, context)]

-----------------------------------------------------------------------------
\* The readers of pkg/templates show a template with its defaults filled in.
\* There is one for each kind; they differ only in the type that they read.
ConvertLifecycle(life) == IF life \in {"immutable", "tekton"} THEN life ELSE "mutable"

IsImmutable(reader) == reader.life \in {"immutable", "tekton"}

GetHealthRule(template) ==
    IF template.rule = Nil /\ template.life = "tekton"
    THEN [always |-> Nil, single |-> "Succeeded", multi |-> Nil] ELSE template.rule

GetRetentionPolicy(template) ==
    IF template.retention = Nil THEN [successful |-> 10, failed |-> 10] ELSE template.retention

Reader(template) ==
    [template EXCEPT !.life = ConvertLifecycle(@), !.rule = GetHealthRule(template),
                     !.retention = GetRetentionPolicy(template)]

NewClusterSourceTemplateReader(template) == Reader(template)
NewClusterImageTemplateReader(template) == Reader(template)
NewClusterConfigTemplateReader(template) == Reader(template)
NewClusterDeploymentTemplateReader(template) == Reader(template)
NewClusterTemplateReader(template) == Reader(template)

NewReaderFromAPI(template) ==
    CASE template.kind = "ClusterSourceTemplate"     -> NewClusterSourceTemplateReader(template)
      [] template.kind = "ClusterImageTemplate"      -> NewClusterImageTemplateReader(template)
      [] template.kind = "ClusterConfigTemplate"     -> NewClusterConfigTemplateReader(template)
      [] template.kind = "ClusterDeploymentTemplate" -> NewClusterDeploymentTemplateReader(template)
      [] template.kind = "ClusterTemplate"           -> NewClusterTemplateReader(template)
=============================================================================
