----------------------------- MODULE Admission -----------------------------
(***************************************************************************)
(* The admission webhooks (pkg/apis/v1alpha1/*_webhook.go): which          *)
(* blueprints and templates the API server lets in.  Create and update run *)
(* the same checks, delete none; the verdict does not depend on the order  *)
(* in which the checks run, which only decides the message.                *)
(*                                                                         *)
(* A blueprint: [kind, name, selector, params, resources, account];        *)
(*              account is Nil where the blueprint names none.             *)
(* A resource:  [name, kind, tmpl, options, params, sources, images,       *)
(*               configs, deployment]; tmpl, pass and deployment are Nil   *)
(*              where the field is empty.                                  *)
(* A template:  [kind, form, ns, hasSpec, params, rule, life, retention,   *)
(*               paths, ready, tags].                                      *)
(* A path is the sequence of its steps.                                    *)
(***************************************************************************)
EXTENDS Selectors

\* ResourceReference, BlueprintParam, TemplateParam, OwnerParam,
\* ServiceAccountRef and TemplateOption (common.go).
Ref(name, resource) == [name |-> name, resource |-> resource]
Param(name, value, default) == [name |-> name, value |-> value, default |-> default]
TemplateParam(name, default) == [name |-> name, default |-> default]
OwnerParam(name, value) == [name |-> name, value |-> value]
ServiceAccountRef(name, ns) == [name |-> name, ns |-> ns]
Option(name, pass, selector) == [name |-> name, pass |-> pass, selector |-> selector]

\* SelectSeq for a set of positions, defined without an operator as parameter.
ElementsAt(seq, positions) ==
    LET upTo[i \in 0..Len(seq)] ==
          IF i = 0 THEN <<>>
          ELSE IF i \in positions THEN Append(upTo[i - 1], seq[i]) ELSE upTo[i - 1]
    IN upTo[Len(seq)]

Distinct(seq) == \A i, j \in DOMAIN seq : i # j => seq[i] # seq[j]

SupplyChainKinds ==
    {"ClusterSourceTemplate", "ClusterImageTemplate", "ClusterConfigTemplate", "ClusterTemplate"}
DeliveryKinds ==
    {"ClusterSourceTemplate", "ClusterDeploymentTemplate", "ClusterTemplate", "ClusterConfigTemplate"}

\* GetAPITemplate knows these kinds.
TemplateKinds == SupplyChainKinds \cup DeliveryKinds

\* The source of an owner and all that can be in it (Source, GitSource, GitRef).
SourcePaths ==
    {<<"spec", "source">> \o p :
        p \in {<<>>, <<"image">>, <<"subPath">>, <<"git">>, <<"git", "url">>, <<"git", "ref">>,
               <<"git", "ref", "branch">>, <<"git", "ref", "tag">>, <<"git", "ref", "commit">>}}

ValidWorkloadPaths ==
    SourcePaths \cup {<<"spec", "build">>, <<"spec", "image">>, <<"spec", "serviceAccountName">>}
ValidWorkloadPrefixes ==
    {<<"spec", "params">>, <<"spec", "build", "env">>, <<"spec", "env">>, <<"spec", "resources">>,
     <<"spec", "serviceClaims">>, <<"metadata">>}
ValidDeliverablePaths == SourcePaths \cup {<<"spec", "serviceAccountName">>}
ValidDeliverablePrefixes == {<<"spec", "params">>, <<"metadata">>}

\* strings.HasPrefix compares characters: where the prefix ends, the path may go
\* on with a longer name that begins alike.  Bound: the one such name.
BeginsWith(name, start) == name = start \/ (name = "envFrom" /\ start = "env")

HasPrefix(path, prefix) ==
    LET n == Len(prefix)
    IN /\ Len(path) >= n /\ BeginsWith(path[n], prefix[n])
       /\ \A i \in 1..(n - 1) : path[i] = prefix[i]

ValidPath(path, blueprintKind) ==
    IF blueprintKind = "ClusterSupplyChain"
    THEN path \in ValidWorkloadPaths \/ \E p \in ValidWorkloadPrefixes : HasPrefix(path, p)
    ELSE path \in ValidDeliverablePaths \/ \E p \in ValidDeliverablePrefixes : HasPrefix(path, p)

\* A path the JSON path parser rejects has a step that is never closed.
ValidJsonPath(path) == \A i \in DOMAIN path : path[i] # "["

ValidateFieldSelectorRequirements(reqs, blueprintKind) ==
    \A i \in DOMAIN reqs :
        /\ reqs[i].op \in FieldSelectorOperators
        /\ \/ reqs[i].op \in {"Exists", "DoesNotExist"} /\ reqs[i].values = {}
           \/ reqs[i].op \in {"In", "NotIn"} /\ reqs[i].values # {}
        /\ ValidPath(reqs[i].key, blueprintKind)
        /\ ValidJsonPath(reqs[i].key)

ValidateSelector(s, blueprintKind) ==
    /\ s.labels # {} \/ s.exprs # <<>> \/ s.fields # <<>>
    /\ ValidLabelSelector(s)
    /\ ValidateFieldSelectorRequirements(s.fields, blueprintKind)

\* The options of one resource.  Two options with the same selector are only
\* refused when their names differ: the names are checked to be distinct
\* elsewhere, and a pass through has none.
ValidateResourceOptions(options, blueprintKind) ==
    /\ Cardinality({i \in DOMAIN options : options[i].pass # Nil}) <= 1
    /\ \A i \in DOMAIN options :
          /\ (options[i].name # Nil) # (options[i].pass # Nil)
          /\ ValidateSelector(options[i].selector, blueprintKind)
    /\ \A i, j \in DOMAIN options :
          options[i].name # options[j].name => options[i].selector # options[j].selector

\* The same rules for both kinds of blueprints, with the paths of their owners.
ValidateTemplateRef(resource, blueprintKind) ==
    /\ resource.tmpl = Nil \/ resource.options = <<>>
    /\ resource.tmpl # Nil \/ Len(resource.options) >= 2
    /\ Distinct([i \in DOMAIN resource.options |-> resource.options[i].name])
    /\ ValidateResourceOptions(resource.options, blueprintKind)

ValidateSupplyChainTemplateRef(resource) == ValidateTemplateRef(resource, "ClusterSupplyChain")
ValidateDeliveryTemplateRef(resource) == ValidateTemplateRef(resource, "ClusterDelivery")

ValidateParam(p) == (p.value # Nil) # (p.default # Nil)

ValidateParams(c) ==
    /\ \A i \in DOMAIN c.params : ValidateParam(c.params[i])
    /\ \A r \in DOMAIN c.resources :
          \A i \in DOMAIN c.resources[r].params : ValidateParam(c.resources[r].params[i])

IsPassThroughInputFound(refs, pass) == \E i \in DOMAIN refs : refs[i].name = pass

\* The input that a pass through names has to be one of the resource's own, of
\* the kind of the resource; a kind without such inputs has no pass through.
ValidatePassThroughs(c) ==
    \A r \in DOMAIN c.resources : \A i \in DOMAIN c.resources[r].options :
        LET resource == c.resources[r]
            pass     == resource.options[i].pass
        IN pass # Nil =>
             \/ /\ resource.kind = "ClusterSourceTemplate"
                /\ IsPassThroughInputFound(resource.sources, pass)
             \/ /\ resource.kind = "ClusterImageTemplate" /\ c.kind = "ClusterSupplyChain"
                /\ IsPassThroughInputFound(resource.images, pass)
             \/ /\ resource.kind = "ClusterConfigTemplate"
                /\ IsPassThroughInputFound(resource.configs, pass)

\* The first resource of that name.
GetResourceByName(c, name) ==
    LET found == {r \in DOMAIN c.resources : c.resources[r].name = name}
    IN IF found = {} THEN Nil ELSE c.resources[CHOOSE r \in found : \A s \in found : r <= s]

\* Every reference names a resource of the chain that has the kind of the
\* input.  Where that resource stands in the chain is not looked at.
ValidateResourceRefs(c, refs, targetKind) ==
    \A i \in DOMAIN refs :
        LET referenced == GetResourceByName(c, refs[i].resource)
        IN referenced # Nil /\ referenced.kind = targetKind

ValidateResourceNamesUnique(c) == Distinct([r \in DOMAIN c.resources |-> c.resources[r].name])

\* What the two kinds of blueprint have in common.
ValidateBlueprint(c) ==
    /\ c.selector.labels # {} \/ c.selector.exprs # <<>> \/ c.selector.fields # <<>>
    /\ ValidateParams(c)
    /\ ValidateSelector(c.selector, c.kind)
    /\ ValidateResourceNamesUnique(c)
    /\ \A r \in DOMAIN c.resources :
          IF c.kind = "ClusterSupplyChain" THEN ValidateSupplyChainTemplateRef(c.resources[r])
          ELSE ValidateDeliveryTemplateRef(c.resources[r])
    /\ ValidatePassThroughs(c)

\* The Enum of the custom resource definition, then validateNewState.
AdmitSupplyChain(c) ==
    /\ ValidateBlueprint(c)
    /\ \A r \in DOMAIN c.resources :
          /\ c.resources[r].kind \in SupplyChainKinds
          /\ ValidateResourceRefs(c, c.resources[r].sources, "ClusterSourceTemplate")
          /\ ValidateResourceRefs(c, c.resources[r].images, "ClusterImageTemplate")
          /\ ValidateResourceRefs(c, c.resources[r].configs, "ClusterConfigTemplate")

ValidateDeploymentPassedToProperReceivers(c) ==
    \A r \in DOMAIN c.resources :
        c.resources[r].kind = "ClusterDeploymentTemplate" <=> c.resources[r].deployment # Nil

ValidateDeploymentTemplateDidNotReceiveConfig(c) ==
    \A r \in DOMAIN c.resources :
        c.resources[r].kind = "ClusterDeploymentTemplate" => c.resources[r].configs = <<>>

\* A delivery's references are not looked up.
AdmitDelivery(c) ==
    /\ ValidateBlueprint(c)
    /\ \A r \in DOMAIN c.resources : c.resources[r].kind \in DeliveryKinds
    /\ ValidateDeploymentPassedToProperReceivers(c)
    /\ ValidateDeploymentTemplateDidNotReceiveConfig(c)

AdmitBlueprint(c) == IF c.kind = "ClusterSupplyChain" THEN AdmitSupplyChain(c) ELSE AdmitDelivery(c)

-----------------------------------------------------------------------------
\* A health rule: [always, single, multi]; multi: [healthy, unhealthy], each
\* with the lists conds and fields.
ValidateMultiMatch(m) ==
    /\ m.unhealthy.conds # <<>> \/ m.unhealthy.fields # <<>>
    /\ m.healthy.conds # <<>> \/ m.healthy.fields # <<>>

ValidateHealthRule(rule) ==
    /\ Cardinality({f \in {"always", "single", "multi"} : rule[f] # Nil}) = 1
    /\ rule.multi # Nil => ValidateMultiMatch(rule.multi)

\* A template with a health rule is not asked about its retention policy.
ValidateTemplateSpec(t) ==
    /\ t.form \in {"template", "ytt"}
    /\ t.form = "template" => ~t.ns
    /\ IF t.rule # Nil THEN ValidateHealthRule(t.rule)
       ELSE ~(t.retention # Nil /\ t.life = "mutable")

\* The webhooks of the kinds.  ready: the set of criteria of a deployment
\* template.  The paths to the outputs are not looked at.
AdmitSourceTemplate(t) == ValidateTemplateSpec(t)
AdmitImageTemplate(t) == ValidateTemplateSpec(t)
AdmitConfigTemplate(t) == ValidateTemplateSpec(t)
AdmitClusterTemplate(t) == ValidateTemplateSpec(t)
AdmitDeploymentTemplate(t) == ValidateTemplateSpec(t) /\ Cardinality(t.ready) = 1
AdmitRunTemplate(t) == t.form = "template" /\ ~t.ns /\ t.hasSpec

AdmitTemplate(t) ==
    CASE t.kind = "ClusterSourceTemplate"     -> AdmitSourceTemplate(t)
      [] t.kind = "ClusterImageTemplate"      -> AdmitImageTemplate(t)
      [] t.kind = "ClusterConfigTemplate"     -> AdmitConfigTemplate(t)
      [] t.kind = "ClusterTemplate"           -> AdmitClusterTemplate(t)
      [] t.kind = "ClusterDeploymentTemplate" -> AdmitDeploymentTemplate(t)
      [] t.kind = "ClusterRunTemplate"        -> AdmitRunTemplate(t)
=============================================================================
