------------------------------ MODULE MCRules ------------------------------
(***************************************************************************)
(* The rules and the helpers that the reconcilers rely on, on small        *)
(* inputs.  A behaviour is about one topic: the conditions of an owner,    *)
(* the dependency tracker, the tokens of service accounts, who is woken by *)
(* a change, the way of a blueprint, or a run of cartotest.  The variables *)
(* of the other topics stay as they are.                                   *)
(*                                                                         *)
(* Two owners share two keys in the tracker.  Four moments with a lease of *)
(* two: a lease can be taken, lapse, be pruned by a Lookup and be taken    *)
(* again while the other owner's is still running.                         *)
(***************************************************************************)
EXTENDS MCConditionManager, DependencyTracker, TokenManager, WakeUps, BlueprintPipeline, Cartotest

S == "ClusterSourceTemplate"
I == "ClusterImageTemplate"
C == "ClusterConfigTemplate"
T == "ClusterTemplate"
D == "ClusterDeploymentTemplate"

Tier(v) == Selector({<<"tier", v>>}, <<>>, <<>>)
Image == <<"spec", "image">>
Env == <<"spec", "env">>
EnvFrom == <<"spec", "envFrom">>
Broken == <<"metadata", "[">>

Res(name, kind, tmpl) ==
    [name |-> name, kind |-> kind, tmpl |-> tmpl, options |-> <<>>, params |-> <<>>, sources |-> <<>>,
     images |-> <<>>, configs |-> <<>>, deployment |-> Nil]
Blueprint(kind, name, selector, params, resources) ==
    [kind |-> kind, name |-> name, selector |-> selector, params |-> params, resources |-> resources,
     account |-> Nil]
Chain(resources) == Blueprint("ClusterSupplyChain", "chain", Tier("web"), <<>>, resources)
Tmpl(kind, paths, tags) ==
    [kind |-> kind, form |-> "template", ns |-> FALSE, hasSpec |-> TRUE, params |-> <<>>, rule |-> Nil,
     life |-> "mutable", retention |-> Nil, paths |-> paths,
     ready |-> IF kind = D THEN {"matches"} ELSE {}, tags |-> tags]
Web(labels, fields, params) ==
    [name |-> "web", ns |-> "dev", labels |-> labels, fields |-> fields, params |-> params, account |-> Nil]
Plain == Web({<<"tier", "web">>}, (Image :> <<>>) @@ (Env :> <<>>), <<>>)
Tag(path) == [path |-> path, whole |-> FALSE]
Case(blueprints, owners, templates, fates) ==
    [blueprints |-> blueprints, owners |-> owners, templates |-> templates, fates |-> fates,
     accounts |-> {ServiceAccountRef("default", "dev")}]

Good(fields) == Fate("applied", fields, <<>>, 2, <<>>)
Trouble(fields) == {Fate(w, fields, <<>>, 2, <<>>) : w \in {"gone", "rejected", "forbidden"}}

-----------------------------------------------------------------------------
\* Which blueprint: one label, two labels, an expression, fields; and those
\* that the webhook should keep out.
Criteria ==
    {Tier("web"), Tier("db"),
     Selector({<<"tier", "web">>, <<"lang", "go">>}, <<>>, <<>>),
     Selector({<<"tier", "web">>}, <<Requirement("lang", "NotIn", {"go"})>>, <<>>),
     Selector({<<"tier", "web">>}, <<>>, <<Requirement(Image, "Exists", {})>>),
     Selector({}, <<>>, <<Requirement(Image, "DoesNotExist", {})>>),
     Selector({}, <<>>, <<Requirement(Env, "NotIn", {"x"})>>),
     Selector({<<"tier", "web">>}, <<>>, <<Requirement(EnvFrom, "DoesNotExist", {})>>),
     Selector({<<"tier", "web">>}, <<>>, <<Requirement(Broken, "Exists", {})>>),
     Selector({}, <<>>, <<>>)}
Candidates ==
    {Web(l, (Image :> i) @@ (Env :> e) @@ (EnvFrom :> <<>>), <<>>) :
        l \in {{}, {<<"tier", "web">>}, {<<"tier", "web">>, <<"lang", "go">>}},
        i \in {<<>>, <<"img">>}, e \in {<<>>, <<"y">>, <<"x", "y">>}}
Deploys == ("t" :> Tmpl(T, <<>>, {})) @@ ("u" :> Tmpl(T, <<>>, {}))
SelectionCases ==
    {Case(<<Blueprint(k, "a", a, <<>>, <<Res("r", T, "t")>>), Blueprint(k, "b", b, <<>>, <<Res("r", T, "u")>>)>>,
          <<o>>, Deploys, [t \in DOMAIN Deploys |-> {Good(<<>>)}]) :
        k \in {"ClusterSupplyChain", "ClusterDelivery"}, a \in Criteria, b \in Criteria, o \in Candidates}

\* Which value a parameter has, and what a template may look like.
Overrides == {<<>>} \cup {<<Param("p", v, d)>> : v \in {"v", Nil}, d \in {"d", Nil}}
ParamCases ==
    {Case(<<Blueprint("ClusterSupplyChain", "a", Tier("web"), b, <<[Res("r", T, "t") EXCEPT !.params = r]>>)>>,
          <<[Plain EXCEPT !.params = o]>>,
          "t" :> [Tmpl(T, <<>>, {Tag(<<"params", "p">>)}) EXCEPT !.params = t],
          "t" :> {Good(<<>>)}) :
        b \in Overrides,
        r \in Overrides \cup {<<Param("p", "r", Nil)>>, <<Param("p", Nil, "r")>>},
        o \in {<<>>, <<OwnerParam("p", "o")>>},
        t \in {<<>>, <<TemplateParam("p", "t")>>}}

\* With which account: the owner's, the blueprint's or the default one, which
\* exist or do not.
Accounts == {ServiceAccountRef(n, ns) : n \in {"default", "mine", "ours"}, ns \in {"dev", "ops"}}
AccountCases ==
    {[Case(<<[Blueprint(k, "a", Tier("web"), <<>>, <<Res("r", T, "t")>>) EXCEPT !.account = ref]>>,
           <<[Plain EXCEPT !.account = a]>>, Deploys, [t \in DOMAIN Deploys |-> {Good(<<>>)}])
      EXCEPT !.accounts = Accounts \ gone] :
        k \in {"ClusterSupplyChain", "ClusterDelivery"}, a \in {Nil, "mine"},
        ref \in {Nil, ServiceAccountRef("ours", Nil), ServiceAccountRef("ours", "ops")},
        gone \in {{x} : x \in Accounts} \cup {{}}}

NoMatch == [conds |-> <<>>, fields |-> <<>>]
ReadyIs(ready) == [conds |-> <<[type |-> "Ready", status |-> ready]>>, fields |-> <<>>]
StateIs(v) == [conds |-> <<>>, fields |-> <<Requirement("state", "In", {v})>>]
Rule(always, single, multi) == [always |-> always, single |-> single, multi |-> multi]
Rules ==
    {Nil, Rule("yes", Nil, Nil), Rule(Nil, "Ready", Nil), Rule("yes", "Ready", Nil), Rule(Nil, Nil, Nil),
     Rule(Nil, Nil, [healthy |-> ReadyIs("True"), unhealthy |-> StateIs("bad")]),
     Rule(Nil, Nil, [healthy |-> StateIs("good"), unhealthy |-> ReadyIs("False")]),
     Rule(Nil, Nil, [healthy |-> NoMatch, unhealthy |-> ReadyIs("False")])}
Objects ==
    {Fate("applied", "state" :> s, c, 2, o) :
        s \in {<<>>, <<"good">>, <<"bad">>},
        c \in {<<>>, "Ready" :> "True", "Ready" :> "False", "Ready" :> "Unknown"},
        o \in {<<>>, <<[stamped |-> Nil, fields |-> "state" :> <<"good">>, conds |-> "Ready" :> "True", born |-> 1]>>}}
HealthCases ==
    {Case(<<Chain(<<Res("r", k, "t")>>)>>, <<Plain, Plain>>,
          "t" :> [Tmpl(k, <<"state">>, {}) EXCEPT !.rule = r, !.life = l, !.form = f, !.ns = n],
          "t" :> {o \in Objects : l # "mutable" \/ o.older = <<>>} \cup
                 {Fate(w, "state" :> <<>>, <<>>, 2, <<>>) :
                     w \in {"rejected"} \cup (IF f = "ytt" THEN {"yttFails"} ELSE {}) \cup
                           (IF l # "mutable" THEN {"listFails"} ELSE {})}) :
        k \in {C, T}, r \in Rules, l \in {"mutable", "tekton"}, f \in {"template", "ytt"}, n \in {FALSE}}
    \cup
    {Case(<<Chain(<<Res("r", T, "t")>>)>>, <<Plain, Plain>>,
          "t" :> [Tmpl(T, <<>>, {}) EXCEPT !.form = f, !.ns = n, !.hasSpec = h, !.retention = p],
          "t" :> {Good(<<>>)}) :
        f \in {"template", "ytt", "both", "neither"}, n \in BOOLEAN, h \in BOOLEAN,
        p \in {Nil, [successful |-> 1, failed |-> 1]}}

-----------------------------------------------------------------------------
\* Inputs: a source and what consumes it, by a reference that may be wrong.
SourceFields(v) == ("url" :> v) @@ ("rev" :> v)
SourceFates == {Good(SourceFields(<<"1">>)), Good(SourceFields(<<"2">>)), Good(SourceFields(<<>>))}
               \cup Trouble(SourceFields(<<>>))
ImageFates ==
    {Good("image" :> <<"1">>), Good("image" :> <<>>), Fate("rejected", "image" :> <<>>, <<>>, 2, <<>>),
     Fate("unmapped", "image" :> <<"1">>, <<>>, 2, <<>>)}
FlowTemplates(tags) ==
    ("s" :> Tmpl(S, <<"url", "rev">>, {})) @@ ("i" :> Tmpl(I, <<"image">>, tags)) @@
    ("c" :> Tmpl(C, <<"config">>, {Tag(<<"image">>)}))
FlowFates == ("s" :> SourceFates) @@ ("i" :> ImageFates) @@ ("c" :> {Good("config" :> <<"1">>)})
Consumer(refs) == [Res("img", I, "i") EXCEPT !.sources = refs]
FlowCases ==
    {Case(<<Chain(IF first THEN <<Res("src", S, "s"), Consumer(refs)>> ELSE <<Consumer(refs), Res("src", S, "s")>>)>>,
          <<Plain, Plain>>, FlowTemplates({Tag(p)}), FlowFates) :
        first \in BOOLEAN,
        refs \in {<<>>, <<Ref("code", "src")>>, <<Ref("code", "img")>>, <<Ref("code", "nowhere")>>},
        p \in {<<"sources", "code">>, <<"source">>, <<"workload">>}}
    \cup
    {Case(<<Chain(<<Res("src", S, "s"), Consumer(<<Ref("code", "src")>>),
                    [Res("cfg", C, "c") EXCEPT !.images = <<Ref("app", "img")>>]>>)>>,
          <<Plain>>, FlowTemplates({Tag(<<"source">>)}), FlowFates)}

\* Options: a template, or the input passed through; the owner is edited.
Lang(v) == Selector({<<"lang", v>>}, <<>>, <<>>)
Go == [Plain EXCEPT !.labels = @ \cup {<<"lang", "go">>}]
Java == [Plain EXCEPT !.labels = @ \cup {<<"lang", "java">>}]
Optionally(options, refs) == [Res("mid", S, Nil) EXCEPT !.options = options, !.sources = refs]
OptionCases ==
    {Case(<<Chain(<<Res("src", S, "s"), Optionally(<<Option("m", Nil, Lang("go")), o>>, <<Ref("code", "src")>>)>>)>>,
          owners, ("s" :> Tmpl(S, <<"url", "rev">>, {})) @@ ("m" :> Tmpl(S, <<"url", "rev">>, {Tag(<<"source">>)})),
          ("s" :> SourceFates) @@ ("m" :> {Good(SourceFields(<<"3">>)), Good(SourceFields(<<>>))})) :
        o \in {Option(Nil, "code", Lang("java")), Option(Nil, "other", Lang("java")), Option("m", Nil, Lang("java")),
               Option("m", "code", Lang("java")), Option(Nil, Nil, Lang("java")), Option(Nil, "code", Lang("go")),
               Option(Nil, "code", Tier("web")), Option("s", Nil, Selector({<<"tier", "web">>, <<"lang", "go">>}, <<>>, <<>>))},
        owners \in {<<Go, Java>>, <<Java, Go>>, <<Plain>>}}

\* A delivery: what is deployed is passed on when the criteria are met.
Generations == ("gen" :> <<1>>) @@ ("obs" :> <<1>>) @@ ("fail" :> <<>>) @@ ("done" :> <<"True">>)
DeployFates ==
    {Good(Generations), Good([Generations EXCEPT !["gen"] = <<2>>]), Good([Generations EXCEPT !["obs"] = <<>>]),
     Good([Generations EXCEPT !["fail"] = <<"True">>]), Good([Generations EXCEPT !["done"] = <<>>])}
DeliveryCases ==
    {Case(<<Blueprint("ClusterDelivery", "delivery", Tier("web"), <<>>,
                      <<Res("src", S, "s"), [Res("dep", D, "d") EXCEPT !.deployment = d, !.configs = cfg]>>)>>,
          <<Plain, Plain>>,
          ("s" :> Tmpl(S, <<"url", "rev">>, {})) @@
          ("d" :> [Tmpl(D, IF ready = {"matches"} THEN <<"gen", "obs">> ELSE <<"gen", "obs", f, "done">>,
                        {Tag(<<"deployment">>)}) EXCEPT !.ready = ready]),
          ("s" :> {Good(SourceFields(<<"1">>)), Good(SourceFields(<<>>))}) @@ ("d" :> DeployFates)) :
        d \in {Nil, "src", "nowhere"}, cfg \in {<<>>, <<Ref("c", "src")>>},
        ready \in {{}, {"matches"}, {"completion"}, {"matches", "completion"}}, f \in {Nil, "fail"}}

MCCases == SelectionCases \cup ParamCases \cup AccountCases \cup HealthCases \cup FlowCases \cup OptionCases \cup DeliveryCases

-----------------------------------------------------------------------------
\* Directories of tests: a root with the subdirectories a, which has the
\* subdirectory x, and b.  The tests are a/x and b.
Blank ==
    [template |-> Nil, values |-> Nil, workload |-> Nil, expect |-> Nil, focus |-> Nil, options |-> <<>>,
     inputs |-> Nil, params |-> Nil, paths |-> Nil, target |-> Nil, outputs |-> Nil,
     chainValues |-> Nil]
NameTag == Tag(<<"workload">>)
ParamTag == Tag(<<"params", "p">>)
ImageTag == Tag(<<"image">>)
Tested(kind, tags) ==
    [name |-> "t", spec |-> [Tmpl(kind, <<>>, tags) EXCEPT !.params = <<TemplateParam("p", "d")>>]]
Batch == [Plain EXCEPT !.name = "batch"]
Unlabelled == [Plain EXCEPT !.labels = {}]
Expected(w, labels, spec) == [ns |-> w.ns, owner |-> w.name, labels |-> labels, spec |-> spec]
MockLabels(w) == [owner |-> w.name, kind |-> T, tmpl |-> "t"]
Named(w) == Expected(w, MockLabels(w), NameTag :> w.name)
Realized(w) == Expected(w, ResourceLabels(w, Chain(<<>>), Res("r", T, "t"), Tested(T, {}).spec), NameTag :> w.name)
Option1(name) == name :> TRUE
Base == [Blank EXCEPT !.template = Tested(T, {NameTag}), !.workload = Plain, !.expect = Named(Plain)]
WithChains(chains) == [Blank EXCEPT !.paths = chains, !.target = "r", !.expect = Realized(Plain)]
One == Chain(<<Res("r", T, "t")>>)
Roots ==
    {Base, [Base EXCEPT !.expect = Nil], [Base EXCEPT !.options = Option1("ignoreLabels")],
     [Base EXCEPT !.options = Option1("ignoreOwnerRefs")], [Base EXCEPT !.workload = Nil], [Base EXCEPT !.values = "v"]}
Middles ==
    {Blank, [Blank EXCEPT !.workload = Batch], [Blank EXCEPT !.options = Option1("ignoreMetadata")],
     [Blank EXCEPT !.focus = TRUE], [Blank EXCEPT !.paths = <<One>>, !.target = "r"]}
Bottoms ==
    {Blank, [Blank EXCEPT !.expect = Named(Batch)], [Blank EXCEPT !.expect = Realized(Plain)],
     [Blank EXCEPT !.options = "ignoreLabels" :> FALSE], [Blank EXCEPT !.workload = Batch, !.expect = Named(Batch)],
     [Blank EXCEPT !.expect = Realized(Plain), !.options = Option1("ignoreLabels")],
     [Blank EXCEPT !.expect = Realized(Plain), !.options = "ignoreMetadataFields" :> {"labels"}],
     [Blank EXCEPT !.expect = Named([Plain EXCEPT !.ns = "other"]), !.options = Option1("ignoreMetadata")],
     [Blank EXCEPT !.expect = [Named(Plain) EXCEPT !.owner = "nobody"], !.options = Option1("ignoreOwnerRefs")],
     WithChains(<<One>>), WithChains(<<One, One>>), [WithChains(<<One>>) EXCEPT !.params = <<>>]}
Directory(parent, info) == [parent |-> parent, info |-> info]
Tree(root, a, x, b, ytt) ==
    [dirs |-> <<Directory(0, root), Directory(1, a), Directory(2, x), Directory(1, b)>>, ytt |-> ytt]

\* One test by itself: what a mock and a real supply chain put into the object.
Single(info, ytt) == [dirs |-> <<Directory(0, info)>>, ytt |-> ytt]
Filled(spec) == [Base EXCEPT !.template = Tested(T, DOMAIN spec), !.expect = Expected(Plain, MockLabels(Plain), spec)]
ImageInput(v) == [sources |-> <<>>, images |-> "img" :> v, configs |-> <<>>]
Consuming == [Res("r", T, "t") EXCEPT !.images = <<Ref("img", "build")>>]
Building == <<Res("build", I, "i"), Consuming>>
Mocks ==
    {[Filled(ParamTag :> v) EXCEPT !.params = p] : v \in {"d", "v"},
        p \in {Nil, <<Param("p", "v", Nil)>>, <<Param("p", Nil, Nil)>>}} \cup
    {[Base EXCEPT ![f] = Unreadable] : f \in {"template", "workload", "expect", "values"}} \cup
    {[Filled(ImageTag :> "1") EXCEPT !.inputs = in] : in \in {Nil, ImageInput("1"), ImageInput("2")}} \cup
    {[Base EXCEPT !.template = [@ EXCEPT !.spec = [@ EXCEPT !.kind = k, !.form = f, !.ns = n]],
                  !.expect = [@ EXCEPT !.labels.kind = k]] :
        k \in {T, D}, f \in {"template", "ytt", "both"}, n \in BOOLEAN}
Reals ==
    {[Filled(ImageTag :> "1") EXCEPT !.paths = <<Chain(Building)>>, !.target = t, !.workload = w,
                                     !.options = Option1("ignoreLabels"),
                                     !.outputs = "build" :> [NoOutput EXCEPT !.image = o]] :
        t \in {"r", "build", "nowhere", Nil}, w \in {Plain, Unlabelled}, o \in {"1", Nil}} \cup
    {[Base EXCEPT !.paths = <<Blueprint("ClusterSupplyChain", "chain", s, p, <<r>>)>>, !.target = "r",
                  !.workload = w, !.options = Option1("ignoreLabels")] :
        s \in {Tier("web"), Tier("db"), Selector({}, <<>>, <<Requirement(Image, "DoesNotExist", {})>>)},
        p \in {<<>>, <<Param("p", "v", "d")>>, <<Param("p", Nil, Nil)>>},
        r \in {Res("r", T, "t"), Res("r", T, "u"),
               [Res("r", T, Nil) EXCEPT !.options = <<Option("t", Nil, Lang("go")), Option("u", Nil, Lang("java"))>>]},
        w \in {Plain, Go, Java, Unlabelled}} \cup
    {[WithChains(c) EXCEPT !.template = Base.template, !.workload = Plain, !.chainValues = v] :
        c \in {Nil, <<One>>, <<One, Unreadable>>}, v \in {Nil, "v", Unreadable}}

MCTrees ==
    {Tree(r, a, x, b, TRUE) : r \in Roots, a \in Middles, x \in Bottoms, b \in Bottoms} \cup
    {Single(info, ytt) : info \in Mocks \cup Reals \cup {[Base EXCEPT !.values = "v"]}, ytt \in BOOLEAN}

\* A supply chain above two tests: an option chooses the template "t" of one of
\* them and not of the other.
Choosing == [Res("r", T, Nil) EXCEPT !.options = <<Option("t", Nil, Lang("go")), Option("u", Nil, Lang("java"))>>]
InheritedChainTrees ==
    {Tree([Base EXCEPT !.workload = Nil, !.paths = <<Chain(<<Choosing>>)>>, !.target = "r",
                       !.options = Option1("ignoreMetadata")],
          [Blank EXCEPT !.workload = w], Blank, [Blank EXCEPT !.workload = Go], TRUE) : w \in {Go, Java}}

-----------------------------------------------------------------------------
VARIABLE topic

vars == <<topic, conditionsVars, trackerVars, tokenVars, wakeVars, pipelineVars, cartotestVars>>

Init ==
    /\ topic \in {"conditions", "tracker", "tokens", "wakeups", "pipeline", "cartotest"}
    /\ ConditionsInit /\ TrackerInit /\ TokenInit /\ WakeInit /\ PipelineInit /\ CartotestInit
    /\ topic # "wakeups" => controller = "workload"

Next ==
    \/ /\ topic = "conditions" /\ ConditionsNext
       /\ UNCHANGED <<topic, trackerVars, tokenVars, wakeVars, pipelineVars, cartotestVars>>
    \/ /\ topic = "tracker" /\ TrackerNext
       /\ UNCHANGED <<topic, conditionsVars, tokenVars, wakeVars, pipelineVars, cartotestVars>>
    \/ /\ topic = "tokens" /\ TokenNext
       /\ UNCHANGED <<topic, conditionsVars, trackerVars, wakeVars, pipelineVars, cartotestVars>>
    \/ /\ topic = "wakeups" /\ WakeNext
       /\ UNCHANGED <<topic, conditionsVars, trackerVars, tokenVars, pipelineVars, cartotestVars>>
    \/ /\ topic = "pipeline" /\ PipelineNext
       /\ UNCHANGED <<topic, conditionsVars, trackerVars, tokenVars, wakeVars, cartotestVars>>
    \/ /\ topic = "cartotest" /\ CartotestNext
       /\ UNCHANGED <<topic, conditionsVars, trackerVars, tokenVars, wakeVars, pipelineVars>>

Spec == Init /\ [][Next]_vars

\* The owners of the tracker are alike, and so are its keys and the callers of the
\* token manager.  Callers has the values of Owners: no behaviour is about both.
Symmetric == Permutations(Owners) \cup Permutations(Keys)
=============================================================================
