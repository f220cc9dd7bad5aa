----------------------------- MODULE Cartotest -----------------------------
(***************************************************************************)
(* cartotest (pkg/testing): a tree of directories describes tests of       *)
(* templates.  A directory takes over what its parent specifies and        *)
(* overrides parts of it; the directories without subdirectories are the   *)
(* tests.  A test stamps a template for a workload, with a mock supply     *)
(* chain or with real ones, and compares the object with an expected one.  *)
(*                                                                         *)
(* A tree: the sequence of its directories, every one before its           *)
(* subdirectories: [parent, info]; the parent of the first is 0.  What a   *)
(* directory specifies, in info.yaml or by files with the usual names:     *)
(* info = [template, values, workload, expect, focus, options, inputs,     *)
(* params, paths, target, outputs, chainValues], each Nil when it is not   *)
(* specified.  A file that cannot be read or parsed is Unreadable.         *)
(***************************************************************************)
EXTENDS Templating

CONSTANTS
    Trees,      \* bound: [dirs, ytt]; ytt: whether ytt is installed
    Unreadable

\* A directory comes after its parent; what it specifies is as described above.
ASSUME TreesAssumption ==
    \A t \in Trees :
        /\ t.dirs \in Seq(ToSet(t.dirs))
        /\ \A d \in DOMAIN t.dirs :
             LET info == t.dirs[d].info
             IN /\ t.dirs[d].parent \in 0..(d - 1)
                /\ info.focus \in {Nil, TRUE, FALSE}
                /\ info.options = [n \in DOMAIN info.options |-> info.options[n]]
                /\ info.paths # Nil =>
                     /\ info.paths \in Seq(ToSet(info.paths))
                     /\ \A i \in DOMAIN info.paths : info.paths[i] # Unreadable =>
                          LET s == info.paths[i].selector
                          IN /\ info.paths[i].resources \in Seq(ToSet(info.paths[i].resources))
                             /\ IsFiniteSet(s.labels) /\ s.exprs \in Seq(ToSet(s.exprs))
                             /\ s.fields \in Seq(ToSet(s.fields))

ASSUME OutcomeAssumption == Nil \notin {"PASS", "FAIL", "panic", "build fails"}

VARIABLES
    tree,      \* the tree, Nil before it is chosen
    tests,     \* by directory: the Test that was built for it
    compare,   \* by directory: the CompareOptions that were allocated for it
    verdicts,  \* by test that was run: "pass", or why it failed
    outcome    \* of the command, Nil while it runs

cartotestVars == <<tree, tests, compare, verdicts, outcome>>

CartotestInit == tree = Nil /\ tests = <<>> /\ compare = <<>> /\ verdicts = <<>> /\ outcome = Nil

Info(d) == tree.dirs[d].info
Subdirectories(d) == {e \in DOMAIN tree.dirs : tree.dirs[e].parent = d}
Leaves == {d \in DOMAIN tree.dirs : Subdirectories(d) = {}}

\* getLocallySpecifiedPath: what the directory says, else what was there.
Locally(specified, inherited) == IF specified # Nil THEN specified ELSE inherited

NoTest == [template |-> Nil, values |-> Nil, workload |-> Nil, expect |-> Nil, focus |-> FALSE,
           options |-> 0, chain |-> Nil]

\* populateTestCaseTemplate, populateTestCaseWorkload.
PopulateTestCaseTemplate(test, info) ==
    [test EXCEPT !.template = Locally(info.template, @), !.values = Locally(info.values, @)]
\* Mutation: the workload of the parent stays.
PopulateTestCaseWorkloadOnce(test, info) == [test EXCEPT !.workload = Locally(@, info.workload)]

PopulateTestCaseWorkload(test, info) == [test EXCEPT !.workload = Locally(info.workload, @)]

\* populateCompareOptions: the options are behind a pointer, which the copy of
\* a test shares with the test it is a copy of.
OptionsOf(test, info, d) == IF info.options = <<>> \/ test.options # 0 THEN test.options ELSE d

\* The options that a directory specifies replace those of the same name.
Overlay(options, before) ==
    [n \in DOMAIN options \cup DOMAIN before |-> IF n \in DOMAIN options THEN options[n] ELSE before[n]]

PopulateCompareOptions(test, info, d) == [test EXCEPT !.options = OptionsOf(test, info, d)]

\* populateTestCaseMockSupplyChain: whatever was there is replaced.
PopulateTestCaseMockSupplyChain(test, info) ==
    [test EXCEPT !.chain = [real |-> FALSE, inputs |-> info.inputs, params |-> info.params]]
MockSpecified(info) == info.inputs # Nil \/ info.params # Nil

FileSetNotEmpty(set) == set.values # Nil \/ set.paths # Nil \/ set.target # Nil \/ set.outputs # Nil

\* populateTestCaseSupplyChain: the chains are those that the directory names,
\* else its own files whose name starts with supply-chain.
PopulateTestCaseSupplyChain(test, info) ==
    LET previous == IF test.chain.real THEN test.chain
                    ELSE [real |-> TRUE, paths |-> Nil, target |-> Nil, outputs |-> Nil, values |-> Nil]
        set      == [previous EXCEPT !.target = Locally(info.target, @), !.outputs = Locally(info.outputs, @),
                                     !.values = Locally(info.chainValues, @), !.paths = Locally(info.paths, @)]
    IN IF FileSetNotEmpty(set) THEN [test EXCEPT !.chain = set] ELSE test
SupplyChainSpecified(info) == info.paths # Nil

PopulateTestCase(test, info, d) ==
    LET files  == [PopulateTestCaseWorkload(PopulateTestCaseTemplate(test, info), info)
                     EXCEPT !.expect = Locally(info.expect, @), !.focus = Locally(info.focus, @)]
        chains == PopulateTestCaseMockSupplyChain(PopulateCompareOptions(files, info, d), info)
    IN PopulateTestCaseSupplyChain(chains, info)

-----------------------------------------------------------------------------
\* A nil pointer that is dereferenced ends the whole run.
Panic == [panic |-> TRUE]

\* MockSupplyChain.stamp: the params are merged, as if a supply chain had them,
\* then the context is built and the template is stamped.
MockParams(test) ==
    MergeParams(test.template.spec, IF test.chain.params = Nil THEN <<>> ELSE test.chain.params, <<>>,
                test.workload.params)

MockInputs(test) ==
    IF test.chain.inputs = Nil THEN [sources |-> <<>>, images |-> <<>>, configs |-> <<>>] ELSE test.chain.inputs

CreateTemplatingContext(test, params, inputs) ==
    [workload |-> test.workload.name, params |-> params,
     sources |-> inputs.sources, images |-> inputs.images, configs |-> inputs.configs,
     source |-> OnlyOne(inputs.sources), image |-> OnlyOne(inputs.images), config |-> OnlyOne(inputs.configs)]

CompleteLabels(test) ==
    [owner |-> test.workload.name, kind |-> test.template.spec.kind, tmpl |-> test.template.name]

StampMock(test, merged) ==
    IF merged.panic THEN Panic
    ELSE Stamp(test.template.spec, CreateTemplatingContext(test, merged.params, MockInputs(test)), test.workload,
               CompleteLabels(test), tree.ytt)

\* ytt is a process of its own.  Without values there is nothing to preprocess.
EnsureYTTAvailable == tree.ytt

PreprocessYtt(values) == values = Nil \/ (EnsureYTTAvailable /\ values # Unreadable)

\* readAllPaths: one file that cannot be read is an error.
ReadAllPaths(chain) ==
    IF chain.paths = Nil THEN <<>>
    ELSE IF Unreadable \in Range(chain.paths) \/ ~PreprocessYtt(chain.values) THEN Unreadable
    ELSE chain.paths

\* SupplyChainFileSet.getSupplyChain: unlike the reconciler, it also selects for
\* a workload without labels, and its supply chains were not admitted.
SingleMatch(found) == IF found.err = "none" /\ Len(found.matches) = 1 THEN found.matches[1] ELSE Nil

SelectedSupplyChain(test, chains) ==
    IF chains = Unreadable THEN Nil ELSE SingleMatch(BestSelectorMatch(test.workload, chains))

TargetResource(supplyChain, name) ==
    LET found == {r \in DOMAIN supplyChain.resources : supplyChain.resources[r].name = name}
    IN IF found = {} THEN Nil ELSE supplyChain.resources[CHOOSE r \in found : \A s \in found : r <= s]

\* An error of GetTemplateNameFromResource leaves the name empty.
TemplateMatchesResource(test, resource) ==
    /\ GetTemplateNameFromResource(test.workload, resource).tmpl = test.template.name
    /\ test.template.spec.kind = resource.kind

\* SupplyChainFileSet.stamp.
StampResource(test, supplyChain, resource) ==
    LET outputs  == IF test.chain.outputs = Nil THEN <<>> ELSE test.chain.outputs
        template == test.template.spec
    IN IF resource = Nil THEN Nil
       ELSE IF ~TemplateMatchesResource(test, resource) THEN Nil
       ELSE IF MergeParams(template, supplyChain.params, resource.params, test.workload.params).panic THEN Panic
       ELSE Stamp(template, Generate(template, supplyChain, resource, test.workload, outputs), test.workload,
                  ResourceLabels(test.workload, supplyChain, resource, template), tree.ytt)

StampFor(test, supplyChain) ==
    IF supplyChain = Nil THEN Nil
    ELSE StampResource(test, supplyChain, TargetResource(supplyChain, test.chain.target))

StampSupplyChain(test) == StampFor(test, SelectedSupplyChain(test, ReadAllPaths(test.chain)))

\* TemplateFile.GetTemplate, with the preprocessing by ytt.
GetTemplate(test) ==
    /\ test.template \notin {Nil, Unreadable}
    /\ PreprocessYtt(test.values)
    /\ test.template.spec.kind \in SupplyChainKinds

GetWorkload(test) == test.workload # Unreadable
GetExpected(test) == test.expect # Unreadable

\* getActualObject: Nil for an error.
GetActualObject(test) ==
    IF ~GetWorkload(test) \/ ~GetTemplate(test) THEN Nil
    ELSE IF ~AdmitTemplate(test.template.spec) \/ (test.template.spec.form = "ytt" /\ ~EnsureYTTAvailable) THEN Nil
    ELSE IF test.chain.real THEN StampSupplyChain(test) ELSE StampMock(test, MockParams(test))

\* stripIgnoredFields and the comparison: what is left of an object.
CompareOptions(test) == IF test.options = 0 THEN <<>> ELSE compare[test.options]

Metadata == {"labels", "ns", "owner"}
IsSet(opts, name) == name \in DOMAIN opts /\ opts[name] = TRUE

Stripped(object, opts) ==
    LET ignored == (IF IsSet(opts, "ignoreLabels") THEN {"labels"} ELSE {}) \cup
                   (IF IsSet(opts, "ignoreMetadata") THEN Metadata ELSE {}) \cup
                   (IF IsSet(opts, "ignoreOwnerRefs") THEN {"owner"} ELSE {}) \cup
                   (IF "ignoreMetadataFields" \in DOMAIN opts THEN opts.ignoreMetadataFields ELSE {})
    IN [f \in {"labels", "ns", "owner", "spec"} \ ignored |-> object[f]]

\* Test.Run.  A test that has no expected object or no workload is a nil
\* pointer that is called.
Compared(expected, actual, opts) ==
    CASE actual = Nil -> "no object"
      [] actual = Panic -> "panic"
      [] OTHER -> IF Stripped(expected, opts) = Stripped(actual, opts) THEN "pass" ELSE "differs"

RunOf(test, opts) ==
    IF test.expect = Nil THEN "panic"
    ELSE IF ~GetExpected(test) THEN "no expectation"
    ELSE IF test.workload = Nil THEN "panic"
    ELSE Compared(test.expect, GetActualObject(test), opts)

-----------------------------------------------------------------------------
\* Somebody runs cartotest on a directory.
CliTest ==
    /\ tree = Nil
    /\ \E t \in Trees : tree' = t
    /\ UNCHANGED <<tests, compare, verdicts, outcome>>

\* buildTestSuite for the next directory: it starts from a copy of the test of
\* its parent.
BuildTestSuite ==
    /\ tree # Nil /\ outcome = Nil /\ Len(tests) < Len(tree.dirs)
    /\ LET d    == Len(tests) + 1
           info == Info(d)
           test == PopulateTestCase(IF tree.dirs[d].parent = 0 THEN NoTest ELSE tests[tree.dirs[d].parent], info, d)
       IN IF MockSpecified(info) /\ SupplyChainSpecified(info)
          THEN outcome' = "build fails" /\ UNCHANGED <<tests, compare>>
          ELSE /\ tests' = Append(tests, test)
               /\ compare' = [e \in 1..d |->
                     LET before == IF e = d THEN <<>> ELSE compare[e]
                     IN IF e = test.options THEN Overlay(info.options, before) ELSE before]
               /\ UNCHANGED outcome
    /\ UNCHANGED <<tree, verdicts>>

Built == tree # Nil /\ outcome = Nil /\ Len(tests) = Len(tree.dirs)

\* getTestsToRun.
Focused == {d \in Leaves : tests[d].focus}
TestsToRun == IF Focused # {} THEN Focused ELSE Leaves

\* Assert runs the tests in the order of a Go map.
RunTest(d) ==
    /\ Built /\ d \in TestsToRun \ DOMAIN verdicts
    /\ \E verdict \in {RunOf(tests[d], CompareOptions(tests[d]))} :
          IF verdict = "panic" THEN outcome' = "panic" /\ UNCHANGED verdicts
          ELSE /\ verdicts' = [e \in DOMAIN verdicts \cup {d} |-> IF e = d THEN verdict ELSE verdicts[e]]
               /\ UNCHANGED outcome
    /\ UNCHANGED <<tree, tests, compare>>

\* reportTestResults and the exit code.
ReportTestResults ==
    /\ Built /\ DOMAIN verdicts = TestsToRun
    /\ outcome' = IF Focused # {} \/ \E d \in DOMAIN verdicts : verdicts[d] # "pass" THEN "FAIL" ELSE "PASS"
    /\ UNCHANGED <<tree, tests, compare, verdicts>>

CartotestNext ==
    CliTest \/ BuildTestSuite \/ (\E d \in DOMAIN tests : RunTest(d)) \/ ReportTestResults
-----------------------------------------------------------------------------
\* The directories from a directory up to the root.
Path(d) ==
    LET up[e \in DOMAIN tree.dirs] ==
          {e} \cup (IF tree.dirs[e].parent = 0 THEN {} ELSE up[tree.dirs[e].parent])
    IN up[d]

\* What the directories on the path say of something: the lowest one counts.
InEffect(d, field) ==
    LET saying == {e \in Path(d) : Info(e)[field] # Nil}
    IN IF saying = {} THEN Nil ELSE Info(CHOOSE e \in saying : \A f \in saying : f <= e)[field]

\* The compare options of a test.  The topmost directory of its path that has any
\* allocates them, and all directories below that one write to them, in the
\* order in which they are visited: those beside the path, too.
OptionsInForce(d) ==
    LET specify == {e \in Path(d) : Info(e).options # <<>>}
        top     == CHOOSE e \in specify : \A f \in specify : e <= f
        writers == IF specify = {} THEN {} ELSE {e \in DOMAIN tree.dirs : top \in Path(e)}
    IN [n \in UNION {DOMAIN Info(e).options : e \in writers} |->
          LET saying == {e \in writers : n \in DOMAIN Info(e).options}
          IN Info(CHOOSE e \in saying : \A f \in saying : f <= e).options[n]]

\* The supply chain that a directory itself specifies, real or mock.
MockOf(inputs, params) == [real |-> FALSE, inputs |-> inputs, params |-> params]
FileSet(paths, target, outputs, values) ==
    [real |-> TRUE, paths |-> paths, target |-> target, outputs |-> outputs, values |-> values]

OwnChain(info) ==
    IF info.paths = Nil /\ info.target = Nil /\ info.outputs = Nil /\ info.chainValues = Nil
    THEN MockOf(info.inputs, info.params)
    ELSE FileSet(info.paths, info.target, info.outputs, info.chainValues)

\* The test that a directory stands for, with a supply chain.
TestWith(d, supplyChain) ==
    [tests[d] EXCEPT !.template = InEffect(d, "template"), !.values = InEffect(d, "values"),
                     !.workload = InEffect(d, "workload"), !.expect = InEffect(d, "expect"),
                     !.chain = supplyChain]

\* What the controller would do with the supply chains of a test that uses
\* real ones, all of them admitted.
SameAsController(test) ==
    test.chain.real /\ test.workload.labels # {} /\
    (\A i \in DOMAIN test.chain.paths : AdmitSupplyChain(test.chain.paths[i])) =>
        \E found \in {GetSupplyChain(test.workload, test.chain.paths)} :
            /\ found.err = "none"
            /\ \E r \in DOMAIN found.chain.resources :
                 /\ found.chain.resources[r].name = test.chain.target
                 /\ GetTemplateNameFromResource(test.workload, found.chain.resources[r]).tmpl = test.template.name

\* When cartotest says PASS, every directory without subdirectories was tested
\* and holds: with the template, the workload and the expected object that the
\* lowest directory of its path specifies; with the supply chain that it specifies
\* itself, a mock one when it specifies none, whatever the directories above say;
\* with the compare options last written by any directory below the topmost of its
\* path that has some, its siblings included; and for real supply chains the
\* controller would choose the same chain and the same template for the workload.
\* When it says FAIL, a test is focused or does not hold in this sense
\* (buildTestSuite, Run and reportTestResults).
SuiteIsHonest ==
    LET holds(d) == RunOf(TestWith(d, OwnChain(Info(d))), OptionsInForce(d)) = "pass"
    IN /\ outcome = "PASS" => \A d \in Leaves : holds(d) /\ SameAsController(tests[d])
       /\ outcome = "FAIL" => \E d \in Leaves : InEffect(d, "focus") = TRUE \/ ~holds(d)

\* The supply chain of a test, if it were taken over from the directories above
\* as the template, the workload and the expected object are.
ChainInEffect(d) ==
    LET set == FileSet(InEffect(d, "paths"), InEffect(d, "target"), InEffect(d, "outputs"), InEffect(d, "chainValues"))
    IN IF FileSetNotEmpty(set) THEN set ELSE MockOf(InEffect(d, "inputs"), InEffect(d, "params"))

\* A PASS holds for the supply chain of the directories above, too: the test
\* tests/templates/options/option1 says that it tests a chain which only the
\* directory above it has.  The code puts an empty mock supply chain in place of
\* the one that was taken over (populateTestCaseMockSupplyChain).
PassUsesInheritedChain ==
    outcome = "PASS" => \A d \in Leaves : RunOf(TestWith(d, ChainInEffect(d)), OptionsInForce(d)) = "pass"
=============================================================================
