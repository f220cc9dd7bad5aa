----------------------------- MODULE Selectors -----------------------------
(***************************************************************************)
(* How a workload or a deliverable is matched against selectors: which     *)
(* supply chain or delivery is chosen for it, and which option of a        *)
(* resource (src/pkg/selector, src/pkg/repository/selector_matcher.go,     *)
(* src/pkg/realizer/component.go).                                         *)
(*                                                                         *)
(* An owner has labels, a set of <<key, value>> pairs with distinct keys,  *)
(* and fields, a function from the paths the JSON path parser accepts to   *)
(* the sequence of values it finds there.  A path outside the domain is    *)
(* one the parser rejects.                                                 *)
(***************************************************************************)
EXTENDS Integers, FiniteSets, Sequences, SequencesExt, Optional

\* FieldSelectorRequirement, Selector and TemplateOption (common.go).  The
\* expressions and the field requirements are lists; matchLabels is a map.
Requirement(key, op, values) == [key |-> key, op |-> op, values |-> values]
Selector(labels, exprs, fields) == [labels |-> labels, exprs |-> exprs, fields |-> fields]

\* The operators of a field requirement.
FieldSelectorOperators == {"In", "NotIn", "Exists", "DoesNotExist"}

\* SinglePathEvaluate: all that a path leads to.  A missing key is an empty
\* list and no error (AllowMissingKeys); a path that cannot be parsed, or that
\* cannot be followed into the object, is an error.
SinglePathEvaluate(path, fields) ==
    [ok |-> path \in DOMAIN fields, list |-> IF path \in DOMAIN fields THEN fields[path] ELSE <<>>]

\* EvaluateJsonPath: the single value at a path, or why there is none.
EvaluateJsonPath(path, fields) ==
    LET found == SinglePathEvaluate(path, fields)
    IN IF ~found.ok \/ Len(found.list) > 1 THEN [err |-> "invalid", value |-> Nil]
       ELSE IF found.list = <<>> THEN [err |-> "missing", value |-> Nil]
       ELSE [err |-> "none", value |-> found.list[1]]

\* Matches: one field requirement against the fields of the owner.
Matches(req, fields) ==
    LET actual  == EvaluateJsonPath(req.key, fields)
        verdict == CASE req.op = "In"           -> actual.value \in req.values
                     [] req.op = "NotIn"        -> actual.value \notin req.values
                     [] req.op = "Exists"       -> actual.value # Nil
                     [] req.op = "DoesNotExist" -> actual.value = Nil
                     [] OTHER                   -> FALSE
    IN CASE actual.err = "invalid" -> "invalid"
         [] actual.err = "missing" /\ req.op # "DoesNotExist" -> "missing"
         [] req.op \notin FieldSelectorOperators -> "invalid"
         [] OTHER -> IF verdict THEN "match" ELSE "no match"

\* The first requirement that does not match ends the loop; only an error
\* other than a missing path is an error of the whole match.
MatchesAllFields(reqs, fields) ==
    LET failing == {i \in DOMAIN reqs : Matches(reqs[i], fields) # "match"}
    IN IF failing = {} THEN "match"
       ELSE LET first == CHOOSE i \in failing : \A j \in failing : i <= j
            IN IF Matches(reqs[first], fields) = "invalid" THEN "invalid" ELSE "no match"

\* LabelSelectorAsSelector and the resulting selector of apimachinery.
LabelOperators == {"In", "NotIn", "Exists", "DoesNotExist"}

ValidLabelSelector(s) ==
    \A i \in DOMAIN s.exprs :
        LET e == s.exprs[i]
        IN e.op \in LabelOperators /\ (e.op \in {"In", "NotIn"} <=> e.values # {})

LabelsMatch(s, labels) ==
    /\ s.labels \subseteq labels
    /\ \A i \in DOMAIN s.exprs :
        LET e    == s.exprs[i]
            have == {p[2] : p \in {q \in labels : q[1] = e.key}}
        IN CASE e.op = "In"     -> have # {} /\ have \subseteq e.values
             [] e.op = "NotIn"  -> have \cap e.values = {}
             [] e.op = "Exists" -> have # {}
             [] OTHER           -> have = {}

\* The score of a selector that matches.
Specificity(s) == Cardinality(s.labels) + Len(s.exprs) + Len(s.fields)

\* A selector against an owner: the labels first, the fields only when the
\* labels match.
Fit(owner, s) ==
    IF ~ValidLabelSelector(s) THEN "invalid"
    ELSE IF ~LabelsMatch(s, owner.labels) THEN "no match"
    ELSE MatchesAllFields(s.fields, owner.fields)

\* Mutation: of several equally specific selectors the last one wins.
ConsiderSelectorLastWins(owner, s, idx, acc) ==
    IF acc.err # 0 \/ Fit(owner, s) = "no match" THEN acc
    ELSE IF Fit(owner, s) = "invalid" THEN [acc EXCEPT !.err = idx, !.best = <<>>]
    ELSE IF Specificity(s) < acc.mark THEN acc
    ELSE [acc EXCEPT !.best = <<idx>>, !.mark = Specificity(s)]

\* What a selector that fits so well does to the best ones so far; an error
\* ends the loop.
Improve(acc, idx, fit, score) ==
    CASE acc.err # 0 \/ fit = "no match"                  -> acc
      [] acc.err = 0 /\ fit = "invalid"                   -> [acc EXCEPT !.err = idx, !.best = <<>>]
      [] acc.err = 0 /\ fit = "match" /\ score < acc.mark -> acc
      [] acc.err = 0 /\ fit = "match" /\ score = acc.mark -> [acc EXCEPT !.best = Append(@, idx)]
      [] acc.err = 0 /\ fit = "match" /\ score > acc.mark -> [acc EXCEPT !.best = <<idx>>, !.mark = score]

\* One turn of the loop of BestSelectorMatchIndices.
ConsiderSelector(owner, s, idx, acc) == Improve(acc, idx, Fit(owner, s), Specificity(s))

\* BestSelectorMatchIndices: err is the index of the selector that could not
\* be evaluated, 0 when there is none.
HighWaterMark == 1

BestSelectorMatchIndices(owner, selectors) ==
    LET after[i \in 0..Len(selectors)] ==
          IF i = 0 THEN [mark |-> HighWaterMark, best |-> <<>>, err |-> 0]
          ELSE ConsiderSelector(owner, selectors[i], i, after[i - 1])
    IN after[Len(selectors)]

\* The selector of a blueprint has the same parts under other names
\* (LegacySelector, GetSelectors, legacySelectorToSelector).
LegacySelectorToSelector(blueprint) ==
    Selector(blueprint.selector.labels, blueprint.selector.exprs, blueprint.selector.fields)

\* BestSelectorMatch: the blueprints whose selectors were found.
BlueprintsOf(found, blueprints) ==
    [err     |-> IF found.err # 0 THEN "unhandled" ELSE "none",
     matches |-> [i \in DOMAIN found.best |-> blueprints[found.best[i]]]]

BestSelectorMatch(owner, blueprints) ==
    BlueprintsOf(BestSelectorMatchIndices(owner, [i \in DOMAIN blueprints |-> LegacySelectorToSelector(blueprints[i])]), blueprints)

\* What the two reconcilers make of its result: the blueprint, or the reason
\* why there is none.
OnlyMatch(owner, found) ==
    LET none(e) == [err |-> e, chain |-> Nil]
    IN IF owner.labels = {} THEN none("LabelsMissing")
       ELSE IF found.err # "none" THEN none("ListFailed")
       ELSE IF found.matches = <<>> THEN none("NotFound")
       ELSE IF Len(found.matches) > 1 THEN none("MultipleMatches")
       ELSE [err |-> "none", chain |-> found.matches[1]]

GetSupplyChain(owner, blueprints) == OnlyMatch(owner, BestSelectorMatch(owner, blueprints))

\* GetTemplateNameFromResource with findMatchingTemplateOption.
TemplateOptionSelectors(options) == [i \in DOMAIN options |-> options[i].selector]

OptionOf(found, options) ==
    IF found.err # 0 THEN [err |-> "ResolveTemplateOptionError", option |-> Nil]
    ELSE IF Len(found.best) # 1 THEN [err |-> "TemplateOptionsMatchError", option |-> Nil]
    ELSE [err |-> "none", option |-> options[found.best[1]]]

FindMatchingTemplateOption(owner, options) ==
    OptionOf(BestSelectorMatchIndices(owner, TemplateOptionSelectors(options)), options)

\* An error is wrapped with fmt.Errorf here and again in Do: the type that a
\* type switch sees is the wrapper's.
TemplateNameOf(found) ==
    IF found.err # "none" THEN [err |-> "wrapError", tmpl |-> Nil, pass |-> Nil]
    ELSE [err |-> "none", tmpl |-> found.option.name, pass |-> found.option.pass]

GetTemplateNameFromResource(owner, resource) ==
    IF resource.options = <<>>
    THEN [err |-> "none", tmpl |-> resource.tmpl, pass |-> Nil]
    ELSE TemplateNameOf(FindMatchingTemplateOption(owner, resource.options))
=============================================================================
