----------------------- MODULE MCWorkloadReconciler -----------------------
(* Small instances of WorkloadReconciler: two resources, two templates and  *)
(* two objects.                                                             *)
EXTENDS WorkloadReconciler

MCNames == {"src", "img"}
MCTemplates == {"t1", "t2"}
MCObjects == {"a", "b"}

Res(name, tmpl, needs) == [name |-> name, tmpl |-> tmpl, needs |-> needs]
Ready(list) == [why |-> "Ready", list |-> list]
Chain == Ready(<<Res("src", "t1", None), Res("img", "t2", "src")>>)

\* A source and an image built from it, or the source alone, stamped from the
\* template that the image had.
EditsSelections == {Chain, Ready(<<Res("src", "t2", None)>>)}

\* The second resource passes its input on; no option matches for the first
\* one; no supply chain.
FaultsSelections ==
    {Ready(<<Res("src", "t1", None), Res("img", PassThrough, "src")>>),
     Ready(<<Res("src", NoMatch, None), Res("img", "t2", None)>>),
     [why |-> "SupplyChainNotFound", list |-> <<>>]}

ChainSelection == {Chain}

\* The same resource from one template or from the other.
SwitchSelections == {Ready(<<Res("src", t, None)>>) : t \in MCTemplates}

Content(obj, ok) == [obj |-> obj, ok |-> ok]
GoodContents == {Content("a", TRUE), Content("b", TRUE)}
AllContents == GoodContents \cup {Content("b", FALSE)}
MCFirstContents == [t \in MCTemplates |-> Content(IF t = "t1" THEN "a" ELSE "b", TRUE)]
=============================================================================
