---------------------- MODULE MCDeliverableReconciler ----------------------
(* A small instance of DeliverableReconciler: one template for the source,  *)
(* two for deployments.                                                     *)
EXTENDS DeliverableReconciler

Content(life, ready, rule) == [life |-> life, ready |-> ready, rule |-> rule]
MCContents == {Content("mutable", "completion", FALSE), Content("immutable", "matches", TRUE)}
MCCompletion == {Content("immutable", "completion", TRUE)}
MCScenarios == {{"push", "fault"}, {"push", "failure"}, {"chain", "failure"}, {"template", "push"},
                {"labels"}, {"blueprint"}, {"source"}, {"account"}, {"deletion"},
                {"new", "template", "fault"}}
MCTemplates == {"s", "d", "e"}
=============================================================================
