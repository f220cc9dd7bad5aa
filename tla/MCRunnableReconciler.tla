----------------------- MODULE MCRunnableReconciler -----------------------
(* A small instance of RunnableReconciler: two run templates, whose objects *)
(* have the same generateName and so one key in the repository's cache.     *)
(* An edit of a template changes what it stamps, or only what is read.      *)
EXTENDS RunnableReconciler

MCRunTemplates == {"t1", "t2"}
MCKeyOf == [t \in MCRunTemplates |-> "key"]
RunnableSpec(tmpl, input) == [tmpl |-> tmpl, input |-> input]
MCFirstSpec == RunnableSpec("t1", 1)
MCSpecs == {MCFirstSpec, RunnableSpec("t1", 2), RunnableSpec("t2", 1)}

Holds(kind, stamps) == [kind |-> kind, stamps |-> stamps]
MCFirstContent == Holds("good", "a")
MCContents == {MCFirstContent, Holds("good", "b"), Holds("noOutputs", "a"),
               Holds("badPath", "a"), Holds("badPath", "b"), Holds("broken", "a")}
=============================================================================
