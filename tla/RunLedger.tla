----------------------------- MODULE RunLedger -----------------------------
(***************************************************************************)
(* What a runnable promises about its runs and its outputs, whatever       *)
(* happens in between: runs are started and end on their own; the          *)
(* controller retires a run only when it has ended and there is an heir,   *)
(* another one as young and with the same end, which it has not retired:   *)
(* the heir is there unless somebody else has deleted it.  What the        *)
(* controller publishes is the output of a run that succeeded, and never   *)
(* that of an older run while the one it published before is still there.  *)
(***************************************************************************)
EXTENDS Naturals, Sequences

CONSTANTS RunTemplates, Seconds, None

VARIABLES
    ledger,      \* every run there ever was: [tmpl, created, end, fate]
    published    \* the run whose output is published, or None

Init == ledger = <<>> /\ published = None

Start(t, when) ==
    /\ \A i \in DOMAIN ledger : ledger[i].created <= when
    /\ ledger' = Append(ledger, [tmpl |-> t, created |-> when, end |-> "Unknown",
                                 fate |-> "kept"])
    /\ UNCHANGED published

Present(i) == ledger[i].fate = "kept"

Finish(i, end) ==
    /\ Present(i) /\ ledger[i].end = "Unknown"
    /\ ledger' = [ledger EXCEPT ![i].end = end]
    /\ UNCHANGED published

\* Retention.
Retire(i) ==
    /\ Present(i) /\ ledger[i].end # "Unknown"
    /\ \E j \in DOMAIN ledger \ {i} :
          /\ ledger[j].tmpl = ledger[i].tmpl
          /\ ledger[j].end = ledger[i].end
          /\ ledger[j].created >= ledger[i].created
          /\ ledger[j].fate # "retired"
    /\ ledger' = [ledger EXCEPT ![i].fate = "retired"]
    /\ UNCHANGED published

\* Users delete what they like.
Discard(i) ==
    /\ Present(i)
    /\ ledger' = [ledger EXCEPT ![i].fate = "discarded"]
    /\ UNCHANGED published

Publish(i) ==
    /\ ledger[i].end = "True"
    /\ published # None =>
          \/ ~Present(published)
          \/ ledger[published].tmpl # ledger[i].tmpl
          \/ ledger[published].created <= ledger[i].created
    /\ published' = i
    /\ UNCHANGED ledger

\* A reconciliation that fails publishes nothing.
Withdraw == published' = None /\ UNCHANGED ledger

Next ==
    \/ \E t \in RunTemplates, when \in Seconds : Start(t, when)
    \/ \E i \in DOMAIN ledger :
          \/ \E end \in {"True", "False"} : Finish(i, end)
          \/ Retire(i) \/ Discard(i) \/ Publish(i)
    \/ Withdraw

Spec == Init /\ [][Next]_<<ledger, published>>
=============================================================================
