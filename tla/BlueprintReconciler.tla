------------------------ MODULE BlueprintReconciler ------------------------
(***************************************************************************)
(* pkg/controllers/delivery_reconciler.go, and supplychain_reconciler.go   *)
(* with the same control flow: a blueprint is ready when every template it *)
(* names is there.  The actions leave everything but the variables below   *)
(* to the module that composes them with the reconciler of an owner.       *)
(*                                                                         *)
(* A template is read first and tracked afterwards, and its key is never   *)
(* cleared.  Unlike the reconcilers of owners this one has no token and no *)
(* stamped objects.                                                        *)
(***************************************************************************)
EXTENDS Naturals, Sequences, FiniteSets

CONSTANTS
    Templates,
    None

VARIABLES
    bp,          \* the blueprint: [exists, gen, refs, status]
    tmpls,       \* template -> content, or None
    bcache,      \* the informer's copy of bp
    events,      \* changes, of templates among others, that are not yet delivered
    bqueue, btracked,
    bpc, brec,
    missed       \* was a template changed after it was read and before it was tracked?

blueprintVars == <<bp, bcache, bqueue, btracked, bpc, brec, missed>>

\* Ready, as the reason of the condition: Unknown when there is no other.
BlueprintReasons == {"Ready", "TemplatesNotFound", "Unknown"}

IsBlueprint(b) ==
    /\ b.exists \in BOOLEAN /\ b.gen \in Nat
    /\ \A i \in DOMAIN b.refs : b.refs[i] \in Templates
    /\ b.status.gen \in 0..b.gen
    /\ b.status.ready \in BlueprintReasons \cup {None}

BlueprintTypeOK ==
    /\ IsBlueprint(bp) /\ IsBlueprint(bcache)
    /\ btracked \subseteq Templates
    /\ bqueue \in BOOLEAN /\ missed \in BOOLEAN
    /\ bpc \in {"idle", "read", "track", "update"}
    /\ bpc = "idle" => brec = None

\* A blueprint that was just created, and one that was reconciled when all its
\* templates were there.
BlueprintInit(refs, new) ==
    /\ bp = [exists |-> TRUE, gen |-> 1, refs |-> refs,
             status |-> IF new THEN [gen |-> 0, ready |-> None] ELSE [gen |-> 1, ready |-> "Ready"]]
    /\ bcache = [bp EXCEPT !.exists = ~new]
    /\ btracked = IF new THEN {} ELSE {refs[i] : i \in DOMAIN refs}
    /\ bqueue = FALSE /\ bpc = "idle" /\ brec = None /\ missed = FALSE

\* A template changes: the watches of its kind will see it.
TemplateChanged(t) ==
    /\ events' = events \cup {t}
    /\ missed' = (missed \/ (/\ bpc = "track" /\ t = brec.snap.refs[brec.i]
                             /\ t \notin btracked))
    /\ UNCHANGED <<bp, bcache, bqueue, btracked, bpc, brec>>

\* A user changes or deletes the blueprint.
BlueprintChanged(b) ==
    /\ bp' = b
    /\ UNCHANGED <<bcache, bqueue, btracked, bpc, brec, missed>>

-----------------------------------------------------------------------------
\* The informer of the blueprint.  Its event also goes to the controller of
\* the owners.
DeliverBlueprint ==
    /\ bcache # bp
    /\ bcache' = bp /\ bqueue' = TRUE
    /\ UNCHANGED <<bp, btracked, bpc, brec, missed>>

\* EnqueueTracked.  The event also goes to the controller of the owners.
DeliverTemplate(t) ==
    /\ t \in events
    /\ events' = events \ {t}
    /\ bqueue' = (bqueue \/ t \in btracked)
    /\ UNCHANGED <<bp, bcache, btracked, bpc, brec, missed>>

BlueprintIdle == bpc = "idle" /\ ~bqueue /\ bcache = bp

ResyncBlueprint ==
    /\ BlueprintIdle
    /\ bqueue' = bp.exists
    /\ UNCHANGED <<bp, bcache, btracked, bpc, brec, missed>>

RestartBlueprint ==
    /\ bpc' = "idle" /\ brec' = None
    /\ bcache' = bp /\ bqueue' = bp.exists
    /\ btracked' = {}
    /\ UNCHANGED <<bp, missed>>

-----------------------------------------------------------------------------
\* Reconcile: GetDelivery, GetSupplyChain.
BlueprintGone ==
    /\ bpc = "idle" /\ bqueue /\ ~bcache.exists
    /\ bqueue' = FALSE
    /\ UNCHANGED <<bp, bcache, btracked, bpc, brec, missed>>

GetBlueprint ==
    /\ bpc = "idle" /\ bqueue /\ bcache.exists
    /\ bqueue' = FALSE /\ missed' = FALSE
    /\ brec' = [snap |-> bcache, i |-> 1, missing |-> FALSE, ready |-> "Ready", requeue |-> FALSE]
    /\ bpc' = IF bcache.refs = <<>> THEN "update" ELSE "read"
    /\ UNCHANGED <<bp, bcache, btracked>>

\* validateResource, for the template or for every option of the resource.  A
\* call that fails ends the reconciliation with no condition and an unhandled
\* error.
ReadTemplate(fails) ==
    /\ bpc = "read"
    /\ IF fails
       THEN /\ brec' = [brec EXCEPT !.ready = "Unknown", !.requeue = TRUE]
            /\ bpc' = "update"
       ELSE /\ brec' = [brec EXCEPT !.missing = @ \/ tmpls[brec.snap.refs[brec.i]] = None]
            /\ bpc' = "track"
    /\ UNCHANGED <<bp, bcache, bqueue, btracked, missed>>

\* Mutant: a template that is not there is not tracked.
KeysOfFound(t) == IF tmpls[t] = None THEN {} ELSE {t}

Keys(t) == {t}

TrackTemplate ==
    /\ bpc = "track"
    /\ btracked' = btracked \cup Keys(brec.snap.refs[brec.i])
    /\ IF brec.i < Len(brec.snap.refs)
       THEN brec' = [brec EXCEPT !.i = @ + 1] /\ bpc' = "read"
       ELSE /\ brec' = [brec EXCEPT !.ready = IF brec.missing THEN "TemplatesNotFound" ELSE @]
            /\ bpc' = "update"
    /\ UNCHANGED <<bp, bcache, bqueue, missed>>

BlueprintStatus == [gen |-> brec.snap.gen, ready |-> brec.ready]

\* Finalize of an empty list of conditions always reports a change.
BlueprintStatusChanged == BlueprintStatus # brec.snap.status \/ brec.ready = "Unknown"

\* completeReconciliation.  The update conflicts when the copy was out of date.
UpdateBlueprint(fails) ==
    /\ bpc = "update"
    /\ fails => BlueprintStatusChanged
    /\ bpc' = "idle" /\ brec' = None
    /\ LET written == BlueprintStatusChanged /\ brec.snap = bp /\ ~fails IN
       /\ bp' = IF written THEN [bp EXCEPT !.status = BlueprintStatus] ELSE bp
       /\ bqueue' = (bqueue \/ brec.requeue \/ (BlueprintStatusChanged /\ ~written))
    /\ UNCHANGED <<bcache, btracked, missed>>

-----------------------------------------------------------------------------
BlueprintSettled == BlueprintIdle /\ bp.exists /\ events = {}

(* The Ready condition of a settled blueprint says whether the templates it  *)
(* names now are there now.  The exception is a template that was changed    *)
(* between validateResource reading it and tracking it for the first time:   *)
(* its event finds no watcher, and only the resync repairs the condition.    *)
BlueprintIsRight ==
    (BlueprintSettled /\ ~missed) =>
        /\ bp.status.gen = bp.gen
        /\ bp.status.ready = IF \A i \in DOMAIN bp.refs : tmpls[bp.refs[i]] # None
                             THEN "Ready" ELSE "TemplatesNotFound"
=============================================================================
