--------------------- MODULE DeliverableReconcilerProofs ---------------------
(***************************************************************************)
(* Proofs about the deliverable reconciler and the reconciler of its       *)
(* delivery, for any templates, contents, revisions, objects and           *)
(* scenarios, from one inductive invariant:                                *)
(*                                                                         *)
(*   ...Types    the type invariant, field by field;                       *)
(*   Blueprint   what the Ready condition of the delivery rests on;        *)
(*   Sound       what a deployment object says was really deployed;        *)
(*   Referred    what the status and the reconciliation say of objects;    *)
(*   Progress    what a reconciliation has established at each step;       *)
(*   Covered     where every mutable object is still referred to.          *)
(***************************************************************************)
EXTENDS DeliverableReconciler, TLAPS

BlueprintTyped(b) ==
    /\ DOMAIN b = {"exists", "gen", "refs", "status"}
    /\ b.exists \in BOOLEAN /\ b.gen \in Nat
    /\ b.refs \in Seq(Templates) /\ Len(b.refs) = 2
    /\ b.refs[1] = SourceTemplate /\ b.refs[2] \in DeploymentTemplates
    /\ DOMAIN b.status = {"gen", "ready"}
    /\ b.status.gen \in Nat /\ b.status.gen <= b.gen
    /\ b.status.ready \in BlueprintReasons \cup {None}

BrecTyped(r) ==
    /\ DOMAIN r = {"snap", "i", "missing", "ready", "requeue"}
    /\ BlueprintTyped(r.snap)
    /\ r.i \in 1..2
    /\ r.missing \in BOOLEAN /\ r.requeue \in BOOLEAN
    /\ r.ready \in BlueprintReasons

BlueprintTypes ==
    /\ BlueprintTyped(bp) /\ BlueprintTyped(bcache)
    /\ btracked \subseteq Templates
    /\ bqueue \in BOOLEAN /\ missed \in BOOLEAN
    /\ bpc \in {"idle", "read", "track", "update"}
    /\ bpc = "idle" => brec = None
    /\ bpc # "idle" => BrecTyped(brec)

ResourceTyped(r) == DOMAIN r = {"known", "stamped", "tmpl", "out"} /\ IsResource(r)

Conds == HandledReasons \cup UnhandledReasons \cup {None}

StatusTyped(s) ==
    /\ DOMAIN s = {"gen", "cond", "src", "dep"}
    /\ s.gen \in 0..2 /\ s.cond \in Conds \cup {"Submitted"}
    /\ ResourceTyped(s.src) /\ ResourceTyped(s.dep)

OwnerTyped(d) ==
    /\ DOMAIN d = {"exists", "gen", "labels", "status"}
    /\ d.exists \in BOOLEAN /\ d.gen \in 1..2 /\ d.labels \in Labels
    /\ StatusTyped(d.status)

Deployments ==
    [spec : Revs, edited : {FALSE}, created : Nat, health : {"True", "False", "Unknown"},
     fate : {"kept", "deleted"}, tmpl : DeploymentTemplates, life : {"mutable", "immutable"},
     gen : Nat, obs : Nat, doing : Revs \cup {None}, rev : Revs \cup {None}]

\* Of a reconciliation r, when the objects d are there.
RecTyped(r, d) ==
    /\ DOMAIN r = {"snap", "fresh", "tmpl", "content", "src", "dep", "input", "cond",
                   "requeue", "doomed", "orphans"}
    /\ OwnerTyped(r.snap)
    /\ r.fresh \in BOOLEAN /\ r.requeue \in BOOLEAN
    /\ r.tmpl \in DeploymentTemplates \cup {None}
    /\ r.content \in DeploymentContents \cup {None}
    /\ ResourceTyped(r.src) /\ ResourceTyped(r.dep)
    /\ r.input \in Revs \cup {None} /\ r.cond \in Conds
    /\ r.doomed \subseteq DOMAIN d /\ r.orphans \subseteq DOMAIN d

ApiTypes ==
    /\ tmpls \in [Templates -> DeploymentContents \cup {SourceContent, None}]
    /\ \A t \in DeploymentTemplates : tmpls[t] \in DeploymentContents \cup {None}
    /\ tmpls[SourceTemplate] \in {SourceContent, None}
    /\ account \in BOOLEAN
    /\ src # None => DOMAIN src = {"out"} /\ src.out \in Revs \cup {None}

DlTypes == OwnerTyped(dl) /\ ("labels" \notin troubles => dl.gen = 1)

DepsTypes ==
    /\ deps \in Seq(Deployments) /\ Len(deps) <= MaxDeps
    /\ deployed \subseteq DepIds \X Revs /\ lost \subseteq DOMAIN deps

ManagerTypes ==
    /\ queue \in BOOLEAN
    /\ events \subseteq Templates \cup {SA} /\ tracked \subseteq Templates \cup {SA}
    /\ watching \subseteq {"source", "deployment"}
    /\ submitted \in [DeploymentTemplates -> Revs \cup {None}]

RecTypes ==
    /\ pc \in Steps \cup {"idle"}
    /\ pc = "idle" => rec = None
    /\ pc # "idle" => RecTyped(rec, deps)

-----------------------------------------------------------------------------
\* How many of its templates the reconciliation r of the delivery has read,
\* and tracked, in step p.
ReadSoFar(p, r) == IF p = "read" THEN r.i - 1 ELSE r.i
TrackedSoFar(p, r) == IF p = "update" THEN r.i ELSE r.i - 1

\* Of the first n templates of refs: a change is among the events e of what is
\* tracked, k; one is missing in ts.
Pending(refs, n, e, k) == \E j \in 1..n : refs[j] \in e \cap k
Missing(refs, n, ts) == \E j \in 1..n : ts[refs[j]] = None

Right(b, ts) ==
    /\ b.status.gen = b.gen
    /\ b.status.ready = IF Missing(b.refs, 2, ts) THEN "TemplatesNotFound" ELSE "Ready"

\* What was read is as it is now, or it will be read again.
ReadRight(p, r, q, m, e, k, ts) ==
    \/ q \/ m \/ Pending(r.snap.refs, ReadSoFar(p, r), e, k)
    \/ (r.missing <=> Missing(r.snap.refs, ReadSoFar(p, r), ts))

\* Step p of the reconciliation r of the delivery that is b in the informer's
\* cache and in the queue, q, or not.
Reading(p, r, b, q, m, e, k, ts) ==
    /\ r.snap = b \/ q
    /\ \/ p = "update" /\ r.requeue /\ r.ready = "Unknown"
       \/ /\ p = "update" => r.i = 2
          /\ \A j \in 1..TrackedSoFar(p, r) : r.snap.refs[j] \in k
          /\ ReadRight(p, r, q, m, e, k, ts)
          /\ r.ready = IF p = "update" /\ r.missing THEN "TemplatesNotFound" ELSE "Ready"

Blueprint ==
    /\ bcache.gen <= bp.gen
    /\ bpc # "idle" => Reading(bpc, brec, bcache, bqueue, missed, events, btracked, tmpls)
    /\ (BlueprintIdle /\ bp.exists) =>
          /\ \A j \in 1..2 : bp.refs[j] \in btracked
          /\ missed \/ Pending(bp.refs, 2, events, btracked) \/ Right(bp, tmpls)

-----------------------------------------------------------------------------
\* Deployment object i, o, when d has been deployed: what its controller
\* observed and what it reported.
SoundObject(i, o, d) ==
    /\ o.gen # 0 /\ o.obs <= o.gen
    /\ o.obs # 0 => o.doing # None
    /\ o.obs = o.gen => o.doing = o.spec
    /\ o.health = "True" => <<i, o.doing>> \in d
    /\ o.rev # None => <<i, o.rev>> \in d

\* Objects have the lifecycle of their template until it is edited.
Sound ==
    \A i \in DOMAIN deps :
        /\ SoundObject(i, deps[i], deployed)
        /\ "template" \notin troubles => /\ tmpls[deps[i].tmpl] # None
                                         /\ tmpls[deps[i].tmpl].life = deps[i].life

\* What a realized resource says of the objects o, when d has been deployed.
Refers(r, o, d) ==
    /\ ~r.known => r.stamped = None
    /\ r.stamped # None => r.stamped \in DOMAIN o /\ r.tmpl = o[r.stamped].tmpl
    /\ r.out # None => /\ r.stamped # None
                       /\ o[r.stamped].life = "mutable" => <<r.stamped, r.out>> \in d

Referred ==
    /\ Refers(dl.status.dep, deps, deployed)
    /\ pc # "idle" =>
          /\ rec.snap.status = dl.status
          /\ pc # "list" => Refers(rec.dep, deps, deployed)

Before == {"select", "account", "source", "deployment"}

\* The objects to delete, and why an immutable one is no longer in use.
Orphaned(r, o, ts, tr) ==
    /\ r.orphans \subseteq {r.snap.status.dep.stamped}
    /\ \A i \in r.orphans :
          (o[i].life = "immutable" /\ o[i].tmpl = r.dep.tmpl /\ o[i].fate = "kept") =>
              "template" \in tr /\ ts[r.dep.tmpl] # r.content

\* Step p of the reconciliation r, with the objects o, the templates ts and
\* the troubles tr.
Staged(p, r, o, ts, tr) ==
    /\ p \in Before => r.dep = r.snap.status.dep
    /\ p \notin {"select", "update"} => r.tmpl \in DeploymentTemplates
    /\ p = "list" => /\ r.dep.stamped \in DOMAIN o /\ r.input # None
                     /\ o[r.dep.stamped].life = "immutable" /\ o[r.dep.stamped].tmpl = r.tmpl
    /\ r.snap.status.dep.stamped # None => r.dep.stamped # None
    /\ r.content # None => r.content.life = "immutable"
    /\ p # "delete" => r.orphans = {}
    /\ Orphaned(r, o, ts, tr)

Progress == pc # "idle" => Staged(pc, rec, deps, tmpls, troubles)

\* The objects that the status, s, or the reconciliation r in step p refers to.
Known(p, r, s) ==
    CASE p = "idle" -> {s.dep.stamped}
      [] p \in {"delete", "update"} -> {r.dep.stamped} \cup r.orphans
      [] OTHER -> {s.dep.stamped, r.dep.stamped}

Covered ==
    \A i \in DOMAIN deps :
        (deps[i].fate = "kept" /\ deps[i].life = "mutable") => i \in lost \cup Known(pc, rec, dl.status)

\* Of the deliverable and its objects.
Core == DlTypes /\ DepsTypes /\ RecTypes /\ Sound /\ Referred /\ Progress /\ Covered

\* The inductive invariant.
IInv == BlueprintTypes /\ Blueprint /\ ApiTypes /\ ManagerTypes /\ Core

-----------------------------------------------------------------------------
(* The reconciler of the delivery.                                         *)

(* The references of a delivery are two templates.                         *)
LEMMA RefsFacts ==
    ASSUME NEW b, BlueprintTyped(b)
    PROVE  DOMAIN b.refs = 1..2 /\ \A j \in 1..2 : b.refs[j] \in Templates
BY DEF BlueprintTyped

(* The step and the delivery that a reconciliation has read.               *)
LEMMA BrecFacts ==
    ASSUME BlueprintTypes, bpc # "idle"
    PROVE  /\ brec.snap.refs \in Seq(Templates) /\ Len(brec.snap.refs) = 2
           /\ \A j \in 1..2 : brec.snap.refs[j] \in Templates
           /\ brec.i \in 1..2
           /\ ReadSoFar(bpc, brec) \in 0..2 /\ TrackedSoFar(bpc, brec) \in 0..2
BY DEF BlueprintTypes, BrecTyped, BlueprintTyped, ReadSoFar, TrackedSoFar

(* A template of the delivery is changed: the change is pending, or it fell *)
(* between reading and tracking.                                           *)
LEMMA TemplateStep ==
    ASSUME BlueprintTypes, Blueprint, DOMAIN tmpls = Templates,
           NEW t \in Templates, NEW c, tmpls' = [tmpls EXCEPT ![t] = c], TemplateChanged(t)
    PROVE  BlueprintTypes' /\ Blueprint'
<1>1. /\ events' = events \cup {t}
      /\ bp' = bp /\ bcache' = bcache /\ bqueue' = bqueue /\ btracked' = btracked /\ bpc' = bpc
      /\ brec' = brec
      /\ missed' = (missed \/ (/\ bpc = "track" /\ t = brec.snap.refs[brec.i] /\ t \notin btracked))
      /\ \A u \in Templates \ {t} : tmpls'[u] = tmpls[u]
  BY DEF TemplateChanged
<1>2. BlueprintTypes'
  BY <1>1 DEF BlueprintTypes
<1>3. ASSUME bpc # "idle"
      PROVE  Reading(bpc, brec, bcache, bqueue, missed', events', btracked, tmpls')
  <2> DEFINE refs == brec.snap.refs
             n == ReadSoFar(bpc, brec)
  <2>1. Reading(bpc, brec, bcache, bqueue, missed, events, btracked, tmpls)
    BY <1>3 DEF Blueprint
  <2>2. /\ \A j \in 1..2 : refs[j] \in Templates
        /\ brec.i \in 1..2 /\ n \in 0..2 /\ TrackedSoFar(bpc, brec) \in 0..2
    BY <1>3, BrecFacts
  <2>3. /\ Pending(refs, n, events, btracked) => Pending(refs, n, events', btracked)
        /\ (\A j \in 1..n : refs[j] # t) => Missing(refs, n, tmpls') = Missing(refs, n, tmpls)
        /\ \A j \in 1..n : refs[j] = t /\ t \in btracked => Pending(refs, n, events', btracked)
    <3>1. \A j \in 1..n : j \in 1..2
      BY <2>2
    <3> QED BY <1>1, <2>2, <3>1 DEF Pending, Missing
  <2>4. ASSUME \A j \in 1..TrackedSoFar(bpc, brec) : refs[j] \in btracked,
               ReadRight(bpc, brec, bqueue, missed, events, btracked, tmpls)
        PROVE  ReadRight(bpc, brec, bqueue, missed', events', btracked, tmpls')
    <3>1. CASE bqueue \/ missed \/ Pending(refs, n, events, btracked)
      BY <1>1, <2>3, <3>1 DEF ReadRight
    <3>2. CASE \A j \in 1..n : refs[j] # t
      BY <2>3, <2>4, <3>1, <3>2 DEF ReadRight
    <3>3. ASSUME NEW j \in 1..n, refs[j] = t, t \notin btracked
          PROVE  missed'
      <4>1. j \notin 1..TrackedSoFar(bpc, brec)
        BY <2>4, <3>3
      <4>2. bpc = "track" /\ j = brec.i
        BY <1>3, <2>2, <4>1 DEF ReadSoFar, TrackedSoFar, BlueprintTypes
      <4> QED BY <1>1, <3>3, <4>2
    <3> QED BY <2>3, <3>1, <3>2, <3>3 DEF ReadRight
  <2> QED BY <2>1, <2>4 DEF Reading
<1>4. ASSUME BlueprintIdle, bp.exists
      PROVE  /\ \A j \in 1..2 : bp.refs[j] \in btracked
             /\ missed' \/ Pending(bp.refs, 2, events', btracked) \/ Right(bp, tmpls')
  <2>1. \A j \in 1..2 : bp.refs[j] \in Templates
    BY RefsFacts DEF BlueprintTypes
  <2>2. /\ \A j \in 1..2 : bp.refs[j] \in btracked
        /\ missed \/ Pending(bp.refs, 2, events, btracked) \/ Right(bp, tmpls)
    BY <1>4 DEF Blueprint
  <2>3. /\ Pending(bp.refs, 2, events, btracked) => Pending(bp.refs, 2, events', btracked)
        /\ (\A j \in 1..2 : bp.refs[j] # t) => Missing(bp.refs, 2, tmpls') = Missing(bp.refs, 2, tmpls)
        /\ \A j \in 1..2 : bp.refs[j] = t /\ t \in btracked => Pending(bp.refs, 2, events', btracked)
    BY <1>1, <2>1 DEF Pending, Missing
  <2>4. missed => missed'
    BY <1>1
  <2> QED BY <2>2, <2>3, <2>4 DEF Right
<1>5. BlueprintIdle' = BlueprintIdle /\ bp.exists' = bp.exists
  BY <1>1 DEF BlueprintIdle
<1> QED BY <1>1, <1>2, <1>3, <1>4, <1>5 DEF Blueprint

(* A step that leaves the delivery, its templates and their events alone.  *)
LEMMA BlueprintFrame ==
    ASSUME BlueprintTypes, Blueprint, UNCHANGED <<blueprintVars, tmpls>>,
           events' \cap Templates = events \cap Templates
    PROVE  BlueprintTypes' /\ Blueprint'
<1>1. /\ bp' = bp /\ bcache' = bcache /\ bqueue' = bqueue /\ btracked' = btracked /\ bpc' = bpc
      /\ brec' = brec /\ missed' = missed /\ tmpls' = tmpls
  BY DEF blueprintVars
<1>2. BlueprintTypes' /\ BlueprintIdle' = BlueprintIdle
  BY <1>1 DEF BlueprintTypes, BlueprintIdle
<1>3. events' \cap btracked = events \cap btracked
  BY DEF BlueprintTypes
<1>4. \A refs, n : Pending(refs, n, events', btracked) = Pending(refs, n, events, btracked)
  BY <1>3 DEF Pending
<1>5. bpc # "idle" => Reading(bpc, brec, bcache, bqueue, missed, events', btracked, tmpls)
  BY <1>4 DEF Blueprint, Reading, ReadRight
<1> QED BY <1>1, <1>2, <1>4, <1>5 DEF Blueprint

(* A user changes the delivery.  A new list of references is a new          *)
(* generation, which no copy has yet.                                      *)
LEMMA BlueprintEdit ==
    ASSUME BlueprintTypes, Blueprint, UNCHANGED <<tmpls, events>>, NEW b, BlueprintTyped(b),
           BlueprintChanged(b), ~b.exists \/ b.gen = bp.gen + 1, bp.gen <= b.gen
    PROVE  BlueprintTypes' /\ Blueprint'
<1>1. /\ bp' = b /\ bcache' = bcache /\ bqueue' = bqueue /\ btracked' = btracked /\ bpc' = bpc
      /\ brec' = brec /\ missed' = missed /\ tmpls' = tmpls /\ events' = events
  BY DEF BlueprintChanged
<1>2. BlueprintTypes'
  BY <1>1 DEF BlueprintTypes
<1>3. bcache.gen <= bp.gen /\ bcache.gen \in Nat /\ bp.gen \in Nat /\ b.gen \in Nat
  BY DEF Blueprint, BlueprintTypes, BlueprintTyped
<1>4. ~(BlueprintIdle' /\ b.exists)
  BY <1>1, <1>3 DEF BlueprintIdle
<1> QED BY <1>1, <1>2, <1>3, <1>4 DEF Blueprint

(* Steps that put the delivery into the queue, or take it out when it is    *)
(* gone.                                                                   *)
LEMMA BlueprintRuntime ==
    ASSUME BlueprintTypes, Blueprint, UNCHANGED tmpls,
           \/ DeliverBlueprint /\ UNCHANGED events
           \/ ResyncBlueprint /\ UNCHANGED events
           \/ BlueprintGone /\ UNCHANGED events
           \/ RestartBlueprint
           \/ \E t \in Templates : DeliverTemplate(t)
    PROVE  BlueprintTypes' /\ Blueprint'
<1>1. CASE DeliverBlueprint /\ UNCHANGED events
  <2>1. /\ bp' = bp /\ bcache' = bp /\ bqueue' = TRUE /\ btracked' = btracked /\ bpc' = bpc
        /\ brec' = brec /\ missed' = missed /\ tmpls' = tmpls /\ events' = events
    BY <1>1 DEF DeliverBlueprint
  <2>2. BlueprintTypes'
    BY <2>1 DEF BlueprintTypes
  <2>3. bpc # "idle" => Reading(bpc, brec, bp, TRUE, missed, events, btracked, tmpls)
    BY DEF Blueprint, Reading, ReadRight
  <2>4. bp.gen <= bp.gen
    BY DEF BlueprintTypes, BlueprintTyped
  <2> QED BY <2>1, <2>2, <2>3, <2>4 DEF Blueprint, BlueprintIdle
<1>2. CASE ResyncBlueprint /\ UNCHANGED events
  <2>1. /\ bp' = bp /\ bcache' = bcache /\ bqueue' = bp.exists /\ btracked' = btracked
        /\ bpc' = bpc /\ bpc = "idle" /\ brec' = brec /\ missed' = missed /\ tmpls' = tmpls
        /\ events' = events
    BY <1>2 DEF ResyncBlueprint, BlueprintIdle
  <2>2. BlueprintTypes'
    BY <2>1 DEF BlueprintTypes, BlueprintTyped
  <2> QED BY <2>1, <2>2 DEF Blueprint, BlueprintIdle
<1>3. CASE BlueprintGone /\ UNCHANGED events
  <2>1. /\ bp' = bp /\ bcache' = bcache /\ bqueue' = FALSE /\ btracked' = btracked
        /\ bpc' = bpc /\ bpc = "idle" /\ brec' = brec /\ missed' = missed /\ tmpls' = tmpls
        /\ events' = events /\ ~bcache.exists
    BY <1>3 DEF BlueprintGone
  <2>2. BlueprintTypes'
    BY <2>1 DEF BlueprintTypes
  <2> QED BY <2>1, <2>2 DEF Blueprint, BlueprintIdle
<1>4. CASE RestartBlueprint
  <2>1. /\ bp' = bp /\ bcache' = bp /\ bqueue' = bp.exists /\ btracked' = {}
        /\ bpc' = "idle" /\ brec' = None /\ missed' = missed /\ tmpls' = tmpls
    BY <1>4 DEF RestartBlueprint
  <2>2. BlueprintTypes'
    BY <2>1 DEF BlueprintTypes, BlueprintTyped
  <2>3. bp.gen <= bp.gen
    BY DEF BlueprintTypes, BlueprintTyped
  <2> QED BY <2>1, <2>2, <2>3 DEF Blueprint, BlueprintIdle
<1>5. ASSUME NEW t \in Templates, DeliverTemplate(t)
      PROVE  BlueprintTypes' /\ Blueprint'
  <2>1. /\ bp' = bp /\ bcache' = bcache /\ bqueue' = (bqueue \/ t \in btracked) /\ btracked' = btracked
        /\ bpc' = bpc /\ brec' = brec /\ missed' = missed /\ tmpls' = tmpls
        /\ events' = events \ {t}
    BY <1>5 DEF DeliverTemplate
  <2>2. BlueprintTypes'
    BY <2>1 DEF BlueprintTypes
  <2>3. \A refs, n : ~bqueue' /\ Pending(refs, n, events, btracked) => Pending(refs, n, events', btracked)
    BY <2>1 DEF Pending
  <2>4. bqueue => bqueue'
    BY <2>1
  <2>5. bpc # "idle" => Reading(bpc, brec, bcache, bqueue', missed, events', btracked, tmpls)
    BY <2>3, <2>4 DEF Blueprint, Reading, ReadRight
  <2>6. BlueprintIdle' => BlueprintIdle /\ ~bqueue'
    BY <2>1, <2>4 DEF BlueprintIdle
  <2> QED BY <2>1, <2>2, <2>3, <2>5, <2>6 DEF Blueprint
<1> QED BY <1>1, <1>2, <1>3, <1>4, <1>5

(* A reconciliation of the delivery begins.                                *)
LEMMA GetBlueprintStep ==
    ASSUME BlueprintTypes, Blueprint, UNCHANGED <<tmpls, events>>, GetBlueprint
    PROVE  BlueprintTypes' /\ Blueprint'
<1> DEFINE r == [snap |-> bcache, i |-> 1, missing |-> FALSE, ready |-> "Ready", requeue |-> FALSE]
<1>1. BlueprintTyped(bcache) /\ bcache.refs # <<>>
  BY DEF BlueprintTypes, BlueprintTyped
<1>2. /\ bp' = bp /\ bcache' = bcache /\ bqueue' = FALSE /\ btracked' = btracked /\ bpc' = "read"
      /\ brec' = r /\ missed' = FALSE /\ tmpls' = tmpls /\ events' = events
  BY <1>1 DEF GetBlueprint
<1>3. BrecTyped(r)
  BY <1>1 DEF BrecTyped, BlueprintReasons
<1>4. BlueprintTypes'
  BY <1>2, <1>3 DEF BlueprintTypes
<1>5. Reading("read", r, bcache, FALSE, FALSE, events, btracked, tmpls)
  <2>1. ReadSoFar("read", r) = 0 /\ TrackedSoFar("read", r) = 0
    BY DEF ReadSoFar, TrackedSoFar
  <2>2. /\ r.snap = bcache /\ r.missing = FALSE /\ r.ready = "Ready" /\ 1..0 = {}
    OBVIOUS
  <2> HIDE DEF r
  <2> QED BY <2>1, <2>2 DEF Reading, ReadRight, Missing
<1> HIDE DEF r
<1> QED BY <1>2, <1>4, <1>5 DEF Blueprint, BlueprintIdle

(* It reads a template.                                                    *)
LEMMA ReadTemplateStep ==
    ASSUME BlueprintTypes, Blueprint, UNCHANGED <<tmpls, events>>, NEW fails \in BOOLEAN,
           ReadTemplate(fails)
    PROVE  BlueprintTypes' /\ Blueprint'
<1>1. /\ bp' = bp /\ bcache' = bcache /\ bqueue' = bqueue /\ btracked' = btracked
      /\ missed' = missed /\ tmpls' = tmpls /\ events' = events /\ bpc = "read"
  BY DEF ReadTemplate
<1>2. /\ BrecTyped(brec) /\ Reading("read", brec, bcache, bqueue, missed, events, btracked, tmpls)
      /\ \A j \in 1..2 : brec.snap.refs[j] \in Templates
  BY <1>1, BrecFacts DEF Blueprint, BlueprintTypes
<1>3. CASE fails
  <2> DEFINE r == [brec EXCEPT !.ready = "Unknown", !.requeue = TRUE]
  <2>1. brec' = r /\ bpc' = "update"
    BY <1>3 DEF ReadTemplate
  <2>2. /\ r.snap = brec.snap /\ r.i = brec.i /\ r.missing = brec.missing
        /\ r.ready = "Unknown" /\ r.requeue = TRUE /\ DOMAIN r = DOMAIN brec
    BY <1>2 DEF BrecTyped
  <2> HIDE DEF r
  <2>3. BrecTyped(r)
    BY <1>2, <2>2 DEF BrecTyped, BlueprintReasons
  <2>4. Reading("update", r, bcache, bqueue, missed, events, btracked, tmpls)
    BY <1>2, <2>2 DEF Reading
  <2>5. BlueprintTypes'
    BY <1>1, <2>1, <2>3 DEF BlueprintTypes
  <2> QED BY <1>1, <2>1, <2>4, <2>5 DEF Blueprint, BlueprintIdle
<1>4. CASE ~fails
  <2> DEFINE now == tmpls[brec.snap.refs[brec.i]] = None
             r == [brec EXCEPT !.missing = brec.missing \/ now]
             refs == brec.snap.refs
  <2>1. brec' = r /\ bpc' = "track"
    BY <1>4 DEF ReadTemplate
  <2>2. /\ r.snap = brec.snap /\ r.i = brec.i /\ r.missing = (brec.missing \/ now)
        /\ r.ready = brec.ready /\ r.requeue = brec.requeue /\ DOMAIN r = DOMAIN brec
    BY <1>2 DEF BrecTyped
  <2> HIDE DEF r
  <2>3. BrecTyped(r)
    BY <1>2, <2>2 DEF BrecTyped
  <2>4. /\ brec.i \in 1..2
        /\ ReadSoFar("read", brec) = brec.i - 1 /\ ReadSoFar("track", r) = brec.i
        /\ TrackedSoFar("read", brec) = brec.i - 1 /\ TrackedSoFar("track", r) = brec.i - 1
    BY <1>2, <2>2 DEF ReadSoFar, TrackedSoFar, BrecTyped
  <2>5. /\ Missing(refs, brec.i, tmpls) <=> (Missing(refs, brec.i - 1, tmpls) \/ now)
        /\ Pending(refs, brec.i - 1, events, btracked) => Pending(refs, brec.i, events, btracked)
    <3>1. \A j : j \in 1..brec.i <=> j \in 1..(brec.i - 1) \/ j = brec.i
      BY <2>4
    <3> QED BY <3>1 DEF Missing, Pending
  <2>6. ReadRight("read", brec, bqueue, missed, events, btracked, tmpls)
            => ReadRight("track", r, bqueue, missed, events, btracked, tmpls)
    <3>1. refs = r.snap.refs
      BY <2>2
    <3>2. (brec.missing <=> Missing(refs, brec.i - 1, tmpls)) => (r.missing <=> Missing(refs, brec.i, tmpls))
      BY <2>2, <2>5
    <3> QED BY <2>4, <2>5, <3>1, <3>2 DEF ReadRight
  <2>7. Reading("track", r, bcache, bqueue, missed, events, btracked, tmpls)
    BY <1>2, <2>2, <2>4, <2>6 DEF Reading
  <2>8. BlueprintTypes'
    BY <1>1, <2>1, <2>3 DEF BlueprintTypes
  <2> QED BY <1>1, <2>1, <2>7, <2>8 DEF Blueprint, BlueprintIdle
<1> QED BY <1>3, <1>4

(* It tracks the template, and goes on to the next one or to the end.      *)
LEMMA TrackTemplateStep ==
    ASSUME BlueprintTypes, Blueprint, UNCHANGED <<tmpls, events>>, TrackTemplate
    PROVE  BlueprintTypes' /\ Blueprint'
<1> DEFINE t == brec.snap.refs[brec.i]
           k == btracked \cup {t}
           refs == brec.snap.refs
<1>1. /\ bp' = bp /\ bcache' = bcache /\ bqueue' = bqueue /\ btracked' = k
      /\ missed' = missed /\ tmpls' = tmpls /\ events' = events /\ bpc = "track"
  BY DEF TrackTemplate, Keys
<1>2. /\ BrecTyped(brec) /\ Reading("track", brec, bcache, bqueue, missed, events, btracked, tmpls)
      /\ \A j \in 1..2 : refs[j] \in Templates
      /\ brec.i \in 1..2 /\ Len(refs) = 2
  BY <1>1, BrecFacts DEF Blueprint, BlueprintTypes
<1>3. t \in Templates /\ k \subseteq Templates
  BY <1>2 DEF BlueprintTypes
<1>4. \A n : Pending(refs, n, events, btracked) => Pending(refs, n, events, k)
  BY DEF Pending
<1>5. ReadSoFar("track", brec) = brec.i /\ TrackedSoFar("track", brec) = brec.i - 1
  BY DEF ReadSoFar, TrackedSoFar
<1>6. CASE brec.i = 1
  <2> DEFINE r == [brec EXCEPT !.i = brec.i + 1]
  <2>1. brec' = r /\ bpc' = "read"
    BY <1>2, <1>6 DEF TrackTemplate
  <2>2. /\ r.snap = brec.snap /\ r.i = 2 /\ r.missing = brec.missing
        /\ r.ready = brec.ready /\ r.requeue = brec.requeue /\ DOMAIN r = DOMAIN brec
    BY <1>2, <1>6 DEF BrecTyped
  <2> HIDE DEF r
  <2>3. BrecTyped(r)
    BY <1>2, <2>2 DEF BrecTyped
  <2>4. ReadSoFar("read", r) = 1 /\ TrackedSoFar("read", r) = 1
    BY <2>2 DEF ReadSoFar, TrackedSoFar
  <2>5. ReadRight("track", brec, bqueue, missed, events, btracked, tmpls)
            => ReadRight("read", r, bqueue, missed, events, k, tmpls)
    BY <1>4, <1>5, <1>6, <2>2, <2>4 DEF ReadRight
  <2>6. \A j \in 1..1 : refs[j] \in k
    BY <1>6
  <2>7. Reading("read", r, bcache, bqueue, missed, events, k, tmpls)
    BY <1>2, <2>2, <2>4, <2>5, <2>6 DEF Reading
  <2>8. BlueprintTypes'
    BY <1>1, <1>3, <2>1, <2>3 DEF BlueprintTypes
  <2> QED BY <1>1, <2>1, <2>7, <2>8 DEF Blueprint, BlueprintIdle
<1>7. CASE brec.i = 2
  <2> DEFINE r == [brec EXCEPT !.ready = IF brec.missing THEN "TemplatesNotFound" ELSE brec.ready]
  <2>1. brec' = r /\ bpc' = "update"
    BY <1>2, <1>7 DEF TrackTemplate
  <2>2. /\ r.snap = brec.snap /\ r.i = 2 /\ r.missing = brec.missing
        /\ r.ready = (IF brec.missing THEN "TemplatesNotFound" ELSE brec.ready)
        /\ r.requeue = brec.requeue /\ DOMAIN r = DOMAIN brec
    BY <1>2, <1>7 DEF BrecTyped
  <2> HIDE DEF r
  <2>3. BrecTyped(r)
    BY <1>2, <2>2 DEF BrecTyped, BlueprintReasons
  <2>4. ReadSoFar("update", r) = 2 /\ TrackedSoFar("update", r) = 2
    BY <2>2 DEF ReadSoFar, TrackedSoFar
  <2>5. ReadRight("track", brec, bqueue, missed, events, btracked, tmpls)
            => ReadRight("update", r, bqueue, missed, events, k, tmpls)
    BY <1>4, <1>5, <1>7, <2>2, <2>4 DEF ReadRight
  <2>6. \A j \in 1..2 : refs[j] \in k
    BY <1>2, <1>5, <1>7 DEF Reading
  <2>7. Reading("update", r, bcache, bqueue, missed, events, k, tmpls)
    BY <1>2, <2>2, <2>4, <2>5, <2>6 DEF Reading
  <2>8. BlueprintTypes'
    BY <1>1, <1>3, <2>1, <2>3 DEF BlueprintTypes
  <2> QED BY <1>1, <2>1, <2>7, <2>8 DEF Blueprint, BlueprintIdle
<1> QED BY <1>2, <1>6, <1>7

(* It ends, and writes the status if it has changed and nobody else has     *)
(* written the delivery.                                                   *)
LEMMA UpdateBlueprintStep ==
    ASSUME BlueprintTypes, Blueprint, UNCHANGED <<tmpls, events>>, NEW fails \in BOOLEAN,
           UpdateBlueprint(fails)
    PROVE  BlueprintTypes' /\ Blueprint'
<1> DEFINE written == BlueprintStatusChanged /\ brec.snap = bp /\ ~fails
           refs == brec.snap.refs
<1>1. /\ bcache' = bcache /\ btracked' = btracked /\ missed' = missed /\ tmpls' = tmpls
      /\ events' = events /\ bpc = "update" /\ bpc' = "idle" /\ brec' = None
      /\ bqueue' = (bqueue \/ brec.requeue \/ (BlueprintStatusChanged /\ ~written))
      /\ bp' = IF written THEN [bp EXCEPT !.status = BlueprintStatus] ELSE bp
  BY DEF UpdateBlueprint
<1>2. /\ BrecTyped(brec) /\ Reading("update", brec, bcache, bqueue, missed, events, btracked, tmpls)
  BY <1>1 DEF Blueprint, BlueprintTypes
<1>3. /\ BlueprintStatus.gen = brec.snap.gen /\ BlueprintStatus.ready = brec.ready
      /\ DOMAIN BlueprintStatus = {"gen", "ready"}
  BY DEF BlueprintStatus
<1>4. /\ BlueprintTyped(bp') /\ bp'.gen = bp.gen /\ bp'.refs = bp.refs /\ bp'.exists = bp.exists
      /\ bp'.status = IF written THEN BlueprintStatus ELSE bp.status
  <2>1. CASE written
    <3>1. /\ DOMAIN bp' = DOMAIN bp /\ bp'.gen = bp.gen /\ bp'.refs = bp.refs
          /\ bp'.exists = bp.exists /\ bp'.status = BlueprintStatus
      BY <1>1, <2>1 DEF BlueprintTypes, BlueprintTyped
    <3>2. BlueprintTyped(bp) /\ brec.snap.gen = bp.gen /\ bp.gen \in Nat /\ bp.gen <= bp.gen
      BY <2>1 DEF BlueprintTypes, BlueprintTyped
    <3>3. brec.ready \in BlueprintReasons \cup {None}
      BY <1>2 DEF BrecTyped
    <3>4. BlueprintTyped(bp')
      BY <1>3, <3>1, <3>2, <3>3 DEF BlueprintTyped
    <3> QED BY <2>1, <3>1, <3>4
  <2>2. CASE ~written
    BY <1>1, <2>2 DEF BlueprintTypes
  <2> QED BY <2>1, <2>2
<1>5. BlueprintTypes'
  <2>1. bqueue' \in BOOLEAN
    BY <1>1
  <2> QED BY <1>1, <1>4, <2>1 DEF BlueprintTypes
<1>6. ASSUME BlueprintIdle', bp'.exists
      PROVE  /\ \A j \in 1..2 : bp'.refs[j] \in btracked
             /\ missed \/ Pending(bp'.refs, 2, events, btracked) \/ Right(bp', tmpls)
  <2>1. ~bqueue /\ ~brec.requeue /\ bcache = bp' /\ (BlueprintStatusChanged => written)
    BY <1>1, <1>6 DEF BlueprintIdle
  <2>2. /\ brec.snap = bcache
        /\ brec.i = 2 /\ \A j \in 1..TrackedSoFar("update", brec) : refs[j] \in btracked
        /\ ReadRight("update", brec, bqueue, missed, events, btracked, tmpls)
        /\ brec.ready = IF brec.missing THEN "TemplatesNotFound" ELSE "Ready"
    BY <1>2, <2>1 DEF Reading
  <2>3. ReadSoFar("update", brec) = 2 /\ TrackedSoFar("update", brec) = 2
    BY <2>2 DEF ReadSoFar, TrackedSoFar
  <2>4. bp'.status = BlueprintStatus /\ brec.snap = bp'
    <3>1. CASE BlueprintStatusChanged
      BY <1>4, <2>1, <2>2, <3>1
    <3>2. CASE ~BlueprintStatusChanged
      BY <1>1, <2>1, <2>2, <3>2 DEF BlueprintStatusChanged
    <3> QED BY <3>1, <3>2
  <2>5. (brec.missing <=> Missing(refs, 2, tmpls)) => Right(bp', tmpls)
    BY <1>3, <2>2, <2>4 DEF Right
  <2> QED BY <2>1, <2>2, <2>3, <2>4, <2>5 DEF ReadRight
<1>7. bcache.gen <= bp'.gen
  BY <1>4 DEF Blueprint
<1> QED BY <1>1, <1>5, <1>6, <1>7 DEF Blueprint

(* The steps that have nothing to do with the delivery.                    *)
LEMMA NotOfDelivery ==
    ASSUME \/ \E l \in Labels, spec \in BOOLEAN : EditDeliverable(l, spec)
           \/ DeleteDeliverable
           \/ \E first \in BOOLEAN : ReportRevision(first)
           \/ \E i \in DOMAIN deps : BeginDeployment(i) \/ EndDeployment(i)
           \/ Reconcile
    PROVE  UNCHANGED <<blueprintVars, tmpls, events>>
<1>1. ASSUME NEW l, NEW spec, EditDeliverable(l, spec)
      PROVE  UNCHANGED <<blueprintVars, tmpls, events>>
  BY <1>1 DEF EditDeliverable
<1>2. ASSUME NEW first, ReportRevision(first)
      PROVE  UNCHANGED <<blueprintVars, tmpls, events>>
  BY <1>2 DEF ReportRevision
<1>3. ASSUME NEW i, BeginDeployment(i) \/ EndDeployment(i) \/ DeleteOrphan(i)
      PROVE  UNCHANGED <<blueprintVars, tmpls, events>>
  BY <1>3 DEF BeginDeployment, EndDeployment, DeleteOrphan
<1>4. CASE DeleteDeliverable
  BY <1>4 DEF DeleteDeliverable
<1>5. CASE \/ GetDeliverableFails \/ DeliverableGone \/ GetDeliverable \/ GetDelivery \/ GetServiceAccount
           \/ DoSource \/ DoWithoutObject
  BY <1>5 DEF GetDeliverableFails, DeliverableGone, GetDeliverable, GetDelivery, GetServiceAccount,
              DoSource, DoWithoutObject, manager
<1>6. CASE DoMutable \/ EnsureImmutable \/ ListImmutable \/ DeleteRuns
  BY <1>6 DEF DoMutable, EnsureImmutable, ListImmutable, DeleteRuns, manager
<1>7. CASE \/ TrackDependencies \/ FindOrphans \/ WatchStamped
           \/ StatusUpdated \/ StatusUpdateFails \/ StatusUnchanged
  BY <1>7 DEF TrackDependencies, FindOrphans, WatchStamped, StatusUpdated, StatusUpdateFails,
              StatusUnchanged, manager
<1> QED BY <1>1, <1>2, <1>3, <1>4, <1>5, <1>6, <1>7 DEF Reconcile

(* Every step keeps what the condition of the delivery rests on.           *)
LEMMA BlueprintNext ==
    ASSUME BlueprintTypes, Blueprint, DOMAIN tmpls = Templates, [Next]_vars
    PROVE  BlueprintTypes' /\ Blueprint'
<1>1. CASE EditDelivery
  <2>1. BlueprintTyped(bp) /\ UNCHANGED <<tmpls, events>>
    BY <1>1 DEF EditDelivery, manager, BlueprintTypes
  <2>2. CASE BlueprintChanged([bp EXCEPT !.exists = FALSE])
    <3> DEFINE b == [bp EXCEPT !.exists = FALSE]
    <3>1. BlueprintTyped(b) /\ ~b.exists /\ bp.gen <= b.gen
      BY <2>1 DEF BlueprintTyped
    <3> QED BY <2>1, <2>2, <3>1, BlueprintEdit
  <2>3. ASSUME NEW d \in DeploymentTemplates,
               BlueprintChanged([bp EXCEPT !.refs[2] = d, !.gen = bp.gen + 1])
        PROVE  BlueprintTypes' /\ Blueprint'
    <3> DEFINE b == [bp EXCEPT !.refs[2] = d, !.gen = bp.gen + 1]
    <3>1. d \in Templates /\ SourceTemplate \in Templates
      BY DeliverableAssumption
    <3>2. /\ DOMAIN b = DOMAIN bp /\ b.exists = bp.exists /\ b.gen = bp.gen + 1
          /\ b.refs = [bp.refs EXCEPT ![2] = d] /\ b.status = bp.status
      BY <2>1 DEF BlueprintTyped
    <3> HIDE DEF b
    <3>3. /\ b.refs \in Seq(Templates) /\ Len(b.refs) = 2
          /\ b.refs[1] = SourceTemplate /\ b.refs[2] = d
      BY <2>1, <3>1, <3>2 DEF BlueprintTyped
    <3>4. BlueprintTyped(b) /\ b.gen = bp.gen + 1 /\ bp.gen <= b.gen
      BY <2>1, <3>2, <3>3 DEF BlueprintTyped
    <3> QED BY <2>1, <2>3, <3>4, BlueprintEdit DEF b
  <2> QED BY <1>1, <2>2, <2>3 DEF EditDelivery
<1>2. ASSUME NEW t \in Templates, NEW c, EditTemplate(t, c)
      PROVE  BlueprintTypes' /\ Blueprint'
  BY <1>2, TemplateStep DEF EditTemplate
<1>3. CASE EditAccount
  <2>1. UNCHANGED <<blueprintVars, tmpls>> /\ events' = events \cup {SA}
    BY <1>3 DEF EditAccount
  <2> QED BY <2>1, BlueprintFrame, DeliverableAssumption DEF SA
<1>4. ASSUME NEW k \in events, DeliverEvent(k)
      PROVE  BlueprintTypes' /\ Blueprint'
  <2>1. UNCHANGED tmpls
    BY <1>4 DEF DeliverEvent
  <2>2. CASE k \in Templates /\ DeliverTemplate(k)
    BY <2>1, <2>2, BlueprintRuntime
  <2>3. CASE k = SA /\ k \in events /\ events' = events \ {k} /\ UNCHANGED blueprintVars
    BY <2>1, <2>3, BlueprintFrame, DeliverableAssumption DEF SA
  <2> QED BY <1>4, <2>2, <2>3 DEF DeliverEvent
<1>5. CASE DeliverDelivery
  BY <1>5, BlueprintRuntime DEF DeliverDelivery
<1>6. CASE Resync
  BY <1>6, BlueprintRuntime DEF Resync
<1>7. CASE Restart
  BY <1>7, BlueprintRuntime DEF Restart
<1>8. CASE BlueprintSteps
  <2>1. UNCHANGED <<tmpls, events>>
    BY <1>8 DEF BlueprintSteps, manager
  <2> QED BY <1>8, <2>1, BlueprintRuntime, GetBlueprintStep, TrackTemplateStep, ReadTemplateStep,
             UpdateBlueprintStep DEF BlueprintSteps
<1>9. CASE BlueprintFaults
  <2>1. UNCHANGED <<tmpls, events>>
    BY <1>9 DEF BlueprintFaults, manager
  <2> QED BY <1>9, <2>1, ReadTemplateStep, UpdateBlueprintStep DEF BlueprintFaults
<1>10. CASE UNCHANGED vars
  BY <1>10, BlueprintFrame DEF vars, manager
<1>11. CASE \/ \E l \in Labels, spec \in BOOLEAN : EditDeliverable(l, spec)
            \/ DeleteDeliverable
            \/ \E first \in BOOLEAN : ReportRevision(first)
            \/ \E i \in DOMAIN deps : BeginDeployment(i) \/ EndDeployment(i)
            \/ Reconcile
  BY <1>11, NotOfDelivery, BlueprintFrame
<1>12. SourceTemplate \in Templates /\ DeploymentTemplates \subseteq Templates
  BY DeliverableAssumption
<1> QED BY <1>1, <1>2, <1>3, <1>4, <1>5, <1>6, <1>7, <1>8, <1>9, <1>10, <1>11, <1>12
        DEF Next, Environment, Runtime
-----------------------------------------------------------------------------
(* The deliverable and its objects.                                        *)

(* Objects are only added, what they were stamped from stays, and what is  *)
(* deleted or deployed stays so.                                           *)
Evolves ==
    /\ DOMAIN deps \subseteq DOMAIN deps'
    /\ \A i \in DOMAIN deps : /\ deps'[i].life = deps[i].life /\ deps'[i].tmpl = deps[i].tmpl
                              /\ deps'[i].fate = "kept" => deps[i].fate = "kept"
    /\ deployed \subseteq deployed'

\* The fields of a reconciliation.
Fields(r, snap, fresh, tmpl, content, source, dep, input, cond, requeue, doomed, orphans) ==
    /\ DOMAIN r = {"snap", "fresh", "tmpl", "content", "src", "dep", "input", "cond",
                   "requeue", "doomed", "orphans"}
    /\ r.snap = snap /\ r.fresh = fresh /\ r.tmpl = tmpl /\ r.content = content
    /\ r.src = source /\ r.dep = dep /\ r.input = input /\ r.cond = cond
    /\ r.requeue = requeue /\ r.doomed = doomed /\ r.orphans = orphans

(* The objects, their indices and their fields.                            *)
LEMMA DepsFacts ==
    ASSUME DepsTypes
    PROVE  /\ Len(deps) \in Nat /\ DOMAIN deps = 1..Len(deps) /\ DOMAIN deps \subseteq DepIds
           /\ None \notin DOMAIN deps
           /\ \A i \in DOMAIN deps : deps[i] \in Deployments
<1>1. Len(deps) \in Nat /\ DOMAIN deps = 1..Len(deps) /\ \A i \in DOMAIN deps : deps[i] \in Deployments
  BY DEF DepsTypes
<1>2. DOMAIN deps \subseteq DepIds
  BY <1>1, DeliverableAssumption DEF DepsTypes, DepIds
<1>3. None \notin DOMAIN deps
  BY <1>1, DeliverableAssumption
<1> QED BY <1>1, <1>2, <1>3

(* The fields of an object.                                                *)
LEMMA DeploymentFields ==
    ASSUME NEW o \in Deployments
    PROVE  /\ DOMAIN o = {"spec", "edited", "created", "health", "fate", "tmpl", "life", "gen",
                          "obs", "doing", "rev"}
           /\ o.spec \in Revs /\ o.edited = FALSE /\ o.created \in Nat
           /\ o.health \in {"True", "False", "Unknown"} /\ o.fate \in {"kept", "deleted"}
           /\ o.tmpl \in DeploymentTemplates /\ o.life \in {"mutable", "immutable"}
           /\ o.gen \in Nat /\ o.obs \in Nat
           /\ o.doing \in Revs \cup {None} /\ o.rev \in Revs \cup {None}
BY DEF Deployments

(* Revisions and objects are numbers, and None is not.                     *)
LEMMA NoneIsNone ==
    /\ None \notin Nat /\ None \notin Revs /\ None \notin DepIds /\ None \notin Templates
    /\ None \notin DeploymentContents /\ DeploymentTemplates \subseteq Templates
    /\ SourceTemplate \notin DeploymentTemplates /\ SourceTemplate \in Templates
    /\ Revs \subseteq Nat /\ DepIds \subseteq Nat
BY DeliverableAssumption DEF Revs, DepIds

(* What a resource says of its object stays true.                          *)
LEMMA RefersKeeps ==
    ASSUME NEW r, Refers(r, deps, deployed), Evolves
    PROVE  Refers(r, deps', deployed')
BY DEF Refers, Evolves

(* A trouble happens.                                                      *)
LEMMA EditGrows ==
    ASSUME NEW kind, Edit(kind)
    PROVE  /\ troubles' = troubles \cup {kind} /\ kind \notin troubles
           /\ troubles \subseteq troubles'
BY DEF Edit

(* What a reconciliation has established stays true when others change the *)
(* cluster, except for the templates.                                      *)
LEMMA StagedKeeps ==
    ASSUME Core, pc # "idle", Evolves, troubles \subseteq troubles', NEW r,
           r.snap.status = rec.snap.status, r.dep = rec.dep, r.tmpl = rec.tmpl,
           r.content = rec.content, r.orphans = rec.orphans, r.input = rec.input
    PROVE  Staged(pc, r, deps', tmpls, troubles')
<1>1. Staged(pc, rec, deps, tmpls, troubles) /\ rec.orphans \subseteq DOMAIN deps
  BY DEF Core, Progress, RecTypes, RecTyped
<1>2. Orphaned(r, deps', tmpls, troubles')
  BY <1>1 DEF Staged, Orphaned, Evolves
<1> QED BY <1>1, <1>2 DEF Staged, Evolves

(* Others change the cluster, and perhaps the deliverable, but not its     *)
(* status.                                                                 *)
LEMMA PassiveStep ==
    ASSUME Core, Evolves, DlTypes', DepsTypes', Sound', dl'.status = dl.status, pc' = pc,
           troubles \subseteq troubles', tmpls' = tmpls, lost' = lost, DOMAIN deps' = DOMAIN deps,
           pc = "idle" => rec' = None,
           pc # "idle" => Fields(rec', rec.snap, rec'.fresh, rec.tmpl, rec.content, rec.src,
                                 rec.dep, rec.input, rec.cond, rec.requeue, rec.doomed, rec.orphans),
           pc # "idle" => rec'.fresh \in BOOLEAN
    PROVE  Core'
<1>1. RecTypes'
  BY DEF Core, RecTypes, RecTyped, Fields
<1>2. Referred'
  <2>1. Refers(dl.status.dep, deps', deployed')
    BY RefersKeeps DEF Core, Referred
  <2>2. pc # "idle" /\ pc # "list" => Refers(rec.dep, deps', deployed')
    BY RefersKeeps DEF Core, Referred
  <2>3. pc # "idle" => rec'.dep = rec.dep /\ rec'.snap.status = dl.status
    BY DEF Core, Referred, Fields
  <2> QED BY <2>1, <2>2, <2>3 DEF Referred
<1>3. pc # "idle" => Staged(pc, rec', deps', tmpls, troubles')
  BY StagedKeeps DEF Fields
<1>4. Covered'
  <2>1. Known(pc, rec', dl.status) = Known(pc, rec, dl.status)
    BY DEF Known, Fields
  <2> QED BY <2>1 DEF Core, Covered, Evolves
<1> QED BY <1>1, <1>2, <1>3, <1>4 DEF Core, Progress

(* A step that has nothing to do with the deliverable and its objects.     *)
LEMMA QuietStep ==
    ASSUME Core, UNCHANGED <<dl, deps, pc, rec, deployed, lost, tmpls>>, troubles \subseteq troubles'
    PROVE  Core'
<1>1. Evolves /\ DlTypes' /\ DepsTypes' /\ Sound'
  BY DEF Core, Evolves, DlTypes, DepsTypes, Sound
<1>2. pc # "idle" => RecTyped(rec, deps)
  BY DEF Core, RecTypes
<1>3. pc = "idle" => rec' = None
  BY DEF Core, RecTypes
<1>4. pc # "idle" => /\ rec'.fresh \in BOOLEAN
                     /\ Fields(rec', rec.snap, rec'.fresh, rec.tmpl, rec.content, rec.src,
                               rec.dep, rec.input, rec.cond, rec.requeue, rec.doomed, rec.orphans)
  BY <1>2 DEF RecTyped, Fields
<1> QED BY <1>1, <1>3, <1>4, PassiveStep

(* A template changes: a deployment template only once, so that the         *)
(* lifecycle of objects and the contents in use were compared before.      *)
LEMMA EditTemplateStep ==
    ASSUME Core, ApiTypes, NEW t \in Templates, NEW c, EditTemplate(t, c)
    PROVE  Core'
<1>1. /\ UNCHANGED <<dl, deps, pc, rec, deployed, lost>>
      /\ tmpls' = [tmpls EXCEPT ![t] = c]
      /\ Edit(IF t = SourceTemplate THEN "source" ELSE "template")
  BY DEF EditTemplate, owner
<1>2. /\ troubles \subseteq troubles'
      /\ t # SourceTemplate => "template" \notin troubles /\ "template" \in troubles'
  BY <1>1, EditGrows
<1>3. \A u \in DeploymentTemplates : t = SourceTemplate => tmpls'[u] = tmpls[u]
  BY <1>1, NoneIsNone DEF ApiTypes
<1>4. \A i \in DOMAIN deps : deps[i].tmpl \in DeploymentTemplates
  BY DepsFacts, DeploymentFields DEF Core
<1>5. DlTypes' /\ DepsTypes' /\ RecTypes' /\ Referred' /\ Covered'
  BY <1>1, <1>2 DEF Core, DlTypes, DepsTypes, RecTypes, Referred, Covered
<1>6. Sound'
  BY <1>1, <1>2, <1>3, <1>4 DEF Core, Sound
<1>7. pc # "idle" => Staged(pc, rec, deps, tmpls', troubles')
  <2> SUFFICES ASSUME pc # "idle" PROVE Staged(pc, rec, deps, tmpls', troubles')
    OBVIOUS
  <2>1. Staged(pc, rec, deps, tmpls, troubles) /\ rec.orphans \subseteq DOMAIN deps
    BY DEF Core, Progress, RecTypes, RecTyped
  <2>2. ASSUME NEW i \in rec.orphans, deps[i].life = "immutable", deps[i].tmpl = rec.dep.tmpl,
               deps[i].fate = "kept"
        PROVE  "template" \in troubles' /\ tmpls'[rec.dep.tmpl] # rec.content
    <3>1. "template" \in troubles /\ tmpls[rec.dep.tmpl] # rec.content
      BY <2>1, <2>2 DEF Staged, Orphaned
    <3>2. t = SourceTemplate /\ rec.dep.tmpl \in DeploymentTemplates
      BY <1>2, <1>4, <2>1, <2>2, <3>1
    <3> QED BY <1>2, <1>3, <3>1, <3>2
  <2>3. Orphaned(rec, deps, tmpls', troubles')
    BY <2>1, <2>2 DEF Staged, Orphaned
  <2> QED BY <2>1, <2>3 DEF Staged
<1> QED BY <1>1, <1>5, <1>6, <1>7 DEF Core, Progress

(* A user edits or deletes the deliverable.                                *)
LEMMA EditDeliverableStep ==
    ASSUME Core, \/ \E l \in Labels, spec \in BOOLEAN : EditDeliverable(l, spec)
                 \/ DeleteDeliverable
    PROVE  Core'
<1>1. PICK d : /\ OwnerTyped(d) /\ d.status = dl.status /\ NewVersion(d)
               /\ "labels" \notin troubles' => d.gen = 1
               /\ troubles \subseteq troubles'
               /\ UNCHANGED <<deps, pc, deployed, lost, tmpls>>
  <2>1. OwnerTyped(dl) /\ ("labels" \notin troubles => dl.gen = 1)
    BY DEF Core, DlTypes
  <2>2. ASSUME NEW l \in Labels, NEW spec \in BOOLEAN, EditDeliverable(l, spec)
        PROVE  \E d : /\ OwnerTyped(d) /\ d.status = dl.status /\ NewVersion(d)
                      /\ "labels" \notin troubles' => d.gen = 1
                      /\ troubles \subseteq troubles'
                      /\ UNCHANGED <<deps, pc, deployed, lost, tmpls>>
    <3> DEFINE d == [dl EXCEPT !.labels = l, !.gen = IF spec THEN dl.gen + 1 ELSE dl.gen]
    <3>1. /\ Edit("labels") /\ NewVersion(d) /\ UNCHANGED <<deps, pc, deployed, lost, tmpls>>
      BY <2>2 DEF EditDeliverable
    <3>2. "labels" \notin troubles /\ "labels" \in troubles' /\ troubles \subseteq troubles'
      BY <3>1, EditGrows
    <3>3. dl.gen = 1 /\ (IF spec THEN dl.gen + 1 ELSE dl.gen) \in 1..2
      BY <2>1, <3>2
    <3>4. /\ DOMAIN d = DOMAIN dl /\ d.exists = dl.exists /\ d.labels = l /\ d.status = dl.status
          /\ d.gen = IF spec THEN dl.gen + 1 ELSE dl.gen
      BY <2>1 DEF OwnerTyped
    <3> HIDE DEF d
    <3>5. OwnerTyped(d)
      BY <2>1, <3>3, <3>4 DEF OwnerTyped
    <3> QED BY <3>1, <3>2, <3>4, <3>5
  <2>3. ASSUME DeleteDeliverable
        PROVE  \E d : /\ OwnerTyped(d) /\ d.status = dl.status /\ NewVersion(d)
                      /\ "labels" \notin troubles' => d.gen = 1
                      /\ troubles \subseteq troubles'
                      /\ UNCHANGED <<deps, pc, deployed, lost, tmpls>>
    <3> DEFINE d == [dl EXCEPT !.exists = FALSE]
    <3>1. /\ Edit("deletion") /\ NewVersion(d) /\ UNCHANGED <<deps, pc, deployed, lost, tmpls>>
      BY <2>3 DEF DeleteDeliverable
    <3>2. troubles \subseteq troubles'
      BY <3>1, EditGrows
    <3>3. /\ DOMAIN d = DOMAIN dl /\ d.exists = FALSE /\ d.labels = dl.labels /\ d.status = dl.status
          /\ d.gen = dl.gen
      BY <2>1 DEF OwnerTyped
    <3> HIDE DEF d
    <3>4. OwnerTyped(d)
      BY <2>1, <3>3 DEF OwnerTyped
    <3> QED BY <2>1, <3>1, <3>2, <3>3, <3>4
  <2> QED BY <2>2, <2>3
<1>2. dl' = d /\ rec' = IF pc = "idle" THEN None ELSE [rec EXCEPT !.fresh = FALSE]
  BY <1>1 DEF NewVersion
<1>3. Evolves /\ DlTypes' /\ DepsTypes' /\ Sound'
  BY <1>1, <1>2 DEF Core, Evolves, DlTypes, DepsTypes, Sound
<1>4. pc # "idle" => RecTyped(rec, deps)
  BY DEF Core, RecTypes
<1>5. pc # "idle" => /\ rec'.fresh \in BOOLEAN
                     /\ Fields(rec', rec.snap, rec'.fresh, rec.tmpl, rec.content, rec.src,
                               rec.dep, rec.input, rec.cond, rec.requeue, rec.doomed, rec.orphans)
  BY <1>2, <1>4 DEF RecTyped, Fields
<1>6. dl'.status = dl.status /\ pc' = pc /\ lost' = lost /\ tmpls' = tmpls /\ DOMAIN deps' = DOMAIN deps
      /\ troubles \subseteq troubles' /\ (pc = "idle" => rec' = None)
  BY <1>1, <1>2
<1> QED BY <1>3, <1>5, <1>6, PassiveStep

(* One object changes.                                                     *)
LEMMA OneObject ==
    ASSUME DepsTypes, Sound, NEW i \in DOMAIN deps, NEW y \in Deployments,
           y.life = deps[i].life, y.tmpl = deps[i].tmpl,
           y.fate = "kept" => deps[i].fate = "kept",
           deps' = [deps EXCEPT ![i] = y], deployed \subseteq deployed',
           SoundObject(i, y, deployed'), tmpls' = tmpls, troubles \subseteq troubles'
    PROVE  /\ Evolves /\ Sound'
           /\ deps' \in Seq(Deployments) /\ Len(deps') = Len(deps) /\ DOMAIN deps' = DOMAIN deps
           /\ \A j \in DOMAIN deps : deps'[j] = IF j = i THEN y ELSE deps[j]
<1>1. deps' \in Seq(Deployments) /\ Len(deps') = Len(deps) /\ DOMAIN deps' = DOMAIN deps
  BY DEF DepsTypes
<1>2. \A j \in DOMAIN deps : deps'[j] = IF j = i THEN y ELSE deps[j]
  BY DEF DepsTypes
<1>3. Evolves
  BY <1>1, <1>2 DEF Evolves
<1>4. Sound'
  <2> SUFFICES ASSUME NEW j \in DOMAIN deps
               PROVE  /\ SoundObject(j, deps'[j], deployed')
                      /\ "template" \notin troubles' => /\ tmpls[deps'[j].tmpl] # None
                                                        /\ tmpls[deps'[j].tmpl].life = deps'[j].life
    BY <1>1 DEF Sound
  <2>1. SoundObject(j, deps[j], deployed) => SoundObject(j, deps[j], deployed')
    BY DEF SoundObject
  <2>2. /\ SoundObject(j, deps[j], deployed)
        /\ "template" \notin troubles => /\ tmpls[deps[j].tmpl] # None
                                         /\ tmpls[deps[j].tmpl].life = deps[j].life
    BY DEF Sound
  <2>3. CASE j = i
    BY <1>2, <2>2, <2>3
  <2>4. CASE j # i
    BY <1>2, <2>1, <2>2, <2>4
  <2> QED BY <2>3, <2>4
<1> QED BY <1>1, <1>2, <1>3, <1>4

(* One object is created.                                                  *)
LEMMA OneMoreObject ==
    ASSUME DepsTypes, Sound, NEW y \in Deployments, Len(deps) < MaxDeps,
           deps' = Append(deps, y), deployed' = deployed,
           SoundObject(Len(deps) + 1, y, deployed), tmpls' = tmpls, troubles \subseteq troubles',
           tmpls[y.tmpl] # None, tmpls[y.tmpl].life = y.life
    PROVE  /\ Evolves /\ Sound'
           /\ deps' \in Seq(Deployments) /\ Len(deps') <= MaxDeps
           /\ DOMAIN deps' = DOMAIN deps \cup {Len(deps) + 1} /\ Len(deps) + 1 \notin DOMAIN deps
           /\ deps'[Len(deps) + 1] = y /\ \A j \in DOMAIN deps : deps'[j] = deps[j]
<1>1. Len(deps) \in Nat /\ DOMAIN deps = 1..Len(deps)
  BY DepsFacts
<1>2. deps' \in Seq(Deployments) /\ Len(deps') = Len(deps) + 1 /\ Len(deps') <= MaxDeps
  BY <1>1, DeliverableAssumption DEF DepsTypes
<1>3. /\ DOMAIN deps' = DOMAIN deps \cup {Len(deps) + 1} /\ Len(deps) + 1 \notin DOMAIN deps
      /\ deps'[Len(deps) + 1] = y /\ \A j \in DOMAIN deps : deps'[j] = deps[j]
  BY <1>1, <1>2 DEF DepsTypes
<1>4. Evolves
  BY <1>3 DEF Evolves
<1>5. Sound'
  <2> SUFFICES ASSUME NEW j \in DOMAIN deps'
               PROVE  /\ SoundObject(j, deps'[j], deployed)
                      /\ "template" \notin troubles' => /\ tmpls[deps'[j].tmpl] # None
                                                        /\ tmpls[deps'[j].tmpl].life = deps'[j].life
    BY DEF Sound
  <2>1. CASE j = Len(deps) + 1
    BY <1>3, <2>1
  <2>2. CASE j \in DOMAIN deps
    BY <1>3, <2>2 DEF Sound
  <2> QED BY <1>3, <2>1, <2>2
<1> QED BY <1>2, <1>3, <1>4, <1>5

(* The controller of the objects begins or ends.                           *)
LEMMA DeploymentStep ==
    ASSUME Core, NEW i \in DOMAIN deps, BeginDeployment(i) \/ EndDeployment(i)
    PROVE  Core'
<1>1. /\ deps[i] \in Deployments /\ SoundObject(i, deps[i], deployed) /\ deps[i].fate = "kept"
      /\ DepsTypes /\ Sound /\ i \in DepIds
  BY DepsFacts DEF Core, Sound, BeginDeployment, EndDeployment, Kept
<1>2. UNCHANGED <<dl, pc, rec, lost, tmpls>>
  BY DEF BeginDeployment, EndDeployment, history
<1>3. PICK y \in Deployments :
          /\ y.life = deps[i].life /\ y.tmpl = deps[i].tmpl
          /\ deps' = [deps EXCEPT ![i] = y] /\ SoundObject(i, y, deployed')
          /\ deployed \subseteq deployed' /\ deployed' \subseteq DepIds \X Revs
          /\ troubles \subseteq troubles'
  <2> USE <1>1
  <2>1. CASE BeginDeployment(i)
    <3> DEFINE y == [deps[i] EXCEPT !.obs = deps[i].gen, !.doing = deps[i].spec, !.health = "Unknown"]
    <3>1. deps' = [deps EXCEPT ![i] = y] /\ deployed' = deployed /\ troubles' = troubles
      BY <2>1 DEF BeginDeployment, history
    <3>2. /\ y \in Deployments /\ y.life = deps[i].life /\ y.tmpl = deps[i].tmpl
          /\ y.obs = deps[i].gen /\ y.gen = deps[i].gen /\ y.doing = deps[i].spec
          /\ y.spec = deps[i].spec /\ y.health = "Unknown" /\ y.rev = deps[i].rev
      BY DEF Deployments
    <3> HIDE DEF y
    <3>3. SoundObject(i, y, deployed)
      <4>1. deps[i].gen \in Nat /\ deps[i].spec # None /\ deps[i].gen <= deps[i].gen
        <5>1. deps[i].gen \in Nat /\ deps[i].spec \in Revs
          BY DeploymentFields
        <5> QED BY <5>1, NoneIsNone
      <4> QED BY <3>2, <4>1 DEF SoundObject
    <3> QED BY <3>1, <3>2, <3>3 DEF Core, DepsTypes
  <2>2. CASE /\ EndDeployment(i)
             /\ deps' = [deps EXCEPT ![i].health = "True", ![i].rev = deps[i].doing]
             /\ deployed' = deployed \cup {<<i, deps[i].doing>>} /\ UNCHANGED troubles
    <3> DEFINE y == [deps[i] EXCEPT !.health = "True", !.rev = deps[i].doing]
    <3>1. deps' = [deps EXCEPT ![i] = y]
      BY <2>2
    <3>2. /\ y \in Deployments /\ y.life = deps[i].life /\ y.tmpl = deps[i].tmpl
          /\ y.obs = deps[i].obs /\ y.gen = deps[i].gen /\ y.doing = deps[i].doing
          /\ y.spec = deps[i].spec /\ y.health = "True" /\ y.rev = deps[i].doing
      BY DEF Deployments
    <3> HIDE DEF y
    <3>3. deps[i].obs # 0 /\ deps[i].doing \in Revs
      BY <2>2, DeploymentFields DEF EndDeployment, SoundObject
    <3>4. SoundObject(i, y, deployed')
      BY <2>2, <3>2 DEF SoundObject
    <3>5. deployed' \subseteq DepIds \X Revs
      BY <2>2, <3>3 DEF DepsTypes
    <3> QED BY <2>2, <3>1, <3>2, <3>4, <3>5
  <2>3. CASE /\ EndDeployment(i) /\ Edit("failure")
             /\ deps' = [deps EXCEPT ![i].health = "False"] /\ UNCHANGED deployed
    <3> DEFINE y == [deps[i] EXCEPT !.health = "False"]
    <3>1. deps' = [deps EXCEPT ![i] = y] /\ troubles \subseteq troubles'
      BY <2>3, EditGrows
    <3>2. /\ y \in Deployments /\ y.life = deps[i].life /\ y.tmpl = deps[i].tmpl
          /\ y.obs = deps[i].obs /\ y.gen = deps[i].gen /\ y.doing = deps[i].doing
          /\ y.spec = deps[i].spec /\ y.health = "False" /\ y.rev = deps[i].rev
      BY DEF Deployments
    <3> HIDE DEF y
    <3>3. SoundObject(i, y, deployed')
      BY <2>3, <3>2 DEF SoundObject
    <3> QED BY <2>3, <3>1, <3>2, <3>3 DEF DepsTypes
  <2> QED BY <2>1, <2>2, <2>3 DEF EndDeployment
<1>4. /\ Evolves /\ Sound' /\ deps' \in Seq(Deployments) /\ Len(deps') = Len(deps)
      /\ DOMAIN deps' = DOMAIN deps
  BY <1>1, <1>2, <1>3, OneObject
<1>5. DepsTypes' /\ DlTypes'
  BY <1>1, <1>2, <1>3, <1>4 DEF DepsTypes, DlTypes, Core
<1>6. /\ pc = "idle" => rec' = None
      /\ pc # "idle" => /\ rec'.fresh \in BOOLEAN
                        /\ Fields(rec', rec.snap, rec'.fresh, rec.tmpl, rec.content, rec.src,
                                  rec.dep, rec.input, rec.cond, rec.requeue, rec.doomed, rec.orphans)
  BY <1>2 DEF Core, RecTypes, RecTyped, Fields
<1>7. dl'.status = dl.status /\ pc' = pc /\ lost' = lost /\ tmpls' = tmpls
      /\ troubles \subseteq troubles'
  BY <1>2, <1>3
<1> QED BY <1>4, <1>5, <1>6, <1>7, PassiveStep
-----------------------------------------------------------------------------
(* The steps of the reconciliation.                                        *)

(* What is known of a reconciliation in progress.                          *)
LEMMA RecFacts ==
    ASSUME Core, pc # "idle"
    PROVE  /\ RecTyped(rec, deps) /\ Staged(pc, rec, deps, tmpls, troubles) /\ pc \in Steps
           /\ rec.snap.status = dl.status /\ StatusTyped(dl.status)
           /\ Refers(dl.status.dep, deps, deployed)
           /\ pc # "list" => Refers(rec.dep, deps, deployed)
BY DEF Core, RecTypes, Referred, Progress, DlTypes, OwnerTyped

(* A step of the reconciliation that takes it from rec to r and changes    *)
(* neither the deliverable nor the objects.                                *)
LEMMA RecStep ==
    ASSUME Core, pc # "idle", UNCHANGED <<dl, deps, deployed, tmpls>>, troubles \subseteq troubles',
           lost \subseteq lost', lost' \subseteq DOMAIN deps,
           NEW p \in Steps, NEW r, pc' = p, rec' = r, RecTyped(r, deps), r.snap = rec.snap,
           p # "list" => Refers(r.dep, deps, deployed),
           Staged(p, r, deps, tmpls, troubles'),
           \A i \in DOMAIN deps :
               i \in Known(pc, rec, dl.status) /\ deps[i].life = "mutable" =>
                   i \in lost' \cup Known(p, r, dl.status)
    PROVE  Core'
<1>1. p # "idle"
  BY DEF Steps
<1>2. DlTypes' /\ DepsTypes' /\ RecTypes' /\ Sound'
  BY <1>1 DEF Core, DlTypes, DepsTypes, RecTypes, Sound
<1>3. Referred' /\ Progress'
  BY <1>1 DEF Core, Referred, Progress
<1>4. Covered'
  BY DEF Core, Covered
<1> QED BY <1>2, <1>3, <1>4 DEF Core

(* Reconcile reads the deliverable.                                        *)
LEMMA GetDeliverableStep ==
    ASSUME Core, GetDeliverable
    PROVE  Core'
<1> DEFINE r == [snap |-> dl, fresh |-> TRUE, tmpl |-> None, content |-> None,
               src |-> dl.status.src, dep |-> dl.status.dep, input |-> None,
               cond |-> None, requeue |-> FALSE, doomed |-> {}, orphans |-> {}]
<1>1. /\ pc = "idle" /\ pc' = "select" /\ rec' = r
      /\ UNCHANGED <<dl, deps, deployed, tmpls, lost, troubles>>
  BY DEF GetDeliverable, owner, history
<1>2. Fields(r, dl, TRUE, None, None, dl.status.src, dl.status.dep, None, None, FALSE, {}, {})
  BY DEF Fields
<1> HIDE DEF r
<1>3. OwnerTyped(dl) /\ StatusTyped(dl.status) /\ Refers(dl.status.dep, deps, deployed)
  BY DEF Core, DlTypes, OwnerTyped, Referred
<1>4. RecTyped(r, deps)
  BY <1>2, <1>3 DEF Fields, RecTyped, StatusTyped, Conds
<1>5. Staged("select", r, deps, tmpls, troubles)
  BY <1>2 DEF Fields, Staged, Orphaned
<1>6. DlTypes' /\ DepsTypes' /\ Sound'
  BY <1>1 DEF Core, DlTypes, DepsTypes, Sound
<1>7. RecTypes'
  BY <1>1, <1>4 DEF RecTypes, Steps
<1>8. Referred' /\ Progress'
  BY <1>1, <1>2, <1>3, <1>5 DEF Fields, Referred, Progress
<1>9. Covered'
  BY <1>1, <1>2 DEF Core, Covered, Known, Fields
<1> QED BY <1>6, <1>7, <1>8, <1>9 DEF Core

(* It gives up before it has realized anything.                            *)
LEMMA GiveUpStep ==
    ASSUME Core, pc \in {"select", "account"}, NEW reason \in Conds, GiveUp(reason),
           UNCHANGED <<dl, deps, deployed, tmpls, lost>>, troubles \subseteq troubles'
    PROVE  Core'
<1> DEFINE r == [rec EXCEPT !.cond = reason, !.requeue = (reason \in UnhandledReasons)]
<1>1. pc' = "update" /\ rec' = r /\ pc # "idle" /\ pc # "list"
  BY DEF GiveUp
<1>2. /\ RecTyped(rec, deps) /\ Staged(pc, rec, deps, tmpls, troubles)
      /\ rec.snap.status = dl.status /\ Refers(rec.dep, deps, deployed)
  BY <1>1, RecFacts
<1>3. Fields(r, rec.snap, rec.fresh, rec.tmpl, rec.content, rec.src, rec.dep, rec.input, reason,
             (reason \in UnhandledReasons), rec.doomed, rec.orphans)
  BY <1>2 DEF Fields, RecTyped
<1> HIDE DEF r
<1>4. RecTyped(r, deps)
  BY <1>2, <1>3 DEF Fields, RecTyped
<1>5. rec.dep = rec.snap.status.dep /\ rec.orphans = {}
  BY <1>2 DEF Staged, Before
<1>6. Staged("update", r, deps, tmpls, troubles')
  BY <1>2, <1>3, <1>5 DEF Fields, Staged, Orphaned, Before
<1>7. Known(pc, rec, dl.status) \subseteq Known("update", r, dl.status)
  BY <1>2, <1>3, <1>5 DEF Known, Fields
<1>8. lost \subseteq DOMAIN deps /\ "update" \in Steps
  BY DEF Core, DepsTypes, Steps
<1> QED BY <1>1, <1>2, <1>3, <1>4, <1>6, <1>7, <1>8, RecStep DEF Fields

(* It selects the delivery.                                                *)
LEMMA GetDeliveryStep ==
    ASSUME Core, BlueprintTypes, GetDelivery
    PROVE  Core'
<1> DEFINE why == IF rec.snap.labels = "match" /\ ~bcache.exists THEN "DeliveryNotFound"
                  ELSE rec.snap.labels
           ready == bcache.status.ready
<1>1. pc = "select" /\ UNCHANGED <<dl, deps, deployed, tmpls, lost>>
  BY DEF GetDelivery, owner
<1>2. /\ RecTyped(rec, deps) /\ Staged(pc, rec, deps, tmpls, troubles)
      /\ rec.snap.status = dl.status /\ Refers(rec.dep, deps, deployed)
  BY <1>1, RecFacts
<1>3. why \in Labels /\ ready \in BlueprintReasons \cup {None} /\ bcache.refs[2] \in DeploymentTemplates
  BY <1>2 DEF RecTyped, OwnerTyped, Labels, BlueprintTypes, BlueprintTyped
<1>4. CASE Fault /\ GiveUp("ListFailed")
  <2>1. "ListFailed" \in Conds /\ troubles \subseteq troubles'
    BY <1>4, EditGrows DEF Fault, Conds, UnhandledReasons
  <2> QED BY <1>1, <1>4, <2>1, GiveUpStep
<1>5. CASE why # "match" /\ GiveUp(why) /\ UNCHANGED troubles
  <2>1. why \in Conds
    BY <1>3, <1>5 DEF Conds, HandledReasons
  <2> QED BY <1>1, <1>5, <2>1, GiveUpStep
<1>6. CASE /\ ready # "Ready" /\ GiveUp(IF ready = None THEN "Unknown" ELSE ready)
           /\ UNCHANGED troubles
  <2>1. (IF ready = None THEN "Unknown" ELSE ready) \in Conds
    BY <1>3 DEF Conds, HandledReasons, BlueprintReasons
  <2> QED BY <1>1, <1>6, <2>1, GiveUpStep
<1>7. CASE pc' = "account" /\ rec' = [rec EXCEPT !.tmpl = bcache.refs[2]] /\ UNCHANGED troubles
  <2> DEFINE r == [rec EXCEPT !.tmpl = bcache.refs[2]]
  <2>1. Fields(r, rec.snap, rec.fresh, bcache.refs[2], rec.content, rec.src, rec.dep, rec.input,
               rec.cond, rec.requeue, rec.doomed, rec.orphans)
    BY <1>2 DEF Fields, RecTyped
  <2> HIDE DEF r
  <2>2. RecTyped(r, deps)
    BY <1>2, <1>3, <2>1 DEF Fields, RecTyped
  <2>3. Staged("account", r, deps, tmpls, troubles)
    BY <1>1, <1>2, <1>3, <2>1 DEF Fields, Staged, Orphaned, Before
  <2>4. Known(pc, rec, dl.status) = Known("account", r, dl.status)
    BY <1>1, <2>1 DEF Known, Fields
  <2>5. lost \subseteq DOMAIN deps /\ "account" \in Steps
    BY DEF Core, DepsTypes, Steps
  <2>6. pc' = "account" /\ rec' = r
    BY <1>7 DEF r
  <2> QED BY <1>1, <1>2, <1>7, <2>1, <2>2, <2>3, <2>4, <2>5, <2>6, RecStep DEF Fields
<1> HIDE DEF why, ready
<1>8. \/ Fault /\ GiveUp("ListFailed")
      \/ why # "match" /\ GiveUp(why) /\ UNCHANGED troubles
      \/ /\ ready # "Ready" /\ GiveUp(IF ready = None THEN "Unknown" ELSE ready)
         /\ UNCHANGED troubles
      \/ pc' = "account" /\ rec' = [rec EXCEPT !.tmpl = bcache.refs[2]] /\ UNCHANGED troubles
  BY DEF GetDelivery, why, ready
<1> QED BY <1>4, <1>5, <1>6, <1>7, <1>8

(* It gets the service account, its token and a client.                    *)
LEMMA GetServiceAccountStep ==
    ASSUME Core, GetServiceAccount
    PROVE  Core'
<1>1. pc = "account" /\ UNCHANGED <<dl, deps, deployed, tmpls, lost>>
  BY DEF GetServiceAccount, owner
<1>2. CASE ~account /\ GiveUp("ServiceAccountError") /\ UNCHANGED troubles
  <2>1. "ServiceAccountError" \in Conds
    BY DEF Conds, HandledReasons
  <2> QED BY <1>1, <1>2, <2>1, GiveUpStep
<1>3. ASSUME NEW reason \in {"ServiceAccountError", "ServiceAccountTokenError",
                             "ResourceRealizerBuilderError"}, Fault, GiveUp(reason)
      PROVE  Core'
  <2>1. reason \in Conds /\ troubles \subseteq troubles'
    BY <1>3, EditGrows DEF Fault, Conds, HandledReasons, UnhandledReasons
  <2> QED BY <1>1, <1>3, <2>1, GiveUpStep
<1>4. CASE pc' = "source" /\ UNCHANGED <<rec, troubles>>
  <2>1. /\ RecTyped(rec, deps) /\ Staged(pc, rec, deps, tmpls, troubles)
        /\ Refers(rec.dep, deps, deployed)
    BY <1>1, RecFacts
  <2>2. Staged("source", rec, deps, tmpls, troubles)
    BY <1>1, <2>1 DEF Staged, Before
  <2>3. Known(pc, rec, dl.status) = Known("source", rec, dl.status)
    BY <1>1 DEF Known
  <2>4. lost \subseteq DOMAIN deps /\ "source" \in Steps
    BY DEF Core, DepsTypes, Steps
  <2> QED BY <1>1, <1>4, <2>1, <2>2, <2>3, <2>4, RecStep
<1> QED BY <1>2, <1>3, <1>4 DEF GetServiceAccount

(* A resource that was realized is well typed.                             *)
LEMMA RealizedTyped ==
    ASSUME NEW prev, ResourceTyped(prev), NEW t \in Templates \cup {None},
           NEW object \in DepIds \cup {SourceObject, None}, NEW out \in Revs \cup {None}
    PROVE  ResourceTyped(Realized(prev, t, object, out))
BY DEF Realized, ResourceTyped, IsResource

(* It realizes the source.                                                 *)
LEMMA DoSourceStep ==
    ASSUME Core, ApiTypes, DoSource
    PROVE  Core'
<1>1. pc = "source" /\ pc' = "deployment" /\ UNCHANGED <<dl, deps, deployed, tmpls, lost>>
  BY DEF DoSource
<1>2. /\ RecTyped(rec, deps) /\ Staged(pc, rec, deps, tmpls, troubles)
      /\ rec.snap.status = dl.status /\ Refers(rec.dep, deps, deployed)
  BY <1>1, RecFacts
<1>3. PICK t \in Templates \cup {None}, object \in {SourceObject, None}, out \in Revs \cup {None},
           err \in Conds :
          /\ rec' = [rec EXCEPT !.src = Realized(rec.snap.status.src, t, object, out),
                                !.input = out, !.cond = err]
          /\ troubles \subseteq troubles'
  <2>1. CASE rec' = [rec EXCEPT !.src = Realized(rec.snap.status.src, None, None, None),
                                !.input = None, !.cond = "UnknownError"] /\ UNCHANGED troubles
    <3>1. "UnknownError" \in Conds
      BY DEF Conds, UnhandledReasons
    <3> QED BY <2>1, <3>1
  <2>2. CASE /\ Fault
             /\ \/ rec' = [rec EXCEPT !.src = Realized(rec.snap.status.src, None, None, None),
                                      !.input = None, !.cond = "TemplateObjectRetrievalFailure"]
                \/ rec' = [rec EXCEPT !.src = Realized(rec.snap.status.src, SourceTemplate, None, None),
                                      !.input = None, !.cond = "TemplateRejectedByAPIServer"]
    <3>1. {"TemplateObjectRetrievalFailure", "TemplateRejectedByAPIServer"} \subseteq Conds
      BY DEF Conds, UnhandledReasons
    <3>2. troubles \subseteq troubles' /\ SourceTemplate \in Templates
      BY <2>2, EditGrows, NoneIsNone DEF Fault
    <3> QED BY <2>2, <3>1, <3>2
  <2>3. CASE /\ src' = IF src = None THEN [out |-> None] ELSE src
             /\ rec' = [rec EXCEPT !.src = Realized(rec.snap.status.src, SourceTemplate, SourceObject, src'.out),
                                   !.input = src'.out,
                                   !.cond = IF src'.out = None THEN "MissingValueAtPath" ELSE None]
             /\ UNCHANGED troubles
    <3>1. src'.out \in Revs \cup {None}
      BY <2>3 DEF ApiTypes
    <3>2. (IF src'.out = None THEN "MissingValueAtPath" ELSE None) \in Conds /\ SourceTemplate \in Templates
      BY NoneIsNone DEF Conds, HandledReasons
    <3> QED BY <2>3, <3>1, <3>2
  <2> QED BY <2>1, <2>2, <2>3 DEF DoSource
<1> DEFINE r == [rec EXCEPT !.src = Realized(rec.snap.status.src, t, object, out),
                            !.input = out, !.cond = err]
<1>4. Fields(r, rec.snap, rec.fresh, rec.tmpl, rec.content, Realized(rec.snap.status.src, t, object, out),
             rec.dep, out, err, rec.requeue, rec.doomed, rec.orphans)
  BY <1>2 DEF Fields, RecTyped
<1>5. rec' = r
  BY <1>3
<1> HIDE DEF r
<1>6. ResourceTyped(Realized(rec.snap.status.src, t, object, out))
  BY <1>2, RealizedTyped DEF RecTyped, OwnerTyped, StatusTyped
<1>7. RecTyped(r, deps)
  BY <1>2, <1>4, <1>6 DEF Fields, RecTyped
<1>8. Staged("deployment", r, deps, tmpls, troubles')
  BY <1>1, <1>2, <1>3, <1>4 DEF Fields, Staged, Orphaned, Before
<1>9. Known(pc, rec, dl.status) = Known("deployment", r, dl.status)
  BY <1>1, <1>4 DEF Known, Fields
<1>10. lost \subseteq DOMAIN deps /\ "deployment" \in Steps /\ r.snap = rec.snap /\ r.dep = rec.dep
  BY <1>4 DEF Core, DepsTypes, Steps, Fields
<1> QED BY <1>1, <1>2, <1>3, <1>5, <1>7, <1>8, <1>9, <1>10, RecStep

(* It is done with the deployment resource: object, if there is one, has    *)
(* been stamped from template t, and out is what it deployed.              *)
LEMMA DoneStep ==
    ASSUME Core, pc \in {"deployment", "list"}, pc' = "track",
           NEW t \in Templates \cup {None}, NEW object \in DepIds \cup {None},
           NEW out \in Revs \cup {None}, NEW err \in Conds, DoneDeployment(t, object, out, err),
           UNCHANGED <<dl, tmpls, deployed>>, troubles \subseteq troubles', lost \subseteq lost',
           Evolves, DepsTypes', Sound',
           object = None => out = None,
           object # None => object \in DOMAIN deps' /\ t = deps'[object].tmpl,
           object # None /\ out # None /\ deps'[object].life = "mutable" => <<object, out>> \in deployed,
           \A i \in DOMAIN deps' \ DOMAIN deps :
               deps'[i].life = "mutable" => i \in lost' \cup {object}
    PROVE  Core'
<1> DEFINE prev == rec.snap.status.dep
           dep == Realized(prev, t, object, out)
           cond == FirstError(err)
           r == [rec EXCEPT !.dep = dep, !.cond = cond]
<1>1. rec' = r
  BY DEF DoneDeployment
<1>2. /\ RecTyped(rec, deps) /\ Staged(pc, rec, deps, tmpls, troubles) /\ pc # "idle"
      /\ rec.snap.status = dl.status /\ Refers(prev, deps, deployed) /\ ResourceTyped(prev)
  <2>1. pc # "idle"
    OBVIOUS
  <2>2. /\ RecTyped(rec, deps) /\ Staged(pc, rec, deps, tmpls, troubles)
        /\ rec.snap.status = dl.status /\ StatusTyped(dl.status) /\ Refers(dl.status.dep, deps, deployed)
    BY <2>1, RecFacts
  <2> QED BY <2>1, <2>2 DEF StatusTyped
<1>3. Fields(r, rec.snap, rec.fresh, rec.tmpl, rec.content, rec.src, dep, rec.input, cond,
             rec.requeue, rec.doomed, rec.orphans)
  BY <1>2 DEF Fields, RecTyped
<1> HIDE DEF r
<1>4. /\ ResourceTyped(dep)
      /\ ~(object = None /\ prev.known) => /\ dep.stamped = object /\ dep.tmpl = t
                                           /\ dep.out = out /\ dep.known = TRUE
      /\ object = None /\ prev.known => dep = prev
  <2>1. object \in DepIds \cup {SourceObject, None}
    OBVIOUS
  <2> HIDE DEF prev
  <2>2. ResourceTyped(Realized(prev, t, object, out))
    BY <1>2, <2>1, RealizedTyped
  <2> QED BY <2>2 DEF Realized
<1>5. cond \in Conds
  BY <1>2 DEF FirstError, RecTyped
<1> HIDE DEF dep, cond
<1>6. RecTyped(r, deps')
  BY <1>2, <1>3, <1>4, <1>5 DEF Fields, RecTyped, Evolves
<1>7. Refers(prev, deps', deployed')
  BY <1>2, RefersKeeps
<1>8. Refers(dep, deps', deployed)
  <2>1. CASE object = None /\ prev.known
    BY <1>4, <1>7, <2>1
  <2>2. CASE ~(object = None /\ prev.known)
    BY <1>4, <2>2 DEF Refers
  <2> QED BY <2>1, <2>2
<1>9. prev.stamped # None => dep.stamped # None
  BY <1>2, <1>4 DEF Refers
<1>10. rec.tmpl \in DeploymentTemplates /\ rec.orphans = {} /\ (rec.content # None => rec.content.life = "immutable")
  BY <1>2 DEF Staged
<1>11. Staged("track", r, deps', tmpls, troubles')
  BY <1>3, <1>9, <1>10 DEF Fields, Staged, Orphaned, Before
<1>12. DlTypes' /\ RecTypes' /\ Referred' /\ Progress'
  <2>1. DlTypes'
    BY DEF Core, DlTypes
  <2>2. RecTypes'
    BY <1>1, <1>6 DEF RecTypes, Steps
  <2>3. Referred'
    BY <1>1, <1>2, <1>3, <1>7, <1>8 DEF Referred, Fields
  <2>4. Progress'
    BY <1>1, <1>11 DEF Progress
  <2> QED BY <2>1, <2>2, <2>3, <2>4
<1>13. Covered'
  <2> SUFFICES ASSUME NEW i \in DOMAIN deps', deps'[i].fate = "kept", deps'[i].life = "mutable"
               PROVE  i \in lost' \cup Known("track", r, dl.status)
    BY <1>1 DEF Covered
  <2>1. Known("track", r, dl.status) = {prev.stamped, dep.stamped}
    BY <1>2, <1>3 DEF Known, Fields
  <2>2. CASE i \in DOMAIN deps
    <3>1. deps[i].fate = "kept" /\ deps[i].life = "mutable"
      BY <2>2 DEF Evolves
    <3>2. i \in lost \cup Known(pc, rec, dl.status)
      BY <2>2, <3>1 DEF Core, Covered
    <3>3. Known(pc, rec, dl.status) = {prev.stamped, rec.dep.stamped}
      BY <1>2 DEF Known
    <3>4. i = rec.dep.stamped => i = prev.stamped
      BY <1>2, <3>1 DEF Staged, Before
    <3> QED BY <2>1, <3>2, <3>3, <3>4
  <2>3. CASE i \notin DOMAIN deps
    <3>1. i \in lost' \cup {object}
      BY <2>3
    <3>2. object # None => dep.stamped = object
      BY <1>4
    <3>3. i # None
      <4>1. i \in Nat
        BY DEF DepsTypes
      <4> QED BY <4>1, NoneIsNone
    <3> QED BY <2>1, <3>1, <3>2, <3>3
  <2> QED BY <2>2, <2>3
<1> QED BY <1>12, <1>13 DEF Core

(* It does not get as far as an object.                                    *)
LEMMA DoWithoutObjectStep ==
    ASSUME Core, DoWithoutObject
    PROVE  Core'
<1>1. pc = "deployment" /\ pc' = "track" /\ UNCHANGED <<dl, deps, deployed, tmpls, lost>>
  BY DEF DoWithoutObject, owner
<1>2. PICK t \in Templates \cup {None}, err \in Conds :
          DoneDeployment(t, None, None, err) /\ troubles \subseteq troubles'
  <2>1. {"UnknownError", "TemplateObjectRetrievalFailure", "TemplateStampFailure"} \subseteq Conds
    BY DEF Conds, UnhandledReasons, HandledReasons
  <2>2. rec.tmpl \in Templates \cup {None}
    BY <1>1, RecFacts, NoneIsNone DEF RecTyped
  <2> QED BY <2>1, <2>2, EditGrows DEF DoWithoutObject, Fault
<1>3. Evolves /\ DepsTypes' /\ Sound'
  BY <1>1, <1>2 DEF Core, Evolves, DepsTypes, Sound
<1> QED BY <1>1, <1>2, <1>3, DoneStep

(* The conditions that outputReady ends with; when it finds nothing wrong,  *)
(* the object has deployed its spec.                                       *)
LEMMA DeploymentErrorFacts ==
    ASSUME NEW c, NEW i, NEW o \in Deployments, NEW d, SoundObject(i, o, d)
    PROVE  /\ DeploymentError(c, o) \in Conds
           /\ DeploymentError(c, o) = None => <<i, o.spec>> \in d
<1>1. /\ o.health \in {"True", "False", "Unknown"} /\ o.spec # None
      /\ {"ConditionNotMet", "TemplateStampFailure", "FailedConditionMet"} \subseteq Conds \ {None}
  <2>1. o.health \in {"True", "False", "Unknown"} /\ o.spec \in Revs
    BY DeploymentFields
  <2> QED BY <2>1, NoneIsNone, NoneAssumption DEF Conds, HandledReasons
<1>2. DeploymentError(c, o) \in {"ConditionNotMet", "TemplateStampFailure", "FailedConditionMet", None}
  BY DEF DeploymentError
<1>3. ASSUME DeploymentError(c, o) = None
      PROVE  o.rev = o.spec \/ (o.obs = o.gen /\ o.health = "True")
  BY <1>1, <1>3 DEF DeploymentError
<1> QED BY <1>1, <1>2, <1>3 DEF SoundObject, Conds

(* What doMutable and doImmutable create.                                  *)
LEMMA CreatedObject ==
    ASSUME Core, ApiTypes, pc = "deployment", Stampable, Len(deps) < MaxDeps,
           deps' = Append(deps, NewDeployment(tmpls[rec.tmpl])),
           deployed' = deployed, tmpls' = tmpls, troubles \subseteq troubles'
    PROVE  /\ Evolves /\ Sound'
           /\ deps' \in Seq(Deployments) /\ Len(deps') <= MaxDeps
           /\ DOMAIN deps' = DOMAIN deps \cup {Len(deps) + 1} /\ Len(deps) + 1 \notin DOMAIN deps
           /\ deps'[Len(deps) + 1].spec = rec.input /\ deps'[Len(deps) + 1].tmpl = rec.tmpl
           /\ deps'[Len(deps) + 1].life = tmpls[rec.tmpl].life
           /\ deps'[Len(deps) + 1] \in Deployments
           /\ SoundObject(Len(deps) + 1, deps'[Len(deps) + 1], deployed)
<1> DEFINE c == tmpls[rec.tmpl]
           y == NewDeployment(c)
<1>1. /\ rec.tmpl \in DeploymentTemplates /\ rec.input \in Revs /\ Len(deps) \in Nat
      /\ c \in DeploymentContents /\ c # None
  <2>1. RecTyped(rec, deps) /\ Staged(pc, rec, deps, tmpls, troubles)
    BY RecFacts
  <2>2. rec.tmpl \in DeploymentTemplates /\ rec.input \in Revs
    BY <2>1 DEF Staged, RecTyped, Stampable
  <2> QED BY <2>2, DepsFacts DEF ApiTypes, Stampable, Core
<1>2. c.life \in {"mutable", "immutable"}
  BY <1>1, DeliverableAssumption DEF DeploymentContent
<1>3. /\ y \in Deployments /\ y.spec = rec.input /\ y.tmpl = rec.tmpl /\ y.life = c.life
      /\ y.gen = 1 /\ y.obs = 0 /\ y.health = "Unknown" /\ y.rev = None
  BY <1>1, <1>2 DEF NewDeployment, Deployments
<1> HIDE DEF y, c
<1>4. SoundObject(Len(deps) + 1, y, deployed)
  BY <1>3 DEF SoundObject
<1>5. DepsTypes /\ Sound /\ deps' = Append(deps, y)
  BY DEF Core, y, c
<1> QED BY <1>1, <1>3, <1>4, <1>5, OneMoreObject DEF c

\* An object with another spec and generation.
Patched(o, input, g) == [o EXCEPT !.spec = input, !.gen = g]

(* What is patched is an object with the other fields as they were.        *)
LEMMA PatchFields ==
    ASSUME NEW o \in Deployments, NEW input \in Revs, NEW g \in Nat
    PROVE  /\ Patched(o, input, g) \in Deployments
           /\ Patched(o, input, g).life = o.life /\ Patched(o, input, g).tmpl = o.tmpl
           /\ Patched(o, input, g).obs = o.obs /\ Patched(o, input, g).gen = g
           /\ Patched(o, input, g).doing = o.doing /\ Patched(o, input, g).spec = input
           /\ Patched(o, input, g).health = o.health /\ Patched(o, input, g).rev = o.rev
           /\ Patched(o, input, g).fate = o.fate
BY DEF Deployments, Patched

(* What doMutable patches.                                                 *)
LEMMA PatchedObject ==
    ASSUME Core, NEW i \in DOMAIN deps, NEW input \in Revs,
           deps' = [deps EXCEPT ![i].spec = input, ![i].gen = deps[i].gen + 1],
           deployed' = deployed, tmpls' = tmpls, troubles \subseteq troubles'
    PROVE  /\ Evolves /\ Sound'
           /\ deps' \in Seq(Deployments) /\ Len(deps') = Len(deps)
           /\ DOMAIN deps' = DOMAIN deps
           /\ deps'[i].spec = input /\ deps'[i].tmpl = deps[i].tmpl /\ deps'[i].life = deps[i].life
           /\ deps'[i] \in Deployments /\ SoundObject(i, deps'[i], deployed)
<1>1. deps[i] \in Deployments /\ SoundObject(i, deps[i], deployed) /\ DepsTypes /\ Sound
  BY DepsFacts DEF Core, Sound
<1>2. deps[i].gen \in Nat /\ deps[i].obs \in Nat
  BY <1>1, DeploymentFields
<1>3. deps[i].gen + 1 \in Nat
  BY <1>2
<1> DEFINE y == Patched(deps[i], input, deps[i].gen + 1)
<1>4. deps' = [deps EXCEPT ![i] = y]
  BY DEF Patched
<1>5. /\ y \in Deployments /\ y.life = deps[i].life /\ y.tmpl = deps[i].tmpl
      /\ y.obs = deps[i].obs /\ y.gen = deps[i].gen + 1 /\ y.doing = deps[i].doing
      /\ y.spec = input /\ y.health = deps[i].health /\ y.rev = deps[i].rev /\ y.fate = deps[i].fate
  BY <1>1, <1>3, PatchFields
<1> HIDE DEF y
<1>6. SoundObject(i, y, deployed)
  BY <1>1, <1>2, <1>5 DEF SoundObject
<1> QED BY <1>1, <1>4, <1>5, <1>6, OneObject

(* The object is rejected, or the call fails and may have been carried out. *)
LEMMA ApplyFailsStep ==
    ASSUME Core, pc = "deployment", NEW after, ApplyFails(after),
           UNCHANGED <<dl, tmpls, deployed>>,
           deps' = after => /\ Evolves /\ Sound'
                            /\ deps' \in Seq(Deployments) /\ Len(deps') <= MaxDeps
    PROVE  Core'
<1>1. /\ DoneDeployment(rec.tmpl, None, None, "TemplateRejectedByAPIServer") /\ pc' = "track"
      /\ troubles \subseteq troubles'
  BY EditGrows DEF ApplyFails, Fault
<1>2. rec.tmpl \in Templates \cup {None} /\ "TemplateRejectedByAPIServer" \in Conds
  <2>1. rec.tmpl \in Templates \cup {None}
    BY RecFacts, NoneIsNone DEF RecTyped
  <2> QED BY <2>1 DEF Conds, UnhandledReasons
<1>3. CASE UNCHANGED <<deps, lost>>
  <2>1. Evolves /\ DepsTypes' /\ Sound'
    BY <1>1, <1>3 DEF Core, Evolves, DepsTypes, Sound
  <2> QED BY <1>1, <1>2, <1>3, <2>1, DoneStep
<1>4. CASE deps' = after /\ lost' = lost \cup (DOMAIN after \ DOMAIN deps)
  <2>1. DepsTypes'
    BY <1>4 DEF Core, DepsTypes, Evolves
  <2>2. \A i \in DOMAIN deps' \ DOMAIN deps : i \in lost'
    BY <1>4
  <2>3. lost \subseteq lost' /\ Evolves /\ Sound'
    BY <1>4
  <2> QED BY <1>1, <1>2, <2>1, <2>2, <2>3, DoneStep
<1> QED BY <1>3, <1>4 DEF ApplyFails

(* doMutable.                                                              *)
LEMMA DoMutableStep ==
    ASSUME Core, ApiTypes, DoMutable
    PROVE  Core'
<1> DEFINE c == tmpls[rec.tmpl]
           mine == {i \in Kept : deps[i].tmpl = rec.tmpl /\ deps[i].life = "mutable"}
           i == IF mine = {} THEN Len(deps) + 1 ELSE CHOOSE j \in mine : TRUE
           after == IF mine = {} THEN Append(deps, NewDeployment(c))
                    ELSE IF deps[i].spec = rec.input THEN deps
                    ELSE [deps EXCEPT ![i].spec = rec.input, ![i].gen = deps[i].gen + 1]
<1>1. /\ pc = "deployment" /\ Stampable /\ c.life = "mutable" /\ UNCHANGED <<dl, tmpls, deployed>>
      /\ mine = {} => Len(deps) < MaxDeps
      /\ \/ ApplyFails(after)
         \/ /\ deps' = after /\ Output(rec.tmpl, c, i, after[i]) /\ pc' = "track"
            /\ UNCHANGED <<troubles, lost>>
  BY DEF DoMutable
<1>2. /\ rec.tmpl \in DeploymentTemplates /\ rec.input \in Revs /\ DepsTypes /\ Sound
  <2>1. RecTyped(rec, deps) /\ Staged(pc, rec, deps, tmpls, troubles)
    BY <1>1, RecFacts
  <2> QED BY <1>1, <2>1 DEF Staged, RecTyped, Stampable, Core
<1>3. ASSUME deps' = after, troubles \subseteq troubles'
      PROVE  /\ Evolves /\ Sound'
             /\ deps' \in Seq(Deployments) /\ Len(deps') <= MaxDeps
             /\ DOMAIN deps' = DOMAIN deps \cup {i}
             /\ deps'[i].spec = rec.input /\ deps'[i].tmpl = rec.tmpl
             /\ deps'[i] \in Deployments /\ SoundObject(i, deps'[i], deployed)
  <2>1. CASE mine = {}
    <3>1. i = Len(deps) + 1 /\ deps' = Append(deps, NewDeployment(tmpls[rec.tmpl]))
      BY <1>3, <2>1
    <3> HIDE DEF i, after, mine
    <3> QED BY <1>1, <1>3, <2>1, <3>1, CreatedObject
  <2>2. ASSUME mine # {}
        PROVE  /\ i \in DOMAIN deps /\ deps[i].tmpl = rec.tmpl
               /\ deps' = IF deps[i].spec = rec.input THEN deps
                          ELSE [deps EXCEPT ![i].spec = rec.input, ![i].gen = deps[i].gen + 1]
    <3>1. i \in mine
      BY <2>2
    <3>2. i \in DOMAIN deps /\ deps[i].tmpl = rec.tmpl
      <4> HIDE DEF i
      <4> QED BY <3>1 DEF Kept
    <3> QED BY <1>3, <2>2, <3>2
  <2>3. CASE mine # {} /\ deps[i].spec = rec.input
    <3>1. deps' = deps /\ i \in DOMAIN deps /\ deps[i].tmpl = rec.tmpl
      BY <2>2, <2>3
    <3> HIDE DEF i, after, mine
    <3>2. deps[i] \in Deployments /\ SoundObject(i, deps[i], deployed)
      BY <1>2, <3>1, DepsFacts DEF Sound
    <3>3. Evolves /\ Sound' /\ deps' \in Seq(Deployments) /\ Len(deps') <= MaxDeps
      BY <1>1, <1>2, <1>3, <3>1 DEF Evolves, Sound, DepsTypes
    <3> QED BY <2>3, <3>1, <3>2, <3>3
  <2>4. CASE mine # {} /\ deps[i].spec # rec.input
    <3>1. /\ i \in DOMAIN deps /\ deps[i].tmpl = rec.tmpl
          /\ deps' = [deps EXCEPT ![i].spec = rec.input, ![i].gen = deps[i].gen + 1]
      BY <2>2, <2>4
    <3> HIDE DEF i, after, mine
    <3>2. /\ Evolves /\ Sound'
          /\ deps' \in Seq(Deployments) /\ Len(deps') = Len(deps)
          /\ DOMAIN deps' = DOMAIN deps
          /\ deps'[i].spec = rec.input /\ deps'[i].tmpl = deps[i].tmpl
          /\ deps'[i] \in Deployments /\ SoundObject(i, deps'[i], deployed)
      BY <1>1, <1>2, <1>3, <3>1, PatchedObject
    <3> QED BY <1>2, <3>1, <3>2 DEF DepsTypes
  <2> QED BY <2>1, <2>3, <2>4
<1> HIDE DEF i, after, mine, c
<1>4. CASE ApplyFails(after)
  <2>1. troubles \subseteq troubles'
    BY <1>4, EditGrows DEF ApplyFails, Fault
  <2>2. deps' = after => /\ Evolves /\ Sound'
                         /\ deps' \in Seq(Deployments) /\ Len(deps') <= MaxDeps
    BY <1>3, <2>1
  <2> QED BY <1>1, <1>4, <2>2, ApplyFailsStep
<1>5. CASE /\ deps' = after /\ Output(rec.tmpl, c, i, after[i]) /\ pc' = "track"
           /\ UNCHANGED <<troubles, lost>>
  <2> DEFINE o == after[i]
             err == IF o = None THEN "NoOutput" ELSE DeploymentError(c, o)
             out == IF err = None THEN rec.input ELSE None
  <2>1. /\ Evolves /\ Sound'
        /\ deps' \in Seq(Deployments) /\ Len(deps') <= MaxDeps
        /\ DOMAIN deps' = DOMAIN deps \cup {i}
        /\ o.spec = rec.input /\ o.tmpl = rec.tmpl
        /\ o \in Deployments /\ SoundObject(i, o, deployed)
    BY <1>3, <1>5
  <2>2. DoneDeployment(rec.tmpl, i, out, err)
    BY <1>5 DEF Output
  <2> HIDE DEF o
  <2>3. DeploymentError(c, o) \in Conds /\ (DeploymentError(c, o) = None => <<i, o.spec>> \in deployed)
    BY <2>1, DeploymentErrorFacts
  <2>4. err \in Conds /\ (err = None => <<i, rec.input>> \in deployed)
    <3>1. "NoOutput" \in Conds \ {None}
      BY NoneAssumption DEF Conds, HandledReasons
    <3> QED BY <2>1, <2>3, <3>1
  <2> HIDE DEF err
  <2>5. DepsTypes'
    BY <1>1, <1>2, <1>5, <2>1 DEF DepsTypes
  <2>6. i \in DepIds /\ i # None
    <3>1. i \in DOMAIN deps'
      BY <2>1
    <3>2. DOMAIN deps' = 1..Len(deps') /\ Len(deps') \in Nat
      BY <2>1
    <3> QED BY <2>1, <3>1, <3>2, NoneIsNone, DeliverableAssumption DEF DepIds
  <2>7. rec.tmpl \in Templates \cup {None} /\ i \in DepIds \cup {None} /\ out \in Revs \cup {None}
    BY <1>2, <2>6, NoneIsNone
  <2>8. /\ rec.tmpl = deps'[i].tmpl /\ i \in DOMAIN deps'
        /\ out # None => <<i, out>> \in deployed
    BY <1>5, <2>1, <2>4 DEF o
  <2>9. \A j \in DOMAIN deps' \ DOMAIN deps : j \in lost' \cup {i}
    BY <2>1
  <2> HIDE DEF out
  <2>10. lost \subseteq lost' /\ troubles \subseteq troubles' /\ UNCHANGED <<dl, tmpls, deployed>>
    BY <1>1, <1>5
  <2> QED BY <1>1, <1>5, <2>1, <2>2, <2>4, <2>5, <2>6, <2>7, <2>8, <2>9, <2>10, DoneStep
<1> QED BY <1>1, <1>4, <1>5

(* EnsureImmutableObjectExistsOnCluster has an object, i.                  *)
LEMMA EnsuredStep ==
    ASSUME Core, pc = "deployment", pc' = "list", NEW i \in DOMAIN deps',
           NEW c \in DeploymentContents, c.life = "immutable", rec.input # None,
           rec' = [rec EXCEPT !.content = c, !.dep.stamped = i],
           UNCHANGED <<dl, tmpls, deployed, lost, troubles>>,
           Evolves, Sound', deps' \in Seq(Deployments), Len(deps') <= MaxDeps,
           deps'[i].life = "immutable", deps'[i].tmpl = rec.tmpl,
           DOMAIN deps' \subseteq DOMAIN deps \cup {i}
    PROVE  Core'
<1> DEFINE dep == [rec.dep EXCEPT !.stamped = i]
           r == [rec EXCEPT !.content = c, !.dep = dep]
<1>1. /\ RecTyped(rec, deps) /\ Staged(pc, rec, deps, tmpls, troubles)
      /\ rec.snap.status = dl.status /\ Refers(dl.status.dep, deps, deployed)
  BY RecFacts
<1>2. rec' = r
  OBVIOUS
<1>3. Fields(r, rec.snap, rec.fresh, rec.tmpl, c, rec.src, dep, rec.input, rec.cond,
             rec.requeue, rec.doomed, rec.orphans)
  BY <1>1 DEF Fields, RecTyped
<1> HIDE DEF r
<1>4. i \in DepIds /\ i # None
  <2>1. DOMAIN deps' = 1..Len(deps') /\ Len(deps') \in Nat
    OBVIOUS
  <2> QED BY <2>1, NoneIsNone, DeliverableAssumption DEF DepIds
<1>5. ResourceTyped(dep) /\ dep.stamped = i
  BY <1>1, <1>4 DEF ResourceTyped, IsResource, RecTyped
<1> HIDE DEF dep
<1>6. RecTyped(r, deps')
  BY <1>1, <1>3, <1>5 DEF Fields, RecTyped, Evolves
<1>7. rec.dep = rec.snap.status.dep /\ rec.orphans = {} /\ rec.tmpl \in DeploymentTemplates
  BY <1>1 DEF Staged, Before
<1>8. c # None
  BY NoneIsNone
<1>9. Staged("list", r, deps', tmpls, troubles)
  BY <1>3, <1>4, <1>5, <1>7 DEF Fields, Staged, Orphaned, Before
<1>10. DlTypes' /\ DepsTypes' /\ RecTypes' /\ Referred' /\ Progress'
  <2>1. DlTypes' /\ DepsTypes'
    BY DEF Core, DlTypes, DepsTypes, Evolves
  <2>2. RecTypes'
    BY <1>2, <1>6 DEF RecTypes, Steps
  <2>3. Refers(dl.status.dep, deps', deployed')
    BY <1>1, RefersKeeps
  <2>4. Referred'
    BY <1>1, <1>2, <1>3, <2>3 DEF Referred, Fields
  <2>5. Progress'
    BY <1>2, <1>9 DEF Progress
  <2> QED BY <2>1, <2>2, <2>4, <2>5
<1>11. Covered'
  <2> SUFFICES ASSUME NEW j \in DOMAIN deps', deps'[j].fate = "kept", deps'[j].life = "mutable"
               PROVE  j \in lost' \cup Known("list", r, dl.status)
    BY <1>2 DEF Covered
  <2>1. j \in DOMAIN deps /\ deps[j].fate = "kept" /\ deps[j].life = "mutable"
    BY DEF Evolves
  <2>2. j \in lost \cup Known(pc, rec, dl.status)
    BY <2>1 DEF Core, Covered
  <2>3. Known(pc, rec, dl.status) \subseteq Known("list", r, dl.status)
    BY <1>1, <1>7 DEF Known
  <2> QED BY <2>2, <2>3
<1> QED BY <1>10, <1>11 DEF Core

(* doImmutable, up to the list.                                            *)
LEMMA EnsureImmutableStep ==
    ASSUME Core, ApiTypes, EnsureImmutable
    PROVE  Core'
<1> DEFINE c == tmpls[rec.tmpl]
           hits == Hits(submitted[BuildOwnerDiscriminant(rec.tmpl)], rec.input, deps, Listed(rec.tmpl))
           after == Append(deps, NewDeployment(c))
           ensured(i) == /\ rec' = [rec EXCEPT !.content = c, !.dep.stamped = i]
                         /\ pc' = "list"
<1>1. /\ pc = "deployment" /\ Stampable /\ c.life = "immutable" /\ UNCHANGED <<dl, tmpls, deployed>>
      /\ \/ \E i \in hits : ensured(i) /\ UNCHANGED <<deps, troubles, lost>>
         \/ /\ Len(deps) < MaxDeps
            /\ \/ ensured(Len(deps) + 1) /\ deps' = after /\ UNCHANGED <<troubles, lost>>
               \/ ApplyFails(after)
  BY DEF EnsureImmutable
<1>2. /\ rec.tmpl \in DeploymentTemplates /\ rec.input # None /\ DepsTypes /\ Sound
      /\ c \in DeploymentContents
  <2>1. RecTyped(rec, deps) /\ Staged(pc, rec, deps, tmpls, troubles)
    BY <1>1, RecFacts
  <2>2. rec.tmpl \in DeploymentTemplates
    BY <1>1, <2>1 DEF Staged
  <2> QED BY <1>1, <2>2 DEF Stampable, Core, ApiTypes
<1>3. ASSUME NEW i \in hits, ensured(i), UNCHANGED <<deps, troubles, lost>>
      PROVE  Core'
  <2>1. i \in DOMAIN deps /\ deps[i].tmpl = rec.tmpl /\ deps[i].life = "immutable"
    BY <1>3 DEF Hits, Listed, Kept
  <2>2. /\ Evolves /\ Sound' /\ deps' \in Seq(Deployments) /\ Len(deps') <= MaxDeps
        /\ i \in DOMAIN deps' /\ DOMAIN deps' \subseteq DOMAIN deps \cup {i}
        /\ deps'[i].life = "immutable" /\ deps'[i].tmpl = rec.tmpl
    BY <1>1, <1>2, <1>3, <2>1 DEF Evolves, Sound, DepsTypes
  <2>3. pc' = "list" /\ rec' = [rec EXCEPT !.content = c, !.dep.stamped = i]
    BY <1>3
  <2> HIDE DEF c, hits, ensured
  <2> QED BY <1>1, <1>2, <1>3, <2>2, <2>3, EnsuredStep
<1>4. ASSUME Len(deps) < MaxDeps, deps' = after, troubles \subseteq troubles'
      PROVE  /\ Evolves /\ Sound'
             /\ deps' \in Seq(Deployments) /\ Len(deps') <= MaxDeps
             /\ DOMAIN deps' = DOMAIN deps \cup {Len(deps) + 1}
             /\ deps'[Len(deps) + 1].tmpl = rec.tmpl
             /\ deps'[Len(deps) + 1].life = "immutable"
  BY <1>1, <1>4, CreatedObject
<1>5. CASE Len(deps) < MaxDeps /\ ensured(Len(deps) + 1) /\ deps' = after /\ UNCHANGED <<troubles, lost>>
  <2> DEFINE i == Len(deps) + 1
  <2>1. /\ Evolves /\ Sound' /\ deps' \in Seq(Deployments) /\ Len(deps') <= MaxDeps
        /\ i \in DOMAIN deps' /\ DOMAIN deps' \subseteq DOMAIN deps \cup {i}
        /\ deps'[i].life = "immutable" /\ deps'[i].tmpl = rec.tmpl
    BY <1>4, <1>5
  <2>2. pc' = "list" /\ rec' = [rec EXCEPT !.content = c, !.dep.stamped = i]
    BY <1>5
  <2> HIDE DEF i, c, hits, ensured, after
  <2> QED BY <1>1, <1>2, <1>5, <2>1, <2>2, EnsuredStep
<1>6. CASE Len(deps) < MaxDeps /\ ApplyFails(after)
  <2> HIDE DEF after
  <2>1. troubles \subseteq troubles'
    BY <1>6, EditGrows DEF ApplyFails, Fault
  <2>2. deps' = after => /\ Evolves /\ Sound'
                         /\ deps' \in Seq(Deployments) /\ Len(deps') <= MaxDeps
    BY <1>4, <1>6, <2>1
  <2> QED BY <1>1, <1>6, <2>2, ApplyFailsStep
<1> QED BY <1>1, <1>3, <1>5, <1>6

(* What is to be deleted, and what is the latest, is among what was listed. *)
LEMMA ListedFacts ==
    ASSUME NEW runs, NEW listed, NEW n, NEW m
    PROVE  /\ LatestSuccessful(runs, listed) \subseteq listed
           /\ \A doomed \in CleanupRunnableStampedObjects(runs, listed, n, m) : doomed \subseteq listed
<1>1. LatestSuccessful(runs, listed) \subseteq listed
  BY DEF LatestSuccessful, WithHealth
<1>2. ASSUME NEW doomed \in CleanupRunnableStampedObjects(runs, listed, n, m)
      PROVE  doomed \subseteq listed
  <2> DEFINE good == WithHealth(runs, listed, "True")
             bad == WithHealth(runs, listed, "False")
  <2>1. PICK K \in Retained(runs, good, n), L \in Retained(runs, bad, m) :
           doomed = (good \ K) \cup (bad \ L)
    BY <1>2 DEF CleanupRunnableStampedObjects
  <2>2. good \subseteq listed /\ bad \subseteq listed
    BY DEF WithHealth
  <2> HIDE DEF good, bad
  <2> QED BY <2>1, <2>2
<1> QED BY <1>1, <1>2

(* The rest of doImmutable.                                                *)
LEMMA ListImmutableStep ==
    ASSUME Core, ListImmutable
    PROVE  Core'
<1> DEFINE c == rec.content
           runs == Examined(c)
           listed == Listed(rec.tmpl)
           latest == LatestSuccessful(runs, listed)
           i == rec.dep.stamped
           err == IF latest = {} THEN "NoOutput"
                  ELSE DeploymentError(c, deps[CHOOSE j \in latest : TRUE])
           out == IF err = None THEN rec.input ELSE None
           dep == [known |-> TRUE, stamped |-> i, tmpl |-> rec.tmpl, out |-> out]
<1>1. /\ pc = "list" /\ UNCHANGED <<dl, tmpls, deps, deployed>>
      /\ \/ /\ Fault /\ DoneDeployment(rec.tmpl, None, None, "UnknownError")
            /\ pc' = "track" /\ lost' = lost \cup {i}
         \/ \E doomed \in CleanupRunnableStampedObjects(runs, listed, MaxSuccessfulRuns, MaxFailedRuns) :
               /\ rec' = [rec EXCEPT !.doomed = doomed, !.dep = dep, !.cond = FirstError(err)]
               /\ pc' = "gc" /\ UNCHANGED <<troubles, lost>>
  BY DEF ListImmutable, owner
<1>2. /\ RecTyped(rec, deps) /\ Staged(pc, rec, deps, tmpls, troubles) /\ DepsTypes /\ Sound
      /\ rec.snap.status = dl.status
  BY <1>1, RecFacts DEF Core
<1>3. /\ i \in DOMAIN deps /\ deps[i].life = "immutable" /\ deps[i].tmpl = rec.tmpl
      /\ rec.tmpl \in DeploymentTemplates /\ rec.input \in Revs /\ rec.orphans = {}
      /\ rec.content # None => rec.content.life = "immutable"
  BY <1>1, <1>2 DEF Staged, RecTyped
<1>4. i \in DepIds /\ i # None
  BY <1>2, <1>3, DepsFacts
<1> HIDE DEF i
<1>5. CASE /\ Fault /\ DoneDeployment(rec.tmpl, None, None, "UnknownError")
           /\ pc' = "track" /\ lost' = lost \cup {i}
  <2>1. troubles \subseteq troubles' /\ "UnknownError" \in Conds /\ rec.tmpl \in Templates \cup {None}
    BY <1>3, <1>5, EditGrows, NoneIsNone DEF Fault, Conds, UnhandledReasons
  <2>2. Evolves /\ DepsTypes' /\ Sound'
    BY <1>1, <1>2, <1>3, <1>5, <2>1 DEF Evolves, DepsTypes, Sound
  <2> QED BY <1>1, <1>5, <2>1, <2>2, DoneStep
<1>6. err \in Conds
  <2>1. "NoOutput" \in Conds
    BY DEF Conds, HandledReasons
  <2>2. ASSUME latest # {}
        PROVE  DeploymentError(c, deps[CHOOSE j \in latest : TRUE]) \in Conds
    <3> DEFINE j == CHOOSE j \in latest : TRUE
    <3>1. j \in latest
      BY <2>2
    <3> HIDE DEF j
    <3>2. j \in DOMAIN deps
      BY <3>1, ListedFacts DEF Listed, Kept
    <3>3. deps[j] \in Deployments /\ SoundObject(j, deps[j], deployed)
      BY <1>2, <3>2, DepsFacts DEF Sound
    <3>4. DeploymentError(c, deps[j]) \in Conds
      BY <3>3, DeploymentErrorFacts
    <3> QED BY <3>4 DEF j
  <2> QED BY <2>1, <2>2
<1> HIDE DEF err
<1>7. ASSUME NEW doomed \in CleanupRunnableStampedObjects(runs, listed, MaxSuccessfulRuns, MaxFailedRuns),
             rec' = [rec EXCEPT !.doomed = doomed, !.dep = dep, !.cond = FirstError(err)],
             pc' = "gc", UNCHANGED <<troubles, lost>>
      PROVE  Core'
  <2> DEFINE r == [rec EXCEPT !.doomed = doomed, !.dep = dep, !.cond = FirstError(err)]
  <2>1. doomed \subseteq DOMAIN deps
    <3>1. doomed \subseteq listed
      BY <1>7, ListedFacts
    <3> QED BY <3>1 DEF Listed, Kept
  <2> HIDE DEF runs, listed, latest
  <2>2. Fields(r, rec.snap, rec.fresh, rec.tmpl, rec.content, rec.src, dep, rec.input,
               FirstError(err), rec.requeue, doomed, rec.orphans)
    BY <1>2 DEF Fields, RecTyped
  <2>3. rec' = r
    BY <1>7
  <2> HIDE DEF r
  <2>4. ResourceTyped(dep) /\ dep.known = TRUE /\ dep.stamped = i /\ dep.tmpl = rec.tmpl
    BY <1>3, <1>4, NoneIsNone DEF ResourceTyped, IsResource
  <2> HIDE DEF dep
  <2>5. FirstError(err) \in Conds
    BY <1>2, <1>6 DEF FirstError, RecTyped
  <2>6. RecTyped(r, deps)
    BY <1>2, <2>1, <2>2, <2>4, <2>5 DEF Fields, RecTyped
  <2>7. Refers(dep, deps, deployed)
    BY <1>3, <1>4, <2>4 DEF Refers
  <2>8. Staged("gc", r, deps, tmpls, troubles)
    BY <1>3, <1>4, <2>2, <2>4 DEF Fields, Staged, Orphaned, Before
  <2>9. Known(pc, rec, dl.status) = Known("gc", r, dl.status)
    BY <1>1, <2>2, <2>4 DEF Known, Fields, i
  <2>10. lost \subseteq DOMAIN deps /\ "gc" \in Steps /\ r.snap = rec.snap /\ r.dep = dep
    BY <1>2, <2>2 DEF DepsTypes, Steps, Fields
  <2> QED BY <1>1, <1>2, <1>7, <2>3, <2>6, <2>7, <2>8, <2>9, <2>10, RecStep
<1> QED BY <1>1, <1>5, <1>7

(* A step of the reconciliation that takes it from rec to r and deletes     *)
(* objects, or none.                                                       *)
LEMMA DeletingStep ==
    ASSUME Core, pc # "idle", UNCHANGED <<dl, deployed, tmpls>>, troubles \subseteq troubles',
           lost \subseteq lost', Evolves, DepsTypes', Sound', DOMAIN deps' = DOMAIN deps,
           NEW p \in Steps, NEW r, pc' = p, rec' = r, RecTyped(r, deps'), r.snap = rec.snap,
           p # "list" => Refers(r.dep, deps', deployed),
           Staged(p, r, deps', tmpls, troubles'),
           \A i \in DOMAIN deps :
               i \in Known(pc, rec, dl.status) /\ deps'[i].fate = "kept" /\ deps'[i].life = "mutable" =>
                   i \in lost' \cup Known(p, r, dl.status)
    PROVE  Core'
<1>1. p # "idle"
  BY DEF Steps
<1>2. DlTypes' /\ RecTypes'
  BY <1>1 DEF Core, DlTypes, RecTypes
<1>3. Refers(dl.status.dep, deps', deployed')
  BY RefersKeeps DEF Core, Referred
<1>4. Referred' /\ Progress'
  BY <1>1, <1>3 DEF Core, Referred, Progress
<1>5. Covered'
  BY DEF Core, Covered, Evolves
<1> QED BY <1>2, <1>4, <1>5 DEF Core

(* An object that is deleted is otherwise as it was.                       *)
LEMMA DeletedFields ==
    ASSUME NEW o \in Deployments
    PROVE  /\ [o EXCEPT !.fate = "deleted"] \in Deployments
           /\ [o EXCEPT !.fate = "deleted"].life = o.life
           /\ [o EXCEPT !.fate = "deleted"].tmpl = o.tmpl
           /\ [o EXCEPT !.fate = "deleted"].fate = "deleted"
           /\ \A i, d : SoundObject(i, o, d) => SoundObject(i, [o EXCEPT !.fate = "deleted"], d)
<1> DEFINE y == [o EXCEPT !.fate = "deleted"]
<1>1. /\ y \in Deployments /\ y.life = o.life /\ y.tmpl = o.tmpl /\ y.obs = o.obs
      /\ y.gen = o.gen /\ y.doing = o.doing /\ y.spec = o.spec /\ y.health = o.health
      /\ y.rev = o.rev /\ y.fate = "deleted"
  BY DEF Deployments
<1> HIDE DEF y
<1>2. \A i, d : SoundObject(i, o, d) => SoundObject(i, y, d)
  BY <1>1 DEF SoundObject
<1> QED BY <1>1, <1>2 DEF y

(* The objects of S are deleted.                                           *)
LEMMA ManyDeleted ==
    ASSUME DepsTypes, Sound, NEW S,
           deps' = [i \in DOMAIN deps |->
                      IF i \in S THEN [deps[i] EXCEPT !.fate = "deleted"] ELSE deps[i]],
           UNCHANGED <<deployed, tmpls, lost>>, troubles \subseteq troubles'
    PROVE  Evolves /\ Sound' /\ DepsTypes' /\ DOMAIN deps' = DOMAIN deps
<1>1. \A i \in DOMAIN deps : deps[i] \in Deployments
  BY DepsFacts
<1>2. DOMAIN deps' = DOMAIN deps
  OBVIOUS
<1>3. ASSUME NEW i \in DOMAIN deps
      PROVE  /\ deps'[i] \in Deployments
             /\ deps'[i].life = deps[i].life /\ deps'[i].tmpl = deps[i].tmpl
             /\ deps'[i].fate = "kept" => deps[i].fate = "kept"
             /\ SoundObject(i, deps'[i], deployed)
  <2>1. deps[i] \in Deployments /\ SoundObject(i, deps[i], deployed)
    BY <1>1 DEF Sound
  <2>2. deps'[i] = IF i \in S THEN [deps[i] EXCEPT !.fate = "deleted"] ELSE deps[i]
    OBVIOUS
  <2>3. CASE i \in S
    BY <2>1, <2>2, <2>3, DeletedFields
  <2>4. CASE i \notin S
    BY <2>1, <2>2, <2>4
  <2> QED BY <2>3, <2>4
<1>4. deps' \in Seq(Deployments) /\ Len(deps') = Len(deps)
  <2>1. Len(deps) \in Nat /\ DOMAIN deps = 1..Len(deps)
    BY DepsFacts
  <2>2. deps' \in [1..Len(deps) -> Deployments]
    BY <1>2, <1>3, <2>1
  <2> QED BY <2>1, <2>2
<1>5. Evolves
  BY <1>2, <1>3 DEF Evolves
<1>6. Sound'
  BY <1>2, <1>3 DEF Sound
<1>7. DepsTypes'
  BY <1>2, <1>4 DEF DepsTypes
<1> QED BY <1>2, <1>5, <1>6, <1>7

(* CleanupRunnableStampedObjects.                                          *)
LEMMA DeleteRunsStep ==
    ASSUME Core, DeleteRuns
    PROVE  Core'
<1> DEFINE r == [rec EXCEPT !.doomed = {}]
<1>1. pc = "gc" /\ pc' = "track" /\ rec' = r /\ UNCHANGED <<dl, tmpls, deployed, lost>>
  BY DEF DeleteRuns
<1>2. /\ RecTyped(rec, deps) /\ Staged(pc, rec, deps, tmpls, troubles) /\ DepsTypes /\ Sound
      /\ rec.snap.status = dl.status /\ Refers(rec.dep, deps, deployed)
  BY <1>1, RecFacts DEF Core
<1>3. Evolves /\ Sound' /\ DepsTypes' /\ DOMAIN deps' = DOMAIN deps /\ troubles \subseteq troubles'
  <2>1. CASE /\ deps' = [i \in DOMAIN deps |->
                  IF i \in rec.doomed THEN [deps[i] EXCEPT !.fate = "deleted"] ELSE deps[i]]
             /\ UNCHANGED troubles
    BY <1>1, <1>2, <2>1, ManyDeleted
  <2>2. CASE Fault /\ UNCHANGED deps
    <3>1. troubles \subseteq troubles'
      BY <2>2, EditGrows DEF Fault
    <3> QED BY <1>1, <1>2, <2>2, <3>1 DEF Evolves, Sound, DepsTypes
  <2> QED BY <2>1, <2>2 DEF DeleteRuns
<1>4. Fields(r, rec.snap, rec.fresh, rec.tmpl, rec.content, rec.src, rec.dep, rec.input,
             rec.cond, rec.requeue, {}, rec.orphans)
  BY <1>2 DEF Fields, RecTyped
<1> HIDE DEF r
<1>5. RecTyped(r, deps')
  BY <1>2, <1>3, <1>4 DEF Fields, RecTyped
<1>6. Refers(rec.dep, deps', deployed')
  BY <1>2, <1>3, RefersKeeps
<1>7. Staged("track", r, deps', tmpls, troubles')
  BY <1>1, <1>2, <1>4 DEF Fields, Staged, Orphaned, Before
<1>8. Known(pc, rec, dl.status) = Known("track", r, dl.status)
  BY <1>1, <1>4 DEF Known, Fields
<1>9. "track" \in Steps /\ r.snap = rec.snap /\ r.dep = rec.dep
  BY <1>4 DEF Steps, Fields
<1> QED BY <1>1, <1>2, <1>3, <1>5, <1>6, <1>7, <1>8, <1>9, DeletingStep

(* trackDependencies.                                                      *)
LEMMA TrackDependenciesStep ==
    ASSUME Core, TrackDependencies
    PROVE  Core'
<1> DEFINE r == [rec EXCEPT !.requeue = (rec.cond \in UnhandledReasons)]
<1>1. /\ pc = "track" /\ pc' = "orphans" /\ rec' = r
      /\ UNCHANGED <<dl, deps, deployed, tmpls, lost, troubles>>
  BY DEF TrackDependencies, owner, history
<1>2. /\ RecTyped(rec, deps) /\ Staged(pc, rec, deps, tmpls, troubles)
      /\ rec.snap.status = dl.status /\ Refers(rec.dep, deps, deployed)
  BY <1>1, RecFacts
<1>3. Fields(r, rec.snap, rec.fresh, rec.tmpl, rec.content, rec.src, rec.dep, rec.input,
             rec.cond, (rec.cond \in UnhandledReasons), rec.doomed, rec.orphans)
  BY <1>2 DEF Fields, RecTyped
<1> HIDE DEF r
<1>4. RecTyped(r, deps)
  BY <1>2, <1>3 DEF Fields, RecTyped
<1>5. Staged("orphans", r, deps, tmpls, troubles)
  BY <1>1, <1>2, <1>3 DEF Fields, Staged, Orphaned, Before
<1>6. Known(pc, rec, dl.status) = Known("orphans", r, dl.status)
  BY <1>1, <1>3 DEF Known, Fields
<1>7. lost \subseteq DOMAIN deps /\ "orphans" \in Steps /\ r.snap = rec.snap /\ r.dep = rec.dep
  BY <1>3 DEF Core, DepsTypes, Steps, Fields
<1> QED BY <1>1, <1>2, <1>4, <1>5, <1>6, <1>7, RecStep

(* cleanupOrphanedObjects decides.                                         *)
LEMMA FindOrphansStep ==
    ASSUME Core, FindOrphans
    PROVE  Core'
<1> DEFINE i == rec.snap.status.dep.stamped
           t == rec.snap.status.dep.tmpl
           spared == i = None \/ (rec.dep.stamped # None /\ Equivalent(i))
           orphans == IF spared THEN {} ELSE {i}
           r == [rec EXCEPT !.orphans = orphans]
<1>1. /\ pc = "orphans" /\ pc' = "delete" /\ UNCHANGED <<dl, deps, deployed, tmpls>>
      /\ \/ /\ i # None => tmpls[t] # None
            /\ rec' = r /\ UNCHANGED <<troubles, lost>>
         \/ /\ i # None /\ (UNCHANGED troubles \/ Fault)
            /\ lost' = lost \cup {i} /\ UNCHANGED rec
  BY DEF FindOrphans, owner
<1>2. /\ RecTyped(rec, deps) /\ Staged(pc, rec, deps, tmpls, troubles)
      /\ rec.snap.status = dl.status /\ Refers(rec.dep, deps, deployed)
      /\ Refers(dl.status.dep, deps, deployed)
  BY <1>1, RecFacts
<1>3. /\ i # None => i \in DOMAIN deps /\ t = deps[i].tmpl /\ rec.dep.stamped # None
      /\ rec.orphans = {} /\ rec.tmpl \in DeploymentTemplates
      /\ rec.content # None => rec.content.life = "immutable"
  BY <1>1, <1>2 DEF Staged, Refers
<1>4. lost \subseteq DOMAIN deps /\ "delete" \in Steps
  BY DEF Core, DepsTypes, Steps
<1>5. Known(pc, rec, dl.status) = {i, rec.dep.stamped}
  BY <1>1, <1>2 DEF Known
<1>6. CASE /\ i # None => tmpls[t] # None
           /\ rec' = r /\ UNCHANGED <<troubles, lost>>
  <2>1. Fields(r, rec.snap, rec.fresh, rec.tmpl, rec.content, rec.src, rec.dep, rec.input,
               rec.cond, rec.requeue, rec.doomed, orphans)
    BY <1>2 DEF Fields, RecTyped
  <2> HIDE DEF r
  <2>2. orphans \subseteq DOMAIN deps /\ orphans \subseteq {i}
    BY <1>3
  <2>3. RecTyped(r, deps)
    BY <1>2, <2>1, <2>2 DEF Fields, RecTyped
  <2>4. ASSUME i \in orphans, deps[i].life = "immutable", deps[i].tmpl = rec.dep.tmpl,
               deps[i].fate = "kept"
        PROVE  "template" \in troubles /\ tmpls[rec.dep.tmpl] # rec.content
    <3>1. i # None /\ rec.dep.stamped # None /\ t = rec.dep.tmpl /\ ~Equivalent(i)
      BY <1>3, <2>4
    <3>2. tmpls[t].life = "mutable" /\ tmpls[t] # None
      BY <1>6, <2>4, <3>1 DEF Equivalent
    <3>3. "template" \in troubles
      BY <1>3, <2>4, <3>1, <3>2 DEF Core, Sound
    <3> QED BY <1>3, <3>1, <3>2, <3>3
  <2>5. Orphaned(r, deps, tmpls, troubles)
    <3> HIDE DEF orphans
    <3> QED BY <2>1, <2>2, <2>4 DEF Fields, Orphaned
  <2>6. Staged("delete", r, deps, tmpls, troubles)
    BY <1>3, <2>1, <2>5 DEF Fields, Staged, Before
  <2>7. Known("delete", r, dl.status) = {rec.dep.stamped} \cup orphans
    BY <2>1 DEF Known, Fields
  <2>8. ASSUME i \in DOMAIN deps, deps[i].life = "mutable"
        PROVE  i \in {rec.dep.stamped} \cup orphans
    <3>1. i # None
      BY <2>8, DepsFacts DEF Core
    <3> QED BY <2>8, <3>1 DEF Equivalent
  <2> HIDE DEF orphans
  <2>9. \A j \in DOMAIN deps : j \in Known(pc, rec, dl.status) /\ deps[j].life = "mutable" =>
            j \in lost' \cup Known("delete", r, dl.status)
    BY <1>5, <2>7, <2>8
  <2>10. r.snap = rec.snap /\ r.dep = rec.dep
    BY <2>1 DEF Fields
  <2> QED BY <1>1, <1>2, <1>4, <1>6, <2>3, <2>6, <2>9, <2>10, RecStep
<1>7. CASE /\ i # None /\ (UNCHANGED troubles \/ Fault)
           /\ lost' = lost \cup {i} /\ UNCHANGED rec
  <2>1. troubles \subseteq troubles'
    BY <1>7, EditGrows DEF Fault
  <2>2. Staged("delete", rec, deps, tmpls, troubles')
    BY <1>1, <1>2, <1>3 DEF Staged, Orphaned, Before
  <2>3. Known("delete", rec, dl.status) = {rec.dep.stamped}
    BY <1>3 DEF Known
  <2>4. lost' \subseteq DOMAIN deps /\ rec' = rec
    BY <1>3, <1>4, <1>7
  <2>5. \A j \in DOMAIN deps : j \in Known(pc, rec, dl.status) /\ deps[j].life = "mutable" =>
            j \in lost' \cup Known("delete", rec, dl.status)
    BY <1>5, <1>7, <2>3
  <2> HIDE DEF i, t, spared, orphans, r
  <2> QED BY <1>1, <1>2, <1>4, <1>7, <2>1, <2>2, <2>4, <2>5, RecStep
<1> QED BY <1>1, <1>6, <1>7

(* It deletes the orphan.                                                  *)
LEMMA DeleteOrphanStep ==
    ASSUME Core, NEW i \in DOMAIN deps, DeleteOrphan(i)
    PROVE  Core'
<1> DEFINE r == [rec EXCEPT !.orphans = {}]
<1>1. /\ pc = "delete" /\ pc' = pc /\ i \in rec.orphans /\ rec' = r
      /\ UNCHANGED <<dl, tmpls, deployed>>
  BY DEF DeleteOrphan
<1>2. /\ RecTyped(rec, deps) /\ Staged(pc, rec, deps, tmpls, troubles) /\ DepsTypes /\ Sound
      /\ rec.snap.status = dl.status /\ Refers(rec.dep, deps, deployed)
  BY <1>1, RecFacts DEF Core
<1>3. /\ Evolves /\ Sound' /\ DepsTypes' /\ DOMAIN deps' = DOMAIN deps
      /\ troubles \subseteq troubles' /\ lost \subseteq lost'
      /\ deps'[i].fate = "kept" => i \in lost'
  <2>1. CASE deps' = [deps EXCEPT ![i].fate = "deleted"] /\ UNCHANGED <<troubles, lost>>
    <3> DEFINE y == [deps[i] EXCEPT !.fate = "deleted"]
    <3>1. deps' = [deps EXCEPT ![i] = y]
      BY <2>1
    <3>2. deps[i] \in Deployments /\ SoundObject(i, deps[i], deployed)
      BY <1>2, DepsFacts DEF Sound
    <3>3. /\ y \in Deployments /\ y.life = deps[i].life /\ y.tmpl = deps[i].tmpl
          /\ y.fate = "deleted" /\ SoundObject(i, y, deployed')
      BY <1>1, <3>2, DeletedFields
    <3> HIDE DEF y
    <3>4. /\ Evolves /\ Sound' /\ deps' \in Seq(Deployments) /\ Len(deps') = Len(deps)
          /\ DOMAIN deps' = DOMAIN deps
          /\ \A j \in DOMAIN deps : deps'[j] = IF j = i THEN y ELSE deps[j]
      <4>1. tmpls' = tmpls /\ troubles \subseteq troubles' /\ deployed \subseteq deployed'
            /\ (y.fate = "kept" => deps[i].fate = "kept")
        BY <1>1, <2>1, <3>3
      <4> QED BY <1>2, <3>1, <3>3, <4>1, OneObject
    <3>5. DepsTypes'
      BY <1>1, <1>2, <2>1, <3>4 DEF DepsTypes
    <3> QED BY <2>1, <3>3, <3>4, <3>5
  <2>2. CASE deps[i].fate # "kept" /\ UNCHANGED <<deps, troubles, lost>>
    BY <1>1, <1>2, <2>2 DEF Evolves, Sound, DepsTypes
  <2>3. CASE Fault /\ lost' = lost \cup {i} /\ UNCHANGED deps
    <3>1. troubles \subseteq troubles'
      BY <2>3, EditGrows DEF Fault
    <3> QED BY <1>1, <1>2, <2>3, <3>1 DEF Evolves, Sound, DepsTypes
  <2> QED BY <2>1, <2>2, <2>3 DEF DeleteOrphan
<1>4. Fields(r, rec.snap, rec.fresh, rec.tmpl, rec.content, rec.src, rec.dep, rec.input,
             rec.cond, rec.requeue, rec.doomed, {})
  BY <1>2 DEF Fields, RecTyped
<1> HIDE DEF r
<1>5. RecTyped(r, deps')
  BY <1>2, <1>3, <1>4 DEF Fields, RecTyped
<1>6. Refers(rec.dep, deps', deployed')
  BY <1>2, <1>3, RefersKeeps
<1>7. Staged("delete", r, deps', tmpls, troubles')
  BY <1>1, <1>2, <1>4 DEF Fields, Staged, Orphaned, Before
<1>8. /\ Known(pc, rec, dl.status) \subseteq {rec.dep.stamped, i}
      /\ Known("delete", r, dl.status) = {rec.dep.stamped}
  <2>1. rec.orphans \subseteq {i}
    BY <1>1, <1>2 DEF Staged, Orphaned
  <2> QED BY <1>1, <1>4, <2>1 DEF Known, Fields
<1>9. "delete" \in Steps /\ r.snap = rec.snap /\ r.dep = rec.dep
  BY <1>4 DEF Steps, Fields
<1>10. \A j \in DOMAIN deps :
          j \in Known(pc, rec, dl.status) /\ deps'[j].fate = "kept" /\ deps'[j].life = "mutable" =>
              j \in lost' \cup Known("delete", r, dl.status)
  BY <1>3, <1>8
<1> QED BY <1>1, <1>2, <1>3, <1>5, <1>6, <1>7, <1>9, <1>10, DeletingStep

(* It watches what was stamped.                                            *)
LEMMA WatchStampedStep ==
    ASSUME Core, WatchStamped
    PROVE  Core'
<1>1. pc = "delete" /\ pc' = "update" /\ rec.orphans = {} /\ UNCHANGED <<dl, deps, deployed, tmpls, lost>>
  BY DEF WatchStamped, owner
<1>2. /\ RecTyped(rec, deps) /\ Staged(pc, rec, deps, tmpls, troubles)
      /\ rec.snap.status = dl.status /\ Refers(rec.dep, deps, deployed)
  BY <1>1, RecFacts
<1>3. PICK requeue \in BOOLEAN :
         /\ Fields(rec', rec.snap, rec.fresh, rec.tmpl, rec.content, rec.src, rec.dep, rec.input,
                   rec.cond, requeue, rec.doomed, rec.orphans)
         /\ troubles \subseteq troubles'
  <2>1. CASE UNCHANGED <<rec, troubles>>
    BY <1>2, <2>1 DEF Fields, RecTyped
  <2>2. CASE Fault /\ rec' = [rec EXCEPT !.requeue = TRUE]
    <3>1. troubles \subseteq troubles'
      BY <2>2, EditGrows DEF Fault
    <3>2. Fields(rec', rec.snap, rec.fresh, rec.tmpl, rec.content, rec.src, rec.dep, rec.input,
                 rec.cond, TRUE, rec.doomed, rec.orphans)
      BY <1>2, <2>2 DEF Fields, RecTyped
    <3> QED BY <3>1, <3>2
  <2> QED BY <2>1, <2>2 DEF WatchStamped
<1> DEFINE r == rec'
<1>4. rec' = r
  OBVIOUS
<1>5. RecTyped(r, deps)
  BY <1>2, <1>3 DEF Fields, RecTyped
<1>6. Staged("update", r, deps, tmpls, troubles')
  BY <1>1, <1>2, <1>3 DEF Fields, Staged, Orphaned, Before
<1>7. Known(pc, rec, dl.status) = Known("update", r, dl.status)
  BY <1>1, <1>3 DEF Known, Fields
<1>8. lost \subseteq DOMAIN deps /\ "update" \in Steps /\ r.snap = rec.snap /\ r.dep = rec.dep
  BY <1>3 DEF Core, DepsTypes, Steps, Fields
<1> HIDE DEF r
<1> QED BY <1>1, <1>2, <1>3, <1>4, <1>5, <1>6, <1>7, <1>8, RecStep

(* The reconciliation ends, and leaves the deliverable with the status it   *)
(* has then.                                                               *)
LEMMA EndStep ==
    ASSUME Core, pc' = "idle", rec' = None, UNCHANGED <<deps, deployed, tmpls>>,
           troubles \subseteq troubles', DlTypes', lost' \subseteq DOMAIN deps,
           Refers(dl'.status.dep, deps, deployed),
           \A i \in DOMAIN deps : i \in lost \cup Known(pc, rec, dl.status) =>
                                      i \in lost' \cup {dl'.status.dep.stamped}
    PROVE  Core'
<1>1. DepsTypes' /\ RecTypes' /\ Sound'
  BY DEF Core, DepsTypes, RecTypes, Sound
<1>2. Referred' /\ Progress'
  BY DEF Referred, Progress
<1>3. Known(pc', rec', dl'.status) = {dl'.status.dep.stamped}
  BY DEF Known
<1>4. Covered'
  BY <1>3 DEF Core, Covered
<1> QED BY <1>1, <1>2, <1>4 DEF Core

(* What the reconciliation refers to is there.                             *)
LEMMA InFlightFacts ==
    ASSUME Core
    PROVE  /\ InFlight \subseteq DOMAIN deps
           /\ \A i \in DOMAIN deps : i \in Known(pc, rec, dl.status) =>
                                         i \in InFlight \cup {dl.status.dep.stamped}
<1>1. CASE pc = "idle"
  BY <1>1 DEF InFlight, Known
<1>2. CASE pc # "idle"
  <2>1. /\ Staged(pc, rec, deps, tmpls, troubles) /\ rec.snap.status = dl.status
        /\ pc # "list" => Refers(rec.dep, deps, deployed)
    BY <1>2, RecFacts
  <2>2. rec.dep.stamped # None => rec.dep.stamped \in DOMAIN deps
    BY <2>1 DEF Staged, Refers
  <2>3. rec.orphans \subseteq {dl.status.dep.stamped}
    BY <2>1 DEF Staged, Orphaned
  <2>4. None \notin DOMAIN deps
    BY DepsFacts DEF Core
  <2>5. Known(pc, rec, dl.status) \subseteq {rec.dep.stamped, dl.status.dep.stamped}
    BY <1>2, <2>3 DEF Known
  <2> QED BY <1>2, <2>2, <2>4, <2>5 DEF InFlight
<1> QED BY <1>1, <1>2

(* The process restarts, in the middle of a reconciliation perhaps.        *)
LEMMA RestartStep ==
    ASSUME Core, Restart
    PROVE  Core'
<1>1. /\ pc' = "idle" /\ rec' = None /\ UNCHANGED <<dl, deps, deployed, tmpls>>
      /\ lost' = lost \cup InFlight /\ troubles \subseteq troubles'
  BY EditGrows DEF Restart, owner, Fault
<1>2. DlTypes' /\ lost \subseteq DOMAIN deps /\ Refers(dl'.status.dep, deps, deployed)
  BY <1>1 DEF Core, DlTypes, DepsTypes, Referred
<1> QED BY <1>1, <1>2, InFlightFacts, EndStep

(* completeReconciliation.                                                 *)
LEMMA CompleteStep ==
    ASSUME Core, StatusUpdated \/ StatusUpdateFails \/ StatusUnchanged
    PROVE  Core'
<1>1. /\ pc = "update" /\ pc' = "idle" /\ rec' = None /\ UNCHANGED <<deps, deployed, tmpls>>
      /\ troubles \subseteq troubles'
  BY EditGrows DEF StatusUpdated, StatusUpdateFails, StatusUnchanged, owner, Fault
<1>2. /\ RecTyped(rec, deps) /\ Staged(pc, rec, deps, tmpls, troubles)
      /\ rec.snap.status = dl.status /\ Refers(rec.dep, deps, deployed)
      /\ Refers(dl.status.dep, deps, deployed)
  BY <1>1, RecFacts
<1>3. Known(pc, rec, dl.status) = {rec.dep.stamped} /\ lost \subseteq DOMAIN deps /\ DlTypes
  BY <1>1, <1>2 DEF Known, Staged, Core, DepsTypes
<1>4. CASE StatusUpdated
  <2> DEFINE s == NewStatus
  <2>1. dl' = [dl EXCEPT !.status = s] /\ lost' = lost \ {s.dep.stamped} /\ troubles' = troubles
    BY <1>4 DEF StatusUpdated
  <2>2. StatusTyped(s) /\ s.dep = rec.dep
    BY <1>2 DEF NewStatus, StatusTyped, RecTyped, OwnerTyped, Conds
  <2> HIDE DEF s
  <2>3. OwnerTyped(dl') /\ dl'.gen = dl.gen /\ dl'.status = s
    BY <1>3, <2>1, <2>2 DEF DlTypes, OwnerTyped
  <2>4. DlTypes'
    BY <1>3, <2>1, <2>3 DEF DlTypes
  <2>5. /\ lost' \subseteq DOMAIN deps /\ Refers(dl'.status.dep, deps, deployed)
        /\ \A i \in DOMAIN deps : i \in lost \cup Known(pc, rec, dl.status) =>
                                      i \in lost' \cup {dl'.status.dep.stamped}
    BY <1>2, <1>3, <2>1, <2>2, <2>3
  <2> QED BY <1>1, <2>4, <2>5, EndStep
<1>5. CASE StatusUpdateFails
  <2>1. dl' = dl /\ lost' = lost \cup InFlight
    BY <1>5 DEF StatusUpdateFails, owner
  <2>2. DlTypes'
    BY <1>1, <1>3, <2>1 DEF DlTypes
  <2> QED BY <1>1, <1>2, <1>3, <2>1, <2>2, InFlightFacts, EndStep
<1>6. CASE StatusUnchanged
  <2>1. dl' = dl /\ lost' = IF rec.fresh THEN lost ELSE lost \cup InFlight
    BY <1>6 DEF StatusUnchanged, owner
  <2>2. DlTypes'
    BY <1>1, <1>3, <2>1 DEF DlTypes
  <2>3. NewStatus = dl.status
    BY <1>2, <1>6 DEF StatusUnchanged, StatusChanged
  <2>4. rec.dep = dl.status.dep
    BY <2>3 DEF NewStatus
  <2> QED BY <1>1, <1>2, <1>3, <2>1, <2>2, <2>4, InFlightFacts, EndStep
<1> QED BY <1>4, <1>5, <1>6
-----------------------------------------------------------------------------
(* Every step.                                                             *)

(* The steps that do not change the deliverable, its objects, its           *)
(* reconciliation and the templates.                                       *)
LEMMA NotOfDeliverable ==
    ASSUME \/ EditDelivery \/ EditAccount \/ \E first \in BOOLEAN : ReportRevision(first)
           \/ DeliverDelivery \/ Resync \/ \E k \in events : DeliverEvent(k)
           \/ BlueprintSteps \/ BlueprintFaults
           \/ GetDeliverableFails \/ DeliverableGone
           \/ UNCHANGED vars
    PROVE  UNCHANGED <<dl, deps, pc, rec, deployed, lost, tmpls>> /\ troubles \subseteq troubles'
<1>1. CASE EditDelivery
  BY <1>1, EditGrows DEF EditDelivery, owner
<1>2. CASE EditAccount
  BY <1>2, EditGrows DEF EditAccount
<1>3. CASE \E first \in BOOLEAN : ReportRevision(first)
  BY <1>3, EditGrows DEF ReportRevision
<1>4. CASE DeliverDelivery
  BY <1>4 DEF DeliverDelivery, owner, history
<1>5. CASE Resync
  BY <1>5 DEF Resync, owner, history
<1>6. CASE \E k \in events : DeliverEvent(k)
  BY <1>6 DEF DeliverEvent, owner, history
<1>7. CASE BlueprintSteps
  BY <1>7 DEF BlueprintSteps, owner, history
<1>8. CASE BlueprintFaults
  BY <1>8, EditGrows DEF BlueprintFaults, owner, Fault
<1>9. CASE GetDeliverableFails
  BY <1>9, EditGrows DEF GetDeliverableFails, owner, Fault
<1>10. CASE DeliverableGone
  BY <1>10 DEF DeliverableGone, owner, history
<1>11. CASE UNCHANGED vars
  BY <1>11 DEF vars, owner, history
<1> QED BY <1>1, <1>2, <1>3, <1>4, <1>5, <1>6, <1>7, <1>8, <1>9, <1>10, <1>11

(* Every step preserves what is known of the deliverable and its objects.  *)
LEMMA CoreNext ==
    ASSUME Core, ApiTypes, BlueprintTypes, [Next]_vars
    PROVE  Core'
<1>1. CASE \/ EditDelivery \/ EditAccount \/ \E first \in BOOLEAN : ReportRevision(first)
           \/ DeliverDelivery \/ Resync \/ \E k \in events : DeliverEvent(k)
           \/ BlueprintSteps \/ BlueprintFaults
           \/ GetDeliverableFails \/ DeliverableGone
           \/ UNCHANGED vars
  BY <1>1, NotOfDeliverable, QuietStep
<1>2. CASE \/ \E l \in Labels, spec \in BOOLEAN : EditDeliverable(l, spec)
           \/ DeleteDeliverable
  BY <1>2, EditDeliverableStep
<1>3. CASE \/ \E t \in DeploymentTemplates, c \in DeploymentContents \cup {None} : EditTemplate(t, c)
           \/ \E c \in {SourceContent, None} : EditTemplate(SourceTemplate, c)
  BY <1>3, NoneIsNone, EditTemplateStep
<1>4. CASE \E i \in DOMAIN deps : BeginDeployment(i) \/ EndDeployment(i)
  BY <1>4, DeploymentStep
<1>5. CASE Restart
  BY <1>5, RestartStep
<1>6. CASE GetDeliverable \/ GetDelivery \/ GetServiceAccount \/ DoSource \/ DoWithoutObject
  BY <1>6, GetDeliverableStep, GetDeliveryStep, GetServiceAccountStep, DoSourceStep,
     DoWithoutObjectStep
<1>7. CASE DoMutable \/ EnsureImmutable \/ ListImmutable \/ DeleteRuns
  BY <1>7, DoMutableStep, EnsureImmutableStep, ListImmutableStep, DeleteRunsStep
<1>8. CASE \/ TrackDependencies \/ FindOrphans \/ \E i \in DOMAIN deps : DeleteOrphan(i)
           \/ WatchStamped
  BY <1>8, TrackDependenciesStep, FindOrphansStep, DeleteOrphanStep, WatchStampedStep
<1>9. CASE StatusUpdated \/ StatusUpdateFails \/ StatusUnchanged
  BY <1>9, CompleteStep
<1> QED BY <1>1, <1>2, <1>3, <1>4, <1>5, <1>6, <1>7, <1>8, <1>9
        DEF Next, Environment, Runtime, Reconcile

(* The steps that do not change the templates, the account and the source. *)
LEMMA NotOfApi ==
    ASSUME \/ \E l \in Labels, spec \in BOOLEAN : EditDeliverable(l, spec)
           \/ DeleteDeliverable \/ EditDelivery
           \/ \E i \in DOMAIN deps : BeginDeployment(i) \/ EndDeployment(i)
           \/ Runtime \/ BlueprintSteps \/ BlueprintFaults
           \/ Reconcile /\ ~DoSource
           \/ UNCHANGED vars
    PROVE  UNCHANGED <<tmpls, account, src>>
<1>1. CASE \/ \E l \in Labels, spec \in BOOLEAN : EditDeliverable(l, spec)
           \/ DeleteDeliverable \/ EditDelivery
           \/ \E i \in DOMAIN deps : BeginDeployment(i) \/ EndDeployment(i)
  BY <1>1 DEF EditDeliverable, DeleteDeliverable, EditDelivery, BeginDeployment, EndDeployment, owner
<1>2. CASE Runtime \/ BlueprintSteps \/ BlueprintFaults
  BY <1>2 DEF Runtime, DeliverDelivery, Resync, Restart, DeliverEvent, BlueprintSteps,
     BlueprintFaults, owner
<1>3. CASE GetDeliverableFails \/ DeliverableGone \/ GetDeliverable \/ GetDelivery \/ GetServiceAccount
  BY <1>3 DEF GetDeliverableFails, DeliverableGone, GetDeliverable, GetDelivery, GetServiceAccount, owner
<1>4. CASE DoWithoutObject \/ DoMutable \/ EnsureImmutable \/ ListImmutable \/ DeleteRuns
  BY <1>4 DEF DoWithoutObject, DoMutable, EnsureImmutable, ListImmutable, DeleteRuns, owner
<1>5. CASE \/ TrackDependencies \/ FindOrphans \/ \E i \in DOMAIN deps : DeleteOrphan(i)
           \/ WatchStamped
  BY <1>5 DEF TrackDependencies, FindOrphans, DeleteOrphan, WatchStamped, owner
<1>6. CASE StatusUpdated \/ StatusUpdateFails \/ StatusUnchanged
  BY <1>6 DEF StatusUpdated, StatusUpdateFails, StatusUnchanged, owner
<1>7. CASE UNCHANGED vars
  BY <1>7 DEF vars, owner
<1> QED BY <1>1, <1>2, <1>3, <1>4, <1>5, <1>6, <1>7 DEF Reconcile

(* Every step preserves the types of the templates, the account and the     *)
(* source.                                                                 *)
LEMMA ApiNext ==
    ASSUME ApiTypes, [Next]_vars
    PROVE  ApiTypes'
<1>1. ASSUME NEW t \in DeploymentTemplates, NEW c \in DeploymentContents \cup {None}, EditTemplate(t, c)
      PROVE  ApiTypes'
  <2>1. tmpls' = [tmpls EXCEPT ![t] = c] /\ UNCHANGED <<account, src>>
    BY <1>1 DEF EditTemplate, owner
  <2> QED BY <2>1, NoneIsNone DEF ApiTypes
<1>2. ASSUME NEW c \in {SourceContent, None}, EditTemplate(SourceTemplate, c)
      PROVE  ApiTypes'
  <2>1. tmpls' = [tmpls EXCEPT ![SourceTemplate] = c] /\ UNCHANGED <<account, src>>
    BY <1>2 DEF EditTemplate, owner
  <2> QED BY <2>1, NoneIsNone DEF ApiTypes
<1>3. CASE EditAccount
  <2>1. account' = ~account /\ UNCHANGED <<tmpls, src>>
    BY <1>3 DEF EditAccount
  <2> QED BY <2>1 DEF ApiTypes
<1>4. ASSUME NEW first \in BOOLEAN, ReportRevision(first)
      PROVE  ApiTypes'
  <2>1. /\ src # None /\ UNCHANGED <<tmpls, account>>
        /\ \/ src' = [src EXCEPT !.out = 1]
           \/ src.out # None /\ src.out < MaxRev /\ src' = [src EXCEPT !.out = src.out + 1]
    BY <1>4 DEF ReportRevision
  <2>2. 1 \in Revs /\ (src.out # None /\ src.out < MaxRev => src.out + 1 \in Revs)
    BY <2>1, DeliverableAssumption DEF ApiTypes, Revs
  <2>3. DOMAIN src' = {"out"} /\ src'.out \in Revs
    BY <2>1, <2>2 DEF ApiTypes
  <2> QED BY <2>1, <2>3 DEF ApiTypes
<1>5. CASE DoSource
  <2>1. UNCHANGED <<tmpls, account>> /\ (src' = src \/ src' = [out |-> None])
    BY <1>5 DEF DoSource
  <2>2. src' # None => DOMAIN src' = {"out"} /\ src'.out \in Revs \cup {None}
    BY <2>1 DEF ApiTypes
  <2> QED BY <2>1, <2>2 DEF ApiTypes
<1>6. CASE UNCHANGED <<tmpls, account, src>>
  BY <1>6 DEF ApiTypes
<1> QED BY <1>1, <1>2, <1>3, <1>4, <1>5, <1>6, NotOfApi DEF Next, Environment

(* The queue of the deliverable.                                           *)
LEMMA QueueNext ==
    ASSUME queue \in BOOLEAN, dl.exists \in BOOLEAN, [Next]_vars
    PROVE  queue' \in BOOLEAN
<1>1. CASE \/ \E l \in Labels, spec \in BOOLEAN : EditDeliverable(l, spec)
           \/ DeleteDeliverable \/ EditDelivery \/ EditAccount
           \/ \E t \in DeploymentTemplates, c \in DeploymentContents \cup {None} : EditTemplate(t, c)
           \/ \E c \in {SourceContent, None} : EditTemplate(SourceTemplate, c)
  BY <1>1 DEF EditDeliverable, DeleteDeliverable, EditDelivery, EditAccount, EditTemplate, NewVersion,
     manager
<1>2. CASE \/ \E first \in BOOLEAN : ReportRevision(first)
           \/ \E i \in DOMAIN deps : BeginDeployment(i) \/ EndDeployment(i)
  BY <1>2 DEF ReportRevision, BeginDeployment, EndDeployment, StampedEvent
<1>3. CASE Runtime \/ BlueprintSteps \/ BlueprintFaults \/ UNCHANGED vars
  BY <1>3 DEF Runtime, DeliverDelivery, Resync, Restart, DeliverEvent, BlueprintSteps,
     BlueprintFaults, manager, vars
<1>4. CASE GetDeliverableFails \/ DeliverableGone \/ GetDeliverable \/ GetDelivery \/ GetServiceAccount
  BY <1>4 DEF GetDeliverableFails, DeliverableGone, GetDeliverable, GetDelivery, GetServiceAccount,
     manager
<1>5. CASE DoSource \/ DoWithoutObject \/ ListImmutable \/ DeleteRuns
  BY <1>5 DEF DoSource, DoWithoutObject, ListImmutable, DeleteRuns, StampedEvent, manager
<1>6. CASE DoMutable \/ EnsureImmutable
  BY <1>6 DEF DoMutable, EnsureImmutable, ApplyFails, StampedEvent
<1>7. CASE \/ TrackDependencies \/ FindOrphans \/ \E i \in DOMAIN deps : DeleteOrphan(i)
           \/ WatchStamped
  BY <1>7 DEF TrackDependencies, FindOrphans, DeleteOrphan, WatchStamped, StampedEvent, manager
<1>8. CASE StatusUpdated \/ StatusUpdateFails \/ StatusUnchanged
  BY <1>8 DEF StatusUpdated, StatusUpdateFails, StatusUnchanged
<1> QED BY <1>1, <1>2, <1>3, <1>4, <1>5, <1>6, <1>7, <1>8 DEF Next, Environment, Reconcile

(* The events of templates and accounts.                                   *)
LEMMA EventsNext ==
    ASSUME events \subseteq Templates \cup {SA}, [Next]_vars
    PROVE  events' \subseteq Templates \cup {SA}
<1>1. CASE \/ \E l \in Labels, spec \in BOOLEAN : EditDeliverable(l, spec)
           \/ DeleteDeliverable \/ EditDelivery \/ EditAccount
           \/ \E first \in BOOLEAN : ReportRevision(first)
           \/ \E i \in DOMAIN deps : BeginDeployment(i) \/ EndDeployment(i)
  BY <1>1 DEF EditDeliverable, DeleteDeliverable, EditDelivery, EditAccount, ReportRevision,
     BeginDeployment, EndDeployment, manager
<1>2. CASE \/ \E t \in DeploymentTemplates, c \in DeploymentContents \cup {None} : EditTemplate(t, c)
           \/ \E c \in {SourceContent, None} : EditTemplate(SourceTemplate, c)
  BY <1>2, NoneIsNone DEF EditTemplate, TemplateChanged
<1>3. CASE Runtime \/ BlueprintSteps \/ BlueprintFaults \/ UNCHANGED vars
  BY <1>3 DEF Runtime, DeliverDelivery, Resync, Restart, DeliverEvent, DeliverTemplate,
     BlueprintSteps, BlueprintFaults, manager, vars
<1>4. CASE Reconcile
  <2>1. events' = events
    BY <1>4, NotOfDelivery
  <2> QED BY <2>1
<1> QED BY <1>1, <1>2, <1>3, <1>4 DEF Next, Environment

(* What is tracked for the deliverable.                                    *)
LEMMA TrackedNext ==
    ASSUME tracked \subseteq Templates \cup {SA}, Core, [Next]_vars
    PROVE  tracked' \subseteq Templates \cup {SA}
<1>1. CASE Environment
  BY <1>1 DEF Environment, EditDeliverable, DeleteDeliverable, EditDelivery, EditAccount, ReportRevision,
     BeginDeployment, EndDeployment, EditTemplate, manager
<1>2. CASE Runtime \/ BlueprintSteps \/ BlueprintFaults \/ UNCHANGED vars
  BY <1>2 DEF Runtime, DeliverDelivery, Resync, Restart, DeliverEvent,
     BlueprintSteps, BlueprintFaults, manager, vars
<1>3. CASE GetDeliverableFails \/ DeliverableGone \/ GetDeliverable \/ GetDelivery \/ GetServiceAccount
  BY <1>3 DEF GetDeliverableFails, DeliverableGone, GetDeliverable, GetDelivery, GetServiceAccount,
     manager
<1>4. CASE DoSource \/ DoWithoutObject \/ DoMutable \/ EnsureImmutable \/ ListImmutable \/ DeleteRuns
  BY <1>4 DEF DoSource, DoWithoutObject, DoMutable, EnsureImmutable, ListImmutable, DeleteRuns, manager
<1>5. CASE TrackDependencies
  <2>1. tracked' = {SA} \cup ({rec.src.tmpl, rec.dep.tmpl} \ {None}) /\ pc # "idle"
    BY <1>5 DEF TrackDependencies
  <2>2. rec.src.tmpl \in Templates \cup {None} /\ rec.dep.tmpl \in Templates \cup {None}
    BY <2>1, RecFacts DEF RecTyped, ResourceTyped, IsResource
  <2> QED BY <2>1, <2>2
<1>6. CASE FindOrphans \/ WatchStamped \/ \E i \in DOMAIN deps : DeleteOrphan(i)
  BY <1>6 DEF FindOrphans, DeleteOrphan, WatchStamped, manager
<1>7. CASE StatusUpdated \/ StatusUpdateFails \/ StatusUnchanged
  BY <1>7 DEF StatusUpdated, StatusUpdateFails, StatusUnchanged
<1> QED BY <1>1, <1>2, <1>3, <1>4, <1>5, <1>6, <1>7 DEF Next, Reconcile

(* The watches, and the cache of submitted objects.                        *)
LEMMA CachesNext ==
    ASSUME ManagerTypes, Core, [Next]_vars
    PROVE  /\ watching' \subseteq {"source", "deployment"}
           /\ submitted' \in [DeploymentTemplates -> Revs \cup {None}]
<1>1. CASE Environment
  <2>1. UNCHANGED <<watching, submitted>>
    BY <1>1 DEF Environment, EditDeliverable, DeleteDeliverable, EditDelivery, EditAccount,
       ReportRevision, BeginDeployment, EndDeployment, EditTemplate, manager
  <2> QED BY <2>1 DEF ManagerTypes
<1>2. CASE Restart
  BY <1>2 DEF Restart
<1>3. CASE \/ DeliverDelivery \/ Resync \/ \E k \in events : DeliverEvent(k)
           \/ BlueprintSteps \/ BlueprintFaults \/ UNCHANGED vars
  <2>1. UNCHANGED <<watching, submitted>>
    BY <1>3 DEF DeliverDelivery, Resync, DeliverEvent, BlueprintSteps, BlueprintFaults, manager, vars
  <2> QED BY <2>1 DEF ManagerTypes
<1>4. CASE GetDeliverableFails \/ DeliverableGone \/ GetDeliverable \/ GetDelivery \/ GetServiceAccount
  <2>1. UNCHANGED <<watching, submitted>>
    BY <1>4 DEF GetDeliverableFails, DeliverableGone, GetDeliverable, GetDelivery, GetServiceAccount,
       manager
  <2> QED BY <2>1 DEF ManagerTypes
<1>5. CASE DoSource \/ DoWithoutObject \/ DoMutable \/ ListImmutable \/ DeleteRuns
  <2>1. UNCHANGED <<watching, submitted>>
    BY <1>5 DEF DoSource, DoWithoutObject, DoMutable, ListImmutable, DeleteRuns, manager
  <2> QED BY <2>1 DEF ManagerTypes
<1>6. CASE EnsureImmutable
  <2>1. /\ UNCHANGED watching /\ pc = "deployment" /\ rec.input # None
        /\ \/ UNCHANGED submitted
           \/ submitted' = [submitted EXCEPT ![rec.tmpl] = rec.input]
    BY <1>6 DEF EnsureImmutable, BuildOwnerDiscriminant, Stampable
  <2>2. rec.input \in Revs
    BY <2>1, RecFacts DEF RecTyped
  <2> QED BY <2>1, <2>2 DEF ManagerTypes
<1>7. CASE WatchStamped
  <2>1. UNCHANGED submitted /\ watching' \subseteq {"source", "deployment"} \cup watching
    BY <1>7 DEF WatchStamped
  <2> QED BY <2>1 DEF ManagerTypes
<1>8. CASE \/ TrackDependencies \/ FindOrphans \/ \E i \in DOMAIN deps : DeleteOrphan(i)
           \/ StatusUpdated \/ StatusUpdateFails \/ StatusUnchanged
  <2>1. UNCHANGED <<watching, submitted>>
    BY <1>8 DEF TrackDependencies, FindOrphans, DeleteOrphan, StatusUpdated, StatusUpdateFails,
       StatusUnchanged, manager
  <2> QED BY <2>1 DEF ManagerTypes
<1> QED BY <1>1, <1>2, <1>3, <1>4, <1>5, <1>6, <1>7, <1>8 DEF Next, Runtime, Reconcile

(* Every step preserves the types of the manager's state.                  *)
LEMMA ManagerNext ==
    ASSUME ManagerTypes, Core, [Next]_vars
    PROVE  ManagerTypes'
<1>1. dl.exists \in BOOLEAN
  BY DEF Core, DlTypes, OwnerTyped
<1>2. queue' \in BOOLEAN
  BY <1>1, QueueNext DEF ManagerTypes
<1>3. events' \subseteq Templates \cup {SA}
  BY EventsNext DEF ManagerTypes
<1>4. tracked' \subseteq Templates \cup {SA}
  BY TrackedNext DEF ManagerTypes
<1> QED BY <1>2, <1>3, <1>4, CachesNext DEF ManagerTypes
-----------------------------------------------------------------------------
(* The theorems.                                                           *)

(* The first state of the delivery.                                        *)
LEMMA BlueprintInitFacts ==
    ASSUME Init
    PROVE  BlueprintTypes /\ Blueprint /\ ApiTypes
<1> DEFINE refs == <<SourceTemplate, FirstDeployment>>
<1>1. PICK new \in BOOLEAN : /\ BlueprintInit(refs, new)
                             /\ dl = [exists |-> ~new, gen |-> 1, labels |-> "match", status |-> NoStatus]
  BY DEF Init
<1>2. PICK c \in DeploymentContents \cup {None} :
         /\ tmpls = [t \in Templates |-> IF t = SourceTemplate THEN SourceContent ELSE c]
         /\ ~new => c \in DeploymentContents
  BY <1>1, DeliverableAssumption DEF Init
<1>3. ApiTypes
  BY <1>2, NoneIsNone DEF Init, ApiTypes
<1>4. /\ refs \in Seq(Templates) /\ Len(refs) = 2 /\ refs[1] = SourceTemplate
      /\ refs[2] \in DeploymentTemplates /\ DOMAIN refs = 1..2
      /\ FirstDeployment # SourceTemplate
  BY DeliverableAssumption
<1>14. \A j \in 1..2 : refs[j] \in Templates
  <2>1. \A j \in 1..2 : j = 1 \/ j = 2
    OBVIOUS
  <2>2. refs[1] \in Templates /\ refs[2] \in Templates
    BY <1>4, NoneIsNone
  <2> HIDE DEF refs
  <2> QED BY <2>1, <2>2
<1> HIDE DEF refs
<1>5. /\ bp = [exists |-> TRUE, gen |-> 1, refs |-> refs,
               status |-> IF new THEN [gen |-> 0, ready |-> None] ELSE [gen |-> 1, ready |-> "Ready"]]
      /\ bcache = [bp EXCEPT !.exists = ~new]
      /\ btracked = IF new THEN {} ELSE {refs[i] : i \in DOMAIN refs}
      /\ bqueue = FALSE /\ bpc = "idle" /\ brec = None /\ missed = FALSE
  BY <1>1 DEF BlueprintInit
<1>6. /\ DOMAIN bp = {"exists", "gen", "refs", "status"} /\ bp.exists = TRUE /\ bp.gen = 1 /\ bp.refs = refs
      /\ DOMAIN bcache = {"exists", "gen", "refs", "status"} /\ bcache.exists = ~new /\ bcache.gen = 1
      /\ bcache.refs = refs /\ bcache.status = bp.status
      /\ bp.status = IF new THEN [gen |-> 0, ready |-> None] ELSE [gen |-> 1, ready |-> "Ready"]
  BY <1>5
<1>7. /\ DOMAIN bp.status = {"gen", "ready"}
      /\ bp.status.gen = IF new THEN 0 ELSE 1
      /\ bp.status.ready = IF new THEN None ELSE "Ready"
  BY <1>6
<1>8. BlueprintTyped(bp) /\ BlueprintTyped(bcache)
  <2>1. /\ bp.status.gen \in Nat /\ bp.status.gen <= 1
        /\ bp.status.ready \in BlueprintReasons \cup {None}
    BY <1>7 DEF BlueprintReasons
  <2>2. /\ DOMAIN bp = {"exists", "gen", "refs", "status"} /\ bp.exists \in BOOLEAN /\ bp.gen = 1
        /\ bp.refs = refs
        /\ DOMAIN bcache = {"exists", "gen", "refs", "status"} /\ bcache.exists \in BOOLEAN
        /\ bcache.gen = 1 /\ bcache.refs = refs /\ bcache.status = bp.status
        /\ DOMAIN bp.status = {"gen", "ready"}
    BY <1>6, <1>7
  <2>3. /\ refs \in Seq(Templates) /\ Len(refs) = 2 /\ refs[1] = SourceTemplate
        /\ refs[2] \in DeploymentTemplates
    BY <1>4
  <2>4. BlueprintTyped(bp)
    BY <2>1, <2>2, <2>3 DEF BlueprintTyped
  <2>5. BlueprintTyped(bcache)
    BY <2>1, <2>2, <2>3 DEF BlueprintTyped
  <2> QED BY <2>4, <2>5
<1>9. btracked \subseteq Templates
  BY <1>4, <1>5, <1>14
<1>10. BlueprintTypes
  BY <1>5, <1>8, <1>9 DEF BlueprintTypes
<1>11. new => ~BlueprintIdle
  BY <1>6 DEF BlueprintIdle
<1>12. ASSUME ~new
       PROVE  /\ \A j \in 1..2 : bp.refs[j] \in btracked
              /\ Right(bp, tmpls)
  <2>1. \A j \in 1..2 : bp.refs[j] \in btracked
    BY <1>4, <1>5, <1>6, <1>12
  <2>3. c # None /\ SourceContent # None
    BY <1>2, <1>12, NoneIsNone, NoneAssumption
  <2>4. \A t \in Templates : tmpls[t] # None
    BY <1>2, <2>3
  <2>5. ~Missing(bp.refs, 2, tmpls)
    BY <1>6, <1>14, <2>4 DEF Missing
  <2> QED BY <1>6, <1>7, <1>12, <2>1, <2>5 DEF Right
<1>13. Blueprint
  <2>1. bcache.gen <= bp.gen /\ bpc = "idle"
    BY <1>5, <1>6
  <2> QED BY <1>11, <1>12, <2>1 DEF Blueprint
<1> QED BY <1>3, <1>10, <1>13

(* The first state of the deliverable.                                     *)
LEMMA CoreInit ==
    ASSUME Init
    PROVE  Core /\ ManagerTypes
<1>1. PICK new \in BOOLEAN :
         dl = [exists |-> ~new, gen |-> 1, labels |-> "match", status |-> NoStatus]
  BY DEF Init
<1>2. /\ DOMAIN dl = {"exists", "gen", "labels", "status"} /\ dl.exists = ~new /\ dl.gen = 1
      /\ dl.labels = "match" /\ dl.status = NoStatus
  BY <1>1
<1>3. /\ DOMAIN NoResource = {"known", "stamped", "tmpl", "out"} /\ NoResource.known = FALSE
      /\ NoResource.stamped = None /\ NoResource.tmpl = None /\ NoResource.out = None
  BY DEF NoResource
<1>4. /\ DOMAIN NoStatus = {"gen", "cond", "src", "dep"} /\ NoStatus.gen = 0 /\ NoStatus.cond = None
      /\ NoStatus.src = NoResource /\ NoStatus.dep = NoResource
  BY DEF NoStatus
<1>5. ResourceTyped(NoResource)
  BY <1>3 DEF ResourceTyped, IsResource
<1>6. StatusTyped(dl.status)
  BY <1>2, <1>4, <1>5 DEF StatusTyped, Conds
<1>7. DlTypes
  BY <1>2, <1>6 DEF DlTypes, OwnerTyped, Labels
<1>8. /\ deps = <<>> /\ deployed = {} /\ lost = {} /\ pc = "idle" /\ rec = None
      /\ events = {} /\ queue = dl.exists /\ tracked = {} /\ watching = {}
      /\ submitted = [d \in DeploymentTemplates |-> None]
  BY DEF Init
<1>9. DOMAIN deps = {} /\ DepsTypes
  BY <1>8, DeliverableAssumption DEF DepsTypes
<1>10. RecTypes /\ Sound /\ Progress /\ Covered
  BY <1>8, <1>9 DEF RecTypes, Sound, Progress, Covered
<1>11. Referred
  BY <1>2, <1>3, <1>4, <1>8 DEF Referred, Refers
<1>12. ManagerTypes
  BY <1>2, <1>8 DEF ManagerTypes
<1> QED BY <1>7, <1>9, <1>10, <1>11, <1>12 DEF Core

(* The invariant holds in every state of the specification.                *)
THEOREM Invariance == Spec => []IInv
<1>1. Init => IInv
  BY BlueprintInitFacts, CoreInit DEF IInv
<1>2. IInv /\ [Next]_vars => IInv'
  <2> SUFFICES ASSUME IInv, [Next]_vars
               PROVE  IInv'
    OBVIOUS
  <2>1. BlueprintTypes /\ Blueprint /\ ApiTypes /\ ManagerTypes /\ Core
    BY DEF IInv
  <2>2. BlueprintTypes' /\ Blueprint'
    BY <2>1, BlueprintNext DEF ApiTypes
  <2>3. ApiTypes' /\ ManagerTypes' /\ Core'
    BY <2>1, ApiNext, ManagerNext, CoreNext
  <2> QED BY <2>2, <2>3 DEF IInv
<1> QED BY <1>1, <1>2, PTL DEF Spec

(* The type invariant, for any templates, contents, revisions, objects and  *)
(* scenarios.                                                              *)
THEOREM TypesAreCorrect == Spec => []TypeOK
<1>1. IInv => TypeOK
  <2> SUFFICES ASSUME IInv
               PROVE  TypeOK
    OBVIOUS
  <2>1. BlueprintTypes /\ ApiTypes /\ ManagerTypes /\ DlTypes /\ DepsTypes /\ RecTypes /\ Sound
    BY DEF IInv, Core
  <2>2. ASSUME NEW b, BlueprintTyped(b)
        PROVE  IsBlueprint(b)
    BY <2>2, RefsFacts DEF BlueprintTyped, IsBlueprint
  <2>3. BlueprintTypeOK
    BY <2>1, <2>2 DEF BlueprintTypes, BlueprintTypeOK
  <2>4. tmpls \in [Templates -> DeploymentContents \cup {SourceContent, None}]
    BY <2>1 DEF ApiTypes
  <2>5. IsDeliverable(dl)
    BY <2>1 DEF DlTypes, OwnerTyped, StatusTyped, ResourceTyped, IsDeliverable, Conds
  <2>6. ASSUME NEW i \in DOMAIN deps
        PROVE  IsDeployment(deps[i])
    <3>1. deps[i] \in Deployments /\ SoundObject(i, deps[i], deployed)
      BY <2>1, DepsFacts DEF Sound
    <3>2. deps[i].gen \in Nat /\ deps[i].obs \in Nat /\ deps[i].gen # 0 /\ deps[i].obs <= deps[i].gen
      BY <3>1, DeploymentFields DEF SoundObject
    <3>3. deps[i].gen \in Nat \ {0} /\ deps[i].obs \in 0..deps[i].gen
      BY <3>2
    <3> QED BY <3>1, <3>3, DeploymentFields DEF IsDeployment
  <2>7. pc # "idle" => /\ IsResource(rec.src) /\ IsResource(rec.dep)
                       /\ rec.doomed \cup rec.orphans \subseteq DOMAIN deps
    BY <2>1 DEF RecTypes, RecTyped, ResourceTyped
  <2>8. src = None \/ src.out \in Revs \cup {None}
    BY <2>1 DEF ApiTypes
  <2> QED BY <2>1, <2>3, <2>4, <2>5, <2>6, <2>7, <2>8
          DEF TypeOK, ApiTypes, ManagerTypes, DepsTypes, RecTypes
<1> QED BY <1>1, Invariance, PTL

(* The Ready condition of a settled delivery, or supply chain, says whether *)
(* the templates that it names now are there now, unless one was changed   *)
(* between being read and being tracked for the first time: for any        *)
(* templates, and any order of edits, events, failed calls and restarts    *)
(* (delivery_reconciler.go).                                               *)
THEOREM DeliveryConditionIsRight == Spec => []BlueprintIsRight
<1>1. IInv => BlueprintIsRight
  <2> SUFFICES ASSUME IInv, BlueprintSettled, ~missed
               PROVE  /\ bp.status.gen = bp.gen
                      /\ bp.status.ready = IF \A i \in DOMAIN bp.refs : tmpls[bp.refs[i]] # None
                                           THEN "Ready" ELSE "TemplatesNotFound"
    BY DEF BlueprintIsRight
  <2>1. Pending(bp.refs, 2, events, btracked) \/ Right(bp, tmpls)
    BY DEF IInv, Blueprint, BlueprintSettled
  <2>2. ~Pending(bp.refs, 2, events, btracked)
    BY DEF Pending, BlueprintSettled
  <2>3. DOMAIN bp.refs = 1..2
    BY RefsFacts DEF IInv, BlueprintTypes
  <2> QED BY <2>1, <2>2, <2>3 DEF Right, Missing
<1> QED BY <1>1, Invariance, PTL

(* A revision that the status passes on was really deployed by the mutable  *)
(* object behind it, whatever was patched, edited, failed or restarted in  *)
(* between (outputReady and the DeploymentPassThroughReader of             *)
(* stamp/reader.go).                                                       *)
THEOREM ReportedAreDeployed == Spec => []ReportedIsDeployed
<1>1. IInv => ReportedIsDeployed
  BY DEF IInv, Core, Referred, Refers, ReportedIsDeployed, Reported
<1> QED BY <1>1, Invariance, PTL

(* Once the deliverable has settled no mutable object is forgotten: the     *)
(* status names it, or its name never got there or its clean-up was cut    *)
(* short (cleanupOrphanedObjects of deliverable_reconciler.go).            *)
THEOREM NothingIsForgotten == Spec => []NoForgottenDeployment
<1>1. IInv => NoForgottenDeployment
  <2> SUFFICES ASSUME IInv, Settled, NEW i \in Kept \ lost, deps[i].life = "mutable"
               PROVE  i = dl.status.dep.stamped
    BY DEF NoForgottenDeployment
  <2>1. i \in Known(pc, rec, dl.status)
    BY DEF IInv, Core, Covered, Kept
  <2> QED BY <2>1 DEF Known, Settled, Idle
<1> QED BY <1>1, Invariance, PTL

(* cleanupOrphanedObjects never deletes an immutable object of the template *)
(* that the resource uses, as long as that is what it was.                 *)
THEOREM OnlyUnusedAreDeleted == Spec => OrphansAreUnused
<1>1. IInv /\ [Next]_vars =>
        [\A i \in DOMAIN deps :
           (DeleteOrphan(i) /\ deps'[i].fate # deps[i].fate) =>
               ~(deps[i].life = "immutable" /\ deps[i].tmpl = rec.dep.tmpl
                     /\ tmpls[rec.dep.tmpl] = rec.content)]_vars
  <2> SUFFICES ASSUME IInv, NEW i \in DOMAIN deps, DeleteOrphan(i), deps'[i].fate # deps[i].fate,
                      deps[i].life = "immutable", deps[i].tmpl = rec.dep.tmpl
               PROVE  tmpls[rec.dep.tmpl] # rec.content
    OBVIOUS
  <2>1. pc = "delete" /\ i \in rec.orphans /\ deps[i].fate = "kept"
    BY DEF DeleteOrphan
  <2>2. Orphaned(rec, deps, tmpls, troubles)
    BY <2>1 DEF IInv, Core, Progress, Staged
  <2> QED BY <2>1, <2>2 DEF Orphaned
<1> QED BY <1>1, Invariance, PTL DEF Spec, OrphansAreUnused
=============================================================================
