---------------------- MODULE WorkloadReconcilerProofs ----------------------
(***************************************************************************)
(* Proofs about the workload reconciler, for every supply chain, template, *)
(* object and bound: the safety properties of WorkloadReconciler, from one *)
(* inductive invariant in six parts.                                       *)
(*                                                                         *)
(*   Types       the type invariant, down to the reconciliation's record;  *)
(*   Versions    which copies of the workload are equal;                   *)
(*   Pairs       a recorded object has its template recorded with it;      *)
(*   Progress    what a reconciliation has established at each step;       *)
(*   Cleaning    where every object on the cluster is still referred to;   *)
(*   Settlement  what a settled workload promises.                         *)
(***************************************************************************)
EXTENDS WorkloadReconciler, TLAPS

StatusTyped(s) ==
    /\ DOMAIN s = {"gen", "cond", "res"}
    /\ s.gen \in 0..MaxGen
    /\ s.cond \in Reasons \cup {"ResourcesSubmitted", None}
    /\ IsStatusList(s.res)

OwnerTyped(w) ==
    /\ DOMAIN w = {"exists", "gen", "status"}
    /\ w.exists \in BOOLEAN
    /\ w.gen \in 1..MaxGen
    /\ StatusTyped(w.status)

ListTyped(list) ==
    /\ list \in Seq(Resources)
    /\ \A i, j \in DOMAIN list : i # j => list[i].name # list[j].name
    /\ \A i \in DOMAIN list : list[i].tmpl = PassThrough => list[i].needs # None

RecTyped(r) ==
    /\ DOMAIN r = {"snap", "fresh", "list", "i", "cur", "outs", "cond", "full",
                   "requeue", "orphans"}
    /\ OwnerTyped(r.snap) /\ r.snap.exists = TRUE
    /\ r.fresh \in BOOLEAN
    /\ ListTyped(r.list)
    /\ r.i \in Nat /\ 1 <= r.i /\ r.i <= Len(r.list) + 1
    /\ IsStatusList(r.cur)
    /\ r.outs \in [Names -> Outs \cup {None}]
    /\ r.cond \in Reasons \cup {None}
    /\ r.full \in BOOLEAN /\ r.requeue \in BOOLEAN
    /\ r.orphans \subseteq Objects

\* An object on the cluster.
ObjectTyped(o) == DOMAIN o = {"spec", "out"} /\ o.out \in Outs \cup {None}

ObjectsTyped ==
    /\ DOMAIN objs = Objects
    /\ \A n \in Objects : objs[n] # None => ObjectTyped(objs[n])

ApiTyped ==
    /\ OwnerTyped(wl)
    /\ sel \in Selections
    /\ tmpls \in [Templates -> Contents \cup {None}]
    /\ sa \in BOOLEAN /\ allowed \in BOOLEAN
    /\ ObjectsTyped

ManagerTyped ==
    /\ OwnerTyped(cache)
    /\ synced \in BOOLEAN /\ queue \in BOOLEAN
    /\ events \subseteq Templates \cup Objects \cup {SA, SC}
    /\ tracked \subseteq Templates \cup {SA}
    /\ watching \subseteq Objects

RestTyped ==
    /\ excused \subseteq Objects
    /\ edits \in 0..MaxEdits /\ faults \in 0..MaxFaults

ReconciliationTyped ==
    /\ pc \in Steps \cup {"idle"}
    /\ pc = "idle" => rec = None
    /\ pc # "idle" => RecTyped(rec)

Types == ApiTyped /\ ManagerTyped /\ RestTyped /\ ReconciliationTyped

\* The informer's copy is the workload once it is synced; what a reconciliation
\* has read is the workload as long as nobody wrote it, and the informer's copy
\* as long as no newer one was delivered; a workload that is gone is forgotten.
Versions ==
    /\ synced => cache = wl
    /\ pc # "idle" /\ rec.fresh => rec.snap = wl
    /\ pc # "idle" => queue \/ rec.snap = cache
    /\ pc = "idle" /\ ~queue /\ ~cache.exists => tracked = {}

Paired(res) == \A n \in DOMAIN res : res[n].stamped # None => res[n].tmpl # None

Pairs ==
    /\ Paired(wl.status.res) /\ Paired(cache.status.res)
    /\ pc # "idle" => Paired(rec.cur) /\ Paired(rec.snap.status.res)

\* What is known of the resource at place j of the list once it is done.
DoneWell(r, o, j) ==
    LET x == r.list[j] IN
    /\ x.name \in DOMAIN r.cur
    /\ r.cond = None => r.cur[x.name].err = None
    /\ (x.tmpl \in Templates /\ r.cur[x.name].err = None) =>
          LET n == r.cur[x.name].stamped
          IN  n \in Objects /\ (o[n] # None => o[n].spec.gen = r.snap.gen)

DoneNames(r) == {r.list[j].name : j \in 1..(r.i - 1)}

Listed(r, o) == r.full =>
    /\ DOMAIN r.cur = DoneNames(r)
    /\ \A j \in 1..(r.i - 1) : DoneWell(r, o, j)

Early == {"select", "account"}
Late == {"track", "orphans", "delete"}

\* What step p of a reconciliation r rests on, t being what is tracked.
Staged(p, r, t) ==
    /\ p \in Early => ~r.full /\ r.cond = None
    /\ p \in Late \cup {"realize"} => r.full
    /\ ~r.full => DOMAIN r.cur = {} /\ r.i = 1
    /\ p = "update" /\ ~r.full => r.cond \in EarlyReasons
    /\ p \in Late \cup {"update"} => (r.cond \in UnhandledReasons => r.requeue)
    /\ p \in Late \cup {"update"} /\ r.full => r.i = Len(r.list) + 1
    /\ p \in {"orphans", "delete", "update"} /\ r.full => Dependencies(r.cur) \subseteq t

\* The list that is realized is the one selected now, s, or another
\* reconciliation is to come: a change of the chain is among the events e, or
\* the workload is in the queue already, k.
Selected(p, r, s, e, k) == p = "account" \/ r.full => r.list = s.list \/ SC \in e \/ k

Progress == pc # "idle" =>
    /\ Staged(pc, rec, tracked)
    /\ Listed(rec, objs)
    /\ Selected(pc, rec, sel, events, queue)

\* A resource that had an object before this reconciliation has one after it.
Kept(r) ==
    LET prev == r.snap.status.res IN
    \A x \in DOMAIN r.cur \cap DOMAIN prev :
        prev[x].stamped # None => r.cur[x].stamped # None

\* The objects to delete are previous ones that no resource refers to now.
Orphaned(p, r) ==
    /\ r.orphans \subseteq Orphans(r.snap.status.res, r.cur)
    /\ p # "delete" => r.orphans = {}

\* Of those, the ones that are still there are to be deleted or excused; o are
\* the objects, e the excused ones.
Swept(p, r, o, e) ==
    p \in {"delete", "update"} /\ r.full =>
        \A n \in Orphans(r.snap.status.res, r.cur) \cap Objects :
            o[n] # None => n \in e \cup r.orphans

Cleaning ==
    /\ pc # "idle" => Kept(rec) /\ Orphaned(pc, rec) /\ Swept(pc, rec, objs, excused)
    /\ \A n \in Objects : objs[n] # None =>
          \/ n \in excused \cup Refs(wl.status.res)
          \/ pc # "idle" /\ n \in Refs(rec.cur)

Settlement == SettledIsObserved /\ SettledIsTracked /\ SubmittedMeansApplied

IInv == Types /\ Versions /\ Pairs /\ Progress /\ Cleaning /\ Settlement

-----------------------------------------------------------------------------
(* The type invariant.                                                     *)

\* Every reason is a reason or None, and the strings that stand for a step, a
\* condition or a key are different.
LEMMA NoneIsNoReason == None \notin Reasons /\ None \notin Templates /\ None \notin Objects
BY InstanceAssumption

\* What the type invariant of the specification asks for is part of Types.
LEMMA TypesGiveTypeOK == Types => TypeOK
<1>1. ASSUME NEW w, OwnerTyped(w) PROVE IsWorkload(w)
  BY <1>1 DEF OwnerTyped, StatusTyped, IsWorkload, IsStatus
<1>2. ApiTyped /\ ManagerTyped /\ RestTyped => /\ IsWorkload(wl) /\ IsWorkload(cache)
  BY <1>1 DEF ApiTyped, ManagerTyped
<1>3. ReconciliationTyped /\ pc # "idle" =>
          /\ IsWorkload(rec.snap) /\ IsStatusList(rec.cur)
          /\ rec.orphans \subseteq Objects
          /\ rec.cond \in Reasons \cup {None}
  BY <1>1 DEF ReconciliationTyped, RecTyped
<1> QED BY <1>2, <1>3 DEF Types, ApiTyped, ManagerTyped, RestTyped, ReconciliationTyped, TypeOK

\* The initial states are typed.
LEMMA InitTypes == Init => Types
<1> SUFFICES ASSUME Init PROVE Types OBVIOUS
<1>1. StatusTyped(NoStatus)
  BY BoundsAssumption DEF StatusTyped, NoStatus, IsStatusList
<1>2. OwnerTyped(wl) /\ OwnerTyped(cache)
  <2> USE <1>1, BoundsAssumption
  <2>1. OwnerTyped(wl) BY DEF OwnerTyped, Init
  <2>2. OwnerTyped(cache) BY DEF OwnerTyped, Init
  <2> QED BY <2>1, <2>2
<1>3. ApiTyped
  BY <1>2, InstanceAssumption DEF ApiTyped, Init, ObjectsTyped
<1>4. ManagerTyped BY <1>2 DEF ManagerTyped, Init
<1>5. RestTyped BY BoundsAssumption DEF RestTyped, Init
<1>6. ReconciliationTyped BY DEF ReconciliationTyped, Init
<1> QED BY <1>3, <1>4, <1>5, <1>6 DEF Types

\* A new status leaves the rest of the workload alone.
LEMMA StatusWritten ==
    ASSUME NEW w, OwnerTyped(w), NEW s, StatusTyped(s)
    PROVE  LET v == [w EXCEPT !.status = s]
           IN  OwnerTyped(v) /\ v.exists = w.exists /\ v.gen = w.gen /\ v.status = s
BY DEF OwnerTyped

\* What a reconciliation in flight knows when the workload changes under it.
LEMMA Outdated ==
    ASSUME NEW r, RecTyped(r)
    PROVE  LET q == [r EXCEPT !.fresh = FALSE]
           IN  /\ RecTyped(q) /\ q.fresh = FALSE
               /\ q.snap = r.snap /\ q.list = r.list /\ q.i = r.i /\ q.cur = r.cur
               /\ q.outs = r.outs /\ q.cond = r.cond /\ q.full = r.full
               /\ q.requeue = r.requeue /\ q.orphans = r.orphans
<1> DEFINE q == [r EXCEPT !.fresh = FALSE]
<1>1. /\ q.fresh = FALSE
      /\ q.snap = r.snap /\ q.list = r.list /\ q.i = r.i /\ q.cur = r.cur
      /\ q.outs = r.outs /\ q.cond = r.cond /\ q.full = r.full
      /\ q.requeue = r.requeue /\ q.orphans = r.orphans /\ DOMAIN q = DOMAIN r
  BY DEF RecTyped
<1> HIDE DEF q
<1>2. RecTyped(q) BY <1>1 DEF RecTyped
<1> QED BY <1>1, <1>2 DEF q

\* The status that Done records for a resource.
Recorded(r, x, template, object, out, err) ==
    IF (object = None \/ template = None) /\ x.name \in DOMAIN r.snap.status.res
    THEN [stamped |-> r.snap.status.res[x.name].stamped,
          tmpl |-> r.snap.status.res[x.name].tmpl,
          out |-> r.snap.status.res[x.name].out, err |-> err]
    ELSE [stamped |-> object, tmpl |-> template, out |-> out, err |-> err]

\* What Done does to each field of the reconciliation.
DoneFields(x, template, object, out, err) ==
    /\ DOMAIN rec' = DOMAIN rec
    /\ rec'.snap = rec.snap /\ rec'.fresh = rec.fresh /\ rec'.list = rec.list
    /\ rec'.full = rec.full /\ rec'.requeue = rec.requeue /\ rec'.orphans = rec.orphans
    /\ rec'.i = rec.i + 1
    /\ rec'.outs = [rec.outs EXCEPT ![x.name] = out]
    /\ rec'.cond = IF rec.cond = None THEN err ELSE rec.cond
    /\ DOMAIN rec'.cur = DOMAIN rec.cur \cup {x.name}
    /\ rec'.cur[x.name] = Recorded(rec, x, template, object, out, err)
    /\ \A n \in DOMAIN rec.cur \ {x.name} : rec'.cur[n] = rec.cur[n]

\* resourceStatuses.Add: one resource is recorded, the others are kept.
LEMMA DoneRecords ==
    ASSUME RecTyped(rec), NEW x, NEW template, NEW object, NEW out, NEW err,
           Done(x, template, object, out, err)
    PROVE  DoneFields(x, template, object, out, err)
<1> DEFINE R == RealizedResource(x, template, object, out)
           S == [stamped |-> R.stamped, tmpl |-> R.tmpl, out |-> R.out, err |-> err]
           C == [n \in DOMAIN rec.cur \cup {x.name} |-> IF n = x.name THEN S ELSE rec.cur[n]]
<1>1. S = Recorded(rec, x, template, object, out, err)
  BY DEF RealizedResource, Recorded
<1>2. /\ C[x.name] = S /\ DOMAIN C = DOMAIN rec.cur \cup {x.name}
      /\ \A n \in DOMAIN rec.cur \ {x.name} : C[n] = rec.cur[n]
  OBVIOUS
<1>3. rec' = [rec EXCEPT
                !.i = @ + 1,
                !.outs[x.name] = out,
                !.cond = IF @ = None THEN err ELSE @,
                !.cur = [n \in DOMAIN @ \cup {x.name} |-> IF n = x.name THEN S ELSE @[n]]]
  BY DEF Done
<1> HIDE DEF S
<1>4. /\ DOMAIN rec' = DOMAIN rec
      /\ rec'.snap = rec.snap /\ rec'.fresh = rec.fresh /\ rec'.list = rec.list
      /\ rec'.full = rec.full /\ rec'.requeue = rec.requeue /\ rec'.orphans = rec.orphans
  BY <1>3 DEF RecTyped
<1>5. /\ rec'.i = rec.i + 1
      /\ rec'.outs = [rec.outs EXCEPT ![x.name] = out]
      /\ rec'.cond = IF rec.cond = None THEN err ELSE rec.cond
  BY <1>3 DEF RecTyped
<1>6. rec'.cur = C
  BY <1>3 DEF RecTyped
<1> QED BY <1>1, <1>2, <1>4, <1>5, <1>6 DEF DoneFields

\* The resource whose turn it is.
LEMMA ResourceTyped ==
    ASSUME RecTyped(rec), Realizing
    PROVE  /\ rec.i \in DOMAIN rec.list /\ Resource \in Resources
           /\ Resource.name \in Names
           /\ Resource.tmpl \in Templates \cup {PassThrough, NoMatch}
           /\ Resource.needs \in Names \cup {None}
           /\ Resource.tmpl = PassThrough => Resource.needs # None
<1>1. rec.i \in DOMAIN rec.list /\ Resource \in Resources
  BY DEF RecTyped, ListTyped, Realizing, Resource
<1> QED BY <1>1 DEF Resources, RecTyped, ListTyped, Resource

\* Do, whatever happens in it: the resource is recorded with a template, an
\* object, an output and an error; without an error a templated resource has
\* an object, the one that its specification was applied to; an object that was
\* applied without being recorded is excused.
DoEffect(x, template, object, out, err) ==
    /\ Done(x, template, object, out, err)
    /\ template \in Templates \cup {None} /\ object \in Objects \cup {None}
    /\ out \in Outs \cup {None} /\ err \in Reasons \cup {None}
    /\ object # None => template # None
    /\ x.tmpl \in Templates /\ err = None => object # None
    /\ \/ UNCHANGED <<objs, excused>> /\ object = None
       \/ \E n \in Objects :
             /\ objs' = Applied(n, SpecOf(x))
             /\ \/ n = object /\ UNCHANGED excused
                \/ object = None /\ excused' = excused \cup {n}
    /\ events \subseteq events' /\ events' \subseteq events \cup Objects
    /\ faults' = faults \/ Fault

\* One object is created or patched, the others are left alone.
LEMMA AppliedFacts ==
    ASSUME ObjectsTyped, NEW n \in Objects, NEW spec
    PROVE  LET a == Applied(n, spec) IN
           /\ DOMAIN a = Objects
           /\ a[n].spec = spec
           /\ ObjectTyped(a[n])
           /\ a[n].out \in Outs \cup {None}
           /\ \A m \in Objects \ {n} : a[m] = objs[m]
BY DEF Applied, ObjectsTyped, ObjectTyped

\* The three outcomes of Do (component.go:77-151), no template, no stamped
\* object, an object at the API server, all have the one effect DoEffect.
LEMMA DoHasEffect ==
    ASSUME Types, DoWithoutTemplate \/ DoStampFails \/ DoMutable
    PROVE  /\ Realizing
           /\ \E template, object, out, err : DoEffect(Resource, template, object, out, err)
<1> DEFINE x == Resource
<1>1. Realizing BY DEF DoWithoutTemplate, DoStampFails, DoMutable
<1>2. RecTyped(rec) BY <1>1 DEF Types, ReconciliationTyped, Realizing
<1>3. /\ x.name \in Names /\ x.tmpl \in Templates \cup {PassThrough, NoMatch}
      /\ x.needs \in Names \cup {None} /\ (x.tmpl = PassThrough => x.needs # None)
  BY <1>1, <1>2, ResourceTyped
<1>4. {"UnknownError", "MissingPassThroughInput", "TemplateObjectRetrievalFailure",
       "TemplateStampFailure", "TemplateRejectedForbidden", "TemplateRejectedByAPIServer",
       "MissingValueAtPath"} \subseteq Reasons
  BY DEF Reasons, HandledReasons, UnhandledReasons
<1> USE NoneIsNoReason
<1>5. CASE DoWithoutTemplate
  <2> USE <1>3, <1>4
  <2>1. UNCHANGED <<objs, events, excused>> BY <1>5 DEF DoWithoutTemplate
  <2>2. CASE Done(x, None, None, None, "UnknownError") /\ UNCHANGED faults
    <3>1. DoEffect(x, None, None, None, "UnknownError") BY <2>1, <2>2 DEF DoEffect
    <3> QED BY <3>1, <1>1
  <2>3. CASE /\ x.tmpl = PassThrough /\ UNCHANGED faults
             /\ Done(x, None, None, rec.outs[x.needs],
                     IF rec.outs[x.needs] = None THEN "MissingPassThroughInput" ELSE None)
    <3>1. rec.outs[x.needs] \in Outs \cup {None} BY <1>2, <2>3 DEF RecTyped
    <3>2. x.tmpl \notin Templates BY <2>3, InstanceAssumption
    <3>3. DoEffect(x, None, None, rec.outs[x.needs],
                   IF rec.outs[x.needs] = None THEN "MissingPassThroughInput" ELSE None)
      BY <2>1, <2>3, <3>1, <3>2 DEF DoEffect
    <3> QED BY <3>3, <1>1
  <2>4. CASE Done(x, None, None, None, "TemplateObjectRetrievalFailure") /\ Fault
    <3>1. DoEffect(x, None, None, None, "TemplateObjectRetrievalFailure")
      BY <2>1, <2>4 DEF DoEffect
    <3> QED BY <3>1, <1>1
  <2> QED BY <1>5, <2>2, <2>3, <2>4 DEF DoWithoutTemplate
<1>6. CASE DoStampFails
  <2>1. DoEffect(x, x.tmpl, None, None, "TemplateStampFailure")
    BY <1>3, <1>4, <1>6 DEF DoStampFails, DoEffect, Found
  <2> QED BY <2>1, <1>1
<1>7. CASE DoMutable
  <2> DEFINE n == tmpls[x.tmpl].obj
             after == Applied(n, SpecOf(x))
             seen == IF after = objs THEN events ELSE ObjectEvent(n)
             fine == IF after[n].out = None THEN "MissingValueAtPath" ELSE None
  <2>1. x.tmpl \in Templates /\ n \in Objects
    BY <1>7, InstanceAssumption DEF DoMutable, Found, Types, ApiTyped
  <2>2. seen \subseteq events \cup Objects /\ events \subseteq seen
    BY <2>1 DEF ObjectEvent
  <2>3. after[n].out \in Outs \cup {None}
    BY <2>1, AppliedFacts DEF Types, ApiTyped
  <2>4. CASE Done(x, x.tmpl, None, None, "TemplateRejectedForbidden")
             /\ UNCHANGED <<objs, events, faults, excused>>
    <3>1. DoEffect(x, x.tmpl, None, None, "TemplateRejectedForbidden")
      BY <1>4, <2>1, <2>4 DEF DoEffect
    <3> QED BY <3>1, <1>1
  <2>5. CASE /\ Fault /\ Done(x, x.tmpl, None, None, "TemplateRejectedByAPIServer")
             /\ \/ UNCHANGED <<objs, events, excused>>
                \/ objs' = after /\ events' = seen /\ excused' = excused \cup {n}
    <3>1. DoEffect(x, x.tmpl, None, None, "TemplateRejectedByAPIServer")
      <4> HIDE DEF n, seen
      <4> QED BY <1>4, <2>1, <2>2, <2>5 DEF DoEffect
    <3> QED BY <3>1, <1>1
  <2>6. CASE /\ objs' = after /\ events' = seen
             /\ Done(x, x.tmpl, n, after[n].out, fine)
             /\ UNCHANGED <<faults, excused>>
    <3>1. fine \in Reasons \cup {None} BY <1>4
    <3>2. DoEffect(x, x.tmpl, n, after[n].out, fine)
      <4> HIDE DEF n, seen, fine
      <4> QED BY <2>1, <2>2, <2>3, <2>6, <3>1 DEF DoEffect
    <3> QED BY <3>2, <1>1
  <2> QED BY <1>7, <2>4, <2>5, <2>6 DEF DoMutable, Excuse
<1> QED BY <1>5, <1>6, <1>7

\* The steps of Do.
DoStep == DoWithoutTemplate \/ DoStampFails \/ DoMutable

\* The steps that leave the workload, its copies, the queue, the tracker and
\* the reconciliation alone.
Quiet ==
    \/ EditAccount \/ CollectGarbage \/ GetWorkloadFails
    \/ \E s \in Selections : EditSelection(s)
    \/ \E t \in Templates, c \in Contents \cup {None} : EditTemplate(t, c)
    \/ \E n \in Objects : RemoveObject(n)
    \/ \E n \in Objects, v \in Outs : Output(n, v)

\* Every step of the system, in the groups of the proofs.
LEMMA StepKinds ==
    ASSUME Next
    PROVE  \/ Quiet \/ EditOwner \/ DeleteOwner
           \/ DeliverOwner \/ Resync \/ Restart
           \/ \E k \in events : DeliverEvent(k)
           \/ WorkloadGone \/ GetWorkload \/ GetSupplyChain \/ GetServiceAccount
           \/ DoStep
           \/ ClearTracked \/ TrackDependencies \/ FindOrphans
           \/ \E n \in Objects : DeleteOrphan(n)
           \/ WatchStamped \/ StatusUpdated \/ StatusUpdateFails \/ StatusUnchanged
BY ZenonT(30) DEF Next, Environment, Runtime, Reconcile, Quiet, DoStep

\* Objects are left, updated by their own controllers, or removed.
NothingStamped ==
    \A n \in Objects : objs'[n] # None => objs[n] # None /\ objs'[n].spec = objs[n].spec

\* What the quiet steps may change.
LEMMA QuietFrame ==
    ASSUME Types, Quiet
    PROVE  /\ UNCHANGED <<wl, cache, synced, queue, tracked, watching, pc, rec, excused>>
           /\ ObjectsTyped' /\ NothingStamped
           /\ SC \in events' \/ (sel' = sel /\ events \subseteq events')
<1> USE DEF Types, ApiTyped
<1>1. CASE EditAccount BY <1>1 DEF EditAccount, ObjectsTyped, NothingStamped
<1>2. CASE CollectGarbage
  BY <1>2 DEF CollectGarbage, ObjectsTyped, NothingStamped, manager
<1>3. CASE GetWorkloadFails
  BY <1>3 DEF GetWorkloadFails, ObjectsTyped, NothingStamped, api, manager
<1>4. ASSUME NEW s \in Selections, EditSelection(s)
      PROVE  /\ UNCHANGED <<wl, cache, synced, queue, tracked, watching, pc, rec, excused, objs>>
             /\ SC \in events'
  BY <1>4 DEF EditSelection
<1>5. ASSUME NEW t \in Templates, NEW c \in Contents \cup {None}, EditTemplate(t, c)
      PROVE  /\ UNCHANGED <<wl, cache, synced, queue, tracked, watching, pc, rec, excused, objs>>
             /\ sel' = sel /\ events \subseteq events'
  BY <1>5 DEF EditTemplate
<1>6. ASSUME NEW n \in Objects, RemoveObject(n)
      PROVE  /\ UNCHANGED <<wl, cache, synced, queue, tracked, watching, pc, rec, excused>>
             /\ ObjectsTyped' /\ NothingStamped
             /\ sel' = sel /\ events \subseteq events'
  <2>1. objs' = [objs EXCEPT ![n] = None] BY <1>6 DEF RemoveObject
  <2>2. ObjectsTyped' /\ NothingStamped BY <2>1 DEF ObjectsTyped, NothingStamped
  <2> QED BY <1>6, <2>2 DEF RemoveObject, ObjectEvent
<1>7. ASSUME NEW n \in Objects, NEW v \in Outs, Output(n, v)
      PROVE  /\ UNCHANGED <<wl, cache, synced, queue, tracked, watching, pc, rec, excused>>
             /\ ObjectsTyped' /\ NothingStamped
             /\ sel' = sel /\ events \subseteq events'
  <2>1. objs' = [objs EXCEPT ![n].out = v] /\ objs[n] # None BY <1>7 DEF Output
  <2>2. ObjectTyped(objs[n]) BY <2>1 DEF ObjectsTyped
  <2>3. /\ DOMAIN objs' = Objects
        /\ \A m \in Objects \ {n} : objs'[m] = objs[m]
        /\ DOMAIN objs'[n] = DOMAIN objs[n] /\ objs'[n].out = v /\ objs'[n].spec = objs[n].spec
    BY <2>1, <2>2 DEF ObjectsTyped, ObjectTyped
  <2>4. ObjectsTyped' /\ NothingStamped
    BY <2>1, <2>2, <2>3 DEF ObjectsTyped, ObjectTyped, NothingStamped
  <2> QED BY <1>7, <2>4 DEF Output, ObjectEvent
<1>8. UNCHANGED objs => ObjectsTyped' /\ NothingStamped
  BY DEF ObjectsTyped, NothingStamped
<1> QED BY <1>1, <1>2, <1>3, <1>4, <1>5, <1>6, <1>7, <1>8 DEF Quiet

\* Which steps write the objects, and which write the workload.
LEMMA ObjectWriters ==
    ASSUME Next
    PROVE  \/ UNCHANGED objs \/ Quiet \/ DoStep
           \/ \E n \in Objects : DeleteOrphan(n) /\ objs' = [objs EXCEPT ![n] = None]
<1> USE DEF api, manager
<1>1. EditOwner \/ DeleteOwner => UNCHANGED objs BY DEF EditOwner, DeleteOwner
<1>2. DeliverOwner \/ Resync \/ Restart => UNCHANGED objs BY DEF DeliverOwner, Resync, Restart
<1>3. \A k \in events : DeliverEvent(k) => UNCHANGED objs BY DEF DeliverEvent
<1>4. WorkloadGone \/ GetWorkload \/ GetSupplyChain \/ GetServiceAccount => UNCHANGED objs
  BY ZenonT(30) DEF WorkloadGone, GetWorkload, GetSupplyChain, GetServiceAccount
<1>5. ClearTracked \/ TrackDependencies \/ FindOrphans \/ WatchStamped => UNCHANGED objs
  BY ZenonT(30) DEF ClearTracked, TrackDependencies, FindOrphans, WatchStamped
<1>6. StatusUpdated \/ StatusUpdateFails \/ StatusUnchanged => UNCHANGED objs
  BY ZenonT(30) DEF StatusUpdated, StatusUpdateFails, StatusUnchanged
<1>7. \A n \in Objects : DeleteOrphan(n) => objs' = [objs EXCEPT ![n] = None] \/ UNCHANGED objs
  BY ZenonT(30) DEF DeleteOrphan
<1> QED BY StepKinds, <1>1, <1>2, <1>3, <1>4, <1>5, <1>6, <1>7, ZenonT(30)

\* NewVersion: a reconciliation in flight is outdated, nothing else of it changes.
LEMMA NewVersionFrame ==
    ASSUME Types, EditOwner \/ DeleteOwner
    PROVE  /\ OwnerTyped(wl') /\ wl'.status = wl.status /\ synced' = FALSE
           /\ pc = "idle" => rec' = None
           /\ pc # "idle" =>
                 /\ RecTyped(rec') /\ rec'.fresh = FALSE
                 /\ rec'.snap = rec.snap /\ rec'.list = rec.list /\ rec'.i = rec.i
                 /\ rec'.cur = rec.cur /\ rec'.cond = rec.cond /\ rec'.full = rec.full
                 /\ rec'.requeue = rec.requeue /\ rec'.orphans = rec.orphans
           /\ UNCHANGED <<sel, tmpls, sa, allowed, objs, cache, events, queue, tracked,
                          watching, pc, faults, excused>>
<1>1. PICK w : /\ NewVersion(w)
               /\ \/ w = [wl EXCEPT !.gen = @ + 1] /\ wl.gen < MaxGen
                  \/ w = [wl EXCEPT !.exists = FALSE]
  BY DEF EditOwner, DeleteOwner
<1>2. OwnerTyped(wl) BY DEF Types, ApiTyped
<1>3. OwnerTyped(w) /\ w.status = wl.status
  <2>1. CASE w = [wl EXCEPT !.gen = @ + 1] /\ wl.gen < MaxGen
    BY <1>2, <2>1, BoundsAssumption DEF OwnerTyped
  <2>2. CASE w = [wl EXCEPT !.exists = FALSE] BY <1>2, <2>2 DEF OwnerTyped
  <2> QED BY <1>1, <2>1, <2>2
<1>4. wl' = w /\ synced' = FALSE
      /\ rec' = IF pc = "idle" THEN None ELSE [rec EXCEPT !.fresh = FALSE]
  BY <1>1 DEF NewVersion
<1>5. UNCHANGED <<sel, tmpls, sa, allowed, objs, cache, events, queue, tracked,
                  watching, pc, faults, excused>>
  BY DEF EditOwner, DeleteOwner
<1>6. pc # "idle" => RecTyped(rec) BY DEF Types, ReconciliationTyped
<1>7. ASSUME pc # "idle"
      PROVE  /\ RecTyped(rec') /\ rec'.fresh = FALSE
             /\ rec'.snap = rec.snap /\ rec'.list = rec.list /\ rec'.i = rec.i
             /\ rec'.cur = rec.cur /\ rec'.cond = rec.cond /\ rec'.full = rec.full
             /\ rec'.requeue = rec.requeue /\ rec'.orphans = rec.orphans
  BY <1>4, <1>6, <1>7, Outdated
<1> QED BY <1>3, <1>4, <1>5, <1>7

\* completeReconciliation before Realize.
LEMMA GaveUp ==
    ASSUME RecTyped(rec), NEW reason \in Reasons, GiveUp(reason)
    PROVE  /\ pc' = "update" /\ RecTyped(rec')
           /\ rec'.snap = rec.snap /\ rec'.fresh = rec.fresh /\ rec'.list = rec.list
           /\ rec'.i = rec.i /\ rec'.cur = rec.cur /\ rec'.full = rec.full
           /\ rec'.orphans = rec.orphans
           /\ rec'.cond = reason /\ rec'.requeue = (reason \in UnhandledReasons)
<1>1. rec' = [rec EXCEPT !.cond = reason, !.requeue = (reason \in UnhandledReasons)]
  BY DEF GiveUp
<1>2. /\ DOMAIN rec' = DOMAIN rec /\ rec'.outs = rec.outs
      /\ rec'.snap = rec.snap /\ rec'.fresh = rec.fresh /\ rec'.list = rec.list
      /\ rec'.i = rec.i /\ rec'.cur = rec.cur /\ rec'.full = rec.full
      /\ rec'.orphans = rec.orphans
      /\ rec'.cond = reason /\ rec'.requeue = (reason \in UnhandledReasons)
  BY <1>1 DEF RecTyped
<1>3. RecTyped(rec') BY <1>2 DEF RecTyped
<1> QED BY <1>2, <1>3 DEF GiveUp

\* GetSupplyChain and GetServiceAccount: give up for an early reason, or go on.
LEMMA EarlySteps ==
    ASSUME Types, GetSupplyChain \/ GetServiceAccount
    PROVE  /\ UNCHANGED <<api, manager, edits, excused>>
           /\ faults' = faults \/ Fault
           /\ pc \in Early
           /\ \/ \E reason \in EarlyReasons : GiveUp(reason)
              \/ pc = "select" /\ pc' = "account" /\ rec' = [rec EXCEPT !.list = sel.list]
              \/ pc = "account" /\ pc' = "realize" /\ rec' = [rec EXCEPT !.full = TRUE]
<1>1. CASE GetSupplyChain
  <2>1. sel.why # "Ready" => sel.why \in EarlyReasons
    BY InstanceAssumption DEF Types, ApiTyped, IsSelection, SelectionReasons, EarlyReasons
  <2>2. "Unknown" \in EarlyReasons BY DEF EarlyReasons
  <2> QED BY <1>1, <2>1, <2>2 DEF GetSupplyChain, Early
<1>2. CASE GetServiceAccount
  <2>1. {"ServiceAccountNotFound", "ServiceAccountTokenError",
         "ResourceRealizerBuilderError"} \subseteq EarlyReasons
    BY DEF EarlyReasons
  <2> QED BY <1>2, <2>1 DEF GetServiceAccount, Early
<1> QED BY <1>1, <1>2

\* The reasons of the early returns are reasons a status may hold.
LEMMA EarlyAreReasons == EarlyReasons \subseteq Reasons
BY DEF EarlyReasons, Reasons, HandledReasons, UnhandledReasons

\* The chain is read from what the workload selects.
LEMMA GoesOn ==
    ASSUME RecTyped(rec), sel \in Selections, rec.i = 1,
           rec' = [rec EXCEPT !.list = sel.list]
    PROVE  /\ RecTyped(rec') /\ rec'.list = sel.list
           /\ rec'.snap = rec.snap /\ rec'.fresh = rec.fresh /\ rec'.i = rec.i
           /\ rec'.cur = rec.cur /\ rec'.full = rec.full /\ rec'.orphans = rec.orphans
           /\ rec'.cond = rec.cond /\ rec'.requeue = rec.requeue
<1>1. /\ DOMAIN rec' = DOMAIN rec /\ rec'.outs = rec.outs /\ rec'.list = sel.list
      /\ rec'.snap = rec.snap /\ rec'.fresh = rec.fresh /\ rec'.i = rec.i
      /\ rec'.cur = rec.cur /\ rec'.full = rec.full /\ rec'.orphans = rec.orphans
      /\ rec'.cond = rec.cond /\ rec'.requeue = rec.requeue
  BY DEF RecTyped
<1>2. ListTyped(sel.list) BY InstanceAssumption DEF IsSelection, ListTyped
<1>3. Len(sel.list) \in Nat BY <1>2 DEF ListTyped
<1>4. 1 <= Len(sel.list) + 1 BY <1>3
<1>5. RecTyped(rec') BY <1>1, <1>2, <1>4 DEF RecTyped
<1> QED BY <1>1, <1>5

\* Realize begins.
LEMMA Begins ==
    ASSUME RecTyped(rec), rec' = [rec EXCEPT !.full = TRUE]
    PROVE  /\ RecTyped(rec') /\ rec'.full = TRUE
           /\ rec'.snap = rec.snap /\ rec'.fresh = rec.fresh /\ rec'.i = rec.i
           /\ rec'.cur = rec.cur /\ rec'.list = rec.list /\ rec'.orphans = rec.orphans
           /\ rec'.cond = rec.cond /\ rec'.requeue = rec.requeue
<1>1. /\ DOMAIN rec' = DOMAIN rec /\ rec'.outs = rec.outs /\ rec'.list = rec.list
      /\ rec'.snap = rec.snap /\ rec'.fresh = rec.fresh /\ rec'.i = rec.i
      /\ rec'.cur = rec.cur /\ rec'.full = TRUE /\ rec'.orphans = rec.orphans
      /\ rec'.cond = rec.cond /\ rec'.requeue = rec.requeue
  BY DEF RecTyped
<1>2. RecTyped(rec') BY <1>1 DEF RecTyped
<1> QED BY <1>1, <1>2

\* Done keeps the reconciliation typed.
LEMMA DoneTyped ==
    ASSUME RecTyped(rec), Realizing, NEW template, NEW object, NEW out, NEW err,
           DoEffect(Resource, template, object, out, err)
    PROVE  RecTyped(rec') /\ DoneFields(Resource, template, object, out, err)
<1> DEFINE x == Resource
<1>1. DoneFields(x, template, object, out, err) BY DoneRecords DEF DoEffect
<1>2. x.name \in Names BY ResourceTyped
<1>3. Recorded(rec, x, template, object, out, err) \in ResourceStatus
  <2>1. x.name \in DOMAIN rec.snap.status.res => rec.snap.status.res[x.name] \in ResourceStatus
    BY DEF RecTyped, OwnerTyped, StatusTyped, IsStatusList
  <2> QED BY <2>1 DEF Recorded, DoEffect, ResourceStatus
<1> HIDE DEF x
<1>4. IsStatusList(rec'.cur)
  BY <1>1, <1>2, <1>3 DEF DoneFields, RecTyped, IsStatusList
<1>5. rec'.outs \in [Names -> Outs \cup {None}]
  BY <1>1, <1>2 DEF DoneFields, RecTyped, DoEffect
<1>6. rec'.cond \in Reasons \cup {None} BY <1>1 DEF DoneFields, RecTyped, DoEffect
<1>7. rec'.i \in Nat /\ 1 <= rec'.i /\ rec'.i <= Len(rec'.list) + 1
  <2>1. rec'.i = rec.i + 1 /\ rec'.list = rec.list BY <1>1 DEF DoneFields
  <2>2. rec.i \in Nat /\ 1 <= rec.i /\ rec.i <= Len(rec.list) BY DEF RecTyped, Realizing
  <2>3. Len(rec.list) \in Nat BY DEF RecTyped, ListTyped
  <2> QED BY <2>1, <2>2, <2>3
<1> QED BY <1>1, <1>4, <1>5, <1>6, <1>7 DEF RecTyped, DoneFields, x

\* The rest of the steps of a reconciliation, field by field.
LEMMA Cleared ==
    ASSUME RecTyped(rec), ClearTracked
    PROVE  /\ RecTyped(rec')
           /\ rec'.snap = rec.snap /\ rec'.fresh = rec.fresh /\ rec'.i = rec.i
           /\ rec'.cur = rec.cur /\ rec'.list = rec.list /\ rec'.orphans = rec.orphans
           /\ rec'.cond = rec.cond /\ rec'.full = rec.full
           /\ rec'.requeue = (rec.cond \in UnhandledReasons)
<1>1. rec' = [rec EXCEPT !.requeue = (rec.cond \in UnhandledReasons),
                         !.outs = [n \in Names |-> None]]
  BY DEF ClearTracked
<1>2. /\ DOMAIN rec' = DOMAIN rec /\ rec'.outs = [n \in Names |-> None]
      /\ rec'.snap = rec.snap /\ rec'.fresh = rec.fresh /\ rec'.i = rec.i
      /\ rec'.cur = rec.cur /\ rec'.list = rec.list /\ rec'.orphans = rec.orphans
      /\ rec'.cond = rec.cond /\ rec'.full = rec.full
      /\ rec'.requeue = (rec.cond \in UnhandledReasons)
  BY <1>1 DEF RecTyped
<1>3. RecTyped(rec') BY <1>2 DEF RecTyped
<1> QED BY <1>2, <1>3

\* Setting the list of orphans changes no other field of the reconciliation.
LEMMA OrphansWritten ==
    ASSUME RecTyped(rec), NEW o \in SUBSET Objects, rec' = [rec EXCEPT !.orphans = o]
    PROVE  /\ RecTyped(rec') /\ rec'.orphans = o
           /\ rec'.snap = rec.snap /\ rec'.fresh = rec.fresh /\ rec'.i = rec.i
           /\ rec'.cur = rec.cur /\ rec'.list = rec.list /\ rec'.requeue = rec.requeue
           /\ rec'.cond = rec.cond /\ rec'.full = rec.full
<1>1. /\ DOMAIN rec' = DOMAIN rec /\ rec'.outs = rec.outs /\ rec'.orphans = o
      /\ rec'.snap = rec.snap /\ rec'.fresh = rec.fresh /\ rec'.i = rec.i
      /\ rec'.cur = rec.cur /\ rec'.list = rec.list /\ rec'.requeue = rec.requeue
      /\ rec'.cond = rec.cond /\ rec'.full = rec.full
  BY DEF RecTyped
<1>2. RecTyped(rec') BY <1>1 DEF RecTyped
<1> QED BY <1>1, <1>2

\* The references of a typed status list are objects.
LEMMA RefsAreObjects ==
    ASSUME NEW res, IsStatusList(res)
    PROVE  Refs(res) \subseteq Objects
BY DEF Refs, IsStatusList, ResourceStatus

\* FindOrphans keeps the list of orphans empty or fills it; when it gives up,
\* what it would have deleted is excused.
LEMMA OrphansFound ==
    ASSUME Types, FindOrphans
    PROVE  /\ pc = "orphans" /\ pc' = "delete"
           /\ UNCHANGED <<api, manager, edits>>
           /\ RecTyped(rec')
           /\ rec'.snap = rec.snap /\ rec'.fresh = rec.fresh /\ rec'.i = rec.i
           /\ rec'.cur = rec.cur /\ rec'.list = rec.list /\ rec'.requeue = rec.requeue
           /\ rec'.cond = rec.cond /\ rec'.full = rec.full
           /\ \/ /\ rec'.orphans = Orphans(rec.snap.status.res, rec.cur)
                 /\ UNCHANGED <<faults, excused>>
              \/ /\ rec'.orphans = rec.orphans
                 /\ excused' = excused \cup Orphans(rec.snap.status.res, rec.cur)
                 /\ faults' = faults \/ Fault
<1> DEFINE orphans == Orphans(rec.snap.status.res, rec.cur)
<1>1. pc = "orphans" /\ pc' = "delete" /\ UNCHANGED <<api, manager, edits>>
  BY DEF FindOrphans
<1>2. RecTyped(rec) BY <1>1 DEF Types, ReconciliationTyped
<1>3. orphans \in SUBSET Objects
  <2>1. Refs(rec.snap.status.res) \subseteq Objects
    BY <1>2, RefsAreObjects DEF RecTyped, OwnerTyped, StatusTyped
  <2> QED BY <2>1 DEF Orphans
<1>4. \/ rec' = [rec EXCEPT !.orphans = orphans] /\ UNCHANGED <<faults, excused>>
      \/ rec' = rec /\ excused' = excused \cup orphans /\ (faults' = faults \/ Fault)
  BY ZenonT(30) DEF FindOrphans, Excuse
<1> HIDE DEF orphans
<1>5. CASE rec' = [rec EXCEPT !.orphans = orphans] /\ UNCHANGED <<faults, excused>>
  BY <1>1, <1>2, <1>3, <1>5, OrphansWritten DEF orphans
<1>6. CASE rec' = rec /\ excused' = excused \cup orphans /\ (faults' = faults \/ Fault)
  BY <1>1, <1>2, <1>6 DEF orphans
<1> QED BY <1>4, <1>5, <1>6

\* DeleteOrphan removes the object and, if the list names it once, its entry;
\* or gives up and empties the list.
LEMMA OrphanDeleted ==
    ASSUME Types, NEW n \in Objects, DeleteOrphan(n)
    PROVE  /\ pc = "delete" /\ pc' = "delete" /\ n \in rec.orphans
           /\ UNCHANGED <<wl, sel, tmpls, sa, allowed, cache, synced, queue, tracked,
                          watching, edits>>
           /\ faults' = faults \/ Fault
           /\ RecTyped(rec')
           /\ rec'.snap = rec.snap /\ rec'.fresh = rec.fresh /\ rec'.i = rec.i
           /\ rec'.cur = rec.cur /\ rec'.list = rec.list /\ rec'.requeue = rec.requeue
           /\ rec'.cond = rec.cond /\ rec'.full = rec.full
           /\ rec'.orphans \subseteq rec.orphans
           /\ events \subseteq events' /\ events' \subseteq events \cup Objects
           /\ \/ /\ objs' = [objs EXCEPT ![n] = None] /\ excused' = excused \ {n}
                 /\ rec.orphans \subseteq rec'.orphans \cup {n}
              \/ objs' = objs /\ excused' = excused \cup rec.orphans
<1>1. /\ pc = "delete" /\ pc' = "delete" /\ n \in rec.orphans
      /\ UNCHANGED <<wl, sel, tmpls, sa, allowed, cache, synced, queue, tracked,
                     watching, edits>>
  BY DEF DeleteOrphan
<1>2. RecTyped(rec) BY <1>1 DEF Types, ReconciliationTyped
<1>3. /\ rec.orphans \ {n} \in SUBSET Objects /\ {} \in SUBSET Objects
  BY <1>2 DEF RecTyped
<1>4. \/ /\ objs' = [objs EXCEPT ![n] = None] /\ events' = ObjectEvent(n)
         /\ rec' = rec \/ rec' = [rec EXCEPT !.orphans = @ \ {n}]
         /\ excused' = excused \ {n} /\ UNCHANGED faults
      \/ /\ excused' = excused \cup rec.orphans
         /\ rec' = [rec EXCEPT !.orphans = {}]
         /\ UNCHANGED <<objs, events>>
         /\ faults' = faults \/ Fault
  BY ZenonT(30) DEF DeleteOrphan, Excuse
<1>5. events \subseteq ObjectEvent(n) /\ ObjectEvent(n) \subseteq events \cup Objects
  BY DEF ObjectEvent
<1>6. CASE /\ objs' = [objs EXCEPT ![n] = None] /\ events' = ObjectEvent(n)
           /\ rec' = rec
           /\ excused' = excused \ {n} /\ UNCHANGED faults
  BY <1>1, <1>2, <1>5, <1>6
<1>7. CASE /\ objs' = [objs EXCEPT ![n] = None] /\ events' = ObjectEvent(n)
           /\ rec' = [rec EXCEPT !.orphans = @ \ {n}]
           /\ excused' = excused \ {n} /\ UNCHANGED faults
  <2>1. rec' = [rec EXCEPT !.orphans = rec.orphans \ {n}] BY <1>7
  <2>2. /\ RecTyped(rec') /\ rec'.orphans = rec.orphans \ {n}
        /\ rec'.snap = rec.snap /\ rec'.fresh = rec.fresh /\ rec'.i = rec.i
        /\ rec'.cur = rec.cur /\ rec'.list = rec.list /\ rec'.requeue = rec.requeue
        /\ rec'.cond = rec.cond /\ rec'.full = rec.full
    BY <2>1, <1>2, <1>3, OrphansWritten
  <2> QED BY <1>1, <1>5, <1>7, <2>2
<1>8. CASE /\ excused' = excused \cup rec.orphans
           /\ rec' = [rec EXCEPT !.orphans = {}]
           /\ UNCHANGED <<objs, events>>
           /\ faults' = faults \/ Fault
  <2>1. /\ RecTyped(rec') /\ rec'.orphans = {}
        /\ rec'.snap = rec.snap /\ rec'.fresh = rec.fresh /\ rec'.i = rec.i
        /\ rec'.cur = rec.cur /\ rec'.list = rec.list /\ rec'.requeue = rec.requeue
        /\ rec'.cond = rec.cond /\ rec'.full = rec.full
    BY <1>2, <1>3, <1>8, OrphansWritten
  <2> QED BY <1>1, <1>8, <2>1
<1> QED BY <1>4, <1>6, <1>7, <1>8

\* The fields after the stamped objects are watched
\* (workload_reconciler.go:177-194).
LEMMA WatchesStarted ==
    ASSUME Types, WatchStamped
    PROVE  /\ pc = "delete" /\ pc' = "update" /\ rec.orphans = {}
           /\ UNCHANGED <<api, cache, synced, queue, tracked, edits, excused>>
           /\ faults' = faults \/ Fault
           /\ events \subseteq events' /\ events' \subseteq events \cup Objects
           /\ watching' \subseteq watching \cup Objects
           /\ RecTyped(rec')
           /\ rec'.snap = rec.snap /\ rec'.fresh = rec.fresh /\ rec'.i = rec.i
           /\ rec'.cur = rec.cur /\ rec'.list = rec.list /\ rec'.orphans = rec.orphans
           /\ rec'.cond = rec.cond /\ rec'.full = rec.full
           /\ rec.requeue => rec'.requeue
<1>1. /\ pc = "delete" /\ pc' = "update" /\ rec.orphans = {}
      /\ UNCHANGED <<api, cache, synced, queue, tracked, edits, excused>>
  BY DEF WatchStamped
<1>2. RecTyped(rec) BY <1>1 DEF Types, ReconciliationTyped
<1>3. PICK failed \in SUBSET Refs(rec.cur) :
          /\ faults' = faults \/ Fault
          /\ LET started == (Refs(rec.cur) \ failed) \ watching
             IN  /\ watching' = watching \cup started
                 /\ events' = events \cup {n \in started : objs[n] # None}
          /\ rec' = [rec EXCEPT !.requeue = (@ \/ failed # {})]
  BY ZenonT(30) DEF WatchStamped
<1>4. Refs(rec.cur) \subseteq Objects BY <1>2, RefsAreObjects DEF RecTyped
<1>5. /\ events \subseteq events' /\ events' \subseteq events \cup Objects
      /\ watching' \subseteq watching \cup Objects
  BY <1>3, <1>4
<1>6. /\ DOMAIN rec' = DOMAIN rec /\ rec'.outs = rec.outs
      /\ rec'.snap = rec.snap /\ rec'.fresh = rec.fresh /\ rec'.i = rec.i
      /\ rec'.cur = rec.cur /\ rec'.list = rec.list /\ rec'.orphans = rec.orphans
      /\ rec'.cond = rec.cond /\ rec'.full = rec.full
      /\ rec'.requeue = (rec.requeue \/ failed # {})
  BY <1>2, <1>3 DEF RecTyped
<1>7. RecTyped(rec') BY <1>2, <1>6 DEF RecTyped
<1> QED BY <1>1, <1>3, <1>5, <1>6, <1>7

\* The three ways a reconciliation ends.
Written ==
    /\ rec.fresh /\ wl.exists
    /\ OwnerTyped(wl') /\ wl'.status = NewStatus /\ wl'.gen = wl.gen /\ wl'.exists = wl.exists
    /\ synced' = FALSE \/ (wl' = wl /\ synced' = synced)
    /\ queue' = (queue \/ rec.requeue)
    /\ excused' = excused \ Refs(NewStatus.res)

NotWritten ==
    /\ UNCHANGED <<wl, synced>>
    /\ queue' = TRUE
    /\ excused' = excused \cup Refs(rec.cur)

NothingToWrite ==
    /\ UNCHANGED <<wl, synced>>
    /\ NewStatus.cond = rec.snap.status.cond
    /\ rec.snap.status.gen = rec.snap.gen
    /\ NewStatus.res = rec.snap.status.res
    /\ queue' = (queue \/ rec.requeue)
    /\ rec.fresh => excused' = excused
    /\ ~rec.fresh => excused' = excused \cup Refs(rec.cur)

\* The status a reconciliation computes.
LEMMA NewStatusTyped ==
    ASSUME RecTyped(rec)
    PROVE  /\ StatusTyped(NewStatus)
           /\ NewStatus.gen = rec.snap.gen
           /\ rec.cond = None => NewStatus.cond = "ResourcesSubmitted"
           /\ rec.cond # None => NewStatus.cond = rec.cond
           /\ rec.full => NewStatus.res = rec.cur
           /\ ~rec.full => NewStatus.res = rec.snap.status.res
<1>1. /\ DOMAIN NewStatus = {"gen", "cond", "res"}
      /\ NewStatus.gen = rec.snap.gen
      /\ NewStatus.cond = IF rec.cond = None THEN "ResourcesSubmitted" ELSE rec.cond
      /\ NewStatus.res = IF rec.full THEN rec.cur ELSE rec.snap.status.res
  BY DEF NewStatus
<1>2. NewStatus.gen \in 0..MaxGen BY <1>1, BoundsAssumption DEF RecTyped, OwnerTyped
<1>3. NewStatus.cond \in Reasons \cup {"ResourcesSubmitted", None} BY <1>1 DEF RecTyped
<1>4. IsStatusList(NewStatus.res) BY <1>1 DEF RecTyped, OwnerTyped, StatusTyped
<1> QED BY <1>1, <1>2, <1>3, <1>4 DEF StatusTyped

\* The three ways a reconciliation ends: the status is written, the update
\* fails, nothing had changed.
LEMMA Ended ==
    ASSUME Types, StatusUpdated \/ StatusUpdateFails \/ StatusUnchanged
    PROVE  /\ pc = "update" /\ pc' = "idle" /\ rec' = None
           /\ UNCHANGED <<sel, tmpls, sa, allowed, objs, cache, events, tracked, watching, edits>>
           /\ faults' = faults \/ Fault
           /\ Written \/ NotWritten \/ NothingToWrite
<1>1. /\ pc = "update" /\ pc' = "idle" /\ rec' = None
      /\ UNCHANGED <<sel, tmpls, sa, allowed, objs, cache, events, tracked, watching, edits>>
      /\ faults' = faults \/ Fault
  BY ZenonT(30) DEF StatusUpdated, StatusUpdateFails, StatusUnchanged, EndOfReconcile, api
<1>2. RecTyped(rec) /\ OwnerTyped(wl)
  BY <1>1 DEF Types, ReconciliationTyped, ApiTyped
<1>3. CASE StatusUpdated
  <2>1. /\ rec.fresh /\ wl.exists
        /\ \/ NewStatus = wl.status /\ UNCHANGED <<wl, synced>>
           \/ wl' = [wl EXCEPT !.status = NewStatus] /\ synced' = FALSE
        /\ queue' = (queue \/ rec.requeue)
        /\ excused' = excused \ Refs(NewStatus.res)
    BY <1>3, ZenonT(30) DEF StatusUpdated, Requeue
  <2>2. StatusTyped(NewStatus) BY <1>2, NewStatusTyped
  <2>3. OwnerTyped(wl') /\ wl'.status = NewStatus /\ wl'.gen = wl.gen /\ wl'.exists = wl.exists
    <3>1. CASE NewStatus = wl.status /\ wl' = wl BY <1>2, <3>1
    <3>2. CASE wl' = [wl EXCEPT !.status = NewStatus]
      <4> HIDE DEF NewStatus
      <4> QED BY <1>2, <2>2, <3>2, StatusWritten
    <3> QED BY <2>1, <3>1, <3>2
  <2> QED BY <1>1, <2>1, <2>3 DEF Written
<1>4. CASE StatusUpdateFails
  BY <1>1, <1>4, ZenonT(30) DEF StatusUpdateFails, NotWritten, Excuse, api
<1>5. CASE StatusUnchanged
  <2>1. UNCHANGED <<wl, synced>> /\ queue' = (queue \/ rec.requeue)
    BY <1>5 DEF StatusUnchanged, Requeue, api
  <2>2. /\ rec.fresh => excused' = excused
        /\ ~rec.fresh => excused' = excused \cup Refs(rec.cur)
    BY <1>5 DEF StatusUnchanged, Excuse
  <2>3. /\ NewStatus.cond = rec.snap.status.cond
        /\ rec.snap.status.gen = rec.snap.gen
        /\ NewStatus.res = rec.snap.status.res
    BY <1>5, ZenonT(30) DEF StatusUnchanged, StatusChanged
  <2> QED BY <1>1, <2>1, <2>2, <2>3 DEF NothingToWrite
<1> QED BY <1>1, <1>3, <1>4, <1>5

\* A reconciliation starts.
LEMMA Started ==
    ASSUME Types, GetWorkload
    PROVE  /\ pc = "idle" /\ queue /\ cache.exists /\ queue' = FALSE /\ pc' = "select"
           /\ UNCHANGED <<api, cache, synced, events, tracked, watching, edits, faults, excused>>
           /\ RecTyped(rec')
           /\ rec'.snap = cache /\ rec'.fresh = synced /\ rec'.i = 1
           /\ DOMAIN rec'.cur = {} /\ rec'.cond = None
           /\ rec'.full = FALSE /\ rec'.orphans = {}
<1>1. /\ DOMAIN rec' = {"snap", "fresh", "list", "i", "cur", "outs", "cond", "full",
                        "requeue", "orphans"}
      /\ rec'.snap = cache /\ rec'.fresh = synced /\ rec'.list = <<>> /\ rec'.i = 1
      /\ rec'.cur = [n \in {} |-> None] /\ rec'.outs = [n \in Names |-> None]
      /\ rec'.cond = None /\ rec'.full = FALSE /\ rec'.requeue = FALSE /\ rec'.orphans = {}
  BY DEF GetWorkload
<1>2. /\ pc = "idle" /\ queue /\ cache.exists /\ queue' = FALSE /\ pc' = "select"
      /\ UNCHANGED <<api, cache, synced, events, tracked, watching, edits, faults, excused>>
  BY DEF GetWorkload
<1>3. OwnerTyped(cache) /\ synced \in BOOLEAN BY DEF Types, ManagerTyped
<1>4. cache.exists = TRUE BY <1>2, <1>3 DEF OwnerTyped
<1>5. ListTyped(<<>>) /\ Len(<<>>) = 0 BY DEF ListTyped
<1>6. DOMAIN rec'.cur = {} /\ IsStatusList(rec'.cur) BY <1>1 DEF IsStatusList
<1>7. /\ OwnerTyped(rec'.snap) /\ rec'.snap.exists = TRUE /\ rec'.fresh \in BOOLEAN
  BY <1>1, <1>3, <1>4
<1>8. ListTyped(rec'.list) /\ 1 <= rec'.i /\ rec'.i <= Len(rec'.list) + 1 /\ rec'.i \in Nat
  BY <1>1, <1>5
<1>9. rec'.outs \in [Names -> Outs \cup {None}] BY <1>1
<1>10. RecTyped(rec') BY <1>1, <1>6, <1>7, <1>8, <1>9 DEF RecTyped
<1> QED BY <1>1, <1>2, <1>6, <1>10

\* Every step keeps the API server's objects typed.
LEMMA ApiTypesStep ==
    ASSUME Types, Next
    PROVE  ApiTyped'
<1>1. OwnerTyped(wl')
  <2> USE DEF Types, ApiTyped
  <2>1. CASE EditOwner \/ DeleteOwner BY <2>1, NewVersionFrame
  <2>2. CASE StatusUpdated \/ StatusUpdateFails \/ StatusUnchanged
    BY <2>2, Ended DEF Written, NotWritten, NothingToWrite
  <2>3. CASE DoStep
    <3>1. \E template, object, out, err : DoEffect(Resource, template, object, out, err)
      BY <2>3, DoHasEffect DEF DoStep
    <3> QED BY <3>1 DEF DoEffect, Done
  <2>4. CASE Quiet BY <2>4, QuietFrame
  <2>5. CASE \E n \in Objects : DeleteOrphan(n) BY <2>5, OrphanDeleted
  <2>6. CASE \/ DeliverOwner \/ Resync \/ Restart \/ \E k \in events : DeliverEvent(k)
             \/ WorkloadGone
    BY <2>6 DEF DeliverOwner, Resync, Restart, DeliverEvent, WorkloadGone, api
  <2>7. CASE GetWorkload BY <2>7, Started DEF api
  <2>8. CASE GetSupplyChain \/ GetServiceAccount BY <2>8, EarlySteps DEF api
  <2>9. CASE ClearTracked \/ TrackDependencies
    BY <2>9 DEF ClearTracked, TrackDependencies, api
  <2>10. CASE FindOrphans BY <2>10, OrphansFound DEF api
  <2>11. CASE WatchStamped BY <2>11, WatchesStarted DEF api
  <2> QED BY StepKinds, <2>1, <2>2, <2>3, <2>4, <2>5, <2>6, <2>7, <2>8, <2>9, <2>10, <2>11
<1>2. ObjectsTyped'
  <2> USE DEF Types, ApiTyped
  <2>1. CASE UNCHANGED objs BY <2>1 DEF ObjectsTyped
  <2>2. CASE Quiet BY <2>2, QuietFrame
  <2>3. CASE DoStep
    <3>1. \E template, object, out, err : DoEffect(Resource, template, object, out, err)
      BY <2>3, DoHasEffect DEF DoStep
    <3>2. UNCHANGED objs \/ \E n \in Objects : objs' = Applied(n, SpecOf(Resource))
      BY <3>1 DEF DoEffect
    <3>3. ASSUME NEW n \in Objects, objs' = Applied(n, SpecOf(Resource)) PROVE ObjectsTyped'
      BY <3>3, AppliedFacts DEF ObjectsTyped
    <3> QED BY <2>1, <3>2, <3>3
  <2>4. ASSUME NEW n \in Objects, objs' = [objs EXCEPT ![n] = None] PROVE ObjectsTyped'
    BY <2>4 DEF ObjectsTyped
  <2> QED BY ObjectWriters, <2>1, <2>2, <2>3, <2>4
<1>3. /\ sel' \in Selections /\ tmpls' \in [Templates -> Contents \cup {None}]
      /\ sa' \in BOOLEAN /\ allowed' \in BOOLEAN
  <2> DEFINE Same == UNCHANGED <<sel, tmpls, sa, allowed>>
             Goal == /\ sel' \in Selections /\ tmpls' \in [Templates -> Contents \cup {None}]
                     /\ sa' \in BOOLEAN /\ allowed' \in BOOLEAN
  <2> SUFFICES Goal OBVIOUS
  <2>1. /\ sel \in Selections /\ tmpls \in [Templates -> Contents \cup {None}]
        /\ sa \in BOOLEAN /\ allowed \in BOOLEAN
    BY DEF Types, ApiTyped
  <2>2. CASE Same BY <2>1, <2>2
  <2>3. CASE EditAccount BY <2>1, <2>3 DEF EditAccount
  <2>4. ASSUME NEW s \in Selections, EditSelection(s)
        PROVE  /\ sel' \in Selections /\ UNCHANGED <<tmpls, sa, allowed>>
    BY <2>4 DEF EditSelection
  <2>5. ASSUME NEW t \in Templates, NEW c \in Contents \cup {None}, EditTemplate(t, c)
        PROVE  /\ tmpls' \in [Templates -> Contents \cup {None}] /\ UNCHANGED <<sel, sa, allowed>>
    BY <2>1, <2>5 DEF EditTemplate
  <2>6. ASSUME NEW n \in Objects, RemoveObject(n) PROVE Same BY <2>6 DEF RemoveObject
  <2>7. ASSUME NEW n \in Objects, NEW v \in Outs, Output(n, v) PROVE Same BY <2>7 DEF Output
  <2>8. CASE CollectGarbage \/ GetWorkloadFails
    BY <2>1, <2>8 DEF CollectGarbage, GetWorkloadFails, api
  <2>9. CASE Quiet
    <3>1. (\E s \in Selections : EditSelection(s)) => Goal BY <2>1, <2>4
    <3>2. (\E t \in Templates, c \in Contents \cup {None} : EditTemplate(t, c)) => Goal
      BY <2>1, <2>5
    <3>3. (\E n \in Objects : RemoveObject(n)) \/ (\E n \in Objects, v \in Outs : Output(n, v))
            => Same
      BY <2>6, <2>7
    <3> HIDE DEF Goal, Same
    <3> QED BY <2>2, <2>3, <2>8, <2>9, <3>1, <3>2, <3>3 DEF Quiet
  <2>10. ASSUME DoStep PROVE Same
    <3>1. \E template, object, out, err : DoEffect(Resource, template, object, out, err)
      BY <2>10, DoHasEffect DEF DoStep
    <3> QED BY <3>1 DEF DoEffect, Done
  <2>11. EditOwner \/ DeleteOwner => Same BY NewVersionFrame
  <2>12. StatusUpdated \/ StatusUpdateFails \/ StatusUnchanged => Same BY Ended
  <2>13. (\E n \in Objects : DeleteOrphan(n)) => Same BY OrphanDeleted
  <2>14. DeliverOwner \/ Resync \/ Restart \/ WorkloadGone => Same
    BY DEF DeliverOwner, Resync, Restart, WorkloadGone, api
  <2>17. (\E k \in events : DeliverEvent(k)) => Same
    BY DEF DeliverEvent, api
  <2>15. GetWorkload \/ GetSupplyChain \/ GetServiceAccount => Same
    BY Started, EarlySteps DEF api
  <2>16. ClearTracked \/ TrackDependencies \/ FindOrphans \/ WatchStamped => Same
    BY OrphansFound, WatchesStarted DEF ClearTracked, TrackDependencies, api
  <2> HIDE DEF Same, Goal
  <2> QED BY StepKinds, <2>2, <2>9, <2>10, <2>11, <2>12, <2>13, <2>14, <2>15, <2>16, <2>17
<1> QED BY <1>1, <1>2, <1>3 DEF ApiTyped, ObjectsTyped

\* Do leaves all but the reconciliation, the objects and their events alone.
LEMMA DoFrame ==
    ASSUME Types, DoStep
    PROVE  /\ pc = "realize" /\ RecTyped(rec) /\ RecTyped(rec')
           /\ UNCHANGED <<wl, sel, tmpls, sa, allowed, cache, synced, queue, tracked,
                          watching, pc, edits>>
           /\ events \subseteq events' /\ events' \subseteq events \cup Objects
           /\ faults' = faults \/ Fault
           /\ excused \subseteq excused' /\ excused' \subseteq excused \cup Objects
           /\ rec'.snap = rec.snap /\ rec'.fresh = rec.fresh /\ rec'.list = rec.list
           /\ rec'.full = rec.full /\ rec'.requeue = rec.requeue /\ rec'.orphans = rec.orphans
<1>1. Realizing /\ \E template, object, out, err : DoEffect(Resource, template, object, out, err)
  BY DoHasEffect DEF DoStep
<1>2. PICK template, object, out, err : DoEffect(Resource, template, object, out, err)
  BY <1>1
<1>3. pc = "realize" /\ RecTyped(rec) BY <1>1 DEF Realizing, Types, ReconciliationTyped
<1>4. RecTyped(rec') /\ DoneFields(Resource, template, object, out, err)
  BY <1>1, <1>2, <1>3, DoneTyped
<1>5. /\ UNCHANGED <<wl, sel, tmpls, sa, allowed, cache, synced, queue, tracked,
                     watching, pc, edits>>
  BY <1>2 DEF DoEffect, Done
<1>6. /\ events \subseteq events' /\ events' \subseteq events \cup Objects
      /\ faults' = faults \/ Fault
      /\ excused \subseteq excused' /\ excused' \subseteq excused \cup Objects
  BY <1>2 DEF DoEffect
<1> QED BY <1>3, <1>4, <1>5, <1>6 DEF DoneFields

\* The informer cache, the queue, the events and the tracker stay well typed.
LEMMA ManagerTypesStep ==
    ASSUME Types, Next
    PROVE  ManagerTyped'
<1> USE DEF Types, ApiTyped, ManagerTyped
<1>1. CASE Quiet
  <2>1. UNCHANGED <<cache, synced, queue, tracked, watching>> BY <1>1, QuietFrame
  <2>2. events' \subseteq Templates \cup Objects \cup {SA, SC}
    <3>1. EditAccount \/ CollectGarbage \/ GetWorkloadFails =>
            events' \subseteq Templates \cup Objects \cup {SA, SC}
      BY DEF EditAccount, CollectGarbage, GetWorkloadFails, manager
    <3>2. \A s \in Selections : EditSelection(s) => events' = events \cup {SC}
      BY DEF EditSelection
    <3>3. \A t \in Templates, c \in Contents \cup {None} :
            EditTemplate(t, c) => events' = events \cup {t}
      BY DEF EditTemplate
    <3>4. \A n \in Objects : RemoveObject(n) => events' = ObjectEvent(n) BY DEF RemoveObject
    <3>5. \A n \in Objects, v \in Outs : Output(n, v) => events' = ObjectEvent(n) BY DEF Output
    <3>6. \A n \in Objects : ObjectEvent(n) \subseteq Templates \cup Objects \cup {SA, SC}
      BY DEF ObjectEvent
    <3> QED BY <1>1, <3>1, <3>2, <3>3, <3>4, <3>5, <3>6 DEF Quiet
  <2> QED BY <2>1, <2>2
<1>2. CASE EditOwner \/ DeleteOwner BY <1>2, NewVersionFrame
<1>3. CASE DeliverOwner BY <1>3 DEF DeliverOwner
<1>4. CASE Resync BY <1>4 DEF Resync
<1>5. CASE Restart
  <2>1. OwnerTyped(cache') /\ queue' \in BOOLEAN BY <1>5 DEF Restart, OwnerTyped
  <2>2. synced' = TRUE /\ events' = {} /\ tracked' = {} /\ watching' = {} BY <1>5 DEF Restart
  <2> QED BY <2>1, <2>2
<1>6. ASSUME NEW k \in events, DeliverEvent(k) PROVE ManagerTyped'
  BY <1>6 DEF DeliverEvent, Enqueues
<1>7. CASE WorkloadGone BY <1>7 DEF WorkloadGone
<1>8. CASE GetWorkload BY <1>8, Started
<1>9. CASE GetSupplyChain \/ GetServiceAccount BY <1>9, EarlySteps DEF manager
<1>10. CASE DoStep BY <1>10, DoFrame
<1>11. CASE ClearTracked BY <1>11 DEF ClearTracked
<1>12. CASE TrackDependencies
  <2>1. RecTyped(rec) BY <1>12 DEF TrackDependencies, ReconciliationTyped
  <2>2. Dependencies(rec.cur) \subseteq Templates \cup {SA}
    BY <2>1 DEF RecTyped, IsStatusList, ResourceStatus, Dependencies
  <2> QED BY <1>12, <2>2 DEF TrackDependencies
<1>13. CASE FindOrphans BY <1>13, OrphansFound DEF manager
<1>14. CASE \E n \in Objects : DeleteOrphan(n) BY <1>14, OrphanDeleted
<1>15. CASE WatchStamped BY <1>15, WatchesStarted
<1>16. CASE StatusUpdated \/ StatusUpdateFails \/ StatusUnchanged
  <2>1. UNCHANGED <<cache, events, tracked, watching>> BY <1>16, Ended
  <2>2. RecTyped(rec) BY <1>16, Ended DEF ReconciliationTyped
  <2>3. synced' \in BOOLEAN /\ queue' \in BOOLEAN
    BY <1>16, <2>2, Ended DEF Written, NotWritten, NothingToWrite, RecTyped
  <2> QED BY <2>1, <2>3
<1> QED BY StepKinds, <1>1, <1>2, <1>3, <1>4, <1>5, <1>6, <1>7, <1>8, <1>9, <1>10, <1>11,
           <1>12, <1>13, <1>14, <1>15, <1>16

\* The local variables of the reconciliation stay well typed.
LEMMA ReconciliationTypesStep ==
    ASSUME Types, Next, Progress
    PROVE  ReconciliationTyped'
<1> USE DEF Types, ReconciliationTyped
<1>1. CASE Quiet BY <1>1, QuietFrame
<1>2. CASE EditOwner \/ DeleteOwner BY <1>2, NewVersionFrame
<1>3. CASE DeliverOwner BY <1>3 DEF DeliverOwner
<1>4. CASE Resync BY <1>4 DEF Resync
<1>5. CASE Restart BY <1>5 DEF Restart
<1>6. ASSUME NEW k \in events, DeliverEvent(k) PROVE ReconciliationTyped'
  BY <1>6 DEF DeliverEvent
<1>7. CASE WorkloadGone BY <1>7 DEF WorkloadGone
<1>8. CASE GetWorkload BY <1>8, Started DEF Steps
<1>9. CASE GetSupplyChain \/ GetServiceAccount
  <2>1. RecTyped(rec) BY <1>9, EarlySteps DEF Early
  <2>2. CASE \E reason \in EarlyReasons : GiveUp(reason)
    BY <2>1, <2>2, GaveUp, EarlyAreReasons DEF Steps
  <2>3. CASE pc = "select" /\ pc' = "account" /\ rec' = [rec EXCEPT !.list = sel.list]
    <3>1. rec.i = 1 BY <2>3 DEF Progress, Staged, Early
    <3>2. RecTyped(rec') BY <2>1, <2>3, <3>1, GoesOn DEF ApiTyped
    <3> QED BY <2>3, <3>2 DEF Steps
  <2>4. CASE pc = "account" /\ pc' = "realize" /\ rec' = [rec EXCEPT !.full = TRUE]
    BY <2>1, <2>4, Begins DEF Steps
  <2> QED BY <1>9, <2>2, <2>3, <2>4, EarlySteps
<1>10. CASE DoStep BY <1>10, DoFrame
<1>11. CASE ClearTracked
  <2>1. pc = "realize" /\ pc' = "track" BY <1>11 DEF ClearTracked
  <2> QED BY <1>11, <2>1, Cleared DEF Steps
<1>12. CASE TrackDependencies BY <1>12 DEF TrackDependencies, Steps
<1>13. CASE FindOrphans BY <1>13, OrphansFound DEF Steps
<1>14. CASE \E n \in Objects : DeleteOrphan(n) BY <1>14, OrphanDeleted DEF Steps
<1>15. CASE WatchStamped BY <1>15, WatchesStarted DEF Steps
<1>16. CASE StatusUpdated \/ StatusUpdateFails \/ StatusUnchanged BY <1>16, Ended
<1> QED BY StepKinds, <1>1, <1>2, <1>3, <1>4, <1>5, <1>6, <1>7, <1>8, <1>9, <1>10, <1>11,
           <1>12, <1>13, <1>14, <1>15, <1>16

\* The bounds' counters, and the excused objects.
LEMMA RestTypesStep ==
    ASSUME Types, Next
    PROVE  RestTyped'
<1> USE DEF Types, RestTyped
<1>a. Fault => faults' \in 0..MaxFaults BY BoundsAssumption DEF Fault
<1>b. \A kind : Edit(kind) => edits' \in 0..MaxEdits BY BoundsAssumption DEF Edit
<1>1. CASE Quiet
  <2>1. UNCHANGED excused BY <1>1, QuietFrame
  <2>2. edits' \in 0..MaxEdits /\ faults' \in 0..MaxFaults
    <3>1. EditAccount \/ CollectGarbage \/ GetWorkloadFails =>
            edits' \in 0..MaxEdits /\ faults' \in 0..MaxFaults
      BY <1>a, <1>b DEF EditAccount, CollectGarbage, GetWorkloadFails
    <3>2. ASSUME NEW s \in Selections, EditSelection(s)
          PROVE  edits' \in 0..MaxEdits /\ faults' \in 0..MaxFaults
      BY <1>b, <3>2 DEF EditSelection
    <3>3. ASSUME NEW t \in Templates, NEW c \in Contents \cup {None}, EditTemplate(t, c)
          PROVE  edits' \in 0..MaxEdits /\ faults' \in 0..MaxFaults
      BY <1>b, <3>3 DEF EditTemplate
    <3>4. ASSUME NEW n \in Objects, RemoveObject(n)
          PROVE  edits' \in 0..MaxEdits /\ faults' \in 0..MaxFaults
      BY <1>b, <3>4 DEF RemoveObject
    <3>5. ASSUME NEW n \in Objects, NEW v \in Outs, Output(n, v)
          PROVE  edits' \in 0..MaxEdits /\ faults' \in 0..MaxFaults
      BY <1>b, <3>5 DEF Output
    <3> QED BY <1>1, <3>1, <3>2, <3>3, <3>4, <3>5 DEF Quiet
  <2> QED BY <2>1, <2>2
<1>2. CASE EditOwner \/ DeleteOwner BY <1>2, <1>b, NewVersionFrame DEF EditOwner, DeleteOwner
<1>3. CASE DeliverOwner BY <1>3 DEF DeliverOwner
<1>4. CASE Resync BY <1>4 DEF Resync
<1>5. CASE Restart
  <2>1. excused' = excused \cup (IF pc = "idle" THEN {} ELSE Refs(rec.cur))
        /\ edits' = edits /\ Fault
    BY <1>5 DEF Restart, Excuse
  <2>2. pc # "idle" => Refs(rec.cur) \subseteq Objects
    BY RefsAreObjects DEF ReconciliationTyped, RecTyped
  <2> QED BY <1>a, <2>1, <2>2
<1>6. ASSUME NEW k \in events, DeliverEvent(k) PROVE RestTyped'
  BY <1>6 DEF DeliverEvent
<1>7. CASE WorkloadGone BY <1>7 DEF WorkloadGone
<1>8. CASE GetWorkload BY <1>8, Started
<1>9. CASE GetSupplyChain \/ GetServiceAccount BY <1>9, <1>a, EarlySteps
<1>10. CASE DoStep BY <1>10, <1>a, DoFrame
<1>11. CASE ClearTracked BY <1>11 DEF ClearTracked
<1>12. CASE TrackDependencies BY <1>12 DEF TrackDependencies
<1>13. CASE FindOrphans
  <2>1. RecTyped(rec) BY <1>13, OrphansFound DEF ReconciliationTyped
  <2>2. Orphans(rec.snap.status.res, rec.cur) \subseteq Objects
    BY <2>1, RefsAreObjects DEF Orphans, RecTyped, OwnerTyped, StatusTyped
  <2> QED BY <1>13, <1>a, <2>2, OrphansFound
<1>14. CASE \E n \in Objects : DeleteOrphan(n)
  <2>1. PICK n \in Objects : DeleteOrphan(n) BY <1>14
  <2>2. rec.orphans \subseteq Objects
    BY <2>1, OrphanDeleted DEF ReconciliationTyped, RecTyped
  <2> QED BY <2>1, <2>2, <1>a, OrphanDeleted
<1>15. CASE WatchStamped BY <1>15, <1>a, WatchesStarted
<1>16. CASE StatusUpdated \/ StatusUpdateFails \/ StatusUnchanged
  <2>1. Refs(rec.cur) \subseteq Objects
    BY <1>16, Ended, RefsAreObjects DEF ReconciliationTyped, RecTyped
  <2>2. rec.fresh \in BOOLEAN BY <1>16, Ended DEF ReconciliationTyped, RecTyped
  <2>3. excused' \subseteq Objects
    BY <1>16, <2>1, <2>2, Ended DEF Written, NotWritten, NothingToWrite
  <2> QED BY <1>16, <1>a, <2>3, Ended
<1> QED BY StepKinds, <1>1, <1>2, <1>3, <1>4, <1>5, <1>6, <1>7, <1>8, <1>9, <1>10, <1>11,
           <1>12, <1>13, <1>14, <1>15, <1>16

\* Every step keeps the types.
LEMMA TypesStep ==
    ASSUME Types, Next, Progress
    PROVE  Types'
BY ApiTypesStep, ManagerTypesStep, RestTypesStep, ReconciliationTypesStep DEF Types

-----------------------------------------------------------------------------
(* Versions: which copies of the workload are equal.                       *)

\* At the start the informer has delivered nothing and no snapshot is taken.
LEMMA InitVersions == Init => Versions
BY DEF Init, Versions

\* Every step keeps the copies of the workload in order: a fresh snapshot is
\* the current object.
LEMMA VersionsStep ==
    ASSUME Types, Versions, Next
    PROVE  Versions'
<1> USE DEF Versions
<1>0. pc # "idle" => RecTyped(rec) BY DEF Types, ReconciliationTyped
<1>1. CASE Quiet BY <1>1, QuietFrame
<1>2. CASE EditOwner \/ DeleteOwner BY <1>2, NewVersionFrame
<1>3. CASE DeliverOwner BY <1>3 DEF DeliverOwner, api
<1>4. CASE Resync BY <1>4 DEF Resync, api
<1>5. CASE Restart BY <1>5 DEF Restart, api
<1>6. ASSUME NEW k \in events, DeliverEvent(k) PROVE Versions'
  <2>1. UNCHANGED <<wl, cache, synced, tracked, pc, rec>> /\ (queue => queue')
    BY <1>6 DEF DeliverEvent, api
  <2> QED BY <2>1
<1>7. CASE WorkloadGone BY <1>7 DEF WorkloadGone, api
<1>8. CASE GetWorkload BY <1>8, Started DEF api
<1>9. CASE GetSupplyChain \/ GetServiceAccount
  <2>1. UNCHANGED <<wl, cache, synced, queue, tracked>> /\ pc \in Early /\ RecTyped(rec)
    BY <1>9, <1>0, EarlySteps DEF api, manager, Early
  <2>2. pc' # "idle" /\ rec'.snap = rec.snap /\ rec'.fresh = rec.fresh
    <3>1. CASE \E reason \in EarlyReasons : GiveUp(reason)
      BY <2>1, <3>1, GaveUp, EarlyAreReasons
    <3>2. CASE pc' = "account" /\ rec' = [rec EXCEPT !.list = sel.list]
      BY <2>1, <3>2 DEF RecTyped
    <3>3. CASE pc' = "realize" /\ rec' = [rec EXCEPT !.full = TRUE]
      BY <2>1, <3>3 DEF RecTyped
    <3> QED BY <1>9, <3>1, <3>2, <3>3, EarlySteps
  <2> QED BY <2>1, <2>2 DEF Early
<1>10. CASE DoStep BY <1>10, DoFrame
<1>11. CASE ClearTracked
  <2>1. pc = "realize" /\ pc' = "track" /\ UNCHANGED <<wl, cache, synced, queue>>
    BY <1>11 DEF ClearTracked, api
  <2> QED BY <1>0, <1>11, <2>1, Cleared
<1>12. CASE TrackDependencies BY <1>12 DEF TrackDependencies, api
<1>13. CASE FindOrphans BY <1>13, OrphansFound DEF api, manager
<1>14. CASE \E n \in Objects : DeleteOrphan(n) BY <1>14, OrphanDeleted
<1>15. CASE WatchStamped BY <1>15, WatchesStarted DEF api
<1>16. CASE StatusUpdated \/ StatusUpdateFails \/ StatusUnchanged
  <2>1. pc = "update" /\ pc' = "idle" /\ UNCHANGED <<cache, tracked>> BY <1>16, Ended
  <2>2. RecTyped(rec) BY <1>0, <2>1
  <2>3. synced' => cache' = wl'
    BY <1>16, <2>1, Ended DEF Written, NotWritten, NothingToWrite
  <2>4. queue => queue'
    BY <1>16, Ended DEF Written, NotWritten, NothingToWrite
  <2>5. ~queue' => cache.exists BY <2>1, <2>2, <2>4 DEF RecTyped
  <2> QED BY <2>1, <2>3, <2>5
<1> QED BY StepKinds, <1>1, <1>2, <1>3, <1>4, <1>5, <1>6, <1>7, <1>8, <1>9, <1>10, <1>11,
           <1>12, <1>13, <1>14, <1>15, <1>16

-----------------------------------------------------------------------------
(* Pairs: a recorded object has its template recorded with it.             *)

\* The empty status has no object without a template.
LEMMA InitPairs == Init => Pairs
BY DEF Init, Pairs, Paired, NoStatus

\* Done records a template with an object, or carries both over.
LEMMA DoneIsPaired ==
    ASSUME Types, DoStep, Paired(rec.cur), Paired(rec.snap.status.res)
    PROVE  Paired(rec'.cur)
<1>1. Realizing /\ \E template, object, out, err : DoEffect(Resource, template, object, out, err)
  BY DoHasEffect DEF DoStep
<1>2. PICK template, object, out, err : DoEffect(Resource, template, object, out, err)
  BY <1>1
<1>3. DoneFields(Resource, template, object, out, err)
  BY <1>1, <1>2, DoFrame, DoneTyped
<1> DEFINE x == Resource
           s == Recorded(rec, x, template, object, out, err)
<1>4. s.stamped # None => s.tmpl # None
  BY <1>2 DEF Recorded, Paired, DoEffect
<1>5. /\ DOMAIN rec'.cur = DOMAIN rec.cur \cup {x.name} /\ rec'.cur[x.name] = s
      /\ \A n \in DOMAIN rec.cur \ {x.name} : rec'.cur[n] = rec.cur[n]
  BY <1>3 DEF DoneFields
<1> HIDE DEF s, x
<1>6. ASSUME NEW n \in DOMAIN rec'.cur, rec'.cur[n].stamped # None
      PROVE  rec'.cur[n].tmpl # None
  <2>1. CASE n = x.name BY <1>4, <1>5, <1>6, <2>1
  <2>2. CASE n # x.name
    <3>1. n \in DOMAIN rec.cur /\ rec'.cur[n] = rec.cur[n] BY <1>5, <2>2
    <3> QED BY <1>6, <3>1 DEF Paired
  <2> QED BY <2>1, <2>2
<1> QED BY <1>6 DEF Paired

\* Every step keeps object and template together in every status.
LEMMA PairsStep ==
    ASSUME Types, Pairs, Next
    PROVE  Pairs'
<1> USE DEF Pairs
<1>0. pc # "idle" => RecTyped(rec) BY DEF Types, ReconciliationTyped
<1>1. CASE Quiet BY <1>1, QuietFrame
<1>2. CASE EditOwner \/ DeleteOwner BY <1>2, NewVersionFrame
<1>3. CASE DeliverOwner BY <1>3 DEF DeliverOwner, api
<1>4. CASE Resync BY <1>4 DEF Resync, api
<1>5. CASE Restart BY <1>5 DEF Restart, api
<1>6. ASSUME NEW k \in events, DeliverEvent(k) PROVE Pairs'
  BY <1>6 DEF DeliverEvent, api
<1>7. CASE WorkloadGone BY <1>7 DEF WorkloadGone, api
<1>8. CASE GetWorkload
  <2>1. UNCHANGED <<wl, cache>> /\ rec'.snap = cache /\ DOMAIN rec'.cur = {}
    BY <1>8, Started DEF api
  <2>2. Paired(rec'.cur) BY <2>1 DEF Paired
  <2> QED BY <2>1, <2>2
<1>9. CASE GetSupplyChain \/ GetServiceAccount
  <2>1. UNCHANGED <<wl, cache>> /\ RecTyped(rec) /\ pc # "idle"
    BY <1>9, <1>0, EarlySteps DEF api, manager, Early
  <2>2. rec'.snap = rec.snap /\ rec'.cur = rec.cur
    <3>1. CASE \E reason \in EarlyReasons : GiveUp(reason)
      BY <2>1, <3>1, GaveUp, EarlyAreReasons
    <3>2. CASE rec' = [rec EXCEPT !.list = sel.list] BY <2>1, <3>2 DEF RecTyped
    <3>3. CASE rec' = [rec EXCEPT !.full = TRUE] BY <2>1, <3>3 DEF RecTyped
    <3> QED BY <1>9, <3>1, <3>2, <3>3, EarlySteps
  <2> QED BY <2>1, <2>2
<1>10. CASE DoStep BY <1>10, DoFrame, DoneIsPaired
<1>11. CASE ClearTracked
  <2>1. pc = "realize" /\ UNCHANGED <<wl, cache>> BY <1>11 DEF ClearTracked, api
  <2> QED BY <1>0, <1>11, <2>1, Cleared
<1>12. CASE TrackDependencies BY <1>12 DEF TrackDependencies, api
<1>13. CASE FindOrphans BY <1>13, OrphansFound DEF api, manager
<1>14. CASE \E n \in Objects : DeleteOrphan(n) BY <1>14, OrphanDeleted
<1>15. CASE WatchStamped BY <1>15, WatchesStarted DEF api
<1>16. CASE StatusUpdated \/ StatusUpdateFails \/ StatusUnchanged
  <2>1. pc = "update" /\ pc' = "idle" /\ UNCHANGED cache BY <1>16, Ended
  <2>2. RecTyped(rec) BY <1>0, <2>1
  <2>3. Paired(NewStatus.res) BY <2>1, <2>2, NewStatusTyped DEF RecTyped
  <2>4. Paired(wl'.status.res)
    BY <1>16, <2>3, Ended DEF Written, NotWritten, NothingToWrite
  <2> QED BY <2>1, <2>4
<1> QED BY StepKinds, <1>1, <1>2, <1>3, <1>4, <1>5, <1>6, <1>7, <1>8, <1>9, <1>10, <1>11,
           <1>12, <1>13, <1>14, <1>15, <1>16

-----------------------------------------------------------------------------
(* Progress: what a reconciliation has established at each step.           *)

\* No reconciliation is under way at the start.
LEMMA InitProgress == Init => Progress
BY DEF Init, Progress

\* What is known of a resource that is done stays true while objects are only
\* updated by their controllers, or removed.
LEMMA ListedKept ==
    ASSUME NEW r, NEW q, Listed(r, objs), NothingStamped \/ UNCHANGED objs,
           q.list = r.list, q.i = r.i, q.cur = r.cur, q.cond = r.cond, q.full = r.full,
           q.snap = r.snap
    PROVE  Listed(q, objs')
<1> SUFFICES ASSUME q.full
             PROVE  DOMAIN q.cur = DoneNames(q) /\ \A j \in 1..(q.i - 1) : DoneWell(q, objs', j)
  BY DEF Listed
<1>1. DOMAIN q.cur = DoneNames(q) BY DEF Listed, DoneNames
<1>2. ASSUME NEW j \in 1..(q.i - 1) PROVE DoneWell(q, objs', j)
  <2>1. DoneWell(r, objs, j) BY <1>2 DEF Listed
  <2> QED BY <2>1 DEF DoneWell, NothingStamped
<1> QED BY <1>1, <1>2

\* The list stays the selected one, or another reconciliation is to come.
LEMMA SelectedKept ==
    ASSUME NEW p, NEW r, NEW q, Selected(p, r, sel, events, queue),
           q.list = r.list, q.full = r.full,
           SC \in events' \/ (sel' = sel /\ (SC \in events => SC \in events' \/ queue')),
           queue => queue'
    PROVE  Selected(p, q, sel', events', queue')
BY DEF Selected

\* What is done stays done when the next resource is: it has a name of its own.
LEMMA ListedByDo ==
    ASSUME Types, DoStep, Listed(rec, objs), rec.full
    PROVE  Listed(rec', objs')
<1> DEFINE x == Resource
<1>1. Realizing /\ \E template, object, out, err : DoEffect(x, template, object, out, err)
  BY DoHasEffect DEF DoStep
<1>2. PICK template, object, out, err : DoEffect(x, template, object, out, err)
  BY <1>1
<1>3. RecTyped(rec) BY DoFrame
<1> DEFINE s == Recorded(rec, x, template, object, out, err)
<1>4. DoneFields(x, template, object, out, err)
  BY <1>1, <1>2, <1>3, DoneTyped
<1>5. /\ rec.i \in DOMAIN rec.list /\ x = rec.list[rec.i] /\ rec.i \in Nat /\ rec.i >= 1
      /\ DOMAIN rec.list = 1..Len(rec.list) /\ Len(rec.list) \in Nat
  <2>1. rec.i \in DOMAIN rec.list BY <1>1, <1>3, ResourceTyped
  <2>2. x = rec.list[rec.i] BY DEF Resource
  <2>3. rec.i \in Nat /\ rec.i >= 1 BY <1>3 DEF RecTyped
  <2>4. DOMAIN rec.list = 1..Len(rec.list) /\ Len(rec.list) \in Nat
    BY <1>3 DEF RecTyped, ListTyped
  <2> QED BY <2>1, <2>2, <2>3, <2>4
<1>6. /\ rec'.list = rec.list /\ rec'.i = rec.i + 1 /\ rec'.snap = rec.snap /\ rec'.full = rec.full
      /\ rec'.cond = IF rec.cond = None THEN err ELSE rec.cond
      /\ DOMAIN rec'.cur = DOMAIN rec.cur \cup {x.name} /\ rec'.cur[x.name] = s
      /\ \A n \in DOMAIN rec.cur \ {x.name} : rec'.cur[n] = rec.cur[n]
  BY <1>4 DEF DoneFields
<1>7. \A j \in 1..(rec.i - 1) : rec.list[j].name # x.name
  BY <1>3, <1>5 DEF RecTyped, ListTyped
<1>8. DOMAIN rec'.cur = DoneNames(rec')
  <2>1. 1..(rec'.i - 1) = 1..(rec.i - 1) \cup {rec.i} BY <1>5, <1>6
  <2>2. DoneNames(rec') = DoneNames(rec) \cup {x.name} BY <1>5, <1>6, <2>1 DEF DoneNames
  <2> QED BY <1>6, <2>2 DEF Listed
<1>9. \A n \in Objects : objs'[n] # None =>
         objs[n] = objs'[n] \/ objs'[n].spec.gen = rec.snap.gen
  <2>1. CASE UNCHANGED objs BY <2>1
  <2>2. ASSUME NEW m \in Objects, objs' = Applied(m, SpecOf(x)) 
        PROVE  \A n \in Objects : objs'[n] # None =>
                  objs[n] = objs'[n] \/ objs'[n].spec.gen = rec.snap.gen
    <3>1. objs'[m].spec = SpecOf(x) /\ \A n \in Objects \ {m} : objs'[n] = objs[n]
      BY <2>2, AppliedFacts DEF Types, ApiTyped
    <3>2. SpecOf(x).gen = rec.snap.gen BY DEF SpecOf
    <3> QED BY <3>1, <3>2
  <2> QED BY <1>2, <2>1, <2>2 DEF DoEffect
<1>10. ASSUME NEW j \in 1..(rec.i - 1) PROVE DoneWell(rec', objs', j)
  <2>1. DoneWell(rec, objs, j) BY <1>10 DEF Listed
  <2> DEFINE y == rec.list[j]
  <2>2. y.name # x.name /\ y.name \in DOMAIN rec.cur BY <1>7, <1>10, <2>1 DEF DoneWell
  <2>3. y.name \in DOMAIN rec'.cur /\ rec'.cur[y.name] = rec.cur[y.name] BY <1>6, <2>2
  <2>4. rec'.cond = None => rec.cond = None BY <1>6
  <2>5. rec'.list[j] = y BY <1>6
  <2>6. /\ rec.cond = None => rec.cur[y.name].err = None
        /\ (y.tmpl \in Templates /\ rec.cur[y.name].err = None) =>
              /\ rec.cur[y.name].stamped \in Objects
              /\ objs[rec.cur[y.name].stamped] # None =>
                    objs[rec.cur[y.name].stamped].spec.gen = rec.snap.gen
    BY <2>1 DEF DoneWell
  <2> HIDE DEF y
  <2>7. /\ rec'.cond = None => rec'.cur[y.name].err = None
        /\ (y.tmpl \in Templates /\ rec'.cur[y.name].err = None) =>
              /\ rec'.cur[y.name].stamped \in Objects
              /\ objs'[rec'.cur[y.name].stamped] # None =>
                    objs'[rec'.cur[y.name].stamped].spec.gen = rec'.snap.gen
    BY <1>6, <1>9, <2>3, <2>4, <2>6
  <2> QED BY <2>3, <2>5, <2>7 DEF DoneWell
<1>11. DoneWell(rec', objs', rec.i)
  <2>1. rec'.list[rec.i] = x BY <1>5, <1>6
  <2>2. s.err = err BY DEF Recorded
  <2>3. x.tmpl \in Templates /\ err = None => s.stamped = object /\ object \in Objects
    BY <1>2 DEF Recorded, DoEffect
  <2>4. x.tmpl \in Templates /\ err = None => objs'[object].spec.gen = rec.snap.gen
    <3>1. SpecOf(x).gen = rec.snap.gen BY DEF SpecOf
    <3>2. object # None => objs' = Applied(object, SpecOf(x)) /\ object \in Objects
      BY <1>2 DEF DoEffect
    <3>3. object # None => objs'[object].spec = SpecOf(x)
      BY <3>2, AppliedFacts DEF Types, ApiTyped
    <3> QED BY <1>2, <3>1, <3>3 DEF DoEffect
  <2>5. rec'.cond = None => err = None BY <1>6
  <2> HIDE DEF s, x
  <2> QED BY <1>6, <2>1, <2>2, <2>3, <2>4, <2>5 DEF DoneWell
<1>12. \A j \in 1..(rec'.i - 1) : j \in 1..(rec.i - 1) \/ j = rec.i BY <1>5, <1>6
<1> QED BY <1>8, <1>10, <1>11, <1>12 DEF Listed

\* The steps before Realize.
LEMMA EarlyProgress ==
    ASSUME Types, Progress, GetSupplyChain \/ GetServiceAccount
    PROVE  Progress'
<1>1. UNCHANGED <<sel, objs, events, queue, tracked>> /\ pc \in Early /\ RecTyped(rec)
  BY EarlySteps DEF api, manager, Early, Types, ReconciliationTyped
<1>2. /\ ~rec.full /\ rec.cond = None /\ DOMAIN rec.cur = {} /\ rec.i = 1
      /\ Selected(pc, rec, sel, events, queue)
  BY <1>1 DEF Progress, Staged, Early
<1>3. CASE \E reason \in EarlyReasons : GiveUp(reason)
  <2>1. PICK reason \in EarlyReasons : GiveUp(reason) BY <1>3
  <2>2. /\ pc' = "update" /\ rec'.i = rec.i /\ rec'.cur = rec.cur /\ rec'.full = rec.full
        /\ rec'.cond = reason /\ rec'.requeue = (reason \in UnhandledReasons)
    BY <1>1, <2>1, GaveUp, EarlyAreReasons
  <2>3. Staged(pc', rec', tracked') BY <1>2, <2>2 DEF Staged, Early, Late
  <2>4. Listed(rec', objs') /\ Selected(pc', rec', sel', events', queue')
    BY <1>2, <2>2 DEF Listed, Selected
  <2> QED BY <2>3, <2>4 DEF Progress
<1>4. CASE pc = "select" /\ pc' = "account" /\ rec' = [rec EXCEPT !.list = sel.list]
  <2>1. /\ rec'.list = sel.list /\ rec'.full = rec.full /\ rec'.cond = rec.cond
        /\ rec'.cur = rec.cur /\ rec'.i = rec.i
    BY <1>1, <1>2, <1>4, GoesOn DEF Types, ApiTyped
  <2>2. Staged(pc', rec', tracked') BY <1>2, <1>4, <2>1 DEF Staged, Early, Late
  <2>3. Listed(rec', objs') /\ Selected(pc', rec', sel', events', queue')
    BY <1>1, <1>2, <2>1 DEF Listed, Selected
  <2> QED BY <2>2, <2>3 DEF Progress
<1>5. CASE pc = "account" /\ pc' = "realize" /\ rec' = [rec EXCEPT !.full = TRUE]
  <2>1. /\ rec'.list = rec.list /\ rec'.full = TRUE /\ rec'.cond = rec.cond
        /\ rec'.cur = rec.cur /\ rec'.i = rec.i
    BY <1>1, <1>5, Begins
  <2>2. Staged(pc', rec', tracked') BY <1>5, <2>1 DEF Staged, Early, Late
  <2>3. Listed(rec', objs')
    <3>1. 1..(rec'.i - 1) = {} BY <1>2, <2>1
    <3>2. DoneNames(rec') = {} BY <3>1 DEF DoneNames
    <3> QED BY <1>2, <2>1, <3>1, <3>2 DEF Listed
  <2>4. Selected(pc', rec', sel', events', queue')
    BY <1>1, <1>2, <1>5, <2>1 DEF Selected
  <2> QED BY <2>2, <2>3, <2>4 DEF Progress
<1> QED BY <1>3, <1>4, <1>5, EarlySteps

\* Do.
LEMMA DoProgress ==
    ASSUME Types, Progress, DoStep
    PROVE  Progress'
<1>1. /\ pc = "realize" /\ pc' = pc /\ rec.full /\ rec'.full = rec.full /\ rec'.list = rec.list
      /\ UNCHANGED <<sel, queue, tracked>> /\ events \subseteq events'
  BY DoFrame DEF Progress, Staged, Late
<1>2. Listed(rec', objs') BY <1>1, ListedByDo DEF Progress
<1>3. Selected(pc', rec', sel', events', queue') BY <1>1 DEF Progress, Selected
<1>4. Staged(pc', rec', tracked') BY <1>1 DEF Staged, Early, Late
<1> QED BY <1>2, <1>3, <1>4 DEF Progress

\* Track, clean and watch.
LEMMA LateProgress ==
    ASSUME Types, Progress,
           \/ ClearTracked \/ TrackDependencies \/ FindOrphans \/ WatchStamped
           \/ \E n \in Objects : DeleteOrphan(n)
    PROVE  Progress'
<1>0. pc # "idle" => RecTyped(rec) BY DEF Types, ReconciliationTyped
<1>1. CASE ClearTracked
  <2>1. /\ pc = "realize" /\ pc' = "track" /\ rec.i > Len(rec.list)
        /\ UNCHANGED <<sel, objs, events, queue>>
    BY <1>1 DEF ClearTracked, api
  <2>2. /\ rec'.list = rec.list /\ rec'.full = rec.full /\ rec'.cond = rec.cond
        /\ rec'.cur = rec.cur /\ rec'.i = rec.i /\ rec'.snap = rec.snap
        /\ rec'.requeue = (rec.cond \in UnhandledReasons)
    BY <1>0, <1>1, <2>1, Cleared
  <2>3. rec.full /\ Listed(rec, objs) /\ Selected(pc, rec, sel, events, queue)
    BY <2>1 DEF Progress, Staged, Late
  <2>4. rec.i = Len(rec.list) + 1
    <3>1. rec.i \in Nat /\ rec.i <= Len(rec.list) + 1 /\ Len(rec.list) \in Nat
      BY <1>0, <2>1 DEF RecTyped, ListTyped
    <3> QED BY <2>1, <3>1
  <2>5. Staged(pc', rec', tracked') BY <2>1, <2>2, <2>3, <2>4 DEF Staged, Early, Late
  <2>6. Listed(rec', objs') BY <2>1, <2>2, <2>3, ListedKept
  <2>7. Selected(pc', rec', sel', events', queue') BY <2>1, <2>2, <2>3 DEF Selected
  <2> QED BY <2>5, <2>6, <2>7 DEF Progress
<1>2. CASE TrackDependencies
  <2>1. /\ pc = "track" /\ pc' = "orphans" /\ UNCHANGED <<sel, objs, events, queue, rec>>
        /\ Dependencies(rec.cur) \subseteq tracked'
    BY <1>2 DEF TrackDependencies, api
  <2>2. /\ Staged(pc, rec, tracked) /\ Listed(rec, objs) /\ Selected(pc, rec, sel, events, queue)
    BY <2>1 DEF Progress
  <2>3. Staged(pc', rec', tracked') BY <2>1, <2>2 DEF Staged, Early, Late
  <2>4. Selected(pc', rec', sel', events', queue')
    BY <2>1, <2>2 DEF Selected, Staged, Late
  <2> QED BY <2>1, <2>2, <2>3, <2>4 DEF Progress
<1>3. CASE FindOrphans
  <2>1. /\ pc = "orphans" /\ pc' = "delete" /\ UNCHANGED <<sel, objs, events, queue, tracked>>
        /\ rec'.list = rec.list /\ rec'.full = rec.full /\ rec'.cond = rec.cond
        /\ rec'.cur = rec.cur /\ rec'.i = rec.i /\ rec'.snap = rec.snap
        /\ rec'.requeue = rec.requeue
    BY <1>3, OrphansFound DEF api, manager
  <2>2. /\ Staged(pc, rec, tracked) /\ Listed(rec, objs) /\ Selected(pc, rec, sel, events, queue)
    BY <2>1 DEF Progress
  <2>3. Staged(pc', rec', tracked') BY <2>1, <2>2 DEF Staged, Early, Late
  <2>4. Listed(rec', objs') BY <2>1, <2>2, ListedKept
  <2>5. Selected(pc', rec', sel', events', queue')
    BY <2>1, <2>2 DEF Selected, Staged, Late
  <2> QED BY <2>3, <2>4, <2>5 DEF Progress
<1>4. CASE WatchStamped
  <2>1. /\ pc = "delete" /\ pc' = "update" /\ UNCHANGED <<sel, objs, queue, tracked>>
        /\ events \subseteq events'
        /\ rec'.list = rec.list /\ rec'.full = rec.full /\ rec'.cond = rec.cond
        /\ rec'.cur = rec.cur /\ rec'.i = rec.i /\ rec'.snap = rec.snap
        /\ rec.requeue => rec'.requeue
    BY <1>4, WatchesStarted DEF api
  <2>2. /\ Staged(pc, rec, tracked) /\ Listed(rec, objs) /\ Selected(pc, rec, sel, events, queue)
    BY <2>1 DEF Progress
  <2>3. Staged(pc', rec', tracked') BY <2>1, <2>2 DEF Staged, Early, Late
  <2>4. Listed(rec', objs') BY <2>1, <2>2, ListedKept
  <2>5. Selected(pc', rec', sel', events', queue')
    BY <2>1, <2>2 DEF Selected, Staged, Late
  <2> QED BY <2>3, <2>4, <2>5 DEF Progress
<1>5. ASSUME NEW n \in Objects, DeleteOrphan(n) PROVE Progress'
  <2>1. /\ pc = "delete" /\ pc' = "delete" /\ UNCHANGED <<sel, queue, tracked>>
        /\ events \subseteq events'
        /\ rec'.list = rec.list /\ rec'.full = rec.full /\ rec'.cond = rec.cond
        /\ rec'.cur = rec.cur /\ rec'.i = rec.i /\ rec'.snap = rec.snap
        /\ rec'.requeue = rec.requeue
    BY <1>5, OrphanDeleted
  <2>2. /\ Staged(pc, rec, tracked) /\ Listed(rec, objs) /\ Selected(pc, rec, sel, events, queue)
    BY <2>1 DEF Progress
  <2>3. Staged(pc', rec', tracked') BY <2>1, <2>2 DEF Staged
  <2>4. NothingStamped \/ UNCHANGED objs
    <3>1. objs' = [objs EXCEPT ![n] = None] => NothingStamped
      BY DEF NothingStamped, Types, ApiTyped, ObjectsTyped
    <3> QED BY <1>5, <3>1, OrphanDeleted
  <2>5. Listed(rec', objs') BY <2>1, <2>2, <2>4, ListedKept
  <2>6. Selected(pc', rec', sel', events', queue') BY <2>1, <2>2 DEF Selected
  <2> QED BY <2>3, <2>5, <2>6 DEF Progress
<1> QED BY <1>1, <1>2, <1>3, <1>4, <1>5

\* Every step keeps the reconciliation consistent with the stage it has
\* reached.
LEMMA ProgressStep ==
    ASSUME Types, Versions, Progress, Next
    PROVE  Progress'
<1>1. CASE Quiet
  <2>1. /\ UNCHANGED <<queue, tracked, pc, rec>> /\ NothingStamped
        /\ SC \in events' \/ (sel' = sel /\ events \subseteq events')
    BY <1>1, QuietFrame
  <2>2. ASSUME pc # "idle"
        PROVE  Staged(pc', rec', tracked') /\ Listed(rec', objs')
               /\ Selected(pc', rec', sel', events', queue')
    <3>1. /\ Staged(pc, rec, tracked) /\ Listed(rec, objs) /\ Selected(pc, rec, sel, events, queue)
      BY <2>2 DEF Progress
    <3>2. Listed(rec', objs') BY <2>1, <3>1, ListedKept
    <3>3. Selected(pc', rec', sel', events', queue') BY <2>1, <3>1 DEF Selected
    <3> QED BY <2>1, <3>1, <3>2, <3>3
  <2> QED BY <2>1, <2>2 DEF Progress
<1>2. CASE EditOwner \/ DeleteOwner
  <2>1. UNCHANGED <<sel, objs, events, queue, tracked, pc>> BY <1>2, NewVersionFrame
  <2>2. ASSUME pc # "idle"
        PROVE  Staged(pc', rec', tracked') /\ Listed(rec', objs')
               /\ Selected(pc', rec', sel', events', queue')
    <3>1. /\ Staged(pc, rec, tracked) /\ Listed(rec, objs) /\ Selected(pc, rec, sel, events, queue)
      BY <2>2 DEF Progress
    <3>2. /\ rec'.list = rec.list /\ rec'.full = rec.full /\ rec'.cond = rec.cond
          /\ rec'.cur = rec.cur /\ rec'.i = rec.i /\ rec'.snap = rec.snap
          /\ rec'.requeue = rec.requeue
      BY <1>2, <2>2, NewVersionFrame
    <3>3. Listed(rec', objs') BY <2>1, <3>1, <3>2, ListedKept
    <3>4. Selected(pc', rec', sel', events', queue') BY <2>1, <3>1, <3>2 DEF Selected
    <3>5. Staged(pc', rec', tracked') BY <2>1, <3>1, <3>2 DEF Staged
    <3> QED BY <3>3, <3>4, <3>5
  <2> QED BY <2>1, <2>2 DEF Progress
<1>3. CASE DeliverOwner \/ Resync
  <2>1. UNCHANGED <<sel, objs, events, tracked, pc, rec>> /\ queue'
    BY <1>3 DEF DeliverOwner, Resync, api
  <2> QED BY <2>1 DEF Progress, Selected
<1>4. CASE Restart BY <1>4 DEF Restart, Progress
<1>5. ASSUME NEW k \in events, DeliverEvent(k) PROVE Progress'
  <2>1. /\ UNCHANGED <<sel, objs, tracked, pc, rec>> /\ (queue => queue')
        /\ events' = events \ {k}
        /\ k = SC /\ cache.exists => queue'
    BY <1>5 DEF DeliverEvent, Enqueues, api
  <2>2. ASSUME pc # "idle" PROVE Selected(pc', rec', sel', events', queue')
    <3>1. queue \/ cache.exists BY <2>2 DEF Versions, Types, ReconciliationTyped, RecTyped
    <3> QED BY <2>1, <2>2, <3>1 DEF Progress, Selected
  <2> QED BY <2>1, <2>2 DEF Progress
<1>6. CASE WorkloadGone BY <1>6 DEF WorkloadGone, Progress
<1>7. CASE GetWorkload
  <2>1. /\ pc' = "select" /\ rec'.full = FALSE /\ rec'.cond = None
        /\ DOMAIN rec'.cur = {} /\ rec'.i = 1
    BY <1>7, Started
  <2>2. Staged(pc', rec', tracked') BY <2>1 DEF Staged, Early, Late
  <2>3. Listed(rec', objs') /\ Selected(pc', rec', sel', events', queue')
    BY <2>1 DEF Listed, Selected
  <2> QED BY <2>2, <2>3 DEF Progress
<1>8. CASE GetSupplyChain \/ GetServiceAccount BY <1>8, EarlyProgress
<1>9. CASE DoStep BY <1>9, DoProgress
<1>10. CASE \/ ClearTracked \/ TrackDependencies \/ FindOrphans \/ WatchStamped
            \/ \E n \in Objects : DeleteOrphan(n)
  BY <1>10, LateProgress
<1>11. CASE StatusUpdated \/ StatusUpdateFails \/ StatusUnchanged
  BY <1>11, Ended DEF Progress
<1> QED BY StepKinds, <1>1, <1>2, <1>3, <1>4, <1>5, <1>6, <1>7, <1>8, <1>9, <1>10, <1>11

-----------------------------------------------------------------------------
(* Cleaning: where every object on the cluster is still referred to.       *)

\* No object exists at the start.
LEMMA InitCleaning == Init => Cleaning
BY DEF Init, Cleaning

\* The part about a reconciliation is kept by what leaves its records alone and
\* stamps nothing.
LEMMA CleaningKept ==
    ASSUME NEW p, NEW r, NEW q, Kept(r), Orphaned(p, r), Swept(p, r, objs, excused),
           q.snap = r.snap, q.cur = r.cur, q.full = r.full, q.orphans = r.orphans,
           NothingStamped \/ UNCHANGED objs, excused \subseteq excused'
    PROVE  Kept(q) /\ Orphaned(p, q) /\ Swept(p, q, objs', excused')
<1>1. Kept(q) BY DEF Kept
<1>2. Orphaned(p, q) BY DEF Orphaned
<1>3. Swept(p, q, objs', excused') BY DEF Swept, NothingStamped
<1> QED BY <1>1, <1>2, <1>3

\* Every object stays accounted for when no reference is lost and none is
\* stamped.
LEMMA AccountedKept ==
    ASSUME Cleaning, NothingStamped \/ UNCHANGED objs, excused \subseteq excused',
           Refs(wl'.status.res) = Refs(wl.status.res),
           pc # "idle" => pc' # "idle" /\ Refs(rec'.cur) = Refs(rec.cur)
    PROVE  \A n \in Objects : objs'[n] # None =>
               \/ n \in excused' \cup Refs(wl'.status.res)
               \/ pc' # "idle" /\ n \in Refs(rec'.cur)
BY DEF Cleaning, NothingStamped

\* Realizing a resource adds its object to the list it will be found in.
LEMMA DoCleaning ==
    ASSUME Types, Progress, Cleaning, DoStep
    PROVE  Cleaning'
<1> DEFINE x == Resource
<1>1. Realizing /\ \E template, object, out, err : DoEffect(x, template, object, out, err)
  BY DoHasEffect DEF DoStep
<1>2. PICK template, object, out, err : DoEffect(x, template, object, out, err)
  BY <1>1
<1>3. /\ pc = "realize" /\ pc' = pc /\ RecTyped(rec) /\ UNCHANGED wl
      /\ rec'.snap = rec.snap /\ rec'.orphans = rec.orphans /\ rec'.full = rec.full
      /\ excused \subseteq excused'
  BY DoFrame
<1> DEFINE s == Recorded(rec, x, template, object, out, err)
<1>4. /\ DOMAIN rec'.cur = DOMAIN rec.cur \cup {x.name} /\ rec'.cur[x.name] = s
      /\ \A n \in DOMAIN rec.cur \ {x.name} : rec'.cur[n] = rec.cur[n]
  <2>1. DoneFields(x, template, object, out, err) BY <1>1, <1>2, <1>3, DoneTyped
  <2> QED BY <2>1 DEF DoneFields
<1>5. x.name \notin DOMAIN rec.cur
  <2>1. /\ rec.i \in DOMAIN rec.list /\ x = rec.list[rec.i]
    BY <1>1, <1>3, ResourceTyped DEF Resource
  <2>2. DOMAIN rec.list = 1..Len(rec.list) /\ Len(rec.list) \in Nat /\ rec.i \in Nat
    BY <1>3 DEF RecTyped, ListTyped
  <2>3. \A j \in 1..(rec.i - 1) : rec.list[j].name # x.name
    BY <1>3, <2>1, <2>2 DEF RecTyped, ListTyped
  <2>4. DOMAIN rec.cur = DoneNames(rec) BY <1>3 DEF Progress, Staged, Listed, Late
  <2> QED BY <2>3, <2>4 DEF DoneNames
<1>6. /\ Kept(rec) /\ Orphaned(pc, rec) BY <1>3 DEF Cleaning
<1>7. s.stamped = None => object = None
        /\ (x.name \in DOMAIN rec.snap.status.res => rec.snap.status.res[x.name].stamped = None)
  BY <1>2 DEF Recorded, DoEffect
<1>8. object # None => s.stamped = object BY <1>2 DEF Recorded, DoEffect
<1> HIDE DEF s, x
<1>9. Kept(rec')
  <2> SUFFICES ASSUME NEW y \in DOMAIN rec'.cur \cap DOMAIN rec'.snap.status.res,
                      rec'.snap.status.res[y].stamped # None
               PROVE  rec'.cur[y].stamped # None
    BY DEF Kept
  <2>1. CASE y = x.name BY <1>3, <1>4, <1>7, <2>1
  <2>2. CASE y # x.name
    <3>1. y \in DOMAIN rec.cur /\ rec'.cur[y] = rec.cur[y] BY <1>4, <2>2
    <3> QED BY <1>3, <1>6, <3>1 DEF Kept
  <2> QED BY <2>1, <2>2
<1>10. rec.orphans = {} BY <1>3, <1>6 DEF Orphaned
<1>11. Orphaned(pc', rec') /\ Swept(pc', rec', objs', excused')
  BY <1>3, <1>10 DEF Orphaned, Swept
<1>12. Refs(rec.cur) \subseteq Refs(rec'.cur)
  <2>1. \A n \in DOMAIN rec.cur : n \in DOMAIN rec'.cur /\ rec'.cur[n] = rec.cur[n]
    BY <1>4, <1>5
  <2> QED BY <2>1 DEF Refs
<1>13. object # None => object \in Refs(rec'.cur)
  BY <1>4, <1>8 DEF Refs
<1>14. \A n \in Objects : objs'[n] # None => objs[n] # None \/ n \in excused' \cup Refs(rec'.cur)
  <2>1. CASE UNCHANGED objs BY <2>1
  <2>2. CASE \E n \in Objects :
               /\ objs' = Applied(n, SpecOf(x))
               /\ n = object \/ excused' = excused \cup {n}
    <3>1. PICK n \in Objects : /\ objs' = Applied(n, SpecOf(x))
                               /\ n = object \/ excused' = excused \cup {n}
      BY <2>2
    <3>2. \A m \in Objects \ {n} : objs'[m] = objs[m]
      BY <3>1, AppliedFacts DEF Types, ApiTyped
    <3>3. n \in excused' \cup Refs(rec'.cur) BY <3>1, <1>13, NoneIsNoReason
    <3> QED BY <3>2, <3>3
  <2> QED BY <1>2, <2>1, <2>2 DEF DoEffect
<1>15. \A n \in Objects : objs'[n] # None =>
          \/ n \in excused' \cup Refs(wl'.status.res)
          \/ pc' # "idle" /\ n \in Refs(rec'.cur)
  BY <1>3, <1>12, <1>14 DEF Cleaning
<1> QED BY <1>9, <1>11, <1>15 DEF Cleaning

\* The steps of cleaning.
LEMMA SweepCleaning ==
    ASSUME Types, Cleaning, FindOrphans \/ \E n \in Objects : DeleteOrphan(n)
    PROVE  Cleaning'
<1>1. CASE FindOrphans
  <2> DEFINE orphans == Orphans(rec.snap.status.res, rec.cur)
  <2>1. /\ pc = "orphans" /\ pc' = "delete" /\ UNCHANGED <<wl, objs>>
        /\ rec'.snap = rec.snap /\ rec'.cur = rec.cur /\ rec'.full = rec.full
        /\ \/ rec'.orphans = orphans /\ UNCHANGED excused
           \/ rec'.orphans = rec.orphans /\ excused' = excused \cup orphans
    BY <1>1, OrphansFound DEF api
  <2>2. Kept(rec) /\ Orphaned(pc, rec) BY <2>1 DEF Cleaning
  <2>3. Kept(rec') BY <2>1, <2>2 DEF Kept
  <2>4. Orphaned(pc', rec')
    <3>1. rec.orphans = {} BY <2>1, <2>2 DEF Orphaned
    <3> QED BY <2>1, <3>1 DEF Orphaned
  <2>5. Swept(pc', rec', objs', excused') BY <2>1 DEF Swept
  <2>6. \A n \in Objects : objs'[n] # None =>
           \/ n \in excused' \cup Refs(wl'.status.res)
           \/ pc' # "idle" /\ n \in Refs(rec'.cur)
    BY <2>1, AccountedKept
  <2> QED BY <2>3, <2>4, <2>5, <2>6 DEF Cleaning
<1>2. ASSUME NEW n \in Objects, DeleteOrphan(n) PROVE Cleaning'
  <2>1. /\ pc = "delete" /\ pc' = "delete" /\ UNCHANGED wl
        /\ rec'.snap = rec.snap /\ rec'.cur = rec.cur /\ rec'.full = rec.full
        /\ rec'.orphans \subseteq rec.orphans
        /\ \/ /\ objs' = [objs EXCEPT ![n] = None] /\ excused' = excused \ {n}
              /\ rec.orphans \subseteq rec'.orphans \cup {n}
           \/ objs' = objs /\ excused' = excused \cup rec.orphans
    BY <1>2, OrphanDeleted
  <2>2. Kept(rec) /\ Orphaned(pc, rec) /\ Swept(pc, rec, objs, excused) BY <2>1 DEF Cleaning
  <2>3. Kept(rec') BY <2>1, <2>2 DEF Kept
  <2>4. Orphaned(pc', rec') BY <2>1, <2>2 DEF Orphaned
  <2>5. DOMAIN objs = Objects BY DEF Types, ApiTyped, ObjectsTyped
  <2>6. CASE /\ objs' = [objs EXCEPT ![n] = None] /\ excused' = excused \ {n}
             /\ rec.orphans \subseteq rec'.orphans \cup {n}
    <3>1. objs'[n] = None /\ \A m \in Objects \ {n} : objs'[m] = objs[m] BY <2>5, <2>6
    <3>2. Swept(pc', rec', objs', excused') BY <2>1, <2>2, <2>6, <3>1 DEF Swept
    <3>3. \A m \in Objects : objs'[m] # None =>
             \/ m \in excused' \cup Refs(wl'.status.res)
             \/ pc' # "idle" /\ m \in Refs(rec'.cur)
      BY <2>1, <2>6, <3>1 DEF Cleaning
    <3> QED BY <2>3, <2>4, <3>2, <3>3 DEF Cleaning
  <2>7. CASE objs' = objs /\ excused' = excused \cup rec.orphans
    <3>1. Swept(pc', rec', objs', excused') BY <2>1, <2>2, <2>7 DEF Swept
    <3>2. \A m \in Objects : objs'[m] # None =>
             \/ m \in excused' \cup Refs(wl'.status.res)
             \/ pc' # "idle" /\ m \in Refs(rec'.cur)
      BY <2>1, <2>7 DEF Cleaning
    <3> QED BY <2>3, <2>4, <3>1, <3>2 DEF Cleaning
  <2> QED BY <2>1, <2>6, <2>7
<1> QED BY <1>1, <1>2

\* The end of a reconciliation: what it referred to is in the status now, or
\* excused.
LEMMA EndCleaning ==
    ASSUME Types, Versions, Progress, Cleaning,
           StatusUpdated \/ StatusUpdateFails \/ StatusUnchanged
    PROVE  Cleaning'
<1>1. /\ pc = "update" /\ pc' = "idle" /\ UNCHANGED objs
      /\ Written \/ NotWritten \/ NothingToWrite
  BY Ended
<1>2. RecTyped(rec) BY <1>1 DEF Types, ReconciliationTyped
<1>3. /\ rec.full => NewStatus.res = rec.cur
      /\ ~rec.full => NewStatus.res = rec.snap.status.res
  BY <1>2, NewStatusTyped
<1>4. /\ rec.fresh => rec.snap = wl
      /\ ~rec.full => DOMAIN rec.cur = {}
      /\ rec.full \in BOOLEAN /\ rec.fresh \in BOOLEAN
      /\ rec.orphans = {}
      /\ Swept(pc, rec, objs, excused)
  BY <1>1, <1>2 DEF Versions, Progress, Staged, Cleaning, Orphaned, RecTyped
<1>5. ~rec.full => Refs(rec.cur) = {} BY <1>4 DEF Refs
<1> DEFINE Accounted(n) == n \in excused' \cup Refs(wl'.status.res)
<1> SUFFICES ASSUME NEW n \in Objects, objs[n] # None PROVE Accounted(n)
  BY <1>1 DEF Cleaning
<1>6. n \in excused \cup Refs(wl.status.res) \cup Refs(rec.cur) BY <1>1 DEF Cleaning
<1>7. CASE Written
  <2>1. wl'.status.res = NewStatus.res /\ excused' = excused \ Refs(NewStatus.res) /\ rec.snap = wl
    BY <1>4, <1>7 DEF Written
  <2>2. CASE rec.full
    <3>1. n \in Refs(wl.status.res) => n \in excused \cup Refs(rec.cur)
      BY <1>1, <1>4, <2>1, <2>2 DEF Swept, Orphans
    <3> QED BY <1>3, <1>6, <2>1, <2>2, <3>1
  <2>3. CASE ~rec.full BY <1>3, <1>5, <1>6, <2>1, <2>3
  <2> QED BY <1>4, <2>2, <2>3
<1>8. CASE NotWritten BY <1>6, <1>8 DEF NotWritten
<1>9. CASE NothingToWrite
  <2>1. CASE ~rec.fresh BY <1>6, <1>9, <2>1 DEF NothingToWrite
  <2>2. CASE rec.fresh
    <3>1. NewStatus.res = wl.status.res /\ excused' = excused /\ wl' = wl
      BY <1>4, <1>9, <2>2 DEF NothingToWrite
    <3> QED BY <1>3, <1>4, <1>5, <1>6, <3>1
  <2> QED BY <1>4, <2>1, <2>2
<1> QED BY <1>1, <1>7, <1>8, <1>9

\* Every step keeps each object accounted for: by the status, by the
\* reconciliation under way, or by a failure that excuses it.
LEMMA CleaningStep ==
    ASSUME Types, Versions, Progress, Cleaning, Next
    PROVE  Cleaning'
<1> DEFINE Accounts == \A n \in Objects : objs'[n] # None =>
               \/ n \in excused' \cup Refs(wl'.status.res)
               \/ pc' # "idle" /\ n \in Refs(rec'.cur)
           Swipes == pc' # "idle" => /\ Kept(rec') /\ Orphaned(pc', rec')
                                     /\ Swept(pc', rec', objs', excused')
<1>0. pc # "idle" => /\ RecTyped(rec) /\ Kept(rec) /\ Orphaned(pc, rec)
                     /\ Swept(pc, rec, objs, excused)
  BY DEF Types, ReconciliationTyped, Cleaning
<1>1. CASE Quiet
  <2>1. UNCHANGED <<wl, pc, rec, excused>> /\ NothingStamped BY <1>1, QuietFrame
  <2>2. Accounts BY <2>1, AccountedKept
  <2>3. Swipes BY <1>0, <2>1, CleaningKept
  <2> QED BY <2>2, <2>3 DEF Cleaning
<1>2. CASE EditOwner \/ DeleteOwner
  <2>1. UNCHANGED <<objs, pc, excused>> /\ wl'.status = wl.status BY <1>2, NewVersionFrame
  <2>2. pc # "idle" => /\ rec'.snap = rec.snap /\ rec'.cur = rec.cur
                       /\ rec'.full = rec.full /\ rec'.orphans = rec.orphans
    BY <1>2, NewVersionFrame
  <2>3. Accounts BY <2>1, <2>2, AccountedKept
  <2>4. Swipes BY <1>0, <2>1, <2>2, CleaningKept
  <2> QED BY <2>3, <2>4 DEF Cleaning
<1>3. CASE DeliverOwner \/ Resync \/ WorkloadGone
  <2>1. UNCHANGED <<wl, objs, pc, rec, excused>>
    BY <1>3 DEF DeliverOwner, Resync, WorkloadGone, api
  <2> QED BY <2>1 DEF Cleaning
<1>4. CASE Restart
  <2>1. /\ UNCHANGED <<wl, objs>> /\ pc' = "idle"
        /\ excused' = excused \cup (IF pc = "idle" THEN {} ELSE Refs(rec.cur))
    BY <1>4 DEF Restart, Excuse, api
  <2> QED BY <2>1 DEF Cleaning
<1>5. ASSUME NEW k \in events, DeliverEvent(k) PROVE Cleaning'
  <2>1. UNCHANGED <<wl, objs, pc, rec, excused>> BY <1>5 DEF DeliverEvent, api
  <2> QED BY <2>1 DEF Cleaning
<1>7. CASE GetWorkload
  <2>1. /\ UNCHANGED <<wl, objs, excused>> /\ pc = "idle" /\ pc' = "select"
        /\ DOMAIN rec'.cur = {} /\ rec'.orphans = {}
    BY <1>7, Started DEF api
  <2>2. Accounts BY <2>1 DEF Cleaning
  <2>3. Swipes BY <2>1 DEF Kept, Orphaned, Swept
  <2> QED BY <2>2, <2>3 DEF Cleaning
<1>8. CASE GetSupplyChain \/ GetServiceAccount
  <2>1. UNCHANGED <<wl, objs, excused>> /\ pc \in Early /\ RecTyped(rec) /\ pc # "idle"
    BY <1>0, <1>8, EarlySteps DEF api, Early
  <2>2. /\ rec'.snap = rec.snap /\ rec'.cur = rec.cur /\ rec'.orphans = rec.orphans
        /\ pc' \notin {"idle", "delete"} /\ (pc' = "update" => rec'.full = rec.full)
    <3>1. CASE \E reason \in EarlyReasons : GiveUp(reason)
      BY <2>1, <3>1, GaveUp, EarlyAreReasons
    <3>2. CASE pc' = "account" /\ rec' = [rec EXCEPT !.list = sel.list]
      BY <2>1, <3>2 DEF RecTyped
    <3>3. CASE pc' = "realize" /\ rec' = [rec EXCEPT !.full = TRUE]
      BY <2>1, <3>3 DEF RecTyped
    <3> QED BY <1>8, <3>1, <3>2, <3>3, EarlySteps
  <2>3. ~rec.full BY <2>1 DEF Progress, Staged
  <2>4. Kept(rec') BY <1>0, <2>1, <2>2 DEF Kept
  <2>5. Orphaned(pc', rec') BY <1>0, <2>1, <2>2 DEF Orphaned, Early
  <2>6. Swept(pc', rec', objs', excused') BY <2>2, <2>3 DEF Swept
  <2>7. Accounts BY <2>1, <2>2, AccountedKept
  <2> QED BY <2>4, <2>5, <2>6, <2>7 DEF Cleaning
<1>9. CASE DoStep BY <1>9, DoCleaning
<1>10. CASE ClearTracked \/ TrackDependencies
  <2>1. /\ UNCHANGED <<wl, objs, excused>> /\ pc \in {"realize", "track"}
        /\ pc' \in {"track", "orphans"}
    BY <1>10 DEF ClearTracked, TrackDependencies, api
  <2>2. rec'.snap = rec.snap /\ rec'.cur = rec.cur /\ rec'.orphans = rec.orphans
    BY <1>0, <1>10, <2>1, Cleared DEF TrackDependencies
  <2>3. Kept(rec') BY <1>0, <2>1, <2>2 DEF Kept
  <2>4. Orphaned(pc', rec') BY <1>0, <2>1, <2>2 DEF Orphaned
  <2>5. Swept(pc', rec', objs', excused') BY <2>1 DEF Swept
  <2>6. Accounts BY <2>1, <2>2, AccountedKept
  <2> QED BY <2>3, <2>4, <2>5, <2>6 DEF Cleaning
<1>11. CASE FindOrphans \/ \E n \in Objects : DeleteOrphan(n) BY <1>11, SweepCleaning
<1>12. CASE WatchStamped
  <2>1. /\ UNCHANGED <<wl, objs, excused>> /\ pc = "delete" /\ pc' = "update"
        /\ rec'.snap = rec.snap /\ rec'.cur = rec.cur /\ rec'.orphans = rec.orphans
        /\ rec'.full = rec.full /\ rec.orphans = {}
    BY <1>12, WatchesStarted DEF api
  <2>2. Kept(rec') BY <1>0, <2>1 DEF Kept
  <2>3. Orphaned(pc', rec') BY <1>0, <2>1 DEF Orphaned
  <2>4. Swept(pc', rec', objs', excused') BY <1>0, <2>1 DEF Swept
  <2>5. Accounts BY <2>1, AccountedKept
  <2> QED BY <2>2, <2>3, <2>4, <2>5 DEF Cleaning
<1>13. CASE StatusUpdated \/ StatusUpdateFails \/ StatusUnchanged BY <1>13, EndCleaning
<1> QED BY StepKinds, <1>1, <1>2, <1>3, <1>4, <1>5, <1>7, <1>8, <1>9, <1>10, <1>11, <1>12, <1>13

-----------------------------------------------------------------------------
(* Settlement: what a settled workload promises.                           *)

\* At the start the informer is behind the API server, so nothing has
\* settled.
LEMMA InitSettlement == Init => Settlement
BY DEF Init, Settlement, Settled, SettledIsObserved, SettledIsTracked, SubmittedMeansApplied

\* A workload settles only at the end of a reconciliation that had read its
\* latest version and found the status that it computes.
LEMMA Settles ==
    ASSUME Types, Versions, StatusUpdated \/ StatusUpdateFails \/ StatusUnchanged, Settled'
    PROVE  /\ pc = "update" /\ RecTyped(rec)
           /\ UNCHANGED <<wl, sel, objs, tracked, events>> /\ ~queue /\ ~rec.requeue
           /\ rec.snap = wl
           /\ wl.status.gen = wl.gen
           /\ wl.status.cond = NewStatus.cond /\ wl.status.res = NewStatus.res
<1>1. /\ pc = "update" /\ UNCHANGED <<sel, objs, cache, tracked, events>>
      /\ Written \/ NotWritten \/ NothingToWrite
  BY Ended
<1>2. RecTyped(rec) BY <1>1 DEF Types, ReconciliationTyped
<1>3. NewStatus.gen = rec.snap.gen BY <1>2, NewStatusTyped
<1>4. ~queue' /\ synced' BY DEF Settled
<1>5. CASE Written
  <2>1. /\ rec.fresh /\ wl' = wl /\ wl'.status = NewStatus /\ ~queue /\ ~rec.requeue
    BY <1>4, <1>5 DEF Written
  <2>2. rec.snap = wl BY <1>1, <2>1 DEF Versions
  <2> QED BY <1>1, <1>2, <1>3, <2>1, <2>2
<1>6. CASE NotWritten BY <1>4, <1>6 DEF NotWritten
<1>7. CASE NothingToWrite
  <2>1. /\ wl' = wl /\ synced /\ ~queue /\ ~rec.requeue
        /\ NewStatus.cond = rec.snap.status.cond /\ rec.snap.status.gen = rec.snap.gen
        /\ NewStatus.res = rec.snap.status.res
    BY <1>4, <1>7 DEF NothingToWrite
  <2>2. rec.snap = wl BY <1>1, <2>1 DEF Versions
  <2> QED BY <1>1, <1>2, <2>1, <2>2
<1> QED BY <1>1, <1>5, <1>6, <1>7

\* A reconciliation that ends with nothing left to do has recorded what it
\* saw.
LEMMA EndSettlement ==
    ASSUME Types, Versions, Progress, StatusUpdated \/ StatusUpdateFails \/ StatusUnchanged
    PROVE  Settlement'
<1> SUFFICES ASSUME Settled' PROVE Settlement'
  BY DEF Settlement, SettledIsObserved, SettledIsTracked, SubmittedMeansApplied
<1>1. /\ pc = "update" /\ RecTyped(rec)
      /\ UNCHANGED <<wl, sel, objs, tracked, events>> /\ ~queue /\ ~rec.requeue
      /\ rec.snap = wl
      /\ wl.status.gen = wl.gen
      /\ wl.status.cond = NewStatus.cond /\ wl.status.res = NewStatus.res
  BY Settles
<1>2. /\ rec.cond = None => NewStatus.cond = "ResourcesSubmitted"
      /\ rec.cond # None => NewStatus.cond = rec.cond
      /\ rec.full => NewStatus.res = rec.cur
  BY <1>1, NewStatusTyped
<1>3. /\ ~rec.full => rec.cond \in EarlyReasons
      /\ rec.cond \notin UnhandledReasons
      /\ rec.full => rec.i = Len(rec.list) + 1
      /\ rec.full => Dependencies(rec.cur) \subseteq tracked
      /\ rec.full => \A j \in 1..(rec.i - 1) : DoneWell(rec, objs, j)
      /\ rec.full => rec.list = sel.list \/ SC \in events
  BY <1>1 DEF Progress, Staged, Listed, Selected
<1>4. "ResourcesSubmitted" \notin Reasons
  BY DEF Reasons, HandledReasons, UnhandledReasons
<1>5. rec.cond # None \/ rec.full BY <1>3, EarlyAreReasons, NoneIsNoReason
<1>6. wl.status.cond \notin UnhandledReasons
  BY <1>1, <1>2, <1>3, <1>4 DEF Reasons
<1>7. wl.status.cond \notin EarlyReasons => Dependencies(wl.status.res) \subseteq tracked
  <2>1. wl.status.cond \notin EarlyReasons => rec.full BY <1>1, <1>2, <1>3, <1>5
  <2> QED BY <1>1, <1>2, <1>3, <2>1
<1>8. SettledIsObserved' BY <1>1, <1>6 DEF SettledIsObserved
<1>9. SettledIsTracked' BY <1>1, <1>7 DEF SettledIsTracked, Dependencies
<1>10. SubmittedMeansApplied'
  <2> SUFFICES ASSUME SC \notin events, wl.status.cond = "ResourcesSubmitted",
                      NEW i \in DOMAIN sel.list, sel.list[i].tmpl \in Templates,
                      sel.list[i].name \in DOMAIN wl.status.res
               PROVE  LET n == wl.status.res[sel.list[i].name].stamped
                      IN  n # None /\ (objs[n] # None => objs[n].spec.gen = wl.gen)
    BY <1>1 DEF SubmittedMeansApplied
  <2>1. rec.cond = None BY <1>1, <1>2, <1>4 DEF RecTyped
  <2>2. rec.full /\ rec.list = sel.list /\ wl.status.res = rec.cur
    BY <1>1, <1>2, <1>3, <1>5, <2>1
  <2>3. i \in 1..(rec.i - 1)
    <3>1. DOMAIN rec.list = 1..Len(rec.list) /\ Len(rec.list) \in Nat
      BY <1>1 DEF RecTyped, ListTyped
    <3> QED BY <1>3, <2>2, <3>1
  <2>4. DoneWell(rec, objs, i) BY <1>3, <2>2, <2>3
  <2> QED BY <1>1, <2>1, <2>2, <2>4, NoneIsNoReason DEF DoneWell
<1> QED BY <1>8, <1>9, <1>10 DEF Settlement

\* The promises outlast what changes neither the workload nor the tracker.
LEMMA SettlementKept ==
    ASSUME Settlement, UNCHANGED <<wl, tracked>>, Settled' => Settled,
           NothingStamped \/ UNCHANGED objs, Types,
           Settled' => SC \in events' \/ (sel' = sel /\ SC \notin events)
    PROVE  Settlement'
<1>1. SettledIsObserved' BY DEF Settlement, SettledIsObserved
<1>2. SettledIsTracked' BY DEF Settlement, SettledIsTracked
<1>3. SubmittedMeansApplied'
  <2> SUFFICES ASSUME Settled', SC \notin events', wl.status.cond = "ResourcesSubmitted",
                      wl.status.gen = wl.gen,
                      NEW i \in DOMAIN sel.list, sel.list[i].tmpl \in Templates,
                      sel.list[i].name \in DOMAIN wl.status.res, sel' = sel
               PROVE  LET n == wl.status.res[sel.list[i].name].stamped
                      IN  n # None /\ (objs'[n] # None => objs'[n].spec.gen = wl.gen)
    BY DEF SubmittedMeansApplied
  <2>1. /\ wl.status.res[sel.list[i].name].stamped # None
        /\ objs[wl.status.res[sel.list[i].name].stamped] # None =>
              objs[wl.status.res[sel.list[i].name].stamped].spec.gen = wl.gen
    BY DEF Settlement, SubmittedMeansApplied
  <2>2. wl.status.res[sel.list[i].name].stamped \in Objects
    BY <2>1 DEF Types, ApiTyped, OwnerTyped, StatusTyped, IsStatusList, ResourceStatus
  <2> QED BY <2>1, <2>2 DEF NothingStamped
<1> QED BY <1>1, <1>2, <1>3 DEF Settlement

\* Every step keeps what a settled workload promises.
LEMMA SettlementStep ==
    ASSUME Types, Versions, Progress, Settlement, Next
    PROVE  Settlement'
<1>1. ASSUME ~Settled' PROVE Settlement'
  BY <1>1 DEF Settlement, SettledIsObserved, SettledIsTracked, SubmittedMeansApplied
<1>2. CASE Quiet
  <2>1. /\ UNCHANGED <<wl, synced, queue, tracked, pc>> /\ NothingStamped
        /\ SC \in events' \/ (sel' = sel /\ events \subseteq events')
    BY <1>2, QuietFrame
  <2>2. Settled' => Settled BY <2>1 DEF Settled
  <2> QED BY <2>1, <2>2, SettlementKept
<1>3. CASE EditOwner \/ DeleteOwner \/ DeliverOwner \/ Resync
  <2>1. ~Settled' BY <1>3, NewVersionFrame DEF Settled, DeliverOwner, Resync
  <2> QED BY <1>1, <2>1
<1>4. CASE Restart
  <2>1. ~Settled' BY <1>4 DEF Settled, Restart, api
  <2> QED BY <1>1, <2>1
<1>5. ASSUME NEW k \in events, DeliverEvent(k) PROVE Settlement'
  <2>1. /\ UNCHANGED <<wl, sel, objs, cache, synced, tracked, pc>> /\ (queue => queue')
        /\ events' = events \ {k}
        /\ k = SC /\ cache.exists => queue'
    BY <1>5 DEF DeliverEvent, Enqueues, api
  <2>2. Settled' => Settled BY <2>1 DEF Settled
  <2>3. Settled' => cache.exists /\ ~queue' BY <2>1 DEF Settled, Versions
  <2> QED BY <2>1, <2>2, <2>3, SettlementKept
<1>6. CASE WorkloadGone
  <2>1. ~Settled' BY <1>6 DEF Settled, WorkloadGone, Versions, api
  <2> QED BY <1>1, <2>1
<1>7. CASE \/ GetWorkload \/ GetSupplyChain \/ GetServiceAccount \/ DoStep \/ ClearTracked
           \/ TrackDependencies \/ FindOrphans \/ WatchStamped
           \/ \E n \in Objects : DeleteOrphan(n)
  <2>1. GetWorkload \/ FindOrphans \/ WatchStamped \/ (\E n \in Objects : DeleteOrphan(n)) =>
          pc' # "idle"
    BY Started, OrphansFound, WatchesStarted, OrphanDeleted
  <2>2. DoStep => pc' # "idle" BY DoFrame
  <2>3. GetSupplyChain \/ GetServiceAccount => pc' # "idle" BY EarlySteps DEF GiveUp
  <2>4. ClearTracked \/ TrackDependencies => pc' # "idle"
    BY DEF ClearTracked, TrackDependencies
  <2>5. ~Settled' BY <1>7, <2>1, <2>2, <2>3, <2>4 DEF Settled
  <2> QED BY <1>1, <2>5
<1>8. CASE StatusUpdated \/ StatusUpdateFails \/ StatusUnchanged BY <1>8, EndSettlement
<1> QED BY StepKinds, <1>2, <1>3, <1>4, <1>5, <1>6, <1>7, <1>8

-----------------------------------------------------------------------------
(* The theorems.                                                           *)

\* The initial state satisfies the inductive invariant.
LEMMA InitInvariant == Init => IInv
BY InitTypes, InitVersions, InitPairs, InitProgress, InitCleaning, InitSettlement DEF IInv

\* Stuttering changes nothing of it.
LEMMA StutterInvariant ==
    ASSUME IInv, UNCHANGED vars
    PROVE  IInv'
<1> USE DEF vars, api, manager
<1>1. Types'
  BY DEF IInv, Types, ApiTyped, ObjectsTyped, ManagerTyped, RestTyped, ReconciliationTyped
<1>2. Versions' /\ Pairs' /\ Progress' /\ Cleaning' BY DEF IInv, Versions, Pairs, Progress, Cleaning
<1>3. Settlement'
  BY DEF IInv, Settlement, SettledIsObserved, SettledIsTracked, SubmittedMeansApplied, Settled
<1> QED BY <1>1, <1>2, <1>3 DEF IInv

\* Every step preserves the inductive invariant.
LEMMA NextInvariant ==
    ASSUME IInv, Next
    PROVE  IInv'
BY TypesStep, VersionsStep, PairsStep, ProgressStep, CleaningStep, SettlementStep DEF IInv

\* The inductive invariant holds of every behaviour.
LEMMA Invariance == Spec => []IInv
<1>1. IInv /\ [Next]_vars => IInv' BY StutterInvariant, NextInvariant
<1> QED BY <1>1, InitInvariant, PTL DEF Spec

(* Every variable keeps its type, for every supply chain and every order of *)
(* the calls of workload_reconciler.go.                                     *)
THEOREM TypesAreCorrect == Spec => []TypeOK
BY Invariance, TypesGiveTypeOK, PTL DEF IInv

(* Whatever is recorded with a stamped object has its template, too, so     *)
(* that getEquivalenceTest never dereferences a nil TemplateRef.            *)
THEOREM TemplateIsRecorded == Spec => []StampedHasTemplate
<1>1. IInv => StampedHasTemplate BY DEF IInv, Pairs, Paired, StampedHasTemplate
<1> QED BY <1>1, Invariance, PTL

(* A deleted workload leaves no entry in the dependency tracker.            *)
THEOREM DeletedAreForgotten == Spec => []DeletedIsForgotten
<1>1. IInv => DeletedIsForgotten BY DEF IInv, Versions, DeletedIsForgotten
<1> QED BY <1>1, Invariance, PTL

(* A workload never settles on an old generation, nor on an error that is   *)
(* to be retried.                                                           *)
THEOREM SettledAreObserved == Spec => []SettledIsObserved
<1>1. IInv => SettledIsObserved BY DEF IInv, Settlement
<1> QED BY <1>1, Invariance, PTL

(* What a settled workload's status was computed from is tracked.           *)
THEOREM SettledAreTracked == Spec => []SettledIsTracked
<1>1. IInv => SettledIsTracked BY DEF IInv, Settlement
<1> QED BY <1>1, Invariance, PTL

(* A workload that settled as submitted has been stamped at its generation. *)
THEOREM SubmittedAreApplied == Spec => []SubmittedMeansApplied
<1>1. IInv => SubmittedMeansApplied BY DEF IInv, Settlement
<1> QED BY <1>1, Invariance, PTL

(* Every stamped object of a settled workload is named in its status, but   *)
(* for the ones whose reference a failed call lost.                         *)
THEOREM OrphansAreExplained == Spec => []NoUnexplainedOrphan
<1>1. IInv => NoUnexplainedOrphan BY DEF IInv, Cleaning, NoUnexplainedOrphan, Settled
<1> QED BY <1>1, Invariance, PTL

(* cleanupOrphanedObjects deletes an object only when its resource is gone  *)
(* or has another object, never one that a resource has now.                *)
THEOREM OnlyReplacedAreDeleted == Spec => DeletesOnlyReplaced
<1> DEFINE Replaced(n) ==
             /\ n \notin Refs(rec.cur)
             /\ \A x \in DOMAIN rec.cur \cap DOMAIN rec.snap.status.res :
                   rec.snap.status.res[x].stamped = n => rec.cur[x].stamped # None
<1>1. ASSUME IInv, NEW n \in Objects, DeleteOrphan(n) PROVE Replaced(n)
  <2>1. pc = "delete" /\ n \in rec.orphans BY <1>1, OrphanDeleted DEF IInv
  <2>2. Kept(rec) /\ Orphaned(pc, rec) BY <1>1, <2>1 DEF IInv, Cleaning
  <2>3. n \notin Refs(rec.cur) BY <2>1, <2>2 DEF Orphaned, Orphans
  <2> QED BY <1>1, <2>2, <2>3, NoneIsNoReason DEF Kept
<1>2. IInv => [\A n \in Objects : (DeleteOrphan(n) /\ objs'[n] # objs[n]) => Replaced(n)]_vars
  BY <1>1
<1> QED BY <1>2, Invariance, PTL DEF DeletesOnlyReplaced
=============================================================================
