--------------------- MODULE RunnableReconcilerProofs ---------------------
(* Proofs about the runnable reconciler, for any set of run templates and   *)
(* specs, any retention policy, any mix of troubles and any number of runs: *)
(* its types, that every run was called for, that it keeps the promises of  *)
(* RunLedger, and that it is up to date whenever it rests.                  *)
EXTENDS RunnableReconciler, FiniteSetTheorems, SequenceTheorems, TLAPS

-----------------------------------------------------------------------------
(* Types, by the fields of the records.                                     *)
Runs ==
    [spec : RunSpecs, edited : BOOLEAN, created : 1..MaxRuns, health : Health,
     fate : {"kept", "retired", "discarded"}]

RunsTyped == runs \in Seq(Runs) /\ Len(runs) <= MaxRuns

(* A run is created in the second of the run before it or in a later one.   *)
RunsOrdered ==
    \A i, j \in DOMAIN runs : /\ runs[i].created <= i
                              /\ i <= j => runs[i].created <= runs[j].created

Succeeded == {i \in DOMAIN runs : runs[i].health = "True"}

(* The outputs that a runnable reports are those of one of the successes    *)
(* in good.                                                                 *)
Typed(r, good) ==
    /\ DOMAIN r = {"exists", "gen", "spec", "status"}
    /\ r.exists \in BOOLEAN /\ r.gen \in 1..3 /\ r.spec \in Specs
    /\ DOMAIN r.status = {"gen", "reason", "run", "out"}
    /\ r.status.gen \in 0..3 /\ r.status.reason \in Reasons \cup {None}
    /\ r.status.run \in Health \cup {None}
    /\ r.status.out \in good \cup {None}

RecTyped(r, ids, good) ==
    /\ DOMAIN r = {"snap", "fresh", "content", "sel", "run", "health", "doomed", "reason", "early",
                   "requeue", "out"}
    /\ Typed(r.snap, good) /\ r.fresh \in BOOLEAN
    /\ r.content \in Contents \cup {None} /\ r.sel \in Selectable \cup {None}
    /\ r.run \in ids \cup {None} /\ r.health \in Health
    /\ r.doomed \subseteq ids /\ r.reason \in Reasons
    /\ r.out \in good \cup {None}

(* Every kind of edit is made once.                                         *)
Once(kind) == IF kind \in troubles THEN 1 ELSE 0

OwnerTypes ==
    /\ Typed(rn, Succeeded) /\ Typed(cache, Succeeded)
    /\ rn.gen = 1 + Once("input") + Once("switch")

RecTypes ==
    /\ pc \in Steps \cup {"idle"}
    /\ pc = "idle" => rec = None
    /\ pc # "idle" => RecTyped(rec, DOMAIN runs, Succeeded)
    /\ pc = "ensure" => rec.sel \in Selectable /\ rec.content \in Contents /\ Stampable(rec.content)

OtherTypes ==
    /\ rts \in [RunTemplates -> Contents \cup {None}]
    /\ account \in {"ok", "missing", "forbidden"}
    /\ selected \in Selectable \cup {None}
    /\ synced \in BOOLEAN /\ queue \in BOOLEAN /\ watching \in BOOLEAN
    /\ events \subseteq RunTemplates \cup {SA}
    /\ tracked \subseteq RunTemplates \cup {SA}
    /\ DOMAIN submitted = {KeyOf[t] : t \in RunTemplates}
    /\ \A k \in DOMAIN submitted : submitted[k] \in RunSpecs \cup {None}
    /\ troubles \subseteq UNION Scenarios /\ causes \in Nat
    /\ excused \subseteq {"selection", "transient", "deletion", "unwatched"}

Types == RunsTyped /\ RunsOrdered /\ OwnerTypes /\ RecTypes /\ OtherTypes

-----------------------------------------------------------------------------
(* Which versions of the runnable there are: what a reconciliation works    *)
(* with is not newer than the informer's copy, which is not newer than the  *)
(* runnable; two versions of one generation have one spec.                  *)
NotNewer(old, new) == old.gen <= new.gen /\ (old.gen = new.gen => old.spec = new.spec)

Versions ==
    /\ NotNewer(cache, rn)
    /\ synced => cache = rn
    /\ pc # "idle" => NotNewer(rec.snap, cache) /\ (rec.fresh => rec.snap = rn)

(* What is to be deleted has ended, and another run of the template ended   *)
(* the same way, is not older, and is not deleted by the cleanup.           *)
DoomedHaveHeirs ==
    pc # "idle" =>
        \A i \in rec.doomed :
            /\ runs[i].health # "Unknown"
            /\ \E j \in DOMAIN runs \ rec.doomed : /\ runs[j].spec.tmpl = runs[i].spec.tmpl
                                                   /\ runs[j].health = runs[i].health
                                                   /\ runs[j].created >= runs[i].created
                                                   /\ runs[j].fate # "retired"

(* The output that is going to be reported does not replace a newer one.    *)
NoNewer(before, out) ==
    before # None =>
        \/ runs[before].fate # "kept"
        \/ runs[before].spec.tmpl # runs[out].spec.tmpl
        \/ runs[before].created <= runs[out].created

OutputIsNewest ==
    pc # "idle" =>
        rec.out \in {None, rec.snap.status.out} \/ NoNewer(rec.snap.status.out, rec.out)

-----------------------------------------------------------------------------
(* What a run that is created next is for: the spec that the reconciliation *)
(* has read, or else will read, with what the template holds and what the   *)
(* selector resolves to.                                                    *)
Reading == pc \in {"account", "stamp", "ensure"}
NextGen == IF Reading THEN rec.snap.gen ELSE cache.gen
Wanted == IF Reading THEN rec.snap.spec ELSE cache.spec
NextContent == IF pc = "ensure" THEN rec.content ELSE rts[Wanted.tmpl]
NextSpec == SpecOf(Wanted, IF pc = "ensure" THEN rec.sel ELSE selected, NextContent)

(* The selected object, or what the template stamps, has changed since the  *)
(* reconciliation has read it.                                              *)
Behind ==
    IF pc = "ensure" /\ (rec.sel # selected \/ Changes(rec.content, rts[rec.snap.spec.tmpl]))
    THEN 1 ELSE 0

(* The last run is for the next spec, so that no other is created.          *)
Served ==
    /\ runs # <<>>
    /\ runs[Len(runs)].fate = "kept" /\ runs[Len(runs)].edited = FALSE
    /\ runs[Len(runs)].spec = NextSpec
    /\ submitted[KeyOf[NextSpec.tmpl]] = NextSpec

(* The runs that may still come without another cause: for the edits that   *)
(* no reconciliation has read yet, and for the next spec, if the template   *)
(* can be stamped.                                                          *)
Debt == (rn.gen - NextGen) + Behind
Open == IF Served \/ ~Stampable(NextContent) THEN 0 ELSE 1

(* There are causes for the runs that were created and for those.           *)
Paid == Len(runs) + Debt + Open <= causes

(* The inductive invariant.                                                 *)
IInv == Types /\ Versions /\ DoomedHaveHeirs /\ OutputIsNewest /\ Paid
-----------------------------------------------------------------------------
(* Runs only get more, and what is known of one stays so: what it was       *)
(* created from and when, how it ended, and that it was deleted.            *)
Grows ==
    /\ DOMAIN runs \subseteq DOMAIN runs'
    /\ \A i \in DOMAIN runs :
          /\ runs'[i].spec = runs[i].spec /\ runs'[i].created = runs[i].created
          /\ runs[i].health # "Unknown" => runs'[i].health = runs[i].health
          /\ runs[i].fate # "kept" => runs'[i].fate = runs[i].fate

(* The indices and the fields of the runs.                                  *)
LEMMA RunsFacts ==
    ASSUME RunsTyped
    PROVE  /\ Len(runs) \in Nat /\ DOMAIN runs = 1..Len(runs) /\ DOMAIN runs \subseteq RunIds
           /\ \A i \in DOMAIN runs : /\ runs[i] \in Runs
                                     /\ runs[i].created \in Nat /\ runs[i].spec \in RunSpecs
<1>1. Len(runs) \in Nat /\ DOMAIN runs = 1..Len(runs) /\ \A i \in DOMAIN runs : runs[i] \in Runs
  BY DEF RunsTyped
<1>2. DOMAIN runs \subseteq RunIds
  BY <1>1, InstanceAssumption DEF RunsTyped, RunIds
<1>3. \A r \in Runs : r.created \in Nat /\ r.spec \in RunSpecs
  BY InstanceAssumption DEF Runs
<1> QED BY <1>1, <1>2, <1>3

(* One run is changed.                                                      *)
LEMMA OneRunChanges ==
    ASSUME RunsTyped, RunsOrdered, NEW i \in DOMAIN runs, NEW y \in Runs,
           y.spec = runs[i].spec, y.created = runs[i].created,
           runs[i].health # "Unknown" => y.health = runs[i].health,
           runs[i].fate # "kept" => y.fate = runs[i].fate,
           runs' = [runs EXCEPT ![i] = y]
    PROVE  /\ RunsTyped' /\ RunsOrdered' /\ Grows
           /\ Len(runs') = Len(runs) /\ DOMAIN runs' = DOMAIN runs
           /\ \A j \in DOMAIN runs : runs'[j] = IF j = i THEN y ELSE runs[j]
<1>1. Len(runs) \in Nat /\ DOMAIN runs = 1..Len(runs)
  BY RunsFacts
<1>2. runs' \in Seq(Runs) /\ Len(runs') = Len(runs)
  BY DEF RunsTyped
<1>3. DOMAIN runs' = DOMAIN runs /\ \A j \in DOMAIN runs : runs'[j] = IF j = i THEN y ELSE runs[j]
  BY DEF RunsTyped
<1>4. RunsTyped'
  BY <1>2 DEF RunsTyped
<1>5. \A j \in DOMAIN runs : runs'[j].created = runs[j].created
  BY <1>3
<1>6. RunsOrdered'
  BY <1>3, <1>5 DEF RunsOrdered
<1>7. Grows
  BY <1>3 DEF Grows
<1> QED BY <1>2, <1>3, <1>4, <1>6, <1>7

(* A run is created.                                                        *)
LEMMA OneMoreRun ==
    ASSUME RunsTyped, RunsOrdered, NEW spec \in RunSpecs, Len(runs) < MaxRuns, Created(spec)
    PROVE  /\ RunsTyped' /\ RunsOrdered' /\ Grows
           /\ Len(runs') = Len(runs) + 1 /\ DOMAIN runs' = DOMAIN runs \cup {Len(runs')}
           /\ \A i \in DOMAIN runs : runs'[i] = runs[i]
           /\ \E when \in 1..MaxRuns :
                 /\ \A i \in DOMAIN runs : runs[i].created <= when
                 /\ runs' = Append(runs, [spec |-> spec, edited |-> FALSE, created |-> when,
                                          health |-> "Unknown", fate |-> "kept"])
                 /\ runs'[Len(runs')] = [spec |-> spec, edited |-> FALSE, created |-> when,
                                         health |-> "Unknown", fate |-> "kept"]
<1> DEFINE last == IF runs = <<>> THEN 0 ELSE runs[Len(runs)].created
           run(when) == [spec |-> spec, edited |-> FALSE, created |-> when, health |-> "Unknown",
                         fate |-> "kept"]
<1>1. /\ Len(runs) \in Nat /\ DOMAIN runs = 1..Len(runs)
      /\ \A i \in DOMAIN runs : runs[i].created \in Nat
  BY RunsFacts
<1>2. runs # <<>> => Len(runs) \in DOMAIN runs
  BY <1>1 DEF RunsTyped
<1>3. last \in Nat /\ last <= Len(runs) /\ \A i \in DOMAIN runs : runs[i].created <= last
  <2>1. CASE runs = <<>>
    BY <1>1, <2>1
  <2>2. CASE runs # <<>>
    BY <1>1, <1>2, <2>2 DEF RunsOrdered
  <2> QED BY <2>1, <2>2
<1>4. PICK when \in 1..MaxRuns : /\ when <= Len(runs) + 1 /\ last <= when
                                 /\ runs' = Append(runs, run(when))
  <2>1. PICK later \in 0..1 : (later = 0 => runs # <<>>) /\ runs' = Append(runs, run(last + later))
    BY DEF Created
  <2>2. last + later \in 1..MaxRuns /\ last <= last + later /\ last + later <= Len(runs) + 1
    <3>1. runs # <<>> => last >= 1
      BY <1>2, RunsFacts DEF Runs
    <3> QED BY <1>1, <1>3, <2>1, <3>1, InstanceAssumption
  <2> QED BY <2>1, <2>2
<1> HIDE DEF last
<1>5. run(when) \in Runs
  BY DEF Runs, Health
<1>6. /\ runs' \in Seq(Runs) /\ Len(runs') = Len(runs) + 1
      /\ \A i \in DOMAIN runs : runs'[i] = runs[i]
      /\ runs'[Len(runs) + 1] = run(when)
      /\ DOMAIN runs' = 1..Len(runs) + 1
  <2> HIDE DEF run
  <2> QED BY <1>1, <1>4, <1>5 DEF RunsTyped
<1>7. RunsTyped'
  <2>1. Len(runs') <= MaxRuns
    BY <1>1, <1>6, InstanceAssumption
  <2> QED BY <1>6, <2>1 DEF RunsTyped
<1>8. \A i \in DOMAIN runs : runs[i].created <= when
  BY <1>1, <1>3, <1>4
<1>9. \A i \in DOMAIN runs' : i \in DOMAIN runs \/ i = Len(runs) + 1
  BY <1>1, <1>6
<1>10. RunsOrdered'
  <2> SUFFICES ASSUME NEW i \in DOMAIN runs', NEW j \in DOMAIN runs'
               PROVE  runs'[i].created <= i /\ (i <= j => runs'[i].created <= runs'[j].created)
    BY DEF RunsOrdered
  <2>1. runs'[Len(runs) + 1].created = when
    BY <1>6
  <2>2. i \in DOMAIN runs => runs'[i].created = runs[i].created /\ runs[i].created <= i
    BY <1>6 DEF RunsOrdered
  <2>3. CASE i \in DOMAIN runs /\ j \in DOMAIN runs
    BY <1>6, <2>2, <2>3 DEF RunsOrdered
  <2>4. CASE i \in DOMAIN runs /\ j = Len(runs) + 1
    BY <1>8, <2>1, <2>2, <2>4
  <2>5. CASE i = Len(runs) + 1
    BY <1>1, <1>4, <1>9, <2>1, <2>5
  <2> QED BY <1>9, <2>3, <2>4, <2>5
<1>11. Grows
  BY <1>1, <1>6 DEF Grows
<1>12. DOMAIN runs' = DOMAIN runs \cup {Len(runs')}
  BY <1>1, <1>6
<1> QED BY <1>4, <1>6, <1>7, <1>8, <1>10, <1>11, <1>12
-----------------------------------------------------------------------------
(* Who writes what: all other steps leave the runs, the runnable, the       *)
(* informer's copy or the reconciliation alone.                             *)
WritesRuns ==
    \/ \E i \in DOMAIN runs : \/ EditRun(i) \/ RemoveRun(i) \/ DeleteRun(i)
                              \/ \E s \in {"True", "False"} : RunEnds(i, s)
    \/ EnsureImmutableObject
WritesOwner ==
    \/ \E s \in Specs : EditRunnable(s)
    \/ DeleteRunnable \/ StatusUpdated
WritesCache == DeliverOwner \/ Restart
WritesRec ==
    \/ WritesOwner \/ Restart
    \/ GetRunnable \/ GetServiceAccount \/ Stamp \/ EnsureImmutableObject \/ ListRuns
    \/ \E i \in DOMAIN runs : DeleteRun(i)
    \/ WatchRuns \/ StatusUpdateFails \/ StatusUnchanged

\* A step that is not one of the writers of a variable leaves it alone; the
\* set of troubles only grows.
LEMMA Writers ==
    ASSUME [Next]_vars
    PROVE  /\ WritesRuns \/ runs' = runs
           /\ WritesOwner \/ rn' = rn
           /\ WritesCache \/ cache' = cache
           /\ WritesOwner \/ WritesCache \/ synced' = synced
           /\ WritesRec \/ (pc' = pc /\ rec' = rec)
           /\ troubles \subseteq troubles'
<1>1. CASE Environment
  BY <1>1 DEF Environment, WritesRuns, WritesOwner, WritesCache, WritesRec, EditRunnable, DeleteRunnable, EditTemplate,
     EditAccount, EditSelected, EditRun, RemoveRun, RunEnds, Edit, manager, history
<1>2. CASE Runtime
  BY <1>2 DEF Runtime, WritesRuns, WritesOwner, WritesCache, WritesRec, DeliverOwner, Resync, Restart, DeliverEvent,
     Fault, Edit, api, history
<1>3. CASE GetRunnableFails \/ RunnableGone \/ GetRunnable \/ GetServiceAccount \/ Stamp
  BY <1>3 DEF WritesRuns, WritesOwner, WritesCache, WritesRec, GetRunnableFails, RunnableGone, GetRunnable,
     GetServiceAccount, Stamp, Fault, Edit, api, manager, history
<1>4. CASE EnsureImmutableObject
  BY <1>4 DEF WritesRuns, WritesOwner, WritesCache, WritesRec, EnsureImmutableObject, Fault, Edit, api, manager, history
<1>5. CASE ListRuns \/ \E i \in DOMAIN runs : DeleteRun(i)
  BY <1>5 DEF WritesRuns, WritesOwner, WritesCache, WritesRec, ListRuns, DeleteRun, Fault, Edit, api, manager, history
<1>6. CASE WatchRuns \/ StatusUpdated \/ StatusUpdateFails \/ StatusUnchanged
  BY <1>6 DEF WritesRuns, WritesOwner, WritesCache, WritesRec, WatchRuns, StatusUpdated, StatusUpdateFails,
     StatusUnchanged, Fault, Edit, api, manager, history
<1>7. CASE UNCHANGED vars
  BY <1>7 DEF vars, api, manager, history
<1> QED BY <1>1, <1>2, <1>3, <1>4, <1>5, <1>6, <1>7 DEF Next, Reconcile

(* Every step keeps the runs and their order.                               *)
LEMMA RunsStep ==
    ASSUME Types, [Next]_vars
    PROVE  RunsTyped' /\ RunsOrdered' /\ Grows
<1>a. RunsTyped /\ RunsOrdered
  BY DEF Types
<1>1. CASE runs' = runs
  BY <1>1, <1>a DEF RunsTyped, RunsOrdered, Grows
<1>2. ASSUME NEW i \in DOMAIN runs, EditRun(i) PROVE RunsTyped' /\ RunsOrdered' /\ Grows
  <2> DEFINE y == [runs[i] EXCEPT !.edited = TRUE]
  <2>1. runs' = [runs EXCEPT ![i] = y]
    BY <1>2 DEF EditRun
  <2>2. runs[i] \in Runs
    BY <1>a, RunsFacts
  <2>3. /\ y \in Runs /\ y.spec = runs[i].spec /\ y.created = runs[i].created
        /\ y.health = runs[i].health /\ y.fate = runs[i].fate
    BY <2>2 DEF Runs
  <2> HIDE DEF y
  <2> QED BY <1>a, <2>1, <2>3, OneRunChanges
<1>3. ASSUME NEW i \in DOMAIN runs, NEW fate \in {"retired", "discarded"}, i \in Kept,
             runs' = [runs EXCEPT ![i].fate = fate]
      PROVE  RunsTyped' /\ RunsOrdered' /\ Grows
  <2> DEFINE y == [runs[i] EXCEPT !.fate = fate]
  <2>1. runs' = [runs EXCEPT ![i] = y] /\ runs[i].fate = "kept"
    BY <1>3 DEF Kept
  <2>2. runs[i] \in Runs
    BY <1>a, RunsFacts
  <2>3. /\ y \in Runs /\ y.spec = runs[i].spec /\ y.created = runs[i].created
        /\ y.health = runs[i].health
    BY <2>2 DEF Runs
  <2> HIDE DEF y
  <2> QED BY <1>a, <2>1, <2>3, OneRunChanges
<1>4. ASSUME NEW i \in DOMAIN runs, NEW s \in {"True", "False"}, RunEnds(i, s)
      PROVE  RunsTyped' /\ RunsOrdered' /\ Grows
  <2> DEFINE y == [runs[i] EXCEPT !.health = s]
  <2>1. runs' = [runs EXCEPT ![i] = y] /\ runs[i].health = "Unknown"
    BY <1>4 DEF RunEnds
  <2>2. runs[i] \in Runs
    BY <1>a, RunsFacts
  <2>3. /\ y \in Runs /\ y.spec = runs[i].spec /\ y.created = runs[i].created
        /\ y.fate = runs[i].fate
    BY <2>2 DEF Runs, Health
  <2> HIDE DEF y
  <2> QED BY <1>a, <2>1, <2>3, OneRunChanges
<1>5. ASSUME NEW i \in DOMAIN runs, DeleteRun(i) PROVE RunsTyped' /\ RunsOrdered' /\ Grows
  <2>1. runs' = runs \/ (i \in Kept /\ runs' = [runs EXCEPT ![i].fate = "retired"])
    BY <1>5 DEF DeleteRun, Kept
  <2> QED BY <1>1, <1>3, <2>1
<1>6. ASSUME NEW i \in DOMAIN runs, RemoveRun(i) PROVE RunsTyped' /\ RunsOrdered' /\ Grows
  <2>1. i \in Kept /\ runs' = [runs EXCEPT ![i].fate = "discarded"]
    BY <1>6 DEF RemoveRun
  <2> QED BY <1>3, <2>1
<1>7. CASE EnsureImmutableObject
  <2> DEFINE spec == SpecOf(rec.snap.spec, rec.sel, rec.content)
  <2>1. spec \in RunSpecs
    <3>1. rec.snap.spec \in Specs /\ rec.sel \in Selectable /\ rec.content \in Contents
      BY <1>7 DEF EnsureImmutableObject, Types, RecTypes, RecTyped, Typed
    <3> QED BY <3>1, InstanceAssumption DEF SpecOf, RunSpecs
  <2>2. runs' = runs \/ (Len(runs) < MaxRuns /\ Created(spec))
    BY <1>7 DEF EnsureImmutableObject, api
  <2> QED BY <1>1, <1>a, <2>1, <2>2, OneMoreRun
<1> QED BY <1>1, <1>2, <1>4, <1>5, <1>6, <1>7, Writers DEF WritesRuns
-----------------------------------------------------------------------------
(* Successes stay successes.                                                *)
LEMMA SuccessesStay == Grows => Succeeded \subseteq Succeeded'
BY DEF Grows, Succeeded

(* What has its type keeps it when there are more runs and successes.       *)
LEMMA TypedMonotone ==
    ASSUME NEW good, NEW more, good \subseteq more, NEW ids, NEW all, ids \subseteq all
    PROVE  /\ \A r : Typed(r, good) => Typed(r, more)
           /\ \A r : RecTyped(r, ids, good) => RecTyped(r, all, more)
<1>1. \A r : Typed(r, good) => Typed(r, more)
  BY DEF Typed
<1>2. \A r : RecTyped(r, ids, good) => RecTyped(r, all, more)
  BY <1>1 DEF RecTyped
<1> QED BY <1>1, <1>2

\* The runnable and its copy in the informer cache stay well typed.
LEMMA OwnerTypesStep ==
    ASSUME Types, [Next]_vars
    PROVE  OwnerTypes'
<1>a. Grows /\ OwnerTypes
  BY RunsStep DEF Types
<1>b. \A r : Typed(r, Succeeded) => Typed(r, Succeeded')
  BY <1>a, SuccessesStay, TypedMonotone
<1>c. troubles \subseteq troubles'
  BY Writers
<1>1. Typed(rn', Succeeded') /\ rn'.gen = 1 + Once("input")' + Once("switch")'
  <2>1. ASSUME NEW s \in Specs, EditRunnable(s)
        PROVE  Typed(rn', Succeeded') /\ rn'.gen = 1 + Once("input")' + Once("switch")'
    <3> DEFINE kind == IF s.tmpl = rn.spec.tmpl THEN "input" ELSE "switch"
    <3>1. /\ rn' = [rn EXCEPT !.gen = @ + 1, !.spec = s]
          /\ kind \notin troubles /\ troubles' = troubles \cup {kind}
      BY <2>1 DEF EditRunnable, NewVersion, Edit
    <3>2. rn.gen + 1 = 1 + Once("input")' + Once("switch")'
      BY <1>a, <3>1 DEF OwnerTypes, Once
    <3>3. rn.gen + 1 \in 1..3
      BY <3>2 DEF Once
    <3>4. Typed(rn, Succeeded')
      BY <1>a, <1>b DEF OwnerTypes
    <3>5. rn'.gen = rn.gen + 1
      BY <3>1, <3>4 DEF Typed
    <3>6. Typed(rn', Succeeded')
      BY <3>1, <3>3, <3>4 DEF Typed
    <3> QED BY <3>2, <3>5, <3>6
  <2>2. CASE DeleteRunnable
    <3>1. rn' = [rn EXCEPT !.exists = FALSE] /\ troubles' = troubles \cup {"deletion"}
      BY <2>2 DEF DeleteRunnable, NewVersion, Edit
    <3>2. Typed(rn, Succeeded')
      BY <1>a, <1>b DEF OwnerTypes
    <3>3. Typed(rn', Succeeded') /\ rn'.gen = rn.gen
      BY <3>1, <3>2 DEF Typed
    <3> QED BY <1>a, <3>1, <3>3 DEF OwnerTypes, Once
  <2>3. CASE StatusUpdated
    <3>1. /\ rn' = [rn EXCEPT !.status = NewStatus] /\ troubles' = troubles /\ pc = "update"
      BY <2>3 DEF StatusUpdated, history
    <3>2. Typed(rn, Succeeded')
      BY <1>a, <1>b DEF OwnerTypes
    <3>3. RecTyped(rec, DOMAIN runs, Succeeded)
      BY <3>1 DEF Types, RecTypes
    <3>4. RecTyped(rec, DOMAIN runs, Succeeded')
      BY <1>a, <3>3, SuccessesStay, TypedMonotone
    <3>5. Typed(rn', Succeeded') /\ rn'.gen = rn.gen
      BY <3>1, <3>2, <3>4 DEF Typed, RecTyped, NewStatus
    <3> QED BY <1>a, <3>1, <3>5 DEF OwnerTypes, Once
  <2>4. CASE rn' = rn /\ ~WritesOwner
    <3>1. Once("input")' = Once("input") /\ Once("switch")' = Once("switch")
      <4>1. CASE Environment
        BY <2>4, <4>1 DEF WritesOwner, Environment, EditTemplate, EditAccount, EditSelected, EditRun, RemoveRun,
           RunEnds, Edit, Once, history
      <4>2. CASE Runtime
        BY <4>2 DEF Runtime, DeliverOwner, Resync, Restart, DeliverEvent, Fault, Edit, Once, history
      <4>3. CASE Reconcile
        BY <2>4, <4>3 DEF Reconcile, WritesOwner, GetRunnableFails, RunnableGone, GetRunnable, GetServiceAccount,
           Stamp, EnsureImmutableObject, ListRuns, DeleteRun, WatchRuns, StatusUpdateFails, StatusUnchanged,
           Fault, Edit, Once, history
      <4>4. CASE UNCHANGED vars
        BY <4>4 DEF vars, history, Once
      <4> QED BY <4>1, <4>2, <4>3, <4>4 DEF Next
    <3> QED BY <1>a, <1>b, <2>4, <3>1 DEF OwnerTypes
  <2> QED BY <2>1, <2>2, <2>3, <2>4, Writers DEF WritesOwner
<1>2. Typed(cache', Succeeded')
  <2>1. CASE WritesCache
    <3>1. cache' = rn
      BY <2>1 DEF WritesCache, DeliverOwner, Restart
    <3> QED BY <1>a, <1>b, <3>1 DEF OwnerTypes
  <2>2. CASE cache' = cache
    BY <1>a, <1>b, <2>2 DEF OwnerTypes
  <2> QED BY <2>1, <2>2, Writers
<1> QED BY <1>1, <1>2 DEF OwnerTypes
-----------------------------------------------------------------------------
(* The smaller of two numbers.                                              *)
LEMMA MinOfTwo ==
    ASSUME NEW a \in Nat, NEW b \in Nat
    PROVE  Min({a, b}) \in {a, b} /\ Min({a, b}) <= a /\ Min({a, b}) <= b
<1>1. \E x \in {a, b} : \A y \in {a, b} : x <= y
  OBVIOUS
<1>2. Min({a, b}) \in {a, b} /\ \A y \in {a, b} : Min({a, b}) <= y
  BY <1>1 DEF Min
<1> QED BY <1>2

(* CleanupRunnableStampedObjects spares a run that is as young as the ones  *)
(* it deletes, and ended the same way: the policy keeps at least one.       *)
LEMMA RetainedIsHeir ==
    ASSUME RunsTyped, NEW S \in SUBSET (DOMAIN runs), NEW max \in Nat \ {0},
           NEW K \in Retained(runs, S, max), NEW i \in S \ K
    PROVE  \E j \in K : runs[j].created >= runs[i].created
<1>1. IsFiniteSet(S)
  <2>1. DOMAIN runs = 1..Len(runs) /\ Len(runs) \in Nat
    BY RunsFacts
  <2>2. IsFiniteSet(1..Len(runs))
    BY <2>1, FS_Interval
  <2> QED BY <2>1, <2>2, FS_Subset
<1>2. Cardinality(S) \in Nat /\ Cardinality(S) # 0
  BY <1>1, FS_CardinalityType, FS_EmptySet
<1>3. /\ K \subseteq S /\ Cardinality(K) = Min({max, Cardinality(S)})
      /\ \A k \in K, d \in S \ K : runs[k].created >= runs[d].created
  BY DEF Retained
<1>4. Cardinality(K) # 0
  BY <1>2, <1>3, MinOfTwo
<1>5. IsFiniteSet({}) /\ Cardinality({}) = 0
  BY FS_EmptySet
<1>6. PICK k : k \in K
  BY <1>4, <1>5
<1> QED BY <1>3, <1>6

\* Whatever CleanupRunnableStampedObjects (gc.go:38-69) deletes was listed,
\* is finished, and leaves a run with the same health that is at least as
\* young and is not deleted.
LEMMA CleanupProperties ==
    ASSUME RunsTyped, NEW listed \in SUBSET (DOMAIN runs),
           NEW doomed \in CleanupRunnableStampedObjects(runs, listed, MaxSuccessfulRuns, MaxFailedRuns)
    PROVE  /\ doomed \subseteq listed
           /\ \A i \in doomed : /\ runs[i].health # "Unknown"
                                /\ \E j \in listed \ doomed : /\ runs[j].health = runs[i].health
                                                              /\ runs[j].created >= runs[i].created
<1> DEFINE good == WithHealth(runs, listed, "True")
           bad == WithHealth(runs, listed, "False")
<1>1. PICK K \in Retained(runs, good, MaxSuccessfulRuns), L \in Retained(runs, bad, MaxFailedRuns) :
         doomed = (good \ K) \cup (bad \ L)
  BY DEF CleanupRunnableStampedObjects
<1>2. /\ good \in SUBSET (DOMAIN runs) /\ bad \in SUBSET (DOMAIN runs)
      /\ good \subseteq listed /\ bad \subseteq listed /\ good \cap bad = {}
      /\ K \subseteq good /\ L \subseteq bad
      /\ \A i \in good : runs[i].health = "True"
      /\ \A i \in bad : runs[i].health = "False"
  BY DEF WithHealth, Retained
<1> HIDE DEF good, bad
<1>3. \A i \in good \ K : \E j \in K : runs[j].created >= runs[i].created
  BY <1>2, RetainedIsHeir, RetentionAssumption
<1>4. \A i \in bad \ L : \E j \in L : runs[j].created >= runs[i].created
  BY <1>2, RetainedIsHeir, RetentionAssumption
<1> QED BY <1>1, <1>2, <1>3, <1>4

(* What Realize reports is an output of a success, the one of the status or *)
(* none.                                                                    *)
LEMMA OutputProperties ==
    ASSUME NEW content, NEW listed \in SUBSET (DOMAIN runs), NEW before,
           NEW out \in OutputsOf(content, listed, before)
    PROVE  \/ out = before \/ out = None
           \/ /\ out \in listed \cap Succeeded
              /\ \A j \in listed \cap Succeeded : runs[j].created <= runs[out].created
<1>1. \A i \in LatestSuccessful(runs, listed) :
         /\ i \in listed \cap Succeeded
         /\ \A j \in listed \cap Succeeded : runs[j].created <= runs[i].created
  BY DEF LatestSuccessful, WithHealth, Succeeded
<1>2. out \in {before} \/ out \in {None} \/ out \in LatestSuccessful(runs, listed)
  BY DEF OutputsOf
<1> QED BY <1>1, <1>2

\* The local variables of the reconciliation stay well typed.
LEMMA RecTypesStep ==
    ASSUME Types, [Next]_vars
    PROVE  RecTypes'
<1>a. Grows /\ RunsTyped /\ RecTypes /\ OwnerTypes
  BY RunsStep DEF Types
<1>b. \A r : RecTyped(r, DOMAIN runs, Succeeded) => RecTyped(r, DOMAIN runs', Succeeded')
  BY <1>a, SuccessesStay, TypedMonotone DEF Grows
<1>c. pc # "idle" => RecTyped(rec, DOMAIN runs', Succeeded')
  BY <1>a, <1>b DEF RecTypes
<1>1. CASE pc' = pc /\ rec' = rec
  <2>1. pc = "ensure" => rec.sel \in Selectable /\ rec.content \in Contents /\ Stampable(rec.content)
    BY <1>a DEF RecTypes
  <2> QED BY <1>1, <1>a, <1>c, <2>1 DEF RecTypes
<1>2. CASE (\E s \in Specs : EditRunnable(s)) \/ DeleteRunnable
  <2>1. pc' = pc /\ rec' = IF pc = "idle" THEN None ELSE [rec EXCEPT !.fresh = FALSE]
    BY <1>2 DEF EditRunnable, DeleteRunnable, NewVersion
  <2>2. CASE pc = "idle"
    BY <1>a, <2>1, <2>2 DEF RecTypes
  <2>3. CASE pc # "idle"
    <3>1. rec' = [rec EXCEPT !.fresh = FALSE]
      BY <2>1, <2>3
    <3>2. RecTyped(rec', DOMAIN runs', Succeeded') /\ rec'.sel = rec.sel /\ rec'.content = rec.content
      BY <1>c, <2>3, <3>1 DEF RecTyped
    <3> QED BY <1>a, <2>1, <2>3, <3>2 DEF RecTypes
  <2> QED BY <2>2, <2>3
<1>3. CASE StatusUpdated \/ StatusUpdateFails \/ StatusUnchanged \/ Restart
  <2>1. pc' = "idle" /\ rec' = None
    BY <1>3 DEF StatusUpdated, StatusUpdateFails, StatusUnchanged, Restart, EndOfReconcile
  <2> QED BY <2>1 DEF RecTypes
<1>4. CASE GetRunnable
  <2> DEFINE r == [snap |-> cache, fresh |-> synced, content |-> None, sel |-> None,
                   run |-> None, health |-> "Unknown", doomed |-> {}, reason |-> "Ready",
                   early |-> FALSE, requeue |-> FALSE, out |-> None]
  <2>1. pc' = "account" /\ rec' = r
    BY <1>4 DEF GetRunnable
  <2>2. Typed(cache, Succeeded) /\ synced \in BOOLEAN
    BY DEF Types, OwnerTypes, OtherTypes
  <2>3. RecTyped(r, DOMAIN runs, Succeeded)
    BY <2>2 DEF RecTyped, Health, Reasons
  <2> HIDE DEF r
  <2> QED BY <1>b, <2>1, <2>3 DEF RecTypes, Steps
<1>5. CASE GetServiceAccount
  <2>1. pc = "account" /\ RecTyped(rec, DOMAIN runs', Succeeded')
    BY <1>5, <1>c DEF GetServiceAccount
  <2>2. CASE pc' = "stamp" /\ rec' = rec
    BY <2>1, <2>2 DEF RecTypes, Steps
  <2>3. ASSUME NEW reason \in Reasons, NEW early, NEW requeue, FailWith(reason, early, requeue)
        PROVE  RecTypes'
    <3>1. RecTyped(rec', DOMAIN runs', Succeeded')
      BY <2>1, <2>3 DEF FailWith, RecTyped
    <3> QED BY <2>3, <3>1 DEF FailWith, RecTypes, Steps
  <2> QED BY <1>5, <2>2, <2>3 DEF GetServiceAccount, Reasons
<1>6. CASE Stamp
  <2>1. pc = "stamp" /\ RecTyped(rec, DOMAIN runs', Succeeded')
    BY <1>6, <1>c DEF Stamp, GetRunTemplate
  <2>2. ASSUME NEW reason \in Reasons, NEW early, NEW requeue, FailWith(reason, early, requeue)
        PROVE  RecTypes'
    <3>1. RecTyped(rec', DOMAIN runs', Succeeded')
      BY <2>1, <2>2 DEF FailWith, RecTyped
    <3> QED BY <2>2, <3>1 DEF FailWith, RecTypes, Steps
  <2>3. CASE /\ Stampable(rts[rec.snap.spec.tmpl]) /\ selected # None
             /\ rec' = [rec EXCEPT !.content = rts[rec.snap.spec.tmpl], !.sel = selected]
             /\ pc' = "ensure"
    <3>1. rts[rec.snap.spec.tmpl] \in Contents
      <4>1. rec.snap.spec \in Specs
        BY <2>1 DEF RecTyped, Typed
      <4> QED BY <2>3, <4>1, InstanceAssumption DEF Types, OtherTypes, Stampable
    <3>2. selected \in Selectable
      BY <2>3 DEF Types, OtherTypes
    <3>3. /\ RecTyped(rec', DOMAIN runs', Succeeded') /\ rec'.sel = selected
          /\ rec'.content = rts[rec.snap.spec.tmpl]
      BY <2>1, <2>3, <3>1, <3>2 DEF RecTyped
    <3> QED BY <2>3, <3>1, <3>2, <3>3 DEF RecTypes, Steps
  <2> QED BY <1>6, <2>2, <2>3 DEF Stamp, GetRunTemplate, Reasons
<1>7. CASE EnsureImmutableObject
  <2>1. pc = "ensure" /\ RecTyped(rec, DOMAIN runs', Succeeded')
    BY <1>7, <1>c DEF EnsureImmutableObject
  <2>2. ASSUME NEW reason \in Reasons, NEW early, NEW requeue, FailWith(reason, early, requeue)
        PROVE  RecTypes'
    <3>1. RecTyped(rec', DOMAIN runs', Succeeded')
      BY <2>1, <2>2 DEF FailWith, RecTyped
    <3> QED BY <2>2, <3>1 DEF FailWith, RecTypes, Steps
  <2>3. ASSUME NEW i \in DOMAIN runs, rec' = [rec EXCEPT !.run = i, !.health = runs[i].health],
               pc' = "list"
        PROVE  RecTypes'
    <3>1. runs[i].health \in Health /\ i \in DOMAIN runs'
      BY <1>a, RunsFacts DEF Runs, Grows
    <3>2. RecTyped(rec', DOMAIN runs', Succeeded')
      BY <2>1, <2>3, <3>1 DEF RecTyped
    <3> QED BY <2>3, <3>2 DEF RecTypes, Steps
  <2>4. CASE rec' = [rec EXCEPT !.run = Len(runs')] /\ pc' = "list" /\ Len(runs') \in DOMAIN runs'
    <3>1. RecTyped(rec', DOMAIN runs', Succeeded')
      BY <2>1, <2>4 DEF RecTyped
    <3> QED BY <2>4, <3>1 DEF RecTypes, Steps
  <2>5. CASE rec' = [rec EXCEPT !.reason = "StampedObjectRejectedByAPIServer", !.requeue = TRUE] /\ pc' = "update"
    <3>1. RecTyped(rec', DOMAIN runs', Succeeded')
      BY <2>1, <2>5 DEF RecTyped, Reasons
    <3> QED BY <2>5, <3>1 DEF RecTypes, Steps
  <2>6. \A spec : Created(spec) => Len(runs') \in DOMAIN runs'
    <3>1. runs' # <<>> => Len(runs') \in DOMAIN runs'
      BY RunsStep, <1>a DEF RunsTyped
    <3>2. \A spec : Created(spec) => runs' # <<>>
      BY <1>a, RunsFacts DEF Created, RunsTyped
    <3> QED BY <3>1, <3>2
  <2>7. \A c, spec : Hits(c, spec, runs, Kept) \subseteq DOMAIN runs
    BY DEF Hits, Kept
  <2>8. "StampedObjectRejectedByAPIServer" \in Reasons
    BY DEF Reasons
  <2> QED BY <1>7, <2>2, <2>3, <2>4, <2>5, <2>6, <2>7, <2>8 DEF EnsureImmutableObject
<1>8. CASE ListRuns
  <2>1. pc = "list" /\ RecTyped(rec, DOMAIN runs', Succeeded')
    BY <1>8, <1>c DEF ListRuns
  <2> DEFINE listed == Labelled(rec.snap.spec.tmpl)
  <2>2. CASE rec' = [rec EXCEPT !.reason = "FailedToListCreatedObjects", !.requeue = TRUE] /\ pc' = "gc"
    <3>1. RecTyped(rec', DOMAIN runs', Succeeded')
      BY <2>1, <2>2 DEF RecTyped, Reasons
    <3> QED BY <2>2, <3>1 DEF RecTypes, Steps
  <2>3. ASSUME NEW doomed \in CleanupRunnableStampedObjects(runs, listed, MaxSuccessfulRuns, MaxFailedRuns),
               NEW out \in OutputsOf(rec.content, listed, rec.snap.status.out),
               NEW reason \in Reasons,
               rec' = [rec EXCEPT !.doomed = doomed, !.out = out, !.reason = reason], pc' = "gc"
        PROVE  RecTypes'
    <3>1. listed \in SUBSET (DOMAIN runs)
      BY DEF Labelled, Kept
    <3>2. doomed \subseteq DOMAIN runs'
      BY <1>a, <3>1, CleanupProperties DEF Grows
    <3>3. out \in Succeeded \cup {None, rec.snap.status.out}
      BY <3>1, OutputProperties
    <3>4. out \in Succeeded' \cup {None}
      BY <1>a, <2>1, <3>3, SuccessesStay DEF RecTyped, Typed
    <3>5. RecTyped(rec', DOMAIN runs', Succeeded')
      BY <2>1, <2>3, <3>2, <3>4 DEF RecTyped
    <3> QED BY <2>3, <3>5 DEF RecTypes, Steps
  <2>4. "OutputPathNotSatisfied" \in Reasons /\ "Ready" \in Reasons
    BY DEF Reasons
  <2> QED BY <1>8, <2>2, <2>3, <2>4 DEF ListRuns
<1>9. ASSUME NEW i \in DOMAIN runs, DeleteRun(i) PROVE RecTypes'
  <2>1. pc = "gc" /\ pc' = "gc" /\ rec' = [rec EXCEPT !.doomed = @ \ {i}]
    BY <1>9 DEF DeleteRun
  <2>2. RecTyped(rec', DOMAIN runs', Succeeded')
    BY <1>c, <2>1 DEF RecTyped
  <2> QED BY <2>1, <2>2 DEF RecTypes, Steps
<1>10. CASE WatchRuns
  <2>1. pc = "gc" /\ pc' = "update" /\ (rec' = rec \/ rec' = [rec EXCEPT !.requeue = TRUE])
    BY <1>10 DEF WatchRuns
  <2>2. RecTyped(rec', DOMAIN runs', Succeeded')
    BY <1>c, <2>1 DEF RecTyped
  <2> QED BY <2>1, <2>2 DEF RecTypes, Steps
<1> QED BY <1>1, <1>2, <1>3, <1>4, <1>5, <1>6, <1>7, <1>8, <1>9, <1>10, Writers DEF WritesRec, WritesOwner
-----------------------------------------------------------------------------
(* What a run is created from, when the reconciliation gets there.          *)
LEMMA SpecOfIsRunSpec ==
    ASSUME Types, pc = "ensure"
    PROVE  SpecOf(rec.snap.spec, rec.sel, rec.content) \in RunSpecs
<1>1. rec.snap.spec \in Specs /\ rec.sel \in Selectable /\ rec.content \in Contents
  BY DEF Types, RecTypes, RecTyped, Typed
<1> QED BY <1>1, InstanceAssumption DEF SpecOf, RunSpecs

(* The other objects of the API server, what the manager keeps, and the     *)
(* history stay of their types.                                             *)
LEMMA OtherTypesStep ==
    ASSUME Types, [Next]_vars
    PROVE  OtherTypes'
<1>a. OtherTypes
  BY DEF Types
<1>b. \A kind : Edit(kind) => troubles' \subseteq UNION Scenarios
  BY DEF Edit
<1>1. CASE (\E s \in Specs : EditRunnable(s)) \/ DeleteRunnable
  <2>1. ASSUME NEW s \in Specs, EditRunnable(s) PROVE OtherTypes'
    <3>1. synced' = FALSE /\ (\E kind : Edit(kind)) /\ causes' = causes + 1
      BY <2>1 DEF EditRunnable, NewVersion, Cause
    <3>2. UNCHANGED <<rts, account, selected, events, queue, tracked, watching, submitted, excused>>
      BY <2>1 DEF EditRunnable
    <3>3. troubles' \subseteq UNION Scenarios /\ synced' \in BOOLEAN
      BY <1>b, <3>1
    <3>4. causes' \in Nat
      BY <1>a, <3>1 DEF OtherTypes
    <3> QED BY <1>a, <3>2, <3>3, <3>4 DEF OtherTypes
  <2>2. CASE DeleteRunnable
    BY <1>a, <1>b, <2>2 DEF DeleteRunnable, NewVersion, OtherTypes
  <2> QED BY <1>1, <2>1, <2>2
<1>2. ASSUME NEW t \in RunTemplates, NEW c \in Contents \cup {None}, EditTemplate(t, c)
      PROVE  OtherTypes'
  <2>1. causes' \in Nat
    BY <1>a, <1>2 DEF EditTemplate, OtherTypes
  <2> QED BY <1>a, <1>b, <1>2, <2>1 DEF EditTemplate, OtherTypes
<1>3. ASSUME NEW a \in {"ok", "missing", "forbidden"}, EditAccount(a) PROVE OtherTypes'
  BY <1>a, <1>b, <1>3 DEF EditAccount, OtherTypes
<1>4. ASSUME NEW v \in Selectable \cup {None}, EditSelected(v) PROVE OtherTypes'
  BY <1>a, <1>b, <1>4 DEF EditSelected, OtherTypes, Cause, Excuse, manager
<1>5. ASSUME NEW i \in DOMAIN runs, EditRun(i) \/ RemoveRun(i) PROVE OtherTypes'
  BY <1>a, <1>b, <1>5 DEF EditRun, RemoveRun, OtherTypes, Cause, RunEvent
<1>6. ASSUME NEW i \in DOMAIN runs, NEW s \in {"True", "False"}, RunEnds(i, s) PROVE OtherTypes'
  BY <1>a, <1>6 DEF RunEnds, OtherTypes, RunEvent, history
<1>7. CASE DeliverOwner \/ Resync \/ \E k \in events : DeliverEvent(k)
  BY <1>a, <1>7 DEF DeliverOwner, Resync, DeliverEvent, OtherTypes, api, history
<1>8. CASE Restart
  <2>1. queue' \in BOOLEAN
    BY <1>8 DEF Restart, Types, OwnerTypes, Typed
  <2>2. /\ DOMAIN submitted' = {KeyOf[t] : t \in RunTemplates}
        /\ \A k \in DOMAIN submitted' : submitted'[k] \in RunSpecs \cup {None}
    BY <1>a, <1>8 DEF Restart, OtherTypes
  <2>3. troubles' \subseteq UNION Scenarios
    BY <1>b, <1>8 DEF Restart, Fault
  <2>4. /\ UNCHANGED <<rts, account, selected, excused>>
        /\ synced' \in BOOLEAN /\ watching' \in BOOLEAN /\ events' = {} /\ tracked' = {}
    BY <1>8 DEF Restart, api
  <2>5. causes' \in Nat
    BY <1>a, <1>8 DEF Restart, Cause, OtherTypes
  <2> QED BY <1>a, <2>1, <2>2, <2>3, <2>4, <2>5 DEF OtherTypes
<1>9. CASE GetRunnableFails \/ RunnableGone \/ GetRunnable
  BY <1>a, <1>b, <1>9 DEF GetRunnableFails, RunnableGone, GetRunnable, OtherTypes, Fault, api, manager, history
<1>10. CASE GetServiceAccount
  <2>1. rec.snap.spec \in Specs /\ tracked' = {SA, rec.snap.spec.tmpl}
    BY <1>10 DEF GetServiceAccount, TrackDependencies, Types, RecTypes, RecTyped, Typed
  <2>2. tracked' \subseteq RunTemplates \cup {SA}
    BY <2>1, InstanceAssumption
  <2> QED BY <1>a, <1>b, <1>10, <2>2 DEF GetServiceAccount, OtherTypes, Fault, Excuse, api
<1>11. CASE Stamp
  <2>1. /\ UNCHANGED <<api, manager, causes>>
        /\ UNCHANGED troubles \/ Fault
        /\ UNCHANGED excused \/ Excuse("transient") \/ excused' = excused \ {"selection"}
    BY <1>11, ZenonT(30) DEF Stamp, GetRunTemplate
  <2> QED BY <1>a, <1>b, <2>1 DEF OtherTypes, Fault, Excuse, api, manager
<1>12. CASE EnsureImmutableObject
  <2> DEFINE spec == SpecOf(rec.snap.spec, rec.sel, rec.content)
  <2>1. spec \in RunSpecs
    BY <1>12, SpecOfIsRunSpec DEF EnsureImmutableObject
  <2>2. /\ UNCHANGED <<rts, account, selected, synced, events, tracked, watching, excused>>
        /\ UNCHANGED submitted \/ CacheSet(spec)
        /\ UNCHANGED queue \/ queue' = (queue \/ watching)
        /\ UNCHANGED troubles \/ Fault
        /\ causes' \in {causes, causes + 1}
    BY <1>12, ZenonT(30) DEF EnsureImmutableObject, Cause, RunEvent, api, manager, history
  <2> HIDE DEF spec
  <2> QED BY <1>a, <1>b, <2>1, <2>2 DEF OtherTypes, CacheSet, Fault
<1>13. CASE ListRuns
  <2>1. /\ UNCHANGED <<api, manager, causes, excused>>
        /\ UNCHANGED troubles \/ Fault
    BY <1>13, ZenonT(30) DEF ListRuns
  <2> QED BY <1>a, <1>b, <2>1 DEF OtherTypes, Fault, api, manager
<1>14. ASSUME NEW i \in DOMAIN runs, DeleteRun(i) PROVE OtherTypes'
  BY <1>a, <1>b, <1>14 DEF DeleteRun, OtherTypes, RunEvent, Fault, Excuse, history
<1>15. CASE WatchRuns
  BY <1>a, <1>b, <1>15 DEF WatchRuns, OtherTypes, Fault, api
<1>16. CASE StatusUpdated \/ StatusUpdateFails \/ StatusUnchanged
  <2>1. /\ UNCHANGED <<rts, account, selected, events, tracked, watching, submitted, causes, excused>>
        /\ UNCHANGED troubles \/ Fault
        /\ synced' \in {synced, FALSE}
    BY <1>16 DEF StatusUpdated, StatusUpdateFails, StatusUnchanged, api, history
  <2>2. queue' \in BOOLEAN
    BY <1>16 DEF StatusUpdated, StatusUpdateFails, StatusUnchanged
  <2> QED BY <1>a, <1>b, <2>1, <2>2 DEF OtherTypes, Fault
<1>17. CASE UNCHANGED vars
  BY <1>a, <1>17 DEF OtherTypes, vars, api, manager, history
<1> QED BY <1>1, <1>2, <1>3, <1>4, <1>5, <1>6, <1>7, <1>8, <1>9, <1>10, <1>11, <1>12, <1>13, <1>14, <1>15, <1>16, <1>17
        DEF Next, Environment, Runtime, Reconcile
-----------------------------------------------------------------------------
(* Reconcile works with one version of the runnable from its start to its   *)
(* end, and knows what to delete and to report from the list alone.         *)
LEMMA RecStep ==
    ASSUME Types, [Next]_vars, pc' # "idle"
    PROVE  \/ GetRunnable
           \/ /\ pc # "idle" /\ rec'.snap = rec.snap
              /\ rec'.fresh = TRUE => rec.fresh = TRUE /\ rn' = rn
              /\ ListRuns \/ (rec'.out = rec.out /\ rec'.doomed \subseteq rec.doomed)
<1> DEFINE Same == rec'.snap = rec.snap /\ rec'.fresh = rec.fresh
           Rest == rec'.out = rec.out /\ rec'.doomed \subseteq rec.doomed
           Goal == /\ pc # "idle" /\ rec'.snap = rec.snap
                   /\ rec'.fresh = TRUE => rec.fresh = TRUE /\ rn' = rn
                   /\ ListRuns \/ Rest
<1> SUFFICES ASSUME ~GetRunnable PROVE Goal
  OBVIOUS
<1>a. pc # "idle" => RecTyped(rec, DOMAIN runs, Succeeded)
  BY DEF Types, RecTypes
<1>b. pc # "idle" /\ rn' = rn /\ Same /\ (ListRuns \/ Rest) => Goal
  OBVIOUS
<1>1. CASE (\E s \in Specs : EditRunnable(s)) \/ DeleteRunnable
  <2>1. pc' = pc /\ rec' = IF pc = "idle" THEN None ELSE [rec EXCEPT !.fresh = FALSE]
    BY <1>1, ZenonT(30) DEF EditRunnable, DeleteRunnable, NewVersion
  <2>2. rec' = [rec EXCEPT !.fresh = FALSE] /\ pc # "idle"
    BY <2>1
  <2>3. rec'.snap = rec.snap /\ rec'.fresh = FALSE /\ Rest
    BY <1>a, <2>2 DEF RecTyped
  <2> HIDE DEF Rest
  <2> QED BY <2>2, <2>3
<1>c. ASSUME NEW i, NEW h, pc # "idle", rec' = [rec EXCEPT !.run = i, !.health = h] PROVE Same /\ Rest
  BY <1>a, <1>c DEF RecTyped
<1>d. ASSUME NEW i, pc # "idle", rec' = [rec EXCEPT !.run = i] PROVE Same /\ Rest
  BY <1>a, <1>d DEF RecTyped
<1>2. ASSUME NEW r, NEW s, NEW t, pc # "idle", FailWith(r, s, t) PROVE Same /\ Rest
  BY <1>a, <1>2 DEF RecTyped, FailWith
<1>3. ASSUME NEW r, pc # "idle", rec' = [rec EXCEPT !.reason = r, !.requeue = TRUE] PROVE Same /\ Rest
  BY <1>a, <1>3 DEF RecTyped
<1>4. CASE GetServiceAccount
  <2>1. pc # "idle" /\ rn' = rn /\ (rec' = rec \/ \E r, s, t : FailWith(r, s, t))
    BY <1>4, ZenonT(30) DEF GetServiceAccount, api
  <2>2. rec' = rec => Same /\ Rest
    OBVIOUS
  <2> QED BY <1>2, <1>b, <2>1, <2>2, Zenon
<1>5. CASE Stamp
  <2> DEFINE r == [rec EXCEPT !.content = rts[rec.snap.spec.tmpl], !.sel = selected]
  <2>1. pc # "idle" /\ rn' = rn /\ (rec' = r \/ \E k, s, t : FailWith(k, s, t))
    BY <1>5, ZenonT(30) DEF Stamp, GetRunTemplate, api
  <2>2. rec' = r => Same /\ Rest
    BY <1>a, <2>1 DEF RecTyped
  <2> QED BY <1>2, <1>b, <2>1, <2>2, Zenon
<1>6. CASE EnsureImmutableObject
  <2>1. /\ pc # "idle" /\ rn' = rn
        /\ \/ \E r, s, t : FailWith(r, s, t)
           \/ \E r : rec' = [rec EXCEPT !.reason = r, !.requeue = TRUE]
           \/ \E i, h : rec' = [rec EXCEPT !.run = i, !.health = h]
           \/ \E i : rec' = [rec EXCEPT !.run = i]
    BY <1>6, ZenonT(30) DEF EnsureImmutableObject, api
  <2> QED BY <1>2, <1>3, <1>b, <1>c, <1>d, <2>1, Zenon
<1>7. CASE ListRuns
  <2>1. pc # "idle" /\ rn' = rn
    BY <1>7 DEF ListRuns, api
  <2> DEFINE listed == Labelled(rec.snap.spec.tmpl)
  <2>2. ASSUME NEW d \in CleanupRunnableStampedObjects(runs, listed, MaxSuccessfulRuns, MaxFailedRuns),
               NEW o \in OutputsOf(rec.content, listed, rec.snap.status.out), NEW r \in Reasons,
               rec' = [rec EXCEPT !.doomed = d, !.out = o, !.reason = r]
        PROVE  Same
    BY <1>a, <2>1, <2>2 DEF RecTyped
  <2> HIDE DEF Same
  <2>3. Same
    <3>1. "OutputPathNotSatisfied" \in Reasons /\ "Ready" \in Reasons
      BY DEF Reasons
    <3> QED BY <1>3, <1>7, <2>1, <2>2, <3>1 DEF ListRuns
  <2> QED BY <1>7, <1>b, <2>1, <2>3
<1>8. ASSUME NEW i \in DOMAIN runs, DeleteRun(i) PROVE Goal
  <2>1. pc # "idle" /\ rn' = rn /\ rec' = [rec EXCEPT !.doomed = @ \ {i}]
    BY <1>8 DEF DeleteRun
  <2>2. Same /\ Rest
    BY <1>a, <2>1 DEF RecTyped
  <2> QED BY <1>b, <2>1, <2>2
<1>9. CASE WatchRuns
  <2>1. pc # "idle" /\ rn' = rn /\ (rec' = rec \/ rec' = [rec EXCEPT !.requeue = TRUE])
    BY <1>9 DEF WatchRuns, api
  <2>2. Same /\ Rest
    BY <1>a, <2>1 DEF RecTyped
  <2> QED BY <1>b, <2>1, <2>2
<1>10. CASE StatusUpdated \/ StatusUpdateFails \/ StatusUnchanged \/ Restart
  BY <1>10 DEF StatusUpdated, StatusUpdateFails, StatusUnchanged, Restart, EndOfReconcile
<1>11. CASE ~WritesRec
  <2>1. pc' = pc /\ rec' = rec /\ rn' = rn
    BY <1>11, Writers DEF WritesRec
  <2> QED BY <1>b, <2>1
<1> HIDE DEF Goal
<1> QED BY <1>1, <1>4, <1>5, <1>6, <1>7, <1>8, <1>9, <1>10, <1>11 DEF WritesRec, WritesOwner

(* The versions: only the informer and GetRunnable read a version, and      *)
(* every write of the runnable makes the version in hand a stale one.       *)
LEMMA VersionsStep ==
    ASSUME Types, Versions, [Next]_vars
    PROVE  Versions'
<1>a. /\ Typed(rn, Succeeded) /\ Typed(cache, Succeeded)
      /\ NotNewer(cache, rn) /\ (synced => cache = rn)
      /\ pc # "idle" => NotNewer(rec.snap, cache) /\ (rec.fresh => rec.snap = rn)
  BY DEF Types, OwnerTypes, Versions
<1>b. pc # "idle" => Typed(rec.snap, Succeeded) /\ rec.fresh \in BOOLEAN
  BY DEF Types, RecTypes, RecTyped
<1>c. /\ rn.gen \in Nat /\ cache.gen \in Nat
      /\ pc # "idle" => rec.snap.gen \in Nat
  BY <1>a, <1>b DEF Typed
<1>1. NotNewer(rn, rn')
  <2>1. ASSUME NEW s \in Specs, EditRunnable(s) PROVE NotNewer(rn, rn')
    <3>1. rn' = [rn EXCEPT !.gen = @ + 1, !.spec = s]
      BY <2>1 DEF EditRunnable, NewVersion
    <3>2. rn'.gen = rn.gen + 1
      BY <1>a, <3>1 DEF Typed
    <3> QED BY <1>c, <3>2 DEF NotNewer
  <2>2. CASE DeleteRunnable \/ StatusUpdated
    <3>1. rn' = [rn EXCEPT !.exists = FALSE] \/ rn' = [rn EXCEPT !.status = NewStatus]
      BY <2>2 DEF DeleteRunnable, StatusUpdated, NewVersion
    <3>2. rn'.gen = rn.gen /\ rn'.spec = rn.spec
      BY <1>a, <3>1 DEF Typed
    <3> QED BY <1>c, <3>2 DEF NotNewer
  <2>3. CASE rn' = rn
    BY <1>c, <2>3 DEF NotNewer
  <2> QED BY <2>1, <2>2, <2>3, Writers DEF WritesOwner
<1>2. cache' = cache \/ (cache' = rn /\ rn' = rn)
  <2>1. WritesCache => cache' = rn /\ rn' = rn
    BY DEF WritesCache, DeliverOwner, Restart, api
  <2> QED BY <2>1, Writers
<1>3. rn'.gen \in Nat
  BY OwnerTypesStep DEF OwnerTypes, Typed
<1>4. NotNewer(cache', rn')
  BY <1>1, <1>2, <1>3, <1>a, <1>c DEF NotNewer
<1>5. synced' => cache' = rn'
  <2>1. CASE WritesOwner
    BY <2>1 DEF WritesOwner, EditRunnable, DeleteRunnable, NewVersion, StatusUpdated
  <2>2. CASE WritesCache
    BY <2>2 DEF WritesCache, DeliverOwner, Restart, api
  <2>3. CASE synced' = synced /\ cache' = cache /\ rn' = rn
    BY <1>a, <2>3
  <2> QED BY <2>1, <2>2, <2>3, Writers
<1>6. pc' # "idle" => NotNewer(rec'.snap, cache') /\ (rec'.fresh => rec'.snap = rn')
  <2> SUFFICES ASSUME pc' # "idle"
               PROVE  NotNewer(rec'.snap, cache') /\ (rec'.fresh => rec'.snap = rn')
    OBVIOUS
  <2>1. CASE GetRunnable
    <3>1. rec'.snap = cache /\ rec'.fresh = synced /\ cache' = cache /\ rn' = rn
      BY <2>1 DEF GetRunnable, api
    <3> QED BY <1>a, <1>c, <3>1 DEF NotNewer
  <2>2. CASE /\ pc # "idle" /\ rec'.snap = rec.snap
             /\ rec'.fresh = TRUE => rec.fresh = TRUE /\ rn' = rn
    <3>1. rec'.fresh \in BOOLEAN
      BY RecTypesStep DEF RecTypes, RecTyped
    <3>2. NotNewer(rec.snap, cache')
      BY <1>2, <1>a, <1>c, <2>2 DEF NotNewer
    <3>3. rec'.fresh => rec'.snap = rn'
      BY <1>a, <2>2, <3>1
    <3> QED BY <2>2, <3>2, <3>3
  <2> QED BY <2>1, <2>2, RecStep
<1> QED BY <1>4, <1>5, <1>6 DEF Versions
-----------------------------------------------------------------------------
(* What the list gives: the runs that the cleanup deletes, and the outputs. *)
LEMMA ListStep ==
    ASSUME Types, ListRuns
    PROVE  /\ pc = "list" /\ UNCHANGED <<rn, runs>>
           /\ \/ rec'.doomed = rec.doomed /\ rec'.out = rec.out
              \/ LET listed == Labelled(rec.snap.spec.tmpl) IN
                 /\ rec'.doomed \in CleanupRunnableStampedObjects(runs, listed, MaxSuccessfulRuns, MaxFailedRuns)
                 /\ rec'.out \in OutputsOf(rec.content, listed, rec.snap.status.out)
<1> DEFINE listed == Labelled(rec.snap.spec.tmpl)
           Goal == \/ rec'.doomed = rec.doomed /\ rec'.out = rec.out
                   \/ /\ rec'.doomed \in CleanupRunnableStampedObjects(runs, listed, MaxSuccessfulRuns, MaxFailedRuns)
                      /\ rec'.out \in OutputsOf(rec.content, listed, rec.snap.status.out)
<1>1. pc = "list" /\ UNCHANGED <<rn, runs>>
  BY ZenonT(30) DEF ListRuns, api
<1>2. RecTyped(rec, DOMAIN runs, Succeeded)
  BY <1>1 DEF Types, RecTypes
<1>3. ASSUME NEW r, rec' = [rec EXCEPT !.reason = r, !.requeue = TRUE] PROVE Goal
  <2>1. rec'.doomed = rec.doomed /\ rec'.out = rec.out
    BY <1>2, <1>3 DEF RecTyped
  <2> QED BY <2>1
<1>4. ASSUME NEW d \in CleanupRunnableStampedObjects(runs, listed, MaxSuccessfulRuns, MaxFailedRuns),
             NEW o \in OutputsOf(rec.content, listed, rec.snap.status.out), NEW r \in Reasons,
             rec' = [rec EXCEPT !.doomed = d, !.out = o, !.reason = r]
      PROVE  Goal
  <2>1. rec'.doomed = d /\ rec'.out = o
    BY <1>2, <1>4 DEF RecTyped
  <2> QED BY <2>1
<1>5. "OutputPathNotSatisfied" \in Reasons /\ "Ready" \in Reasons
  BY DEF Reasons
<1> HIDE DEF Goal
<1>6. Goal
  BY <1>3, <1>4, <1>5 DEF ListRuns
<1> QED BY <1>1, <1>6 DEF Goal

(* The cleanup deletes what it has chosen, and nobody else retires a run.   *)
LEMMA OnlyDoomedRetire ==
    ASSUME Types, [Next]_vars, NEW j \in DOMAIN runs, runs[j].fate # "retired", runs'[j].fate = "retired"
    PROVE  pc = "gc" /\ j \in rec.doomed
<1>a. RunsTyped /\ RunsOrdered /\ \A i \in DOMAIN runs : runs[i] \in Runs
  BY RunsFacts DEF Types
<1>b. ASSUME NEW i \in DOMAIN runs, NEW y, runs' = [runs EXCEPT ![i] = y] PROVE j = i /\ y.fate = "retired"
  BY <1>a, <1>b DEF RunsTyped
<1>1. CASE runs' = runs
  BY <1>1
<1>2. ASSUME NEW i \in DOMAIN runs, NEW s, EditRun(i) \/ RunEnds(i, s) PROVE FALSE
  <2>1. CASE EditRun(i)
    <3> DEFINE y == [runs[i] EXCEPT !.edited = TRUE]
    <3>1. runs' = [runs EXCEPT ![i] = y]
      BY <2>1 DEF EditRun
    <3>2. y.fate = runs[i].fate
      BY <1>a DEF Runs
    <3> HIDE DEF y
    <3> QED BY <1>b, <3>1, <3>2
  <2>2. CASE RunEnds(i, s)
    <3> DEFINE y == [runs[i] EXCEPT !.health = s]
    <3>1. runs' = [runs EXCEPT ![i] = y]
      BY <2>2 DEF RunEnds
    <3>2. y.fate = runs[i].fate
      BY <1>a DEF Runs
    <3> HIDE DEF y
    <3> QED BY <1>b, <3>1, <3>2
  <2> QED BY <1>2, <2>1, <2>2
<1>3. ASSUME NEW i \in DOMAIN runs, RemoveRun(i) PROVE FALSE
  <2> DEFINE y == [runs[i] EXCEPT !.fate = "discarded"]
  <2>1. runs' = [runs EXCEPT ![i] = y]
    BY <1>3 DEF RemoveRun
  <2>2. y.fate = "discarded"
    BY <1>a DEF Runs
  <2> HIDE DEF y
  <2> QED BY <1>b, <2>1, <2>2
<1>4. ASSUME NEW i \in DOMAIN runs, DeleteRun(i) PROVE pc = "gc" /\ j \in rec.doomed
  <2>1. pc = "gc" /\ i \in rec.doomed /\ (runs' = runs \/ \E y : runs' = [runs EXCEPT ![i] = y])
    BY <1>4 DEF DeleteRun
  <2> QED BY <1>1, <1>b, <2>1
<1>5. CASE EnsureImmutableObject
  <2> DEFINE spec == SpecOf(rec.snap.spec, rec.sel, rec.content)
  <2>1. pc = "ensure" /\ (runs' = runs \/ (Len(runs) < MaxRuns /\ Created(spec)))
    BY <1>5 DEF EnsureImmutableObject, api
  <2>2. spec \in RunSpecs
    BY <2>1, SpecOfIsRunSpec
  <2> HIDE DEF spec
  <2>3. runs'[j] = runs[j]
    BY <1>a, <2>1, <2>2, OneMoreRun
  <2> QED BY <2>3
<1> QED BY <1>1, <1>2, <1>3, <1>4, <1>5, Writers DEF WritesRuns

(* The runs that are going to be deleted still have heirs, whatever becomes *)
(* of the other runs in the meantime.                                       *)
LEMMA DoomedStep ==
    ASSUME Types, DoomedHaveHeirs, [Next]_vars
    PROVE  DoomedHaveHeirs'
<1> DEFINE HasHeir(rs, i, S) ==
               /\ rs[i].health # "Unknown"
               /\ \E j \in DOMAIN rs \ S : /\ rs[j].spec.tmpl = rs[i].spec.tmpl
                                           /\ rs[j].health = rs[i].health
                                           /\ rs[j].created >= rs[i].created
                                           /\ rs[j].fate # "retired"
<1>a. RunsTyped /\ Grows
  BY RunsStep DEF Types
<1>b. ASSUME NEW S, NEW T, T \subseteq S,
             \A j \in DOMAIN runs \ S : runs[j].fate # "retired" => runs'[j].fate # "retired"
      PROVE  \A i \in DOMAIN runs : HasHeir(runs, i, S) => HasHeir(runs', i, T)
  BY <1>a, <1>b DEF Grows
<1>c. pc # "idle" => rec.doomed \subseteq DOMAIN runs /\ \A i \in rec.doomed : HasHeir(runs, i, rec.doomed)
  BY DEF Types, RecTypes, RecTyped, DoomedHaveHeirs
<1>d. ASSUME NEW j \in DOMAIN runs, runs[j].fate # "retired", runs'[j].fate = "retired"
      PROVE  pc = "gc" /\ j \in rec.doomed
  BY <1>d, OnlyDoomedRetire
<1> SUFFICES ASSUME pc' # "idle" PROVE \A i \in rec'.doomed : HasHeir(runs', i, rec'.doomed)
  BY DEF DoomedHaveHeirs
<1> HIDE DEF HasHeir
<1>1. CASE GetRunnable
  BY <1>1 DEF GetRunnable
<1>2. CASE pc # "idle" /\ rec'.doomed \subseteq rec.doomed
  <2>1. \A i \in DOMAIN runs : HasHeir(runs, i, rec.doomed) => HasHeir(runs', i, rec'.doomed)
    BY <1>2, <1>b, <1>d
  <2> QED BY <1>2, <1>c, <2>1
<1>3. CASE ListRuns
  <2> DEFINE listed == Labelled(rec.snap.spec.tmpl)
  <2>1. /\ listed \in SUBSET (DOMAIN runs) /\ \A i, j \in listed : runs[i].spec.tmpl = runs[j].spec.tmpl
        /\ \A i \in listed : runs[i].fate # "retired"
        /\ runs' = runs /\ pc # "idle"
    BY <1>3, ListStep DEF Labelled, Kept
  <2>2. CASE rec'.doomed \in CleanupRunnableStampedObjects(runs, listed, MaxSuccessfulRuns, MaxFailedRuns)
    <3>1. /\ rec'.doomed \subseteq listed
          /\ \A i \in rec'.doomed : /\ runs[i].health # "Unknown"
                                    /\ \E j \in listed \ rec'.doomed : /\ runs[j].health = runs[i].health
                                                                       /\ runs[j].created >= runs[i].created
      BY <1>a, <2>1, <2>2, CleanupProperties
    <3> HIDE DEF listed
    <3>2. \A i \in rec'.doomed : HasHeir(runs, i, rec'.doomed)
      BY <2>1, <3>1 DEF HasHeir
    <3> QED BY <2>1, <3>2
  <2> QED BY <1>2, <1>3, <2>1, <2>2, ListStep
<1> QED BY <1>1, <1>2, <1>3, RecStep

(* What is going to be reported stays as new as what was reported before.   *)
LEMMA OutputStep ==
    ASSUME Types, OutputIsNewest, [Next]_vars
    PROVE  OutputIsNewest'
<1> DEFINE NN(rs, before, out) ==
               \/ rs[before].fate # "kept"
               \/ rs[before].spec.tmpl # rs[out].spec.tmpl
               \/ rs[before].created <= rs[out].created
           Fine(rs, before, out) == out \in {None, before} \/ (before # None => NN(rs, before, out))
<1>a. RunsTyped /\ Grows
  BY RunsStep DEF Types
<1>b. pc # "idle" => rec.out \in Succeeded \cup {None} /\ rec.snap.status.out \in Succeeded \cup {None}
  BY DEF Types, RecTypes, RecTyped, Typed
<1>c. \A i, j \in Succeeded : NN(runs, i, j) => NN(runs', i, j)
  BY <1>a DEF Grows, Succeeded
<1>d. \A i, j \in Succeeded \cup {None} : Fine(runs, i, j) => Fine(runs', i, j)
  <2> HIDE DEF NN
  <2> QED BY <1>c
<1>e. pc # "idle" => Fine(runs, rec.snap.status.out, rec.out)
  BY DEF OutputIsNewest, NoNewer
<1> SUFFICES ASSUME pc' # "idle" PROVE Fine(runs', rec'.snap.status.out, rec'.out)
  BY DEF OutputIsNewest, NoNewer
<1>1. CASE GetRunnable
  BY <1>1 DEF GetRunnable
<1>2. CASE pc # "idle" /\ rec'.snap = rec.snap /\ rec'.out = rec.out
  <2> HIDE DEF Fine
  <2> QED BY <1>2, <1>b, <1>d, <1>e
<1>3. CASE ListRuns /\ rec'.snap = rec.snap /\ pc # "idle"
  <2> DEFINE listed == Labelled(rec.snap.spec.tmpl)
             before == rec.snap.status.out
  <2>1. listed \in SUBSET (DOMAIN runs) /\ runs' = runs
    BY <1>3, ListStep DEF Labelled, Kept
  <2>2. CASE rec'.out \in OutputsOf(rec.content, listed, before)
    <3>1. CASE rec'.out \in {None, before}
      BY <1>3, <3>1
    <3>2. CASE /\ rec'.out \in listed \cap Succeeded
               /\ \A j \in listed \cap Succeeded : runs[j].created <= runs[rec'.out].created
      <4>1. before # None => NN(runs, before, rec'.out)
        BY <1>b, <1>3, <3>2 DEF Labelled, Kept, Succeeded
      <4> HIDE DEF NN
      <4> QED BY <1>3, <2>1, <4>1
    <3> QED BY <2>1, <2>2, <3>1, <3>2, OutputProperties
  <2> QED BY <1>2, <1>3, <2>2, ListStep
<1> QED BY <1>1, <1>2, <1>3, RecStep
-----------------------------------------------------------------------------
(* The generations, and with them the debt, are numbers.                    *)
LEMMA GenRanges ==
    ASSUME Types, Versions
    PROVE  /\ rn.gen \in Nat /\ cache.gen \in Nat /\ NextGen \in Nat
           /\ NextGen <= cache.gen /\ cache.gen <= rn.gen
           /\ Behind \in {0, 1} /\ Open \in {0, 1} /\ Debt \in Nat
           /\ Len(runs) \in Nat /\ causes \in Nat
<1>1. rn.gen \in Nat /\ cache.gen \in Nat /\ cache.gen <= rn.gen
  BY DEF Types, OwnerTypes, Typed, Versions, NotNewer
<1>2. NextGen \in Nat /\ NextGen <= cache.gen
  <2>1. CASE Reading
    <3>1. rec.snap.gen \in Nat /\ rec.snap.gen <= cache.gen
      BY <2>1 DEF Reading, Types, RecTypes, RecTyped, Typed, Versions, NotNewer
    <3> QED BY <2>1, <3>1 DEF NextGen
  <2>2. CASE ~Reading
    BY <1>1, <2>2 DEF NextGen
  <2> QED BY <2>1, <2>2
<1>3. Behind \in {0, 1} /\ Open \in {0, 1}
  BY DEF Behind, Open
<1>4. Debt \in Nat
  BY <1>1, <1>2, <1>3 DEF Debt
<1>5. Len(runs) \in Nat /\ causes \in Nat
  BY RunsFacts DEF Types, OtherTypes
<1> QED BY <1>1, <1>2, <1>3, <1>4, <1>5

(* What the next run is for does not change while the version in hand, the  *)
(* informer's copy, the template and the selected object are the same.      *)
LEMMA NextIsSame ==
    ASSUME UNCHANGED <<pc, cache, selected, rts>>, Reading => rec'.snap = rec.snap,
           pc = "ensure" => rec'.sel = rec.sel /\ rec'.content = rec.content
    PROVE  NextGen' = NextGen /\ NextSpec' = NextSpec /\ NextContent' = NextContent /\ Behind' = Behind
<1>1. Reading' = Reading
  BY DEF Reading
<1>2. CASE pc = "ensure"
  <2>1. /\ rec'.snap = rec.snap /\ rec'.sel = rec.sel /\ rec'.content = rec.content
        /\ pc' = "ensure" /\ Reading
    BY <1>2 DEF Reading
  <2> QED BY <1>1, <1>2, <2>1 DEF NextGen, NextSpec, NextContent, Wanted, Behind
<1>3. CASE pc # "ensure"
  <2>1. Behind' = Behind
    BY <1>3 DEF Behind
  <2>2. CASE Reading
    BY <1>1, <1>3, <2>1, <2>2 DEF NextGen, NextSpec, NextContent, Wanted
  <2>3. CASE ~Reading
    BY <1>1, <1>3, <2>1, <2>3 DEF NextGen, NextSpec, NextContent, Wanted
  <2> QED BY <2>2, <2>3
<1> QED BY <1>2, <1>3

(* When the version in hand is put aside for the informer's copy, either    *)
(* nothing is missed by that, or the difference pays for another run.       *)
LEMMA LeavesReading ==
    ASSUME Types, Versions, Reading, ~Reading', UNCHANGED <<rn, cache, selected, rts>>
    PROVE  /\ Behind' = 0
           /\ \/ /\ NextSpec' = NextSpec /\ Debt' = Debt
                 /\ Stampable(NextContent') => Stampable(NextContent)
              \/ ~Stampable(NextContent') /\ Debt' = Debt
              \/ Debt' + 1 <= Debt
           /\ Debt' \in Nat /\ Debt' <= Debt
<1>1. NextGen' = cache.gen /\ NextGen = rec.snap.gen
  BY DEF NextGen
<1>2. Behind' = 0
  BY DEF Reading, Behind
<1>3. NotNewer(rec.snap, cache)
  BY DEF Reading, Versions
<1>4. Debt' = rn.gen - cache.gen /\ Debt = (rn.gen - rec.snap.gen) + Behind
  BY <1>1, <1>2, GenRanges DEF Debt
<1>5. /\ rn.gen \in Nat /\ cache.gen \in Nat /\ rec.snap.gen \in Nat /\ Behind \in {0, 1}
      /\ cache.gen <= rn.gen /\ rec.snap.gen <= cache.gen
  BY <1>1, GenRanges
<1>6. CASE rec.snap.gen = cache.gen /\ Behind = 0
  <2>1. rec.snap.spec = cache.spec
    BY <1>3, <1>6 DEF NotNewer
  <2>2. pc = "ensure" => rec.sel = selected /\ ~Changes(rec.content, rts[cache.spec.tmpl])
    BY <1>6, <2>1 DEF Behind
  <2>3. NextSpec = SpecOf(cache.spec, selected, NextContent)
    BY <2>1, <2>2 DEF NextSpec, Wanted
  <2>4. NextContent' = rts[cache.spec.tmpl] /\ NextSpec' = SpecOf(cache.spec, selected, rts[cache.spec.tmpl])
    BY DEF NextSpec, NextContent, Wanted, Reading, SpecOf
  <2>5. Debt' = Debt /\ Debt' \in Nat /\ Debt' <= Debt
    BY <1>4, <1>5, <1>6
  <2>6. CASE pc # "ensure"
    <3>1. NextContent = rts[cache.spec.tmpl]
      BY <2>1, <2>6 DEF NextContent, Wanted
    <3> QED BY <1>2, <2>3, <2>4, <2>5, <3>1
  <2>7. CASE pc = "ensure"
    <3>1. NextContent = rec.content /\ Stampable(rec.content)
      BY <2>7 DEF NextContent, Types, RecTypes
    <3>2. ~Stampable(NextContent') \/ rec.content.stamps = rts[cache.spec.tmpl].stamps
      BY <2>2, <2>4, <2>7, <3>1 DEF Changes
    <3>3. ~Stampable(NextContent') \/ NextSpec' = NextSpec
      BY <2>3, <2>4, <3>1, <3>2 DEF SpecOf
    <3> QED BY <1>2, <2>5, <3>1, <3>3
  <2> QED BY <2>6, <2>7
<1>7. CASE rec.snap.gen # cache.gen \/ Behind # 0
  BY <1>2, <1>4, <1>5, <1>7
<1> QED BY <1>6, <1>7

(* Nothing is lost by a step that changes neither what the next run is for  *)
(* nor the last run nor the cache of submitted objects.                     *)
LEMMA ServedStays ==
    ASSUME Served, NextSpec' = NextSpec, submitted' = submitted, Len(runs') = Len(runs), runs' # <<>>,
           runs'[Len(runs)].fate = runs[Len(runs)].fate,
           runs'[Len(runs)].edited = runs[Len(runs)].edited,
           runs'[Len(runs)].spec = runs[Len(runs)].spec
    PROVE  Served'
BY DEF Served

(* EnsureImmutableObject creates no run when the last one will do.          *)
LEMMA ServedHits ==
    ASSUME Types, pc = "ensure",
           Hits(submitted[KeyOf[rec.snap.spec.tmpl]], SpecOf(rec.snap.spec, rec.sel, rec.content), runs, Kept) = {}
    PROVE  Open = 1
<1>a. NextContent = rec.content /\ Stampable(rec.content)
  BY DEF NextContent, Types, RecTypes
<1> SUFFICES ASSUME Served PROVE FALSE
  BY <1>a DEF Open
<1>1. NextSpec = SpecOf(rec.snap.spec, rec.sel, rec.content) /\ NextSpec.tmpl = rec.snap.spec.tmpl
  BY <1>a DEF NextSpec, Wanted, Reading, SpecOf
<1>2. Len(runs) \in DOMAIN runs
  BY DEF Served, Types, RunsTyped
<1>3. Len(runs) \in Kept
  BY <1>2 DEF Kept, Served
<1>4. IsSubmittedCacheHit(submitted[KeyOf[rec.snap.spec.tmpl]], NextSpec)
  BY <1>1 DEF Served, IsSubmittedCacheHit
<1>5. IsPersistedCacheHit(runs[Len(runs)], NextSpec)
  BY DEF Served, IsPersistedCacheHit
<1> QED BY <1>1, <1>3, <1>4, <1>5 DEF Hits

(* A run that is created serves the next spec, unless that has changed.     *)
LEMMA NewRunServes ==
    ASSUME Types, pc = "ensure", Len(runs) < MaxRuns,
           Created(SpecOf(rec.snap.spec, rec.sel, rec.content)), CacheSet(SpecOf(rec.snap.spec, rec.sel, rec.content)), NextSpec' = NextSpec
    PROVE  Served'
<1> DEFINE spec == SpecOf(rec.snap.spec, rec.sel, rec.content)
<1>1. NextSpec = spec
  BY DEF NextSpec, NextContent, Wanted, Reading
<1>2. spec \in RunSpecs
  BY SpecOfIsRunSpec
<1>3. /\ RunsTyped' /\ Len(runs') = Len(runs) + 1
      /\ runs'[Len(runs')].spec = spec /\ runs'[Len(runs')].edited = FALSE
      /\ runs'[Len(runs')].fate = "kept"
  <2> HIDE DEF spec
  <2>1. Created(spec) /\ RunsTyped /\ RunsOrdered
    BY DEF Types, spec
  <2>2. RunsTyped' /\ Len(runs') = Len(runs) + 1
    BY <1>2, <2>1, OneMoreRun
  <2>3. \E when : runs'[Len(runs')] = [spec |-> spec, edited |-> FALSE, created |-> when,
                                       health |-> "Unknown", fate |-> "kept"]
    BY <1>2, <2>1, OneMoreRun
  <2> QED BY <2>2, <2>3
<1>4. runs' # <<>>
  BY <1>3, RunsFacts DEF Types
<1>5. spec.tmpl \in RunTemplates
  BY <1>2 DEF RunSpecs
<1>6. submitted'[KeyOf[spec.tmpl]] = spec
  <2>1. KeyOf[spec.tmpl] \in DOMAIN submitted
    BY <1>5 DEF Types, OtherTypes
  <2> HIDE DEF spec
  <2> QED BY <2>1 DEF CacheSet, spec
<1> QED BY <1>1, <1>3, <1>4, <1>6 DEF Served

(* The balance when the debt becomes e and the open run p.                  *)
LEMMA Balance ==
    ASSUME Types, Versions, Paid, NEW e \in Nat, NEW p \in {0, 1}
    PROVE  /\ e + 1 <= Debt => e <= Debt /\ Len(runs) + e + p <= causes
           /\ e = Debt => e <= Debt
           /\ e = Debt /\ p <= Open => Len(runs) + e + p <= causes
           /\ e <= Debt /\ Open = 1 => (Len(runs) + 1) + e + p <= causes + 1
           /\ e + 1 <= Debt /\ Open = 1 => (Len(runs) + 1) + e + p <= causes
           /\ e = Debt /\ p = 0 /\ Open = 1 => (Len(runs) + 1) + e + p <= causes
<1>1. Debt \in Nat /\ Open \in {0, 1} /\ Len(runs) \in Nat /\ causes \in Nat
  BY GenRanges
<1>2. Len(runs) + Debt + Open <= causes
  BY DEF Paid
<1> QED BY <1>1, <1>2

(* Every step that makes another run possible is one of the causes, and     *)
(* every step that creates one settles a debt.                              *)
LEMMA DebtStep ==
    ASSUME Types, Versions, Paid, [Next]_vars
    PROVE  Len(runs') + Debt' + Open' <= causes'
<1> DEFINE Goal == Len(runs') + Debt' + Open' <= causes'
<1>a. /\ Debt \in Nat /\ Open \in {0, 1} /\ Len(runs) \in Nat /\ causes \in Nat
      /\ rn.gen \in Nat /\ NextGen \in Nat /\ Behind \in {0, 1}
  BY GenRanges
<1>b. Open' \in {0, 1}
  BY DEF Open
<1>c. Len(runs) + Debt + Open <= causes
  BY DEF Paid
<1>d. (Served => Served') /\ NextContent' = NextContent => Open' <= Open
  BY DEF Open
<1>e. ASSUME NextGen' = NextGen, Behind' = Behind, rn'.gen = rn.gen PROVE Debt' = Debt
  BY <1>e DEF Debt
<1>f. ASSUME NextGen' = NextGen, NextSpec' = NextSpec, NextContent' = NextContent, Behind' = Behind, rn'.gen = rn.gen,
             UNCHANGED <<runs, submitted, causes>>
      PROVE  Goal
  <2>1. Served => Served'
    BY <1>f DEF Served
  <2> QED BY <1>a, <1>b, <1>c, <1>d, <1>e, <1>f, <2>1
<1>g. RunsTyped /\ RunsOrdered /\ Typed(rn, Succeeded)
  BY DEF Types, OwnerTypes
\* The environment.
<1>1. ASSUME NEW s \in Specs, EditRunnable(s) PROVE Goal
  <2>1. /\ rn' = [rn EXCEPT !.gen = @ + 1, !.spec = s]
        /\ rec' = IF pc = "idle" THEN None ELSE [rec EXCEPT !.fresh = FALSE]
        /\ UNCHANGED <<pc, cache, selected, rts, runs, submitted>> /\ causes' = causes + 1
    BY <1>1 DEF EditRunnable, NewVersion, Cause
  <2>2. rn'.gen = rn.gen + 1
    BY <1>g, <2>1 DEF Typed
  <2>3. pc # "idle" => rec'.snap = rec.snap /\ rec'.sel = rec.sel /\ rec'.content = rec.content
    BY <2>1 DEF Types, RecTypes, RecTyped
  <2>4. NextGen' = NextGen /\ NextSpec' = NextSpec /\ NextContent' = NextContent /\ Behind' = Behind
    BY <2>1, <2>3, NextIsSame DEF Reading
  <2>5. Debt' = Debt + 1
    BY <1>a, <2>2, <2>4 DEF Debt
  <2>6. Served => Served'
    BY <2>1, <2>4 DEF Served
  <2>7. Len(runs') = Len(runs) /\ causes' = causes + 1
    BY <2>1
  <2> HIDE DEF Goal
  <2>8. Open' <= Open
    BY <1>d, <2>4, <2>6
  <2> QED BY <1>a, <1>b, <1>c, <2>5, <2>7, <2>8 DEF Goal
<1>2. CASE DeleteRunnable
  <2>1. /\ rn' = [rn EXCEPT !.exists = FALSE]
        /\ rec' = IF pc = "idle" THEN None ELSE [rec EXCEPT !.fresh = FALSE]
        /\ UNCHANGED <<pc, cache, selected, rts, runs, submitted, causes>>
    BY <1>2 DEF DeleteRunnable, NewVersion
  <2>2. rn'.gen = rn.gen
    BY <1>g, <2>1 DEF Typed
  <2>3. pc # "idle" => rec'.snap = rec.snap /\ rec'.sel = rec.sel /\ rec'.content = rec.content
    BY <2>1 DEF Types, RecTypes, RecTyped
  <2>4. NextGen' = NextGen /\ NextSpec' = NextSpec /\ NextContent' = NextContent /\ Behind' = Behind
    BY <2>1, <2>3, NextIsSame DEF Reading
  <2> QED BY <1>f, <2>1, <2>2, <2>4
<1>3. CASE UNCHANGED <<pc, rec, rn, cache, selected, rts, runs, submitted, causes>>
  <2>1. NextGen' = NextGen /\ NextSpec' = NextSpec /\ NextContent' = NextContent /\ Behind' = Behind
    BY <1>3, NextIsSame
  <2> QED BY <1>f, <1>3, <2>1
<1>4. CASE \/ \E a \in {"ok", "missing", "forbidden"} : EditAccount(a)
           \/ Resync \/ (\E k \in events : DeliverEvent(k)) \/ GetRunnableFails \/ RunnableGone
           \/ UNCHANGED vars
  <2>1. UNCHANGED <<pc, rec, rn, cache, selected, rts, runs, submitted, causes>>
    BY <1>4, ZenonT(30) DEF EditAccount, Resync, DeliverEvent, GetRunnableFails, RunnableGone, vars, api,
       manager, history
  <2> QED BY <1>3, <2>1
<1>t. ASSUME NEW t \in RunTemplates, NEW c \in Contents \cup {None}, EditTemplate(t, c) PROVE Goal
  <2>1. /\ UNCHANGED <<pc, rec, rn, cache, selected, runs, submitted>> /\ rts' = [rts EXCEPT ![t] = c]
        /\ causes' = IF Changes(rts[t], c) THEN causes + 1 ELSE causes
    BY <1>t DEF EditTemplate
  <2>2. NextGen' = NextGen /\ Reading' = Reading /\ Wanted' = Wanted
    BY <2>1 DEF NextGen, Wanted, Reading
  <2>3. Wanted.tmpl \in RunTemplates /\ rts \in [RunTemplates -> Contents \cup {None}]
    BY <1>g, InstanceAssumption DEF Wanted, Reading, Types, RecTypes, RecTyped, OwnerTypes, OtherTypes, Typed
  <2>4. rts'[Wanted.tmpl] = IF t = Wanted.tmpl THEN c ELSE rts[Wanted.tmpl]
    BY <2>1, <2>3
  <2>5. Behind' \in {0, 1} /\ Len(runs') = Len(runs)
    BY <2>1 DEF Behind
  <2>6. CASE pc = "ensure"
    <3>1. /\ NextContent = rec.content /\ NextContent' = rec.content /\ NextSpec' = NextSpec
          /\ Wanted = rec.snap.spec
      BY <2>1, <2>2, <2>6 DEF NextContent, NextSpec, Wanted, Reading
    <3>2. Served => Served'
      BY <2>1, <3>1 DEF Served
    <3>3. Open' <= Open
      BY <1>d, <3>1, <3>2
    <3>4. Debt' = (rn.gen - NextGen) + Behind' /\ Debt = (rn.gen - NextGen) + Behind
      BY <2>1, <2>2 DEF Debt
    <3>5. ~Changes(rts[t], c) => Behind' <= Behind
      <4>1. ASSUME ~Changes(rts[t], c), t = rec.snap.spec.tmpl, Changes(rec.content, c)
            PROVE  Changes(rec.content, rts[t])
        BY <4>1 DEF Changes
      <4>2. rts'[rec.snap.spec.tmpl] = IF t = rec.snap.spec.tmpl THEN c ELSE rts[rec.snap.spec.tmpl]
        BY <2>4, <3>1
      <4>3. ASSUME ~Changes(rts[t], c), Changes(rec.content, rts'[rec.snap.spec.tmpl])
            PROVE  Changes(rec.content, rts[rec.snap.spec.tmpl])
        BY <4>1, <4>2, <4>3
      <4> QED BY <2>1, <4>3 DEF Behind
    <3> HIDE DEF Goal
    <3>6. CASE Changes(rts[t], c)
      <4>1. causes' = causes + 1 /\ Behind' <= Behind + 1
        BY <1>a, <2>1, <2>5, <3>6
      <4>2. Debt' \in Int /\ Debt' <= Debt + 1
        BY <1>a, <2>5, <3>4, <4>1
      <4>3. Len(runs') + Debt' + Open' <= causes'
        BY <1>a, <1>b, <1>c, <2>5, <3>3, <4>1, <4>2
      <4> QED BY <4>3 DEF Goal
    <3>7. CASE ~Changes(rts[t], c)
      <4>1. causes' = causes /\ Behind' <= Behind
        BY <2>1, <3>5, <3>7
      <4>2. Debt' \in Int /\ Debt' <= Debt
        BY <1>a, <2>5, <3>4, <4>1
      <4>3. Len(runs') + Debt' + Open' <= causes'
        BY <1>a, <1>b, <1>c, <2>5, <3>3, <4>1, <4>2
      <4> QED BY <4>3 DEF Goal
    <3> QED BY <3>6, <3>7
  <2>7. CASE pc # "ensure"
    <3>1. NextContent = rts[Wanted.tmpl] /\ NextContent' = rts'[Wanted.tmpl] /\ Behind = 0 /\ Behind' = 0
      BY <2>1, <2>2, <2>7 DEF NextContent, Behind
    <3>2. Debt' = Debt
      BY <1>e, <2>1, <2>2, <3>1
    <3>3. ~Changes(rts[t], c) => Open' <= Open
      <4>1. CASE t # Wanted.tmpl
        <5>1. NextContent' = NextContent
          BY <2>4, <3>1, <4>1
        <5>2. NextSpec' = NextSpec
          BY <2>1, <2>2, <2>7, <5>1 DEF NextSpec
        <5>3. Served => Served'
          BY <2>1, <5>2 DEF Served
        <5> QED BY <1>d, <5>1, <5>3
      <4>2. CASE t = Wanted.tmpl /\ ~Stampable(c)
        <5>1. ~Stampable(NextContent')
          BY <2>4, <3>1, <4>2
        <5>2. Open' = 0
          BY <5>1 DEF Open
        <5> QED BY <1>a, <5>2
      <4>3. CASE t = Wanted.tmpl /\ Stampable(c) /\ ~Changes(rts[t], c)
        <5>1. NextContent' = c /\ NextContent = rts[t] /\ Stampable(rts[t]) /\ rts[t].stamps = c.stamps
          BY <2>4, <3>1, <4>3 DEF Changes
        <5>2. NextSpec' = NextSpec
          BY <2>1, <2>2, <2>7, <5>1 DEF NextSpec, SpecOf
        <5>3. Served => Served'
          BY <2>1, <5>2 DEF Served
        <5> QED BY <4>3, <5>1, <5>3 DEF Open
      <4> QED BY <4>1, <4>2, <4>3
    <3> HIDE DEF Goal
    <3> QED BY <1>a, <1>b, <1>c, <2>1, <2>5, <3>2, <3>3 DEF Goal
  <2> QED BY <2>6, <2>7
<1>5. ASSUME NEW v \in Selectable \cup {None}, EditSelected(v) PROVE Goal
  <2>1. UNCHANGED <<pc, rec, rn, cache, runs, submitted>> /\ causes' = causes + 1 /\ rts' = rts
    BY <1>5 DEF EditSelected, Cause, manager
  <2>2. NextGen' = NextGen
    BY <2>1 DEF NextGen, Reading
  <2>3. CASE pc = "ensure"
    <3>1. Behind' \in {0, 1}
      BY DEF Behind
    <3>2. Debt' <= Debt + 1
      BY <1>a, <2>1, <2>2, <3>1 DEF Debt
    <3>3. NextSpec' = NextSpec /\ NextContent' = NextContent
      BY <2>1, <2>3 DEF NextSpec, NextContent, Wanted, Reading
    <3>4. Served => Served'
      BY <2>1, <3>3 DEF Served
    <3>5. Debt' \in Int /\ Len(runs') = Len(runs) /\ causes' = causes + 1
      BY <1>a, <2>1, <2>2, <3>1 DEF Debt
    <3> HIDE DEF Goal
    <3>6. Open' <= Open
      BY <1>d, <3>3, <3>4
    <3> QED BY <1>a, <1>b, <1>c, <3>2, <3>5, <3>6 DEF Goal
  <2>4. CASE pc # "ensure"
    <3>1. Behind = 0 /\ Behind' = 0
      BY <2>1, <2>4 DEF Behind
    <3>2. Debt' = Debt
      BY <1>e, <2>1, <2>2, <3>1
    <3> QED BY <1>a, <1>b, <1>c, <2>1, <3>2
  <2> QED BY <2>3, <2>4
<1>6. ASSUME NEW i \in DOMAIN runs, EditRun(i) \/ RemoveRun(i) PROVE Goal
  <2>1. UNCHANGED <<pc, rec, rn, cache, selected, rts, submitted>> /\ causes' = causes + 1
    BY <1>6 DEF EditRun, RemoveRun, Cause
  <2>2. \E y : runs' = [runs EXCEPT ![i] = y]
    BY <1>6 DEF EditRun, RemoveRun
  <2>3. Len(runs') = Len(runs)
    BY <1>g, <2>2 DEF RunsTyped
  <2>4. Debt' = Debt
    BY <1>e, <2>1, NextIsSame
  <2> QED BY <1>a, <1>b, <1>c, <2>1, <2>3, <2>4
<1>7. ASSUME NEW i \in DOMAIN runs, NEW s \in {"True", "False"}, RunEnds(i, s) PROVE Goal
  <2> DEFINE y == [runs[i] EXCEPT !.health = s]
  <2>1. UNCHANGED <<pc, rec, rn, cache, selected, rts, submitted, causes>> /\ runs' = [runs EXCEPT ![i] = y]
    BY <1>7 DEF RunEnds, history
  <2>2. y.spec = runs[i].spec /\ y.edited = runs[i].edited /\ y.fate = runs[i].fate
    BY <1>g, RunsFacts DEF Runs
  <2> HIDE DEF y
  <2>3. /\ Len(runs') = Len(runs) /\ DOMAIN runs' = DOMAIN runs
        /\ \A j \in DOMAIN runs : runs'[j] = IF j = i THEN y ELSE runs[j]
    BY <1>g, <2>1 DEF RunsTyped
  <2>4. \A j \in DOMAIN runs : /\ runs'[j].spec = runs[j].spec
                               /\ runs'[j].edited = runs[j].edited /\ runs'[j].fate = runs[j].fate
    BY <2>2, <2>3
  <2>5. Debt' = Debt /\ NextSpec' = NextSpec /\ NextContent' = NextContent
    BY <1>e, <2>1, NextIsSame
  <2>6. Served => Served'
    <3>1. Len(runs) \in DOMAIN runs /\ runs' # <<>>
      BY <1>g, <2>3, RunsFacts
    <3> QED BY <2>1, <2>3, <2>4, <2>5, <3>1, ServedStays
  <2>7. Open' <= Open /\ causes' = causes
    BY <1>d, <2>1, <2>5, <2>6
  <2> QED BY <1>a, <1>b, <1>c, <2>3, <2>5, <2>7
\* The manager.
<1>8. CASE DeliverOwner
  <2>1. cache' = rn /\ UNCHANGED <<pc, rec, rn, selected, rts, runs, submitted, causes>>
    BY <1>8 DEF DeliverOwner, api, history
  <2>2. Behind' = Behind /\ Reading' = Reading
    BY <2>1 DEF Behind, Reading
  <2>3. CASE Reading
    <3>1. NextGen' = NextGen /\ NextSpec' = NextSpec /\ NextContent' = NextContent
      BY <2>1, <2>2, <2>3 DEF NextGen, NextSpec, NextContent, Wanted
    <3> QED BY <1>f, <2>1, <2>2, <3>1
  <2>4. CASE ~Reading /\ cache.gen = rn.gen
    <3>1. cache.spec = rn.spec
      BY <2>4 DEF Versions, NotNewer
    <3>2. NextGen' = NextGen /\ NextSpec' = NextSpec /\ NextContent' = NextContent
      BY <2>1, <2>2, <2>4, <3>1 DEF NextGen, NextSpec, NextContent, Wanted
    <3> QED BY <1>f, <2>1, <2>2, <3>2
  <2>5. CASE ~Reading /\ cache.gen # rn.gen
    <3>1. NextGen' = rn.gen /\ NextGen = cache.gen
      BY <2>1, <2>2, <2>5 DEF NextGen
    <3>2. cache.gen \in Nat /\ cache.gen < rn.gen
      BY <1>a, <2>5, GenRanges
    <3>3. Debt' + 1 <= Debt /\ Debt' \in Nat
      <4>1. Debt' = (rn.gen - rn.gen) + Behind /\ Debt = (rn.gen - cache.gen) + Behind
        BY <2>1, <2>2, <3>1 DEF Debt
      <4> QED BY <1>a, <3>2, <4>1
    <3>4. Len(runs') = Len(runs) /\ causes' = causes
      BY <2>1
    <3>5. Len(runs) + Debt' + Open' <= causes
      BY <1>b, <3>3, Balance
    <3> QED BY <3>4, <3>5
  <2> QED BY <2>3, <2>4, <2>5
<1>9. CASE Restart
  <2>1. cache' = rn /\ pc' = "idle" /\ UNCHANGED <<rn, runs>> /\ causes' = causes + 1
    BY <1>9 DEF Restart, Cause, api
  <2>2. Debt' = 0
    BY <1>a, <2>1 DEF Debt, NextGen, Reading, Behind
  <2> QED BY <1>a, <1>b, <1>c, <2>1, <2>2
\* The reconciliation, until the version in hand has been used.
<1>10. CASE GetRunnable
  <2>1. /\ pc = "idle" /\ pc' = "account" /\ rec'.snap = cache
        /\ UNCHANGED <<rn, cache, selected, rts, runs, submitted, causes>>
    BY <1>10 DEF GetRunnable, api
  <2>2. NextGen' = NextGen /\ NextSpec' = NextSpec /\ NextContent' = NextContent /\ Behind' = Behind
    BY <2>1 DEF NextGen, NextSpec, NextContent, Wanted, Behind, Reading
  <2> QED BY <1>f, <2>1, <2>2
<1>11. ASSUME Reading, ~Reading', UNCHANGED <<rn, cache, selected, rts, runs, submitted, causes>> PROVE Goal
  <2>1. /\ Debt' \in Nat
        /\ \/ /\ NextSpec' = NextSpec /\ Debt' = Debt
              /\ Stampable(NextContent') => Stampable(NextContent)
           \/ ~Stampable(NextContent') /\ Debt' = Debt
           \/ Debt' + 1 <= Debt
    BY <1>11, LeavesReading
  <2>2. Debt' + 1 <= Debt \/ (Debt' = Debt /\ Open' <= Open)
    <3>1. NextSpec' = NextSpec => (Served => Served')
      BY <1>11 DEF Served
    <3>2. CASE NextSpec' = NextSpec /\ Debt' = Debt /\ (Stampable(NextContent') => Stampable(NextContent))
      <4>1. Open' <= Open
        BY <3>1, <3>2 DEF Open
      <4> QED BY <3>2, <4>1
    <3>3. CASE ~Stampable(NextContent') /\ Debt' = Debt
      <4>1. Open' = 0
        BY <3>3 DEF Open
      <4> QED BY <1>a, <3>3, <4>1
    <3> QED BY <2>1, <3>2, <3>3
  <2>3. Len(runs') = Len(runs) /\ causes' = causes
    BY <1>11
  <2>4. Len(runs) + Debt' + Open' <= causes
    BY <1>b, <2>1, <2>2, Balance
  <2> QED BY <2>3, <2>4
<1>12. CASE GetServiceAccount
  <2>1. /\ pc = "account" /\ UNCHANGED <<rn, cache, selected, rts, runs, submitted, causes>>
        /\ (pc' = "update" \/ (pc' = "stamp" /\ rec' = rec))
    BY <1>12, ZenonT(30) DEF GetServiceAccount, FailWith, api
  <2>2. CASE pc' = "stamp" /\ rec' = rec
    <3>1. NextGen' = NextGen /\ NextSpec' = NextSpec /\ NextContent' = NextContent /\ Behind' = Behind
      BY <2>1, <2>2 DEF NextGen, NextSpec, NextContent, Wanted, Behind, Reading
    <3> QED BY <1>f, <2>1, <3>1
  <2>3. CASE pc' = "update"
    BY <1>11, <2>1, <2>3 DEF Reading
  <2> QED BY <2>1, <2>2, <2>3
<1>13. CASE Stamp
  <2>1. /\ pc = "stamp" /\ UNCHANGED <<rn, cache, selected, rts, runs, submitted, causes>>
        /\ \/ pc' = "update"
           \/ /\ pc' = "ensure"
              /\ rec' = [rec EXCEPT !.content = rts[rec.snap.spec.tmpl], !.sel = selected]
    BY <1>13, ZenonT(30) DEF Stamp, GetRunTemplate, FailWith, api, manager
  <2>2. CASE pc' = "ensure"
    <3>1. RecTyped(rec, DOMAIN runs, Succeeded) /\ rec' = [rec EXCEPT !.content = rts[rec.snap.spec.tmpl], !.sel = selected]
      BY <2>1, <2>2 DEF Types, RecTypes
    <3>2. rec'.snap = rec.snap /\ rec'.sel = selected /\ rec'.content = rts[rec.snap.spec.tmpl]
      BY <3>1 DEF RecTyped
    <3>3. NextGen' = NextGen /\ NextSpec' = NextSpec /\ NextContent' = NextContent /\ Behind' = Behind
      BY <2>1, <2>2, <3>2 DEF NextGen, NextSpec, NextContent, Wanted, Behind, Reading, Changes
    <3> QED BY <1>f, <2>1, <3>3
  <2>3. CASE pc' = "update"
    BY <1>11, <2>1, <2>3 DEF Reading
  <2> QED BY <2>1, <2>2, <2>3
<1>14. CASE EnsureImmutableObject
  <2> DEFINE spec == SpecOf(rec.snap.spec, rec.sel, rec.content)
             hits == Hits(submitted[KeyOf[rec.snap.spec.tmpl]], spec, runs, Kept)
  <2>1. /\ pc = "ensure" /\ UNCHANGED <<rn, cache, selected, rts>> /\ pc' \in {"list", "update"}
        /\ spec.tmpl = rec.snap.spec.tmpl
    BY <1>14, ZenonT(30) DEF EnsureImmutableObject, FailWith, SpecOf, api, manager
  <2>2. \/ UNCHANGED <<runs, submitted, causes>>
        \/ hits = {} /\ Len(runs) < MaxRuns /\ Created(spec) /\ CacheSet(spec) /\ causes' = causes
        \/ hits = {} /\ Len(runs) < MaxRuns /\ Created(spec) /\ causes' = causes + 1
    BY <1>14, <2>1, ZenonT(30) DEF EnsureImmutableObject, Cause, api, manager, history
  <2>3. Reading /\ ~Reading'
    BY <2>1 DEF Reading
  <2>4. /\ Debt' \in Nat
        /\ \/ NextSpec' = NextSpec /\ Debt' = Debt
           \/ ~Stampable(NextContent') /\ Debt' = Debt
           \/ Debt' + 1 <= Debt
    BY <2>1, <2>3, LeavesReading
  <2>5. CASE UNCHANGED <<runs, submitted, causes>>
    BY <1>11, <2>1, <2>3, <2>5
  <2>6. CASE hits = {} /\ Len(runs) < MaxRuns /\ Created(spec)
    <3>1. Open = 1
      BY <2>1, <2>6, ServedHits
    <3>2. Len(runs') = Len(runs) + 1
      <4>1. spec \in RunSpecs
        BY <2>1, SpecOfIsRunSpec
      <4> HIDE DEF spec, hits
      <4> QED BY <1>g, <2>6, <4>1, OneMoreRun
    <3>3. CASE causes' = causes + 1
      <4>1. Debt' <= Debt
        BY <1>b, <2>4, Balance
      <4>2. (Len(runs) + 1) + Debt' + Open' <= causes + 1
        BY <1>b, <2>4, <3>1, <4>1, Balance
      <4> QED BY <3>2, <3>3, <4>2
    <3>4. CASE causes' = causes /\ CacheSet(spec)
      <4>1. Debt' + 1 <= Debt \/ (Debt' = Debt /\ Open' = 0)
        <5>1. NextSpec' = NextSpec => Served'
          BY <2>1, <2>6, <3>4, NewRunServes
        <5> QED BY <2>4, <5>1 DEF Open
      <4>2. causes' = causes
        BY <3>4
      <4>3. (Len(runs) + 1) + Debt' + Open' <= causes
        BY <1>b, <2>4, <3>1, <4>1, Balance
      <4> QED BY <3>2, <4>2, <4>3
    <3> QED BY <1>a, <2>2, <2>5, <2>6, <3>3, <3>4
  <2> QED BY <2>2, <2>5, <2>6
\* The rest of the reconciliation.
<1>15. ASSUME ~Reading, ~Reading', UNCHANGED <<cache, selected, rts, runs, submitted, causes>>, rn'.gen = rn.gen
       PROVE  Goal
  <2>1. NextGen' = NextGen /\ NextSpec' = NextSpec /\ NextContent' = NextContent /\ Behind' = Behind
    BY <1>15 DEF NextGen, NextSpec, NextContent, Wanted, Behind, Reading
  <2> QED BY <1>f, <1>15, <2>1
<1>16. CASE ListRuns \/ WatchRuns \/ StatusUpdateFails \/ StatusUnchanged
  <2>1. /\ pc \in {"list", "gc", "update"} /\ pc' \in {"gc", "update", "idle"}
        /\ UNCHANGED <<rn, cache, selected, rts, runs, submitted, causes>>
    BY <1>16, ZenonT(30) DEF ListRuns, WatchRuns, StatusUpdateFails, StatusUnchanged, EndOfReconcile, api, manager, history
  <2> QED BY <1>15, <2>1 DEF Reading
<1>17. CASE StatusUpdated
  <2>1. /\ pc = "update" /\ pc' = "idle" /\ UNCHANGED <<cache, selected, rts, runs, submitted, causes>>
        /\ rn' = [rn EXCEPT !.status = NewStatus]
    BY <1>17 DEF StatusUpdated, EndOfReconcile, history
  <2>2. rn'.gen = rn.gen
    BY <1>g, <2>1 DEF Typed
  <2> QED BY <1>15, <2>1, <2>2 DEF Reading
<1>18. ASSUME NEW i \in DOMAIN runs, DeleteRun(i) PROVE Goal
  <2>1. /\ pc = "gc" /\ pc' = pc /\ UNCHANGED <<rn, cache, selected, rts, submitted>>
        /\ \/ UNCHANGED <<runs, causes>>
           \/ /\ runs[i].fate = "kept" /\ runs' = [runs EXCEPT ![i].fate = "retired"]
              /\ causes' = IF Tied(i) THEN causes + 1 ELSE causes
    BY <1>18 DEF DeleteRun, history
  <2>2. CASE UNCHANGED <<runs, causes>>
    BY <1>15, <2>1, <2>2 DEF Reading
  <2>3. CASE /\ runs[i].fate = "kept" /\ runs' = [runs EXCEPT ![i].fate = "retired"]
             /\ causes' = IF Tied(i) THEN causes + 1 ELSE causes
    <3>1. Len(runs') = Len(runs) /\ \A j \in DOMAIN runs \ {i} : runs'[j] = runs[j]
      BY <1>g, <2>3 DEF RunsTyped
    <3>2. NextGen' = NextGen /\ NextSpec' = NextSpec /\ NextContent' = NextContent /\ Behind' = Behind
      BY <2>1 DEF NextGen, NextSpec, NextContent, Wanted, Behind, Reading
    <3>3. Debt' = Debt
      BY <1>e, <2>1, <3>2
    <3>4. CASE i = Len(runs)
      <4>1. Tied(i)
        BY <1>g, <3>4, RunsFacts DEF Tied, Labelled, Kept, RunsOrdered
      <4> QED BY <1>a, <1>b, <1>c, <2>3, <3>1, <3>3, <4>1
    <3>5. CASE i # Len(runs)
      <4>1. Len(runs) \in DOMAIN runs \ {i}
        BY <1>g, <3>5, RunsFacts
      <4>2. runs' # <<>>
        BY <1>g, <3>1, <4>1, RunsFacts
      <4>3. Served => Served'
        BY <2>1, <3>1, <3>2, <4>1, <4>2, ServedStays
      <4>4. Open' <= Open
        BY <1>d, <3>2, <4>3
      <4> QED BY <1>a, <1>b, <1>c, <2>3, <3>1, <3>3, <4>4
    <3> QED BY <3>4, <3>5
  <2> QED BY <2>1, <2>2, <2>3
<1> HIDE DEF Goal
<1>19. Goal
  BY <1>1, <1>2, <1>4, <1>t, <1>5, <1>6, <1>7, <1>8, <1>9, <1>10, <1>12, <1>13, <1>14, <1>16, <1>17, <1>18
     DEF Next, Environment, Runtime, Reconcile, Goal
<1> QED BY <1>19 DEF Goal
-----------------------------------------------------------------------------
(* A runnable that has just been created, and a controller that has just    *)
(* been started.                                                            *)
LEMMA InitInv == ASSUME Init PROVE IInv
<1>1. RunsTyped /\ RunsOrdered
  BY InstanceAssumption DEF Init, RunsTyped, RunsOrdered
<1>2. Typed(rn, Succeeded)
  BY InstanceAssumption DEF Init, Typed, NoStatus
<1>3. cache = [rn EXCEPT !.exists = FALSE]
  BY DEF Init
<1>4. Typed(cache, Succeeded) /\ cache.gen = rn.gen /\ cache.spec = rn.spec
  BY <1>2, <1>3 DEF Typed
<1>5. rn.gen = 1
  BY DEF Init
<1>6. OwnerTypes
  BY <1>2, <1>4, <1>5 DEF OwnerTypes, Once, Init
<1>7. pc = "idle" /\ rec = None /\ ~synced /\ runs = <<>> /\ causes = 1
  BY DEF Init
<1>8. RecTypes /\ DoomedHaveHeirs /\ OutputIsNewest
  BY <1>7 DEF RecTypes, DoomedHaveHeirs, OutputIsNewest
<1>9. OtherTypes
  BY InstanceAssumption DEF Init, OtherTypes
<1>10. Versions
  BY <1>4, <1>5, <1>7 DEF Versions, NotNewer
<1>11. Paid
  <2>1. Debt = 0 /\ Open \in {0, 1}
    BY <1>4, <1>5, <1>7 DEF Debt, Open, NextGen, Reading, Behind
  <2> QED BY <1>7, <2>1 DEF Paid
<1> QED BY <1>1, <1>6, <1>8, <1>9, <1>10, <1>11 DEF IInv, Types

(* Every step keeps the invariant.                                          *)
LEMMA NextInv == ASSUME IInv, [Next]_vars PROVE IInv'
<1>1. Types'
  BY RunsStep, OwnerTypesStep, RecTypesStep, OtherTypesStep DEF IInv, Types
<1>2. Versions' /\ DoomedHaveHeirs' /\ OutputIsNewest'
  BY VersionsStep, DoomedStep, OutputStep DEF IInv
<1>3. Paid'
  BY DebtStep DEF IInv, Paid
<1> QED BY <1>1, <1>2, <1>3 DEF IInv

(* The invariant holds in every reachable state.                            *)
LEMMA Invariant == Spec => []IInv
<1>1. Init => IInv
  BY InitInv
<1>2. IInv /\ [Next]_vars => IInv'
  BY NextInv
<1> QED BY <1>1, <1>2, PTL DEF Spec

(* The fields of the runnable, the runs, the caches, the work queue and the *)
(* reconciliation of the runnable reconciler always have their types.       *)
THEOREM TypesAreCorrect == Spec => []TypeOK
<1>1. ASSUME IInv PROVE TypeOK
  <2>1. Types /\ RunsTyped /\ OwnerTypes /\ RecTypes /\ OtherTypes
    BY <1>1 DEF IInv, Types
  <2>2. DOMAIN runs \subseteq RunIds /\ Succeeded \subseteq DOMAIN runs
    BY <2>1, RunsFacts DEF Succeeded
  <2>3. \A r : Typed(r, Succeeded) => IsRunnable(r)
    BY <2>2 DEF Typed, IsRunnable
  <2>4. IsRunnable(rn) /\ IsRunnable(cache)
    BY <2>1, <2>3 DEF OwnerTypes
  <2>5. /\ Len(runs) <= MaxRuns
        /\ \A i \in DOMAIN runs :
              /\ runs[i].spec \in RunSpecs /\ runs[i].edited \in BOOLEAN
              /\ runs[i].created \in 1..MaxRuns /\ runs[i].health \in Health
              /\ runs[i].fate \in {"kept", "retired", "discarded"}
    <3>1. \A r \in Runs : /\ r.spec \in RunSpecs /\ r.edited \in BOOLEAN
                          /\ r.created \in 1..MaxRuns /\ r.health \in Health
                          /\ r.fate \in {"kept", "retired", "discarded"}
      BY DEF Runs
    <3> QED BY <2>1, <3>1, RunsFacts DEF RunsTyped
  <2>6. pc # "idle" =>
          /\ IsRunnable(rec.snap) /\ rec.content \in Contents \cup {None}
          /\ rec.run \in RunIds \cup {None} /\ rec.doomed \subseteq DOMAIN runs
          /\ rec.out \in DOMAIN runs \cup {None}
    BY <2>1, <2>2, <2>3 DEF RecTypes, RecTyped
  <2> QED BY <2>1, <2>4, <2>5, <2>6 DEF TypeOK, RecTypes, OtherTypes
<1>2. IInv => TypeOK
  BY <1>1
<1> QED BY <1>2, Invariant, PTL

(* Every run that EnsureImmutableObjectExistsOnCluster creates was called   *)
(* for: the runs are never more than the edits of the runnable, of what the *)
(* templates stamp and of the selected object, the runs that users edited   *)
(* or deleted, the restarts, the create calls whose answer was lost and the *)
(* ties of the cleanup.                                                     *)
THEOREM EveryRunIsCalledFor == Spec => []RunsAreExplained
<1>1. ASSUME IInv PROVE RunsAreExplained
  <2>1. Debt \in Nat /\ Open \in {0, 1} /\ Len(runs) \in Nat /\ causes \in Nat
    BY <1>1, GenRanges DEF IInv
  <2>2. Len(runs) + Debt + Open <= causes
    BY <1>1 DEF IInv, Paid
  <2> QED BY <2>1, <2>2 DEF RunsAreExplained
<1>2. IInv => RunsAreExplained
  BY <1>1
<1> QED BY <1>2, Invariant, PTL
-----------------------------------------------------------------------------
(* The runs as RunLedger sees them.                                         *)
Entry(run) == [tmpl |-> run.spec.tmpl, created |-> run.created, end |-> run.health, fate |-> run.fate]
LedgerOf(rs) == [i \in DOMAIN rs |-> Entry(rs[i])]

(* A step that changes only what RunLedger does not see of the runs.        *)
LEMMA LedgerSame ==
    ASSUME DOMAIN runs' = DOMAIN runs, \A i \in DOMAIN runs : Entry(runs'[i]) = Entry(runs[i])
    PROVE  LedgerOf(runs') = LedgerOf(runs)
BY DEF LedgerOf

(* A change of one run is a change of its entry.                            *)
LEMMA LedgerChange ==
    ASSUME NEW i \in DOMAIN runs, NEW y, DOMAIN runs' = DOMAIN runs,
           \A j \in DOMAIN runs : runs'[j] = IF j = i THEN y ELSE runs[j]
    PROVE  LedgerOf(runs') = [LedgerOf(runs) EXCEPT ![i] = Entry(y)]
BY DEF LedgerOf

(* The step of RunLedger that each step of the runnable implements.         *)
LEMMA LedgerStep ==
    ASSUME IInv, [Next]_vars
    PROVE  [Ledger!Next]_<<LedgerOf(runs), rn.status.out>>
<1> DEFINE L == LedgerOf(runs)
           Goal == Ledger!Next \/ (LedgerOf(runs') = L /\ rn'.status.out = rn.status.out)
<1>a. /\ Types /\ RunsTyped /\ RunsOrdered /\ Typed(rn, Succeeded)
      /\ Len(runs) \in Nat /\ DOMAIN runs = 1..Len(runs)
      /\ DOMAIN L = DOMAIN runs /\ \A i \in DOMAIN runs : L[i] = Entry(runs[i])
  BY RunsFacts DEF IInv, Types, OwnerTypes, LedgerOf
<1>b. \A i \in DOMAIN runs : /\ L[i].tmpl = runs[i].spec.tmpl /\ L[i].created = runs[i].created
                             /\ L[i].end = runs[i].health /\ L[i].fate = runs[i].fate
  BY <1>a DEF Entry
<1>c. WritesOwner \/ rn' = rn
  BY Writers
<1>1. CASE UNCHANGED runs /\ rn'.status.out = rn.status.out
  BY <1>1
\* The output of the status.
<1>2. CASE (\E s \in Specs : EditRunnable(s)) \/ DeleteRunnable
  <2>1. runs' = runs
    BY <1>2, ZenonT(30) DEF EditRunnable, DeleteRunnable
  <2>2. ASSUME NEW s \in Specs, EditRunnable(s) PROVE rn'.status = rn.status
    <3>1. rn' = [rn EXCEPT !.gen = @ + 1, !.spec = s]
      BY <2>2 DEF EditRunnable, NewVersion
    <3> QED BY <1>a, <3>1 DEF Typed
  <2>3. CASE DeleteRunnable
    <3>1. rn' = [rn EXCEPT !.exists = FALSE]
      BY <2>3 DEF DeleteRunnable, NewVersion
    <3>2. rn'.status = rn.status
      BY <1>a, <3>1 DEF Typed
    <3> QED BY <2>1, <3>2
  <2> QED BY <1>2, <2>1, <2>2, <2>3
<1>3. CASE StatusUpdated
  <2>1. /\ pc = "update" /\ rec.fresh /\ UNCHANGED runs
        /\ rn' = [rn EXCEPT !.status = NewStatus]
    BY <1>3 DEF StatusUpdated
  <2>2. rn'.status.out = rec.out
    BY <1>a, <2>1 DEF Typed, NewStatus
  <2>3. rec.snap = rn
    BY <2>1 DEF IInv, Versions
  <2>4. rec.out \in {None, rn.status.out} \/ NoNewer(rn.status.out, rec.out)
    BY <2>1, <2>3 DEF IInv, OutputIsNewest
  <2>5. rec.out \in Succeeded \cup {None} /\ rn.status.out \in Succeeded \cup {None}
    BY <1>a, <2>1 DEF Types, RecTypes, RecTyped, Typed
  <2>6. CASE rec.out = rn.status.out
    BY <2>1, <2>2, <2>6
  <2>7. CASE rec.out = None
    <3>1. Ledger!Withdraw
      BY <2>1, <2>2, <2>7 DEF Ledger!Withdraw
    <3> QED BY <3>1 DEF Ledger!Next
  <2>8. CASE rec.out # None /\ NoNewer(rn.status.out, rec.out)
    <3>1. rec.out \in DOMAIN runs /\ L[rec.out].end = "True"
      BY <1>b, <2>5, <2>8 DEF Succeeded
    <3>2. rn.status.out # None =>
             \/ L[rn.status.out].fate # "kept"
             \/ L[rn.status.out].tmpl # L[rec.out].tmpl
             \/ L[rn.status.out].created <= L[rec.out].created
      BY <1>b, <2>5, <2>8 DEF Succeeded, NoNewer
    <3>3. Ledger!Publish(rec.out)
      BY <2>1, <2>2, <3>1, <3>2 DEF Ledger!Publish, Ledger!Present, LedgerOf, Entry
    <3> QED BY <1>a, <3>1, <3>3 DEF Ledger!Next, LedgerOf, Entry
  <2> QED BY <2>4, <2>6, <2>7, <2>8
\* The runs.
<1>4. ASSUME NEW i \in DOMAIN runs, EditRun(i) PROVE Goal
  <2> DEFINE y == [runs[i] EXCEPT !.edited = TRUE]
  <2>1. runs' = [runs EXCEPT ![i] = y] /\ UNCHANGED rn
    BY <1>4 DEF EditRun
  <2>2. Entry(y) = Entry(runs[i])
    BY <1>a, RunsFacts DEF Runs, Entry
  <2> HIDE DEF y
  <2>3. DOMAIN runs' = DOMAIN runs /\ \A j \in DOMAIN runs : runs'[j] = IF j = i THEN y ELSE runs[j]
    BY <1>a, <2>1 DEF RunsTyped
  <2>4. LedgerOf(runs') = L
    BY <2>2, <2>3, LedgerSame
  <2> QED BY <2>1, <2>4
<1>5. ASSUME NEW i \in DOMAIN runs, NEW s \in {"True", "False"}, RunEnds(i, s) PROVE Ledger!Finish(i, s)
  <2> DEFINE y == [runs[i] EXCEPT !.health = s]
  <2>1. /\ runs' = [runs EXCEPT ![i] = y] /\ UNCHANGED rn
        /\ runs[i].fate = "kept" /\ runs[i].health = "Unknown"
    BY <1>5 DEF RunEnds, Kept
  <2>2. Entry(y) = [Entry(runs[i]) EXCEPT !.end = s]
    BY <1>a, RunsFacts DEF Runs, Entry
  <2> HIDE DEF y
  <2>3. DOMAIN runs' = DOMAIN runs /\ \A j \in DOMAIN runs : runs'[j] = IF j = i THEN y ELSE runs[j]
    BY <1>a, <2>1 DEF RunsTyped
  <2>4. LedgerOf(runs') = [L EXCEPT ![i].end = s]
    BY <1>a, <2>2, <2>3, LedgerChange
  <2>5. L[i].fate = "kept" /\ L[i].end = "Unknown"
    BY <1>b, <2>1
  <2> QED BY <2>1, <2>4, <2>5 DEF Ledger!Finish, Ledger!Present, LedgerOf, Entry
<1>6. ASSUME NEW i \in DOMAIN runs, NEW fate \in {"retired", "discarded"}, runs[i].fate = "kept",
             runs' = [runs EXCEPT ![i].fate = fate]
      PROVE  LedgerOf(runs') = [L EXCEPT ![i].fate = fate]
  <2> DEFINE y == [runs[i] EXCEPT !.fate = fate]
  <2>1. runs' = [runs EXCEPT ![i] = y]
    BY <1>6
  <2>2. Entry(y) = [Entry(runs[i]) EXCEPT !.fate = fate]
    BY <1>a, RunsFacts DEF Runs, Entry
  <2> HIDE DEF y
  <2>3. DOMAIN runs' = DOMAIN runs /\ \A j \in DOMAIN runs : runs'[j] = IF j = i THEN y ELSE runs[j]
    BY <1>a, <2>1 DEF RunsTyped
  <2> QED BY <1>a, <2>2, <2>3, LedgerChange
<1>7. ASSUME NEW i \in DOMAIN runs, RemoveRun(i) PROVE Ledger!Discard(i)
  <2>1. runs[i].fate = "kept" /\ runs' = [runs EXCEPT ![i].fate = "discarded"] /\ UNCHANGED rn
    BY <1>7 DEF RemoveRun, Kept
  <2>2. LedgerOf(runs') = [L EXCEPT ![i].fate = "discarded"] /\ L[i].fate = "kept"
    BY <1>6, <1>b, <2>1
  <2> QED BY <2>1, <2>2 DEF Ledger!Discard, Ledger!Present, LedgerOf, Entry
<1>8. ASSUME NEW i \in DOMAIN runs, DeleteRun(i) PROVE Ledger!Retire(i) \/ UNCHANGED <<runs, rn>>
  <2>1. /\ pc = "gc" /\ i \in rec.doomed /\ UNCHANGED rn
        /\ \/ UNCHANGED runs
           \/ runs[i].fate = "kept" /\ runs' = [runs EXCEPT ![i].fate = "retired"]
    BY <1>8 DEF DeleteRun
  <2>2. CASE runs[i].fate = "kept" /\ runs' = [runs EXCEPT ![i].fate = "retired"]
    <3>1. LedgerOf(runs') = [L EXCEPT ![i].fate = "retired"] /\ L[i].fate = "kept"
      BY <1>6, <1>b, <2>2
    <3>2. /\ runs[i].health # "Unknown"
          /\ \E j \in DOMAIN runs \ {i} : /\ runs[j].spec.tmpl = runs[i].spec.tmpl
                                          /\ runs[j].health = runs[i].health
                                          /\ runs[j].created >= runs[i].created
                                          /\ runs[j].fate # "retired"
      BY <2>1 DEF IInv, DoomedHaveHeirs
    <3>3. /\ L[i].end # "Unknown"
          /\ \E j \in DOMAIN L \ {i} : /\ L[j].tmpl = L[i].tmpl /\ L[j].end = L[i].end
                                       /\ L[j].created >= L[i].created /\ L[j].fate # "retired"
      BY <1>a, <1>b, <3>2
    <3> QED BY <2>1, <3>1, <3>3 DEF Ledger!Retire, Ledger!Present, LedgerOf, Entry
  <2> QED BY <2>1, <2>2
<1>9. ASSUME EnsureImmutableObject
      PROVE  UNCHANGED <<runs, rn>> \/ \E t \in RunTemplates, when \in 1..MaxRuns : Ledger!Start(t, when)
  <2> DEFINE spec == SpecOf(rec.snap.spec, rec.sel, rec.content)
  <2>1. rn' = rn /\ pc = "ensure" /\ (runs' = runs \/ (Len(runs) < MaxRuns /\ Created(spec)))
    BY <1>9, ZenonT(30) DEF EnsureImmutableObject, api
  <2>2. CASE Len(runs) < MaxRuns /\ Created(spec)
    <3>1. spec \in RunSpecs
      BY <1>a, <2>1, SpecOfIsRunSpec
    <3> HIDE DEF spec
    <3>2. spec.tmpl \in RunTemplates
      BY <3>1 DEF RunSpecs
    <3>3. PICK when \in 1..MaxRuns :
             /\ \A i \in DOMAIN runs : runs[i].created <= when
             /\ runs'[Len(runs')] = [spec |-> spec, edited |-> FALSE, created |-> when,
                                     health |-> "Unknown", fate |-> "kept"]
      BY <1>a, <2>2, <3>1, OneMoreRun
    <3>4. /\ Len(runs') = Len(runs) + 1 /\ \A i \in DOMAIN runs : runs'[i] = runs[i]
          /\ DOMAIN runs' = DOMAIN runs \cup {Len(runs')}
      BY <1>a, <2>2, <3>1, OneMoreRun
    <3> DEFINE e == [tmpl |-> spec.tmpl, created |-> when, end |-> "Unknown", fate |-> "kept"]
    <3>5. Entry(runs'[Len(runs')]) = e
      BY <3>3 DEF Entry
    <3>6. \A i \in DOMAIN L : L[i].created <= when
      BY <1>a, <1>b, <3>3
    <3>7. LedgerOf(runs') = Append(L, e)
      <4> DEFINE M == LedgerOf(runs')
                 S == {L[i] : i \in DOMAIN runs} \cup {e}
      <4>1. DOMAIN M = 1..Len(runs) + 1 /\ M[Len(runs) + 1] = e /\ \A i \in DOMAIN runs : M[i] = L[i]
        BY <1>a, <3>4, <3>5 DEF LedgerOf
      <4>2. L \in Seq(S) /\ Len(L) = Len(runs)
        BY <1>a DEF LedgerOf
      <4>3. M \in Seq(S) /\ Len(M) = Len(runs) + 1
        <5>1. \A i \in 1..Len(runs) + 1 : i \in DOMAIN runs \/ i = Len(runs) + 1
          BY <1>a
        <5>2. \A i \in 1..Len(runs) + 1 : M[i] \in S
          BY <4>1, <5>1
        <5>3. M \in [1..Len(runs) + 1 -> S]
          BY <4>1, <5>2 DEF LedgerOf
        <5> HIDE DEF M, S
        <5>4. M \in Seq(S)
          BY <1>a, <5>3, SeqDef
        <5> QED BY <1>a, <4>1, <5>4, LenProperties
      <4>4. e \in S
        OBVIOUS
      <4> HIDE DEF M, L, e, S
      <4>5. /\ Append(L, e) \in Seq(S) /\ Len(Append(L, e)) = Len(runs) + 1
            /\ Append(L, e)[Len(runs) + 1] = e /\ \A i \in 1..Len(runs) : Append(L, e)[i] = L[i]
        BY <4>2, <4>4, AppendProperties
      <4>6. \A i \in 1..Len(runs) + 1 : M[i] = Append(L, e)[i]
        <5>1. \A i \in 1..Len(runs) + 1 : i \in 1..Len(runs) \/ i = Len(runs) + 1
          BY <1>a
        <5> QED BY <1>a, <4>1, <4>5, <5>1
      <4>7. M = Append(L, e)
        BY <4>3, <4>5, <4>6, SeqEqual
      <4> QED BY <4>7 DEF M
    <3>8. Ledger!Start(spec.tmpl, when)
      BY <2>1, <3>6, <3>7 DEF Ledger!Start, LedgerOf, Entry
    <3> QED BY <3>2, <3>8
  <2> QED BY <2>1, <2>2
<1>10. ASSUME NEW i \in DOMAIN runs,
              \/ Ledger!Retire(i) \/ Ledger!Discard(i)
              \/ \E s \in {"True", "False"} : Ledger!Finish(i, s)
       PROVE  Goal
  BY <1>a, <1>10 DEF Ledger!Next, LedgerOf, Entry
<1>11. CASE WritesRuns
  <2>1. CASE EnsureImmutableObject
    BY <1>9, <2>1 DEF Ledger!Next
  <2>2. ASSUME NEW i \in DOMAIN runs, DeleteRun(i) PROVE Goal
    BY <1>8, <1>10, <2>2
  <2> HIDE DEF Goal
  <2>3. Goal
    BY <1>4, <1>5, <1>7, <1>10, <1>11, <2>1, <2>2 DEF WritesRuns, Goal
  <2> QED BY <2>3 DEF Goal
<1> QED BY <1>1, <1>2, <1>3, <1>11, Writers DEF WritesOwner

(* The runnable reconciler implements RunLedger: its garbage collection     *)
(* retires only ended runs with an heir that it does not retire, and        *)
(* Realize publishes only the outputs of successes, never an older one for  *)
(* a newer one that is there.                                               *)
THEOREM LedgerIsKept == Spec => KeepsLedger
<1>1. Init => Ledger!Init
  <2> SUFFICES ASSUME Init PROVE Ledger!Init
    OBVIOUS
  <2>1. runs = <<>> /\ rn.status.out = None
    BY DEF Init, NoStatus
  <2>2. LedgerOf(runs) = <<>>
    BY <2>1 DEF LedgerOf
  <2> QED BY <2>1, <2>2 DEF Ledger!Init, LedgerOf, Entry
<1>2. IInv /\ [Next]_vars =>
        [Ledger!Next]_<<[i \in DOMAIN runs |->
                            [tmpl |-> runs[i].spec.tmpl, created |-> runs[i].created,
                             end |-> runs[i].health, fate |-> runs[i].fate]], rn.status.out>>
  BY LedgerStep DEF LedgerOf, Entry
<1> QED BY <1>1, <1>2, Invariant, PTL DEF Spec, KeepsLedger, Ledger!Spec
-----------------------------------------------------------------------------
(* Nothing is about to call for another reconciliation, nothing excuses the *)
(* runnable, and it can be realized.                                        *)
Quiet ==
    /\ ~queue /\ synced /\ rn.exists /\ events \cap tracked = {}
    /\ excused \subseteq {"deletion"} /\ Realizable

(* The run for the spec is there.                                           *)
Serving ==
    \E i \in Kept : runs[i].spec = SpecOf(rn.spec, selected, rts[rn.spec.tmpl]) /\ ~runs[i].edited

(* What the template's content makes of the runs.                           *)
Reported(content, reason, out) ==
    /\ reason = IF content.kind = "badPath" /\ Successes # {} THEN "OutputPathNotSatisfied" ELSE "Ready"
    /\ content.kind = "good" /\ Successes # {} => out \in Successes

(* The retention policy holds without the runs that are still to be deleted.*)
Tidy(doomed) ==
    excused = {} =>
        /\ Cardinality(WithHealth(runs, Labelled(rn.spec.tmpl), "True") \ doomed) <= MaxSuccessfulRuns
        /\ Cardinality(WithHealth(runs, Labelled(rn.spec.tmpl), "False") \ doomed) <= MaxFailedRuns

UpToDate(reason, out, doomed) ==
    Serving /\ Reported(rts[rn.spec.tmpl], reason, out) /\ Tidy(doomed)

(* A reconciliation that nothing in the queue will follow works with the    *)
(* informer's copy, and tracks what it reads.                               *)
Follows ==
    /\ pc # "idle" /\ ~queue => rec.snap = cache
    /\ pc \notin {"idle", "account"} => tracked = {SA, rec.snap.spec.tmpl}
    /\ pc = "idle" /\ ~queue /\ cache.exists => tracked = {SA, cache.spec.tmpl}

(* What a reconciliation has found out is still so, unless another one will *)
(* follow.  As long as the kind of the runs is not watched, nothing is      *)
(* known of them but that one is left, with which the watch will start.     *)
Current ==
    Quiet =>
        /\ pc \in {"ensure", "list"} => rec.content = rts[rn.spec.tmpl]
        /\ pc = "ensure" => rec.sel = selected
        /\ pc = "list" => IF watching THEN Serving ELSE Labelled(rn.spec.tmpl) # {}
        /\ pc = "gc" /\ ~rec.requeue => IF watching THEN UpToDate(rec.reason, rec.out, rec.doomed)
                                                     ELSE ~(Kept \subseteq rec.doomed)
        /\ pc = "update" /\ ~rec.requeue => watching /\ UpToDate(rec.reason, rec.out, {})
        /\ pc = "idle" => /\ watching /\ rn.status.gen = rn.gen
                          /\ UpToDate(rn.status.reason, rn.status.out, {})
-----------------------------------------------------------------------------
(* A step keeps the tracking in line with what is read: trackDependencies   *)
(* comes before the first read, and a new version of the runnable is        *)
(* enqueued.                                                                *)
LEMMA FollowsStep ==
    ASSUME IInv, Follows, [Next]_vars
    PROVE  Follows'
<1>a. /\ queue \in BOOLEAN /\ pc \in Steps \cup {"idle"}
      /\ pc # "idle" => RecTyped(rec, DOMAIN runs, Succeeded)
  BY DEF IInv, Types, OtherTypes, RecTypes
<1>1. CASE Environment
  <2>1. /\ pc' = pc /\ cache' = cache /\ tracked' = tracked /\ (~queue' => ~queue)
        /\ rec' = rec \/ rec' = (IF pc = "idle" THEN None ELSE [rec EXCEPT !.fresh = FALSE])
    BY <1>1, <1>a DEF Environment, EditRunnable, DeleteRunnable, EditTemplate, EditAccount, EditSelected, EditRun,
       RemoveRun, RunEnds, NewVersion, RunEvent, manager
  <2>2. pc # "idle" => rec'.snap = rec.snap
    BY <1>a, <2>1 DEF RecTyped
  <2> QED BY <2>1, <2>2 DEF Follows
<1>2. CASE DeliverOwner \/ Resync \/ \E k \in events : DeliverEvent(k)
  <2>1. pc' = pc /\ rec' = rec /\ tracked' = tracked /\ (~queue' => ~queue /\ cache' = cache)
    BY <1>2 DEF DeliverOwner, Resync, DeliverEvent
  <2> QED BY <2>1 DEF Follows
<1>3. CASE Restart
  <2>1. pc' = "idle" /\ cache' = rn /\ queue' = rn.exists
    BY <1>3 DEF Restart
  <2> QED BY <2>1 DEF Follows
<1>4. CASE GetRunnableFails
  BY <1>4 DEF GetRunnableFails, manager, Follows
<1>5. CASE RunnableGone
  BY <1>5 DEF RunnableGone, Follows
<1>6. CASE GetRunnable
  <2>1. pc' = "account" /\ rec'.snap = cache /\ cache' = cache
    BY <1>6 DEF GetRunnable
  <2> QED BY <2>1 DEF Follows
<1>7. CASE GetServiceAccount
  <2>1. /\ pc = "account" /\ pc' \in {"update", "stamp"} /\ tracked' = {SA, rec.snap.spec.tmpl}
        /\ queue' = queue /\ cache' = cache
        /\ \/ rec' = rec
           \/ \E reason, early, requeue :
                 rec' = [rec EXCEPT !.reason = reason, !.early = early, !.requeue = requeue]
    BY <1>7 DEF GetServiceAccount, TrackDependencies, FailWith
  <2>2. rec'.snap = rec.snap
    BY <1>a, <2>1 DEF RecTyped
  <2> QED BY <2>1, <2>2 DEF Follows
<1>8. CASE \/ Stamp \/ EnsureImmutableObject \/ ListRuns \/ WatchRuns
           \/ \E i \in DOMAIN runs : DeleteRun(i)
  <2>1. /\ pc \notin {"idle", "account"} /\ pc' \notin {"idle", "account"}
        /\ tracked' = tracked /\ cache' = cache
    BY <1>8 DEF Stamp, EnsureImmutableObject, ListRuns, WatchRuns, DeleteRun, FailWith, manager
  <2>2. ~queue' => ~queue
    BY <1>8, <1>a DEF Stamp, EnsureImmutableObject, ListRuns, WatchRuns, DeleteRun, RunEvent, manager
  <2>3. rec'.snap = rec.snap
    <3>1. RecTyped(rec, DOMAIN runs, Succeeded)
      BY <1>a, <2>1
    <3>2. CASE Stamp
      BY <3>1, <3>2 DEF Stamp, FailWith, RecTyped
    <3>3. CASE EnsureImmutableObject
      BY <3>1, <3>3 DEF EnsureImmutableObject, FailWith, RecTyped
    <3>4. CASE ListRuns
      BY <3>1, <3>4 DEF ListRuns, RecTyped
    <3>5. CASE WatchRuns \/ \E i \in DOMAIN runs : DeleteRun(i)
      BY <3>1, <3>5 DEF WatchRuns, DeleteRun, RecTyped
    <3> QED BY <1>8, <3>2, <3>3, <3>4, <3>5
  <2> QED BY <2>1, <2>2, <2>3 DEF Follows
<1>9. CASE StatusUpdated \/ StatusUpdateFails \/ StatusUnchanged
  <2>1. /\ pc = "update" /\ pc' = "idle" /\ tracked' = tracked /\ cache' = cache
        /\ ~queue' => ~queue
    BY <1>9, <1>a DEF StatusUpdated, StatusUpdateFails, StatusUnchanged, EndOfReconcile
  <2> QED BY <2>1 DEF Follows
<1>10. CASE UNCHANGED vars
  BY <1>10 DEF vars, manager, Follows
<1> QED BY <1>1, <1>2, <1>3, <1>4, <1>5, <1>6, <1>7, <1>8, <1>9, <1>10 DEF Next, Runtime, Reconcile
-----------------------------------------------------------------------------
(* In a state without a reconciliation to come, the account and the         *)
(* template of the runnable as it is now are tracked, and the               *)
(* reconciliation that is under way works with it.                          *)
LEMMA Tracks ==
    ASSUME IInv, Follows, ~queue, synced, rn.exists
    PROVE  /\ pc # "account" => tracked = {SA, rn.spec.tmpl}
           /\ pc # "idle" => rec.snap = rn
<1>1. cache = rn
  BY DEF IInv, Versions
<1> QED BY <1>1 DEF Follows

(* What is up to date stays so as long as nothing of it changes; one more   *)
(* failed deletion excuses the retention policy.                            *)
LEMMA UpToDateStays ==
    ASSUME rn' = rn, runs' = runs, rts'[rn.spec.tmpl] = rts[rn.spec.tmpl], selected' = selected,
           excused \subseteq excused',
           NEW CONSTANT reason, NEW CONSTANT out, NEW CONSTANT doomed
    PROVE  /\ Serving => Serving'
           /\ UpToDate(reason, out, doomed) => UpToDate(reason, out, doomed)'
<1>1. Kept' = Kept
  BY DEF Kept
<1>2. Serving => Serving'
  BY <1>1 DEF Serving
<1>3. Labelled(rn.spec.tmpl)' = Labelled(rn.spec.tmpl)
  BY <1>1 DEF Labelled
<1>4. Successes' = Successes
  BY <1>3 DEF Successes
<1>5. Reported(rts[rn.spec.tmpl], reason, out) => Reported(rts[rn.spec.tmpl], reason, out)'
  BY <1>4 DEF Reported
<1>6. Tidy(doomed) => Tidy(doomed)'
  BY <1>3 DEF Tidy
<1> QED BY <1>2, <1>5, <1>6 DEF UpToDate

(* Nobody else makes a stale reconciliation the last one: a step of another *)
(* actor after which it would be, was none that the runnable has to see.    *)
(* A change of a run is none if their kind is watched; if not, the runs     *)
(* that are there stay there.                                               *)
LEMMA OthersAreHeard ==
    ASSUME IInv, Follows, pc # "account", Quiet',
           Environment \/ \E k \in events : DeliverEvent(k)
    PROVE  /\ Quiet
           /\ rn' = rn /\ rts'[rn.spec.tmpl] = rts[rn.spec.tmpl] /\ selected' = selected
           /\ pc' = pc /\ rec' = rec /\ watching' = watching /\ excused' = excused
           /\ watching => runs' = runs
           /\ Kept' = Kept /\ \A i \in Kept : runs'[i].spec = runs[i].spec
<1>a. /\ queue \in BOOLEAN /\ watching \in BOOLEAN
      /\ rts \in [RunTemplates -> Contents \cup {None}] /\ rn.spec.tmpl \in RunTemplates
  BY InstanceAssumption DEF IInv, Types, OtherTypes, OwnerTypes, Typed
<1>b. /\ ~queue' /\ synced' /\ rn'.exists /\ events' \cap tracked' = {}
      /\ excused' \subseteq {"deletion"} /\ Realizable'
  BY DEF Quiet
<1>1. ~(\E s \in Specs : EditRunnable(s)) /\ ~DeleteRunnable
  BY <1>b DEF EditRunnable, DeleteRunnable, NewVersion
<1>2. ~(\E v \in Selectable \cup {None} : EditSelected(v))
  BY <1>b DEF EditSelected, Excuse
<1>3. /\ rn' = rn /\ synced' = synced /\ tracked' = tracked /\ selected' = selected
      /\ pc' = pc /\ rec' = rec /\ watching' = watching /\ (queue => queue')
  BY <1>1, <1>2, <1>a DEF Environment, EditTemplate, EditAccount, EditRun, RemoveRun, RunEnds, DeliverEvent,
     RunEvent, api, manager
<1>4. tracked = {SA, rn.spec.tmpl} /\ ~queue
  BY <1>b, <1>3, Tracks
<1>5. ~(\E a \in {"ok", "missing", "forbidden"} : EditAccount(a))
  BY <1>b, <1>3, <1>4 DEF EditAccount
<1>6. \A t \in RunTemplates, c \in Contents \cup {None} : EditTemplate(t, c) => t # rn.spec.tmpl
  BY <1>b, <1>3, <1>4 DEF EditTemplate
<1>7. \A k \in events : DeliverEvent(k) => k \notin tracked
  BY <1>b DEF DeliverEvent
<1>8. /\ rts'[rn.spec.tmpl] = rts[rn.spec.tmpl] /\ account' = account
      /\ events \cap tracked = {}
  <2>1. ASSUME NEW t \in RunTemplates, NEW c, EditTemplate(t, c), t # rn.spec.tmpl
        PROVE  /\ rts'[rn.spec.tmpl] = rts[rn.spec.tmpl] /\ account' = account
               /\ events \subseteq events'
    BY <1>a, <2>1 DEF EditTemplate
  <2>2. ASSUME NEW i \in DOMAIN runs, NEW s, EditRun(i) \/ RemoveRun(i) \/ RunEnds(i, s)
        PROVE  rts' = rts /\ account' = account /\ events \subseteq events'
    BY <2>2 DEF EditRun, RemoveRun, RunEnds
  <2>3. ASSUME NEW k \in events, DeliverEvent(k)
        PROVE  rts' = rts /\ account' = account /\ events \subseteq events' \cup {k}
    BY <2>3 DEF DeliverEvent, api
  <2>4. ASSUME events \subseteq events' PROVE events \cap tracked = {}
    BY <1>b, <1>3, <2>4
  <2>5. ASSUME NEW k \in events, DeliverEvent(k) PROVE events \cap tracked = {}
    BY <1>b, <1>3, <1>7, <2>3, <2>5
  <2> QED BY <1>1, <1>2, <1>5, <1>6, <2>1, <2>2, <2>3, <2>4, <2>5 DEF Environment
<1>9. \A i \in DOMAIN runs : ~RemoveRun(i)
  <2> SUFFICES ASSUME NEW i \in DOMAIN runs, RemoveRun(i) PROVE FALSE
    OBVIOUS
  <2>1. ~watching
    BY <1>b DEF RemoveRun, RunEvent
  <2>2. "unwatched" \in excused'
    BY <2>1 DEF RemoveRun
  <2> QED BY <1>b, <2>2
<1>10. excused' = excused
  BY <1>1, <1>2, <1>9 DEF Environment, EditTemplate, EditAccount, EditRun, RunEnds, DeliverEvent, history
<1>11. watching => runs' = runs
  BY <1>1, <1>2, <1>9, <1>b DEF Environment, EditTemplate, EditAccount, EditRun, RunEnds, DeliverEvent, RunEvent, api
<1>12. Kept' = Kept /\ \A i \in Kept : runs'[i].spec = runs[i].spec
  <2>1. RunsTyped /\ \A i \in DOMAIN runs : runs[i] \in Runs
    BY RunsFacts DEF IInv, Types
  <2>2. CASE runs' = runs
    BY <2>2 DEF Kept
  <2>3. ASSUME NEW i \in DOMAIN runs, NEW y, y.spec = runs[i].spec, y.fate = runs[i].fate,
               runs' = [runs EXCEPT ![i] = y]
        PROVE  Kept' = Kept /\ \A j \in Kept : runs'[j].spec = runs[j].spec
    <3>1. DOMAIN runs' = DOMAIN runs /\ \A j \in DOMAIN runs : runs'[j] = IF j = i THEN y ELSE runs[j]
      BY <2>1, <2>3 DEF RunsTyped
    <3>2. \A j \in DOMAIN runs : runs'[j].spec = runs[j].spec /\ runs'[j].fate = runs[j].fate
      BY <2>3, <3>1
    <3> QED BY <3>1, <3>2 DEF Kept
  <2>4. ASSUME NEW i \in DOMAIN runs, EditRun(i)
        PROVE  Kept' = Kept /\ \A j \in Kept : runs'[j].spec = runs[j].spec
    <3> DEFINE y == [runs[i] EXCEPT !.edited = TRUE]
    <3>1. runs' = [runs EXCEPT ![i] = y]
      BY <2>4 DEF EditRun
    <3>2. y.spec = runs[i].spec /\ y.fate = runs[i].fate
      BY <2>1 DEF Runs
    <3> HIDE DEF y
    <3> QED BY <2>3, <3>1, <3>2
  <2>5. ASSUME NEW i \in DOMAIN runs, NEW s \in {"True", "False"}, RunEnds(i, s)
        PROVE  Kept' = Kept /\ \A j \in Kept : runs'[j].spec = runs[j].spec
    <3> DEFINE y == [runs[i] EXCEPT !.health = s]
    <3>1. runs' = [runs EXCEPT ![i] = y]
      BY <2>5 DEF RunEnds
    <3>2. y.spec = runs[i].spec /\ y.fate = runs[i].fate
      BY <2>1 DEF Runs
    <3> HIDE DEF y
    <3> QED BY <2>3, <3>1, <3>2
  <2> QED BY <1>1, <1>2, <1>9, <2>2, <2>4, <2>5 DEF Environment, EditTemplate, EditAccount, DeliverEvent, api
<1>13. Quiet
  BY <1>b, <1>3, <1>4, <1>8, <1>10 DEF Quiet, Realizable
<1> QED BY <1>3, <1>8, <1>10, <1>11, <1>12, <1>13
-----------------------------------------------------------------------------
(* What CleanupRunnableStampedObjects (gc.go:38-69) spares is within the    *)
(* retention policy, and it spares a run if there is one.                   *)
LEMMA CleanupSpares ==
    ASSUME RunsTyped, NEW listed \in SUBSET (DOMAIN runs),
           NEW doomed \in CleanupRunnableStampedObjects(runs, listed, MaxSuccessfulRuns, MaxFailedRuns)
    PROVE  /\ Cardinality(WithHealth(runs, listed, "True") \ doomed) <= MaxSuccessfulRuns
           /\ Cardinality(WithHealth(runs, listed, "False") \ doomed) <= MaxFailedRuns
           /\ listed # {} => ~(listed \subseteq doomed)
<1> DEFINE good == WithHealth(runs, listed, "True")
           bad == WithHealth(runs, listed, "False")
<1>1. PICK K \in Retained(runs, good, MaxSuccessfulRuns), L \in Retained(runs, bad, MaxFailedRuns) :
         doomed = (good \ K) \cup (bad \ L)
  BY DEF CleanupRunnableStampedObjects
<1>2. good \subseteq listed /\ bad \subseteq listed /\ good \cap bad = {}
  BY DEF WithHealth
<1> HIDE DEF good, bad
<1>3. IsFiniteSet(good) /\ IsFiniteSet(bad)
  <2>1. DOMAIN runs = 1..Len(runs) /\ Len(runs) \in Nat
    BY RunsFacts
  <2>2. IsFiniteSet(1..Len(runs))
    BY <2>1, FS_Interval
  <2> QED BY <1>2, <2>1, <2>2, FS_Subset
<1>4. /\ Cardinality(good) \in Nat /\ Cardinality(bad) \in Nat
      /\ Cardinality(good) = 0 => good = {}
      /\ Cardinality(bad) = 0 => bad = {}
  BY <1>3, FS_CardinalityType, FS_EmptySet
<1>5. /\ K \subseteq good /\ Cardinality(K) = Min({MaxSuccessfulRuns, Cardinality(good)})
      /\ L \subseteq bad /\ Cardinality(L) = Min({MaxFailedRuns, Cardinality(bad)})
  BY <1>1 DEF Retained
<1>6. good \ doomed = K /\ bad \ doomed = L
  BY <1>1, <1>2, <1>5
<1>7. /\ Cardinality(K) <= MaxSuccessfulRuns /\ Cardinality(L) <= MaxFailedRuns
      /\ Cardinality(good) # 0 => Cardinality(K) # 0
      /\ Cardinality(bad) # 0 => Cardinality(L) # 0
  BY <1>4, <1>5, MinOfTwo, RetentionAssumption
<1>8. Cardinality({}) = 0
  BY FS_EmptySet
<1>9. ASSUME listed \subseteq doomed PROVE listed = {}
  BY <1>1, <1>2, <1>4, <1>6, <1>7, <1>8, <1>9
<1> QED BY <1>6, <1>7, <1>9 DEF good, bad

(* The newest successes of a runnable are those that Realize chooses from.  *)
LEMMA SuccessesAreLatest == Successes = LatestSuccessful(runs, Labelled(rn.spec.tmpl))
BY DEF Successes, LatestSuccessful, WithHealth

-----------------------------------------------------------------------------
(* The steps of others.                                                     *)
LEMMA OthersKeepCurrent ==
    ASSUME IInv, Follows, Current, Environment \/ \E k \in events : DeliverEvent(k)
    PROVE  Current'
<1> SUFFICES ASSUME Quiet' PROVE Current'
  BY DEF Current
<1>1. CASE pc = "account"
  <2>1. pc' = "account"
    BY <1>1 DEF Environment, EditRunnable, DeleteRunnable, EditTemplate, EditAccount, EditSelected, EditRun,
       RemoveRun, RunEnds, DeliverEvent
  <2> QED BY <2>1 DEF Current
<1>2. CASE pc # "account"
  <2>1. /\ Quiet
        /\ rn' = rn /\ rts'[rn.spec.tmpl] = rts[rn.spec.tmpl] /\ selected' = selected
        /\ pc' = pc /\ rec' = rec /\ watching' = watching /\ excused' = excused
        /\ watching => runs' = runs
        /\ Kept' = Kept /\ \A i \in Kept : runs'[i].spec = runs[i].spec
    BY <1>2, OthersAreHeard
  <2>2. Labelled(rn.spec.tmpl)' = Labelled(rn.spec.tmpl)
    BY <2>1 DEF Labelled
  <2>3. watching => /\ Serving => Serving'
                    /\ \A reason, out, doomed :
                          UpToDate(reason, out, doomed) => UpToDate(reason, out, doomed)'
    BY <2>1, UpToDateStays
  <2>4. pc \in {"ensure", "list"} => rec'.content = rts'[rn'.spec.tmpl]
    BY <2>1 DEF Current
  <2>5. pc = "ensure" => rec'.sel = selected'
    BY <2>1 DEF Current
  <2>6. pc = "list" => IF watching' THEN Serving' ELSE Labelled(rn.spec.tmpl)' # {}
    BY <2>1, <2>2, <2>3 DEF Current
  <2>7. pc = "gc" /\ ~rec'.requeue => IF watching' THEN UpToDate(rec.reason, rec.out, rec.doomed)'
                                                   ELSE ~(Kept' \subseteq rec'.doomed)
    <3>1. pc = "gc" /\ ~rec.requeue => IF watching THEN UpToDate(rec.reason, rec.out, rec.doomed)
                                                   ELSE ~(Kept \subseteq rec.doomed)
      BY <2>1 DEF Current
    <3> QED BY <2>1, <2>3, <3>1
  <2>8. pc = "update" /\ ~rec'.requeue => watching' /\ UpToDate(rec.reason, rec.out, {})'
    <3>1. pc = "update" /\ ~rec.requeue => watching /\ UpToDate(rec.reason, rec.out, {})
      BY <2>1 DEF Current
    <3> QED BY <2>1, <2>3, <3>1
  <2>9. pc = "idle" => /\ watching' /\ rn'.status.gen = rn'.gen
                       /\ UpToDate(rn.status.reason, rn.status.out, {})'
    <3>1. pc = "idle" => /\ watching /\ rn.status.gen = rn.gen
                         /\ UpToDate(rn.status.reason, rn.status.out, {})
      BY <2>1 DEF Current
    <3> QED BY <2>1, <2>3, <3>1
  <2> QED BY <2>1, <2>4, <2>5, <2>6, <2>7, <2>8, <2>9 DEF Current
<1> QED BY <1>1, <1>2

(* A new version of the runnable and a restart are followed by a            *)
(* reconciliation, and one that begins has nothing to show yet.             *)
LEMMA BeginningsKeepCurrent ==
    ASSUME IInv, Follows,
           DeliverOwner \/ Resync \/ Restart \/ GetRunnableFails \/ RunnableGone \/ GetRunnable
    PROVE  Current'
<1>1. CASE DeliverOwner \/ Resync \/ GetRunnableFails
  <2>1. queue'
    BY <1>1 DEF DeliverOwner, Resync, GetRunnableFails, manager
  <2> QED BY <2>1 DEF Current, Quiet
<1>2. CASE Restart
  <2>1. queue' = rn'.exists
    BY <1>2 DEF Restart, api
  <2> QED BY <2>1 DEF Current, Quiet
<1>3. CASE RunnableGone
  <2>1. synced' = synced /\ rn' = rn /\ ~cache.exists
    BY <1>3 DEF RunnableGone, api
  <2>2. synced => cache = rn
    BY DEF IInv, Versions
  <2> QED BY <2>1, <2>2 DEF Current, Quiet
<1>4. CASE GetRunnable
  <2>1. pc' = "account"
    BY <1>4 DEF GetRunnable
  <2> QED BY <2>1 DEF Current
<1> QED BY <1>1, <1>2, <1>3, <1>4

(* A reconciliation that fails before the list of the runs: it will be      *)
(* repeated, it is excused, or the runnable cannot be realized.             *)
LEMMA FailureKeepsCurrent ==
    ASSUME pc' = "update", Quiet' => rec'.requeue
    PROVE  Current'
BY DEF Current

(* GetServiceAccount.                                                       *)
LEMMA AccountKeepsCurrent ==
    ASSUME IInv, Follows, GetServiceAccount
    PROVE  Current'
<1>1. CASE pc' = "stamp"
  BY <1>1 DEF Current
<1>2. CASE pc' # "stamp"
  <2>1. \/ account = "missing"
        \/ "transient" \in excused'
    BY <1>2 DEF GetServiceAccount, Excuse
  <2>2. account' = account /\ pc' = "update"
    BY <1>2 DEF GetServiceAccount, FailWith, api
  <2>3. ~Quiet'
    BY <2>1, <2>2 DEF Quiet, Realizable
  <2> QED BY <2>2, <2>3, FailureKeepsCurrent
<1> QED BY <1>1, <1>2

(* Stamp: the content and the selected object are what they are now.        *)
LEMMA StampKeepsCurrent ==
    ASSUME IInv, Follows, Stamp
    PROVE  Current'
<1>a. /\ pc = "stamp" /\ rn' = rn /\ rts' = rts /\ selected' = selected /\ queue' = queue /\ synced' = synced
  BY DEF Stamp, api, manager
<1>b. RecTyped(rec, DOMAIN runs, Succeeded)
  BY <1>a DEF IInv, Types, RecTypes
<1>c. Quiet' => rec.snap = rn
  BY <1>a, Tracks DEF Quiet
<1>1. CASE /\ rec' = [rec EXCEPT !.content = rts[rec.snap.spec.tmpl], !.sel = selected]
           /\ pc' = "ensure"
  <2>1. rec'.content = rts[rec.snap.spec.tmpl] /\ rec'.sel = selected
    BY <1>1, <1>b DEF RecTyped
  <2> QED BY <1>1, <1>a, <1>c, <2>1 DEF Current
<1>2. CASE FailWith("RunTemplateNotFound", FALSE, TRUE)
  <2>1. pc' = "update" /\ rec'.requeue
    BY <1>2, <1>b DEF FailWith, RecTyped
  <2> QED BY <2>1, FailureKeepsCurrent
<1>3. CASE /\ FailWith("TemplateStampFailure", FALSE, FALSE)
           /\ \/ selected = None \/ ~Stampable(rts[rec.snap.spec.tmpl])
              \/ "transient" \in excused'
  <2>1. pc' = "update"
    BY <1>3 DEF FailWith
  <2>2. ~Quiet'
    BY <1>3, <1>a, <1>c DEF Quiet, Realizable
  <2> QED BY <2>1, <2>2, FailureKeepsCurrent
<1> QED BY <1>1, <1>2, <1>3 DEF Stamp, GetRunTemplate, Excuse

(* EnsureImmutableObjectExistsOnCluster: the run for the spec is there, or  *)
(* one was created, which a watch reports.                                  *)
LEMMA EnsureKeepsCurrent ==
    ASSUME IInv, Follows, Current, EnsureImmutableObject
    PROVE  Current'
<1> DEFINE spec == SpecOf(rec.snap.spec, rec.sel, rec.content)
           hits == Hits(submitted[KeyOf[spec.tmpl]], spec, runs, Kept)
<1>a. /\ pc = "ensure" /\ rn' = rn /\ rts' = rts /\ account' = account /\ selected' = selected
      /\ synced' = synced /\ events' = events /\ tracked' = tracked /\ watching' = watching
      /\ excused' = excused
  BY DEF EnsureImmutableObject, api, manager, history
<1>b. RecTyped(rec, DOMAIN runs, Succeeded) /\ queue \in BOOLEAN /\ watching \in BOOLEAN /\ RunsTyped /\ RunsOrdered
  BY <1>a DEF IInv, Types, RecTypes, OtherTypes
<1>c. queue => queue'
  BY <1>b DEF EnsureImmutableObject, RunEvent, manager
<1>d. Quiet' => Quiet
  BY <1>a, <1>c DEF Quiet, Realizable
<1>e. Quiet' => /\ rec.snap = rn /\ rec.sel = selected /\ rec.content = rts[rn.spec.tmpl]
                /\ spec = SpecOf(rn.spec, selected, rts[rn.spec.tmpl]) /\ spec.tmpl = rn.spec.tmpl
  <2>1. Quiet' => rec.snap = rn
    BY <1>a, <1>d, Tracks DEF Quiet
  <2>2. Quiet' => rec.sel = selected /\ rec.content = rts[rn.spec.tmpl]
    BY <1>a, <1>d DEF Current
  <2> QED BY <2>1, <2>2 DEF SpecOf
<1>1. ASSUME NEW i \in hits, rec' = [rec EXCEPT !.run = i, !.health = runs[i].health], pc' = "list",
             runs' = runs
      PROVE  Current'
  <2>1. rec'.content = rec.content
    BY <1>1, <1>b DEF RecTyped
  <2>2. i \in Kept /\ runs[i].spec = spec /\ ~runs[i].edited
    BY <1>1 DEF Hits, IsPersistedCacheHit
  <2>3. i \in Kept' /\ runs'[i].spec = spec /\ ~runs'[i].edited
    BY <1>1, <2>2 DEF Kept
  <2> HIDE DEF spec
  <2>4. Quiet' => Serving'
    BY <1>a, <1>e, <2>3 DEF Serving
  <2>5. Quiet' => Labelled(rn.spec.tmpl)' # {}
    BY <1>a, <1>e, <2>3 DEF Labelled
  <2> QED BY <1>1, <1>a, <1>e, <2>1, <2>4, <2>5 DEF Current
<1>2. CASE /\ Len(runs) < MaxRuns /\ Created(spec) /\ RunEvent
           /\ rec' = [rec EXCEPT !.run = Len(runs')] /\ pc' = "list"
  <2>1. rec'.content = rec.content
    BY <1>2, <1>b DEF RecTyped
  <2>2. spec \in RunSpecs
    BY <1>a, SpecOfIsRunSpec DEF IInv
  <2> HIDE DEF spec
  <2>3. /\ DOMAIN runs' = DOMAIN runs \cup {Len(runs')}
        /\ \E when : runs'[Len(runs')] = [spec |-> spec, edited |-> FALSE, created |-> when,
                                          health |-> "Unknown", fate |-> "kept"]
    BY <1>2, <1>b, <2>2, OneMoreRun
  <2>4. Len(runs') \in Kept' /\ runs'[Len(runs')].spec = spec
    BY <2>3 DEF Kept
  <2>5. Quiet' => Labelled(rn.spec.tmpl)' # {}
    BY <1>a, <1>e, <2>4 DEF Labelled
  <2>6. Quiet' => ~watching'
    BY <1>2, <1>a DEF Quiet, RunEvent
  <2> QED BY <1>2, <1>a, <1>e, <2>1, <2>5, <2>6 DEF Current
<1>3. CASE account = "forbidden" /\ FailWith("StampedObjectRejectedByAPIServer", FALSE, FALSE)
  <2>1. pc' = "update" /\ ~Quiet'
    BY <1>3, <1>a DEF FailWith, Quiet, Realizable
  <2> QED BY <2>1, FailureKeepsCurrent
<1>4. CASE FailWith("StampedObjectRejectedByAPIServer", FALSE, TRUE)
  <2>1. pc' = "update" /\ rec'.requeue
    BY <1>4, <1>b DEF FailWith, RecTyped
  <2> QED BY <2>1, FailureKeepsCurrent
<1>5. CASE /\ rec' = [rec EXCEPT !.reason = "StampedObjectRejectedByAPIServer", !.requeue = TRUE]
           /\ pc' = "update"
  <2>1. rec'.requeue
    BY <1>5, <1>b DEF RecTyped
  <2> QED BY <1>5, <2>1, FailureKeepsCurrent
<1> QED BY <1>1, <1>2, <1>3, <1>4, <1>5 DEF EnsureImmutableObject, api

(* ListRuns: what is computed from the list holds of the runs as they are.  *)
LEMMA ListKeepsCurrent ==
    ASSUME IInv, Follows, Current, ListRuns
    PROVE  Current'
<1>a. /\ pc = "list" /\ rn' = rn /\ rts' = rts /\ account' = account /\ selected' = selected
      /\ runs' = runs /\ queue' = queue
      /\ synced' = synced /\ events' = events /\ tracked' = tracked /\ watching' = watching
      /\ excused' = excused
  BY DEF ListRuns, api, manager
<1>b. RecTyped(rec, DOMAIN runs, Succeeded) /\ RunsTyped
  BY <1>a DEF IInv, Types, RecTypes
<1>d. Quiet' => Quiet
  BY <1>a DEF Quiet, Realizable
<1>e. Quiet' => /\ rec.snap = rn /\ rec.content = rts[rn.spec.tmpl]
                /\ IF watching THEN Serving ELSE Labelled(rn.spec.tmpl) # {}
  <2>1. Quiet' => rec.snap = rn
    BY <1>a, <1>d, Tracks DEF Quiet
  <2> QED BY <1>a, <1>d, <2>1 DEF Current
<1>1. CASE /\ rec' = [rec EXCEPT !.reason = "FailedToListCreatedObjects", !.requeue = TRUE]
           /\ pc' = "gc"
  <2>1. rec'.requeue
    BY <1>1, <1>b DEF RecTyped
  <2> QED BY <1>1, <2>1 DEF Current
<1>2. ASSUME NEW doomed \in CleanupRunnableStampedObjects(runs, Labelled(rec.snap.spec.tmpl),
                                                          MaxSuccessfulRuns, MaxFailedRuns),
             NEW out \in OutputsOf(rec.content, Labelled(rec.snap.spec.tmpl), rec.snap.status.out),
             rec' = [rec EXCEPT !.doomed = doomed, !.out = out,
                        !.reason = IF /\ rec.content.kind = "badPath"
                                      /\ LatestSuccessful(runs, Labelled(rec.snap.spec.tmpl)) # {}
                                   THEN "OutputPathNotSatisfied" ELSE "Ready"],
             pc' = "gc", Quiet'
      PROVE  Current'
  <2> DEFINE listed == Labelled(rn.spec.tmpl)
  <2>1. /\ rec'.doomed = doomed /\ rec'.out = out
        /\ rec'.reason = IF rec.content.kind = "badPath" /\ LatestSuccessful(runs, listed) # {}
                         THEN "OutputPathNotSatisfied" ELSE "Ready"
    BY <1>2, <1>b, <1>e DEF RecTyped
  <2>2. listed \in SUBSET (DOMAIN runs) /\ listed \subseteq Kept
    BY DEF Labelled, Kept
  <2>3. /\ Cardinality(WithHealth(runs, listed, "True") \ doomed) <= MaxSuccessfulRuns
        /\ Cardinality(WithHealth(runs, listed, "False") \ doomed) <= MaxFailedRuns
        /\ listed # {} => ~(listed \subseteq doomed)
    BY <1>2, <1>b, <1>e, <2>2, CleanupSpares
  <2>4. Tidy(doomed)
    BY <2>3 DEF Tidy
  <2>5. Successes = LatestSuccessful(runs, listed)
    BY SuccessesAreLatest
  <2>6. rec.content.kind = "good" /\ Successes # {} => out \in Successes
    BY <1>2, <1>e, <2>5 DEF OutputsOf
  <2>7. Reported(rts[rn.spec.tmpl], rec'.reason, out)
    BY <1>e, <1>2, <2>1, <2>5, <2>6 DEF Reported
  <2>8. watching => UpToDate(rec'.reason, out, doomed)
    BY <1>e, <1>2, <2>4, <2>7 DEF UpToDate
  <2>9. \A reason : UpToDate(reason, out, doomed) => UpToDate(reason, out, doomed)'
    BY <1>a, UpToDateStays
  <2>10. watching' => UpToDate(rec.reason, rec.out, rec.doomed)'
    BY <1>a, <2>1, <2>8, <2>9
  <2>11. ~watching' => ~(Kept' \subseteq rec'.doomed)
    BY <1>a, <1>e, <1>2, <2>1, <2>2, <2>3 DEF Kept
  <2> QED BY <1>2, <2>10, <2>11 DEF Current
<1>3. ASSUME ~Quiet' PROVE Current'
  BY <1>3 DEF Current
<1> QED BY <1>1, <1>2, <1>3 DEF ListRuns

(* A deletion of the cleanup is reported by the watch.  Before the watch it *)
(* leaves the run that is spared.                                           *)
LEMMA DeleteKeepsCurrent ==
    ASSUME IInv, Follows, Current, NEW i \in DOMAIN runs, DeleteRun(i)
    PROVE  Current'
<1> SUFFICES ASSUME Quiet' PROVE Current'
  BY DEF Current
<1>a. /\ pc = "gc" /\ pc' = "gc" /\ rn' = rn /\ rts' = rts /\ account' = account /\ selected' = selected
      /\ synced' = synced /\ events' = events /\ tracked' = tracked /\ watching' = watching
      /\ excused \subseteq excused' /\ rec' = [rec EXCEPT !.doomed = rec.doomed \ {i}] /\ i \in rec.doomed
  BY DEF DeleteRun, history, Excuse
<1>b. RecTyped(rec, DOMAIN runs, Succeeded) /\ queue \in BOOLEAN /\ watching \in BOOLEAN /\ RunsTyped
  BY <1>a DEF IInv, Types, RecTypes, OtherTypes
<1>c. /\ rec'.doomed = rec.doomed \ {i} /\ rec'.reason = rec.reason /\ rec'.out = rec.out
      /\ rec'.requeue = rec.requeue
  BY <1>a, <1>b DEF RecTyped
<1>d. Quiet
  <2>1. queue => queue'
    BY <1>b DEF DeleteRun, RunEvent
  <2> QED BY <1>a, <2>1 DEF Quiet, Realizable
<1>0. CASE rec.requeue
  BY <1>0, <1>a, <1>c DEF Current
<1> SUFFICES ASSUME ~rec.requeue PROVE Current'
  BY <1>0
<1>e. IF watching THEN UpToDate(rec.reason, rec.out, rec.doomed) ELSE ~(Kept \subseteq rec.doomed)
  BY <1>a, <1>d DEF Current
<1>1. CASE ~watching
  <2>1. PICK s \in Kept : s \notin rec.doomed
    BY <1>1, <1>e
  <2>2. s \in DOMAIN runs /\ s # i /\ runs[s].fate = "kept"
    BY <1>a, <2>1 DEF Kept
  <2>3. runs' = runs \/ runs' = [runs EXCEPT ![i].fate = "retired"]
    BY DEF DeleteRun
  <2>4. s \in DOMAIN runs' /\ runs'[s] = runs[s]
    BY <1>b, <2>2, <2>3 DEF RunsTyped
  <2>5. s \in Kept' /\ s \notin rec'.doomed
    BY <1>c, <2>1, <2>2, <2>4 DEF Kept
  <2> QED BY <1>1, <1>a, <2>5 DEF Current
<1>2. CASE watching
  <2>1. runs' = runs /\ (i \notin Kept \/ "deletion" \in excused')
    BY <1>2 DEF DeleteRun, RunEvent, Quiet, Kept, Excuse
  <2>2. UpToDate(rec.reason, rec.out, rec.doomed)
    BY <1>2, <1>e
  <2>3. \A reason, out, doomed : UpToDate(reason, out, doomed) => UpToDate(reason, out, doomed)'
    BY <1>a, <2>1, UpToDateStays
  <2>4. CASE i \notin Kept
    <3> DEFINE listed == Labelled(rn.spec.tmpl)
    <3>1. /\ WithHealth(runs, listed, "True") \ rec.doomed = WithHealth(runs, listed, "True") \ (rec.doomed \ {i})
          /\ WithHealth(runs, listed, "False") \ rec.doomed = WithHealth(runs, listed, "False") \ (rec.doomed \ {i})
      BY <2>4 DEF WithHealth, Labelled
    <3>2. UpToDate(rec.reason, rec.out, rec.doomed \ {i})
      BY <2>2, <3>1 DEF UpToDate, Tidy
    <3>3. UpToDate(rec.reason, rec.out, rec.doomed)'
      BY <1>c, <2>3, <3>2
    <3> QED BY <1>2, <1>a, <3>3 DEF Current
  <2>5. CASE "deletion" \in excused'
    <3>1. \A reason, out, doomed, rest :
             UpToDate(reason, out, doomed)' => UpToDate(reason, out, rest)'
      BY <2>5 DEF UpToDate, Tidy
    <3>2. UpToDate(rec.reason, rec.out, rec.doomed)'
      BY <1>c, <2>2, <2>3, <3>1
    <3> QED BY <1>2, <1>a, <3>2 DEF Current
  <2> QED BY <2>1, <2>4, <2>5
<1> QED BY <1>1, <1>2, <1>b

(* StampedTracker.Watch: the first watch reports the runs that are there,   *)
(* so that only a reconciliation that began with the watch is the last.     *)
LEMMA WatchKeepsCurrent ==
    ASSUME IInv, Follows, Current, WatchRuns
    PROVE  Current'
<1> SUFFICES ASSUME Quiet' PROVE Current'
  BY DEF Current
<1>a. /\ pc = "gc" /\ pc' = "update" /\ rec.doomed = {} /\ runs' = runs
      /\ rn' = rn /\ rts' = rts /\ account' = account /\ selected' = selected
      /\ synced' = synced /\ events' = events /\ tracked' = tracked /\ excused' = excused
  BY DEF WatchRuns, api
<1>b. RecTyped(rec, DOMAIN runs, Succeeded) /\ queue \in BOOLEAN /\ watching \in BOOLEAN
  BY <1>a DEF IInv, Types, RecTypes, OtherTypes
<1>0. CASE rec.requeue /\ rec' = rec
  BY <1>0, <1>a, FailureKeepsCurrent
<1>1. CASE /\ watching' = TRUE /\ queue' = (queue \/ (~watching /\ Kept # {})) /\ rec' = rec
           /\ ~rec.requeue
  <2>1. Quiet
    BY <1>1, <1>a, <1>b DEF Quiet, Realizable
  <2>2. IF watching THEN UpToDate(rec.reason, rec.out, rec.doomed) ELSE ~(Kept \subseteq rec.doomed)
    BY <1>1, <1>a, <2>1 DEF Current
  <2>3. watching
    BY <1>1, <1>a, <2>2 DEF Quiet
  <2>4. UpToDate(rec.reason, rec.out, {})
    BY <1>a, <2>2, <2>3
  <2>5. \A reason, out : UpToDate(reason, out, {}) => UpToDate(reason, out, {})'
    BY <1>a, UpToDateStays
  <2>6. UpToDate(rec.reason, rec.out, {})'
    BY <1>1, <2>4, <2>5
  <2> QED BY <1>1, <1>a, <2>6 DEF Current
<1>2. CASE rec' = [rec EXCEPT !.requeue = TRUE]
  <2>1. rec'.requeue
    BY <1>2, <1>b DEF RecTyped
  <2> QED BY <1>a, <2>1, FailureKeepsCurrent
<1> QED BY <1>0, <1>1, <1>2 DEF WatchRuns

(* completeReconciliation: a new status is a new version of the runnable, a *)
(* failed update is repeated, and an unchanged status is what was found out.*)
LEMMA EndKeepsCurrent ==
    ASSUME IInv, Follows, Current, StatusUpdated \/ StatusUpdateFails \/ StatusUnchanged
    PROVE  Current'
<1>1. CASE StatusUpdated \/ StatusUpdateFails
  <2>1. ~synced' \/ queue'
    BY <1>1 DEF StatusUpdated, StatusUpdateFails
  <2> QED BY <2>1 DEF Current, Quiet
<1>2. CASE StatusUnchanged
  <2> SUFFICES ASSUME Quiet' PROVE Current'
    BY DEF Current
  <2>1. /\ pc = "update" /\ pc' = "idle" /\ NewStatus = rec.snap.status /\ watching' = watching
        /\ runs' = runs /\ rn' = rn /\ rts' = rts /\ account' = account /\ selected' = selected
        /\ synced' = synced /\ events' = events /\ tracked' = tracked /\ excused' = excused
        /\ queue' = (queue \/ rec.requeue)
    BY <1>2 DEF StatusUnchanged, StatusChanged, EndOfReconcile, api, history
  <2>2. ~queue /\ ~rec.requeue
    BY <2>1 DEF Quiet
  <2>3. Quiet
    BY <2>1, <2>2 DEF Quiet, Realizable
  <2>4. rec.snap = rn
    BY <2>1, <2>3, Tracks DEF Quiet
  <2>5. rn.status.gen = rn.gen /\ rn.status.reason = rec.reason /\ rn.status.out = rec.out
    BY <2>1, <2>4 DEF NewStatus
  <2>6. watching /\ UpToDate(rn.status.reason, rn.status.out, {})
    BY <2>1, <2>2, <2>3, <2>5 DEF Current
  <2>7. \A reason, out : UpToDate(reason, out, {}) => UpToDate(reason, out, {})'
    BY <2>1, UpToDateStays
  <2>8. UpToDate(rn.status.reason, rn.status.out, {})'
    BY <2>1, <2>6, <2>7
  <2> QED BY <2>1, <2>5, <2>6, <2>8 DEF Current
<1> QED BY <1>1, <1>2
-----------------------------------------------------------------------------
(* The invariant holds at the start and is kept by every step.              *)
LEMMA SettledInvariant == Spec => [](IInv /\ Follows /\ Current)
<1>1. Init => Follows /\ Current
  BY DEF Init, Follows, Current, Quiet
<1>2. ASSUME IInv, Follows, Current, [Next]_vars PROVE Current'
  <2>1. CASE UNCHANGED vars
    <3>1. /\ UNCHANGED <<rn, rts, account, selected, runs, events, queue, tracked, watching, synced>>
          /\ UNCHANGED <<pc, rec, excused>>
      BY <2>1 DEF vars, api, manager, history
    <3> QED BY <1>2, <3>1 DEF Current, Quiet, Realizable, UpToDate, Serving, Reported, Tidy, Successes, Labelled, Kept
  <2> QED BY <1>2, <2>1, OthersKeepCurrent, BeginningsKeepCurrent, AccountKeepsCurrent, StampKeepsCurrent,
             EnsureKeepsCurrent, ListKeepsCurrent, DeleteKeepsCurrent, WatchKeepsCurrent, EndKeepsCurrent
          DEF Next, Runtime, Reconcile
<1>3. IInv /\ Follows /\ Current /\ [Next]_vars => (IInv /\ Follows /\ Current)'
  BY <1>2, NextInv, FollowsStep
<1>4. Init => IInv
  BY InitInv
<1> QED BY <1>1, <1>3, <1>4, PTL DEF Spec

(* A settled runnable is quiet, unless it is excused or cannot be realized. *)
LEMMA SettledIsQuiet ==
    ASSUME Current, Settled, Realizable, excused \subseteq {"deletion"}
    PROVE  rn.status.gen = rn.gen /\ UpToDate(rn.status.reason, rn.status.out, {})
<1>1. Quiet /\ pc = "idle"
  BY DEF Settled, Quiet
<1> QED BY <1>1 DEF Current

(* No change is missed: the runnable reconciler tracks the account and the  *)
(* template before it reads them and is enqueued for its runs, so whenever  *)
(* it rests, the status is that of its generation, says what the template   *)
(* makes of the runs, and the run for the spec is there.                    *)
THEOREM SettledIsUpToDate == Spec => []SettledIsCurrent
<1>1. Current => SettledIsCurrent
  BY SettledIsQuiet DEF SettledIsCurrent, UpToDate, Reported, Serving
<1> QED BY <1>1, SettledInvariant, PTL

(* Whenever a runnable whose template declares outputs rests, its outputs   *)
(* are those of a newest success that is there, whatever its cleanup has    *)
(* deleted since it read them.                                              *)
THEOREM OutputsAreOfTheLatest == Spec => []OutputsAreLatest
<1>1. Current => OutputsAreLatest
  BY SettledIsQuiet DEF OutputsAreLatest, UpToDate, Reported
<1> QED BY <1>1, SettledInvariant, PTL

(* Whenever a runnable rests and no deletion has failed, no more of its     *)
(* template's successful and failed runs are left than the policy allows.   *)
THEOREM RetentionIsKept == Spec => []RetentionHolds
<1>1. Current => RetentionHolds
  <2> SUFFICES ASSUME Current, Settled, Realizable, excused = {}
               PROVE  /\ Cardinality(WithHealth(runs, Labelled(rn.spec.tmpl), "True")) <= MaxSuccessfulRuns
                      /\ Cardinality(WithHealth(runs, Labelled(rn.spec.tmpl), "False")) <= MaxFailedRuns
    BY DEF RetentionHolds
  <2>1. Tidy({})
    BY SettledIsQuiet DEF UpToDate
  <2>2. \A S : S \ {} = S
    OBVIOUS
  <2> QED BY <2>1, <2>2 DEF Tidy
<1> QED BY <1>1, SettledInvariant, PTL
=============================================================================
