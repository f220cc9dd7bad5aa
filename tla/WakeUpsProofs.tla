--------------------------- MODULE WakeUpsProofs ---------------------------
(* The proof that the watches, the mapper and the trackers wake everybody   *)
(* whose last reconciliation is out of date, for any set of owners and any  *)
(* number of changes in the cluster.                                        *)
EXTENDS WakeUps, TLAPS

Phases == {"idle", "read", "clear", "track"}

WakeTypes ==
    /\ controller \in Controllers
    /\ DOMAIN cluster = Kinds /\ DOMAIN seen = Kinds
    /\ queue \subseteq Users
    /\ DOMAIN tracker = Users /\ DOMAIN phase = Users /\ DOMAIN used = Users
    /\ DOMAIN slipped = Users
    /\ \A o \in Users : phase[o] \in Phases

(* A runnable tracks its dependencies before it reads them, and keeps them *)
(* until it is reconciled again.                                           *)
RunnableTracks ==
    \A o \in Users :
        /\ controller = "runnable"
        /\ phase[o] = "read" \/ (phase[o] = "idle" /\ o \notin queue)
        => tracker[o] = Dependencies

(* An owner has read what its controller's informers hold now, and the      *)
(* rights as the API server has them or as they were before a change whose  *)
(* event is still on its way.                                               *)
Views(b) == {Right(b, seen[b]), Right(b, cluster[b])}
Agrees(o) ==
    \E p \in Views("RoleBinding"), q \in Views("ClusterRoleBinding") : used[o] = ReadFrom(seen, p \cup q)

(* It is about to read.                                                     *)
WillRead(o) ==
    \/ o \in queue \/ phase[o] = "read"
    \/ controller = "runnable" /\ phase[o] \in {"clear", "track"}

UpToDate(o) == WillRead(o) \/ (controller # "runnable" /\ slipped[o] = TRUE) \/ Agrees(o)

(* The inductive invariant.                                                 *)
WakeInv ==
    /\ WakeTypes
    /\ ~Running => \A o \in Users : phase[o] = "idle"
    /\ Running => RunnableTracks /\ \A o \in Users : UpToDate(o)
-----------------------------------------------------------------------------
(* Who tracks the account and the template is woken by an event about what  *)
(* it has read: the map functions and EnqueueTracked.                       *)
LEMMA EventsWake ==
    ASSUME controller \in Controllers, NEW o \in Users, tracker[o] = Dependencies,
           NEW object, object # Nil
    PROVE  /\ controller # "runnable" => o \in Woken("Blueprint", object)
           /\ o \in Woken("ServiceAccount", object)
           /\ o \in Woken("Template", object)
           /\ \A b \in Bindings :
                 seen["ServiceAccount"] # Nil /\ (\E s \in object.subjects : Names(s))
                     => o \in Woken(b, object)
<1>1. o \in TrackedBy("ServiceAccount") /\ o \in TrackedBy("Template")
  BY DEF TrackedBy, Dependencies
<1>2. \A b \in Bindings :
         seen["ServiceAccount"] # Nil /\ (\E s \in object.subjects : Names(s))
             => o \in BindingRequests(b, object)
  BY <1>1 DEF BindingRequests
<1>3. CASE controller = "workload"
  BY <1>1, <1>2, <1>3 DEF Woken, WorkloadWatches, WorkloadRequests, EnqueueTracked, Bindings
<1>4. CASE controller = "deliverable"
  BY <1>1, <1>2, <1>4 DEF Woken, DeliverableWatches, DeliverableRequests, EnqueueTracked, Bindings
<1>5. CASE controller = "runnable"
  BY <1>1, <1>2, <1>5 DEF Woken, RunnableWatches, RunnableRequests, EnqueueTracked, Bindings
<1> QED BY <1>3, <1>4, <1>5 DEF Controllers

(* Nobody but the owners is woken.                                          *)
LEMMA WokenAreOwners ==
    ASSUME controller \in Controllers, NEW kind \in Kinds, NEW object
    PROVE  Woken(kind, object) \subseteq Users
<1>1. \A k : TrackedBy(k) \subseteq Users
  BY DEF TrackedBy
<1>2. \A b, x : BindingRequests(b, x) \subseteq Users
  BY <1>1 DEF BindingRequests
<1>3. \A k : RoleRequests(k) \subseteq Users
  BY <1>2 DEF RoleRequests
<1>4. CASE controller = "workload"
  BY <1>1, <1>2, <1>3, <1>4 DEF Woken, WorkloadWatches, WorkloadRequests, EnqueueTracked, Bindings, Kinds
<1>5. CASE controller = "deliverable"
  BY <1>1, <1>2, <1>3, <1>5 DEF Woken, DeliverableWatches, DeliverableRequests, EnqueueTracked, Bindings, Kinds
<1>6. CASE controller = "runnable"
  BY <1>1, <1>2, <1>3, <1>6 DEF Woken, RunnableWatches, RunnableRequests, EnqueueTracked, Bindings, Kinds
<1> QED BY <1>4, <1>5, <1>6 DEF Controllers

(* What is read does not change by an event that wakes nobody who tracks.   *)
LEMMA UnwokenAgrees ==
    ASSUME WakeTypes, NEW kind \in Kinds, DeliverChange(kind), NEW o \in Users,
           tracker[o] = Dependencies, Agrees(o), o \notin queue'
    PROVE  Agrees(o)'
<1>1. /\ seen[kind] # cluster[kind] /\ cluster' = cluster /\ controller' = controller /\ used' = used
      /\ seen' = [seen EXCEPT ![kind] = cluster[kind]]
      /\ o \notin Woken(kind, seen[kind]) /\ o \notin Woken(kind, cluster[kind])
  BY DEF DeliverChange
<1>2. \A k \in Kinds : seen'[k] = IF k = kind THEN cluster[kind] ELSE seen[k]
  BY <1>1 DEF WakeTypes
<1>3. kind # "ServiceAccount" /\ kind # "Template" /\ (controller # "runnable" => kind # "Blueprint")
  BY <1>1, EventsWake DEF WakeTypes
<1>4. PICK p \in Views("RoleBinding"), q \in Views("ClusterRoleBinding") : used[o] = ReadFrom(seen, p \cup q)
  BY DEF Agrees
<1>5. /\ seen'["ServiceAccount"] = seen["ServiceAccount"] /\ seen'["Template"] = seen["Template"]
      /\ controller # "runnable" => seen'["Blueprint"] = seen["Blueprint"]
  BY <1>2, <1>3 DEF Kinds
<1>6. ASSUME NEW r, NEW t, seen["ServiceAccount"] # Nil => r = t
      PROVE  ReadFrom(seen, r) = ReadFrom(seen, t)'
  BY <1>1, <1>5, <1>6 DEF ReadFrom, Version
<1>7. CASE seen["ServiceAccount"] = Nil
  <2>1. PICK v \in Views("RoleBinding")', w \in Views("ClusterRoleBinding")' : TRUE
    BY DEF Views
  <2>2. ReadFrom(seen, p \cup q) = ReadFrom(seen, v \cup w)'
    BY <1>6, <1>7
  <2> QED BY <1>1, <1>4, <2>1, <2>2 DEF Agrees
<1>8. CASE seen["ServiceAccount"] # Nil
  <2>1. \A b \in Bindings : b = kind => Right(b, seen[b]) = {} /\ Right(b, cluster[b]) = {}
    BY <1>1, <1>8, EventsWake DEF Right, WakeTypes
  <2>2. \A b \in Bindings : Views(b)' = Views(b)
    BY <1>1, <1>2, <2>1 DEF Views, Bindings, Kinds
  <2>3. p \in Views("RoleBinding")' /\ q \in Views("ClusterRoleBinding")'
    BY <1>4, <2>2 DEF Bindings
  <2>4. ReadFrom(seen, p \cup q) = ReadFrom(seen, p \cup q)'
    BY <1>6
  <2> QED BY <1>1, <1>4, <2>3, <2>4 DEF Agrees
<1> QED BY <1>7, <1>8
-----------------------------------------------------------------------------
\* The invariant holds of a cluster that no informer has read and no owner
\* has used.
LEMMA WakeInitInv == WakeInit => WakeInv
<1> SUFFICES ASSUME WakeInit PROVE WakeInv
  OBVIOUS
<1>1. WakeTypes
  BY DEF WakeInit, WakeTypes, Phases
<1>2. ~Running /\ \A o \in Users : phase[o] = "idle"
  BY DEF WakeInit, Running, BootSteps, SetLogLevel, AddToScheme, RegisterControllers
<1> QED BY <1>1, <1>2 DEF WakeInv

(* Who agrees with the informers does so until they or the cluster change.  *)
LEMMA AgreesStable ==
    ASSUME UNCHANGED <<controller, cluster, seen>>, NEW o \in Users, used'[o] = used[o], Agrees(o)
    PROVE  Agrees(o)'
<1>1. \A b : Views(b)' = Views(b)
  BY DEF Views, Right
<1>2. ASSUME NEW r PROVE ReadFrom(seen, r)' = ReadFrom(seen, r)
  BY DEF ReadFrom
<1>3. PICK p \in Views("RoleBinding"), q \in Views("ClusterRoleBinding") : used[o] = ReadFrom(seen, p \cup q)
  BY DEF Agrees
<1>4. used'[o] = ReadFrom(seen, p \cup q)'
  BY <1>2, <1>3
<1> QED BY <1>1, <1>3, <1>4 DEF Agrees

(* A step of one owner that leaves the informers and the cluster alone: the *)
(* others are up to date as before.                                         *)
LEMMA OneOwner ==
    ASSUME WakeInv, Running, NEW o \in Users, NEW p \in Phases,
           UNCHANGED <<controller, boot, cluster, seen>>,
           phase' = [phase EXCEPT ![o] = p],
           queue' \subseteq Users, \A x \in Users \ {o} : x \in queue' <=> x \in queue,
           DOMAIN tracker' = Users, \A x \in Users \ {o} : tracker'[x] = tracker[x],
           DOMAIN used' = Users, \A x \in Users \ {o} : used'[x] = used[x],
           DOMAIN slipped' = Users, \A x \in Users \ {o} : slipped'[x] = slipped[x],
           UpToDate(o)',
           /\ controller = "runnable"
           /\ p = "read" \/ (p = "idle" /\ o \notin queue')
           => tracker'[o] = Dependencies
    PROVE  WakeInv'
<1>1. WakeTypes'
  BY DEF WakeInv, WakeTypes
<1>2. \A x \in Users : phase'[x] = IF x = o THEN p ELSE phase[x]
  BY DEF WakeInv, WakeTypes
<1>3. RunnableTracks'
  BY <1>2 DEF WakeInv, RunnableTracks
<1>4. Running'
  BY DEF Running
<1>5. ASSUME NEW x \in Users \ {o} PROVE UpToDate(x)'
  <2>1. UpToDate(x)
    BY DEF WakeInv
  <2>2. WillRead(x) => WillRead(x)'
    BY <1>2 DEF WillRead
  <2>3. Agrees(x) => Agrees(x)'
    BY AgreesStable
  <2> QED BY <2>1, <2>2, <2>3 DEF UpToDate
<1>6. \A x \in Users : UpToDate(x)'
  BY <1>5
<1> QED BY <1>1, <1>3, <1>4, <1>6 DEF WakeInv

\* Every edit, delivery and reconciliation preserves the invariant.
LEMMA WakeNextInv == WakeInv /\ [WakeNext]_wakeVars => WakeInv'
<1> SUFFICES ASSUME WakeInv, [WakeNext]_wakeVars PROVE WakeInv'
  OBVIOUS
<1>a. WakeTypes
  BY DEF WakeInv
<1>1. CASE BootStep
  <2>1. WakeTypes'
    BY <1>1, <1>a DEF BootStep, WakeTypes
  <2>2. \A o \in Users : phase'[o] = "idle"
    BY <1>1 DEF BootStep, WakeInv
  <2>3. Running' => queue' = Users
    BY <1>1 DEF BootStep, Running
  <2> QED BY <2>1, <2>2, <2>3 DEF WakeInv, RunnableTracks, UpToDate, WillRead
<1>2. CASE Crash
  <2>1. WakeTypes'
    BY <1>2, <1>a DEF Crash, WakeTypes, Phases
  <2>2. ~Running' /\ \A o \in Users : phase'[o] = "idle"
    BY <1>2 DEF Crash, Running, BootSteps, SetLogLevel, AddToScheme, RegisterControllers
  <2> QED BY <2>1, <2>2 DEF WakeInv
<1>3. CASE ChangeCluster
  <2>1. PICK kind \in Kinds : /\ seen[kind] = cluster[kind]
                              /\ \A k \in Kinds \ {kind} : cluster'[k] = cluster[k]
    BY <1>3, <1>a DEF ChangeCluster, WakeTypes
  <2>2. DOMAIN cluster' = Kinds /\ UNCHANGED <<controller, boot, seen, tracker, queue, phase, used, slipped>>
    BY <1>3, <1>a DEF ChangeCluster, WakeTypes
  <2>3. Running /\ Running'
    BY <1>3 DEF ChangeCluster, Running
  <2>4. WakeTypes'
    BY <1>a, <2>2 DEF WakeTypes
  <2>5. RunnableTracks'
    BY <2>2, <2>3 DEF WakeInv, RunnableTracks
  <2>6. ASSUME NEW o \in Users PROVE UpToDate(o)'
    <3>1. \A b \in Bindings : Views(b) \subseteq Views(b)'
      BY <2>1, <2>2 DEF Views, Right, Bindings, Kinds
    <3>2. Agrees(o) => Agrees(o)'
      BY <2>2, <3>1 DEF Agrees, ReadFrom, Bindings
    <3>3. WillRead(o) => WillRead(o)'
      BY <2>2 DEF WillRead
    <3> QED BY <2>2, <2>3, <3>2, <3>3 DEF UpToDate, WakeInv
  <2> QED BY <2>3, <2>4, <2>5, <2>6 DEF WakeInv
<1>4. ASSUME NEW kind \in Kinds, DeliverChange(kind) PROVE WakeInv'
  <2>1. UNCHANGED <<controller, boot, cluster, tracker, phase, used>>
    BY <1>4 DEF DeliverChange
  <2>2. Running /\ Running'
    BY <1>4 DEF DeliverChange, Running
  <2>3. queue \subseteq queue' /\ queue' \subseteq Users
    BY <1>4, <1>a, WokenAreOwners DEF DeliverChange, WakeTypes
  <2>4. WakeTypes'
    BY <1>4, <1>a, <2>1, <2>3 DEF WakeTypes, DeliverChange
  <2>5. RunnableTracks'
    BY <2>1, <2>2, <2>3 DEF WakeInv, RunnableTracks
  <2>6. ASSUME NEW o \in Users PROVE UpToDate(o)'
    <3>1. UpToDate(o)
      BY <2>2 DEF WakeInv
    <3>2. WillRead(o) => WillRead(o)'
      BY <2>1, <2>3 DEF WillRead
    <3>3. slipped'[o] = (slipped[o] \/ tracker[o] # Dependencies)
      BY <1>4 DEF DeliverChange
    <3>4. CASE controller # "runnable" /\ (slipped[o] = TRUE \/ tracker[o] # Dependencies)
      <4>1. slipped'[o] = TRUE
        BY <3>3, <3>4
      <4> QED BY <2>1, <3>4, <4>1 DEF UpToDate
    <3>5. CASE ~WillRead(o) /\ Agrees(o) /\ tracker[o] = Dependencies
      BY <1>4, <1>a, <3>5, UnwokenAgrees DEF UpToDate, WillRead
    <3>6. ~WillRead(o) /\ controller = "runnable" => tracker[o] = Dependencies
      BY <1>a, <2>2 DEF WillRead, WakeInv, RunnableTracks, WakeTypes, Phases
    <3> QED BY <3>1, <3>2, <3>4, <3>5, <3>6 DEF UpToDate
  <2> QED BY <2>2, <2>4, <2>5, <2>6 DEF WakeInv
<1>b. ASSUME NEW o \in Users, phase[o] # "idle" PROVE Running
  BY <1>b DEF WakeInv
<1>5. ASSUME NEW o \in Users, TakeOwner(o) PROVE WakeInv'
  <2> DEFINE p == IF controller = "runnable" THEN "clear" ELSE "read"
  <2>1. UpToDate(o)'
    BY <1>5, <1>a DEF TakeOwner, UpToDate, WillRead, WakeTypes
  <2>2. /\ p \in Phases /\ phase' = [phase EXCEPT ![o] = p] /\ Running
        /\ queue' = queue \ {o} /\ UNCHANGED <<controller, boot, cluster, seen, tracker, used, slipped>>
        /\ controller = "runnable" => p = "clear"
    BY <1>5 DEF TakeOwner, Phases
  <2> HIDE DEF p
  <2> QED BY <1>a, <2>1, <2>2, OneOwner DEF WakeTypes
<1>6. ASSUME NEW o \in Users, ReadAll(o) PROVE WakeInv'
  <2> DEFINE p == IF controller # "runnable" /\ ReadNow.account # Nil THEN "clear" ELSE "idle"
  <2>1. /\ p \in Phases /\ phase' = [phase EXCEPT ![o] = p] /\ phase[o] = "read" /\ Running
        /\ used' = [used EXCEPT ![o] = ReadNow]
        /\ slipped' = [slipped EXCEPT ![o] = tracker[o] # Dependencies]
        /\ queue \subseteq queue' /\ queue' \subseteq queue \cup {o}
        /\ UNCHANGED <<controller, boot, cluster, seen, tracker>>
    BY <1>6, <1>b DEF ReadAll, Phases
  <2>2. Agrees(o)'
    <3>1. used'[o] = ReadFrom(seen, Rights)
      BY <1>a, <2>1 DEF WakeTypes, ReadNow
    <3>2. used'[o] = ReadFrom(seen, Rights)'
      BY <2>1, <3>1 DEF ReadFrom, Rights, Right
    <3> QED BY <3>2 DEF Agrees, Views, Rights
  <2>3. UpToDate(o)'
    BY <2>2 DEF UpToDate
  <2>4. controller = "runnable" => tracker'[o] = Dependencies
    BY <2>1 DEF WakeInv, RunnableTracks
  <2>5. \A x \in Users \ {o} : used'[x] = used[x] /\ tracker'[x] = tracker[x] /\ (x \in queue' <=> x \in queue)
    BY <1>a, <2>1 DEF WakeTypes
  <2>6. \A x \in Users \ {o} : slipped'[x] = slipped[x]
    BY <1>a, <2>1 DEF WakeTypes
  <2>7. queue' \subseteq Users /\ DOMAIN tracker' = Users /\ DOMAIN used' = Users /\ DOMAIN slipped' = Users
    BY <1>a, <2>1 DEF WakeTypes
  <2> HIDE DEF p
  <2> QED BY <2>1, <2>3, <2>4, <2>5, <2>6, <2>7, OneOwner
<1>7. ASSUME NEW o \in Users, ClearDependencies(o) PROVE WakeInv'
  <2>1. /\ phase' = [phase EXCEPT ![o] = "track"] /\ phase[o] = "clear" /\ Running
        /\ tracker' = [tracker EXCEPT ![o] = {}]
        /\ UNCHANGED <<controller, boot, cluster, seen, queue, used, slipped>>
    BY <1>7, <1>b DEF ClearDependencies
  <2>2. phase'[o] = "track" /\ \A x \in Users \ {o} : tracker'[x] = tracker[x]
    BY <1>a, <2>1 DEF WakeTypes
  <2>3. UpToDate(o)'
    <3>1. UpToDate(o)
      BY <2>1 DEF WakeInv
    <3>2. WillRead(o) => WillRead(o)'
      BY <2>1, <2>2 DEF WillRead
    <3>3. Agrees(o) => Agrees(o)'
      BY <2>1, AgreesStable
    <3> QED BY <2>1, <3>1, <3>2, <3>3 DEF UpToDate
  <2>4. queue' \subseteq Users /\ DOMAIN tracker' = Users /\ DOMAIN used' = Users /\ DOMAIN slipped' = Users /\ "track" \in Phases
    BY <1>a, <2>1 DEF WakeTypes, Phases
  <2> QED BY <2>1, <2>2, <2>3, <2>4, OneOwner
<1>8. ASSUME NEW o \in Users, TrackDependencies(o) PROVE WakeInv'
  <2> DEFINE p == IF controller = "runnable" THEN "read" ELSE "idle"
  <2>1. /\ phase' = [phase EXCEPT ![o] = p] /\ phase[o] = "track" /\ Running
        /\ tracker' = [tracker EXCEPT ![o] = Dependencies] /\ p \in Phases
        /\ UNCHANGED <<controller, boot, cluster, seen, queue, used, slipped>>
    BY <1>8, <1>b DEF TrackDependencies, Phases
  <2>2. /\ phase'[o] = p /\ tracker'[o] = Dependencies
        /\ \A x \in Users \ {o} : tracker'[x] = tracker[x]
    BY <1>a, <2>1 DEF WakeTypes
  <2>3. UpToDate(o)'
    <3>1. UpToDate(o)
      BY <2>1 DEF WakeInv
    <3>2. WillRead(o) => WillRead(o)'
      BY <2>1, <2>2 DEF WillRead
    <3>3. Agrees(o) => Agrees(o)'
      BY <2>1, AgreesStable
    <3> QED BY <2>1, <3>1, <3>2, <3>3 DEF UpToDate
  <2>4. queue' \subseteq Users /\ DOMAIN tracker' = Users /\ DOMAIN used' = Users /\ DOMAIN slipped' = Users
    BY <1>a, <2>1 DEF WakeTypes
  <2> HIDE DEF p
  <2> QED BY <2>1, <2>2, <2>3, <2>4, OneOwner
<1>9. CASE UNCHANGED wakeVars
  <2>1. WakeTypes'
    BY <1>9, <1>a DEF wakeVars, WakeTypes
  <2>2. RunnableTracks => RunnableTracks'
    BY <1>9 DEF wakeVars, RunnableTracks
  <2>3. \A o \in Users : UpToDate(o) => UpToDate(o)'
    BY <1>9, AgreesStable DEF wakeVars, UpToDate, WillRead
  <2>4. (Running' <=> Running) /\ phase' = phase
    BY <1>9 DEF wakeVars, Running
  <2> QED BY <2>1, <2>2, <2>3, <2>4 DEF WakeInv
<1> QED BY <1>1, <1>2, <1>3, <1>4, <1>5, <1>6, <1>7, <1>8, <1>9 DEF WakeNext

(* Whoever has worked with something that has changed since is woken, or    *)
(* is a workload or a deliverable that news passed by while it tracked      *)
(* nothing.                                                                 *)
THEOREM UsersAreWoken == WakeSpec => []WakesUsers
<1>1. WakeInv => WakesUsers
  <2> SUFFICES ASSUME WakeInv, Running, seen = cluster, NEW o \in Users, o \notin queue, phase[o] = "idle"
               PROVE  used[o] = ReadNow \/ (controller # "runnable" /\ slipped[o])
    BY DEF WakesUsers
  <2>1. (controller # "runnable" /\ slipped[o] = TRUE) \/ Agrees(o)
    BY DEF WakeInv, UpToDate, WillRead
  <2>2. Agrees(o) => used[o] = ReadNow
    BY DEF Agrees, Views, ReadNow, Rights
  <2> QED BY <2>1, <2>2
<1> QED BY <1>1, WakeInitInv, WakeNextInv, PTL DEF WakeSpec
=============================================================================
