------------------------------ MODULE WakeUps ------------------------------
(***************************************************************************)
(* Who is reconciled again when something in the cluster changes: the      *)
(* manager and its watches (pkg/cmd, the SetupWithManager of the           *)
(* controllers), the mapper (pkg/mapper) and the enqueuer (pkg/enqueuer).  *)
(*                                                                         *)
(* A behaviour follows one controller and its owners, which all use the    *)
(* service account and the template named here.  An object of the cluster  *)
(* is Nil when it does not exist, and else [ver, subjects, ref]: of a      *)
(* binding, whom it names and the role it grants.                          *)
(***************************************************************************)
EXTENDS Integers, Sequences, Optional

CONSTANTS
    Users,       \* the owners of the controller
    MaxChanges   \* bound: changes in the cluster

\* What there may be in the cluster.  A template and a blueprint stand for the
\* kinds that the controller watches.
Kinds == {"ServiceAccount", "RoleBinding", "ClusterRoleBinding", "Role", "ClusterRole", "Template", "Blueprint"}
Bindings == {"RoleBinding", "ClusterRoleBinding"}
Controllers == {"workload", "deliverable", "runnable"}

VARIABLES
    controller,  \* the one that is followed
    boot,        \* how far Execute has come
    cluster,     \* the objects at the API server, one of each kind
    seen,        \* the objects in the informer caches
    changes,     \* the number of changes so far
    tracker,     \* by owner: the kinds whose object it tracks
    queue,       \* the owners to be reconciled
    phase,       \* by owner: where its reconciliation is
    used,        \* by owner: what its last reconciliation has read
    slipped      \* by owner: an event came after that, while it tracked nothing

wakeVars == <<controller, boot, cluster, seen, changes, tracker, queue, phase, used, slipped>>

-----------------------------------------------------------------------------
\* main and Execute, step by step; main panics when one fails.
SetLogLevel == <<"logger">>
AddToScheme == <<"client-go", "v1alpha1">>
RegisterControllers == <<"workload", "supplychain", "deliverable", "delivery", "runnable">>
BootSteps ==
    SetLogLevel \o <<"config">> \o AddToScheme \o <<"manager">> \o RegisterControllers \o <<"webhooks", "start">>

Running == boot = Len(BootSteps)

\* A subject is [group, kind, ns, name]; the account of the owners is dev/app.
Subject(kind, name) == [group |-> IF kind = "ServiceAccount" THEN "" ELSE "rbac", kind |-> kind,
                        ns |-> IF kind = "ServiceAccount" THEN "dev" ELSE "", name |-> name]
Account == [ns |-> "dev", name |-> "app"]

\* The API server fills in the group of a role reference.
RoleRef(kind) == [group |-> "rbac.authorization.k8s.io", kind |-> kind, name |-> "admin"]

Object(kind, ver, subjects) ==
    [ver |-> ver, subjects |-> subjects,
     ref |-> CASE kind = "RoleBinding"        -> RoleRef("Role")
               [] kind = "ClusterRoleBinding" -> RoleRef("ClusterRole")
               [] OTHER                       -> Nil]

\* What an owner tracks: its account and its template.
Dependencies == {"ServiceAccount", "Template"}

WakeInit ==
    /\ controller \in Controllers /\ boot = 0
    /\ cluster = [k \in Kinds |-> Object(k, 0, IF k = "RoleBinding" THEN {Subject("ServiceAccount", "app")} ELSE {})]
    /\ seen = [k \in Kinds |-> Nil] /\ changes = 0
    /\ tracker = [o \in Users |-> {}] /\ queue = {}
    /\ phase = [o \in Users |-> "idle"] /\ used = [o \in Users |-> Nil]
    /\ slipped = [o \in Users |-> FALSE]

-----------------------------------------------------------------------------
\* Lookup of the controller's tracker.
TrackedBy(kind) == {o \in Users : kind \in tracker[o]}

\* getServiceAccounts: an account that the cache does not have is an empty
\* object, which nobody tracks.  A subject without a namespace is in default.
Names(subject) ==
    /\ subject.group = "" /\ subject.kind = "ServiceAccount"
    /\ Account = [ns |-> IF subject.ns # "" THEN subject.ns ELSE "default", name |-> subject.name]

\* Mutation: the subjects of a cluster role binding are not looked at.
BindingRequestsNamespaced(kind, binding) ==
    IF kind = "RoleBinding" /\ binding # Nil /\ seen["ServiceAccount"] # Nil
       /\ \E s \in binding.subjects : Names(s)
    THEN TrackedBy("ServiceAccount") ELSE {}

BindingRequests(kind, binding) ==
    IF binding # Nil /\ seen["ServiceAccount"] # Nil /\ \E s \in binding.subjects : Names(s)
    THEN TrackedBy("ServiceAccount") ELSE {}

\* The bindings that grant a role; the group has to be empty.
Grants(binding, roleKind) ==
    binding # Nil /\ binding.ref.group = "" /\ binding.ref.kind = roleKind /\ binding.ref.name = "admin"

RoleRequests(roleKind) ==
    UNION {BindingRequests(b, seen[b]) :
             b \in {k \in IF roleKind = "Role" THEN {"RoleBinding"} ELSE Bindings : Grants(seen[k], roleKind)}}

\* The map functions of the three controllers: who is woken by an event about
\* an object, given the object.  An object that is Nil has no event.
WorkloadRequests(kind, object) ==
    CASE object = Nil -> {}
      [] object # Nil /\ kind = "Blueprint"            -> Users
      [] object # Nil /\ kind = "ServiceAccount"       -> TrackedBy(kind)
      [] object # Nil /\ kind \in Bindings             -> BindingRequests(kind, object)
      [] object # Nil /\ kind \in {"Role", "ClusterRole"} -> RoleRequests(kind)

DeliverableRequests(kind, object) ==
    CASE object = Nil -> {}
      [] object # Nil /\ kind = "Blueprint"            -> Users
      [] object # Nil /\ kind = "ServiceAccount"       -> TrackedBy(kind)
      [] object # Nil /\ kind \in Bindings             -> BindingRequests(kind, object)
      [] object # Nil /\ kind \in {"Role", "ClusterRole"} -> RoleRequests(kind)

RunnableRequests(kind, object) ==
    CASE object = Nil -> {}
      [] object # Nil /\ kind = "ServiceAccount"       -> TrackedBy(kind)
      [] object # Nil /\ kind \in Bindings             -> BindingRequests(kind, object)
      [] object # Nil /\ kind \in {"Role", "ClusterRole"} -> RoleRequests(kind)

\* EnqueueTracked.
EnqueueTracked(kind, object) == IF object = Nil THEN {} ELSE TrackedBy(kind)

\* The watches of the controllers.
WorkloadWatches(kind, object) ==
    IF kind = "Template" THEN EnqueueTracked(kind, object) ELSE WorkloadRequests(kind, object)
DeliverableWatches(kind, object) ==
    IF kind = "Template" THEN EnqueueTracked(kind, object) ELSE DeliverableRequests(kind, object)
RunnableWatches(kind, object) ==
    CASE kind = "Template"  -> EnqueueTracked(kind, object)
      [] kind = "Blueprint" -> {}
      [] OTHER              -> RunnableRequests(kind, object)

Woken(kind, object) ==
    CASE controller = "workload"    -> WorkloadWatches(kind, object)
      [] controller = "deliverable" -> DeliverableWatches(kind, object)
      [] controller = "runnable"    -> RunnableWatches(kind, object)

-----------------------------------------------------------------------------
\* One step of Execute.  When the manager starts, the informer caches are
\* filled before the first reconciliation, and every owner is new.
BootStep ==
    /\ ~Running
    /\ boot' = boot + 1
    /\ IF boot + 1 = Len(BootSteps) THEN seen' = cluster /\ queue' = Users ELSE UNCHANGED <<seen, queue>>
    /\ UNCHANGED <<controller, cluster, changes, tracker, phase, used, slipped>>

\* A step of Execute fails, or the process dies, and it is started again.
Crash ==
    /\ boot' = 0
    /\ seen' = [k \in Kinds |-> Nil]
    /\ tracker' = [o \in Users |-> {}] /\ queue' = {} /\ phase' = [o \in Users |-> "idle"]
    /\ UNCHANGED <<controller, cluster, changes, used, slipped>>

\* Somebody creates, updates or deletes an object.  An informer gets the changes
\* of a kind one after the other: at most one is on its way (a bound).
ChangeCluster ==
    /\ Running /\ changes < MaxChanges
    /\ changes' = changes + 1
    /\ \E kind \in {k \in Kinds : seen[k] = cluster[k]} :
         \/ \E subjects \in IF kind \in Bindings
                            THEN {{}, {Subject("ServiceAccount", "app")}, {Subject("User", "app")},
                                  {Subject("ServiceAccount", "other"), Subject("ServiceAccount", "app")}}
                            ELSE {{}} :
              cluster' = [cluster EXCEPT ![kind] = Object(kind, changes + 1, subjects)]
         \/ cluster[kind] # Nil /\ cluster' = [cluster EXCEPT ![kind] = Nil]
    /\ UNCHANGED <<controller, boot, seen, tracker, queue, phase, used, slipped>>

\* An informer gets the news of one kind; the map function is called with the
\* object before and after an update.
DeliverChange(kind) ==
    /\ Running /\ seen[kind] # cluster[kind]
    /\ seen' = [seen EXCEPT ![kind] = cluster[kind]]
    /\ queue' = queue \cup Woken(kind, seen[kind]) \cup Woken(kind, cluster[kind])
    /\ slipped' = [o \in Users |-> slipped[o] \/ tracker[o] # Dependencies]
    /\ UNCHANGED <<controller, boot, cluster, changes, tracker, phase, used>>

\* A worker takes an owner from the queue.
TakeOwner(o) ==
    /\ Running /\ o \in queue /\ phase[o] = "idle"
    /\ queue' = queue \ {o}
    /\ phase' = [phase EXCEPT ![o] = IF controller = "runnable" THEN "clear" ELSE "read"]
    /\ UNCHANGED <<controller, boot, cluster, seen, changes, tracker, used, slipped>>

\* The rights of the account: the bindings that name it.
Right(b, binding) ==
    IF binding # Nil /\ \E s \in binding.subjects : Names(s) THEN {<<b, binding.ver>>} ELSE {}
Rights == Right("RoleBinding", cluster["RoleBinding"]) \cup Right("ClusterRoleBinding", cluster["ClusterRoleBinding"])

\* What a reconciliation reads: the blueprint, unless the owner is a runnable,
\* the account and the template from the informer caches, and the rights when
\* it submits objects.  What is missing ends it.
Version(object) == IF object = Nil THEN Nil ELSE object.ver
ReadFrom(view, rights) ==
    LET blueprint == IF controller = "runnable" THEN Nil ELSE view["Blueprint"]
        found     == controller = "runnable" \/ blueprint # Nil
        allowed   == found /\ view["ServiceAccount"] # Nil
    IN [blueprint |-> IF found THEN Version(blueprint) ELSE Nil,
        account   |-> IF allowed THEN Version(view["ServiceAccount"]) ELSE Nil,
        template  |-> IF allowed THEN Version(view["Template"]) ELSE Nil,
        rights    |-> IF allowed /\ view["Template"] # Nil THEN rights ELSE {}]
ReadNow == ReadFrom(seen, Rights)

\* A missing template is an unhandled error: the owner is queued again.  A
\* missing blueprint or account is handled, and a workload or a deliverable
\* then returns before it tracks anything.
ReadAll(o) ==
    /\ phase[o] = "read"
    /\ used' = [used EXCEPT ![o] = ReadNow]
    /\ slipped' = [slipped EXCEPT ![o] = tracker[o] # Dependencies]
    /\ queue' = IF ReadNow.account # Nil /\ ReadNow.template = Nil THEN queue \cup {o} ELSE queue
    /\ phase' = [phase EXCEPT ![o] = IF controller # "runnable" /\ ReadNow.account # Nil THEN "clear" ELSE "idle"]
    /\ UNCHANGED <<controller, boot, cluster, seen, changes, tracker>>

\* trackDependencies: ClearTracked, then Track.
ClearDependencies(o) ==
    /\ phase[o] = "clear"
    /\ tracker' = [tracker EXCEPT ![o] = {}]
    /\ phase' = [phase EXCEPT ![o] = "track"]
    /\ UNCHANGED <<controller, boot, cluster, seen, changes, queue, used, slipped>>

TrackDependencies(o) ==
    /\ phase[o] = "track"
    /\ tracker' = [tracker EXCEPT ![o] = Dependencies]
    /\ phase' = [phase EXCEPT ![o] = IF controller = "runnable" THEN "read" ELSE "idle"]
    /\ UNCHANGED <<controller, boot, cluster, seen, changes, queue, used, slipped>>

WakeNext ==
    \/ BootStep \/ Crash \/ ChangeCluster
    \/ \E kind \in Kinds : DeliverChange(kind)
    \/ \E o \in Users : TakeOwner(o) \/ ReadAll(o) \/ ClearDependencies(o) \/ TrackDependencies(o)

WakeSpec == WakeInit /\ [][WakeNext]_wakeVars
-----------------------------------------------------------------------------
\* When all news have arrived and nobody is to be reconciled, an owner has last
\* worked with the blueprint, the account, the template and the bindings of the
\* account as they are now.  A runnable always, as it tracks its dependencies
\* before it reads them; a workload or a deliverable unless news came after it
\* had read and while it tracked nothing (the map functions, EnqueueTracked and
\* trackDependencies of the three reconcilers).  The contents of roles are not
\* part of it: no binding of the API server has a role reference with an empty
\* group, so that the map functions of roles wake nobody.
WakesUsers ==
    Running /\ seen = cluster =>
        \A o \in Users :
            o \notin queue /\ phase[o] = "idle" =>
                used[o] = ReadNow \/ (controller # "runnable" /\ slipped[o])
=============================================================================
