------------------------- MODULE DependencyTracker -------------------------
(***************************************************************************)
(* pkg/tracker/dependency/tracker.go: which owners (workloads, runnables,  *)
(* supply chains ...) must be reconciled when a key (a template, a service *)
(* account) changes.  An owner holds a lease on every key it depends on.   *)
(*                                                                         *)
(* The callers are modelled as far as they decide what the tracker holds:  *)
(* a reconciliation that reaches trackDependencies clears the owner and    *)
(* tracks its keys one by one (the reconcilers of supply chains and        *)
(* deliveries only track), one that returns early tracks nothing, one that *)
(* finds the owner deleted clears it.  Every call holds the tracker's      *)
(* mutex, so a call is one step; calls of different owners interleave.     *)
(***************************************************************************)
EXTENDS Naturals, FiniteSets

CONSTANTS
    Keys,       \* what can be depended on
    Owners,     \* what depends on it
    Resync,     \* utils.DefaultResyncTime: every owner is reconciled this often
    Lease,      \* leaseDuration given to NewDependencyTracker
    MaxClock    \* bound: the clock

ASSUME ResyncAssumption == Resync \in Nat \ {0}
\* Every SetupWithManager passes 2*utils.DefaultResyncTime.
ASSUME LeaseAssumption == Lease \in Nat /\ Lease >= 2 * Resync
ASSUME MaxClockAssumption == MaxClock \in Nat

VARIABLES
    mapping,    \* impl.mapping: key -> (owner -> expiry), both partial
    clock,      \* time.Now()
    todo,       \* owner -> keys its reconciliation has still to Track
    started,    \* owner -> when its latest reconciliation began
    missed,     \* owner -> how many reconciliations in a row, up to 2, tracked
                \* nothing
    deps,       \* owner -> keys its latest tracking reconciliation declared
    last,       \* history: <<key, owner>> -> time of the latest Track not cleared
    answer      \* what the latest Lookup returned

trackerVars == <<mapping, clock, todo, started, missed, deps, last, answer>>

Never == 0      \* no Track since the latest ClearTracked; the clock starts at 1

TrackerTypes ==
    /\ DOMAIN mapping \subseteq Keys
    /\ mapping = [k \in DOMAIN mapping |-> mapping[k]]
    /\ \A k \in DOMAIN mapping :
          /\ DOMAIN mapping[k] \subseteq Owners
          /\ mapping[k] \in [DOMAIN mapping[k] -> Nat]
    /\ clock \in Nat \ {0}
    /\ todo \in [Owners -> SUBSET Keys]
    /\ started \in [Owners -> Nat]
    /\ missed \in [Owners -> 0..2]
    /\ deps \in [Owners -> SUBSET Keys]
    /\ last \in [Keys \X Owners -> Nat]
    /\ answer \in SUBSET Owners

TrackerInit ==
    /\ mapping = [k \in {} |-> {}]
    /\ clock = 1
    /\ todo = [o \in Owners |-> {}]
    /\ started = [o \in Owners |-> 1]
    /\ missed = [o \in Owners |-> 0]
    /\ deps = [o \in Owners |-> {}]
    /\ last = [p \in Keys \X Owners |-> Never]
    /\ answer = {}

-----------------------------------------------------------------------------
\* Mutant: the lease is as long as the resync period.
ExpiryAfterResync == clock + Resync

Expiry == clock + Lease

\* Mutant: a lease ends one moment early.
IsExpiredAtOnce(expiry) == clock >= expiry

\* time.Now().After(expiry) is strict.
IsExpired(expiry) == clock > expiry

Without(s, gone) == [o \in DOMAIN s \ gone |-> s[o]]

\* Mutant: the last watcher of a key leaves an empty set behind.
PrunedKeepingEmpty(m, gone) == [k \in DOMAIN m |-> Without(m[k], gone[k])]

\* Mutant: the owner is only removed from keys somebody else watches too.
PrunedShared(m, gone) ==
    [k \in DOMAIN m |-> IF DOMAIN m[k] \subseteq gone[k] THEN m[k]
                        ELSE Without(m[k], gone[k])]

\* The watchers gone[k] of every key are removed and keys without watchers are deleted.
Pruned(m, gone) ==
    [k \in {x \in DOMAIN m : ~(DOMAIN m[x] \subseteq gone[x])} |->
        Without(m[k], gone[k])]

\* Mutant: key and owner change places.
TrackedSwapped(m, k, o, expiry) ==
    [x \in DOMAIN m \cup {o} |->
        IF x # o THEN m[x]
        ELSE [p \in (IF o \in DOMAIN m THEN DOMAIN m[o] ELSE {}) \cup {k} |->
                 IF p = k THEN expiry ELSE m[o][p]]]

Tracked(m, k, o, expiry) ==
    [x \in DOMAIN m \cup {k} |->
        IF x # k THEN m[x]
        ELSE [p \in (IF k \in DOMAIN m THEN DOMAIN m[k] ELSE {}) \cup {o} |->
                 IF p = o THEN expiry ELSE m[k][p]]]

Cleared(m, o) == Pruned(m, [k \in DOMAIN m |-> {o}])

Forgotten(o) == [p \in Keys \X Owners |-> IF p[2] = o THEN Never ELSE last[p]]

-----------------------------------------------------------------------------
Idle(o) == todo[o] = {}

\* trackDependencies of the workload, deliverable and runnable reconcilers:
\* ClearTracked, then one Track per key.
ClearTracked(o, ks) ==
    /\ Idle(o)
    /\ mapping' = Cleared(mapping, o)
    /\ last' = Forgotten(o)
    /\ todo' = [todo EXCEPT ![o] = ks]
    /\ deps' = [deps EXCEPT ![o] = ks]
    /\ started' = [started EXCEPT ![o] = clock]
    /\ missed' = [missed EXCEPT ![o] = 0]
    /\ UNCHANGED <<clock, answer>>

\* The supply chain and delivery reconcilers track without clearing first.
TrackMore(o, ks) ==
    /\ Idle(o)
    /\ todo' = [todo EXCEPT ![o] = ks]
    /\ deps' = [deps EXCEPT ![o] = ks]
    /\ started' = [started EXCEPT ![o] = clock]
    /\ missed' = [missed EXCEPT ![o] = 0]
    /\ UNCHANGED <<mapping, clock, last, answer>>

Track(k, o) ==
    /\ k \in todo[o]
    /\ mapping' = Tracked(mapping, k, o, Expiry)
    /\ last' = [last EXCEPT ![<<k, o>>] = clock]
    /\ todo' = [todo EXCEPT ![o] = @ \ {k}]
    /\ UNCHANGED <<clock, started, missed, deps, answer>>

\* A reconciliation that returns before trackDependencies: no matching supply
\* chain, the supply chain is not ready, no service account, no token.
ReturnEarly(o) ==
    /\ Idle(o)
    /\ started' = [started EXCEPT ![o] = clock]
    /\ missed' = [missed EXCEPT ![o] = IF @ = 2 THEN 2 ELSE @ + 1]
    /\ UNCHANGED <<mapping, clock, todo, deps, last, answer>>

\* A reconciliation that finds its owner deleted.
OwnerGone(o) ==
    /\ Idle(o)
    /\ mapping' = Cleared(mapping, o)
    /\ last' = Forgotten(o)
    /\ deps' = [deps EXCEPT ![o] = {}]
    /\ started' = [started EXCEPT ![o] = clock]
    /\ missed' = [missed EXCEPT ![o] = 0]
    /\ UNCHANGED <<clock, todo, answer>>

\* An informer event for k: EnqueueTracked or a mapper asks whom to enqueue.
Lapsed(k) == {o \in DOMAIN mapping[k] : IsExpired(mapping[k][o])}

Lookup(k) ==
    /\ answer' = IF k \in DOMAIN mapping
                 THEN DOMAIN mapping[k] \ Lapsed(k) ELSE {}
    /\ mapping' = Pruned(mapping, [x \in DOMAIN mapping |-> IF x = k THEN Lapsed(k) ELSE {}])
    /\ UNCHANGED <<clock, todo, started, missed, deps, last>>

\* Time passes, but the periodic resync has started a reconciliation of every
\* owner by the time it is due, and that one has finished before the next.
ClockTicks ==
    /\ clock < MaxClock
    /\ \A o \in Owners : clock < started[o] + Resync
    /\ clock' = clock + 1
    /\ UNCHANGED <<mapping, todo, started, missed, deps, last, answer>>

TrackerNext ==
    \/ \E o \in Owners, ks \in SUBSET Keys : ClearTracked(o, ks) \/ TrackMore(o, ks)
    \/ \E k \in Keys, o \in Owners : Track(k, o)
    \/ \E o \in Owners : ReturnEarly(o) \/ OwnerGone(o)
    \/ \E k \in Keys : Lookup(k)
    \/ ClockTicks

TrackerSpec == TrackerInit /\ [][TrackerNext]_trackerVars

-----------------------------------------------------------------------------
(* Lookup returns exactly the owners whose lease on the key has not run    *)
(* out: every Track since the owner was last cleared counts, up to and     *)
(* including the moment the lease ends, whatever other owners, keys and    *)
(* earlier lookups did to the map.                                         *)
LookupIsExact ==
    [][\A k \in Keys : Lookup(k) =>
          answer' = {o \in Owners :
                        last[<<k, o>>] # Never /\ clock <= last[<<k, o>>] + Lease}]_trackerVars

(* No key is left with an empty set of watchers: what the tracker holds is *)
(* bounded by what is watched, however many templates come and go.         *)
NoEmptySets == \A k \in DOMAIN mapping : DOMAIN mapping[k] # {}

(* After a deleted owner was reconciled (OwnerGone) or a clearing owner    *)
(* gave up a key, nothing is left that would still enqueue it.             *)
ClearedLeavesNoTrace ==
    \A k \in DOMAIN mapping, o \in Owners :
        o \in DOMAIN mapping[k] => last[<<k, o>>] # Never

(* A lease of two resync periods survives one reconciliation that returned *)
(* before trackDependencies: between reconciliations every dependency of   *)
(* such an owner is still found.                                           *)
DependenciesStayTracked ==
    \A o \in Owners : (Idle(o) /\ missed[o] <= 1) =>
        \A k \in deps[o] :
            /\ k \in DOMAIN mapping
            /\ o \in DOMAIN mapping[k]
            /\ ~IsExpired(mapping[k][o])
=============================================================================
