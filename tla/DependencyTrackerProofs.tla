---------------------- MODULE DependencyTrackerProofs ----------------------
(* Proofs that the dependency tracker answers exactly, holds no garbage and *)
(* keeps the dependencies of a regularly reconciled owner, for any sets of  *)
(* keys and owners and any lease of at least two resync periods.            *)
EXTENDS DependencyTracker, TLAPS

Holds(k, o) == k \in DOMAIN mapping /\ o \in DOMAIN mapping[k]

(* Every entry carries the expiry of the latest Track; what is missing was  *)
(* never tracked, was cleared, or has expired.                              *)
Leased ==
    \A k \in Keys, o \in Owners :
        /\ last[<<k, o>>] <= clock
        /\ Holds(k, o) => /\ last[<<k, o>>] # Never
                          /\ mapping[k][o] = last[<<k, o>>] + Lease
        /\ (last[<<k, o>>] # Never /\ ~Holds(k, o)) => clock > last[<<k, o>>] + Lease

(* How old a lease can be between two reconciliations of its owner.         *)
Regular ==
    \A o \in Owners :
        /\ started[o] >= 1
        /\ started[o] <= clock
        /\ clock <= started[o] + Resync
        /\ todo[o] # {} => missed[o] = 0
        /\ \A k \in deps[o] \ todo[o] :
              /\ missed[o] = 0 => last[<<k, o>>] >= started[o]
              /\ missed[o] = 1 => /\ last[<<k, o>>] # Never
                                  /\ last[<<k, o>>] + Resync >= started[o]

(* The inductive invariant.                                                 *)
IInv == TrackerTypes /\ NoEmptySets /\ Leased /\ Regular

-----------------------------------------------------------------------------
(* What a map looks like; the part of TypeOK about mapping.                 *)
IsMap(m) ==
    /\ DOMAIN m \subseteq Keys
    /\ m = [k \in DOMAIN m |-> m[k]]
    /\ \A k \in DOMAIN m : /\ DOMAIN m[k] \subseteq Owners
                           /\ m[k] \in [DOMAIN m[k] -> Nat]

(* Removing watchers keeps the others and leaves no empty set.              *)
LEMMA PrunedProperties ==
    ASSUME NEW m, IsMap(m), NEW gone
    PROVE  LET p == Pruned(m, gone) IN
           /\ IsMap(p)
           /\ \A k \in DOMAIN p : DOMAIN p[k] # {}
           /\ \A k, o : (k \in DOMAIN p /\ o \in DOMAIN p[k])
                 <=> (k \in DOMAIN m /\ o \in DOMAIN m[k] /\ o \notin gone[k])
           /\ \A k \in DOMAIN p : \A o \in DOMAIN p[k] : p[k][o] = m[k][o]
<1> DEFINE p == Pruned(m, gone)
           D == {x \in DOMAIN m : ~(DOMAIN m[x] \subseteq gone[x])}
<1>1. DOMAIN p = D /\ p = [k \in D |-> Without(m[k], gone[k])]
  BY DEF Pruned
<1>2. \A k \in D : p[k] = [o \in DOMAIN m[k] \ gone[k] |-> m[k][o]]
  BY <1>1 DEF Without
<1> HIDE DEF p
<1>3. \A k \in D : /\ DOMAIN p[k] = DOMAIN m[k] \ gone[k]
                   /\ \A o \in DOMAIN p[k] : p[k][o] = m[k][o]
  BY <1>2
<1>4. \A k \in D : p[k] \in [DOMAIN p[k] -> Nat] /\ DOMAIN p[k] \subseteq Owners
  <2> SUFFICES ASSUME NEW k \in D
               PROVE  p[k] \in [DOMAIN p[k] -> Nat] /\ DOMAIN p[k] \subseteq Owners
    OBVIOUS
  <2>1. m[k] \in [DOMAIN m[k] -> Nat] /\ DOMAIN m[k] \subseteq Owners
    BY DEF IsMap
  <2>2. \A o \in DOMAIN m[k] : m[k][o] \in Nat
    BY <2>1
  <2>3. [o \in DOMAIN m[k] \ gone[k] |-> m[k][o]] \in [DOMAIN m[k] \ gone[k] -> Nat]
    BY <2>2
  <2> QED BY <2>1, <2>3, <1>2, <1>3
<1>5. IsMap(p)
  BY <1>1, <1>4 DEF IsMap
<1>6. \A k \in DOMAIN p : DOMAIN p[k] # {}
  BY <1>1, <1>3
<1>7. \A k, o : (k \in DOMAIN p /\ o \in DOMAIN p[k])
          <=> (k \in DOMAIN m /\ o \in DOMAIN m[k] /\ o \notin gone[k])
  BY <1>1, <1>3
<1> QED BY <1>1, <1>3, <1>5, <1>6, <1>7 DEF p

(* Tracking adds one watcher and keeps the others.                          *)
LEMMA TrackedProperties ==
    ASSUME NEW m, IsMap(m), \A x \in DOMAIN m : DOMAIN m[x] # {},
           NEW k \in Keys, NEW o \in Owners, NEW e \in Nat
    PROVE  LET t == Tracked(m, k, o, e) IN
           /\ IsMap(t)
           /\ \A x \in DOMAIN t : DOMAIN t[x] # {}
           /\ \A x, p : (x \in DOMAIN t /\ p \in DOMAIN t[x])
                 <=> ((x \in DOMAIN m /\ p \in DOMAIN m[x]) \/ (x = k /\ p = o))
           /\ \A x \in DOMAIN t : \A p \in DOMAIN t[x] :
                 t[x][p] = IF x = k /\ p = o THEN e ELSE m[x][p]
<1> DEFINE t == Tracked(m, k, o, e)
           W == (IF k \in DOMAIN m THEN DOMAIN m[k] ELSE {}) \cup {o}
           w == [p \in W |-> IF p = o THEN e ELSE m[k][p]]
<1>1. t = [x \in DOMAIN m \cup {k} |-> IF x # k THEN m[x] ELSE w]
  BY DEF Tracked
<1>2. w \in [W -> Nat] /\ W \subseteq Owners /\ W # {}
  BY DEF IsMap
<1>3. \A p \in W : w[p] = IF p = o THEN e ELSE m[k][p]
  OBVIOUS
<1>10. \A p : p \in W <=> ((k \in DOMAIN m /\ p \in DOMAIN m[k]) \/ p = o)
  OBVIOUS
<1>11. DOMAIN w = W
  OBVIOUS
<1> HIDE DEF w, W, t
<1>4. DOMAIN t = DOMAIN m \cup {k}
  BY <1>1
<1>5. t[k] = w /\ \A x \in DOMAIN m : x # k => t[x] = m[x]
  BY <1>1
<1>6. IsMap(t)
  <2>1. t = [x \in DOMAIN t |-> t[x]]
    BY <1>1, <1>4
  <2>2. \A x \in DOMAIN t : DOMAIN t[x] \subseteq Owners /\ t[x] \in [DOMAIN t[x] -> Nat]
    BY <1>2, <1>4, <1>5, <1>11 DEF IsMap
  <2> QED BY <2>1, <2>2, <1>4 DEF IsMap
<1>7. \A x \in DOMAIN t : DOMAIN t[x] # {}
  BY <1>2, <1>4, <1>5, <1>11
<1>8. \A x, p : (x \in DOMAIN t /\ p \in DOMAIN t[x])
          <=> ((x \in DOMAIN m /\ p \in DOMAIN m[x]) \/ (x = k /\ p = o))
  BY <1>4, <1>5, <1>10, <1>11
<1>9. \A x \in DOMAIN t : \A p \in DOMAIN t[x] :
          t[x][p] = IF x = k /\ p = o THEN e ELSE m[x][p]
  BY <1>3, <1>4, <1>5, <1>11
<1> QED BY <1>6, <1>7, <1>8, <1>9 DEF t

-----------------------------------------------------------------------------
\* The empty tracker satisfies the inductive invariant.
LEMMA InitIInv == TrackerInit => IInv
<1> SUFFICES ASSUME TrackerInit PROVE IInv
  OBVIOUS
<1>1. DOMAIN mapping = {} /\ mapping = [k \in {} |-> {}]
  BY DEF TrackerInit
<1>2. TrackerTypes
  BY <1>1 DEF TrackerInit, TrackerTypes, Never
<1>3. NoEmptySets
  BY <1>1 DEF NoEmptySets
<1>4. Leased
  BY <1>1 DEF Leased, TrackerInit, Never, Holds
<1>5. Regular
  BY ResyncAssumption DEF Regular, TrackerInit
<1> QED BY <1>2, <1>3, <1>4, <1>5 DEF IInv

\* A well typed mapping is a map of maps, the form the lemmas on removal
\* take.
LEMMA MappingIsMap == ASSUME TrackerTypes PROVE IsMap(mapping)
BY DEF TrackerTypes, IsMap

(* ClearTracked of one owner, in ClearTracked and in OwnerGone alike.       *)
LEMMA ClearingKeeps ==
    ASSUME IInv, NEW o \in Owners, mapping' = Cleared(mapping, o),
           last' = Forgotten(o), clock' = clock
    PROVE  /\ IsMap(mapping')
           /\ NoEmptySets'
           /\ Leased'
           /\ last' \in [Keys \X Owners -> Nat]
           /\ \A k \in Keys, p \in Owners : p # o => last'[<<k, p>>] = last[<<k, p>>]
<1>1. IsMap(mapping)
  BY MappingIsMap DEF IInv
<1> DEFINE gone == [k \in DOMAIN mapping |-> {o}]
<1>2. mapping' = Pruned(mapping, gone)
  BY DEF Cleared
<1>3. \A k \in DOMAIN mapping : \A p : p \notin gone[k] <=> p # o
  OBVIOUS
<1> HIDE DEF gone
<1>4. /\ IsMap(mapping')
      /\ \A k \in DOMAIN mapping' : DOMAIN mapping'[k] # {}
      /\ \A k, p : (k \in DOMAIN mapping' /\ p \in DOMAIN mapping'[k])
            <=> (k \in DOMAIN mapping /\ p \in DOMAIN mapping[k] /\ p \notin gone[k])
      /\ \A k \in DOMAIN mapping' : \A p \in DOMAIN mapping'[k] :
            mapping'[k][p] = mapping[k][p]
  BY <1>1, <1>2, PrunedProperties
<1>5. last \in [Keys \X Owners -> Nat]
  BY DEF IInv, TrackerTypes
<1>6. \A k \in Keys, p \in Owners :
         last'[<<k, p>>] = IF p = o THEN Never ELSE last[<<k, p>>]
  BY <1>5 DEF Forgotten
<1>7. last' \in [Keys \X Owners -> Nat]
  BY <1>5 DEF Forgotten, Never
<1>8. Leased'
  <2> SUFFICES ASSUME NEW k \in Keys, NEW p \in Owners
               PROVE  /\ last'[<<k, p>>] <= clock
                      /\ Holds(k, p)' => /\ last'[<<k, p>>] # Never
                                         /\ mapping'[k][p] = last'[<<k, p>>] + Lease
                      /\ (last'[<<k, p>>] # Never /\ ~Holds(k, p)')
                             => clock > last'[<<k, p>>] + Lease
    BY DEF Leased, Holds, Never
  <2>1. clock \in Nat
    BY DEF IInv, TrackerTypes
  <2>2. CASE p = o
    BY <2>1, <2>2, <1>3, <1>4, <1>6 DEF Holds, Never
  <2>3. CASE p # o
    <3>1. last'[<<k, p>>] = last[<<k, p>>]
      BY <2>3, <1>6
    <3>2. Holds(k, p)' <=> Holds(k, p)
      BY <2>3, <1>3, <1>4 DEF Holds
    <3>3. Holds(k, p)' => mapping'[k][p] = mapping[k][p]
      BY <1>4 DEF Holds
    <3> QED BY <3>1, <3>2, <3>3 DEF IInv, Leased
  <2> QED BY <2>2, <2>3
<1> QED BY <1>4, <1>6, <1>7, <1>8 DEF NoEmptySets

\* ClearTracked (tracker.go:164-175) preserves the invariant: the owner's
\* entries go, emptied sets with them, and no other owner's.
LEMMA ClearTrackedIInv ==
    ASSUME IInv, NEW o \in Owners, NEW ks \in SUBSET Keys, ClearTracked(o, ks)
    PROVE  IInv'
<1>1. /\ IsMap(mapping') /\ NoEmptySets' /\ Leased'
      /\ last' \in [Keys \X Owners -> Nat]
      /\ \A k \in Keys, p \in Owners : p # o => last'[<<k, p>>] = last[<<k, p>>]
  BY ClearingKeeps DEF ClearTracked
<1>2. TrackerTypes /\ Regular
  BY DEF IInv
<1>3. TrackerTypes'
  BY <1>1, <1>2 DEF TrackerTypes, ClearTracked, IsMap
<1>4. Regular'
  <2> SUFFICES ASSUME NEW p \in Owners
      PROVE /\ started'[p] >= 1
            /\ started'[p] <= clock
            /\ clock <= started'[p] + Resync
            /\ todo'[p] # {} => missed'[p] = 0
            /\ \A k \in deps'[p] \ todo'[p] :
                  /\ missed'[p] = 0 => last'[<<k, p>>] >= started'[p]
                  /\ missed'[p] = 1 => /\ last'[<<k, p>>] # Never
                                       /\ last'[<<k, p>>] + Resync >= started'[p]
    BY DEF Regular, ClearTracked, Never
  <2>1. CASE p = o
    <3>1. started'[p] = clock /\ missed'[p] = 0 /\ todo'[p] = ks /\ deps'[p] = ks
      BY <2>1, <1>2 DEF ClearTracked, TrackerTypes
    <3>2. clock \in Nat \ {0}
      BY <1>2 DEF TrackerTypes
    <3> QED BY <3>1, <3>2, ResyncAssumption
  <2>2. CASE p # o
    <3>1. /\ started'[p] = started[p] /\ missed'[p] = missed[p]
          /\ todo'[p] = todo[p] /\ deps'[p] = deps[p] /\ deps[p] \subseteq Keys
      BY <2>2, <1>2 DEF ClearTracked, TrackerTypes
    <3> QED BY <3>1, <2>2, <1>1, <1>2 DEF Regular
  <2> QED BY <2>1, <2>2
<1> QED BY <1>1, <1>3, <1>4 DEF IInv

\* Forgetting a deleted owner preserves the invariant.
LEMMA OwnerGoneIInv ==
    ASSUME IInv, NEW o \in Owners, OwnerGone(o)
    PROVE  IInv'
<1>1. /\ IsMap(mapping') /\ NoEmptySets' /\ Leased'
      /\ last' \in [Keys \X Owners -> Nat]
      /\ \A k \in Keys, p \in Owners : p # o => last'[<<k, p>>] = last[<<k, p>>]
  BY ClearingKeeps DEF OwnerGone
<1>2. TrackerTypes /\ Regular
  BY DEF IInv
<1>3. TrackerTypes'
  BY <1>1, <1>2 DEF TrackerTypes, OwnerGone, IsMap
<1>4. Regular'
  <2> SUFFICES ASSUME NEW p \in Owners
      PROVE /\ started'[p] >= 1
            /\ started'[p] <= clock
            /\ clock <= started'[p] + Resync
            /\ todo'[p] # {} => missed'[p] = 0
            /\ \A k \in deps'[p] \ todo'[p] :
                  /\ missed'[p] = 0 => last'[<<k, p>>] >= started'[p]
                  /\ missed'[p] = 1 => /\ last'[<<k, p>>] # Never
                                       /\ last'[<<k, p>>] + Resync >= started'[p]
    BY DEF Regular, OwnerGone, Never
  <2>1. CASE p = o
    <3>1. started'[p] = clock /\ missed'[p] = 0 /\ todo'[p] = {} /\ deps'[p] = {}
      BY <2>1, <1>2 DEF OwnerGone, TrackerTypes, Idle
    <3>2. clock \in Nat \ {0}
      BY <1>2 DEF TrackerTypes
    <3> QED BY <3>1, <3>2, ResyncAssumption
  <2>2. CASE p # o
    <3>1. /\ started'[p] = started[p] /\ missed'[p] = missed[p]
          /\ todo'[p] = todo[p] /\ deps'[p] = deps[p] /\ deps[p] \subseteq Keys
      BY <2>2, <1>2 DEF OwnerGone, TrackerTypes
    <3> QED BY <3>1, <2>2, <1>1, <1>2 DEF Regular
  <2> QED BY <2>1, <2>2
<1> QED BY <1>1, <1>3, <1>4 DEF IInv

(* A reconciliation that leaves the map alone: TrackMore and ReturnEarly.   *)
LEMMA TrackMoreIInv ==
    ASSUME IInv, NEW o \in Owners, NEW ks \in SUBSET Keys, TrackMore(o, ks)
    PROVE  IInv'
<1>1. TrackerTypes /\ NoEmptySets /\ Leased /\ Regular
  BY DEF IInv
<1>2. mapping' = mapping /\ last' = last /\ clock' = clock
  BY DEF TrackMore
<1>3. TrackerTypes'
  BY <1>1 DEF TrackerTypes, TrackMore
<1>4. NoEmptySets' /\ Leased'
  BY <1>1, <1>2 DEF NoEmptySets, Leased, Holds
<1>5. Regular'
  <2> SUFFICES ASSUME NEW p \in Owners
      PROVE /\ started'[p] >= 1
            /\ started'[p] <= clock
            /\ clock <= started'[p] + Resync
            /\ todo'[p] # {} => missed'[p] = 0
            /\ \A k \in deps'[p] \ todo'[p] :
                  /\ missed'[p] = 0 => last[<<k, p>>] >= started'[p]
                  /\ missed'[p] = 1 => /\ last[<<k, p>>] # Never
                                       /\ last[<<k, p>>] + Resync >= started'[p]
    BY <1>2 DEF Regular, Never
  <2>1. CASE p = o
    <3>1. started'[p] = clock /\ missed'[p] = 0 /\ todo'[p] = ks /\ deps'[p] = ks
      BY <2>1, <1>1 DEF TrackMore, TrackerTypes
    <3>2. clock \in Nat \ {0}
      BY <1>1 DEF TrackerTypes
    <3> QED BY <3>1, <3>2, ResyncAssumption
  <2>2. CASE p # o
    <3>1. /\ started'[p] = started[p] /\ missed'[p] = missed[p]
          /\ todo'[p] = todo[p] /\ deps'[p] = deps[p]
      BY <2>2, <1>1 DEF TrackMore, TrackerTypes
    <3> QED BY <3>1, <1>1 DEF Regular
  <2> QED BY <2>1, <2>2
<1> QED BY <1>3, <1>4, <1>5 DEF IInv

\* A reconciliation that returns before it tracks preserves the invariant:
\* the lease covers one of them.
LEMMA ReturnEarlyIInv ==
    ASSUME IInv, NEW o \in Owners, ReturnEarly(o)
    PROVE  IInv'
<1>1. TrackerTypes /\ NoEmptySets /\ Leased /\ Regular
  BY DEF IInv
<1>2. mapping' = mapping /\ last' = last /\ clock' = clock
  BY DEF ReturnEarly
<1>3. TrackerTypes'
  BY <1>1 DEF TrackerTypes, ReturnEarly
<1>4. NoEmptySets' /\ Leased'
  BY <1>1, <1>2 DEF NoEmptySets, Leased, Holds
<1>5. Regular'
  <2> SUFFICES ASSUME NEW p \in Owners
      PROVE /\ started'[p] >= 1
            /\ started'[p] <= clock
            /\ clock <= started'[p] + Resync
            /\ todo'[p] # {} => missed'[p] = 0
            /\ \A k \in deps'[p] \ todo'[p] :
                  /\ missed'[p] = 0 => last[<<k, p>>] >= started'[p]
                  /\ missed'[p] = 1 => /\ last[<<k, p>>] # Never
                                       /\ last[<<k, p>>] + Resync >= started'[p]
    BY <1>2 DEF Regular, Never
  <2>1. CASE p = o
    <3>1. /\ started'[p] = clock /\ todo'[p] = {} /\ todo[p] = {} /\ deps'[p] = deps[p]
          /\ missed'[p] = IF missed[p] = 2 THEN 2 ELSE missed[p] + 1
      BY <2>1, <1>1 DEF ReturnEarly, TrackerTypes, Idle
    <3>2. clock \in Nat \ {0} /\ missed[p] \in 0..2 /\ started[p] \in Nat
      BY <1>1 DEF TrackerTypes
    <3>3. \A k \in deps[p] : last[<<k, p>>] \in Nat
      BY <1>1 DEF TrackerTypes
    <3>4. \A k \in deps[p] : missed'[p] = 1 => last[<<k, p>>] >= started[p]
      BY <3>1, <3>2, <1>1 DEF Regular
    <3>5. started[p] >= 1 /\ clock <= started[p] + Resync
      BY <1>1 DEF Regular
    <3> QED BY <3>1, <3>2, <3>3, <3>4, <3>5, ResyncAssumption DEF Never
  <2>2. CASE p # o
    <3>1. /\ started'[p] = started[p] /\ missed'[p] = missed[p]
          /\ todo'[p] = todo[p] /\ deps'[p] = deps[p]
      BY <2>2, <1>1 DEF ReturnEarly, TrackerTypes
    <3> QED BY <3>1, <1>1 DEF Regular
  <2> QED BY <2>1, <2>2
<1> QED BY <1>3, <1>4, <1>5 DEF IInv

\* Track (tracker.go:111-128) preserves the invariant: it renews the lease of
\* one key of one owner.
LEMMA TrackIInv ==
    ASSUME IInv, NEW k \in Keys, NEW o \in Owners, Track(k, o)
    PROVE  IInv'
<1>1. TrackerTypes /\ NoEmptySets /\ Leased /\ Regular /\ IsMap(mapping)
  BY MappingIsMap DEF IInv
<1>2. clock \in Nat \ {0} /\ Expiry \in Nat /\ Expiry = clock + Lease
  BY <1>1, LeaseAssumption DEF TrackerTypes, Expiry
<1>3. /\ IsMap(mapping')
      /\ \A x \in DOMAIN mapping' : DOMAIN mapping'[x] # {}
      /\ \A x, p : (x \in DOMAIN mapping' /\ p \in DOMAIN mapping'[x])
            <=> ((x \in DOMAIN mapping /\ p \in DOMAIN mapping[x]) \/ (x = k /\ p = o))
      /\ \A x \in DOMAIN mapping' : \A p \in DOMAIN mapping'[x] :
            mapping'[x][p] = IF x = k /\ p = o THEN Expiry ELSE mapping[x][p]
  <2>1. mapping' = Tracked(mapping, k, o, Expiry)
    BY DEF Track
  <2>2. \A x \in DOMAIN mapping : DOMAIN mapping[x] # {}
    BY <1>1 DEF NoEmptySets
  <2> DEFINE t == Tracked(mapping, k, o, Expiry)
  <2>3. /\ IsMap(t)
        /\ \A x \in DOMAIN t : DOMAIN t[x] # {}
        /\ \A x, p : (x \in DOMAIN t /\ p \in DOMAIN t[x])
              <=> ((x \in DOMAIN mapping /\ p \in DOMAIN mapping[x]) \/ (x = k /\ p = o))
        /\ \A x \in DOMAIN t : \A p \in DOMAIN t[x] :
              t[x][p] = IF x = k /\ p = o THEN Expiry ELSE mapping[x][p]
    BY <2>2, <1>1, <1>2, TrackedProperties
  <2> HIDE DEF t
  <2>4. mapping' = t
    BY <2>1 DEF t
  <2> QED BY <2>3, <2>4
<1>4. /\ last' \in [Keys \X Owners -> Nat]
      /\ \A x \in Keys, p \in Owners :
            last'[<<x, p>>] = IF x = k /\ p = o THEN clock ELSE last[<<x, p>>]
  BY <1>1, <1>2 DEF Track, TrackerTypes
<1>5. TrackerTypes'
  BY <1>1, <1>3, <1>4 DEF TrackerTypes, Track, IsMap
<1>6. NoEmptySets'
  BY <1>3 DEF NoEmptySets
<1>7. Leased'
  <2> SUFFICES ASSUME NEW x \in Keys, NEW p \in Owners
               PROVE  /\ last'[<<x, p>>] <= clock
                      /\ Holds(x, p)' => /\ last'[<<x, p>>] # Never
                                         /\ mapping'[x][p] = last'[<<x, p>>] + Lease
                      /\ (last'[<<x, p>>] # Never /\ ~Holds(x, p)')
                             => clock > last'[<<x, p>>] + Lease
    BY DEF Leased, Holds, Track, Never
  <2>1. CASE x = k /\ p = o
    BY <2>1, <1>2, <1>3, <1>4 DEF Holds, Never
  <2>2. CASE ~(x = k /\ p = o)
    <3>1. last'[<<x, p>>] = last[<<x, p>>]
      BY <2>2, <1>4
    <3>2. Holds(x, p)' <=> Holds(x, p)
      BY <2>2, <1>3 DEF Holds
    <3>3. Holds(x, p)' => mapping'[x][p] = mapping[x][p]
      BY <2>2, <1>3 DEF Holds
    <3> QED BY <3>1, <3>2, <3>3, <1>1 DEF Leased
  <2> QED BY <2>1, <2>2
<1>8. Regular'
  <2> SUFFICES ASSUME NEW p \in Owners
      PROVE /\ started[p] >= 1
            /\ started[p] <= clock
            /\ clock <= started[p] + Resync
            /\ todo'[p] # {} => missed[p] = 0
            /\ \A x \in deps[p] \ todo'[p] :
                  /\ missed[p] = 0 => last'[<<x, p>>] >= started[p]
                  /\ missed[p] = 1 => /\ last'[<<x, p>>] # Never
                                      /\ last'[<<x, p>>] + Resync >= started[p]
    BY DEF Regular, Track, Never
  <2>1. todo'[p] = IF p = o THEN todo[p] \ {k} ELSE todo[p]
    BY <1>1 DEF Track, TrackerTypes
  <2>2. started[p] >= 1 /\ started[p] <= clock /\ clock <= started[p] + Resync
    BY <1>1 DEF Regular
  <2>3. todo'[p] # {} => missed[p] = 0
    BY <2>1, <1>1 DEF Regular
  <2>4. ASSUME NEW x \in deps[p] \ todo'[p]
        PROVE  /\ missed[p] = 0 => last'[<<x, p>>] >= started[p]
               /\ missed[p] = 1 => /\ last'[<<x, p>>] # Never
                                   /\ last'[<<x, p>>] + Resync >= started[p]
    <3>1. x \in Keys /\ started[p] \in Nat
      BY <1>1 DEF TrackerTypes
    <3>2. CASE x = k /\ p = o
      <4>1. last'[<<x, p>>] = clock
        BY <3>2, <1>4
      <4> QED BY <4>1, <3>1, <2>2, <1>2, ResyncAssumption DEF Never
    <3>3. CASE ~(x = k /\ p = o)
      <4>1. last'[<<x, p>>] = last[<<x, p>>] /\ x \in deps[p] \ todo[p]
        BY <3>1, <3>3, <2>1, <1>4
      <4> QED BY <4>1, <1>1 DEF Regular
    <3> QED BY <3>2, <3>3
  <2> QED BY <2>2, <2>3, <2>4
<1> QED BY <1>5, <1>6, <1>7, <1>8 DEF IInv

\* Lookup (tracker.go:135-162) preserves the invariant: it prunes what has
\* expired and nothing else.
LEMMA LookupIInv ==
    ASSUME IInv, NEW k \in Keys, Lookup(k)
    PROVE  IInv'
<1>1. TrackerTypes /\ NoEmptySets /\ Leased /\ Regular /\ IsMap(mapping)
  BY MappingIsMap DEF IInv
<1> DEFINE gone == [x \in DOMAIN mapping |-> IF x = k THEN Lapsed(k) ELSE {}]
<1>2. mapping' = Pruned(mapping, gone)
  BY DEF Lookup
<1>3. \A x \in DOMAIN mapping : \A p : p \in gone[x] <=> (x = k /\ p \in Lapsed(k))
  OBVIOUS
<1> HIDE DEF gone
<1>4. /\ IsMap(mapping')
      /\ \A x \in DOMAIN mapping' : DOMAIN mapping'[x] # {}
      /\ \A x, p : (x \in DOMAIN mapping' /\ p \in DOMAIN mapping'[x])
            <=> (x \in DOMAIN mapping /\ p \in DOMAIN mapping[x] /\ p \notin gone[x])
      /\ \A x \in DOMAIN mapping' : \A p \in DOMAIN mapping'[x] :
            mapping'[x][p] = mapping[x][p]
  BY <1>1, <1>2, PrunedProperties
<1>5. /\ clock' = clock /\ todo' = todo /\ started' = started /\ missed' = missed
      /\ deps' = deps /\ last' = last
  BY DEF Lookup
<1>6. answer' \subseteq Owners
  BY <1>1 DEF Lookup, IsMap
<1>7. TrackerTypes'
  BY <1>1, <1>4, <1>5, <1>6 DEF TrackerTypes, IsMap
<1>8. NoEmptySets'
  BY <1>4 DEF NoEmptySets
<1>9. Leased'
  <2> SUFFICES ASSUME NEW x \in Keys, NEW p \in Owners
               PROVE  /\ last[<<x, p>>] <= clock
                      /\ Holds(x, p)' => /\ last[<<x, p>>] # Never
                                         /\ mapping'[x][p] = last[<<x, p>>] + Lease
                      /\ (last[<<x, p>>] # Never /\ ~Holds(x, p)')
                             => clock > last[<<x, p>>] + Lease
    BY <1>5 DEF Leased, Holds, Never
  <2>1. Holds(x, p)' => Holds(x, p) /\ mapping'[x][p] = mapping[x][p]
    BY <1>4 DEF Holds
  <2>2. (Holds(x, p) /\ ~Holds(x, p)') => clock > mapping[x][p]
    BY <1>3, <1>4 DEF Holds, Lapsed, IsExpired
  <2> QED BY <2>1, <2>2, <1>1 DEF Leased
<1>10. Regular'
  BY <1>1, <1>5 DEF Regular
<1> QED BY <1>7, <1>8, <1>9, <1>10 DEF IInv

\* The passing of time preserves the invariant as long as every owner is
\* reconciled within its resync period.
LEMMA TickIInv ==
    ASSUME IInv, ClockTicks
    PROVE  IInv'
<1>1. TrackerTypes /\ NoEmptySets /\ Leased /\ Regular
  BY DEF IInv
<1>2. /\ mapping' = mapping /\ todo' = todo /\ started' = started
      /\ missed' = missed /\ deps' = deps /\ last' = last /\ answer' = answer
      /\ clock' = clock + 1 /\ clock \in Nat \ {0}
  BY <1>1 DEF ClockTicks, TrackerTypes
<1>3. TrackerTypes'
  BY <1>1, <1>2 DEF TrackerTypes
<1>4. NoEmptySets'
  BY <1>1, <1>2 DEF NoEmptySets
<1>5. Leased'
  <2> SUFFICES ASSUME NEW k \in Keys, NEW o \in Owners
               PROVE  /\ last[<<k, o>>] <= clock + 1
                      /\ Holds(k, o) => /\ last[<<k, o>>] # Never
                                        /\ mapping[k][o] = last[<<k, o>>] + Lease
                      /\ (last[<<k, o>>] # Never /\ ~Holds(k, o))
                             => clock + 1 > last[<<k, o>>] + Lease
    BY <1>2 DEF Leased, Holds, Never
  <2>1. last[<<k, o>>] \in Nat
    BY <1>1 DEF TrackerTypes
  <2>2. /\ last[<<k, o>>] <= clock
        /\ Holds(k, o) => /\ last[<<k, o>>] # Never
                          /\ mapping[k][o] = last[<<k, o>>] + Lease
        /\ (last[<<k, o>>] # Never /\ ~Holds(k, o)) => clock > last[<<k, o>>] + Lease
    BY <1>1 DEF Leased
  <2> QED BY <2>1, <2>2, <1>2, LeaseAssumption
<1>6. Regular'
  <2>1. \A o \in Owners : clock < started[o] + Resync /\ started[o] \in Nat
    BY <1>1 DEF ClockTicks, TrackerTypes
  <2> QED BY <2>1, <1>1, <1>2, ResyncAssumption DEF Regular
<1> QED BY <1>3, <1>4, <1>5, <1>6 DEF IInv

(* Every step preserves the inductive invariant.                            *)
LEMMA NextIInv == IInv /\ [TrackerNext]_trackerVars => IInv'
<1> SUFFICES ASSUME IInv, [TrackerNext]_trackerVars PROVE IInv'
  OBVIOUS
<1>1. CASE \E o \in Owners, ks \in SUBSET Keys : ClearTracked(o, ks) \/ TrackMore(o, ks)
  BY <1>1, ClearTrackedIInv, TrackMoreIInv
<1>2. CASE \E k \in Keys, o \in Owners : Track(k, o)
  BY <1>2, TrackIInv
<1>3. CASE \E o \in Owners : ReturnEarly(o) \/ OwnerGone(o)
  BY <1>3, ReturnEarlyIInv, OwnerGoneIInv
<1>4. CASE \E k \in Keys : Lookup(k)
  BY <1>4, LookupIInv
<1>5. CASE ClockTicks
  BY <1>5, TickIInv
<1>6. CASE UNCHANGED trackerVars
  BY <1>6 DEF trackerVars, IInv, TrackerTypes, NoEmptySets, Leased, Regular, Holds, Idle
<1> QED BY <1>1, <1>2, <1>3, <1>4, <1>5, <1>6 DEF TrackerNext

-----------------------------------------------------------------------------
(* The tracker is type correct.                                             *)
THEOREM TrackerTypeOK == TrackerSpec => []TrackerTypes
<1>1. IInv => TrackerTypes
  BY DEF IInv
<1> QED BY <1>1, InitIInv, NextIInv, PTL DEF TrackerSpec

(* The tracker never holds an empty set of watchers.                        *)
THEOREM TrackerHoldsNoEmptySets == TrackerSpec => []NoEmptySets
<1>1. IInv => NoEmptySets
  BY DEF IInv
<1> QED BY <1>1, InitIInv, NextIInv, PTL DEF TrackerSpec

(* Cleared owners are not enqueued any more.                                *)
THEOREM TrackerForgets == TrackerSpec => []ClearedLeavesNoTrace
<1>1. IInv => ClearedLeavesNoTrace
  BY DEF IInv, TrackerTypes, Leased, Holds, ClearedLeavesNoTrace
<1> QED BY <1>1, InitIInv, NextIInv, PTL DEF TrackerSpec

(* A lease of two resync periods or more survives one early return.         *)
THEOREM LeaseSurvivesOneEarlyReturn == TrackerSpec => []DependenciesStayTracked
<1>1. IInv => DependenciesStayTracked
  <2> SUFFICES ASSUME IInv, NEW o \in Owners, Idle(o), missed[o] <= 1, NEW k \in deps[o]
               PROVE  /\ k \in DOMAIN mapping
                      /\ o \in DOMAIN mapping[k]
                      /\ ~IsExpired(mapping[k][o])
    BY DEF DependenciesStayTracked
  <2>1. /\ k \in Keys /\ k \in deps[o] \ todo[o] /\ missed[o] \in {0, 1}
        /\ started[o] \in Nat /\ clock \in Nat /\ last[<<k, o>>] \in Nat
    BY DEF IInv, TrackerTypes, Idle
  <2>2. /\ started[o] >= 1 /\ clock <= started[o] + Resync
        /\ missed[o] = 0 => last[<<k, o>>] >= started[o]
        /\ missed[o] = 1 => last[<<k, o>>] # Never /\ last[<<k, o>>] + Resync >= started[o]
    BY <2>1 DEF IInv, Regular
  <2>3. last[<<k, o>>] # Never /\ clock <= last[<<k, o>>] + Lease
    BY <2>1, <2>2, ResyncAssumption, LeaseAssumption DEF Never
  <2>4. Holds(k, o)
    BY <2>1, <2>3, LeaseAssumption DEF IInv, Leased
  <2>5. mapping[k][o] = last[<<k, o>>] + Lease
    BY <2>1, <2>4 DEF IInv, Leased
  <2> QED BY <2>1, <2>3, <2>4, <2>5, LeaseAssumption DEF Holds, IsExpired
<1> QED BY <1>1, InitIInv, NextIInv, PTL DEF TrackerSpec

(* Lookup returns exactly the owners whose lease is running.                *)
THEOREM LookupCorrect == TrackerSpec => LookupIsExact
<1> DEFINE Running(k) == {o \in Owners :
                            last[<<k, o>>] # Never /\ clock <= last[<<k, o>>] + Lease}
           Exact == \A k \in Keys : Lookup(k) => answer' = Running(k)
<1>1. IInv /\ [TrackerNext]_trackerVars => Exact
  <2> SUFFICES ASSUME IInv, NEW k \in Keys, Lookup(k) PROVE answer' = Running(k)
    OBVIOUS
  <2>1. ASSUME NEW o \in Owners
        PROVE  o \in answer' <=> last[<<k, o>>] # Never /\ clock <= last[<<k, o>>] + Lease
    <3>1. last[<<k, o>>] \in Nat /\ clock \in Nat
      BY DEF IInv, TrackerTypes
    <3>2. o \in answer' <=> Holds(k, o) /\ ~(clock > mapping[k][o])
      BY DEF Lookup, Holds, Lapsed, IsExpired
    <3>3. Holds(k, o) => last[<<k, o>>] # Never /\ mapping[k][o] = last[<<k, o>>] + Lease
      BY DEF IInv, Leased
    <3>4. (last[<<k, o>>] # Never /\ ~Holds(k, o)) => clock > last[<<k, o>>] + Lease
      BY DEF IInv, Leased
    <3> QED BY <3>1, <3>2, <3>3, <3>4, LeaseAssumption
  <2>2. answer' \subseteq Owners
    BY LookupIInv DEF IInv, TrackerTypes
  <2> QED BY <2>1, <2>2
<1>2. (IInv /\ [TrackerNext]_trackerVars) => [Exact]_trackerVars
  BY <1>1
<1> QED BY <1>2, InitIInv, NextIInv, PTL DEF TrackerSpec, LookupIsExact
=============================================================================
