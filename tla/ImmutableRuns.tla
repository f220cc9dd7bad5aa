--------------------------- MODULE ImmutableRuns ---------------------------
(***************************************************************************)
(* What runnables and immutable templates share: the repository's cache of *)
(* submitted objects, the retention of runs and the choice of the latest   *)
(* success.  A run is a record with the fields spec (what was submitted),  *)
(* edited (has somebody changed its spec since?), created (the second it   *)
(* was created in), health ("True", "False" or "Unknown") and fate ("kept"  *)
(* until it is deleted); runs is a sequence of them, in order of creation. *)
(* The API server lists them by name, and the names are generated: nothing *)
(* is known about the order of a list.                                     *)
(***************************************************************************)
EXTENDS Naturals, Sequences, FiniteSets, FiniteSetsExt

\* isSubmittedCacheHit: the last object submitted under the key is the same.
IsSubmittedCacheHit(cached, spec) == cached = spec

\* isPersistedCacheHit: an object on the API server still has the spec that was
\* persisted for the one submitted.
IsPersistedCacheHit(run, spec) == run.spec = spec /\ ~run.edited

\* UnchangedSinceCachedFromList: any object of the list that hits may come first.
Hits(cached, spec, runs, listed) ==
    {i \in listed : IsSubmittedCacheHit(cached, spec) /\ IsPersistedCacheHit(runs[i], spec)}

\* Mutant: one too many is kept.
RetainedOneMore(runs, S, max) ==
    {K \in SUBSET S :
        /\ Cardinality(K) = Min({max + 1, Cardinality(S)})
        /\ \A k \in K, d \in S \ K : runs[k].created >= runs[d].created}

\* The runs that CleanupRunnableStampedObjects spares, of those with one
\* health: they are sorted by the second of their creation, with an unstable
\* sort, and the first max are kept.
Retained(runs, S, max) ==
    {K \in SUBSET S :
        /\ Cardinality(K) = Min({max, Cardinality(S)})
        /\ \A k \in K, d \in S \ K : runs[k].created >= runs[d].created}

WithHealth(runs, listed, health) == {i \in listed : runs[i].health = health}

\* Every set of runs that CleanupRunnableStampedObjects may delete.  A run
\* that has not ended is not considered.
CleanupRunnableStampedObjects(runs, listed, maxSuccessful, maxFailed) ==
    LET good == WithHealth(runs, listed, "True")
        bad == WithHealth(runs, listed, "False")
    IN  {(good \ K) \cup (bad \ L) : K \in Retained(runs, good, maxSuccessful),
                                     L \in Retained(runs, bad, maxFailed)}

\* Mutant: the first success in the list.
AnySuccessful(runs, listed) == WithHealth(runs, listed, "True")

\* getLatestSuccessfulObject, GetLatestSuccessfulObjFromExaminedObject: the
\* first one in the list that no later one is newer than.
LatestSuccessful(runs, listed) ==
    {i \in WithHealth(runs, listed, "True") :
        \A j \in WithHealth(runs, listed, "True") : runs[j].created <= runs[i].created}
=============================================================================
