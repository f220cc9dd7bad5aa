-------------------------- MODULE ConditionManager --------------------------
(***************************************************************************)
(* pkg/conditions/condition_manager.go: the object every reconciler uses   *)
(* to collect the conditions of one reconciliation.  NewConditionManager   *)
(* receives the conditions found in the owner's status, Add compares each  *)
(* new condition with them, and Finalize appends the top level condition   *)
(* and says whether the list changed enough to be written back.            *)
(*                                                                         *)
(* The model runs an unbounded number of reconciliations one after the     *)
(* other: what one of them wrote is what the next one starts from.  The    *)
(* message of a condition travels with its reason and is left out.         *)
(***************************************************************************)
EXTENDS Naturals, Sequences, FiniteSets

CONSTANTS
    Types,      \* the condition types a reconciler adds (SupplyChainReady, ...)
    TopLevel,   \* topLevelType
    Reasons,    \* reasons carried by the added conditions
    Produced,   \* the conditions the constructors of pkg/conditions make
    MaxAdds,    \* bound: conditions added in one reconciliation
    MaxTime     \* bound: the clock

Statuses == {"True", "False", "Unknown"}
Polarities == {"Positive", "Negative"}

\* A condition without its LastTransitionTime.
Content == [type : Types, status : Statuses, reason : Reasons]

ASSUME TypesAssumption == TopLevel \notin Types
ASSUME ProducedAssumption == Produced \subseteq Content
ASSUME BoundsAssumption == MaxAdds \in Nat /\ MaxTime \in Nat

VARIABLES
    persisted,  \* .status.conditions of the owner on the API server
    conditions, \* conditionManager.conditions
    status,     \* conditionManager.status
    reason,     \* conditionManager.reason (and message)
    changed,    \* conditionManager.changed, and Finalize's second result
    step,       \* "idle", "collecting" or "finalized"
    now,        \* the clock behind metav1.Now()
    added       \* history: the <<condition, polarity>> pairs given to Add

conditionsVars == <<persisted, conditions, status, reason, changed, step, now, added>>

TopReasons == Reasons \cup {"Ready", "Unknown", ""}

\* A condition as it is stored.
StoredCondition == [type : Types \cup {TopLevel}, status : Statuses,
                    reason : TopReasons, ltt : Nat]

RangeOf(s) == {s[i] : i \in DOMAIN s}

ConditionsTypes ==
    /\ persisted \in Seq(StoredCondition)
    /\ conditions \in Seq(StoredCondition)
    /\ status \in Statuses
    /\ reason \in TopReasons
    /\ changed \in BOOLEAN
    /\ step \in {"idle", "collecting", "finalized"}
    /\ now \in Nat
    /\ added \in Seq([c : Content, polarity : Polarities])

ConditionsInit ==
    /\ persisted = <<>>
    /\ conditions = <<>>
    /\ status = "True"
    /\ reason = ""
    /\ changed = FALSE
    /\ step = "idle"
    /\ now = 0
    /\ added = <<>>

-----------------------------------------------------------------------------
\* reflect.DeepEqual once the transition time has been copied over.
SameContent(p, c) ==
    p.type = c.type /\ p.status = c.status /\ p.reason = c.reason

\* Mutant: the transition time is always the current one.
StampedAfresh(c) ==
    [type |-> c.type, status |-> c.status, reason |-> c.reason, ltt |-> now]

\* The comparison loop of Add.  Every previous condition of the type is
\* visited; the time of the last one with the same content is kept, and any
\* one with other content, or none at all, makes the list a changed one.
Stamped(c) ==
    LET same == {i \in DOMAIN persisted : SameContent(persisted[i], c)}
        last == CHOOSE i \in same : \A j \in same : j <= i
    IN  [type |-> c.type, status |-> c.status, reason |-> c.reason,
         ltt |-> IF same = {} THEN now ELSE persisted[last].ltt]

\* Mutant: a condition of a new type does not count as a change.
DiffersIgnoringNew(c) ==
    \E i \in DOMAIN persisted :
        persisted[i].type = c.type /\ ~SameContent(persisted[i], c)

\* Mutant: DeepEqual is called before the transition time is copied over.
DiffersInTime(c) ==
    \A i \in DOMAIN persisted :
        ~(SameContent(persisted[i], c) /\ persisted[i].ltt = now)

Differs(c) ==
    \/ \A i \in DOMAIN persisted : persisted[i].type # c.type
    \/ \E i \in DOMAIN persisted :
          persisted[i].type = c.type /\ ~SameContent(persisted[i], c)

IsBad(c, polarity) ==
    \/ c.status = "False" /\ polarity = "Positive"
    \/ c.status = "True" /\ polarity = "Negative"

\* Mutant: an unknown condition overrides a bad one.
NextStatusUnknownWins(c, polarity) ==
    IF IsBad(c, polarity) THEN "False"
    ELSE IF c.status = "Unknown" THEN "Unknown" ELSE status

NextStatus(c, polarity) ==
    IF IsBad(c, polarity) THEN "False"
    ELSE IF c.status = "Unknown" /\ status = "True" THEN "Unknown"
    ELSE status

\* Mutant: the first bad condition, not the last one, gives the reason.
NextReasonFirstBad(c, polarity) ==
    IF \/ IsBad(c, polarity) /\ status # "False"
       \/ c.status = "Unknown" /\ status = "True"
    THEN c.reason ELSE reason

\* Mutant: the type of the condition is reported in place of its reason.
NextReasonOfType(c, polarity) ==
    IF IsBad(c, polarity) THEN c.type ELSE reason

NextReason(c, polarity) ==
    IF IsBad(c, polarity) \/ (c.status = "Unknown" /\ status = "True")
    THEN c.reason ELSE reason

-----------------------------------------------------------------------------
NewConditionManager ==
    /\ step = "idle"
    /\ step' = "collecting"
    /\ conditions' = <<>>
    /\ added' = <<>>
    /\ status' = "True"
    /\ reason' = ""
    /\ changed' = FALSE
    /\ UNCHANGED <<persisted, now>>

Add(c, polarity) ==
    /\ step = "collecting"
    /\ Len(conditions) < MaxAdds
    /\ status' = NextStatus(c, polarity)
    /\ reason' = NextReason(c, polarity)
    /\ changed' = (changed \/ Differs(c))
    /\ conditions' = Append(conditions, Stamped(c))
    /\ added' = Append(added, [c |-> c, polarity |-> polarity])
    /\ UNCHANGED <<persisted, step, now>>

\* Finalize on a manager to which nothing was added: the single unknown top
\* level condition is always reported as changed, with a fresh time.
FinalizeEmpty ==
    /\ step = "collecting"
    /\ conditions = <<>>
    /\ status' = "False"
    /\ changed' = TRUE
    /\ conditions' = <<[type |-> TopLevel, status |-> "Unknown",
                        reason |-> "Unknown", ltt |-> now]>>
    /\ step' = "finalized"
    /\ UNCHANGED <<persisted, reason, now, added>>

TopCondition ==
    [type |-> TopLevel, status |-> status,
     reason |-> IF status = "True" THEN "Ready" ELSE reason]

FinalizeAdded ==
    /\ step = "collecting"
    /\ conditions # <<>>
    /\ reason' = TopCondition.reason
    /\ changed' = (changed \/ Differs(TopCondition))
    /\ conditions' = Append(conditions, Stamped(TopCondition))
    /\ step' = "finalized"
    /\ UNCHANGED <<persisted, status, now, added>>

\* completeReconciliation.  The list is written when Finalize says it changed
\* or when another part of the status did (a new generation, a resource), and
\* the write may fail.
WriteStatus ==
    /\ step = "finalized"
    /\ persisted' \in {conditions, persisted}
    /\ step' = "idle"
    /\ UNCHANGED <<conditions, status, reason, changed, now, added>>

\* metav1.Now() may move on between any two steps of a reconciliation.
Tick ==
    /\ now < MaxTime
    /\ now' = now + 1
    /\ UNCHANGED <<persisted, conditions, status, reason, changed, step, added>>

ConditionsNext ==
    \/ NewConditionManager
    \/ \E c \in Produced, polarity \in Polarities : Add(c, polarity)
    \/ FinalizeEmpty
    \/ FinalizeAdded
    \/ WriteStatus
    \/ Tick

ConditionsSpec == ConditionsInit /\ [][ConditionsNext]_conditionsVars

-----------------------------------------------------------------------------
Top == conditions[Len(conditions)]
Bad(a) == IsBad(a.c, a.polarity)
Unsettled(a) == a.c.status = "Unknown"

(* The top level condition is the worst of what was added, whatever the    *)
(* order and the polarities: False when one condition is bad, else Unknown *)
(* when one is unknown or nothing was added, else True.                    *)
TopLevelIsWorst ==
    step = "finalized" =>
        Top.status =
            IF \E i \in DOMAIN added : Bad(added[i]) THEN "False"
            ELSE IF added = <<>> \/ (\E i \in DOMAIN added : Unsettled(added[i]))
            THEN "Unknown" ELSE "True"

(* The top level reason is the one of a condition that explains it: of the *)
(* last bad condition when there is one (the unit test of that name), else *)
(* of the first unknown one.                                               *)
TopLevelIsExplained ==
    step = "finalized" =>
        /\ \A i \in DOMAIN added :
              (Bad(added[i]) /\ \A j \in DOMAIN added : Bad(added[j]) => j <= i)
                  => Top.reason = added[i].c.reason
        /\ \A i \in DOMAIN added :
              (/\ Unsettled(added[i])
               /\ \A j \in DOMAIN added : ~Bad(added[j])
               /\ \A j \in DOMAIN added : Unsettled(added[j]) => i <= j)
                  => Top.reason = added[i].c.reason

(* When Finalize reports no change, every finalized condition, its time    *)
(* included, is already on the API server: skipping the write in           *)
(* completeReconciliation loses nothing.                                   *)
SkippedWriteLosesNothing ==
    (step = "finalized" /\ ~changed) =>
        RangeOf(conditions) \subseteq RangeOf(persisted)

(* A condition that says what the API server already says keeps its        *)
(* LastTransitionTime, also when a type was used twice.                    *)
TransitionTimeIsKept ==
    (step = "finalized" /\ added # <<>>) =>
        \A i \in DOMAIN conditions, j \in DOMAIN persisted :
            SameContent(persisted[j], conditions[i]) =>
                conditions[i] \in RangeOf(persisted)

DistinctTypes(s) == \A i, j \in DOMAIN s : s[i].type = s[j].type => i = j

(* A reconciliation that repeats what is on the API server is reported as  *)
(* unchanged, so a settled owner is not written again and again.  It needs *)
(* at least one condition and no repeated type.                            *)
NoSpuriousChange ==
    (step = "finalized" /\ added # <<>> /\ changed /\ DistinctTypes(persisted)) =>
        \E i \in DOMAIN conditions : \A j \in DOMAIN persisted :
            ~SameContent(persisted[j], conditions[i])

(* The interface comment of Finalize: "The changed result represents       *)
(* whether the conditions have changed enough to warrant an update to the  *)
(* APIServer".  It does not hold when a type is used twice.                *)
ChangedMeansChanged ==
    (step = "finalized" /\ added # <<>> /\ changed) =>
        \/ Len(conditions) # Len(persisted)
        \/ \E i \in DOMAIN conditions : ~SameContent(persisted[i], conditions[i])
=============================================================================
