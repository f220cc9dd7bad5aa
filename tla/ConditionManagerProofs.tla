----------------------- MODULE ConditionManagerProofs -----------------------
(* Proofs that the properties of ConditionManager hold for every set of     *)
(* types, reasons and conditions and for any number of additions.           *)
EXTENDS ConditionManager, WellFoundedInduction, TLAPS

(* What the manager knows half way through a reconciliation.                *)
WorstSoFar ==
    status = IF \E i \in DOMAIN added : Bad(added[i]) THEN "False"
             ELSE IF \E i \in DOMAIN added : Unsettled(added[i]) THEN "Unknown"
             ELSE "True"

ExplainedSoFar ==
    /\ \A i \in DOMAIN added :
          (Bad(added[i]) /\ \A j \in DOMAIN added : Bad(added[j]) => j <= i)
              => reason = added[i].c.reason
    /\ \A i \in DOMAIN added :
          (/\ Unsettled(added[i])
           /\ \A j \in DOMAIN added : ~Bad(added[j])
           /\ \A j \in DOMAIN added : Unsettled(added[j]) => i <= j)
              => reason = added[i].c.reason

NothingNew == ~changed => RangeOf(conditions) \subseteq RangeOf(persisted)

TimesKept ==
    \A i \in DOMAIN conditions, j \in DOMAIN persisted :
        SameContent(persisted[j], conditions[i]) =>
            conditions[i] \in RangeOf(persisted)

ChangeSeen ==
    (changed /\ DistinctTypes(persisted)) =>
        \E i \in DOMAIN conditions : \A j \in DOMAIN persisted :
            ~SameContent(persisted[j], conditions[i])

Collecting ==
    step = "collecting" =>
        /\ added = <<>> <=> conditions = <<>>
        /\ WorstSoFar
        /\ ExplainedSoFar
        /\ NothingNew
        /\ TimesKept
        /\ ChangeSeen

Finalized ==
    step = "finalized" =>
        /\ conditions # <<>>
        /\ TopLevelIsWorst
        /\ TopLevelIsExplained
        /\ NothingNew
        /\ added # <<>> => TimesKept /\ ChangeSeen

(* The inductive invariant.                                                 *)
IInv == ConditionsTypes /\ Collecting /\ Finalized

-----------------------------------------------------------------------------
(* A non-empty set of indices has a largest one.                            *)
LEMMA LargestIndex ==
    ASSUME NEW n \in Nat, NEW T \in SUBSET (1..n), T # {}
    PROVE  \E x \in T : \A y \in T : y <= x
<1> DEFINE R == OpToRel(<, Nat)
           D == {m \in 0..n : n - m \in T}
<1>1. D \subseteq Nat
  OBVIOUS
<1>8. D # {}
  <2>1. PICK i \in T : TRUE
    OBVIOUS
  <2>2. n - i \in 0..n /\ n - (n - i) = i
    OBVIOUS
  <2>3. n - i \in D
    BY <2>1, <2>2
  <2> QED BY <2>3
<1>2. \A x, y \in Nat : <<y, x>> \in R <=> y < x
  BY DEF OpToRel
<1>3. IsWellFoundedOn(R, Nat)
  BY NatLessThanWellFounded
<1> HIDE DEF R, D
<1>4. PICK d \in D : \A e \in D : ~(<<e, d>> \in R)
  BY <1>1, <1>8, <1>3, WFMin
<1>5. \A e \in D : ~(e < d)
  BY <1>1, <1>2, <1>4
<1>6. d \in 0..n /\ n - d \in T
  BY DEF D
<1>7. ASSUME NEW y \in T PROVE y <= n - d
  <2>1. n - y \in 0..n /\ n - (n - y) = y /\ y \in 0..n
    OBVIOUS
  <2>2. n - y \in D
    BY <2>1 DEF D
  <2> QED BY <2>1, <2>2, <1>5, <1>6
<1> QED BY <1>6, <1>7

(* What the comparison loop of Add makes of a condition: the same content,  *)
(* with the time of a previous condition of that content if there is one.   *)
LEMMA StampedProperties ==
    ASSUME ConditionsTypes, NEW c, c.type \in Types \cup {TopLevel},
           c.status \in Statuses, c.reason \in TopReasons
    PROVE  /\ Stamped(c) \in StoredCondition
           /\ SameContent(Stamped(c), c)
           /\ (\E j \in DOMAIN persisted : SameContent(persisted[j], c))
                 => Stamped(c) \in RangeOf(persisted)
<1> DEFINE same == {i \in DOMAIN persisted : SameContent(persisted[i], c)}
           last == CHOOSE i \in same : \A j \in same : j <= i
<1>1. Stamped(c) = [type |-> c.type, status |-> c.status, reason |-> c.reason,
                    ltt |-> IF same = {} THEN now ELSE persisted[last].ltt]
  BY DEF Stamped
<1>2. SameContent(Stamped(c), c)
  BY <1>1 DEF SameContent
<1>3. persisted \in Seq(StoredCondition) /\ now \in Nat
  BY DEF ConditionsTypes
<1>4. CASE same = {}
  <2>1. Stamped(c) \in StoredCondition
    BY <1>1, <1>3, <1>4 DEF StoredCondition
  <2> QED BY <1>2, <1>4, <2>1
<1>5. CASE same # {}
  <2>1. same \in SUBSET (1..Len(persisted)) /\ Len(persisted) \in Nat
    BY <1>3
  <2> HIDE DEF same
  <2>2. \E i \in same : \A j \in same : j <= i
    BY <2>1, <1>5, LargestIndex
  <2>3. last \in same
    BY <2>2
  <2> HIDE DEF last
  <2>4. persisted[last] \in StoredCondition /\ SameContent(persisted[last], c)
    BY <2>1, <2>3, <1>3 DEF same
  <2>5. Stamped(c) = persisted[last]
    BY <2>4, <1>1, <1>5 DEF StoredCondition, SameContent
  <2>6. last \in DOMAIN persisted
    BY <2>3 DEF same
  <2> QED BY <1>2, <2>4, <2>5, <2>6 DEF RangeOf
<1> QED BY <1>4, <1>5

(* Adding one condition c to the list, in Add and in Finalize alike.        *)
LEMMA AppendedKeeps ==
    ASSUME IInv, step = "collecting", NEW c, c.type \in Types \cup {TopLevel},
           c.status \in Statuses, c.reason \in TopReasons,
           conditions' = Append(conditions, Stamped(c)),
           changed' = (changed \/ Differs(c)), persisted' = persisted
    PROVE  /\ conditions' \in Seq(StoredCondition)
           /\ conditions' # <<>>
           /\ NothingNew'
           /\ TimesKept'
           /\ ChangeSeen'
<1>1. ConditionsTypes /\ NothingNew /\ TimesKept /\ ChangeSeen
  BY DEF IInv, Collecting
<1> DEFINE s == Stamped(c)
<1>2. /\ s \in StoredCondition
      /\ SameContent(s, c)
      /\ (\E j \in DOMAIN persisted : SameContent(persisted[j], c))
            => s \in RangeOf(persisted)
  BY <1>1, StampedProperties
<1> HIDE DEF s
<1>3. conditions \in Seq(StoredCondition) /\ persisted \in Seq(StoredCondition) /\ changed \in BOOLEAN
  BY <1>1 DEF ConditionsTypes
<1>4. conditions' = Append(conditions, s)
  BY DEF s
<1>5. /\ conditions' \in Seq(StoredCondition)
      /\ Len(conditions') = Len(conditions) + 1
      /\ \A i \in 1..Len(conditions) : conditions'[i] = conditions[i]
      /\ conditions'[Len(conditions) + 1] = s
      /\ DOMAIN conditions' = 1..(Len(conditions) + 1)
      /\ DOMAIN conditions = 1..Len(conditions)
      /\ Len(conditions) \in Nat
      /\ conditions' # <<>>
  BY <1>2, <1>3, <1>4
<1>6. \A x \in DOMAIN conditions' :
         x \in DOMAIN conditions \/ x = Len(conditions) + 1
  BY <1>5
<1>7. NothingNew'
  <2> SUFFICES ASSUME ~changed', NEW i \in DOMAIN conditions'
               PROVE  conditions'[i] \in RangeOf(persisted)
    BY DEF NothingNew, RangeOf
  <2>1. ~changed /\ ~Differs(c)
    BY <1>3
  <2>2. s \in RangeOf(persisted)
    BY <2>1, <1>2 DEF Differs
  <2>3. CASE i \in DOMAIN conditions
    BY <2>1, <2>3, <1>1, <1>5 DEF NothingNew, RangeOf
  <2> QED BY <2>2, <2>3, <1>5, <1>6
<1>8. TimesKept'
  <2> SUFFICES ASSUME NEW i \in DOMAIN conditions', NEW j \in DOMAIN persisted,
                      SameContent(persisted[j], conditions'[i])
               PROVE  conditions'[i] \in RangeOf(persisted)
    BY DEF TimesKept, RangeOf, SameContent
  <2>1. CASE i \in DOMAIN conditions
    BY <2>1, <1>1, <1>5 DEF TimesKept
  <2>2. CASE i = Len(conditions) + 1
    BY <2>2, <1>2, <1>5 DEF SameContent
  <2> QED BY <2>1, <2>2, <1>6
<1>9. ChangeSeen'
  <2> SUFFICES ASSUME changed', DistinctTypes(persisted)
               PROVE  \E i \in DOMAIN conditions' : \A j \in DOMAIN persisted :
                          ~SameContent(persisted[j], conditions'[i])
    BY DEF ChangeSeen, DistinctTypes, SameContent
  <2>1. CASE changed
    <3>1. PICK i \in DOMAIN conditions : \A j \in DOMAIN persisted :
              ~SameContent(persisted[j], conditions[i])
      BY <2>1, <1>1 DEF ChangeSeen
    <3> QED BY <3>1, <1>5
  <2>2. CASE Differs(c)
    <3>1. \A j \in DOMAIN persisted : ~SameContent(persisted[j], c)
      BY <2>2 DEF Differs, DistinctTypes, SameContent
    <3>2. \A j \in DOMAIN persisted : ~SameContent(persisted[j], s)
      BY <3>1, <1>2 DEF SameContent
    <3> QED BY <3>2, <1>5
  <2> QED BY <2>1, <2>2, <1>3
<1> QED BY <1>5, <1>7, <1>8, <1>9

-----------------------------------------------------------------------------
\* A manager that has been given no condition satisfies the inductive
\* invariant.
LEMMA InitIInv == ConditionsInit => IInv
<1> SUFFICES ASSUME ConditionsInit PROVE IInv
  OBVIOUS
<1>1. ConditionsTypes
  <2>0. persisted = <<>> /\ conditions = <<>> /\ added = <<>>
    BY Zenon DEF ConditionsInit
  <2>1. persisted \in Seq(StoredCondition) /\ conditions \in Seq(StoredCondition)
    BY <2>0
  <2>2. added \in Seq([c : Content, polarity : Polarities])
    BY <2>0
  <2>3. status \in Statuses /\ reason \in TopReasons /\ changed \in BOOLEAN
    BY DEF ConditionsInit, Statuses, TopReasons
  <2>4. step \in {"idle", "collecting", "finalized"} /\ now \in Nat
    BY DEF ConditionsInit
  <2> QED BY <2>1, <2>2, <2>3, <2>4 DEF ConditionsTypes
<1>2. step = "idle"
  BY DEF ConditionsInit
<1> QED BY <1>1, <1>2 DEF IInv, Collecting, Finalized

(* Add preserves the inductive invariant.                                   *)
LEMMA AddIInv ==
    ASSUME IInv, NEW c \in Produced, NEW polarity \in Polarities, Add(c, polarity)
    PROVE  IInv'
<1>1. c \in Content /\ ConditionsTypes /\ step = "collecting" /\ step' = "collecting"
  BY ProducedAssumption DEF IInv, Add
<1>2. /\ c.type \in Types \cup {TopLevel}
      /\ c.status \in Statuses
      /\ c.reason \in TopReasons
  BY <1>1 DEF Content, TopReasons
<1>3. /\ conditions' \in Seq(StoredCondition)
      /\ conditions' # <<>>
      /\ NothingNew'
      /\ TimesKept'
      /\ ChangeSeen'
  BY <1>1, <1>2, AppendedKeeps DEF Add
<1> DEFINE n == Len(added)
           a == [c |-> c, polarity |-> polarity]
<1>4. /\ added \in Seq([c : Content, polarity : Polarities])
      /\ a \in [c : Content, polarity : Polarities]
      /\ added' = Append(added, a)
  BY <1>1 DEF ConditionsTypes, Add
<1>5. /\ added' \in Seq([c : Content, polarity : Polarities])
      /\ n \in Nat
      /\ DOMAIN added = 1..n
      /\ DOMAIN added' = 1..(n + 1)
      /\ \A i \in 1..n : added'[i] = added[i]
      /\ added'[n + 1] = a
      /\ added' # <<>>
  BY <1>4
<1>6. /\ Bad(added'[n + 1]) <=> IsBad(c, polarity)
      /\ Unsettled(added'[n + 1]) <=> c.status = "Unknown"
  BY <1>5 DEF Bad, Unsettled
<1>7. status' = NextStatus(c, polarity) /\ reason' = NextReason(c, polarity)
  BY DEF Add
<1>8. WorstSoFar /\ ExplainedSoFar /\ status \in Statuses /\ reason \in TopReasons
  BY <1>1 DEF IInv, Collecting, ConditionsTypes
<1>9. IsBad(c, polarity) => c.status # "Unknown"
  BY DEF IsBad
<1>10. status' \in Statuses /\ reason' \in TopReasons
  BY <1>2, <1>7, <1>8 DEF NextStatus, NextReason, Statuses
<1>11. ConditionsTypes'
  BY <1>1, <1>3, <1>5, <1>10 DEF ConditionsTypes, Add
<1>12. WorstSoFar'
  <2>1. (\E i \in 1..(n + 1) : Bad(added'[i])) <=> (\E i \in 1..n : Bad(added[i])) \/ IsBad(c, polarity)
    BY <1>5, <1>6
  <2>2. (\E i \in 1..(n + 1) : Unsettled(added'[i]))
          <=> (\E i \in 1..n : Unsettled(added[i])) \/ c.status = "Unknown"
    BY <1>5, <1>6
  <2>3. status = IF \E i \in 1..n : Bad(added[i]) THEN "False"
                 ELSE IF \E i \in 1..n : Unsettled(added[i]) THEN "Unknown" ELSE "True"
    BY <1>5, <1>8 DEF WorstSoFar
  <2>4. status' = IF \E i \in 1..(n + 1) : Bad(added'[i]) THEN "False"
                  ELSE IF \E i \in 1..(n + 1) : Unsettled(added'[i]) THEN "Unknown" ELSE "True"
    BY <2>1, <2>2, <2>3, <1>7, <1>9 DEF NextStatus
  <2> QED BY <2>4, <1>5 DEF WorstSoFar
<1>13. ExplainedSoFar'
  <2>1. ASSUME NEW i \in 1..(n + 1), Bad(added'[i]),
               \A j \in 1..(n + 1) : Bad(added'[j]) => j <= i
        PROVE  reason' = added'[i].c.reason
    <3>1. CASE i = n + 1
      BY <3>1, <2>1, <1>5, <1>6, <1>7 DEF NextReason
    <3>2. CASE i \in 1..n
      <4>1. ~IsBad(c, polarity) /\ Bad(added[i]) /\ \A j \in 1..n : Bad(added[j]) => j <= i
        BY <2>1, <3>2, <1>5, <1>6
      <4>2. status = "False" /\ reason = added[i].c.reason
        BY <4>1, <3>2, <1>5, <1>8 DEF WorstSoFar, ExplainedSoFar
      <4> QED BY <4>1, <4>2, <3>2, <1>5, <1>7 DEF NextReason
    <3> QED BY <3>1, <3>2, <1>5
  <2>2. ASSUME NEW i \in 1..(n + 1), Unsettled(added'[i]),
               \A j \in 1..(n + 1) : ~Bad(added'[j]),
               \A j \in 1..(n + 1) : Unsettled(added'[j]) => i <= j
        PROVE  reason' = added'[i].c.reason
    <3>1. ~IsBad(c, polarity) /\ \A j \in 1..n : ~Bad(added[j])
      BY <2>2, <1>5, <1>6
    <3>2. CASE i = n + 1
      <4>1. \A j \in 1..n : ~Unsettled(added[j])
        BY <3>2, <2>2, <1>5, <1>6
      <4>2. status = "True" /\ c.status = "Unknown"
        BY <4>1, <3>1, <3>2, <2>2, <1>5, <1>6, <1>8 DEF WorstSoFar
      <4> QED BY <4>2, <3>1, <3>2, <1>5, <1>7 DEF NextReason
    <3>3. CASE i \in 1..n
      <4>1. Unsettled(added[i]) /\ \A j \in 1..n : Unsettled(added[j]) => i <= j
        BY <3>3, <2>2, <1>5, <1>6
      <4>2. status = "Unknown" /\ reason = added[i].c.reason
        BY <4>1, <3>1, <3>3, <1>5, <1>8 DEF WorstSoFar, ExplainedSoFar
      <4> QED BY <4>2, <3>1, <3>3, <1>5, <1>7 DEF NextReason
    <3> QED BY <3>2, <3>3, <1>5
  <2> QED BY <2>1, <2>2, <1>5 DEF ExplainedSoFar
<1> QED BY <1>1, <1>3, <1>5, <1>11, <1>12, <1>13 DEF IInv, Collecting, Finalized

(* Finalize preserves the inductive invariant.                              *)
LEMMA FinalizeIInv ==
    ASSUME IInv, FinalizeAdded
    PROVE  IInv'
<1>1. /\ ConditionsTypes
      /\ step = "collecting"
      /\ step' = "finalized"
      /\ added' = added
      /\ added # <<>>
      /\ WorstSoFar
      /\ ExplainedSoFar
  BY DEF IInv, Collecting, FinalizeAdded
<1> DEFINE t == TopCondition
<1>2. /\ t.type \in Types \cup {TopLevel}
      /\ t.status \in Statuses
      /\ t.reason \in TopReasons
      /\ t.status = status
      /\ t.reason = IF status = "True" THEN "Ready" ELSE reason
  BY <1>1 DEF TopCondition, ConditionsTypes, TopReasons
<1>3. /\ conditions' \in Seq(StoredCondition)
      /\ conditions' # <<>>
      /\ NothingNew'
      /\ TimesKept'
      /\ ChangeSeen'
  BY <1>1, <1>2, AppendedKeeps DEF FinalizeAdded
<1>4. ConditionsTypes'
  BY <1>1, <1>2, <1>3 DEF ConditionsTypes, FinalizeAdded
<1>5. SameContent(Top', t)
  <2>1. Stamped(t) \in StoredCondition /\ SameContent(Stamped(t), t)
    BY <1>1, <1>2, StampedProperties
  <2>2. conditions' = Append(conditions, Stamped(t)) /\ conditions \in Seq(StoredCondition)
    BY <1>1 DEF FinalizeAdded, ConditionsTypes
  <2>3. Len(conditions') = Len(conditions) + 1 /\ conditions'[Len(conditions')] = Stamped(t)
    BY <2>1, <2>2
  <2> QED BY <2>1, <2>3 DEF Top
<1>6. Top'.status = status /\ Top'.reason = IF status = "True" THEN "Ready" ELSE reason
  BY <1>2, <1>5 DEF SameContent
<1>8. TopLevelIsWorst'
  BY <1>1, <1>6 DEF TopLevelIsWorst, WorstSoFar
<1>9. TopLevelIsExplained'
  <2>1. ASSUME NEW i \in DOMAIN added, Bad(added[i]) PROVE status # "True"
    BY <2>1, <1>1 DEF WorstSoFar
  <2>2. ASSUME NEW i \in DOMAIN added, Unsettled(added[i]) PROVE status # "True"
    BY <2>2, <1>1 DEF WorstSoFar
  <2> QED BY <2>1, <2>2, <1>1, <1>6 DEF TopLevelIsExplained, ExplainedSoFar
<1> QED BY <1>1, <1>3, <1>4, <1>8, <1>9 DEF IInv, Collecting, Finalized

(* Every step preserves the inductive invariant.                            *)
LEMMA NextIInv == IInv /\ [ConditionsNext]_conditionsVars => IInv'
<1> SUFFICES ASSUME IInv, [ConditionsNext]_conditionsVars PROVE IInv'
  OBVIOUS
<1>1. ConditionsTypes
  BY DEF IInv
<1>2. CASE NewConditionManager
  <2>1. /\ step' = "collecting" /\ conditions' = <<>> /\ added' = <<>>
        /\ status' = "True" /\ changed' = FALSE
        /\ persisted' = persisted /\ now' = now
    BY <1>2 DEF NewConditionManager
  <2>2. ConditionsTypes'
    <3>1. conditions' \in Seq(StoredCondition)
      BY <2>1
    <3>2. added' \in Seq([c : Content, polarity : Polarities])
      BY <2>1
    <3>3. status' \in Statuses /\ reason' \in TopReasons /\ changed' \in BOOLEAN
      BY <1>2 DEF NewConditionManager, Statuses, TopReasons
    <3> QED BY <3>1, <3>2, <3>3, <2>1, <1>1 DEF ConditionsTypes
  <2>3. DOMAIN added' = {} /\ DOMAIN conditions' = {}
    BY <2>1
  <2>4. WorstSoFar' /\ ExplainedSoFar'
    BY <2>1, <2>3 DEF WorstSoFar, ExplainedSoFar
  <2>5. NothingNew' /\ TimesKept'
    BY <2>1, <2>3 DEF NothingNew, TimesKept, RangeOf
  <2>6. ChangeSeen'
    BY <2>1 DEF ChangeSeen
  <2> QED BY <2>1, <2>2, <2>4, <2>5, <2>6 DEF IInv, Collecting, Finalized
<1>3. CASE \E c \in Produced, polarity \in Polarities : Add(c, polarity)
  BY <1>3, AddIInv
<1>4. CASE FinalizeEmpty
  <2> DEFINE u == [type |-> TopLevel, status |-> "Unknown",
                   reason |-> "Unknown", ltt |-> now]
  <2>1. /\ step = "collecting" /\ step' = "finalized" /\ conditions = <<>>
        /\ conditions' = <<u>> /\ status' = "False" /\ changed' = TRUE
        /\ added' = added /\ persisted' = persisted /\ reason' = reason /\ now' = now
    BY <1>4 DEF FinalizeEmpty
  <2>2. u \in StoredCondition
    BY <1>1 DEF ConditionsTypes, StoredCondition, Statuses, TopReasons
  <2>3. ConditionsTypes'
    BY <2>1, <2>2, <1>1 DEF ConditionsTypes, Statuses
  <2>4. added' = <<>>
    BY <2>1 DEF IInv, Collecting
  <2>5. TopLevelIsWorst' /\ TopLevelIsExplained'
    BY <2>1, <2>4 DEF TopLevelIsWorst, TopLevelIsExplained, Top
  <2> QED BY <2>1, <2>3, <2>4, <2>5 DEF IInv, Collecting, Finalized, NothingNew
<1>5. CASE FinalizeAdded
  BY <1>5, FinalizeIInv
<1>6. CASE WriteStatus
  <2>1. ConditionsTypes' /\ step' = "idle"
    BY <1>6, <1>1 DEF WriteStatus, ConditionsTypes
  <2> QED BY <2>1 DEF IInv, Collecting, Finalized
<1>7. CASE Tick
  <2>1. UNCHANGED <<persisted, conditions, status, reason, changed, step, added>> /\ now' \in Nat
    BY <1>7, <1>1 DEF Tick, ConditionsTypes
  <2> QED BY <2>1, <1>1 DEF IInv, ConditionsTypes, Collecting, Finalized, WorstSoFar, ExplainedSoFar,
             NothingNew, TimesKept, ChangeSeen, TopLevelIsWorst, TopLevelIsExplained,
             Top
<1>8. CASE UNCHANGED conditionsVars
  BY <1>8, <1>1 DEF conditionsVars, IInv, ConditionsTypes, Collecting, Finalized, WorstSoFar, ExplainedSoFar,
     NothingNew, TimesKept, ChangeSeen, TopLevelIsWorst, TopLevelIsExplained,
     Top
<1> QED BY <1>2, <1>3, <1>4, <1>5, <1>6, <1>7, <1>8 DEF ConditionsNext

(* The condition manager is type correct.                                   *)
THEOREM ConditionManagerTypeOK == ConditionsSpec => []ConditionsTypes
<1>1. IInv => ConditionsTypes
  BY DEF IInv
<1> QED BY <1>1, InitIInv, NextIInv, PTL DEF ConditionsSpec

(* However many conditions are added, in whatever order and polarity, the   *)
(* top level condition Finalize appends is the worst of them.               *)
THEOREM TopLevelCorrect == ConditionsSpec => []TopLevelIsWorst
<1>1. IInv => TopLevelIsWorst
  BY DEF IInv, Finalized, TopLevelIsWorst
<1> QED BY <1>1, InitIInv, NextIInv, PTL DEF ConditionsSpec

(* The top level reason is that of the last bad, else of the first unknown  *)
(* condition.                                                               *)
THEOREM TopLevelExplanation == ConditionsSpec => []TopLevelIsExplained
<1>1. IInv => TopLevelIsExplained
  BY DEF IInv, Finalized, TopLevelIsExplained
<1> QED BY <1>1, InitIInv, NextIInv, PTL DEF ConditionsSpec

(* A write that completeReconciliation skips would have written nothing     *)
(* new.                                                                     *)
THEOREM SkipIsSafe == ConditionsSpec => []SkippedWriteLosesNothing
<1>1. IInv => SkippedWriteLosesNothing
  BY DEF IInv, Finalized, NothingNew, SkippedWriteLosesNothing
<1> QED BY <1>1, InitIInv, NextIInv, PTL DEF ConditionsSpec

(* Unchanged conditions keep their transition time.                         *)
THEOREM TimesAreKept == ConditionsSpec => []TransitionTimeIsKept
<1>1. IInv => TransitionTimeIsKept
  BY DEF IInv, Finalized, TimesKept, TransitionTimeIsKept
<1> QED BY <1>1, InitIInv, NextIInv, PTL DEF ConditionsSpec

(* A change is reported only when there is one.                             *)
THEOREM ChangesAreReal == ConditionsSpec => []NoSpuriousChange
<1>1. IInv => NoSpuriousChange
  BY DEF IInv, Finalized, ChangeSeen, NoSpuriousChange
<1> QED BY <1>1, InitIInv, NextIInv, PTL DEF ConditionsSpec
=============================================================================
